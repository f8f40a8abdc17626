--------------------------- MODULE MCIntegrations ---------------------------
(* Constants of the run of Integrations. *)
EXTENDS Integrations

CONSTANTS r1, r2, r3, t1, t2, c1, c2, k1, k2, k3, l1, l2, l3, acme, o1, o2,
          i1, i2, w1, w2, b1, p1, p2, x1, x2

(* Two runs of one tenant, and one of a tenant of the same name. *)
MCRuns == {r1, r2, r3}
MCTenantOf == (r1 :> t1) @@ (r2 :> t1) @@ (r3 :> t2)
MCNameOf == (t1 :> acme) @@ (t2 :> acme)
MCSecretKeys == {o1, o2}
MCEnvironments == {Clients, {"gitea"}}

MCCallers == {c1, c2}
MCTokens == {k1, k2, k3}
MCLlmCalls == {l1, l2, l3}

(* Two companies of different tenants; one of the issues has no title.     *)
MCIssues == {i1, i2}
MCUnnamed == {i2}
MCCompanyTenant == (p1 :> x1) @@ (p2 :> x2)
MCReplicas == {w1, w2}
MCBootstraps == {b1}

(* Requests and tokens may be exchanged; no liveness is checked. *)
Interchangeable ==
    {f @@ g : f \in Permutations(MCCallers), g \in Permutations(MCTokens)}
=============================================================================
