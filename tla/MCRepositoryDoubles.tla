------------------------ MODULE MCRepositoryDoubles ------------------------
(* A small instance of RepositoryDoubles. *)
EXTENDS RepositoryDoubles

CONSTANTS t1, t2, k1, k2

MCTenants == {t1, t2}
MCKeys == {k1, k2}

MCFamilies == DOMAIN MemEmpty \cup {"evidence"}

(* Texts are sequences of pieces; the first two units join to the same text. *)
MCEntities == {<<<<"a">>, <<"b", ":", "c">>>>, <<<<"a", ":", "b">>, <<"c">>>>}

Observe(a, k, e, v, x, g) ==
    [assignment |-> a, key |-> k, entity |-> e, variant |-> v, value |-> x, guardrail |-> g]

MCObservations ==
    LET e == <<<<"a">>, <<"b", ":", "c">>>>
        f == <<<<"a", ":", "b">>, <<"c">>>>
    IN  {Observe(Null, 1, e, "a", 2, FALSE), Observe(Null, 2, e, "b", 6, FALSE),
         Observe(Null, 2, e, "b", 4, FALSE), Observe(Null, 3, f, "b", 3, FALSE),
         Observe(Null, 4, e, "a", 2, TRUE), Observe(Null, 5, e, "b", 4, TRUE),
         Observe(1, 6, e, "b", 2, FALSE)}

(* One pair of the samples and one of the signals join to the same text. *)
MCSamples ==
    {[component |-> c, key |-> k, state |-> "healthy"] :
        c \in {<<"a">>, <<"a", ":", "b">>}, k \in {<<"b", ":", "c">>, <<"c">>}}

MCSignals ==
    {[source |-> p[1], ext |-> p[2]] :
        p \in MCEntities \cup {<<<<"a">>, x>> : x \in {Null, Empty, <<"c">>}}
              \cup {<<<<"a", ":", "b">>, Empty>>}}

Request(t, a, k, d) == [tenant |-> t, action |-> a, key |-> k, digest |-> d]

MCRequests ==
    {Request(t1, k1, k1, 0), Request(t1, k1, k1, 1), Request(t1, k2, k1, 0),
     Request(t2, k1, k1, 0)}

MCSettings == {k1 :> 1, k1 :> 2, k2 :> 1}

MCMaxCalls ==
    [f \in MCFamilies |-> IF f = "proposals" THEN 6
                          ELSE IF f \in {"incidents", "playbooks", "actions", "evidence"} THEN 5 ELSE 4]

=============================================================================
