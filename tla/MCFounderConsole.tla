-------------------------- MODULE MCFounderConsole --------------------------
(* Constants of the run of FounderConsole. *)
EXTENDS FounderConsole

CONSTANTS p1, p2, i1, i2, c1, c2, k1, k2

MCCalls == {p1, p2}
MCIssues == {i1, i2}
MCComponents == {c1, c2}
MCKeys == {k1, k2}
MCActions == {"edited_then_approved"}

(* With everything configured, and with nothing. *)
MCSetups == {[database |-> c, token |-> c, postal |-> c] : c \in BOOLEAN}

(* Calls, issues, components and keys may be exchanged; no liveness is     *)
(* checked.                                                                *)
Interchangeable ==
    {f @@ g @@ h @@ k : f \in Permutations(MCCalls), g \in Permutations(MCIssues),
                        h \in Permutations(MCComponents), k \in Permutations(MCKeys)}

Session(R, a, d) == [routes |-> R, artifacts |-> a, decisions |-> d]

(* The decisions meet one view at a time. Three artifacts are more than    *)
(* twice Limit, three decisions more than DecisionScan.                    *)
MCSessions ==
    {Session({"list", "decide"}, 3, 3), Session({"summary", "decide"}, 2, 2),
     Session({"weekly", "decide"}, 2, 2), Session({"send"}, 2, 0),
     Session({"summary", "health", "incidents"}, 0, 0),
     Session({"getSettings", "patch"}, 0, 0), Session({"score", "motion"}, 0, 0)}

(* A product that is tried and bought online, and one that is sold. *)
Profile(t, w) ==
    [complexity |-> 1 - t, trial |-> t, acv |-> 1 - t, weeks |-> w, content |-> t,
     demand |-> t, community |-> 0, telemetry |-> 1, budget |-> 0]
MCProfiles == {Profile(1, 2), Profile(0, 24)}
=============================================================================
