---------------------------- MODULE ActionContract ----------------------------
(***************************************************************************)
(* What an external action promises to the rest of GrowthOS, with leases,  *)
(* attempts, retries and callbacks left out: it is requested once, may be  *)
(* handed over to n8n, and is concluded once; conclusion, the announcement *)
(* of it and, for a failure, the incident are one step; and its dispatch   *)
(* row is retired only when no dispatch is owed any more.                  *)
(***************************************************************************)
CONSTANT Actions

VARIABLES
    phase,      \* how far each action has come
    announced,  \* the actions whose outcome is in the outbox
    alerted,    \* the actions with an incident in the control plane
    retired     \* the actions whose dispatch row is consumed

contractVars == <<phase, announced, alerted, retired>>

Init ==
    /\ phase = [a \in Actions |-> "absent"]
    /\ announced = {}
    /\ alerted = {}
    /\ retired = {}

Request(a) ==
    /\ phase[a] = "absent"
    /\ phase' = [phase EXCEPT ![a] = "open"]
    /\ UNCHANGED <<announced, alerted, retired>>

HandOver(a) ==
    /\ phase[a] = "open"
    /\ phase' = [phase EXCEPT ![a] = "dispatched"]
    /\ UNCHANGED <<announced, alerted, retired>>

Conclude(a, outcome) ==
    /\ phase[a] \in {"open", "dispatched"}
    /\ phase' = [phase EXCEPT ![a] = outcome]
    /\ announced' = announced \cup {a}
    /\ alerted' = IF outcome = "failed" THEN alerted \cup {a} ELSE alerted
    /\ UNCHANGED retired

Retire(a) ==
    /\ phase[a] \in {"dispatched", "completed", "failed"}
    /\ retired' = retired \cup {a}
    /\ UNCHANGED <<phase, announced, alerted>>

Next ==
    \E a \in Actions :
        \/ Request(a)
        \/ HandOver(a)
        \/ \E outcome \in {"completed", "failed"} : Conclude(a, outcome)
        \/ Retire(a)

Spec == Init /\ [][Next]_contractVars
=============================================================================
