---------------------------- MODULE Experiments -----------------------------
(***************************************************************************)
(* One experiment of a tenant, behind the routes of                        *)
(* apps/api/src/routes/experiments.ts: its life cycle, the assignment of   *)
(* entities to variants, and the observations made of them.  A call reads  *)
(* the experiment twice, once in the route and once at the start of the    *)
(* transaction of the repository, and then writes.  The transactions are   *)
(* READ COMMITTED and lock nothing before they write, so other calls       *)
(* commit in between.                                                      *)
(***************************************************************************)
EXTENDS Integers

CONSTANTS
    Calls,     \* concurrent calls of the routes
    Entities,  \* entity type and id of experiment units
    Keys,      \* idempotency keys of observations
    None,      \* NULL
    MaxMoves   \* committed life-cycle changes, the clock of the model

VARIABLES
    status,      \* experiments.status, or "absent"
    winner,      \* experiments.winner
    startedAt,   \* experiments.started_at, None or a value of the clock
    endedAt,     \* experiments.ended_at
    assignment,  \* experiment_assignments.variant of an entity
    observed,    \* the experiment_observations row of a key
    call,        \* what a call is doing
    moves        \* the clock

experiment == <<status, winner, startedAt, endedAt>>
vars == <<experiment, assignment, observed, call, moves>>

Variants == {"a", "b"}
Winners == Variants \cup {"inconclusive"}

experimentTransitions ==
    [draft       |-> {"running", "abandoned"},
     running     |-> {"paused", "concluded", "abandoned"},
     paused      |-> {"running", "abandoned"},
     concluded   |-> {"promoted", "abandoned"},
     abandoned   |-> {},
     promoted    |-> {"rolled_back"},
     rolled_back |-> {}]

Statuses == DOMAIN experimentTransitions

\* Bodies of the three kinds of calls.  A linked observation names its assignment.
TransitionBodies ==
    [kind : {"transition"}, from : Statuses, to : Statuses, winner : Winners \cup {None}]
AssignBodies == [kind : {"assign"}, entity : Entities, variant : Variants]
ObserveBodies ==
    [kind : {"observe"}, key : Keys, entity : Entities, variant : Variants,
     linked : BOOLEAN]
Bodies == TransitionBodies \cup AssignBodies \cup ObserveBodies

Observations == [entity : Entities, variant : Variants, linked : BOOLEAN]

ASSUME ExperimentsAssumption ==
    /\ MaxMoves \in Nat
    /\ None \notin Winners
    /\ None \notin Nat
    /\ None \notin Observations

Dates == 0..MaxMoves \cup {None}

Free == [pc |-> "free"]

CheckedCalls == [pc : {"checked"}, body : Bodies]

\* After its first read of the transaction a call goes on with what it has read.
LoadedCalls ==
    [pc : {"loaded"}, body : Bodies, winner : Winners \cup {None}, startedAt : Dates,
     endedAt : Dates, at : 0..MaxMoves]

Init ==
    /\ status = "absent" /\ winner = None /\ startedAt = None /\ endedAt = None
    /\ assignment = [e \in Entities |-> None]
    /\ observed = [k \in Keys |-> None]
    /\ call = [c \in Calls |-> Free]
    /\ moves = 0

-----------------------------------------------------------------------------
canAssign == status \in {"draft", "running"}

canRecordObservation == status \in {"running", "concluded", "promoted", "rolled_back"}

isLegalTransition(from, to) == to \in experimentTransitions[from]

\* The check of the route, and again, but for the table, of the transaction.
Allowed(body) ==
    CASE body.kind = "transition" -> status = body.from
      [] body.kind = "assign"     -> canAssign
      [] body.kind = "observe"    -> canRecordObservation

\* Mutant: the variant is not compared.
MatchesEntityOnly(body) == body.linked => assignment[body.entity] # None

\* The assignment an observation names is of its entity and its variant.
Matches(body) == body.linked => assignment[body.entity] = body.variant

\* POST /: a second call under the same key finds the row and changes nothing.
Create(initialStatus, given) ==
    /\ status = "absent"
    /\ status' = initialStatus
    /\ startedAt' = IF given \/ initialStatus = "running" THEN moves ELSE None
    /\ UNCHANGED <<winner, endedAt, assignment, observed, call, moves>>

\* A call passes the checks of its route.
Check(c, body) ==
    /\ call[c] = Free
    /\ Allowed(body)
    /\ body.kind = "transition" => isLegalTransition(body.from, body.to)
    /\ call' = [call EXCEPT ![c] = [pc |-> "checked", body |-> body]]
    /\ UNCHANGED <<experiment, assignment, observed, moves>>

\* The transaction of the repository begins and reads the row; a check that fails now
\* ends the call with a conflict.
Load(c) ==
    /\ call[c].pc = "checked"
    /\ LET body == call[c].body IN
       call' = [call EXCEPT ![c] =
           IF Allowed(body) /\ (body.kind = "observe" => Matches(body))
           THEN [pc |-> "loaded", body |-> body, winner |-> winner,
                 startedAt |-> startedAt, endedAt |-> endedAt, at |-> moves]
           ELSE Free]
    /\ UNCHANGED <<experiment, assignment, observed, moves>>

\* Mutant: the update is not conditional on the status that was read.
StillFromAny(body) == TRUE

StillFrom(body) == status = body.from

StartDate(read, to) == IF to = "running" /\ read = None THEN moves + 1 ELSE read

IsConclusion(to) == to \in {"concluded", "abandoned"}

\* Mutant: a winner that is not given is cleared.
WinnerGiven(given, read) == given

WinnerAfter(given, read) == IF given # None THEN given ELSE read

\* The update of transition.  A caller may give another end date.
Transition(c) ==
    LET body == call[c].body IN
    /\ call[c].pc = "loaded" /\ body.kind = "transition"
    /\ \/ /\ StillFrom(body)
          /\ moves < MaxMoves
          /\ moves' = moves + 1
          /\ status' = body.to
          /\ winner' = WinnerAfter(body.winner, call[c].winner)
          /\ startedAt' = StartDate(call[c].startedAt, body.to)
          /\ IF IsConclusion(body.to)
             THEN endedAt' \in {moves + 1,
                                IF call[c].endedAt = None THEN moves + 1
                                ELSE call[c].endedAt}
             ELSE endedAt' = call[c].endedAt
       \/ ~StillFrom(body) /\ UNCHANGED <<experiment, moves>>
    /\ call' = [call EXCEPT ![c] = Free]
    /\ UNCHANGED <<assignment, observed>>

\* ON CONFLICT DO NOTHING: the first assignment of an entity is its assignment.
AssignedFirst(old, variant) == IF old = None THEN variant ELSE old

Assign(c) ==
    LET body == call[c].body IN
    /\ call[c].pc = "loaded" /\ body.kind = "assign"
    /\ assignment' = [assignment EXCEPT ![body.entity] = AssignedFirst(@, body.variant)]
    /\ call' = [call EXCEPT ![c] = Free]
    /\ UNCHANGED <<experiment, observed, moves>>

RecordObservation(c) ==
    LET body == call[c].body IN
    /\ call[c].pc = "loaded" /\ body.kind = "observe"
    /\ observed' = [observed EXCEPT ![body.key] =
           IF @ = None THEN [entity |-> body.entity, variant |-> body.variant,
                             linked |-> body.linked]
           ELSE @]
    /\ call' = [call EXCEPT ![c] = Free]
    /\ UNCHANGED <<experiment, assignment, moves>>

Next ==
    \/ \E s \in {"draft", "running"}, given \in BOOLEAN : Create(s, given)
    \/ \E c \in Calls :
          \/ \E body \in Bodies : Check(c, body)
          \/ Load(c) \/ Transition(c) \/ Assign(c) \/ RecordObservation(c)

Spec == Init /\ [][Next]_vars

-----------------------------------------------------------------------------
(* Properties *)

\* Every variable has its type, between the steps of any calls.
TypeOK ==
    /\ status \in Statuses \cup {"absent"}
    /\ winner \in Winners \cup {None}
    /\ startedAt \in Dates /\ endedAt \in Dates
    /\ assignment \in [Entities -> Variants \cup {None}]
    /\ observed \in [Keys -> Observations \cup {None}]
    /\ call \in [Calls -> {Free} \cup CheckedCalls \cup LoadedCalls]
    /\ moves \in 0..MaxMoves

\* An experiment that has run has a start, one that is over has an end, and there are
\* observations only of an experiment that has run, although the status is read before
\* other calls change it.
DatesFollowStatus ==
    /\ status \in {"running", "paused", "concluded", "promoted", "rolled_back"} =>
          startedAt # None
    /\ status \in {"concluded", "abandoned", "promoted", "rolled_back"} =>
          endedAt # None
    /\ (\E k \in Keys : observed[k] # None) => startedAt # None

\* Evidence that names an assignment is filed under the variant of that assignment,
\* now and not only when it was recorded.
LinkedObservationMatches ==
    \A k \in Keys : observed[k] # None /\ observed[k].linked =>
        assignment[observed[k].entity] = observed[k].variant

\* Every change of the status is one that the table allows, also when calls that passed
\* the checks before write one after the other (experiments.ts:386-387): the later one
\* finds another status and changes nothing, or the status it read has come back.
StatusFollowsTable ==
    [][status' # status /\ status # "absent" => isLegalTransition(status, status')]_vars

\* Pausing and resuming, and calls that overtake each other, leave the start alone.
StartIsKept == [][startedAt # None => startedAt' = startedAt]_vars

\* A winner, once set, is replaced by another winner or stays.  It is lost only to a
\* call that read the row before it was set and still found its status when it wrote:
\* the experiment left the status and came back between the two.
WinnerLostOnlyToReturn ==
    [][winner # None /\ winner' = None =>
          \E c \in Calls : call[c] # Free /\ call'[c] = Free /\ call[c].at # moves]_vars

\* The variant of an entity never changes.
AssignmentIsSticky ==
    [][\A e \in Entities : assignment[e] # None => assignment'[e] = assignment[e]]_vars
=============================================================================
