------------------------ MODULE ExternalActionsProofs ------------------------
(***************************************************************************)
(* Theorems about ExternalActions, for any sets of actions and publishers  *)
(* and any number of faults.                                               *)
(***************************************************************************)
EXTENDS ExternalActions, TLAPS

\* Every variable keeps its type in every behaviour: the repository's transactions
\* and the publisher's steps write only values the columns and the steps know.
THEOREM TypeCorrect == Spec => []TypeOK
<1>1. Init => TypeOK
  BY ActionsAssumption DEF Init, TypeOK, States
<1>2. TypeOK /\ [Next]_vars => TypeOK'
  <2> SUFFICES ASSUME TypeOK, [Next]_vars
               PROVE  TypeOK'
    OBVIOUS
  <2> USE ActionsAssumption
      DEF TypeOK, dbVars, workerVars, envVars
  <2>0. /\ \A n \in Nat : \A t \in {"requested", "dispatch_started"} \cup Results :
               Event(t, n) \in Events
        /\ \A n \in Nat : \A t \in RowTypes : [type |-> t, n |-> n] \in Rows
    BY DEF Event, Events, Rows
  <2>1. ASSUME NEW p \in Publishers, NEW a \in Actions, ListUnconsumed(p, a)
        PROVE  TypeOK'
    BY <2>1 DEF ListUnconsumed
  <2>2. ASSUME NEW p \in Publishers, ClaimDispatch(p)
        PROVE  TypeOK'
    <3>1. CASE Claimable(job[p]) /\ UNCHANGED <<outbox, row, incident>>
      <4>1. attempts[job[p]] + 1 \in Nat
        OBVIOUS
      <4>2. Event("dispatch_started", attempts[job[p]] + 1) \in Events
        BY <2>0, <4>1
      <4>3. /\ state' \in [Actions -> States]
            /\ pc' \in [Publishers ->
                         {"idle", "listed", "claimed", "answered", "settled"}]
        BY <2>2, <3>1 DEF ClaimDispatch, States
      <4>4. /\ attempts' \in [Actions -> Nat]
            /\ attempt' \in [Publishers -> Nat]
        BY <2>2, <3>1, <4>1 DEF ClaimDispatch
      <4>5. ledger' \in [Actions -> SUBSET Events]
        BY <2>2, <3>1, <4>2 DEF ClaimDispatch
      <4>6. /\ leaseOwner' \in [Actions -> Publishers \cup {NoOwner}]
            /\ leaseLive' \in [Actions -> BOOLEAN]
            /\ retryDue' \in [Actions -> BOOLEAN]
        <5>1. /\ leaseOwner' = [leaseOwner EXCEPT ![job[p]] = p]
              /\ leaseLive' = [leaseLive EXCEPT ![job[p]] = TRUE]
              /\ retryDue' = [retryDue EXCEPT ![job[p]] = TRUE]
          BY <2>2, <3>1, Zenon DEF ClaimDispatch
        <5> QED
          BY <5>1
      <4>7. UNCHANGED <<job, answer, envVars>>
        BY <2>2 DEF ClaimDispatch
      <4> QED
        BY <3>1, <4>3, <4>4, <4>5, <4>6, <4>7
    <3>2. CASE ~Claimable(job[p])
      BY <2>2, <3>2 DEF ClaimDispatch
    <3> QED
      BY <2>2, <3>1, <3>2 DEF ClaimDispatch
  <2>3. ASSUME NEW p \in Publishers, Dispatch(p)
        PROVE  TypeOK'
    <3>1. runs' \in [Actions -> SUBSET Nat]
      BY <2>3 DEF Dispatch
    <3>2. faults' \in 0..MaxFaults
      BY <2>3 DEF Dispatch
    <3> QED
      BY <2>3, <3>1, <3>2 DEF Dispatch
  <2>4. ASSUME NEW p \in Publishers, RecordDispatchAccepted(p)
        PROVE  TypeOK'
    <3>1. CASE TooLate(p, "settled")
      BY <2>4, <3>1 DEF RecordDispatchAccepted, TooLate
    <3>2. CASE HoldsLease(p, job[p])
      <4>1. /\ Event("dispatch_accepted", attempts[job[p]]) \in Events
            /\ [type |-> "external_action.dispatched", n |-> attempts[job[p]]] \in Rows
        BY <2>0 DEF Results, RowTypes
      <4>2. ledger' \in [Actions -> SUBSET Events] /\ outbox' \in [Actions -> SUBSET Rows]
        BY <2>4, <3>2, <4>1 DEF RecordDispatchAccepted, TooLate
      <4> QED
        BY <2>4, <3>2, <4>2, ZenonT(40)
        DEF RecordDispatchAccepted, TooLate, ReleaseLease, States
    <3> QED
      BY <2>4, <3>1, <3>2 DEF RecordDispatchAccepted
  <2>5. ASSUME NEW p \in Publishers, ScheduleDispatchRetry(p)
        PROVE  TypeOK'
    <3>1. CASE TooLate(p, "idle")
      BY <2>5, <3>1 DEF ScheduleDispatchRetry, TooLate
    <3>2. CASE HoldsLease(p, job[p])
      <4>1. /\ Event("dispatch_retry_scheduled", attempts[job[p]]) \in Events
            /\ [type |-> "external_action.retry_scheduled", n |-> attempts[job[p]]] \in Rows
        BY <2>0 DEF Results, RowTypes
      <4>2. ledger' \in [Actions -> SUBSET Events] /\ outbox' \in [Actions -> SUBSET Rows]
        BY <2>5, <3>2, <4>1 DEF ScheduleDispatchRetry, TooLate
      <4> QED
        BY <2>5, <3>2, <4>2, ZenonT(40)
        DEF ScheduleDispatchRetry, TooLate, ReleaseLease, States
    <3> QED
      BY <2>5, <3>1, <3>2 DEF ScheduleDispatchRetry
  <2>6. ASSUME NEW p \in Publishers, FailDispatch(p)
        PROVE  TypeOK'
    <3>1. CASE TooLate(p, "settled")
      BY <2>6, <3>1 DEF FailDispatch, TooLate
    <3>2. CASE HoldsLease(p, job[p])
      <4>1. /\ Event("dispatch_failed", attempts[job[p]]) \in Events
            /\ [type |-> "external_action.failed", n |-> 0] \in Rows
            /\ IncidentRow \in Rows
        BY <2>0 DEF Results, RowTypes, IncidentRow
      <4>2. ledger' \in [Actions -> SUBSET Events] /\ outbox' \in [Actions -> SUBSET Rows]
        BY <2>6, <3>2, <4>1 DEF FailDispatch, TooLate
      <4>3. /\ state' \in [Actions -> States]
            /\ incident' \in [Actions -> IncidentStatus \cup {"none"}]
        BY <2>6, <3>2, SMTT(20)
        DEF FailDispatch, TooLate, ReleaseLease, OpenIncident, States, IncidentStatus
      <4>4. /\ leaseOwner' \in [Actions -> Publishers \cup {NoOwner}]
            /\ leaseLive' \in [Actions -> BOOLEAN]
            /\ retryDue' \in [Actions -> BOOLEAN]
        BY <2>6, <3>2 DEF FailDispatch, TooLate, ReleaseLease
      <4>5. /\ pc' \in [Publishers ->
                         {"idle", "listed", "claimed", "answered", "settled"}]
            /\ UNCHANGED <<attempts, row, job, attempt, answer, envVars>>
        BY <2>6, <3>2 DEF FailDispatch, TooLate
      <4> QED
        BY <4>2, <4>3, <4>4, <4>5
    <3> QED
      BY <2>6, <3>1, <3>2 DEF FailDispatch
  <2>7. ASSUME NEW p \in Publishers, MarkConsumed(p)
        PROVE  TypeOK'
    BY <2>7 DEF MarkConsumed
  <2>8. ASSUME NEW p \in Publishers, Crash(p)
        PROVE  TypeOK'
    BY <2>8 DEF Crash
  <2>9. ASSUME NEW a \in Actions, EnqueueRequested(a)
        PROVE  TypeOK'
    BY <2>0, <2>9 DEF EnqueueRequested, States
  <2>10. ASSUME NEW a \in Actions, NEW n \in runs[a], NEW type \in Outcomes,
                SendCallback(a, n, type)
         PROVE  TypeOK'
    BY <2>10 DEF SendCallback, Callbacks, Event
  <2>11. ASSUME NEW a \in Actions, NEW c \in callbacks[a], RecordOutcome(a, c)
         PROVE  TypeOK'
    <3>1. c \in Events /\ c.n \in Nat
      BY <2>11 DEF Callbacks, Events
    <3>2. /\ state' \in [Actions -> States]
          /\ leaseOwner' \in [Actions -> Publishers \cup {NoOwner}]
          /\ leaseLive' \in [Actions -> BOOLEAN]
          /\ retryDue' \in [Actions -> BOOLEAN]
      BY <2>11 DEF RecordOutcome, ReleaseLease, OutcomeState, States
    <3>3. ledger' \in [Actions -> SUBSET Events]
      BY <2>11, <3>1 DEF RecordOutcome
    <3>4. outbox' \in [Actions -> SUBSET Rows]
      <4>1. /\ [type |-> "external_action.completed", n |-> c.n] \in Rows
            /\ [type |-> "external_action.failed", n |-> c.n] \in Rows
            /\ IncidentRow \in Rows
        BY <2>0, <3>1 DEF IncidentRow, RowTypes
      <4> QED
        BY <2>11, <4>1 DEF RecordOutcome
    <3>5. incident' \in [Actions -> IncidentStatus \cup {"none"}]
      BY <2>11 DEF RecordOutcome, OpenIncident, IncidentStatus
    <3> QED
      BY <2>11, <3>2, <3>3, <3>4, <3>5 DEF RecordOutcome
  <2>12. ASSUME NEW a \in Actions, NEW to \in IncidentStatus, TransitionIncident(a, to)
         PROVE  TypeOK'
    BY <2>12 DEF TransitionIncident
  <2>13. ASSUME NEW a \in Actions, LeaseExpires(a)
         PROVE  TypeOK'
    BY <2>13 DEF LeaseExpires
  <2>14. ASSUME NEW a \in Actions, RetryComesDue(a)
         PROVE  TypeOK'
    BY <2>14 DEF RetryComesDue
  <2>15. CASE UNCHANGED vars
    BY <2>15 DEF vars
  <2> QED
    BY <2>1, <2>2, <2>3, <2>4, <2>5, <2>6, <2>7, <2>8, <2>9, <2>10, <2>11,
       <2>12, <2>13, <2>14, <2>15 DEF Next, PublisherStep
<1> QED
  BY <1>1, <1>2, PTL DEF Spec

-----------------------------------------------------------------------------
\* The record of an action that only eight of the steps touch.
recordVars == <<state, attempts, leaseOwner, ledger, outbox, incident>>

\* What a step can be, seen from the record of the actions.
RecordStep ==
    \/ \E a \in Actions : EnqueueRequested(a)
    \/ \E p \in Publishers : ClaimDispatch(p)
    \/ \E p \in Publishers : RecordDispatchAccepted(p)
    \/ \E p \in Publishers : ScheduleDispatchRetry(p)
    \/ \E p \in Publishers : FailDispatch(p)
    \/ \E a \in Actions : \E c \in callbacks[a] : RecordOutcome(a, c)
    \/ \E a \in Actions, to \in IncidentStatus : TransitionIncident(a, to)
    \/ UNCHANGED recordVars

\* Every step is a step on the record of the actions or leaves it alone.
LEMMA StepIsRecordStep == [Next]_vars => RecordStep
  BY DEF Next, PublisherStep, RecordStep, recordVars, vars, dbVars, workerVars, envVars,
         ListUnconsumed, Dispatch, MarkConsumed, Crash, SendCallback, LeaseExpires,
         RetryComesDue

\* An incident is open, acknowledged, mitigated or resolved, and its notification is
\* in the outbox, exactly for the failed actions: the failing transaction writes all
\* three, and no other step fails an action or touches an incident row.
LEMMA FailureHasIncidentInductive ==
  TypeOK /\ FailureHasIncident /\ [Next]_vars => FailureHasIncident'
<1> SUFFICES ASSUME TypeOK, FailureHasIncident, RecordStep, NEW a \in Actions
             PROVE  /\ state'[a] = "failed" <=> incident'[a] # "none"
                    /\ state'[a] = "failed" <=> IncidentRow \in outbox'[a]
  BY StepIsRecordStep DEF FailureHasIncident, IncidentRow
<1> USE DEF TypeOK, FailureHasIncident
<1>1. ASSUME NEW b \in Actions, EnqueueRequested(b)
      PROVE  /\ state'[a] = "failed" <=> incident'[a] # "none"
             /\ state'[a] = "failed" <=> IncidentRow \in outbox'[a]
  BY <1>1 DEF EnqueueRequested
<1>2. ASSUME NEW p \in Publishers, ClaimDispatch(p)
      PROVE  /\ state'[a] = "failed" <=> incident'[a] # "none"
             /\ state'[a] = "failed" <=> IncidentRow \in outbox'[a]
  BY <1>2 DEF ClaimDispatch, Claimable, dbVars
<1>3. ASSUME NEW p \in Publishers, RecordDispatchAccepted(p)
      PROVE  /\ state'[a] = "failed" <=> incident'[a] # "none"
             /\ state'[a] = "failed" <=> IncidentRow \in outbox'[a]
  BY <1>3 DEF RecordDispatchAccepted, TooLate, HoldsLease, ReleaseLease, IncidentRow, dbVars
<1>4. ASSUME NEW p \in Publishers, ScheduleDispatchRetry(p)
      PROVE  /\ state'[a] = "failed" <=> incident'[a] # "none"
             /\ state'[a] = "failed" <=> IncidentRow \in outbox'[a]
  BY <1>4 DEF ScheduleDispatchRetry, TooLate, HoldsLease, ReleaseLease, IncidentRow, dbVars
<1>5. ASSUME NEW p \in Publishers, FailDispatch(p)
      PROVE  /\ state'[a] = "failed" <=> incident'[a] # "none"
             /\ state'[a] = "failed" <=> IncidentRow \in outbox'[a]
  BY <1>5 DEF FailDispatch, TooLate, HoldsLease, ReleaseLease, OpenIncident, dbVars
<1>6. ASSUME NEW b \in Actions, NEW c \in callbacks[b], RecordOutcome(b, c)
      PROVE  /\ state'[a] = "failed" <=> incident'[a] # "none"
             /\ state'[a] = "failed" <=> IncidentRow \in outbox'[a]
  BY <1>6 DEF RecordOutcome, CallbackEligible, ReleaseLease, OutcomeState, OpenIncident,
              IncidentRow
<1>7. ASSUME NEW b \in Actions, NEW to \in IncidentStatus, TransitionIncident(b, to)
      PROVE  /\ state'[a] = "failed" <=> incident'[a] # "none"
             /\ state'[a] = "failed" <=> IncidentRow \in outbox'[a]
  BY <1>7 DEF TransitionIncident, IncidentStatus
<1>8. CASE UNCHANGED recordVars
  BY <1>8 DEF recordVars
<1> QED
  BY <1>1, <1>2, <1>3, <1>4, <1>5, <1>6, <1>7, <1>8 DEF RecordStep

\* FailureHasIncident holds in every reachable state.
THEOREM FailureAlwaysHasIncident == Spec => []FailureHasIncident
<1>1. Init => FailureHasIncident
  BY DEF Init, FailureHasIncident
<1> QED
  BY <1>1, TypeCorrect, FailureHasIncidentInductive, PTL DEF Spec

-----------------------------------------------------------------------------
\* A publisher that is about to consume a row has seen its action settled.
ConsumesOnlySettled ==
    \A p \in Publishers : pc[p] = "settled" => state[job[p]] \in Settled

\* No step unsettles an action: claimDispatch, the three recording methods and
\* recordOutcome all refuse to move a settled action to an unsettled state.
LEMMA SettledIsStable ==
  ASSUME TypeOK, [Next]_vars, NEW a \in Actions, state[a] \in Settled
  PROVE  state'[a] \in Settled
<1> USE DEF TypeOK, Settled
<1>1. RecordStep
  BY StepIsRecordStep
<1>2. ASSUME NEW b \in Actions, EnqueueRequested(b)
      PROVE  state'[a] \in Settled
  BY <1>2 DEF EnqueueRequested
<1>3. ASSUME NEW p \in Publishers, ClaimDispatch(p)
      PROVE  state'[a] \in Settled
  BY <1>3 DEF ClaimDispatch, Claimable, dbVars
<1>4. ASSUME NEW p \in Publishers,
             RecordDispatchAccepted(p) \/ ScheduleDispatchRetry(p) \/ FailDispatch(p)
      PROVE  state'[a] \in Settled
  BY <1>4 DEF RecordDispatchAccepted, ScheduleDispatchRetry, FailDispatch, TooLate,
              HoldsLease, ReleaseLease, dbVars
<1>5. ASSUME NEW b \in Actions, NEW c \in callbacks[b], RecordOutcome(b, c)
      PROVE  state'[a] \in Settled
  BY <1>5 DEF RecordOutcome, ReleaseLease, OutcomeState
<1>6. ASSUME NEW b \in Actions, NEW to \in IncidentStatus, TransitionIncident(b, to)
      PROVE  state'[a] \in Settled
  BY <1>6 DEF TransitionIncident
<1>7. CASE UNCHANGED recordVars
  BY <1>7 DEF recordVars
<1> QED
  BY <1>1, <1>2, <1>3, <1>4, <1>5, <1>6, <1>7 DEF RecordStep

\* A publisher reaches "settled" only through a claim or a recording call that found
\* or made the action settled.
LEMMA ConsumesOnlySettledInductive ==
  TypeOK /\ ConsumesOnlySettled /\ [Next]_vars => ConsumesOnlySettled'
<1> SUFFICES ASSUME TypeOK, ConsumesOnlySettled, [Next]_vars,
                    NEW p \in Publishers, pc'[p] = "settled"
             PROVE  state'[job'[p]] \in Settled
  BY DEF ConsumesOnlySettled, Settled
<1> USE DEF TypeOK, ConsumesOnlySettled
<1>1. CASE pc[p] = "settled" /\ job'[p] = job[p]
  BY <1>1, SettledIsStable
<1>2. ASSUME NEW q \in Publishers, ClaimDispatch(q)
      PROVE  state'[job'[p]] \in Settled
  <2>1. CASE p = q
    BY <1>2, <2>1 DEF ClaimDispatch, dbVars
  <2>2. CASE p # q
    BY <1>1, <1>2, <2>2 DEF ClaimDispatch
  <2> QED
    BY <2>1, <2>2
<1>3. ASSUME NEW q \in Publishers,
             RecordDispatchAccepted(q) \/ ScheduleDispatchRetry(q) \/ FailDispatch(q)
      PROVE  state'[job'[p]] \in Settled
  <2>1. CASE p = q
    BY <1>3, <2>1 DEF RecordDispatchAccepted, ScheduleDispatchRetry, FailDispatch,
                      TooLate, ReleaseLease, Settled, dbVars
  <2>2. CASE p # q
    BY <1>1, <1>3, <2>2 DEF RecordDispatchAccepted, ScheduleDispatchRetry, FailDispatch,
                            TooLate
  <2> QED
    BY <2>1, <2>2
<1>4. ASSUME NEW q \in Publishers,
             (\E a \in Actions : ListUnconsumed(q, a)) \/ Dispatch(q)
                 \/ MarkConsumed(q) \/ Crash(q)
      PROVE  state'[job'[p]] \in Settled
  BY <1>1, <1>4 DEF ListUnconsumed, Dispatch, MarkConsumed, Crash
<1>5. CASE UNCHANGED <<pc, job>>
  BY <1>1, <1>5
<1> QED
  BY <1>2, <1>3, <1>4, <1>5
  DEF Next, PublisherStep, vars, workerVars, EnqueueRequested, SendCallback,
      RecordOutcome, TransitionIncident, LeaseExpires, RetryComesDue

\* A row is consumed by a publisher that is sure the action is settled, and the
\* action stays so.
LEMMA NoStrandedActionInductive ==
  TypeOK /\ ConsumesOnlySettled /\ NoStrandedAction /\ [Next]_vars => NoStrandedAction'
<1> SUFFICES ASSUME TypeOK, ConsumesOnlySettled, NoStrandedAction, [Next]_vars,
                    NEW a \in Actions
             PROVE  /\ state'[a] = "absent" <=> row'[a] = "none"
                    /\ row'[a] = "consumed" => state'[a] \in Settled
  BY DEF NoStrandedAction, Settled
<1> USE DEF TypeOK, NoStrandedAction
<1>1. ASSUME NEW b \in Actions, EnqueueRequested(b)
      PROVE  /\ state'[a] = "absent" <=> row'[a] = "none"
             /\ row'[a] = "consumed" => state'[a] \in Settled
  BY <1>1 DEF EnqueueRequested, Settled
<1>2. ASSUME NEW p \in Publishers, MarkConsumed(p)
      PROVE  /\ state'[a] = "absent" <=> row'[a] = "none"
             /\ row'[a] = "consumed" => state'[a] \in Settled
  BY <1>2 DEF MarkConsumed, ConsumesOnlySettled, Settled
<1>3. CASE UNCHANGED row
  <2>1. state'[a] = "absent" <=> state[a] = "absent"
    <3>1. CASE \E b \in Actions : EnqueueRequested(b)
      BY <1>1, <1>3, <3>1
    <3>2. CASE ~ \E b \in Actions : EnqueueRequested(b)
      BY <3>2, StepIsRecordStep
      DEF RecordStep, ClaimDispatch, Claimable, RecordDispatchAccepted,
          ScheduleDispatchRetry, FailDispatch, TooLate, HoldsLease, ReleaseLease,
          RecordOutcome, CallbackEligible, OutcomeState, TransitionIncident,
          recordVars, dbVars
    <3> QED
      BY <3>1, <3>2
  <2> QED
    BY <1>3, <2>1, SettledIsStable
<1> QED
  BY <1>1, <1>2, <1>3
  DEF Next, PublisherStep, vars, dbVars, ListUnconsumed, ClaimDispatch, Dispatch,
      RecordDispatchAccepted, ScheduleDispatchRetry, FailDispatch, TooLate, Crash,
      SendCallback, RecordOutcome, TransitionIncident, LeaseExpires, RetryComesDue

\* NoStrandedAction holds in every reachable state, for any number of publishers,
\* crashes and lost leases.
THEOREM NeverStranded == Spec => []NoStrandedAction
<1>1. Init => ConsumesOnlySettled /\ NoStrandedAction
  BY DEF Init, ConsumesOnlySettled, NoStrandedAction
<1> QED
  BY <1>1, TypeCorrect, ConsumesOnlySettledInductive, NoStrandedActionInductive, PTL
  DEF Spec

-----------------------------------------------------------------------------
\* A step that may write an outcome: failDispatch under its lease, or a callback.
LEMMA OutcomeIsFinalStep ==
  ASSUME TypeOK, [Next]_vars, NEW a \in Actions, state[a] \in Final
  PROVE  state'[a] = state[a]
<1> USE DEF TypeOK, Final
<1>1. RecordStep
  BY StepIsRecordStep
<1>2. ASSUME NEW b \in Actions, EnqueueRequested(b)
      PROVE  state'[a] = state[a]
  BY <1>2 DEF EnqueueRequested
<1>3. ASSUME NEW p \in Publishers, ClaimDispatch(p)
      PROVE  state'[a] = state[a]
  BY <1>3 DEF ClaimDispatch, Claimable, dbVars
<1>4. ASSUME NEW p \in Publishers,
             RecordDispatchAccepted(p) \/ ScheduleDispatchRetry(p) \/ FailDispatch(p)
      PROVE  state'[a] = state[a]
  BY <1>4 DEF RecordDispatchAccepted, ScheduleDispatchRetry, FailDispatch, TooLate,
              HoldsLease, ReleaseLease, dbVars
<1>5. ASSUME NEW b \in Actions, NEW c \in callbacks[b], RecordOutcome(b, c)
      PROVE  state'[a] = state[a]
  BY <1>5 DEF RecordOutcome, CallbackEligible, ReleaseLease
<1>6. ASSUME NEW b \in Actions, NEW to \in IncidentStatus, TransitionIncident(b, to)
      PROVE  state'[a] = state[a]
  BY <1>6 DEF TransitionIncident
<1>7. CASE UNCHANGED recordVars
  BY <1>7 DEF recordVars
<1> QED
  BY <1>1, <1>2, <1>3, <1>4, <1>5, <1>6, <1>7 DEF RecordStep

\* The outcome of an action never changes: neither a late answer, nor another
\* callback, nor a repeated request replaces it.
THEOREM OutcomeNeverChanges == Spec => OutcomeIsFinal
<1>1. TypeOK /\ [Next]_vars =>
        [\A a \in Actions : state[a] \in Final => state'[a] = state[a]]_vars
  BY OutcomeIsFinalStep
<1> QED
  BY <1>1, TypeCorrect, PTL DEF Spec, OutcomeIsFinal

\* No step reopens an incident.  The upsert of emitFailureIncidentOutbox would, but
\* by FailureHasIncident an action that has an incident has already failed, and a
\* failed action is neither failed again nor called back.
THEOREM IncidentsMoveForward == Spec => IncidentMovesForward
<1>1. ASSUME TypeOK, FailureHasIncident, [Next]_vars, NEW a \in Actions,
             incident[a] \in IncidentStatus, incident'[a] # incident[a]
      PROVE  incident'[a] \in incidentTransitions[incident[a]]
  <2> USE <1>1 DEF TypeOK
  <2>1. RecordStep
    BY StepIsRecordStep
  <2>2. state[a] = "failed"
    BY DEF FailureHasIncident, IncidentStatus
  <2>3. ASSUME NEW b \in Actions, NEW to \in IncidentStatus, TransitionIncident(b, to)
        PROVE  incident'[a] \in incidentTransitions[incident[a]]
    BY <2>3 DEF TransitionIncident
  <2>4. ASSUME NEW p \in Publishers, FailDispatch(p)
        PROVE  FALSE
    BY <2>2, <2>4 DEF FailDispatch, TooLate, HoldsLease, OpenIncident, dbVars
  <2>5. ASSUME NEW b \in Actions, NEW c \in callbacks[b], RecordOutcome(b, c)
        PROVE  FALSE
    BY <2>2, <2>5 DEF RecordOutcome, CallbackEligible, OpenIncident
  <2> QED
    BY <2>1, <2>3, <2>4, <2>5
    DEF RecordStep, EnqueueRequested, ClaimDispatch, RecordDispatchAccepted,
        ScheduleDispatchRetry, TooLate, recordVars, dbVars
<1>2. TypeOK /\ FailureHasIncident /\ [Next]_vars =>
        [\A a \in Actions :
            incident[a] \in IncidentStatus /\ incident'[a] # incident[a] =>
                incident'[a] \in incidentTransitions[incident[a]]]_vars
  BY <1>1
<1> QED
  BY <1>2, TypeCorrect, FailureAlwaysHasIncident, PTL DEF Spec, IncidentMovesForward

-----------------------------------------------------------------------------
\* What OneOutcome says of one action, before and after it is final.
NoOutcomeYet(a) == OutcomeEvents(a) = {} /\ OutcomeRows(a) = {}
HasOneOutcome(a) ==
    /\ \E e \in OutcomeEvents(a) :
          /\ OutcomeEvents(a) = {e}
          /\ state[a] = "completed" <=> e.type = "outcome_completed"
    /\ \E r \in OutcomeRows(a) :
          /\ OutcomeRows(a) = {r}
          /\ state[a] = "completed" <=> r.type = "external_action.completed"

\* The outcome event and the outcome row are written by the step that makes the
\* action final and by no other.
LEMMA OneOutcomeInductive ==
  TypeOK /\ OneOutcome /\ [Next]_vars => OneOutcome'
<1> SUFFICES ASSUME TypeOK, OneOutcome, [Next]_vars, NEW a \in Actions
             PROVE  /\ state'[a] \notin Final => NoOutcomeYet(a)'
                    /\ state'[a] \in Final => HasOneOutcome(a)'
  BY DEF OneOutcome, NoOutcomeYet, HasOneOutcome, Final
<1>0. /\ state[a] \notin Final => NoOutcomeYet(a)
      /\ state[a] \in Final => HasOneOutcome(a)
  BY DEF OneOutcome, NoOutcomeYet, HasOneOutcome
<1>1. RecordStep
  BY StepIsRecordStep
<1>2. ASSUME OutcomeEvents(a)' = OutcomeEvents(a), OutcomeRows(a)' = OutcomeRows(a),
             state[a] \in Final => state'[a] = state[a],
             state[a] \notin Final => state'[a] \notin Final
      PROVE  /\ state'[a] \notin Final => NoOutcomeYet(a)'
             /\ state'[a] \in Final => HasOneOutcome(a)'
  BY <1>0, <1>2 DEF NoOutcomeYet, HasOneOutcome
<1> USE DEF TypeOK, OutcomeEvents, OutcomeRows, Outcomes, Final
<1>3. ASSUME NEW b \in Actions, EnqueueRequested(b)
      PROVE  /\ state'[a] \notin Final => NoOutcomeYet(a)'
             /\ state'[a] \in Final => HasOneOutcome(a)'
  <2>1. OutcomeEvents(a)' = OutcomeEvents(a) /\ OutcomeRows(a)' = OutcomeRows(a)
    BY <1>3 DEF EnqueueRequested, Event
  <2>2. /\ state[a] \in Final => state'[a] = state[a]
        /\ state[a] \notin Final => state'[a] \notin Final
    BY <1>3 DEF EnqueueRequested
  <2> QED
    BY <1>2, <2>1, <2>2
<1>4. ASSUME NEW p \in Publishers,
             ClaimDispatch(p) \/ RecordDispatchAccepted(p) \/ ScheduleDispatchRetry(p)
      PROVE  /\ state'[a] \notin Final => NoOutcomeYet(a)'
             /\ state'[a] \in Final => HasOneOutcome(a)'
  <2>1. OutcomeEvents(a)' = OutcomeEvents(a)
    BY <1>4 DEF ClaimDispatch, RecordDispatchAccepted, ScheduleDispatchRetry, TooLate,
                Event, dbVars
  <2>2. OutcomeRows(a)' = OutcomeRows(a)
    BY <1>4 DEF ClaimDispatch, RecordDispatchAccepted, ScheduleDispatchRetry, TooLate,
                dbVars
  <2>3. /\ state[a] \in Final => state'[a] = state[a]
        /\ state[a] \notin Final => state'[a] \notin Final
    BY <1>4 DEF ClaimDispatch, Claimable, RecordDispatchAccepted, ScheduleDispatchRetry,
                TooLate, HoldsLease, ReleaseLease, dbVars
  <2> QED
    BY <1>2, <2>1, <2>2, <2>3
<1>5. ASSUME NEW p \in Publishers, FailDispatch(p)
      PROVE  /\ state'[a] \notin Final => NoOutcomeYet(a)'
             /\ state'[a] \in Final => HasOneOutcome(a)'
  <2>1. CASE job[p] = a /\ HoldsLease(p, a)
    <3>1. state[a] = "dispatching" /\ state'[a] = "failed"
      BY <1>5, <2>1 DEF FailDispatch, TooLate, HoldsLease, ReleaseLease
    <3>2. OutcomeEvents(a)' = {Event("dispatch_failed", attempts[a])}
      BY <1>0, <1>5, <2>1, <3>1 DEF FailDispatch, TooLate, NoOutcomeYet, Event
    <3>3. OutcomeRows(a)' = {[type |-> "external_action.failed", n |-> 0]}
      BY <1>0, <1>5, <2>1, <3>1 DEF FailDispatch, TooLate, NoOutcomeYet, IncidentRow
    <3> HIDE DEF OutcomeEvents, OutcomeRows
    <3> QED
      BY <3>1, <3>2, <3>3 DEF HasOneOutcome, Event
  <2>2. CASE ~(job[p] = a /\ HoldsLease(p, a))
    <3>1. state'[a] = state[a] /\ ledger'[a] = ledger[a] /\ outbox'[a] = outbox[a]
      BY <1>5, <2>2 DEF FailDispatch, TooLate, ReleaseLease, dbVars
    <3> QED
      BY <1>2, <3>1
  <2> QED
    BY <2>1, <2>2
<1>6. ASSUME NEW b \in Actions, NEW c \in callbacks[b], RecordOutcome(b, c)
      PROVE  /\ state'[a] \notin Final => NoOutcomeYet(a)'
             /\ state'[a] \in Final => HasOneOutcome(a)'
  <2>1. CASE a = b
    <3>1. state[a] \notin Final /\ state'[a] = OutcomeState(c)
      BY <1>6, <2>1 DEF RecordOutcome, CallbackEligible, ReleaseLease
    <3>2. c.type \in Outcomes
      BY <1>6 DEF Callbacks
    <3>3. OutcomeEvents(a)' = {c}
      BY <1>0, <1>6, <2>1, <3>1, <3>2 DEF RecordOutcome, NoOutcomeYet
    <3>4. CASE c.type = "outcome_completed"
      <4>1. OutcomeRows(a)' = {[type |-> "external_action.completed", n |-> c.n]}
        BY <1>0, <1>6, <2>1, <3>1, <3>4 DEF RecordOutcome, NoOutcomeYet
      <4> HIDE DEF OutcomeEvents, OutcomeRows
      <4> QED
        BY <3>1, <3>3, <3>4, <4>1 DEF HasOneOutcome, OutcomeState
    <3>5. CASE c.type = "outcome_failed"
      <4>1. OutcomeRows(a)' = {[type |-> "external_action.failed", n |-> c.n]}
        BY <1>0, <1>6, <2>1, <3>1, <3>5 DEF RecordOutcome, NoOutcomeYet, IncidentRow
      <4> HIDE DEF OutcomeEvents, OutcomeRows
      <4> QED
        BY <3>1, <3>3, <3>5, <4>1 DEF HasOneOutcome, OutcomeState
    <3> QED
      BY <3>2, <3>4, <3>5
  <2>2. CASE a # b
    <3>1. state'[a] = state[a] /\ ledger'[a] = ledger[a] /\ outbox'[a] = outbox[a]
      BY <1>6, <2>2 DEF RecordOutcome, ReleaseLease
    <3> QED
      BY <1>2, <3>1
  <2> QED
    BY <2>1, <2>2
<1>7. CASE UNCHANGED <<state, ledger, outbox>>
  BY <1>2, <1>7
<1> QED
  BY <1>1, <1>3, <1>4, <1>5, <1>6, <1>7 DEF RecordStep, TransitionIncident, recordVars

\* OneOutcome holds in every reachable state: callbacks and answers that are repeated,
\* reordered or compete with each other never leave two outcomes behind.
THEOREM OutcomeRecordedOnce == Spec => []OneOutcome
<1>1. Init => OneOutcome
  BY DEF Init, OneOutcome, OutcomeEvents, OutcomeRows, Final
<1> QED
  BY <1>1, TypeCorrect, OneOutcomeInductive, PTL DEF Spec

-----------------------------------------------------------------------------
\* A publisher that still owns the lease it claimed owns it for the attempt its claim
\* started: whoever takes the lease over writes its own name, and a publisher claims
\* again only after it has given up the job.
LEMMA AnswerFencedInductive ==
  TypeOK /\ AnswerFenced /\ [Next]_vars => AnswerFenced'
<1> SUFFICES ASSUME TypeOK, AnswerFenced, [Next]_vars, NEW p \in Publishers,
                    pc'[p] \in {"claimed", "answered"}, HoldsLease(p, job[p])'
             PROVE  attempt'[p] = attempts'[job'[p]]
  BY DEF AnswerFenced
<1> USE DEF TypeOK, AnswerFenced, HoldsLease
<1>1. ASSUME NEW q \in Publishers, ClaimDispatch(q)
      PROVE  attempt'[p] = attempts'[job'[p]]
  <2>1. CASE p = q
    BY <1>1, <2>1 DEF ClaimDispatch
  <2>2. CASE p # q
    BY <1>1, <2>2 DEF ClaimDispatch, dbVars
  <2> QED
    BY <2>1, <2>2
<1>2. ASSUME NEW q \in Publishers,
             RecordDispatchAccepted(q) \/ ScheduleDispatchRetry(q) \/ FailDispatch(q)
      PROVE  attempt'[p] = attempts'[job'[p]]
  BY <1>2, ActionsAssumption
  DEF RecordDispatchAccepted, ScheduleDispatchRetry, FailDispatch, TooLate, ReleaseLease,
      dbVars
<1>3. ASSUME NEW q \in Publishers,
             (\E a \in Actions : ListUnconsumed(q, a)) \/ Dispatch(q)
                 \/ MarkConsumed(q) \/ Crash(q)
      PROVE  attempt'[p] = attempts'[job'[p]]
  BY <1>3 DEF ListUnconsumed, Dispatch, MarkConsumed, Crash, dbVars
<1>4. ASSUME NEW a \in Actions, NEW c \in callbacks[a], RecordOutcome(a, c)
      PROVE  attempt'[p] = attempts'[job'[p]]
  BY <1>4, ActionsAssumption DEF RecordOutcome, ReleaseLease, workerVars
<1>5. ASSUME NEW a \in Actions, EnqueueRequested(a)
      PROVE  attempt'[p] = attempts'[job'[p]]
  BY <1>5 DEF EnqueueRequested, workerVars
<1>6. CASE UNCHANGED <<state, attempts, leaseOwner, pc, job, attempt>>
  BY <1>6
<1> QED
  BY <1>1, <1>2, <1>3, <1>4, <1>5, <1>6
  DEF Next, PublisherStep, vars, dbVars, workerVars, SendCallback, TransitionIncident,
      LeaseExpires, RetryComesDue

\* AnswerFenced holds in every reachable state, whatever leases expire under whom.
THEOREM AnswersAreFenced == Spec => []AnswerFenced
<1>1. Init => AnswerFenced
  BY DEF Init, AnswerFenced
<1> QED
  BY <1>1, TypeCorrect, AnswerFencedInductive, PTL DEF Spec

-----------------------------------------------------------------------------
\* What LedgerFollowsAttempts says of one action.
LedgerInOrder(a) ==
    /\ \A e \in ledger[a] :
          e.type \in Results \cup {"dispatch_started"} => e.n \in 1..attempts[a]
    /\ \A n \in 1..attempts[a] : Event("dispatch_started", n) \in ledger[a]
    /\ \A e, f \in ledger[a] :
          e.type \in Results /\ f.type \in Results /\ e.n = f.n => e = f
    /\ state[a] = "dispatching" =>
          /\ attempts[a] > 0
          /\ \A e \in ledger[a] : e.type \in Results => e.n < attempts[a]

\* An attempt gets its result from the holder of the lease, which gives the lease up
\* in the same transaction, so it gets no second one.
LEMMA LedgerInductive ==
  TypeOK /\ LedgerFollowsAttempts /\ [Next]_vars => LedgerFollowsAttempts'
<1> SUFFICES ASSUME TypeOK, LedgerFollowsAttempts, [Next]_vars, NEW a \in Actions
             PROVE  LedgerInOrder(a)'
  BY DEF LedgerFollowsAttempts, LedgerInOrder
<1>0. LedgerInOrder(a) /\ attempts[a] \in Nat /\ ledger[a] \subseteq Events
  BY DEF LedgerFollowsAttempts, LedgerInOrder, TypeOK
<1>1. RecordStep
  BY StepIsRecordStep
<1>2. ASSUME attempts'[a] = attempts[a], NEW x, ledger'[a] = ledger[a] \cup {x},
             x.type \notin Results \cup {"dispatch_started"},
             state'[a] = "dispatching" => state[a] = "dispatching"
      PROVE  LedgerInOrder(a)'
  BY <1>0, <1>2 DEF LedgerInOrder
<1>3. ASSUME attempts'[a] = attempts[a], ledger'[a] = ledger[a],
             state'[a] = "dispatching" => state[a] = "dispatching"
      PROVE  LedgerInOrder(a)'
  BY <1>0, <1>3 DEF LedgerInOrder
<1>4. ASSUME state[a] = "dispatching", state'[a] # "dispatching",
             attempts'[a] = attempts[a], NEW type \in Results,
             ledger'[a] = ledger[a] \cup {Event(type, attempts[a])}
      PROVE  LedgerInOrder(a)'
  <2>1. /\ Event(type, attempts[a]).type = type
        /\ Event(type, attempts[a]).n = attempts[a]
        /\ type # "dispatch_started"
    BY DEF Event, Results
  <2>2. \A e \in ledger[a] : e.type \in Results => e.n < attempts[a] /\ e.n \in Nat
    BY <1>0, <1>4 DEF LedgerInOrder, Events
  <2>3. attempts[a] \in 1..attempts[a]
    BY <1>0, <1>4 DEF LedgerInOrder
  <2> QED
    BY <1>0, <1>4, <2>1, <2>2, <2>3 DEF LedgerInOrder
<1> USE DEF TypeOK
<1>5. ASSUME NEW b \in Actions, EnqueueRequested(b)
      PROVE  LedgerInOrder(a)'
  <2>1. Event("requested", 0).type \notin Results \cup {"dispatch_started"}
    BY DEF Event, Results
  <2>2. /\ attempts'[a] = attempts[a]
        /\ state'[a] = "dispatching" => state[a] = "dispatching"
        /\ \/ ledger'[a] = ledger[a]
           \/ ledger'[a] = ledger[a] \cup {Event("requested", 0)}
    BY <1>5 DEF EnqueueRequested
  <2> QED
    BY <1>2, <1>3, <2>1, <2>2
<1>6. ASSUME NEW p \in Publishers, ClaimDispatch(p)
      PROVE  LedgerInOrder(a)'
  <2>1. CASE a = job[p] /\ Claimable(a)
    <3>1. /\ attempts'[a] = attempts[a] + 1
          /\ ledger'[a] = ledger[a] \cup {Event("dispatch_started", attempts[a] + 1)}
      BY <1>6, <2>1 DEF ClaimDispatch
    <3>2. /\ Event("dispatch_started", attempts[a] + 1).type = "dispatch_started"
          /\ Event("dispatch_started", attempts[a] + 1).n = attempts[a] + 1
          /\ "dispatch_started" \notin Results
      BY DEF Event, Results
    <3>3. \A e \in ledger[a] :
             e.type \in Results \cup {"dispatch_started"} =>
                 e.n \in 1..attempts'[a] /\ e.n < attempts'[a]
      BY <1>0, <3>1 DEF LedgerInOrder
    <3>4. \A n \in 1..attempts'[a] : n \in 1..attempts[a] \/ n = attempts[a] + 1
      BY <1>0, <3>1
    <3>5. attempts'[a] \in 1..attempts'[a] /\ attempts'[a] > 0
      BY <1>0, <3>1
    <3>6. \A e \in ledger'[a] : e.type \in Results => e \in ledger[a]
      BY <3>1, <3>2
    <3> QED
      BY <1>0, <3>1, <3>2, <3>3, <3>4, <3>5, <3>6 DEF LedgerInOrder
  <2>2. CASE ~(a = job[p] /\ Claimable(a))
    <3>1. state'[a] = state[a] /\ attempts'[a] = attempts[a] /\ ledger'[a] = ledger[a]
      BY <1>6, <2>2 DEF ClaimDispatch, dbVars
    <3> QED
      BY <1>3, <3>1
  <2> QED
    BY <2>1, <2>2
<1>7. ASSUME NEW p \in Publishers,
             RecordDispatchAccepted(p) \/ ScheduleDispatchRetry(p) \/ FailDispatch(p)
      PROVE  LedgerInOrder(a)'
  <2>1. CASE a = job[p] /\ HoldsLease(p, a)
    <3>1. /\ state[a] = "dispatching"
          /\ state'[a] # "dispatching"
          /\ attempts'[a] = attempts[a]
          /\ \E type \in Results :
                ledger'[a] = ledger[a] \cup {Event(type, attempts[a])}
      BY <1>7, <2>1 DEF RecordDispatchAccepted, ScheduleDispatchRetry, FailDispatch,
                        TooLate, HoldsLease, ReleaseLease, Results
    <3> QED
      BY <1>4, <3>1
  <2>2. CASE ~(a = job[p] /\ HoldsLease(p, a))
    <3>1. state'[a] = state[a] /\ attempts'[a] = attempts[a] /\ ledger'[a] = ledger[a]
      BY <1>7, <2>2 DEF RecordDispatchAccepted, ScheduleDispatchRetry, FailDispatch,
                        TooLate, ReleaseLease, dbVars
    <3> QED
      BY <1>3, <3>1
  <2> QED
    BY <2>1, <2>2
<1>8. ASSUME NEW b \in Actions, NEW c \in callbacks[b], RecordOutcome(b, c)
      PROVE  LedgerInOrder(a)'
  <2>1. c.type \notin Results \cup {"dispatch_started"}
    BY <1>8 DEF Callbacks, Outcomes, Results
  <2>2. /\ attempts'[a] = attempts[a]
        /\ state'[a] = "dispatching" => state[a] = "dispatching"
        /\ ledger'[a] = ledger[a] \/ ledger'[a] = ledger[a] \cup {c}
    BY <1>8 DEF RecordOutcome, ReleaseLease, OutcomeState
  <2> QED
    BY <1>2, <1>3, <2>1, <2>2
<1>9. CASE UNCHANGED <<state, attempts, ledger>>
  BY <1>3, <1>9
<1> QED
  BY <1>1, <1>5, <1>6, <1>7, <1>8, <1>9 DEF RecordStep, TransitionIncident, recordVars

\* LedgerFollowsAttempts holds in every reachable state: the audit trail of attempts
\* has no gap, no double result and none for an attempt still in progress.
THEOREM LedgerAlwaysFollowsAttempts == Spec => []LedgerFollowsAttempts
<1>1. Init => LedgerFollowsAttempts
  BY DEF Init, LedgerFollowsAttempts
<1> QED
  BY <1>1, TypeCorrect, LedgerInductive, PTL DEF Spec

-----------------------------------------------------------------------------
\* The refinement mapping of Contract, named.
phaseOf == [a \in Actions |->
               IF state[a] \in {"requested", "dispatching", "retry_scheduled"}
               THEN "open" ELSE state[a]]
announcedOf == {a \in Actions : OutcomeRows(a) # {}}
alertedOf == {a \in Actions : incident[a] # "none"}
retiredOf == {a \in Actions : row[a] = "consumed"}

\* Every step of the detailed specification is a step of the contract or changes
\* nothing the contract sees.
LEMMA StepRefines ==
  TypeOK /\ ConsumesOnlySettled /\ NoStrandedAction /\ [Next]_vars
      => [Contract!Next]_(Contract!contractVars)
<1> SUFFICES ASSUME TypeOK, ConsumesOnlySettled, NoStrandedAction, [Next]_vars
             PROVE  \/ Contract!Next
                    \/ UNCHANGED <<phaseOf, announcedOf, alertedOf, retiredOf>>
  BY DEF Contract!contractVars, phaseOf, announcedOf, alertedOf, retiredOf
<1> USE DEF TypeOK
<1>1. ASSUME NEW a \in Actions, EnqueueRequested(a)
      PROVE  \/ Contract!Request(a)
             \/ UNCHANGED <<phaseOf, announcedOf, alertedOf, retiredOf>>
  <2>1. UNCHANGED <<announcedOf, alertedOf>>
    BY <1>1 DEF EnqueueRequested, announcedOf, alertedOf, OutcomeRows
  <2>2. UNCHANGED retiredOf
    BY <1>1 DEF EnqueueRequested, retiredOf
  <2>3. CASE state[a] = "absent"
    <3>1. phaseOf[a] = "absent" /\ phaseOf' = [phaseOf EXCEPT ![a] = "open"]
      BY <1>1, <2>3 DEF EnqueueRequested, phaseOf
    <3> QED
      BY <2>1, <2>2, <3>1
      DEF Contract!Request, phaseOf, announcedOf, alertedOf, retiredOf
  <2>4. CASE state[a] # "absent"
    <3>1. UNCHANGED phaseOf
      BY <1>1, <2>4 DEF EnqueueRequested, phaseOf
    <3> QED
      BY <2>1, <2>2, <3>1
  <2> QED
    BY <2>3, <2>4
<1>2. ASSUME NEW p \in Publishers, ClaimDispatch(p) \/ ScheduleDispatchRetry(p)
      PROVE  UNCHANGED <<phaseOf, announcedOf, alertedOf, retiredOf>>
  <2>1. UNCHANGED phaseOf
    BY <1>2 DEF ClaimDispatch, Claimable, ScheduleDispatchRetry, TooLate, HoldsLease,
                ReleaseLease, phaseOf, dbVars
  <2>2. UNCHANGED announcedOf
    <3>1. \A a \in Actions : OutcomeRows(a)' = OutcomeRows(a)
      BY <1>2 DEF ClaimDispatch, ScheduleDispatchRetry, TooLate, OutcomeRows, dbVars
    <3> QED
      BY <3>1 DEF announcedOf
  <2>3. UNCHANGED <<alertedOf, retiredOf>>
    BY <1>2 DEF ClaimDispatch, ScheduleDispatchRetry, TooLate, alertedOf, retiredOf, dbVars
  <2> QED
    BY <2>1, <2>2, <2>3
<1>3. ASSUME NEW p \in Publishers, NEW b \in Actions, b = job[p], RecordDispatchAccepted(p)
      PROVE  \/ Contract!HandOver(b)
             \/ UNCHANGED <<phaseOf, announcedOf, alertedOf, retiredOf>>
  <2>1. UNCHANGED announcedOf
    <3>1. \A a \in Actions : OutcomeRows(a)' = OutcomeRows(a)
      BY <1>3 DEF RecordDispatchAccepted, TooLate, OutcomeRows, dbVars
    <3> QED
      BY <3>1 DEF announcedOf
  <2>2. UNCHANGED <<alertedOf, retiredOf>>
    BY <1>3 DEF RecordDispatchAccepted, TooLate, alertedOf, retiredOf, dbVars
  <2>3. CASE HoldsLease(p, b)
    <3>1. /\ phaseOf[b] = "open"
          /\ phaseOf' = [phaseOf EXCEPT ![b] = "dispatched"]
      BY <1>3, <2>3, ZenonT(40)
      DEF RecordDispatchAccepted, TooLate, HoldsLease, ReleaseLease, phaseOf
    <3> QED
      BY <2>1, <2>2, <3>1
      DEF Contract!HandOver, phaseOf, announcedOf, alertedOf, retiredOf
  <2>4. CASE ~HoldsLease(p, b)
    <3>1. UNCHANGED phaseOf
      BY <1>3, <2>4 DEF RecordDispatchAccepted, TooLate, phaseOf, dbVars
    <3> QED
      BY <2>1, <2>2, <3>1
  <2> QED
    BY <2>3, <2>4
<1>4. ASSUME NEW p \in Publishers, NEW b \in Actions, b = job[p], FailDispatch(p)
      PROVE  \/ Contract!Conclude(b, "failed")
             \/ UNCHANGED <<phaseOf, announcedOf, alertedOf, retiredOf>>
  <2>1. CASE HoldsLease(p, b)
    <3>1. /\ phaseOf[b] = "open"
          /\ phaseOf' = [phaseOf EXCEPT ![b] = "failed"]
      BY <1>4, <2>1 DEF FailDispatch, TooLate, HoldsLease, ReleaseLease, phaseOf
    <3>2. announcedOf' = announcedOf \cup {b}
      <4>1. [type |-> "external_action.failed", n |-> 0] \in outbox'[b]
        BY <1>4, <2>1 DEF FailDispatch, TooLate
      <4>2. \A a \in Actions : a # b => outbox'[a] = outbox[a]
        BY <1>4, <2>1 DEF FailDispatch, TooLate
      <4> QED
        BY <4>1, <4>2 DEF announcedOf, OutcomeRows
    <3>3. alertedOf' = alertedOf \cup {b}
      BY <1>4, <2>1 DEF FailDispatch, TooLate, OpenIncident, alertedOf
    <3>4. UNCHANGED retiredOf
      BY <1>4, <2>1 DEF FailDispatch, TooLate, retiredOf
    <3> QED
      BY <3>1, <3>2, <3>3, <3>4
      DEF Contract!Conclude, phaseOf, announcedOf, alertedOf, retiredOf
  <2>2. CASE ~HoldsLease(p, b)
    BY <1>4, <2>2 DEF FailDispatch, TooLate, OutcomeRows, phaseOf, announcedOf,
                      alertedOf, retiredOf, dbVars
  <2> QED
    BY <2>1, <2>2
<1>5. ASSUME NEW a \in Actions, NEW c \in callbacks[a], RecordOutcome(a, c)
      PROVE  Contract!Conclude(a, OutcomeState(c))
  <2>1. /\ phaseOf[a] \in {"open", "dispatched"}
        /\ phaseOf' = [phaseOf EXCEPT ![a] = OutcomeState(c)]
    BY <1>5 DEF RecordOutcome, CallbackEligible, OutcomeState, ReleaseLease, phaseOf
  <2>2. announcedOf' = announcedOf \cup {a}
    <3>1. \/ [type |-> "external_action.completed", n |-> c.n] \in outbox'[a]
          \/ [type |-> "external_action.failed", n |-> c.n] \in outbox'[a]
      BY <1>5 DEF RecordOutcome
    <3>2. \A b \in Actions : b # a => outbox'[b] = outbox[b]
      BY <1>5 DEF RecordOutcome
    <3> QED
      BY <3>1, <3>2 DEF announcedOf, OutcomeRows
  <2>3. alertedOf' = IF OutcomeState(c) = "failed" THEN alertedOf \cup {a} ELSE alertedOf
    BY <1>5 DEF RecordOutcome, OpenIncident, OutcomeState, alertedOf
  <2>4. UNCHANGED retiredOf
    BY <1>5 DEF RecordOutcome, retiredOf
  <2> QED
    BY <2>1, <2>2, <2>3, <2>4
    DEF Contract!Conclude, phaseOf, announcedOf, alertedOf, retiredOf
<1>6. ASSUME NEW p \in Publishers, NEW b \in Actions, b = job[p], MarkConsumed(p)
      PROVE  Contract!Retire(b)
  <2>1. phaseOf[b] \in {"dispatched", "completed", "failed"}
    BY <1>6 DEF MarkConsumed, ConsumesOnlySettled, Settled, phaseOf
  <2>2. retiredOf' = retiredOf \cup {b}
    BY <1>6 DEF MarkConsumed, retiredOf
  <2>3. UNCHANGED <<phaseOf, announcedOf, alertedOf>>
    BY <1>6 DEF MarkConsumed, OutcomeRows, phaseOf, announcedOf, alertedOf
  <2> QED
    BY <2>1, <2>2, <2>3 DEF Contract!Retire, phaseOf, announcedOf, alertedOf, retiredOf
<1>7. ASSUME NEW a \in Actions, NEW to \in IncidentStatus, TransitionIncident(a, to)
      PROVE  UNCHANGED <<phaseOf, announcedOf, alertedOf, retiredOf>>
  <2>1. UNCHANGED <<state, outbox, row>>
    BY <1>7 DEF TransitionIncident
  <2>2. UNCHANGED alertedOf
    BY <1>7 DEF TransitionIncident, IncidentStatus, alertedOf
  <2> QED
    BY <2>1, <2>2 DEF OutcomeRows, phaseOf, announcedOf, retiredOf
<1>8. CASE UNCHANGED <<state, outbox, incident, row>>
  BY <1>8 DEF OutcomeRows, phaseOf, announcedOf, alertedOf, retiredOf
<1>9. CASE \E a \in Actions : EnqueueRequested(a)
  BY <1>1, <1>9, Zenon DEF Contract!Next
<1>10. CASE \E p \in Publishers : RecordDispatchAccepted(p)
  <2>1. PICK p \in Publishers : RecordDispatchAccepted(p)
    BY <1>10
  <2>2. PICK b \in Actions : b = job[p]
    OBVIOUS
  <2> QED
    BY <1>3, <2>1, <2>2, Zenon DEF Contract!Next
<1>11. CASE \E p \in Publishers : FailDispatch(p)
  <2>1. PICK p \in Publishers : FailDispatch(p)
    BY <1>11
  <2>2. PICK b \in Actions : b = job[p]
    OBVIOUS
  <2> QED
    BY <1>4, <2>1, <2>2, Zenon DEF Contract!Next
<1>12. CASE \E a \in Actions : \E c \in callbacks[a] : RecordOutcome(a, c)
  <2>0. PICK a \in Actions : \E c \in callbacks[a] : RecordOutcome(a, c)
    BY <1>12
  <2>1. PICK c \in callbacks[a] : RecordOutcome(a, c)
    BY <2>0
  <2>2. OutcomeState(c) \in {"completed", "failed"}
    BY DEF OutcomeState
  <2> QED
    BY <1>5, <2>1, <2>2, Zenon DEF Contract!Next
<1>13. CASE \E p \in Publishers : MarkConsumed(p)
  <2>1. PICK p \in Publishers : MarkConsumed(p)
    BY <1>13
  <2>2. PICK b \in Actions : b = job[p]
    OBVIOUS
  <2> QED
    BY <1>6, <2>1, <2>2, Zenon DEF Contract!Next
<1>14. \/ \E a \in Actions : EnqueueRequested(a)
       \/ \E p \in Publishers : ClaimDispatch(p) \/ ScheduleDispatchRetry(p)
       \/ \E p \in Publishers : RecordDispatchAccepted(p)
       \/ \E p \in Publishers : FailDispatch(p)
       \/ \E a \in Actions : \E c \in callbacks[a] : RecordOutcome(a, c)
       \/ \E p \in Publishers : MarkConsumed(p)
       \/ \E a \in Actions, to \in IncidentStatus : TransitionIncident(a, to)
       \/ UNCHANGED <<state, outbox, incident, row>>
  BY DEF Next, PublisherStep, vars, dbVars, ListUnconsumed, Dispatch, Crash,
         SendCallback, LeaseExpires, RetryComesDue
<1> HIDE DEF TypeOK
<1> QED
  BY <1>2, <1>7, <1>8, <1>9, <1>10, <1>11, <1>12, <1>13, <1>14, Zenon

\* The detailed specification implements the contract: through every lease, retry,
\* crash and repeated callback, an action is concluded once, its announcement and its
\* incident come with the conclusion, and its row outlives the need for it.
THEOREM ContractImplemented == Spec => ImplementsContract
<1>1. Init => Contract!Init
  BY DEF Init, Contract!Init, OutcomeRows
<1>2. Init => ConsumesOnlySettled
  BY DEF Init, ConsumesOnlySettled
<1> QED
  BY <1>1, <1>2, TypeCorrect, NeverStranded, ConsumesOnlySettledInductive, StepRefines,
     PTL DEF Spec, ImplementsContract, Contract!Spec
=============================================================================
