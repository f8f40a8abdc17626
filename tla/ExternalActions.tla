--------------------------- MODULE ExternalActions ---------------------------
(***************************************************************************)
(* The life of an approved external action (packages/db/src/external-      *)
(* actions-repository.ts): it is requested once through the API, claimed   *)
(* under a dispatch lease by an outbox publisher                           *)
(* (apps/worker-outbox-publisher/src/outbox-publisher.ts), posted to n8n   *)
(* and settled either by the answer of that post or by a callback that n8n *)
(* sends later, more than once, or before the answer has been recorded.    *)
(*                                                                         *)
(* Every repository method is one database transaction whose writes hang   *)
(* on one guarded UPDATE, so each is one atomic action here.  A publisher  *)
(* is a process that takes one step per awaited call and may stop between  *)
(* any two of them.                                                        *)
(*                                                                         *)
(* Time is not counted.  A deadline is a Boolean that the environment      *)
(* turns: the lease of an action is live until LeaseExpires, and a         *)
(* scheduled retry is not due until RetryComesDue.  That admits every      *)
(* relation between the lease, the n8n timeout and a stalled process.      *)
(***************************************************************************)
EXTENDS Integers, FiniteSets

CONSTANTS
    Actions,     \* the external actions of one tenant
    Publishers,  \* the publisher processes, each a lease owner of its own
    NoOwner,     \* dispatch_lease_owner is NULL
    MaxFaults    \* crashes, stalls past a lease and retryable answers allowed

ASSUME ActionsAssumption == NoOwner \notin Publishers /\ MaxFaults \in Nat

VARIABLES
    state,       \* external_actions.state, "absent" before the row exists
    attempts,    \* external_actions.dispatch_attempts
    leaseOwner,  \* external_actions.dispatch_lease_owner
    leaseLive,   \* dispatch_lease_expires_at lies in the future
    retryDue,    \* next_retry_at is NULL or has passed
    ledger,      \* external_action_events of each action
    outbox,      \* the lifecycle rows an action has put in event_outbox
    row,         \* the n8n.dispatch.requested.v1 outbox row of each action
    incident     \* status of the incident external-action:<id>:failed

VARIABLES
    pc,          \* where a publisher is in publishPendingForTenant
    job,         \* the action whose row it is working on
    attempt,     \* the attempt number its claim returned
    answer,      \* what n8n answered to its post
    runs,        \* the attempts n8n has started an execution for
    callbacks,   \* the callbacks n8n has sent: [n: execution, type: outcome]
    faults       \* faults spent so far, at most MaxFaults

dbVars == <<state, attempts, leaseOwner, leaseLive, retryDue,
            ledger, outbox, row, incident>>
workerVars == <<pc, job, attempt, answer>>
envVars == <<runs, callbacks, faults>>
vars == <<dbVars, workerVars, envVars>>

-----------------------------------------------------------------------------
States == {"absent", "requested", "dispatching", "retry_scheduled",
           "dispatched", "completed", "failed"}

\* terminalStates of the source: no dispatch is needed any more.
Settled == {"dispatched", "completed", "failed"}

\* The two states that hold an outcome.
Final == {"completed", "failed"}

\* Mutant: a callback may overwrite an outcome already recorded.
CallbackEligibleAny == States \ {"absent"}

CallbackEligible == {"requested", "dispatching", "retry_scheduled", "dispatched"}

Outcomes == {"outcome_completed", "outcome_failed"}
Results == {"dispatch_accepted", "dispatch_retry_scheduled", "dispatch_failed"}

\* A ledger entry: its event type, and the attempt or the n8n execution that its
\* event key names.
Event(type, n) == [type |-> type, n |-> n]
Events == [type : {"requested", "dispatch_started"} \cup Results \cup Outcomes,
           n : Nat]
Callbacks == [type : Outcomes, n : Nat]

\* An outbox row: its event type and the varying part of its idempotency key.
RowTypes == {"external_action.dispatched", "external_action.retry_scheduled",
             "external_action.completed", "external_action.failed",
             "incident.opened"}
Rows == [type : RowTypes, n : Nat]

IncidentStatus == {"open", "acknowledged", "mitigated", "resolved"}

incidentTransitions ==
    [open         |-> {"acknowledged", "mitigated", "resolved"},
     acknowledged |-> {"mitigated", "resolved"},
     mitigated    |-> {"resolved"},
     resolved     |-> {}]

\* Every column, ledger event, outbox row and publisher step has its type; the
\* statuses are those the repository writes, never an outcome's own spelling.
TypeOK ==
    /\ state \in [Actions -> States]
    /\ attempts \in [Actions -> Nat]
    /\ leaseOwner \in [Actions -> Publishers \cup {NoOwner}]
    /\ leaseLive \in [Actions -> BOOLEAN]
    /\ retryDue \in [Actions -> BOOLEAN]
    /\ ledger \in [Actions -> SUBSET Events]
    /\ outbox \in [Actions -> SUBSET Rows]
    /\ row \in [Actions -> {"none", "pending", "consumed"}]
    /\ incident \in [Actions -> IncidentStatus \cup {"none"}]
    /\ pc \in [Publishers -> {"idle", "listed", "claimed", "answered", "settled"}]
    /\ job \in [Publishers -> Actions]
    /\ attempt \in [Publishers -> Nat]
    /\ answer \in [Publishers -> {"ok", "retryable", "permanent"}]
    /\ runs \in [Actions -> SUBSET Nat]
    /\ callbacks \in [Actions -> SUBSET Callbacks]
    /\ faults \in 0..MaxFaults

Init ==
    /\ state = [a \in Actions |-> "absent"]
    /\ attempts = [a \in Actions |-> 0]
    /\ leaseOwner = [a \in Actions |-> NoOwner]
    /\ leaseLive = [a \in Actions |-> FALSE]
    /\ retryDue = [a \in Actions |-> TRUE]
    /\ ledger = [a \in Actions |-> {}]
    /\ outbox = [a \in Actions |-> {}]
    /\ row = [a \in Actions |-> "none"]
    /\ incident = [a \in Actions |-> "none"]
    /\ pc = [p \in Publishers |-> "idle"]
    /\ job \in [Publishers -> Actions]
    /\ attempt = [p \in Publishers |-> 0]
    /\ answer = [p \in Publishers |-> "ok"]
    /\ runs = [a \in Actions |-> {}]
    /\ callbacks = [a \in Actions |-> {}]
    /\ faults = 0

-----------------------------------------------------------------------------
(* Requests *)

\* POST /v1/n8n/dispatch, first or repeated.  The action row, its ledger entry
\* and its outbox row are each inserted ON CONFLICT DO NOTHING in one transaction.
\* A request that reuses the identity with another digest throws and changes
\* nothing.
EnqueueRequested(a) ==
    /\ state' = [state EXCEPT ![a] = IF @ = "absent" THEN "requested" ELSE @]
    /\ ledger' = [ledger EXCEPT ![a] = @ \cup {Event("requested", 0)}]
    /\ row' = [row EXCEPT ![a] = IF @ = "none" THEN "pending" ELSE @]
    /\ UNCHANGED <<attempts, leaseOwner, leaseLive, retryDue, outbox, incident>>
    /\ UNCHANGED <<workerVars, envVars>>

-----------------------------------------------------------------------------
(* The publisher *)

\* listUnconsumed returns the row.  It may be consumed, and the action settled,
\* by others before the publisher acts on what it read.
ListUnconsumed(p, a) ==
    /\ pc[p] = "idle"
    /\ row[a] = "pending"
    /\ pc' = [pc EXCEPT ![p] = "listed"]
    /\ job' = [job EXCEPT ![p] = a]
    /\ UNCHANGED <<dbVars, attempt, answer, envVars>>

\* Mutant: an expired lease is never taken over.
ClaimableOnce(a) == state[a] \in {"requested", "retry_scheduled"} /\ retryDue[a]

\* The WHERE clause of the claiming UPDATE.
Claimable(a) ==
    \/ state[a] \in {"requested", "retry_scheduled"} /\ retryDue[a]
    \/ state[a] = "dispatching" /\ ~leaseLive[a]

\* claimDispatch: "claimed" starts an attempt; "settled" leaves only the row to be
\* consumed; "deferred" and "in_flight" leave the row for a later cycle.
ClaimDispatch(p) ==
    LET a == job[p] IN
    /\ pc[p] = "listed"
    /\ \/ /\ Claimable(a)
          /\ state' = [state EXCEPT ![a] = "dispatching"]
          /\ attempts' = [attempts EXCEPT ![a] = @ + 1]
          /\ leaseOwner' = [leaseOwner EXCEPT ![a] = p]
          /\ leaseLive' = [leaseLive EXCEPT ![a] = TRUE]
          /\ retryDue' = [retryDue EXCEPT ![a] = TRUE]
          /\ ledger' = [ledger EXCEPT ![a] =
                           @ \cup {Event("dispatch_started", attempts[a] + 1)}]
          /\ attempt' = [attempt EXCEPT ![p] = attempts[a] + 1]
          /\ pc' = [pc EXCEPT ![p] = "claimed"]
          /\ UNCHANGED <<outbox, row, incident>>
       \/ /\ ~Claimable(a)
          /\ pc' = [pc EXCEPT ![p] = IF state[a] \in Settled THEN "settled"
                                                             ELSE "idle"]
          /\ UNCHANGED <<dbVars, attempt>>
    /\ UNCHANGED <<job, answer, envVars>>

\* n8nDispatchClient.dispatch and the gateway behind it.  2xx means the gateway has
\* the action; it drops a duplicate of an action it is already running, or runs it
\* again.  429, 5xx, a network error and a timeout are retryable and say nothing
\* about whether the gateway has it.  Any other answer is permanent and refuses it.
Dispatch(p) ==
    LET a == job[p] IN
    /\ pc[p] = "claimed"
    /\ pc' = [pc EXCEPT ![p] = "answered"]
    /\ \/ /\ answer' = [answer EXCEPT ![p] = "ok"]
          /\ \/ runs' = [runs EXCEPT ![a] = @ \cup {attempt[p]}]
             \/ runs[a] # {} /\ UNCHANGED runs
          /\ UNCHANGED faults
       \/ /\ answer' = [answer EXCEPT ![p] = "retryable"]
          /\ faults < MaxFaults
          /\ faults' = faults + 1
          /\ \/ runs' = [runs EXCEPT ![a] = @ \cup {attempt[p]}]
             \/ UNCHANGED runs
       \/ /\ answer' = [answer EXCEPT ![p] = "permanent"]
          /\ UNCHANGED <<runs, faults>>
    /\ UNCHANGED <<dbVars, job, attempt, callbacks>>

\* Mutant: an answer may still replace a scheduled retry.
HoldsLeaseOrRetry(p, a) == state[a] \in {"dispatching", "retry_scheduled"}

\* The WHERE clause shared by the three methods that record an answer: the state
\* and the owner are compared, the expiry of the lease is not.
HoldsLease(p, a) == state[a] = "dispatching" /\ leaseOwner[a] = p

\* Mutant: a lost lease is not reported, so the caller goes on.
TooLateSwallowed(p, next) ==
    /\ ~HoldsLease(p, job[p])
    /\ pc' = [pc EXCEPT ![p] = next]
    /\ UNCHANGED dbVars

\* The answer comes too late.  A settled action is returned as it is and the
\* caller goes on; for any other the method throws and the cycle ends.
TooLate(p, next) ==
    /\ ~HoldsLease(p, job[p])
    /\ pc' = [pc EXCEPT ![p] = IF state[job[p]] \in Settled THEN next ELSE "idle"]
    /\ UNCHANGED dbVars

ReleaseLease(a, to) ==
    /\ state' = [state EXCEPT ![a] = to]
    /\ leaseOwner' = [leaseOwner EXCEPT ![a] = NoOwner]
    /\ leaseLive' = [leaseLive EXCEPT ![a] = FALSE]

\* Mutant: only the notification is enqueued, the incident is left to consumers.
OpenIncidentNotified(a) == UNCHANGED incident

\* emitFailureIncidentOutbox: the incident is upserted, whatever its status was,
\* and the returned row is its notification.
OpenIncident(a) == incident' = [incident EXCEPT ![a] = "open"]
IncidentRow == [type |-> "incident.opened", n |-> 0]

RecordDispatchAccepted(p) ==
    LET a == job[p] IN
    /\ pc[p] = "answered" /\ answer[p] = "ok"
    /\ \/ TooLate(p, "settled")
       \/ /\ HoldsLease(p, a)
          /\ ReleaseLease(a, "dispatched")
          /\ retryDue' = [retryDue EXCEPT ![a] = TRUE]
          /\ ledger' = [ledger EXCEPT ![a] =
                           @ \cup {Event("dispatch_accepted", attempts[a])}]
          /\ outbox' = [outbox EXCEPT ![a] = @ \cup
                 {[type |-> "external_action.dispatched", n |-> attempts[a]]}]
          /\ pc' = [pc EXCEPT ![p] = "settled"]
          /\ UNCHANGED <<attempts, row, incident>>
    /\ UNCHANGED <<job, attempt, answer, envVars>>

\* A scheduled retry always defers the row, even when the action was settled.
ScheduleDispatchRetry(p) ==
    LET a == job[p] IN
    /\ pc[p] = "answered" /\ answer[p] = "retryable"
    /\ \/ TooLate(p, "idle")
       \/ /\ HoldsLease(p, a)
          /\ ReleaseLease(a, "retry_scheduled")
          /\ retryDue' = [retryDue EXCEPT ![a] = FALSE]
          /\ ledger' = [ledger EXCEPT ![a] =
                           @ \cup {Event("dispatch_retry_scheduled", attempts[a])}]
          /\ outbox' = [outbox EXCEPT ![a] = @ \cup
                 {[type |-> "external_action.retry_scheduled", n |-> attempts[a]]}]
          /\ pc' = [pc EXCEPT ![p] = "idle"]
          /\ UNCHANGED <<attempts, row, incident>>
    /\ UNCHANGED <<job, attempt, answer, envVars>>

FailDispatch(p) ==
    LET a == job[p] IN
    /\ pc[p] = "answered" /\ answer[p] = "permanent"
    /\ \/ TooLate(p, "settled")
       \/ /\ HoldsLease(p, a)
          /\ ReleaseLease(a, "failed")
          /\ retryDue' = [retryDue EXCEPT ![a] = TRUE]
          /\ ledger' = [ledger EXCEPT ![a] =
                           @ \cup {Event("dispatch_failed", attempts[a])}]
          /\ outbox' = [outbox EXCEPT ![a] = @ \cup
                 {[type |-> "external_action.failed", n |-> 0], IncidentRow}]
          /\ OpenIncident(a)
          /\ pc' = [pc EXCEPT ![p] = "settled"]
          /\ UNCHANGED <<attempts, row>>
    /\ UNCHANGED <<job, attempt, answer, envVars>>

MarkConsumed(p) ==
    /\ pc[p] = "settled"
    /\ row' = [row EXCEPT ![job[p]] = "consumed"]
    /\ pc' = [pc EXCEPT ![p] = "idle"]
    /\ UNCHANGED <<state, attempts, leaseOwner, leaseLive, retryDue, ledger,
                   outbox, incident>>
    /\ UNCHANGED <<job, attempt, answer, envVars>>

\* The process dies, or a call to the database fails and ends the cycle.
Crash(p) ==
    /\ pc[p] # "idle"
    /\ faults < MaxFaults
    /\ faults' = faults + 1
    /\ pc' = [pc EXCEPT ![p] = "idle"]
    /\ UNCHANGED <<dbVars, job, attempt, answer, runs, callbacks>>

-----------------------------------------------------------------------------
(* n8n's executions and the callback endpoint *)

\* An execution ends and posts its outcome; the post is repeated until it succeeds.
SendCallback(a, n, type) ==
    /\ n \in runs[a]
    /\ \A c \in callbacks[a] : c.n # n
    /\ callbacks' = [callbacks EXCEPT ![a] = @ \cup {Event(type, n)}]
    /\ UNCHANGED <<dbVars, workerVars, runs, faults>>

\* input.status: the state the callback asks for.
OutcomeState(c) == IF c.type = "outcome_completed" THEN "completed" ELSE "failed"

\* recordOutcome.  A callback already in the ledger is a duplicate and one for a
\* final action is refused with 409; neither changes anything.
RecordOutcome(a, c) ==
    /\ c \in callbacks[a]
    /\ c \notin ledger[a]
    /\ state[a] \in CallbackEligible
    /\ ReleaseLease(a, OutcomeState(c))
    /\ retryDue' = [retryDue EXCEPT ![a] = TRUE]
    /\ ledger' = [ledger EXCEPT ![a] = @ \cup {c}]
    /\ \/ /\ c.type = "outcome_completed"
          /\ outbox' = [outbox EXCEPT ![a] = @ \cup
                 {[type |-> "external_action.completed", n |-> c.n]}]
          /\ UNCHANGED incident
       \/ /\ c.type = "outcome_failed"
          /\ outbox' = [outbox EXCEPT ![a] = @ \cup
                 {[type |-> "external_action.failed", n |-> c.n], IncidentRow}]
          /\ OpenIncident(a)
    /\ UNCHANGED <<attempts, row, workerVars, envVars>>

-----------------------------------------------------------------------------
(* Operators and time *)

\* IncidentRepository.transition, a compare-and-set on the current status.
TransitionIncident(a, to) ==
    /\ incident[a] # "none"
    /\ to \in incidentTransitions[incident[a]]
    /\ incident' = [incident EXCEPT ![a] = to]
    /\ UNCHANGED <<state, attempts, leaseOwner, leaseLive, retryDue, ledger,
                   outbox, row, workerVars, envVars>>

\* The publisher that holds the lease of a is still working on it.
HolderActive(a) ==
    \E p \in Publishers :
        p = leaseOwner[a] /\ job[p] = a /\ pc[p] \in {"claimed", "answered"}

\* dispatch_lease_expires_at passes.  The lease outlives the n8n timeout, so it
\* passes under an active holder only when that process stalls, which is a fault.
LeaseExpires(a) ==
    /\ state[a] = "dispatching" /\ leaseLive[a]
    /\ leaseLive' = [leaseLive EXCEPT ![a] = FALSE]
    /\ IF HolderActive(a)
       THEN faults < MaxFaults /\ faults' = faults + 1
       ELSE UNCHANGED faults
    /\ UNCHANGED <<state, attempts, leaseOwner, retryDue, ledger, outbox, row,
                   incident, workerVars, runs, callbacks>>

\* next_retry_at passes.
RetryComesDue(a) ==
    /\ ~retryDue[a]
    /\ retryDue' = [retryDue EXCEPT ![a] = TRUE]
    /\ UNCHANGED <<state, attempts, leaseOwner, leaseLive, ledger, outbox, row,
                   incident, workerVars, envVars>>

-----------------------------------------------------------------------------
PublisherStep(p) ==
    \/ \E a \in Actions : ListUnconsumed(p, a)
    \/ ClaimDispatch(p)
    \/ Dispatch(p)
    \/ RecordDispatchAccepted(p)
    \/ ScheduleDispatchRetry(p)
    \/ FailDispatch(p)
    \/ MarkConsumed(p)

Next ==
    \/ \E p \in Publishers : PublisherStep(p) \/ Crash(p)
    \/ \E a \in Actions :
          \/ EnqueueRequested(a)
          \/ \E n \in runs[a], type \in Outcomes : SendCallback(a, n, type)
          \/ \E c \in callbacks[a] : RecordOutcome(a, c)
          \/ \E to \in IncidentStatus : TransitionIncident(a, to)
          \/ LeaseExpires(a)
          \/ RetryComesDue(a)

Spec == Init /\ [][Next]_vars

\* A publisher that holds a row carries on: its calls are awaited one after the
\* other and each returns or throws.
Continue(p) ==
    \/ ClaimDispatch(p)
    \/ Dispatch(p)
    \/ RecordDispatchAccepted(p)
    \/ ScheduleDispatchRetry(p)
    \/ FailDispatch(p)
    \/ MarkConsumed(p)

\* The runner polls for ever and a cycle goes through every row it lists, so a row
\* that stays pending is picked up again and again; deadlines pass by themselves.
Fairness ==
    /\ \A p \in Publishers : WF_vars(Continue(p))
    /\ \A a \in Actions : /\ SF_vars(\E p \in Publishers : ListUnconsumed(p, a))
                          /\ WF_vars(LeaseExpires(a))
                          /\ WF_vars(RetryComesDue(a))

FairSpec == Spec /\ Fairness

-----------------------------------------------------------------------------
(* Properties *)

\* The dispatch row of an action is consumed only once the action is settled
\* (publishPendingForTenant, outbox-publisher.ts): no interleaving of crashes, lost
\* leases and late answers drops the row while a dispatch is still owed.
NoStrandedAction ==
    \A a \in Actions :
        /\ state[a] = "absent" <=> row[a] = "none"
        /\ row[a] = "consumed" => state[a] \in Settled

\* The control plane shows an incident, and consumers are told of it, exactly when
\* the action failed, whichever of failDispatch and recordOutcome failed it.
FailureHasIncident ==
    \A a \in Actions :
        /\ state[a] = "failed" <=> incident[a] # "none"
        /\ state[a] = "failed" <=> IncidentRow \in outbox[a]

OutcomeEvents(a) ==
    {e \in ledger[a] : e.type \in Outcomes \cup {"dispatch_failed"}}
OutcomeRows(a) ==
    {r \in outbox[a] :
        r.type \in {"external_action.completed", "external_action.failed"}}

\* An action has one outcome: the ledger holds one outcome event and the outbox one
\* outcome row if the action is final, none before, and both tell what the state
\* tells.  This is what "exactly once" means for repeated and competing callbacks.
OneOutcome ==
    \A a \in Actions :
        /\ state[a] \notin Final => OutcomeEvents(a) = {} /\ OutcomeRows(a) = {}
        /\ state[a] \in Final =>
              /\ \E e \in OutcomeEvents(a) :
                    /\ OutcomeEvents(a) = {e}
                    /\ state[a] = "completed" <=> e.type = "outcome_completed"
              /\ \E r \in OutcomeRows(a) :
                    /\ OutcomeRows(a) = {r}
                    /\ state[a] = "completed" <=>
                          r.type = "external_action.completed"

\* An answer the repository is ready to record belongs to the attempt it is recorded
\* for: a publisher whose lease was taken over cannot settle a later attempt with
\* the answer to its own.
AnswerFenced ==
    \A p \in Publishers :
        pc[p] \in {"claimed", "answered"} /\ HoldsLease(p, job[p])
            => attempt[p] = attempts[job[p]]

\* The audit ledger follows dispatch_attempts: every attempt was started, no attempt
\* has two results, and the attempt in progress has none.
LedgerFollowsAttempts ==
    \A a \in Actions :
        /\ \A e \in ledger[a] :
              e.type \in Results \cup {"dispatch_started"} => e.n \in 1..attempts[a]
        /\ \A n \in 1..attempts[a] : Event("dispatch_started", n) \in ledger[a]
        /\ \A e, f \in ledger[a] :
              e.type \in Results /\ f.type \in Results /\ e.n = f.n => e = f
        /\ state[a] = "dispatching" =>
              /\ attempts[a] > 0
              /\ \A e \in ledger[a] : e.type \in Results => e.n < attempts[a]

\* No step takes an action out of the state that holds its outcome.
OutcomeIsFinal ==
    [][\A a \in Actions : state[a] \in Final => state'[a] = state[a]]_vars

\* An incident only moves forward; no later failure or callback reopens one that an
\* operator has acknowledged or resolved, although the upsert would.
IncidentMovesForward ==
    [][\A a \in Actions :
          incident[a] \in IncidentStatus /\ incident'[a] # incident[a] =>
              incident'[a] \in incidentTransitions[incident[a]]]_vars

\* Every dispatch row is consumed in the end, so by NoStrandedAction every requested
\* action is settled, provided n8n does not answer "retryable" for ever.
EveryRowConsumed ==
    \A a \in Actions : row[a] = "pending" ~> row[a] = "consumed"

Contract == INSTANCE ActionContract WITH
    phase <- [a \in Actions |->
                 IF state[a] \in {"requested", "dispatching", "retry_scheduled"}
                 THEN "open" ELSE state[a]],
    announced <- {a \in Actions : OutcomeRows(a) # {}},
    alerted <- {a \in Actions : incident[a] # "none"},
    retired <- {a \in Actions : row[a] = "consumed"}

\* The leased, retried and called-back life of an action implements the contract of
\* ActionContract: every transaction is one step of it or none.
ImplementsContract == Contract!Spec
=============================================================================
