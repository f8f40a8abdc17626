---------------------------- MODULE SignalRouter ----------------------------
(***************************************************************************)
(* The durable signal inbox (packages/db/src/signal-events-repository.ts)  *)
(* and the replicas that drain it (apps/worker-signal-router).  A replica  *)
(* leases a batch of unprocessed signals, enqueues for each the routing    *)
(* decision and the request to the target agent, and marks it processed.   *)
(* The batch is leased once and the lease is never renewed, so it can run  *)
(* out while the replica is still at work on it.                           *)
(***************************************************************************)
EXTENDS Integers, FiniteSets

CONSTANTS
    Signals,    \* ids of signal_events rows
    KindOf,     \* resolveSignalKind of a signal
    LaneOf,     \* its tenant and signal type, as a place in the polling order
    NumLanes,   \* tenants times signal types
    Batch,      \* SIGNAL_ROUTER_BATCH_SIZE_PER_SIGNAL_TYPE
    Routers,    \* the replicas, each a claim owner of its own
    NoOwner,    \* processing_lease_owner is NULL
    MaxFaults   \* failures, crashes and leases that run out under a replica

Kinds == {"prospect.replied", "competitor.pricing_change", "approval.rejected",
          "other"}

ASSUME SignalsAssumption ==
    /\ Signals \subseteq Nat /\ Signals # {}
    /\ KindOf \in [Signals -> Kinds]
    /\ NumLanes \in Nat \ {0}
    /\ LaneOf \in [Signals -> 1..NumLanes]
    /\ Batch \in Nat \ {0}
    /\ NoOwner \notin Routers
    /\ MaxFaults \in Nat

VARIABLES
    stage,     \* of a signal: absent, unprocessed or processed
    owner,     \* signal_events.processing_lease_owner
    live,      \* processing_lease_expires_at lies in the future
    attempts,  \* signal_events.processing_attempts
    outbox,    \* the event types enqueued under the keys of a signal
    pc,        \* where a replica is in processTenant
    lane,      \* the tenant and type it is polling
    queue,     \* the claimed signals it has not finished, the current one first
    current,   \* the signal it is processing
    faults     \* faults spent so far, at most MaxFaults

dbVars == <<stage, owner, live, attempts, outbox>>
workerVars == <<pc, lane, queue, current>>
vars == <<dbVars, workerVars, faults>>

classifySignal(kind) ==
    CASE kind = "prospect.replied"  -> "warm_outbound_researcher"
      [] kind = "approval.rejected" -> "learning_director"
      [] OTHER                      -> "intel_director"

\* The request a routed signal turns into.
Downstream(s) ==
    IF classifySignal(KindOf[s]) = "intel_director"
    THEN "intel_brief.requested" ELSE "agent.work.requested"

EventTypes == {"signal.routed", "intel_brief.requested", "agent.work.requested"}

\* The signals with their leases, the outbox and the replicas' ticks.
TypeOK ==
    /\ stage \in [Signals -> {"absent", "unprocessed", "processed"}]
    /\ owner \in [Signals -> Routers \cup {NoOwner}]
    /\ live \in [Signals -> BOOLEAN]
    /\ attempts \in [Signals -> Nat]
    /\ outbox \in [Signals -> SUBSET EventTypes]
    /\ pc \in [Routers -> {"idle", "claim", "next", "route", "request", "mark",
                           "release"}]
    /\ lane \in [Routers -> 1..NumLanes]
    /\ queue \in [Routers -> SUBSET Signals]
    /\ current \in [Routers -> Signals]
    /\ faults \in 0..MaxFaults

Init ==
    /\ stage = [s \in Signals |-> "absent"]
    /\ owner = [s \in Signals |-> NoOwner]
    /\ live = [s \in Signals |-> FALSE]
    /\ attempts = [s \in Signals |-> 0]
    /\ outbox = [s \in Signals |-> {}]
    /\ pc = [w \in Routers |-> "idle"]
    /\ lane = [w \in Routers |-> 1]
    /\ queue = [w \in Routers |-> {}]
    /\ current = [w \in Routers |-> CHOOSE s \in Signals : TRUE]
    /\ faults = 0

-----------------------------------------------------------------------------
\* POST /v1/signals.  A post that repeats an external id conflicts and changes
\* nothing.
Ingest(s) ==
    /\ stage[s] = "absent"
    /\ stage' = [stage EXCEPT ![s] = "unprocessed"]
    /\ UNCHANGED <<owner, live, attempts, outbox, workerVars, faults>>

\* The timer starts a tick; one that finds another in flight returns at once.
StartTick(w) ==
    /\ pc[w] = "idle"
    /\ pc' = [pc EXCEPT ![w] = "claim"]
    /\ lane' = [lane EXCEPT ![w] = 1]
    /\ UNCHANGED <<dbVars, queue, current, faults>>

\* Mutant: an expired lease is never taken over.
ClaimableUnowned(s) == stage[s] = "unprocessed" /\ owner[s] = NoOwner

\* Unprocessed, and the lease is NULL or has expired.
Claimable(s) == stage[s] = "unprocessed" /\ ~live[s]

ClaimUnprocessed(w) ==
    LET C == {s \in Signals : LaneOf[s] = lane[w] /\ Claimable(s)}
        B == {s \in C : Cardinality({r \in C : r < s}) < Batch}
    IN  /\ pc[w] = "claim"
        /\ owner' = [s \in Signals |-> IF s \in B THEN w ELSE owner[s]]
        /\ live' = [s \in Signals |-> s \in B \/ live[s]]
        /\ attempts' = [s \in Signals |->
                           IF s \in B THEN attempts[s] + 1 ELSE attempts[s]]
        /\ queue' = [queue EXCEPT ![w] = B]
        /\ pc' = [pc EXCEPT ![w] = "next"]
        /\ UNCHANGED <<stage, outbox, lane, current, faults>>

\* The claimed rows come back from UPDATE ... RETURNING in no particular order.
TakeNext(w, s) ==
    /\ pc[w] = "next" /\ s \in queue[w]
    /\ current' = [current EXCEPT ![w] = s]
    /\ pc' = [pc EXCEPT ![w] = "route"]
    /\ UNCHANGED <<dbVars, lane, queue, faults>>

LastLane(w) == lane[w] = NumLanes

\* The batch is done: on to the next type or tenant, or to the end of the tick.
NextLane(w) ==
    /\ pc[w] = "next" /\ queue[w] = {}
    /\ \/ /\ ~LastLane(w)
          /\ lane' = [lane EXCEPT ![w] = @ + 1]
          /\ pc' = [pc EXCEPT ![w] = "claim"]
       \/ /\ LastLane(w)
          /\ pc' = [pc EXCEPT ![w] = "idle"]
          /\ UNCHANGED lane
    /\ UNCHANGED <<dbVars, queue, current, faults>>

\* OutboxRepository.enqueue under the key of signal s: a second row conflicts.
EnqueueOnce(s, type) == outbox' = [outbox EXCEPT ![s] = @ \cup {type}]

\* SignalRouter.route.  Grading by the LLM never throws and only adds to the payload.
Route(w) ==
    /\ pc[w] = "route"
    /\ EnqueueOnce(current[w], "signal.routed")
    /\ pc' = [pc EXCEPT ![w] = "request"]
    /\ UNCHANGED <<stage, owner, live, attempts, lane, queue, current, faults>>

\* Mutant: a replay asks whatever agent has no request yet.
RequestTypeReplayed(s) ==
    IF Downstream(s) \in outbox[s] THEN "agent.work.requested" ELSE Downstream(s)

RequestType(s) == Downstream(s)

RequestWork(w) ==
    /\ pc[w] = "request"
    /\ EnqueueOnce(current[w], RequestType(current[w]))
    /\ pc' = [pc EXCEPT ![w] = "mark"]
    /\ UNCHANGED <<stage, owner, live, attempts, lane, queue, current, faults>>

Finish(w) ==
    /\ queue' = [queue EXCEPT ![w] = @ \ {current[w]}]
    /\ pc' = [pc EXCEPT ![w] = "next"]
    /\ UNCHANGED <<lane, current>>

\* markProcessed does not compare the owner: a replica whose lease ran out may still
\* mark the signal, and clears the lease of the replica that took it over.
MarkProcessed(w) ==
    LET s == current[w] IN
    /\ pc[w] = "mark"
    /\ stage' = [stage EXCEPT ![s] = "processed"]
    /\ IF stage[s] = "unprocessed"
       THEN /\ owner' = [owner EXCEPT ![s] = NoOwner]
            /\ live' = [live EXCEPT ![s] = FALSE]
       ELSE UNCHANGED <<owner, live>>
    /\ Finish(w)
    /\ UNCHANGED <<attempts, outbox, faults>>

\* A call of processSignal throws and is caught: the claim is to be released.
RoutingFails(w) ==
    /\ pc[w] \in {"route", "request", "mark"}
    /\ faults < MaxFaults
    /\ faults' = faults + 1
    /\ pc' = [pc EXCEPT ![w] = "release"]
    /\ UNCHANGED <<dbVars, lane, queue, current>>

\* Mutant: the owner is not compared.
ReleasableAny(w, s) == stage[s] = "unprocessed"

Releasable(w, s) == stage[s] = "unprocessed" /\ owner[s] = w

ReleaseClaims(w) ==
    LET s == current[w] IN
    /\ pc[w] = "release"
    /\ \/ /\ Releasable(w, s)
          /\ owner' = [owner EXCEPT ![s] = NoOwner]
          /\ live' = [live EXCEPT ![s] = FALSE]
       \/ ~Releasable(w, s) /\ UNCHANGED <<owner, live>>
    /\ Finish(w)
    /\ UNCHANGED <<stage, attempts, outbox, faults>>

\* The process dies.  A claim or a release that throws rejects the tick, which nobody
\* catches, and ends the process too.
Crash(w) ==
    /\ pc[w] # "idle"
    /\ faults < MaxFaults
    /\ faults' = faults + 1
    /\ pc' = [pc EXCEPT ![w] = "idle"]
    /\ queue' = [queue EXCEPT ![w] = {}]
    /\ UNCHANGED <<dbVars, lane, current>>

\* The lease passes.  Under a replica that still has the signal in its batch this
\* takes a slow batch, which MaxFaults bounds.
LeaseExpires(s) ==
    /\ live[s]
    /\ live' = [live EXCEPT ![s] = FALSE]
    /\ IF \E w \in Routers : owner[s] = w /\ s \in queue[w]
       THEN faults < MaxFaults /\ faults' = faults + 1
       ELSE UNCHANGED faults
    /\ UNCHANGED <<stage, owner, attempts, outbox, workerVars>>

-----------------------------------------------------------------------------
TickStep(w) ==
    \/ ClaimUnprocessed(w)
    \/ \E s \in queue[w] : TakeNext(w, s)
    \/ NextLane(w)
    \/ Route(w)
    \/ RequestWork(w)
    \/ MarkProcessed(w)
    \/ ReleaseClaims(w)

Next ==
    \/ \E w \in Routers :
          StartTick(w) \/ TickStep(w) \/ RoutingFails(w) \/ Crash(w)
    \/ \E s \in Signals : Ingest(s) \/ LeaseExpires(s)

Spec == Init /\ [][Next]_vars

\* The interval of every replica keeps firing, a tick awaits its calls one after the
\* other, and leases run out.
Fairness ==
    /\ \A w \in Routers : WF_vars(StartTick(w)) /\ WF_vars(TickStep(w))
    /\ \A s \in Signals : WF_vars(LeaseExpires(s))

FairSpec == Spec /\ Fairness

-----------------------------------------------------------------------------
(* Properties *)

\* However often a signal is run, and by however many replicas, it is routed once: the
\* outbox never holds a request to a second agent, and a processed signal has both its
\* routing decision and its request there (signal-ingestion-worker.ts:243-245).
RoutedOnce ==
    \A s \in Signals :
        /\ outbox[s] \subseteq {"signal.routed", Downstream(s)}
        /\ stage[s] = "processed" => outbox[s] = {"signal.routed", Downstream(s)}

\* Leases keep replicas off each other's batches: each run of a signal after its first
\* is the price of a failure, a crash or an overrun lease.
RerunsNeedFaults == \A s \in Signals : attempts[s] <= 1 + faults

\* A signal is routed once, and run again only for a fault.
RoutedOnceUnlessFaults == RoutedOnce /\ RerunsNeedFaults

\* A replica that gives up a signal cannot free the lease that another one has taken
\* since: a live lease of an unprocessed signal ends only by its holder or by time.
LeaseFencedFromOthers ==
    [][\A s \in Signals, w \in Routers :
          owner[s] = w /\ owner'[s] # w /\ stage'[s] = "unprocessed" =>
              ~live[s] \/ queue'[w] # queue[w]]_vars

\* Every accepted signal is processed in the end.
EverySignalProcessed ==
    \A s \in Signals : stage[s] = "unprocessed" ~> stage[s] = "processed"
=============================================================================
