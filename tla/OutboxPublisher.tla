--------------------------- MODULE OutboxPublisher ---------------------------
(***************************************************************************)
(* The outbox publishers (apps/worker-outbox-publisher): processes that    *)
(* drain event_outbox into NATS.  A cycle runs inside a transaction that   *)
(* holds one advisory lock, goes through the configured tenants in order,  *)
(* lists the oldest unconsumed rows of each and, for every row, writes the *)
(* incident and the health sample it stands for, publishes it and marks it *)
(* consumed.  Anything that throws ends the whole cycle.                   *)
(*                                                                         *)
(* What happens to an n8n dispatch row is the subject of ExternalActions;  *)
(* here it is consumed or deferred.                                        *)
(***************************************************************************)
EXTENDS Integers, FiniteSets, FiniteSetsExt

CONSTANTS
    Rows,        \* ids of event_outbox rows, assigned in sequence order
    Kind,        \* what a row is: see Kinds
    TenantOf,    \* the tenant of a row, as its place in OUTBOX_TENANT_IDS
    NumTenants,  \* how many tenants are configured
    Batch,       \* OUTBOX_BATCH_SIZE_PER_TENANT
    Publishers,  \* the publisher processes
    NoOwner,     \* nobody holds the advisory lock
    MaxFaults    \* failed calls, crashes and lost connections allowed

\* A poison row is a dead letter whose payload does not parse.
Kinds == {"event", "dispatch", "incident", "dead_letter", "poison"}

ASSUME OutboxAssumption ==
    /\ Rows \subseteq Nat /\ IsFiniteSet(Publishers)
    /\ Kind \in [Rows -> Kinds]
    /\ NumTenants \in Nat \ {0}
    /\ TenantOf \in [Rows -> 1..NumTenants]
    /\ Batch \in Nat \ {0}
    /\ NoOwner \notin Publishers
    /\ MaxFaults \in Nat

VARIABLES
    status,     \* of a row: absent, pending (consumed_at is NULL) or consumed
    incident,   \* of the incident a row stands for: none, open or resolved
    health,     \* the rows whose component_health sample is recorded
    published,  \* how often a row has been published to NATS
    lock,       \* the holder of the advisory lock
    pc,         \* where a publisher is in its cycle
    tenant,     \* the tenant it is draining
    queue,      \* the rows of its listing that it has not finished
    faults      \* faults spent so far, at most MaxFaults

dbVars == <<status, incident, health>>
workerVars == <<lock, pc, tenant, queue>>
vars == <<dbVars, published, workerVars, faults>>

\* The rows and marks in the database, the stream, the lock and the cycles.
TypeOK ==
    /\ status \in [Rows -> {"absent", "pending", "consumed"}]
    /\ incident \in [Rows -> {"none", "open", "resolved"}]
    /\ health \in SUBSET Rows
    /\ published \in [Rows -> Nat]
    /\ lock \in Publishers \cup {NoOwner}
    /\ pc \in [Publishers -> {"idle", "list", "row", "health", "send", "mark"}]
    /\ tenant \in [Publishers -> 1..NumTenants]
    /\ queue \in [Publishers -> SUBSET Rows]
    /\ faults \in 0..MaxFaults

Init ==
    /\ status = [r \in Rows |-> "absent"]
    /\ incident = [r \in Rows |-> "none"]
    /\ health = {}
    /\ published = [r \in Rows |-> 0]
    /\ lock = NoOwner
    /\ pc = [p \in Publishers |-> "idle"]
    /\ tenant = [p \in Publishers |-> 1]
    /\ queue = [p \in Publishers |-> {}]
    /\ faults = 0

-----------------------------------------------------------------------------
(* The rows *)

\* A transaction that inserted row r commits.  Ids are drawn from a sequence before
\* the commit, so rows become visible in any order.  A repeated enqueue conflicts
\* and changes nothing.  The one producer of incident.opened.v1 rows writes the
\* incident in the same transaction.
Enqueue(r) ==
    /\ status[r] = "absent"
    /\ status' = [status EXCEPT ![r] = "pending"]
    /\ incident' = [incident EXCEPT ![r] =
                       IF Kind[r] = "incident" THEN "open" ELSE @]
    /\ UNCHANGED <<health, published, workerVars, faults>>

\* An operator closes an incident (IncidentRepository.transition).
ResolveIncident(r) ==
    /\ incident[r] = "open"
    /\ incident' = [incident EXCEPT ![r] = "resolved"]
    /\ UNCHANGED <<status, health, published, workerVars, faults>>

-----------------------------------------------------------------------------
(* One cycle *)

Pending(t) == {r \in Rows : TenantOf[r] = t /\ status[r] = "pending"}

\* Mutant: a cursor.  Rows at or below the last one published are not listed.
OldestAfterCursor(t) ==
    LET seen == {s \in Rows : TenantOf[s] = t /\ published[s] > 0}
        new == {r \in Pending(t) : \A s \in seen : s < r}
    IN  {r \in new : Cardinality({s \in new : s < r}) < Batch}

\* ORDER BY id ASC LIMIT batch.
Oldest(t) ==
    {r \in Pending(t) : Cardinality({s \in Pending(t) : s < r}) < Batch}

\* The row being worked on: listed rows are taken in id order.
Current(p) == Min(queue[p])

\* The end of the transaction around the cycle: the lock goes with it, if the
\* connection still held it.
EndCycle(p) ==
    /\ pc' = [pc EXCEPT ![p] = "idle"]
    /\ queue' = [queue EXCEPT ![p] = {}]
    /\ lock' = IF lock = p THEN NoOwner ELSE lock
    /\ UNCHANGED tenant

LockAvailable == lock = NoOwner

\* The timer or a notification starts a cycle.  One that finds the lock taken, or a
\* cycle of its own in flight, returns at once and changes nothing.
StartCycle(p) ==
    /\ pc[p] = "idle"
    /\ LockAvailable
    /\ lock' = p
    /\ pc' = [pc EXCEPT ![p] = "list"]
    /\ tenant' = [tenant EXCEPT ![p] = 1]
    /\ UNCHANGED <<dbVars, published, queue, faults>>

ListUnconsumed(p) ==
    /\ pc[p] = "list"
    /\ queue' = [queue EXCEPT ![p] = Oldest(tenant[p])]
    /\ pc' = [pc EXCEPT ![p] = "row"]
    /\ UNCHANGED <<dbVars, published, lock, tenant, faults>>

LastTenant(p) == tenant[p] = NumTenants

\* The listing is done: on to the next tenant, or to the end of the cycle.
NextTenant(p) ==
    /\ pc[p] = "row" /\ queue[p] = {}
    /\ \/ /\ ~LastTenant(p)
          /\ tenant' = [tenant EXCEPT ![p] = @ + 1]
          /\ pc' = [pc EXCEPT ![p] = "list"]
          /\ UNCHANGED <<lock, queue>>
       \/ LastTenant(p) /\ EndCycle(p)
    /\ UNCHANGED <<dbVars, published, faults>>

\* IncidentRepository.create: INSERT ... ON CONFLICT DO NOTHING.
CreateIncident(r) ==
    incident' = [incident EXCEPT ![r] = IF @ = "none" THEN "open" ELSE @]

\* Mutant: a row is published first and its incident is left to the consumers.
PersistOperationalStateSkipped(p) ==
    /\ pc[p] = "row" /\ queue[p] # {}
    /\ pc' = [pc EXCEPT ![p] = "send"]
    /\ UNCHANGED <<dbVars, published, lock, tenant, queue, faults>>

\* persistOperationalState up to the incident.  A payload that does not parse throws
\* out of publishCycle, whatever tenants and rows were still to come.
PersistOperationalState(p) ==
    /\ pc[p] = "row" /\ queue[p] # {}
    /\ LET r == Current(p) IN
       \/ /\ Kind[r] = "poison"
          /\ EndCycle(p)
          /\ UNCHANGED incident
       \/ /\ Kind[r] \in {"incident", "dead_letter"}
          /\ CreateIncident(r)
          /\ pc' = [pc EXCEPT ![p] =
                       IF Kind[r] = "dead_letter" THEN "health" ELSE "send"]
          /\ UNCHANGED <<lock, tenant, queue>>
       \/ /\ Kind[r] \in {"event", "dispatch"}
          /\ pc' = [pc EXCEPT ![p] = "send"]
          /\ UNCHANGED <<incident, lock, tenant, queue>>
    /\ UNCHANGED <<status, health, published, faults>>

\* The rest of persistOperationalState, a transaction of its own: the component is
\* quarantined under the key of the incident, once.
RecordHealth(p) ==
    /\ pc[p] = "health"
    /\ health' = health \cup {Current(p)}
    /\ pc' = [pc EXCEPT ![p] = "send"]
    /\ UNCHANGED <<status, incident, published, lock, tenant, queue, faults>>

\* jetstream.publish, without a message id: the server keeps every copy.
Publish(p) ==
    /\ pc[p] = "send" /\ Kind[Current(p)] # "dispatch"
    /\ published' = [published EXCEPT ![Current(p)] = @ + 1]
    /\ pc' = [pc EXCEPT ![p] = "mark"]
    /\ UNCHANGED <<dbVars, lock, tenant, queue, faults>>

\* dispatchN8nAction returns: a deferred row stays for a later cycle.
DispatchN8nAction(p) ==
    /\ pc[p] = "send" /\ Kind[Current(p)] = "dispatch"
    /\ \/ /\ pc' = [pc EXCEPT ![p] = "mark"]
          /\ UNCHANGED queue
       \/ /\ pc' = [pc EXCEPT ![p] = "row"]
          /\ queue' = [queue EXCEPT ![p] = @ \ {Current(p)}]
    /\ UNCHANGED <<dbVars, published, lock, tenant, faults>>

\* Mutant: the listing is marked consumed as a whole.
ConsumedRowsAll(p) == queue[p]

ConsumedRows(p) == {Current(p)}

MarkConsumed(p) ==
    /\ pc[p] = "mark"
    /\ status' = [r \in Rows |->
                     IF r \in ConsumedRows(p) THEN "consumed" ELSE status[r]]
    /\ queue' = [queue EXCEPT ![p] = @ \ ConsumedRows(p)]
    /\ pc' = [pc EXCEPT ![p] = "row"]
    /\ UNCHANGED <<incident, health, published, lock, tenant, faults>>

-----------------------------------------------------------------------------
(* Faults *)

\* An awaited call throws, or the process dies and its connection with it.
CallFails(p) ==
    /\ pc[p] # "idle"
    /\ faults < MaxFaults
    /\ faults' = faults + 1
    /\ EndCycle(p)
    /\ UNCHANGED <<dbVars, published>>

\* The connection that holds the lock is cut.  The cycle does not use it and goes on;
\* its transaction fails when the cycle is over.
ConnectionLost(p) ==
    /\ lock = p
    /\ faults < MaxFaults
    /\ faults' = faults + 1
    /\ lock' = NoOwner
    /\ UNCHANGED <<dbVars, published, pc, tenant, queue>>

-----------------------------------------------------------------------------
CycleStep(p) ==
    \/ ListUnconsumed(p)
    \/ NextTenant(p)
    \/ PersistOperationalState(p)
    \/ RecordHealth(p)
    \/ Publish(p)
    \/ DispatchN8nAction(p)
    \/ MarkConsumed(p)

Next ==
    \/ \E p \in Publishers :
          StartCycle(p) \/ CycleStep(p) \/ CallFails(p) \/ ConnectionLost(p)
    \/ \E r \in Rows : Enqueue(r) \/ ResolveIncident(r)

Spec == Init /\ [][Next]_vars

\* Timers keep firing, so a free lock is taken by some idle publisher, and a cycle
\* awaits its calls one after the other, each of which returns or throws.
Fairness ==
    /\ WF_vars(\E p \in Publishers : StartCycle(p))
    /\ \A p \in Publishers : WF_vars(CycleStep(p))

FairSpec == Spec /\ Fairness

-----------------------------------------------------------------------------
(* Properties *)

\* The comment on persistOperationalState (outbox-publisher.ts:166-170): nothing that
\* consumers can see in NATS is missing from the control plane, at any moment.
IncidentBeforePublish ==
    \A r \in Rows :
        /\ published[r] > 0 /\ Kind[r] \in {"incident", "dead_letter"} =>
              incident[r] # "none"
        /\ published[r] > 0 /\ Kind[r] = "dead_letter" => r \in health

\* A row leaves the outbox only after NATS acknowledged it (docs/SYSTEM_DESIGN.md:267),
\* even when a cycle works on a listing that another cycle has overtaken.
ConsumedWasPublished ==
    \A r \in Rows :
        status[r] = "consumed" /\ Kind[r] # "dispatch" => published[r] > 0

\* The lock keeps cycles apart, so every second copy of a row is the price of a
\* fault: a publisher that stopped between the publish and the mark, or a lost lock.
DuplicatesNeedFaults ==
    /\ \A r \in Rows : published[r] <= 1 + faults
    /\ Cardinality({p \in Publishers : pc[p] # "idle"}) <= 1 + faults

\* Each row is published at least once before it is marked, and once for each fault more.
PublishedBeforeMark == ConsumedWasPublished /\ DuplicatesNeedFaults

\* What can stand in front of a row for ever: a poison row of an earlier tenant or
\* earlier in its own, and a batch full of deferred dispatches.
Blocked(r) ==
    \/ Kind[r] \in {"poison", "dispatch"}
    \/ \E s \in Rows : /\ Kind[s] = "poison"
                       /\ \/ TenantOf[s] < TenantOf[r]
                          \/ TenantOf[s] = TenantOf[r] /\ s < r
    \/ Cardinality({s \in Rows : /\ Kind[s] = "dispatch"
                                 /\ TenantOf[s] = TenantOf[r]
                                 /\ s < r}) >= Batch

\* Every other row is consumed in the end, also one that becomes visible after rows
\* with larger ids were published.
UnblockedRowConsumed ==
    \A r \in Rows :
        ~Blocked(r) => (status[r] = "pending" ~> status[r] = "consumed")
=============================================================================
