------------------------- MODULE RepositoryDoubles -------------------------
(***************************************************************************)
(* Every repository of packages/db has an in-memory double, on which the   *)
(* tests of the API and of the workers run. They "mirror the persistence   *)
(* invariants" so that "a test double cannot mask a production-only        *)
(* control-plane bug" (adaptive-control-plane-repository.ts:917-920). Here *)
(* the double and the Postgres repository get the same calls, one after    *)
(* the other, from two tenants, while the clock advances and the outbox    *)
(* may refuse a row; they must give the same answers.                      *)
(*                                                                         *)
(* Repositories share no rows, so a behaviour uses one of them. Calls that *)
(* overlap are not modelled.                                               *)
(***************************************************************************)
EXTENDS EventDoubles

CONSTANTS
    Families,      \* the repositories used
    Tenants, Keys, \* tenants, and unique keys they choose
    Entities,      \* units of experiments, pairs of texts
    Observations,  \* observations that are reported
    Samples,       \* health samples that are reported, but for their time
    Signals,       \* signals that arrive: sources with external ids
    Requests,      \* requests of external actions
    Owners,        \* holders of leases
    Settings,      \* patches of the settings document
    MaxCalls,      \* bounds: calls for each repository, and time
    MaxTime

ASSUME DoublesAssumption == Lease \in Nat \ {0} /\ MaxTime \in Nat /\ \A f \in Families : MaxCalls[f] \in Nat

VARIABLES
    family,  \* the repository of this behaviour
    mem, pg, \* the double's state and the tables
    now,
    calls,   \* calls so far
    agree,   \* history: the last call got the same answer from both
    torn     \* history: the outbox refused a row of an action already written

vars == <<family, mem, pg, now, calls, agree, torn>>

MemEmpty ==
    [experiments |-> [experiments |-> MemTable, assignments |-> MemTable,
                      observations |-> MemTable],
     proposals |-> [proposals |-> MemTable, outbox |-> {}],
     health |-> MemTable, incidents |-> MemTable, actions |-> MemActions,
     signals |-> [rows |-> <<>>, index |-> {}],
     outbox |-> MemTable, playbooks |-> MemTable, runs |-> MemTable,
     feedback |-> <<>>, settings |-> <<>>]

PgEmpty ==
    [experiments |-> [experiments |-> <<>>, assignments |-> <<>>, observations |-> <<>>],
     proposals |-> [proposals |-> <<>>, outbox |-> {}],
     health |-> <<>>, incidents |-> <<>>, actions |-> PgActions, signals |-> <<>>,
     outbox |-> <<>>, playbooks |-> <<>>, runs |-> <<>>, feedback |-> <<>>, settings |-> <<>>]

(* The evidence of an experiment takes many calls: it begins with the      *)
(* experiment running.                                                     *)
Begin ==
    IF family # "evidence" THEN mem = MemEmpty[family] /\ pg = PgEmpty[family]
    ELSE \E t \in Tenants, k \in Keys :
           LET m == MemEmpty.experiments
               p == PgEmpty.experiments
           IN  /\ mem = Within(m, "experiments",
                           MemCreateExperiment(m.experiments, t, k, "running", 0)).to
               /\ pg = Within(p, "experiments",
                           PgCreateExperiment(p.experiments, t, k, "running", 0)).to

Init ==
    /\ family \in Families /\ Begin
    /\ now = 0 /\ calls = 0 /\ agree = TRUE /\ torn = FALSE

-----------------------------------------------------------------------------

(* The same call on both. *)
Call(m, p) ==
    /\ calls < MaxCalls[family] /\ calls' = calls + 1
    /\ mem' = m.to /\ pg' = p.to /\ agree' = (m.ans = p.ans)
    /\ torn' = (torn \/ (family = "actions" /\ m.ans = Refused("outbox") /\ mem' # mem))
    /\ UNCHANGED <<family, now>>

Ids == 1..2

ExperimentCall ==
    /\ family = "experiments"
    /\ \/ \E t \in Tenants, k \in Keys, s \in {"draft", "running"} :
            Call(Within(mem, "experiments", MemCreateExperiment(mem.experiments, t, k, s, now)),
                 Within(pg, "experiments", PgCreateExperiment(pg.experiments, t, k, s, now)))
       \/ \E t \in Tenants, i \in Ids, from, to \in DOMAIN ExperimentTransitions,
             w \in {Null, "b"} :
            Call(Within(mem, "experiments",
                     MemTransitionExperiment(mem.experiments, t, i, from, to, w, now)),
                 Within(pg, "experiments",
                     PgTransitionExperiment(pg.experiments, t, i, from, to, w, now)))
       \/ \E t \in Tenants, i \in Ids, e \in Entities, v \in {"a", "b"} :
            Call(MemAssign(mem, t, i, e, v), PgAssign(pg, t, i, e, v))

ObservationCall ==
    /\ family \in {"experiments", "evidence"}
    /\ \E t \in Tenants, i \in Ids, o \in Observations :
         Call(MemObserve(mem, t, i, o, now), PgObserve(pg, t, i, o, now))

ProposalCall ==
    /\ family = "proposals"
    /\ \/ \E t \in Tenants, k \in Keys :
            Call(MemCreateProposal(mem, t, k, now), PgCreateProposal(pg, t, k, now))
       \/ \E t \in Tenants, i \in Ids :
            \/ \E d \in DOMAIN StatusForDecision :
                 Call(MemEvaluate(mem, t, i, d, now), PgEvaluate(pg, t, i, d, now))
            \/ \E o \in Owners, refused \in BOOLEAN :
                 Call(MemApprove(mem, t, i, o, refused, now), PgApprove(pg, t, i, o, refused, now))
            \/ Call(MemClaim(mem, t, i, calls, now), PgClaim(pg, t, i, calls, now))
            \/ \E token \in 0..MaxCalls[family] :
                 Call(MemPromote(mem, t, i, token, now), PgPromote(pg, t, i, token, now))
            \/ Call(MemRollBack(mem, t, i, now), PgRollBack(pg, t, i, now))

HealthCall ==
    /\ family = "health"
    /\ \E t \in Tenants, s \in Samples, at \in 0..now :
         LET sample == s @@ [at |-> at]
         IN  Call(MemRecordHealth(mem, t, sample), PgRecordHealth(pg, t, sample))

IncidentCall ==
    /\ family = "incidents"
    /\ \/ \E t \in Tenants, k \in Keys :
            Call(MemCreateIncident(mem, t, k, now), PgCreateIncident(pg, t, k, now))
       \/ \E t \in Tenants, i \in Ids, from, to \in DOMAIN IncidentTransitions, s \in {Null, 1} :
            Call(MemTransitionIncident(mem, t, i, from, to, s, now),
                 PgTransitionIncident(pg, t, i, from, to, s, now))

(* A step of an external action; the outbox may refuse its row. *)
ActionCall ==
    /\ family = "actions"
    /\ \E q \in Requests, refused \in BOOLEAN :
         /\ \/ Call(MemEnqueueRequested(mem, q, refused), PgEnqueueRequested(pg, q, refused))
            \/ ~refused /\ \E o \in Owners :
                 Call(MemClaimDispatch(mem, q, o, now), PgClaimDispatch(pg, q, o, now))
            \/ \E o \in Owners, how \in {"dispatched", "retry_scheduled", "failed"} :
                 Call(MemEnd(mem, q, o, how, refused, now), PgEnd(pg, q, o, how, refused, now))
            \/ \E cb \in Keys, how \in {"completed", "failed"} :
                 Call(MemRecordOutcome(mem, q, cb, how, refused),
                      PgRecordOutcome(pg, q, cb, how, refused))

SignalCall ==
    /\ family = "signals"
    /\ \/ \E t \in Tenants, arrived \in Signals :
            LET s == arrived @@ [tenant |-> t]
            IN  Len(pg) < 3 /\ Call(MemIngest(mem, s, now), PgIngest(pg, s, now))
       \/ \E t \in Tenants, o \in Owners, n \in {1, 2} :
            Call(MemClaimUnprocessed(mem, t, n, o, now), PgClaimUnprocessed(pg, t, n, o, now))
       \/ \E t \in Tenants, ids \in SUBSET Ids :
            \/ Call(MemMarkProcessed(mem, t, ids), PgMarkProcessed(pg, t, ids))
            \/ \E o \in Owners :
                 Call(MemReleaseClaims(mem, t, ids, o), PgReleaseClaims(pg, t, ids, o))

OutboxCall ==
    /\ family = "outbox"
    /\ \E t \in Tenants :
         \/ \E type, k \in Keys : Call(MemEnqueue(mem, t, type, k), PgEnqueue(pg, t, type, k))
         \/ \E i \in Ids : Call(MemMarkConsumed(mem, t, i), PgMarkConsumed(pg, t, i))

PlaybookCall ==
    /\ family = "playbooks"
    /\ \E t \in Tenants :
         \/ \E type \in Keys : Call(MemCreateVersion(mem, t, type), PgCreateVersion(pg, t, type))
         \/ \E i \in Ids : Call(MemRetire(mem, t, i), PgRetire(pg, t, i))

RunCall ==
    /\ family = "runs"
    /\ \E t \in Tenants, f \in Keys :
         \/ Call(MemUpsertRequested(mem, t, f), PgUpsertRequested(pg, t, f))
         \/ \E from, to \in {"requested", "in_progress", "completed", "failed"},
               code \in {Null, "error"} :
              Call(MemTransitionState(mem, t, f, from, to, code),
                   PgTransitionState(pg, t, f, from, to, code))

(* approval_feedback rows and motion scores are appended, settings patched. *)
DocumentCall ==
    \/ /\ family = "feedback"
       /\ \E t \in Tenants : Call(MemAppend(mem, t, now), PgAppend(pg, t, now))
    \/ /\ family = "settings"
       /\ \E t \in Tenants, patch \in Settings :
            Call(MemPatch(mem, t, patch), PgPatch(pg, t, patch))

(* The clock advances. *)
Tick == now < MaxTime /\ now' = now + 1 /\ UNCHANGED <<family, mem, pg, calls, agree, torn>>

Next ==
    \/ ExperimentCall \/ ObservationCall \/ ProposalCall \/ HealthCall \/ IncidentCall
    \/ ActionCall \/ SignalCall \/ OutboxCall \/ PlaybookCall \/ RunCall \/ DocumentCall \/ Tick

Spec == Init /\ [][Next]_vars

-----------------------------------------------------------------------------
(* Where the two are known to differ. *)

(* Two units whose texts joined with a colon are the same text. *)
Ambiguous ==
    \E i, j \in DOMAIN pg.assignments : i # j
        /\ LET a == pg.assignments[i]
               b == pg.assignments[j]
           IN  a.tenant = b.tenant /\ a.exp = b.exp /\ Join(a.entity) = Join(b.entity)

(* A metric with more decimals than its column. *)
Fractional == \E i \in DOMAIN mem.observations.rows : mem.observations.rows[i].value % 2 = 1

(* Entities of observations joined with a colon. *)
AmbiguousEvidence ==
    \E i, j \in DOMAIN pg.observations : /\ pg.observations[i].entity # pg.observations[j].entity
        /\ Join(pg.observations[i].entity) = Join(pg.observations[j].entity)

(* Two samples of a tenant with the same time of observation. *)
SameTime ==
    \E i, j \in DOMAIN pg : i # j /\ pg[i].tenant = pg[j].tenant /\ pg[i].at = pg[j].at

(* Two samples whose component and key joined with a colon are one text. *)
AmbiguousHealth ==
    \E i, j \in DOMAIN pg : /\ i # j /\ pg[i].tenant = pg[j].tenant
        /\ Join(<<pg[i].component, pg[i].key>>) = Join(<<pg[j].component, pg[j].key>>)

(* A source sent a second signal with an empty external id: the double     *)
(* takes it for one without an id, Postgres throws.                        *)
EmptyTwice ==
    \E i, j \in DOMAIN mem.rows : /\ i # j /\ mem.rows[i].tenant = mem.rows[j].tenant
        /\ mem.rows[i].source = mem.rows[j].source
        /\ mem.rows[i].ext = Empty /\ mem.rows[j].ext = Empty

(* The double answers every call as Postgres does (the rows, the refusals  *)
(* and the isDuplicate marks), whatever both tenants called before, except *)
(* for assignments whose entity names differ only in where a colon stands, *)
(* health samples whose component and key do, metrics the column rounds,   *)
(* an empty external id that one source sends twice, and an external       *)
(* action whose outbox row was refused, which Postgres rolls back and the  *)
(* double keeps.                                                           *)
AnswersAgree ==
    \/ agree \/ torn
    \/ family \in {"experiments", "evidence"} /\ (Ambiguous \/ Fractional)
    \/ family = "health" /\ AmbiguousHealth
    \/ family = "signals" /\ EmptyTwice

Limit == 1

ExperimentReads ==
    \A t \in Tenants :
        LET mine(rows) == {i \in DOMAIN rows : rows[i].tenant = t}
        IN  /\ MemSummary(mem.experiments, t) = PgSummary(pg.experiments, t)
            /\ PgMayList(pg.experiments, mine(pg.experiments), Limit,
                   MemNewestFirst(mem.experiments.rows, mine(mem.experiments.rows), Limit))
            /\ PgMayList(pg.observations, mine(pg.observations), Limit,
                   MemNewestFirst(mem.observations.rows, mine(mem.observations.rows), Limit))
            /\ \A i \in Ids : MemEvidence(mem, t, i) = PgEvidence(pg, t, i)

ProposalReads ==
    \A t \in Tenants :
        /\ MemSummary(mem.proposals, t) = PgSummary(pg.proposals, t)
        /\ \A k \in Keys : MemByKey(mem.proposals, t, k) = PgByKey(pg.proposals, t, k)
        /\ LET approved(rows) == {i \in DOMAIN rows : /\ rows[i].tenant = t
                                                      /\ rows[i].status = "approved"}
           IN  PgMayList(pg.proposals, approved(pg.proposals), Limit,
                   MemNewestFirst(mem.proposals.rows, approved(mem.proposals.rows), Limit))
        /\ mem.outbox = pg.outbox

HealthReads ==
    \A t \in Tenants :
        /\ \A s \in Samples :
              MemByComponent(mem, t, s.component) = PgByComponent(pg, t, s.component)
        /\ PgListLatest(pg, t, Limit, MemListLatest(mem, t, Limit))

IncidentReads ==
    \A t \in Tenants :
        LET open(rows) == {i \in DOMAIN rows : rows[i].tenant = t /\ rows[i].status = "open"}
        IN  PgMayList(pg, open(pg), Limit, MemNewestFirst(mem.rows, open(mem.rows), Limit))

(* The double keeps no incidents: the outbox stands for them. *)
ActionReads ==
    /\ \A q \in Requests : MemByAction(mem, q.tenant, q.action) = PgByAction(pg, q.tenant, q.action)
    /\ mem.outbox = pg.outbox
    /\ pg.incidents = {k \in mem.outbox : k[1] = "incident"}

SignalReads ==
    \A t \in Tenants, n \in 0..2 :
        /\ MemUnprocessed(mem, t, n) = PgUnprocessed(pg, t, n)
        /\ MemCountSince(mem, t, n) = PgCountSince(pg, t, n)

OutboxReads ==
    \A t \in Tenants, n \in 1..2 :
        /\ MemUnconsumed(mem, t, n) = PgUnconsumed(pg, t, n)
        /\ \A type \in Keys : MemByType(mem, t, type, n) = PgByType(pg, t, type, n)

PlaybookReads ==
    \A t \in Tenants, type \in Keys : MemActive(mem, t, type) = PgActive(pg, t, type)

(* Whatever is read next, the double gives an answer Postgres may give:    *)
(* rows with equal times come in any order there. The exceptions of        *)
(* AnswersAgree hold here too; and of two health samples of the same time  *)
(* the double keeps the older, Postgres the newer.                         *)
ReadsAgree ==
    CASE family \in {"experiments", "evidence"} ->
            Ambiguous \/ Fractional \/ AmbiguousEvidence \/ ExperimentReads
      [] family = "proposals" -> ProposalReads
      [] family = "health" -> SameTime \/ AmbiguousHealth \/ HealthReads
      [] family = "incidents" -> IncidentReads
      [] family = "actions" -> torn \/ ActionReads
      [] family = "signals" -> EmptyTwice \/ SignalReads
      [] family = "outbox" -> OutboxReads
      [] family = "playbooks" -> PlaybookReads
      [] family = "runs" -> mem.rows = pg
      [] family = "feedback" -> \A t \in Tenants :
            LET mine(rows) == {i \in DOMAIN rows : rows[i].tenant = t}
            IN  PgMayList(pg, mine(pg), Limit, MemNewestFirst(mem, mine(mem), Limit))
      [] family = "settings" -> \A t \in Tenants :
            TenantDoc(mem, t) = (LET hit == {i \in DOMAIN pg : pg[i].tenant = t}
                                 IN  IF hit = {} THEN <<>> ELSE pg[Min(hit)].doc)

(* A test that passes on the in-memory repositories says something of the  *)
(* Postgres ones: after every sequence of calls the answers given and the  *)
(* answers any read would give agree, but for the named differences.       *)
DoublesAgree == AnswersAgree /\ ReadsAgree

=============================================================================
