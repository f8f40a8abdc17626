------------------------ MODULE ControlPlaneDoubles ------------------------
(***************************************************************************)
(* The control-plane repositories of packages/db in their two forms: the   *)
(* in-memory doubles the tests of routes and workers run on, and the       *)
(* Postgres ones production runs on.                                       *)
(*                                                                         *)
(* A double keeps a Map of rows by id, in the order of insertion, and a    *)
(* Map from the unique key to the id. A Postgres table is the sequence of  *)
(* its rows with a unique constraint. The id of a row is its position. An  *)
(* operator takes the store and the arguments of a call and gives          *)
(* [to |-> the store after the call, ans |-> what the caller gets].        *)
(***************************************************************************)
EXTENDS Integers, Sequences, FiniteSets, SequencesExt, TLC

CONSTANTS Null, Lease   \* Lease: length of a claim, in ticks of the clock

Outcome(to, ans) == [to |-> to, ans |-> ans]

(* The error a call is refused with. *)
Refused(why) == [refused |-> why]

(* A call on one of the tables of a store. *)
Within(db, table, out) == Outcome([db EXCEPT ![table] = out.to], out.ans)

Put(f, k, v) == (k :> v) @@ f

MemTable == [rows |-> <<>>, index |-> <<>>]

(* The double's create: the row the index knows, or a new one. *)
MemCreate(t, key, row) ==
    IF key \in DOMAIN t.index
    THEN Outcome(t, [row |-> t.rows[t.index[key]], id |-> t.index[key], dup |-> TRUE])
    ELSE LET id == Len(t.rows) + 1
         IN  Outcome([rows |-> Append(t.rows, row), index |-> Put(t.index, key, id)],
                     [row |-> row, id |-> id, dup |-> FALSE])

(* insert ... on conflict do nothing, then the select of the row there is. *)
PgInsert(rows, row, Same(_, _)) ==
    LET old == {i \in DOMAIN rows : Same(rows[i], row)}
        id == IF old = {} THEN Len(rows) + 1 ELSE Min(old)
        to == IF old = {} THEN Append(rows, row) ELSE rows
    IN  Outcome(to, [row |-> to[id], id |-> id, dup |-> old # {}])

MemUpdate(t, id, row) == Outcome([t EXCEPT !.rows[id] = row], row)

PgUpdate(rows, id, row) == Outcome([rows EXCEPT ![id] = row], row)

(* The id names a row of the tenant. *)
Scoped(rows, tenant, id) == id \in DOMAIN rows /\ rows[id].tenant = tenant

(* Array.sort is stable: equal times stay in the order of insertion. *)
MemNewestFirst(rows, S, n) ==
    LET before(i, j) == rows[i].at > rows[j].at \/ (rows[i].at = rows[j].at /\ i < j)
        s == SetToSortSeq(S, before)
    IN  SubSeq(s, 1, Min({n, Len(s)}))

(* A listing SQL may give: order by ... desc leaves equal times in any order. *)
PgMayList(rows, S, n, s) ==
    /\ Len(s) = Min({n, Cardinality(S)}) /\ ToSet(s) \subseteq S
    /\ \A a, b \in DOMAIN s : a < b => s[a] # s[b] /\ rows[s[a]].at >= rows[s[b]].at
    /\ \A i \in S \ ToSet(s), j \in ToSet(s) : rows[j].at >= rows[i].at

-----------------------------------------------------------------------------
(* Experiments, their assignments and their observations. *)

ExperimentTransitions ==
    [draft |-> {"running", "abandoned"}, running |-> {"paused", "concluded", "abandoned"},
     paused |-> {"running", "abandoned"}, concluded |-> {"promoted", "abandoned"},
     abandoned |-> {}, promoted |-> {"rolled_back"}, rolled_back |-> {}]

MemCreateExperiment(t, tenant, key, status, now) ==
    MemCreate(t, <<tenant, key>>,
        [tenant |-> tenant, key |-> key, status |-> status, winner |-> Null,
         started |-> IF status = "running" THEN now ELSE Null, ended |-> Null, at |-> now])

(* A row of growthos.experiments with the columns the insert leaves out. *)
ExperimentRow(tenant, key, status, started, now) ==
    [tenant |-> tenant, key |-> key, status |-> status, winner |-> Null,
     started |-> started, ended |-> Null, at |-> now]

PgCreateExperiment(rows, tenant, key, status, now) ==
    PgInsert(rows,
        ExperimentRow(tenant, key, status, IF status = "running" THEN now ELSE Null, now),
        LAMBDA r, s : r.tenant = s.tenant /\ r.key = s.key)

(* What a transition writes; the winner is kept if none is given. *)
Transitioned(row, to, winner, now) ==
    [row EXCEPT !.status = to, !.at = now,
                !.winner = IF winner = Null THEN @ ELSE winner,
                !.started = IF to = "running" /\ @ = Null THEN now ELSE @,
                !.ended = IF to \in {"concluded", "abandoned"} /\ @ = Null THEN now ELSE @]

MemTransitionExperiment(t, tenant, id, from, to, winner, now) ==
    IF to \notin ExperimentTransitions[from] THEN Outcome(t, Refused("illegal"))
    ELSE IF ~Scoped(t.rows, tenant, id) THEN Outcome(t, Null)
    ELSE IF t.rows[id].status # from THEN Outcome(t, Null)
    ELSE MemUpdate(t, id, Transitioned(t.rows[id], to, winner, now))

PgTransitionExperiment(rows, tenant, id, from, to, winner, now) ==
    LET hit == {i \in DOMAIN rows : i = id /\ rows[i].tenant = tenant /\ rows[i].status = from}
    IN  IF to \notin ExperimentTransitions[from] THEN Outcome(rows, Refused("illegal"))
        ELSE IF hit = {} THEN Outcome(rows, Null)
        ELSE PgUpdate(rows, id, Transitioned(rows[id], to, winner, now))

(* Texts are sequences of pieces. A double that keys its index by two of   *)
(* them joins them with a colon; an entity is such a pair.                 *)
Join(pair) == pair[1] \o <<":">> \o pair[2]

MemAssignmentKey(tenant, exp, entity) == <<tenant, exp, Join(entity)>>

MemAssign(db, tenant, exp, entity, variant) ==
    IF ~Scoped(db.experiments.rows, tenant, exp) THEN Outcome(db, Refused("no experiment"))
    ELSE IF db.experiments.rows[exp].status \notin {"draft", "running"}
    THEN Outcome(db, Refused("not allowed"))
    ELSE Within(db, "assignments",
            MemCreate(db.assignments, MemAssignmentKey(tenant, exp, entity),
                [tenant |-> tenant, exp |-> exp, entity |-> entity, variant |-> variant]))

(* A row of growthos.experiment_assignments, and its unique constraint. *)
AssignmentRow(tenant, exp, entity, variant) ==
    [tenant |-> tenant, exp |-> exp, entity |-> entity, variant |-> variant]

PgAssign(db, tenant, exp, entity, variant) ==
    LET e == {i \in DOMAIN db.experiments : i = exp /\ db.experiments[i].tenant = tenant}
    IN  IF e = {} THEN Outcome(db, Refused("no experiment"))
        ELSE IF db.experiments[exp].status \notin {"draft", "running"}
        THEN Outcome(db, Refused("not allowed"))
        ELSE Within(db, "assignments",
                PgInsert(db.assignments, AssignmentRow(tenant, exp, entity, variant),
                    LAMBDA r, s : /\ r.tenant = s.tenant /\ r.exp = s.exp
                                  /\ r.entity = s.entity))

(* The states in which an experiment takes observations. *)
Observable == {"running", "concluded", "promoted", "rolled_back"}

(* An observation o has an assignment or Null, a key, an entity, a variant, *)
(* a value and a guardrail mark.                                            *)
MemObserve(db, tenant, exp, o, now) ==
    LET a == db.assignments.rows[o.assignment]
        row == o @@ [tenant |-> tenant, exp |-> exp, at |-> now]
    IN  IF ~Scoped(db.experiments.rows, tenant, exp) THEN Outcome(db, Refused("no experiment"))
        ELSE IF db.experiments.rows[exp].status \notin Observable THEN Outcome(db, Refused("not allowed"))
        ELSE IF /\ o.assignment # Null
                /\ ~ /\ Scoped(db.assignments.rows, tenant, o.assignment)
                     /\ a.exp = exp /\ a.entity = o.entity /\ a.variant = o.variant
        THEN Outcome(db, Refused("mismatch"))
        ELSE Within(db, "observations", MemCreate(db.observations, <<tenant, exp, o.key>>, row))

(* The metric column keeps six decimals. Values count half of the last     *)
(* one, so an odd value is rounded up. The other decimals that columns     *)
(* round (confidence, attribution, cost, error rate, edit distance) are    *)
(* not kept in the rows here: they differ in the same way.                 *)
Rounded(v) == 2 * ((v + 1) \div 2)

(* A row of growthos.experiment_observations. *)
ObservationRow(tenant, exp, o, now) ==
    [o EXCEPT !.value = Rounded(@)] @@ [tenant |-> tenant, exp |-> exp, at |-> now]

PgObserve(db, tenant, exp, o, now) ==
    LET e == {i \in DOMAIN db.experiments : i = exp /\ db.experiments[i].tenant = tenant}
        unit == {i \in DOMAIN db.assignments :
                    /\ i = o.assignment /\ db.assignments[i].tenant = tenant
                    /\ db.assignments[i].exp = exp}
    IN  IF e = {} THEN Outcome(db, Refused("no experiment"))
        ELSE IF db.experiments[exp].status \notin Observable THEN Outcome(db, Refused("not allowed"))
        ELSE IF /\ o.assignment # Null
                /\ \A i \in unit : \/ db.assignments[i].entity # o.entity
                                   \/ db.assignments[i].variant # o.variant
        THEN Outcome(db, Refused("mismatch"))
        ELSE Within(db, "observations",
                PgInsert(db.observations, ObservationRow(tenant, exp, o, now),
                    LAMBDA r, s : r.tenant = s.tenant /\ r.exp = s.exp /\ r.key = s.key))

(* A mean as a fraction: the sum and the count; Null of nothing. *)
Mean(rows, S) ==
    IF S = {} THEN Null ELSE <<MapThenSumSet(LAMBDA i : rows[i].value, S), Cardinality(S)>>

(* The difference of two means where it is positive. *)
Regression(base, cand) ==
    IF base = Null \/ cand = Null THEN 0
    ELSE Max({0, cand[1] * base[2] - base[1] * cand[2]})

MemEvidence(db, tenant, exp) ==
    LET rows == db.observations.rows
        mine == {i \in DOMAIN rows : rows[i].tenant = tenant /\ rows[i].exp = exp}
        outcome == {i \in mine : ~rows[i].guardrail}
        of(S, v) == {i \in S : rows[i].variant = v}
        base == Mean(rows, of(outcome, "a"))
        cand == Mean(rows, of(outcome, "b"))
    IN  IF ~Scoped(db.experiments.rows, tenant, exp) \/ base = Null \/ cand = Null THEN Null
        ELSE [count |-> Cardinality(outcome),
              entities |-> Cardinality({Join(rows[i].entity) : i \in outcome}),
              base |-> base, cand |-> cand,
              worst |-> Regression(Mean(rows, of(mine \ outcome, "a")),
                                   Mean(rows, of(mine \ outcome, "b")))]

PgEvidence(db, tenant, exp) ==
    LET rows == db.observations
        where(guardrail) == {i \in DOMAIN rows : /\ rows[i].tenant = tenant /\ rows[i].exp = exp
                                                 /\ rows[i].guardrail = guardrail}
        avg(guardrail, v) == Mean(rows, {i \in where(guardrail) : rows[i].variant = v})
    IN  IF ~Scoped(db.experiments, tenant, exp) THEN Null
        ELSE IF avg(FALSE, "a") = Null \/ avg(FALSE, "b") = Null THEN Null
        ELSE [count |-> Cardinality(where(FALSE)),
              entities |-> Cardinality({rows[i].entity : i \in where(FALSE)}),
              base |-> avg(FALSE, "a"), cand |-> avg(FALSE, "b"),
              worst |-> Regression(avg(TRUE, "a"), avg(TRUE, "b"))]

(* getSummary: the double counts row by row, Postgres groups by status. *)
MemSummary(t, tenant) ==
    FoldSeq(LAMBDA r, n : IF r.tenant # tenant THEN n ELSE Put(n, r.status,
                IF r.status \in DOMAIN n THEN n[r.status] + 1 ELSE 1), <<>>, t.rows)

PgSummary(rows, tenant) ==
    LET mine == {i \in DOMAIN rows : rows[i].tenant = tenant}
    IN  [s \in {rows[i].status : i \in mine} |-> Cardinality({i \in mine : rows[i].status = s})]

-----------------------------------------------------------------------------
(* Learning proposals and the outbox their approval is announced in. *)

StatusForDecision ==
    [continue_experiment |-> "awaiting_evidence", reject |-> "rejected",
     requires_approval |-> "requires_approval", promote |-> "approved"]

MemCreateProposal(db, tenant, key, now) ==
    Within(db, "proposals", MemCreate(db.proposals, <<tenant, key>>,
        [tenant |-> tenant, key |-> key, status |-> "awaiting_evidence", by |-> Null,
         token |-> Null, expires |-> Null, version |-> Null, at |-> now]))

(* A row of growthos.learning_proposals with the defaults of its columns. *)
ProposalRow(tenant, key, now) ==
    [tenant |-> tenant, key |-> key, status |-> "awaiting_evidence", by |-> Null,
     token |-> Null, expires |-> Null, version |-> Null, at |-> now]

PgCreateProposal(db, tenant, key, now) ==
    Within(db, "proposals", PgInsert(db.proposals, ProposalRow(tenant, key, now),
        LAMBDA r, s : r.tenant = s.tenant /\ r.key = s.key))

HasActiveClaim(row, now) == row.token # Null /\ row.expires # Null /\ row.expires > now

(* promotion_claim_token is null or promotion_claim_expires_at <= now. *)
PgUnclaimed(row, now) == row.token = Null \/ (row.expires # Null /\ row.expires <= now)

(* What each step writes. *)
Evaluated(row, d, now) ==
    [row EXCEPT !.status = StatusForDecision[d], !.token = Null, !.expires = Null, !.at = now]
Approved(row, by, now) ==
    [row EXCEPT !.status = "approved", !.by = by, !.token = Null, !.expires = Null, !.at = now]
Claimed(row, token, now) == [row EXCEPT !.token = token, !.expires = now + Lease, !.at = now]
Promoted(row, version, now) ==
    [row EXCEPT !.status = "promoted", !.version = version, !.token = Null,
                !.expires = Null, !.at = now]
RolledBack(row, now) == [row EXCEPT !.status = "rolled_back", !.at = now]

Evaluable == {"awaiting_evidence", "evaluating", "requires_approval", "approved"}

(* A write of the double to row id if it is the tenant's and Can holds. *)
MemIf(db, tenant, id, Can(_), Write(_)) ==
    LET t == db.proposals
    IN  IF ~Scoped(t.rows, tenant, id) THEN Outcome(db, Null)
        ELSE IF ~Can(t.rows[id]) THEN Outcome(db, Null)
        ELSE Within(db, "proposals", MemUpdate(t, id, Write(t.rows[id])))

(* update ... where the row is the tenant's, has this id and Can. *)
PgIf(db, tenant, id, Can(_), Write(_)) ==
    LET rows == db.proposals
        hit == {i \in DOMAIN rows : i = id /\ rows[i].tenant = tenant /\ Can(rows[i])}
    IN  IF hit = {} THEN Outcome(db, Null)
        ELSE Within(db, "proposals", PgUpdate(rows, id, Write(rows[id])))

MemEvaluate(db, tenant, id, d, now) ==
    MemIf(db, tenant, id,
        LAMBDA r : r.status \in Evaluable /\ ~HasActiveClaim(r, now),
        LAMBDA r : Evaluated(r, d, now))

PgEvaluate(db, tenant, id, d, now) ==
    PgIf(db, tenant, id,
        LAMBDA r : r.status \in Evaluable /\ PgUnclaimed(r, now),
        LAMBDA r : Evaluated(r, d, now))

(* The row is put back when the outbox refuses the event. *)
MemApprove(db, tenant, id, by, refused, now) ==
    LET out == MemIf(db, tenant, id, LAMBDA r : r.status = "requires_approval",
                     LAMBDA r : Approved(r, by, now))
    IN  IF out.ans = Null THEN out
        ELSE IF refused THEN Outcome(db, Refused("refused"))
        ELSE [out EXCEPT !.to.outbox = @ \cup {id}]

(* The transaction is rolled back when the outbox row is not written. *)
PgApprove(db, tenant, id, by, refused, now) ==
    LET out == PgIf(db, tenant, id, LAMBDA r : r.status = "requires_approval",
                    LAMBDA r : Approved(r, by, now))
    IN  IF out.ans # Null /\ refused THEN Outcome(db, Refused("refused"))
        ELSE IF out.ans = Null THEN out ELSE [out EXCEPT !.to.outbox = @ \cup {id}]

MemClaim(db, tenant, id, token, now) ==
    MemIf(db, tenant, id, LAMBDA r : r.status = "approved" /\ ~HasActiveClaim(r, now),
          LAMBDA r : Claimed(r, token, now))

PgClaim(db, tenant, id, token, now) ==
    PgIf(db, tenant, id, LAMBDA r : r.status = "approved" /\ PgUnclaimed(r, now),
         LAMBDA r : Claimed(r, token, now))

MemPromote(db, tenant, id, token, now) ==
    MemIf(db, tenant, id,
          LAMBDA r : r.status = "approved" /\ r.token = token /\ HasActiveClaim(r, now),
          LAMBDA r : Promoted(r, token, now))

PgPromote(db, tenant, id, token, now) ==
    PgIf(db, tenant, id,
         LAMBDA r : /\ r.status = "approved" /\ r.token = token
                    /\ r.expires # Null /\ r.expires > now,
         LAMBDA r : Promoted(r, token, now))

MemRollBack(db, tenant, id, now) ==
    MemIf(db, tenant, id, LAMBDA r : r.status = "promoted", LAMBDA r : RolledBack(r, now))

PgRollBack(db, tenant, id, now) ==
    PgIf(db, tenant, id, LAMBDA r : r.status = "promoted", LAMBDA r : RolledBack(r, now))

(* getByProposalKey. *)
MemByKey(t, tenant, key) ==
    IF <<tenant, key>> \in DOMAIN t.index THEN t.rows[t.index[<<tenant, key>>]] ELSE Null

PgByKey(rows, tenant, key) ==
    LET hit == {i \in DOMAIN rows : rows[i].tenant = tenant /\ rows[i].key = key}
    IN  IF hit = {} THEN Null ELSE rows[Min(hit)]

-----------------------------------------------------------------------------
(* Component health. A sample has a component and a key, which are texts,  *)
(* a state and a time.                                                     *)

MemHealthKey(tenant, s) == <<tenant, Join(<<s.component, s.key>>)>>

MemRecordHealth(t, tenant, s) ==
    MemCreate(t, MemHealthKey(tenant, s), s @@ [tenant |-> tenant])

(* A row of growthos.component_health. *)
HealthRow(tenant, s) == s @@ [tenant |-> tenant]

PgRecordHealth(rows, tenant, s) ==
    PgInsert(rows, HealthRow(tenant, s),
        LAMBDA r, q : r.tenant = q.tenant /\ r.component = q.component /\ r.key = q.key)

MemByComponent(t, tenant, c) ==
    LET mine == {i \in DOMAIN t.rows : t.rows[i].tenant = tenant /\ t.rows[i].component = c}
    IN  MemNewestFirst(t.rows, mine, 1)

(* Equal times are decided by created_at, here the position. *)
PgByComponent(rows, tenant, c) ==
    LET mine == {i \in DOMAIN rows : rows[i].tenant = tenant /\ rows[i].component = c}
        newest(i) == \A j \in mine : \/ rows[j].at < rows[i].at
                                     \/ rows[j].at = rows[i].at /\ j <= i
    IN  IF mine = {} THEN <<>> ELSE <<CHOOSE i \in mine : newest(i)>>

(* The newest sample of each component; the first of equal times stays. *)
MemListLatest(t, tenant, n) ==
    LET mine == {i \in DOMAIN t.rows : t.rows[i].tenant = tenant}
        latest == {i \in mine : \A j \in mine : t.rows[j].component # t.rows[i].component
                      \/ t.rows[j].at < t.rows[i].at \/ (t.rows[j].at = t.rows[i].at /\ i <= j)}
    IN  MemNewestFirst(t.rows, latest, n)

(* select distinct on (component_id), sorted and cut in the process. *)
PgListLatest(rows, tenant, n, s) ==
    LET components == {rows[i].component : i \in {j \in DOMAIN rows : rows[j].tenant = tenant}}
        latest == {PgByComponent(rows, tenant, c)[1] : c \in components}
    IN  PgMayList(rows, latest, n, s)

-----------------------------------------------------------------------------
(* Incidents. *)

IncidentTransitions ==
    [open |-> {"acknowledged", "mitigated", "resolved"},
     acknowledged |-> {"mitigated", "resolved"}, mitigated |-> {"resolved"}, resolved |-> {}]

MemCreateIncident(t, tenant, key, now) ==
    MemCreate(t, <<tenant, key>>,
        [tenant |-> tenant, key |-> key, status |-> "open", summary |-> 0,
         acknowledged |-> Null, resolved |-> Null, at |-> now])

(* A row of growthos.incidents; open is the default of its status. *)
IncidentRow(tenant, key, now) ==
    [tenant |-> tenant, key |-> key, status |-> "open", summary |-> 0,
     acknowledged |-> Null, resolved |-> Null, at |-> now]

PgCreateIncident(rows, tenant, key, now) ==
    PgInsert(rows, IncidentRow(tenant, key, now),
        LAMBDA r, s : r.tenant = s.tenant /\ r.key = s.key)

(* at is the time of opening and stays. A summary of Null is not given. *)
MemTransitionIncident(t, tenant, id, from, to, summary, now) ==
    IF to \notin IncidentTransitions[from] THEN Outcome(t, Refused("illegal"))
    ELSE IF ~Scoped(t.rows, tenant, id) THEN Outcome(t, Null)
    ELSE IF t.rows[id].status # from THEN Outcome(t, Null)
    ELSE MemUpdate(t, id, [t.rows[id] EXCEPT
            !.status = to,
            !.summary = IF summary = Null THEN @ ELSE summary,
            !.acknowledged = IF to = "acknowledged" /\ @ = Null THEN now ELSE @,
            !.resolved = IF to = "resolved" THEN now ELSE @])

PgTransitionIncident(rows, tenant, id, from, to, summary, now) ==
    LET hit == {i \in DOMAIN rows : i = id /\ rows[i].tenant = tenant /\ rows[i].status = from}
        coalesce(x, y) == IF x = Null THEN y ELSE x
    IN  IF to \notin IncidentTransitions[from] THEN Outcome(rows, Refused("illegal"))
        ELSE IF hit = {} THEN Outcome(rows, Null)
        ELSE PgUpdate(rows, id, [rows[id] EXCEPT
            !.status = to, !.summary = coalesce(summary, @),
            !.acknowledged = IF to = "acknowledged" THEN coalesce(@, now) ELSE @,
            !.resolved = IF to = "resolved" THEN now ELSE @])

=============================================================================
