---------------------------- MODULE EventDoubles ----------------------------
(***************************************************************************)
(* The other repositories of packages/db, double and Postgres: external    *)
(* actions with their event log and lifecycle events, signal events, the   *)
(* outbox, playbook versions, workflow runs, approval feedback, motion     *)
(* scores and tenant settings. The conventions are those of                *)
(* ControlPlaneDoubles.                                                    *)
(***************************************************************************)
EXTENDS ControlPlaneDoubles

-----------------------------------------------------------------------------
(* External actions. A store has the actions, the keys of the logged       *)
(* events and the keys of the outbox rows; Postgres also has incidents. A  *)
(* double has two indexes, by action id and by idempotency key. When the   *)
(* outbox refuses a row, Postgres rolls back and the double keeps what it  *)
(* has already written.                                                    *)

MemActions == [rows |-> <<>>, index |-> <<>>, idem |-> <<>>, log |-> {}, outbox |-> {}]
PgActions == [rows |-> <<>>, log |-> {}, outbox |-> {}, incidents |-> {}]

(* A request q has a tenant, an action id, an idempotency key and a digest. *)
ActionRow(q) ==
    q @@ [state |-> "requested", attempts |-> 0, owner |-> Null, until |-> Null,
          retry |-> Null, error |-> FALSE]

Logged(db, key) == [db EXCEPT !.log = @ \cup {key}]
Emitted(db, keys) == [db EXCEPT !.outbox = @ \cup keys]

SameRequest(row, q) ==
    row.action = q.action /\ row.key = q.key /\ row.digest = q.digest

(* The id the action id is known by, or else the idempotency key. *)
MemKnown(db, q) ==
    IF <<q.tenant, q.action>> \in DOMAIN db.index THEN db.index[<<q.tenant, q.action>>]
    ELSE IF <<q.tenant, q.key>> \in DOMAIN db.idem THEN db.idem[<<q.tenant, q.key>>]
    ELSE Null

MemEnqueueRequested(db, q, refused) ==
    LET known == MemKnown(db, q)
        id == IF known = Null THEN Len(db.rows) + 1 ELSE known
        new == Logged([db EXCEPT !.rows = Append(@, ActionRow(q)),
                                 !.index = Put(@, <<q.tenant, q.action>>, id),
                                 !.idem = Put(@, <<q.tenant, q.key>>, id)],
                      <<id, "requested">>)
        to == IF known = Null THEN new ELSE db
    IN  IF known # Null /\ ~SameRequest(db.rows[id], q) THEN Outcome(db, Refused("conflict"))
        ELSE IF refused THEN Outcome(to, Refused("outbox"))
        ELSE Outcome(Emitted(to, {<<"dispatch", q.tenant, q.key>>}),
                     [row |-> to.rows[id], dup |-> known # Null])

(* Either unique constraint stops the insert. *)
PgEnqueueRequested(db, q, refused) ==
    LET clash == {i \in DOMAIN db.rows : /\ db.rows[i].tenant = q.tenant
                    /\ (db.rows[i].action = q.action \/ db.rows[i].key = q.key)}
        to == IF clash # {} THEN db
              ELSE Logged([db EXCEPT !.rows = Append(@, ActionRow(q))],
                          <<Len(db.rows) + 1, "requested">>)
        byAction == {i \in DOMAIN to.rows : to.rows[i].tenant = q.tenant
                                            /\ to.rows[i].action = q.action}
        byKey == {i \in DOMAIN to.rows : to.rows[i].tenant = q.tenant /\ to.rows[i].key = q.key}
        row == to.rows[Min(IF byAction # {} THEN byAction ELSE byKey)]
    IN  IF ~SameRequest(row, q) THEN Outcome(db, Refused("conflict"))
        ELSE IF refused THEN Outcome(db, Refused("outbox"))
        ELSE Outcome(Emitted(to, {<<"dispatch", q.tenant, q.key>>}),
                     [row |-> row, dup |-> clash # {}])

(* The row a step is about, found by both ids of the request. *)
MemFind(db, q) ==
    IF <<q.tenant, q.action>> \notin DOMAIN db.index THEN Null
    ELSE LET id == db.index[<<q.tenant, q.action>>]
         IN  IF db.rows[id].key = q.key THEN id ELSE Null

PgFind(db, q) ==
    LET hit == {i \in DOMAIN db.rows : /\ db.rows[i].tenant = q.tenant
                    /\ db.rows[i].action = q.action /\ db.rows[i].key = q.key}
    IN  IF hit = {} THEN Null ELSE Min(hit)

Settled(row) == row.state \in {"dispatched", "completed", "failed"}

Started(row, owner, now) ==
    [row EXCEPT !.state = "dispatching", !.attempts = @ + 1, !.owner = owner,
                !.until = now + Lease, !.retry = Null, !.error = FALSE]

(* Which claim a row gives. *)
Disposition(row, now) ==
    IF Settled(row) THEN "settled"
    ELSE IF row.state = "retry_scheduled" /\ row.retry # Null /\ row.retry > now THEN "deferred"
    ELSE IF row.state = "dispatching" /\ row.until # Null /\ row.until > now THEN "in_flight"
    ELSE "claimed"

MemClaimDispatch(db, q, owner, now) ==
    LET id == MemFind(db, q)
        new == Started(db.rows[id], owner, now)
    IN  IF id = Null THEN Outcome(db, Refused("not found"))
        ELSE IF Disposition(db.rows[id], now) # "claimed"
        THEN Outcome(db, [row |-> db.rows[id], as |-> Disposition(db.rows[id], now)])
        ELSE Outcome(Logged([db EXCEPT !.rows[id] = new], <<id, "started", new.attempts>>),
                     [row |-> new, as |-> "claimed"])

(* The update is guarded again in SQL. *)
PgClaimDispatch(db, q, owner, now) ==
    LET id == PgFind(db, q)
        row == db.rows[id]
        new == Started(row, owner, now)
        free == \/ /\ row.state \in {"requested", "retry_scheduled"}
                   /\ row.retry = Null \/ row.retry <= now
                \/ /\ row.state = "dispatching"
                   /\ row.until = Null \/ row.until <= now
    IN  IF id = Null THEN Outcome(db, Refused("not found"))
        ELSE IF Disposition(row, now) # "claimed" \/ ~free
        THEN Outcome(db, [row |-> row, as |-> Disposition(row, now)])
        ELSE Outcome(Logged([db EXCEPT !.rows[id] = new], <<id, "started", new.attempts>>),
                     [row |-> new, as |-> "claimed"])

(* How the holder of the lease ends an attempt, what it writes, logs and   *)
(* emits.                                                                  *)
Ended(row, how, now) ==
    [row EXCEPT !.state = how, !.owner = Null, !.until = Null,
                !.retry = IF how = "retry_scheduled" THEN now + Lease ELSE Null,
                !.error = how # "dispatched"]
LifecycleKey(id, row) ==
    IF row.state = "failed" THEN <<"failed", id>> ELSE <<row.state, id, row.attempts>>
IncidentKey(id) == <<"incident", id>>

(* recordDispatchAccepted, scheduleDispatchRetry, failDispatch. *)
MemEnd(db, q, owner, how, refused, now) ==
    LET id == MemFind(db, q)
        row == db.rows[id]
        new == Ended(row, how, now)
        to == Logged([db EXCEPT !.rows[id] = new], <<id, how, new.attempts>>)
    IN  IF id = Null THEN Outcome(db, Refused("not found"))
        ELSE IF Settled(row) THEN Outcome(db, row)
        ELSE IF row.state # "dispatching" \/ row.owner # owner
        THEN Outcome(db, Refused("state"))
        ELSE IF refused THEN Outcome(to, Refused("outbox"))
        ELSE Outcome(Emitted(to, {LifecycleKey(id, new)} \cup
                        IF how = "failed" THEN {IncidentKey(id)} ELSE {}), new)

PgEnd(db, q, owner, how, refused, now) ==
    LET id == PgFind(db, q)
        hit == id # Null /\ db.rows[id].state = "dispatching" /\ db.rows[id].owner = owner
        new == Ended(db.rows[id], how, now)
        to == Logged([db EXCEPT !.rows[id] = new], <<id, how, new.attempts>>)
        incident == IF how = "failed" THEN {IncidentKey(id)} ELSE {}
    IN  IF id = Null THEN Outcome(db, Refused("not found"))
        ELSE IF ~hit THEN Outcome(db, IF Settled(db.rows[id]) THEN db.rows[id]
                                      ELSE Refused("state"))
        ELSE IF refused THEN Outcome(db, Refused("outbox"))
        ELSE Outcome([Emitted(to, {LifecycleKey(id, new)} \cup incident)
                        EXCEPT !.incidents = @ \cup incident], new)

(* A callback ends the action unless one did before. *)
Outcomed(row, how) ==
    [row EXCEPT !.state = how, !.owner = Null, !.until = Null, !.retry = Null,
                !.error = how = "failed"]

MemRecordOutcome(db, q, cb, how, refused) ==
    LET id == MemFind(db, q)
        new == Outcomed(db.rows[id], how)
        to == Logged([db EXCEPT !.rows[id] = new], <<id, "callback", cb>>)
    IN  IF id = Null THEN Outcome(db, Refused("not found"))
        ELSE IF <<id, "callback", cb>> \in db.log
        THEN Outcome(db, [row |-> db.rows[id], dup |-> TRUE])
        ELSE IF db.rows[id].state \in {"completed", "failed"} THEN Outcome(db, Refused("state"))
        ELSE IF refused THEN Outcome(to, Refused("outbox"))
        ELSE Outcome(Emitted(to, {<<how, id, cb>>} \cup
                        IF how = "failed" THEN {IncidentKey(id)} ELSE {}),
                     [row |-> new, dup |-> FALSE])

PgRecordOutcome(db, q, cb, how, refused) ==
    LET id == PgFind(db, q)
        new == Outcomed(db.rows[id], how)
        incident == IF how = "failed" THEN {IncidentKey(id)} ELSE {}
    IN  IF id = Null THEN Outcome(db, Refused("not found"))
        ELSE IF <<id, "callback", cb>> \in db.log
        THEN Outcome(db, [row |-> db.rows[id], dup |-> TRUE])
        ELSE IF db.rows[id].state \notin {"requested", "dispatching", "retry_scheduled",
                                          "dispatched"}
        THEN Outcome(db, Refused("state"))
        ELSE IF refused THEN Outcome(db, Refused("outbox"))
        ELSE Outcome([Emitted(Logged([db EXCEPT !.rows[id] = new], <<id, "callback", cb>>),
                              {<<how, id, cb>>} \cup incident)
                        EXCEPT !.incidents = @ \cup incident],
                     [row |-> new, dup |-> FALSE])

(* getByActionId and listEvents. *)
MemByAction(db, tenant, action) ==
    IF <<tenant, action>> \notin DOMAIN db.index THEN Null
    ELSE LET id == db.index[<<tenant, action>>]
         IN  [row |-> db.rows[id], log |-> {k \in db.log : k[1] = id}]

PgByAction(db, tenant, action) ==
    LET hit == {i \in DOMAIN db.rows : db.rows[i].tenant = tenant /\ db.rows[i].action = action}
    IN  IF hit = {} THEN Null
        ELSE [row |-> db.rows[Min(hit)], log |-> {k \in db.log : k[1] = Min(hit)}]

-----------------------------------------------------------------------------
(* Signal events. A signal s has a tenant, a source and an external id or  *)
(* Null. Sources and external ids are texts; an external id may be empty.  *)

Empty == <<>>

SignalRow(s, now) ==
    s @@ [processed |-> FALSE, owner |-> Null, until |-> Null, attempts |-> 0, at |-> now]

(* An empty external id is no id to the double, but is kept in the row.    *)
(* The index is a set of joined keys; the row is then searched for by its  *)
(* columns, so keys that join to one text do no harm.                      *)
MemIngest(t, s, now) ==
    LET given == s.ext \notin {Null, Empty}
        key == <<s.tenant, Join(<<s.source, s.ext>>)>>
        old == {i \in DOMAIN t.rows : /\ t.rows[i].tenant = s.tenant
                    /\ t.rows[i].source = s.source /\ t.rows[i].ext = s.ext}
        new == [rows |-> Append(t.rows, SignalRow(s, now)),
                index |-> IF given THEN t.index \cup {key} ELSE t.index]
    IN  IF given /\ key \in t.index /\ old # {}
        THEN Outcome(t, [row |-> t.rows[Min(old)], dup |-> TRUE])
        ELSE Outcome(new, [row |-> SignalRow(s, now), dup |-> FALSE])

(* The unique index holds of rows that have an external id, be it empty.   *)
(* The row in conflict is only looked for by an id that is not empty.      *)
PgIngest(rows, s, now) ==
    LET out == PgInsert(rows, SignalRow(s, now),
                    LAMBDA r, q : /\ r.ext # Null /\ r.ext = q.ext
                                  /\ r.tenant = q.tenant /\ r.source = q.source)
    IN  IF out.ans.dup /\ s.ext = Empty THEN Outcome(rows, Refused("no rows"))
        ELSE Outcome(out.to, [row |-> out.ans.row, dup |-> out.ans.dup])

(* The first n of a set of ids. *)
FirstN(S, n) == {i \in S : Cardinality({j \in S : j < i}) < n}

MemClaimable(t, tenant, now) ==
    {i \in DOMAIN t.rows : /\ t.rows[i].tenant = tenant /\ ~t.rows[i].processed
                           /\ t.rows[i].until = Null \/ t.rows[i].until <= now}

ClaimedSignal(r, owner, now) ==
    [r EXCEPT !.owner = owner, !.until = now + Lease, !.attempts = @ + 1]

(* The order of the rows an update returns is not promised: they are a set. *)
MemClaimUnprocessed(t, tenant, n, owner, now) ==
    LET ids == FirstN(MemClaimable(t, tenant, now), n)
        new == [i \in DOMAIN t.rows |-> IF i \in ids THEN ClaimedSignal(t.rows[i], owner, now)
                                        ELSE t.rows[i]]
    IN  Outcome([t EXCEPT !.rows = new], {<<i, new[i]>> : i \in ids})

PgClaimUnprocessed(rows, tenant, n, owner, now) ==
    LET free(r) == r.until = Null \/ r.until <= now
        ids == FirstN({i \in DOMAIN rows : /\ rows[i].tenant = tenant /\ ~rows[i].processed
                                           /\ free(rows[i])}, n)
        new == [i \in DOMAIN rows |-> IF i \in ids THEN ClaimedSignal(rows[i], owner, now)
                                      ELSE rows[i]]
    IN  Outcome(new, {<<i, new[i]>> : i \in ids})

Freed(r, processed) == [r EXCEPT !.processed = processed, !.owner = Null, !.until = Null]

MemMarkProcessed(t, tenant, ids) ==
    Outcome([t EXCEPT !.rows = [i \in DOMAIN @ |->
                IF i \in ids /\ @[i].tenant = tenant /\ ~@[i].processed
                THEN Freed(@[i], TRUE) ELSE @[i]]], Null)

PgMarkProcessed(rows, tenant, ids) ==
    Outcome([i \in DOMAIN rows |->
                IF i \in {j \in ids \cap DOMAIN rows : rows[j].tenant = tenant
                                                       /\ ~rows[j].processed}
                THEN Freed(rows[i], TRUE) ELSE rows[i]], Null)

MemReleaseClaims(t, tenant, ids, owner) ==
    Outcome([t EXCEPT !.rows = [i \in DOMAIN @ |->
                IF i \in ids /\ @[i].tenant = tenant /\ ~@[i].processed /\ @[i].owner = owner
                THEN Freed(@[i], FALSE) ELSE @[i]]], Null)

PgReleaseClaims(rows, tenant, ids, owner) ==
    Outcome([i \in DOMAIN rows |->
                IF i \in {j \in ids \cap DOMAIN rows : /\ rows[j].tenant = tenant
                              /\ rows[j].owner = owner /\ ~rows[j].processed}
                THEN Freed(rows[i], FALSE) ELSE rows[i]], Null)

(* listUnprocessed and countSince. *)
MemUnprocessed(t, tenant, n) ==
    FirstN({i \in DOMAIN t.rows : t.rows[i].tenant = tenant /\ ~t.rows[i].processed}, n)
PgUnprocessed(rows, tenant, n) ==
    {i \in DOMAIN rows : /\ rows[i].tenant = tenant /\ ~rows[i].processed
        /\ Cardinality({j \in 1..i : rows[j].tenant = tenant /\ ~rows[j].processed}) <= n}
MemCountSince(t, tenant, since) ==
    Len(SelectSeq(t.rows, LAMBDA r : r.tenant = tenant /\ r.at >= since))
PgCountSince(rows, tenant, since) ==
    Cardinality({i \in DOMAIN rows : rows[i].tenant = tenant /\ rows[i].at >= since})

-----------------------------------------------------------------------------
(* The outbox. An event type holds no colon (contracts.ts:6-9), so that    *)
(* the double's joined key tells types and keys apart as a tuple does.     *)

MemEnqueue(t, tenant, type, key) ==
    MemCreate(t, <<tenant, type, key>>,
        [tenant |-> tenant, type |-> type, key |-> key, consumed |-> FALSE])

(* A row of growthos.event_outbox. *)
OutboxRow(tenant, type, key) ==
    [tenant |-> tenant, type |-> type, key |-> key, consumed |-> FALSE]

PgEnqueue(rows, tenant, type, key) ==
    PgInsert(rows, OutboxRow(tenant, type, key),
        LAMBDA r, s : r.tenant = s.tenant /\ r.type = s.type /\ r.key = s.key)

MemMarkConsumed(t, tenant, id) ==
    IF ~Scoped(t.rows, tenant, id) THEN Outcome(t, Refused("not found"))
    ELSE MemUpdate(t, id, [t.rows[id] EXCEPT !.consumed = TRUE])

PgMarkConsumed(rows, tenant, id) ==
    IF {i \in DOMAIN rows : i = id /\ rows[i].tenant = tenant} = {}
    THEN Outcome(rows, Refused("not found"))
    ELSE PgUpdate(rows, id, [rows[id] EXCEPT !.consumed = TRUE])

MemUnconsumed(t, tenant, n) ==
    FirstN({i \in DOMAIN t.rows : t.rows[i].tenant = tenant /\ ~t.rows[i].consumed}, n)
PgUnconsumed(rows, tenant, n) ==
    {i \in DOMAIN rows : /\ rows[i].tenant = tenant /\ ~rows[i].consumed
        /\ Cardinality({j \in 1..i : rows[j].tenant = tenant /\ ~rows[j].consumed}) <= n}
MemByType(t, tenant, type, n) ==
    LET mine == {i \in DOMAIN t.rows : t.rows[i].tenant = tenant /\ t.rows[i].type = type}
    IN  {i \in mine : Cardinality({j \in mine : j > i}) < n}
PgByType(rows, tenant, type, n) ==
    {i \in DOMAIN rows : /\ rows[i].tenant = tenant /\ rows[i].type = type
        /\ Cardinality({j \in i..Len(rows) : rows[j].tenant = tenant
                                             /\ rows[j].type = type}) <= n}

-----------------------------------------------------------------------------
(* Playbook versions: the double counts, Postgres takes the maximum. *)

PlaybookRow(tenant, type, version) ==
    [tenant |-> tenant, type |-> type, version |-> version, retired |-> FALSE]

MemCreateVersion(t, tenant, type) ==
    LET key == <<tenant, type>>
        next == (IF key \in DOMAIN t.index THEN t.index[key] ELSE 0) + 1
        row == PlaybookRow(tenant, type, next)
    IN  Outcome([rows |-> Append(t.rows, row), index |-> Put(t.index, key, next)], row)

PgCreateVersion(rows, tenant, type) ==
    LET mine == {i \in DOMAIN rows : rows[i].tenant = tenant /\ rows[i].type = type}
        row == PlaybookRow(tenant, type, Max({0} \cup {rows[i].version : i \in mine}) + 1)
    IN  Outcome(Append(rows, row), row)

(* Mutant: the double retires a version of any tenant. *)
MemRetireAny(t, tenant, id) ==
    IF id \notin DOMAIN t.rows THEN Outcome(t, Null)
    ELSE Outcome([t EXCEPT !.rows[id].retired = TRUE], Null)

MemRetire(t, tenant, id) ==
    IF ~Scoped(t.rows, tenant, id) THEN Outcome(t, Null)
    ELSE Outcome([t EXCEPT !.rows[id].retired = TRUE], Null)

PgRetire(rows, tenant, id) ==
    Outcome([i \in DOMAIN rows |-> IF i = id /\ rows[i].tenant = tenant /\ ~rows[i].retired
                                   THEN [rows[i] EXCEPT !.retired = TRUE] ELSE rows[i]], Null)

(* getActive: sorted by version, the first one; or the highest version. *)
MemActive(t, tenant, type) ==
    LET s == SelectSeq(t.rows, LAMBDA r : /\ r.tenant = tenant /\ r.type = type
                                          /\ ~r.retired)
    IN  IF s = <<>> THEN Null ELSE SortSeq(s, LAMBDA a, b : a.version > b.version)[1]

PgActive(rows, tenant, type) ==
    LET mine == {i \in DOMAIN rows : /\ rows[i].tenant = tenant /\ rows[i].type = type
                                     /\ ~rows[i].retired}
    IN  IF mine = {} THEN Null
        ELSE rows[CHOOSE i \in mine : \A j \in mine : rows[j].version <= rows[i].version]

-----------------------------------------------------------------------------
(* Workflow runs. *)

MemUpsertRequested(t, tenant, flow) ==
    MemCreate(t, <<tenant, flow>>,
        [tenant |-> tenant, flow |-> flow, state |-> "requested", code |-> Null])

(* A row of growthos.workflow_runs. *)
RunRow(tenant, flow) == [tenant |-> tenant, flow |-> flow, state |-> "requested", code |-> Null]

PgUpsertRequested(rows, tenant, flow) ==
    PgInsert(rows, RunRow(tenant, flow), LAMBDA r, s : r.tenant = s.tenant /\ r.flow = s.flow)

Moved(row, to, code) ==
    [row EXCEPT !.state = to, !.code = IF code = Null THEN @ ELSE code]

MemTransitionState(t, tenant, flow, from, to, code) ==
    LET key == <<tenant, flow>>
        row == t.rows[t.index[key]]
    IN  IF key \notin DOMAIN t.index THEN Outcome(t, Null)
        ELSE IF row.state # from \/ row.state \in {"completed", "failed"} THEN Outcome(t, Null)
        ELSE MemUpdate(t, t.index[key], Moved(row, to, code))

PgTransitionState(rows, tenant, flow, from, to, code) ==
    LET hit == {i \in DOMAIN rows : /\ rows[i].tenant = tenant /\ rows[i].flow = flow
                    /\ rows[i].state = from /\ rows[i].state \notin {"completed", "failed"}}
    IN  IF hit = {} THEN Outcome(rows, Null)
        ELSE PgUpdate(rows, Min(hit), Moved(rows[Min(hit)], to, code))

-----------------------------------------------------------------------------
(* Approval feedback and motion scores only grow; their listings are       *)
(* MemNewestFirst and PgMayList. Settings are one document of a tenant.    *)

MemAppend(rows, tenant, now) ==
    Outcome(Append(rows, [tenant |-> tenant, at |-> now]), Null)

(* The database sets the times: default now(). *)
PgAppend(rows, tenant, now) ==
    Outcome(Append(rows, [tenant |-> tenant, at |-> now]), Null)

TenantDoc(docs, tenant) == IF tenant \in DOMAIN docs THEN docs[tenant] ELSE <<>>

MemPatch(docs, tenant, patch) ==
    LET merged == patch @@ TenantDoc(docs, tenant)
    IN  Outcome(Put(docs, tenant, merged), merged)

(* The table has a row of the tenant, updated, or none, and one is inserted. *)
PgPatch(rows, tenant, patch) ==
    LET hit == {i \in DOMAIN rows : rows[i].tenant = tenant}
        base == IF hit = {} THEN <<>> ELSE rows[Min(hit)].doc
        row == [tenant |-> tenant, doc |-> patch @@ base]
    IN  Outcome(IF hit = {} THEN Append(rows, row) ELSE [rows EXCEPT ![Min(hit)] = row], row.doc)

=============================================================================
