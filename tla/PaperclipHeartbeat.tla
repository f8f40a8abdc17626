------------------------- MODULE PaperclipHeartbeat -------------------------
(***************************************************************************)
(* Work that comes from Paperclip: the bootstrap of a tenant there         *)
(* (apps/api/src/routes/paperclip.ts) and the worker that polls for        *)
(* issues, checks them out and hands them over through the outbox          *)
(* (apps/worker-paperclip-heartbeat, packages/adapter). Paperclip is       *)
(* external. Replicas of the worker poll it independently, each one over a *)
(* list that may be stale by the time it gets to an issue.                 *)
(***************************************************************************)
EXTENDS Naturals, FiniteSets

CONSTANTS
    Issues,          \* issues Paperclip may hold
    CompanyTenant,   \* companyTenantMap: the companies polled and their tenants
    Unnamed,         \* issues that Paperclip keeps without a title or an identifier
    Replicas,        \* heartbeat workers
    Bootstraps,      \* requests to bootstrap a tenant, each retried on failure
    NoCompany,
    MaxRunIds,       \* bound on checkouts attempted
    MaxMoves,        \* bound on what people do to issues
    MaxBeatFaults    \* bound on failed calls, lost answers and stops

ASSUME HeartbeatAssumption ==
    /\ {MaxRunIds, MaxMoves, MaxBeatFaults} \subseteq Nat
    /\ IsFiniteSet(Replicas)
    /\ Unnamed \subseteq Issues
    /\ NoCompany \notin DOMAIN CompanyTenant

VARIABLES
    live,       \* PAPERCLIP_HEARTBEAT_DRY_RUN=false
    issue,      \* Paperclip's issues: company, status, assigned, run
    hired,      \* companies with an agent
    boot,       \* where a bootstrap is
    poll,       \* a replica's tick: company, issues left, and the one in hand; bare are
                \* those left of other companies whose rows carry no companyId
    unmarked,   \* the issues that were ever listed in that way
    rows,       \* paperclip.work.ready.v1 rows in the outbox
    runIds, moves, beatFaults

beatVars ==
    <<live, issue, hired, boot, poll, unmarked, rows, runIds, moves, beatFaults>>

Companies == DOMAIN CompanyTenant
RunnableStatuses == {"todo", "backlog"}
Statuses == RunnableStatuses \cup {"in_progress", "done"}
Absent == [company |-> NoCompany, status |-> "absent", assigned |-> FALSE, run |-> 0]
BetweenTicks ==
    [at |-> "list", company |-> NoCompany, left |-> {}, bare |-> {}, doing |-> {}, run |-> 0]

BeatTypeOK ==
    /\ live \in BOOLEAN
    /\ issue \in [Issues -> [company : Companies \cup {NoCompany},
                             status : Statuses \cup {"absent"},
                             assigned : BOOLEAN, run : 0..MaxRunIds]]
    /\ hired \subseteq Companies
    /\ boot \in [Bootstraps -> [at : {"company", "hire", "issue", "done"},
                                company : Companies \cup {NoCompany}]]
    /\ poll \in [Replicas -> [at : {"list", "checkout", "dispatch", "requeue"},
                              company : Companies \cup {NoCompany}, left : SUBSET Issues,
                              bare : SUBSET Issues, doing : SUBSET Issues,
                              run : 0..MaxRunIds]]
    /\ unmarked \subseteq Issues
    /\ rows \subseteq [tenant : {CompanyTenant[c] : c \in Companies}, issue : Issues,
                       run : 1..MaxRunIds]
    /\ runIds \in 0..MaxRunIds /\ moves \in 0..MaxMoves /\ beatFaults \in 0..MaxBeatFaults

BeatInit ==
    /\ live \in BOOLEAN
    /\ issue = [i \in Issues |-> Absent]
    /\ hired = {}
    /\ boot = [b \in Bootstraps |-> [at |-> "company", company |-> NoCompany]]
    /\ poll = [w \in Replicas |-> BetweenTicks]
    /\ unmarked = {} /\ rows = {}
    /\ runIds = 0 /\ moves = 0 /\ beatFaults = 0

SpendBeatFault ==
    /\ beatFaults < MaxBeatFaults
    /\ beatFaults' = beatFaults + 1

-----------------------------------------------------------------------------
(* POST /v1/paperclip/bootstrap-tenant: a company, a hire that waits for   *)
(* the board, a seed issue assigned to nobody. Nothing makes a repetition  *)
(* find what an earlier attempt left: the idempotency key is only written  *)
(* down.                                                                   *)
CreateCompany(b) ==
    /\ boot[b].at = "company"
    /\ \E c \in Companies : boot' = [boot EXCEPT ![b] = [at |-> "hire", company |-> c]]
    /\ UNCHANGED <<live, issue, hired, poll, unmarked, rows, runIds, moves, beatFaults>>

CreateAgentHire(b) ==
    /\ boot[b].at = "hire"
    /\ hired' = hired \cup {boot[b].company}
    /\ boot' = [boot EXCEPT ![b].at = "issue"]
    /\ UNCHANGED <<live, issue, poll, unmarked, rows, runIds, moves, beatFaults>>

SeedIssue(b, i) ==
    /\ boot[b].at = "issue" /\ issue[i] = Absent
    /\ issue' = [issue EXCEPT ![i] = [Absent EXCEPT !.company = boot[b].company, !.status = "todo"]]

(* The seed issue has a title: the request is refused without one.         *)
CreateIssue(b) ==
    /\ \E i \in Issues \ Unnamed : SeedIssue(b, i)
    /\ boot' = [boot EXCEPT ![b].at = "done"]
    /\ UNCHANGED <<live, hired, poll, unmarked, rows, runIds, moves, beatFaults>>

(* A call fails or its answer is lost; the caller posts the request again. *)
BootstrapFails(b) ==
    /\ boot[b].at # "done"
    /\ SpendBeatFault
    /\ UNCHANGED issue \/ \E i \in Issues \ Unnamed : SeedIssue(b, i)
    /\ hired' \in {hired, hired \cup ({boot[b].company} \cap Companies)}
    /\ boot' = [boot EXCEPT ![b] = [at |-> "company", company |-> NoCompany]]
    /\ UNCHANGED <<live, poll, unmarked, rows, runIds, moves>>

-----------------------------------------------------------------------------
(* People in Paperclip, once the hire is approved. *)
OpenIssue(i, c) ==
    /\ c \in hired /\ issue[i] = Absent
    /\ issue' = [issue EXCEPT ![i] = [Absent EXCEPT !.company = c, !.status = "todo"]]
    /\ UNCHANGED <<live, hired, boot, poll, unmarked, rows, runIds, moves, beatFaults>>

Assign(i) ==
    /\ issue[i].company \in hired /\ ~issue[i].assigned
    /\ issue' = [issue EXCEPT ![i].assigned = TRUE]
    /\ UNCHANGED <<live, hired, boot, poll, unmarked, rows, runIds, moves, beatFaults>>

MoveIssue(i, s) ==
    /\ issue[i].assigned /\ issue[i].status # s
    /\ moves < MaxMoves
    /\ moves' = moves + 1
    /\ issue' = [issue EXCEPT ![i].status = s, ![i].run = 0]
    /\ UNCHANGED <<live, hired, boot, poll, unmarked, rows, runIds, beatFaults>>

-----------------------------------------------------------------------------
(* The heartbeat worker. *)
IsRunnable(i) == issue[i].assigned /\ issue[i].status \in RunnableStatuses

Lists(w, c, L, bare) ==
    /\ poll[w].at = "list" /\ poll[w].left = {}
    /\ poll' = [poll EXCEPT ![w] =
                   [BetweenTicks EXCEPT !.company = c, !.left = L, !.bare = bare]]
    /\ unmarked' = unmarked \cup bare
    /\ UNCHANGED <<live, issue, hired, boot, rows, runIds, moves>>

TickCompany(w, c) ==
    /\ Lists(w, c, {i \in Issues : IsRunnable(i) /\ issue[i].company = c}, {})
    /\ UNCHANGED beatFaults

(* Paperclip answers with rows of other companies too; the companyId of a  *)
(* row is optional.                                                        *)
MalformedList(w, c) ==
    LET L == {i \in Issues : IsRunnable(i)}
    IN  /\ \E bare \in SUBSET {i \in L : issue[i].company # c} : Lists(w, c, L, bare)
        /\ SpendBeatFault

(* A row that says it is of another company is passed over, and in a dry   *)
(* run every row.                                                          *)
Takes(w, i) == live /\ (issue[i].company = poll[w].company \/ i \in poll[w].bare)

NextIssue(w) ==
    /\ poll[w].at = "list"
    /\ \E i \in poll[w].left :
          IF Takes(w, i)
          THEN /\ runIds < MaxRunIds
               /\ runIds' = runIds + 1
               /\ poll' = [poll EXCEPT ![w].at = "checkout", ![w].doing = {i},
                                       ![w].left = @ \ {i}, ![w].bare = @ \ {i},
                                       ![w].run = runIds + 1]
          ELSE /\ poll' = [poll EXCEPT ![w].left = @ \ {i}, ![w].bare = @ \ {i}]
               /\ UNCHANGED runIds
    /\ UNCHANGED <<live, issue, hired, boot, unmarked, rows, moves, beatFaults>>

Continue(w, to) ==
    poll' = [poll EXCEPT ![w].at = to,
                         ![w].doing = IF to = "list" THEN {} ELSE @,
                         ![w].run = IF to = "list" THEN 0 ELSE @]

(* Mutant: the checkout expects no status. *)
AnyStatusExpected(i) == issue[i].status # "absent"

(* The statuses a checkout expects: a list may be stale. *)
StatusExpected(i) == issue[i].status \in RunnableStatuses

CheckedOut(w, i) == issue' = [issue EXCEPT ![i].status = "in_progress", ![i].run = poll[w].run]

(* A checkout that throws is never requeued: another worker may hold the   *)
(* issue. It throws when the status is not expected, and also after the    *)
(* claim, when the answer lacks what paperclipIssueSchema asks for.        *)
CheckoutIssue(w) ==
    /\ poll[w].at = "checkout"
    /\ \E i \in poll[w].doing :
          IF StatusExpected(i)
          THEN CheckedOut(w, i) /\ Continue(w, IF i \in Unnamed THEN "list" ELSE "dispatch")
          ELSE UNCHANGED issue /\ Continue(w, "list")
    /\ UNCHANGED <<live, hired, boot, unmarked, rows, runIds, moves, beatFaults>>

CheckoutFails(w) ==
    /\ poll[w].at = "checkout"
    /\ SpendBeatFault
    /\ UNCHANGED issue \/ \E i \in poll[w].doing : StatusExpected(i) /\ CheckedOut(w, i)
    /\ Continue(w, "list")
    /\ UNCHANGED <<live, hired, boot, unmarked, rows, runIds, moves>>

(* emitWorkReady: one row per run id, under the tenant of the company that *)
(* was polled.                                                             *)
WorkReady(w) ==
    {[tenant |-> CompanyTenant[poll[w].company], issue |-> i, run |-> poll[w].run] :
        i \in poll[w].doing}

Dispatch(w) ==
    /\ poll[w].at = "dispatch"
    /\ rows' = rows \cup WorkReady(w)
    /\ Continue(w, "list")
    /\ UNCHANGED <<live, issue, hired, boot, unmarked, runIds, moves, beatFaults>>

DispatchFails(w) ==
    /\ poll[w].at = "dispatch"
    /\ SpendBeatFault
    /\ rows' \in {rows, rows \cup WorkReady(w)}
    /\ Continue(w, "requeue")
    /\ UNCHANGED <<live, issue, hired, boot, unmarked, runIds, moves>>

(* The issue goes back to todo with its assignee, whatever its status is.  *)
ToDo(w) == \E i \in poll[w].doing : issue' = [issue EXCEPT ![i].status = "todo", ![i].run = 0]

RequeueIssue(w) ==
    /\ poll[w].at = "requeue"
    /\ ToDo(w)
    /\ Continue(w, "list")
    /\ UNCHANGED <<live, hired, boot, unmarked, rows, runIds, moves, beatFaults>>

RequeueFails(w) ==
    /\ poll[w].at = "requeue"
    /\ SpendBeatFault
    /\ UNCHANGED issue \/ ToDo(w)
    /\ Continue(w, "list")
    /\ UNCHANGED <<live, hired, boot, unmarked, rows, runIds, moves>>

(* A signal ends the process wherever it is; a call under way may be done. *)
Shutdown(w) ==
    /\ poll[w] # BetweenTicks
    /\ SpendBeatFault
    /\ \/ UNCHANGED <<issue, rows>>
       \/ /\ poll[w].at = "checkout" /\ UNCHANGED rows
          /\ \E i \in poll[w].doing : StatusExpected(i) /\ CheckedOut(w, i)
       \/ poll[w].at = "dispatch" /\ rows' = rows \cup WorkReady(w) /\ UNCHANGED issue
       \/ poll[w].at = "requeue" /\ ToDo(w) /\ UNCHANGED rows
    /\ poll' = [poll EXCEPT ![w] = BetweenTicks]
    /\ UNCHANGED <<live, hired, boot, unmarked, runIds, moves>>

BeatStep(w) ==
    \/ \E c \in Companies : TickCompany(w, c) \/ MalformedList(w, c)
    \/ NextIssue(w) \/ CheckoutIssue(w) \/ CheckoutFails(w)
    \/ Dispatch(w) \/ DispatchFails(w) \/ RequeueIssue(w) \/ RequeueFails(w)
    \/ Shutdown(w)

BeatNext ==
    \/ \E w \in Replicas : BeatStep(w)
    \/ \E b \in Bootstraps :
          CreateCompany(b) \/ CreateAgentHire(b) \/ CreateIssue(b) \/ BootstrapFails(b)
    \/ \E i \in Issues :
          \/ Assign(i)
          \/ \E c \in Companies : OpenIssue(i, c)
          \/ \E s \in Statuses : MoveIssue(i, s)

-----------------------------------------------------------------------------
(* An issue a worker claimed and nobody will hand over or give back. *)
StrandedIssue(i) ==
    /\ issue[i].status = "in_progress" /\ issue[i].run # 0
    /\ ~\E r \in rows : r.run = issue[i].run
    /\ ~\E w \in Replicas : poll[w].at \in {"dispatch", "requeue"} /\ i \in poll[w].doing

(* Replicas with stale lists, people who move issues and failed handoffs   *)
(* never make work cross to another tenant, even when Paperclip lists rows *)
(* of other companies, as long as such a row names its company; each time  *)
(* an issue is handed over again somebody moved it or a call failed, and a *)
(* claimed issue is left behind only by a fault, or because the answer to  *)
(* its checkout does not parse. paperclip-heartbeat-worker.ts tickCompany  *)
(* ("reject a malformed/cross-company row before it can cross a tenant     *)
(* boundary") and processIssue, outbox-paperclip-work-dispatcher.ts:19 "a  *)
(* successful checkout must never be lost because NATS is temporarily      *)
(* unavailable".                                                           *)
WorkIsHandedOverOnce ==
    /\ \A r \in rows :
          r.tenant = CompanyTenant[issue[r.issue].company] \/ r.issue \in unmarked
    /\ \A i \in Issues :
          /\ Cardinality({r \in rows : r.issue = i}) <= 1 + moves + beatFaults
          /\ StrandedIssue(i) => beatFaults > 0 \/ i \in Unnamed
=============================================================================
