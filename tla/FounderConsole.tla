--------------------------- MODULE FounderConsole ---------------------------
(***************************************************************************)
(* The founder's side of the API: the approval queue and its decisions,    *)
(* the command-center summary, the weekly digest and its mail, tenant      *)
(* settings and motion scoring (apps/api/src/routes approvals,             *)
(* control-plane, digest, settings, motion, motions, and the repositories  *)
(* they call).                                                             *)
(*                                                                         *)
(* Several calls run at once. A call takes one step for every store it     *)
(* awaits, so decisions, new artifacts, publishing and other calls come    *)
(* between its reads. Every failed read, failed write or lost answer       *)
(* spends one of consoleFaults. What an answer says is an operator of the  *)
(* call and the stores at the step that gives it.                          *)
(***************************************************************************)
EXTENDS ApiShell, Integers, Sequences, FiniteSetsExt, TLC

CONSTANTS
    Calls,           \* requests in flight
    Setups,          \* the environments the API is started in
    Sessions,        \* routes used together in a behaviour (routes that share no
                     \* rows do not see each other), with bounds on the
                     \* artifacts and on the decisions
    DecisionActions, \* the actions founders choose from
    Issues,          \* ids artifacts are decided by
    Components,      \* components that report health
    Keys,            \* top-level keys of the settings document
    Profiles,        \* inputs of the motion scorer
    Limit,           \* items a queue listing returns
    DecisionScan,    \* decisions, and for the digest rows, a view reads (1000)
    OutboxScan,      \* unconsumed rows the summary reads (500)
    HealthLimit,     \* components the summary reads (100)
    MaxAttempts,     \* posts of one digest mail
    MaxPatches, MaxScores, MaxSamples, \* bounds of the model
    MaxConsoleFaults,
    Null

ASSUME ConsoleAssumption ==
    /\ {Limit, DecisionScan, OutboxScan, HealthLimit, MaxAttempts} \subseteq Nat \ {0}
    /\ {MaxPatches, MaxScores, MaxSamples, MaxConsoleFaults} \subseteq Nat
    /\ Null \notin Issues
    /\ Sessions \subseteq [routes: SUBSET Routes, artifacts: Nat, decisions: Nat]
    /\ Setups \subseteq Environments
    /\ DecisionActions \subseteq {"approved", "edited_then_approved", "rejected"}

VARIABLES
    env,       \* what the API process was started with
    session,   \* the routes used in this behaviour
    events,    \* outbox rows of artifacts, oldest first: issue id and consumed mark
    feedback,  \* approval_feedback, oldest first: issue id and action
    signals,   \* feedback rows whose learning.signal.v1 row is in the outbox
    week,      \* how many rows of events and of feedback are older than a week
    health,    \* newest component_health state of each component
    samples,   \* health samples recorded so far
    stack,     \* primary motions of the newest motion_stack row, {} if none
    scores,    \* number of motion_scores rows
    doc,       \* tenant_settings document, a function of the keys it has
    stored,    \* whether the tenant_settings row exists
    patches,   \* patches begun
    call,      \* the calls
    status,    \* the error status this step answered a call with, or 0
    consoleFaults,
    asked,     \* history: decisions founders took, for each issue
    resent,    \* history: decisions sent again after a lost answer
    owed,      \* history: for each key the value the last patch of it gave
    overlap    \* history: a patch was written over a document it had not read

setup == <<env, session>>
approvals == <<events, feedback, signals, week, asked, resent>>
plane == <<health, samples, stack, scores>>
settings == <<doc, stored, patches, owed, overlap>>
stores == <<approvals, plane, settings>>
consoleVars == <<setup, stores, call, status, consoleFaults>>

routes == session.routes

HealthStates == {"healthy", "degraded", "recovering", "quarantined"}

NoCall == [op |-> "none"]

ConsoleInit ==
    /\ env \in Setups /\ session \in Sessions
    /\ events = <<>> /\ feedback = <<>> /\ signals = {}
    /\ week = [events |-> 0, feedback |-> 0]
    /\ health = [c \in Components |-> Null] /\ samples = 0
    /\ stack = {} /\ scores = 0
    /\ doc = [k \in {} |-> 0] /\ stored = FALSE /\ patches = 0
    /\ call = [p \in Calls |-> NoCall] /\ status = 0 /\ consoleFaults = 0
    /\ asked = [i \in Issues |-> 0] /\ resent = [i \in Issues |-> 0]
    /\ owed = doc /\ overlap = FALSE

-----------------------------------------------------------------------------
(* What the repositories return. Rows are numbered from the oldest. *)

(* The n newest of the first len rows. *)
Newest(len, n) == {i \in 1..len : i > len - n}

(* The n newest, or oldest, rows of a set of them. *)
NewestOf(S, n) == {i \in S : Cardinality({j \in S : j > i}) < n}
OldestOf(S, n) == {i \in S : Cardinality({j \in S : j < i}) < n}

(* listByEventType: newest first, whatever the consumed mark. *)
ListByEventType(n) == Newest(Len(events), n)

(* listUnconsumed: oldest first. *)
ListUnconsumed(n) == OldestOf({i \in DOMAIN events : ~events[i].consumed}, n)

(* listRecent: the n newest decisions. *)
ListRecent(n) == Newest(Len(feedback), n)

(* The issues some decision of the given rows is about. *)
DecidedIssues(rows) == {feedback[i].issue : i \in rows}

(* Mutant: an artifact whose payload has no id is left out. *)
IsPendingNeedsId(i, decided) ==
    events[i].issue # Null /\ events[i].issue \notin decided

(* A row is pending if its payload has no id, or one nobody decided. *)
IsPending(i, decided) == events[i].issue = Null \/ events[i].issue \notin decided

(* listLatest: the newest sample of each component, cut to n of them in    *)
(* the order of observation, so any n of them may be the ones listed.      *)
ListLatest(n) ==
    LET seen == {c \in Components : health[c] # Null}
    IN  IF Cardinality(seen) <= n THEN {seen} ELSE kSubset(n, seen)

(* The worst state there is, unknown without a sample. *)
OverallHealth(states) ==
    IF states = {} THEN "unknown"
    ELSE IF "quarantined" \in states THEN "quarantined"
    ELSE IF "recovering" \in states THEN "recovering"
    ELSE IF "degraded" \in states THEN "degraded" ELSE "healthy"

(* Scores of motions in units of 1/600, in which every weight is whole. *)
Clamp(x) == Min({600, x})

(* scoreMotions. Weeks count up to twelve, for abm up to ten. *)
ScoreMotions(in) ==
    [inbound_content |-> Clamp(168 * in.demand + 132 * in.content
                 + 120 * in.telemetry + 90 * in.trial + 90 * in.community),
     community_engagement |-> Clamp(270 * in.community + 150 * in.content
                 + 90 * in.telemetry + 90 * in.budget),
     outbound_multichannel |-> Clamp(168 * in.acv + 11 * Min({12, in.weeks})
                 + 120 * in.telemetry + 90 * in.budget + 90 * in.community),
     lifecycle_expansion |-> Clamp(210 * in.telemetry + 150 * in.trial
                 + 120 * in.complexity + 120 * in.budget),
     partners |-> Clamp(240 * in.acv + 180 * in.complexity + 180 * in.community),
     paid |-> Clamp(300 * in.budget + 120 * in.demand + 180 * in.trial),
     plg |-> Clamp(360 * in.trial + 240 * in.telemetry),
     abm |-> Clamp(360 * in.acv + 24 * Min({10, in.weeks}))]

(* The two highest. Equal scores are sums of floating-point numbers, which *)
(* rounding puts in either order.                                          *)
SelectedPrimary(score) ==
    {S \in kSubset(2, DOMAIN score) :
        \A a \in S : \A b \in DOMAIN score \ S : score[a] >= score[b]}

-----------------------------------------------------------------------------
(* The environment: agents store artifacts, the publisher consumes their   *)
(* rows, time passes, components report, an operator inserts a stack. Each *)
(* only where a route of the behaviour could see it.                       *)

ArtifactRoutes == {"decide", "send"}

StoreArtifact(i) ==
    /\ routes \cap ArtifactRoutes # {} /\ Len(events) < session.artifacts
    /\ \A j \in DOMAIN events : events[j].issue # i
    /\ events' = Append(events, [issue |-> i, consumed |-> FALSE])
    /\ status' = 0
    /\ UNCHANGED <<setup, feedback, signals, week, asked, resent, plane, settings,
                   call, consoleFaults>>

ConsumeArtifact(j) ==
    /\ {"summary", "decide"} \subseteq routes /\ j \in DOMAIN events /\ ~events[j].consumed
    /\ events' = [events EXCEPT ![j].consumed = TRUE]
    /\ status' = 0
    /\ UNCHANGED <<setup, feedback, signals, week, asked, resent, plane, settings,
                   call, consoleFaults>>

WeekPasses ==
    /\ routes \cap {"weekly", "send"} # {}
    /\ week = [events |-> 0, feedback |-> 0]
    /\ week' = [events |-> Len(events), feedback |-> Len(feedback)]
    /\ status' = 0
    /\ UNCHANGED <<setup, events, feedback, signals, asked, resent, plane, settings,
                   call, consoleFaults>>

RecordHealth(c, s) ==
    /\ "health" \in routes /\ samples < MaxSamples
    /\ health' = [health EXCEPT ![c] = s]
    /\ samples' = samples + 1
    /\ status' = 0
    /\ UNCHANGED <<setup, approvals, stack, scores, settings, call, consoleFaults>>

InsertStack(S) ==
    /\ routes \cap {"score", "motion"} # {} /\ stack = {}
    /\ stack' = S
    /\ status' = 0
    /\ UNCHANGED <<setup, approvals, health, samples, scores, settings, call,
                   consoleFaults>>

-----------------------------------------------------------------------------
(* Calls. *)

(* The call goes on, or ends with an answer or with an error. *)
Continue(p, c) == call' = [call EXCEPT ![p] = c] /\ status' = 0
Reply(p) == Continue(p, NoCall)
ReplyError(p, s) == call' = [call EXCEPT ![p] = NoCall] /\ status' = s

(* Calls that write nothing. They do not see each other, so one at a time  *)
(* is enough.                                                              *)
Views == Routes \ {"decide", "patch", "score"}

(* An admitted call of a route begins. *)
Enter(p, route, c) ==
    /\ route \in routes /\ call[p] = NoCall
    /\ route \in Views => \A q \in Calls : call[q].op \notin Views
    /\ 200 \in Outcomes(route, env)
    /\ Continue(p, c)

At(p, ops, pc) == call[p].op \in ops /\ call[p].pc = pc

Quiet == UNCHANGED <<setup, stores, consoleFaults>>

(* A fault is spent and no row changes. *)
Faulty ==
    /\ consoleFaults < MaxConsoleFaults /\ consoleFaults' = consoleFaults + 1
    /\ UNCHANGED <<setup, stores>>

(* What a call remembers of the moment it began, for the properties only. *)
Now == [events |-> Len(events), samples |-> samples,
        decided |-> DecidedIssues(DOMAIN feedback)]

(* Decisions sent so far. *)
Sent == MapThenSumSet(LAMBDA i : asked[i] + resent[i], Issues)

(* A request that some check turns away. It touches no row and no other    *)
(* call, so it is enough to see it before anything else happened.          *)
Refuse(p, route) ==
    /\ route \in routes /\ \A q \in Calls : call[q] = NoCall
    /\ Len(events) + samples + scores + patches + Sent + consoleFaults = 0 /\ stack = {}
    /\ \E s \in Outcomes(route, env) \ {200} : ReplyError(p, s)
    /\ Quiet

(* A store outside any try block throws: the call ends with 500, or 503    *)
(* where the route says so itself, and a transaction is rolled back.       *)
Throw(p) ==
    /\ \/ call[p].op \in {"list", "patch", "getSettings", "score", "motion",
                          "health", "incidents"}
       \/ At(p, {"decide"}, "commit") \/ At(p, {"weekly", "send"}, "count")
    /\ ReplyError(p, IF call[p].op \in {"health", "incidents"}
                       THEN StatusOf("ServiceUnavailableError") ELSE StatusOf("Error"))
    /\ Faulty

-----------------------------------------------------------------------------
(* GET /v1/approvals: twice the limit of rows, decided or not, then the    *)
(* decisions.                                                              *)

List(p) ==
    /\ Enter(p, "list", [op |-> "list", pc |-> "events", began |-> Now, listed |-> {}])
    /\ Quiet

ListEvents(p) ==
    /\ At(p, {"list"}, "events")
    /\ Continue(p, [call[p] EXCEPT !.pc = "decisions",
                                   !.listed = ListByEventType(2 * Limit)])
    /\ Quiet

(* The items of the answer. *)
ListItems(p) ==
    LET decided == DecidedIssues(ListRecent(DecisionScan))
    IN  NewestOf({i \in call[p].listed : IsPending(i, decided)}, Limit)

ListReply(p) == At(p, {"list"}, "decisions") /\ Reply(p) /\ Quiet

-----------------------------------------------------------------------------
(* POST /v1/approvals/decide *)

Decide(p, i, a) ==
    /\ Sent < session.decisions
    /\ Enter(p, "decide", [op |-> "decide", pc |-> "commit", issue |-> i, action |-> a])
    /\ asked' = [asked EXCEPT ![i] = @ + 1]
    /\ UNCHANGED <<setup, events, feedback, signals, week, resent, plane, settings,
                   consoleFaults>>

(* Mutant: the signal is keyed by the issue's first decision. *)
SignalOfIssue(i) == IF \E r \in DOMAIN feedback : feedback[r].issue = i
                      THEN Min({r \in DOMAIN feedback : feedback[r].issue = i})
                      ELSE Len(feedback) + 1

(* The key of the learning signal is the id of the new feedback row. *)
SignalOf(i) == Len(feedback) + 1

(* recordAndEnqueueLearningSignal: the row and its signal in one           *)
(* transaction. Nothing looks for an earlier decision of the issue.        *)
RecordAndEnqueue(p) ==
    /\ At(p, {"decide"}, "commit")
    /\ feedback' = Append(feedback, [issue |-> call[p].issue, action |-> call[p].action])
    /\ signals' = signals \cup {SignalOf(call[p].issue)}
    /\ Continue(p, [call[p] EXCEPT !.pc = "reply"])
    /\ UNCHANGED <<setup, events, week, asked, resent, plane, settings, consoleFaults>>

DecideReply(p) == At(p, {"decide"}, "reply") /\ Reply(p) /\ Quiet

(* The answer is lost and the console sends the decision again. *)
Resend(p) ==
    /\ At(p, {"decide"}, "reply") /\ Sent < session.decisions
    /\ Continue(p, [call[p] EXCEPT !.pc = "commit"])
    /\ resent' = [resent EXCEPT ![call[p].issue] = @ + 1]
    /\ consoleFaults < MaxConsoleFaults /\ consoleFaults' = consoleFaults + 1
    /\ UNCHANGED <<setup, events, feedback, signals, week, asked, plane, settings>>

-----------------------------------------------------------------------------
(* GET /v1/control-plane/summary, /health and /incidents *)

(* The eight stores the summary reads at once. "rest" stands for the five  *)
(* whose values are compared with no other (signals, motion, incidents,    *)
(* experiments, learning proposals) and fails if they all do.              *)
Sources == {"outbox", "approvals", "componentHealth", "rest"}

(* The order of the reads is free; "rest" may as well come first. *)
NextReads(p) == IF "rest" \in call[p].todo THEN {"rest"} ELSE call[p].todo

Summary(p) ==
    /\ Enter(p, "summary",
         [op |-> "summary", pc |-> "reads", began |-> Now, todo |-> Sources,
          failed |-> {}, rows |-> {}, decisions |-> {}, components |-> {}, states |-> {},
          decided |-> {}])
    /\ Quiet

(* loadOptional: one of the parallel reads returns. *)
SummaryRead(p, s) ==
    /\ At(p, {"summary"}, "reads") /\ s \in NextReads(p)
    /\ LET c == [call[p] EXCEPT !.todo = @ \ {s}]
           rows == ListRecent(DecisionScan)
       IN  \/ /\ s = "outbox"
              /\ Continue(p, [c EXCEPT !.rows = ListUnconsumed(OutboxScan)])
           \/ /\ s = "approvals"
              /\ Continue(p, [c EXCEPT !.decisions = rows, !.decided = DecidedIssues(rows)])
           \/ /\ s = "componentHealth"
              /\ \E listed \in ListLatest(HealthLimit) :
                   Continue(p, [c EXCEPT !.components = listed,
                                         !.states = {health[k] : k \in listed}])
           \/ s = "rest" /\ Continue(p, c)
    /\ Quiet

(* Mutant: a failed read passes for an empty one. *)
SummaryReadFailsSilent(p, s) ==
    /\ At(p, {"summary"}, "reads") /\ s \in NextReads(p)
    /\ Continue(p, [call[p] EXCEPT !.todo = @ \ {s}])
    /\ Faulty

(* loadOptional: the read throws, its fallback is used and it is marked. *)
SummaryReadFails(p, s) ==
    /\ At(p, {"summary"}, "reads") /\ s \in NextReads(p)
    /\ Continue(p, [call[p] EXCEPT !.todo = @ \ {s}, !.failed = @ \cup {s}])
    /\ Faulty

(* What the answer says of its own gaps, and its counts. *)
SummaryPartial(c) == c.failed # {}
PendingIsLowerBound(c) == Cardinality(c.rows) = OutboxScan
DecisionScanTruncated(c) == Cardinality(c.decisions) = DecisionScan
OverallMayBeIncomplete(c) == Cardinality(c.components) = HealthLimit
PendingApprovals(c) == {i \in c.rows : IsPending(i, c.decided)}

SummaryReply(p) ==
    /\ At(p, {"summary"}, "reads") /\ call[p].todo = {}
    /\ IF call[p].failed = Sources
         THEN ReplyError(p, StatusOf("ServiceUnavailableError")) ELSE Reply(p)
    /\ Quiet

(* /health and /incidents read one list each and count it. *)
ReadOne(p, op) == Enter(p, op, [op |-> op, pc |-> "read"]) /\ Quiet

ReadOneReply(p) == At(p, {"health", "incidents"}, "read") /\ Reply(p) /\ Quiet

-----------------------------------------------------------------------------
(* GET /v1/digest/weekly and POST /v1/digest/send *)

(* The week is counted back from the moment the call began. Without stores *)
(* nothing is read.                                                        *)
Digest(p, op) ==
    /\ Enter(p, op,
         [op |-> op, pc |-> IF env.database THEN "stack" ELSE "built", began |-> Now,
          week |-> week, missed |-> FALSE, decided |-> {}, pending |-> {},
          approved |-> 0, rejected |-> 0, attempt |-> 1, mails |-> 0, lost |-> 0])
    /\ Quiet

DigestAt(p, pc) == At(p, {"weekly", "send"}, pc)

(* The stack is shown and nothing else; its failure is swallowed. *)
DigestStack(p) ==
    DigestAt(p, "stack") /\ Continue(p, [call[p] EXCEPT !.pc = "decisions"]) /\ Quiet

(* For the pending count the decisions are read before the artifacts. *)
DigestDecisions(p) ==
    /\ DigestAt(p, "decisions")
    /\ Continue(p, [call[p] EXCEPT !.pc = "events",
                      !.decided = DecidedIssues(ListRecent(DecisionScan))])
    /\ Quiet

DigestEvents(p) ==
    /\ DigestAt(p, "events")
    /\ Continue(p, [call[p] EXCEPT !.pc = "outcomes", !.decided = {},
                      !.pending = {i \in ListByEventType(DecisionScan) :
                                     /\ i > call[p].week.events
                                     /\ IsPending(i, call[p].decided)}])
    /\ Quiet

(* The decisions of the week with one of the given actions. *)
Outcome(p, actions) ==
    {i \in ListRecent(DecisionScan) :
        i > call[p].week.feedback /\ feedback[i].action \in actions}

(* The outcomes come from a second read of the decisions. *)
DigestOutcomes(p) ==
    /\ DigestAt(p, "outcomes")
    /\ Continue(p, [call[p] EXCEPT !.pc = "count",
         !.approved = Cardinality(Outcome(p, {"approved", "edited_then_approved"})),
         !.rejected = Cardinality(Outcome(p, {"rejected"}))])
    /\ Quiet

(* A throw in either block is swallowed and leaves its counts at zero. *)
DigestReadFails(p) ==
    /\ \E pc \in {"decisions", "events", "outcomes"} : DigestAt(p, pc)
    /\ Continue(p, [call[p] EXCEPT !.missed = TRUE, !.decided = {},
                      !.pc = IF @ = "outcomes" THEN "count" ELSE "outcomes"])
    /\ Faulty

(* countSince of the signals. *)
DigestCount(p) ==
    DigestAt(p, "count") /\ Continue(p, [call[p] EXCEPT !.pc = "built"]) /\ Quiet

(* /weekly answers; so does /send when Postal is not configured. *)
DigestReply(p) ==
    /\ DigestAt(p, "built") /\ (call[p].op = "weekly" \/ ~env.postal)
    /\ Reply(p) /\ Quiet

Posting(p) == At(p, {"send"}, "built") /\ env.postal

(* One post of sendViaPostal: Postal accepts it and says so. *)
PostAccepted(p) == Posting(p) /\ Reply(p) /\ Quiet

(* Mutant: one attempt too many. *)
TryAgainPastLast(p, c) ==
    IF c.attempt > MaxAttempts THEN Reply(p)
    ELSE Continue(p, [c EXCEPT !.attempt = @ + 1])

(* The loop goes on until the last attempt, then reports sent: false. *)
TryAgain(p, c) ==
    IF c.attempt >= MaxAttempts THEN Reply(p)
    ELSE Continue(p, [c EXCEPT !.attempt = @ + 1])

(* Postal refuses: 429 and 5xx are tried again, the rest are final. *)
PostRefused(p) == Posting(p) /\ (TryAgain(p, call[p]) \/ Reply(p)) /\ Quiet

(* The timeout aborts the request, or the connection breaks: the mail may  *)
(* have been accepted all the same.                                        *)
PostLost(p) ==
    /\ Posting(p)
    /\ \E accepted \in {0, 1} :
         TryAgain(p, [call[p] EXCEPT !.mails = @ + accepted, !.lost = @ + 1])
    /\ Faulty

-----------------------------------------------------------------------------
(* GET and PATCH /v1/settings *)

GetSettings(p) ==
    Enter(p, "getSettings", [op |-> "getSettings", pc |-> "read"]) /\ Quiet

GetSettingsReply(p) == At(p, {"getSettings"}, "read") /\ Reply(p) /\ Quiet

(* Each patch gives its keys a value of its own. *)
Patch(p, K) ==
    /\ patches < MaxPatches /\ patches' = patches + 1
    /\ Enter(p, "patch", [op |-> "patch", pc |-> "read", patch |-> [k \in K |-> patches'],
                          base |-> doc, existed |-> FALSE])
    /\ UNCHANGED <<setup, approvals, plane, doc, stored, owed, overlap, consoleFaults>>

(* Mutant: the patch replaces the document. *)
ShallowMergeReplaces(base, patch) == patch

(* Keys of the patch replace or add, the others stay. *)
ShallowMerge(base, patch) == patch @@ base

(* The select of patch. It takes no lock. *)
PatchRead(p) ==
    /\ At(p, {"patch"}, "read")
    /\ Continue(p, [call[p] EXCEPT !.pc = "write", !.base = doc, !.existed = stored])
    /\ Quiet

(* The update of the row that was read. *)
PatchWrite(p) ==
    /\ At(p, {"patch"}, "write") /\ (call[p].existed \/ ~stored)
    /\ doc' = ShallowMerge(call[p].base, call[p].patch)
    /\ stored' = TRUE
    /\ owed' = call[p].patch @@ owed
    /\ overlap' = (overlap \/ call[p].base # doc)
    /\ Reply(p)
    /\ UNCHANGED <<setup, approvals, plane, patches, consoleFaults>>

(* The insert fails on the row another patch has inserted meanwhile. *)
PatchConflict(p) ==
    /\ At(p, {"patch"}, "write") /\ ~call[p].existed /\ stored
    /\ ReplyError(p, StatusOf("Error")) /\ Quiet

-----------------------------------------------------------------------------
(* POST /v1/motions/score and GET /v1/motion *)

Score(p, in) ==
    /\ scores < MaxScores
    /\ \E primary \in SelectedPrimary(ScoreMotions(in)) :
         Enter(p, "score", [op |-> "score", pc |-> "record", primary |-> primary])
    /\ Quiet

RecordScore(p) ==
    /\ At(p, {"score"}, "record")
    /\ scores' = scores + 1
    /\ Continue(p, [call[p] EXCEPT !.pc = "compare"])
    /\ UNCHANGED <<setup, approvals, health, samples, stack, settings, consoleFaults>>

ScoreReply(p) == At(p, {"score"}, "compare") /\ Reply(p) /\ Quiet

(* getOverview: three transactions at once. *)
Motion(p) ==
    /\ Enter(p, "motion", [op |-> "motion", pc |-> "reads",
                           todo |-> {"score", "stack", "recent"}])
    /\ Quiet

MotionRead(p, r) ==
    /\ At(p, {"motion"}, "reads") /\ r \in call[p].todo
    /\ Continue(p, [call[p] EXCEPT !.todo = @ \ {r}])
    /\ Quiet

MotionReply(p) ==
    At(p, {"motion"}, "reads") /\ call[p].todo = {} /\ Reply(p) /\ Quiet

-----------------------------------------------------------------------------
Environment ==
    \/ \E i \in Issues \cup {Null} : StoreArtifact(i)
    \/ \E j \in DOMAIN events : ConsumeArtifact(j)
    \/ WeekPasses
    \/ \E c \in Components, s \in HealthStates : RecordHealth(c, s)
    \/ \E in \in Profiles : \E S \in SelectedPrimary(ScoreMotions(in)) : InsertStack(S)

Begin(p) ==
    \/ List(p) \/ Summary(p) \/ GetSettings(p) \/ Motion(p)
    \/ \E op \in {"weekly", "send"} : Digest(p, op)
    \/ \E op \in {"health", "incidents"} : ReadOne(p, op)
    \/ \E i \in Issues, a \in DecisionActions : Decide(p, i, a)
    \/ \E K \in SUBSET Keys : Patch(p, K)
    \/ \E in \in Profiles : Score(p, in)

Step(p) ==
    \/ ListEvents(p) \/ ListReply(p) \/ RecordAndEnqueue(p) \/ DecideReply(p)
    \/ (\E s \in Sources : SummaryRead(p, s)) \/ SummaryReply(p) \/ ReadOneReply(p)
    \/ DigestStack(p) \/ DigestDecisions(p) \/ DigestEvents(p) \/ DigestOutcomes(p)
    \/ DigestCount(p) \/ DigestReply(p) \/ PostAccepted(p) \/ PostRefused(p)
    \/ GetSettingsReply(p) \/ PatchRead(p) \/ PatchWrite(p) \/ PatchConflict(p)
    \/ RecordScore(p) \/ ScoreReply(p)
    \/ (\E r \in {"score", "stack", "recent"} : MotionRead(p, r)) \/ MotionReply(p)

Fail(p) ==
    \/ Throw(p) \/ Resend(p) \/ DigestReadFails(p) \/ PostLost(p)
    \/ \E s \in Sources : SummaryReadFails(p, s)

ConsoleNext ==
    \/ Environment
    \/ \E p \in Calls : Begin(p) \/ Step(p) \/ Fail(p) \/ \E r \in Routes : Refuse(p, r)

ConsoleSpec == ConsoleInit /\ [][ConsoleNext]_consoleVars

-----------------------------------------------------------------------------
(* Properties *)

(* No decision was pushed out of what the views read. *)
ScanIsWhole == Len(feedback) <= DecisionScan

Undecided(i) == events[i].issue \notin DecidedIssues(DOMAIN feedback)

(* GET /v1/approvals: an artifact decided before the call began is not     *)
(* shown; one that was there before and is still undecided is, unless the  *)
(* answer is full of newer ones or the window of twice the limit is full   *)
(* of newer rows, which may all be decided.                                *)
QueueShowsPending ==
    [][\A p \in Calls : ListReply(p) =>
         LET began == call[p].began
             items == ListItems(p)
         IN  /\ ScanIsWhole => \A i \in items : events[i].issue \notin began.decided
             /\ \A i \in 1..began.events :
                   \/ i \in items \/ ~Undecided(i)
                   \/ Cardinality({j \in items : j > i}) = Limit
                   \/ Len(events) - i >= 2 * Limit]_consoleVars

(* GET /v1/control-plane/summary: an answer that is not marked partial,    *)
(* truncated or incomplete counts no artifact as pending that was decided  *)
(* before the call began, misses none that is unpublished and undecided,   *)
(* and calls the system healthy only if no component was anything else all *)
(* through the call.                                                       *)
SummaryFlagsItsGaps ==
    [][\A p \in Calls : SummaryReply(p) /\ ~SummaryPartial(call[p]) =>
         LET c == call[p]
         IN  /\ ~DecisionScanTruncated(c) =>
                   \A i \in PendingApprovals(c) : events[i].issue \notin c.began.decided
             /\ ~PendingIsLowerBound(c) =>
                   \A i \in 1..c.began.events :
                      i \in PendingApprovals(c) \/ events[i].consumed \/ ~Undecided(i)
             /\ (/\ OverallHealth(c.states) = "healthy" /\ ~OverallMayBeIncomplete(c)
                 /\ samples = c.began.samples) =>
                   \A k \in Components : health[k] \in {Null, "healthy"}]_consoleVars

(* The digest counts no artifact as pending that was decided before it     *)
(* began, and without a failed read misses none of the week that was there *)
(* and is undecided. It is posted at most MaxAttempts times, and a mail it *)
(* does not know of took a post whose answer was lost.                     *)
DigestGapsNeedFaults ==
    [][\A p \in Calls : DigestAt(p, "built") /\ call'[p] = NoCall =>
         LET c == call[p]
         IN  /\ ScanIsWhole => \A i \in c.pending : events[i].issue \notin c.began.decided
             /\ (env.database /\ ~c.missed /\ Len(events) <= DecisionScan) =>
                   \A i \in (c.week.events + 1)..c.began.events :
                      i \in c.pending \/ ~Undecided(i)
             /\ c.mails <= c.lost /\ c.attempt <= MaxAttempts]_consoleVars

(* POST /v1/approvals/decide: every feedback row has its learning signal,  *)
(* and an issue has more rows than founders took decisions on it only for  *)
(* decisions that were sent again after a lost answer.                     *)
ExtraDecisionsWereResent ==
    /\ signals = DOMAIN feedback
    /\ \A i \in Issues :
         Cardinality({r \in DOMAIN feedback : feedback[r].issue = i})
            <= asked[i] + resent[i]

(* PATCH /v1/settings: the document holds for every key what the last      *)
(* committed patch of the key gave, unless a patch was written over a      *)
(* document that had changed since it was read.                            *)
LostPatchNeedsOverlap == overlap \/ doc = owed
=============================================================================
