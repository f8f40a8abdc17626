# GrowthOS in TLA+

A verification project for GrowthOS, a TypeScript monorepo that runs founder-led
go-to-market work: signals come in, agents turn them into content and external
actions, a founder approves, and what was learned changes the playbooks. All services
share one Postgres database and one NATS JetStream stream. The hard part of the code
is not the content but the plumbing that keeps it consistent: an outbox, leases,
compare-and-set updates, idempotency keys and redeliveries. That is what is modelled
here. Paths below are relative to the repository root.

## 1. Inventory

| Component | State it keeps | Operations | Talks to |
|---|---|---|---|
| External actions (`packages/db/src/external-actions-repository.ts`, `packages/n8n`, `apps/api/src/routes/n8n.ts`) | `external_actions`, `external_action_events`, incidents, outbox rows | request, claim under a lease, dispatch, accept / retry / fail, callback outcome | outbox publisher (claims and posts), n8n (callbacks) |
| Outbox publisher (`apps/worker-outbox-publisher`) | advisory lock, consumed marks, incidents, health samples | a cycle: lock, list per tenant, persist, publish, mark | every producer of outbox rows; NATS |
| Durable consumer (`packages/core/src/durable-jetstream-consumer.ts`) | delivery counts at the server, dead letters | deliver, handle, ack, nak, term | every worker is a handler behind it |
| Signal intake and router (`apps/worker-signal-router`, `signal-events-repository.ts`) | `signal_events` with a processing lease | ingest, claim a batch, route, request work, mark, release | outbox |
| Content pipeline (`worker-intel-director`, `-content-strategist`, `-blog-draft`, `-critique`) | outbox rows only | generate, enqueue | outbox and consumer, LLM |
| Learning (`worker-learning`, proposals and playbook repositories) | `learning_proposals`, promotion claims, `playbook_versions` | persist, evaluate, approve, claim, create version, publish, promote | critiques, experiments, founder |
| Experiments (`adaptive-control-plane-repository.ts`, `routes/experiments.ts`) | `experiments`, assignments, observations | create, transition, assign, observe, summarize | API callers; evidence for learning |
| Tenant provisioning (`worker-workflow-callback`, `routes/workflows.ts`) | `workflow_runs`, outbox rows | request, provision, verify, callbacks, progress | Restate, the clients below |
| Provisioning clients (`tenant-provisioning.ts`, `provisioning-http-clients.ts`, `packages/identity`, `packages/billing`, `tenant-secrets-service.ts`) | none of their own; organisations, repositories, buckets, customers and secrets elsewhere | find or create, read and write a file, put a secret | Zitadel, Gitea, MinIO, Lago, Vault |
| Secrets (`packages/secrets`) | a token cached for all requests of a process | resolve, renew, log in, get / put / delete / list | Vault |
| Approvals (`routes/approvals.ts`, `approval-feedback-repository.ts`) | `approval_feedback`, outbox rows | list the queue; decide: feedback row and learning signal in one transaction | learning worker, founder |
| Control plane (`routes/control-plane.ts`) | incidents, `component_health` | summary of eight reads, health, incidents | founder, operators |
| Digest, settings, motions (`routes/digest.ts`, `settings.ts`, `motion(s).ts`) | `tenant_settings`, `motion_scores` | build and mail the digest; patch; score | Postal, founder |
| API shell (`app.ts`, `auth-middleware.ts`, `error-middleware.ts`) | configuration | admit or refuse a request | every route |
| LLM harness (`packages/llm-harness`) | a buffer of log rows | call with retries, log, flush | OpenAI, ClickHouse |
| Paperclip heartbeat, adapter and bootstrap (`worker-paperclip-heartbeat`, `packages/adapter`, `routes/paperclip.ts`) | in-process tick guard; outbox rows | bootstrap a tenant; poll, check out, hand over, requeue | Paperclip, outbox |
| In-memory repositories (`packages/db`) | maps and arrays | the interface of the Postgres repositories | tests |
| Critique rubric, healing decision | none (pure) | score, decide | workers |
| Attribution, warmth | none | score an event, enqueue the result | outbox |
| Schema, migrations, web, observability | declarations and I/O | | |

The components meet in three places. The **outbox**: a row is unique by tenant, event
type and idempotency key, and a second insert is dropped without an error. The
**publisher** copies rows to NATS at least once. The **consumer** delivers at least
once and at most `maxDeliver` times. Everything else is a row that several processes
move by guarded updates.

What is hard, and so what the properties are about: processes that stop between two
awaited calls; answers put together from several reads at different times; leases, locks
and claims that run out under a holder that is still at work; state read in one
transaction and used in another; duplicated, late and overtaking deliveries, answers and
callbacks; the last delivery failing; and generators that produce other ids when they
run again. `PROJECT.json` lists each such hazard at its line, with the properties that
cover it.

## 2. Modules

| Module | Models | Lines of thought |
|---|---|---|
| `ExternalActions` | the life of an approved external action | every repository method is one atomic action; the publisher takes one step per awaited call; n8n is external |
| `ActionContract` | what the rest of the system may rely on | request, hand over, conclude (with announcement and incident in one step), retire |
| `*Proofs` | theorems about the module they are named after | `ExternalActionsProofs` also that `ActionContract` is implemented; `IntegrationsProofs` about all four parts; `PipelineAndExperimentsProofs` about `ContentPipeline` and `Experiments`, `RouterAndConsoleProofs` about `FounderConsole` and `SignalRouter` |
| `OutboxPublisher` | cycles under the advisory lock | rows, tenants and batches; poison rows and deferred dispatches |
| `SignalRouter` | leased batches of signals | lease taken once, never renewed |
| `DurableConsumer` | the shared consumer loop | JetStream is external, from the options the code sets |
| `LearningPromotion` | one learning proposal | critique and approval deliveries race through evaluation, claim and promotion |
| `WorkflowProvisioning` | one provisioning workflow | request route, both worker paths, runtime callbacks |
| `ContentPipeline` | the four content workers | keys, ids, lineage and experiment of every artifact |
| `Experiments` | one experiment under concurrent calls | route check, read of the transaction, write |
| `ApiShell` | admission of a request | constant operators: token, tenant, store, query, body, in each route's own order |
| `FounderConsole` | queue, decisions, summary, digest, settings, motions | extends `ApiShell`; a call takes one step per store it awaits |
| `ControlPlaneDoubles`, `EventDoubles` | each repository twice: the in-memory double and Postgres | constant operators from a state and a call to a state and an answer |
| `RepositoryDoubles` | the two side by side | the same calls to both, in every order |
| `TenantResources` | what provisioning does outside the database | one step per remote call; overlapping and repeated runs |
| `VaultSecrets` | the shared Vault token | time in ticks of the longest latency |
| `LlmCallLog` | model calls and their log | buffer, batches under way, timer, stop |
| `PaperclipHeartbeat` | work from Paperclip | stale lists, replicas, failed handovers |
| `Integrations` | the last four | they share no state: one moves in a behaviour |

`MC*` modules give TLC its constants; the `.cfg` of the same name (without `MC`) is
the run.

Composition: `FounderConsole` is built on `ApiShell`; `RepositoryDoubles` on the two
modules of doubles; `Integrations` on the four parts that talk to other systems;
`ExternalActions` implements `ActionContract`. `TenantResources` is the inside of the
step that `WorkflowProvisioning` takes when it provisions: the latter says when a run
is started, repeated or overlapped, the former what that leaves behind.

### Conventions

- *Atomicity.* A database transaction whose writes hang on one guarded `UPDATE` or
  `INSERT ... ON CONFLICT` is one action. Where a transaction reads, and writes
  something that the read no longer guards (READ COMMITTED, no `FOR UPDATE`), read and
  write are two actions (`Experiments!Load`, `LearningPromotion` "select"/"update").
  Between two awaited calls of a process anything may happen.
- *Time.* No clock is modelled. A lease, an ack wait or a retry delay is a Boolean that
  the environment turns, so every relation between timeouts and the speed of processes
  is covered. In `Experiments` the number of committed moves is the clock. Two modules need a
  clock: `VaultSecrets`, where the question is whether a token outlives the message that
  carries it, and `RepositoryDoubles`, where both sides compare the same times.
- *Faults.* Crashes, failed calls, stalls past a deadline and lost answers spend
  `faults`, at most `MaxFaults`. Several properties use the count: they say that an
  anomaly (a duplicate, a rerun, a second outcome) is paid for by a fault, so that
  normal operation is free of it.
- *Types.* `TypeOK` says what the variables of a component hold, and is proved.
  `FounderConsole` has none of its own: the types its proof needs are in `StoreInv` and
  `CallsInv`. `RepositoryDoubles`, which has no proof, says in comments what it holds.
- *Names.* `ContentPipeline` and `FounderConsole` each share a proof module with another
  component, so their specifications are called `PipelineSpec` and `ConsoleSpec`, and
  their other common names likewise.
- *External parts*: n8n, JetStream, Restate, Vault, Zitadel, Gitea, MinIO, Lago, OpenAI,
  ClickHouse, Postal and Paperclip are modelled from how the code uses
  them, and may do anything the code has to expect.
- *Mutants.* A definition called `XDroppedGuard` or the like above `X`, with a comment
  that begins "Mutant", is `X` with a plausible bug. It is used by nothing; with it in
  the place of `X` the property listed with it in `PROJECT.json` fails.

### How state and actions correspond to the code

**ExternalActions.** `state`, `attempts`, `leaseOwner`, `leaseLive`, `retryDue` are
columns of `external_actions`; `ledger` is `external_action_events`; `row` the dispatch
row and `outbox` the life-cycle rows of an action; `incident` the incident of its
failure. A publisher lists a row, claims it, posts to n8n, records one of three answers
(accepted, retryable, failed) and marks the row consumed. A callback settles an action
in any state before the final ones, also before the answer to the post is recorded.

**OutboxPublisher.** A publisher that takes the lock goes through the tenants in order;
for each it lists the oldest `Batch` pending rows and for each row writes the incident
and the health sample, publishes and marks. A throw ends the cycle. Losing the
connection frees the lock while the cycle goes on.

**SignalRouter.** Per tenant and signal type a replica leases up to `Batch` signals,
then routes each (one outbox row), requests work of one agent (another) and marks it.
`markProcessed` does not compare the owner; `releaseClaims` does.

**DurableConsumer.** Messages wait in a replica's inbox while their ack wait runs. A
handler that throws is nak'ed, on the last delivery dead-lettered and terminated.

**LearningPromotion.** A critique delivery persists the proposal, loads evidence,
evaluates, records the decision, claims the promotion, lists or creates the version,
enqueues the update and marks the proposal promoted; the founder's approval enqueues a
second message that enters at the evaluation.

**WorkflowProvisioning.** `run` is the `workflow_runs` row, moved by compare-and-set
whose result some callers ignore. The worker either provisions itself or asks Restate;
callbacks write the same row and the same outbox from the API.

**ContentPipeline.** A handler takes an event and enqueues its artifacts one by one.
Ids from `crypto.randomUUID` are new; ids the LLM writes (`brief_id`,
`opportunity_id`) may be ones already used. The experiment an LLM claims is stripped and
the one of the source is put in. Every generation may throw (`Fail`): the artifact is
parsed by its own schema outside any `try`, and legal events ask for artifacts it refuses.
`sent` counts the deliveries of an event, `task[w].last` tells a handler that it has the
last, on which a throw becomes a dead letter (`dead`).

**Experiments.** A call passes the check of its route, reads in its transaction, and
writes. `transition` writes under the status it was asked to leave; assignment and
observation insert with `ON CONFLICT DO NOTHING` and no status condition.

**FounderConsole.** `call[p]` is a request: its route, the step it awaits and what its
reads returned. `events` are the artifact rows of the outbox, `feedback` and `signals`
the decisions and their learning signals, `health`, `stack`, `scores`, `doc` the other
tables. The answer of a view is an operator of what the call has read (`ListItems`,
`PendingApprovals`, `OverallHealth`), compared at the step that gives it with what was
there when the call began. `Refuse` is every early return of a route, taken from
`ApiShell`. Sessions say which routes meet in a behaviour; routes that share no table
are checked apart.

**RepositoryDoubles.** `mem` is the double's maps in insertion order, `pg` the table.
A call is applied to both and the answers compared; after it every read is compared
too. `PgMayList` leaves open the order of rows that Postgres does not fix. Calls do
not overlap here.

**Integrations.** `cloud` is what Zitadel, Gitea, MinIO, Lago and Vault hold;
`step[r]` the remote call a provisioning run awaits. In `VaultSecrets` the cache and
Vault count a token's life separately, the cache from when the answer arrived; every
answer carries a lease of its own. What the operations read and write is left out. In
`LlmCallLog` a batch leaves the buffer in one step (`splice`) and reaches the table in
another. In `PaperclipHeartbeat`, `poll[w].left` is the list a replica works through,
taken in an earlier step; checkout, dispatch and requeue are steps of their own. A list
of Paperclip's may hold rows of other companies (`MalformedList`, a fault); `bare` are
those of them without `companyId`, which the adapter lets a row leave out. `Unnamed` are
the issues whose checkout answer the adapter refuses after Paperclip has claimed them.

## 3. Runs

| Run | Bounds | Shows |
|---|---|---|
| `external_actions` | 1 action, 2 publishers, 2 faults | safety, refinement of `ActionContract`, and that every row is consumed |
| `outbox_publisher` | rows of all kinds in 2 tenants, batch 2, 2 publishers, 1 fault | at-least-once, incident before publish, every unblocked row consumed |
| `signal_router` | 2 signals in one of 2 lanes, batch 2, 2 replicas, 2 faults | routed once, leases fenced, every signal processed |
| `durable_consumer` | 3 messages, 2 replicas, 2 deliveries, 2 outstanding, 1 fault | nothing dropped unrecorded, every message settled |
| `learning_promotion` | 2 handlers, 2 faults | governance of versions, progress without faults |
| `workflow_provisioning` | 2 replicas, callbacks of all types, 2 steps, 2 deliveries, 1 fault | nothing unearned is announced, nothing is acknowledged before its run is terminal, requests settle |
| `content_pipeline` | 1 request (in an experiment or not), 2 handlers, up to 2 opportunities a brief, 2 deliveries, 1 fault, any number of throws | lineage, no duplicates, experiment kept, every event acknowledged with its artifacts or dead-lettered |
| `experiments` | 2 calls, 1 entity, 1 observation key, 3 moves | transition table, evidence matches its assignment, when a winner can be lost |
| `founder_console` | 2 calls, up to 3 artifacts and 3 decisions, limit 1, scans of 2, 2 health samples and a limit of 2, 1 fault, all and nothing configured | what queue, summary and digest may leave out; which decisions and patches may be doubled or lost |
| `repository_doubles` | 11 repositories, 2 tenants, 2 keys, 4 to 6 calls, 2 instants | the doubles answer as Postgres does, but for the named differences |
| `integrations` | 3 provisioning runs (2 of one tenant, 1 of its namesake); 2 requests, 3 tokens, leases of 1, 7 or 8 ticks in each answer; 3 model calls, batches of 2; 2 issues, 2 companies, 2 replicas, 3 checkouts, 1 move; 1 fault each | complete resources, failures with a cause, honoured tokens, one log row per call, one handover per claim |

Why the bounds are enough to be interesting: a takeover needs two processes and one
fault, and an answer that arrives after a takeover a second one (`external_actions`,
`signal_router`, `learning_promotion` have two). An overlap of two deliveries, a crash
between two writes and a lost lock each need one. Two deliveries are the smallest
number at which the last differs from the first; two tenants and a batch of two let a
poison row or deferred dispatches block others. In `content_pipeline` two opportunities
let an id of the LLM repeat, among the opportunities and among the content briefs, whose
drafts then share a key, and let the strategist throw after the rows of the first; one
already makes it enqueue two rows with a crash in between. That two briefs of different
requests share an id is left to the proofs. Three moves let an experiment
leave a status and come back under a call that has read it, and reach `rolled_back`.
In `founder_console` three artifacts exceed the
window of twice the limit and three decisions the scan, so every truncation happens.
Four calls are enough for the doubles to create, change, repeat and list; proposals
need six for a claim to expire and be taken over. Seven ticks of a lease make 30 % of
it, the renewal threshold, longer than a round trip, which is the condition the code
needs, and one tick does not; three model calls fill a batch and leave one over. A second provisioning run of
a tenant overlaps or repeats the first, a third shares its organisation by name.
`experiments`, `founder_console` and `integrations` declare calls, keys or tokens
symmetric, which is sound as they check no liveness.
`CHECK_DEADLOCK FALSE` stands where the system really comes to rest: all messages
settled, the proposal or the experiment final.

Every mutant of `PROJECT.json` was found by TLC under the run's own bounds.

### Disagreements between code and text

One run expects a violation: `learning_promotion_stuck`, "a process crash never leaves
promotion stuck" (`adaptive-control-plane-repository.ts:644`). The redelivery meets the
live claim of the dead claimant, records nothing, and is acknowledged; when the claim
runs out no message is left.

Other places where a comment or a document says more than the code does, met while
modelling. The properties hold with the exception stated in them.

- `durable-jetstream-consumer.ts:169`, "It remains eligible for recovery": on the last
  delivery the `nak` comes after `maxDeliver` is spent (`LossAndReplayNeedFaults`).
- `docs/ADAPTIVE_GTM_HARNESS.md:112`, approval "adds `learning.proposal.approved.v1` to
  the outbox": a stale evaluation takes an approval back, and the second approval
  conflicts with the key of the first one's row.
- `learning-worker.ts:568-571`, the update is published before the terminal transition.
  The update in the outbox may be of another version than the one promoted: after a
  claim ran out under its holder two versions may exist, and the row of the first one
  announced holds the key (`PromotedIsPublished`).
- `intel-director-worker.ts:15-16`, `content-strategist-worker.ts:19-21`, the fallback is
  there so that "the pipeline never stalls". The fallbacks throw on some legal events, on
  every delivery: `sample_posts` takes at most 280 characters and gets up to 500
  (`intel-director-worker.ts:265`), and a title without a letter or digit of `a-z0-9` has
  an empty `primary_keyword` (`content-strategist-worker.ts:207`). On the LLM's answer a
  draft of less than 100 characters (`blog-draft-worker.ts:232`) and an empty reason of a
  critique (`critique-worker.ts:262`) throw too. Such an event
  is dead-lettered without any fault and its branch of the pipeline ends there, for the
  strategist possibly after the rows of earlier references
  (`AcknowledgedOrDeadLettered`).
- `routes/workflows.ts:196`, "Emit the terminal event determined by callbackType": a
  callback of type `progress` emits the completed event. An API process that stops
  between the update and the event of a callback leaves the outcome unannounced
  (`AckedIsAnnounced`), and overlapping deliveries can announce both outcomes
  (`OutcomeIsEarned`).
- `paperclip-heartbeat-worker.ts:143-144`, "reject a malformed/cross-company row before
  it can cross a tenant boundary": a row of another company that carries no `companyId`
  passes the test of line 145 and is handed over under the tenant of the company polled
  (`WorkIsHandedOverOnce`).
- `routes/approvals.ts:8-10` describes the queue as the undecided artifacts. It looks
  at the newest `2 * limit` rows only: decided ones fill the window and hide older
  undecided ones (`QueueShowsPending`). `approvals.ts:12` calls `/decide` idempotent;
  each call inserts a further feedback row and learning signal
  (`ExtraDecisionsWereResent`).
- `routes/motions.ts:5-7` and `:84-85` speak of a motion stack that is persisted; the
  repository has no write of `motion_stack`.
- `tenant-provisioning.ts:19`, "Each step is idempotent": a repeated run overwrites the
  founder's edits of `FOUNDER.md`; of two overlapping runs one may fail on a bucket or a
  file the other has just created (`FailedRunHasCause`); tenants of one name share one
  Zitadel organisation; with stub clients a run completes and creates nothing. In the
  model a call cut off by a crash is carried out by then or never: one that a remote
  system carries out only later, under the next run, would meet that run as a call of an
  overlapping run does, and is left out.
- `adaptive-control-plane-repository.ts:917`, doubles that "mirror the persistence
  invariants". They do for calls one after the other, except: keys joined with colons
  collide where two free texts are joined, which are the type and id of an assigned
  entity (`:940-947`) and the component and idempotency key of a health sample
  (`:1597-1603`, a sample that Postgres stores is a duplicate to the double); `numeric`
  columns round; of two health samples of one instant the double keeps the older; a
  second signal of a source with an empty external id is a new row to the double
  (`signal-events-repository.ts:132`), while in Postgres it meets the unique index and
  `ingest` throws (`:337-357`); and an action stays written in the double when the outbox
  refuses its row. The other joined keys do not collide: they hold a uuid and one text,
  an event type without colons (`contracts.ts:6-9`), or are checked by column
  (`signal-events-repository.ts:139-147`). Found by reading and not modelled: overlapping incident transitions
  (`:1740-1772`), the row `approveAndEnqueue` puts back when its enqueue fails
  (`:1494-1505`), and the foreign keys and uuid checks Postgres adds.

Further exceptions the passing properties allow: a replica whose lease ran out
processes a signal again beside its successor (`RoutedOnceUnlessFaults`); a claim that
runs out between listing and creating lets a second playbook version be created
(`ExtraVersionsNeedOverruns`); a brief whose id the LLM wrote before is acknowledged
without a draft of its own (`AckedMeansProduced`); a transition can write back an older
winner (`WinnerLostOnlyToReturn`); one of two concurrent patches of the settings may be
lost (`LostPatchNeedsOverlap`); a digest leaves out what it failed to read and may be
mailed twice (`DigestGapsNeedFaults`); a failed renewal of the Vault token empties the
cache under a request that has just logged in, and after a renewal the token is used
however short its new lease is, as it is near `max_ttl` (`SecretFailureHasCause`; no service
passes AppRole credentials yet, the worker uses a static token); rows still in the
buffer when the process stops are lost, as nothing calls `close` (`OneRowPerCall`); a
lost checkout answer, or a stop between checkout and dispatch, leaves a Paperclip issue
claimed by nobody, and so does, without any fault, the checkout of an issue that Paperclip
keeps without a title or an identifier: the answer does not pass `paperclipIssueSchema`
(`packages/adapter/src/index.ts:169-174`, `:321`), the worker takes the checkout for a
failed one and never requeues it (`WorkIsHandedOverOnce`). A repeated bootstrap creates
everything again.

### Fairness

Liveness is checked under weak fairness of the steps of a process that has started (an
`await` returns or throws), of the timers that start cycles and ticks (`setInterval`,
and the runner's loop), and of the passing of deadlines. Strong fairness is assumed only
where a scheduler serves many: a publisher cycle goes through every row it lists, so a
pending row is listed again and again (`ExternalActions!ListUnconsumed`), and JetStream
delivers each message it has room for (`DurableConsumer!Deliver`). Handlers owe nothing:
they may throw every time. In `ContentPipeline`, where deliveries and rows are finitely
many, it is enough that delivery or some handler moves while one can. n8n, Restate, founders and operators owe nothing.
`experiments`, `founder_console`, `repository_doubles` and `integrations` check safety
only and assume no fairness. Faults are finitely many, which is the assumption that the
environment is in the end good enough for progress. Without a bound on retryable answers
the code retries for ever; and a dispatched action whose callback never comes stays
dispatched, as the code has no timeout for it.

## 4. Proofs

Eight modules hold theorems. A theorem holds for any sets of processes, rows, messages
and tenants, and any number of faults, under the `ASSUME`s of the module it is about: a
null value is no process, no date and no row; bounds are naturals; a kind, a lane or a
tenant is given to every row. Beyond that: the sets of publishers, of learning handlers
and of heartbeat replicas are finite, since the proofs count them (`OutboxPublisher`,
`LearningPromotion`, `PaperclipHeartbeat`); and there is a signal (`SignalRouter`, whose
idle replicas point at one). That Vault leases have at least 7 ticks, so that the three
tenths at which the code renews outlast a request and its answer, is no assumption: a
shorter one is a mishap, `short`, that excuses a refused token. The code really needs it:
with `Short` at 4 and leases of 4, 5 or 6 ticks TLC finds `SecretFailureHasCause`
violated.

Each component has an inductive invariant (`IInv`, `PipelineInv`, `ConsoleInv`) of named
parts. TLC checked it on the component's run before it was proved. There is one lemma that the initial states
satisfy it, one or more per action that a step keeps it, and a temporal theorem that
combines them. The properties that say "paid for by a fault" share one argument: what
may still go wrong without a further fault is counted too, so that a step only moves
something from the one count to the other, and only a fault raises the limit.

**ExternalActionsProofs.** `TypeCorrect`, then the inductive part of each property. The
properties are not all inductive as stated. `NoStrandedAction` needs that a publisher
about to mark a row holds a settled action, and so that a late answer leaves for
"settled" only where the code really checked. `AnswerFenced` needs that the attempt of
a publisher is never ahead of `attempts`, and that holding the lease with an older
attempt is impossible because each claim increments both. `LedgerFollowsAttempts`
carries that the current attempt has no result while the action is dispatching.
`OutcomeIsFinal` (a settled action stays as it is) and `IncidentMovesForward` (no step
moves an incident against its table) are action properties that follow from these and
are stated only as theorems.
`ContractImplemented` shows that every step is a step of `ActionContract` or a stutter
under the mapping in `ExternalActions`.

**PipelineAndExperimentsProofs, the pipeline.** None of the three properties is inductive:
they speak of ancestors, and a step adds a row whose source may be any row. `MadeInv`
says of every row which row it follows from and how: type, key, experiment. `TaskInv`
says that what a handler has counted is in the outbox, by its own doing or by that of an
earlier run, at the type and key that `Place` names. That is all a handler knows, as
`enqueue` drops a repeated key without an error. An acknowledged event has everything it
calls for (`AckedInv`), because a handler acknowledges when its count is full.
`OneTraceableArtifact` then follows from the uniqueness of the outbox key: two artifacts
of one source at one place would have the same key. A key begins with the id of the
source, and two sources of one type may share an id only where the LLM writes it, which
is the exception in `AckedMeansProduced`.

**PipelineAndExperimentsProofs, experiments.** The invariant `IInv` says of a call that has read the row which
of it is still true when it writes: the transition is legal; a start it has read is
still the start, and a missing start was read in `draft`, to which nothing returns
(`StartInv`); an end it needs was there (`EndInv`); the winner is unchanged if nothing
moved (`WinnerInv`); an observation is of a started experiment and matches its
assignment (`ObserveInv`). `StartInv` is what makes the code right: without it the
read-then-write of `started_at` would not be safe, and for `winner` the corresponding
fact is false, which is why `WinnerLostOnlyToReturn` has its exception. One lemma per
action, then seven theorems; `StartIsKept` (the start date never changes) and
`AssignmentIsSticky` (an entity keeps its variant) are stated only there.

**OutboxPublisherProofs.** `IncidentBeforePublish` needs what each place of a cycle
promises of its current row (`PlaceInv`), which holds although another cycle may be at
the same row: incidents, health samples and copies only grow. The bound on copies in
`PublishedBeforeMark` needs two counts. The cycles that run without the lock are at
most as many as the faults (`LockInv`). And the copies of a pending row together with
the cycles without the lock that have not just published it are at most the faults,
one more when the holder of the lock has published and is about to mark (`CopiesInv`);
once the row is consumed only cycles that have already listed it are left to count.

**RouterAndConsoleProofs, the console.** A view answers from several reads at several
times, and what it answers is compared with the moment it began. `CallsInv` says of each
call, at each of its steps, what its reads still mean: a listing holds the newest rows of
some moment since it began (`ListOK`); a read of a summary that is done, did not fail and
whose flag is clear has all that was there (`SummaryOK`); a digest has every decision
taken before it began while they fit its scan (`DigestOK`). This survives the steps of
others because rows and decisions are only added and marks only set (`Grown`,
`CallStays`). That a window of `n` newest or oldest rows leaves something out only when
it is full needs a count. The lemma `Ranks` maps each row of a finite set to the number
of rows up to it, a bijection onto an interval, so that the count takes no induction.
`ExtraDecisionsWereResent` counts rows and the calls about to commit one against what
was asked and sent again (`DecideInv`); `LostPatchNeedsOverlap` is inductive as it
stands, given the types. The three view properties are action properties: the step that
answers has the call's invariant at hand.

**RouterAndConsoleProofs, the router.** `attempts <= 1 + faults` is not inductive: nothing in it says
that a signal which can be claimed has had its faults. `PaidInv` says so, of every
signal without a live lease that a replica still works under, and of the one a replica
is about to release. `PlaceInv` is what a replica has written at its place, and gives
that a processed signal has both rows. `LeaseFencedFromOthers` is an action property,
and follows from the types and `BatchInv`.

**DurableConsumerProofs.** A copy of a message is named by its delivery number, and no
two copies have the same (`CopyInv`): that makes the copies wherever they wait a set of
numbers that can be counted without the inboxes being finite in number. `RunsPaid` bounds
completed runs and the copies that may still be run (`Open`) by the faults and one;
that one is gone once the message is to be delivered again. `QuietInv` is what
the code achieves before the first fault, one copy of each pending message, the last;
the claim that handlers failing alone strand nothing rests on it.

**LearningPromotionProofs.** `VersionNeedsApproval` needs that approval is there at
every place from the decision to promote on, and that the evaluation which takes an
approval back never clears `humanApproved` (`AllowedInv`). `ExtraVersionsNeedOverruns`
counts the handlers that are to create a version (`MakersInv`): before the first
version only those under a claim that ran out are counted, because the holder of the
live claim is the one that is allowed its version; after it, all are. `TokenInv`, one
handler to a token, makes that holder unique. `PromotedIsPublished` follows from the
bound: the version promoted and the one announced are both among those created, and
without an overrun that is one.

**WorkflowProvisioningProofs.** Each replica has at its place what it has written so
far (`TimelineInv`, `OutcomeInv`), on either path; outbox, resources and runtime
history only grow, so another replica cannot take it away. `RuntimeInv` ties what is
announced on the Restate path to the one outcome of the execution, hence no second
outcome there. On the direct path that needs `QuietInv`, one replica at a time before
the first fault.

**IntegrationsProofs.** The four parts share no state and each has its own invariant.
`ResourcesInv`: every resource of the calls behind a run is there (`Reached`), and what
changed under it since it looked is on record (`LookedInv`, `OverlapInv`); so a run
completes with everything and fails only with a cause. `VaultInv`: the cache is at most
one tick more confident than Vault (`CacheLife`), because it counts from when the answer
came, and a request with an aged message still has the ticks the rest of its way needs
(`CallerLife`); unless a token was revoked or a lease was short (`Excused`). A renewal
never brings the end of a token nearer, so an answer overtaken by a later one promises no
more than Vault keeps. `LogInv`: buffer, batches and table have no
row in common and none twice, and are the rows of the returned calls less those
dropped. `BeatInv`: rows and claims in hand of an issue are bounded by the moves, the
faults and whether it is claimed now (`ClaimsInv`), and before the first fault a claimed
issue has its row or its claimant (`KeptInv`).

Only model-checked:

- Every liveness property (`EveryRowConsumed`, `UnblockedRowConsumed`,
  `EverySignalProcessed`, `EveryMessageSettled`, `ApprovedIsDecided`,
  `RequestIsSettled`, `AcknowledgedOrDeadLettered`): they need fairness, which is beyond the
  prover.
- `RepositoryDoubles`: the answers in `DoublesAgree` are folds and sorts over sequences
  of rows, and what these compute for every input takes induction over data.

`AnswerFenced`, `DatesFollowStatus` and the type invariants are proved and not
model-checked any more.

## 5. Not modelled

- *Web application, migrations and seeding, telemetry, design system*: rendering,
  one-off tools and set-up without state that others depend on.
- *Critique rubric, healing decision*: pure functions over text and numbers;
  `decideHealingAction` has no caller, and the rubric's results are abstracted away
  with the scores of `ContentPipeline`.
- *Attribution and warmth workers*: one pure score and one enqueue behind the consumer
  that `DurableConsumer` models.
- *Unused client calls* (`getOrg`, `deleteOrg`, `recordEvent`, `deleteCustomer`,
  `createAgent`, `releaseIssue`, `wakeupAgent`, `emitRunStarted`), the environment
  secret manager, prompt templates, and the fallback of `/decide` without a shared
  transaction (`approvals.ts:237-245`), which serves test adapters.
- *Row-level security*: every repository call names its tenant; the modules check that
  tenants are kept apart only where code, not the database, decides it
  (`RepositoryDoubles`, `PaperclipHeartbeat`).
- Text, scores and prompts are abstracted to identities. A dispatched action whose
  callback never comes stays dispatched: the code has no timeout for it.

## 6. Plan

1. Composition of `OutboxPublisher` and `DurableConsumer`: what a producer may expect
   of an event from `enqueue` to `handled`, as an abstract delivery specification which
   `ContentPipeline` and `LearningPromotion` assume.
2. Overlapping calls on the in-memory repositories.
