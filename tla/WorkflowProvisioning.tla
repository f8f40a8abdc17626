------------------------- MODULE WorkflowProvisioning -------------------------
(***************************************************************************)
(* One tenant-provisioning workflow: the API route that requests it, the   *)
(* worker that carries it out or verifies it                               *)
(* (apps/worker-workflow-callback), and the callbacks with which the       *)
(* Restate runtime reports on it (apps/api/src/routes/workflows.ts).  The  *)
(* three meet in the workflow_runs row, moved only by compare-and-set, and *)
(* in the outbox, whose rows are unique by event type and idempotency key; *)
(* every call of a repository is a transaction of its own.                 *)
(*                                                                         *)
(* Deliveries of the requested event are at least once and at most         *)
(* MaxDeliver (DurableConsumer); a delivery may overlap an earlier one     *)
(* that has outlived its ack wait.  The runtime is external.               *)
(***************************************************************************)
EXTENDS Integers, FiniteSets

CONSTANTS
    Workers,        \* the replicas of the callback worker
    Callbacks,      \* the ids of the callbacks the runtime may send
    CallbackTypes,  \* the types the runtime sends among them
    StepCount,      \* provisioning steps of a run (seven in the code)
    MaxDeliver,     \* maxDeliver of the worker's consumer
    MaxFaults       \* crashes, database errors and overruns allowed

ASSUME ProvisioningAssumption ==
    /\ CallbackTypes \subseteq {"progress", "completed", "failed"}
    /\ "worker" \notin Callbacks
    /\ StepCount \in Nat \ {0}
    /\ MaxDeliver \in Nat \ {0}
    /\ MaxFaults \in Nat

VARIABLES
    path,         \* direct or restate: how the worker is deployed
    run,          \* the state of the workflow_runs row, none before there is one
    outbox,       \* the keys of the event_outbox rows of this workflow
    route,        \* the request handler: idle, or between its two writes
    runtime,      \* the Restate execution: its state and the steps in its history
    provisioned,  \* the steps carried out in the external systems
    worker,       \* of a replica: its place in the handler and its local values
    deliveries,   \* deliveries of the requested event so far
    delivery,     \* what became of that event: open, acked or dead_lettered
    callback,     \* of a callback: its place in the route and its local values
    faults        \* faults spent so far, at most MaxFaults

vars == <<path, run, outbox, route, runtime, provisioned, worker, deliveries,
          delivery, callback, faults>>

Steps == 1..StepCount

Terminal == {"completed", "failed"}

RunStates == {"none", "requested", "in_progress"} \cup Terminal

\* An outbox row: its event type, the callback id in its key and its step.
Row(event, id, step) == [event |-> event, id |-> id, step |-> step]
Requested == Row("requested", "worker", 0)

Rows ==
    [event : {"requested", "progress", "completed", "failed"},
     id : Callbacks \cup {"worker"}, step : 0..StepCount + 1]

\* n: which delivery the replica handles; history: the length of the runtime
\* history it was answered with; outcome: what it is about to announce.
Idle == [pc |-> "idle", n |-> 0, step |-> 1, history |-> 0, outcome |-> "in_progress"]

WorkerStates ==
    [pc : {"idle", "start", "begin", "report", "provision", "secrets",
           "query", "replay", "emit", "mark"},
     n : 0..MaxDeliver, step : 1..StepCount + 1, history : 0..StepCount,
     outcome : {"in_progress"} \cup Terminal]

\* cut: a crash of the API has cut the callback off after its state change.
Unsent == [pc |-> "idle", type |-> "unsent", prior |-> "requested", cut |-> FALSE]

CallbackStates ==
    [pc : {"idle", "cas", "progress", "terminal", "accepted", "conflict"},
     type : {"unsent"} \cup CallbackTypes,
     prior : RunStates \ {"none"},
     cut : BOOLEAN]

\* The run, the outbox, the worker's deliveries and the callbacks under way.
TypeOK ==
    /\ path \in {"direct", "restate"}
    /\ run \in RunStates
    /\ outbox \in SUBSET Rows
    /\ route \in {"idle", "recorded"}
    /\ runtime \in [state : {"absent", "in_progress"} \cup Terminal, step : 0..StepCount]
    /\ provisioned \in SUBSET Steps
    /\ worker \in [Workers -> WorkerStates]
    /\ deliveries \in 0..MaxDeliver
    /\ delivery \in {"open", "acked", "dead_lettered"}
    /\ callback \in [Callbacks -> CallbackStates]
    /\ faults \in 0..MaxFaults

Init ==
    /\ path \in {"direct", "restate"}
    /\ run = "none"
    /\ outbox = {}
    /\ route = "idle"
    /\ runtime = [state |-> "absent", step |-> 0]
    /\ provisioned = {}
    /\ worker = [w \in Workers |-> Idle]
    /\ deliveries = 0
    /\ delivery = "open"
    /\ callback = [c \in Callbacks |-> Unsent]
    /\ faults = 0

Enqueue(row) == outbox' = outbox \cup {row}

------------------------------------------------------------------------------
\* WorkflowRunRepository and the transition table

ALLOWED_TRANSITIONS ==
    [requested   |-> {"in_progress", "completed", "failed"},
     in_progress |-> {"in_progress", "completed", "failed"},
     completed   |-> {},
     failed      |-> {}]

\* upsertRequested: insert unless there is a row; UpsertedRun is what it returns.
UpsertedRun == IF run = "none" THEN "requested" ELSE run

\* transitionState: the row moves only from the expected, non-terminal state.
Moves(from) == run = from /\ run \notin Terminal

TransitionState(from, to) == run' = IF Moves(from) THEN to ELSE run

callbackTypeToState(type) == IF type = "progress" THEN "in_progress" ELSE type

------------------------------------------------------------------------------
\* POST /tenant-provisioning: two transactions, then a start that is not awaited

RecordRequest ==
    /\ route = "idle"
    /\ run' = UpsertedRun
    /\ route' = "recorded"
    /\ UNCHANGED <<path, outbox, runtime, provisioned, worker, deliveries, delivery, callback, faults>>

EnqueueRequest ==
    /\ route = "recorded"
    /\ Enqueue(Requested)
    /\ route' = "idle"
    /\ \/ runtime' = runtime
       \/ runtime.state = "absent" /\ runtime' = [runtime EXCEPT !.state = "in_progress"]
    /\ UNCHANGED <<path, run, provisioned, worker, deliveries, delivery, callback, faults>>

RequestCrashes ==
    /\ route = "recorded" /\ faults < MaxFaults
    /\ route' = "idle"
    /\ faults' = faults + 1
    /\ UNCHANGED <<path, run, outbox, runtime, provisioned, worker, deliveries, delivery, callback>>

\* The runtime executes its own steps; it may fail at any of them.
RuntimeStep ==
    /\ runtime.state = "in_progress"
    /\ \/ /\ runtime.step < StepCount
          /\ runtime' = [runtime EXCEPT !.step = @ + 1]
       \/ runtime.step = StepCount /\ runtime' = [runtime EXCEPT !.state = "completed"]
       \/ runtime' = [runtime EXCEPT !.state = "failed"]
    /\ UNCHANGED <<path, run, outbox, route, provisioned, worker, deliveries, delivery, callback, faults>>

------------------------------------------------------------------------------
\* The worker: processTenantProvisioningCompletion

Busy(w) == worker[w].pc # "idle"

\* JetStream delivers the event; while a replica is busy with it only because
\* that replica's ack wait has run out.
Deliver(w) ==
    /\ Requested \in outbox /\ delivery = "open"
    /\ deliveries < MaxDeliver
    /\ ~Busy(w)
    /\ IF \E v \in Workers : Busy(v)
         THEN faults < MaxFaults /\ faults' = faults + 1
         ELSE faults' = faults
    /\ deliveries' = deliveries + 1
    /\ worker' = [worker EXCEPT ![w] = [Idle EXCEPT !.pc = "start", !.n = deliveries + 1]]
    /\ UNCHANGED <<path, run, outbox, route, runtime, provisioned, delivery, callback>>

Goto(w, pc) == worker' = [worker EXCEPT ![w].pc = pc]

\* The handler returns and the consumer acknowledges the message.
Return(w) ==
    /\ worker' = [worker EXCEPT ![w] = Idle]
    /\ delivery' = IF delivery = "open" THEN "acked" ELSE delivery

\* Where the work begins, by deployment.
FirstPc == IF path = "direct" THEN "report" ELSE "query"

\* Mutant: a run found in requested is worked on without being moved.
StartUnmoved(w) ==
    /\ worker[w].pc = "start"
    /\ run' = UpsertedRun
    /\ \/ UpsertedRun \in Terminal /\ Return(w)
       \/ UpsertedRun \notin Terminal /\ Goto(w, FirstPc) /\ UNCHANGED delivery
    /\ UNCHANGED <<path, outbox, route, runtime, provisioned, deliveries, callback, faults>>

\* upsertRequested, and the early return for a run that is already terminal.
Start(w) ==
    /\ worker[w].pc = "start"
    /\ run' = UpsertedRun
    /\ \/ UpsertedRun \in Terminal /\ Return(w)
       \/ UpsertedRun = "requested" /\ Goto(w, "begin") /\ UNCHANGED delivery
       \/ UpsertedRun = "in_progress" /\ Goto(w, FirstPc) /\ UNCHANGED delivery
    /\ UNCHANGED <<path, outbox, route, runtime, provisioned, deliveries, callback, faults>>

\* requested -> in_progress; nobody looks at whether the row moved.
Begin(w) ==
    /\ worker[w].pc = "begin"
    /\ TransitionState("requested", "in_progress")
    /\ Goto(w, FirstPc)
    /\ UNCHANGED <<path, outbox, route, runtime, provisioned, deliveries, delivery, callback, faults>>

\* Direct path: the orchestrator reports a step before it carries it out, and
\* reports once more, at 100 percent, after the last.
Report(w) ==
    /\ worker[w].pc = "report"
    /\ Enqueue(Row("progress", "worker", worker[w].step))
    /\ Goto(w, IF worker[w].step <= StepCount THEN "provision" ELSE "secrets")
    /\ UNCHANGED <<path, run, route, runtime, provisioned, deliveries, delivery, callback, faults>>

\* Every step finds what an earlier run of it left and is idempotent.
Provision(w) ==
    /\ worker[w].pc = "provision"
    /\ provisioned' = provisioned \cup {worker[w].step}
    /\ worker' = [worker EXCEPT ![w].pc = "report", ![w].step = @ + 1]
    /\ UNCHANGED <<path, run, outbox, route, runtime, deliveries, delivery, callback, faults>>

\* tenantSecretsService.provisionTenant, the last call of the try block.
WriteSecrets(w) ==
    /\ worker[w].pc = "secrets"
    /\ worker' = [worker EXCEPT ![w].pc = "emit", ![w].outcome = "completed"]
    /\ UNCHANGED <<path, run, outbox, route, runtime, provisioned, deliveries, delivery, callback, faults>>

\* Mutant: a failed step is logged and skipped.
FailsSkipped(w) ==
    /\ worker[w].pc = "provision"
    /\ worker' = [worker EXCEPT ![w].pc = "report", ![w].step = @ + 1]
    /\ UNCHANGED <<path, run, outbox, route, runtime, provisioned, deliveries, delivery, callback, faults>>

\* The catch block: whatever a step, the secrets or a report throws (the write
\* of a report is inside the try block) becomes a terminal failure.
Fails(w) ==
    /\ worker[w].pc \in {"report", "provision", "secrets"}
    /\ worker' = [worker EXCEPT ![w].pc = "emit", ![w].outcome = "failed"]
    /\ UNCHANGED <<path, run, outbox, route, runtime, provisioned, deliveries, delivery, callback, faults>>

\* Restate path: the state and the history of the execution are read once ...
Query(w) ==
    /\ worker[w].pc = "query" /\ runtime.state # "absent"
    /\ worker' = [worker EXCEPT ![w].pc = "replay", ![w].history = runtime.step,
                                ![w].outcome = runtime.state]
    /\ UNCHANGED <<path, run, outbox, route, runtime, provisioned, deliveries, delivery, callback, faults>>

\* ... and the history is written to the outbox, an event at a time.
Replay(w) ==
    /\ worker[w].pc = "replay" /\ worker[w].step <= worker[w].history
    /\ Enqueue(Row("progress", "worker", worker[w].step))
    /\ worker' = [worker EXCEPT ![w].step = @ + 1]
    /\ UNCHANGED <<path, run, route, runtime, provisioned, deliveries, delivery, callback, faults>>

Replayed(w) ==
    /\ worker[w].pc = "replay" /\ worker[w].step > worker[w].history
    /\ worker[w].outcome \in Terminal
    /\ Goto(w, "emit")
    /\ UNCHANGED <<path, run, outbox, route, runtime, provisioned, deliveries, delivery, callback, faults>>

\* Both paths: announce the outcome, then record it; whether the row moved is
\* not looked at.
Emit(w) ==
    /\ worker[w].pc = "emit"
    /\ Enqueue(Row(worker[w].outcome, "worker", 0))
    /\ Goto(w, "mark")
    /\ UNCHANGED <<path, run, route, runtime, provisioned, deliveries, delivery, callback, faults>>

Mark(w) ==
    /\ worker[w].pc = "mark"
    /\ TransitionState("in_progress", worker[w].outcome)
    /\ Return(w)
    /\ UNCHANGED <<path, outbox, route, runtime, provisioned, deliveries, callback, faults>>

\* Mutant: the dead letter is due one delivery after the last.
ThrowPastLast(w) ==
    /\ worker' = [worker EXCEPT ![w] = Idle]
    /\ delivery' = IF worker[w].n > MaxDeliver /\ delivery = "open"
                     THEN "dead_lettered" ELSE delivery

\* The handler throws: the consumer asks for another delivery, or after the
\* last one records a dead letter.
Throw(w) ==
    /\ worker' = [worker EXCEPT ![w] = Idle]
    /\ delivery' = IF worker[w].n >= MaxDeliver /\ delivery = "open"
                     THEN "dead_lettered" ELSE delivery

\* The runtime does not know the execution, or it has not ended.
NotTerminal(w) ==
    /\ \/ worker[w].pc = "query" /\ runtime.state = "absent"
       \/ /\ worker[w].pc = "replay" /\ worker[w].step > worker[w].history
          /\ worker[w].outcome \notin Terminal
    /\ Throw(w)
    /\ UNCHANGED <<path, run, outbox, route, runtime, provisioned, deliveries, callback, faults>>

\* A write outside the try block, or the call of the runtime, fails.
DatabaseError(w) ==
    /\ worker[w].pc \in {"start", "begin", "query", "replay", "emit", "mark"}
    /\ faults < MaxFaults
    /\ faults' = faults + 1
    /\ Throw(w)
    /\ UNCHANGED <<path, run, outbox, route, runtime, provisioned, deliveries, callback>>

WorkerCrashes(w) ==
    /\ Busy(w) /\ faults < MaxFaults
    /\ faults' = faults + 1
    /\ worker' = [worker EXCEPT ![w] = Idle]
    /\ UNCHANGED <<path, run, outbox, route, runtime, provisioned, deliveries, delivery, callback>>

------------------------------------------------------------------------------
\* POST /runtime-callbacks/tenant-provisioning: four transactions

\* What the runtime may report now; a callback id keeps its type.
Sendable(c, type) ==
    /\ IF type = "progress" THEN runtime.state # "absent" ELSE runtime.state = type
    /\ callback[c].type \in {"unsent", type}

\* getByWorkflowId and validateWorkflowTransition.  A callback is sent again
\* after any answer, or none.
Receive(c) ==
    /\ callback[c].pc \in {"idle", "accepted", "conflict"}
    /\ \E type \in CallbackTypes :
         /\ Sendable(c, type)
         /\ callback' = [callback EXCEPT ![c].type = type, ![c].prior = UpsertedRun,
                ![c].pc = IF callbackTypeToState(type) \in ALLOWED_TRANSITIONS[UpsertedRun]
                            THEN "cas" ELSE "conflict"]
    /\ UNCHANGED <<path, run, outbox, route, runtime, provisioned, worker, deliveries, delivery, faults>>

\* A row that did not move is a conflict, except where it was not to move.
CompareAndSet(c) ==
    LET prior == callback[c].prior
        target == callbackTypeToState(callback[c].type)
    IN  /\ callback[c].pc = "cas"
        /\ TransitionState(prior, target)
        /\ callback' = [callback EXCEPT ![c].pc =
                IF ~Moves(prior) /\ prior # target THEN "conflict" ELSE "progress"]
        /\ UNCHANGED <<path, outbox, route, runtime, provisioned, worker, deliveries, delivery, faults>>

EnqueueProgress(c) ==
    /\ callback[c].pc = "progress"
    /\ Enqueue(Row("progress", c, 0))
    /\ callback' = [callback EXCEPT ![c].pc = "terminal"]
    /\ UNCHANGED <<path, run, route, runtime, provisioned, worker, deliveries, delivery, faults>>

\* The event "determined by callbackType": completed unless it is failed.
EnqueueTerminal(c) ==
    /\ callback[c].pc = "terminal"
    /\ Enqueue(Row(IF callback[c].type = "failed" THEN "failed" ELSE "completed", c, 0))
    /\ callback' = [callback EXCEPT ![c].pc = "accepted"]
    /\ UNCHANGED <<path, run, route, runtime, provisioned, worker, deliveries, delivery, faults>>

CallbackCrashes(c) ==
    /\ callback[c].pc \in {"cas", "progress", "terminal"} /\ faults < MaxFaults
    /\ faults' = faults + 1
    /\ callback' = [callback EXCEPT ![c].pc = "idle",
                                    ![c].cut = @ \/ callback[c].pc # "cas"]
    /\ UNCHANGED <<path, run, outbox, route, runtime, provisioned, worker, deliveries, delivery>>

\* POST /runtime-callbacks/tenant-provisioning/progress: one event, no state.
ReportProgress(c) ==
    /\ "progress" \in CallbackTypes /\ Sendable(c, "progress")
    /\ Enqueue(Row("progress", c, 0))
    /\ UNCHANGED <<path, run, route, runtime, provisioned, worker, deliveries, delivery, callback, faults>>

------------------------------------------------------------------------------
Handle(w) ==
    \/ Start(w) \/ Begin(w) \/ Report(w) \/ Provision(w) \/ WriteSecrets(w) \/ Fails(w)
    \/ Query(w) \/ Replay(w) \/ Replayed(w) \/ Emit(w) \/ Mark(w) \/ NotTerminal(w)

CallbackStep(c) == CompareAndSet(c) \/ EnqueueProgress(c) \/ EnqueueTerminal(c)

Next ==
    \/ RecordRequest \/ EnqueueRequest \/ RequestCrashes \/ RuntimeStep
    \/ \E w \in Workers :
         Deliver(w) \/ Handle(w) \/ DatabaseError(w) \/ WorkerCrashes(w)
    \/ \E c \in Callbacks :
         Receive(c) \/ CallbackStep(c) \/ CallbackCrashes(c) \/ ReportProgress(c)

Spec == Init /\ [][Next]_vars

\* A started handler and a started request go on, and JetStream delivers what
\* is not acknowledged.  Nothing makes anyone ask for a provisioning, and the
\* runtime owes neither progress nor callbacks.
Fairness ==
    /\ WF_vars(EnqueueRequest)
    /\ WF_vars(\E w \in Workers : Deliver(w))
    /\ \A w \in Workers : WF_vars(Handle(w))
    /\ \A c \in Callbacks : WF_vars(CallbackStep(c))

FairSpec == Spec /\ Fairness

------------------------------------------------------------------------------
\* Properties

Announced(outcome) == \E id \in Callbacks \cup {"worker"} : Row(outcome, id, 0) \in outbox

\* The worker announces a completed provisioning only when the timeline is in
\* the outbox and the work is done: every step carried out on the direct path,
\* a completed execution on the Restate path, whatever earlier deliveries did
\* or left undone (workflow-callback-worker.ts, processTenantProvisioningCompletion).
CompletedIsEarned ==
    Row("completed", "worker", 0) \in outbox =>
        /\ \A s \in Steps : Row("progress", "worker", s) \in outbox
        /\ IF path = "direct" THEN provisioned = Steps ELSE runtime.state = "completed"

\* The message is acknowledged only once the run is terminal: the worker never
\* drops a request with its run left open, although it ignores whether its
\* transitions moved the row.
AckedMeansTerminal == delivery = "acked" => run \in Terminal

\* A terminal run has been announced, or the callback that moved it is about to
\* announce it or was cut off by a crash: the worker, which writes the event
\* first, never leaves a terminal run unannounced wherever it stops.
TerminalRunAnnounced ==
    run \in Terminal =>
        \/ Announced(run)
        \/ \E c \in Callbacks :
             /\ callback[c].type = run
             /\ callback[c].pc \in {"progress", "terminal"} \/ callback[c].cut

\* Without an overlap, an error or a crash the worker announces one outcome; on
\* the Restate path it announces one whatever happens, since the execution it
\* reads has ended.
SecondOutcomeNeedsFault ==
    {Row("completed", "worker", 0), Row("failed", "worker", 0)} \subseteq outbox =>
        path = "direct" /\ faults > 0

\* What the worker announces was done, and a second outcome is the price of a fault.
OutcomeIsEarned == CompletedIsEarned /\ SecondOutcomeNeedsFault

\* An acknowledged request has a terminal run, and a terminal run its announcement.
AckedIsAnnounced == AckedMeansTerminal /\ TerminalRunAnnounced

\* Every request whose event is in the outbox leads to a terminal run or a dead
\* letter, or was lost to a fault on its last delivery.
Stranded ==
    /\ deliveries = MaxDeliver /\ delivery = "open"
    /\ \A w \in Workers : ~Busy(w)
RequestIsSettled ==
    Requested \in outbox ~>
        (run \in Terminal \/ delivery = "dead_lettered" \/ (Stranded /\ faults > 0))

==============================================================================
