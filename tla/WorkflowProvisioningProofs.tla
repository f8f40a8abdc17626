--------------------- MODULE WorkflowProvisioningProofs ---------------------
(***************************************************************************)
(* The properties of WorkflowProvisioning, for any number of replicas,     *)
(* callbacks, steps, deliveries and faults.  The invariant says of each    *)
(* replica what the outbox, the external systems and the runtime hold at   *)
(* its place in the handler; all of that only grows, so no step of another *)
(* replica, of the runtime or of a callback can take it away.              *)
(***************************************************************************)
EXTENDS WorkflowProvisioning, TLAPS

Begun == {"report", "provision", "secrets", "query", "replay", "emit", "mark"}

\* The worker's own announcement of an outcome is in the outbox.
Told(outcome) == Row(outcome, "worker", 0) \in outbox

Reported(s) == Row("progress", "worker", s) \in outbox

\* The work a completed provisioning stands for.
Earned ==
    /\ \A s \in Steps : Reported(s)
    /\ IF path = "direct" THEN provisioned = Steps ELSE runtime.state = "completed"

\* The row has been created, and later moved on, before the work starts.
RunInv(w) ==
    /\ worker[w].pc = "begin" => run # "none"
    /\ worker[w].pc \in Begun => run \notin {"none", "requested"}

\* The direct path's places and the Restate path's, and what has been written there.
TimelineInv(w) ==
    LET pc == worker[w].pc
        step == worker[w].step
        direct == pc \in {"report", "provision", "secrets"}
    IN  /\ direct => path = "direct" /\ \A s \in Steps : s < step => s \in provisioned
        /\ pc \in {"query", "replay"} => path = "restate"
        /\ direct \/ pc = "replay" => \A s \in Steps : s < step => Reported(s)
        /\ pc \in {"start", "begin", "query"} => step = 1
        /\ pc = "provision" => step <= StepCount /\ Reported(step)
        /\ pc = "secrets" => step > StepCount

\* The outcome in a replica's hands is the runtime's or its own, and is earned.
OutcomeInv(w) ==
    LET pc == worker[w].pc
        outcome == worker[w].outcome
    IN  /\ pc \in {"emit", "mark"} => outcome \in Terminal
        /\ pc = "mark" => Told(outcome)
        /\ pc \in {"emit", "mark"} /\ outcome = "completed" => Earned
        /\ pc = "replay" /\ outcome = "completed" => worker[w].history = StepCount
        /\ path = "restate" /\ pc \in {"replay", "emit", "mark"} /\ outcome \in Terminal =>
              outcome = runtime.state

WorkerInv(w) == RunInv(w) /\ TimelineInv(w) /\ OutcomeInv(w)

\* A completed execution has all of its history, and the worker announces on the
\* Restate path only what the execution ended with.
RuntimeInv ==
    /\ runtime.state = "completed" => runtime.step = StepCount
    /\ path = "restate" => \A o \in Terminal : Told(o) => runtime.state = o

\* Before the first fault one replica at a time handles the event, until it is settled;
\* what that replica has announced it goes on to record.
QuietInv ==
    faults = 0 =>
        /\ \A v, w \in Workers : Busy(v) /\ Busy(w) => v = w
        /\ delivery # "open" => \A w \in Workers : ~Busy(w)
        /\ \A o \in Terminal : Told(o) =>
              \/ delivery # "open"
              \/ \E w \in Workers : worker[w].pc = "mark" /\ worker[w].outcome = o

\* A callback on its way has a type.
CallbackInv == \A c \in Callbacks : callback[c].pc # "idle" => callback[c].type # "unsent"

IInv ==
    /\ TypeOK
    /\ \A w \in Workers : WorkerInv(w)
    /\ RuntimeInv /\ QuietInv /\ CallbackInv
    /\ OutcomeIsEarned /\ AckedIsAnnounced

-----------------------------------------------------------------------------
\* Outbox rows are told apart by type, callback id and step.
LEMMA RowIsKey ==
    /\ \A e, i, s, e2, i2, s2 :
          Row(e, i, s) = Row(e2, i2, s2) <=> e = e2 /\ i = i2 /\ s = s2
    /\ \A e \in {"requested", "progress", "completed", "failed"},
          i \in Callbacks \cup {"worker"}, s \in 0..StepCount + 1 : Row(e, i, s) \in Rows
  BY DEF Row, Rows

\* What no step takes back: rows of the outbox, provisioned steps, the run's progress
\* and the end of an execution.
Grows ==
    /\ path' = path
    /\ outbox \subseteq outbox' /\ provisioned \subseteq provisioned'
    /\ run # "none" => run' # "none"
    /\ run \notin {"none", "requested"} => run' \notin {"none", "requested"}
    /\ run \in Terminal => run' = run
    /\ runtime.state \in Terminal => runtime' = runtime

\* Earned work stays earned.
LEMMA EarnedStays ==
    ASSUME TypeOK, TypeOK', Grows, Earned
    PROVE  Earned'
<1>1. \A s \in Steps : Reported(s)'
  BY DEF Grows, Earned, Reported
<1>2. path = "direct" => provisioned' = Steps
  BY DEF TypeOK, Grows, Earned
<1>3. path # "direct" => runtime'.state = "completed"
  BY DEF Grows, Earned, Terminal
<1> QED BY <1>1, <1>2, <1>3 DEF Earned, Grows

\* What is known of a replica survives the steps of everyone else.
LEMMA OthersKeep ==
    ASSUME TypeOK, TypeOK', Grows, NEW v \in Workers, WorkerInv(v), worker'[v] = worker[v]
    PROVE  WorkerInv(v)'
<1>1. RunInv(v)'
  BY DEF WorkerInv, RunInv, Grows
<1>2. TimelineInv(v)'
  BY DEF WorkerInv, TimelineInv, Grows, Reported
<1>3. OutcomeInv(v)'
  BY EarnedStays DEF WorkerInv, OutcomeInv, Grows, Told, Terminal
<1> QED BY <1>1, <1>2, <1>3 DEF WorkerInv

\* A step of the replica that has the event, before the first fault: it stays alone,
\* and what it announces it has still to record.
LEMMA QuietStep ==
    ASSUME TypeOK, QuietInv, NEW w \in Workers, Busy(w),
           \A v \in Workers : v # w => worker'[v] = worker[v],
           faults' = 0 => faults = 0,
           \/ delivery' = delivery
           \/ delivery' # "open" /\ ~Busy(w)',
           \A o \in Terminal : Told(o)' =>
              \/ Told(o) /\ (worker[w].pc # "mark" \/ delivery' # "open")
              \/ worker'[w].pc = "mark" /\ worker'[w].outcome = o
    PROVE  QuietInv'
<1> SUFFICES ASSUME faults' = 0
             PROVE  /\ \A v, u \in Workers : Busy(v)' /\ Busy(u)' => v = u
                    /\ delivery' # "open" => \A v \in Workers : ~Busy(v)'
                    /\ \A o \in Terminal : Told(o)' =>
                          \/ delivery' # "open"
                          \/ \E v \in Workers : /\ worker'[v].pc = "mark"
                                                /\ worker'[v].outcome = o
  BY DEF QuietInv
<1>1. \A v \in Workers : v # w => ~Busy(v) /\ ~Busy(v)'
  BY DEF QuietInv, Busy
<1>2. delivery = "open"
  BY DEF QuietInv
<1>3. ASSUME NEW o \in Terminal, Told(o), worker[w].pc # "mark" PROVE FALSE
  BY <1>1, <1>2, <1>3 DEF QuietInv, Busy
<1> QED BY <1>1, <1>2, <1>3

\* A step of anyone else leaves the replicas and what they have announced alone.
LEMMA QuietElsewhere ==
    ASSUME QuietInv, UNCHANGED <<worker, delivery>>, faults' = 0 => faults = 0,
           \A o \in Terminal : Told(o)' => Told(o)
    PROVE  QuietInv'
  BY DEF QuietInv, Busy

\* An announcement is new only from a replica that has earned it, and then the first
\* one, unless there has been a fault.
LEMMA EarnedStep ==
    ASSUME TypeOK, TypeOK', Grows, OutcomeIsEarned, faults <= faults',
           Told("completed")' => Told("completed") \/ Earned',
           Told("completed")' /\ Told("failed")' =>
              \/ Told("completed") /\ Told("failed")
              \/ path = "direct" /\ faults > 0
    PROVE  OutcomeIsEarned'
<1>1. Told("completed") => Earned
  BY DEF OutcomeIsEarned, CompletedIsEarned, Told, Earned, Reported
<1>2. CompletedIsEarned'
  BY <1>1, EarnedStays DEF CompletedIsEarned, Told, Earned, Reported
<1>3. SecondOutcomeNeedsFault'
  BY DEF OutcomeIsEarned, SecondOutcomeNeedsFault, Told, TypeOK, Grows
<1> QED BY <1>2, <1>3 DEF OutcomeIsEarned

\* A step that leaves the callbacks alone announces the run it ends, and acknowledges
\* the event of an ended run only.
LEMMA AnnouncedStep ==
    ASSUME Grows, AckedIsAnnounced, callback' = callback,
           delivery' = "acked" => delivery = "acked" \/ run' \in Terminal,
           \A o \in Terminal : run' = o => run = o \/ Announced(o)'
    PROVE  AckedIsAnnounced'
<1>1. AckedMeansTerminal'
  BY DEF Grows, AckedIsAnnounced, AckedMeansTerminal
<1>2. ASSUME NEW o \in Terminal, run' = o, run = o
      PROVE  \/ Announced(o)'
             \/ \E c \in Callbacks :
                  /\ callback'[c].type = o
                  /\ callback'[c].pc \in {"progress", "terminal"} \/ callback'[c].cut
  BY <1>2 DEF Grows, AckedIsAnnounced, TerminalRunAnnounced, Announced
<1>3. TerminalRunAnnounced'
  BY <1>2 DEF TerminalRunAnnounced, Announced
<1> QED BY <1>1, <1>3 DEF AckedIsAnnounced

\* The initial states satisfy the invariant.
LEMMA InitInv == Init => IInv
<1> SUFFICES ASSUME Init PROVE IInv
  OBVIOUS
<1> USE ProvisioningAssumption DEF Init
<1>1. TypeOK
  BY DEF TypeOK, RunStates, WorkerStates, CallbackStates, Idle, Unsent, Terminal
<1>2. \A w \in Workers : WorkerInv(w)
  BY DEF WorkerInv, RunInv, TimelineInv, OutcomeInv, Idle, Begun
<1>3. RuntimeInv /\ QuietInv /\ CallbackInv
  BY DEF RuntimeInv, QuietInv, CallbackInv, Told, Busy, Idle, Unsent
<1>4. OutcomeIsEarned /\ AckedIsAnnounced
  BY DEF OutcomeIsEarned, CompletedIsEarned, SecondOutcomeNeedsFault, AckedIsAnnounced,
         AckedMeansTerminal, TerminalRunAnnounced, Terminal
<1> QED BY <1>1, <1>2, <1>3, <1>4 DEF IInv

-----------------------------------------------------------------------------
\* A step of the handler that announces nothing and settles nothing.
LEMMA WorkStep ==
    ASSUME IInv, TypeOK', NEW w \in Workers, Busy(w), worker[w].pc # "mark",
           \A v \in Workers : v # w => worker'[v] = worker[v],
           WorkerInv(w)', Grows, run' \in Terminal => run' = run,
           UNCHANGED <<runtime, delivery, callback, faults>>,
           \A o \in Terminal : Told(o)' => Told(o)
    PROVE  IInv'
<1>1. \A v \in Workers : WorkerInv(v)'
  BY OthersKeep DEF IInv
<1>2. RuntimeInv' /\ CallbackInv'
  BY DEF IInv, RuntimeInv, CallbackInv, Grows
<1>3. QuietInv'
  BY QuietStep DEF IInv
<1>4. OutcomeIsEarned'
  BY EarnedStep DEF IInv, Terminal, TypeOK
<1>5. AckedIsAnnounced'
  BY AnnouncedStep DEF IInv, AckedIsAnnounced, AckedMeansTerminal, Grows
<1> QED BY <1>1, <1>2, <1>3, <1>4, <1>5 DEF IInv

\* What TypeOK says of a replica's local values.
LEMMA WorkerTypes ==
    ASSUME TypeOK, NEW w \in Workers
    PROVE  /\ worker[w] \in WorkerStates
           /\ worker[w].step \in 1..StepCount + 1 /\ worker[w].step \in Int
           /\ worker[w].history \in 0..StepCount /\ worker[w].history \in Int
           /\ worker[w].outcome \in {"in_progress", "completed", "failed"}
           /\ worker[w].n \in 0..MaxDeliver
  BY ProvisioningAssumption DEF TypeOK, WorkerStates, Terminal

\* upsertRequested finds or creates the run; a terminal one ends the handler, which is
\* acknowledged.
LEMMA StartInv ==
    ASSUME IInv, NEW w \in Workers, Start(w)
    PROVE  IInv'
<1> USE ProvisioningAssumption DEF Start
<1>1. /\ TypeOK /\ Busy(w) /\ worker[w].pc # "mark"
      /\ \A v \in Workers : v # w => worker'[v] = worker[v]
  BY DEF IInv, TypeOK, Busy, Return, Goto
<1>2. Grows /\ run' # "none" /\ run' = UpsertedRun /\ run' \in RunStates
  BY <1>1 DEF Grows, UpsertedRun, Terminal, TypeOK, RunStates
<1>3. \A o \in Terminal : Told(o)' => Told(o)
  BY DEF Told
<1>4. TypeOK'
  BY <1>1, <1>2 DEF TypeOK, WorkerStates, Return, Goto, FirstPc, Idle, Terminal
<1>5. worker[w].step \in Int
  BY <1>1, WorkerTypes
<1>6. CASE UpsertedRun \in Terminal
  <2>1. run' = run /\ run \in Terminal
    BY <1>6 DEF UpsertedRun, Terminal
  <2>2. Return(w)
    BY <1>6 DEF Terminal
  <2>3. ~Busy(w)' /\ delivery' # "open" /\ worker'[w] = Idle
    BY <1>1, <2>2 DEF Return, Busy, Idle, TypeOK
  <2>4. WorkerInv(w)'
    BY <2>3 DEF WorkerInv, RunInv, TimelineInv, OutcomeInv, Idle, Begun
  <2>5. \A v \in Workers : WorkerInv(v)'
    BY <1>1, <1>2, <1>4, <2>4, OthersKeep DEF IInv
  <2>6. QuietInv'
    BY <1>1, <1>3, <2>3, QuietStep DEF IInv
  <2>7. OutcomeIsEarned'
    BY <1>1, <1>2, <1>3, <1>4, EarnedStep DEF IInv, Terminal, TypeOK
  <2>8. AckedIsAnnounced'
    BY <1>2, <2>1, AnnouncedStep DEF IInv
  <2>9. RuntimeInv' /\ CallbackInv'
    BY <1>2, <1>3 DEF IInv, RuntimeInv, CallbackInv
  <2> QED BY <1>4, <2>5, <2>6, <2>7, <2>8, <2>9 DEF IInv
<1>7. CASE UpsertedRun \notin Terminal
  <2>1. /\ delivery' = delivery /\ run' \notin Terminal
        /\ worker'[w] = [worker[w] EXCEPT
                            !.pc = IF run' = "requested" THEN "begin" ELSE FirstPc]
        /\ run' \in {"requested", "in_progress"}
    BY <1>1, <1>2, <1>7 DEF Goto, TypeOK, Terminal
  <2>2. worker'[w].step = 1 /\ worker'[w].pc \in {"begin", FirstPc} /\ path' = path
    BY <1>1, <2>1 DEF IInv, WorkerInv, TimelineInv, TypeOK, WorkerStates
  <2>3. worker'[w].pc = "begin" => run' = "requested"
    BY <1>1, <2>1 DEF FirstPc, TypeOK, WorkerStates
  <2>4. worker'[w].pc # "begin" => run' = "in_progress"
    BY <1>1, <2>1 DEF TypeOK, WorkerStates
  <2>5. WorkerInv(w)'
    BY <1>1, <2>2, <2>3, <2>4
    DEF WorkerInv, RunInv, TimelineInv, OutcomeInv, Begun, FirstPc, TypeOK, Steps
  <2> QED BY <1>1, <1>2, <1>3, <1>4, <2>1, <2>5, WorkStep
<1> QED BY <1>6, <1>7

\* requested becomes in_progress, unless a callback has moved the run on already.
LEMMA BeginInv ==
    ASSUME IInv, NEW w \in Workers, Begin(w)
    PROVE  IInv'
<1> USE ProvisioningAssumption DEF Begin, Goto
<1>1. /\ TypeOK /\ Busy(w) /\ WorkerInv(w)
      /\ \A v \in Workers : v # w => worker'[v] = worker[v]
      /\ worker'[w] = [worker[w] EXCEPT !.pc = FirstPc]
  BY DEF IInv, TypeOK, Busy
<1>2. Grows /\ run' \notin {"none", "requested"} /\ run' \in RunStates
  BY <1>1 DEF Grows, TransitionState, Moves, Terminal, TypeOK, RunStates, WorkerInv, RunInv
<1>3. run' \in Terminal => run' = run
  BY DEF TransitionState, Moves, Terminal
<1>4. TypeOK'
  BY <1>1, <1>2 DEF TypeOK, WorkerStates, FirstPc, Terminal
<1>5. worker'[w].pc = FirstPc /\ worker'[w].step = 1 /\ path' = path
  BY <1>1 DEF TypeOK, WorkerStates, WorkerInv, TimelineInv
<1>6. WorkerInv(w)'
  BY <1>1, <1>2, <1>5
  DEF WorkerInv, RunInv, TimelineInv, OutcomeInv, Begun, FirstPc, TypeOK, Steps
<1>7. \A o \in Terminal : Told(o)' => Told(o)
  BY DEF Told
<1> QED BY <1>1, <1>2, <1>3, <1>4, <1>6, <1>7, WorkStep

\* The report of a step is in the outbox before the step is carried out.
LEMMA ReportInv ==
    ASSUME IInv, NEW w \in Workers, Report(w)
    PROVE  IInv'
<1> USE ProvisioningAssumption DEF Report, Goto, Enqueue
<1>1. /\ TypeOK /\ Busy(w) /\ WorkerInv(w)
      /\ \A v \in Workers : v # w => worker'[v] = worker[v]
      /\ worker'[w] = [worker[w] EXCEPT !.pc =
                          IF worker[w].step <= StepCount THEN "provision" ELSE "secrets"]
  BY DEF IInv, TypeOK, Busy
<1>2. Grows
  BY DEF Grows
<1>3. worker[w].step \in 1..StepCount + 1 /\ worker[w].step \in Int
  BY <1>1, WorkerTypes
<1>4. TypeOK'
  <2>1. Row("progress", "worker", worker[w].step) \in Rows
    BY <1>3, RowIsKey
  <2> QED BY <1>1, <2>1 DEF TypeOK, WorkerStates
<1>5. /\ worker'[w].step = worker[w].step /\ worker'[w].outcome = worker[w].outcome
      /\ worker'[w].pc = IF worker[w].step <= StepCount THEN "provision" ELSE "secrets"
  BY <1>1 DEF TypeOK, WorkerStates
<1>6. RunInv(w)' /\ OutcomeInv(w)'
  BY <1>1, <1>5 DEF WorkerInv, RunInv, OutcomeInv, Begun
<1>7. TimelineInv(w)'
  <2>1. Reported(worker[w].step)'
    BY DEF Reported
  <2>2. \A s \in Steps : Reported(s) => Reported(s)'
    BY DEF Reported
  <2> QED BY <1>1, <1>3, <1>5, <2>1, <2>2 DEF WorkerInv, TimelineInv
<1>8. \A o \in Terminal : Told(o)' => Told(o)
  BY RowIsKey DEF Told, Terminal
<1> QED BY <1>1, <1>2, <1>4, <1>6, <1>7, <1>8, WorkStep DEF WorkerInv

\* A step that is carried out has been reported.
LEMMA ProvisionInv ==
    ASSUME IInv, NEW w \in Workers, Provision(w)
    PROVE  IInv'
<1> USE ProvisioningAssumption DEF Provision
<1>1. /\ TypeOK /\ Busy(w) /\ WorkerInv(w)
      /\ \A v \in Workers : v # w => worker'[v] = worker[v]
  BY DEF IInv, TypeOK, Busy
<1>2. Grows
  BY DEF Grows
<1>3. worker[w].step \in Steps /\ worker[w].step \in Int
  BY <1>1, WorkerTypes DEF WorkerInv, TimelineInv, Steps
<1>4. /\ worker'[w].step = worker[w].step + 1 /\ worker'[w].outcome = worker[w].outcome
      /\ worker'[w].pc = "report"
  BY <1>1 DEF TypeOK, WorkerStates
<1>5. TypeOK'
  BY <1>1, <1>3 DEF TypeOK, WorkerStates, Steps
<1>6. RunInv(w)' /\ OutcomeInv(w)'
  BY <1>1, <1>4 DEF WorkerInv, RunInv, OutcomeInv, Begun
<1>7. TimelineInv(w)'
  <2>1. worker[w].step \in provisioned' /\ Reported(worker[w].step)
    BY <1>1 DEF WorkerInv, TimelineInv
  <2>2. \A s \in Steps : s < worker[w].step + 1 => s < worker[w].step \/ s = worker[w].step
    BY <1>3 DEF Steps
  <2>3. \A s \in Steps : Reported(s)' <=> Reported(s)
    BY DEF Reported
  <2> QED BY <1>1, <1>4, <2>1, <2>2, <2>3 DEF WorkerInv, TimelineInv
<1>8. \A o \in Terminal : Told(o)' => Told(o)
  BY DEF Told
<1> QED BY <1>1, <1>2, <1>5, <1>6, <1>7, <1>8, WorkStep DEF WorkerInv

\* The secrets come after the last step, so the outcome completed is earned; the catch
\* block makes it failed.
LEMMA DirectOutcomeInv ==
    ASSUME IInv, NEW w \in Workers, WriteSecrets(w) \/ Fails(w)
    PROVE  IInv'
<1> USE ProvisioningAssumption DEF WriteSecrets, Fails
<1>1. /\ TypeOK /\ Busy(w) /\ WorkerInv(w)
      /\ \A v \in Workers : v # w => worker'[v] = worker[v]
      /\ worker[w].pc \in {"report", "provision", "secrets"}
      /\ UNCHANGED <<path, run, outbox, runtime, provisioned, delivery, callback, faults>>
  BY DEF IInv, TypeOK, Busy
<1>2. Grows
  BY <1>1 DEF Grows
<1>3. /\ worker'[w].pc = "emit"
      /\ worker'[w].outcome \in Terminal
      /\ worker'[w].outcome = "completed" => worker[w].pc = "secrets"
  BY <1>1 DEF TypeOK, WorkerStates, Terminal
<1>4. TypeOK'
  BY <1>1 DEF TypeOK, WorkerStates, Terminal
<1>5. ASSUME worker[w].pc = "secrets" PROVE Earned'
  <2>1. \A s \in Steps : s < worker[w].step
    BY <1>1, <1>5, WorkerTypes DEF WorkerInv, TimelineInv, Steps
  <2>2. path = "direct" /\ \A s \in Steps : s \in provisioned /\ Reported(s)
    BY <1>1, <1>5, <2>1 DEF WorkerInv, TimelineInv
  <2>3. provisioned = Steps
    BY <1>1, <2>2 DEF TypeOK
  <2> QED BY <1>1, <2>2, <2>3 DEF Earned, Reported
<1>6. WorkerInv(w)'
  BY <1>1, <1>3, <1>5 DEF WorkerInv, RunInv, TimelineInv, OutcomeInv, Begun
<1>7. \A o \in Terminal : Told(o)' => Told(o)
  BY <1>1 DEF Told
<1> QED BY <1>1, <1>2, <1>4, <1>6, <1>7, WorkStep

\* The answer of the runtime: an outcome that has ended keeps its state and history.
LEMMA QueryInv ==
    ASSUME IInv, NEW w \in Workers, Query(w)
    PROVE  IInv'
<1> USE ProvisioningAssumption DEF Query
<1>1. /\ TypeOK /\ Busy(w) /\ WorkerInv(w) /\ RuntimeInv
      /\ \A v \in Workers : v # w => worker'[v] = worker[v]
  BY DEF IInv, TypeOK, Busy
<1>2. Grows
  BY DEF Grows
<1>3. runtime.state \in {"in_progress"} \cup Terminal /\ runtime.step \in 0..StepCount
  BY <1>1 DEF TypeOK
<1>4. /\ worker'[w].pc = "replay" /\ worker'[w].step = worker[w].step
      /\ worker'[w].history = runtime.step /\ worker'[w].outcome = runtime.state
  BY <1>1 DEF TypeOK, WorkerStates
<1>5. TypeOK'
  <2>1. [worker[w] EXCEPT !.pc = "replay", !.history = runtime.step,
                          !.outcome = runtime.state] \in WorkerStates
    BY <1>1, <1>3, WorkerTypes, ZenonT(40) DEF WorkerStates
  <2> QED BY <1>1, <2>1 DEF TypeOK
<1>6. RunInv(w)' /\ OutcomeInv(w)'
  BY <1>1, <1>4 DEF WorkerInv, RunInv, OutcomeInv, Begun, RuntimeInv
<1>7. TimelineInv(w)'
  <2>1. worker'[w].step = 1 /\ path' = "restate"
    BY <1>1, <1>4 DEF WorkerInv, TimelineInv
  <2>2. \A s \in Steps : ~(s < worker'[w].step)
    BY <2>1 DEF Steps
  <2> QED BY <1>4, <2>1, <2>2 DEF TimelineInv
<1>8. \A o \in Terminal : Told(o)' => Told(o)
  BY DEF Told
<1> QED BY <1>1, <1>2, <1>5, <1>6, <1>7, <1>8, WorkStep DEF WorkerInv

\* The history is written in order.
LEMMA ReplayInv ==
    ASSUME IInv, NEW w \in Workers, Replay(w)
    PROVE  IInv'
<1> USE ProvisioningAssumption DEF Replay, Enqueue
<1>1. /\ TypeOK /\ Busy(w) /\ WorkerInv(w)
      /\ \A v \in Workers : v # w => worker'[v] = worker[v]
  BY DEF IInv, TypeOK, Busy
<1>2. Grows
  BY DEF Grows
<1>3. worker[w].step \in 1..StepCount /\ worker[w].step \in Int
  BY <1>1, WorkerTypes
<1>4. /\ worker'[w].pc = "replay" /\ worker'[w].step = worker[w].step + 1
      /\ worker'[w].history = worker[w].history /\ worker'[w].outcome = worker[w].outcome
  BY <1>1 DEF TypeOK, WorkerStates
<1>5. TypeOK'
  <2>1. Row("progress", "worker", worker[w].step) \in Rows
    BY <1>3, RowIsKey
  <2> QED BY <1>1, <1>3, <2>1 DEF TypeOK, WorkerStates
<1>6. RunInv(w)' /\ OutcomeInv(w)'
  BY <1>1, <1>4 DEF WorkerInv, RunInv, OutcomeInv, Begun
<1>7. TimelineInv(w)'
  <2>1. PICK k \in Steps : k = worker[w].step /\ Reported(k)'
    BY <1>3 DEF Reported, Steps
  <2>2. \A s \in Steps : s < worker[w].step + 1 => s < worker[w].step \/ s = k
    BY <1>3, <2>1 DEF Steps
  <2>3. \A s \in Steps : Reported(s) => Reported(s)'
    BY DEF Reported
  <2> QED BY <1>1, <1>4, <2>1, <2>2, <2>3 DEF WorkerInv, TimelineInv
<1>8. \A o \in Terminal : Told(o)' => Told(o)
  BY RowIsKey DEF Told, Terminal
<1> QED BY <1>1, <1>2, <1>5, <1>6, <1>7, <1>8, WorkStep DEF WorkerInv

\* A completed execution's whole history has been written by now.
LEMMA ReplayedInv ==
    ASSUME IInv, NEW w \in Workers, Replayed(w)
    PROVE  IInv'
<1> USE ProvisioningAssumption DEF Replayed, Goto
<1>1. /\ TypeOK /\ Busy(w) /\ WorkerInv(w)
      /\ \A v \in Workers : v # w => worker'[v] = worker[v]
  BY DEF IInv, TypeOK, Busy
<1>2. Grows
  BY DEF Grows
<1>3. worker'[w].pc = "emit" /\ worker'[w].outcome = worker[w].outcome
  BY <1>1 DEF TypeOK, WorkerStates
<1>4. TypeOK'
  BY <1>1 DEF TypeOK, WorkerStates
<1>5. ASSUME worker[w].outcome = "completed" PROVE Earned'
  <2>1. \A s \in Steps : s < worker[w].step
    BY <1>1, <1>5, WorkerTypes DEF WorkerInv, OutcomeInv, Steps
  <2>2. path = "restate" /\ \A s \in Steps : Reported(s)
    BY <1>1, <2>1 DEF WorkerInv, TimelineInv
  <2>3. runtime.state = "completed"
    BY <1>1, <1>5, <2>2 DEF WorkerInv, OutcomeInv, Terminal
  <2> QED BY <2>2, <2>3 DEF Earned, Reported
<1>6. WorkerInv(w)'
  BY <1>1, <1>3, <1>5 DEF WorkerInv, RunInv, TimelineInv, OutcomeInv, Begun
<1>7. \A o \in Terminal : Told(o)' => Told(o)
  BY DEF Told
<1> QED BY <1>1, <1>2, <1>4, <1>6, <1>7, WorkStep

\* The announcement is of an earned outcome; before the first fault it is the first.
LEMMA EmitInv ==
    ASSUME IInv, NEW w \in Workers, Emit(w)
    PROVE  IInv'
<1> USE ProvisioningAssumption DEF Emit, Goto, Enqueue
<1>1. /\ TypeOK /\ Busy(w) /\ WorkerInv(w) /\ RuntimeInv /\ QuietInv /\ OutcomeIsEarned
      /\ \A v \in Workers : v # w => worker'[v] = worker[v]
  BY DEF IInv, TypeOK, Busy
<1>2. Grows
  BY DEF Grows
<1>3. /\ worker'[w].pc = "mark" /\ worker'[w].outcome = worker[w].outcome
      /\ worker[w].outcome \in Terminal
  BY <1>1 DEF TypeOK, WorkerStates, WorkerInv, OutcomeInv
<1>4. TypeOK'
  <2>1. Row(worker[w].outcome, "worker", 0) \in Rows
    BY <1>3, RowIsKey DEF Terminal
  <2> QED BY <1>1, <2>1 DEF TypeOK, WorkerStates
<1>5. \A o \in Terminal : Told(o)' <=> Told(o) \/ o = worker[w].outcome
  BY RowIsKey DEF Told
<1>6. Earned => Earned'
  BY <1>1, <1>2, <1>4, EarnedStays
<1>7. WorkerInv(w)'
  BY <1>1, <1>3, <1>5, <1>6 DEF WorkerInv, RunInv, TimelineInv, OutcomeInv, Begun
<1>8. \A v \in Workers : WorkerInv(v)'
  BY <1>1, <1>2, <1>4, <1>7, OthersKeep DEF IInv
<1>9. path = "restate" => worker[w].outcome = runtime.state
  BY <1>1, <1>3 DEF WorkerInv, OutcomeInv
<1>10. RuntimeInv'
  BY <1>1, <1>5, <1>9 DEF RuntimeInv
<1>11. QuietInv'
  BY <1>1, <1>3, <1>5, QuietStep
<1>12. ASSUME Told("completed")', Told("failed")', ~(Told("completed") /\ Told("failed"))
       PROVE  path = "direct" /\ faults > 0
  <2>1. PICK o \in Terminal : Told(o) /\ o # worker[w].outcome
    BY <1>3, <1>5, <1>12 DEF Terminal
  <2>2. path = "direct"
    BY <1>1, <1>9, <2>1 DEF RuntimeInv, TypeOK
  <2>3. faults # 0
    BY <1>1, <2>1 DEF QuietInv, Busy
  <2> QED BY <1>1, <2>2, <2>3 DEF TypeOK
<1>13. Told("completed")' => Told("completed") \/ Earned'
  BY <1>1, <1>5, <1>6 DEF WorkerInv, OutcomeInv, Terminal
<1>14. OutcomeIsEarned'
  BY <1>1, <1>2, <1>4, <1>12, <1>13, EarnedStep DEF TypeOK
<1>15. AckedIsAnnounced'
  BY <1>2, AnnouncedStep DEF IInv, AckedIsAnnounced, AckedMeansTerminal
<1>16. CallbackInv'
  BY DEF IInv, CallbackInv
<1> QED BY <1>4, <1>8, <1>10, <1>11, <1>14, <1>15, <1>16 DEF IInv

\* Whoever has moved the run, it is terminal when the handler returns.
LEMMA MarkInv ==
    ASSUME IInv, NEW w \in Workers, Mark(w)
    PROVE  IInv'
<1> USE ProvisioningAssumption DEF Mark
<1>1. /\ TypeOK /\ Busy(w) /\ WorkerInv(w)
      /\ \A v \in Workers : v # w => worker'[v] = worker[v]
      /\ worker'[w] = Idle
  BY DEF IInv, TypeOK, Busy, Return
<1>2. worker[w].outcome \in Terminal /\ Told(worker[w].outcome)
  BY <1>1 DEF WorkerInv, OutcomeInv
<1>3. /\ run' = IF run = "in_progress" THEN worker[w].outcome ELSE run
      /\ run \notin {"none", "requested"}
  BY <1>1 DEF TransitionState, Moves, Terminal, WorkerInv, RunInv, Begun
<1>4. run' \in Terminal
  BY <1>1, <1>2, <1>3 DEF TypeOK, RunStates
<1>5. Grows
  BY <1>3, <1>4 DEF Grows, Terminal
<1>6. TypeOK'
  BY <1>1, <1>4 DEF TypeOK, WorkerStates, Idle, Return, RunStates
<1>7. ~Busy(w)' /\ delivery' # "open"
  BY <1>1 DEF Return, Busy, Idle
<1>8. WorkerInv(w)'
  BY <1>1 DEF WorkerInv, RunInv, TimelineInv, OutcomeInv, Idle, Begun
<1>9. \A v \in Workers : WorkerInv(v)'
  BY <1>1, <1>5, <1>6, <1>8, OthersKeep DEF IInv
<1>10. \A o \in Terminal : Told(o)' <=> Told(o)
  BY DEF Told
<1>11. QuietInv'
  BY <1>1, <1>7, <1>10, QuietStep DEF IInv
<1>12. OutcomeIsEarned'
  BY <1>1, <1>5, <1>6, <1>10, EarnedStep DEF IInv, Terminal, TypeOK
<1>13. \A o \in Terminal : run' = o => run = o \/ Announced(o)'
  BY <1>2, <1>3 DEF Announced, Told
<1>14. AckedIsAnnounced'
  BY <1>4, <1>5, <1>13, AnnouncedStep DEF IInv
<1>15. RuntimeInv' /\ CallbackInv'
  BY <1>10 DEF IInv, RuntimeInv, CallbackInv
<1> QED BY <1>6, <1>9, <1>11, <1>12, <1>14, <1>15 DEF IInv

\* A handler that throws, or dies, leaves the event to the next delivery or to a dead
\* letter; only what the runtime has not finished makes it throw without a fault.
LEMMA GiveUpInv ==
    ASSUME IInv, NEW w \in Workers, NotTerminal(w) \/ DatabaseError(w) \/ WorkerCrashes(w)
    PROVE  IInv'
<1> USE ProvisioningAssumption
<1>1. /\ TypeOK /\ Busy(w) /\ QuietInv
      /\ \A v \in Workers : v # w => worker'[v] = worker[v]
      /\ worker'[w] = Idle
      /\ delivery' \in {delivery, "dead_lettered"}
      /\ UNCHANGED <<path, run, outbox, route, runtime, provisioned, deliveries, callback>>
      /\ \/ faults' = faults /\ worker[w].pc \in {"query", "replay"}
         \/ faults < MaxFaults /\ faults' = faults + 1
  BY DEF IInv, TypeOK, Busy, NotTerminal, DatabaseError, WorkerCrashes, Throw
<1>2. Grows
  BY <1>1 DEF Grows
<1>3. worker' \in [Workers -> WorkerStates]
  BY <1>1 DEF TypeOK, NotTerminal, DatabaseError, WorkerCrashes, Throw, WorkerStates, Idle
<1>4. TypeOK'
  BY <1>1, <1>3 DEF TypeOK
<1>5. WorkerInv(w)'
  BY <1>1 DEF WorkerInv, RunInv, TimelineInv, OutcomeInv, Idle, Begun
<1>6. \A v \in Workers : WorkerInv(v)'
  BY <1>1, <1>2, <1>4, <1>5, OthersKeep DEF IInv
<1>7. \A o \in Terminal : Told(o)' <=> Told(o)
  BY <1>1 DEF Told
<1>8. ~Busy(w)'
  BY <1>1 DEF Busy, Idle
<1>9. QuietInv'
  <2>1. CASE faults' = faults /\ worker[w].pc \in {"query", "replay"}
    BY <1>1, <1>7, <1>8, <2>1, QuietStep
  <2>2. CASE faults' = faults + 1
    BY <1>1, <2>2 DEF QuietInv, TypeOK
  <2> QED BY <1>1, <2>1, <2>2
<1>10. faults <= faults'
  BY <1>1 DEF TypeOK
<1>11. OutcomeIsEarned'
  BY <1>1, <1>2, <1>4, <1>7, <1>10, EarnedStep DEF IInv, Terminal
<1>12. AckedIsAnnounced'
  BY <1>1, <1>2, AnnouncedStep DEF IInv
<1>13. RuntimeInv' /\ CallbackInv'
  BY <1>1, <1>7 DEF IInv, RuntimeInv, CallbackInv
<1> QED BY <1>4, <1>6, <1>9, <1>11, <1>12, <1>13 DEF IInv

\* A delivery while another is under way is a fault; without one, nothing has been
\* announced when the event is delivered.
LEMMA DeliverInv ==
    ASSUME IInv, NEW w \in Workers, Deliver(w)
    PROVE  IInv'
<1> USE ProvisioningAssumption DEF Deliver
<1>1. /\ TypeOK /\ QuietInv
      /\ \A v \in Workers : v # w => worker'[v] = worker[v]
      /\ worker'[w].pc = "start" /\ worker'[w].step = 1
      /\ faults' \in 0..MaxFaults /\ faults <= faults'
  BY DEF IInv, TypeOK, Idle
<1>2. Grows
  BY DEF Grows
<1>3. TypeOK'
  <2> DEFINE r == [Idle EXCEPT !.pc = "start", !.n = deliveries + 1]
  <2>1. deliveries + 1 \in 0..MaxDeliver
    BY <1>1 DEF TypeOK
  <2>2. Idle \in WorkerStates
    BY DEF WorkerStates, Idle
  <2>3. r \in WorkerStates
    BY <2>1, <2>2 DEF WorkerStates
  <2> QED BY <1>1, <2>1, <2>3 DEF TypeOK
<1>4. WorkerInv(w)'
  BY <1>1 DEF WorkerInv, RunInv, TimelineInv, OutcomeInv, Begun
<1>5. \A v \in Workers : WorkerInv(v)'
  BY <1>1, <1>2, <1>3, <1>4, OthersKeep DEF IInv
<1>6. \A o \in Terminal : Told(o)' <=> Told(o)
  BY DEF Told
<1>7. QuietInv'
  <2> SUFFICES ASSUME faults' = 0 PROVE QuietInv'
    BY DEF QuietInv
  <2>1. faults = 0 /\ delivery = "open" /\ \A v \in Workers : ~Busy(v)
    BY <1>1 DEF TypeOK
  <2>2. \A o \in Terminal : ~Told(o)
    BY <1>1, <2>1 DEF QuietInv, Busy
  <2>3. \A v \in Workers : Busy(v)' => v = w
    BY <1>1, <2>1 DEF Busy
  <2> QED BY <1>6, <2>1, <2>2, <2>3 DEF QuietInv
<1>8. OutcomeIsEarned'
  BY <1>1, <1>2, <1>3, <1>6, EarnedStep DEF IInv, Terminal
<1>9. AckedIsAnnounced'
  BY <1>2, AnnouncedStep DEF IInv
<1>10. RuntimeInv' /\ CallbackInv'
  BY <1>6 DEF IInv, RuntimeInv, CallbackInv
<1> QED BY <1>3, <1>5, <1>7, <1>8, <1>9, <1>10 DEF IInv

-----------------------------------------------------------------------------
\* A step outside the worker that announces nothing in the worker's name.
LEMMA OutsideStep ==
    ASSUME IInv, TypeOK', Grows, UNCHANGED <<worker, delivery>>, faults <= faults',
           \A o \in Terminal : Told(o)' => Told(o),
           RuntimeInv', CallbackInv', AckedIsAnnounced'
    PROVE  IInv'
<1>1. \A v \in Workers : WorkerInv(v)'
  BY OthersKeep DEF IInv
<1>2. QuietInv'
  BY QuietElsewhere, ProvisioningAssumption DEF IInv, TypeOK
<1>3. OutcomeIsEarned'
  BY EarnedStep DEF IInv, Terminal
<1> QED BY <1>1, <1>2, <1>3 DEF IInv

\* The route that requests a provisioning, and its crash between its two writes.
LEMMA RouteInv ==
    ASSUME IInv, RecordRequest \/ EnqueueRequest \/ RequestCrashes
    PROVE  IInv'
<1> USE ProvisioningAssumption
<1>1. TypeOK /\ RuntimeInv
  BY DEF IInv
<1>2. /\ UNCHANGED <<path, provisioned, worker, delivery, deliveries, callback>>
      /\ faults' \in 0..MaxFaults /\ faults <= faults'
      /\ run' \in {run, UpsertedRun}
      /\ outbox' \in {outbox, outbox \cup {Requested}}
      /\ route' \in {"idle", "recorded"}
      /\ \/ runtime' = runtime
         \/ runtime.state = "absent" /\ runtime' = [runtime EXCEPT !.state = "in_progress"]
  BY <1>1 DEF RecordRequest, EnqueueRequest, RequestCrashes, Enqueue, TypeOK
<1>3. Grows
  BY <1>2 DEF Grows, UpsertedRun, Terminal
<1>4. TypeOK'
  <2>1. Requested \in Rows
    BY RowIsKey DEF Requested
  <2>2. run' \in RunStates
    BY <1>1, <1>2 DEF TypeOK, UpsertedRun, RunStates
  <2> QED BY <1>1, <1>2, <2>1, <2>2 DEF TypeOK
<1>5. \A o \in Terminal : Told(o)' => Told(o)
  BY <1>2, RowIsKey DEF Told, Terminal, Requested
<1>6. RuntimeInv'
  <2>1. \A o \in Terminal : runtime.state = o => runtime'.state = o
    BY <1>3 DEF Grows
  <2>2. runtime'.state = "completed" => runtime' = runtime
    BY <1>1, <1>2 DEF TypeOK
  <2> QED BY <1>1, <1>2, <1>5, <2>1, <2>2 DEF RuntimeInv
<1>7. CallbackInv'
  BY <1>2 DEF IInv, CallbackInv
<1>8. AckedIsAnnounced'
  BY <1>2, <1>3, AnnouncedStep
  DEF IInv, AckedIsAnnounced, AckedMeansTerminal, UpsertedRun, Terminal, Grows
<1> QED BY <1>2, <1>3, <1>4, <1>5, <1>6, <1>7, <1>8, OutsideStep

\* The execution completes with its whole history.
LEMMA RuntimeStepInv ==
    ASSUME IInv, RuntimeStep
    PROVE  IInv'
<1> USE ProvisioningAssumption DEF RuntimeStep
<1>1. TypeOK /\ RuntimeInv
  BY DEF IInv
<1>2. Grows
  BY DEF Grows, Terminal
<1>3. TypeOK'
  BY <1>1 DEF TypeOK, Terminal
<1>4. \A o \in Terminal : Told(o)' <=> Told(o)
  BY DEF Told
<1>5. RuntimeInv'
  <2>1. runtime'.state = "completed" => runtime'.step = StepCount
    BY <1>1 DEF TypeOK
  <2>2. path = "restate" => \A o \in Terminal : ~Told(o)
    BY <1>1 DEF RuntimeInv, Terminal
  <2> QED BY <1>4, <2>1, <2>2 DEF RuntimeInv
<1>6. CallbackInv'
  BY DEF IInv, CallbackInv
<1>7. AckedIsAnnounced'
  BY <1>2, AnnouncedStep DEF IInv
<1> QED BY <1>1, <1>2, <1>3, <1>4, <1>5, <1>6, <1>7, OutsideStep DEF TypeOK

\* What TypeOK says of a callback, and what its next states are.
LEMMA CallbackTypesOf ==
    ASSUME TypeOK, NEW c \in Callbacks
    PROVE  /\ callback[c] \in CallbackStates
           /\ callback[c].type \in {"unsent", "progress", "completed", "failed"}
           /\ callback[c].type \in {"unsent"} \cup CallbackTypes
           /\ callback[c].cut \in BOOLEAN
  BY ProvisioningAssumption DEF TypeOK, CallbackStates

\* A callback row is not one of the worker's.
LEMMA CallbackRow ==
    ASSUME NEW c \in Callbacks, NEW e \in {"progress", "completed", "failed"},
           outbox' = outbox \cup {Row(e, c, 0)}
    PROVE  /\ Row(e, c, 0) \in Rows
           /\ \A o \in Terminal : Told(o)' => Told(o)
<1>1. Row(e, c, 0) \in Rows
  BY RowIsKey, ProvisioningAssumption
<1>2. \A o \in Terminal : Row(o, "worker", 0) # Row(e, c, 0)
  BY RowIsKey, ProvisioningAssumption
<1> QED BY <1>1, <1>2 DEF Told

\* A callback that is not settling a run keeps what accounts for the run: an id keeps
\* its type, a cut stays, and one on its way to its announcement stays on it, makes it,
\* or is cut off.
LEMMA CallbackAnnounces ==
    ASSUME TypeOK, TypeOK', Grows, AckedIsAnnounced, delivery' = delivery, run' = run,
           NEW c \in Callbacks,
           \A d \in Callbacks : d # c => callback'[d] = callback[d],
           callback[c].type # "unsent" => callback'[c].type = callback[c].type,
           callback[c].cut => callback'[c].cut,
           callback[c].pc \in {"progress", "terminal"} =>
              \/ callback'[c].pc \in {"progress", "terminal"}
              \/ callback'[c].cut
              \/ \A o \in Terminal : callback[c].type = o => Announced(o)'
    PROVE  AckedIsAnnounced'
<1>1. AckedMeansTerminal'
  BY DEF AckedIsAnnounced, AckedMeansTerminal
<1>2. ASSUME NEW o \in Terminal, run = o
      PROVE  \/ Announced(o)'
             \/ \E d \in Callbacks :
                  /\ callback'[d].type = o
                  /\ callback'[d].pc \in {"progress", "terminal"} \/ callback'[d].cut
  <2>1. CASE Announced(o)
    BY <2>1 DEF Announced, Grows
  <2>2. CASE \E d \in Callbacks :
                /\ callback[d].type = o
                /\ callback[d].pc \in {"progress", "terminal"} \/ callback[d].cut
    <3>1. PICK d \in Callbacks :
                /\ callback[d].type = o
                /\ callback[d].pc \in {"progress", "terminal"} \/ callback[d].cut
      BY <2>2
    <3>2. CASE d = c
      BY <3>1, <3>2 DEF Terminal
    <3>3. CASE d # c
      BY <3>1, <3>3
    <3> QED BY <3>2, <3>3
  <2> QED BY <1>2, <2>1, <2>2 DEF AckedIsAnnounced, TerminalRunAnnounced
<1>3. TerminalRunAnnounced'
  BY <1>2 DEF TerminalRunAnnounced, Announced
<1> QED BY <1>1, <1>3 DEF AckedIsAnnounced

\* The checks of the callback route read the run and change nothing.
LEMMA ReceiveInv ==
    ASSUME IInv, NEW c \in Callbacks, Receive(c)
    PROVE  IInv'
<1> USE ProvisioningAssumption DEF Receive
<1>1. TypeOK /\ \A d \in Callbacks : d # c => callback'[d] = callback[d]
  BY DEF IInv, TypeOK
<1>2. Grows
  BY DEF Grows
<1>3. PICK type \in CallbackTypes :
         /\ Sendable(c, type)
         /\ callback' = [callback EXCEPT ![c].type = type, ![c].prior = UpsertedRun,
                ![c].pc = IF callbackTypeToState(type) \in ALLOWED_TRANSITIONS[UpsertedRun]
                            THEN "cas" ELSE "conflict"]
  OBVIOUS
<1>4. /\ callback'[c].type = type /\ callback[c].type \in {"unsent", type}
      /\ callback'[c].cut = callback[c].cut
      /\ callback'[c].pc \in {"cas", "conflict"}
  BY <1>1, <1>3 DEF TypeOK, CallbackStates, Sendable
<1>5. TypeOK'
  <2>1. UpsertedRun \in RunStates \ {"none"}
    BY <1>1 DEF TypeOK, UpsertedRun, RunStates
  <2> DEFINE to == IF callbackTypeToState(type) \in ALLOWED_TRANSITIONS[UpsertedRun]
                     THEN "cas" ELSE "conflict"
             r == [callback[c] EXCEPT !.type = type, !.prior = UpsertedRun, !.pc = to]
  <2>2. to \in {"cas", "conflict"}
    OBVIOUS
  <2> HIDE DEF to
  <2>3. r \in CallbackStates
    <3>1. callback[c] \in CallbackStates /\ type \in {"unsent"} \cup CallbackTypes
      BY <1>1, CallbackTypesOf
    <3> HIDE DEF Receive
    <3> QED BY <2>1, <2>2, <3>1 DEF CallbackStates
  <2>4. callback' = [callback EXCEPT ![c] = r]
    BY <1>1, <1>3 DEF TypeOK, to
  <2> QED BY <1>1, <2>3, <2>4 DEF TypeOK
<1>6. \A o \in Terminal : Told(o)' => Told(o)
  BY DEF Told
<1>7. CallbackInv' /\ RuntimeInv'
  <2>1. CallbackInv'
    BY <1>1, <1>3, <1>4, ZenonT(40) DEF IInv, CallbackInv
  <2>2. RuntimeInv'
    BY <1>1, <1>6 DEF IInv, RuntimeInv
  <2> QED BY <2>1, <2>2
<1>8. AckedIsAnnounced'
  BY <1>1, <1>2, <1>4, <1>5, CallbackAnnounces DEF IInv
<1> QED BY <1>1, <1>2, <1>5, <1>6, <1>7, <1>8, OutsideStep DEF TypeOK

\* The compare-and-set that ends the run leads on to the announcement.
LEMMA CompareAndSetInv ==
    ASSUME IInv, NEW c \in Callbacks, CompareAndSet(c)
    PROVE  IInv'
<1> DEFINE prior == callback[c].prior
           target == callbackTypeToState(callback[c].type)
<1> USE ProvisioningAssumption
<1>1. /\ TypeOK /\ callback[c].pc = "cas"
      /\ \A d \in Callbacks : d # c => callback'[d] = callback[d]
      /\ run' = IF run = prior /\ run \notin Terminal THEN target ELSE run
      /\ UNCHANGED <<path, outbox, route, runtime, provisioned, worker, deliveries,
                     delivery, faults>>
  BY DEF CompareAndSet, IInv, TypeOK, TransitionState, Moves
<1>2. target \in {"in_progress", "completed", "failed"}
  BY <1>1, CallbackTypesOf DEF IInv, CallbackInv, callbackTypeToState
<1>3. /\ callback'[c].type = callback[c].type /\ callback'[c].cut = callback[c].cut
      /\ callback'[c].pc \in {"conflict", "progress"}
      /\ run = prior /\ run \notin Terminal => callback'[c].pc = "progress"
  BY <1>1 DEF CompareAndSet, TypeOK, CallbackStates, Moves
<1>4. Grows
  BY <1>1, <1>2 DEF Grows
<1>5. TypeOK'
  <2>1. run' \in RunStates
    BY <1>1, <1>2 DEF TypeOK, RunStates, Terminal
  <2>2. callback' \in [Callbacks -> CallbackStates]
    BY <1>1 DEF CompareAndSet, TypeOK, CallbackStates
  <2> QED BY <1>1, <2>1, <2>2 DEF TypeOK
<1>6. \A o \in Terminal : Told(o)' => Told(o)
  BY <1>1 DEF Told
<1>7. CallbackInv' /\ RuntimeInv'
  BY <1>1, <1>3, <1>6 DEF IInv, CallbackInv, RuntimeInv
<1>8. AckedIsAnnounced'
  <2>1. CASE run' = run
    BY <1>1, <1>3, <1>4, <1>5, <2>1, CallbackAnnounces DEF IInv
  <2>2. CASE run' # run
    <3>1. run' = target /\ callback'[c].pc = "progress" /\ run \notin Terminal
      BY <1>1, <1>3, <2>2
    <3>2. run' \in Terminal => callback'[c].type = run'
      BY <1>3, <3>1 DEF callbackTypeToState, Terminal
    <3> QED
      BY <1>1, <3>1, <3>2
      DEF IInv, AckedIsAnnounced, AckedMeansTerminal, TerminalRunAnnounced
  <2> QED BY <2>1, <2>2
<1>9. faults <= faults'
  BY <1>1 DEF TypeOK
<1> QED BY <1>1, <1>4, <1>5, <1>6, <1>7, <1>8, <1>9, OutsideStep

\* The events of a callback, and its crash between any two of its transactions.
LEMMA CallbackEventsInv ==
    ASSUME IInv, NEW c \in Callbacks,
           EnqueueProgress(c) \/ EnqueueTerminal(c) \/ CallbackCrashes(c) \/ ReportProgress(c)
    PROVE  IInv'
<1> USE ProvisioningAssumption
<1>1. TypeOK /\ callback[c].type \in {"unsent", "progress", "completed", "failed"}
  BY CallbackTypesOf DEF IInv
<1>2. /\ UNCHANGED <<path, run, route, runtime, provisioned, worker, deliveries, delivery>>
      /\ faults' \in 0..MaxFaults /\ faults <= faults'
      /\ \A d \in Callbacks : d # c => callback'[d] = callback[d]
      /\ callback'[c].type = callback[c].type
      /\ callback[c].cut => callback'[c].cut
      /\ callback'[c].pc # "idle" => callback[c].pc # "idle"
      /\ callback[c].pc \in {"progress", "terminal"} =>
            \/ callback'[c].pc \in {"progress", "terminal"}
            \/ callback'[c].cut
            \/ EnqueueTerminal(c)
      /\ callback' \in [Callbacks -> CallbackStates]
  BY <1>1
  DEF EnqueueProgress, EnqueueTerminal, CallbackCrashes, ReportProgress, TypeOK,
      CallbackStates
<1>3. /\ outbox \subseteq outbox' /\ outbox' \in SUBSET Rows
      /\ \A o \in Terminal : Told(o)' => Told(o)
  <2>1. CASE CallbackCrashes(c)
    BY <1>1, <2>1 DEF CallbackCrashes, Told, TypeOK
  <2>2. CASE EnqueueProgress(c) \/ ReportProgress(c)
    <3>1. outbox' = outbox \cup {Row("progress", c, 0)}
      BY <2>2 DEF EnqueueProgress, ReportProgress, Enqueue
    <3> QED BY <1>1, <3>1, CallbackRow DEF TypeOK
  <2>3. CASE EnqueueTerminal(c)
    <3>1. PICK e \in {"completed", "failed"} : outbox' = outbox \cup {Row(e, c, 0)}
      BY <2>3 DEF EnqueueTerminal, Enqueue
    <3> QED BY <1>1, <3>1, CallbackRow DEF TypeOK
  <2> QED BY <2>1, <2>2, <2>3
<1>4. Grows
  BY <1>2, <1>3 DEF Grows
<1>5. TypeOK'
  BY <1>1, <1>2, <1>3 DEF TypeOK
<1>6. CallbackInv' /\ RuntimeInv'
  BY <1>2, <1>3 DEF IInv, CallbackInv, RuntimeInv
<1>7. EnqueueTerminal(c) => \A o \in Terminal : callback[c].type = o => Announced(o)'
  BY DEF EnqueueTerminal, Enqueue, Announced, Terminal
<1>8. AckedIsAnnounced'
  BY <1>1, <1>2, <1>4, <1>5, <1>7, CallbackAnnounces DEF IInv
<1> QED BY <1>2, <1>3, <1>4, <1>5, <1>6, <1>8, OutsideStep

-----------------------------------------------------------------------------
\* Every step keeps the invariant.
LEMMA NextInv == IInv /\ [Next]_vars => IInv'
<1> SUFFICES ASSUME IInv, [Next]_vars PROVE IInv'
  OBVIOUS
<1>1. ASSUME NEW w \in Workers, Handle(w) PROVE IInv'
  BY <1>1, StartInv, BeginInv, ReportInv, ProvisionInv, DirectOutcomeInv, QueryInv,
     ReplayInv, ReplayedInv, EmitInv, MarkInv, GiveUpInv DEF Handle
<1>2. ASSUME NEW c \in Callbacks, CallbackStep(c) PROVE IInv'
  BY <1>2, CompareAndSetInv, CallbackEventsInv DEF CallbackStep
<1>3. CASE UNCHANGED vars
  <2>1. TypeOK' /\ Grows /\ RuntimeInv' /\ CallbackInv' /\ AckedIsAnnounced'
    BY <1>3
    DEF IInv, vars, TypeOK, Grows, RuntimeInv, Told, CallbackInv, AckedIsAnnounced,
        AckedMeansTerminal, TerminalRunAnnounced, Announced
  <2>2. /\ UNCHANGED <<worker, delivery>> /\ faults <= faults'
        /\ \A o \in Terminal : Told(o)' => Told(o)
    BY <1>3 DEF vars, Told, IInv, TypeOK
  <2> QED BY <2>1, <2>2, OutsideStep
<1> QED
  BY <1>1, <1>2, <1>3, RouteInv, RuntimeStepInv, DeliverInv, GiveUpInv, ReceiveInv,
     CallbackEventsInv DEF Next

\* The workflow_runs row, the outbox and the handlers' local values stay well typed.
THEOREM TypeCorrect == Spec => []TypeOK
<1>1. IInv => TypeOK
  BY DEF IInv
<1> QED BY <1>1, InitInv, NextInv, PTL DEF Spec

\* processTenantProvisioningCompletion announces completed only with the timeline in the
\* outbox and the work done, however deliveries overlap and wherever replicas die; and
\* it announces both outcomes only on the direct path and only after a fault.
THEOREM OutcomesAreEarned == Spec => []OutcomeIsEarned
<1>1. IInv => OutcomeIsEarned
  BY DEF IInv
<1> QED BY <1>1, InitInv, NextInv, PTL DEF Spec

\* The requested event is acknowledged only when its run has ended, and a run that has
\* ended is announced unless the callback that ended it was cut off.
THEOREM EndedRunsAreAnnounced == Spec => []AckedIsAnnounced
<1>1. IInv => AckedIsAnnounced
  BY DEF IInv
<1> QED BY <1>1, InitInv, NextInv, PTL DEF Spec
=============================================================================
