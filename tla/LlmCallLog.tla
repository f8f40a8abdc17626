----------------------------- MODULE LlmCallLog -----------------------------
(***************************************************************************)
(* A call of the language model and its row in the call log                *)
(* (packages/llm-harness/src/openai-runner.ts and llm-call-log-sink.ts, as *)
(* apps/api/src/app.ts puts them together). The runner retries, and hands  *)
(* the row to the sink without waiting; the buffered sink sends batches to *)
(* ClickHouse, several at a time. OpenAI and ClickHouse are external.      *)
(***************************************************************************)
EXTENDS Naturals, Sequences, FiniteSets, SequencesExt

CONSTANTS
    LlmCalls,      \* calls of run
    Retries,       \* retries of one call
    MaxBatchSize,  \* rows that make the buffer flush by itself
    MaxLogFaults   \* bound on failed inserts

ASSUME LogAssumption ==
    /\ {Retries, MaxLogFaults} \subseteq Nat
    /\ MaxBatchSize \in Nat \ {0}

VARIABLES
    sink,       \* a log sink is configured
    call,       \* [at, attempt]: the call is idle, under way, asleep before a
                \* retry, returned or threw
    buffer,     \* rows not yet sent
    batches,    \* batches ClickHouse has not answered
    table,      \* rows ClickHouse holds, in the order they came
    logFaults,
    dropped,    \* rows of a failed insert or a stopped process (history)
    process     \* the API process runs

logVars == <<sink, call, buffer, batches, table, logFaults, dropped, process>>

LogTypeOK ==
    /\ sink \in BOOLEAN /\ process \in BOOLEAN
    /\ call \in [LlmCalls -> [at : {"idle", "calling", "sleeping", "returned", "threw"},
                              attempt : 0..Retries]]
    /\ buffer \in Seq(LlmCalls) /\ Len(buffer) < MaxBatchSize
    /\ batches \subseteq Seq(LlmCalls) /\ table \in Seq(LlmCalls)
    /\ logFaults \in 0..MaxLogFaults
    /\ dropped \subseteq LlmCalls

LogInit ==
    /\ sink \in BOOLEAN
    /\ process = TRUE
    /\ call = [c \in LlmCalls |-> [at |-> "idle", attempt |-> 0]]
    /\ buffer = <<>> /\ batches = {} /\ table = <<>>
    /\ logFaults = 0 /\ dropped = {}

-----------------------------------------------------------------------------
StartCall(c) ==
    /\ process /\ call[c].at = "idle"
    /\ call' = [call EXCEPT ![c].at = "calling"]
    /\ UNCHANGED <<sink, buffer, batches, table, logFaults, dropped, process>>

(* A 429 or a 5xx is retried while retries are left; anything else throws. *)
AttemptFails(c, retryable) ==
    /\ process /\ call[c].at = "calling"
    /\ call' = [call EXCEPT ![c].at =
                    IF retryable /\ call[c].attempt < Retries THEN "sleeping" ELSE "threw"]
    /\ UNCHANGED <<sink, buffer, batches, table, logFaults, dropped, process>>

WakeUp(c) ==
    /\ process /\ call[c].at = "sleeping"
    /\ call' = [call EXCEPT ![c] = [at |-> "calling", attempt |-> @.attempt + 1]]
    /\ UNCHANGED <<sink, buffer, batches, table, logFaults, dropped, process>>

(* Mutant: the rows leave the buffer when the insert is answered. *)
FlushKeeping(rows) ==
    /\ buffer' = rows
    /\ batches' = batches \cup {rows}

(* The rows leave the buffer before the insert is awaited. *)
Flush(rows) ==
    /\ buffer' = <<>>
    /\ batches' = batches \cup {rows}

(* log: the row joins the buffer, which flushes when it is full. *)
Log(c) ==
    LET rows == Append(buffer, c) IN
    IF Len(rows) >= MaxBatchSize THEN Flush(rows)
    ELSE buffer' = rows /\ UNCHANGED batches

(* The answer: the row is logged, with no wait, and the call returns.      *)
AttemptSucceeds(c) ==
    /\ process /\ call[c].at = "calling"
    /\ call' = [call EXCEPT ![c].at = "returned"]
    /\ IF sink THEN Log(c) ELSE UNCHANGED <<buffer, batches>>
    /\ UNCHANGED <<sink, table, logFaults, dropped, process>>

(* The timer of the buffered sink. *)
AutoFlush ==
    /\ process /\ buffer # <<>>
    /\ Flush(buffer)
    /\ UNCHANGED <<sink, call, table, logFaults, dropped, process>>

Inserted(b) ==
    /\ b \in batches
    /\ table' = table \o b
    /\ batches' = batches \ {b}
    /\ UNCHANGED <<sink, call, buffer, logFaults, dropped, process>>

(* The error is logged and swallowed. An insert that timed out may still   *)
(* have been made.                                                         *)
InsertFails(b) ==
    /\ b \in batches
    /\ logFaults < MaxLogFaults
    /\ logFaults' = logFaults + 1
    /\ \/ table' = table \o b /\ UNCHANGED dropped
       \/ dropped' = dropped \cup ToSet(b) /\ UNCHANGED table
    /\ batches' = batches \ {b}
    /\ UNCHANGED <<sink, call, buffer, process>>

(* The API stops. Nothing calls close(), so the buffer is lost; batches    *)
(* under way arrive or not.                                                *)
Stop ==
    /\ process
    /\ process' = FALSE
    /\ buffer' = <<>>
    /\ dropped' = dropped \cup ToSet(buffer)
    /\ UNCHANGED <<sink, call, batches, table, logFaults>>

CallStep(c) ==
    \/ StartCall(c) \/ WakeUp(c) \/ AttemptSucceeds(c)
    \/ \E b \in BOOLEAN : AttemptFails(c, b)

LogNext ==
    \/ \E c \in LlmCalls : CallStep(c)
    \/ \E b \in batches : Inserted(b) \/ InsertFails(b)
    \/ AutoFlush \/ Stop

-----------------------------------------------------------------------------
Count(c, s) == Cardinality({i \in DOMAIN s : s[i] = c})

(* A call that returned has exactly one row: in the buffer, in one batch   *)
(* under way or in the table, unless a failed insert or the stop of the    *)
(* process lost it; a call that threw has none. So the costs in the table  *)
(* are never counted twice, whatever flushes of the timer and of a full    *)
(* buffer overlap, and retried attempts leave no row of their own.         *)
(* openai-runner.ts run and BufferedLlmCallLogSink.                        *)
OneRowPerCall ==
    \A c \in LlmCalls :
        LET n == Count(c, buffer) + Cardinality({b \in batches : c \in ToSet(b)}) + Count(c, table)
        IN  n = IF sink /\ call[c].at = "returned" /\ c \notin dropped THEN 1 ELSE 0
=============================================================================
