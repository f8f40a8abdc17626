--------------------------- MODULE DurableConsumer ---------------------------
(***************************************************************************)
(* The consumer loop shared by the workers                                 *)
(* (packages/core/src/durable-jetstream-consumer.ts): the replicas of one  *)
(* queue group take messages from a durable JetStream push consumer with   *)
(* explicit acknowledgements and a bounded number of deliveries.  A        *)
(* replica handles one message at a time; the others it was sent wait in   *)
(* its subscription while their acknowledgement deadline runs.             *)
(*                                                                         *)
(* The server is external and modelled from the options the code sets:     *)
(* ackWait, maxDeliver and maxAckPending.                                  *)
(***************************************************************************)
EXTENDS Integers, FiniteSets, Sequences

CONSTANTS
    Messages,       \* the messages of the stream
    Workers,        \* the replicas of the queue group
    MaxDeliver,     \* maxDeliver
    MaxAckPending,  \* maxAckPending
    MaxFaults       \* crashes, stalls, lost acks and failed dead letters allowed

ASSUME ConsumerAssumption ==
    /\ MaxDeliver \in Nat \ {0}
    /\ MaxAckPending \in Nat \ {0}
    /\ MaxFaults \in Nat

VARIABLES
    server,      \* of a message: ready, pending, done, or exhausted
    deliveries,  \* how often the server has delivered it
    inbox,       \* the deliveries a replica has received, the current one first
    pc,          \* where a replica is with the first of them
    handled,     \* how often the handler has completed for a message
    deadLetter,  \* the messages with a worker.dead_lettered.v1 row in the outbox
    faults       \* faults spent so far, at most MaxFaults

vars == <<server, deliveries, inbox, pc, handled, deadLetter, faults>>

\* A copy of message m as its nth delivery.
Delivery == [m : Messages, n : 1..MaxDeliver]

\* The server's view of each message, the copies in the inboxes and the workers' steps.
TypeOK ==
    /\ server \in [Messages -> {"ready", "pending", "done", "exhausted"}]
    /\ deliveries \in [Messages -> 0..MaxDeliver]
    /\ inbox \in [Workers -> Seq(Delivery)]
    /\ pc \in [Workers -> {"wait", "ack", "catch", "term"}]
    /\ handled \in [Messages -> Nat]
    /\ deadLetter \in SUBSET Messages
    /\ faults \in 0..MaxFaults

Init ==
    /\ server = [m \in Messages |-> "ready"]
    /\ deliveries = [m \in Messages |-> 0]
    /\ inbox = [w \in Workers |-> <<>>]
    /\ pc = [w \in Workers |-> "wait"]
    /\ handled = [m \in Messages |-> 0]
    /\ deadLetter = {}
    /\ faults = 0

Copies(w) == {inbox[w][i] : i \in 1..Len(inbox[w])}
Held(m) == \E w \in Workers : \E d \in Copies(w) : d.m = m

-----------------------------------------------------------------------------
(* The server *)

Deliver(w, m) ==
    /\ server[m] = "ready"
    /\ Cardinality({k \in Messages : server[k] = "pending"}) < MaxAckPending
    /\ server' = [server EXCEPT ![m] = "pending"]
    /\ deliveries' = [deliveries EXCEPT ![m] = @ + 1]
    /\ inbox' = [inbox EXCEPT ![w] = Append(@, [m |-> m, n |-> deliveries[m] + 1])]
    /\ UNCHANGED <<pc, handled, deadLetter, faults>>

\* A pending message goes back to be delivered again, or is given up: after the last
\* allowed delivery the server keeps it but delivers it to nobody.
Requeue(m) ==
    server' = [server EXCEPT ![m] =
                  IF @ # "pending" THEN @
                  ELSE IF deliveries[m] < MaxDeliver THEN "ready" ELSE "exhausted"]

Remove(m) == server' = [server EXCEPT ![m] = "done"]

\* ackWait passes.  It is long enough for a handler, so it passes while a replica has
\* the message only when the replica stalls or its queue is long.
AckWaitExpires(m) ==
    /\ server[m] = "pending"
    /\ Requeue(m)
    /\ IF Held(m) THEN faults < MaxFaults /\ faults' = faults + 1
                  ELSE UNCHANGED faults
    /\ UNCHANGED <<deliveries, inbox, pc, handled, deadLetter>>

-----------------------------------------------------------------------------
(* One replica *)

Current(w) == Head(inbox[w])

\* The loop goes on to the next message of the subscription.
Continue(w) ==
    /\ inbox' = [inbox EXCEPT ![w] = Tail(@)]
    /\ pc' = [pc EXCEPT ![w] = "wait"]

\* decode and handler: they complete, or they throw and the error is caught.
Handle(w) ==
    /\ pc[w] = "wait" /\ inbox[w] # <<>>
    /\ \/ /\ handled' = [handled EXCEPT ![Current(w).m] = @ + 1]
          /\ pc' = [pc EXCEPT ![w] = "ack"]
       \/ /\ pc' = [pc EXCEPT ![w] = "catch"]
          /\ UNCHANGED handled
    /\ UNCHANGED <<server, deliveries, inbox, deadLetter, faults>>

Ack(w) ==
    /\ pc[w] = "ack"
    /\ Remove(Current(w).m)
    /\ Continue(w)
    /\ UNCHANGED <<deliveries, handled, deadLetter, faults>>

\* Mutant: one delivery too late.
LastDeliveryPassed(w) == Current(w).n > MaxDeliver

\* redeliveryCount of this copy has reached maxDeliver.
LastDelivery(w) == Current(w).n >= MaxDeliver

\* message.nak, and on to the next message.
Nak(w) == Requeue(Current(w).m) /\ Continue(w)

\* An ordinary failure: ask for another delivery.
Retry(w) ==
    /\ pc[w] = "catch" /\ ~LastDelivery(w)
    /\ Nak(w)
    /\ UNCHANGED <<deliveries, handled, deadLetter, faults>>

\* Mutant: the failure is only logged.
RecordDeadLetterLogged(m) == UNCHANGED deadLetter

\* enqueueDeadLetter, under the key of the worker and the stream sequence.
RecordDeadLetter(m) == deadLetter' = deadLetter \cup {m}

\* The last allowed delivery failed: onExhausted records it, or throws and the
\* message is nak'ed.
Exhaust(w) ==
    /\ pc[w] = "catch" /\ LastDelivery(w)
    /\ \/ /\ RecordDeadLetter(Current(w).m)
          /\ pc' = [pc EXCEPT ![w] = "term"]
          /\ UNCHANGED <<server, inbox, faults>>
       \/ /\ faults < MaxFaults
          /\ faults' = faults + 1
          /\ Nak(w)
          /\ UNCHANGED deadLetter
    /\ UNCHANGED <<deliveries, handled>>

Term(w) ==
    /\ pc[w] = "term"
    /\ Remove(Current(w).m)
    /\ Continue(w)
    /\ UNCHANGED <<deliveries, handled, deadLetter, faults>>

\* ack and term are published without waiting for an answer and can get lost.
AnswerLost(w) ==
    /\ pc[w] \in {"ack", "term"}
    /\ faults < MaxFaults
    /\ faults' = faults + 1
    /\ Continue(w)
    /\ UNCHANGED <<server, deliveries, handled, deadLetter>>

Crash(w) ==
    /\ inbox[w] # <<>>
    /\ faults < MaxFaults
    /\ faults' = faults + 1
    /\ inbox' = [inbox EXCEPT ![w] = <<>>]
    /\ pc' = [pc EXCEPT ![w] = "wait"]
    /\ UNCHANGED <<server, deliveries, handled, deadLetter>>

-----------------------------------------------------------------------------
WorkerStep(w) == Handle(w) \/ Ack(w) \/ Retry(w) \/ Exhaust(w) \/ Term(w)

Next ==
    \/ \E w \in Workers : WorkerStep(w) \/ AnswerLost(w) \/ Crash(w)
    \/ \E w \in Workers, m \in Messages : Deliver(w, m)
    \/ \E m \in Messages : AckWaitExpires(m)

Spec == Init /\ [][Next]_vars

\* The loop takes one message after the other, the server delivers a message it has
\* room for, and deadlines pass.  Handlers owe nothing: they may throw every time.
Fairness ==
    /\ \A w \in Workers : WF_vars(WorkerStep(w))
    /\ \A m \in Messages : /\ SF_vars(\E w \in Workers : Deliver(w, m))
                           /\ WF_vars(AckWaitExpires(m))

FairSpec == Spec /\ Fairness

-----------------------------------------------------------------------------
(* Properties *)

\* No work is dropped silently (durable-jetstream-consumer.ts:99-105): a message the
\* server is through with was handled or is on record as a dead letter.
DoneIsAccountedFor ==
    \A m \in Messages :
        server[m] = "done" => handled[m] > 0 \/ m \in deadLetter

\* Neither handled, nor on record, nor on its way to anybody.
Stranded(m) ==
    /\ server[m] = "exhausted"
    /\ handled[m] = 0 /\ m \notin deadLetter
    /\ ~Held(m)

\* Handlers may fail every delivery: that alone never strands a message.
StrandingNeedsFault == (\E m \in Messages : Stranded(m)) => faults > 0

\* The handler completes a second time for a message only after a crash, a stall, a
\* lost acknowledgement, and once for each.
RerunsNeedFaults == \A m \in Messages : handled[m] <= 1 + faults

\* Without a fault no message is stranded and none is handled twice.
LossAndReplayNeedFaults == StrandingNeedsFault /\ RerunsNeedFaults

\* The server stops delivering a message for good: it is handled, on record, or a
\* fault hit its last delivery.
EveryMessageSettled ==
    \A m \in Messages :
        <>(server[m] = "done" \/ (server[m] = "exhausted" /\ faults > 0))

=============================================================================
