------------------------ MODULE DurableConsumerProofs -----------------------
(***************************************************************************)
(* The properties of DurableConsumer, for any number of messages,          *)
(* replicas, deliveries and faults.  A copy of a message is known by its   *)
(* delivery number, so that copies can be counted wherever they wait.      *)
(***************************************************************************)
EXTENDS DurableConsumer, FiniteSetTheorems, SequenceTheorems, TLAPS

\* A replica that is past "wait" has a current message, and has done for it what its
\* place says.
PlaceInv ==
    \A w \in Workers :
        /\ pc[w] # "wait" => inbox[w] # <<>>
        /\ pc[w] = "ack" => handled[Current(w).m] > 0
        /\ pc[w] = "term" => Current(w).m \in deadLetter

\* Every copy is of a delivery the server has made, and no two are of the same one.
CopyInv ==
    /\ \A w \in Workers : \A i \in 1..Len(inbox[w]) :
          inbox[w][i].n <= deliveries[inbox[w][i].m]
    /\ \A v, w \in Workers : \A i \in 1..Len(inbox[v]), j \in 1..Len(inbox[w]) :
          inbox[v][i] = inbox[w][j] => v = w /\ i = j

\* A message is offered again only while it has a delivery left.
ReadyInv == \A m \in Messages : server[m] = "ready" => deliveries[m] < MaxDeliver

\* The delivery numbers of the copies of m that may still be handled or refused: all but
\* those whose replica has already handled or dead-lettered them.
Open(m) ==
    {n \in 1..MaxDeliver :
        \E w \in Workers : \E i \in 1..Len(inbox[w]) :
            /\ inbox[w][i] = [m |-> m, n |-> n]
            /\ i = 1 => pc[w] \in {"wait", "catch"}}

\* Each completed or still possible run of a message beyond the first is paid for by a
\* fault, and so is the first one once the message is to be delivered again.
RunsPaid(m) ==
    /\ handled[m] + Cardinality(Open(m)) <= 1 + faults
    /\ server[m] = "ready" => handled[m] + Cardinality(Open(m)) <= faults
    /\ server[m] = "pending" /\ ~Held(m) => handled[m] <= faults

\* Before the first fault the pending messages are those with a copy, the copy is of
\* the last delivery, and none is given up.
QuietInv ==
    faults = 0 =>
        /\ \A m \in Messages : server[m] # "exhausted"
        /\ \A m \in Messages : server[m] = "pending" => Held(m)
        /\ \A w \in Workers : \A i \in 1..Len(inbox[w]) :
              /\ server[inbox[w][i].m] = "pending"
              /\ inbox[w][i].n = deliveries[inbox[w][i].m]

IInv ==
    /\ TypeOK /\ PlaceInv /\ CopyInv /\ ReadyInv /\ QuietInv /\ DoneIsAccountedFor
    /\ \A m \in Messages : RunsPaid(m)

-----------------------------------------------------------------------------
\* Sets of delivery numbers are finite, and smaller ones have no more members.
LEMMA Counting ==
    /\ \A S \in SUBSET (1..MaxDeliver) : IsFiniteSet(S) /\ Cardinality(S) \in Nat
    /\ \A S, T \in SUBSET (1..MaxDeliver) :
          S \subseteq T => Cardinality(S) <= Cardinality(T)
    /\ \A S, T \in SUBSET (1..MaxDeliver), n \in 1..MaxDeliver :
          /\ S \subseteq T \cup {n} => Cardinality(S) <= Cardinality(T) + 1
          /\ S \subseteq T \ {n} /\ n \in T => Cardinality(S) + 1 <= Cardinality(T)
<1>1. \A S \in SUBSET (1..MaxDeliver) : IsFiniteSet(S) /\ Cardinality(S) \in Nat
  <2>1. 1 \in Int /\ MaxDeliver \in Int
    BY ConsumerAssumption
  <2>2. IsFiniteSet(1..MaxDeliver)
    BY <2>1, FS_Interval
  <2>3. ASSUME NEW S \in SUBSET (1..MaxDeliver) PROVE IsFiniteSet(S)
    BY <2>2, FS_Subset
  <2> QED BY <2>3, FS_CardinalityType
<1>2. \A S, T \in SUBSET (1..MaxDeliver) :
         S \subseteq T => Cardinality(S) <= Cardinality(T)
  BY <1>1, FS_Subset
<1>3. ASSUME NEW S \in SUBSET (1..MaxDeliver), NEW T \in SUBSET (1..MaxDeliver),
             NEW n \in 1..MaxDeliver
      PROVE  /\ S \subseteq T \cup {n} => Cardinality(S) <= Cardinality(T) + 1
             /\ S \subseteq T \ {n} /\ n \in T => Cardinality(S) + 1 <= Cardinality(T)
  <2>1. Cardinality(S) \in Nat /\ Cardinality(T) \in Nat /\ IsFiniteSet(T)
    BY <1>1
  <2>2. /\ Cardinality(T \cup {n}) = IF n \in T THEN Cardinality(T) ELSE Cardinality(T) + 1
        /\ Cardinality(T \ {n}) = IF n \in T THEN Cardinality(T) - 1 ELSE Cardinality(T)
    BY <2>1, FS_AddElement, FS_RemoveElement
  <2>3. T \cup {n} \in SUBSET (1..MaxDeliver) /\ T \ {n} \in SUBSET (1..MaxDeliver)
    OBVIOUS
  <2>4. /\ S \subseteq T \cup {n} => Cardinality(S) <= Cardinality(T \cup {n})
        /\ S \subseteq T \ {n} => Cardinality(S) <= Cardinality(T \ {n})
    BY <1>2, <2>3
  <2> QED BY <2>1, <2>2, <2>4
<1> QED BY <1>1, <1>2, <1>3

\* The current message of a replica that has one.
LEMMA CurrentIsFirst ==
    ASSUME TypeOK, NEW w \in Workers, inbox[w] # <<>>
    PROVE  /\ inbox[w] \in Seq(Delivery) /\ Len(inbox[w]) \in Nat
           /\ 1 \in 1..Len(inbox[w]) /\ Current(w) = inbox[w][1]
           /\ Current(w) \in Delivery
<1>1. inbox[w] \in Seq(Delivery)
  BY DEF TypeOK
<1>2. Len(inbox[w]) \in Nat /\ Len(inbox[w]) # 0
  BY <1>1, EmptySeq, LenProperties
<1> QED BY <1>1, <1>2, ElementOfSeq DEF Current

\* A message that nobody holds has no open copy.
LEMMA UnheldIsClosed ==
    ASSUME NEW m, ~Held(m)
    PROVE  Open(m) = {}
  BY DEF Open, Held, Copies

\* A step that adds no copy of m and no run of it: m is paid for as before, if it is
\* offered again only for a fault, for a copy that has been used up, or after its copies
\* have gone, which was paid for then.
LEMMA RunsKept ==
    ASSUME TypeOK, TypeOK', NEW m \in Messages, RunsPaid(m),
           Open(m)' \subseteq Open(m), handled'[m] = handled[m], faults <= faults',
           server'[m] = "ready" =>
              \/ server[m] = "ready"
              \/ faults < faults'
              \/ \E n \in Open(m) : n \notin Open(m)'
              \/ server[m] = "pending" /\ ~Held(m),
           server'[m] = "pending" /\ ~Held(m)' =>
              \/ server[m] = "pending" /\ ~Held(m)
              \/ faults < faults'
    PROVE  RunsPaid(m)'
<1> DEFINE a == Cardinality(Open(m))
           b == Cardinality(Open(m)')
<1>1. Open(m) \in SUBSET (1..MaxDeliver) /\ Open(m)' \in SUBSET (1..MaxDeliver)
  BY DEF Open
<1>2. a \in Nat /\ b \in Nat /\ b <= a
  BY <1>1, Counting
<1>3. handled[m] \in Nat /\ faults \in Nat /\ faults' \in Nat
  BY ConsumerAssumption DEF TypeOK
<1>4. ASSUME NEW n \in Open(m), n \notin Open(m)' PROVE b + 1 <= a
  <2>1. Open(m)' \subseteq Open(m) \ {n}
    BY <1>4
  <2> QED BY <1>1, <2>1, Counting
<1>5. ~Held(m) => a = 0
  BY UnheldIsClosed, FS_EmptySet
<1>6. /\ handled[m] + a <= 1 + faults
      /\ server[m] = "ready" => handled[m] + a <= faults
      /\ server[m] = "pending" /\ ~Held(m) => handled[m] <= faults
  BY DEF RunsPaid
<1> HIDE DEF a, b
<1>7. handled'[m] + b <= 1 + faults'
  BY <1>2, <1>3, <1>6
<1>8. server'[m] = "ready" => handled'[m] + b <= faults'
  BY <1>2, <1>3, <1>4, <1>5, <1>6
<1>9. server'[m] = "pending" /\ ~Held(m)' => handled'[m] <= faults'
  BY <1>2, <1>3, <1>6
<1> QED BY <1>7, <1>8, <1>9 DEF RunsPaid, b

\* The initial state satisfies the invariant.
LEMMA InitInv == Init => IInv
<1> SUFFICES ASSUME Init PROVE IInv
  OBVIOUS
<1> USE ConsumerAssumption DEF Init
<1>1. TypeOK
  BY EmptySeq DEF TypeOK
<1>2. \A w \in Workers : Len(inbox[w]) = 0
  BY EmptySeq
<1>3. PlaceInv /\ ReadyInv /\ DoneIsAccountedFor
  BY DEF PlaceInv, ReadyInv, DoneIsAccountedFor
<1>4. CopyInv /\ QuietInv
  BY <1>2 DEF CopyInv, QuietInv
<1>5. \A m \in Messages : Open(m) = {}
  BY <1>2 DEF Open
<1>6. \A m \in Messages : Cardinality(Open(m)) = 0 /\ handled[m] = 0 /\ server[m] = "ready"
  BY <1>5, FS_EmptySet
<1>7. \A m \in Messages : RunsPaid(m)
  BY <1>6 DEF RunsPaid
<1> QED BY <1>1, <1>3, <1>4, <1>7 DEF IInv

\* After Continue(w) the first copy is gone, the others have moved up, and w waits.
LEMMA MovedUp ==
    ASSUME TypeOK, NEW w \in Workers, inbox[w] # <<>>, Continue(w)
    PROVE  /\ inbox' \in [Workers -> Seq(Delivery)]
           /\ pc' \in [Workers -> {"wait", "ack", "catch", "term"}] /\ pc'[w] = "wait"
           /\ \A v \in Workers \ {w} : inbox'[v] = inbox[v] /\ pc'[v] = pc[v]
           /\ Len(inbox'[w]) = Len(inbox[w]) - 1
           /\ \A i \in 1..Len(inbox'[w]) :
                 i + 1 \in 1..Len(inbox[w]) /\ inbox'[w][i] = inbox[w][i + 1]
           /\ \A i \in 2..Len(inbox[w]) :
                 i - 1 \in 1..Len(inbox'[w]) /\ inbox'[w][i - 1] = inbox[w][i]
<1>1. inbox[w] \in Seq(Delivery) /\ Len(inbox[w]) \in Nat
  BY CurrentIsFirst
<1>2. /\ inbox \in [Workers -> Seq(Delivery)]
      /\ pc \in [Workers -> {"wait", "ack", "catch", "term"}]
  BY DEF TypeOK
<1>3. inbox'[w] = Tail(inbox[w]) /\ \A v \in Workers \ {w} : inbox'[v] = inbox[v]
  BY <1>2 DEF Continue
<1>4. /\ Tail(inbox[w]) \in Seq(Delivery) /\ Len(Tail(inbox[w])) = Len(inbox[w]) - 1
      /\ \A i \in 1..Len(Tail(inbox[w])) : Tail(inbox[w])[i] = inbox[w][i + 1]
  BY <1>1, HeadTailProperties
<1>5. /\ pc' \in [Workers -> {"wait", "ack", "catch", "term"}] /\ pc'[w] = "wait"
      /\ \A v \in Workers \ {w} : pc'[v] = pc[v]
  BY <1>2 DEF Continue
<1>6. inbox' \in [Workers -> Seq(Delivery)]
  BY <1>2, <1>4 DEF Continue
<1> QED BY <1>1, <1>3, <1>4, <1>5, <1>6

\* What that does to the copies: no new ones appear, only the first of w is gone, and it
\* was an open one unless it had been handled or recorded.
LEMMA CopiesMovedUp ==
    ASSUME TypeOK, CopyInv, NEW w \in Workers, inbox[w] # <<>>, Continue(w),
           deliveries' = deliveries, NEW d, d = Current(w)
    PROVE  /\ CopyInv'
           /\ \A v \in Workers : \A i \in 1..Len(inbox'[v]) :
                 inbox'[v][i] # d /\ \E j \in 1..Len(inbox[v]) : inbox'[v][i] = inbox[v][j]
           /\ \A m : Open(m)' \subseteq Open(m)
           /\ d.n \notin Open(d.m)'
           /\ pc[w] \in {"wait", "catch"} => d.n \in Open(d.m)
           /\ \A m : m # d.m /\ Held(m) => Held(m)'
<1>1. /\ inbox[w] \in Seq(Delivery) /\ Len(inbox[w]) \in Nat
      /\ 1 \in 1..Len(inbox[w]) /\ d = inbox[w][1] /\ d \in Delivery
  BY CurrentIsFirst
<1>2. \A v \in Workers : inbox[v] \in Seq(Delivery) /\ Len(inbox[v]) \in Nat
  BY DEF TypeOK
<1>3. /\ pc'[w] = "wait"
      /\ \A v \in Workers \ {w} : inbox'[v] = inbox[v] /\ pc'[v] = pc[v]
      /\ Len(inbox'[w]) = Len(inbox[w]) - 1
      /\ \A i \in 1..Len(inbox'[w]) :
            i + 1 \in 1..Len(inbox[w]) /\ inbox'[w][i] = inbox[w][i + 1]
      /\ \A i \in 2..Len(inbox[w]) :
            i - 1 \in 1..Len(inbox'[w]) /\ inbox'[w][i - 1] = inbox[w][i]
  BY MovedUp
<1> DEFINE from(v, i) == IF v = w THEN i + 1 ELSE i
<1>4. ASSUME NEW v \in Workers, NEW i \in 1..Len(inbox'[v])
      PROVE  /\ from(v, i) \in 1..Len(inbox[v]) /\ inbox'[v][i] = inbox[v][from(v, i)]
             /\ ~(v = w /\ from(v, i) = 1)
             /\ from(v, i) = 1 => i = 1 /\ pc'[v] = pc[v]
  BY <1>2, <1>3
<1>5. CopyInv'
  <2>1. \A v \in Workers : \A i \in 1..Len(inbox'[v]) :
           inbox'[v][i].n <= deliveries'[inbox'[v][i].m]
    BY <1>4, SMTT(20) DEF CopyInv
  <2>2. ASSUME NEW u \in Workers, NEW v \in Workers, NEW i \in 1..Len(inbox'[u]),
               NEW j \in 1..Len(inbox'[v]), inbox'[u][i] = inbox'[v][j]
        PROVE  u = v /\ i = j
    <3>1. inbox[u][from(u, i)] = inbox[v][from(v, j)]
      BY <1>4, <2>2
    <3>2. u = v /\ from(u, i) = from(v, j)
      BY <1>4, <3>1 DEF CopyInv
    <3>3. i \in Int /\ j \in Int
      OBVIOUS
    <3> QED BY <3>2, <3>3
  <2> QED BY <2>1, <2>2 DEF CopyInv
<1>6. ASSUME NEW v \in Workers, NEW i \in 1..Len(inbox'[v])
      PROVE  inbox'[v][i] # d
  <2>1. inbox'[v][i] = inbox[v][from(v, i)] /\ from(v, i) \in 1..Len(inbox[v])
    BY <1>4
  <2>2. inbox[v][from(v, i)] = inbox[w][1] => v = w /\ from(v, i) = 1
    BY <1>1, <2>1 DEF CopyInv
  <2> QED BY <1>1, <1>4, <2>1, <2>2
<1>7. ASSUME NEW m PROVE Open(m)' \subseteq Open(m)
  <2> SUFFICES ASSUME NEW n \in Open(m)' PROVE n \in Open(m)
    OBVIOUS
  <2>1. PICK v \in Workers : \E i \in 1..Len(inbox'[v]) :
           /\ inbox'[v][i] = [m |-> m, n |-> n]
           /\ i = 1 => pc'[v] \in {"wait", "catch"}
    BY DEF Open
  <2>2. PICK i \in 1..Len(inbox'[v]) : /\ inbox'[v][i] = [m |-> m, n |-> n]
                                       /\ i = 1 => pc'[v] \in {"wait", "catch"}
    BY <2>1
  <2>3. /\ from(v, i) \in 1..Len(inbox[v]) /\ inbox[v][from(v, i)] = [m |-> m, n |-> n]
        /\ from(v, i) = 1 => pc[v] \in {"wait", "catch"}
    BY <1>4, <2>2
  <2>4. n \in 1..MaxDeliver
    BY DEF Open
  <2> HIDE DEF from
  <2> QED BY <2>3, <2>4 DEF Open
<1>8. d = [m |-> d.m, n |-> d.n] /\ d.n \in 1..MaxDeliver
  BY <1>1 DEF Delivery
<1>9. d.n \notin Open(d.m)'
  BY <1>6, <1>8 DEF Open
<1>10. pc[w] \in {"wait", "catch"} => d.n \in Open(d.m)
  BY <1>1, <1>8 DEF Open
<1>11. ASSUME NEW m, m # d.m, Held(m) PROVE Held(m)'
  <2>1. PICK v \in Workers : \E i \in 1..Len(inbox[v]) : inbox[v][i].m = m
    BY <1>11 DEF Held, Copies
  <2>2. PICK i \in 1..Len(inbox[v]) : inbox[v][i].m = m
    BY <2>1
  <2>3. \E j \in 1..Len(inbox'[v]) : inbox'[v][j].m = m
    <3>1. CASE v = w
      <4>1. i # 1
        BY <1>1, <1>11, <2>2, <3>1
      <4>2. i \in 2..Len(inbox[w])
        BY <1>1, <3>1, <4>1
      <4> QED BY <1>3, <2>2, <3>1, <4>2
    <3>2. CASE v # w
      BY <1>3, <2>2, <3>2
    <3> QED BY <3>1, <3>2
  <2> QED BY <2>3 DEF Held, Copies
<1>12. \A v \in Workers : \A i \in 1..Len(inbox'[v]) :
          \E j \in 1..Len(inbox[v]) : inbox'[v][i] = inbox[v][j]
  BY <1>4
<1> HIDE DEF from
<1> QED BY <1>5, <1>6, <1>7, <1>9, <1>10, <1>11, <1>12

\* A replica that goes on to its next message, with its current one's server state
\* becoming s: the invariant is kept if the message is offered again only after a
\* refusal or a fault, is removed only when it is accounted for, and is given up or
\* left pending only for a fault.
LEMMA Finished ==
    ASSUME IInv, NEW w \in Workers, inbox[w] # <<>>, Continue(w),
           NEW d, d = Current(w), NEW s \in {"ready", "pending", "done", "exhausted"},
           server' = [server EXCEPT ![d.m] = s],
           deliveries' = deliveries, handled' = handled, deadLetter' = deadLetter,
           faults' \in 0..MaxFaults, faults <= faults',
           s = "ready" => \/ server[d.m] = "ready"
                          \/ /\ deliveries[d.m] < MaxDeliver
                             /\ pc[w] = "catch" \/ faults < faults',
           s = "pending" => faults < faults',
           s = "done" => server[d.m] = "done" \/ handled[d.m] > 0 \/ d.m \in deadLetter,
           s = "exhausted" => faults' > 0
    PROVE  IInv'
<1> USE DEF IInv
<1>1. d \in Delivery /\ d.m \in Messages /\ d.n \in 1..MaxDeliver
  BY CurrentIsFirst DEF Delivery
<1>2. TypeOK'
  BY <1>1, MovedUp DEF TypeOK
<1>3. /\ CopyInv'
      /\ \A v \in Workers : \A i \in 1..Len(inbox'[v]) :
            inbox'[v][i] # d /\ \E j \in 1..Len(inbox[v]) : inbox'[v][i] = inbox[v][j]
      /\ \A m : Open(m)' \subseteq Open(m)
      /\ d.n \notin Open(d.m)'
      /\ pc[w] \in {"wait", "catch"} => d.n \in Open(d.m)
      /\ \A m : m # d.m /\ Held(m) => Held(m)'
  BY CopiesMovedUp
<1>4. /\ server'[d.m] = s
      /\ \A m \in Messages : m # d.m => server'[m] = server[m]
  BY <1>1 DEF TypeOK
<1>5. PlaceInv'
  <2>1. pc'[w] = "wait" /\ \A v \in Workers \ {w} : inbox'[v] = inbox[v] /\ pc'[v] = pc[v]
    BY MovedUp
  <2>2. \A v \in Workers \ {w} : Current(v)' = Current(v)
    BY <2>1 DEF Current
  <2> QED BY <2>1, <2>2 DEF PlaceInv
<1>6. ReadyInv'
  BY <1>1, <1>4 DEF ReadyInv
<1>7. DoneIsAccountedFor'
  BY <1>1, <1>4 DEF DoneIsAccountedFor
<1>8. ASSUME NEW m \in Messages PROVE RunsPaid(m)'
  <2>1. server'[m] = "ready" =>
           \/ server[m] = "ready" \/ faults < faults'
           \/ \E n \in Open(m) : n \notin Open(m)'
           \/ server[m] = "pending" /\ ~Held(m)
    <3>1. CASE m = d.m
      BY <1>3, <1>4, <3>1
    <3>2. CASE m # d.m
      BY <1>4, <3>2
    <3> QED BY <3>1, <3>2
  <2>2. server'[m] = "pending" /\ ~Held(m)' =>
           (server[m] = "pending" /\ ~Held(m)) \/ faults < faults'
    BY <1>3, <1>4
  <2>3. Open(m)' \subseteq Open(m) /\ RunsPaid(m) /\ handled'[m] = handled[m]
    BY <1>3
  <2> QED BY <1>2, <2>1, <2>2, <2>3, RunsKept
<1>9. QuietInv'
  <2> SUFFICES ASSUME faults' = 0
               PROVE  /\ \A m \in Messages : server'[m] # "exhausted"
                      /\ \A m \in Messages : server'[m] = "pending" => Held(m)'
                      /\ \A v \in Workers : \A i \in 1..Len(inbox'[v]) :
                            /\ server'[inbox'[v][i].m] = "pending"
                            /\ inbox'[v][i].n = deliveries'[inbox'[v][i].m]
    BY DEF QuietInv
  <2>1. faults = 0 /\ s \notin {"pending", "exhausted"}
    BY ConsumerAssumption DEF TypeOK
  <2>2. /\ \A m \in Messages : server[m] # "exhausted"
        /\ \A m \in Messages : server[m] = "pending" => Held(m)
        /\ \A v \in Workers : \A i \in 1..Len(inbox[v]) :
              /\ server[inbox[v][i].m] = "pending"
              /\ inbox[v][i].n = deliveries[inbox[v][i].m]
    BY <2>1 DEF QuietInv
  <2>3. \A m \in Messages : server'[m] # "exhausted"
    BY <1>4, <2>1, <2>2
  <2>4. \A m \in Messages : server'[m] = "pending" => Held(m)'
    BY <1>3, <1>4, <2>1, <2>2
  <2>5. ASSUME NEW v \in Workers, NEW i \in 1..Len(inbox'[v])
        PROVE  /\ server'[inbox'[v][i].m] = "pending"
               /\ inbox'[v][i].n = deliveries'[inbox'[v][i].m]
    <3>1. PICK j \in 1..Len(inbox[v]) : inbox'[v][i] = inbox[v][j]
      BY <1>3
    <3>2. inbox[v][j] \in Delivery
      BY ElementOfSeq DEF TypeOK
    <3>3. PICK e \in Delivery : e = inbox[v][j]
      BY <3>2
    <3>4. e # d /\ server[e.m] = "pending" /\ e.n = deliveries[e.m]
      BY <1>3, <2>2, <3>1, <3>3
    <3>5. d.n = deliveries[d.m]
      BY <2>2, CurrentIsFirst
    <3>6. e.m # d.m /\ e.m \in Messages
      BY <1>1, <3>4, <3>5 DEF Delivery
    <3> QED BY <1>4, <3>1, <3>3, <3>4, <3>6
  <2> QED BY <2>3, <2>4, <2>5
<1> QED BY <1>2, <1>3, <1>5, <1>6, <1>7, <1>8, <1>9

\* The steps after which a replica goes on to its next message.
LEMMA FinishingSteps ==
    ASSUME IInv, NEW w \in Workers, Ack(w) \/ Retry(w) \/ Term(w) \/ AnswerLost(w)
    PROVE  IInv'
<1>1. PICK d : d = Current(w)
  OBVIOUS
<1>2. /\ inbox[w] # <<>>
      /\ pc[w] = "ack" => handled[d.m] > 0
      /\ pc[w] = "term" => d.m \in deadLetter
  BY <1>1 DEF IInv, PlaceInv, Ack, Retry, Term, AnswerLost
<1>3. d.m \in Messages /\ d.n \in 1..MaxDeliver
  BY <1>1, <1>2, CurrentIsFirst DEF IInv, Delivery
<1>4. /\ server \in [Messages -> {"ready", "pending", "done", "exhausted"}]
      /\ deliveries \in [Messages -> 0..MaxDeliver] /\ faults \in 0..MaxFaults
  BY DEF IInv, TypeOK
<1>5. CASE Ack(w) \/ Term(w)
  <2>1. server' = [server EXCEPT ![d.m] = "done"] /\ (handled[d.m] > 0 \/ d.m \in deadLetter)
    BY <1>1, <1>2, <1>5 DEF Ack, Term, Remove
  <2>2. Continue(w) /\ UNCHANGED <<deliveries, handled, deadLetter, faults>>
    BY <1>5 DEF Ack, Term
  <2>3. faults' \in 0..MaxFaults /\ faults <= faults'
    BY <1>4, <2>2, ConsumerAssumption
  <2> QED BY <1>1, <1>2, <2>1, <2>2, <2>3, Finished, Zenon
<1>6. CASE Retry(w)
  <2>1. PICK s : s = IF server[d.m] # "pending" THEN server[d.m]
                     ELSE IF deliveries[d.m] < MaxDeliver THEN "ready" ELSE "exhausted"
    OBVIOUS
  <2>2. server' = [server EXCEPT ![d.m] = s] /\ s \in {"ready", "pending", "done", "exhausted"}
    BY <1>1, <1>3, <1>4, <1>6, <2>1 DEF Retry, Nak, Requeue
  <2>3. faults = 0 => server[d.m] = "pending" /\ d.n = deliveries[d.m]
    BY <1>1, <1>2, CurrentIsFirst DEF IInv, QuietInv
  <2>4. d.n < MaxDeliver
    BY <1>1, <1>3, <1>6, ConsumerAssumption DEF Retry, LastDelivery
  <2>5. s = "exhausted" => faults > 0
    BY <1>4, <2>1, <2>3, <2>4, ConsumerAssumption
  <2>6. s # "pending" /\ (s = "done" => server[d.m] = "done")
    BY <2>1
  <2>7. /\ s = "ready" => server[d.m] = "ready" \/ deliveries[d.m] < MaxDeliver
        /\ pc[w] = "catch" /\ Continue(w)
        /\ UNCHANGED <<deliveries, handled, deadLetter, faults>>
    BY <1>6, <2>1 DEF Retry, Nak
  <2>8. faults' \in 0..MaxFaults /\ faults <= faults' /\ (s = "exhausted" => faults' > 0)
    BY <1>4, <2>5, <2>7, ConsumerAssumption
  <2> QED BY <1>1, <1>2, <2>2, <2>6, <2>7, <2>8, Finished, Zenon
<1>7. CASE AnswerLost(w)
  <2>1. PICK s : s = server[d.m]
    OBVIOUS
  <2>2. server' = [server EXCEPT ![d.m] = s] /\ s \in {"ready", "pending", "done", "exhausted"}
    BY <1>3, <1>4, <1>7, <2>1 DEF AnswerLost
  <2>3. faults' \in 0..MaxFaults /\ faults <= faults' /\ faults < faults' /\ faults' > 0
    BY <1>4, <1>7, ConsumerAssumption DEF AnswerLost
  <2>4. Continue(w) /\ UNCHANGED <<deliveries, handled, deadLetter>>
    BY <1>7 DEF AnswerLost
  <2> QED BY <1>1, <1>2, <2>1, <2>2, <2>3, <2>4, Finished, Zenon
<1> QED BY <1>5, <1>6, <1>7

\* The last delivery fails: it goes on record, or the record fails too.
LEMMA ExhaustStep ==
    ASSUME IInv, NEW w \in Workers, Exhaust(w)
    PROVE  IInv'
<1>1. PICK d : d = Current(w)
  OBVIOUS
<1>2. inbox[w] # <<>> /\ pc[w] = "catch"
  BY DEF IInv, PlaceInv, Exhaust
<1>3. d.m \in Messages /\ d.n \in 1..MaxDeliver
  BY <1>1, <1>2, CurrentIsFirst DEF IInv, Delivery
<1>4. /\ server \in [Messages -> {"ready", "pending", "done", "exhausted"}]
      /\ deliveries \in [Messages -> 0..MaxDeliver] /\ faults \in 0..MaxFaults
  BY DEF IInv, TypeOK
<1>5. CASE faults' = faults + 1 /\ faults < MaxFaults /\ Nak(w) /\ UNCHANGED deadLetter
  <2>1. PICK s : s = IF server[d.m] # "pending" THEN server[d.m]
                     ELSE IF deliveries[d.m] < MaxDeliver THEN "ready" ELSE "exhausted"
    OBVIOUS
  <2>2. server' = [server EXCEPT ![d.m] = s] /\ s \in {"ready", "pending", "done", "exhausted"}
    BY <1>1, <1>3, <1>4, <1>5, <2>1 DEF Nak, Requeue
  <2>3. faults' \in 0..MaxFaults /\ faults <= faults' /\ faults < faults' /\ faults' > 0
    BY <1>4, <1>5, ConsumerAssumption
  <2>4. /\ s # "pending" /\ (s = "done" => server[d.m] = "done")
        /\ s = "ready" => server[d.m] = "ready" \/ deliveries[d.m] < MaxDeliver
    BY <2>1
  <2>5. Continue(w) /\ UNCHANGED <<deliveries, handled, deadLetter>>
    BY <1>5 DEF Exhaust, Nak
  <2> QED BY <1>1, <1>2, <2>2, <2>3, <2>4, <2>5, Finished, Zenon
<1>6. CASE /\ RecordDeadLetter(Current(w).m) /\ pc' = [pc EXCEPT ![w] = "term"]
           /\ UNCHANGED <<server, inbox, faults>>
  <2> USE DEF IInv
  <2>1. /\ deadLetter' = deadLetter \cup {d.m} /\ pc'[w] = "term"
        /\ \A v \in Workers \ {w} : pc'[v] = pc[v]
        /\ UNCHANGED <<server, deliveries, inbox, handled, faults>>
    BY <1>1, <1>6 DEF Exhaust, RecordDeadLetter, TypeOK
  <2>2. TypeOK'
    BY <1>3, <1>6, <2>1 DEF TypeOK
  <2>3. \A v \in Workers : Current(v)' = Current(v)
    BY <2>1 DEF Current
  <2>4. PlaceInv'
    BY <1>1, <1>2, <2>1, <2>3 DEF PlaceInv
  <2>5. CopyInv' /\ ReadyInv' /\ QuietInv' /\ DoneIsAccountedFor'
    BY <2>1 DEF CopyInv, ReadyInv, QuietInv, DoneIsAccountedFor, Held, Copies
  <2>6. ASSUME NEW m \in Messages PROVE RunsPaid(m)'
    <3>1. Open(m)' \subseteq Open(m)
      BY <1>2, <2>1 DEF Open
    <3>2. Held(m)' = Held(m)
      BY <2>1 DEF Held, Copies
    <3>3. faults <= faults' /\ RunsPaid(m)
      BY <1>4, <2>1, ConsumerAssumption
    <3> QED BY <2>1, <2>2, <3>1, <3>2, <3>3, RunsKept
  <2> QED BY <2>2, <2>4, <2>5, <2>6
<1> QED BY <1>5, <1>6 DEF Exhaust

\* The handler returns or throws.
LEMMA HandleStep ==
    ASSUME IInv, NEW w \in Workers, Handle(w)
    PROVE  IInv'
<1> USE DEF IInv
<1>1. PICK d : d = Current(w)
  OBVIOUS
<1>2. /\ inbox[w] # <<>> /\ pc[w] = "wait"
      /\ UNCHANGED <<server, deliveries, inbox, deadLetter, faults>>
  BY DEF Handle
<1>3. 1 \in 1..Len(inbox[w]) /\ d = inbox[w][1] /\ d \in Delivery
  BY <1>1, <1>2, CurrentIsFirst
<1>4. d.m \in Messages /\ d.n \in 1..MaxDeliver /\ d = [m |-> d.m, n |-> d.n]
  BY <1>3 DEF Delivery
<1>5. /\ handled \in [Messages -> Nat] /\ faults \in Nat
      /\ pc \in [Workers -> {"wait", "ack", "catch", "term"}]
  BY ConsumerAssumption DEF TypeOK
<1>6. /\ pc' \in [Workers -> {"wait", "ack", "catch", "term"}]
      /\ pc'[w] \in {"ack", "catch"} /\ \A v \in Workers \ {w} : pc'[v] = pc[v]
      /\ pc'[w] = "ack" => handled' = [handled EXCEPT ![d.m] = @ + 1]
      /\ pc'[w] = "catch" => handled' = handled
  BY <1>1, <1>5 DEF Handle
<1>7. /\ \A m \in Messages : handled'[m] = handled[m]
                               \/ (m = d.m /\ pc'[w] = "ack" /\ handled'[m] = handled[m] + 1)
      /\ pc'[w] = "ack" => handled'[d.m] = handled[d.m] + 1
      /\ handled' \in [Messages -> Nat]
  BY <1>4, <1>5, <1>6
<1>8. TypeOK'
  BY <1>2, <1>6, <1>7 DEF TypeOK
<1>9. \A m \in Messages : handled[m] \in Nat /\ handled'[m] \in Nat /\ handled[m] <= handled'[m]
  BY <1>5, <1>7
<1>10. \A v \in Workers : Current(v)' = Current(v)
  BY <1>2 DEF Current
<1>11. PlaceInv'
  <2>1. ASSUME NEW v \in Workers, v # w
        PROVE  /\ pc'[v] # "wait" => inbox'[v] # <<>>
               /\ pc'[v] = "ack" => handled'[Current(v).m] > 0
               /\ pc'[v] = "term" => Current(v).m \in deadLetter'
    <3>1. pc'[v] = "ack" => Current(v).m \in Messages
      BY <1>6, <2>1, CurrentIsFirst DEF PlaceInv, Delivery
    <3> QED BY <1>2, <1>6, <1>9, <2>1, <3>1 DEF PlaceInv
  <2>2. pc'[w] = "ack" => handled'[d.m] > 0
    BY <1>4, <1>7, <1>9
  <2> QED BY <1>1, <1>2, <1>6, <1>10, <2>1, <2>2 DEF PlaceInv
<1>12. CopyInv' /\ ReadyInv' /\ QuietInv'
  BY <1>2 DEF CopyInv, ReadyInv, QuietInv, Held, Copies
<1>13. DoneIsAccountedFor'
  BY <1>2, <1>9 DEF DoneIsAccountedFor
<1>14. ASSUME NEW m \in Messages PROVE RunsPaid(m)'
  <2>1. Held(m)' = Held(m)
    BY <1>2 DEF Held, Copies
  <2>2. Open(m)' \subseteq Open(m)
    BY <1>2, <1>6 DEF Open
  <2>3. CASE handled'[m] = handled[m]
    BY <1>2, <1>5, <1>8, <2>1, <2>2, <2>3, RunsKept
  <2>4. CASE m = d.m /\ pc'[w] = "ack" /\ handled'[m] = handled[m] + 1
    <3>1. d.n \in Open(m)
      BY <1>2, <1>3, <1>4, <2>4 DEF Open
    <3>2. d.n \notin Open(m)'
      <4> SUFFICES ASSUME d.n \in Open(m)' PROVE FALSE
        OBVIOUS
      <4>1. PICK v \in Workers : \E i \in 1..Len(inbox[v]) :
               /\ inbox[v][i] = [m |-> m, n |-> d.n]
               /\ i = 1 => pc'[v] \in {"wait", "catch"}
        BY <1>2 DEF Open
      <4>2. v = w
        BY <1>3, <1>4, <2>4, <4>1 DEF CopyInv
      <4>3. \A i \in 1..Len(inbox[w]) : inbox[w][i] = inbox[w][1] => i = 1
        BY <1>3 DEF CopyInv
      <4> QED BY <1>3, <1>4, <2>4, <4>1, <4>2, <4>3
    <3> DEFINE a == Cardinality(Open(m))
               b == Cardinality(Open(m)')
    <3>3. Open(m) \in SUBSET (1..MaxDeliver) /\ Open(m)' \in SUBSET (1..MaxDeliver)
      BY DEF Open
    <3>4. Open(m)' \subseteq Open(m) \ {d.n}
      BY <2>2, <3>2
    <3>5. a \in Nat /\ b \in Nat /\ b + 1 <= a
      BY <1>4, <3>1, <3>3, <3>4, Counting
    <3>6. /\ handled[m] + a <= 1 + faults
          /\ server[m] = "ready" => handled[m] + a <= faults
      BY DEF RunsPaid
    <3>7. Held(m)'
      BY <1>2, <1>3, <2>4 DEF Held, Copies
    <3> HIDE DEF a, b
    <3>8. /\ handled'[m] + b <= 1 + faults'
          /\ server'[m] = "ready" => handled'[m] + b <= faults'
      BY <1>2, <1>5, <2>4, <3>5, <3>6
    <3> QED BY <3>7, <3>8 DEF RunsPaid, b
  <2> QED BY <1>7, <2>3, <2>4
<1> QED BY <1>8, <1>11, <1>12, <1>13, <1>14

\* The server sends a message to a replica.
LEMMA DeliverStep ==
    ASSUME IInv, NEW w \in Workers, NEW m \in Messages, Deliver(w, m)
    PROVE  IInv'
<1> USE DEF IInv
<1>1. PICK d : d = [m |-> m, n |-> deliveries[m] + 1]
  OBVIOUS
<1>2. /\ server \in [Messages -> {"ready", "pending", "done", "exhausted"}]
      /\ deliveries \in [Messages -> 0..MaxDeliver] /\ faults \in 0..MaxFaults
      /\ inbox \in [Workers -> Seq(Delivery)]
  BY DEF TypeOK
<1>3. /\ server[m] = "ready" /\ UNCHANGED <<pc, handled, deadLetter, faults>>
      /\ server' = [server EXCEPT ![m] = "pending"]
      /\ deliveries' = [deliveries EXCEPT ![m] = @ + 1]
      /\ inbox' = [inbox EXCEPT ![w] = Append(@, d)]
  BY <1>1 DEF Deliver
<1>4. deliveries[m] < MaxDeliver /\ deliveries[m] \in Nat
  BY <1>2, <1>3, ConsumerAssumption DEF ReadyInv
<1>5. d \in Delivery /\ d.m = m /\ d.n = deliveries[m] + 1 /\ d.n \in 1..MaxDeliver
  BY <1>1, <1>4, ConsumerAssumption DEF Delivery
<1>6. /\ server'[m] = "pending" /\ deliveries'[m] = deliveries[m] + 1
      /\ \A k \in Messages \ {m} : server'[k] = server[k] /\ deliveries'[k] = deliveries[k]
      /\ server' \in [Messages -> {"ready", "pending", "done", "exhausted"}]
      /\ deliveries' \in [Messages -> 0..MaxDeliver]
  BY <1>2, <1>3, <1>4, ConsumerAssumption
<1>7. /\ inbox[w] \in Seq(Delivery) /\ Len(inbox[w]) \in Nat
      /\ Append(inbox[w], d) \in Seq(Delivery)
      /\ Len(Append(inbox[w], d)) = Len(inbox[w]) + 1
      /\ \A i \in 1..Len(inbox[w]) : Append(inbox[w], d)[i] = inbox[w][i]
      /\ Append(inbox[w], d)[Len(inbox[w]) + 1] = d
  BY <1>2, <1>5, AppendProperties, LenProperties
<1>8. /\ inbox' \in [Workers -> Seq(Delivery)]
      /\ \A v \in Workers \ {w} : inbox'[v] = inbox[v]
      /\ inbox'[w] = Append(inbox[w], d)
  BY <1>2, <1>3, <1>7
<1>9. TypeOK'
  BY <1>3, <1>6, <1>8 DEF TypeOK
<1>10. /\ \A v \in Workers : \A i \in 1..Len(inbox[v]) :
             i \in 1..Len(inbox'[v]) /\ inbox'[v][i] = inbox[v][i]
       /\ \A v \in Workers : \A i \in 1..Len(inbox'[v]) :
             i \in 1..Len(inbox[v]) \/ (v = w /\ i = Len(inbox[w]) + 1 /\ inbox'[v][i] = d)
       /\ Len(inbox[w]) + 1 \in 1..Len(inbox'[w]) /\ inbox'[w][Len(inbox[w]) + 1] = d
  <2>1. Len(inbox'[w]) = Len(inbox[w]) + 1
    BY <1>7, <1>8
  <2>2. /\ \A i \in 1..Len(inbox[w]) : i \in 1..Len(inbox'[w]) /\ inbox'[w][i] = inbox[w][i]
        /\ \A i \in 1..Len(inbox'[w]) : i \in 1..Len(inbox[w]) \/ i = Len(inbox[w]) + 1
        /\ Len(inbox[w]) + 1 \in 1..Len(inbox'[w]) /\ inbox'[w][Len(inbox[w]) + 1] = d
    BY <1>7, <1>8, <2>1
  <2> QED BY <1>8, <2>2
<1>11. \A v \in Workers : \A i \in 1..Len(inbox[v]) :
          /\ inbox[v][i] \in Delivery /\ inbox[v][i].m \in Messages
          /\ inbox[v][i].n \in 1..MaxDeliver
          /\ inbox[v][i].n <= deliveries[inbox[v][i].m]
  <2> SUFFICES ASSUME NEW v \in Workers, NEW i \in 1..Len(inbox[v])
               PROVE  /\ inbox[v][i] \in Delivery /\ inbox[v][i].m \in Messages
                      /\ inbox[v][i].n \in 1..MaxDeliver
                      /\ inbox[v][i].n <= deliveries[inbox[v][i].m]
    OBVIOUS
  <2>1. inbox[v][i] \in Delivery
    BY <1>2, ElementOfSeq
  <2>2. inbox[v][i].m \in Messages /\ inbox[v][i].n \in 1..MaxDeliver
    BY <2>1 DEF Delivery
  <2> QED BY <2>1, <2>2 DEF CopyInv
<1>12. \A v \in Workers : \A i \in 1..Len(inbox[v]) : inbox[v][i] # d
  BY <1>4, <1>5, <1>11
<1>13. PlaceInv'
  <2>1. \A v \in Workers :
           inbox[v] # <<>> => inbox'[v] # <<>> /\ Current(v)' = Current(v)
    <3> SUFFICES ASSUME NEW v \in Workers, inbox[v] # <<>>
                 PROVE  inbox'[v] # <<>> /\ Current(v)' = Current(v)
      OBVIOUS
    <3>1. 1 \in 1..Len(inbox[v]) /\ Current(v) = inbox[v][1]
      BY CurrentIsFirst
    <3>2. inbox'[v] \in Seq(Delivery) /\ 1 \in 1..Len(inbox'[v]) /\ inbox'[v][1] = inbox[v][1]
      BY <1>8, <1>10, <3>1
    <3>3. inbox'[v] # <<>>
      BY <3>2, EmptySeq
    <3> QED BY <3>1, <3>2, <3>3 DEF Current
  <2> QED BY <1>3, <2>1 DEF PlaceInv
<1>14. CopyInv'
  <2>1. ASSUME NEW v \in Workers, NEW i \in 1..Len(inbox'[v])
        PROVE  inbox'[v][i].n <= deliveries'[inbox'[v][i].m]
    <3>1. CASE i \in 1..Len(inbox[v])
      <4>1. PICK e : e = inbox[v][i]
        OBVIOUS
      <4>2. inbox'[v][i] = e /\ e.m \in Messages /\ e.n \in Nat /\ e.n <= deliveries[e.m]
        BY <1>10, <1>11, <3>1, <4>1
      <4>3. /\ deliveries[e.m] \in Nat /\ deliveries'[e.m] \in Nat
            /\ deliveries[e.m] <= deliveries'[e.m]
        <5>1. CASE e.m = m
          BY <1>4, <1>6, <5>1
        <5>2. CASE e.m # m
          BY <1>2, <1>6, <4>2, <5>2, ConsumerAssumption
        <5> QED BY <5>1, <5>2
      <4> QED BY <4>2, <4>3
    <3>2. CASE inbox'[v][i] = d
      BY <1>4, <1>5, <1>6, <3>2
    <3> QED BY <1>10, <3>1, <3>2
  <2>2. ASSUME NEW u \in Workers, NEW v \in Workers, NEW i \in 1..Len(inbox'[u]),
               NEW j \in 1..Len(inbox'[v]), inbox'[u][i] = inbox'[v][j]
        PROVE  u = v /\ i = j
    <3>1. CASE i \in 1..Len(inbox[u]) /\ j \in 1..Len(inbox[v])
      BY <1>10, <2>2, <3>1, SMTT(20) DEF CopyInv
    <3>2. CASE i \notin 1..Len(inbox[u]) \/ j \notin 1..Len(inbox[v])
      <4>1. inbox'[u][i] = d /\ inbox'[v][j] = d
        BY <1>10, <2>2, <3>2
      <4>2. \A x \in Workers : \A k \in 1..Len(inbox[x]) : inbox'[x][k] # d
        <5>1. ASSUME NEW x \in Workers, NEW k \in 1..Len(inbox[x]) PROVE inbox'[x][k] # d
          <6>1. inbox'[x][k] = inbox[x][k]
            BY <1>10
          <6> QED BY <1>12, <6>1
        <5> QED BY <5>1
      <4>3. i \notin 1..Len(inbox[u]) /\ j \notin 1..Len(inbox[v])
        BY <4>1, <4>2
      <4> QED BY <1>10, <4>3
    <3> QED BY <3>1, <3>2
  <2> QED BY <2>1, <2>2 DEF CopyInv
<1>15. ReadyInv' /\ DoneIsAccountedFor'
  BY <1>3, <1>6 DEF ReadyInv, DoneIsAccountedFor
<1>16. /\ Held(m)'
       /\ \A k : Held(k) => Held(k)'
  <2>1. \E i \in 1..Len(inbox'[w]) : inbox'[w][i].m = m
    BY <1>5, <1>10
  <2>2. ASSUME NEW k, Held(k) PROVE Held(k)'
    <3>1. PICK v \in Workers : \E i \in 1..Len(inbox[v]) : inbox[v][i].m = k
      BY <2>2 DEF Held, Copies
    <3>2. \E i \in 1..Len(inbox'[v]) : inbox'[v][i].m = k
      BY <1>10, <3>1
    <3> QED BY <3>2 DEF Held, Copies
  <2>3. Held(m)'
    BY <2>1 DEF Held, Copies
  <2> QED BY <2>2, <2>3
<1>17. QuietInv'
  <2> SUFFICES ASSUME faults' = 0
               PROVE  /\ \A k \in Messages : server'[k] # "exhausted"
                      /\ \A k \in Messages : server'[k] = "pending" => Held(k)'
                      /\ \A v \in Workers : \A i \in 1..Len(inbox'[v]) :
                            /\ server'[inbox'[v][i].m] = "pending"
                            /\ inbox'[v][i].n = deliveries'[inbox'[v][i].m]
    BY DEF QuietInv
  <2>1. /\ \A k \in Messages : server[k] # "exhausted"
        /\ \A k \in Messages : server[k] = "pending" => Held(k)
        /\ \A v \in Workers : \A i \in 1..Len(inbox[v]) :
              /\ server[inbox[v][i].m] = "pending"
              /\ inbox[v][i].n = deliveries[inbox[v][i].m]
    BY <1>3 DEF QuietInv
  <2>2. \A k \in Messages : server'[k] # "exhausted"
    BY <1>6, <2>1
  <2>3. \A k \in Messages : server'[k] = "pending" => Held(k)'
    BY <1>6, <1>16, <2>1
  <2>4. ASSUME NEW v \in Workers, NEW i \in 1..Len(inbox'[v])
        PROVE  /\ server'[inbox'[v][i].m] = "pending"
               /\ inbox'[v][i].n = deliveries'[inbox'[v][i].m]
    <3>1. CASE i \in 1..Len(inbox[v])
      <4>1. PICK e : e = inbox[v][i]
        OBVIOUS
      <4>2. /\ inbox'[v][i] = e /\ e.m \in Messages
            /\ server[e.m] = "pending" /\ e.n = deliveries[e.m]
        BY <1>10, <1>11, <2>1, <3>1, <4>1
      <4> QED BY <1>3, <1>6, <4>2
    <3>2. CASE inbox'[v][i] = d
      BY <1>5, <1>6, <3>2
    <3> QED BY <1>10, <3>1, <3>2
  <2> QED BY <2>2, <2>3, <2>4
<1>18. ASSUME NEW k, NEW n \in Open(k)' PROVE n \in Open(k) \/ (k = m /\ n = d.n)
  <2>1. PICK v \in Workers : \E i \in 1..Len(inbox'[v]) :
           /\ inbox'[v][i] = [m |-> k, n |-> n]
           /\ i = 1 => pc[v] \in {"wait", "catch"}
    BY <1>3 DEF Open
  <2>2. PICK i \in 1..Len(inbox'[v]) : /\ inbox'[v][i] = [m |-> k, n |-> n]
                                       /\ i = 1 => pc[v] \in {"wait", "catch"}
    BY <2>1
  <2>3. CASE i \in 1..Len(inbox[v])
    BY <1>10, <2>2, <2>3 DEF Open
  <2>4. CASE inbox'[v][i] = d
    BY <1>5, <2>2, <2>4
  <2> QED BY <1>10, <2>3, <2>4
<1>19. ASSUME NEW k \in Messages, k # m PROVE RunsPaid(k)'
  <2>1. Open(k)' \subseteq Open(k) /\ RunsPaid(k)
    BY <1>18, <1>19
  <2>2. server'[k] = server[k] /\ handled'[k] = handled[k] /\ faults <= faults'
    BY <1>2, <1>3, <1>6, <1>19, ConsumerAssumption
  <2> QED BY <1>9, <1>16, <2>1, <2>2, RunsKept
<1>20. RunsPaid(m)'
  <2> DEFINE a == Cardinality(Open(m))
             b == Cardinality(Open(m)')
  <2>1. Open(m) \in SUBSET (1..MaxDeliver) /\ Open(m)' \in SUBSET (1..MaxDeliver)
    BY DEF Open
  <2>2. Open(m)' \subseteq Open(m) \cup {d.n}
    BY <1>18
  <2>3. a \in Nat /\ b \in Nat /\ b <= a + 1
    BY <1>5, <2>1, <2>2, Counting
  <2>4. handled[m] + a <= faults
    BY <1>3 DEF RunsPaid
  <2>5. handled[m] \in Nat /\ faults \in Nat
    BY ConsumerAssumption DEF TypeOK
  <2> HIDE DEF a, b
  <2>6. handled'[m] + b <= 1 + faults'
    BY <1>3, <2>3, <2>4, <2>5
  <2> QED BY <1>6, <1>16, <2>6 DEF RunsPaid, b
<1> QED BY <1>9, <1>13, <1>14, <1>15, <1>17, <1>19, <1>20

\* A replica stops and loses what it had received.
LEMMA CrashStep ==
    ASSUME IInv, NEW w \in Workers, Crash(w)
    PROVE  IInv'
<1> USE DEF IInv
<1>1. /\ inbox \in [Workers -> Seq(Delivery)] /\ faults \in 0..MaxFaults
      /\ pc \in [Workers -> {"wait", "ack", "catch", "term"}]
  BY DEF TypeOK
<1>2. /\ pc'[w] = "wait" /\ inbox'[w] = <<>>
      /\ \A v \in Workers \ {w} : inbox'[v] = inbox[v] /\ pc'[v] = pc[v]
      /\ UNCHANGED <<server, deliveries, handled, deadLetter>>
  BY <1>1 DEF Crash
<1>3. faults' \in 0..MaxFaults /\ faults <= faults' /\ faults < faults' /\ faults' # 0
  BY <1>1, ConsumerAssumption DEF Crash
<1>4. TypeOK'
  <2>1. <<>> \in Seq(Delivery)
    BY EmptySeq
  <2> QED BY <1>2, <1>3, <2>1 DEF TypeOK, Crash
<1>5. Len(inbox'[w]) = 0
  BY <1>2, EmptySeq
<1>6. \A v \in Workers \ {w} : Current(v)' = Current(v)
  BY <1>2 DEF Current
<1>7. PlaceInv'
  BY <1>2, <1>6 DEF PlaceInv
<1>8. CopyInv'
  <2>1. \A v \in Workers : \A i \in 1..Len(inbox'[v]) : v # w
    BY <1>5
  <2> QED BY <1>2, <2>1 DEF CopyInv
<1>9. ReadyInv' /\ QuietInv' /\ DoneIsAccountedFor'
  BY <1>2, <1>3 DEF ReadyInv, QuietInv, DoneIsAccountedFor
<1>10. ASSUME NEW m \in Messages PROVE RunsPaid(m)'
  <2>1. Open(m)' \subseteq Open(m)
    BY <1>2, <1>5 DEF Open
  <2>2. server'[m] = server[m] /\ handled'[m] = handled[m] /\ RunsPaid(m)
    BY <1>2
  <2> QED BY <1>3, <1>4, <2>1, <2>2, RunsKept
<1> QED BY <1>4, <1>7, <1>8, <1>9, <1>10

\* The deadline of a pending message passes.
LEMMA AckWaitStep ==
    ASSUME IInv, NEW m \in Messages, AckWaitExpires(m)
    PROVE  IInv'
<1> USE DEF IInv
<1>1. /\ server \in [Messages -> {"ready", "pending", "done", "exhausted"}]
      /\ deliveries \in [Messages -> 0..MaxDeliver] /\ faults \in 0..MaxFaults
  BY DEF TypeOK
<1>2. /\ server[m] = "pending" /\ UNCHANGED <<deliveries, inbox, pc, handled, deadLetter>>
      /\ server'[m] = IF deliveries[m] < MaxDeliver THEN "ready" ELSE "exhausted"
      /\ \A k \in Messages \ {m} : server'[k] = server[k]
      /\ server' \in [Messages -> {"ready", "pending", "done", "exhausted"}]
  BY <1>1 DEF AckWaitExpires, Requeue
<1>3. /\ Held(m) => faults < MaxFaults /\ faults' = faults + 1
      /\ ~Held(m) => faults' = faults
  BY DEF AckWaitExpires
<1>4. /\ faults' \in 0..MaxFaults /\ faults <= faults' /\ (Held(m) => faults < faults')
      /\ faults' # 0
  <2>1. faults = 0 => Held(m)
    BY <1>2 DEF QuietInv
  <2>2. CASE Held(m)
    BY <1>1, <1>3, <2>2, ConsumerAssumption
  <2>3. CASE ~Held(m)
    BY <1>1, <1>3, <2>1, <2>3, ConsumerAssumption
  <2> QED BY <2>2, <2>3
<1>5. TypeOK'
  BY <1>2, <1>4 DEF TypeOK
<1>6. \A v \in Workers : Current(v)' = Current(v)
  BY <1>2 DEF Current
<1>7. PlaceInv' /\ CopyInv'
  BY <1>2, <1>6 DEF PlaceInv, CopyInv
<1>8. ReadyInv' /\ QuietInv' /\ DoneIsAccountedFor'
  BY <1>2, <1>4 DEF ReadyInv, QuietInv, DoneIsAccountedFor
<1>9. ASSUME NEW k \in Messages PROVE RunsPaid(k)'
  <2>1. Open(k)' = Open(k) /\ Held(k)' = Held(k)
    BY <1>2 DEF Open, Held, Copies
  <2>2. handled'[k] = handled[k] /\ RunsPaid(k)
    BY <1>2
  <2>3. server'[k] = "ready" =>
           server[k] = "ready" \/ faults < faults' \/ (server[k] = "pending" /\ ~Held(k))
    BY <1>2, <1>4
  <2>4. server'[k] = "pending" => server[k] = "pending"
    BY <1>2
  <2> QED BY <1>4, <1>5, <2>1, <2>2, <2>3, <2>4, RunsKept
<1> QED BY <1>5, <1>7, <1>8, <1>9

-----------------------------------------------------------------------------
\* The invariant holds in every state of every behaviour.
THEOREM Invariance == Spec => []IInv
<1>1. IInv /\ [Next]_vars => IInv'
  <2> SUFFICES ASSUME IInv, [Next]_vars PROVE IInv'
    OBVIOUS
  <2>1. CASE UNCHANGED vars
    <3>1. UNCHANGED <<server, deliveries, inbox, pc, handled, deadLetter, faults>>
      BY <2>1 DEF vars
    <3>2. \A m : Open(m)' = Open(m) /\ Held(m)' = Held(m)
      BY <3>1 DEF Open, Held, Copies
    <3>3. TypeOK' /\ CopyInv' /\ ReadyInv' /\ DoneIsAccountedFor'
      BY <3>1 DEF IInv, TypeOK, CopyInv, ReadyInv, DoneIsAccountedFor
    <3>4. PlaceInv' /\ QuietInv'
      BY <3>1, <3>2 DEF IInv, PlaceInv, QuietInv, Current
    <3>5. \A m \in Messages : RunsPaid(m)'
      BY <3>1, <3>2 DEF IInv, RunsPaid
    <3> QED BY <3>3, <3>4, <3>5 DEF IInv
  <2>2. ASSUME NEW w \in Workers, WorkerStep(w) \/ AnswerLost(w) \/ Crash(w) PROVE IInv'
    BY <2>2, HandleStep, FinishingSteps, ExhaustStep, CrashStep DEF WorkerStep
  <2>3. ASSUME NEW w \in Workers, NEW m \in Messages, Deliver(w, m) PROVE IInv'
    BY <2>3, DeliverStep
  <2>4. ASSUME NEW m \in Messages, AckWaitExpires(m) PROVE IInv'
    BY <2>4, AckWaitStep
  <2> QED BY <2>1, <2>2, <2>3, <2>4 DEF Next
<1> QED BY <1>1, InitInv, PTL DEF Spec

\* The variables keep their types.
THEOREM TypeCorrect == Spec => []TypeOK
<1>1. IInv => TypeOK
  BY DEF IInv
<1> QED BY <1>1, Invariance, PTL

\* No message is dropped silently: one the server is through with was handled, or is on
\* record as a dead letter.
THEOREM NothingIsDropped == Spec => []DoneIsAccountedFor
<1>1. IInv => DoneIsAccountedFor
  BY DEF IInv
<1> QED BY <1>1, Invariance, PTL

\* Handlers that throw, however often, strand no message and cause no second run: both
\* take a fault, and each further run takes one more.
THEOREM FaultsBoundLossAndReplay == Spec => []LossAndReplayNeedFaults
<1>1. IInv => LossAndReplayNeedFaults
  <2> SUFFICES ASSUME IInv PROVE LossAndReplayNeedFaults
    OBVIOUS
  <2>1. faults \in Nat /\ \A m \in Messages : handled[m] \in Nat
    BY ConsumerAssumption DEF IInv, TypeOK
  <2>2. StrandingNeedsFault
    BY <2>1 DEF IInv, QuietInv, StrandingNeedsFault, Stranded
  <2>3. ASSUME NEW m \in Messages PROVE handled[m] <= 1 + faults
    <3> DEFINE a == Cardinality(Open(m))
    <3>1. Open(m) \in SUBSET (1..MaxDeliver)
      BY DEF Open
    <3>2. a \in Nat
      BY <3>1, Counting
    <3>3. handled[m] + a <= 1 + faults
      BY DEF IInv, RunsPaid
    <3> HIDE DEF a
    <3> QED BY <2>1, <3>2, <3>3
  <2> QED BY <2>2, <2>3 DEF LossAndReplayNeedFaults, RerunsNeedFaults
<1> QED BY <1>1, Invariance, PTL
=============================================================================
