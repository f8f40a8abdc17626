------------------- MODULE PipelineAndExperimentsProofs ---------------------
(***************************************************************************)
(* The properties of ContentPipeline, for any requests, handlers, faults   *)
(* and numbers of opportunities, and of Experiments, for any number of     *)
(* concurrent calls.  The two share nothing but the experiment ids that    *)
(* the rows of the pipeline carry.                                         *)
(***************************************************************************)
EXTENDS Experiments, ContentPipeline, FiniteSetTheorems, SequenceTheorems, TLAPS

-----------------------------------------------------------------------------
(* The content pipeline *)

\* How a row follows from the event it was generated from.
Made(o, e) ==
    /\ o.from = EventOf(e) /\ o.exp = e.exp
    /\ \/ /\ e.type = "intel_brief.requested" /\ o.type = "intel_brief"
          /\ o.key = <<e.id>>
       \/ /\ e.type = "intel_brief" /\ o.type = "content_opportunity"
          /\ o.key = <<e.id, o.id>> /\ o.id \in Range(e.opps)
       \/ /\ e.type = "intel_brief" /\ o.type = "content_brief"
          /\ \E p \in Range(e.opps) : o.key = <<e.id, p>> /\ o.opps = <<p>>
       \/ /\ e.type = "content_brief" /\ o.type = "blog_draft"
          /\ o.key = <<e.id>>
       \/ /\ e.type = "blog_draft" /\ o.type = "critique.completed"
          /\ o.key = <<e.id>>

\* A request has no source, and every other row follows from a row.
MadeInv ==
    \A o \in outbox : IF o.type = "intel_brief.requested"
                        THEN o.from = NoSource ELSE \E e \in outbox : Made(o, e)

\* A brief lists its opportunities in a sequence.
OppsInv ==
    \A r \in outbox : r.type = "intel_brief" => r.opps \in Seq(Range(r.opps))

\* The type and key of the n-th row that the handler of e enqueues.
Place(e, n) ==
    CASE e.type = "intel_brief.requested" -> <<"intel_brief", <<e.id>>>>
      [] e.type = "intel_brief" ->
            IF n % 2 = 1 THEN <<"content_opportunity", <<e.id, e.opps[(n + 1) \div 2]>>>>
                         ELSE <<"content_brief", <<e.id, e.opps[n \div 2]>>>>
      [] e.type = "content_brief" -> <<"blog_draft", <<e.id>>>>
      [] e.type = "blog_draft" -> <<"critique.completed", <<e.id>>>>

Present(x) == \E o \in outbox : EventOf(o) = x

Tasks == [event : outbox \cup {NoSource}, done : Nat, last : BOOLEAN]

\* What a handler has counted is in the outbox, if not by its own doing.
TaskInv ==
    /\ task \in [Workers -> Tasks]
    /\ \A w \in Workers : task[w] # Idle =>
          /\ task[w].event.type \in Consumed
          /\ \A n \in 1..task[w].done : Present(Place(task[w].event, n))

\* An acknowledged event is one that is handled, and all that it calls for is there.
AckedInv ==
    \A e \in outbox : EventOf(e) \in acked =>
        e.type \in Consumed /\ \A x \in Expected(e) : Present(x)

PipelineInv ==
    PipelineTypeOK /\ MadeInv /\ OppsInv /\ TaskInv /\ AckedInv /\ IsFiniteSet(sent)

-----------------------------------------------------------------------------
(* Proofs: the content pipeline *)

\* What the strategist enqueues at each place.
LEMMA Places ==
    ASSUME PipelineInv, NEW e \in outbox, e.type = "intel_brief",
           NEW n \in 1..RowCount(e)
    PROVE  /\ e.opps \in Seq(Range(e.opps)) /\ Len(e.opps) \in Nat
           /\ n % 2 = 1 => e.opps[(n + 1) \div 2] \in Range(e.opps)
           /\ n % 2 # 1 => e.opps[n \div 2] \in Range(e.opps)
<1>1. e.opps \in Seq(Range(e.opps)) /\ RowCount(e) = 2 * Len(e.opps)
  BY DEF PipelineInv, OppsInv, RowCount
<1>2. Len(e.opps) \in Nat /\ DOMAIN e.opps = 1..Len(e.opps)
  BY <1>1
<1>3. n % 2 = 1 => (n + 1) \div 2 \in 1..Len(e.opps)
  BY <1>1, <1>2
<1>4. n % 2 # 1 => n \div 2 \in 1..Len(e.opps)
  BY <1>1, <1>2
<1> QED BY <1>1, <1>2, <1>3, <1>4 DEF Range

\* Every generator makes rows that follow from its event, under the key of their place,
\* whatever ids and experiments the LLM writes.
LEMMA OutputMade ==
    ASSUME PipelineInv, NEW e \in outbox, e.type \in Consumed,
           NEW n \in 1..RowCount(e), NEW row \in Output(e, n)
    PROVE  /\ Made(row, e) /\ EventOf(row) = Place(e, n)
           /\ row.type \in Types \ {"intel_brief.requested"}
           /\ row.type = "intel_brief" => row.opps \in Seq(Range(row.opps))
<1>1. CASE e.type = "intel_brief.requested"
  <2>1. row \in Briefs(e)
    BY <1>1 DEF Output
  <2>2. PICK id \in LlmUuid(e, 0, BriefIds("intel_brief")), opps \in Opportunities(e),
             claimed \in Claims :
           row = Row("intel_brief", <<e.id>>, id, opps, Inject(e.exp, claimed), EventOf(e))
    BY <2>1 DEF Briefs
  <2>3. PICK m \in 1..MaxOpps :
           opps \in [1..m -> OpportunityIds \cup {Uuid(e, i) : i \in 1..m}]
    BY DEF Opportunities
  <2>4. opps \in Seq(Range(opps))
    <3>1. m \in Nat /\ opps \in [1..m -> Range(opps)]
      BY <2>3, PipelineAssumption DEF Range
    <3> QED BY <3>1
  <2> QED BY <1>1, <2>2, <2>4 DEF Made, Row, EventOf, Place, Inject, Types, Consumed
<1>2. CASE e.type = "intel_brief"
  <2>1. CASE n % 2 = 1
    <3>1. row = ContentOpportunity(e, e.opps[(n + 1) \div 2])
      BY <1>2, <2>1 DEF Output
    <3> QED BY <1>2, <2>1, <3>1, Places
            DEF ContentOpportunity, Made, Row, EventOf, Place, Types, Consumed
  <2>2. CASE n % 2 # 1
    <3> DEFINE p == e.opps[n \div 2]
    <3>1. row \in ContentBriefs(e, p)
      BY <1>2, <2>2 DEF Output
    <3>2. p \in Range(e.opps)
      BY <1>2, <2>2, Places
    <3> HIDE DEF p
    <3>3. PICK id \in LlmUuid(e, 0, BriefIds("content_brief")), claimed \in Claims :
             row = Row("content_brief", <<e.id, p>>, id, <<p>>, Inject(e.exp, claimed),
                       EventOf(e))
      BY <3>1 DEF ContentBriefs, ContentBriefKey
    <3>4. Place(e, n) = <<"content_brief", <<e.id, p>>>>
      BY <1>2, <2>2 DEF Place, p
    <3> QED BY <1>2, <3>2, <3>3, <3>4 DEF Made, Row, EventOf, Inject, Types, Consumed
  <2> QED BY <2>1, <2>2
<1>3. CASE e.type = "content_brief"
  BY <1>3 DEF Output, Draft, Made, Row, EventOf, Place, Types, Consumed
<1>4. CASE e.type = "blog_draft"
  BY <1>4 DEF Output, Critique, Made, Row, EventOf, Place, Types, Consumed
<1> QED BY <1>1, <1>2, <1>3, <1>4 DEF Consumed

\* The places of a handler that is through are all that its event calls for.
LEMMA PlacesAreExpected ==
    ASSUME PipelineInv, NEW e \in outbox, e.type \in Consumed, NEW x \in Expected(e)
    PROVE  \E n \in 1..RowCount(e) : x = Place(e, n)
<1>1. CASE e.type = "intel_brief"
  <2>1. PICK t \in {"content_opportunity", "content_brief"}, o \in Range(e.opps) :
           x = <<t, <<e.id, o>>>>
    BY <1>1 DEF Expected
  <2>2. e.opps \in Seq(Range(e.opps)) /\ RowCount(e) = 2 * Len(e.opps)
    BY <1>1 DEF PipelineInv, OppsInv, RowCount
  <2>3. Len(e.opps) \in Nat /\ DOMAIN e.opps = 1..Len(e.opps)
    BY <2>2
  <2>4. PICK i \in 1..Len(e.opps) : o = e.opps[i]
    BY <2>3 DEF Range
  <2>5. CASE t = "content_opportunity"
    <3>1. 2 * i - 1 \in 1..RowCount(e) /\ (2 * i - 1) % 2 = 1
          /\ ((2 * i - 1) + 1) \div 2 = i
      BY <2>2, <2>3
    <3>2. Place(e, 2 * i - 1) = x
      BY <1>1, <2>1, <2>4, <2>5, <3>1 DEF Place
    <3> QED BY <3>1, <3>2
  <2>6. CASE t = "content_brief"
    <3>1. 2 * i \in 1..RowCount(e) /\ (2 * i) % 2 # 1 /\ (2 * i) \div 2 = i
      BY <2>2, <2>3
    <3>2. Place(e, 2 * i) = x
      BY <1>1, <2>1, <2>4, <2>6, <3>1 DEF Place
    <3> QED BY <3>1, <3>2
  <2> QED BY <2>1, <2>5, <2>6
<1>2. CASE e.type # "intel_brief"
  <2>1. RowCount(e) = 1 /\ 1 \in 1..1
    BY <1>2 DEF RowCount
  <2>2. x = Place(e, 1)
    BY <1>2 DEF Expected, Place, Consumed
  <2> QED BY <2>1, <2>2
<1> QED BY <1>1, <1>2

\* A handler that holds an event holds a row, and has a whole number of rows to enqueue.
LEMMA TaskFacts ==
    ASSUME PipelineInv, NEW w \in Workers, task[w] # Idle
    PROVE  /\ task[w].event \in outbox /\ task[w].event.type \in Consumed
           /\ RowCount(task[w].event) \in Nat
           /\ task[w].done \in Nat /\ task[w].done <= RowCount(task[w].event)
<1>1. /\ task[w].event \in outbox /\ task[w].event.type \in Consumed
      /\ task[w].done \in 0..RowCount(task[w].event) /\ task[w].done \in Nat
  BY DEF PipelineInv, PipelineTypeOK, TaskInv
<1>2. RowCount(task[w].event) \in Nat
  BY <1>1 DEF PipelineInv, OppsInv, RowCount
<1> QED BY <1>1, <1>2

\* The requests satisfy the invariant.
LEMMA PipelineInitInv == PipelineInit => PipelineInv
<1> SUFFICES ASSUME PipelineInit PROVE PipelineInv
  OBVIOUS
<1>0. PICK exp \in [Requests -> Claims] :
         outbox = {Row("intel_brief.requested", <<r>>, r, <<>>, exp[r], NoSource) :
                      r \in Requests}
  BY DEF PipelineInit
<1>1. \A o \in outbox : \E r \in Requests :
         o = Row("intel_brief.requested", <<r>>, r, <<>>, exp[r], NoSource)
  BY <1>0
<1>2. PipelineTypeOK
  <2>1. \A r \in outbox : r.type \in Types /\ r.exp \in Claims
    BY <1>1 DEF Row, Types, Consumed
  <2>2. \A r, q \in outbox : EventOf(r) = EventOf(q) => r = q
    BY <1>1 DEF Row, EventOf
  <2>3. acked = {} /\ dead = {} /\ sent = {} /\ faults \in 0..MaxFaults
    BY PipelineAssumption DEF PipelineInit
  <2>4. \A w \in Workers : task[w] = Idle
    BY DEF PipelineInit
  <2> QED BY <2>1, <2>2, <2>3, <2>4 DEF PipelineTypeOK
<1>3. MadeInv /\ OppsInv
  BY <1>1 DEF MadeInv, OppsInv, Row
<1>4. TaskInv /\ AckedInv
  BY DEF PipelineInit, TaskInv, AckedInv, Idle, Tasks
<1>5. IsFiniteSet(sent)
  BY FS_EmptySet DEF PipelineInit
<1> QED BY <1>2, <1>3, <1>4, <1>5 DEF PipelineInv

\* A delivery puts a row of the outbox into idle hands.
LEMMA DeliverInv ==
    ASSUME PipelineInv, NEW w \in Workers, NEW e \in outbox, Deliver(w, e)
    PROVE  PipelineInv'
<1> DEFINE n == DeliveriesOf(e) + 1
           held == [event |-> e, done |-> 0, last |-> IsLast(n)]
<1>1. /\ task' = [task EXCEPT ![w] = held] /\ n <= MaxDeliver
      /\ sent' = sent \cup {<<EventOf(e), n>>}
      /\ UNCHANGED <<outbox, acked, dead>> /\ e.type \in Consumed
  BY DEF Deliver
<1>6. n \in 1..MaxDeliver /\ IsFiniteSet(sent')
  <2>1. DeliveriesOf(e) \in Nat
    BY FS_Subset, FS_CardinalityType DEF PipelineInv, DeliveriesOf
  <2>2. IsFiniteSet(sent')
    BY <1>1, FS_AddElement DEF PipelineInv
  <2> QED BY <1>1, <2>1, <2>2, PipelineAssumption
<1> HIDE DEF n
<1>2. faults' \in 0..MaxFaults
  BY PipelineAssumption DEF Deliver, PipelineInv, PipelineTypeOK
<1>3. task \in [Workers -> Tasks]
  BY DEF PipelineInv, TaskInv
<1>4. /\ task' \in [Workers -> Tasks]
      /\ task'[w].event = e /\ task'[w].done = 0
      /\ \A v \in Workers \ {w} : task'[v] = task[v]
  BY <1>1, <1>3 DEF IsLast, Tasks
<1>5. RowCount(e) \in Nat
  BY DEF PipelineInv, OppsInv, RowCount
<1>7. PipelineTypeOK'
  <2>1. \A d \in sent' : d[2] \in 1..MaxDeliver /\ \E r \in outbox' : d[1] = EventOf(r)
    BY <1>1, <1>6 DEF PipelineInv, PipelineTypeOK
  <2> QED BY <1>1, <1>2, <1>4, <1>5, <2>1 DEF PipelineInv, PipelineTypeOK
<1>8. TaskInv'
  BY <1>1, <1>4 DEF PipelineInv, TaskInv, Tasks, Present
<1>9. MadeInv' /\ OppsInv' /\ AckedInv'
  BY <1>1 DEF PipelineInv, MadeInv, OppsInv, AckedInv, Present
<1> QED BY <1>6, <1>7, <1>8, <1>9 DEF PipelineInv

\* A handler that dies, or hands its message back with or without a dead letter, leaves
\* the outbox as it is.
LEMMA CrashInv ==
    ASSUME PipelineInv, NEW w \in Workers, Crash(w) \/ Fail(w)
    PROVE  PipelineInv'
<1>1. /\ task' = [task EXCEPT ![w] = Idle] /\ UNCHANGED <<outbox, acked>>
      /\ sent' \subseteq sent /\ task[w] # Idle
      /\ dead' \subseteq dead \cup {EventOf(task[w].event)}
  BY DEF Crash, Fail, Forget
<1>2. faults' \in 0..MaxFaults
  BY PipelineAssumption DEF Crash, Fail, PipelineInv, PipelineTypeOK
<1>3. task \in [Workers -> Tasks]
  BY DEF PipelineInv, TaskInv
<1>4. /\ task' \in [Workers -> Tasks]
      /\ task'[w] = Idle /\ \A v \in Workers \ {w} : task'[v] = task[v]
  BY <1>1, <1>3 DEF Idle, Tasks
<1>5. PipelineTypeOK'
  <2>1. task[w].event \in outbox
    BY <1>1, TaskFacts
  <2>2. acked' \cup dead' \subseteq {EventOf(r) : r \in outbox'}
    BY <1>1, <2>1 DEF PipelineInv, PipelineTypeOK
  <2> QED BY <1>1, <1>2, <1>4, <2>2 DEF PipelineInv, PipelineTypeOK
<1>6. TaskInv'
  BY <1>1, <1>4 DEF PipelineInv, TaskInv, Tasks, Present
<1>7. MadeInv' /\ OppsInv' /\ AckedInv'
  BY <1>1 DEF PipelineInv, MadeInv, OppsInv, AckedInv, Present
<1>8. IsFiniteSet(sent')
  BY <1>1, FS_Subset DEF PipelineInv
<1> QED BY <1>5, <1>6, <1>7, <1>8 DEF PipelineInv

\* A handler that is through has all that its event calls for in the outbox.
LEMMA AckInv ==
    ASSUME PipelineInv, NEW w \in Workers, Ack(w)
    PROVE  PipelineInv'
<1> DEFINE e == task[w].event
<1>1. /\ task' = [task EXCEPT ![w] = Idle] /\ UNCHANGED <<outbox, dead, faults>>
      /\ acked' = acked \cup {EventOf(e)} /\ task[w] # Idle /\ sent' \subseteq sent
      /\ task[w].done = RowCount(e)
  BY DEF Ack, Finished, Forget
<1>2. e \in outbox /\ e.type \in Consumed
  BY <1>1, TaskFacts
<1>3. task \in [Workers -> Tasks]
  BY DEF PipelineInv, TaskInv
<1>4. /\ task' \in [Workers -> Tasks]
      /\ task'[w] = Idle /\ \A v \in Workers \ {w} : task'[v] = task[v]
  BY <1>1, <1>3 DEF Idle, Tasks
<1>5. \A n \in 1..RowCount(e) : Present(Place(e, n))
  BY <1>1 DEF PipelineInv, TaskInv
<1>6. \A x \in Expected(e) : Present(x)
  BY <1>2, <1>5, PlacesAreExpected
<1> HIDE DEF e
<1>7. PipelineTypeOK'
  BY <1>1, <1>2, <1>4 DEF PipelineInv, PipelineTypeOK
<1>8. TaskInv'
  BY <1>1, <1>4 DEF PipelineInv, TaskInv, Tasks, Present
<1>9. MadeInv' /\ OppsInv'
  BY <1>1 DEF PipelineInv, MadeInv, OppsInv
<1>10. AckedInv'
  <2>1. \A d \in outbox : EventOf(d) = EventOf(e) => d = e
    BY <1>2 DEF PipelineInv, PipelineTypeOK
  <2>2. ASSUME NEW d \in outbox, EventOf(d) \in acked'
        PROVE  d.type \in Consumed /\ \A x \in Expected(d) : Present(x)
    BY <1>1, <1>2, <1>6, <2>1, <2>2 DEF PipelineInv, AckedInv
  <2>3. \A x : Present(x)' = Present(x)
    BY <1>1 DEF Present
  <2> QED BY <1>1, <2>2, <2>3 DEF AckedInv
<1>11. IsFiniteSet(sent')
  BY <1>1, FS_Subset DEF PipelineInv
<1> QED BY <1>7, <1>8, <1>9, <1>10, <1>11 DEF PipelineInv

\* A row is stored if its key is free, and else one with its key is there.
LEMMA StoreFacts ==
    ASSUME NEW row, outbox' = Store(row)
    PROVE  /\ outbox \subseteq outbox' /\ outbox' \subseteq outbox \cup {row}
           /\ \A x : Present(x) => Present(x)'
           /\ Present(EventOf(row))'
           /\ row \in outbox' \ outbox => ~Present(EventOf(row))
<1>1. outbox \subseteq outbox' /\ outbox' \subseteq outbox \cup {row}
  BY DEF Store
<1>2. \A x : Present(x) => Present(x)'
  BY <1>1 DEF Present, EventOf
<1>3. Present(EventOf(row))'
  BY DEF Store, Present, EventOf
<1>4. row \in outbox' \ outbox => ~Present(EventOf(row))
  BY DEF Store, Present
<1> QED BY <1>1, <1>2, <1>3, <1>4

\* An enqueue adds a row that follows from its event, or finds its key taken.
LEMMA EnqueueInv ==
    ASSUME PipelineInv, NEW w \in Workers, Enqueue(w)
    PROVE  PipelineInv'
<1> DEFINE e == task[w].event
           n == task[w].done + 1
<1>1. /\ task[w] # Idle /\ task[w].done < RowCount(e)
      /\ task' = [task EXCEPT ![w].done = @ + 1] /\ UNCHANGED <<acked, dead, sent, faults>>
  BY DEF Enqueue
<1>2. /\ e \in outbox /\ e.type \in Consumed /\ RowCount(e) \in Nat
      /\ n \in 1..RowCount(e) /\ task[w].done \in Nat
  BY <1>1, TaskFacts
<1>3. PICK row \in Output(e, n) : outbox' = Store(row)
  BY DEF Enqueue
<1>4. /\ Made(row, e) /\ EventOf(row) = Place(e, n)
      /\ row.type \in Types \ {"intel_brief.requested"}
      /\ row.type = "intel_brief" => row.opps \in Seq(Range(row.opps))
  BY <1>2, OutputMade
<1>5. /\ outbox \subseteq outbox' /\ outbox' \subseteq outbox \cup {row}
      /\ \A x : Present(x) => Present(x)'
      /\ Present(EventOf(row))'
      /\ row \in outbox' \ outbox => ~Present(EventOf(row))
  BY <1>3, StoreFacts
<1>6. task \in [Workers -> Tasks]
  BY DEF PipelineInv, TaskInv
<1>7. /\ task' \in [Workers -> Tasks]
      /\ task'[w].event = e /\ task'[w].done = n
      /\ \A v \in Workers \ {w} : task'[v] = task[v]
  BY <1>1, <1>2, <1>6 DEF Tasks
<1> HIDE DEF e, n
<1>8. PipelineTypeOK'
  <2>1. \A r \in outbox' : r.type \in Types /\ r.exp \in Claims
    BY <1>2, <1>4, <1>5 DEF PipelineInv, PipelineTypeOK, Made
  <2>2. \A r, q \in outbox' : EventOf(r) = EventOf(q) => r = q
    BY <1>5 DEF PipelineInv, PipelineTypeOK, Present
  <2>3. /\ acked' \cup dead' \subseteq {EventOf(r) : r \in outbox'}
        /\ \A d \in sent' : d[2] \in 1..MaxDeliver /\ \E r \in outbox' : d[1] = EventOf(r)
    BY <1>1, <1>5 DEF PipelineInv, PipelineTypeOK
  <2>4. ASSUME NEW v \in Workers, task'[v] # Idle
        PROVE  task'[v].event \in outbox' /\ task'[v].done \in 0..RowCount(task'[v].event)
    <3>1. CASE v = w
      BY <1>2, <1>5, <1>7, <3>1
    <3>2. CASE v # w
      BY <1>5, <1>7, <2>4, <3>2 DEF PipelineInv, PipelineTypeOK
    <3> QED BY <3>1, <3>2
  <2>5. faults' \in 0..MaxFaults
    BY <1>1 DEF PipelineInv, PipelineTypeOK
  <2> QED BY <2>1, <2>2, <2>3, <2>4, <2>5 DEF PipelineTypeOK
<1>9. MadeInv'
  <2>1. ASSUME NEW o \in outbox'
        PROVE  IF o.type = "intel_brief.requested"
                 THEN o.from = NoSource ELSE \E d \in outbox' : Made(o, d)
    <3>1. CASE o \in outbox
      BY <1>5, <3>1 DEF PipelineInv, MadeInv
    <3>2. CASE o = row
      BY <1>2, <1>4, <1>5, <3>2
    <3> QED BY <1>5, <2>1, <3>1, <3>2
  <2> QED BY <2>1 DEF MadeInv
<1>10. OppsInv'
  BY <1>4, <1>5 DEF PipelineInv, OppsInv
<1>11. TaskInv'
  <2>1. ASSUME NEW v \in Workers, task'[v] # Idle
        PROVE  /\ task'[v].event.type \in Consumed
               /\ \A k \in 1..task'[v].done :
                     \E o \in outbox' : EventOf(o) = Place(task'[v].event, k)
    <3>1. CASE v = w
      <4>1. task'[v].event = e /\ task'[v].done = n /\ e.type \in Consumed
        BY <1>2, <1>7, <3>1
      <4>2. \A k \in 1..task[w].done : Present(Place(e, k))
        BY <1>1 DEF PipelineInv, TaskInv, e
      <4>3. \A k \in 1..n : k = n \/ k \in 1..task[w].done
        BY <1>2 DEF n
      <4>4. \A k \in 1..n : \E o \in outbox' : EventOf(o) = Place(e, k)
        BY <1>4, <1>5, <4>2, <4>3 DEF Present
      <4> QED BY <4>1, <4>4
    <3>2. CASE v # w
      <4>1. task'[v] = task[v]
        BY <1>7, <3>2
      <4>2. /\ task[v].event.type \in Consumed
            /\ \A k \in 1..task[v].done : Present(Place(task[v].event, k))
        BY <2>1, <4>1 DEF PipelineInv, TaskInv
      <4> QED BY <1>5, <4>1, <4>2 DEF Present
    <3> QED BY <3>1, <3>2
  <2>2. task' \in [Workers -> Tasks']
    BY <1>5, <1>7 DEF Tasks
  <2> QED BY <2>1, <2>2 DEF TaskInv, Present
<1>12. AckedInv'
  <2>1. ASSUME NEW d \in outbox', EventOf(d) \in acked'
        PROVE  d.type \in Consumed /\ \A x \in Expected(d) : Present(x)'
    <3>1. d \in outbox
      BY <1>1, <1>5, <2>1 DEF PipelineInv, PipelineTypeOK, Present
    <3> QED BY <1>1, <1>5, <2>1, <3>1 DEF PipelineInv, AckedInv
  <2> QED BY <2>1 DEF AckedInv
<1>13. IsFiniteSet(sent')
  BY <1>1 DEF PipelineInv
<1> QED BY <1>8, <1>9, <1>10, <1>11, <1>12, <1>13 DEF PipelineInv

\* Every step of the pipeline keeps the invariant.
LEMMA PipelineStepInv == PipelineInv /\ [PipelineNext]_pipelineVars => PipelineInv'
<1> SUFFICES ASSUME PipelineInv, [PipelineNext]_pipelineVars PROVE PipelineInv'
  OBVIOUS
<1>1. CASE DeliverSome
  BY <1>1, DeliverInv DEF DeliverSome
<1>2. ASSUME NEW w \in Workers, Work(w) PROVE PipelineInv'
  BY <1>2, EnqueueInv, AckInv DEF Work
<1>3. ASSUME NEW w \in Workers, Crash(w) \/ Fail(w) PROVE PipelineInv'
  BY <1>3, CrashInv
<1>4. CASE UNCHANGED pipelineVars
  BY <1>4 DEF pipelineVars, PipelineInv, PipelineTypeOK, MadeInv, OppsInv, TaskInv,
              Tasks, AckedInv, Present
<1> QED BY <1>1, <1>2, <1>3, <1>4 DEF PipelineNext

\* The source a row was made from is the one row that its reference names.
LEMMA SourceOf ==
    ASSUME PipelineInv, NEW o \in outbox, o.from # NoSource
    PROVE  \E e \in outbox : /\ Made(o, e)
                             /\ \A d \in outbox : EventOf(d) = o.from => d = e
<1>1. PICK e \in outbox : Made(o, e)
  BY DEF PipelineInv, MadeInv
<1> QED BY <1>1 DEF PipelineInv, PipelineTypeOK, Made

\* The invariant gives Lineage.
LEMMA LineageHolds == PipelineInv => Lineage
<1> SUFFICES ASSUME PipelineInv, NEW o \in outbox, o.from # NoSource
             PROVE  \E e \in outbox :
                       /\ EventOf(e) = o.from /\ o.key[1] = e.id
                       /\ Len(o.key) = 2 => o.key[2] \in Range(e.opps)
  BY DEF Lineage
<1>1. PICK e \in outbox : Made(o, e)
  BY SourceOf
<1>2. CASE o.key = <<e.id>>
  BY <1>1, <1>2 DEF Made
<1>3. ASSUME NEW p \in Range(e.opps), o.key = <<e.id, p>>
      PROVE  o.key[1] = e.id /\ o.key[2] \in Range(e.opps)
  BY <1>3
<1> QED BY <1>1, <1>2, <1>3 DEF Made

\* Rows made from the same event, for the same opportunity if there are several, have
\* the same key, and one key has one row.
LEMMA OneArtifactHolds == PipelineInv => OneArtifactPerSource
<1> SUFFICES ASSUME PipelineInv, NEW a \in outbox, NEW b \in outbox,
                    a.from # NoSource, a.type = b.type, a.from = b.from,
                    a.type = "content_brief" => a.opps = b.opps,
                    a.type = "content_opportunity" => a.id = b.id
             PROVE  a = b
  BY DEF OneArtifactPerSource
<1>1. PICK e \in outbox : Made(a, e) /\ \A d \in outbox : EventOf(d) = a.from => d = e
  BY SourceOf
<1>2. Made(b, e)
  <2>1. PICK d \in outbox : Made(b, d)
    BY SourceOf
  <2>2. d = e
    BY <1>1, <2>1 DEF Made
  <2> QED BY <2>1, <2>2
<1>3. a.key = b.key
  <2>1. CASE a.type = "content_brief"
    <3>1. PICK p \in Range(e.opps) : a.key = <<e.id, p>> /\ a.opps = <<p>>
      BY <1>1, <2>1 DEF Made
    <3>2. PICK q \in Range(e.opps) : b.key = <<e.id, q>> /\ b.opps = <<q>>
      BY <1>2, <2>1 DEF Made
    <3>3. p = q
      <4>1. <<p>>[1] = <<q>>[1]
        BY <2>1, <3>1, <3>2
      <4> QED BY <4>1
    <3> QED BY <3>1, <3>2, <3>3
  <2>2. CASE a.type = "content_opportunity"
    BY <1>1, <1>2, <2>2 DEF Made
  <2>3. CASE a.type \notin {"content_brief", "content_opportunity"}
    BY <1>1, <1>2, <2>3 DEF Made
  <2> QED BY <2>1, <2>2, <2>3
<1> QED BY <1>3 DEF PipelineInv, PipelineTypeOK, EventOf

\* A row has the experiment of its source.
LEMMA ExperimentHolds == PipelineInv => ExperimentKept
<1> SUFFICES ASSUME PipelineInv, NEW o \in outbox, NEW e \in outbox, EventOf(e) = o.from
             PROVE  o.exp = e.exp
  BY DEF ExperimentKept
<1>1. o.from # NoSource
  <2>1. EventOf(e) # NoSource
    <3>1. Len(<<e.type, e.key>>) = 2 /\ Len(<<>>) = 0
      OBVIOUS
    <3>2. <<e.type, e.key>> # <<>>
      BY <3>1, Zenon
    <3> QED BY <3>2 DEF EventOf, NoSource
  <2> QED BY <2>1
<1> QED BY <1>1, SourceOf DEF Made

\* A row under a key that an event calls for was made from that event, or from another
\* of its type with its id.
LEMMA ProducedHolds == PipelineInv => AckedMeansProduced
<1> SUFFICES ASSUME PipelineInv, NEW e \in outbox, EventOf(e) \in acked,
                    NEW x \in Expected(e)
             PROVE  \E o \in outbox :
                       /\ EventOf(o) = x
                       /\ \E d \in outbox : /\ d.type = e.type /\ d.id = e.id
                                             /\ o.from = EventOf(d)
  BY DEF AckedMeansProduced
<1>1. e.type \in Consumed /\ Present(x)
  BY DEF PipelineInv, AckedInv
<1>2. PICK o \in outbox : EventOf(o) = x
  BY <1>1 DEF Present
<1>3. o.type = x[1] /\ o.key = x[2]
  BY <1>2 DEF EventOf
<1>4. o.type # "intel_brief.requested"
  BY <1>1, <1>3 DEF Expected, Consumed
<1>5. PICK d \in outbox : Made(o, d)
  BY <1>4 DEF PipelineInv, MadeInv
<1>6. o.key[1] = d.id
  BY <1>5 DEF Made
<1>7. o.key[1] = e.id
  BY <1>1, <1>3 DEF Expected, Consumed
<1>8. d.type = e.type
  BY <1>1, <1>3, <1>5 DEF Expected, Consumed, Made
<1> QED BY <1>2, <1>5, <1>6, <1>7, <1>8 DEF Made

\* However often an event is redelivered or a handler dies, a key of the outbox has one
\* row, only rows are acknowledged or held, and a handler never enqueues past its count.
THEOREM PipelineTypeCorrect == PipelineSpec => []PipelineTypeOK
<1>1. PipelineInv => PipelineTypeOK
  BY DEF PipelineInv
<1> QED BY <1>1, PipelineInitInv, PipelineStepInv, PTL DEF PipelineSpec

\* A repeated run adds no second artifact of a source, and nothing in the outbox refers
\* to an artifact that was generated and dropped, whatever ids the LLM writes.
THEOREM ArtifactsAreTraceable == PipelineSpec => []OneTraceableArtifact
<1>1. PipelineInv => OneTraceableArtifact
  BY LineageHolds, OneArtifactHolds DEF OneTraceableArtifact
<1> QED BY <1>1, PipelineInitInv, PipelineStepInv, PTL DEF PipelineSpec

\* The experiment of a request reaches every artifact made from it, and none that the
\* LLM names does.
THEOREM ExperimentIsKept == PipelineSpec => []ExperimentKept
BY ExperimentHolds, PipelineInitInv, PipelineStepInv, PTL DEF PipelineSpec

\* An acknowledged event has all its artifacts, made from it or from one with its id.
THEOREM AckedIsProduced == PipelineSpec => []AckedMeansProduced
BY ProducedHolds, PipelineInitInv, PipelineStepInv, PTL DEF PipelineSpec

-----------------------------------------------------------------------------
(* Experiments.  What a call has read may be stale when it writes; CallInv *)
(* says which of it still holds.                                           *)

Transitions(c) == call[c].pc = "loaded" /\ call[c].body.kind = "transition"
Observes(c) == call[c].pc = "loaded" /\ call[c].body.kind = "observe"

\* A transition that passed its checks is in the table, at any later time.
LegalInv ==
    \A c \in Calls : call[c].pc # "free" /\ call[c].body.kind = "transition" =>
        isLegalTransition(call[c].body.from, call[c].body.to)

\* The start a transition has read is the start of the experiment, and a missing start
\* was read in draft, to which no experiment returns.
StartInv ==
    \A c \in Calls : Transitions(c) =>
        /\ call[c].startedAt # None => startedAt = call[c].startedAt
        /\ call[c].startedAt = None => call[c].body.from = "draft"
        /\ call[c].body.from = "draft" /\ status = "draft" => startedAt = call[c].startedAt

\* A transition out of a concluded or promoted experiment has read its end.
EndInv ==
    \A c \in Calls :
        Transitions(c) /\ call[c].body.from \in {"concluded", "promoted"} =>
            call[c].endedAt # None

\* The winner a transition has read is the winner unless the experiment has moved.
WinnerInv ==
    \A c \in Calls : Transitions(c) =>
        /\ call[c].at <= moves
        /\ call[c].at = moves => call[c].winner = winner

\* An observation that passed its checks is of a started experiment, and of the
\* variant of the assignment it names.
ObserveInv ==
    \A c \in Calls : Observes(c) => startedAt # None /\ Matches(call[c].body)

\* Nothing happens before the experiment is created.
AbsentInv ==
    status = "absent" => startedAt = None /\ \A c \in Calls : call[c].pc = "free"

CallInv == LegalInv /\ StartInv /\ EndInv /\ WinnerInv /\ ObserveInv

IInv == TypeOK /\ DatesFollowStatus /\ LinkedObservationMatches /\ CallInv /\ AbsentInv

-----------------------------------------------------------------------------
\* What a call holds, from where it is.
LEMMA CallTypes ==
    ASSUME TypeOK, NEW c \in Calls
    PROVE  /\ call[c].pc = "checked" => call[c] \in CheckedCalls
           /\ call[c].pc = "loaded" => call[c] \in LoadedCalls
           /\ call[c].pc \in {"free", "checked", "loaded"}
           /\ call[c].pc # "free" => call[c].body \in Bodies
  BY DEF TypeOK, Free, CheckedCalls, LoadedCalls

\* A body is of the set its kind names.
LEMMA BodyTypes ==
    ASSUME NEW body \in Bodies
    PROVE  /\ body.kind = "transition" => body \in TransitionBodies
           /\ body.kind = "assign" => body \in AssignBodies
           /\ body.kind = "observe" => body \in ObserveBodies
           /\ body.kind \in {"transition", "assign", "observe"}
  BY DEF Bodies, TransitionBodies, AssignBodies, ObserveBodies

\* The table, spelled out.
LEMMA Table ==
    /\ Statuses = {"draft", "running", "paused", "concluded", "abandoned", "promoted",
                   "rolled_back"}
    /\ \A from \in Statuses : \A to : isLegalTransition(from, to) <=>
          \/ from = "draft" /\ to \in {"running", "abandoned"}
          \/ from = "running" /\ to \in {"paused", "concluded", "abandoned"}
          \/ from = "paused" /\ to \in {"running", "abandoned"}
          \/ from = "concluded" /\ to \in {"promoted", "abandoned"}
          \/ from = "promoted" /\ to = "rolled_back"
  BY DEF Statuses, isLegalTransition, experimentTransitions

\* The initial state satisfies the invariant.
LEMMA InitInv == Init => IInv
  BY ExperimentsAssumption, Table
  DEF Init, IInv, TypeOK, DatesFollowStatus, LinkedObservationMatches, CallInv, LegalInv,
      StartInv, EndInv, WinnerInv, ObserveInv, Transitions, Observes, Free, Dates, AbsentInv

\* POST / creates the row; no call has read it yet, for none passes its checks before.
LEMMA CreateInv ==
    ASSUME IInv, NEW s \in {"draft", "running"}, NEW given \in BOOLEAN, Create(s, given)
    PROVE  IInv'
<1> USE ExperimentsAssumption DEF IInv, Create
<1>1. TypeOK'
  BY Table DEF TypeOK, Dates
<1>2. startedAt = None /\ \A c \in Calls : call[c].pc = "free"
  BY DEF AbsentInv
<1>3. DatesFollowStatus' /\ LinkedObservationMatches'
  BY <1>2 DEF DatesFollowStatus, LinkedObservationMatches, TypeOK
<1>4. CallInv' /\ AbsentInv'
  BY <1>2 DEF CallInv, LegalInv, StartInv, EndInv, WinnerInv, ObserveInv, Transitions,
              Observes, AbsentInv
<1> QED BY <1>1, <1>3, <1>4

\* Passing the checks of a route establishes only that the transition is legal.
LEMMA CheckInv ==
    ASSUME IInv, NEW c \in Calls, NEW body \in Bodies, Check(c, body)
    PROVE  IInv'
<1> USE DEF IInv, Check, experiment
<1>1. TypeOK'
  BY DEF TypeOK, CheckedCalls
<1>2. DatesFollowStatus' /\ LinkedObservationMatches'
  BY DEF DatesFollowStatus, LinkedObservationMatches
<1>3. \A d \in Calls : d # c => call'[d] = call[d]
  BY DEF TypeOK
<1>4. call'[c] = [pc |-> "checked", body |-> body]
  BY DEF TypeOK
<1>5. LegalInv'
  BY <1>3, <1>4 DEF CallInv, LegalInv, isLegalTransition
<1>6. StartInv' /\ EndInv' /\ WinnerInv'
  BY <1>3, <1>4 DEF CallInv, StartInv, EndInv, WinnerInv, Transitions
<1>7. ObserveInv'
  BY <1>3, <1>4 DEF CallInv, ObserveInv, Observes, Matches
<1>8. AbsentInv'
  BY BodyTypes, Table
  DEF AbsentInv, Allowed, canAssign, canRecordObservation, TransitionBodies
<1> QED BY <1>1, <1>2, <1>5, <1>6, <1>7, <1>8 DEF CallInv

\* The read of the transaction brings what CallInv says of the values read.
LEMMA LoadInv ==
    ASSUME IInv, NEW c \in Calls, Load(c)
    PROVE  IInv'
<1> USE DEF IInv, Load, experiment
<1>1. call[c] \in CheckedCalls /\ call[c].body \in Bodies
  BY CallTypes
<1>2. \A d \in Calls : d # c => call'[d] = call[d]
  BY DEF TypeOK
<1>3. \/ call'[c] = Free
      \/ /\ call'[c] = [pc |-> "loaded", body |-> call[c].body, winner |-> winner,
                        startedAt |-> startedAt, endedAt |-> endedAt, at |-> moves]
         /\ Allowed(call[c].body)
         /\ call[c].body.kind = "observe" => Matches(call[c].body)
  BY DEF TypeOK
<1>4. TypeOK'
  BY <1>1 DEF TypeOK, LoadedCalls
<1>5. DatesFollowStatus' /\ LinkedObservationMatches'
  BY DEF DatesFollowStatus, LinkedObservationMatches
<1>6. LegalInv'
  BY <1>2, <1>3 DEF CallInv, LegalInv, isLegalTransition, Free
<1>7. ASSUME call'[c] # Free, call[c].body.kind = "transition"
      PROVE  /\ status = call[c].body.from
             /\ isLegalTransition(call[c].body.from, call[c].body.to)
             /\ call[c].body.from \in Statuses
  BY <1>1, <1>3, <1>7, BodyTypes DEF Allowed, CallInv, LegalInv, TransitionBodies
<1>8. ASSUME call'[c] # Free, call[c].body.kind = "observe"
      PROVE  canRecordObservation
  BY <1>3, <1>8 DEF Allowed
<1>9. StartInv'
  BY <1>2, <1>3, <1>7, Table DEF CallInv, StartInv, Transitions, DatesFollowStatus, Free
<1>10. EndInv'
  BY <1>2, <1>3, <1>7 DEF CallInv, EndInv, Transitions, DatesFollowStatus, Free
<1>11. WinnerInv'
  BY <1>2, <1>3 DEF CallInv, WinnerInv, Transitions, Free, TypeOK
<1>12. ObserveInv'
  BY <1>2, <1>3, <1>8
  DEF CallInv, ObserveInv, Observes, Matches, DatesFollowStatus, canRecordObservation, Free
<1>13. AbsentInv'
  BY DEF AbsentInv
<1> QED BY <1>4, <1>5, <1>6, <1>9, <1>10, <1>11, <1>12, <1>13 DEF CallInv

\* The write of a transition.  Of the calls that have read before it, those from the
\* same status will find another one, and no call finds draft again.
LEMMA TransitionInv ==
    ASSUME IInv, NEW c \in Calls, Transition(c)
    PROVE  IInv'
<1> USE DEF IInv, Transition, experiment
<1> DEFINE body == call[c].body
<1>1. /\ call[c] \in LoadedCalls /\ body \in TransitionBodies
      /\ isLegalTransition(body.from, body.to)
      /\ body.from \in Statuses /\ body.to \in Statuses
  BY CallTypes, BodyTypes DEF CallInv, LegalInv, TransitionBodies
<1>2. call'[c] = Free /\ \A d \in Calls : d # c => call'[d] = call[d]
  BY DEF TypeOK
<1>3. CASE ~StillFrom(body)
  <2>1. TypeOK' /\ DatesFollowStatus' /\ LinkedObservationMatches'
    BY <1>3, ExperimentsAssumption
    DEF TypeOK, DatesFollowStatus, LinkedObservationMatches
  <2>2. CallInv' /\ AbsentInv'
    BY <1>2, <1>3
    DEF CallInv, LegalInv, StartInv, EndInv, WinnerInv, ObserveInv, Transitions, Observes,
        AbsentInv, isLegalTransition, Matches, Free
  <2> QED BY <2>1, <2>2
<1>4. CASE StillFrom(body)
  <2>1. /\ status = body.from /\ status' = body.to
        /\ moves \in Nat /\ moves' = moves + 1 /\ moves' \in 0..MaxMoves
        /\ winner' = WinnerAfter(body.winner, call[c].winner)
        /\ startedAt' = StartDate(call[c].startedAt, body.to)
        /\ IsConclusion(body.to) =>
              endedAt' \in {moves + 1, IF call[c].endedAt = None THEN moves + 1
                                       ELSE call[c].endedAt}
        /\ ~IsConclusion(body.to) => endedAt' = call[c].endedAt
        /\ UNCHANGED <<assignment, observed>>
    BY <1>4, ExperimentsAssumption DEF StillFrom, TypeOK
  <2>2. /\ call[c].startedAt # None => startedAt = call[c].startedAt
        /\ call[c].startedAt = None => body.from = "draft"
        /\ body.from = "draft" => startedAt = call[c].startedAt
        /\ body.from \in {"concluded", "promoted"} => call[c].endedAt # None
    BY <2>1 DEF CallInv, StartInv, EndInv, Transitions
  <2>3. TypeOK'
    <3>1. winner' \in Winners \cup {None}
      BY <1>1, <2>1 DEF WinnerAfter, TransitionBodies, LoadedCalls
    <3>2. startedAt' \in Dates /\ endedAt' \in Dates
      BY <1>1, <2>1 DEF StartDate, LoadedCalls, Dates
    <3> QED BY <1>1, <2>1, <3>1, <3>2 DEF TypeOK
  <2>4. /\ startedAt # None => startedAt' = startedAt
        /\ startedAt' = None => startedAt = None /\ status = "draft" /\ status' = "abandoned"
        /\ status' \notin {"draft", "absent"}
    BY <1>1, <2>1, <2>2, Table, ExperimentsAssumption DEF StartDate
  <2>5. status' \in {"concluded", "abandoned", "promoted", "rolled_back"} => endedAt' # None
    BY <1>1, <2>1, <2>2, Table, ExperimentsAssumption DEF IsConclusion
  <2>6. DatesFollowStatus' /\ LinkedObservationMatches'
    BY <2>1, <2>4, <2>5 DEF DatesFollowStatus, LinkedObservationMatches
  <2>7. LegalInv' /\ EndInv' /\ AbsentInv'
    BY <1>2, <2>4
    DEF CallInv, LegalInv, EndInv, AbsentInv, Transitions, isLegalTransition, Free
  <2>8. StartInv'
    BY <1>2, <2>4 DEF CallInv, StartInv, Transitions, Free
  <2>9. WinnerInv'
    <3> SUFFICES ASSUME NEW d \in Calls, Transitions(d)'
                 PROVE  call'[d].at <= moves' /\ call'[d].at # moves'
      BY DEF WinnerInv
    <3>1. call'[d] = call[d] /\ call[d].pc = "loaded" /\ Transitions(d)
      BY <1>2 DEF Transitions, Free
    <3>2. call[d].at \in Nat /\ call[d].at <= moves
      BY <3>1, CallTypes DEF LoadedCalls, CallInv, WinnerInv
    <3> QED BY <2>1, <3>1, <3>2
  <2>10. ObserveInv'
    BY <1>2, <2>1, <2>4 DEF CallInv, ObserveInv, Observes, Matches, Free
  <2> QED BY <2>3, <2>6, <2>7, <2>8, <2>9, <2>10 DEF CallInv
<1> QED BY <1>3, <1>4

\* An assignment, once stored, stays: what was compared with it still matches.
LEMMA AssignInv ==
    ASSUME IInv, NEW c \in Calls, Assign(c)
    PROVE  IInv' /\ \A e \in Entities : assignment[e] # None => assignment'[e] = assignment[e]
<1> USE DEF IInv, Assign, experiment
<1>1. call[c].body \in AssignBodies
  BY CallTypes, BodyTypes
<1>2. call'[c] = Free /\ \A d \in Calls : d # c => call'[d] = call[d]
  BY DEF TypeOK
<1>3. \A e \in Entities : assignment[e] # None => assignment'[e] = assignment[e]
  BY <1>1 DEF TypeOK, AssignBodies, AssignedFirst
<1>4. TypeOK'
  BY <1>1 DEF TypeOK, AssignBodies, AssignedFirst
<1>5. DatesFollowStatus' /\ AbsentInv'
  BY <1>2 DEF DatesFollowStatus, AbsentInv, Free
<1>6. LinkedObservationMatches'
  <2> SUFFICES ASSUME NEW k \in Keys, observed[k] # None, observed[k].linked
               PROVE  assignment'[observed[k].entity] = observed[k].variant
    BY DEF LinkedObservationMatches
  <2>1. observed[k] \in Observations
    BY DEF TypeOK
  <2>2. observed[k].entity \in Entities /\ observed[k].variant \in Variants
    BY <2>1 DEF Observations
  <2> QED BY <1>3, <2>2, ExperimentsAssumption DEF LinkedObservationMatches, Winners
<1>7. LegalInv' /\ StartInv' /\ EndInv' /\ WinnerInv'
  BY <1>2
  DEF CallInv, LegalInv, StartInv, EndInv, WinnerInv, Transitions, isLegalTransition, Free
<1>8. ObserveInv'
  <2> SUFFICES ASSUME NEW d \in Calls, Observes(d)'
               PROVE  (startedAt # None /\ Matches(call[d].body))'
    BY DEF ObserveInv
  <2>1. call'[d] = call[d] /\ Observes(d)
    BY <1>2 DEF Observes, Free
  <2>2. call[d].body \in ObserveBodies
    BY <2>1, CallTypes, BodyTypes DEF Observes
  <2> QED BY <1>3, <2>1, <2>2, ExperimentsAssumption
          DEF CallInv, ObserveInv, Matches, ObserveBodies, Winners
<1> QED BY <1>3, <1>4, <1>5, <1>6, <1>7, <1>8 DEF CallInv

\* A recorded observation is one that CallInv vouches for.
LEMMA RecordObservationInv ==
    ASSUME IInv, NEW c \in Calls, RecordObservation(c)
    PROVE  IInv'
<1> USE DEF IInv, RecordObservation, experiment
<1> DEFINE body == call[c].body
           row == [entity |-> body.entity, variant |-> body.variant, linked |-> body.linked]
<1>1. body \in ObserveBodies /\ Observes(c)
  BY CallTypes, BodyTypes DEF Observes
<1>2. call'[c] = Free /\ \A d \in Calls : d # c => call'[d] = call[d]
  BY DEF TypeOK
<1>3. row \in Observations
  BY <1>1 DEF ObserveBodies, Observations
<1>4. /\ \A k \in Keys : observed'[k] = observed[k] \/ observed'[k] = row
      /\ observed' \in [Keys -> Observations \cup {None}]
  BY <1>1, <1>3 DEF TypeOK, ObserveBodies
<1>5. startedAt # None /\ (row.linked => assignment[row.entity] = row.variant)
  BY <1>1 DEF CallInv, ObserveInv, Matches
<1>6. TypeOK'
  BY <1>4 DEF TypeOK
<1>7. DatesFollowStatus' /\ AbsentInv'
  BY <1>2, <1>5 DEF DatesFollowStatus, AbsentInv, Free
<1>8. LinkedObservationMatches'
  BY <1>4, <1>5 DEF LinkedObservationMatches
<1>9. CallInv'
  BY <1>2
  DEF CallInv, LegalInv, StartInv, EndInv, WinnerInv, ObserveInv, Transitions, Observes,
      isLegalTransition, Matches, Free
<1> QED BY <1>6, <1>7, <1>8, <1>9

\* Every step preserves the invariant.
LEMMA StepInv ==
    ASSUME IInv, [Next]_vars
    PROVE  IInv'
<1>1. CASE UNCHANGED vars
  BY <1>1
  DEF vars, experiment, IInv, TypeOK, DatesFollowStatus, LinkedObservationMatches, CallInv,
      LegalInv, StartInv, EndInv, WinnerInv, ObserveInv, Transitions, Observes, AbsentInv,
      isLegalTransition, Matches
<1>2. CASE Next
  BY <1>2, CreateInv, CheckInv, LoadInv, TransitionInv, AssignInv, RecordObservationInv
  DEF Next
<1> QED BY <1>1, <1>2

\* The invariant holds in every reachable state.
THEOREM Invariant == Spec => []IInv
  BY InitInv, StepInv, PTL DEF Spec

\* Every variable has its type in every reachable state, whatever the calls and however
\* many.
THEOREM TypeCorrect == Spec => []TypeOK
  BY Invariant, PTL DEF IInv

\* Start and end are set when the status says so, and only a started experiment is
\* observed, although each is decided on an earlier read of the row.
THEOREM DatesAlwaysFollowStatus == Spec => []DatesFollowStatus
  BY Invariant, PTL DEF IInv

\* A linked observation is filed under the variant its entity is assigned to.
THEOREM EvidenceMatchesAssignment == Spec => []LinkedObservationMatches
  BY Invariant, PTL DEF IInv

\* What a step of a transition does to the row, from the invariant.
LEMMA TransitionStep ==
    ASSUME IInv, NEW c \in Calls, Transition(c)
    PROVE  /\ status' # status => isLegalTransition(status, status')
           /\ startedAt # None => startedAt' = startedAt
           /\ winner # None /\ winner' = None =>
                 call[c] # Free /\ call'[c] = Free /\ call[c].at # moves
<1> USE DEF IInv, Transition, experiment
<1> DEFINE body == call[c].body
<1>1. /\ call[c] \in LoadedCalls /\ body \in TransitionBodies
      /\ isLegalTransition(body.from, body.to) /\ Transitions(c)
  BY CallTypes, BodyTypes DEF CallInv, LegalInv, Transitions
<1>2. CASE ~StillFrom(body)
  BY <1>2
<1>3. CASE StillFrom(body)
  <2>1. status = body.from /\ status' = body.to
    BY <1>3 DEF StillFrom
  <2>2. startedAt # None => startedAt' = startedAt
    BY <1>1, <1>3, <2>1 DEF StartDate, CallInv, StartInv
  <2>3. ASSUME winner # None, winner' = None
        PROVE  call[c] # Free /\ call'[c] = Free /\ call[c].at # moves
    <3>1. call[c].winner = None
      BY <1>3, <2>3 DEF WinnerAfter
    <3> QED BY <1>1, <2>3, <3>1 DEF CallInv, WinnerInv, LoadedCalls, Free, TypeOK
  <2> QED BY <1>1, <2>1, <2>2, <2>3
<1> QED BY <1>2, <1>3

\* Steps that are no transition leave a created experiment alone.
LEMMA OtherStep ==
    ASSUME IInv, [Next]_vars, \A c \in Calls : ~Transition(c)
    PROVE  /\ status' = status \/ status = "absent"
           /\ startedAt # None => startedAt' = startedAt
           /\ winner' = winner
  BY DEF Next, vars, experiment, Create, Check, Load, Assign, RecordObservation, IInv,
         AbsentInv

\* Every change of the status is one the table allows, whichever calls race for it.
THEOREM StatusAlwaysFollowsTable == Spec => StatusFollowsTable
<1>1. ASSUME IInv, [Next]_vars
      PROVE  status' # status /\ status # "absent" => isLegalTransition(status, status')
  BY <1>1, TransitionStep, OtherStep
<1> QED BY <1>1, Invariant, PTL DEF Spec, StatusFollowsTable

\* The start of an experiment never changes once it is set.
THEOREM StartNeverChanges == Spec => StartIsKept
<1>1. ASSUME IInv, [Next]_vars
      PROVE  startedAt # None => startedAt' = startedAt
  BY <1>1, TransitionStep, OtherStep
<1> QED BY <1>1, Invariant, PTL DEF Spec, StartIsKept

\* A winner is lost only to a transition that overlaps a departure from its status and
\* a return to it.
THEOREM WinnerRarelyLost == Spec => WinnerLostOnlyToReturn
<1>1. ASSUME IInv, [Next]_vars
      PROVE  winner # None /\ winner' = None =>
                \E c \in Calls : call[c] # Free /\ call'[c] = Free /\ call[c].at # moves
  BY <1>1, TransitionStep, OtherStep
<1> QED BY <1>1, Invariant, PTL DEF Spec, WinnerLostOnlyToReturn

\* The variant of an entity never changes once it is assigned.
THEOREM AssignmentNeverChanges == Spec => AssignmentIsSticky
<1>1. ASSUME IInv, [Next]_vars
      PROVE  \A e \in Entities : assignment[e] # None => assignment'[e] = assignment[e]
  <2>1. (\A c \in Calls : ~Assign(c)) => assignment' = assignment
    BY <1>1 DEF Next, vars, Create, Check, Load, Transition, RecordObservation
  <2> QED BY <1>1, <2>1, AssignInv
<1> QED BY <1>1, Invariant, PTL DEF Spec, AssignmentIsSticky
=============================================================================
