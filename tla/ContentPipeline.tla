-------------------------- MODULE ContentPipeline ---------------------------
(***************************************************************************)
(* The chain of content workers: intel director, content strategist, blog  *)
(* draft and critique.  Each consumes an event of the outbox, generates    *)
(* the artifacts that follow from it, by the LLM or deterministically, and *)
(* enqueues them under a key made from the event.  A run that is repeated  *)
(* after a crash or a redelivery generates other artifacts, with ids of    *)
(* their own, and the keys must keep the first and drop the others.        *)
(* Delivery (OutboxPublisher, DurableConsumer) appears here as: an event   *)
(* can be taken, a bounded number of times, until it is acknowledged or a  *)
(* failure on its last delivery is recorded as a dead letter.              *)
(***************************************************************************)
EXTENDS Integers, Sequences, FiniteSets, Functions

CONSTANTS
    Requests,      \* request ids of intel_brief.requested rows
    Experiments,   \* experiment ids
    NoExperiment,  \* the field is absent
    Workers,       \* handlers at work
    MaxOpps,       \* opportunities the LLM puts into a brief
    MaxDeliver,    \* deliveries of one event
    MaxFaults      \* crashes, failed enqueues, and deliveries of an event still held

ASSUME PipelineAssumption ==
    /\ NoExperiment \notin Experiments
    /\ MaxOpps \in Nat \ {0}
    /\ MaxDeliver \in Nat \ {0}
    /\ MaxFaults \in Nat

VARIABLES
    outbox,  \* rows of event_outbox
    acked,   \* the events acknowledged, by type and key
    dead,    \* the events a worker has recorded a dead letter for
    sent,    \* of the events not settled yet, each delivery as <<event, its number>>
    task,    \* what a handler holds: the event, how many rows it has enqueued, and
             \* whether this delivery of it is the last
    faults   \* faults spent so far, at most MaxFaults

pipelineVars == <<outbox, acked, dead, sent, task, faults>>

Consumed == {"intel_brief.requested", "intel_brief", "content_brief", "blog_draft"}
Types == Consumed \cup {"content_opportunity", "critique.completed"}

\* A row: its type and idempotency key; the id of the artifact in the payload, the
\* opportunities listed there and the experiment; and, to state the properties, the
\* event it was generated from.
Row(type, key, id, opps, exp, from) ==
    [type |-> type, key |-> key, id |-> id, opps |-> opps, exp |-> exp, from |-> from]

EventOf(row) == <<row.type, row.key>>
NoSource == <<>>

\* The task of a handler with nothing in hand.
Idle == [event |-> NoSource, done |-> 0, last |-> FALSE]

\* An experiment_id, or none.
Claims == Experiments \cup {NoExperiment}

\* The requests the signal router has enqueued, each in an experiment or in none.
PipelineInit ==
    /\ \E exp \in [Requests -> Claims] :
          outbox = {Row("intel_brief.requested", <<r>>, r, <<>>, exp[r], NoSource) :
                       r \in Requests}
    /\ acked = {} /\ dead = {} /\ sent = {}
    /\ task = [w \in Workers |-> Idle]
    /\ faults = 0

-----------------------------------------------------------------------------
(* Generating *)

\* crypto.randomUUID, for place n of what is made from an event: the count of the rows
\* made from it so far tells it from every id that is already in the outbox.
Uuid(e, n) == <<e.type, e.key, n, Cardinality({r \in outbox : r.from = EventOf(e)})>>

\* An id written by the LLM: the schemas ask for some uuid, and nothing keeps the LLM
\* from writing one that is used already.
LlmUuid(e, n, used) == {Uuid(e, n)} \cup used

BriefIds(type) == {r.id : r \in {q \in outbox : q.type = type}}
OpportunityIds == UNION {Range(r.opps) : r \in {q \in outbox : q.type = "intel_brief"}}

\* Mutant: the experiment the LLM claims is taken when the source has none.
InjectTrusting(exp, claimed) == IF exp = NoExperiment THEN claimed ELSE exp

\* The claimed experiment_id is stripped from the answer before the source's is added.
Inject(exp, claimed) == exp

\* The opportunities of a brief: one from the deterministic generator, any number,
\* repeated ids included, from the LLM.
Opportunities(e) ==
    UNION {{s \in [1..n -> OpportunityIds \cup {Uuid(e, i) : i \in 1..n}] :
               \A i \in 1..n : s[i] \in OpportunityIds \cup {Uuid(e, j) : j \in 1..i}} :
           n \in 1..MaxOpps}

\* IntelDirectorWorker.processBriefRequest.
Briefs(e) ==
    {Row("intel_brief", <<e.id>>, id, opps, Inject(e.exp, claimed), EventOf(e)) :
        id \in LlmUuid(e, 0, BriefIds("intel_brief")), opps \in Opportunities(e),
        claimed \in Claims}

\* expandOpportunity, of one reference of a brief.
ContentOpportunity(e, opp) ==
    Row("content_opportunity", <<e.id, opp>>, opp, <<>>, e.exp, EventOf(e))

ContentBriefKey(e, opp, id) == <<e.id, opp>>

\* generateLlmContentBrief, or generateContentBrief.
ContentBriefs(e, opp) ==
    {Row("content_brief", ContentBriefKey(e, opp, id), id, <<opp>>,
         Inject(e.exp, claimed), EventOf(e)) :
        id \in LlmUuid(e, 0, BriefIds("content_brief")), claimed \in Claims}

\* BlogDraftWorker.processBrief, always iteration 1: the LLM writes only the text.
Draft(e) == Row("blog_draft", <<e.id>>, Uuid(e, 0), <<>>, e.exp, EventOf(e))

\* createBlogDraftCritiqueRequest and CritiqueWorker.critique: the critique's id and
\* key are functions of the draft's id.
Critique(e) == Row("critique.completed", <<e.id>>, e.id, <<>>, e.exp, EventOf(e))

\* How many rows the handler of an event enqueues, one after the other: the strategist
\* two for each reference, an opportunity and a brief.
RowCount(e) == IF e.type = "intel_brief" THEN 2 * Len(e.opps) ELSE 1

\* What the n-th of them may be.
Output(e, n) ==
    CASE e.type = "intel_brief.requested" -> Briefs(e)
      [] e.type = "intel_brief" ->
            IF n % 2 = 1 THEN {ContentOpportunity(e, e.opps[(n + 1) \div 2])}
                         ELSE ContentBriefs(e, e.opps[n \div 2])
      [] e.type = "content_brief" -> {Draft(e)}
      [] e.type = "blog_draft"    -> {Critique(e)}

-----------------------------------------------------------------------------
(* Actions *)

Held(e) == \E w \in Workers : task[w].event = e

DeliveriesOf(e) == Cardinality({s \in sent : s[1] = EventOf(e)})

\* Mutant: the count is taken for one of redeliveries.
IsLastLate(n) == n > MaxDeliver

\* context.redeliveryCount >= config.maxDeliver, the count starting at 1.
IsLast(n) == n >= MaxDeliver

\* A delivery.  The event may come again while a slow handler still holds it.
Deliver(w, e) ==
    LET n == DeliveriesOf(e) + 1 IN
    /\ task[w] = Idle
    /\ e.type \in Consumed /\ EventOf(e) \notin acked \cup dead
    /\ n <= MaxDeliver
    /\ IF Held(e) THEN faults < MaxFaults /\ faults' = faults + 1
                  ELSE UNCHANGED faults
    /\ task' = [task EXCEPT ![w] = [event |-> e, done |-> 0, last |-> IsLast(n)]]
    /\ sent' = sent \cup {<<EventOf(e), n>>}
    /\ UNCHANGED <<outbox, acked, dead>>

\* Mutant: a second row under a key replaces the first.
StoreReplacing(row) == {r \in outbox : EventOf(r) # EventOf(row)} \cup {row}

\* A second row under a key of its type is dropped, and the enqueue succeeds.
Store(row) ==
    IF \E r \in outbox : EventOf(r) = EventOf(row) THEN outbox ELSE outbox \cup {row}

\* The handler generates its next artifact, from the event alone, and enqueues it.
Enqueue(w) ==
    /\ task[w] # Idle
    /\ task[w].done < RowCount(task[w].event)
    /\ \E row \in Output(task[w].event, task[w].done + 1) : outbox' = Store(row)
    /\ task' = [task EXCEPT ![w].done = @ + 1]
    /\ UNCHANGED <<acked, dead, sent, faults>>

\* Mutant: the last enqueue is not awaited.
FinishedEarly(w) == task[w].done >= RowCount(task[w].event) - 1

Finished(w) == task[w].done = RowCount(task[w].event)

\* The server delivers a settled message no more.
Forget(e) == sent' = {s \in sent : s[1] # EventOf(e)}

\* The handler returns and its message is acknowledged.
Ack(w) ==
    /\ task[w] # Idle /\ Finished(w)
    /\ acked' = acked \cup {EventOf(task[w].event)}
    /\ Forget(task[w].event)
    /\ task' = [task EXCEPT ![w] = Idle]
    /\ UNCHANGED <<outbox, dead, faults>>

\* The artifacts are generated where the handler starts and, by the strategist, before
\* both rows of each reference.  No try surrounds it: an event can ask for an artifact
\* that its own schema refuses (a post of more than 280 characters, a title without a
\* letter or digit, a text of the LLM that is too short, an empty reason), once or on
\* every delivery.
Generating(w) ==
    /\ ~Finished(w)
    /\ task[w].event.type = "intel_brief" => task[w].done % 2 = 0

\* The handler throws, by itself or because an enqueue does.  The message is handed
\* back, or onExhausted records the dead letter and the message is terminated.
Fail(w) ==
    /\ task[w] # Idle /\ ~Finished(w)
    /\ \/ Generating(w) /\ UNCHANGED faults
       \/ faults < MaxFaults /\ faults' = faults + 1
    /\ IF task[w].last
         THEN dead' = dead \cup {EventOf(task[w].event)} /\ Forget(task[w].event)
         ELSE UNCHANGED <<dead, sent>>
    /\ task' = [task EXCEPT ![w] = Idle]
    /\ UNCHANGED <<outbox, acked>>

\* The process dies, or its acknowledgement or its dead letter does not get through.
Crash(w) ==
    /\ task[w] # Idle
    /\ faults < MaxFaults
    /\ faults' = faults + 1
    /\ task' = [task EXCEPT ![w] = Idle]
    /\ UNCHANGED <<outbox, acked, dead, sent>>

DeliverSome == \E w \in Workers, e \in outbox : Deliver(w, e)

Work(w) == Enqueue(w) \/ Ack(w)

PipelineNext == DeliverSome \/ \E w \in Workers : Work(w) \/ Fail(w) \/ Crash(w)

PipelineSpec == PipelineInit /\ [][PipelineNext]_pipelineVars

\* JetStream delivers an event until it is settled or its deliveries are used up, and
\* handlers go on.  All of it is finite work, so that no more is asked of the two than
\* that one of them moves while one can.
PipelineFairness == WF_pipelineVars(DeliverSome \/ \E w \in Workers : Work(w))

PipelineFairSpec == PipelineSpec /\ PipelineFairness

-----------------------------------------------------------------------------
(* Properties *)

\* Outbox rows carry an experiment or none, and are the only row under their key;
\* events are acknowledged, given up and held only when they are rows of the outbox.
PipelineTypeOK ==
    /\ \A r \in outbox : r.type \in Types /\ r.exp \in Claims
    /\ \A r, q \in outbox : EventOf(r) = EventOf(q) => r = q
    /\ acked \cup dead \subseteq {EventOf(r) : r \in outbox}
    /\ \A d \in sent : d[2] \in 1..MaxDeliver /\ \E r \in outbox : d[1] = EventOf(r)
    /\ \A w \in Workers :
          task[w] # Idle => /\ task[w].event \in outbox
                            /\ task[w].done \in 0..RowCount(task[w].event)
    /\ faults \in 0..MaxFaults

\* Nothing refers to an artifact that was generated and dropped: whatever a row was
\* made from is a row, still has the id that the key names, and lists the opportunity.
\* A repeated run must therefore never bring a second id for the same artifact into
\* the outbox.
Lineage ==
    \A o \in outbox : o.from # NoSource =>
        \E e \in outbox :
            /\ EventOf(e) = o.from
            /\ o.key[1] = e.id
            /\ Len(o.key) = 2 => o.key[2] \in Range(e.opps)

\* A repeated run adds nothing: there is one brief per request, one content brief per
\* opportunity of a brief, one draft per content brief and one critique per draft.
OneArtifactPerSource ==
    \A a, b \in outbox :
        /\ a.from # NoSource /\ a.type = b.type /\ a.from = b.from
        /\ a.type = "content_brief" => a.opps = b.opps
        /\ a.type = "content_opportunity" => a.id = b.id
        => a = b

\* Every artifact has its source in the outbox and is the only one of that source.
OneTraceableArtifact == Lineage /\ OneArtifactPerSource

\* The experiment of a request reaches every artifact made from it, and no artifact
\* belongs to an experiment that the LLM named (handoff-contracts.ts:98-102).
ExperimentKept ==
    \A o, e \in outbox : EventOf(e) = o.from => o.exp = e.exp

\* The rows an event calls for, each as its type and key.
Expected(e) ==
    CASE e.type = "intel_brief.requested" -> {<<"intel_brief", <<e.id>>>>}
      [] e.type = "intel_brief" ->
            {<<t, <<e.id, o>>>> : t \in {"content_opportunity", "content_brief"},
                                  o \in Range(e.opps)}
      [] e.type = "content_brief" -> {<<"blog_draft", <<e.id>>>>}
      [] e.type = "blog_draft" -> {<<"critique.completed", <<e.id>>>>}

\* An event that is acknowledged has all its artifacts in the outbox, made from the
\* event itself unless another one carries the same id: only an id that the LLM wrote
\* twice can make a worker drop the first artifact of an event without a word.
AckedMeansProduced ==
    \A e \in outbox : EventOf(e) \in acked =>
        \A x \in Expected(e) : \E o \in outbox :
            /\ EventOf(o) = x
            /\ \/ o.from = EventOf(e)
               \/ \E d \in outbox : d.type = e.type /\ d.id = e.id /\ o.from = EventOf(d)

\* In the end every event on the way from request to critique is acknowledged, and has
\* led to its artifacts (AckedMeansProduced), or a dead letter says that it has not;
\* without a word, at most one event is lost for each fault (a process that dies on the
\* last delivery).
AcknowledgedOrDeadLettered ==
    <>[](Cardinality({e \in outbox : e.type \in Consumed /\ EventOf(e) \notin acked \cup dead})
         <= faults)
=============================================================================
