----------------------- MODULE RouterAndConsoleProofs -----------------------
(***************************************************************************)
(* The properties of FounderConsole, for any number of calls, artifacts,   *)
(* decisions and faults and any limits of the views, and of SignalRouter,  *)
(* for any number of signals, replicas, lanes and faults, and any batch    *)
(* size.  The two meet only in the outbox, of which each has rows of its   *)
(* own.                                                                    *)
(***************************************************************************)
EXTENDS SignalRouter, FounderConsole, FiniteSetTheorems, SequenceTheorems, TLAPS

-----------------------------------------------------------------------------
(* The founder console *)

\* What the stores hold.
StoreInv ==
    /\ events \in Seq([issue : Issues \cup {Null}, consumed : BOOLEAN])
    /\ feedback \in Seq([issue : Issues, action : DecisionActions])
    /\ signals = DOMAIN feedback
    /\ week \in [events : Nat, feedback : Nat]
    /\ health \in [Components -> HealthStates \cup {Null}]
    /\ samples \in Nat
    /\ asked \in [Issues -> Nat] /\ resent \in [Issues -> Nat]

\* The moment a call began has passed.
Moments == [events : Nat, samples : Nat, decided : SUBSET Issues]
Passed(began) ==
    /\ began.events <= Len(events) /\ began.samples <= samples
    /\ began.decided \subseteq DecidedIssues(DOMAIN feedback)

ListCalls ==
    [op : {"list"}, pc : {"events", "decisions"}, began : Moments, listed : SUBSET Nat]

\* A listing has read the newest rows of a moment since it began.
ListOK(c) ==
    /\ Passed(c.began)
    /\ c.pc = "decisions" =>
          \E n \in c.began.events..Len(events) : c.listed = Newest(n, 2 * Limit)

SummaryCalls ==
    [op : {"summary"}, pc : {"reads"}, began : Moments, todo : SUBSET Sources,
     failed : SUBSET Sources, rows : SUBSET Nat, decisions : SUBSET Nat,
     components : SUBSET Components, states : SUBSET HealthStates,
     decided : SUBSET Issues]

\* A read that is done and did not fail has what its flag says of it: the unconsumed
\* rows, unless as many as it may return came back; the decisions, likewise; the states
\* of the components, likewise and as long as none has reported since.
SummaryOK(c) ==
    /\ Passed(c.began)
    /\ c.rows \subseteq 1..Len(events)
    /\ c.decided \subseteq DecidedIssues(DOMAIN feedback)
    /\ "outbox" \notin c.todo \cup c.failed /\ ~PendingIsLowerBound(c) =>
          \A i \in 1..c.began.events : i \in c.rows \/ events[i].consumed
    /\ "approvals" \notin c.todo \cup c.failed /\ ~DecisionScanTruncated(c) =>
          c.began.decided \subseteq c.decided
    /\ (/\ "componentHealth" \notin c.todo \cup c.failed /\ ~OverallMayBeIncomplete(c)
        /\ samples = c.began.samples) =>
          c.states = {health[k] : k \in {m \in Components : health[m] # Null}}

DigestCalls ==
    [op : {"weekly", "send"},
     pc : {"stack", "decisions", "events", "outcomes", "count", "built"},
     began : Moments, week : [events : Nat, feedback : Nat], missed : BOOLEAN,
     decided : SUBSET Issues, pending : SUBSET Nat, approved : Nat, rejected : Nat,
     attempt : Nat, mails : Nat, lost : Nat]

\* The decisions a digest has read are decisions, and all that were taken before it
\* began while they fit; then the rows it counts as pending were not among them, and
\* once the artifacts are read without a fault those of the week are all counted.
DigestOK(c) ==
    /\ Passed(c.began)
    /\ c.pending \subseteq 1..Len(events)
    /\ c.decided \subseteq DecidedIssues(DOMAIN feedback)
    /\ c.pc = "events" /\ ScanIsWhole => c.began.decided \subseteq c.decided
    /\ ScanIsWhole => \A i \in c.pending : events[i].issue \notin c.began.decided
    /\ (/\ c.pc \in {"outcomes", "count", "built"} /\ env.database /\ ~c.missed
        /\ Len(events) <= DecisionScan) =>
          \A i \in (c.week.events + 1)..c.began.events : i \in c.pending \/ ~Undecided(i)
    /\ c.mails <= c.lost /\ c.attempt <= MaxAttempts

DecideCalls ==
    [op : {"decide"}, pc : {"commit", "reply"}, issue : Issues, action : DecisionActions]

\* The routes whose answers no property compares with the stores.
OtherOps == {"none", "health", "incidents", "getSettings", "patch", "score", "motion"}

CallOK(c) ==
    \/ c \in ListCalls /\ ListOK(c)
    \/ c \in SummaryCalls /\ SummaryOK(c)
    \/ c \in DigestCalls /\ DigestOK(c)
    \/ c \in DecideCalls
    \/ "op" \in DOMAIN c /\ c.op \in OtherOps

CallsInv ==
    /\ call = [p \in Calls |-> call[p]]
    /\ \A p \in Calls : CallOK(call[p])

\* The calls about to record a decision of an issue, and the decisions recorded.
Committing(i) ==
    {p \in Calls : call[p].op = "decide" /\ call[p].pc = "commit" /\ call[p].issue = i}
RowsOf(i) == {r \in DOMAIN feedback : feedback[r].issue = i}

\* Every row, and every row to come, was asked for or sent again.
DecideInv ==
    \A i \in Issues :
        /\ IsFiniteSet(Committing(i))
        /\ Cardinality(RowsOf(i)) + Cardinality(Committing(i)) <= asked[i] + resent[i]

ConsoleInv == StoreInv /\ CallsInv /\ DecideInv /\ LostPatchNeedsOverlap

\* What a step may do to the stores: rows are added, artifacts consumed, and a new
\* state of a component is a new sample.
Grown ==
    /\ env' = env
    /\ Len(events) <= Len(events')
    /\ \A i \in 1..Len(events) : /\ events'[i].issue = events[i].issue
                                 /\ events[i].consumed => events'[i].consumed
    /\ Len(feedback) <= Len(feedback')
    /\ DecidedIssues(DOMAIN feedback) \subseteq DecidedIssues(DOMAIN feedback)'
    /\ samples <= samples' /\ (samples' = samples => health' = health)

-----------------------------------------------------------------------------
(* Proofs: the founder console *)

\* Among the elements of a finite set, ranked by the sets A[i] of those before each,
\* as many as asked for have a rank below the number asked for.
LEMMA Ranks ==
    ASSUME NEW T, IsFiniteSet(T), NEW A \in [T -> SUBSET T],
           \A i \in T : i \notin A[i],
           \A i, j \in T : \/ i = j
                           \/ j \in A[i] /\ A[j] \subseteq A[i]
                           \/ i \in A[j] /\ A[i] \subseteq A[j],
           NEW n \in Nat, n <= Cardinality(T)
    PROVE  Cardinality({i \in T : Cardinality(A[i]) < n}) = n
<1> DEFINE m == Cardinality(T)
           f == [i \in T |-> Cardinality(A[i])]
           N == {i \in T : Cardinality(A[i]) < n}
           g == [i \in N |-> Cardinality(A[i])]
<1>1. m \in Nat
  BY FS_CardinalityType
<1>2. \A S \in SUBSET T : /\ IsFiniteSet(S) /\ Cardinality(S) \in Nat
                          /\ Cardinality(S) <= m /\ (Cardinality(S) = m => S = T)
  BY FS_Subset, FS_CardinalityType
<1>3. ASSUME NEW S \in SUBSET T, NEW R \in SUBSET S, R # S
      PROVE  Cardinality(R) < Cardinality(S)
  <2>1. IsFiniteSet(S) /\ Cardinality(S) \in Nat /\ R \in SUBSET T
    BY <1>2
  <2>2. Cardinality(R) <= Cardinality(S) /\ Cardinality(R) # Cardinality(S)
    BY <1>3, <2>1, FS_Subset
  <2> QED BY <1>2, <2>1, <2>2
<1>4. f \in [T -> 0..(m - 1)]
  <2>1. ASSUME NEW i \in T PROVE Cardinality(A[i]) \in 0..(m - 1)
    <3>1. A[i] \in SUBSET T /\ A[i] # T
      OBVIOUS
    <3>2. Cardinality(A[i]) \in Nat /\ Cardinality(A[i]) <= m /\ Cardinality(A[i]) # m
      BY <1>2, <3>1
    <3> QED BY <1>1, <3>2
  <2> QED BY <2>1
<1>5. \A i, j \in T : Cardinality(A[i]) = Cardinality(A[j]) => i = j
  <2> SUFFICES ASSUME NEW i \in T, NEW j \in T, i # j
               PROVE  Cardinality(A[i]) # Cardinality(A[j])
    OBVIOUS
  <2>0. A[i] \in SUBSET T /\ A[j] \in SUBSET T /\ i \notin A[i] /\ j \notin A[j]
    OBVIOUS
  <2>1. CASE j \in A[i] /\ A[j] \subseteq A[i]
    BY <1>2, <1>3, <2>0, <2>1
  <2>2. CASE i \in A[j] /\ A[i] \subseteq A[j]
    BY <1>2, <1>3, <2>0, <2>2
  <2> QED BY <2>1, <2>2
<1>6. f \in Surjection(T, 0..(m - 1))
  <2>1. f \in Injection(T, 0..(m - 1))
    BY <1>4, <1>5 DEF Injection, IsInjective
  <2> HIDE DEF f, m
  <2>2. IsFiniteSet(0..(m - 1)) /\ Cardinality(0..(m - 1)) = m
    <3>1. 0 \in Int /\ m - 1 \in Int /\ (IF 0 > m - 1 THEN 0 ELSE (m - 1) - 0 + 1) = m
      BY <1>1
    <3> QED BY <3>1, FS_Interval
  <2>3. Cardinality(T) = m
    BY DEF m
  <2> QED BY <2>1, <2>2, <2>3, FS_Injection
<1>7. g \in Injection(N, 0..(n - 1))
  <2>1. \A i \in N : Cardinality(A[i]) \in 0..(n - 1)
    BY <1>2
  <2> QED BY <1>5, <2>1 DEF Injection, IsInjective
<1>8. g \in Surjection(N, 0..(n - 1))
  <2>1. ASSUME NEW k \in 0..(n - 1) PROVE \E i \in N : g[i] = k
    <3>1. k \in 0..(m - 1)
      BY <1>1
    <3>2. PICK i \in T : f[i] = k
      BY <1>6, <3>1 DEF Surjection
    <3> QED BY <3>2
  <2> QED BY <1>7, <2>1 DEF Surjection, Injection
<1>9. IsFiniteSet(0..(n - 1)) /\ Cardinality(0..(n - 1)) = n
  BY FS_Interval
<1> HIDE DEF g
<1>10. Cardinality(N) = Cardinality(0..(n - 1))
  BY <1>7, <1>8, <1>9, FS_Injection
<1> QED BY <1>9, <1>10

\* Of a set that is large enough, as many of the newest are returned as were asked for.
LEMMA NewestOfCount ==
    ASSUME NEW T \in SUBSET Nat, IsFiniteSet(T), NEW n \in Nat, n <= Cardinality(T)
    PROVE  Cardinality(NewestOf(T, n)) = n
<1> DEFINE A == [i \in T |-> {j \in T : j > i}]
<1>1. A \in [T -> SUBSET T] /\ \A i \in T : i \notin A[i]
  OBVIOUS
<1>2. ASSUME NEW i \in T, NEW j \in T
      PROVE  \/ i = j
             \/ j \in A[i] /\ A[j] \subseteq A[i]
             \/ i \in A[j] /\ A[i] \subseteq A[j]
  <2>1. i \in Nat /\ j \in Nat /\ \A k \in T : k \in Nat
    OBVIOUS
  <2>2. \A k \in T : (k \in A[i] <=> k > i) /\ (k \in A[j] <=> k > j)
    OBVIOUS
  <2>3. A[i] \subseteq T /\ A[j] \subseteq T
    OBVIOUS
  <2> HIDE DEF A
  <2>4. CASE j > i
    <3>1. ASSUME NEW k \in T, k \in A[j] PROVE k \in A[i]
      <4>1. k \in Nat /\ k > j
        BY <2>1, <2>2, <3>1
      <4>2. k > i
        BY <2>1, <2>4, <4>1
      <4> QED BY <2>2, <4>2
    <3> QED BY <2>2, <2>3, <2>4, <3>1
  <2>5. CASE i > j
    <3>1. ASSUME NEW k \in T, k \in A[i] PROVE k \in A[j]
      <4>1. k \in Nat /\ k > i
        BY <2>1, <2>2, <3>1
      <4>2. k > j
        BY <2>1, <2>5, <4>1
      <4> QED BY <2>2, <4>2
    <3> QED BY <2>2, <2>3, <2>5, <3>1
  <2> QED BY <2>1, <2>4, <2>5
<1>3. NewestOf(T, n) = {i \in T : Cardinality(A[i]) < n}
  BY DEF NewestOf
<1> HIDE DEF A
<1> QED BY <1>1, <1>2, <1>3, Ranks

\* The same of the oldest.
LEMMA OldestOfCount ==
    ASSUME NEW T \in SUBSET Nat, IsFiniteSet(T), NEW n \in Nat, n <= Cardinality(T)
    PROVE  Cardinality(OldestOf(T, n)) = n
<1> DEFINE A == [i \in T |-> {j \in T : j < i}]
<1>1. A \in [T -> SUBSET T] /\ \A i \in T : i \notin A[i]
  OBVIOUS
<1>2. ASSUME NEW i \in T, NEW j \in T
      PROVE  \/ i = j
             \/ j \in A[i] /\ A[j] \subseteq A[i]
             \/ i \in A[j] /\ A[i] \subseteq A[j]
  <2>1. i \in Nat /\ j \in Nat /\ \A k \in T : k \in Nat
    OBVIOUS
  <2>2. \A k \in T : (k \in A[i] <=> k < i) /\ (k \in A[j] <=> k < j)
    OBVIOUS
  <2>3. A[i] \subseteq T /\ A[j] \subseteq T
    OBVIOUS
  <2> HIDE DEF A
  <2>4. CASE j < i
    <3>1. ASSUME NEW k \in T, k \in A[j] PROVE k \in A[i]
      <4>1. k \in Nat /\ k < j
        BY <2>1, <2>2, <3>1
      <4>2. k < i
        BY <2>1, <2>4, <4>1
      <4> QED BY <2>2, <4>2
    <3> QED BY <2>2, <2>3, <2>4, <3>1
  <2>5. CASE i < j
    <3>1. ASSUME NEW k \in T, k \in A[i] PROVE k \in A[j]
      <4>1. k \in Nat /\ k < i
        BY <2>1, <2>2, <3>1
      <4>2. k < j
        BY <2>1, <2>5, <4>1
      <4> QED BY <2>2, <4>2
    <3> QED BY <2>2, <2>3, <2>5, <3>1
  <2> QED BY <2>1, <2>4, <2>5
<1>3. OldestOf(T, n) = {i \in T : Cardinality(A[i]) < n}
  BY DEF OldestOf
<1> HIDE DEF A
<1> QED BY <1>1, <1>2, <1>3, Ranks

\* What the newest rows leave out is pushed out by as many newer ones.
LEMMA NewestPushOut ==
    ASSUME NEW T \in SUBSET Nat, IsFiniteSet(T), NEW n \in Nat, NEW i \in T,
           i \notin NewestOf(T, n)
    PROVE  Cardinality({j \in NewestOf(T, n) : j > i}) = n
<1> DEFINE U == {j \in T : j > i}
<1>1. IsFiniteSet(U) /\ Cardinality(U) \in Nat /\ U \in SUBSET Nat
  BY FS_Subset, FS_CardinalityType
<1>2. n <= Cardinality(U)
  BY <1>1 DEF NewestOf
<1>3. \A j \in U : {k \in T : k > j} = {k \in U : k > j}
  <2>1. i \in Nat /\ \A k \in T : k \in Nat
    OBVIOUS
  <2>2. \A j \in U, k \in T : k > j => k \in U
    BY <2>1
  <2> QED BY <2>2
<1>4. {j \in NewestOf(T, n) : j > i} = NewestOf(U, n)
  BY <1>3 DEF NewestOf
<1> HIDE DEF U
<1> QED BY <1>1, <1>2, <1>4, NewestOfCount

\* The n newest of the first len rows are n of them, or all.
LEMMA NewestCount ==
    ASSUME NEW len \in Nat, NEW n \in Nat
    PROVE  /\ Newest(len, n) \subseteq 1..len
           /\ len <= n => Newest(len, n) = 1..len
           /\ n <= len => Cardinality(Newest(len, n)) = n
<1>1. Newest(len, n) \subseteq 1..len /\ (len <= n => Newest(len, n) = 1..len)
  BY DEF Newest
<1>2. n <= len => Cardinality(Newest(len, n)) = n
  <2> SUFFICES ASSUME n <= len PROVE Cardinality(Newest(len, n)) = n
    OBVIOUS
  <2>1. Newest(len, n) = (len - n + 1)..len
    BY DEF Newest
  <2> QED BY <2>1, FS_Interval
<1> QED BY <1>1, <1>2

\* What is known of the stores, in the form the proofs use.
LEMMA StoreFacts ==
    ASSUME StoreInv
    PROVE  /\ Len(events) \in Nat /\ DOMAIN events = 1..Len(events)
           /\ Len(feedback) \in Nat /\ DOMAIN feedback = 1..Len(feedback)
           /\ \A i \in 1..Len(events) : events[i].issue \in Issues \cup {Null}
           /\ \A i \in 1..Len(feedback) : feedback[i].issue \in Issues
           /\ DecidedIssues(DOMAIN feedback) \subseteq Issues
           /\ Null \notin DecidedIssues(DOMAIN feedback)
<1>1. /\ Len(events) \in Nat /\ DOMAIN events = 1..Len(events)
      /\ Len(feedback) \in Nat /\ DOMAIN feedback = 1..Len(feedback)
  BY DEF StoreInv
<1>2. \A i \in 1..Len(events) : events[i].issue \in Issues \cup {Null}
  <2>1. \A i \in 1..Len(events) :
           events[i] \in [issue : Issues \cup {Null}, consumed : BOOLEAN]
    BY ElementOfSeq DEF StoreInv
  <2> QED BY <2>1
<1>3. \A i \in 1..Len(feedback) : feedback[i].issue \in Issues
  <2>1. \A i \in 1..Len(feedback) :
           feedback[i] \in [issue : Issues, action : DecisionActions]
    BY ElementOfSeq DEF StoreInv
  <2> QED BY <2>1
<1>4. DecidedIssues(DOMAIN feedback) \subseteq Issues
  BY <1>1, <1>3 DEF DecidedIssues
<1> QED BY <1>1, <1>2, <1>3, <1>4, ConsoleAssumption

\* What a listing of the newest rows and decisions returns.
LEMMA ListFacts ==
    ASSUME StoreInv
    PROVE  /\ ListByEventType(DecisionScan) \subseteq 1..Len(events)
           /\ Len(events) <= DecisionScan => ListByEventType(DecisionScan) = 1..Len(events)
           /\ ListRecent(DecisionScan) \subseteq 1..Len(feedback)
           /\ ScanIsWhole => ListRecent(DecisionScan) = 1..Len(feedback)
           /\ ListRecent(DecisionScan) = 1..Len(feedback)
                 \/ Cardinality(ListRecent(DecisionScan)) = DecisionScan
           /\ DecidedIssues(ListRecent(DecisionScan)) \subseteq DecidedIssues(DOMAIN feedback)
           /\ ScanIsWhole =>
                 DecidedIssues(ListRecent(DecisionScan)) = DecidedIssues(DOMAIN feedback)
<1>1. Len(events) \in Nat /\ Len(feedback) \in Nat /\ DOMAIN feedback = 1..Len(feedback)
  BY StoreFacts
<1>2. DecisionScan \in Nat
  BY ConsoleAssumption
<1>3. /\ ListByEventType(DecisionScan) \subseteq 1..Len(events)
      /\ Len(events) <= DecisionScan => ListByEventType(DecisionScan) = 1..Len(events)
  BY <1>1, <1>2, NewestCount DEF ListByEventType
<1>4. /\ ListRecent(DecisionScan) \subseteq 1..Len(feedback)
      /\ Len(feedback) <= DecisionScan => ListRecent(DecisionScan) = 1..Len(feedback)
      /\ DecisionScan <= Len(feedback) =>
            Cardinality(ListRecent(DecisionScan)) = DecisionScan
  BY <1>1, <1>2, NewestCount DEF ListRecent
<1>5. DecidedIssues(ListRecent(DecisionScan)) \subseteq DecidedIssues(DOMAIN feedback)
  BY <1>1, <1>4 DEF DecidedIssues
<1> QED BY <1>1, <1>2, <1>3, <1>4, <1>5 DEF ScanIsWhole

\* What a call has read stays true of the stores as they grow.
LEMMA CallStays ==
    ASSUME StoreInv, StoreInv', Grown, NEW c, CallOK(c)
    PROVE  CallOK(c)'
<1>1. /\ Len(events) \in Nat /\ Len(events') \in Nat /\ Len(events) <= Len(events')
      /\ Len(feedback) \in Nat /\ Len(feedback') \in Nat /\ Len(feedback) <= Len(feedback')
      /\ \A i \in 1..Len(events) : i \in 1..Len(events')
      /\ samples \in Nat /\ samples' \in Nat /\ samples <= samples'
      /\ DecisionScan \in Nat
  <2>1. Len(events) \in Nat /\ Len(events') \in Nat
    BY DEF StoreInv
  <2>2. Len(feedback) \in Nat /\ Len(feedback') \in Nat
    BY DEF StoreInv
  <2>3. samples \in Nat /\ samples' \in Nat
    BY DEF StoreInv
  <2> QED BY <2>1, <2>2, <2>3, ConsoleAssumption DEF Grown
<1>2. ScanIsWhole' => ScanIsWhole
  BY <1>1 DEF ScanIsWhole
<1>3. \A b \in Moments : Passed(b) => Passed(b)'
  BY <1>1 DEF Grown, Passed, Moments
<1>4. \A i \in 1..Len(events) : ~Undecided(i) => ~Undecided(i)'
  BY DEF Grown, Undecided
<1>5. ASSUME c \in ListCalls, ListOK(c) PROVE ListOK(c)'
  BY <1>1, <1>3, <1>5 DEF ListCalls, ListOK, Moments
<1>6. ASSUME c \in SummaryCalls, SummaryOK(c) PROVE SummaryOK(c)'
  <2>1. c.began \in Moments /\ c.began.events \in Nat /\ c.began.samples \in Nat
    BY <1>6 DEF SummaryCalls, Moments
  <2>2. Passed(c.began) /\ Passed(c.began)'
    BY <1>3, <1>6, <2>1 DEF SummaryOK
  <2>3. c.rows \subseteq 1..Len(events') /\ c.decided \subseteq DecidedIssues(DOMAIN feedback)'
    BY <1>1, <1>6 DEF SummaryOK, Grown
  <2>4. \A i \in 1..c.began.events : i \in 1..Len(events)
    BY <1>1, <2>1, <2>2 DEF Passed
  <2>5. samples' = c.began.samples => samples = c.began.samples /\ health' = health
    BY <1>1, <2>1, <2>2 DEF Passed, Grown
  <2>6. "outbox" \notin c.todo \cup c.failed /\ ~PendingIsLowerBound(c) =>
          \A i \in 1..c.began.events : i \in c.rows \/ events'[i].consumed
    BY <1>6, <2>4 DEF SummaryOK, Grown
  <2> QED BY <1>6, <2>2, <2>3, <2>5, <2>6
          DEF SummaryOK, PendingIsLowerBound, DecisionScanTruncated, OverallMayBeIncomplete
<1>7. ASSUME c \in DigestCalls, DigestOK(c) PROVE DigestOK(c)'
  <2>1. c.began \in Moments /\ c.began.events \in Nat /\ c.week.events \in Nat
    BY <1>7 DEF DigestCalls, Moments
  <2>2. Passed(c.began) /\ Passed(c.began)'
    BY <1>3, <1>7, <2>1 DEF DigestOK
  <2>3. /\ c.pending \subseteq 1..Len(events')
        /\ c.decided \subseteq DecidedIssues(DOMAIN feedback)'
    BY <1>1, <1>7 DEF DigestOK, Grown
  <2>4. ScanIsWhole' => \A i \in c.pending : events'[i].issue \notin c.began.decided
    BY <1>2, <1>7 DEF DigestOK, Grown
  <2>5. \A i \in (c.week.events + 1)..c.began.events : i \in 1..Len(events)
    BY <1>1, <2>1, <2>2 DEF Passed
  <2>6. (/\ c.pc \in {"outcomes", "count", "built"} /\ env'.database /\ ~c.missed
         /\ Len(events') <= DecisionScan) =>
          \A i \in (c.week.events + 1)..c.began.events : i \in c.pending \/ ~Undecided(i)'
    <3>1. env' = env /\ (Len(events') <= DecisionScan => Len(events) <= DecisionScan)
      BY <1>1 DEF Grown
    <3> QED BY <1>4, <1>7, <2>5, <3>1 DEF DigestOK
  <2> QED BY <1>2, <1>7, <2>2, <2>3, <2>4, <2>6 DEF DigestOK
<1> QED BY <1>5, <1>6, <1>7 DEF CallOK

\* A step that changes one call, or none, keeps the others as they were.
LEMMA CallsKept ==
    ASSUME ConsoleInv, StoreInv', Grown,
           \/ UNCHANGED call
           \/ \E p \in Calls : \E c : CallOK(c) /\ call' = [call EXCEPT ![p] = c]
    PROVE  CallsInv'
<1>1. \A c : CallOK(c) => CallOK(c)'
  BY CallStays DEF ConsoleInv
<1>2. CASE UNCHANGED call
  BY <1>1, <1>2 DEF ConsoleInv, CallsInv
<1>3. ASSUME NEW p \in Calls, NEW c, CallOK(c), call' = [call EXCEPT ![p] = c]
      PROVE  CallsInv'
  <2>1. call' = [q \in Calls |-> IF q = p THEN c ELSE call[q]]
    BY <1>3 DEF ConsoleInv, CallsInv
  <2>2. call' = [q \in Calls |-> call'[q]]
    BY <2>1
  <2>3. ASSUME NEW q \in Calls PROVE CallOK(call[q])'
    <3>1. PICK d : d = IF q = p THEN c ELSE call[q]
      OBVIOUS
    <3>2. CallOK(d)
      BY <1>3, <3>1 DEF ConsoleInv, CallsInv
    <3>3. CallOK(d)'
      BY <1>1, <3>2
    <3>4. call'[q] = d
      BY <2>1, <3>1
    <3> QED BY <3>3, <3>4
  <2> QED BY <2>2, <2>3 DEF CallsInv
<1> QED BY <1>2, <1>3

\* A step that brings no call to the point of recording a decision, and records none.
LEMMA NotDeciding ==
    ASSUME ConsoleInv, UNCHANGED <<feedback, asked, resent>>,
           \/ UNCHANGED call
           \/ \E p \in Calls : \E c : /\ c.op # "decide" \/ c.pc # "commit"
                                      /\ call' = [call EXCEPT ![p] = c]
    PROVE  DecideInv'
<1>1. \A i \in Issues : Committing(i)' \subseteq Committing(i)
  <2>1. CASE UNCHANGED call
    BY <2>1 DEF Committing
  <2>2. ASSUME NEW p \in Calls, NEW c, c.op # "decide" \/ c.pc # "commit",
               call' = [call EXCEPT ![p] = c]
        PROVE  \A i \in Issues : Committing(i)' \subseteq Committing(i)
    <3>1. \A q \in Calls : call'[q] = IF q = p THEN c ELSE call[q]
      BY <2>2 DEF ConsoleInv, CallsInv
    <3> QED BY <2>2, <3>1 DEF Committing
  <2> QED BY <2>1, <2>2
<1>2. ASSUME NEW i \in Issues
      PROVE  /\ IsFiniteSet(Committing(i)')
             /\ Cardinality(RowsOf(i)') + Cardinality(Committing(i)')
                   <= asked'[i] + resent'[i]
  <2>1. /\ IsFiniteSet(Committing(i))
        /\ Cardinality(RowsOf(i)) + Cardinality(Committing(i)) <= asked[i] + resent[i]
        /\ asked[i] \in Nat /\ resent[i] \in Nat
    BY DEF ConsoleInv, DecideInv, StoreInv
  <2>2. /\ IsFiniteSet(Committing(i)') /\ Cardinality(Committing(i)') \in Nat
        /\ Cardinality(Committing(i)') <= Cardinality(Committing(i))
        /\ Cardinality(Committing(i)) \in Nat
    BY <1>1, <2>1, FS_Subset, FS_CardinalityType
  <2>3. RowsOf(i)' = RowsOf(i) /\ asked' = asked /\ resent' = resent
    BY DEF RowsOf
  <2>4. Cardinality(RowsOf(i)) \in Nat
    <3>1. Len(feedback) \in Nat /\ RowsOf(i) \in SUBSET (1..Len(feedback))
      BY StoreFacts DEF ConsoleInv, RowsOf
    <3>2. IsFiniteSet(1..Len(feedback))
      BY <3>1, FS_Interval
    <3> QED BY <3>1, <3>2, FS_Subset, FS_CardinalityType
  <2> QED BY <2>1, <2>2, <2>3, <2>4
<1> QED BY <1>2 DEF DecideInv

\* No store is touched.
LEMMA StoresStay ==
    ASSUME ConsoleInv, UNCHANGED <<setup, stores>>
    PROVE  StoreInv' /\ Grown /\ LostPatchNeedsOverlap'
           /\ UNCHANGED <<feedback, asked, resent>>
<1>1. /\ UNCHANGED <<env, events, feedback, signals, week, health, samples>>
      /\ UNCHANGED <<asked, resent, doc, owed, overlap>>
  BY DEF setup, stores, approvals, plane, settings
<1>2. StoreInv'
  BY <1>1 DEF ConsoleInv, StoreInv
<1>3. LostPatchNeedsOverlap'
  BY <1>1 DEF ConsoleInv, LostPatchNeedsOverlap
<1>4. Len(events) \in Nat /\ Len(feedback) \in Nat /\ samples \in Nat
  BY DEF ConsoleInv, StoreInv
<1>5. Grown
  BY <1>1, <1>4 DEF Grown, DecidedIssues
<1> QED BY <1>1, <1>2, <1>3, <1>5

\* A step of a call that reads, ends or waits.
LEMMA ViewStep ==
    ASSUME ConsoleInv, UNCHANGED <<setup, stores>>, NEW p \in Calls, NEW c,
           call' = [call EXCEPT ![p] = c], CallOK(c), c.op # "decide" \/ c.pc # "commit"
    PROVE  ConsoleInv'
BY StoresStay, CallsKept, NotDeciding DEF ConsoleInv

\* A call that ends without a write.
LEMMA EndStep ==
    ASSUME ConsoleInv, UNCHANGED <<setup, stores>>, NEW p \in Calls,
           call' = [call EXCEPT ![p] = NoCall]
    PROVE  ConsoleInv'
<1>1. CallOK(NoCall) /\ NoCall.op # "decide"
  BY DEF CallOK, NoCall, OtherOps
<1> QED BY <1>1, ViewStep

\* What a call is, from its route.
LEMMA CallIs ==
    ASSUME ConsoleInv, NEW p \in Calls
    PROVE  /\ call[p].op = "list" => call[p] \in ListCalls /\ ListOK(call[p])
           /\ call[p].op = "summary" => call[p] \in SummaryCalls /\ SummaryOK(call[p])
           /\ call[p].op \in {"weekly", "send"} =>
                 call[p] \in DigestCalls /\ DigestOK(call[p])
           /\ call[p].op = "decide" => call[p] \in DecideCalls
           /\ call[p].op \in OtherOps => "op" \in DOMAIN call[p]
<1>1. CallOK(call[p])
  BY DEF ConsoleInv, CallsInv
<1>2. /\ call[p] \in ListCalls => call[p].op = "list"
      /\ call[p] \in SummaryCalls => call[p].op = "summary"
      /\ call[p] \in DigestCalls => call[p].op \in {"weekly", "send"}
      /\ call[p] \in DecideCalls => call[p].op = "decide"
  BY DEF ListCalls, SummaryCalls, DigestCalls, DecideCalls
<1> QED BY <1>1, <1>2 DEF CallOK, OtherOps

\* The present moment has passed at any later one.
LEMMA NowPassed == StoreInv => Now \in Moments /\ Passed(Now)
<1> SUFFICES ASSUME StoreInv PROVE Now \in Moments /\ Passed(Now)
  OBVIOUS
<1>1. Len(events) \in Nat /\ samples \in Nat /\ DecidedIssues(DOMAIN feedback) \subseteq Issues
  BY StoreFacts DEF StoreInv
<1> QED BY <1>1 DEF Now, Moments, Passed

\* GET /v1/approvals.
LEMMA ListStep ==
    ASSUME ConsoleInv, NEW p \in Calls, List(p) \/ ListEvents(p) \/ ListReply(p)
    PROVE  ConsoleInv'
<1>0. StoreInv /\ Now \in Moments /\ Passed(Now)
  BY NowPassed DEF ConsoleInv
<1>1. CASE List(p)
  <2> DEFINE c == [op |-> "list", pc |-> "events", began |-> Now, listed |-> {}]
  <2>1. UNCHANGED <<setup, stores>> /\ call' = [call EXCEPT ![p] = c]
    BY <1>1 DEF List, Enter, Continue, Quiet
  <2>2. c \in ListCalls /\ ListOK(c) /\ c.op # "decide"
    BY <1>0 DEF ListCalls, ListOK
  <2> QED BY <2>1, <2>2, ViewStep DEF CallOK
<1>2. CASE ListEvents(p)
  <2> DEFINE c == [call[p] EXCEPT !.pc = "decisions",
                                  !.listed = ListByEventType(2 * Limit)]
  <2>1. UNCHANGED <<setup, stores>> /\ call' = [call EXCEPT ![p] = c]
    BY <1>2 DEF ListEvents, Continue, Quiet
  <2>2. call[p] \in ListCalls /\ ListOK(call[p])
    BY <1>2, CallIs DEF ListEvents, At
  <2>3. Len(events) \in Nat /\ ListByEventType(2 * Limit) \in SUBSET Nat
    BY <1>0, StoreFacts DEF ListByEventType, Newest
  <2>4. c \in ListCalls /\ c.began = call[p].began /\ c.op = "list"
        /\ c.listed = Newest(Len(events), 2 * Limit)
    BY <2>2, <2>3 DEF ListCalls, ListByEventType
  <2>5. Len(events) \in c.began.events..Len(events)
    BY <2>2, <2>3, <2>4 DEF ListCalls, Moments, ListOK, Passed
  <2>6. ListOK(c)
    BY <2>2, <2>4, <2>5 DEF ListOK
  <2> HIDE DEF c
  <2> QED BY <2>1, <2>4, <2>6, ViewStep DEF CallOK
<1>3. CASE ListReply(p)
  BY <1>3, EndStep DEF ListReply, Reply, Continue, Quiet
<1> QED BY <1>1, <1>2, <1>3

\* The unconsumed rows the summary reads are all there are, or as many as it asked for.
LEMMA UnconsumedFacts ==
    ASSUME StoreInv
    PROVE  /\ ListUnconsumed(OutboxScan) \subseteq 1..Len(events)
           /\ Cardinality(ListUnconsumed(OutboxScan)) # OutboxScan =>
                 \A i \in 1..Len(events) :
                    i \in ListUnconsumed(OutboxScan) \/ events[i].consumed
<1> DEFINE U == {i \in DOMAIN events : ~events[i].consumed}
<1>1. Len(events) \in Nat /\ DOMAIN events = 1..Len(events) /\ OutboxScan \in Nat
  BY StoreFacts, ConsoleAssumption
<1>2. IsFiniteSet(U) /\ U \in SUBSET Nat /\ U \subseteq 1..Len(events)
      /\ Cardinality(U) \in Nat
  <2>1. IsFiniteSet(1..Len(events))
    BY <1>1, FS_Interval
  <2>2. U \in SUBSET (1..Len(events))
    BY <1>1
  <2> QED BY <1>1, <2>1, <2>2, FS_Subset, FS_CardinalityType
<1>3. ListUnconsumed(OutboxScan) = OldestOf(U, OutboxScan)
  BY DEF ListUnconsumed
<1>4. OldestOf(U, OutboxScan) \subseteq U
  BY DEF OldestOf
<1>5. ASSUME NEW i \in U, i \notin OldestOf(U, OutboxScan)
      PROVE  Cardinality(OldestOf(U, OutboxScan)) = OutboxScan
  <2>1. {j \in U : j < i} \in SUBSET U
    OBVIOUS
  <2>2. /\ Cardinality({j \in U : j < i}) \in Nat
        /\ Cardinality({j \in U : j < i}) <= Cardinality(U)
    BY <1>2, <2>1, FS_Subset, FS_CardinalityType
  <2>3. ~(Cardinality({j \in U : j < i}) < OutboxScan)
    BY <1>5 DEF OldestOf
  <2>4. OutboxScan <= Cardinality(U)
    BY <1>1, <1>2, <2>2, <2>3
  <2> HIDE DEF U
  <2> QED BY <1>1, <1>2, <2>4, OldestOfCount
<1> QED BY <1>1, <1>2, <1>3, <1>4, <1>5

\* The states the summary reads are those of all components that reported, or of as
\* many as it asked for.
LEMMA LatestFacts ==
    ASSUME StoreInv, NEW listed \in ListLatest(HealthLimit)
    PROVE  /\ listed \subseteq Components
           /\ {health[k] : k \in listed} \subseteq HealthStates
           /\ \/ listed = {m \in Components : health[m] # Null}
              \/ Cardinality(listed) = HealthLimit
<1> DEFINE seen == {m \in Components : health[m] # Null}
<1>1. listed \in IF Cardinality(seen) <= HealthLimit THEN {seen}
                   ELSE kSubset(HealthLimit, seen)
  BY DEF ListLatest
<1>2. listed \in SUBSET seen /\ (listed = seen \/ Cardinality(listed) = HealthLimit)
  BY <1>1 DEF kSubset
<1>3. \A k \in seen : health[k] \in HealthStates
  BY DEF StoreInv
<1> QED BY <1>2, <1>3

\* One of the parallel reads of the summary returns.
LEMMA SummaryReadStep ==
    ASSUME ConsoleInv, NEW p \in Calls, NEW s \in Sources, SummaryRead(p, s)
    PROVE  ConsoleInv'
<1> DEFINE b == call[p]
           d == [b EXCEPT !.todo = @ \ {s}]
           rows == ListRecent(DecisionScan)
<1>1. UNCHANGED <<setup, stores>> /\ StoreInv
  BY DEF SummaryRead, Quiet, ConsoleInv
<1>2. b \in SummaryCalls /\ SummaryOK(b)
  BY CallIs DEF SummaryRead, At
<1>3. d \in SummaryCalls /\ d = [b EXCEPT !.todo = b.todo \ {s}]
  BY <1>2 DEF SummaryCalls
<1>4. /\ d.began = b.began /\ d.todo = b.todo \ {s} /\ d.failed = b.failed
      /\ d.rows = b.rows /\ d.decisions = b.decisions /\ d.decided = b.decided
      /\ d.components = b.components /\ d.states = b.states
  BY <1>2 DEF SummaryCalls
<1> HIDE DEF d
<1>5. Passed(b.began) /\ b.began.events \in Nat /\ Len(events) \in Nat
      /\ b.began.events <= Len(events)
  BY <1>1, <1>2, StoreFacts DEF SummaryOK, SummaryCalls, Moments, Passed
<1>6. CASE s = "outbox" /\ Continue(p, [d EXCEPT !.rows = ListUnconsumed(OutboxScan)])
  <2> DEFINE c == [d EXCEPT !.rows = ListUnconsumed(OutboxScan)]
  <2>1. ListUnconsumed(OutboxScan) \subseteq 1..Len(events)
    BY <1>1, UnconsumedFacts
  <2>2. c \in SummaryCalls
    <3>1. ListUnconsumed(OutboxScan) \in SUBSET Nat
      BY <1>5, <2>1
    <3> QED BY <1>3, <3>1 DEF SummaryCalls
  <2>3. /\ c.op = "summary" /\ c.began = b.began /\ c.todo = b.todo \ {"outbox"}
        /\ c.failed = b.failed /\ c.rows = ListUnconsumed(OutboxScan)
        /\ c.decisions = b.decisions /\ c.decided = b.decided
        /\ c.components = b.components /\ c.states = b.states
    BY <1>3, <1>4, <1>6 DEF SummaryCalls
  <2> HIDE DEF c
  <2>4. ~PendingIsLowerBound(c) =>
           \A i \in 1..c.began.events : i \in c.rows \/ events[i].consumed
    BY <1>1, <1>5, <2>3, UnconsumedFacts DEF PendingIsLowerBound
  <2>5. SummaryOK(c)
    BY <1>2, <2>1, <2>3, <2>4
       DEF SummaryOK, DecisionScanTruncated, OverallMayBeIncomplete
  <2>6. call' = [call EXCEPT ![p] = c]
    BY <1>6 DEF Continue, c
  <2> QED BY <1>1, <2>2, <2>3, <2>5, <2>6, ViewStep DEF CallOK
<1>7. CASE s = "approvals" /\ Continue(p, [d EXCEPT !.decisions = rows,
                                                    !.decided = DecidedIssues(rows)])
  <2> DEFINE c == [d EXCEPT !.decisions = rows, !.decided = DecidedIssues(rows)]
  <2>1. /\ rows \subseteq Nat /\ DecidedIssues(rows) \subseteq DecidedIssues(DOMAIN feedback)
        /\ DecidedIssues(rows) \subseteq Issues
        /\ rows = DOMAIN feedback \/ Cardinality(rows) = DecisionScan
    BY <1>1, ListFacts, StoreFacts
  <2> HIDE DEF rows
  <2>2. c \in SummaryCalls
    BY <1>3, <2>1 DEF SummaryCalls
  <2>3. /\ c.op = "summary" /\ c.began = b.began /\ c.todo = b.todo \ {"approvals"}
        /\ c.failed = b.failed /\ c.rows = b.rows
        /\ c.decisions = rows /\ c.decided = DecidedIssues(rows)
        /\ c.components = b.components /\ c.states = b.states
    BY <1>3, <1>4, <1>7 DEF SummaryCalls
  <2> HIDE DEF c
  <2>4. ~DecisionScanTruncated(c) => c.began.decided \subseteq c.decided
    BY <1>5, <2>1, <2>3 DEF DecisionScanTruncated, Passed
  <2>5. SummaryOK(c)
    BY <1>2, <2>1, <2>3, <2>4
       DEF SummaryOK, PendingIsLowerBound, OverallMayBeIncomplete
  <2>6. call' = [call EXCEPT ![p] = c]
    BY <1>7 DEF Continue, c
  <2> QED BY <1>1, <2>2, <2>3, <2>5, <2>6, ViewStep DEF CallOK
<1>8. ASSUME s = "componentHealth", NEW listed \in ListLatest(HealthLimit),
             Continue(p, [d EXCEPT !.components = listed,
                                   !.states = {health[k] : k \in listed}])
      PROVE  ConsoleInv'
  <2> DEFINE c == [d EXCEPT !.components = listed, !.states = {health[k] : k \in listed}]
  <2>1. /\ listed \subseteq Components /\ {health[k] : k \in listed} \subseteq HealthStates
        /\ \/ listed = {m \in Components : health[m] # Null}
           \/ Cardinality(listed) = HealthLimit
    BY <1>1, LatestFacts
  <2>2. c \in SummaryCalls
    BY <1>3, <2>1 DEF SummaryCalls
  <2>3. /\ c.op = "summary" /\ c.began = b.began /\ c.todo = b.todo \ {"componentHealth"}
        /\ c.failed = b.failed /\ c.rows = b.rows
        /\ c.decisions = b.decisions /\ c.decided = b.decided
        /\ c.components = listed /\ c.states = {health[k] : k \in listed}
    BY <1>3, <1>4, <1>8 DEF SummaryCalls
  <2> HIDE DEF c
  <2>4. ~OverallMayBeIncomplete(c) =>
           c.states = {health[k] : k \in {m \in Components : health[m] # Null}}
    BY <2>1, <2>3 DEF OverallMayBeIncomplete
  <2>5. SummaryOK(c)
    BY <1>2, <2>1, <2>3, <2>4
       DEF SummaryOK, PendingIsLowerBound, DecisionScanTruncated
  <2>6. call' = [call EXCEPT ![p] = c]
    BY <1>8 DEF Continue, c
  <2> QED BY <1>1, <2>2, <2>3, <2>5, <2>6, ViewStep DEF CallOK
<1>9. CASE s = "rest" /\ Continue(p, d)
  <2>1. SummaryOK(d)
    BY <1>2, <1>4, <1>9
       DEF SummaryOK, PendingIsLowerBound, DecisionScanTruncated, OverallMayBeIncomplete
  <2>2. call' = [call EXCEPT ![p] = d] /\ d.op = "summary"
    BY <1>3, <1>9 DEF Continue, SummaryCalls
  <2> QED BY <1>1, <1>3, <2>1, <2>2, ViewStep DEF CallOK
<1> QED BY <1>6, <1>7, <1>8, <1>9 DEF SummaryRead, d

\* GET /v1/control-plane/summary.
LEMMA SummaryStep ==
    ASSUME ConsoleInv, NEW p \in Calls,
           \/ Summary(p) \/ SummaryReply(p)
           \/ \E s \in Sources : SummaryRead(p, s) \/ SummaryReadFails(p, s)
    PROVE  ConsoleInv'
<1>1. CASE Summary(p)
  <2> DEFINE c == [op |-> "summary", pc |-> "reads", began |-> Now, todo |-> Sources,
                   failed |-> {}, rows |-> {}, decisions |-> {}, components |-> {},
                   states |-> {}, decided |-> {}]
  <2>1. UNCHANGED <<setup, stores>> /\ call' = [call EXCEPT ![p] = c]
    BY <1>1 DEF Summary, Enter, Continue, Quiet
  <2>2. Now \in Moments /\ Passed(Now)
    BY NowPassed DEF ConsoleInv
  <2>3. c \in SummaryCalls
    BY <2>2 DEF SummaryCalls
  <2>4. SummaryOK(c)
    BY <2>2 DEF SummaryOK, Sources
  <2> QED BY <2>1, <2>3, <2>4, ViewStep DEF CallOK
<1>2. CASE SummaryReply(p)
  <2>1. UNCHANGED <<setup, stores>> /\ call' = [call EXCEPT ![p] = NoCall]
    BY <1>2 DEF SummaryReply, Reply, ReplyError, Continue, Quiet
  <2> QED BY <2>1, EndStep
<1>3. ASSUME NEW s \in Sources, SummaryReadFails(p, s) PROVE ConsoleInv'
  <2> DEFINE b == call[p]
             c == [b EXCEPT !.todo = @ \ {s}, !.failed = @ \cup {s}]
  <2>1. UNCHANGED <<setup, stores>> /\ call' = [call EXCEPT ![p] = c]
    BY <1>3 DEF SummaryReadFails, Continue, Faulty
  <2>2. b \in SummaryCalls /\ SummaryOK(b)
    BY <1>3, CallIs DEF SummaryReadFails, At
  <2>3. c \in SummaryCalls /\ c.op = "summary"
    BY <2>2 DEF SummaryCalls
  <2>4. /\ c.began = b.began /\ c.todo \cup c.failed = b.todo \cup b.failed \cup {s}
        /\ c.rows = b.rows /\ c.decisions = b.decisions /\ c.decided = b.decided
        /\ c.components = b.components /\ c.states = b.states
    BY <2>2 DEF SummaryCalls
  <2> HIDE DEF c
  <2>5. SummaryOK(c)
    BY <2>2, <2>4
       DEF SummaryOK, PendingIsLowerBound, DecisionScanTruncated, OverallMayBeIncomplete
  <2> QED BY <2>1, <2>3, <2>5, ViewStep DEF CallOK
<1> QED BY <1>1, <1>2, <1>3, SummaryReadStep

\* A step of a digest that keeps what was counted, or drops it all for a fault.
LEMMA DigestGoesOn ==
    ASSUME ConsoleInv, UNCHANGED <<setup, stores>>, NEW p \in Calls, NEW c \in DigestCalls,
           call[p].op \in {"weekly", "send"}, call' = [call EXCEPT ![p] = c],
           c.began = call[p].began, c.week = call[p].week, c.pending = call[p].pending,
           c.decided = call[p].decided \/ c.decided = {}, c.pc # "events",
           \/ c.missed
           \/ c.pc \notin {"outcomes", "count", "built"}
           \/ /\ call[p].pc \in {"outcomes", "count", "built"} /\ c.missed = call[p].missed,
           c.mails <= c.lost, c.attempt <= MaxAttempts
    PROVE  ConsoleInv'
<1>1. call[p] \in DigestCalls /\ DigestOK(call[p])
  BY CallIs
<1>2. DigestOK(c)
  BY <1>1 DEF DigestOK
<1>3. c.op # "decide"
  BY DEF DigestCalls
<1> QED BY <1>2, <1>3, ViewStep DEF CallOK

\* A digest begins.
LEMMA DigestBegins ==
    ASSUME ConsoleInv, NEW p \in Calls, NEW op \in {"weekly", "send"}, Digest(p, op)
    PROVE  ConsoleInv'
<1> DEFINE c == [op |-> op, pc |-> IF env.database THEN "stack" ELSE "built",
                 began |-> Now, week |-> week, missed |-> FALSE, decided |-> {},
                 pending |-> {}, approved |-> 0, rejected |-> 0, attempt |-> 1,
                 mails |-> 0, lost |-> 0]
<1>1. UNCHANGED <<setup, stores>> /\ call' = [call EXCEPT ![p] = c]
  BY DEF Digest, Enter, Continue, Quiet
<1>2. Now \in Moments /\ Passed(Now)
  BY NowPassed DEF ConsoleInv
<1>3. week \in [events : Nat, feedback : Nat] /\ 1 <= MaxAttempts
  BY ConsoleAssumption DEF ConsoleInv, StoreInv
<1>4. (IF env.database THEN "stack" ELSE "built") \in
         {"stack", "decisions", "events", "outcomes", "count", "built"}
  OBVIOUS
<1>5. c \in DigestCalls
  BY <1>2, <1>3, <1>4 DEF DigestCalls
<1>6. /\ c.began = Now /\ c.decided = {} /\ c.pending = {} /\ c.mails = 0 /\ c.lost = 0
      /\ c.attempt = 1 /\ c.pc = (IF env.database THEN "stack" ELSE "built")
      /\ c.op # "decide"
  OBVIOUS
<1> HIDE DEF c
<1>7. DigestOK(c)
  BY <1>2, <1>3, <1>6 DEF DigestOK
<1> QED BY <1>1, <1>5, <1>6, <1>7, ViewStep DEF CallOK

\* The two reads behind the pending count of the digest.
LEMMA DigestReads ==
    ASSUME ConsoleInv, NEW p \in Calls, DigestDecisions(p) \/ DigestEvents(p)
    PROVE  ConsoleInv'
<1> DEFINE b == call[p]
<1>1. StoreInv /\ UNCHANGED <<setup, stores>>
  BY DEF ConsoleInv, DigestDecisions, DigestEvents, Quiet
<1>2. b \in DigestCalls /\ DigestOK(b)
  BY CallIs DEF DigestDecisions, DigestEvents, DigestAt, At
<1>3. /\ b.began.events \in Nat /\ Len(events) \in Nat /\ b.began.events <= Len(events)
      /\ b.week.events \in Nat /\ b.began.decided \subseteq DecidedIssues(DOMAIN feedback)
  BY <1>1, <1>2, StoreFacts DEF DigestOK, DigestCalls, Moments, Passed
<1>4. CASE DigestDecisions(p)
  <2> DEFINE read == DecidedIssues(ListRecent(DecisionScan))
             c == [b EXCEPT !.pc = "events", !.decided = read]
  <2>1. call' = [call EXCEPT ![p] = c] /\ b.pc = "decisions"
    BY <1>4 DEF DigestDecisions, Continue, DigestAt, At
  <2>2. /\ read \subseteq DecidedIssues(DOMAIN feedback) /\ read \subseteq Issues
        /\ ScanIsWhole => read = DecidedIssues(DOMAIN feedback)
    BY <1>1, ListFacts, StoreFacts
  <2> HIDE DEF read
  <2>3. c \in DigestCalls
    BY <1>2, <2>2 DEF DigestCalls
  <2>4. /\ c.op # "decide" /\ c.began = b.began /\ c.week = b.week /\ c.missed = b.missed
        /\ c.decided = read /\ c.pending = b.pending /\ c.pc = "events"
        /\ c.mails = b.mails /\ c.lost = b.lost /\ c.attempt = b.attempt
    BY <1>2 DEF DigestCalls
  <2> HIDE DEF c
  <2>5. DigestOK(c)
    BY <1>2, <1>3, <2>2, <2>4 DEF DigestOK
  <2> QED BY <1>1, <2>1, <2>3, <2>4, <2>5, ViewStep DEF CallOK
<1>5. CASE DigestEvents(p)
  <2> DEFINE read == {i \in ListByEventType(DecisionScan) :
                         i > b.week.events /\ IsPending(i, b.decided)}
             c == [b EXCEPT !.pc = "outcomes", !.decided = {}, !.pending = read]
  <2>1. call' = [call EXCEPT ![p] = c] /\ b.pc = "events"
    BY <1>5 DEF DigestEvents, Continue, DigestAt, At
  <2>2. read \subseteq 1..Len(events) /\ read \subseteq Nat
    BY <1>1, <1>3, ListFacts
  <2>3. ScanIsWhole => \A i \in read : events[i].issue \notin b.began.decided
    BY <1>1, <1>2, <1>3, <2>1, StoreFacts DEF DigestOK, IsPending
  <2>4. Len(events) <= DecisionScan =>
           \A i \in (b.week.events + 1)..b.began.events : i \in read \/ ~Undecided(i)
    <3> SUFFICES ASSUME Len(events) <= DecisionScan,
                        NEW i \in (b.week.events + 1)..b.began.events, Undecided(i)
                 PROVE  i \in read
      OBVIOUS
    <3>1. i \in ListByEventType(DecisionScan) /\ i > b.week.events
      BY <1>1, <1>3, ListFacts
    <3>2. IsPending(i, b.decided)
      BY <1>2 DEF DigestOK, IsPending, Undecided
    <3> QED BY <3>1, <3>2
  <2> HIDE DEF read
  <2>5. c \in DigestCalls
    BY <1>2, <2>2 DEF DigestCalls
  <2>6. /\ c.op # "decide" /\ c.began = b.began /\ c.week = b.week /\ c.missed = b.missed
        /\ c.decided = {} /\ c.pending = read /\ c.pc = "outcomes"
        /\ c.mails = b.mails /\ c.lost = b.lost /\ c.attempt = b.attempt
    BY <1>2 DEF DigestCalls
  <2> HIDE DEF c
  <2>7. DigestOK(c)
    BY <1>2, <2>2, <2>3, <2>4, <2>6 DEF DigestOK
  <2> QED BY <1>1, <2>1, <2>5, <2>6, <2>7, ViewStep DEF CallOK
<1> QED BY <1>4, <1>5

\* The other reads of the digest, and a failure of one.
LEMMA DigestStep ==
    ASSUME ConsoleInv, NEW p \in Calls,
           \/ DigestStack(p) \/ DigestOutcomes(p) \/ DigestReadFails(p) \/ DigestCount(p)
    PROVE  ConsoleInv'
<1> DEFINE b == call[p]
<1>1. UNCHANGED <<setup, stores>> /\ b.op \in {"weekly", "send"}
  BY DEF DigestStack, DigestOutcomes, DigestReadFails, DigestCount, Quiet, Faulty,
         DigestAt, At
<1>2. b \in DigestCalls /\ DigestOK(b)
  BY <1>1, CallIs
<1>3. b.mails <= b.lost /\ b.attempt <= MaxAttempts
  BY <1>2 DEF DigestOK
<1>4. CASE DigestStack(p)
  <2> DEFINE c == [b EXCEPT !.pc = "decisions"]
  <2>1. call' = [call EXCEPT ![p] = c]
    BY <1>4 DEF DigestStack, Continue
  <2>2. c \in DigestCalls
    BY <1>2 DEF DigestCalls
  <2>3. /\ c.began = b.began /\ c.week = b.week /\ c.pending = b.pending
        /\ c.decided = b.decided /\ c.pc = "decisions"
        /\ c.mails = b.mails /\ c.lost = b.lost /\ c.attempt = b.attempt
    BY <1>2 DEF DigestCalls
  <2> HIDE DEF c
  <2> QED BY <1>1, <1>3, <2>1, <2>2, <2>3, DigestGoesOn
<1>5. CASE DigestOutcomes(p)
  <2> DEFINE n == Cardinality(Outcome(p, {"approved", "edited_then_approved"}))
             m == Cardinality(Outcome(p, {"rejected"}))
             c == [b EXCEPT !.pc = "count", !.approved = n, !.rejected = m]
  <2>1. call' = [call EXCEPT ![p] = c] /\ b.pc = "outcomes"
    BY <1>5 DEF DigestOutcomes, Continue, DigestAt, At
  <2>2. n \in Nat /\ m \in Nat
    <3>0. Len(feedback) \in Nat
      BY StoreFacts DEF ConsoleInv
    <3>1. IsFiniteSet(1..Len(feedback))
      BY <3>0, FS_Interval
    <3>2. \A actions : Outcome(p, actions) \in SUBSET (1..Len(feedback))
      BY ListFacts DEF ConsoleInv, Outcome
    <3> QED BY <3>1, <3>2, FS_Subset, FS_CardinalityType
  <2> HIDE DEF n, m
  <2>3. c \in DigestCalls
    BY <1>2, <2>2 DEF DigestCalls
  <2>4. /\ c.began = b.began /\ c.week = b.week /\ c.pending = b.pending
        /\ c.decided = b.decided /\ c.pc = "count" /\ c.missed = b.missed
        /\ c.mails = b.mails /\ c.lost = b.lost /\ c.attempt = b.attempt
    BY <1>2 DEF DigestCalls
  <2> HIDE DEF c
  <2> QED BY <1>1, <1>3, <2>1, <2>3, <2>4, DigestGoesOn
<1>6. CASE DigestReadFails(p)
  <2> DEFINE next == IF b.pc = "outcomes" THEN "count" ELSE "outcomes"
             c == [b EXCEPT !.missed = TRUE, !.decided = {}, !.pc = next]
  <2>1. call' = [call EXCEPT ![p] = c]
    <3>1. [b EXCEPT !.missed = TRUE, !.decided = {},
                    !.pc = IF @ = "outcomes" THEN "count" ELSE "outcomes"] = c
      BY <1>2 DEF DigestCalls
    <3> QED BY <1>6, <3>1 DEF DigestReadFails, Continue
  <2>2. next \in {"count", "outcomes"}
    OBVIOUS
  <2> HIDE DEF next
  <2>3. c \in DigestCalls
    BY <1>2, <2>2 DEF DigestCalls
  <2>4. /\ c.began = b.began /\ c.week = b.week /\ c.pending = b.pending
        /\ c.decided = {} /\ c.pc = next /\ c.missed
        /\ c.mails = b.mails /\ c.lost = b.lost /\ c.attempt = b.attempt
    BY <1>2 DEF DigestCalls
  <2> HIDE DEF c
  <2> QED BY <1>1, <1>3, <2>1, <2>2, <2>3, <2>4, DigestGoesOn
<1>7. CASE DigestCount(p)
  <2> DEFINE c == [b EXCEPT !.pc = "built"]
  <2>1. call' = [call EXCEPT ![p] = c] /\ b.pc = "count"
    BY <1>7 DEF DigestCount, Continue, DigestAt, At
  <2>2. c \in DigestCalls
    BY <1>2 DEF DigestCalls
  <2>3. /\ c.began = b.began /\ c.week = b.week /\ c.pending = b.pending
        /\ c.decided = b.decided /\ c.pc = "built" /\ c.missed = b.missed
        /\ c.mails = b.mails /\ c.lost = b.lost /\ c.attempt = b.attempt
    BY <1>2 DEF DigestCalls
  <2> HIDE DEF c
  <2> QED BY <1>1, <1>3, <2>1, <2>2, <2>3, DigestGoesOn
<1> QED BY <1>4, <1>5, <1>6, <1>7

\* The answer of the digest, and the posts of its mail.
LEMMA DigestEnds ==
    ASSUME ConsoleInv, NEW p \in Calls,
           DigestReply(p) \/ PostAccepted(p) \/ PostRefused(p) \/ PostLost(p)
    PROVE  ConsoleInv'
<1> DEFINE b == call[p]
<1>1. UNCHANGED <<setup, stores>>
      /\ b.op \in {"weekly", "send"} /\ b.pc = "built"
  BY DEF DigestReply, PostAccepted, PostRefused, PostLost, Posting, DigestAt, At, Quiet,
         Faulty
<1>2. b \in DigestCalls /\ DigestOK(b)
  BY <1>1, CallIs
<1>3. MaxAttempts \in Nat /\ b.mails \in Nat /\ b.lost \in Nat /\ b.attempt \in Nat
      /\ b.mails <= b.lost
  BY <1>2, ConsoleAssumption DEF DigestCalls, DigestOK
<1>4. ASSUME Reply(p) PROVE ConsoleInv'
  BY <1>1, <1>4, EndStep DEF Reply, Continue
<1>5. ASSUME NEW m \in Nat, NEW l \in Nat, m <= l, ~(b.attempt >= MaxAttempts),
             NEW c, c = [b EXCEPT !.mails = m, !.lost = l, !.attempt = b.attempt + 1],
             call' = [call EXCEPT ![p] = c]
      PROVE  ConsoleInv'
  <2>1. b.attempt + 1 \in Nat /\ b.attempt + 1 <= MaxAttempts
    BY <1>3, <1>5
  <2>2. c \in DigestCalls
    BY <1>2, <1>5, <2>1 DEF DigestCalls
  <2>3. /\ c.began = b.began /\ c.week = b.week /\ c.pending = b.pending
        /\ c.decided = b.decided /\ c.pc = "built" /\ c.missed = b.missed
        /\ c.mails = m /\ c.lost = l /\ c.attempt = b.attempt + 1
    BY <1>1, <1>2, <1>5 DEF DigestCalls
  <2> QED BY <1>1, <1>5, <2>1, <2>2, <2>3, DigestGoesOn
<1>6. ASSUME TryAgain(p, b) PROVE ConsoleInv'
  <2>1. CASE b.attempt >= MaxAttempts
    BY <1>4, <1>6, <2>1 DEF TryAgain
  <2>2. CASE ~(b.attempt >= MaxAttempts)
    <3> DEFINE c == [b EXCEPT !.attempt = b.attempt + 1]
    <3>1. call' = [call EXCEPT ![p] = c]
      BY <1>6, <2>2 DEF TryAgain, Continue
    <3>2. c = [b EXCEPT !.mails = b.mails, !.lost = b.lost, !.attempt = b.attempt + 1]
      BY <1>2 DEF DigestCalls
    <3> QED BY <1>3, <1>5, <2>2, <3>1, <3>2
  <2> QED BY <2>1, <2>2
<1>7. ASSUME NEW accepted \in {0, 1},
             TryAgain(p, [b EXCEPT !.mails = @ + accepted, !.lost = @ + 1])
      PROVE  ConsoleInv'
  <2> DEFINE d == [b EXCEPT !.mails = @ + accepted, !.lost = @ + 1]
  <2>1. d.attempt = b.attempt
    BY <1>2 DEF DigestCalls
  <2>2. CASE b.attempt >= MaxAttempts
    BY <1>4, <1>7, <2>1, <2>2 DEF TryAgain
  <2>3. CASE ~(b.attempt >= MaxAttempts)
    <3> DEFINE c == [d EXCEPT !.attempt = d.attempt + 1]
    <3>1. call' = [call EXCEPT ![p] = c]
      BY <1>7, <2>1, <2>3 DEF TryAgain, Continue
    <3>2. c = [b EXCEPT !.mails = b.mails + accepted, !.lost = b.lost + 1,
                        !.attempt = b.attempt + 1]
      BY <1>2, <2>1 DEF DigestCalls
    <3>3. b.mails + accepted \in Nat /\ b.lost + 1 \in Nat
          /\ b.mails + accepted <= b.lost + 1
      BY <1>3
    <3> QED BY <1>5, <2>3, <3>1, <3>2, <3>3
  <2> QED BY <2>2, <2>3
<1> QED BY <1>4, <1>6, <1>7 DEF DigestReply, PostAccepted, PostRefused, PostLost

\* The routes that no property compares with the stores, as long as they do not write.
LEMMA OtherStep ==
    ASSUME ConsoleInv, NEW p \in Calls,
           \/ GetSettings(p) \/ GetSettingsReply(p) \/ PatchRead(p) \/ PatchConflict(p)
           \/ Motion(p) \/ MotionReply(p) \/ ScoreReply(p) \/ ReadOneReply(p)
           \/ DecideReply(p) \/ Throw(p) \/ (\E r \in Routes : Refuse(p, r))
           \/ (\E op \in {"health", "incidents"} : ReadOne(p, op))
           \/ (\E in \in Profiles : Score(p, in))
           \/ \E r \in {"score", "stack", "recent"} : MotionRead(p, r)
    PROVE  ConsoleInv'
<1>1. ASSUME NEW c, UNCHANGED <<setup, stores>>, call' = [call EXCEPT ![p] = c],
             "op" \in DOMAIN c, c.op \in OtherOps
      PROVE  ConsoleInv'
  <2>1. CallOK(c) /\ c.op # "decide"
    BY <1>1 DEF CallOK, OtherOps
  <2> QED BY <1>1, <2>1, ViewStep
<1>2. CASE \/ GetSettingsReply(p) \/ PatchConflict(p) \/ MotionReply(p) \/ ScoreReply(p)
           \/ ReadOneReply(p) \/ DecideReply(p) \/ Throw(p)
           \/ \E r \in Routes : Refuse(p, r)
  <2>1. UNCHANGED <<setup, stores>> /\ call' = [call EXCEPT ![p] = NoCall]
    BY <1>2 DEF GetSettingsReply, PatchConflict, MotionReply, ScoreReply, ReadOneReply,
                DecideReply, Throw, Refuse, Reply, ReplyError, Continue, Quiet, Faulty
  <2> QED BY <2>1, EndStep
<1>3. CASE GetSettings(p)
  <2> DEFINE c == [op |-> "getSettings", pc |-> "read"]
  <2>1. UNCHANGED <<setup, stores>> /\ call' = [call EXCEPT ![p] = c]
    BY <1>3 DEF GetSettings, Enter, Continue, Quiet
  <2>2. "op" \in DOMAIN c /\ c.op \in OtherOps
    BY DEF OtherOps
  <2> HIDE DEF c
  <2> QED BY <1>1, <2>1, <2>2
<1>4. CASE Motion(p)
  <2> DEFINE c == [op |-> "motion", pc |-> "reads", todo |-> {"score", "stack", "recent"}]
  <2>1. UNCHANGED <<setup, stores>> /\ call' = [call EXCEPT ![p] = c]
    BY <1>4 DEF Motion, Enter, Continue, Quiet
  <2>2. "op" \in DOMAIN c /\ c.op \in OtherOps
    BY DEF OtherOps
  <2> HIDE DEF c
  <2> QED BY <1>1, <2>1, <2>2
<1>5. ASSUME NEW op \in {"health", "incidents"}, ReadOne(p, op) PROVE ConsoleInv'
  <2> DEFINE c == [op |-> op, pc |-> "read"]
  <2>1. UNCHANGED <<setup, stores>> /\ call' = [call EXCEPT ![p] = c]
    BY <1>5 DEF ReadOne, Enter, Continue, Quiet
  <2>2. "op" \in DOMAIN c /\ c.op \in OtherOps
    BY DEF OtherOps
  <2> HIDE DEF c
  <2> QED BY <1>1, <2>1, <2>2
<1>6. ASSUME NEW in \in Profiles, Score(p, in) PROVE ConsoleInv'
  <2>1. PICK primary : call' = [call EXCEPT ![p] =
                          [op |-> "score", pc |-> "record", primary |-> primary]]
    BY <1>6 DEF Score, Enter, Continue
  <2> DEFINE c == [op |-> "score", pc |-> "record", primary |-> primary]
  <2>2. UNCHANGED <<setup, stores>> /\ call' = [call EXCEPT ![p] = c]
    BY <1>6, <2>1 DEF Score, Quiet
  <2>3. "op" \in DOMAIN c /\ c.op \in OtherOps
    BY DEF OtherOps
  <2> HIDE DEF c
  <2> QED BY <1>1, <2>2, <2>3
<1>7. CASE PatchRead(p)
  <2> DEFINE c == [call[p] EXCEPT !.pc = "write", !.base = doc, !.existed = stored]
  <2>1. /\ UNCHANGED <<setup, stores>> /\ call' = [call EXCEPT ![p] = c]
        /\ call[p].op = "patch"
    BY <1>7 DEF PatchRead, Continue, Quiet, At
  <2>2. "op" \in DOMAIN call[p]
    BY <2>1, CallIs DEF OtherOps
  <2>3. "op" \in DOMAIN c /\ c.op = "patch"
    BY <2>1, <2>2
  <2> QED BY <1>1, <2>1, <2>3 DEF OtherOps
<1>8. ASSUME NEW r, MotionRead(p, r) PROVE ConsoleInv'
  <2> DEFINE c == [call[p] EXCEPT !.todo = @ \ {r}]
  <2>1. /\ UNCHANGED <<setup, stores>> /\ call' = [call EXCEPT ![p] = c]
        /\ call[p].op = "motion"
    BY <1>8 DEF MotionRead, Continue, Quiet, At
  <2>2. "op" \in DOMAIN call[p]
    BY <2>1, CallIs DEF OtherOps
  <2>3. "op" \in DOMAIN c /\ c.op = "motion"
    BY <2>1, <2>2
  <2> QED BY <1>1, <2>1, <2>3 DEF OtherOps
<1> QED BY <1>2, <1>3, <1>4, <1>5, <1>6, <1>7, <1>8

\* Rows and committing calls are counted with whole numbers.
LEMMA Counts ==
    ASSUME ConsoleInv, NEW i \in Issues
    PROVE  /\ IsFiniteSet(RowsOf(i)) /\ Cardinality(RowsOf(i)) \in Nat
           /\ IsFiniteSet(Committing(i)) /\ Cardinality(Committing(i)) \in Nat
           /\ Cardinality(RowsOf(i)) + Cardinality(Committing(i)) <= asked[i] + resent[i]
           /\ asked[i] \in Nat /\ resent[i] \in Nat
<1>1. /\ IsFiniteSet(Committing(i)) /\ asked[i] \in Nat /\ resent[i] \in Nat
      /\ Cardinality(RowsOf(i)) + Cardinality(Committing(i)) <= asked[i] + resent[i]
  BY DEF ConsoleInv, DecideInv, StoreInv
<1>2. Len(feedback) \in Nat /\ RowsOf(i) \in SUBSET (1..Len(feedback))
  BY StoreFacts DEF ConsoleInv, RowsOf
<1>3. IsFiniteSet(1..Len(feedback))
  BY <1>2, FS_Interval
<1>4. IsFiniteSet(RowsOf(i))
  BY <1>2, <1>3, FS_Subset
<1> QED BY <1>1, <1>4, FS_CardinalityType

\* A founder decides, or the console sends a decision again: one more row may come, and
\* one more was asked for or sent again.
LEMMA SendStep ==
    ASSUME ConsoleInv, NEW p \in Calls,
           Resend(p) \/ \E i \in Issues, a \in DecisionActions : Decide(p, i, a)
    PROVE  ConsoleInv'
<1> DEFINE Sends(j, d) ==
             /\ d.issue = j /\ d.pc = "commit" /\ call' = [call EXCEPT ![p] = d]
             /\ \/ asked' = [asked EXCEPT ![j] = @ + 1] /\ resent' = resent
                \/ resent' = [resent EXCEPT ![j] = @ + 1] /\ asked' = asked
<1>1. \E j \in Issues, d \in DecideCalls : Sends(j, d)
  <2>1. ASSUME NEW i \in Issues, NEW a \in DecisionActions, Decide(p, i, a)
        PROVE  \E j \in Issues, d \in DecideCalls : Sends(j, d)
    <3> DEFINE c == [op |-> "decide", pc |-> "commit", issue |-> i, action |-> a]
    <3>1. /\ call' = [call EXCEPT ![p] = c] /\ asked' = [asked EXCEPT ![i] = @ + 1]
          /\ resent' = resent
      BY <2>1 DEF Decide, Enter, Continue
    <3>2. c \in DecideCalls /\ c.issue = i /\ c.pc = "commit"
      BY DEF DecideCalls
    <3> HIDE DEF c
    <3> QED BY <3>1, <3>2
  <2>2. CASE Resend(p)
    <3> DEFINE c == [call[p] EXCEPT !.pc = "commit"]
    <3>1. /\ call' = [call EXCEPT ![p] = c] /\ asked' = asked /\ call[p].op = "decide"
          /\ resent' = [resent EXCEPT ![call[p].issue] = @ + 1]
      BY <2>2 DEF Resend, Continue, At
    <3>2. call[p] \in DecideCalls
      BY <3>1, CallIs
    <3>3. /\ c \in DecideCalls /\ c.issue = call[p].issue /\ c.pc = "commit"
          /\ call[p].issue \in Issues
      BY <3>2 DEF DecideCalls
    <3> HIDE DEF c
    <3> QED BY <3>1, <3>3
  <2> QED BY <2>1, <2>2
<1>2. PICK i \in Issues, c \in DecideCalls :
         /\ c.issue = i /\ c.pc = "commit" /\ call' = [call EXCEPT ![p] = c]
         /\ \/ asked' = [asked EXCEPT ![i] = @ + 1] /\ resent' = resent
            \/ resent' = [resent EXCEPT ![i] = @ + 1] /\ asked' = asked
  BY <1>1
<1>3. UNCHANGED <<env, events, feedback, signals, week, plane, settings>>
  BY DEF Resend, Decide, setup
<1>4. /\ asked' \in [Issues -> Nat] /\ resent' \in [Issues -> Nat]
      /\ asked'[i] + resent'[i] = asked[i] + resent[i] + 1
      /\ \A j \in Issues \ {i} : asked'[j] = asked[j] /\ resent'[j] = resent[j]
  <2>1. asked \in [Issues -> Nat] /\ resent \in [Issues -> Nat]
    BY DEF ConsoleInv, StoreInv
  <2>2. CASE asked' = [asked EXCEPT ![i] = @ + 1] /\ resent' = resent
    BY <2>1, <2>2
  <2>3. CASE resent' = [resent EXCEPT ![i] = @ + 1] /\ asked' = asked
    BY <2>1, <2>3
  <2> QED BY <1>2, <2>2, <2>3
<1>5. StoreInv' /\ LostPatchNeedsOverlap'
  BY <1>3, <1>4 DEF ConsoleInv, StoreInv, LostPatchNeedsOverlap, plane, settings
<1>6. Grown
  <2>1. Len(events) \in Nat /\ Len(feedback) \in Nat /\ samples \in Nat
    BY DEF ConsoleInv, StoreInv
  <2> QED BY <1>3, <2>1 DEF Grown, DecidedIssues, plane
<1>7. CallsInv'
  BY <1>2, <1>5, <1>6, CallsKept DEF CallOK
<1>8. DecideInv'
  <2>1. \A q \in Calls : call'[q] = IF q = p THEN c ELSE call[q]
    BY <1>2 DEF ConsoleInv, CallsInv
  <2>2. \A j \in Issues : Committing(j)' \subseteq
                             Committing(j) \cup (IF j = i THEN {p} ELSE {})
    BY <1>2, <2>1 DEF Committing
  <2>3. ASSUME NEW j \in Issues
        PROVE  /\ IsFiniteSet(Committing(j)')
               /\ Cardinality(RowsOf(j)') + Cardinality(Committing(j)')
                     <= asked'[j] + resent'[j]
    <3>1. RowsOf(j)' = RowsOf(j)
      BY <1>3 DEF RowsOf
    <3>2. CASE j = i
      <4>1. Committing(i)' \in SUBSET (Committing(i) \cup {p})
        BY <2>2
      <4>2. /\ IsFiniteSet(Committing(i) \cup {p})
            /\ Cardinality(Committing(i) \cup {p}) <= Cardinality(Committing(i)) + 1
            /\ Cardinality(Committing(i) \cup {p}) \in Nat
        <5>1. IsFiniteSet(Committing(i)) /\ Cardinality(Committing(i)) \in Nat
          BY Counts
        <5>2. /\ IsFiniteSet(Committing(i) \cup {p})
              /\ Cardinality(Committing(i) \cup {p}) =
                    IF p \in Committing(i) THEN Cardinality(Committing(i))
                                           ELSE Cardinality(Committing(i)) + 1
          BY <5>1, FS_AddElement
        <5> QED BY <5>1, <5>2
      <4>3. /\ IsFiniteSet(Committing(i)') /\ Cardinality(Committing(i)') \in Nat
            /\ Cardinality(Committing(i)') <= Cardinality(Committing(i) \cup {p})
        BY <4>1, <4>2, FS_Subset, FS_CardinalityType
      <4> QED BY <1>4, <3>1, <3>2, <4>2, <4>3, Counts
    <3>3. CASE j # i
      <4>1. Committing(j)' \in SUBSET Committing(j)
        BY <2>2, <3>3
      <4>2. /\ IsFiniteSet(Committing(j)') /\ Cardinality(Committing(j)') \in Nat
            /\ Cardinality(Committing(j)') <= Cardinality(Committing(j))
        BY <4>1, Counts, FS_Subset, FS_CardinalityType
      <4>3. asked'[j] = asked[j] /\ resent'[j] = resent[j]
        BY <1>4, <3>3
      <4> QED BY <3>1, <4>2, <4>3, Counts
    <3> QED BY <3>2, <3>3
  <2> QED BY <2>3 DEF DecideInv
<1> QED BY <1>5, <1>7, <1>8 DEF ConsoleInv

\* A decision is recorded: the row takes the place of the call that was about to.
LEMMA RecordStep ==
    ASSUME ConsoleInv, NEW p \in Calls, RecordAndEnqueue(p)
    PROVE  ConsoleInv'
<1> DEFINE b == call[p]
           c == [b EXCEPT !.pc = "reply"]
           row == [issue |-> b.issue, action |-> b.action]
<1>1. /\ feedback' = Append(feedback, row)
      /\ signals' = signals \cup {Len(feedback) + 1} /\ call' = [call EXCEPT ![p] = c]
      /\ b.op = "decide" /\ b.pc = "commit"
      /\ UNCHANGED <<env, events, week, asked, resent, plane, settings>>
  BY DEF RecordAndEnqueue, SignalOf, Continue, At, setup
<1>2. b \in DecideCalls
  BY <1>1, CallIs
<1>3. /\ c \in DecideCalls /\ c.pc = "reply" /\ b.issue \in Issues
      /\ row \in [issue : Issues, action : DecisionActions] /\ row.issue = b.issue
  BY <1>2 DEF DecideCalls
<1>4. /\ feedback \in Seq([issue : Issues, action : DecisionActions])
      /\ Len(feedback) \in Nat /\ DOMAIN feedback = 1..Len(feedback)
  BY DEF ConsoleInv, StoreInv
<1> HIDE DEF row, c
<1>5. /\ feedback' \in Seq([issue : Issues, action : DecisionActions])
      /\ Len(feedback') = Len(feedback) + 1 /\ DOMAIN feedback' = 1..(Len(feedback) + 1)
      /\ \A r \in 1..Len(feedback) : feedback'[r] = feedback[r]
      /\ feedback'[Len(feedback) + 1] = row
  BY <1>1, <1>3, <1>4
<1>6. DOMAIN feedback' = DOMAIN feedback \cup {Len(feedback) + 1}
  BY <1>4, <1>5
<1>7. StoreInv' /\ LostPatchNeedsOverlap'
  <2>1. signals' = DOMAIN feedback'
    BY <1>1, <1>6 DEF ConsoleInv, StoreInv
  <2> QED BY <1>1, <1>5, <2>1
          DEF ConsoleInv, StoreInv, LostPatchNeedsOverlap, plane, settings
<1>8. Grown
  <2>1. Len(events) \in Nat /\ samples \in Nat
    BY DEF ConsoleInv, StoreInv
  <2>2. DecidedIssues(DOMAIN feedback) \subseteq DecidedIssues(DOMAIN feedback)'
    BY <1>4, <1>5, <1>6 DEF DecidedIssues
  <2> QED BY <1>1, <1>4, <1>5, <2>1, <2>2 DEF Grown, plane
<1>9. CallsInv'
  BY <1>1, <1>3, <1>7, <1>8, CallsKept DEF CallOK
<1>10. DecideInv'
  <2>1. \A q \in Calls : call'[q] = IF q = p THEN c ELSE call[q]
    BY <1>1 DEF ConsoleInv, CallsInv
  <2>2. \A j \in Issues : Committing(j)' \subseteq Committing(j) \ {p}
    BY <1>3, <2>1 DEF Committing
  <2>3. p \in Committing(b.issue)
    BY <1>1 DEF Committing
  <2>4. \A j \in Issues : RowsOf(j)' =
           IF j = b.issue THEN RowsOf(j) \cup {Len(feedback) + 1} ELSE RowsOf(j)
    <3>1. \A r \in DOMAIN feedback : r # Len(feedback) + 1 /\ feedback'[r] = feedback[r]
      BY <1>4, <1>5
    <3>2. feedback'[Len(feedback) + 1].issue = b.issue
      BY <1>3, <1>5
    <3> QED BY <1>6, <3>1, <3>2 DEF RowsOf
  <2>5. ASSUME NEW j \in Issues
        PROVE  /\ IsFiniteSet(Committing(j)')
               /\ Cardinality(RowsOf(j)') + Cardinality(Committing(j)')
                     <= asked'[j] + resent'[j]
    <3>1. /\ IsFiniteSet(RowsOf(j)) /\ Cardinality(RowsOf(j)) \in Nat
          /\ IsFiniteSet(Committing(j)) /\ Cardinality(Committing(j)) \in Nat
          /\ Cardinality(RowsOf(j)) + Cardinality(Committing(j)) <= asked[j] + resent[j]
          /\ asked[j] \in Nat /\ resent[j] \in Nat
      BY Counts
    <3>2. asked'[j] = asked[j] /\ resent'[j] = resent[j]
      BY <1>1
    <3>3. CASE j = b.issue
      <4>1. /\ IsFiniteSet(Committing(j) \ {p})
            /\ Cardinality(Committing(j) \ {p}) = Cardinality(Committing(j)) - 1
        BY <2>3, <3>1, <3>3, FS_RemoveElement
      <4>2. Committing(j)' \in SUBSET (Committing(j) \ {p})
        BY <2>2
      <4>3. /\ IsFiniteSet(Committing(j)') /\ Cardinality(Committing(j)') \in Nat
            /\ Cardinality(Committing(j)') <= Cardinality(Committing(j) \ {p})
        BY <4>1, <4>2, FS_Subset, FS_CardinalityType
      <4>4. Cardinality(RowsOf(j) \cup {Len(feedback) + 1}) =
               IF Len(feedback) + 1 \in RowsOf(j) THEN Cardinality(RowsOf(j))
                                                 ELSE Cardinality(RowsOf(j)) + 1
        BY <3>1, FS_AddElement
      <4>5. RowsOf(j)' = RowsOf(j) \cup {Len(feedback) + 1}
        BY <2>4, <3>3
      <4> QED BY <3>1, <3>2, <4>1, <4>3, <4>4, <4>5
    <3>4. CASE j # b.issue
      <4>1. Committing(j)' \in SUBSET Committing(j)
        BY <2>2
      <4>2. /\ IsFiniteSet(Committing(j)') /\ Cardinality(Committing(j)') \in Nat
            /\ Cardinality(Committing(j)') <= Cardinality(Committing(j))
        BY <3>1, <4>1, FS_Subset, FS_CardinalityType
      <4>3. RowsOf(j)' = RowsOf(j)
        BY <2>4, <3>4
      <4> QED BY <3>1, <3>2, <4>2, <4>3
    <3> QED BY <3>3, <3>4
  <2> QED BY <2>5 DEF DecideInv
<1> QED BY <1>7, <1>9, <1>10 DEF ConsoleInv

\* A patch begins, a document or a score is written: a patch that was not overlapped
\* writes the document the last patches of every key owe.
LEMMA WriteStep ==
    ASSUME ConsoleInv, NEW p \in Calls,
           (\E K \in SUBSET Keys : Patch(p, K)) \/ PatchWrite(p) \/ RecordScore(p)
    PROVE  ConsoleInv'
<1>1. UNCHANGED <<env, approvals, health, samples>>
  BY DEF Patch, PatchWrite, RecordScore, setup, plane
<1>2. UNCHANGED <<events, feedback, signals, week, asked, resent>>
  BY <1>1 DEF approvals
<1>3. StoreInv'
  BY <1>1, <1>2 DEF ConsoleInv, StoreInv
<1>4. Grown
  <2>1. Len(events) \in Nat /\ Len(feedback) \in Nat /\ samples \in Nat
    BY DEF ConsoleInv, StoreInv
  <2> QED BY <1>1, <1>2, <2>1 DEF Grown, DecidedIssues
<1>5. LostPatchNeedsOverlap'
  <2>1. CASE PatchWrite(p)
    BY <2>1 DEF PatchWrite, ShallowMerge, ConsoleInv, LostPatchNeedsOverlap
  <2>2. CASE RecordScore(p)
    BY <2>2 DEF RecordScore, settings, ConsoleInv, LostPatchNeedsOverlap
  <2>3. CASE \E K \in SUBSET Keys : Patch(p, K)
    BY <2>3 DEF Patch, ConsoleInv, LostPatchNeedsOverlap
  <2> QED BY <2>1, <2>2, <2>3
<1>6. \E c : "op" \in DOMAIN c /\ c.op \in OtherOps /\ call' = [call EXCEPT ![p] = c]
  <2>1. CASE PatchWrite(p)
    BY <2>1 DEF PatchWrite, Reply, Continue, NoCall, OtherOps
  <2>2. CASE RecordScore(p)
    <3> DEFINE c == [call[p] EXCEPT !.pc = "compare"]
    <3>1. call' = [call EXCEPT ![p] = c] /\ call[p].op = "score"
      BY <2>2 DEF RecordScore, Continue, At
    <3>2. "op" \in DOMAIN call[p]
      BY <3>1, CallIs DEF OtherOps
    <3>3. "op" \in DOMAIN c /\ c.op \in OtherOps
      BY <3>1, <3>2 DEF OtherOps
    <3> HIDE DEF c
    <3> QED BY <3>1, <3>3
  <2>3. ASSUME NEW K \in SUBSET Keys, Patch(p, K)
        PROVE  \E c : /\ "op" \in DOMAIN c /\ c.op \in OtherOps
                      /\ call' = [call EXCEPT ![p] = c]
    <3> DEFINE c == [op |-> "patch", pc |-> "read", patch |-> [k \in K |-> patches'],
                     base |-> doc, existed |-> FALSE]
    <3>1. call' = [call EXCEPT ![p] = c]
      BY <2>3 DEF Patch, Enter, Continue
    <3>2. "op" \in DOMAIN c /\ c.op \in OtherOps
      BY DEF OtherOps
    <3> HIDE DEF c
    <3> QED BY <3>1, <3>2
  <2> QED BY <2>1, <2>2, <2>3
<1>7. PICK c : "op" \in DOMAIN c /\ c.op \in OtherOps /\ call' = [call EXCEPT ![p] = c]
  BY <1>6
<1>8. CallOK(c) /\ c.op # "decide"
  BY <1>7 DEF CallOK, OtherOps
<1>9. CallsInv'
  BY <1>3, <1>4, <1>7, <1>8, CallsKept
<1>10. DecideInv'
  BY <1>2, <1>7, <1>8, NotDeciding
<1> QED BY <1>3, <1>5, <1>9, <1>10 DEF ConsoleInv

\* Artifacts come and are consumed, time passes, components report: no call changes.
LEMMA EnvironmentStep ==
    ASSUME ConsoleInv, Environment
    PROVE  ConsoleInv'
<1>1. UNCHANGED <<env, feedback, signals, asked, resent, settings, call>>
  BY DEF Environment, StoreArtifact, ConsumeArtifact, WeekPasses, RecordHealth, InsertStack,
         setup, approvals
<1>2. LostPatchNeedsOverlap'
  BY <1>1 DEF ConsoleInv, LostPatchNeedsOverlap, settings
<1>3. DecideInv'
  BY <1>1, NotDeciding
<1> DEFINE Rows == [issue : Issues \cup {Null}, consumed : BOOLEAN]
<1>4. /\ events \in Seq(Rows) /\ Len(events) \in Nat /\ Len(feedback) \in Nat
      /\ DOMAIN events = 1..Len(events) /\ samples \in Nat
      /\ \A i \in 1..Len(events) : events[i] \in Rows
  <2>1. events \in Seq(Rows) /\ feedback \in Seq([issue : Issues, action : DecisionActions])
    BY DEF ConsoleInv, StoreInv
  <2>2. \A i \in 1..Len(events) : events[i] \in Rows
    BY <2>1, ElementOfSeq
  <2>3. samples \in Nat
    BY DEF ConsoleInv, StoreInv
  <2> HIDE DEF Rows
  <2> QED BY <2>1, <2>2, <2>3
<1>5. DecidedIssues(DOMAIN feedback)' = DecidedIssues(DOMAIN feedback)
  BY <1>1 DEF DecidedIssues
<1>6. ASSUME events' = events, week' \in [events : Nat, feedback : Nat],
             UNCHANGED <<health, samples>>
      PROVE  StoreInv' /\ Grown
  BY <1>1, <1>4, <1>5, <1>6 DEF ConsoleInv, StoreInv, Grown
<1>7. ASSUME UNCHANGED <<week, health, samples>>, events' \in Seq(Rows),
             Len(events) <= Len(events'),
             \A i \in 1..Len(events) : /\ events'[i].issue = events[i].issue
                                       /\ events[i].consumed => events'[i].consumed
      PROVE  StoreInv' /\ Grown
  BY <1>1, <1>4, <1>5, <1>7 DEF ConsoleInv, StoreInv, Grown
<1>8. ASSUME NEW i \in Issues \cup {Null}, StoreArtifact(i) PROVE StoreInv' /\ Grown
  <2> DEFINE row == [issue |-> i, consumed |-> FALSE]
  <2>1. events' = Append(events, row) /\ UNCHANGED <<week, health, samples>>
    BY <1>8 DEF StoreArtifact, plane
  <2>2. row \in Rows
    OBVIOUS
  <2> HIDE DEF row, Rows
  <2>3. /\ events' \in Seq(Rows) /\ Len(events') = Len(events) + 1
        /\ \A k \in 1..Len(events) : events'[k] = events[k]
    BY <1>4, <2>1, <2>2
  <2> QED BY <1>4, <1>7, <2>1, <2>3
<1>9. ASSUME NEW j \in DOMAIN events, ConsumeArtifact(j) PROVE StoreInv' /\ Grown
  <2>1. events' = [events EXCEPT ![j].consumed = TRUE] /\ UNCHANGED <<week, health, samples>>
    BY <1>9 DEF ConsumeArtifact, plane
  <2>2. [events[j] EXCEPT !.consumed = TRUE] \in Rows
    BY <1>4
  <2>3. /\ DOMAIN events' = 1..Len(events)
        /\ \A k \in 1..Len(events) :
              events'[k] = IF k = j THEN [events[j] EXCEPT !.consumed = TRUE] ELSE events[k]
    BY <1>4, <2>1
  <2>4. \A k \in 1..Len(events) : events'[k] \in Rows
    BY <1>4, <2>2, <2>3
  <2>5. events' \in [1..Len(events) -> Rows]
    BY <1>4, <2>1, <2>4
  <2>6. events' \in Seq(Rows) /\ Len(events') = Len(events)
    <3> HIDE DEF Rows
    <3> QED BY <1>4, <2>5, SeqDef, LenProperties
  <2>7. \A k \in 1..Len(events) : /\ events'[k].issue = events[k].issue
                                  /\ events[k].consumed => events'[k].consumed
    BY <1>4, <2>3
  <2> QED BY <1>4, <1>7, <2>1, <2>6, <2>7
<1>10. ASSUME WeekPasses PROVE StoreInv' /\ Grown
  <2>1. /\ UNCHANGED <<events, health, samples>>
        /\ week' = [events |-> Len(events), feedback |-> Len(feedback)]
    BY <1>10 DEF WeekPasses, plane
  <2>2. week' \in [events : Nat, feedback : Nat]
    BY <1>4, <2>1
  <2> QED BY <1>6, <2>1, <2>2
<1>11. ASSUME NEW k \in Components, NEW s \in HealthStates, RecordHealth(k, s)
       PROVE  StoreInv' /\ Grown
  <2>1. /\ health' = [health EXCEPT ![k] = s] /\ samples' = samples + 1
        /\ UNCHANGED <<events, week>>
    BY <1>11 DEF RecordHealth, approvals
  <2>2. health' \in [Components -> HealthStates \cup {Null}] /\ samples' \in Nat
    BY <1>4, <2>1 DEF ConsoleInv, StoreInv
  <2>3. samples <= samples' /\ samples' # samples
    BY <1>4, <2>1
  <2>4. StoreInv'
    BY <1>1, <2>1, <2>2 DEF ConsoleInv, StoreInv
  <2> QED BY <1>1, <1>4, <1>5, <2>1, <2>3, <2>4 DEF Grown
<1>12. ASSUME NEW S, InsertStack(S) PROVE StoreInv' /\ Grown
  <2>1. UNCHANGED <<events, week, health, samples>>
    BY <1>12 DEF InsertStack, approvals
  <2>2. week' \in [events : Nat, feedback : Nat]
    BY <2>1 DEF ConsoleInv, StoreInv
  <2> QED BY <1>6, <2>1, <2>2
<1>13. StoreInv' /\ Grown
  <2>1. CASE \E i \in Issues \cup {Null} : StoreArtifact(i)
    BY <1>8, <2>1
  <2>2. CASE \E j \in DOMAIN events : ConsumeArtifact(j)
    BY <1>9, <2>2
  <2>3. CASE \E c \in Components, s \in HealthStates : RecordHealth(c, s)
    BY <1>11, <2>3
  <2>4. CASE \E in \in Profiles : \E S \in SelectedPrimary(ScoreMotions(in)) : InsertStack(S)
    BY <1>12, <2>4
  <2> QED BY <1>10, <2>1, <2>2, <2>3, <2>4 DEF Environment
<1>14. CallsInv'
  BY <1>1, <1>13, CallsKept
<1> QED BY <1>2, <1>3, <1>13, <1>14 DEF ConsoleInv

\* Before the first call.
LEMMA ConsoleInitInv == ConsoleInit => ConsoleInv
<1> SUFFICES ASSUME ConsoleInit PROVE ConsoleInv
  OBVIOUS
<1>1. StoreInv
  <2>1. /\ events = <<>> /\ feedback = <<>> /\ signals = {} /\ samples = 0
        /\ week = [events |-> 0, feedback |-> 0]
        /\ health = [c \in Components |-> Null]
        /\ asked = [i \in Issues |-> 0] /\ resent = [i \in Issues |-> 0]
    BY DEF ConsoleInit
  <2>2. DOMAIN feedback = {}
    BY <2>1
  <2> QED BY <2>1, <2>2 DEF StoreInv
<1>2. call = [p \in Calls |-> NoCall]
  BY DEF ConsoleInit
<1>3. CallsInv
  <2>1. CallOK(NoCall)
    BY DEF CallOK, NoCall, OtherOps
  <2>2. call = [p \in Calls |-> call[p]] /\ \A p \in Calls : call[p] = NoCall
    BY <1>2
  <2> QED BY <2>1, <2>2 DEF CallsInv
<1>4. DecideInv
  <2>1. \A i \in Issues : Committing(i) = {} /\ RowsOf(i) = {}
    BY <1>2 DEF Committing, RowsOf, NoCall, ConsoleInit
  <2>2. \A i \in Issues : asked[i] = 0 /\ resent[i] = 0
    BY DEF ConsoleInit
  <2> QED BY <2>1, <2>2, FS_EmptySet DEF DecideInv
<1>5. LostPatchNeedsOverlap
  BY DEF ConsoleInit, LostPatchNeedsOverlap
<1> QED BY <1>1, <1>3, <1>4, <1>5 DEF ConsoleInv

\* Every step of the console keeps the invariant.
LEMMA ConsoleStepInv == ConsoleInv /\ [ConsoleNext]_consoleVars => ConsoleInv'
<1> SUFFICES ASSUME ConsoleInv, [ConsoleNext]_consoleVars PROVE ConsoleInv'
  OBVIOUS
<1>1. CASE Environment
  BY <1>1, EnvironmentStep
<1>2. ASSUME NEW p \in Calls, Begin(p) PROVE ConsoleInv'
  <2>1. CASE List(p)
    BY <2>1, ListStep
  <2>2. CASE Summary(p)
    BY <2>2, SummaryStep
  <2>3. CASE \/ GetSettings(p) \/ Motion(p) \/ (\E in \in Profiles : Score(p, in))
             \/ \E op \in {"health", "incidents"} : ReadOne(p, op)
    BY <2>3, OtherStep
  <2>4. CASE \E op \in {"weekly", "send"} : Digest(p, op)
    BY <2>4, DigestBegins
  <2>5. CASE \E i \in Issues, a \in DecisionActions : Decide(p, i, a)
    BY <2>5, SendStep
  <2>6. CASE \E K \in SUBSET Keys : Patch(p, K)
    BY <2>6, WriteStep
  <2> QED BY <1>2, <2>1, <2>2, <2>3, <2>4, <2>5, <2>6 DEF Begin
<1>3. ASSUME NEW p \in Calls, Step(p) PROVE ConsoleInv'
  <2>1. CASE ListEvents(p) \/ ListReply(p)
    BY <2>1, ListStep
  <2>2. CASE (\E s \in Sources : SummaryRead(p, s)) \/ SummaryReply(p)
    BY <2>2, SummaryStep
  <2>3. CASE DigestStack(p) \/ DigestOutcomes(p) \/ DigestCount(p)
    BY <2>3, DigestStep
  <2>4. CASE DigestDecisions(p) \/ DigestEvents(p)
    BY <2>4, DigestReads
  <2>5. CASE DigestReply(p) \/ PostAccepted(p) \/ PostRefused(p)
    BY <2>5, DigestEnds
  <2>6. CASE RecordAndEnqueue(p)
    BY <2>6, RecordStep
  <2>7. CASE PatchWrite(p) \/ RecordScore(p)
    BY <2>7, WriteStep
  <2>8. CASE \/ DecideReply(p) \/ ReadOneReply(p) \/ GetSettingsReply(p) \/ PatchRead(p)
             \/ PatchConflict(p) \/ ScoreReply(p) \/ MotionReply(p)
             \/ \E r \in {"score", "stack", "recent"} : MotionRead(p, r)
    BY <2>8, OtherStep
  <2> QED BY <1>3, <2>1, <2>2, <2>3, <2>4, <2>5, <2>6, <2>7, <2>8 DEF Step
<1>4. ASSUME NEW p \in Calls, Fail(p) PROVE ConsoleInv'
  <2>1. CASE Throw(p)
    BY <2>1, OtherStep
  <2>2. CASE Resend(p)
    BY <2>2, SendStep
  <2>3. CASE DigestReadFails(p)
    BY <2>3, DigestStep
  <2>4. CASE PostLost(p)
    BY <2>4, DigestEnds
  <2>5. CASE \E s \in Sources : SummaryReadFails(p, s)
    BY <2>5, SummaryStep
  <2> QED BY <1>4, <2>1, <2>2, <2>3, <2>4, <2>5 DEF Fail
<1>5. ASSUME NEW p \in Calls, \E r \in Routes : Refuse(p, r) PROVE ConsoleInv'
  BY <1>5, OtherStep
<1>6. CASE UNCHANGED consoleVars
  <2>1. UNCHANGED <<setup, stores>> /\ UNCHANGED call
    BY <1>6 DEF consoleVars
  <2>2. StoreInv' /\ Grown /\ LostPatchNeedsOverlap' /\ UNCHANGED <<feedback, asked, resent>>
    BY <2>1, StoresStay
  <2> QED BY <2>1, <2>2, CallsKept, NotDeciding DEF ConsoleInv
<1> QED BY <1>1, <1>2, <1>3, <1>4, <1>5, <1>6 DEF ConsoleNext

\* A listing answers with what its two reads found.
LEMMA ListAnswer ==
    ASSUME ConsoleInv, NEW p \in Calls, At(p, {"list"}, "decisions")
    PROVE  LET began == call[p].began
               items == ListItems(p)
           IN  /\ ScanIsWhole => \A i \in items : events[i].issue \notin began.decided
               /\ \A i \in 1..began.events :
                     \/ i \in items \/ ~Undecided(i)
                     \/ Cardinality({j \in items : j > i}) = Limit
                     \/ Len(events) - i >= 2 * Limit
<1> DEFINE began == call[p].began
           decided == DecidedIssues(ListRecent(DecisionScan))
           P == {i \in call[p].listed : IsPending(i, decided)}
<1>1. call[p] \in ListCalls /\ ListOK(call[p]) /\ call[p].pc = "decisions" /\ StoreInv
  BY CallIs DEF At, ConsoleInv
<1>2. /\ began.events \in Nat /\ began.decided \subseteq DecidedIssues(DOMAIN feedback)
      /\ Len(events) \in Nat /\ Null \notin DecidedIssues(DOMAIN feedback)
      /\ Limit \in Nat
  BY <1>1, StoreFacts, ConsoleAssumption DEF ListCalls, ListOK, Moments, Passed
<1>3. PICK n \in began.events..Len(events) : call[p].listed = Newest(n, 2 * Limit)
  BY <1>1 DEF ListOK
<1>4. /\ decided \subseteq DecidedIssues(DOMAIN feedback)
      /\ ScanIsWhole => decided = DecidedIssues(DOMAIN feedback)
  BY <1>1, ListFacts
<1>5. ListItems(p) = NewestOf(P, Limit)
  BY DEF ListItems
<1> HIDE DEF decided
<1>6. n \in Nat /\ n <= Len(events) /\ 2 * Limit \in Nat
  BY <1>2, <1>3
<1>7. P \in SUBSET Nat /\ IsFiniteSet(P)
  <2>1. P \in SUBSET (1..n)
    BY <1>3, <1>6, NewestCount
  <2>2. IsFiniteSet(1..n)
    BY <1>6, FS_Interval
  <2> QED BY <2>1, <2>2, FS_Subset
<1>8. NewestOf(P, Limit) \subseteq P
  BY DEF NewestOf
<1>9. ScanIsWhole => \A i \in ListItems(p) : events[i].issue \notin began.decided
  BY <1>2, <1>4, <1>5, <1>8 DEF IsPending
<1>10. ASSUME NEW i \in 1..began.events, Undecided(i), i \notin ListItems(p),
              ~(Len(events) - i >= 2 * Limit)
       PROVE  Cardinality({j \in ListItems(p) : j > i}) = Limit
  <2>1. i \in Newest(n, 2 * Limit)
    BY <1>2, <1>3, <1>6, <1>10 DEF Newest
  <2>2. IsPending(i, decided)
    BY <1>4, <1>10 DEF IsPending, Undecided
  <2>3. i \in P
    BY <1>3, <2>1, <2>2
  <2> HIDE DEF P
  <2> QED BY <1>2, <1>5, <1>7, <1>10, <2>3, NewestPushOut
<1> QED BY <1>9, <1>10

\* A summary that marks none of its gaps has none.
LEMMA SummaryAnswer ==
    ASSUME ConsoleInv, NEW p \in Calls, SummaryReply(p), ~SummaryPartial(call[p])
    PROVE  LET c == call[p]
           IN  /\ ~DecisionScanTruncated(c) =>
                     \A i \in PendingApprovals(c) : events[i].issue \notin c.began.decided
               /\ ~PendingIsLowerBound(c) =>
                     \A i \in 1..c.began.events :
                        i \in PendingApprovals(c) \/ events[i].consumed \/ ~Undecided(i)
               /\ (/\ OverallHealth(c.states) = "healthy" /\ ~OverallMayBeIncomplete(c)
                   /\ samples = c.began.samples) =>
                     \A k \in Components : health[k] \in {Null, "healthy"}
<1> DEFINE c == call[p]
<1>1. c \in SummaryCalls /\ SummaryOK(c) /\ StoreInv
  BY CallIs DEF SummaryReply, At, ConsoleInv
<1>2. c.todo = {} /\ c.failed = {}
  BY DEF SummaryReply, SummaryPartial
<1>3. /\ c.began.decided \subseteq DecidedIssues(DOMAIN feedback)
      /\ Null \notin DecidedIssues(DOMAIN feedback)
  BY <1>1, StoreFacts DEF SummaryOK, Passed
<1>4. ~DecisionScanTruncated(c) =>
         \A i \in PendingApprovals(c) : events[i].issue \notin c.began.decided
  BY <1>1, <1>2, <1>3 DEF SummaryOK, PendingApprovals, IsPending
<1>5. ~PendingIsLowerBound(c) =>
         \A i \in 1..c.began.events :
            i \in PendingApprovals(c) \/ events[i].consumed \/ ~Undecided(i)
  BY <1>1, <1>2 DEF SummaryOK, PendingApprovals, IsPending, Undecided
<1>6. ASSUME OverallHealth(c.states) = "healthy", ~OverallMayBeIncomplete(c),
             samples = c.began.samples, NEW k \in Components, health[k] # Null
      PROVE  health[k] = "healthy"
  <2>1. c.states = {health[m] : m \in {j \in Components : health[j] # Null}}
    BY <1>1, <1>2, <1>6 DEF SummaryOK
  <2>2. health[k] \in c.states /\ health[k] \in HealthStates
    BY <1>1, <1>6, <2>1 DEF StoreInv
  <2> QED BY <1>6, <2>2 DEF OverallHealth, HealthStates
<1> QED BY <1>4, <1>5, <1>6

\* What a digest that is built says.
LEMMA DigestAnswer ==
    ASSUME ConsoleInv, NEW p \in Calls, DigestAt(p, "built")
    PROVE  LET c == call[p]
           IN  /\ ScanIsWhole =>
                     \A i \in c.pending : events[i].issue \notin c.began.decided
               /\ (env.database /\ ~c.missed /\ Len(events) <= DecisionScan) =>
                     \A i \in (c.week.events + 1)..c.began.events :
                        i \in c.pending \/ ~Undecided(i)
               /\ c.mails <= c.lost /\ c.attempt <= MaxAttempts
<1>1. DigestOK(call[p]) /\ call[p].pc = "built"
  BY CallIs DEF DigestAt, At
<1> QED BY <1>1 DEF DigestOK

\* However decisions are sent again and interleave, each recorded one has its learning
\* signal, and an issue has no more of them than were taken or sent again.
THEOREM DecisionsAreAccounted == ConsoleSpec => []ExtraDecisionsWereResent
<1>1. ConsoleInv => ExtraDecisionsWereResent
  <2> SUFFICES ASSUME ConsoleInv PROVE ExtraDecisionsWereResent
    OBVIOUS
  <2>1. \A i \in Issues : Cardinality(RowsOf(i)) <= asked[i] + resent[i]
    <3> SUFFICES ASSUME NEW i \in Issues
                 PROVE  Cardinality(RowsOf(i)) <= asked[i] + resent[i]
      OBVIOUS
    <3> QED BY Counts
  <2>2. signals = DOMAIN feedback
    BY DEF ConsoleInv, StoreInv
  <2> QED BY <2>1, <2>2 DEF ExtraDecisionsWereResent, RowsOf
<1> QED BY <1>1, ConsoleInitInv, ConsoleStepInv, PTL DEF ConsoleSpec

\* The settings document loses a patch only when two patches of it overlapped.
THEOREM PatchIsKept == ConsoleSpec => []LostPatchNeedsOverlap
<1>1. ConsoleInv => LostPatchNeedsOverlap
  BY DEF ConsoleInv
<1> QED BY <1>1, ConsoleInitInv, ConsoleStepInv, PTL DEF ConsoleSpec

\* A queue listing never shows what was decided before it began, and leaves out a
\* pending artifact only for newer ones, whatever is decided between its two reads.
THEOREM QueueIsHonest == ConsoleSpec => QueueShowsPending
<1>1. ConsoleInv /\ [ConsoleNext]_consoleVars =>
        [\A p \in Calls : ListReply(p) =>
           LET began == call[p].began
               items == ListItems(p)
           IN  /\ ScanIsWhole => \A i \in items : events[i].issue \notin began.decided
               /\ \A i \in 1..began.events :
                     \/ i \in items \/ ~Undecided(i)
                     \/ Cardinality({j \in items : j > i}) = Limit
                     \/ Len(events) - i >= 2 * Limit]_consoleVars
  BY ListAnswer DEF ListReply
<1> QED BY <1>1, ConsoleInitInv, ConsoleStepInv, PTL DEF ConsoleSpec, QueueShowsPending

\* A summary whose flags are all clear is complete, in whatever order its reads returned.
THEOREM SummaryIsHonest == ConsoleSpec => SummaryFlagsItsGaps
<1>1. ConsoleInv /\ [ConsoleNext]_consoleVars =>
        [\A p \in Calls : SummaryReply(p) /\ ~SummaryPartial(call[p]) =>
           LET c == call[p]
           IN  /\ ~DecisionScanTruncated(c) =>
                     \A i \in PendingApprovals(c) : events[i].issue \notin c.began.decided
               /\ ~PendingIsLowerBound(c) =>
                     \A i \in 1..c.began.events :
                        i \in PendingApprovals(c) \/ events[i].consumed \/ ~Undecided(i)
               /\ (/\ OverallHealth(c.states) = "healthy" /\ ~OverallMayBeIncomplete(c)
                   /\ samples = c.began.samples) =>
                     \A k \in Components : health[k] \in {Null, "healthy"}]_consoleVars
  BY SummaryAnswer
<1> QED BY <1>1, ConsoleInitInv, ConsoleStepInv, PTL DEF ConsoleSpec, SummaryFlagsItsGaps

\* A digest without a failed read misses nothing of its week that fits its scan, and
\* a mail nobody knows of took a post whose answer was lost.
THEOREM DigestIsHonest == ConsoleSpec => DigestGapsNeedFaults
<1>1. ConsoleInv /\ [ConsoleNext]_consoleVars =>
        [\A p \in Calls : DigestAt(p, "built") /\ call'[p] = NoCall =>
           LET c == call[p]
           IN  /\ ScanIsWhole =>
                     \A i \in c.pending : events[i].issue \notin c.began.decided
               /\ (env.database /\ ~c.missed /\ Len(events) <= DecisionScan) =>
                     \A i \in (c.week.events + 1)..c.began.events :
                        i \in c.pending \/ ~Undecided(i)
               /\ c.mails <= c.lost /\ c.attempt <= MaxAttempts]_consoleVars
  BY DigestAnswer
<1> QED BY <1>1, ConsoleInitInv, ConsoleStepInv, PTL DEF ConsoleSpec, DigestGapsNeedFaults

-----------------------------------------------------------------------------
(* The signal router *)

Working == {"route", "request", "mark", "release"}

\* A replica between batches holds nothing, one at work is at a signal of its batch.
BatchInv ==
    \A w \in Routers :
        /\ pc[w] \in {"idle", "claim"} => queue[w] = {}
        /\ pc[w] \in Working => current[w] \in queue[w]

\* The outbox already holds what the replica's place in processSignal promises.
PlaceInv ==
    \A w \in Routers :
        /\ pc[w] \in {"request", "mark"} => "signal.routed" \in outbox[current[w]]
        /\ pc[w] = "mark" => Downstream(current[w]) \in outbox[current[w]]

Held(s) == \E w \in Routers : owner[s] = w /\ s \in queue[w]

\* Each run of the signal so far has been paid for by a fault.
Paid(s) == attempts[s] <= faults

\* A signal nobody has claimed has not run.
FreshInv == \A s \in Signals : stage[s] = "absent" => attempts[s] = 0

\* The signals that may be claimed, or may become so without a further fault, are
\* those whose runs are paid for: the lease is gone, or it waits to run out with no
\* replica behind it, or its holder is about to release it.
PaidInv ==
    /\ \A s \in Signals : stage[s] = "unprocessed" /\ ~(live[s] /\ Held(s)) => Paid(s)
    /\ \A w \in Routers :
          pc[w] = "release" /\ owner[current[w]] = w => Paid(current[w])

IInv ==
    TypeOK /\ BatchInv /\ PlaceInv /\ FreshInv /\ PaidInv /\ RoutedOnceUnlessFaults

-----------------------------------------------------------------------------
\* Every signal has one request of its own.
LEMMA DownstreamType ==
    \A s \in Signals :
        Downstream(s) \in EventTypes /\ Downstream(s) # "signal.routed"
  BY DEF Downstream, EventTypes

\* The initial state satisfies the invariant.
LEMMA InitInv == Init => IInv
<1> SUFFICES ASSUME Init PROVE IInv
  OBVIOUS
<1> USE SignalsAssumption DEF Init
<1>1. (CHOOSE s \in Signals : TRUE) \in Signals
  OBVIOUS
<1>2. TypeOK
  BY <1>1 DEF TypeOK
<1>3. BatchInv /\ PlaceInv /\ FreshInv
  BY DEF BatchInv, PlaceInv, FreshInv, Working
<1>4. PaidInv
  BY <1>1 DEF PaidInv, Paid
<1>5. RoutedOnceUnlessFaults
  BY DEF RoutedOnceUnlessFaults, RoutedOnce, RerunsNeedFaults
<1> QED BY <1>2, <1>3, <1>4, <1>5 DEF IInv

\* A posted signal has not run.
LEMMA IngestInv ==
    ASSUME IInv, NEW s \in Signals, Ingest(s)
    PROVE  IInv'
<1> USE SignalsAssumption DEF IInv, TypeOK, Ingest, workerVars
<1>1. TypeOK' /\ BatchInv' /\ PlaceInv' /\ FreshInv'
  BY DEF BatchInv, PlaceInv, FreshInv, Downstream
<1>2. PaidInv'
  BY DEF PaidInv, Paid, Held, FreshInv
<1>3. RoutedOnceUnlessFaults'
  BY DEF RoutedOnceUnlessFaults, RoutedOnce, RerunsNeedFaults, Downstream
<1> QED BY <1>1, <1>2, <1>3

\* A tick starts with no batch.
LEMMA StartTickInv ==
    ASSUME IInv, NEW w \in Routers, StartTick(w)
    PROVE  IInv'
<1> USE SignalsAssumption DEF IInv, TypeOK, StartTick, dbVars
<1>1. TypeOK'
  OBVIOUS
<1>2. BatchInv' /\ PlaceInv' /\ FreshInv'
  BY DEF BatchInv, PlaceInv, FreshInv, Downstream, Working
<1>3. PaidInv'
  BY DEF PaidInv, Paid, Held
<1>4. RoutedOnceUnlessFaults'
  BY DEF RoutedOnceUnlessFaults, RoutedOnce, RerunsNeedFaults, Downstream
<1> QED BY <1>1, <1>2, <1>3, <1>4

\* A claim adds a run to paid signals only, and holds what it leases.
LEMMA ClaimInv ==
    ASSUME IInv, NEW w \in Routers, ClaimUnprocessed(w)
    PROVE  IInv'
<1> DEFINE C == {s \in Signals : LaneOf[s] = lane[w] /\ Claimable(s)}
           B == {s \in C : Cardinality({r \in C : r < s}) < Batch}
<1>1. /\ pc[w] = "claim"
      /\ owner' = [s \in Signals |-> IF s \in B THEN w ELSE owner[s]]
      /\ live' = [s \in Signals |-> s \in B \/ live[s]]
      /\ attempts' = [s \in Signals |->
                         IF s \in B THEN attempts[s] + 1 ELSE attempts[s]]
      /\ queue' = [queue EXCEPT ![w] = B]
      /\ pc' = [pc EXCEPT ![w] = "next"]
      /\ UNCHANGED <<stage, outbox, lane, current, faults>>
  BY DEF ClaimUnprocessed
<1>2. B \subseteq Signals /\ \A s \in B : stage[s] = "unprocessed" /\ ~live[s]
  BY DEF Claimable
<1> HIDE DEF B
<1> USE SignalsAssumption DEF IInv, TypeOK
<1>3. TypeOK'
  <2>1. attempts' \in [Signals -> Nat] /\ live' \in [Signals -> BOOLEAN]
    BY <1>1
  <2>2. owner' \in [Signals -> Routers \cup {NoOwner}]
    BY <1>1
  <2>3. queue' \in [Routers -> SUBSET Signals]
    BY <1>1, <1>2
  <2> QED BY <1>1, <2>1, <2>2, <2>3
<1>4. BatchInv' /\ PlaceInv' /\ FreshInv'
  BY <1>1, <1>2 DEF BatchInv, PlaceInv, FreshInv, Downstream, Working
<1>5. \A s \in B : Paid(s)
  BY <1>2 DEF PaidInv
<1>6. \A s \in Signals : s \notin B => (Paid(s) <=> Paid(s)')
  BY <1>1 DEF Paid
<1>7. queue[w] = {}
  BY <1>1 DEF BatchInv
<1>8. ASSUME NEW s \in Signals, stage'[s] = "unprocessed", ~(live'[s] /\ Held(s)')
      PROVE  Paid(s)'
  <2>1. s \notin B
    BY <1>1, <1>8 DEF Held
  <2>2. live[s] => live'[s]
    BY <1>1
  <2>3. Held(s) => Held(s)'
    BY <1>1, <1>7, <2>1 DEF Held
  <2> QED BY <1>1, <1>6, <1>8, <2>1, <2>2, <2>3 DEF PaidInv
<1>9. ASSUME NEW v \in Routers, pc'[v] = "release", owner'[current'[v]] = v
      PROVE  attempts'[current'[v]] <= faults'
  <2>1. v # w /\ pc[v] = "release" /\ current'[v] = current[v]
    BY <1>1, <1>9
  <2>2. current[v] \notin B /\ owner[current[v]] = v
    BY <1>1, <1>9, <2>1
  <2> QED BY <1>6, <2>1, <2>2 DEF PaidInv, Paid
<1>10. PaidInv'
  BY <1>8, <1>9 DEF PaidInv, Paid
<1>11. RerunsNeedFaults'
  BY <1>1, <1>2, <1>5 DEF RoutedOnceUnlessFaults, RerunsNeedFaults, Paid
<1>12. RoutedOnce'
  BY <1>1 DEF RoutedOnceUnlessFaults, RoutedOnce, Downstream
<1> QED BY <1>3, <1>4, <1>10, <1>11, <1>12 DEF RoutedOnceUnlessFaults

\* Taking the next signal, or moving to the next lane, leaves the database alone.
LEMMA AdvanceInv ==
    ASSUME IInv, NEW w \in Routers,
           (\E s \in queue[w] : TakeNext(w, s)) \/ NextLane(w)
    PROVE  IInv'
<1> USE SignalsAssumption DEF IInv, TypeOK, TakeNext, NextLane, LastLane, dbVars
<1>1. /\ UNCHANGED <<stage, owner, live, attempts, outbox, queue, faults>>
      /\ \A v \in Routers : v # w => pc'[v] = pc[v] /\ current'[v] = current[v]
      /\ \/ pc'[w] = "route" /\ current'[w] \in queue[w]
         \/ pc'[w] \in {"claim", "idle"} /\ queue[w] = {}
  OBVIOUS
<1>2. TypeOK'
  OBVIOUS
<1>3. BatchInv' /\ PlaceInv' /\ FreshInv'
  BY <1>1 DEF BatchInv, PlaceInv, FreshInv, Downstream, Working
<1>4. PaidInv'
  BY <1>1 DEF PaidInv, Paid, Held
<1>5. RoutedOnceUnlessFaults'
  BY <1>1 DEF RoutedOnceUnlessFaults, RoutedOnce, RerunsNeedFaults, Downstream
<1> QED BY <1>2, <1>3, <1>4, <1>5

\* Both enqueues add the one row their place in processSignal calls for.
LEMMA EnqueueInv ==
    ASSUME IInv, NEW w \in Routers, Route(w) \/ RequestWork(w)
    PROVE  IInv'
<1> USE SignalsAssumption DEF IInv, TypeOK, Route, RequestWork, EnqueueOnce, RequestType
<1>1. /\ UNCHANGED <<stage, owner, live, attempts, queue, current, faults>>
      /\ \A v \in Routers : v # w => pc'[v] = pc[v]
      /\ \A s \in Signals : outbox[s] \subseteq outbox'[s]
      /\ \/ /\ pc[w] = "route" /\ pc'[w] = "request"
            /\ outbox' = [outbox EXCEPT ![current[w]] = @ \cup {"signal.routed"}]
         \/ /\ pc[w] = "request" /\ pc'[w] = "mark"
            /\ outbox' = [outbox EXCEPT ![current[w]] = @ \cup {Downstream(current[w])}]
  OBVIOUS
<1>2. TypeOK'
  BY DownstreamType DEF EventTypes
<1>3. BatchInv' /\ FreshInv'
  BY <1>1 DEF BatchInv, FreshInv, Working
<1>4. PlaceInv'
  <2> SUFFICES ASSUME NEW v \in Routers
               PROVE  /\ pc'[v] \in {"request", "mark"} =>
                             "signal.routed" \in outbox'[current[v]]
                      /\ pc'[v] = "mark" => Downstream(current[v]) \in outbox'[current[v]]
    BY <1>1 DEF PlaceInv, Downstream
  <2>1. CASE v = w
    BY <1>1, <2>1 DEF PlaceInv
  <2>2. CASE v # w
    BY <1>1, <2>2 DEF PlaceInv
  <2> QED BY <2>1, <2>2
<1>5. PaidInv'
  BY <1>1 DEF PaidInv, Paid, Held
<1>6. ASSUME NEW s \in Signals
      PROVE  /\ outbox'[s] \subseteq {"signal.routed", Downstream(s)}
             /\ outbox[s] = {"signal.routed", Downstream(s)} => outbox'[s] = outbox[s]
  <2>1. \/ outbox'[s] = outbox[s]
        \/ outbox'[s] = outbox[s] \cup {"signal.routed"}
        \/ outbox'[s] = outbox[s] \cup {Downstream(s)}
    BY <1>1
  <2>2. outbox[s] \subseteq {"signal.routed", Downstream(s)}
    BY DEF RoutedOnceUnlessFaults, RoutedOnce
  <2> HIDE DEF IInv, TypeOK, Route, RequestWork
  <2> QED BY <2>1, <2>2
<1>7. RoutedOnceUnlessFaults'
  BY <1>1, <1>6 DEF RoutedOnceUnlessFaults, RoutedOnce, RerunsNeedFaults, Downstream
<1> QED BY <1>2, <1>3, <1>4, <1>5, <1>7

\* Whoever marks a signal has enqueued both of its rows, owner of its lease or not.
LEMMA MarkInv ==
    ASSUME IInv, NEW w \in Routers, MarkProcessed(w)
    PROVE  IInv'
<1> USE SignalsAssumption DEF IInv, TypeOK, MarkProcessed, Finish
<1>1. TypeOK' /\ BatchInv' /\ PlaceInv' /\ FreshInv'
  BY DEF BatchInv, PlaceInv, FreshInv, Downstream, Working
<1>2. outbox[current[w]] = {"signal.routed", Downstream(current[w])}
  <2>1. "signal.routed" \in outbox[current[w]] /\ Downstream(current[w]) \in outbox[current[w]]
    BY DEF PlaceInv
  <2>2. outbox[current[w]] \subseteq {"signal.routed", Downstream(current[w])}
    BY DEF RoutedOnceUnlessFaults, RoutedOnce
  <2> QED BY <2>1, <2>2
<1>3. RoutedOnceUnlessFaults'
  BY <1>2 DEF RoutedOnceUnlessFaults, RoutedOnce, RerunsNeedFaults, Downstream
<1>4. ASSUME NEW s \in Signals, stage'[s] = "unprocessed"
      PROVE  /\ s # current[w] /\ stage[s] = "unprocessed" /\ live'[s] = live[s]
             /\ Held(s) => Held(s)'
  <2>1. s # current[w] /\ stage[s] = "unprocessed"
    BY <1>4
  <2>2. live'[s] = live[s] /\ owner'[s] = owner[s]
    BY <2>1
  <2>3. \A v \in Routers : s \in queue[v] => s \in queue'[v]
    BY <2>1
  <2> QED BY <2>1, <2>2, <2>3 DEF Held
<1>5. \A v \in Routers : pc'[v] = "release" /\ owner'[current'[v]] = v =>
         pc[v] = "release" /\ owner[current[v]] = v /\ current'[v] = current[v]
  <2>1. \A s \in Signals : owner'[s] = owner[s] \/ owner'[s] = NoOwner
    OBVIOUS
  <2> QED BY <2>1
<1>6. PaidInv'
  BY <1>4, <1>5 DEF PaidInv, Paid
<1> QED BY <1>1, <1>3, <1>6

\* The failure that sends a replica to release its signal pays for the run it ends.
LEMMA FailInv ==
    ASSUME IInv, NEW w \in Routers, RoutingFails(w)
    PROVE  IInv'
<1> USE SignalsAssumption DEF IInv, TypeOK, RoutingFails, dbVars
<1>1. TypeOK' /\ BatchInv' /\ PlaceInv' /\ FreshInv'
  BY DEF BatchInv, PlaceInv, FreshInv, Downstream, Working
<1>2. PaidInv'
  <2>1. \A s \in Signals : Paid(s)'
    BY DEF Paid, RoutedOnceUnlessFaults, RerunsNeedFaults
  <2> QED BY <2>1 DEF PaidInv, Paid
<1>3. RoutedOnceUnlessFaults'
  BY DEF RoutedOnceUnlessFaults, RoutedOnce, RerunsNeedFaults, Downstream
<1> QED BY <1>1, <1>2, <1>3

\* A released lease is one whose holder's run is paid for; a lease that is another's
\* stays as it is.
LEMMA ReleaseInv ==
    ASSUME IInv, NEW w \in Routers, ReleaseClaims(w)
    PROVE  IInv'
<1> USE SignalsAssumption DEF IInv, TypeOK, ReleaseClaims, Finish, Releasable
<1>1. TypeOK' /\ BatchInv' /\ PlaceInv' /\ FreshInv'
  <2>1. TypeOK'
    OBVIOUS
  <2>2. BatchInv'
    BY DEF BatchInv, Working
  <2>3. PlaceInv' /\ FreshInv'
    BY DEF PlaceInv, FreshInv, Downstream
  <2> QED BY <2>1, <2>2, <2>3
<1>2. RoutedOnceUnlessFaults'
  BY DEF RoutedOnceUnlessFaults, RoutedOnce, RerunsNeedFaults, Downstream
<1>3. ASSUME NEW s \in Signals, stage'[s] = "unprocessed", ~(live'[s] /\ Held(s)')
      PROVE  Paid(s)
  <2>1. CASE s = current[w] /\ owner[s] = w
    BY <2>1 DEF PaidInv
  <2>2. CASE ~(s = current[w] /\ owner[s] = w)
    <3>1. live'[s] = live[s] /\ owner'[s] = owner[s]
      BY <2>2
    <3>2. \A v \in Routers : owner[s] = v /\ s \in queue[v] => s \in queue'[v]
      BY <2>2
    <3> QED BY <1>3, <3>1, <3>2 DEF PaidInv, Held
  <2> QED BY <2>1, <2>2
<1>4. \A v \in Routers : pc'[v] = "release" /\ owner'[current'[v]] = v =>
         pc[v] = "release" /\ owner[current[v]] = v /\ current'[v] = current[v]
  <2>1. \A s \in Signals : owner'[s] = owner[s] \/ owner'[s] = NoOwner
    OBVIOUS
  <2> QED BY <2>1
<1>5. PaidInv'
  BY <1>3, <1>4 DEF PaidInv, Paid
<1> QED BY <1>1, <1>2, <1>5

\* A crash pays for every run of the batch it abandons.
LEMMA CrashInv ==
    ASSUME IInv, NEW w \in Routers, Crash(w)
    PROVE  IInv'
<1> USE SignalsAssumption DEF IInv, TypeOK, Crash, dbVars
<1>1. TypeOK' /\ BatchInv' /\ PlaceInv' /\ FreshInv'
  BY DEF BatchInv, PlaceInv, FreshInv, Downstream, Working
<1>2. PaidInv'
  <2>1. \A s \in Signals : Paid(s)'
    BY DEF Paid, RoutedOnceUnlessFaults, RerunsNeedFaults
  <2> QED BY <2>1 DEF PaidInv, Paid
<1>3. RoutedOnceUnlessFaults'
  BY DEF RoutedOnceUnlessFaults, RoutedOnce, RerunsNeedFaults, Downstream
<1> QED BY <1>1, <1>2, <1>3

\* A lease that runs out under its holder is a fault, one nobody holds is paid for.
LEMMA ExpireInv ==
    ASSUME IInv, NEW s \in Signals, LeaseExpires(s)
    PROVE  IInv'
<1> USE SignalsAssumption DEF IInv, TypeOK, LeaseExpires, workerVars
<1>1. TypeOK'
  OBVIOUS
<1>2. faults <= faults'
  OBVIOUS
<1>3. BatchInv' /\ PlaceInv' /\ FreshInv'
  BY DEF BatchInv, PlaceInv, FreshInv, Downstream, Working
<1>4. RoutedOnceUnlessFaults'
  BY <1>2 DEF RoutedOnceUnlessFaults, RoutedOnce, RerunsNeedFaults, Downstream
<1>5. ASSUME stage[s] = "unprocessed" PROVE Paid(s)'
  <2>1. CASE Held(s)
    <3>1. faults' = faults + 1 /\ attempts' = attempts
      BY <2>1 DEF Held
    <3> QED BY <3>1 DEF Paid, RoutedOnceUnlessFaults, RerunsNeedFaults
  <2>2. CASE ~Held(s)
    BY <1>2, <1>5, <2>2 DEF PaidInv, Paid
  <2> QED BY <2>1, <2>2
<1>6. \A r \in Signals : Paid(r) => Paid(r)'
  BY <1>2 DEF Paid
<1>7. \A r \in Signals : r # s => live'[r] = live[r] /\ (Held(r) <=> Held(r)')
  BY DEF Held
<1>8. \A r \in Signals : stage'[r] = "unprocessed" /\ ~(live'[r] /\ Held(r)') => Paid(r)'
  BY <1>5, <1>6, <1>7 DEF PaidInv
<1>9. PaidInv'
  BY <1>6, <1>8 DEF PaidInv, Paid
<1> QED BY <1>1, <1>3, <1>4, <1>9

\* A step that changes nothing.
LEMMA StutterInv ==
    ASSUME IInv, UNCHANGED vars
    PROVE  IInv'
  BY DEF IInv, TypeOK, BatchInv, PlaceInv, FreshInv, PaidInv, Paid, Held, Working,
         RoutedOnceUnlessFaults, RoutedOnce, RerunsNeedFaults, Downstream, vars, dbVars,
         workerVars

\* Every step of the replicas, of ingestion and of time keeps the invariant.
LEMMA NextInv == IInv /\ [Next]_vars => IInv'
<1> SUFFICES ASSUME IInv, [Next]_vars PROVE IInv'
  OBVIOUS
<1>1. ASSUME NEW w \in Routers, TickStep(w) PROVE IInv'
  BY <1>1, ClaimInv, AdvanceInv, EnqueueInv, MarkInv, ReleaseInv DEF TickStep
<1> QED
  BY <1>1, IngestInv, StartTickInv, FailInv, CrashInv, ExpireInv, StutterInv DEF Next

\* signal-events-repository.ts and worker-signal-router keep their rows and their
\* batches well typed.
THEOREM TypeCorrect == Spec => []TypeOK
<1>1. IInv => TypeOK
  BY DEF IInv
<1> QED BY <1>1, InitInv, NextInv, PTL DEF Spec

\* Whatever replicas crash, fail or outlive their leases, and however many there are, a
\* processed signal has its routing decision and its one request in the outbox, and no
\* signal has run more often than once and once more per fault.
THEOREM RoutingIsIdempotent == Spec => []RoutedOnceUnlessFaults
<1>1. IInv => RoutedOnceUnlessFaults
  BY DEF IInv
<1> QED BY <1>1, InitInv, NextInv, PTL DEF Spec

\* releaseClaims compares the owner and a claim takes expired leases only: no replica
\* ends another's live lease on an unprocessed signal.
THEOREM LeaseIsFenced == Spec => LeaseFencedFromOthers
<1> DEFINE A == \A s \in Signals, w \in Routers :
                   owner[s] = w /\ owner'[s] # w /\ stage'[s] = "unprocessed" =>
                       ~live[s] \/ queue'[w] # queue[w]
<1>1. ASSUME IInv, Next PROVE A
  <2> SUFFICES ASSUME NEW s \in Signals, NEW w \in Routers, owner[s] = w,
                      owner'[s] # w, stage'[s] = "unprocessed", live[s]
               PROVE  queue'[w] # queue[w]
    OBVIOUS
  <2> USE SignalsAssumption, <1>1 DEF IInv, TypeOK
  <2>1. ASSUME NEW v \in Routers, ClaimUnprocessed(v) PROVE FALSE
    BY <2>1 DEF ClaimUnprocessed, Claimable
  <2>2. ASSUME NEW v \in Routers, MarkProcessed(v) PROVE FALSE
    BY <2>2 DEF MarkProcessed
  <2>3. ASSUME NEW v \in Routers, ReleaseClaims(v) PROVE queue'[w] # queue[w]
    <3>1. v = w /\ s = current[w]
      BY <2>3 DEF ReleaseClaims, Releasable
    <3>2. s \in queue[w]
      BY <2>3, <3>1 DEF ReleaseClaims, BatchInv, Working
    <3> QED BY <2>3, <3>1, <3>2 DEF ReleaseClaims, Finish
  <2> QED
    BY <2>1, <2>2, <2>3
    DEF Next, TickStep, StartTick, TakeNext, NextLane, Route, RequestWork, RoutingFails,
        Crash, Ingest, LeaseExpires, dbVars
<1>2. IInv /\ [Next]_vars => [A]_vars
  BY <1>1
<1> QED BY <1>2, InitInv, NextInv, PTL DEF Spec, LeaseFencedFromOthers
=============================================================================
