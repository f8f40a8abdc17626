------------------------ MODULE OutboxPublisherProofs -----------------------
(***************************************************************************)
(* The properties of OutboxPublisher, for any number of rows, tenants,     *)
(* publishers and faults, and any batch size.                              *)
(***************************************************************************)
EXTENDS OutboxPublisher, FiniteSetTheorems, WellFoundedInduction, TLAPS

\* What a publisher's place in its cycle says of its listing and of the current row.
PlaceInv(p) ==
    LET r == Current(p) IN
    /\ pc[p] \in {"idle", "list"} => queue[p] = {}
    /\ pc[p] \in {"health", "send", "mark"} =>
          /\ queue[p] # {}
          /\ Kind[r] \in {"incident", "dead_letter"} => incident[r] # "none"
    /\ pc[p] \in {"send", "mark"} /\ Kind[r] = "dead_letter" => r \in health
    /\ pc[p] = "mark" /\ Kind[r] # "dispatch" => published[r] > 0

\* Listed rows are in the outbox, and a row that is not has not been published.
VisibleInv ==
    \A r \in Rows :
        status[r] = "absent" =>
            published[r] = 0 /\ \A p \in Publishers : r \notin queue[p]

\* The publishers with a cycle under way; those about to mark row r; those without the
\* lock that may still publish a pending r; those that have r listed and unpublished.
Active == {p \in Publishers : pc[p] # "idle"}
Sent(r) == {p \in Active : pc[p] = "mark" /\ Current(p) = r}
Behind(r) == Active \ ({lock} \cup Sent(r))
Listed(r) == {p \in Active : r \in queue[p]} \ Sent(r)

\* The lock belongs to a cycle under way, and every other cycle has lost it to a fault.
LockInv ==
    /\ lock # NoOwner => lock \in Active
    /\ Cardinality(Active \ {lock}) <= faults

\* The copies of a row that exist and those that may still be made.  While it is
\* pending, the cycles that have lost the lock are each paid for, and the one that
\* holds it adds one; once it is consumed, only cycles that have listed it are left.
CopiesInv ==
    \A r \in Rows :
        /\ status[r] = "pending" =>
              published[r] + Cardinality(Behind(r)) <=
                  faults + (IF lock \in Sent(r) THEN 1 ELSE 0)
        /\ status[r] = "consumed" =>
              published[r] + Cardinality(Listed(r)) <= 1 + faults

IInv ==
    /\ TypeOK
    /\ \A p \in Publishers : PlaceInv(p)
    /\ VisibleInv /\ LockInv /\ CopiesInv
    /\ IncidentBeforePublish /\ ConsumedWasPublished

-----------------------------------------------------------------------------
\* A publisher with a listing works on one of its rows.
LEMMA CurrentIsListed ==
    ASSUME TypeOK, NEW p \in Publishers, queue[p] # {}
    PROVE  Current(p) \in queue[p] /\ Current(p) \in Rows
<1>1. queue[p] \subseteq Nat /\ queue[p] \subseteq Rows
  BY OutboxAssumption DEF TypeOK
<1> DEFINE Less == {ss \in Nat \X Nat : ss[1] < ss[2]}
<1>2. IsWellFoundedOn(Less, Nat)
  BY NatLessThanWellFounded DEF OpToRel
<1>3. \A x, y \in Nat : <<y, x>> \in Less <=> y < x
  OBVIOUS
<1> HIDE DEF Less
<1>4. PICK x \in queue[p] : \A y \in queue[p] : ~ (<<y, x>> \in Less)
  BY <1>1, <1>2, WFMin
<1>5. ASSUME NEW y \in queue[p] PROVE x =< y
  <2>1. x \in Nat /\ y \in Nat
    BY <1>1
  <2>2. ~(y < x)
    BY <1>3, <1>4, <2>1
  <2> QED BY <2>1, <2>2
<1> QED BY <1>1, <1>5 DEF Current, Min

\* Sets of publishers are finite, and smaller ones have no more members.
LEMMA Counting ==
    /\ \A S \in SUBSET Publishers : IsFiniteSet(S) /\ Cardinality(S) \in Nat
    /\ \A S, T \in SUBSET Publishers : S \subseteq T => Cardinality(S) <= Cardinality(T)
    /\ \A S, T \in SUBSET Publishers, p \in Publishers :
          /\ S \subseteq T \cup {p} => Cardinality(S) <= Cardinality(T) + 1
          /\ S \subseteq T \ {p} /\ p \in T => Cardinality(S) + 1 <= Cardinality(T)
<1>1. \A S \in SUBSET Publishers : IsFiniteSet(S) /\ Cardinality(S) \in Nat
  BY OutboxAssumption, FS_Subset, FS_CardinalityType
<1>2. \A S, T \in SUBSET Publishers : S \subseteq T => Cardinality(S) <= Cardinality(T)
  BY <1>1, FS_Subset
<1>3. ASSUME NEW S \in SUBSET Publishers, NEW T \in SUBSET Publishers, NEW p \in Publishers
      PROVE  /\ S \subseteq T \cup {p} => Cardinality(S) <= Cardinality(T) + 1
             /\ S \subseteq T \ {p} /\ p \in T => Cardinality(S) + 1 <= Cardinality(T)
  <2>1. Cardinality(S) \in Nat /\ Cardinality(T) \in Nat /\ IsFiniteSet(T)
    BY <1>1
  <2>2. /\ Cardinality(T \cup {p}) = IF p \in T THEN Cardinality(T) ELSE Cardinality(T) + 1
        /\ Cardinality(T \ {p}) = IF p \in T THEN Cardinality(T) - 1 ELSE Cardinality(T)
    BY <2>1, FS_AddElement, FS_RemoveElement
  <2>3. T \cup {p} \in SUBSET Publishers /\ T \ {p} \in SUBSET Publishers
    OBVIOUS
  <2>4. /\ S \subseteq T \cup {p} => Cardinality(S) <= Cardinality(T \cup {p})
        /\ S \subseteq T \ {p} => Cardinality(S) <= Cardinality(T \ {p})
    BY <1>2, <2>3
  <2> QED BY <2>1, <2>2, <2>4
<1> QED BY <1>1, <1>2, <1>3

\* What the control plane and the stream hold is not taken back.
Grows ==
    /\ health \subseteq health'
    /\ \A r \in Rows : /\ incident[r] # "none" => incident'[r] # "none"
                       /\ published[r] > 0 => published'[r] > 0

\* What is known at a publisher's place survives the steps of everyone else.
LEMMA OthersKeep ==
    ASSUME TypeOK, Grows, NEW p \in Publishers, PlaceInv(p),
           pc'[p] = pc[p], queue'[p] = queue[p]
    PROVE  PlaceInv(p)'
<1>1. Current(p)' = Current(p)
  BY DEF Current
<1>2. pc[p] \in {"health", "send", "mark"} => Current(p) \in Rows
  BY CurrentIsListed DEF PlaceInv
<1> HIDE DEF Current
<1> QED BY <1>1, <1>2 DEF PlaceInv, Grows

\* A step that publishes nothing new and marks nothing.
LEMMA StreamKept ==
    ASSUME TypeOK, Grows, IncidentBeforePublish, ConsumedWasPublished, published' = published,
           \A r \in Rows : status'[r] = "consumed" => status[r] = "consumed"
    PROVE  IncidentBeforePublish' /\ ConsumedWasPublished'
  BY DEF Grows, IncidentBeforePublish, ConsumedWasPublished

\* The sets of publishers that the invariant counts.
LEMMA Members ==
    /\ Active \subseteq Publishers
    /\ \A r : /\ Sent(r) \subseteq Publishers /\ Behind(r) \subseteq Publishers
              /\ Listed(r) \subseteq Publishers
    /\ \A q \in Publishers :
          /\ q \in Active <=> pc[q] # "idle"
          /\ \A r : /\ q \in Sent(r) <=> pc[q] = "mark" /\ Current(q) = r
                    /\ q \in Behind(r) <=> pc[q] # "idle" /\ q # lock /\ q \notin Sent(r)
                    /\ q \in Listed(r) <=>
                          pc[q] # "idle" /\ r \in queue[q] /\ q \notin Sent(r)
  BY DEF Active, Sent, Behind, Listed

\* Row r after a step that leaves it alone: no cycle is added to those that may publish
\* it, and a holder of the lock that was about to mark it still is, or failed.
LEMMA RowKept ==
    ASSUME TypeOK, TypeOK', CopiesInv, NEW r \in Rows,
           status'[r] = status[r], published'[r] = published[r], faults <= faults',
           Behind(r)' \subseteq Behind(r),
           status[r] = "consumed" => Listed(r)' \subseteq Listed(r),
           lock \in Sent(r) => lock' \in Sent(r)' \/ faults < faults'
    PROVE  /\ status'[r] = "pending" =>
                 published'[r] + Cardinality(Behind(r)') <=
                     faults' + (IF lock' \in Sent(r)' THEN 1 ELSE 0)
           /\ status'[r] = "consumed" =>
                 published'[r] + Cardinality(Listed(r)') <= 1 + faults'
<1> DEFINE b == Cardinality(Behind(r))
           c == Cardinality(Behind(r)')
           l == Cardinality(Listed(r))
           m == Cardinality(Listed(r)')
<1>1. b \in Nat /\ c \in Nat /\ l \in Nat /\ m \in Nat
  <2>1. Behind(r)' \in SUBSET Publishers /\ Listed(r)' \in SUBSET Publishers
    BY DEF Behind, Listed, Active
  <2>2. Behind(r) \in SUBSET Publishers /\ Listed(r) \in SUBSET Publishers
    BY Members
  <2> QED BY <2>1, <2>2, Counting
<1>2. c <= b /\ (status[r] = "consumed" => m <= l)
  BY Members, Counting
<1>3. published[r] \in Nat /\ faults \in Nat /\ faults' \in Nat
  BY OutboxAssumption DEF TypeOK
<1>4. /\ status[r] = "pending" =>
            published[r] + b <= faults + (IF lock \in Sent(r) THEN 1 ELSE 0)
      /\ status[r] = "consumed" => published[r] + l <= 1 + faults
  BY DEF CopiesInv
<1> HIDE DEF b, c, l, m
<1>5. status'[r] = "pending" =>
         published'[r] + c <= faults' + (IF lock' \in Sent(r)' THEN 1 ELSE 0)
  BY <1>1, <1>2, <1>3, <1>4
<1>6. status'[r] = "consumed" => published'[r] + m <= 1 + faults'
  BY <1>1, <1>2, <1>3, <1>4
<1> QED BY <1>5, <1>6 DEF c, m

\* The initial state satisfies the invariant.
LEMMA InitInv == Init => IInv
<1> SUFFICES ASSUME Init PROVE IInv
  OBVIOUS
<1> USE OutboxAssumption DEF Init
<1>1. TypeOK
  BY DEF TypeOK
<1>2. \A p \in Publishers : PlaceInv(p)
  BY DEF PlaceInv
<1>3. VisibleInv /\ CopiesInv
  BY DEF VisibleInv, CopiesInv
<1>4. LockInv
  <2>1. Active \ {lock} = {}
    BY DEF Active
  <2> QED BY <2>1, FS_EmptySet DEF LockInv
<1>5. IncidentBeforePublish /\ ConsumedWasPublished
  BY DEF IncidentBeforePublish, ConsumedWasPublished
<1> QED BY <1>1, <1>2, <1>3, <1>4, <1>5 DEF IInv

-----------------------------------------------------------------------------
\* A new row is unpublished, and the cycles that may come to publish it are bounded.
LEMMA EnqueueInv ==
    ASSUME IInv, NEW r \in Rows, Enqueue(r)
    PROVE  IInv'
<1> USE OutboxAssumption DEF Enqueue, workerVars
<1>1. TypeOK /\ LockInv /\ CopiesInv
  BY DEF IInv
<1>2. TypeOK'
  BY <1>1 DEF TypeOK
<1>3. Grows
  BY <1>1 DEF Grows, TypeOK
<1>4. \A p \in Publishers : PlaceInv(p)'
  BY <1>1, <1>3, OthersKeep DEF IInv
<1>5. VisibleInv'
  BY <1>1 DEF IInv, VisibleInv, TypeOK
<1>6. /\ Active' = Active
      /\ \A s : Sent(s)' = Sent(s) /\ Behind(s)' = Behind(s) /\ Listed(s)' = Listed(s)
  BY DEF Active, Sent, Behind, Listed, Current
<1>7. LockInv'
  BY <1>1, <1>6 DEF LockInv
<1>8. ASSUME NEW s \in Rows
      PROVE  /\ status'[s] = "pending" =>
                   published'[s] + Cardinality(Behind(s)') <=
                       faults' + (IF lock' \in Sent(s)' THEN 1 ELSE 0)
             /\ status'[s] = "consumed" =>
                   published'[s] + Cardinality(Listed(s)') <= 1 + faults'
  <2>1. CASE s = r
    <3>1. published[r] = 0 /\ status'[r] = "pending"
      BY <1>1 DEF IInv, VisibleInv, TypeOK
    <3>2. Cardinality(Behind(r)) <= Cardinality(Active \ {lock})
      <4>1. Active \ {lock} \in SUBSET Publishers /\ Behind(r) \in SUBSET Publishers
        BY Members
      <4>2. Behind(r) \subseteq Active \ {lock}
        BY DEF Behind
      <4> QED BY <4>1, <4>2, Counting
    <3>3. /\ Cardinality(Behind(r)) \in Nat /\ Cardinality(Active \ {lock}) \in Nat
          /\ faults \in Nat
      BY <1>1, Members, Counting DEF TypeOK
    <3>4. Cardinality(Active \ {lock}) <= faults
      BY <1>1 DEF LockInv
    <3> QED BY <1>6, <2>1, <3>1, <3>2, <3>3, <3>4
  <2>2. CASE s # r
    <3>1. status'[s] = status[s] /\ published' = published /\ faults' = faults /\ lock' = lock
      BY <1>1, <2>2 DEF TypeOK
    <3> QED BY <1>1, <1>2, <1>6, <3>1, RowKept DEF TypeOK
  <2> QED BY <2>1, <2>2
<1>9. CopiesInv'
  BY <1>8 DEF CopiesInv
<1>10. IncidentBeforePublish' /\ ConsumedWasPublished'
  BY <1>1, <1>3, StreamKept DEF IInv, TypeOK
<1> QED BY <1>2, <1>4, <1>5, <1>7, <1>9, <1>10 DEF IInv

\* An operator's step concerns incidents only, and a resolved one is still there.
LEMMA ResolveInv ==
    ASSUME IInv, NEW r \in Rows, ResolveIncident(r)
    PROVE  IInv'
<1> USE OutboxAssumption DEF ResolveIncident, workerVars
<1>1. TypeOK
  BY DEF IInv
<1>2. TypeOK'
  BY <1>1 DEF TypeOK
<1>3. Grows
  BY <1>1 DEF Grows, TypeOK
<1>4. \A p \in Publishers : PlaceInv(p)'
  BY <1>1, <1>3, OthersKeep DEF IInv
<1>5. /\ Active' = Active
      /\ \A s : Sent(s)' = Sent(s) /\ Behind(s)' = Behind(s) /\ Listed(s)' = Listed(s)
  BY DEF Active, Sent, Behind, Listed, Current
<1>6. VisibleInv' /\ LockInv' /\ CopiesInv'
  BY <1>5 DEF IInv, VisibleInv, LockInv, CopiesInv
<1>7. IncidentBeforePublish' /\ ConsumedWasPublished'
  BY <1>1, <1>3, StreamKept DEF IInv
<1> QED BY <1>2, <1>4, <1>6, <1>7 DEF IInv

\* The counts after a step of a cycle that neither publishes nor marks.
LEMMA CycleKeeps ==
    ASSUME TypeOK, TypeOK', LockInv, CopiesInv, NEW p \in Publishers,
           pc[p] \notin {"idle", "mark"},
           \A q \in Publishers : q # p => pc'[q] = pc[q] /\ queue'[q] = queue[q],
           UNCHANGED <<status, published, faults>>,
           \/ lock' = lock /\ pc'[p] # "idle"
           \/ lock' = (IF lock = p THEN NoOwner ELSE lock) /\ pc'[p] = "idle",
           \A r \in Rows : status[r] = "consumed" /\ r \in queue'[p] => r \in queue[p]
    PROVE  LockInv' /\ CopiesInv'
<1> USE OutboxAssumption
<1>1. \A q \in Publishers : q # p => Current(q)' = Current(q)
  BY DEF Current
<1>2. \A q \in Publishers, r \in Rows :
         q # p => (q \in Sent(r)' <=> q \in Sent(r))
  BY <1>1 DEF Sent, Active
<1>3. \A r \in Rows : p \notin Sent(r)
  BY Members
<1>4. Active' \ {lock'} \subseteq Active \ {lock}
  BY DEF Active
<1>5. lock' # NoOwner => lock' \in Active'
  BY DEF LockInv, Active
<1>6. LockInv'
  <2>1. Active' \ {lock'} \in SUBSET Publishers /\ Active \ {lock} \in SUBSET Publishers
    BY DEF Active
  <2>2. /\ Cardinality(Active' \ {lock'}) <= Cardinality(Active \ {lock})
        /\ Cardinality(Active' \ {lock'}) \in Nat /\ Cardinality(Active \ {lock}) \in Nat
    BY <1>4, <2>1, Counting
  <2>3. Cardinality(Active \ {lock}) <= faults /\ faults' = faults /\ faults \in Nat
    BY DEF LockInv, TypeOK
  <2> HIDE DEF Active
  <2>4. Cardinality(Active' \ {lock'}) <= faults'
    BY <2>2, <2>3
  <2> QED BY <1>5, <2>4 DEF LockInv
<1>7. ASSUME NEW r \in Rows
      PROVE  /\ Behind(r)' \subseteq Behind(r)
             /\ status[r] = "consumed" => Listed(r)' \subseteq Listed(r)
             /\ lock \in Sent(r) => lock' \in Sent(r)'
  <2>1. Behind(r)' \subseteq Behind(r)
    BY <1>2, <1>3 DEF Behind, Active
  <2>2. status[r] = "consumed" => Listed(r)' \subseteq Listed(r)
    BY <1>2, <1>3 DEF Listed, Active
  <2>3. lock \in Sent(r) => lock \in Publishers /\ lock # p
    BY <1>3, Members
  <2> QED BY <1>2, <2>1, <2>2, <2>3
<1>8. CopiesInv'
  BY <1>7, RowKept DEF CopiesInv, TypeOK
<1> QED BY <1>6, <1>8

\* A cycle starts with the lock, which nobody held, and without a listing.
LEMMA StartCycleInv ==
    ASSUME IInv, NEW p \in Publishers, StartCycle(p)
    PROVE  IInv'
<1> USE OutboxAssumption DEF StartCycle, LockAvailable, dbVars
<1>1. TypeOK /\ LockInv /\ CopiesInv /\ PlaceInv(p)
  BY DEF IInv
<1>2. TypeOK'
  BY <1>1 DEF TypeOK
<1>3. Grows
  BY DEF Grows
<1>4. \A q \in Publishers : q # p => pc'[q] = pc[q] /\ queue'[q] = queue[q]
  BY <1>1 DEF TypeOK
<1>5. \A q \in Publishers : PlaceInv(q)'
  <2>1. PlaceInv(p)'
    BY <1>1 DEF PlaceInv, TypeOK
  <2> QED BY <1>1, <1>3, <1>4, <2>1, OthersKeep DEF IInv
<1>6. VisibleInv'
  BY DEF IInv, VisibleInv
<1>7. \A q \in Publishers, r \in Rows : q # p => (q \in Sent(r)' <=> q \in Sent(r))
  BY <1>4 DEF Sent, Active, Current
<1>8. LockInv'
  <2>1. p \in Active'
    BY <1>1 DEF Active, TypeOK
  <2>2. Active' \ {lock'} \subseteq Active \ {lock}
    BY <1>4 DEF Active
  <2>3. Active' \ {lock'} \in SUBSET Publishers /\ Active \ {lock} \in SUBSET Publishers
    BY DEF Active
  <2>4. /\ Cardinality(Active' \ {lock'}) <= Cardinality(Active \ {lock})
        /\ Cardinality(Active' \ {lock'}) \in Nat /\ Cardinality(Active \ {lock}) \in Nat
    BY <2>2, <2>3, Counting
  <2>5. Cardinality(Active \ {lock}) <= faults /\ faults' = faults /\ faults \in Nat
    BY <1>1 DEF LockInv, TypeOK
  <2> HIDE DEF Active
  <2>6. Cardinality(Active' \ {lock'}) <= faults'
    BY <2>4, <2>5
  <2> QED BY <2>1, <2>6 DEF LockInv
<1>9. ASSUME NEW r \in Rows
      PROVE  /\ Behind(r)' \subseteq Behind(r) /\ Listed(r)' \subseteq Listed(r)
             /\ lock \notin Sent(r)
  <2>1. Behind(r)' \subseteq Behind(r)
    BY <1>4, <1>7 DEF Behind, Active
  <2>2. Listed(r)' \subseteq Listed(r)
    BY <1>1, <1>4, <1>7 DEF Listed, Active, PlaceInv
  <2> QED BY <2>1, <2>2, Members
<1>10. CopiesInv'
  BY <1>1, <1>2, <1>9, RowKept DEF CopiesInv, TypeOK
<1>11. IncidentBeforePublish' /\ ConsumedWasPublished'
  BY <1>1, <1>3, StreamKept DEF IInv
<1> QED BY <1>2, <1>5, <1>6, <1>8, <1>10, <1>11 DEF IInv

\* A step of a cycle that neither publishes nor marks, from what it does at its place.
LEMMA CycleStepInv ==
    ASSUME IInv, TypeOK', NEW p \in Publishers, Grows, PlaceInv(p)',
           pc[p] \notin {"idle", "mark"},
           \A q \in Publishers : q # p => pc'[q] = pc[q] /\ queue'[q] = queue[q],
           UNCHANGED <<status, published, faults>>,
           \/ lock' = lock /\ pc'[p] # "idle"
           \/ lock' = (IF lock = p THEN NoOwner ELSE lock) /\ pc'[p] = "idle",
           \A r \in Rows : status[r] # "pending" /\ r \in queue'[p] => r \in queue[p]
    PROVE  IInv'
<1>1. TypeOK /\ LockInv /\ CopiesInv
  BY DEF IInv
<1>2. \A q \in Publishers : PlaceInv(q)'
  BY OthersKeep DEF IInv
<1>3. VisibleInv'
  BY DEF IInv, VisibleInv
<1>4. LockInv' /\ CopiesInv'
  BY <1>1, CycleKeeps
<1>5. IncidentBeforePublish' /\ ConsumedWasPublished'
  BY StreamKept DEF IInv
<1> QED BY <1>2, <1>3, <1>4, <1>5 DEF IInv

\* The listing holds pending rows.
LEMMA ListInv ==
    ASSUME IInv, NEW p \in Publishers, ListUnconsumed(p)
    PROVE  IInv'
<1> USE OutboxAssumption DEF ListUnconsumed, dbVars
<1>1. TypeOK
  BY DEF IInv
<1>2. Oldest(tenant[p]) \subseteq Rows /\ \A r \in Oldest(tenant[p]) : status[r] = "pending"
  BY DEF Oldest, Pending
<1>3. /\ \A q \in Publishers : q # p => pc'[q] = pc[q] /\ queue'[q] = queue[q]
      /\ pc'[p] = "row" /\ queue'[p] = Oldest(tenant[p])
  BY <1>1 DEF TypeOK
<1>4. TypeOK'
  BY <1>1, <1>2 DEF TypeOK
<1>5. Grows
  BY DEF Grows
<1>6. PlaceInv(p)'
  BY <1>3 DEF PlaceInv
<1> QED BY <1>2, <1>3, <1>4, <1>5, <1>6, CycleStepInv

\* The next tenant starts without a listing, and the end of the cycle frees the lock.
LEMMA NextTenantInv ==
    ASSUME IInv, NEW p \in Publishers, NextTenant(p)
    PROVE  IInv'
<1> USE OutboxAssumption DEF NextTenant, LastTenant, EndCycle, dbVars
<1>1. TypeOK
  BY DEF IInv
<1>2. /\ \A q \in Publishers : q # p => pc'[q] = pc[q] /\ queue'[q] = queue[q]
      /\ pc'[p] \in {"idle", "list"} /\ queue'[p] = {}
      /\ \/ lock' = lock /\ pc'[p] # "idle"
         \/ lock' = (IF lock = p THEN NoOwner ELSE lock) /\ pc'[p] = "idle"
  BY <1>1 DEF TypeOK
<1>3. TypeOK'
  <2>1. tenant' \in [Publishers -> 1..NumTenants]
    BY <1>1 DEF TypeOK
  <2> QED BY <1>1, <2>1 DEF TypeOK
<1>4. Grows
  BY DEF Grows
<1>5. PlaceInv(p)'
  BY <1>2 DEF PlaceInv
<1> QED BY <1>2, <1>3, <1>4, <1>5, CycleStepInv

\* persistOperationalState up to the incident: an incident row goes on with its incident
\* open, and a poison row ends the cycle.
LEMMA PersistInv ==
    ASSUME IInv, NEW p \in Publishers, PersistOperationalState(p)
    PROVE  IInv'
<1> USE OutboxAssumption
<1> DEFINE r == Current(p)
<1>1. TypeOK /\ r \in queue[p] /\ r \in Rows
  BY CurrentIsListed DEF IInv, PersistOperationalState
<1>2. CASE Kind[r] = "poison"
  <2>1. EndCycle(p) /\ UNCHANGED <<incident, status, health, published, faults>>
    BY <1>2 DEF PersistOperationalState
  <2>2. /\ \A q \in Publishers : q # p => pc'[q] = pc[q] /\ queue'[q] = queue[q]
        /\ pc'[p] = "idle" /\ queue'[p] = {}
        /\ lock' = IF lock = p THEN NoOwner ELSE lock
    BY <1>1, <2>1 DEF EndCycle, TypeOK
  <2>3. TypeOK'
    BY <1>1, <2>1 DEF TypeOK, EndCycle
  <2>4. Grows
    BY <2>1 DEF Grows
  <2>5. PlaceInv(p)'
    BY <2>2 DEF PlaceInv
  <2> QED BY <2>1, <2>2, <2>3, <2>4, <2>5, CycleStepInv DEF PersistOperationalState
<1>3. CASE Kind[r] # "poison"
  <2>1. /\ UNCHANGED <<status, health, published, faults, lock, tenant, queue>>
        /\ pc[p] = "row" /\ queue[p] # {}
        /\ pc' = [pc EXCEPT ![p] = IF Kind[r] = "dead_letter" THEN "health" ELSE "send"]
        /\ incident' = [incident EXCEPT ![r] =
              IF @ = "none" /\ Kind[r] \in {"incident", "dead_letter"} THEN "open" ELSE @]
    BY <1>1, <1>3 DEF PersistOperationalState, CreateIncident, TypeOK
  <2>2. /\ \A q \in Publishers : q # p => pc'[q] = pc[q]
        /\ pc'[p] = IF Kind[r] = "dead_letter" THEN "health" ELSE "send"
    BY <1>1, <2>1 DEF TypeOK
  <2>3. TypeOK'
    BY <1>1, <2>1 DEF TypeOK
  <2>4. Grows
    BY <1>1, <2>1 DEF Grows, TypeOK
  <2>5. PlaceInv(p)'
    <3>1. Current(p)' = r
      BY <2>1 DEF Current
    <3>2. Kind[r] \in {"incident", "dead_letter"} => incident'[r] # "none"
      BY <1>1, <2>1 DEF TypeOK
    <3> HIDE DEF r
    <3> QED BY <2>1, <2>2, <3>1, <3>2 DEF PlaceInv
  <2> QED BY <2>1, <2>2, <2>3, <2>4, <2>5, CycleStepInv
<1> QED BY <1>2, <1>3

\* The health sample is there when the dead letter is sent.
LEMMA HealthInv ==
    ASSUME IInv, NEW p \in Publishers, RecordHealth(p)
    PROVE  IInv'
<1> USE OutboxAssumption DEF RecordHealth
<1>1. TypeOK /\ PlaceInv(p)
  BY DEF IInv
<1>2. Current(p) \in Rows /\ queue[p] # {}
  BY <1>1, CurrentIsListed DEF PlaceInv
<1>3. /\ \A q \in Publishers : q # p => pc'[q] = pc[q] /\ queue'[q] = queue[q]
      /\ pc'[p] = "send" /\ queue'[p] = queue[p] /\ lock' = lock
  BY <1>1 DEF TypeOK
<1>4. TypeOK'
  BY <1>1, <1>2 DEF TypeOK
<1>5. Grows
  BY DEF Grows
<1>6. PlaceInv(p)'
  <2>1. Current(p)' = Current(p)
    BY DEF Current
  <2> QED BY <1>1, <1>3, <2>1 DEF PlaceInv
<1> QED BY <1>3, <1>4, <1>5, <1>6, CycleStepInv

\* A dispatch row is done with, or left for a later cycle.
LEMMA DispatchInv ==
    ASSUME IInv, NEW p \in Publishers, DispatchN8nAction(p)
    PROVE  IInv'
<1> USE OutboxAssumption DEF DispatchN8nAction, dbVars
<1>1. TypeOK /\ PlaceInv(p)
  BY DEF IInv
<1>2. /\ \A q \in Publishers : q # p => pc'[q] = pc[q] /\ queue'[q] = queue[q]
      /\ lock' = lock /\ queue'[p] \subseteq queue[p]
      /\ pc'[p] = "row" \/ (pc'[p] = "mark" /\ queue' = queue)
  <2>1. CASE pc' = [pc EXCEPT ![p] = "mark"] /\ queue' = queue
    BY <1>1, <2>1 DEF TypeOK
  <2>2. CASE /\ pc' = [pc EXCEPT ![p] = "row"]
             /\ queue' = [queue EXCEPT ![p] = @ \ {Current(p)}]
    <3>1. /\ pc'[p] = "row" /\ queue'[p] = queue[p] \ {Current(p)}
          /\ \A q \in Publishers : q # p => pc'[q] = pc[q] /\ queue'[q] = queue[q]
      BY <1>1, <2>2 DEF TypeOK
    <3>2. queue'[p] \subseteq queue[p]
      BY <3>1
    <3>3. lock' = lock
      OBVIOUS
    <3> HIDE DEF DispatchN8nAction
    <3> QED BY <3>1, <3>2, <3>3
  <2> QED BY <2>1, <2>2
<1>3. TypeOK'
  BY <1>1 DEF TypeOK
<1>4. Grows
  BY DEF Grows
<1>5. PlaceInv(p)'
  <2>1. pc'[p] = "mark" => Current(p)' = Current(p)
    BY <1>2 DEF Current
  <2> QED BY <1>1, <1>2, <2>1 DEF PlaceInv
<1> QED BY <1>2, <1>3, <1>4, <1>5, CycleStepInv

\* A copy is published by a cycle that was counted, as one that has lost the lock or as
\* the one that holds it, and is not counted again.
LEMMA PublishInv ==
    ASSUME IInv, NEW p \in Publishers, Publish(p)
    PROVE  IInv'
<1> USE OutboxAssumption DEF Publish, dbVars
<1>1. TypeOK /\ PlaceInv(p) /\ LockInv /\ CopiesInv /\ VisibleInv /\ pc[p] = "send"
  BY DEF IInv
<1>2. PICK r \in Rows : r = Current(p) /\ r \in queue[p]
  BY <1>1, CurrentIsListed DEF PlaceInv
<1>3. /\ \A q \in Publishers : q # p => pc'[q] = pc[q]
      /\ pc'[p] = "mark"
      /\ \A q : Current(q)' = Current(q)
      /\ UNCHANGED <<status, incident, health, queue, lock, faults>>
  BY <1>1 DEF TypeOK, Current
<1>4. /\ \A s \in Rows : s # r => published'[s] = published[s]
      /\ published'[r] = published[r] + 1
      /\ published[r] \in Nat /\ faults \in Nat
  BY <1>1, <1>2 DEF TypeOK
<1>5. TypeOK'
  BY <1>1, <1>2 DEF TypeOK
<1>6. Grows
  BY <1>3, <1>4 DEF Grows
<1> HIDE DEF Publish
<1>7. PlaceInv(p)'
  BY <1>1, <1>2, <1>3, <1>4 DEF PlaceInv
<1>8. \A q \in Publishers : PlaceInv(q)'
  BY <1>1, <1>3, <1>6, <1>7, OthersKeep DEF IInv
<1>9. VisibleInv'
  BY <1>1, <1>2, <1>3, <1>4 DEF VisibleInv
<1>10. Active' = Active
  BY <1>1, <1>3 DEF Active
<1>11. LockInv'
  BY <1>1, <1>3, <1>10 DEF LockInv
<1>12. /\ \A s \in Rows : s # r => Sent(s)' = Sent(s)
       /\ Sent(r)' = Sent(r) \cup {p} /\ p \notin Sent(r)
  BY <1>1, <1>2, <1>3, <1>10 DEF Sent, Active
<1>13. ASSUME NEW s \in Rows
       PROVE  /\ status'[s] = "pending" =>
                    published'[s] + Cardinality(Behind(s)') <=
                        faults' + (IF lock' \in Sent(s)' THEN 1 ELSE 0)
              /\ status'[s] = "consumed" =>
                    published'[s] + Cardinality(Listed(s)') <= 1 + faults'
  <2>1. CASE s # r
    <3>1. Behind(s)' = Behind(s) /\ Listed(s)' = Listed(s) /\ Sent(s)' = Sent(s)
      BY <1>3, <1>10, <1>12, <2>1 DEF Behind, Listed
    <3> QED BY <1>1, <1>3, <1>4, <2>1, <3>1 DEF CopiesInv
  <2>2. CASE s = r
    <3> DEFINE b == Cardinality(Behind(r))
               c == Cardinality(Behind(r)')
               l == Cardinality(Listed(r))
               m == Cardinality(Listed(r)')
    <3>1. Behind(r)' = Behind(r) \ {p} /\ Listed(r)' = Listed(r) \ {p} /\ p \in Listed(r)
      BY <1>1, <1>2, <1>3, <1>10, <1>12 DEF Behind, Listed, Active
    <3>2. /\ Behind(r) \in SUBSET Publishers /\ Listed(r) \in SUBSET Publishers
          /\ Behind(r) \ {p} \in SUBSET Publishers /\ Listed(r) \ {p} \in SUBSET Publishers
      BY Members
    <3>3. /\ b \in Nat /\ c \in Nat /\ l \in Nat /\ m \in Nat
          /\ c <= b /\ m + 1 <= l /\ (p \in Behind(r) => c + 1 <= b)
      BY <3>1, <3>2, Counting
    <3>4. /\ status[r] = "pending" =>
                published[r] + b <= faults + (IF lock \in Sent(r) THEN 1 ELSE 0)
          /\ status[r] = "consumed" => published[r] + l <= 1 + faults
      BY <1>1, <1>2 DEF CopiesInv
    <3>5. status'[r] = status[r] /\ faults' = faults /\ lock' = lock
      BY <1>3
    <3>6. p # lock => p \in Behind(r)
      BY <1>1, <1>12 DEF Behind, Active
    <3> HIDE DEF b, c, l, m
    <3>7. status'[r] = "consumed" => published'[r] + m <= 1 + faults'
      BY <1>4, <3>3, <3>4, <3>5
    <3>8. status'[r] = "pending" =>
             published'[r] + c <= faults' + (IF lock' \in Sent(r)' THEN 1 ELSE 0)
      <4>1. CASE p = lock
        BY <1>4, <1>12, <3>3, <3>4, <3>5, <4>1
      <4>2. CASE p # lock
        BY <1>4, <1>12, <3>3, <3>4, <3>5, <3>6, <4>2
      <4> QED BY <4>1, <4>2
    <3> QED BY <2>2, <3>7, <3>8 DEF c, m
  <2> QED BY <2>1, <2>2
<1>14. CopiesInv'
  BY <1>13 DEF CopiesInv
<1>15. IncidentBeforePublish'
  <2>1. /\ Kind[r] \in {"incident", "dead_letter"} => incident[r] # "none"
        /\ Kind[r] = "dead_letter" => r \in health
    BY <1>1, <1>2 DEF PlaceInv
  <2> QED BY <1>3, <1>4, <2>1 DEF IInv, IncidentBeforePublish
<1>16. ConsumedWasPublished'
  <2>1. published'[r] > 0
    BY <1>4
  <2> QED BY <1>3, <1>4, <2>1 DEF IInv, ConsumedWasPublished
<1> QED BY <1>5, <1>8, <1>9, <1>11, <1>14, <1>15, <1>16 DEF IInv

\* Once the row is consumed no cycle lists it any more.
LEMMA MarkInv ==
    ASSUME IInv, NEW p \in Publishers, MarkConsumed(p)
    PROVE  IInv'
<1> USE OutboxAssumption
<1>1. TypeOK /\ PlaceInv(p) /\ LockInv /\ CopiesInv /\ VisibleInv /\ pc[p] = "mark"
  BY DEF IInv, MarkConsumed
<1>2. PICK r \in Rows : r = Current(p) /\ r \in queue[p]
  BY <1>1, CurrentIsListed DEF PlaceInv
<1>3. /\ \A q \in Publishers : q # p => pc'[q] = pc[q] /\ queue'[q] = queue[q]
      /\ pc'[p] = "row" /\ queue'[p] = queue[p] \ {r}
      /\ UNCHANGED <<incident, health, published, lock, faults>>
      /\ \A s \in Rows : status'[s] = IF s = r THEN "consumed" ELSE status[s]
  BY <1>1, <1>2 DEF TypeOK, MarkConsumed, ConsumedRows
<1>4. TypeOK'
  <2>1. status' \in [Rows -> {"absent", "pending", "consumed"}]
    BY <1>1 DEF TypeOK, MarkConsumed
  <2> QED BY <1>1, <2>1 DEF TypeOK, MarkConsumed
<1>5. Grows
  BY <1>3 DEF Grows
<1>6. \A q \in Publishers : PlaceInv(q)'
  <2>1. PlaceInv(p)'
    BY <1>3 DEF PlaceInv
  <2> QED BY <1>1, <1>3, <1>5, <2>1, OthersKeep DEF IInv
<1>7. VisibleInv'
  BY <1>1, <1>3 DEF VisibleInv
<1>8. Active' = Active
  BY <1>1, <1>3 DEF Active
<1>9. LockInv'
  BY <1>1, <1>3, <1>8 DEF LockInv
<1>10. \A q \in Publishers : q # p => Current(q)' = Current(q)
  BY <1>3 DEF Current
<1>11. \A s \in Rows : Sent(s)' = Sent(s) \ {p}
  BY <1>3, <1>8, <1>10 DEF Sent, Active
<1>12. p \in Sent(r) /\ \A s \in Rows : s # r => p \notin Sent(s)
  BY <1>1, <1>2 DEF Sent, Active
<1>13. ASSUME NEW s \in Rows, status[s] = status'[s]
       PROVE  /\ status'[s] = "pending" =>
                    published'[s] + Cardinality(Behind(s)') <=
                        faults' + (IF lock' \in Sent(s)' THEN 1 ELSE 0)
              /\ status'[s] = "consumed" =>
                    published'[s] + Cardinality(Listed(s)') <= 1 + faults'
  <2>1. status[s] = "consumed" => Listed(s)' \subseteq Listed(s)
    <3>1. CASE s = r
      BY <1>3, <1>8, <1>11, <3>1 DEF Listed, Active
    <3>2. CASE s # r
      BY <1>3, <1>8, <1>11, <1>12, <3>2 DEF Listed, Active
    <3> QED BY <3>1, <3>2
  <2>2. CASE s # r
    <3>1. Sent(s)' = Sent(s)
      BY <1>11, <1>12, <2>2
    <3>2. Behind(s)' = Behind(s)
      BY <1>3, <1>8, <3>1 DEF Behind
    <3> QED BY <1>1, <1>3, <1>4, <1>13, <2>1, <3>1, <3>2, RowKept DEF TypeOK
  <2>3. CASE s = r
    <3>1. status[r] = "consumed" /\ status'[r] = "consumed"
      BY <1>3, <1>13, <2>3
    <3>2. Listed(r) \in SUBSET Publishers /\ Listed(r)' \in SUBSET Publishers
      BY DEF Listed, Active
    <3>3. /\ Cardinality(Listed(r)') <= Cardinality(Listed(r))
          /\ Cardinality(Listed(r)') \in Nat /\ Cardinality(Listed(r)) \in Nat
      BY <2>1, <2>3, <3>1, <3>2, Counting
    <3>4. published[r] + Cardinality(Listed(r)) <= 1 + faults
      BY <1>1, <3>1 DEF CopiesInv
    <3>5. published[r] \in Nat /\ faults \in Nat /\ published' = published /\ faults' = faults
      BY <1>1, <1>3 DEF TypeOK
    <3>6. published'[r] + Cardinality(Listed(r)') <= 1 + faults'
      BY <3>3, <3>4, <3>5
    <3> QED BY <2>3, <3>1, <3>6
  <2> QED BY <2>2, <2>3
<1>14. ASSUME status[r] = "pending"
       PROVE  published'[r] + Cardinality(Listed(r)') <= 1 + faults'
  <2>1. Behind(r) \in SUBSET Publishers /\ Listed(r)' \in SUBSET Publishers
    BY DEF Behind, Listed, Active
  <2>2. Listed(r)' \subseteq Behind(r) \cup {lock}
    BY <1>3, <1>8, <1>11 DEF Listed, Behind, Active
  <2>3. lock \in Sent(r) \/ lock \notin Publishers => Listed(r)' \subseteq Behind(r)
    <3>1. p \notin Listed(r)' /\ Listed(r)' \cap (Sent(r) \ {p}) = {}
      BY <1>3, <1>11 DEF Listed
    <3> QED BY <2>1, <2>2, <3>1
  <2>4. published[r] + Cardinality(Behind(r)) <=
           faults + (IF lock \in Sent(r) THEN 1 ELSE 0)
    BY <1>1, <1>14 DEF CopiesInv
  <2>5. Cardinality(Behind(r)) \in Nat /\ Cardinality(Listed(r)') \in Nat
    BY <2>1, Counting
  <2>6. published[r] \in Nat /\ faults \in Nat /\ published' = published /\ faults' = faults
    BY <1>1, <1>3 DEF TypeOK
  <2>7. CASE lock \in Sent(r) \/ lock \notin Publishers
    <3>1. Cardinality(Listed(r)') <= Cardinality(Behind(r))
      BY <2>1, <2>3, <2>7, Counting
    <3> QED BY <2>4, <2>5, <2>6, <3>1
  <2>8. CASE lock \notin Sent(r) /\ lock \in Publishers
    <3>1. Cardinality(Listed(r)') <= Cardinality(Behind(r)) + 1
      BY <2>1, <2>2, <2>8, Counting
    <3> QED BY <2>4, <2>5, <2>6, <2>8, <3>1
  <2> QED BY <2>7, <2>8
<1>15. CopiesInv'
  <2>1. status[r] \in {"pending", "consumed"} /\ status'[r] = "consumed"
    BY <1>1, <1>2, <1>3 DEF VisibleInv, TypeOK
  <2>2. \A s \in Rows : status[s] = status'[s] \/ (s = r /\ status[r] = "pending")
    <3>1. \A s \in Rows : s # r => status'[s] = status[s]
      BY <1>3
    <3>2. status[r] = status'[r] \/ status[r] = "pending"
      BY <2>1
    <3> QED BY <3>1, <3>2
  <2> QED BY <1>13, <1>14, <2>1, <2>2 DEF CopiesInv
<1>16. IncidentBeforePublish'
  BY <1>3 DEF IInv, IncidentBeforePublish
<1>17. ConsumedWasPublished'
  <2>1. Kind[r] # "dispatch" => published[r] > 0
    BY <1>1, <1>2 DEF PlaceInv
  <2> QED BY <1>3, <2>1 DEF IInv, ConsumedWasPublished
<1> QED BY <1>4, <1>6, <1>7, <1>9, <1>15, <1>16, <1>17 DEF IInv

\* A failed cycle is a fault, which pays for the copies it leaves unmarked.
LEMMA CallFailsInv ==
    ASSUME IInv, NEW p \in Publishers, CallFails(p)
    PROVE  IInv'
<1> USE OutboxAssumption
<1>1. TypeOK /\ LockInv /\ CopiesInv
  BY DEF IInv
<1>2. /\ \A q \in Publishers : q # p => pc'[q] = pc[q] /\ queue'[q] = queue[q]
      /\ pc'[p] = "idle" /\ queue'[p] = {}
      /\ lock' = IF lock = p THEN NoOwner ELSE lock
      /\ faults' = faults + 1 /\ faults \in Nat
      /\ UNCHANGED <<status, incident, health, published>>
  BY <1>1 DEF CallFails, EndCycle, TypeOK, dbVars
<1>3. TypeOK'
  BY <1>1 DEF CallFails, EndCycle, TypeOK, dbVars
<1>4. Grows
  BY <1>2 DEF Grows
<1>5. \A q \in Publishers : PlaceInv(q)'
  <2>1. PlaceInv(p)'
    BY <1>2 DEF PlaceInv
  <2> QED BY <1>1, <1>2, <1>4, <2>1, OthersKeep DEF IInv
<1>6. VisibleInv'
  BY <1>2 DEF IInv, VisibleInv
<1>7. \A q \in Publishers, r \in Rows : q # p => (q \in Sent(r)' <=> q \in Sent(r))
  BY <1>2 DEF Sent, Active, Current
<1>8. LockInv'
  <2>1. Active' \ {lock'} \subseteq Active \ {lock}
    BY <1>2 DEF Active
  <2>2. Active' \ {lock'} \in SUBSET Publishers /\ Active \ {lock} \in SUBSET Publishers
    BY DEF Active
  <2>3. /\ Cardinality(Active' \ {lock'}) <= Cardinality(Active \ {lock})
        /\ Cardinality(Active' \ {lock'}) \in Nat /\ Cardinality(Active \ {lock}) \in Nat
    BY <2>1, <2>2, Counting
  <2>4. Cardinality(Active \ {lock}) <= faults
    BY <1>1 DEF LockInv
  <2>5. lock' # NoOwner => lock' \in Active'
    BY <1>1, <1>2 DEF LockInv, Active
  <2> HIDE DEF Active
  <2>6. Cardinality(Active' \ {lock'}) <= faults'
    BY <1>2, <2>3, <2>4
  <2> QED BY <2>5, <2>6 DEF LockInv
<1>9. ASSUME NEW r \in Rows
      PROVE  Behind(r)' \subseteq Behind(r) /\ Listed(r)' \subseteq Listed(r)
  <2>1. Behind(r)' \subseteq Behind(r)
    BY <1>2, <1>7 DEF Behind, Active
  <2>2. Listed(r)' \subseteq Listed(r)
    BY <1>2, <1>7 DEF Listed, Active
  <2> QED BY <2>1, <2>2
<1>10. CopiesInv'
  BY <1>1, <1>2, <1>3, <1>9, RowKept DEF CopiesInv
<1>11. IncidentBeforePublish' /\ ConsumedWasPublished'
  BY <1>1, <1>2, <1>4, StreamKept DEF IInv
<1> QED BY <1>3, <1>5, <1>6, <1>8, <1>10, <1>11 DEF IInv

\* A lost lock is a fault: one more cycle may now publish what it has not yet sent.
LEMMA ConnectionLostInv ==
    ASSUME IInv, NEW p \in Publishers, ConnectionLost(p)
    PROVE  IInv'
<1> USE OutboxAssumption DEF ConnectionLost, dbVars
<1>1. TypeOK /\ LockInv /\ CopiesInv /\ faults \in Nat /\ faults' = faults + 1
  BY DEF IInv, TypeOK
<1>2. TypeOK'
  BY <1>1 DEF TypeOK
<1>3. Grows
  BY DEF Grows
<1>4. \A q \in Publishers : PlaceInv(q)'
  BY <1>1, <1>3, OthersKeep DEF IInv
<1>5. VisibleInv'
  BY DEF IInv, VisibleInv
<1>6. /\ Active' = Active
      /\ \A r \in Rows : Sent(r)' = Sent(r) /\ Listed(r)' = Listed(r)
      /\ \A r \in Rows : Behind(r)' \subseteq Behind(r) \cup {p}
      /\ \A r \in Rows : p \in Sent(r) => Behind(r)' \subseteq Behind(r)
  BY DEF Active, Sent, Listed, Behind, Current
<1>7. LockInv'
  <2>1. Active \ {p} \in SUBSET Publishers /\ Active' \ {lock'} \in SUBSET Publishers
    BY DEF Active
  <2>2. Active' \ {lock'} \subseteq (Active \ {p}) \cup {p}
    BY <1>6
  <2>3. /\ Cardinality(Active' \ {lock'}) <= Cardinality(Active \ {p}) + 1
        /\ Cardinality(Active' \ {lock'}) \in Nat /\ Cardinality(Active \ {p}) \in Nat
    BY <2>1, <2>2, Counting
  <2>4. Cardinality(Active \ {p}) <= faults
    BY <1>1 DEF LockInv
  <2>5. Cardinality(Active' \ {lock'}) <= faults'
    BY <1>1, <2>3, <2>4
  <2> QED BY <2>5 DEF LockInv
<1>8. ASSUME NEW r \in Rows
      PROVE  /\ status'[r] = "pending" =>
                   published'[r] + Cardinality(Behind(r)') <=
                       faults' + (IF lock' \in Sent(r)' THEN 1 ELSE 0)
             /\ status'[r] = "consumed" =>
                   published'[r] + Cardinality(Listed(r)') <= 1 + faults'
  <2>1. CASE p \in Sent(r)
    BY <1>1, <1>2, <1>6, <2>1, RowKept
  <2>2. CASE p \notin Sent(r)
    <3>1. Behind(r) \in SUBSET Publishers /\ Behind(r)' \in SUBSET Publishers
      BY DEF Behind, Active
    <3>2. /\ Cardinality(Behind(r)') <= Cardinality(Behind(r)) + 1
          /\ Cardinality(Behind(r)') \in Nat /\ Cardinality(Behind(r)) \in Nat
          /\ Cardinality(Listed(r)) \in Nat
      BY <1>6, <3>1, Members, Counting
    <3>3. /\ status[r] = "pending" => published[r] + Cardinality(Behind(r)) <= faults
          /\ status[r] = "consumed" => published[r] + Cardinality(Listed(r)) <= 1 + faults
          /\ published[r] \in Nat
      BY <1>1, <2>2 DEF CopiesInv, TypeOK
    <3>4. lock' \notin Sent(r)'
      BY <1>6, Members
    <3> QED BY <1>1, <1>6, <3>2, <3>3, <3>4
  <2> QED BY <2>1, <2>2
<1>9. CopiesInv'
  BY <1>8 DEF CopiesInv
<1>10. IncidentBeforePublish' /\ ConsumedWasPublished'
  BY <1>1, <1>3, StreamKept DEF IInv
<1> QED BY <1>2, <1>4, <1>5, <1>7, <1>9, <1>10 DEF IInv

-----------------------------------------------------------------------------
\* Every step of the publishers, the producers and the operators keeps the invariant.
LEMMA NextInv == IInv /\ [Next]_vars => IInv'
<1> SUFFICES ASSUME IInv, [Next]_vars PROVE IInv'
  OBVIOUS
<1>1. ASSUME NEW p \in Publishers, CycleStep(p) PROVE IInv'
  BY <1>1, ListInv, NextTenantInv, PersistInv, HealthInv, PublishInv, DispatchInv, MarkInv
  DEF CycleStep
<1>2. CASE UNCHANGED vars
  <2>1. /\ Active' = Active
        /\ \A s : Sent(s)' = Sent(s) /\ Behind(s)' = Behind(s) /\ Listed(s)' = Listed(s)
    BY <1>2 DEF Active, Sent, Behind, Listed, Current, vars, workerVars
  <2>2. TypeOK /\ Grows /\ TypeOK' /\ \A p \in Publishers : PlaceInv(p)
    BY <1>2 DEF IInv, Grows, TypeOK, vars, dbVars, workerVars
  <2>3. \A p \in Publishers : PlaceInv(p)'
    BY <1>2, <2>2, OthersKeep DEF vars, workerVars
  <2>4. VisibleInv' /\ LockInv' /\ CopiesInv'
    BY <1>2, <2>1 DEF IInv, VisibleInv, LockInv, CopiesInv, vars, dbVars, workerVars
  <2>5. IncidentBeforePublish' /\ ConsumedWasPublished'
    BY <1>2, <2>2, StreamKept DEF IInv, vars, dbVars
  <2> QED BY <2>2, <2>3, <2>4, <2>5 DEF IInv
<1> QED
  BY <1>1, <1>2, StartCycleInv, CallFailsInv, ConnectionLostInv, EnqueueInv, ResolveInv
  DEF Next

\* A bound on the cycles under way and on the copies of each row.
LEMMA CopiesBound == IInv => DuplicatesNeedFaults
<1> SUFFICES ASSUME IInv PROVE DuplicatesNeedFaults
  OBVIOUS
<1> USE OutboxAssumption
<1>1. TypeOK /\ LockInv /\ CopiesInv /\ VisibleInv /\ faults \in Nat
  BY DEF IInv, TypeOK
<1>2. ASSUME NEW r \in Rows PROVE published[r] <= 1 + faults
  <2>1. Cardinality(Behind(r)) \in Nat /\ Cardinality(Listed(r)) \in Nat
    BY Members, Counting
  <2>2. published[r] \in Nat /\ status[r] \in {"absent", "pending", "consumed"}
    BY <1>1 DEF TypeOK
  <2>3. status[r] = "absent" => published[r] = 0
    BY <1>1 DEF VisibleInv
  <2>4. /\ status[r] = "pending" =>
              published[r] + Cardinality(Behind(r)) <=
                  faults + (IF lock \in Sent(r) THEN 1 ELSE 0)
        /\ status[r] = "consumed" => published[r] + Cardinality(Listed(r)) <= 1 + faults
    BY <1>1 DEF CopiesInv
  <2> QED BY <1>1, <2>1, <2>2, <2>3, <2>4
<1>3. Cardinality(Active) <= 1 + faults
  <2>1. Active \in SUBSET Publishers /\ Active \ {lock} \in SUBSET Publishers
    BY Members
  <2>2. Cardinality(Active) \in Nat /\ Cardinality(Active \ {lock}) \in Nat
    BY <2>1, Counting
  <2>3. Cardinality(Active \ {lock}) <= faults
    BY <1>1 DEF LockInv
  <2>4. Cardinality(Active) <= Cardinality(Active \ {lock}) + 1
    <3>1. CASE lock \in Publishers
      <4>1. Active \subseteq (Active \ {lock}) \cup {lock}
        OBVIOUS
      <4> QED BY <2>1, <3>1, <4>1, Counting
    <3>2. CASE lock \notin Publishers
      <4>1. Active \subseteq Active \ {lock}
        BY <2>1, <3>2
      <4>2. Cardinality(Active) <= Cardinality(Active \ {lock})
        BY <2>1, <4>1, Counting
      <4> QED BY <2>2, <4>2
    <3> QED BY <3>1, <3>2
  <2> QED BY <1>1, <2>2, <2>3, <2>4
<1> QED BY <1>2, <1>3 DEF DuplicatesNeedFaults, Active

\* The rows, the lock and the cycles of outbox-publisher.ts stay well typed.
THEOREM TypeCorrect == Spec => []TypeOK
<1>1. IInv => TypeOK
  BY DEF IInv
<1> QED BY <1>1, InitInv, NextInv, PTL DEF Spec

\* persistOperationalState runs before the publish: whatever fails and however cycles
\* overlap, no incident or dead letter is in NATS before its incident and its health
\* sample are in the control plane.
THEOREM ControlPlaneFirst == Spec => []IncidentBeforePublish
<1>1. IInv => IncidentBeforePublish
  BY DEF IInv
<1> QED BY <1>1, InitInv, NextInv, PTL DEF Spec

\* publishCycle marks a row after its publish and under the advisory lock: a consumed row
\* has been published, every copy of it beyond the first is paid for by a fault, and so
\* is every cycle that runs beside another.
THEOREM AtLeastOnceBoundedByFaults == Spec => []PublishedBeforeMark
<1>1. IInv => PublishedBeforeMark
  BY CopiesBound DEF IInv, PublishedBeforeMark
<1> QED BY <1>1, InitInv, NextInv, PTL DEF Spec
=============================================================================
