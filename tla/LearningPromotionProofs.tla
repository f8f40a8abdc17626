----------------------- MODULE LearningPromotionProofs ----------------------
(***************************************************************************)
(* The properties of LearningPromotion, for any number of handlers and     *)
(* faults.                                                                 *)
(***************************************************************************)
EXTENDS LearningPromotion, FiniteSetTheorems, TLAPS

\* The founder has approved what needs approval.
Allowed == needsApproval => humanApproved

\* Whatever decides to promote, promotes or has been promoted is allowed.
AllowedInv ==
    /\ status \in {"approved", "promoted", "rolled_back"} => Allowed
    /\ versions > 0 => Allowed
    /\ \A w \in Workers :
          decision[w] = "promote" \/ pc[w] \in {"claim", "list", "create"} => Allowed

\* What a handler's place says: the status it will replace is one that may be replaced,
\* and the version it promotes exists and has been announced.
PlaceInv ==
    \A w \in Workers :
        /\ pc[w] = "update" =>
              seen[w] \in {"awaiting_evidence", "requires_approval", "approved"}
        /\ pc[w] \in {"publish", "mark", "check"} => version[w] > 0
        /\ pc[w] = "mark" => updated > 0

\* A live claim is a claim on an approved proposal, and no two handlers have its token.
TokenInv ==
    /\ claimLive => claim > 0 /\ status = "approved"
    /\ \A v, w \in Workers : token[v] > 0 /\ token[v] = token[w] => v = w

\* The handlers that are to create a version unless something stops them, and those of
\* them that do so under a claim that has run out.
Makers == {w \in Workers : pc[w] = "create" \/ (pc[w] = "list" /\ versions = 0)}
Stale == {w \in Makers : ~(claimLive /\ token[w] = claim)}

\* Each of the latter is paid for by an overrun claim, and so is each version after the
\* first.
MakersInv ==
    /\ versions = 0 => Cardinality(Stale) <= overruns
    /\ versions > 0 => versions + Cardinality(Makers) <= 1 + overruns

\* Promoting names a version, and some version has been announced by then.
Announced == status \in {"promoted", "rolled_back"} => promotedRef > 0 /\ updated > 0

IInv ==
    /\ TypeOK /\ AllowedInv /\ PlaceInv /\ TokenInv /\ MakersInv
    /\ Announced

-----------------------------------------------------------------------------
\* Sets of handlers are finite, and smaller ones have no more members.
LEMMA Counting ==
    /\ \A S \in SUBSET Workers : IsFiniteSet(S) /\ Cardinality(S) \in Nat
    /\ \A S, T \in SUBSET Workers : S \subseteq T => Cardinality(S) <= Cardinality(T)
    /\ \A S, T \in SUBSET Workers, w \in Workers :
          /\ S \subseteq T \cup {w} => Cardinality(S) <= Cardinality(T) + 1
          /\ S \subseteq T \ {w} /\ w \in T => Cardinality(S) + 1 <= Cardinality(T)
<1>1. \A S \in SUBSET Workers : IsFiniteSet(S) /\ Cardinality(S) \in Nat
  BY PromotionAssumption, FS_Subset, FS_CardinalityType
<1>2. \A S, T \in SUBSET Workers : S \subseteq T => Cardinality(S) <= Cardinality(T)
  BY <1>1, FS_Subset
<1>3. ASSUME NEW S \in SUBSET Workers, NEW T \in SUBSET Workers, NEW w \in Workers
      PROVE  /\ S \subseteq T \cup {w} => Cardinality(S) <= Cardinality(T) + 1
             /\ S \subseteq T \ {w} /\ w \in T => Cardinality(S) + 1 <= Cardinality(T)
  <2>1. Cardinality(S) \in Nat /\ Cardinality(T) \in Nat /\ IsFiniteSet(T)
    BY <1>1
  <2>2. /\ Cardinality(T \cup {w}) = IF w \in T THEN Cardinality(T) ELSE Cardinality(T) + 1
        /\ Cardinality(T \ {w}) = IF w \in T THEN Cardinality(T) - 1 ELSE Cardinality(T)
    BY <2>1, FS_AddElement, FS_RemoveElement
  <2>3. T \cup {w} \in SUBSET Workers /\ T \ {w} \in SUBSET Workers
    OBVIOUS
  <2>4. /\ S \subseteq T \cup {w} => Cardinality(S) <= Cardinality(T \cup {w})
        /\ S \subseteq T \ {w} => Cardinality(S) <= Cardinality(T \ {w})
    BY <1>2, <2>3
  <2> QED BY <2>1, <2>2, <2>4
<1> QED BY <1>1, <1>2, <1>3

\* The sets that are counted are sets of handlers.
LEMMA Members == Makers \in SUBSET Workers /\ Stale \in SUBSET Workers
  BY DEF Makers, Stale

-----------------------------------------------------------------------------
\* Every step keeps the types.
LEMMA TypeStep ==
    ASSUME TypeOK, [Next]_vars
    PROVE  TypeOK'
<1> USE PromotionAssumption
<1>1. CASE UNCHANGED vars
  BY <1>1 DEF vars, auxVars, proposalVars, playbookVars, workerVars, TypeOK
<1>2. ASSUME NEW w \in Workers, HandlerStep(w) PROVE TypeOK'
  <2> USE DEF TypeOK, auxVars, proposalVars, playbookVars, Goto
  <2>1. CASE PersistProposal(w)
    BY <2>1 DEF PersistProposal, Statuses, Steps
  <2>2. CASE LoadApproved(w)
    BY <2>2 DEF LoadApproved, Steps
  <2>3. CASE Evaluate(w)
    <3>1. \A e \in {"breached", "thin", "passed"} : Gate(e) \in Decisions
      BY DEF Gate, Decisions
    <3> QED BY <2>3, <3>1 DEF Evaluate, Steps
  <2>4. CASE SelectForEvaluation(w)
    BY <2>4 DEF SelectForEvaluation, Steps
  <2>5. CASE RecordEvaluation(w)
    <3>1. \A x \in Decisions : proposalStatusForDecision[x] \in Statuses
      BY DEF proposalStatusForDecision, Decisions, Statuses
    <3>2. status' \in Statuses
      BY <2>5, <3>1 DEF RecordEvaluation
    <3>3. claim' \in 0..issued' /\ issued' = issued
      BY <2>5 DEF RecordEvaluation
    <3>4. claimLive' \in BOOLEAN
      BY <2>5, Zenon DEF RecordEvaluation
    <3>5. pc' \in [Workers -> Steps]
      BY <2>5 DEF RecordEvaluation, Steps
    <3> QED BY <2>5, <3>2, <3>3, <3>4, <3>5 DEF RecordEvaluation
  <2>6. CASE ClaimPromotion(w)
    <3>1. issued' \in Nat /\ issued <= issued' /\ claim' \in 0..issued'
      BY <2>6 DEF ClaimPromotion
    <3>2. claimLive' \in BOOLEAN
      BY <2>6, Zenon DEF ClaimPromotion
    <3>3. token' \in [Workers -> 0..issued']
      BY <2>6, <3>1 DEF ClaimPromotion
    <3>4. pc' \in [Workers -> Steps]
      BY <2>6 DEF ClaimPromotion, Steps
    <3> QED BY <2>6, <3>1, <3>2, <3>3, <3>4 DEF ClaimPromotion
  <2>7. CASE ListVersions(w)
    BY <2>7 DEF ListVersions, FoundVersion, Steps
  <2>8. CASE CreateVersion(w)
    <3>1. versions' = versions + 1 /\ versions' \in Nat
      BY <2>8 DEF CreateVersion
    <3>2. version' \in [Workers -> 0..versions']
      BY <2>8, <3>1 DEF CreateVersion
    <3> QED BY <2>8, <3>1, <3>2 DEF CreateVersion, Steps
  <2>9. CASE EnqueuePlaybookUpdated(w)
    BY <2>9 DEF EnqueuePlaybookUpdated, Steps
  <2>10. CASE MarkPromoted(w)
    <3>1. claimLive' \in BOOLEAN
      BY <2>10, Zenon DEF MarkPromoted
    <3>2. claim' \in 0..issued /\ promotedRef' \in 0..versions
      BY <2>10 DEF MarkPromoted
    <3>3. status' \in Statuses /\ pc' \in [Workers -> Steps]
      BY <2>10 DEF MarkPromoted, Steps, Statuses
    <3> QED BY <2>10, <3>1, <3>2, <3>3 DEF MarkPromoted
  <2>11. CASE CheckPromoted(w)
    BY <2>11 DEF CheckPromoted, Requeue, Steps
  <2>12. CASE Ack(w)
    BY <2>12 DEF Ack, Steps
  <2> QED BY <1>2, <2>1, <2>2, <2>3, <2>4, <2>5, <2>6, <2>7, <2>8, <2>9, <2>10, <2>11,
             <2>12 DEF HandlerStep
<1> USE DEF TypeOK, auxVars, proposalVars, playbookVars, workerVars
<1>3. ASSUME NEW w \in Workers, Crash(w) \/ CallFails(w) PROVE TypeOK'
  BY <1>3 DEF Crash, CallFails, Goto, Requeue, Steps
<1>4. ASSUME NEW w \in Workers, NEW k \in Kinds, Receive(w, k) PROVE TypeOK'
  BY <1>4 DEF Receive, Steps
<1>5. CASE ApproveAndEnqueue
  <2>1. humanApproved' \in BOOLEAN /\ claimLive' \in BOOLEAN
    BY <1>5, Zenon DEF ApproveAndEnqueue
  <2>2. msg' \in [Kinds -> {"none", "ready", "pending", "acked"}]
    BY <1>5 DEF ApproveAndEnqueue
  <2>3. status' \in Statuses /\ claim' \in 0..issued
    BY <1>5 DEF ApproveAndEnqueue, Statuses
  <2>4. UNCHANGED <<needsApproval, overruns, promotedRef, versions, updated, issued, pc, job,
                    decision, seen, token, version, faults>>
    BY <1>5 DEF ApproveAndEnqueue
  <2> QED BY <2>1, <2>2, <2>3, <2>4
<1>6. CASE MarkRolledBack
  BY <1>6 DEF MarkRolledBack, Statuses
<1>7. ASSUME NEW k \in Kinds, AckWaitExpires(k) PROVE TypeOK'
  BY <1>7 DEF AckWaitExpires, Overrun
<1>8. CASE ClaimExpires
  <2>1. claimLive' \in BOOLEAN
    BY <1>8, Zenon DEF ClaimExpires
  <2>2. faults' \in 0..MaxFaults /\ faults' \in {faults, faults + 1}
    BY <1>8 DEF ClaimExpires, Overrun
  <2>3. overruns' \in 0..faults'
    <3>1. overruns' = overruns + (faults' - faults)
      BY <1>8 DEF ClaimExpires
    <3>2. overruns \in 0..faults /\ faults \in 0..MaxFaults
      OBVIOUS
    <3>3. overruns \in Int /\ faults \in Int /\ 0 <= overruns /\ overruns <= faults
      BY <3>2
    <3>4. CASE faults' = faults
      BY <3>1, <3>3, <3>4
    <3>5. CASE faults' = faults + 1
      BY <3>1, <3>3, <3>5
    <3> QED BY <2>2, <3>4, <3>5
  <2> QED BY <1>8, <2>1, <2>2, <2>3 DEF ClaimExpires
<1> QED BY <1>1, <1>2, <1>3, <1>4, <1>5, <1>6, <1>7, <1>8 DEF Next

-----------------------------------------------------------------------------
\* Only the founder's approval, or the gate finding it given or not needed, leads
\* towards a version.
LEMMA AllowedStep ==
    ASSUME TypeOK, AllowedInv, PlaceInv, [Next]_vars
    PROVE  AllowedInv'
<1> USE DEF AllowedInv, Allowed
<1>1. CASE UNCHANGED vars
  BY <1>1 DEF vars, auxVars, proposalVars, playbookVars, workerVars
<1>2. ASSUME NEW w \in Workers, HandlerStep(w) PROVE AllowedInv'
  <2> USE DEF TypeOK, auxVars, proposalVars, playbookVars, Goto
  <2>1. CASE PersistProposal(w) \/ LoadApproved(w) \/ SelectForEvaluation(w)
    BY <2>1 DEF PersistProposal, LoadApproved, SelectForEvaluation
  <2>2. CASE Evaluate(w)
    <3>1. \A e \in {"breached", "thin", "passed"} : Gate(e) = "promote" => Allowed
      BY DEF Gate
    <3> QED BY <2>2, <3>1 DEF Evaluate
  <2>3. CASE RecordEvaluation(w)
    <3>1. \A x \in Decisions :
             /\ proposalStatusForDecision[x] \in {"approved", "promoted", "rolled_back"} =>
                   x = "promote"
      BY DEF proposalStatusForDecision, Decisions
    <3>2. status' \in {"approved", "promoted", "rolled_back"} => Allowed
      BY <2>3, <3>1 DEF RecordEvaluation
    <3> QED BY <2>3, <3>2 DEF RecordEvaluation
  <2>4. CASE ClaimPromotion(w) \/ ListVersions(w) \/ CreateVersion(w)
    BY <2>4 DEF ClaimPromotion, ListVersions, CreateVersion
  <2>5. CASE EnqueuePlaybookUpdated(w) \/ MarkPromoted(w) \/ CheckPromoted(w) \/ Ack(w)
    BY <2>5 DEF EnqueuePlaybookUpdated, MarkPromoted, HoldsClaim, CheckPromoted, Ack
  <2> QED BY <1>2, <2>1, <2>2, <2>3, <2>4, <2>5 DEF HandlerStep
<1> USE DEF TypeOK, auxVars, proposalVars, playbookVars, workerVars
<1>3. ASSUME NEW w \in Workers, Crash(w) \/ CallFails(w) PROVE AllowedInv'
  BY <1>3 DEF Crash, CallFails, Goto
<1>4. ASSUME NEW w \in Workers, NEW k \in Kinds, Receive(w, k) PROVE AllowedInv'
  BY <1>4 DEF Receive
<1>5. CASE ApproveAndEnqueue \/ MarkRolledBack \/ ClaimExpires
  <2>1. CASE ApproveAndEnqueue
    <3>1. Allowed'
      BY <2>1 DEF ApproveAndEnqueue
    <3> QED BY <3>1
  <2>2. CASE MarkRolledBack
    BY <2>2 DEF MarkRolledBack
  <2>3. CASE ClaimExpires
    <3>1. UNCHANGED <<needsApproval, status, humanApproved, versions, pc, decision>>
      BY <2>3 DEF ClaimExpires
    <3> QED BY <3>1
  <2> QED BY <1>5, <2>1, <2>2, <2>3
<1>6. ASSUME NEW k \in Kinds, AckWaitExpires(k) PROVE AllowedInv'
  BY <1>6 DEF AckWaitExpires
<1> QED BY <1>1, <1>2, <1>3, <1>4, <1>5, <1>6 DEF Next

\* A status that is to be replaced, a version that is to be promoted and its update stay
\* what they are while a handler relies on them.
LEMMA PlaceStep ==
    ASSUME TypeOK, PlaceInv, Announced, [Next]_vars
    PROVE  PlaceInv' /\ Announced'
<1> USE DEF PlaceInv, Announced, TypeOK
<1>1. CASE UNCHANGED vars
  BY <1>1 DEF vars, auxVars, proposalVars, playbookVars, workerVars
<1>2. ASSUME NEW w \in Workers, HandlerStep(w) PROVE PlaceInv' /\ Announced'
  <2> USE DEF auxVars, proposalVars, playbookVars, Goto
  <2>1. CASE PersistProposal(w) \/ LoadApproved(w) \/ Evaluate(w) \/ Ack(w)
    BY <2>1 DEF PersistProposal, LoadApproved, Evaluate, Ack
  <2>2. CASE SelectForEvaluation(w)
    BY <2>2 DEF SelectForEvaluation, Recordable
  <2>3. CASE RecordEvaluation(w)
    <3>1. \A x \in Decisions : proposalStatusForDecision[x] \notin {"promoted", "rolled_back"}
      BY DEF proposalStatusForDecision, Decisions
    <3>2. status' \in {"promoted", "rolled_back"} => status' = status
      BY <2>3, <3>1 DEF RecordEvaluation
    <3> QED BY <2>3, <3>2 DEF RecordEvaluation
  <2>4. CASE ClaimPromotion(w) \/ ListVersions(w)
    BY <2>4 DEF ClaimPromotion, ListVersions, FoundVersion
  <2>5. CASE CreateVersion(w)
    BY <2>5 DEF CreateVersion
  <2>6. CASE EnqueuePlaybookUpdated(w)
    BY <2>6 DEF EnqueuePlaybookUpdated
  <2>7. CASE MarkPromoted(w)
    BY <2>7 DEF MarkPromoted
  <2>8. CASE CheckPromoted(w)
    BY <2>8 DEF CheckPromoted
  <2> QED BY <1>2, <2>1, <2>2, <2>3, <2>4, <2>5, <2>6, <2>7, <2>8 DEF HandlerStep
<1> USE DEF auxVars, proposalVars, playbookVars, workerVars
<1>3. ASSUME NEW w \in Workers, Crash(w) \/ CallFails(w)
      PROVE  PlaceInv' /\ Announced'
  BY <1>3 DEF Crash, CallFails, Goto
<1>4. ASSUME NEW w \in Workers, NEW k \in Kinds, Receive(w, k)
      PROVE  PlaceInv' /\ Announced'
  BY <1>4 DEF Receive
<1>5. CASE ApproveAndEnqueue \/ MarkRolledBack \/ ClaimExpires
  BY <1>5 DEF ApproveAndEnqueue, MarkRolledBack, ClaimExpires
<1>6. ASSUME NEW k \in Kinds, AckWaitExpires(k) PROVE PlaceInv' /\ Announced'
  BY <1>6 DEF AckWaitExpires
<1> QED BY <1>1, <1>2, <1>3, <1>4, <1>5, <1>6 DEF Next

\* Tokens are fresh, and the status of a claimed proposal is not touched.
LEMMA TokenStep ==
    ASSUME TypeOK, TokenInv, [Next]_vars
    PROVE  TokenInv'
<1> USE DEF TokenInv, TypeOK
<1>1. CASE UNCHANGED vars
  BY <1>1 DEF vars, auxVars, proposalVars, playbookVars, workerVars
<1>2. ASSUME NEW w \in Workers, HandlerStep(w) PROVE TokenInv'
  <2> USE DEF auxVars, proposalVars, playbookVars, Goto
  <2>1. CASE PersistProposal(w) \/ LoadApproved(w) \/ Evaluate(w) \/ SelectForEvaluation(w)
    BY <2>1 DEF PersistProposal, LoadApproved, Evaluate, SelectForEvaluation
  <2>2. CASE RecordEvaluation(w)
    BY <2>2 DEF RecordEvaluation
  <2>3. CASE ClaimPromotion(w)
    <3>1. CASE /\ status = "approved" /\ issued' = issued + 1 /\ claim' = issued + 1
               /\ token' = [token EXCEPT ![w] = issued + 1]
      <4>1. \A u, v \in Workers : token'[v] > 0 /\ token'[v] = token'[u] => v = u
        BY <3>1
      <4>2. claim' > 0 /\ status' = "approved"
        BY <2>3, <3>1 DEF ClaimPromotion
      <4> QED BY <4>1, <4>2
    <3>2. CASE UNCHANGED <<issued, claim, claimLive, token>>
      BY <2>3, <3>2 DEF ClaimPromotion
    <3> QED BY <2>3, <3>1, <3>2 DEF ClaimPromotion
  <2>4. CASE ListVersions(w) \/ CreateVersion(w) \/ EnqueuePlaybookUpdated(w)
    BY <2>4 DEF ListVersions, CreateVersion, EnqueuePlaybookUpdated
  <2>5. CASE MarkPromoted(w)
    BY <2>5 DEF MarkPromoted
  <2>6. CASE CheckPromoted(w) \/ Ack(w)
    BY <2>6 DEF CheckPromoted, Ack
  <2> QED BY <1>2, <2>1, <2>2, <2>3, <2>4, <2>5, <2>6 DEF HandlerStep
<1> USE DEF auxVars, proposalVars, playbookVars, workerVars
<1>3. ASSUME NEW w \in Workers, Crash(w) \/ CallFails(w) PROVE TokenInv'
  BY <1>3 DEF Crash, CallFails
<1>4. ASSUME NEW w \in Workers, NEW k \in Kinds, Receive(w, k) PROVE TokenInv'
  BY <1>4 DEF Receive
<1>5. CASE ApproveAndEnqueue
  BY <1>5 DEF ApproveAndEnqueue
<1>6. CASE MarkRolledBack \/ ClaimExpires
  <2>1. UNCHANGED token
    BY <1>6 DEF MarkRolledBack, ClaimExpires
  <2>2. ~claimLive'
    <3>1. CASE MarkRolledBack
      BY <3>1 DEF MarkRolledBack
    <3>2. CASE ClaimExpires
      BY <3>2 DEF ClaimExpires
    <3> QED BY <1>6, <3>1, <3>2
  <2> QED BY <2>1, <2>2
<1>7. ASSUME NEW k \in Kinds, AckWaitExpires(k) PROVE TokenInv'
  BY <1>7 DEF AckWaitExpires
<1> QED BY <1>1, <1>2, <1>3, <1>4, <1>5, <1>6, <1>7 DEF Next

-----------------------------------------------------------------------------
\* A bound on a sum stays one when it grows and the sum does not.
LEMMA BoundKept ==
    \A v, x, y, n, m \in Nat : v + x <= 1 + n /\ y <= x /\ n <= m => v + y <= 1 + m
  OBVIOUS

\* A step that makes no handler a maker and lets no claim run out.
LEMMA MakersKept ==
    ASSUME TypeOK, TypeOK', MakersInv, versions' = versions, overruns <= overruns',
           Makers' \subseteq Makers, Stale' \subseteq Stale
    PROVE  MakersInv'
<1>1. /\ Makers \in SUBSET Workers /\ Makers' \in SUBSET Workers
      /\ Stale \in SUBSET Workers /\ Stale' \in SUBSET Workers
  BY DEF Makers, Stale
<1> DEFINE a == Cardinality(Makers)
           b == Cardinality(Makers')
           c == Cardinality(Stale)
           d == Cardinality(Stale')
<1>2. a \in Nat /\ b \in Nat /\ b <= a /\ c \in Nat /\ d \in Nat /\ d <= c
  BY <1>1, Counting
<1>3. (versions = 0 => c <= overruns) /\ (versions > 0 => versions + a <= 1 + overruns)
  BY DEF MakersInv
<1>4. versions \in Nat /\ overruns \in Nat /\ overruns' \in Nat
  BY PromotionAssumption DEF TypeOK
<1> HIDE DEF a, b, c, d
<1>5. versions' = 0 => d <= overruns'
  BY <1>2, <1>3, <1>4
<1>6. ASSUME versions' > 0 PROVE versions' + b <= 1 + overruns'
  <2>1. versions + a <= 1 + overruns
    BY <1>3, <1>4, <1>6
  <2> QED BY <1>2, <1>4, <2>1, BoundKept, Zenon
<1> QED BY <1>5, <1>6 DEF MakersInv, b, d

\* A handler takes a claim: nobody else has one that still counts.
LEMMA ClaimMakers ==
    ASSUME IInv, TypeOK', NEW w \in Workers, ClaimPromotion(w)
    PROVE  MakersInv'
<1> USE DEF IInv
<1>1. pc[w] = "claim" /\ UNCHANGED <<versions, overruns>>
  BY DEF ClaimPromotion, playbookVars, auxVars
<1>2. overruns \in Nat /\ versions \in Nat
  BY PromotionAssumption DEF TypeOK
<1>3. CASE UNCHANGED <<issued, claim, claimLive, token>> /\ Goto(w, "ack")
  <2>1. Makers' \subseteq Makers /\ Stale' \subseteq Stale
    BY <1>1, <1>3 DEF Makers, Stale, Goto, TypeOK
  <2> QED BY <1>1, <1>2, <2>1, MakersKept
<1>4. CASE /\ Unclaimed /\ claim' = issued + 1 /\ claimLive' = TRUE
           /\ token' = [token EXCEPT ![w] = issued + 1] /\ Goto(w, "list")
  <2>1. ~claimLive
    BY <1>4 DEF Unclaimed, TokenInv
  <2>2. /\ claimLive' /\ token'[w] = claim' /\ pc'[w] = "list"
        /\ \A v \in Workers \ {w} : pc'[v] = pc[v]
    BY <1>4 DEF TypeOK, Goto
  <2>3. versions = 0 => Stale' \subseteq Stale
    BY <1>1, <2>1, <2>2 DEF Stale, Makers
  <2>4. versions > 0 => Makers' \subseteq Makers
    BY <1>1, <1>2, <2>2 DEF Makers
  <2>5. versions = 0 => Cardinality(Stale') <= Cardinality(Stale)
    BY <2>3, Counting, Members DEF Stale, Makers
  <2>6. versions > 0 => Cardinality(Makers') <= Cardinality(Makers)
    BY <2>4, Counting, Members DEF Makers
  <2>7. Stale' \in SUBSET Workers /\ Makers' \in SUBSET Workers
    BY DEF Stale, Makers
  <2>8. /\ Cardinality(Stale) \in Nat /\ Cardinality(Stale') \in Nat
        /\ Cardinality(Makers) \in Nat /\ Cardinality(Makers') \in Nat
    BY <2>7, Counting, Members
  <2> QED BY <1>1, <1>2, <2>5, <2>6, <2>8 DEF MakersInv
<1> QED BY <1>3, <1>4 DEF ClaimPromotion

\* A handler creates a version, whatever has become of its claim.
LEMMA CreateMakers ==
    ASSUME IInv, TypeOK', NEW w \in Workers, CreateVersion(w)
    PROVE  MakersInv'
<1> USE DEF IInv
<1>1. /\ pc[w] = "create" /\ pc'[w] = "publish" /\ versions' = versions + 1
      /\ \A v \in Workers \ {w} : pc'[v] = pc[v]
      /\ UNCHANGED <<overruns, claim, claimLive, token>>
  BY DEF CreateVersion, playbookVars, auxVars, proposalVars, Goto, TypeOK
<1>2. overruns \in Nat /\ versions \in Nat
  BY PromotionAssumption DEF TypeOK
<1>3. Makers' \subseteq Makers \ {w} /\ w \in Makers
  BY <1>1, <1>2 DEF Makers
<1>4. Makers' \in SUBSET Workers
  BY DEF Makers
<1> DEFINE a == Cardinality(Makers)
           b == Cardinality(Makers')
           c == Cardinality(Stale)
<1>5. a \in Nat /\ b \in Nat /\ c \in Nat /\ b + 1 <= a
  BY <1>3, <1>4, Counting, Members
<1>6. a <= c + 1
  <2>1. CASE \E v \in Makers : v \notin Stale
    <3>1. PICK v \in Makers : v \notin Stale
      BY <2>1
    <3>2. v \in Workers /\ claimLive /\ token[v] = claim /\ token[v] > 0
      BY <3>1 DEF Stale, Makers, TokenInv
    <3>3. \A u \in Makers : u \in Stale \/ u = v
      BY <3>2 DEF Stale, Makers, TokenInv
    <3>4. Makers \subseteq Stale \cup {v}
      BY <3>3
    <3> QED BY <3>2, <3>4, Counting, Members
  <2>2. CASE \A v \in Makers : v \in Stale
    <3>1. Makers \subseteq Stale
      BY <2>2
    <3>2. a <= c
      BY <3>1, Counting, Members
    <3> HIDE DEF a, c
    <3> QED BY <1>5, <3>2
  <2> QED BY <2>1, <2>2
<1>7. (versions = 0 => c <= overruns) /\ (versions > 0 => versions + a <= 1 + overruns)
  BY DEF MakersInv
<1> HIDE DEF a, b, c
<1>8. versions' > 0 /\ versions' # 0 /\ versions' + b <= 1 + overruns'
  BY <1>1, <1>2, <1>5, <1>6, <1>7
<1> QED BY <1>8 DEF MakersInv, b

\* The claim runs out; if its holder was to create a version, that is an overrun.
LEMMA ExpiryMakers ==
    ASSUME IInv, TypeOK', ClaimExpires
    PROVE  MakersInv'
<1> USE DEF IInv
<1>1. /\ claimLive /\ ~claimLive' /\ UNCHANGED <<versions, pc, token>>
      /\ overruns' = overruns + (faults' - faults)
  BY DEF ClaimExpires, playbookVars, workerVars
<1>2. /\ overruns \in Nat /\ versions \in Nat /\ faults \in Nat
      /\ faults' \in {faults, faults + 1}
  BY PromotionAssumption DEF TypeOK, ClaimExpires, Overrun
<1>3. Makers' = Makers
  BY <1>1 DEF Makers
<1>4. Stale' \in SUBSET Workers
  BY DEF Stale, Makers
<1>5. CASE \E v \in Makers : v \notin Stale
  <2>1. PICK v \in Makers : v \notin Stale
    BY <1>5
  <2>2. v \in Workers /\ token[v] = claim /\ token[v] > 0 /\ pc[v] # "idle"
    BY <1>1, <2>1 DEF Stale, Makers, TokenInv
  <2>3. faults' = faults + 1
    BY <2>2 DEF ClaimExpires, Overrun
  <2>4. \A u \in Makers : u \in Stale \/ u = v
    BY <1>1, <2>2 DEF Stale, Makers, TokenInv
  <2>5. Stale' \subseteq Stale \cup {v}
    BY <1>3, <2>4 DEF Stale
  <2> DEFINE a == Cardinality(Makers)
             c == Cardinality(Stale)
             d == Cardinality(Stale')
  <2>6. a \in Nat /\ c \in Nat /\ d \in Nat /\ d <= c + 1
    BY <1>4, <2>2, <2>5, Counting, Members
  <2>7. (versions = 0 => c <= overruns) /\ (versions > 0 => versions + a <= 1 + overruns)
    BY DEF MakersInv
  <2> HIDE DEF a, c, d
  <2>8. (versions' = 0 => d <= overruns') /\ (versions' > 0 => versions' + a <= 1 + overruns')
    BY <1>1, <1>2, <2>3, <2>6, <2>7
  <2> QED BY <1>3, <2>8 DEF MakersInv, a, d
<1>6. CASE \A v \in Makers : v \in Stale
  <2>1. Makers' \subseteq Makers /\ Stale' \subseteq Stale
    BY <1>3, <1>6 DEF Stale
  <2>2. overruns <= overruns'
    <3>1. CASE faults' = faults
      BY <1>1, <1>2, <3>1
    <3>2. CASE faults' = faults + 1
      BY <1>1, <1>2, <3>2
    <3> QED BY <1>2, <3>1, <3>2
  <2> QED BY <1>1, <2>1, <2>2, MakersKept
<1> QED BY <1>5, <1>6

\* The counts of makers survive every step.
LEMMA MakersStep ==
    ASSUME IInv, TypeOK', [Next]_vars
    PROVE  MakersInv'
<1> USE DEF IInv
<1>1. overruns \in Nat /\ versions \in Nat
  BY PromotionAssumption DEF TypeOK
<1> DEFINE Same == UNCHANGED <<versions, overruns, claim, claimLive, token>>
           Elsewhere(w) ==
              \E s \in Steps \ {"list", "create"} : pc' = [pc EXCEPT ![w] = s]
<1>2. ASSUME NEW w \in Workers, Same, Elsewhere(w) PROVE MakersInv'
  <2>1. /\ pc'[w] \notin {"list", "create"} /\ \A v \in Workers \ {w} : pc'[v] = pc[v]
    BY <1>2 DEF TypeOK
  <2>2. Makers' \subseteq Makers
    BY <1>2, <2>1 DEF Makers
  <2>3. Stale' \subseteq Stale
    BY <1>2, <2>2 DEF Stale
  <2> QED BY <1>1, <1>2, <2>2, <2>3, MakersKept
<1>3. ASSUME Same, UNCHANGED pc PROVE MakersInv'
  <2>1. Makers' \subseteq Makers /\ Stale' \subseteq Stale
    BY <1>3 DEF Makers, Stale
  <2> QED BY <1>1, <1>3, <2>1, MakersKept
<1>4. ASSUME ~claimLive, ~claimLive', UNCHANGED <<versions, overruns, token>>,
             UNCHANGED pc \/ \E w \in Workers : Elsewhere(w)
      PROVE  MakersInv'
  <2>1. Makers' \subseteq Makers
    BY <1>4 DEF Makers, TypeOK
  <2>2. Stale' \subseteq Stale
    BY <1>4, <2>1 DEF Stale
  <2> QED BY <1>1, <1>4, <2>1, <2>2, MakersKept
<1>5. CASE UNCHANGED vars
  BY <1>3, <1>5 DEF vars, auxVars, proposalVars, playbookVars, workerVars
<1>6. ASSUME NEW w \in Workers, HandlerStep(w) PROVE MakersInv'
  <2> USE DEF auxVars, proposalVars, playbookVars, Goto, Steps
  <2>1. CASE PersistProposal(w) \/ LoadApproved(w) \/ Evaluate(w) \/ SelectForEvaluation(w)
    <3>1. Same
      BY <2>1 DEF PersistProposal, LoadApproved, Evaluate, SelectForEvaluation
    <3>2. Elsewhere(w)
      BY <2>1 DEF PersistProposal, LoadApproved, Evaluate, SelectForEvaluation
    <3> QED BY <1>2, <3>1, <3>2
  <2>2. CASE RecordEvaluation(w)
    <3>1. Elsewhere(w) /\ UNCHANGED <<versions, overruns, token>>
      BY <2>2 DEF RecordEvaluation
    <3>2. CASE Unclaimed /\ claimLive' = FALSE
      <4>1. ~claimLive
        BY <3>2 DEF Unclaimed, TokenInv
      <4>2. ~claimLive'
        BY <3>2
      <4> QED BY <1>4, <3>1, <4>1, <4>2
    <3>3. CASE UNCHANGED <<claim, claimLive>>
      BY <1>2, <3>1, <3>3
    <3> QED BY <2>2, <3>2, <3>3 DEF RecordEvaluation
  <2>3. CASE ClaimPromotion(w)
    BY <2>3, ClaimMakers
  <2>4. CASE ListVersions(w)
    <3>1. Same
      BY <2>4 DEF ListVersions
    <3>2. CASE versions = 0
      <4>1. /\ pc[w] = "list" /\ pc'[w] = "create"
            /\ \A v \in Workers \ {w} : pc'[v] = pc[v]
        BY <2>4, <3>2 DEF ListVersions, FoundVersion, TypeOK
      <4>2. Makers' \subseteq Makers
        BY <3>1, <3>2, <4>1 DEF Makers
      <4>3. Stale' \subseteq Stale
        BY <3>1, <4>2 DEF Stale
      <4> QED BY <1>1, <3>1, <4>2, <4>3, MakersKept
    <3>3. CASE versions # 0
      <4>1. Elsewhere(w)
        BY <2>4, <3>3 DEF ListVersions, FoundVersion
      <4> QED BY <1>2, <3>1, <4>1
    <3> QED BY <3>2, <3>3
  <2>5. CASE CreateVersion(w)
    BY <2>5, CreateMakers
  <2>6. CASE EnqueuePlaybookUpdated(w) \/ CheckPromoted(w) \/ Ack(w)
    <3>1. Same
      BY <2>6 DEF EnqueuePlaybookUpdated, CheckPromoted, Ack
    <3>2. Elsewhere(w)
      BY <2>6 DEF EnqueuePlaybookUpdated, CheckPromoted, Ack
    <3> QED BY <1>2, <3>1, <3>2
  <2>7. CASE MarkPromoted(w)
    <3>1. /\ Elsewhere(w) /\ UNCHANGED <<versions, overruns, token>> /\ pc[w] = "mark"
      BY <2>7 DEF MarkPromoted
    <3>2. CASE HoldsClaim(w) /\ claimLive' = FALSE
      <4>1. \A v \in Workers : claimLive /\ token[v] = claim => v = w
        BY <3>2 DEF HoldsClaim, TokenInv
      <4>2. Makers' \subseteq Makers
        BY <3>1 DEF Makers, TypeOK
      <4>3. w \notin Makers
        BY <3>1 DEF Makers
      <4>4. Stale' \subseteq Stale
        BY <4>1, <4>2, <4>3 DEF Stale, Makers
      <4> QED BY <1>1, <3>1, <4>2, <4>4, MakersKept
    <3>3. CASE UNCHANGED <<claim, claimLive>>
      BY <1>2, <3>1, <3>3
    <3> QED BY <2>7, <3>2, <3>3 DEF MarkPromoted
  <2> QED BY <1>6, <2>1, <2>2, <2>3, <2>4, <2>5, <2>6, <2>7 DEF HandlerStep
<1>7. ASSUME NEW w \in Workers, Crash(w) \/ CallFails(w) PROVE MakersInv'
  <2>1. Same /\ Elsewhere(w)
    BY <1>7 DEF Crash, CallFails, Goto, Steps, auxVars, proposalVars, playbookVars
  <2> QED BY <1>2, <2>1
<1>8. ASSUME NEW w \in Workers, NEW k \in Kinds, Receive(w, k) PROVE MakersInv'
  <2>1. Same
    BY <1>8 DEF Receive, auxVars, proposalVars, playbookVars
  <2>2. Elsewhere(w)
    BY <1>8 DEF Receive, Steps
  <2> QED BY <1>2, <2>1, <2>2
<1>9. CASE ApproveAndEnqueue
  <2>1. ~claimLive
    BY <1>9 DEF ApproveAndEnqueue, TokenInv
  <2>2. ~claimLive' /\ UNCHANGED <<versions, overruns, token, pc>>
    BY <1>9 DEF ApproveAndEnqueue, auxVars, playbookVars, workerVars
  <2> QED BY <1>4, <2>1, <2>2
<1>10. CASE MarkRolledBack
  BY <1>3, <1>10 DEF MarkRolledBack, auxVars, playbookVars, workerVars
<1>11. ASSUME NEW k \in Kinds, AckWaitExpires(k) PROVE MakersInv'
  BY <1>3, <1>11 DEF AckWaitExpires, auxVars, proposalVars, playbookVars, workerVars
<1>12. CASE ClaimExpires
  BY <1>12, ExpiryMakers
<1> QED BY <1>5, <1>6, <1>7, <1>8, <1>9, <1>10, <1>11, <1>12 DEF Next

-----------------------------------------------------------------------------
\* The invariant holds in every state of every behaviour.
THEOREM Invariance == Spec => []IInv
<1>1. Init => IInv
  <2> SUFFICES ASSUME Init PROVE IInv
    OBVIOUS
  <2>1. TypeOK
    <3>1. needsApproval \in BOOLEAN /\ humanApproved \in BOOLEAN /\ claimLive \in BOOLEAN
      BY Zenon DEF Init
    <3>2. /\ msg \in [Kinds -> {"none", "ready", "pending", "acked"}]
          /\ pc \in [Workers -> Steps] /\ job \in [Workers -> Kinds]
          /\ decision \in [Workers -> Decisions] /\ seen \in [Workers -> Statuses]
      BY DEF Init, Kinds, Statuses, Decisions, Steps
    <3>3. /\ token \in [Workers -> 0..issued] /\ version \in [Workers -> 0..versions]
          /\ claim \in 0..issued /\ promotedRef \in 0..versions /\ updated \in 0..versions
          /\ versions \in Nat /\ issued \in Nat /\ overruns \in 0..faults
      BY DEF Init
    <3>4. status \in Statuses /\ faults \in 0..MaxFaults
      BY PromotionAssumption DEF Init, Statuses
    <3> QED BY <3>1, <3>2, <3>3, <3>4 DEF TypeOK
  <2>2. AllowedInv /\ PlaceInv /\ TokenInv /\ Announced
    BY DEF Init, AllowedInv, PlaceInv, TokenInv, Announced
  <2>3. Stale = {}
    BY DEF Init, Stale, Makers
  <2>4. versions = 0 /\ overruns = 0 /\ Cardinality(Stale) = 0
    BY <2>3, FS_EmptySet DEF Init
  <2>5. MakersInv
    BY <2>4 DEF MakersInv
  <2> QED BY <2>1, <2>2, <2>5 DEF IInv
<1>2. IInv /\ [Next]_vars => IInv'
  <2> SUFFICES ASSUME IInv, [Next]_vars PROVE IInv'
    OBVIOUS
  <2>1. TypeOK'
    BY TypeStep DEF IInv
  <2>2. AllowedInv' /\ PlaceInv' /\ TokenInv' /\ Announced'
    BY AllowedStep, PlaceStep, TokenStep DEF IInv
  <2>3. MakersInv'
    BY <2>1, MakersStep
  <2> QED BY <2>1, <2>2, <2>3 DEF IInv
<1> QED BY <1>1, <1>2, PTL DEF Spec

\* The variables keep their types.
THEOREM TypeCorrect == Spec => []TypeOK
<1>1. IInv => TypeOK
  BY DEF IInv
<1> QED BY <1>1, Invariance, PTL

\* A change that needs the founder's approval reaches the playbook only with it.
THEOREM NoUnapprovedVersion == Spec => []VersionNeedsApproval
<1>1. IInv => VersionNeedsApproval
  BY DEF IInv, AllowedInv, Allowed, VersionNeedsApproval
<1> QED BY <1>1, Invariance, PTL

\* There is one version, and one more for each claim that ran out under its holder.
LEMMA VersionBound ==
    ASSUME IInv
    PROVE  ExtraVersionsNeedOverruns
<1>1. overruns \in Nat /\ versions \in Nat
  BY PromotionAssumption DEF IInv, TypeOK
<1> DEFINE a == Cardinality(Makers)
<1>2. a \in Nat
  BY Counting, Members
<1>3. versions > 0 => versions + a <= 1 + overruns
  BY DEF IInv, MakersInv
<1> HIDE DEF a
<1>4. CASE versions > 0
  BY <1>1, <1>2, <1>3, <1>4 DEF ExtraVersionsNeedOverruns
<1>5. CASE versions = 0
  BY <1>1, <1>5 DEF ExtraVersionsNeedOverruns
<1> QED BY <1>1, <1>4, <1>5

\* The version a promoted proposal names is the one whose update is in the outbox, unless a
\* claim ran out under its holder: both are among the versions that were created, and
\* without such an overrun there is one.
THEOREM PublishedBeforePromoted == Spec => []PromotedIsPublished
<1>1. IInv => PromotedIsPublished
  <2> SUFFICES ASSUME IInv, status \in {"promoted", "rolled_back"}
               PROVE  /\ promotedRef > 0 /\ updated > 0
                      /\ promotedRef = updated \/ overruns > 0
    BY DEF PromotedIsPublished
  <2>1. promotedRef > 0 /\ updated > 0
    BY DEF IInv, Announced
  <2>2. /\ promotedRef \in 0..versions /\ updated \in 0..versions
        /\ versions \in Nat /\ overruns \in Nat
    BY PromotionAssumption DEF IInv, TypeOK
  <2>3. versions <= 1 + overruns
    BY VersionBound DEF ExtraVersionsNeedOverruns
  <2>4. CASE overruns = 0
    <3>1. promotedRef = 1 /\ updated = 1
      BY <2>1, <2>2, <2>3, <2>4
    <3> QED BY <2>1, <3>1
  <2> QED BY <2>1, <2>2, <2>4
<1> QED BY <1>1, Invariance, PTL

\* Each playbook version of a critique after the first takes a claim that ran out under
\* its holder: crashes, failed calls and redeliveries, however many, add none.
THEOREM OneVersionUnlessOverrun == Spec => []ExtraVersionsNeedOverruns
<1>1. IInv => ExtraVersionsNeedOverruns
  BY VersionBound
<1> QED BY <1>1, Invariance, PTL
=============================================================================
