-------------------------- MODULE LearningPromotion --------------------------
(***************************************************************************)
(* The life of one learning proposal: a critique that asks for a revision  *)
(* becomes a proposal, is evaluated against the evidence of its            *)
(* experiment, is approved by the founder when its risk requires it, and   *)
(* is promoted to a new playbook version                                   *)
(* (apps/worker-learning/src/learning-worker.ts, with the proposal and     *)
(* playbook repositories of packages/db).                                  *)
(*                                                                         *)
(* Two messages drive it: the critique, and the approval that the API      *)
(* enqueues.  Each is delivered at least once by the loop of               *)
(* DurableConsumer, of which only the redelivery is kept here: a message   *)
(* is acked when its handler returns and comes back when it throws, dies   *)
(* or overruns the ack wait.  Every awaited call of a handler is one step. *)
(***************************************************************************)
EXTENDS Integers, FiniteSets

CONSTANTS
    Workers,    \* the handlers that can run at the same time
    MaxFaults   \* crashes, failed calls and overrun deadlines allowed

ASSUME PromotionAssumption == MaxFaults \in Nat /\ IsFiniteSet(Workers)

VARIABLES
    needsApproval,  \* the policy asks for approval of the risk of the proposal
    status,         \* learning_proposals.status, "absent" before the row exists
    humanApproved,  \* human_approved_at is set
    claim,          \* promotion_claim_token, 0 for NULL
    claimLive,      \* promotion_claim_expires_at lies in the future
    promotedRef,    \* promoted_version_ref, 0 for NULL
    versions,       \* playbook versions created_by this critique: 1..versions
    updated,        \* the version named by the playbook.updated row, 0 if none
    issued,         \* claim tokens handed out so far
    overruns        \* claims that ran out under a holder at work, for the properties

VARIABLES
    msg,       \* of the critique and the approval: none, ready, pending or acked
    pc,        \* where a handler is
    job,       \* the message it handles
    decision,  \* what evaluateLearningProposal decided
    seen,      \* the status that recordEvaluation selected
    token,     \* the claim token it was given
    version,   \* the version it found or created
    faults     \* faults spent so far, at most MaxFaults

auxVars == <<needsApproval, overruns>>
proposalVars == <<status, humanApproved, claim, claimLive, promotedRef>>
playbookVars == <<versions, updated>>
workerVars == <<pc, job, decision, seen, token, version>>
vars == <<auxVars, proposalVars, playbookVars, issued, msg, workerVars, faults>>

Kinds == {"critique", "approval"}
Statuses == {"absent", "awaiting_evidence", "requires_approval", "approved",
             "promoted", "rejected", "rolled_back"}
Decisions == {"continue_experiment", "reject", "requires_approval", "promote"}
Steps == {"idle", "persist", "load", "evaluate", "select", "update", "claim",
          "list", "create", "publish", "mark", "check", "ack"}

\* The proposal's row, the playbook's versions and the handlers' steps.
TypeOK ==
    /\ needsApproval \in BOOLEAN
    /\ status \in Statuses
    /\ humanApproved \in BOOLEAN
    /\ claim \in 0..issued
    /\ claimLive \in BOOLEAN
    /\ versions \in Nat
    /\ promotedRef \in 0..versions
    /\ updated \in 0..versions
    /\ issued \in Nat
    /\ overruns \in 0..faults
    /\ msg \in [Kinds -> {"none", "ready", "pending", "acked"}]
    /\ pc \in [Workers -> Steps]
    /\ job \in [Workers -> Kinds]
    /\ decision \in [Workers -> Decisions]
    /\ seen \in [Workers -> Statuses]
    /\ token \in [Workers -> 0..issued]
    /\ version \in [Workers -> 0..versions]
    /\ faults \in 0..MaxFaults

Init ==
    /\ needsApproval \in BOOLEAN
    /\ status = "absent"
    /\ humanApproved = FALSE
    /\ claim = 0 /\ claimLive = FALSE
    /\ promotedRef = 0
    /\ versions = 0 /\ updated = 0
    /\ issued = 0 /\ overruns = 0
    /\ msg = [k \in Kinds |-> IF k = "critique" THEN "ready" ELSE "none"]
    /\ pc = [w \in Workers |-> "idle"]
    /\ job = [w \in Workers |-> "critique"]
    /\ decision = [w \in Workers |-> "reject"]
    /\ seen = [w \in Workers |-> "absent"]
    /\ token = [w \in Workers |-> 0]
    /\ version = [w \in Workers |-> 0]
    /\ faults = 0

-----------------------------------------------------------------------------
(* Messages *)

Receive(w, k) ==
    /\ pc[w] = "idle" /\ msg[k] = "ready"
    /\ msg' = [msg EXCEPT ![k] = "pending"]
    /\ job' = [job EXCEPT ![w] = k]
    /\ pc' = [pc EXCEPT ![w] = IF k = "critique" THEN "persist" ELSE "load"]
    /\ UNCHANGED <<auxVars, proposalVars, playbookVars, issued, decision,
                   seen, token, version, faults>>

Goto(w, step) == pc' = [pc EXCEPT ![w] = step]

\* The handler returned.
Ack(w) ==
    /\ pc[w] = "ack"
    /\ msg' = [msg EXCEPT ![job[w]] = "acked"]
    /\ Goto(w, "idle")
    /\ UNCHANGED <<auxVars, proposalVars, playbookVars, issued, job,
                   decision, seen, token, version, faults>>

\* The handler threw: nak, unless the message was settled by another delivery.
Requeue(k) == msg' = [msg EXCEPT ![k] = IF @ = "pending" THEN "ready" ELSE @]

-----------------------------------------------------------------------------
(* The handlers: processFromCritique and processApprovedProposal *)

\* persistProposal, ON CONFLICT DO NOTHING, and the enqueue of the change.proposed
\* event, which nothing here waits for.
PersistProposal(w) ==
    /\ pc[w] = "persist"
    /\ status' = IF status = "absent" THEN "awaiting_evidence" ELSE status
    /\ Goto(w, "evaluate")
    /\ UNCHANGED <<auxVars, humanApproved, claim, claimLive, promotedRef,
                   playbookVars, issued, msg, job, decision, seen, token, version,
                   faults>>

\* An approval whose proposal is not approved any more is dropped.
LoadApproved(w) ==
    /\ pc[w] = "load"
    /\ Goto(w, IF status = "approved" THEN "evaluate" ELSE "ack")
    /\ UNCHANGED <<auxVars, proposalVars, playbookVars, issued, msg, job,
                   decision, seen, token, version, faults>>

\* Mutant: the risk is not looked at.
GateUngoverned(evidence) ==
    CASE evidence = "breached" -> "reject"
      [] evidence = "thin"     -> "continue_experiment"
      [] evidence = "passed"   -> "promote"

\* evaluateLearningProposal.  The evidence is what the experiment shows at this
\* moment, and it moves: a guardrail or the lift fails it, it is too thin, or it
\* passes.
Gate(evidence) ==
    CASE evidence = "breached" -> "reject"
      [] evidence = "thin"     -> "continue_experiment"
      [] evidence = "passed"   ->
            IF needsApproval /\ ~humanApproved THEN "requires_approval" ELSE "promote"

\* getEvaluation and the gate.  Without an experiment or without observations there
\* is no evaluation and the handler returns; observations are only ever added, so a
\* proposal that was evaluated can be evaluated again.
Evaluate(w) ==
    /\ pc[w] = "evaluate"
    /\ \/ /\ status = "awaiting_evidence"
          /\ Goto(w, "ack")
          /\ UNCHANGED decision
       \/ \E evidence \in {"breached", "thin", "passed"} :
             /\ decision' = [decision EXCEPT ![w] = Gate(evidence)]
             /\ Goto(w, "select")
    /\ UNCHANGED <<auxVars, proposalVars, playbookVars, issued, msg, job,
                   seen, token, version, faults>>

proposalStatusForDecision ==
    [continue_experiment |-> "awaiting_evidence",
     reject              |-> "rejected",
     requires_approval   |-> "requires_approval",
     promote             |-> "approved"]

Unclaimed == claim = 0 \/ ~claimLive

\* The statuses a decision may replace, while no promoter holds a live claim.
Recordable ==
    /\ status \in {"awaiting_evidence", "requires_approval", "approved"}
    /\ Unclaimed

\* recordEvaluation, first half: the row is read.
SelectForEvaluation(w) ==
    /\ pc[w] = "select"
    /\ seen' = [seen EXCEPT ![w] = status]
    /\ Goto(w, IF Recordable THEN "update" ELSE "ack")
    /\ UNCHANGED <<auxVars, proposalVars, playbookVars, issued, msg, job,
                   decision, token, version, faults>>

\* recordEvaluation, second half: a compare-and-set on the status that was read.  Only
\* a decision to promote goes on; a lost race returns null and the handler returns.
RecordEvaluation(w) ==
    /\ pc[w] = "update"
    /\ \/ /\ status = seen[w] /\ Unclaimed
          /\ status' = proposalStatusForDecision[decision[w]]
          /\ claim' = 0 /\ claimLive' = FALSE
          /\ Goto(w, IF decision[w] = "promote" THEN "claim" ELSE "ack")
       \/ /\ ~(status = seen[w] /\ Unclaimed)
          /\ Goto(w, "ack")
          /\ UNCHANGED <<status, claim, claimLive>>
    /\ UNCHANGED <<auxVars, humanApproved, promotedRef, playbookVars, issued,
                   msg, job, decision, seen, token, version, faults>>

ClaimPromotion(w) ==
    /\ pc[w] = "claim"
    /\ \/ /\ status = "approved" /\ Unclaimed
          /\ issued' = issued + 1
          /\ claim' = issued + 1 /\ claimLive' = TRUE
          /\ token' = [token EXCEPT ![w] = issued + 1]
          /\ Goto(w, "list")
       \/ /\ ~(status = "approved" /\ Unclaimed)
          /\ Goto(w, "ack")
          /\ UNCHANGED <<issued, claim, claimLive, token>>
    /\ UNCHANGED <<auxVars, status, humanApproved, promotedRef, playbookVars,
                   msg, job, decision, seen, version, faults>>

\* Mutant: versions left by an earlier claimant are not looked for.
FoundVersionNever == 0

\* The newest version created by this critique, 0 if there is none.
FoundVersion == versions

ListVersions(w) ==
    /\ pc[w] = "list"
    /\ version' = [version EXCEPT ![w] = FoundVersion]
    /\ Goto(w, IF FoundVersion = 0 THEN "create" ELSE "publish")
    /\ UNCHANGED <<auxVars, proposalVars, playbookVars, issued, msg, job,
                   decision, seen, token, faults>>

\* PlaybookVersionsRepository.create does not look at created_by.
CreateVersion(w) ==
    /\ pc[w] = "create"
    /\ versions' = versions + 1
    /\ version' = [version EXCEPT ![w] = versions + 1]
    /\ Goto(w, "publish")
    /\ UNCHANGED <<auxVars, proposalVars, updated, issued, msg, job, decision,
                   seen, token, faults>>

\* One outbox row per critique: the first version to be announced stays announced.
EnqueuePlaybookUpdated(w) ==
    /\ pc[w] = "publish"
    /\ updated' = IF updated = 0 THEN version[w] ELSE updated
    /\ Goto(w, "mark")
    /\ UNCHANGED <<auxVars, proposalVars, versions, issued, msg, job, decision,
                   seen, token, version, faults>>

HoldsClaim(w) == status = "approved" /\ claim = token[w] /\ claimLive

MarkPromoted(w) ==
    /\ pc[w] = "mark"
    /\ \/ /\ HoldsClaim(w)
          /\ status' = "promoted"
          /\ promotedRef' = version[w]
          /\ claim' = 0 /\ claimLive' = FALSE
          /\ Goto(w, "ack")
       \/ /\ ~HoldsClaim(w)
          /\ Goto(w, "check")
          /\ UNCHANGED <<status, promotedRef, claim, claimLive>>
    /\ UNCHANGED <<auxVars, humanApproved, playbookVars, issued, msg, job,
                   decision, seen, token, version, faults>>

\* The promotion was not marked: fine if another delivery marked the same version,
\* and an error otherwise.
CheckPromoted(w) ==
    /\ pc[w] = "check"
    /\ \/ /\ status = "promoted" /\ promotedRef = version[w]
          /\ Goto(w, "ack")
          /\ UNCHANGED msg
       \/ /\ ~(status = "promoted" /\ promotedRef = version[w])
          /\ Goto(w, "idle")
          /\ Requeue(job[w])
    /\ UNCHANGED <<auxVars, proposalVars, playbookVars, issued, job, decision,
                   seen, token, version, faults>>

-----------------------------------------------------------------------------
(* The founder *)

\* Mutant: the event is left out.
ApproveOnly ==
    /\ status = "requires_approval"
    /\ status' = "approved"
    /\ humanApproved' = TRUE
    /\ claim' = 0 /\ claimLive' = FALSE
    /\ UNCHANGED <<auxVars, promotedRef, playbookVars, issued, msg, workerVars, faults>>

\* approveAndEnqueue: the status, the approval and the event in one transaction.  The
\* event's key is the proposal, so a second event conflicts and is not written.
ApproveAndEnqueue ==
    /\ status = "requires_approval"
    /\ status' = "approved"
    /\ humanApproved' = TRUE
    /\ claim' = 0 /\ claimLive' = FALSE
    /\ msg' = [msg EXCEPT !["approval"] = IF @ = "none" THEN "ready" ELSE @]
    /\ UNCHANGED <<auxVars, promotedRef, playbookVars, issued, workerVars,
                   faults>>

MarkRolledBack ==
    /\ status = "promoted"
    /\ status' = "rolled_back"
    /\ UNCHANGED <<auxVars, humanApproved, claim, claimLive, promotedRef,
                   playbookVars, issued, msg, workerVars, faults>>

-----------------------------------------------------------------------------
(* Faults and time *)

\* The process dies: nobody acks the message.
Crash(w) ==
    /\ pc[w] # "idle"
    /\ faults < MaxFaults
    /\ faults' = faults + 1
    /\ Goto(w, "idle")
    /\ UNCHANGED <<auxVars, proposalVars, playbookVars, issued, msg, job,
                   decision, seen, token, version>>

\* A call throws: the message is nak'ed.
CallFails(w) ==
    /\ pc[w] \notin {"idle", "ack"}
    /\ faults < MaxFaults
    /\ faults' = faults + 1
    /\ Goto(w, "idle")
    /\ Requeue(job[w])
    /\ UNCHANGED <<auxVars, proposalVars, playbookVars, issued, job, decision,
                   seen, token, version>>

\* A deadline passes by itself, but under a handler at work only if that handler is
\* slow, which counts as a fault.
Overrun(active) ==
    IF active THEN faults < MaxFaults /\ faults' = faults + 1 ELSE UNCHANGED faults

AckWaitExpires(k) ==
    /\ msg[k] = "pending"
    /\ msg' = [msg EXCEPT ![k] = "ready"]
    /\ Overrun(\E w \in Workers : pc[w] # "idle" /\ job[w] = k)
    /\ UNCHANGED <<auxVars, proposalVars, playbookVars, issued, workerVars>>

ClaimExpires ==
    /\ claimLive
    /\ claimLive' = FALSE
    /\ Overrun(\E w \in Workers : pc[w] # "idle" /\ token[w] = claim)
    /\ overruns' = overruns + (faults' - faults)
    /\ UNCHANGED <<needsApproval, status, humanApproved, claim, promotedRef,
                   playbookVars, issued, msg, workerVars>>

-----------------------------------------------------------------------------
HandlerStep(w) ==
    \/ PersistProposal(w)
    \/ LoadApproved(w)
    \/ Evaluate(w)
    \/ SelectForEvaluation(w)
    \/ RecordEvaluation(w)
    \/ ClaimPromotion(w)
    \/ ListVersions(w)
    \/ CreateVersion(w)
    \/ EnqueuePlaybookUpdated(w)
    \/ MarkPromoted(w)
    \/ CheckPromoted(w)
    \/ Ack(w)

Next ==
    \/ \E w \in Workers : HandlerStep(w) \/ Crash(w) \/ CallFails(w)
    \/ \E w \in Workers, k \in Kinds : Receive(w, k)
    \/ ApproveAndEnqueue
    \/ MarkRolledBack
    \/ \E k \in Kinds : AckWaitExpires(k)
    \/ ClaimExpires

Spec == Init /\ [][Next]_vars

\* Handlers run on, the server delivers what is ready, and deadlines pass.
Fairness ==
    /\ \A w \in Workers : WF_vars(HandlerStep(w))
    /\ \A k \in Kinds : /\ WF_vars(\E w \in Workers : Receive(w, k))
                        /\ WF_vars(AckWaitExpires(k))
    /\ WF_vars(ClaimExpires)

FairSpec == Spec /\ Fairness

-----------------------------------------------------------------------------
(* Properties *)

\* A change whose risk asks for it reaches the playbook only with the founder's
\* approval, however deliveries of the critique and of the approval interleave.
VersionNeedsApproval == versions > 0 /\ needsApproval => humanApproved

\* The version a promoted proposal names is the one whose update is already in the
\* outbox (learning-worker.ts:568-571), whichever of the claimants created it, announced
\* it and marked the proposal. The exception is a claim that has run out under its holder:
\* two versions may then exist, the row of the one announced first keeps the key, and the
\* other one is promoted without an update of its own.
PromotedIsPublished ==
    status \in {"promoted", "rolled_back"} =>
        promotedRef > 0 /\ updated > 0 /\ (promotedRef = updated \/ overruns > 0)

\* Only a claim that runs out under its holder lets a second version be created:
\* crashes, failed calls and redeliveries reconcile to the first.
ExtraVersionsNeedOverruns == versions <= 1 + overruns

\* As long as nothing fails, an approval leads somewhere: the proposal is promoted or
\* newly gathered evidence sends it back.
ApprovedIsDecided ==
    [](faults = 0) => (status = "approved" ~> status # "approved")

\* adaptive-control-plane-repository.ts:644-647, on claimPromotion: "a process crash
\* never leaves promotion stuck".
PromotionNotStuck == status = "approved" ~> status # "approved"

=============================================================================
