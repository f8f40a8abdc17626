-------------------------- MODULE TenantResources --------------------------
(***************************************************************************)
(* What direct provisioning does outside the database: the orchestrator    *)
(* (packages/core/src/tenant-provisioning.ts) and the clients it drives    *)
(* (provisioning-http-clients.ts, packages/identity, packages/billing),    *)
(* then the tenant's secrets (tenant-secrets-service.ts).                  *)
(* WorkflowProvisioning models the request, the workflow row and the       *)
(* events; it takes this run as one step that succeeds or throws.          *)
(*                                                                         *)
(* A run takes one step for every remote call it awaits. Runs of one       *)
(* tenant overlap when a request is redelivered while the first handler    *)
(* still works, and follow each other after a crash or a new request. The  *)
(* remote systems are external: they are modelled by the answers the       *)
(* clients distinguish.                                                    *)
(***************************************************************************)
EXTENDS Naturals, FiniteSets

CONSTANTS
    Runs,           \* calls of the orchestrator
    TenantOf,       \* the tenant a run is for
    NameOf,         \* the name of a tenant; names need not differ
    SecretKeys,     \* well-known secrets with a value in the environment
    Environments,   \* sets of clients started as real ones
    MaxRunFaults,   \* bound on failed calls, lost answers and crashes
    MaxEdits        \* bound on the founder's edits

Clients == {"zitadel", "gitea", "minio", "lago", "vault"}

ASSUME ResourcesAssumption ==
    /\ TenantOf \in [Runs -> DOMAIN NameOf]
    /\ Environments \subseteq SUBSET Clients
    /\ {MaxRunFaults, MaxEdits} \subseteq Nat

VARIABLES
    real,      \* the clients that are not stubs
    cloud,     \* the remote systems
    step,      \* the call a run awaits, or how it ended
    sha,       \* the revision of FOUNDER.md a run has read; 0: null
    writing,   \* secrets a run has sent and not heard of
    runFaults, edits,
    blame      \* what a run has met that may make it fail (history)

resourceVars == <<real, cloud, step, sha, writing, runFaults, edits, blame>>

Tenants == DOMAIN NameOf

(* Zitadel names an organisation after the tenant's name; the other        *)
(* systems use the tenant's id.                                            *)
OrgName(t) == NameOf[t]

Ended == {"done", "failed", "crashed"}
Running(r) == step[r] \notin Ended \cup {"idle"}

(* The client that makes the call a run awaits. *)
ClientOf(s) ==
    CASE s \in {"createOrg", "findOrg", "createAccount", "findAccount"} -> "zitadel"
      [] s \in {"getRepo", "generate", "getRepoAgain", "getSha", "putFile"} -> "gitea"
      [] s \in {"headBucket", "createBucket"} -> "minio"
      [] s \in {"createCustomer", "assignPlan"} -> "lago"
      [] OTHER -> "vault"

(* The call that follows when a call, or the method it is part of, is      *)
(* done. The Paperclip and NATS clients are always stubs and change        *)
(* nothing.                                                                *)
Following ==
    [createOrg |-> "createAccount", findOrg |-> "createAccount",
     createAccount |-> "getRepo", findAccount |-> "getRepo",
     getRepo |-> "headBucket", generate |-> "headBucket", getRepoAgain |-> "headBucket",
     headBucket |-> "createCustomer", createBucket |-> "createCustomer",
     createCustomer |-> "assignPlan", assignPlan |-> "getSha",
     getSha |-> "putFile", putFile |-> "secrets"]

ResourcesTypeOK ==
    /\ real \in Environments
    /\ cloud \in [orgs : SUBSET {OrgName(t) : t \in Tenants},
                  accounts : SUBSET {OrgName(t) : t \in Tenants},
                  repos : SUBSET Tenants, buckets : SUBSET Tenants,
                  customers : SUBSET Tenants, plans : SUBSET Tenants,
                  doc : [Tenants -> [rev : Nat, by : {"nobody", "template", "founder"}]],
                  secrets : SUBSET (Tenants \X SecretKeys)]
    /\ step \in [Runs -> DOMAIN Following \cup Ended \cup {"idle", "secrets"}]
    /\ sha \in [Runs -> Nat]
    /\ writing \in [Runs -> SUBSET SecretKeys]
    /\ runFaults \in 0..MaxRunFaults /\ edits \in 0..MaxEdits
    /\ blame \in [Runs -> SUBSET {"fault", "overlap", "edit"}]

ResourcesInit ==
    /\ real \in Environments
    /\ cloud = [orgs |-> {}, accounts |-> {}, repos |-> {}, buckets |-> {},
                customers |-> {}, plans |-> {}, secrets |-> {},
                doc |-> [t \in Tenants |-> [rev |-> 0, by |-> "nobody"]]]
    /\ step = [r \in Runs |-> "idle"]
    /\ sha = [r \in Runs |-> 0]
    /\ writing = [r \in Runs |-> {}]
    /\ runFaults = 0 /\ edits = 0
    /\ blame = [r \in Runs |-> {}]

-----------------------------------------------------------------------------
(* The remote systems. Each operator is what a call leaves behind when it  *)
(* is carried out; a refused call leaves the system as it was.             *)

(* A file is created with no sha and replaced with the sha of what is      *)
(* there.                                                                  *)
Accepts(r) ==
    LET t == TenantOf[r] IN
    CASE step[r] = "createOrg" -> OrgName(t) \notin cloud.orgs
      [] step[r] = "createAccount" -> OrgName(t) \notin cloud.accounts
      [] step[r] = "generate" -> t \notin cloud.repos
      [] step[r] = "createBucket" -> t \notin cloud.buckets
      [] step[r] = "putFile" -> t \in cloud.repos /\ cloud.doc[t].rev = sha[r]
      [] OTHER -> TRUE

Effect(r) ==
    LET t == TenantOf[r]
        n == OrgName(t) IN
    IF ~Accepts(r) THEN cloud ELSE
    CASE step[r] = "createOrg" -> [cloud EXCEPT !.orgs = @ \cup {n}]
      [] step[r] = "createAccount" -> [cloud EXCEPT !.accounts = @ \cup {n}]
      [] step[r] = "generate" -> [cloud EXCEPT !.repos = @ \cup {t}]
      [] step[r] = "createBucket" -> [cloud EXCEPT !.buckets = @ \cup {t}]
      [] step[r] = "createCustomer" -> [cloud EXCEPT !.customers = @ \cup {t}]
      [] step[r] = "assignPlan" -> [cloud EXCEPT !.plans = @ \cup {t}]
      [] step[r] = "putFile" ->
            [cloud EXCEPT !.doc[t] = [rev |-> @.rev + 1, by |-> "template"]]
      [] OTHER -> cloud

-----------------------------------------------------------------------------
(* The orchestrator. *)

(* A handler starts a run. Runs of the same tenant at the same time get in *)
(* each other's way.                                                       *)
Run(r) ==
    LET others == {q \in Runs \ {r} : Running(q) /\ TenantOf[q] = TenantOf[r]} IN
    /\ step[r] = "idle"
    /\ step' = [step EXCEPT ![r] = "createOrg"]
    /\ blame' = [q \in Runs |->
                    IF q \in others \/ (q = r /\ others # {})
                    THEN blame[q] \cup {"overlap"} ELSE blame[q]]
    /\ UNCHANGED <<real, cloud, sha, writing, runFaults, edits>>

(* After the seven steps the worker writes the secrets, all at once. With  *)
(* no Vault they go to the environment of the process.                     *)
SecretsToWrite(s) == IF s = "secrets" /\ "vault" \in real THEN SecretKeys ELSE {}

Goes(r, s) ==
    /\ step' = [step EXCEPT ![r] =
                    IF s = "secrets" /\ SecretsToWrite(s) = {} THEN "done" ELSE s]
    /\ writing' = [writing EXCEPT ![r] = @ \cup SecretsToWrite(s)]

Proceed(r) == Goes(r, Following[step[r]])

Throw(r, why) ==
    /\ step' = [step EXCEPT ![r] = "failed"]
    /\ blame' = [blame EXCEPT ![r] = @ \cup why]
    /\ UNCHANGED writing

SpendFault ==
    /\ runFaults < MaxRunFaults
    /\ runFaults' = runFaults + 1

(* A stub answers as if it had done the call and does nothing. *)
StubAnswers(r) ==
    /\ step[r] \in DOMAIN Following /\ ClientOf(step[r]) \notin real
    /\ Proceed(r)
    /\ UNCHANGED <<real, cloud, sha, runFaults, edits, blame>>

Awaits(r, s) == step[r] = s /\ ClientOf(s) \in real

(* A call that answers in time; next says what the client does then. *)
Answered(r, s) ==
    /\ Awaits(r, s)
    /\ cloud' = Effect(r)
    /\ UNCHANGED <<real, sha, runFaults, edits>>

(* A conflict means the organisation exists: it is looked up by its name.  *)
CreateOrg(r) ==
    /\ Answered(r, "createOrg")
    /\ Goes(r, IF Accepts(r) THEN "createAccount" ELSE "findOrg")
    /\ UNCHANGED blame

FindOrgByName(r) ==
    /\ Answered(r, "findOrg")
    /\ IF OrgName(TenantOf[r]) \in cloud.orgs
       THEN Proceed(r) /\ UNCHANGED blame
       ELSE Throw(r, {})

CreateServiceAccount(r) ==
    /\ Answered(r, "createAccount")
    /\ Goes(r, IF Accepts(r) THEN "getRepo" ELSE "findAccount")
    /\ UNCHANGED blame

FindServiceAccount(r) ==
    /\ Answered(r, "findAccount")
    /\ IF OrgName(TenantOf[r]) \in cloud.accounts
       THEN Proceed(r) /\ UNCHANGED blame
       ELSE Throw(r, {})

(* null for a repository that is not there, and for any error status.      *)
GetRepoUrl(r, s, found, missing) ==
    /\ Awaits(r, s)
    /\ \/ TenantOf[r] \in cloud.repos /\ found /\ UNCHANGED runFaults
       \/ TenantOf[r] \notin cloud.repos /\ missing /\ UNCHANGED runFaults
       \/ SpendFault /\ missing
    /\ UNCHANGED <<real, cloud, sha, edits>>

ProvisionWorkspaceRepo(r) ==
    GetRepoUrl(r, "getRepo", Proceed(r) /\ UNCHANGED blame,
                             Goes(r, "generate") /\ UNCHANGED blame)

Generate(r) ==
    /\ Answered(r, "generate")
    /\ Goes(r, IF Accepts(r) THEN "headBucket" ELSE "getRepoAgain")
    /\ UNCHANGED blame

(* After a conflict: a null now is an error. *)
GenerateConflict(r) ==
    GetRepoUrl(r, "getRepoAgain", Proceed(r) /\ UNCHANGED blame, Throw(r, {"fault"}))

(* Mutant: any error of HeadBucket is taken for a bucket that exists.      *)
BucketExistsOnError(r, found, missing) ==
    \/ TenantOf[r] \in cloud.buckets /\ found
    \/ TenantOf[r] \notin cloud.buckets /\ (missing \/ found)

(* FALSE only for a bucket that is known to be missing; any other error is *)
(* thrown (CallThrows).                                                    *)
BucketExists(r, found, missing) ==
    \/ TenantOf[r] \in cloud.buckets /\ found
    \/ TenantOf[r] \notin cloud.buckets /\ missing

ProvisionBucket(r) ==
    /\ Answered(r, "headBucket")
    /\ BucketExists(r, Proceed(r), Goes(r, "createBucket"))
    /\ UNCHANGED blame

(* Creating a bucket that exists by now is an error. *)
CreateBucket(r) ==
    /\ Answered(r, "createBucket")
    /\ IF Accepts(r) THEN Proceed(r) /\ UNCHANGED blame ELSE Throw(r, {})

(* Lago upserts by external id. *)
CreateCustomer(r) == Answered(r, "createCustomer") /\ Proceed(r) /\ UNCHANGED blame
AssignPlan(r) == Answered(r, "assignPlan") /\ Proceed(r) /\ UNCHANGED blame

(* Mutant: the seeding always creates the file. *)
GetNoSha(r) ==
    /\ Awaits(r, "getSha")
    /\ sha' = [sha EXCEPT ![r] = 0]
    /\ Proceed(r)
    /\ UNCHANGED <<real, cloud, runFaults, edits, blame>>

(* null for a file that is not there, and for any error status.            *)
GetFileSha(r) ==
    /\ Awaits(r, "getSha")
    /\ \/ sha' = [sha EXCEPT ![r] = cloud.doc[TenantOf[r]].rev] /\ UNCHANGED <<runFaults, blame>>
       \/ /\ SpendFault
          /\ sha' = [sha EXCEPT ![r] = 0]
          /\ blame' = [blame EXCEPT ![r] = @ \cup {"fault"}]
    /\ Proceed(r)
    /\ UNCHANGED <<real, cloud, edits>>

CreateOrUpdateFile(r) ==
    /\ Answered(r, "putFile")
    /\ IF Accepts(r) THEN Proceed(r) /\ UNCHANGED blame ELSE Throw(r, {})

(* A call is refused, cannot be made or times out, and the client throws;  *)
(* it may have been carried out. The report of progress that precedes a    *)
(* step is an insert that can fail the same way.                           *)
CallThrows(r) ==
    /\ step[r] \in DOMAIN Following /\ ClientOf(step[r]) \in real
    /\ SpendFault
    /\ cloud' \in {cloud, Effect(r)}
    /\ Throw(r, {"fault"})
    /\ UNCHANGED <<real, sha, edits>>

-----------------------------------------------------------------------------
(* The secrets: the puts run in parallel, the run ends with the last one,  *)
(* or at the first that fails; the others go on.                           *)

PutSecret(r, k) ==
    /\ k \in writing[r]
    /\ cloud' = [cloud EXCEPT !.secrets = @ \cup {<<TenantOf[r], k>>}]
    /\ writing' = [writing EXCEPT ![r] = @ \ {k}]
    /\ step' = [step EXCEPT ![r] = IF @ = "secrets" /\ writing'[r] = {} THEN "done" ELSE @]
    /\ UNCHANGED <<real, sha, runFaults, edits, blame>>

PutFails(r, k) ==
    /\ k \in writing[r]
    /\ SpendFault
    /\ cloud' \in {cloud, [cloud EXCEPT !.secrets = @ \cup {<<TenantOf[r], k>>}]}
    /\ writing' = [writing EXCEPT ![r] = @ \ {k}]
    /\ step' = [step EXCEPT ![r] = IF @ = "secrets" THEN "failed" ELSE @]
    /\ blame' = [blame EXCEPT ![r] = @ \cup {"fault"}]
    /\ UNCHANGED <<real, sha, edits>>

-----------------------------------------------------------------------------
(* The worker dies, its last call carried out by then or never. *)
RunCrashes(r) ==
    /\ Running(r)
    /\ SpendFault
    /\ \E c \in {cloud} \cup {Effect(r) : x \in {ClientOf(step[r])} \cap real},
          C \in SUBSET writing[r] :
           cloud' = [c EXCEPT !.secrets = @ \cup {<<TenantOf[r], k>> : k \in C}]
    /\ step' = [step EXCEPT ![r] = "crashed"]
    /\ writing' = [writing EXCEPT ![r] = {}]
    /\ UNCHANGED <<real, sha, edits, blame>>

(* The founder fills in FOUNDER.md, as its template asks. *)
FounderEdits(t) ==
    /\ edits < MaxEdits
    /\ cloud.doc[t].rev > 0
    /\ cloud' = [cloud EXCEPT !.doc[t] = [rev |-> @.rev + 1, by |-> "founder"]]
    /\ edits' = edits + 1
    /\ blame' = [r \in Runs |->
                    IF TenantOf[r] = t /\ step[r] = "putFile"
                    THEN blame[r] \cup {"edit"} ELSE blame[r]]
    /\ UNCHANGED <<real, step, sha, writing, runFaults>>

RunStep(r) ==
    \/ Run(r) \/ StubAnswers(r)
    \/ CreateOrg(r) \/ FindOrgByName(r) \/ CreateServiceAccount(r) \/ FindServiceAccount(r)
    \/ ProvisionWorkspaceRepo(r) \/ Generate(r) \/ GenerateConflict(r)
    \/ ProvisionBucket(r) \/ CreateBucket(r)
    \/ CreateCustomer(r) \/ AssignPlan(r)
    \/ GetFileSha(r) \/ CreateOrUpdateFile(r)
    \/ CallThrows(r) \/ RunCrashes(r)
    \/ \E k \in SecretKeys : PutSecret(r, k) \/ PutFails(r, k)

ResourcesNext == (\E r \in Runs : RunStep(r)) \/ (\E t \in Tenants : FounderEdits(t))

-----------------------------------------------------------------------------
(* A run that completes leaves every resource of its tenant behind in each *)
(* system whose client is real, whatever was there before, whichever runs  *)
(* it met and whichever of their calls failed or were carried out unheard. *)
(* tenant-provisioning.ts run and every client it calls.                   *)
ProvisionedIsComplete ==
    \A r \in Runs :
        LET t == TenantOf[r] IN
        step[r] = "done" =>
            /\ "zitadel" \in real => OrgName(t) \in cloud.orgs \cap cloud.accounts
            /\ "gitea" \in real => t \in cloud.repos /\ cloud.doc[t].rev > 0
            /\ "minio" \in real => t \in cloud.buckets
            /\ "lago" \in real => t \in cloud.customers \cap cloud.plans
            /\ "vault" \in real => {t} \X SecretKeys \subseteq cloud.secrets

(* A run fails only when one of its own calls failed, another run of its   *)
(* tenant ran at the same time, or the founder edited FOUNDER.md between   *)
(* its read and its write. So a run may be repeated after a crash at any   *)
(* call, a failure or a success, once the calls of the earlier one are     *)
(* carried out or lost (tenant-provisioning.ts:19 "Each step is            *)
(* idempotent").                                                           *)
FailedRunHasCause == \A r \in Runs : step[r] = "failed" => blame[r] # {}
=============================================================================
