-------------------------- MODULE IntegrationsProofs ------------------------
(***************************************************************************)
(* The properties of Integrations, for any number of tenants, runs,        *)
(* requests, calls, issues and replicas and any bounds on the faults.  The *)
(* parts share no state, so each has an inductive invariant of its own.    *)
(***************************************************************************)
EXTENDS Integrations, FiniteSetTheorems, SequenceTheorems, TLAPS

-----------------------------------------------------------------------------
(* The resources of a tenant *)

\* The calls that follow when a resource is there, from the last one back.
AfterDoc == {"secrets", "done"}
AfterPlan == {"getSha", "putFile"} \cup AfterDoc
AfterCustomer == {"assignPlan"} \cup AfterPlan
AfterBucket == {"createCustomer"} \cup AfterCustomer
AfterRepo == {"headBucket", "createBucket"} \cup AfterBucket
AfterAccount == {"getRepo", "generate", "getRepoAgain"} \cup AfterRepo
AfterOrg == {"createAccount", "findAccount"} \cup AfterAccount

\* The resources that are in the remote systems c when a run gets to call s: those of
\* the calls behind it, and the organisation or account that it looks up.
Reached(r, s, c) ==
    LET t == TenantOf[r] IN
    /\ "zitadel" \in real =>
          /\ s \in {"findOrg"} \cup AfterOrg => OrgName(t) \in c.orgs
          /\ s \in {"findAccount"} \cup AfterAccount => OrgName(t) \in c.accounts
    /\ "gitea" \in real =>
          /\ s \in AfterRepo => t \in c.repos
          /\ s \in AfterDoc => c.doc[t].rev > 0
    /\ "minio" \in real /\ s \in AfterBucket => t \in c.buckets
    /\ "lago" \in real =>
          /\ s \in AfterCustomer => t \in c.customers
          /\ s \in AfterPlan => t \in c.plans

\* The secrets that are written and need no more waiting for.
WrittenInv(r) ==
    "vault" \in real =>
        /\ step[r] = "secrets" =>
              \A k \in SecretKeys \ writing[r] : <<TenantOf[r], k>> \in cloud.secrets
        /\ step[r] = "done" => \A k \in SecretKeys : <<TenantOf[r], k>> \in cloud.secrets

BehindInv(r) == Reached(r, step[r], cloud) /\ WrittenInv(r)

\* What has changed under a run since it looked is on record: a bucket it found missing,
\* the revision it has read.
LookedInv(r) ==
    LET t == TenantOf[r] IN
    /\ step[r] = "createBucket" /\ t \in cloud.buckets => blame[r] # {}
    /\ "gitea" \in real /\ step[r] = "putFile" /\ blame[r] = {} => sha[r] = cloud.doc[t].rev
    /\ step[r] = "failed" => blame[r] # {}

\* Runs of a tenant that are under way at the same time know of each other.
OverlapInv ==
    \A q, r \in Runs :
        q # r /\ TenantOf[q] = TenantOf[r] /\ Running(q) /\ Running(r) =>
            blame[q] # {} /\ blame[r] # {}

ResourcesInv ==
    /\ ResourcesTypeOK
    /\ \A r \in Runs : BehindInv(r) /\ LookedInv(r)
    /\ OverlapInv

-----------------------------------------------------------------------------
(* Secrets *)

\* Where a request holds a token.
Holding == {"renew", "renewAnswer", "loginAnswer", "sent"}

\* Ticks that a message of a request has been under way for.
Age(c) == IF caller[c].age THEN 1 ELSE 0

\* A token was revoked, or a lease was too short to outlast two messages.
Excused == mishaps \cap {"revoked", "short"} # {}

\* The cache believes in a token for at most a tick longer than Vault honours it.
CacheLife ==
    cache.token \in Tokens => cache.left <= life[cache.token] + 1 /\ ~Short(cache.lease)

\* An answer on its way is as old as its message, and a token that is used has time left
\* for the message to arrive.
CallerLife(c) ==
    /\ caller[c].at \in {"renewAnswer", "loginAnswer"} =>
          life[caller[c].token] + Age(c) >= caller[c].lease /\ ~Short(caller[c].lease)
    /\ caller[c].at = "sent" => life[caller[c].token] + Age(c) >= 2

\* A request that has just stored an answer finds a fresh token, unless a failed renewal
\* has emptied the cache.
CallerInv(c) ==
    /\ caller[c].at \in Holding => caller[c].token \in Tokens
    /\ caller[c].at \in {"renewed", "loggedIn"} =>
          IF cache.token \in Tokens THEN cache.left = cache.lease ELSE mishaps # {}
    /\ caller[c].at = "threw" => mishaps # {}

VaultInv ==
    /\ VaultTypeOK
    /\ cache.token \notin Tokens => cache.left = 0
    /\ \A c \in Callers : CallerInv(c)
    /\ Excused \/ (CacheLife /\ \A c \in Callers : CallerLife(c))

-----------------------------------------------------------------------------
(* The log of model calls *)

Once(s) == \A i, j \in 1..Len(s) : s[i] = s[j] => i = j

\* The rows are each in one place, once.
RowsInv ==
    /\ Once(buffer) /\ Once(table) /\ \A b \in batches : Once(b)
    /\ ToSet(buffer) \cap ToSet(table) = {}
    /\ \A b \in batches : /\ ToSet(b) \cap ToSet(buffer) = {}
                          /\ ToSet(b) \cap ToSet(table) = {}
                          /\ \A d \in batches : ToSet(b) \cap ToSet(d) # {} => b = d

Held(c) == c \in ToSet(buffer) \/ c \in ToSet(table) \/ \E b \in batches : c \in ToSet(b)

\* They are the rows of the calls that returned, less those dropped.
HeldInv ==
    /\ \A c \in LlmCalls :
          Held(c) <=> sink /\ call[c].at = "returned" /\ c \notin dropped
    /\ \A c \in dropped : call[c].at = "returned"

\* A call that sleeps has a retry left.
RetryInv == \A c \in LlmCalls : call[c].at = "sleeping" => call[c].attempt < Retries

LogInv == LogTypeOK /\ RowsInv /\ HeldInv /\ RetryInv

-----------------------------------------------------------------------------
(* Work from Paperclip *)

\* The replicas that have claimed i and are not through with it.
Claimants(i) == {w \in Replicas : poll[w].at \in {"dispatch", "requeue"} /\ i \in poll[w].doing}
RowsOf(i) == {r \in rows : r.issue = i}

\* An issue that a replica takes from the list of company c: one of that company, or one
\* that the list held without saying whose it is.
MayTake(c, i) == issue[i].company \in Companies /\ (issue[i].company = c \/ i \in unmarked)

\* A replica works on one issue that it may take for the company it polls, the rows are of
\* issues of their tenant, and an issue that exists has a company.
PollOK(p) ==
    /\ p.left # {} => p.company \in Companies
    /\ p.bare \subseteq unmarked
    /\ p.at = "list" => p.doing = {}
    /\ p.at # "list" => /\ \E i \in Issues : p.doing = {i}
                        /\ p.company \in Companies /\ p.run > 0
                        /\ \A i \in p.doing : MayTake(p.company, i)
    /\ \A i \in p.left : issue[i].company \in Companies

RowOK(r) ==
    /\ issue[r.issue].company \in Companies
    /\ r.tenant = CompanyTenant[issue[r.issue].company] \/ r.issue \in unmarked

PollInv ==
    /\ \A w \in Replicas : PollOK(poll[w])
    /\ \A r \in rows : RowOK(r)
    /\ \A i \in unmarked : issue[i].company \in Companies
    /\ \A i \in Issues : IF issue[i].status = "absent" THEN issue[i] = Absent
                         ELSE issue[i].company \in Companies

\* An issue can be claimed once, and again after a move or a fault: each claim becomes a
\* row or is still in hand.
Spent(i) == IF issue[i].status \in RunnableStatuses THEN 0 ELSE 1

ClaimsInv ==
    /\ IsFiniteSet(rows)
    /\ \A i \in Issues :
          Cardinality(RowsOf(i)) + Cardinality(Claimants(i)) <=
              moves + beatFaults + Spent(i)

\* Before the first fault a claimed issue has its row, or its claimant still has it, if the
\* answer to its checkout parses.
KeptInv ==
    beatFaults = 0 =>
        \A i \in Issues \ Unnamed : issue[i].status = "in_progress" /\ issue[i].run # 0 =>
            \/ \E r \in rows : r.run = issue[i].run
            \/ \E w \in Claimants(i) : poll[w].run = issue[i].run

\* A bootstrap hires for a company that is there.
BootInv ==
    \A b \in Bootstraps :
        boot[b].at \in {"hire", "issue"} => boot[b].company \in Companies

BeatInv == BeatTypeOK /\ BootInv /\ PollInv /\ ClaimsInv /\ KeptInv

IInv == part \in Parts /\ ResourcesInv /\ VaultInv /\ LogInv /\ BeatInv

-----------------------------------------------------------------------------
(* Proofs: the resources of a tenant *)

Clouds ==
    [orgs : SUBSET {OrgName(t) : t \in Tenants}, accounts : SUBSET {OrgName(t) : t \in Tenants},
     repos : SUBSET Tenants, buckets : SUBSET Tenants,
     customers : SUBSET Tenants, plans : SUBSET Tenants,
     doc : [Tenants -> [rev : Nat, by : {"nobody", "template", "founder"}]],
     secrets : SUBSET (Tenants \X SecretKeys)]

\* Nothing is ever taken away from the remote systems.
Grown(c, d) ==
    /\ c.orgs \subseteq d.orgs /\ c.accounts \subseteq d.accounts
    /\ c.repos \subseteq d.repos /\ c.buckets \subseteq d.buckets
    /\ c.customers \subseteq d.customers /\ c.plans \subseteq d.plans
    /\ c.secrets \subseteq d.secrets
    /\ \A t \in Tenants : c.doc[t].rev <= d.doc[t].rev

\* What a run can do to the buckets and documents that other runs have looked at.
Touched(r, c, d) ==
    \A t \in Tenants :
        (t = TenantOf[r] /\ Running(r))
        \/ (d.doc[t] = c.doc[t] /\ (t \in d.buckets => t \in c.buckets))

\* Where the calls lead.
LEMMA FollowingCalls ==
    /\ DOMAIN Following =
          {"createOrg", "findOrg", "createAccount", "findAccount", "getRepo", "generate",
           "getRepoAgain", "headBucket", "createBucket", "createCustomer", "assignPlan",
           "getSha", "putFile"}
    /\ Following["createOrg"] = "createAccount" /\ Following["findOrg"] = "createAccount"
    /\ Following["createAccount"] = "getRepo" /\ Following["findAccount"] = "getRepo"
    /\ Following["getRepo"] = "headBucket" /\ Following["generate"] = "headBucket"
    /\ Following["getRepoAgain"] = "headBucket" /\ Following["headBucket"] = "createCustomer"
    /\ Following["createBucket"] = "createCustomer"
    /\ Following["createCustomer"] = "assignPlan" /\ Following["assignPlan"] = "getSha"
    /\ Following["getSha"] = "putFile" /\ Following["putFile"] = "secrets"
  BY DEF Following

\* A call that is carried out, or refused.
LEMMA EffectGrows ==
    ASSUME ResourcesTypeOK, NEW r \in Runs, NEW c, c = Effect(r), step[r] \in DOMAIN Following
    PROVE  /\ c \in Clouds /\ Grown(cloud, c) /\ Touched(r, cloud, c)
           /\ step[r] = "createOrg" => OrgName(TenantOf[r]) \in c.orgs
           /\ step[r] = "createAccount" => OrgName(TenantOf[r]) \in c.accounts
           /\ step[r] = "generate" => TenantOf[r] \in c.repos
           /\ step[r] = "createBucket" => TenantOf[r] \in c.buckets
           /\ step[r] = "createCustomer" => TenantOf[r] \in c.customers
           /\ step[r] = "assignPlan" => TenantOf[r] \in c.plans
           /\ step[r] = "putFile" /\ Accepts(r) => c.doc[TenantOf[r]].rev > 0
<1> DEFINE t == TenantOf[r]
           n == OrgName(t)
<1>1. t \in Tenants /\ n \in {OrgName(k) : k \in Tenants} /\ cloud \in Clouds
  BY ResourcesAssumption DEF Tenants, ResourcesTypeOK, Clouds
<1>2. Running(r)
  BY FollowingCalls DEF Running, Ended
<1> HIDE DEF t, n
<1>3. \A k \in Tenants : cloud.doc[k].rev \in Nat
  BY <1>1 DEF Clouds
<1>4. CASE ~Accepts(r)
  <2>1. c = cloud
    BY <1>4 DEF Effect
  <2>2. Grown(cloud, c) /\ Touched(r, cloud, c)
    BY <1>3, <2>1 DEF Grown, Touched
  <2> QED BY <1>1, <1>4, <2>1, <2>2 DEF Accepts
<1>5. CASE Accepts(r) /\ step[r] = "createOrg"
  <2>1. c = [cloud EXCEPT !.orgs = @ \cup {n}]
    BY <1>5 DEF Effect, t, n
  <2>2. c \in Clouds
    BY <1>1, <2>1 DEF Clouds
  <2>3. /\ c.orgs = cloud.orgs \cup {n} /\ c.secrets = cloud.secrets
        /\ c.accounts = cloud.accounts /\ c.repos = cloud.repos /\ c.buckets = cloud.buckets
        /\ c.customers = cloud.customers /\ c.plans = cloud.plans /\ c.doc = cloud.doc
    BY <1>1, <2>1 DEF Clouds
  <2>4. Grown(cloud, c) /\ Touched(r, cloud, c)
    BY <1>3, <2>3 DEF Grown, Touched
  <2> QED BY <1>5, <2>2, <2>3, <2>4 DEF t, n
<1>6. CASE Accepts(r) /\ step[r] = "createAccount"
  <2>1. c = [cloud EXCEPT !.accounts = @ \cup {n}]
    BY <1>6 DEF Effect, t, n
  <2>2. c \in Clouds
    BY <1>1, <2>1 DEF Clouds
  <2>3. /\ c.accounts = cloud.accounts \cup {n} /\ c.secrets = cloud.secrets
        /\ c.orgs = cloud.orgs /\ c.repos = cloud.repos /\ c.buckets = cloud.buckets
        /\ c.customers = cloud.customers /\ c.plans = cloud.plans /\ c.doc = cloud.doc
    BY <1>1, <2>1 DEF Clouds
  <2>4. Grown(cloud, c) /\ Touched(r, cloud, c)
    BY <1>3, <2>3 DEF Grown, Touched
  <2> QED BY <1>6, <2>2, <2>3, <2>4 DEF t, n
<1>7. CASE Accepts(r) /\ step[r] = "generate"
  <2>1. c = [cloud EXCEPT !.repos = @ \cup {t}]
    BY <1>7 DEF Effect, t
  <2>2. c \in Clouds
    BY <1>1, <2>1 DEF Clouds
  <2>3. /\ c.repos = cloud.repos \cup {t} /\ c.secrets = cloud.secrets
        /\ c.orgs = cloud.orgs /\ c.accounts = cloud.accounts /\ c.buckets = cloud.buckets
        /\ c.customers = cloud.customers /\ c.plans = cloud.plans /\ c.doc = cloud.doc
    BY <1>1, <2>1 DEF Clouds
  <2>4. Grown(cloud, c) /\ Touched(r, cloud, c)
    BY <1>3, <2>3 DEF Grown, Touched
  <2> QED BY <1>7, <2>2, <2>3, <2>4 DEF t
<1>8. CASE Accepts(r) /\ step[r] = "createBucket"
  <2>1. c = [cloud EXCEPT !.buckets = @ \cup {t}]
    BY <1>8 DEF Effect, t
  <2>2. c \in Clouds
    BY <1>1, <2>1 DEF Clouds
  <2>3. Touched(r, cloud, c)
    BY <1>1, <1>2, <2>1 DEF Clouds, Touched, t
  <2>4. /\ c.buckets = cloud.buckets \cup {t} /\ c.secrets = cloud.secrets
        /\ c.orgs = cloud.orgs /\ c.accounts = cloud.accounts /\ c.repos = cloud.repos
        /\ c.customers = cloud.customers /\ c.plans = cloud.plans /\ c.doc = cloud.doc
    BY <1>1, <2>1 DEF Clouds
  <2>5. Grown(cloud, c)
    BY <1>3, <2>4 DEF Grown
  <2> QED BY <1>8, <2>2, <2>3, <2>4, <2>5 DEF t
<1>9. CASE Accepts(r) /\ step[r] = "createCustomer"
  <2>1. c = [cloud EXCEPT !.customers = @ \cup {t}]
    BY <1>9 DEF Effect, t
  <2>2. c \in Clouds
    BY <1>1, <2>1 DEF Clouds
  <2>3. /\ c.customers = cloud.customers \cup {t} /\ c.secrets = cloud.secrets
        /\ c.orgs = cloud.orgs /\ c.accounts = cloud.accounts /\ c.repos = cloud.repos
        /\ c.buckets = cloud.buckets /\ c.plans = cloud.plans /\ c.doc = cloud.doc
    BY <1>1, <2>1 DEF Clouds
  <2>4. Grown(cloud, c) /\ Touched(r, cloud, c)
    BY <1>3, <2>3 DEF Grown, Touched
  <2> QED BY <1>9, <2>2, <2>3, <2>4 DEF t
<1>10. CASE Accepts(r) /\ step[r] = "assignPlan"
  <2>1. c = [cloud EXCEPT !.plans = @ \cup {t}]
    BY <1>10 DEF Effect, t
  <2>2. c \in Clouds
    BY <1>1, <2>1 DEF Clouds
  <2>3. /\ c.plans = cloud.plans \cup {t} /\ c.secrets = cloud.secrets
        /\ c.orgs = cloud.orgs /\ c.accounts = cloud.accounts /\ c.repos = cloud.repos
        /\ c.buckets = cloud.buckets /\ c.customers = cloud.customers /\ c.doc = cloud.doc
    BY <1>1, <2>1 DEF Clouds
  <2>4. Grown(cloud, c) /\ Touched(r, cloud, c)
    BY <1>3, <2>3 DEF Grown, Touched
  <2> QED BY <1>10, <2>2, <2>3, <2>4 DEF t
<1>11. CASE Accepts(r) /\ step[r] = "putFile"
  <2>1. c = [cloud EXCEPT !.doc[t] = [rev |-> @.rev + 1, by |-> "template"]]
    BY <1>11 DEF Effect, t
  <2>2. cloud.doc[t].rev + 1 \in Nat /\ cloud.doc[t].rev + 1 > 0
        /\ cloud.doc[t].rev <= cloud.doc[t].rev + 1
    BY <1>1, <1>3
  <2>3. c \in Clouds
    <3> DEFINE d == [cloud.doc EXCEPT ![t] = [rev |-> cloud.doc[t].rev + 1, by |-> "template"]]
    <3>1. d \in [Tenants -> [rev : Nat, by : {"nobody", "template", "founder"}]]
      BY <1>1, <2>2 DEF Clouds
    <3>2. c = [cloud EXCEPT !.doc = d]
      BY <1>1, <2>1 DEF Clouds
    <3> HIDE DEF d
    <3> QED BY <1>1, <3>1, <3>2 DEF Clouds
  <2>4. /\ c.doc[t].rev = cloud.doc[t].rev + 1
        /\ \A k \in Tenants \ {t} : c.doc[k] = cloud.doc[k]
    BY <1>1, <2>1 DEF Clouds
  <2>5. /\ c.orgs = cloud.orgs /\ c.accounts = cloud.accounts /\ c.repos = cloud.repos
        /\ c.buckets = cloud.buckets /\ c.customers = cloud.customers
        /\ c.plans = cloud.plans /\ c.secrets = cloud.secrets
    BY <1>1, <2>1 DEF Clouds
  <2>6. Grown(cloud, c)
    BY <1>3, <2>2, <2>4, <2>5 DEF Grown
  <2>7. Touched(r, cloud, c)
    BY <1>2, <2>4, <2>5 DEF Touched, t
  <2> QED BY <1>11, <2>2, <2>3, <2>4, <2>6, <2>7 DEF t
<1>12. CASE /\ Accepts(r)
            /\ step[r] \notin {"createOrg", "createAccount", "generate", "createBucket",
                               "createCustomer", "assignPlan", "putFile"}
  <2>1. c = cloud
    BY <1>12 DEF Effect
  <2>2. Grown(cloud, c) /\ Touched(r, cloud, c)
    BY <1>3, <2>1 DEF Grown, Touched
  <2> QED BY <1>1, <1>12, <2>1, <2>2
<1> QED BY <1>4, <1>5, <1>6, <1>7, <1>8, <1>9, <1>10, <1>11, <1>12

\* A run goes on to call s, or is done when no secret is to be written.
LEMMA GoesTo ==
    ASSUME ResourcesTypeOK, NEW r \in Runs, NEW s \in DOMAIN Following \cup {"secrets"},
           Goes(r, s)
    PROVE  /\ step' \in [Runs -> DOMAIN Following \cup Ended \cup {"idle", "secrets"}]
           /\ writing' \in [Runs -> SUBSET SecretKeys]
           /\ \A q \in Runs \ {r} : step'[q] = step[q] /\ writing'[q] = writing[q]
           /\ s # "secrets" => step'[r] = s
           /\ s = "secrets" =>
                 /\ step'[r] = "secrets" \/ step'[r] = "done"
                 /\ "vault" \in real => /\ SecretKeys \subseteq writing'[r]
                                        /\ step'[r] = "done" => SecretKeys = {}
<1> USE DEF ResourcesTypeOK
<1>1. SecretsToWrite(s) \in SUBSET SecretKeys
  BY DEF SecretsToWrite
<1>2. /\ writing' \in [Runs -> SUBSET SecretKeys]
      /\ \A q \in Runs \ {r} : writing'[q] = writing[q]
      /\ writing'[r] = writing[r] \cup SecretsToWrite(s)
  BY <1>1 DEF Goes
<1>3. /\ step' \in [Runs -> DOMAIN Following \cup Ended \cup {"idle", "secrets"}]
      /\ \A q \in Runs \ {r} : step'[q] = step[q]
      /\ step'[r] = IF s = "secrets" /\ SecretsToWrite(s) = {} THEN "done" ELSE s
  BY DEF Goes, Ended
<1>4. s = "secrets" /\ "vault" \in real => SecretsToWrite(s) = SecretKeys
  BY DEF SecretsToWrite
<1> QED BY <1>2, <1>3, <1>4

\* Nothing that a run has reached is lost.
LEMMA ReachedKept ==
    ASSUME NEW r \in Runs, NEW s, NEW c \in Clouds, NEW d \in Clouds, Grown(c, d),
           Reached(r, s, c)
    PROVE  Reached(r, s, d)
<1> DEFINE t == TenantOf[r]
<1>1. t \in Tenants
  BY ResourcesAssumption DEF Tenants
<1>2. /\ c.doc[t].rev \in Nat /\ d.doc[t].rev \in Nat /\ c.doc[t].rev <= d.doc[t].rev
  BY <1>1 DEF Grown, Clouds
<1>3. c.doc[t].rev > 0 => d.doc[t].rev > 0
  BY <1>2
<1> HIDE DEF t
<1> QED BY <1>3 DEF Reached, Grown, t

\* The runs that do not move, whatever another one does to the remote systems.
LEMMA OtherRunsKept ==
    ASSUME ResourcesInv, NEW r \in Runs, NEW q \in Runs, q # r,
           cloud' \in Clouds, Grown(cloud, cloud'), Touched(r, cloud, cloud'), real' = real,
           step'[q] = step[q], sha'[q] = sha[q], writing'[q] = writing[q],
           blame[q] \subseteq blame'[q]
    PROVE  BehindInv(q)' /\ LookedInv(q)'
<1> DEFINE t == TenantOf[q]
<1>1. t \in Tenants /\ OrgName(t)' = OrgName(t) /\ BehindInv(q) /\ LookedInv(q)
  BY ResourcesAssumption DEF Tenants, OrgName, ResourcesInv
<1>2. /\ cloud.doc[t].rev \in Nat /\ cloud'.doc[t].rev \in Nat
      /\ cloud.doc[t].rev <= cloud'.doc[t].rev
  BY <1>1 DEF Grown, Clouds, ResourcesInv, ResourcesTypeOK
<1>3. BehindInv(q)'
  <2>1. Reached(q, step[q], cloud')
    BY <1>1, ReachedKept DEF BehindInv, ResourcesInv, ResourcesTypeOK, Clouds
  <2>2. (Reached(q, step[q], cloud))' <=> Reached(q, step'[q], cloud')
    BY DEF Reached
  <2>3. WrittenInv(q)'
    BY <1>1 DEF BehindInv, WrittenInv, Grown
  <2> QED BY <2>1, <2>2, <2>3 DEF BehindInv
<1>4. \/ blame'[q] # {}
      \/ ~Running(q)
      \/ cloud'.doc[t] = cloud.doc[t] /\ (t \in cloud'.buckets => t \in cloud.buckets)
  <2>1. CASE t = TenantOf[r] /\ Running(r)
    BY <2>1 DEF ResourcesInv, OverlapInv
  <2>2. CASE ~(t = TenantOf[r] /\ Running(r))
    BY <1>1, <2>2 DEF Touched
  <2> QED BY <2>1, <2>2
<1>5. step[q] \in {"createBucket", "putFile"} => Running(q)
  BY DEF Running, Ended
<1>6. LookedInv(q)'
  BY <1>1, <1>4, <1>5 DEF LookedInv
<1> QED BY <1>3, <1>6

\* Runs that overlap have been told.
LEMMA OverlapKept ==
    ASSUME ResourcesInv, \A q \in Runs : blame[q] \subseteq blame'[q],
           \A q \in Runs : Running(q)' => Running(q)
    PROVE  OverlapInv'
  BY DEF ResourcesInv, OverlapInv

\* A run that goes on keeps the invariant if what the next call rests on is there, and if
\* what it has just looked at is as it saw it.
LEMMA Moved ==
    ASSUME ResourcesInv, NEW r \in Runs, step[r] \in DOMAIN Following,
           NEW s \in DOMAIN Following \cup {"secrets"}, Goes(r, s),
           cloud' \in Clouds, Grown(cloud, cloud'), Touched(r, cloud, cloud'),
           real' = real, edits' = edits, runFaults' \in 0..MaxRunFaults,
           sha' \in [Runs -> Nat], \A q \in Runs \ {r} : sha'[q] = sha[q],
           blame' \in [Runs -> SUBSET {"fault", "overlap", "edit"}],
           \A q \in Runs : blame[q] \subseteq blame'[q],
           Reached(r, s, cloud'),
           s = "createBucket" => TenantOf[r] \notin cloud'.buckets,
           s = "putFile" /\ "gitea" \in real /\ blame'[r] = {} =>
              sha'[r] = cloud'.doc[TenantOf[r]].rev
    PROVE  ResourcesInv'
<1> USE DEF ResourcesInv
<1>1. /\ step' \in [Runs -> DOMAIN Following \cup Ended \cup {"idle", "secrets"}]
      /\ writing' \in [Runs -> SUBSET SecretKeys]
      /\ \A q \in Runs \ {r} : step'[q] = step[q] /\ writing'[q] = writing[q]
      /\ s # "secrets" => step'[r] = s
      /\ s = "secrets" =>
            /\ step'[r] = "secrets" \/ step'[r] = "done"
            /\ "vault" \in real => /\ SecretKeys \subseteq writing'[r]
                                   /\ step'[r] = "done" => SecretKeys = {}
  BY GoesTo
<1>2. ResourcesTypeOK'
  BY <1>1 DEF ResourcesTypeOK, Clouds
<1>3. ASSUME NEW q \in Runs, q # r PROVE BehindInv(q)' /\ LookedInv(q)'
  BY <1>1, <1>3, OtherRunsKept
<1>4. WrittenInv(r)'
  <2>1. step'[r] \in {"secrets", "done"} => s = "secrets"
    BY <1>1, FollowingCalls
  <2> QED BY <1>1, <2>1 DEF WrittenInv
<1>5. (Reached(r, step[r], cloud))'
  <2>1. step'[r] = s \/ (s = "secrets" /\ step'[r] = "done")
    BY <1>1
  <2>2. Reached(r, step'[r], cloud')
    BY <2>1 DEF Reached, AfterOrg, AfterAccount, AfterRepo, AfterBucket, AfterCustomer,
                AfterPlan, AfterDoc
  <2> QED BY <2>2 DEF Reached
<1>6. LookedInv(r)'
  <2>1. step'[r] # "failed" /\ (step'[r] \in {"createBucket", "putFile"} => step'[r] = s)
    BY <1>1, FollowingCalls
  <2> QED BY <2>1 DEF LookedInv
<1>7. OverlapInv'
  <2>1. \A q \in Runs : Running(q)' => Running(q)
    BY <1>1, FollowingCalls DEF Running, Ended
  <2> QED BY <2>1, OverlapKept
<1>8. BehindInv(r)'
  BY <1>4, <1>5 DEF BehindInv
<1> QED BY <1>2, <1>3, <1>6, <1>7, <1>8

\* A run that fails keeps it if there is something to blame.
LEMMA Thrown ==
    ASSUME ResourcesInv, NEW r \in Runs, step[r] \in DOMAIN Following,
           NEW why \in SUBSET {"fault", "overlap", "edit"}, Throw(r, why),
           blame[r] # {} \/ why # {},
           cloud' \in Clouds, Grown(cloud, cloud'), Touched(r, cloud, cloud'),
           real' = real, edits' = edits, runFaults' \in 0..MaxRunFaults, sha' = sha
    PROVE  ResourcesInv'
<1> USE DEF ResourcesInv
<1>1. /\ step' \in [Runs -> DOMAIN Following \cup Ended \cup {"idle", "secrets"}]
      /\ step'[r] = "failed" /\ writing' = writing
      /\ \A q \in Runs \ {r} : step'[q] = step[q]
  BY DEF Throw, ResourcesTypeOK, Ended
<1>2. /\ blame' \in [Runs -> SUBSET {"fault", "overlap", "edit"}]
      /\ \A q \in Runs : blame[q] \subseteq blame'[q]
      /\ blame'[r] # {}
  BY DEF Throw, ResourcesTypeOK
<1>3. ResourcesTypeOK'
  BY <1>1, <1>2 DEF ResourcesTypeOK, Clouds
<1>4. ASSUME NEW q \in Runs, q # r PROVE BehindInv(q)' /\ LookedInv(q)'
  BY <1>1, <1>2, <1>4, OtherRunsKept
<1>5. BehindInv(r)'
  BY <1>1 DEF BehindInv, WrittenInv, Reached, AfterOrg, AfterAccount, AfterRepo, AfterBucket,
              AfterCustomer, AfterPlan, AfterDoc
<1>6. LookedInv(r)'
  BY <1>1, <1>2 DEF LookedInv
<1>7. \A q \in Runs : Running(q)' => Running(q)
  BY <1>1 DEF Running, Ended
<1> QED BY <1>2, <1>3, <1>4, <1>5, <1>6, <1>7, OverlapKept

\* A step that leaves the remote systems alone.
LEMMA NothingTouched ==
    ASSUME ResourcesTypeOK, NEW r \in Runs, cloud' = cloud
    PROVE  /\ cloud \in Clouds /\ cloud' \in Clouds
           /\ Grown(cloud, cloud') /\ Touched(r, cloud, cloud')
<1>1. cloud \in Clouds
  BY DEF ResourcesTypeOK, Clouds
<1>2. \A t \in Tenants : cloud.doc[t].rev \in Nat
  BY <1>1 DEF Clouds
<1> QED BY <1>1, <1>2 DEF Grown, Touched

\* A stub goes on without doing anything.
LEMMA StubStep ==
    ASSUME ResourcesInv, NEW r \in Runs, StubAnswers(r)
    PROVE  ResourcesInv'
<1> USE DEF ResourcesInv
<1>1. PICK s : s = Following[step[r]]
  OBVIOUS
<1>2. /\ step[r] \in DOMAIN Following /\ ClientOf(step[r]) \notin real /\ Goes(r, s)
      /\ UNCHANGED <<real, cloud, sha, runFaults, edits, blame>>
  BY <1>1 DEF StubAnswers, Proceed
<1>3. s \in DOMAIN Following \cup {"secrets"} /\ s # "createBucket"
  BY <1>1, <1>2, FollowingCalls
<1>4. Reached(r, step[r], cloud)
  BY DEF BehindInv
<1>5. Reached(r, s, cloud)
  <2> USE DEF Reached, ClientOf, AfterOrg, AfterAccount, AfterRepo, AfterBucket, AfterCustomer,
              AfterPlan, AfterDoc
  <2>1. CASE step[r] \in {"createOrg", "findOrg", "createAccount", "findAccount"}
    BY <1>1, <1>2, <1>4, <2>1, FollowingCalls
  <2>2. CASE step[r] \in {"getRepo", "generate", "getRepoAgain"}
    BY <1>1, <1>2, <1>4, <2>2, FollowingCalls
  <2>3. CASE step[r] \in {"headBucket", "createBucket"}
    BY <1>1, <1>2, <1>4, <2>3, FollowingCalls
  <2>4. CASE step[r] \in {"createCustomer", "assignPlan"}
    BY <1>1, <1>2, <1>4, <2>4, FollowingCalls
  <2>5. CASE step[r] \in {"getSha", "putFile"}
    BY <1>1, <1>2, <1>4, <2>5, FollowingCalls
  <2> QED BY <1>2, <2>1, <2>2, <2>3, <2>4, <2>5, FollowingCalls
<1>6. s = "putFile" => "gitea" \notin real
  BY <1>1, <1>2, FollowingCalls DEF ClientOf
<1>7. /\ runFaults' \in 0..MaxRunFaults /\ sha' \in [Runs -> Nat]
      /\ blame' \in [Runs -> SUBSET {"fault", "overlap", "edit"}]
  BY <1>2 DEF ResourcesTypeOK
<1>8. cloud' \in Clouds /\ Grown(cloud, cloud') /\ Touched(r, cloud, cloud')
  BY <1>2, NothingTouched
<1>9. Reached(r, s, cloud') /\ real' = real /\ edits' = edits
  BY <1>2, <1>5
<1>10. /\ \A q \in Runs \ {r} : sha'[q] = sha[q]
       /\ \A q \in Runs : blame[q] \subseteq blame'[q]
  BY <1>2
<1> QED BY <1>2, <1>3, <1>6, <1>7, <1>8, <1>9, <1>10, Moved

\* What an answered call leaves behind.
LEMMA AnsweredCall ==
    ASSUME ResourcesInv, NEW r \in Runs, NEW s \in DOMAIN Following, Answered(r, s)
    PROVE  /\ step[r] = s /\ ClientOf(s) \in real /\ real' = real
           /\ edits' = edits /\ runFaults' \in 0..MaxRunFaults /\ sha' = sha
           /\ cloud' \in Clouds /\ Grown(cloud, cloud') /\ Touched(r, cloud, cloud')
           /\ Reached(r, s, cloud')
           /\ s = "createOrg" => OrgName(TenantOf[r]) \in cloud'.orgs
           /\ s = "createAccount" => OrgName(TenantOf[r]) \in cloud'.accounts
           /\ s = "generate" => TenantOf[r] \in cloud'.repos
           /\ s = "createBucket" => TenantOf[r] \in cloud'.buckets
           /\ s = "createCustomer" => TenantOf[r] \in cloud'.customers
           /\ s = "assignPlan" => TenantOf[r] \in cloud'.plans
           /\ s = "putFile" /\ Accepts(r) => cloud'.doc[TenantOf[r]].rev > 0
<1> USE DEF ResourcesInv
<1>1. /\ step[r] = s /\ ClientOf(s) \in real /\ real' = real /\ cloud' = Effect(r)
      /\ edits' = edits /\ runFaults' = runFaults /\ sha' = sha
  BY DEF Answered, Awaits
<1>2. /\ cloud' \in Clouds /\ Grown(cloud, cloud') /\ Touched(r, cloud, cloud')
      /\ s = "createOrg" => OrgName(TenantOf[r]) \in cloud'.orgs
      /\ s = "createAccount" => OrgName(TenantOf[r]) \in cloud'.accounts
      /\ s = "generate" => TenantOf[r] \in cloud'.repos
      /\ s = "createBucket" => TenantOf[r] \in cloud'.buckets
      /\ s = "createCustomer" => TenantOf[r] \in cloud'.customers
      /\ s = "assignPlan" => TenantOf[r] \in cloud'.plans
      /\ s = "putFile" /\ Accepts(r) => cloud'.doc[TenantOf[r]].rev > 0
  <2>1. PICK c : c = cloud'
    OBVIOUS
  <2> QED BY <1>1, <2>1, EffectGrows, Zenon
<1>3. Reached(r, s, cloud) /\ cloud \in Clouds
  BY <1>1 DEF BehindInv, ResourcesTypeOK, Clouds
<1>4. Reached(r, s, cloud')
  BY <1>2, <1>3, ReachedKept
<1>5. runFaults' \in 0..MaxRunFaults
  BY <1>1 DEF ResourcesTypeOK
<1> QED BY <1>1, <1>2, <1>4, <1>5

\* An answered call that a run goes on from.
LEMMA AnsweredGoesOn ==
    ASSUME ResourcesInv, NEW r \in Runs, NEW s \in DOMAIN Following, Answered(r, s),
           NEW n \in DOMAIN Following \cup {"secrets"}, Goes(r, n), blame' = blame,
           Reached(r, n, cloud'), n # "putFile",
           n = "createBucket" => TenantOf[r] \notin cloud'.buckets
    PROVE  ResourcesInv'
<1>1. /\ step[r] \in DOMAIN Following /\ real' = real
      /\ edits' = edits /\ runFaults' \in 0..MaxRunFaults /\ sha' = sha
      /\ cloud' \in Clouds /\ Grown(cloud, cloud') /\ Touched(r, cloud, cloud')
  BY AnsweredCall
<1>2. /\ sha' \in [Runs -> Nat] /\ \A q \in Runs \ {r} : sha'[q] = sha[q]
      /\ blame' \in [Runs -> SUBSET {"fault", "overlap", "edit"}]
      /\ \A q \in Runs : blame[q] \subseteq blame'[q]
  BY <1>1 DEF ResourcesInv, ResourcesTypeOK
<1> QED BY <1>1, <1>2, Moved

\* An answered call that a run fails on.
LEMMA AnsweredThrows ==
    ASSUME ResourcesInv, NEW r \in Runs, NEW s \in DOMAIN Following, Answered(r, s),
           Throw(r, {}), blame[r] # {}
    PROVE  ResourcesInv'
<1>1. /\ step[r] \in DOMAIN Following /\ real' = real
      /\ edits' = edits /\ runFaults' \in 0..MaxRunFaults /\ sha' = sha
      /\ cloud' \in Clouds /\ Grown(cloud, cloud') /\ Touched(r, cloud, cloud')
  BY AnsweredCall
<1>2. {} \in SUBSET {"fault", "overlap", "edit"}
  OBVIOUS
<1> QED BY <1>1, <1>2, Thrown

\* The organisation: a conflict means that it is there.
LEMMA OrgStep ==
    ASSUME ResourcesInv, NEW r \in Runs, CreateOrg(r) \/ FindOrgByName(r)
    PROVE  ResourcesInv'
<1> USE FollowingCalls
<1>1. CASE CreateOrg(r)
  <2>1. PICK n : n = IF Accepts(r) THEN "createAccount" ELSE "findOrg"
    OBVIOUS
  <2>2. Answered(r, "createOrg") /\ Goes(r, n) /\ blame' = blame
    BY <1>1, <2>1 DEF CreateOrg
  <2>3. Reached(r, n, cloud')
    BY <2>1, <2>2, AnsweredCall
       DEF Reached, AfterOrg, AfterAccount, AfterRepo, AfterBucket, AfterCustomer, AfterPlan,
           AfterDoc
  <2> QED BY <2>1, <2>2, <2>3, AnsweredGoesOn
<1>2. CASE FindOrgByName(r)
  <2>1. /\ Answered(r, "findOrg") /\ step[r] = "findOrg" /\ "zitadel" \in real
    BY <1>2 DEF FindOrgByName, Answered, Awaits, ClientOf
  <2>2. OrgName(TenantOf[r]) \in cloud.orgs
    BY <2>1 DEF ResourcesInv, BehindInv, Reached
  <2>3. Goes(r, "createAccount") /\ blame' = blame
    BY <1>2, <2>1, <2>2 DEF FindOrgByName, Proceed
  <2>4. Reached(r, "createAccount", cloud')
    BY <2>1, AnsweredCall
       DEF Reached, AfterOrg, AfterAccount, AfterRepo, AfterBucket, AfterCustomer, AfterPlan,
           AfterDoc
  <2> QED BY <2>1, <2>3, <2>4, AnsweredGoesOn
<1> QED BY <1>1, <1>2

\* The service account, likewise.
LEMMA AccountStep ==
    ASSUME ResourcesInv, NEW r \in Runs, CreateServiceAccount(r) \/ FindServiceAccount(r)
    PROVE  ResourcesInv'
<1> USE FollowingCalls
<1>1. CASE CreateServiceAccount(r)
  <2>1. PICK n : n = IF Accepts(r) THEN "getRepo" ELSE "findAccount"
    OBVIOUS
  <2>2. Answered(r, "createAccount") /\ Goes(r, n) /\ blame' = blame
    BY <1>1, <2>1 DEF CreateServiceAccount
  <2>3. Reached(r, n, cloud')
    BY <2>1, <2>2, AnsweredCall
       DEF Reached, AfterOrg, AfterAccount, AfterRepo, AfterBucket, AfterCustomer, AfterPlan,
           AfterDoc
  <2> QED BY <2>1, <2>2, <2>3, AnsweredGoesOn
<1>2. CASE FindServiceAccount(r)
  <2>1. Answered(r, "findAccount") /\ step[r] = "findAccount" /\ "zitadel" \in real
    BY <1>2 DEF FindServiceAccount, Answered, Awaits, ClientOf
  <2>2. OrgName(TenantOf[r]) \in cloud.accounts
    BY <2>1 DEF ResourcesInv, BehindInv, Reached
  <2>3. Goes(r, "getRepo") /\ blame' = blame
    BY <1>2, <2>1, <2>2 DEF FindServiceAccount, Proceed
  <2>4. Reached(r, "getRepo", cloud')
    BY <2>1, AnsweredCall
       DEF Reached, AfterOrg, AfterAccount, AfterRepo, AfterBucket, AfterCustomer, AfterPlan,
           AfterDoc
  <2> QED BY <2>1, <2>3, <2>4, AnsweredGoesOn
<1> QED BY <1>1, <1>2

\* The repository. An error of the first look makes the run generate it, which a conflict
\* shows to be unneeded.
LEMMA RepoStep ==
    ASSUME ResourcesInv, NEW r \in Runs,
           ProvisionWorkspaceRepo(r) \/ Generate(r) \/ GenerateConflict(r)
    PROVE  ResourcesInv'
<1> USE FollowingCalls
<1>0. cloud \in Clouds /\ runFaults \in 0..MaxRunFaults /\ MaxRunFaults \in Nat
  BY ResourcesAssumption DEF ResourcesInv, ResourcesTypeOK, Clouds
<1>1. CASE ProvisionWorkspaceRepo(r)
  <2>1. /\ step[r] = "getRepo" /\ ClientOf("getRepo") \in real /\ blame' = blame
        /\ UNCHANGED <<real, cloud, sha, edits>>
    BY <1>1 DEF ProvisionWorkspaceRepo, GetRepoUrl, Awaits
  <2>2. runFaults' \in 0..MaxRunFaults
    BY <1>0, <1>1 DEF ProvisionWorkspaceRepo, GetRepoUrl, SpendFault
  <2>3. PICK n \in {"headBucket", "generate"} :
            Goes(r, n) /\ (n = "headBucket" => TenantOf[r] \in cloud.repos)
    BY <1>1, <2>1 DEF ProvisionWorkspaceRepo, GetRepoUrl, Proceed
  <2>4. Reached(r, n, cloud')
    <3>1. Reached(r, "getRepo", cloud)
      BY <2>1 DEF ResourcesInv, BehindInv
    <3> QED BY <2>1, <2>3, <3>1
            DEF Reached, AfterOrg, AfterAccount, AfterRepo, AfterBucket, AfterCustomer,
                AfterPlan, AfterDoc
  <2>5. cloud' \in Clouds /\ Grown(cloud, cloud') /\ Touched(r, cloud, cloud')
    BY <2>1, NothingTouched DEF ResourcesInv
  <2>6. /\ sha' \in [Runs -> Nat] /\ \A q \in Runs \ {r} : sha'[q] = sha[q]
        /\ blame' \in [Runs -> SUBSET {"fault", "overlap", "edit"}]
        /\ \A q \in Runs : blame[q] \subseteq blame'[q]
    BY <2>1 DEF ResourcesInv, ResourcesTypeOK
  <2> QED BY <2>1, <2>2, <2>3, <2>4, <2>5, <2>6, Moved
<1>2. CASE Generate(r)
  <2>1. PICK n : n = IF Accepts(r) THEN "headBucket" ELSE "getRepoAgain"
    OBVIOUS
  <2>2. Answered(r, "generate") /\ Goes(r, n) /\ blame' = blame
    BY <1>2, <2>1 DEF Generate
  <2>3. Reached(r, n, cloud')
    BY <2>1, <2>2, AnsweredCall
       DEF Reached, AfterOrg, AfterAccount, AfterRepo, AfterBucket, AfterCustomer, AfterPlan,
           AfterDoc
  <2> QED BY <2>1, <2>2, <2>3, AnsweredGoesOn
<1>3. CASE GenerateConflict(r)
  <2>1. /\ step[r] = "getRepoAgain" /\ ClientOf("getRepoAgain") \in real
        /\ UNCHANGED <<real, cloud, sha, edits>>
    BY <1>3 DEF GenerateConflict, GetRepoUrl, Awaits
  <2>2. runFaults' \in 0..MaxRunFaults
    BY <1>0, <1>3 DEF GenerateConflict, GetRepoUrl, SpendFault
  <2>3. cloud' \in Clouds /\ Grown(cloud, cloud') /\ Touched(r, cloud, cloud')
    BY <2>1, NothingTouched DEF ResourcesInv
  <2>4. CASE Throw(r, {"fault"})
    <3>1. {"fault"} \in SUBSET {"fault", "overlap", "edit"} /\ {"fault"} # {}
      OBVIOUS
    <3> QED BY <2>1, <2>2, <2>3, <2>4, <3>1, Thrown
  <2>5. CASE Goes(r, "headBucket") /\ blame' = blame /\ TenantOf[r] \in cloud.repos
    <3>1. Reached(r, "headBucket", cloud')
      <4>1. Reached(r, "getRepoAgain", cloud)
        BY <2>1 DEF ResourcesInv, BehindInv
      <4> QED BY <2>1, <2>5, <4>1
              DEF Reached, AfterOrg, AfterAccount, AfterRepo, AfterBucket, AfterCustomer,
                  AfterPlan, AfterDoc
    <3>2. /\ sha' \in [Runs -> Nat] /\ \A q \in Runs \ {r} : sha'[q] = sha[q]
          /\ blame' \in [Runs -> SUBSET {"fault", "overlap", "edit"}]
          /\ \A q \in Runs : blame[q] \subseteq blame'[q]
      BY <2>1, <2>5 DEF ResourcesInv, ResourcesTypeOK
    <3> QED BY <2>1, <2>2, <2>3, <2>5, <3>1, <3>2, Moved
  <2> QED BY <1>3, <2>1, <2>4, <2>5 DEF GenerateConflict, GetRepoUrl, Proceed
<1> QED BY <1>1, <1>2, <1>3

\* The bucket: a refused creation means that somebody else made it since the run looked.
LEMMA BucketStep ==
    ASSUME ResourcesInv, NEW r \in Runs, ProvisionBucket(r) \/ CreateBucket(r)
    PROVE  ResourcesInv'
<1> USE FollowingCalls
<1>1. CASE ProvisionBucket(r)
  <2>1. Answered(r, "headBucket") /\ step[r] = "headBucket" /\ blame' = blame
    BY <1>1 DEF ProvisionBucket, Answered, Awaits
  <2>2. cloud' = cloud
    BY <2>1 DEF Answered, Effect
  <2>3. PICK n \in {"createCustomer", "createBucket"} :
            /\ Goes(r, n)
            /\ n = "createCustomer" => TenantOf[r] \in cloud.buckets
            /\ n = "createBucket" => TenantOf[r] \notin cloud.buckets
    BY <1>1, <2>1 DEF ProvisionBucket, BucketExists, Proceed
  <2>4. Reached(r, n, cloud')
    BY <2>1, <2>2, <2>3, AnsweredCall
       DEF Reached, AfterOrg, AfterAccount, AfterRepo, AfterBucket, AfterCustomer, AfterPlan,
           AfterDoc
  <2> QED BY <2>1, <2>2, <2>3, <2>4, AnsweredGoesOn
<1>2. CASE CreateBucket(r)
  <2>1. Answered(r, "createBucket") /\ step[r] = "createBucket"
    BY <1>2 DEF CreateBucket, Answered, Awaits
  <2>2. CASE Accepts(r)
    <3>1. Goes(r, "createCustomer") /\ blame' = blame
      BY <1>2, <2>1, <2>2 DEF CreateBucket, Proceed
    <3>2. Reached(r, "createCustomer", cloud')
      BY <2>1, AnsweredCall
         DEF Reached, AfterOrg, AfterAccount, AfterRepo, AfterBucket, AfterCustomer, AfterPlan,
             AfterDoc
    <3> QED BY <2>1, <3>1, <3>2, AnsweredGoesOn
  <2>3. CASE ~Accepts(r)
    <3>1. TenantOf[r] \in cloud.buckets
      BY <2>1, <2>3 DEF Accepts
    <3>2. blame[r] # {} /\ Throw(r, {})
      BY <1>2, <2>1, <2>3, <3>1 DEF CreateBucket, ResourcesInv, LookedInv
    <3> QED BY <2>1, <3>2, AnsweredThrows
  <2> QED BY <2>2, <2>3
<1> QED BY <1>1, <1>2

\* The billing customer and plan.
LEMMA BillingStep ==
    ASSUME ResourcesInv, NEW r \in Runs, CreateCustomer(r) \/ AssignPlan(r)
    PROVE  ResourcesInv'
<1> USE FollowingCalls
<1>1. CASE CreateCustomer(r)
  <2>1. Answered(r, "createCustomer") /\ Goes(r, "assignPlan") /\ blame' = blame
    BY <1>1 DEF CreateCustomer, Answered, Awaits, Proceed
  <2>2. Reached(r, "assignPlan", cloud')
    BY <2>1, AnsweredCall
       DEF Reached, AfterOrg, AfterAccount, AfterRepo, AfterBucket, AfterCustomer, AfterPlan,
           AfterDoc
  <2> QED BY <2>1, <2>2, AnsweredGoesOn
<1>2. CASE AssignPlan(r)
  <2>1. Answered(r, "assignPlan") /\ Goes(r, "getSha") /\ blame' = blame
    BY <1>2 DEF AssignPlan, Answered, Awaits, Proceed
  <2>2. Reached(r, "getSha", cloud')
    BY <2>1, AnsweredCall
       DEF Reached, AfterOrg, AfterAccount, AfterRepo, AfterBucket, AfterCustomer, AfterPlan,
           AfterDoc
  <2> QED BY <2>1, <2>2, AnsweredGoesOn
<1> QED BY <1>1, <1>2

\* FOUNDER.md: a write is refused only when the file has changed since the run read it, or
\* when the read failed.
LEMMA DocStep ==
    ASSUME ResourcesInv, NEW r \in Runs, GetFileSha(r) \/ CreateOrUpdateFile(r)
    PROVE  ResourcesInv'
<1> USE FollowingCalls
<1> DEFINE t == TenantOf[r]
<1>0. /\ cloud \in Clouds /\ runFaults \in 0..MaxRunFaults /\ MaxRunFaults \in Nat
      /\ t \in Tenants
  BY ResourcesAssumption DEF ResourcesInv, ResourcesTypeOK, Clouds, Tenants
<1>1. CASE GetFileSha(r)
  <2>1. /\ step[r] = "getSha" /\ Goes(r, "putFile") /\ UNCHANGED <<real, cloud, edits>>
    BY <1>1 DEF GetFileSha, Awaits, Proceed
  <2>2. runFaults' \in 0..MaxRunFaults
    BY <1>0, <1>1 DEF GetFileSha, SpendFault
  <2>3. cloud' \in Clouds /\ Grown(cloud, cloud') /\ Touched(r, cloud, cloud')
    BY <2>1, NothingTouched DEF ResourcesInv
  <2>4. Reached(r, "putFile", cloud')
    <3>1. Reached(r, "getSha", cloud)
      BY <2>1 DEF ResourcesInv, BehindInv
    <3> QED BY <2>1, <3>1
            DEF Reached, AfterOrg, AfterAccount, AfterRepo, AfterBucket, AfterCustomer,
                AfterPlan, AfterDoc
  <2>5. PICK v \in Nat : /\ sha' = [sha EXCEPT ![r] = v]
                         /\ (v = cloud.doc[t].rev /\ blame' = blame)
                            \/ blame' = [blame EXCEPT ![r] = @ \cup {"fault"}]
    BY <1>0, <1>1 DEF GetFileSha, Clouds
  <2>6. /\ sha' \in [Runs -> Nat] /\ \A q \in Runs \ {r} : sha'[q] = sha[q]
        /\ sha'[r] = v
    BY <2>5 DEF ResourcesInv, ResourcesTypeOK
  <2>7. /\ blame' \in [Runs -> SUBSET {"fault", "overlap", "edit"}]
        /\ \A q \in Runs : blame[q] \subseteq blame'[q]
        /\ blame'[r] = {} => v = cloud.doc[t].rev
    <3>1. blame \in [Runs -> SUBSET {"fault", "overlap", "edit"}]
      BY DEF ResourcesInv, ResourcesTypeOK
    <3>2. CASE v = cloud.doc[t].rev /\ blame' = blame
      BY <3>1, <3>2
    <3>3. CASE blame' = [blame EXCEPT ![r] = @ \cup {"fault"}]
      <4>1. blame'[r] = blame[r] \cup {"fault"} /\ \A q \in Runs \ {r} : blame'[q] = blame[q]
        BY <3>1, <3>3
      <4> QED BY <3>1, <3>3, <4>1
    <3> QED BY <2>5, <3>2, <3>3
  <2> QED BY <2>1, <2>2, <2>3, <2>4, <2>6, <2>7, Moved
<1>2. CASE CreateOrUpdateFile(r)
  <2>1. Answered(r, "putFile") /\ step[r] = "putFile" /\ "gitea" \in real
    BY <1>2 DEF CreateOrUpdateFile, Answered, Awaits, ClientOf
  <2>2. CASE Accepts(r)
    <3>1. Goes(r, "secrets") /\ blame' = blame
      BY <1>2, <2>1, <2>2 DEF CreateOrUpdateFile, Proceed
    <3>2. Reached(r, "secrets", cloud')
      BY <2>1, <2>2, AnsweredCall
         DEF Reached, AfterOrg, AfterAccount, AfterRepo, AfterBucket, AfterCustomer, AfterPlan,
             AfterDoc
    <3> QED BY <2>1, <3>1, <3>2, AnsweredGoesOn
  <2>3. CASE ~Accepts(r)
    <3>1. t \in cloud.repos
      BY <2>1 DEF ResourcesInv, BehindInv, Reached, AfterRepo, AfterBucket, AfterCustomer,
                  AfterPlan
    <3>2. cloud.doc[t].rev # sha[r]
      BY <2>1, <2>3, <3>1 DEF Accepts
    <3>3. blame[r] # {} /\ Throw(r, {})
      BY <1>2, <2>1, <2>3, <3>2 DEF CreateOrUpdateFile, ResourcesInv, LookedInv
    <3> QED BY <2>1, <3>3, AnsweredThrows
  <2> QED BY <2>2, <2>3
<1> QED BY <1>1, <1>2

\* Secrets that arrive leave the other systems alone.
LEMMA SecretsAdded ==
    ASSUME NEW c \in Clouds, NEW S \in SUBSET (Tenants \X SecretKeys), NEW d,
           d = [c EXCEPT !.secrets = @ \cup S]
    PROVE  /\ d \in Clouds /\ d.secrets = c.secrets \cup S
           /\ d.orgs = c.orgs /\ d.accounts = c.accounts /\ d.repos = c.repos
           /\ d.buckets = c.buckets /\ d.customers = c.customers /\ d.plans = c.plans
           /\ d.doc = c.doc
  BY DEF Clouds

\* A call fails, carried out or not.
LEMMA CallThrowsStep ==
    ASSUME ResourcesInv, NEW r \in Runs, CallThrows(r)
    PROVE  ResourcesInv'
<1>1. /\ step[r] \in DOMAIN Following /\ Throw(r, {"fault"}) /\ UNCHANGED <<real, sha, edits>>
      /\ cloud' = cloud \/ cloud' = Effect(r)
  BY DEF CallThrows
<1>2. runFaults' \in 0..MaxRunFaults
  BY ResourcesAssumption DEF CallThrows, SpendFault, ResourcesInv, ResourcesTypeOK
<1>3. cloud' \in Clouds /\ Grown(cloud, cloud') /\ Touched(r, cloud, cloud')
  <2>1. CASE cloud' = cloud
    BY <2>1, NothingTouched DEF ResourcesInv
  <2>2. CASE cloud' = Effect(r)
    <3>1. PICK c : c = cloud'
      OBVIOUS
    <3> QED BY <1>1, <2>2, <3>1, EffectGrows DEF ResourcesInv
  <2> QED BY <1>1, <2>1, <2>2
<1>4. {"fault"} \in SUBSET {"fault", "overlap", "edit"} /\ {"fault"} # {}
  OBVIOUS
<1> QED BY <1>1, <1>2, <1>3, <1>4, Thrown

\* The worker dies.
LEMMA CrashStep ==
    ASSUME ResourcesInv, NEW r \in Runs, RunCrashes(r)
    PROVE  ResourcesInv'
<1> DEFINE t == TenantOf[r]
<1>1. /\ Running(r) /\ UNCHANGED <<real, sha, edits, blame>>
      /\ step' = [step EXCEPT ![r] = "crashed"] /\ writing' = [writing EXCEPT ![r] = {}]
  BY DEF RunCrashes
<1>2. /\ ResourcesTypeOK /\ t \in Tenants /\ cloud \in Clouds
  BY ResourcesAssumption DEF ResourcesInv, ResourcesTypeOK, Tenants, Clouds
<1>3. PICK c \in {cloud, Effect(r)}, C \in SUBSET writing[r] :
          cloud' = [c EXCEPT !.secrets = @ \cup {<<t, k>> : k \in C}]
  BY DEF RunCrashes
<1>4. c \in Clouds /\ Grown(cloud, c) /\ Touched(r, cloud, c)
  <2>1. CASE c = cloud
    <3>1. \A k \in Tenants : cloud.doc[k].rev \in Nat
      BY <1>2 DEF Clouds
    <3> QED BY <1>2, <2>1, <3>1 DEF Grown, Touched
  <2>2. CASE c = Effect(r) /\ step[r] \in DOMAIN Following
    BY <1>2, <2>2, EffectGrows
  <2>3. CASE step[r] \notin DOMAIN Following
    <3>1. Effect(r) = cloud
      BY <2>3, FollowingCalls DEF Effect, Accepts
    <3> QED BY <1>3, <2>1, <3>1
  <2> QED BY <1>3, <2>1, <2>2, <2>3
<1>5. cloud' \in Clouds /\ Grown(cloud, cloud') /\ Touched(r, cloud, cloud')
  <2>1. PICK S : S = {<<t, k>> : k \in C}
    OBVIOUS
  <2>2. S \in SUBSET (Tenants \X SecretKeys)
    BY <1>2, <1>3, <2>1 DEF ResourcesTypeOK
  <2>3. PICK d : d = cloud'
    OBVIOUS
  <2>4. /\ d \in Clouds /\ d.secrets = c.secrets \cup S
        /\ d.orgs = c.orgs /\ d.accounts = c.accounts /\ d.repos = c.repos
        /\ d.buckets = c.buckets /\ d.customers = c.customers /\ d.plans = c.plans
        /\ d.doc = c.doc
    <3>1. d = [c EXCEPT !.secrets = @ \cup S]
      BY <1>3, <2>1, <2>3
    <3> QED BY <1>4, <2>2, <3>1, SecretsAdded
  <2> QED BY <1>4, <2>3, <2>4 DEF Grown, Touched
<1>6. /\ step' \in [Runs -> DOMAIN Following \cup Ended \cup {"idle", "secrets"}]
      /\ step'[r] = "crashed" /\ writing' \in [Runs -> SUBSET SecretKeys]
      /\ \A q \in Runs \ {r} : step'[q] = step[q] /\ writing'[q] = writing[q]
  BY <1>1, <1>2 DEF ResourcesTypeOK, Ended
<1>7. ResourcesTypeOK'
  <2>1. runFaults' \in 0..MaxRunFaults
    BY <1>2, ResourcesAssumption DEF RunCrashes, SpendFault, ResourcesTypeOK
  <2> QED BY <1>1, <1>2, <1>5, <1>6, <2>1 DEF ResourcesTypeOK, Clouds
<1>8. ASSUME NEW q \in Runs, q # r PROVE BehindInv(q)' /\ LookedInv(q)'
  BY <1>1, <1>5, <1>6, <1>8, OtherRunsKept
<1>9. BehindInv(r)' /\ LookedInv(r)'
  BY <1>6 DEF BehindInv, WrittenInv, LookedInv, Reached, AfterOrg, AfterAccount, AfterRepo,
              AfterBucket, AfterCustomer, AfterPlan, AfterDoc
<1>10. OverlapInv'
  <2>1. \A q \in Runs : Running(q)' => Running(q)
    BY <1>1, <1>6 DEF Running, Ended
  <2> QED BY <1>1, <2>1, OverlapKept
<1> QED BY <1>7, <1>8, <1>9, <1>10 DEF ResourcesInv

\* A handler starts a run: runs of the tenant that are under way are told, and it is.
LEMMA RunStarts ==
    ASSUME ResourcesInv, NEW r \in Runs, Run(r)
    PROVE  ResourcesInv'
<1> DEFINE others == {q \in Runs \ {r} : Running(q) /\ TenantOf[q] = TenantOf[r]}
<1>1. /\ step[r] = "idle" /\ step' = [step EXCEPT ![r] = "createOrg"]
      /\ blame' = [q \in Runs |-> IF q \in others \/ (q = r /\ others # {})
                                  THEN blame[q] \cup {"overlap"} ELSE blame[q]]
      /\ UNCHANGED <<real, cloud, sha, writing, runFaults, edits>>
  BY DEF Run
<1>2. /\ step' \in [Runs -> DOMAIN Following \cup Ended \cup {"idle", "secrets"}]
      /\ step'[r] = "createOrg" /\ \A q \in Runs \ {r} : step'[q] = step[q]
  BY <1>1, FollowingCalls DEF ResourcesInv, ResourcesTypeOK
<1>3. /\ blame' \in [Runs -> SUBSET {"fault", "overlap", "edit"}]
      /\ \A q \in Runs : blame[q] \subseteq blame'[q]
      /\ \A q \in others : blame'[q] # {} /\ blame'[r] # {}
  BY <1>1 DEF ResourcesInv, ResourcesTypeOK
<1> HIDE DEF others
<1>4. cloud' \in Clouds /\ Grown(cloud, cloud') /\ Touched(r, cloud, cloud')
  BY <1>1, NothingTouched DEF ResourcesInv
<1>5. ResourcesTypeOK'
  BY <1>1, <1>2, <1>3 DEF ResourcesInv, ResourcesTypeOK
<1>6. ASSUME NEW q \in Runs, q # r PROVE BehindInv(q)' /\ LookedInv(q)'
  BY <1>1, <1>2, <1>3, <1>4, <1>6, OtherRunsKept
<1>7. BehindInv(r)' /\ LookedInv(r)'
  BY <1>2 DEF BehindInv, WrittenInv, LookedInv, Reached, AfterOrg, AfterAccount, AfterRepo,
              AfterBucket, AfterCustomer, AfterPlan, AfterDoc
<1>8. OverlapInv'
  <2> SUFFICES ASSUME NEW p \in Runs, NEW q \in Runs, p # q, TenantOf[p] = TenantOf[q],
                      Running(p)', Running(q)'
               PROVE  blame'[p] # {} /\ blame'[q] # {}
    BY DEF OverlapInv
  <2>1. \A x \in Runs \ {r} : Running(x)' => Running(x)
    BY <1>2 DEF Running
  <2>2. CASE p = r
    BY <1>3, <2>1, <2>2 DEF others
  <2>3. CASE q = r
    BY <1>3, <2>1, <2>3 DEF others
  <2>4. CASE p # r /\ q # r
    BY <1>3, <2>1, <2>4 DEF ResourcesInv, OverlapInv
  <2> QED BY <2>2, <2>3, <2>4
<1> QED BY <1>5, <1>6, <1>7, <1>8 DEF ResourcesInv

\* A secret is written, or fails to be. The run may have failed already.
LEMMA SecretPut ==
    ASSUME ResourcesInv, NEW r \in Runs, NEW k \in SecretKeys,
           PutSecret(r, k) \/ PutFails(r, k)
    PROVE  ResourcesInv'
<1> DEFINE t == TenantOf[r]
<1>1. /\ ResourcesTypeOK /\ t \in Tenants /\ cloud \in Clouds /\ BehindInv(r) /\ LookedInv(r)
  BY ResourcesAssumption DEF ResourcesInv, ResourcesTypeOK, Tenants, Clouds
<1>2. /\ k \in writing[r] /\ UNCHANGED <<real, sha, edits>>
      /\ writing' = [writing EXCEPT ![r] = @ \ {k}]
  BY DEF PutSecret, PutFails
<1>3. PICK S \in {{}, {<<t, k>>}} : /\ cloud' = [cloud EXCEPT !.secrets = @ \cup S]
                                    /\ PutSecret(r, k) => S = {<<t, k>>}
  <2>1. cloud = [cloud EXCEPT !.secrets = @ \cup {}]
    BY <1>1 DEF Clouds
  <2>2. CASE PutSecret(r, k)
    BY <2>2 DEF PutSecret
  <2>3. CASE ~PutSecret(r, k) /\ PutFails(r, k)
    BY <2>1, <2>3 DEF PutFails
  <2> QED BY <2>2, <2>3
<1>4. /\ cloud' \in Clouds /\ cloud'.secrets = cloud.secrets \cup S
      /\ cloud'.buckets = cloud.buckets /\ cloud'.doc = cloud.doc
      /\ Grown(cloud, cloud') /\ Touched(r, cloud, cloud')
  <2>1. PICK d : d = cloud'
    OBVIOUS
  <2>2. S \in SUBSET (Tenants \X SecretKeys)
    BY <1>1, <1>3
  <2>3. /\ d \in Clouds /\ d.secrets = cloud.secrets \cup S
        /\ d.orgs = cloud.orgs /\ d.accounts = cloud.accounts /\ d.repos = cloud.repos
        /\ d.buckets = cloud.buckets /\ d.customers = cloud.customers
        /\ d.plans = cloud.plans /\ d.doc = cloud.doc
    <3>1. d = [cloud EXCEPT !.secrets = @ \cup S] /\ cloud \in Clouds
      BY <1>1, <1>3, <2>1
    <3> QED BY <2>2, <3>1, SecretsAdded
  <2>4. \A x \in Tenants : cloud.doc[x].rev \in Nat
    BY <1>1 DEF Clouds
  <2> QED BY <2>1, <2>3, <2>4 DEF Grown, Touched
<1>5. /\ writing' \in [Runs -> SUBSET SecretKeys] /\ writing'[r] = writing[r] \ {k}
      /\ \A q \in Runs \ {r} : writing'[q] = writing[q]
  BY <1>1, <1>2 DEF ResourcesTypeOK
<1>6. /\ step' \in [Runs -> DOMAIN Following \cup Ended \cup {"idle", "secrets"}]
      /\ \A q \in Runs \ {r} : step'[q] = step[q]
      /\ \/ step'[r] = step[r] /\ (step[r] = "secrets" => S = {<<t, k>>})
         \/ /\ step[r] = "secrets" /\ step'[r] = "done" /\ writing'[r] = {}
            /\ S = {<<t, k>>}
         \/ step[r] = "secrets" /\ step'[r] = "failed" /\ PutFails(r, k)
  <2>1. CASE PutSecret(r, k)
    BY <1>1, <1>3, <2>1 DEF PutSecret, ResourcesTypeOK, Ended
  <2>2. CASE PutFails(r, k)
    BY <1>1, <1>3, <2>2 DEF PutFails, ResourcesTypeOK, Ended
  <2> QED BY <2>1, <2>2
<1>7. /\ blame' \in [Runs -> SUBSET {"fault", "overlap", "edit"}]
      /\ \A q \in Runs : blame[q] \subseteq blame'[q]
      /\ PutFails(r, k) => blame'[r] # {}
      /\ runFaults' \in 0..MaxRunFaults
  <2>1. CASE PutSecret(r, k) /\ ~PutFails(r, k)
    BY <1>1, <2>1 DEF PutSecret, ResourcesTypeOK
  <2>2. CASE PutFails(r, k)
    <3>1. runFaults' \in 0..MaxRunFaults
      BY <1>1, <2>2, ResourcesAssumption DEF PutFails, SpendFault, ResourcesTypeOK
    <3>2. /\ blame' \in [Runs -> SUBSET {"fault", "overlap", "edit"}]
          /\ blame'[r] = blame[r] \cup {"fault"} /\ \A q \in Runs \ {r} : blame'[q] = blame[q]
      BY <1>1, <2>2 DEF PutFails, ResourcesTypeOK
    <3> QED BY <3>1, <3>2
  <2> QED BY <2>1, <2>2
<1>8. ResourcesTypeOK'
  BY <1>1, <1>2, <1>4, <1>5, <1>6, <1>7 DEF ResourcesTypeOK, Clouds
<1>9. ASSUME NEW q \in Runs, q # r PROVE BehindInv(q)' /\ LookedInv(q)'
  BY <1>2, <1>4, <1>5, <1>6, <1>7, <1>9, OtherRunsKept
<1>10. WrittenInv(r)'
  <2>1. CASE step'[r] = "secrets"
    <3>1. step[r] = "secrets" /\ S = {<<t, k>>}
      BY <1>6, <2>1
    <3>2. "vault" \in real => \A x \in SecretKeys \ writing[r] : <<t, x>> \in cloud.secrets
      BY <1>1, <3>1 DEF BehindInv, WrittenInv
    <3> QED BY <1>2, <1>4, <1>5, <2>1, <3>1, <3>2 DEF WrittenInv
  <2>2. CASE step'[r] = "done" /\ step[r] = "secrets"
    <3>1. S = {<<t, k>>} /\ writing[r] \ {k} = {}
      BY <1>5, <1>6, <2>2
    <3>2. "vault" \in real => \A x \in SecretKeys \ writing[r] : <<t, x>> \in cloud.secrets
      BY <1>1, <2>2 DEF BehindInv, WrittenInv
    <3> QED BY <1>2, <1>4, <2>2, <3>1, <3>2 DEF WrittenInv
  <2>3. CASE step'[r] = "done" /\ step[r] = "done"
    BY <1>1, <1>2, <1>4, <2>3 DEF WrittenInv, BehindInv
  <2>4. step'[r] = "done" => step[r] = "done" \/ step[r] = "secrets"
    BY <1>6
  <2> QED BY <2>1, <2>2, <2>3, <2>4 DEF WrittenInv
<1>11. (Reached(r, step[r], cloud))'
  <2>1. Reached(r, step[r], cloud')
    BY <1>1, <1>4, ReachedKept DEF BehindInv
  <2>2. Reached(r, step'[r], cloud')
    BY <1>6, <2>1 DEF Reached, AfterOrg, AfterAccount, AfterRepo, AfterBucket, AfterCustomer,
                      AfterPlan, AfterDoc
  <2> QED BY <1>2, <2>2 DEF Reached
<1>12. LookedInv(r)'
  BY <1>1, <1>2, <1>4, <1>6, <1>7 DEF LookedInv
<1>13. OverlapInv'
  <2>1. \A q \in Runs : Running(q)' => Running(q)
    BY <1>6 DEF Running, Ended
  <2> QED BY <1>7, <2>1, OverlapKept
<1>14. BehindInv(r)'
  BY <1>10, <1>11 DEF BehindInv
<1> QED BY <1>8, <1>9, <1>12, <1>13, <1>14 DEF ResourcesInv

\* The founder edits FOUNDER.md: the runs that have read it and not yet written are told.
LEMMA EditStep ==
    ASSUME ResourcesInv, NEW t \in Tenants, FounderEdits(t)
    PROVE  ResourcesInv'
<1>1. /\ ResourcesTypeOK /\ cloud \in Clouds
      /\ cloud' = [cloud EXCEPT !.doc[t] = [rev |-> @.rev + 1, by |-> "founder"]]
      /\ UNCHANGED <<real, step, sha, writing, runFaults>>
      /\ blame' = [r \in Runs |-> IF TenantOf[r] = t /\ step[r] = "putFile"
                                  THEN blame[r] \cup {"edit"} ELSE blame[r]]
  BY DEF FounderEdits, ResourcesInv, ResourcesTypeOK, Clouds
<1>2. /\ blame' \in [Runs -> SUBSET {"fault", "overlap", "edit"}]
      /\ \A q \in Runs : blame[q] \subseteq blame'[q]
      /\ \A q \in Runs : TenantOf[q] = t /\ step[q] = "putFile" => blame'[q] # {}
  BY <1>1 DEF ResourcesTypeOK
<1>3. edits' \in 0..MaxEdits
  BY <1>1, ResourcesAssumption DEF FounderEdits, ResourcesTypeOK
<1>4. /\ cloud' \in Clouds /\ \A k \in Tenants \ {t} : cloud'.doc[k] = cloud.doc[k]
      /\ cloud'.doc[t].rev = cloud.doc[t].rev + 1
      /\ cloud'.orgs = cloud.orgs /\ cloud'.accounts = cloud.accounts
      /\ cloud'.repos = cloud.repos /\ cloud'.buckets = cloud.buckets
      /\ cloud'.customers = cloud.customers /\ cloud'.plans = cloud.plans
      /\ cloud'.secrets = cloud.secrets
  <2> DEFINE d == [cloud.doc EXCEPT ![t] = [rev |-> cloud.doc[t].rev + 1, by |-> "founder"]]
  <2>1. /\ d \in [Tenants -> [rev : Nat, by : {"nobody", "template", "founder"}]]
        /\ d[t].rev = cloud.doc[t].rev + 1 /\ \A k \in Tenants \ {t} : d[k] = cloud.doc[k]
    BY <1>1 DEF Clouds
  <2>2. cloud' = [cloud EXCEPT !.doc = d]
    BY <1>1 DEF Clouds
  <2> HIDE DEF d
  <2> QED BY <1>1, <2>1, <2>2 DEF Clouds
<1>5. \A k \in Tenants : cloud.doc[k].rev \in Nat
  BY <1>1 DEF Clouds
<1>6. Grown(cloud, cloud')
  BY <1>4, <1>5 DEF Grown
<1>7. ResourcesTypeOK'
  BY <1>1, <1>2, <1>3, <1>4 DEF ResourcesTypeOK, Clouds
<1>8. ASSUME NEW q \in Runs PROVE BehindInv(q)' /\ LookedInv(q)'
  <2>1. BehindInv(q) /\ LookedInv(q) /\ TenantOf[q] \in Tenants
    BY ResourcesAssumption DEF ResourcesInv, Tenants
  <2>2. Reached(q, step[q], cloud')
    BY <1>1, <1>4, <1>6, <2>1, ReachedKept DEF BehindInv
  <2>3. (Reached(q, step[q], cloud))'
    BY <1>1, <2>2 DEF Reached
  <2>4. WrittenInv(q)'
    BY <1>1, <1>4, <2>1 DEF BehindInv, WrittenInv
  <2>5. LookedInv(q)'
    <3>1. CASE TenantOf[q] = t /\ step[q] = "putFile"
      BY <1>1, <1>2, <2>1, <3>1 DEF LookedInv
    <3>2. CASE step[q] # "putFile"
      BY <1>1, <1>2, <1>4, <2>1, <3>2 DEF LookedInv
    <3>3. CASE TenantOf[q] # t
      BY <1>1, <1>2, <1>4, <2>1, <3>3 DEF LookedInv
    <3> QED BY <3>1, <3>2, <3>3
  <2> QED BY <2>3, <2>4, <2>5 DEF BehindInv
<1>9. OverlapInv'
  BY <1>1, <1>2, OverlapKept DEF Running
<1> QED BY <1>7, <1>8, <1>9 DEF ResourcesInv

\* The invariant of the resources holds at first, and every step keeps it.
LEMMA ResourcesInvariant ==
    /\ ResourcesInit => ResourcesInv
    /\ ResourcesInv /\ ResourcesNext => ResourcesInv'
    /\ ResourcesInv /\ UNCHANGED resourceVars => ResourcesInv'
<1>1. ASSUME ResourcesInit PROVE ResourcesInv
  <2> USE <1>1 DEF ResourcesInit
  <2>1. ResourcesTypeOK
    BY ResourcesAssumption DEF ResourcesTypeOK
  <2>2. \A r \in Runs : step[r] = "idle"
    OBVIOUS
  <2>3. \A r \in Runs : BehindInv(r) /\ LookedInv(r)
    BY <2>2 DEF BehindInv, WrittenInv, LookedInv, Reached, AfterOrg, AfterAccount, AfterRepo,
                AfterBucket, AfterCustomer, AfterPlan, AfterDoc
  <2>4. OverlapInv
    BY <2>2 DEF OverlapInv, Running
  <2> QED BY <2>1, <2>3, <2>4 DEF ResourcesInv
<1>2. ASSUME ResourcesInv, ResourcesNext PROVE ResourcesInv'
  <2>1. CASE \E r \in Runs : RunStep(r)
    <3>1. PICK r \in Runs : RunStep(r)
      BY <2>1
    <3> QED BY <1>2, <3>1, RunStarts, StubStep, OrgStep, AccountStep, RepoStep, BucketStep,
               BillingStep, DocStep, CallThrowsStep, CrashStep, SecretPut DEF RunStep
  <2>2. CASE \E t \in Tenants : FounderEdits(t)
    BY <1>2, <2>2, EditStep
  <2> QED BY <1>2, <2>1, <2>2 DEF ResourcesNext
<1>3. ASSUME ResourcesInv, UNCHANGED resourceVars PROVE ResourcesInv'
  BY <1>3 DEF resourceVars, ResourcesInv, ResourcesTypeOK, BehindInv, WrittenInv, LookedInv,
              OverlapInv, Reached, Running
<1> QED BY <1>1, <1>2, <1>3

-----------------------------------------------------------------------------
(* Proofs: secrets *)

CallerRecords ==
    [at : Places, token : Tokens \cup {NoToken}, age : BOOLEAN, lease : Leases \cup {0},
     renewable : BOOLEAN]

CacheRecords ==
    [token : Tokens \cup {NoToken}, left : Nat, lease : Leases \cup {0}, renewable : BOOLEAN]

\* A lease is a number of ticks.
LEMMA LeaseIsNat == ASSUME NEW l \in Leases \cup {0} PROVE l \in Nat
<1>1. Leases \subseteq Nat \ {0}
  BY VaultAssumption
<1> QED BY <1>1

\* A request that does not move while tokens only gain life and the cache is left alone,
\* filled afresh, or emptied after a mishap.
LEMMA OtherCallerKept ==
    ASSUME VaultInv, NEW d \in Callers, caller'[d] = caller[d],
           life' \in [Tokens -> Nat], \A k \in Tokens : life[k] <= life'[k] \/ ~InUse(k),
           mishaps \subseteq mishaps',
           \/ cache' = cache
           \/ cache'.token \in Tokens /\ cache'.left = cache'.lease
           \/ cache'.token \notin Tokens /\ mishaps' # {}
    PROVE  CallerInv(d)' /\ (Excused \/ CallerLife(d)')
<1>1. CallerInv(d) /\ (Excused \/ CallerLife(d))
  BY DEF VaultInv
<1>2. CallerInv(d)'
  BY <1>1 DEF CallerInv
<1>3. ASSUME CallerLife(d) PROVE CallerLife(d)'
  <2>1. Age(d)' = Age(d) /\ Age(d) \in Nat
    BY DEF Age
  <2>2. CASE caller[d].at \in Holding
    <3>1. PICK k \in Tokens : k = caller[d].token
      BY <1>1, <2>2 DEF CallerInv
    <3>2. life[k] \in Nat /\ life'[k] \in Nat /\ caller[d].lease \in Nat
      <4>1. life[k] \in Nat /\ caller[d].lease \in Leases \cup {0}
        BY DEF VaultInv, VaultTypeOK
      <4>2. life'[k] \in Nat
        OBVIOUS
      <4> QED BY <4>1, <4>2, LeaseIsNat
    <3>3. life[k] <= life'[k]
      BY <3>1 DEF InUse
    <3> QED BY <1>3, <2>1, <3>1, <3>2, <3>3 DEF CallerLife
  <2>3. CASE caller[d].at \notin Holding
    BY <2>3 DEF CallerLife, Holding
  <2> QED BY <2>2, <2>3
<1> QED BY <1>1, <1>2, <1>3

\* An excuse stays one.
LEMMA ExcuseStays == ASSUME mishaps \subseteq mishaps', Excused PROVE Excused'
  BY DEF Excused

\* A step of one request keeps the invariant if the request itself and the cache do.
LEMMA CallerMoves ==
    ASSUME VaultInv, NEW c \in Callers, NEW rec \in CallerRecords, Set(c, rec),
           life' \in [Tokens -> Nat], \A k \in Tokens : life[k] <= life'[k] \/ ~InUse(k),
           cache' \in CacheRecords,
           vaultFaults' \in 0..MaxVaultFaults,
           mishaps \subseteq mishaps', mishaps' \subseteq {"refused", "revoked", "late", "short"},
           \/ cache' = cache
           \/ cache'.token \in Tokens /\ cache'.left = cache'.lease
           \/ cache' = Nothing /\ mishaps' # {},
           CallerInv(c)',
           Excused' \/ (CacheLife' /\ CallerLife(c)')
    PROVE  VaultInv'
<1>1. /\ caller' \in [Callers -> CallerRecords] /\ caller'[c] = rec
      /\ \A d \in Callers \ {c} : caller'[d] = caller[d]
  BY DEF VaultInv, VaultTypeOK, Set, CallerRecords
<1>2. VaultTypeOK'
  BY <1>1 DEF VaultTypeOK, CallerRecords, CacheRecords
<1>3. cache' = Nothing => cache'.token \notin Tokens /\ cache'.left = 0
  BY VaultAssumption DEF Nothing
<1>4. cache'.token \notin Tokens => cache'.left = 0
  BY <1>3 DEF VaultInv
<1>5. ASSUME NEW d \in Callers, d # c
      PROVE  CallerInv(d)' /\ (Excused \/ CallerLife(d)')
  BY <1>1, <1>3, <1>5, OtherCallerKept
<1> QED BY <1>2, <1>4, <1>5, ExcuseStays DEF VaultInv

\* What the types give about a request and the token it holds.
LEMMA VaultTypes ==
    ASSUME VaultInv, NEW c \in Callers
    PROVE  /\ caller[c] \in CallerRecords
           /\ life \in [Tokens -> Nat] /\ \A k \in Tokens : life[k] \in Nat
           /\ cache \in CacheRecords
           /\ cache.left \in Nat /\ cache.lease \in Nat /\ caller[c].lease \in Nat
           /\ cache.token \in Tokens <=> cache.token # NoToken
           /\ vaultFaults \in 0..MaxVaultFaults
           /\ mishaps \subseteq {"refused", "revoked", "late", "short"}
           /\ CallerInv(c) /\ (Excused \/ (CacheLife /\ CallerLife(c)))
           /\ Age(c) \in 0..1
<1>1. caller[c] \in CallerRecords /\ cache \in CacheRecords
  BY DEF VaultInv, VaultTypeOK, CallerRecords, CacheRecords
<1>2. cache.left \in Nat /\ cache.lease \in Nat /\ caller[c].lease \in Nat
  <2>1. cache.lease \in Leases \cup {0} /\ caller[c].lease \in Leases \cup {0}
    BY <1>1 DEF CallerRecords, CacheRecords
  <2> QED BY <1>1, <2>1, LeaseIsNat DEF CacheRecords
<1>3. cache.token \in Tokens <=> cache.token # NoToken
  BY <1>1, VaultAssumption DEF CacheRecords
<1>4. Age(c) \in 0..1
  BY DEF Age
<1> QED BY <1>1, <1>2, <1>3, <1>4 DEF VaultInv, VaultTypeOK

\* Using the cached token, which has more than two ticks left unless there is an excuse.
LEMMA TokenUsed ==
    ASSUME VaultInv, NEW c \in Callers, NEW rec \in CallerRecords, Set(c, rec),
           rec.at = "sent", rec.token = cache.token, rec.age = FALSE,
           cache.token \in Tokens, Excused \/ cache.left >= 3,
           UNCHANGED <<life, cache, vaultFaults, mishaps>>
    PROVE  VaultInv'
<1>1. caller'[c] = rec
  BY DEF Set, VaultInv, VaultTypeOK
<1>2. CallerInv(c)'
  BY <1>1 DEF CallerInv
<1>3. ASSUME CacheLife, cache.left >= 3 PROVE CacheLife' /\ CallerLife(c)'
  <2>1. PICK k \in Tokens : k = cache.token
    OBVIOUS
  <2>2. life[k] \in Nat /\ cache.left \in Nat /\ cache.left <= life[k] + 1
    BY <1>3, <2>1, VaultTypes DEF CacheLife
  <2>3. life[k] >= 2
    BY <1>3, <2>2
  <2>4. Age(c)' = 0
    BY <1>1 DEF Age
  <2> QED BY <1>1, <1>3, <2>1, <2>2, <2>3, <2>4 DEF CacheLife, CallerLife
<1>4. /\ life' \in [Tokens -> Nat] /\ \A k \in Tokens : life[k] <= life'[k] \/ ~InUse(k)
      /\ cache' \in CacheRecords
      /\ vaultFaults' \in 0..MaxVaultFaults
      /\ mishaps \subseteq mishaps' /\ mishaps' \subseteq {"refused", "revoked", "late", "short"}
      /\ Excused \/ CacheLife
  BY VaultTypes
<1> QED BY <1>2, <1>3, <1>4, ExcuseStays, CallerMoves

\* Going on to a place where no token is relied on.
LEMMA GoesElsewhere ==
    ASSUME VaultInv, NEW c \in Callers, NEW rec \in CallerRecords, Set(c, rec),
           rec.at \in {"renew", "login", "ok", "threw"},
           rec.at = "renew" => rec.token \in Tokens,
           rec.at = "threw" => mishaps' # {},
           life' = life, cache' = cache \/ (cache' = Nothing /\ mishaps' # {}),
           vaultFaults' \in 0..MaxVaultFaults,
           mishaps \subseteq mishaps', mishaps' \subseteq {"refused", "revoked", "late", "short"}
    PROVE  VaultInv'
<1>1. caller'[c] = rec
  BY DEF Set, VaultInv, VaultTypeOK
<1>2. CallerInv(c)'
  BY <1>1 DEF CallerInv, Holding
<1>3. CallerLife(c)'
  BY <1>1 DEF CallerLife
<1>4. cache' \in CacheRecords
  <2>1. cache \in CacheRecords
    BY VaultTypes
  <2>2. Nothing \in CacheRecords
    BY VaultAssumption DEF Nothing, CacheRecords
  <2> QED BY <2>1, <2>2
<1>5. /\ life' \in [Tokens -> Nat] /\ \A k \in Tokens : life[k] <= life'[k] \/ ~InUse(k)
  BY VaultTypes
<1>6. Excused \/ CacheLife'
  <2>1. CASE cache' = cache
    BY <2>1, VaultTypes DEF CacheLife
  <2>2. CASE cache' = Nothing
    BY <2>2, VaultAssumption DEF CacheLife, Nothing
  <2> QED BY <2>1, <2>2
<1> QED BY <1>2, <1>3, <1>4, <1>5, <1>6, ExcuseStays, CallerMoves

\* A request starts.
LEMMA ResolveTokenStep ==
    ASSUME VaultInv, NEW c \in Callers, ResolveToken(c)
    PROVE  VaultInv'
<1>1. PICK f : f = FirstMove
  OBVIOUS
<1>2. PICK rec :
          rec = [AtRest(f) EXCEPT !.token = IF f = "login" THEN NoToken ELSE cache.token]
  OBVIOUS
<1>3. Set(c, rec) /\ UNCHANGED <<life, cache, vaultFaults, mishaps>>
  BY <1>1, <1>2 DEF ResolveToken
<1>4. /\ f \in {"sent", "renew", "login"}
      /\ f = "sent" => cache.left > 0 /\ (Excused \/ cache.left >= 3)
      /\ f = "renew" => cache.left > 0
  <2>1. CASE Comfortable
    <3>1. f = "sent"
      BY <1>1, <2>1 DEF FirstMove
    <3>2. cache.left > 0
      BY <2>1, VaultTypes DEF Comfortable
    <3>3. ASSUME ~Excused PROVE cache.left >= 3
      <4>1. cache.lease >= 7
        BY <3>2, <3>3, VaultTypes DEF VaultInv, CacheLife, Short
      <4> QED BY <2>1, <4>1, VaultTypes DEF Comfortable
    <3> QED BY <3>1, <3>2, <3>3
  <2>2. CASE ~Comfortable
    BY <1>1, <2>2 DEF FirstMove
  <2> QED BY <2>1, <2>2
<1>5. /\ rec.at = f /\ rec.age = FALSE /\ rec \in CallerRecords
      /\ f # "login" => rec.token = cache.token
  BY <1>2, <1>4, VaultTypes DEF AtRest, CallerRecords, Places
<1>6. f # "login" => cache.token \in Tokens
  BY <1>4 DEF VaultInv
<1>7. CASE f = "sent"
  BY <1>3, <1>4, <1>5, <1>6, <1>7, TokenUsed
<1>8. CASE f # "sent"
  <2>1. rec.at \in {"renew", "login", "ok", "threw"} /\ rec.at # "threw"
        /\ (rec.at = "renew" => rec.token \in Tokens)
    BY <1>4, <1>5, <1>6, <1>8
  <2>2. /\ vaultFaults' \in 0..MaxVaultFaults /\ mishaps \subseteq mishaps'
        /\ mishaps' \subseteq {"refused", "revoked", "late", "short"}
    BY <1>3, VaultTypes
  <2> QED BY <1>3, <1>5, <2>1, <2>2, GoesElsewhere
<1> QED BY <1>7, <1>8

\* Vault renews a token or issues one, and its answer sets out.
LEMMA VaultAnswersStep ==
    ASSUME VaultInv, NEW c \in Callers, VaultRenews(c) \/ VaultLogsIn(c)
    PROVE  VaultInv'
<1>1. PICK k \in Tokens, leases \in SUBSET Leases, to \in {"renewAnswer", "loginAnswer"} :
          /\ Answers(c, k, leases, to)
          /\ InUse(k) => \A l \in leases : life[k] <= l
  <2>1. CASE VaultRenews(c)
    <3>1. PICK k \in Tokens : k = caller[c].token
      BY <2>1, VaultTypes DEF VaultRenews, CallerInv, Holding
    <3>2. \A l \in {l \in Leases : l >= life[k]} : life[k] <= l
      BY VaultTypes, VaultAssumption
    <3> QED BY <2>1, <3>1, <3>2 DEF VaultRenews
  <2>2. CASE VaultLogsIn(c)
    BY <2>2 DEF VaultLogsIn
  <2> QED BY <2>1, <2>2
<1>2. PICK l \in Leases, b \in BOOLEAN :
          /\ life' = [life EXCEPT ![k] = l]
          /\ InUse(k) => life[k] <= l
          /\ mishaps' = IF Short(l) THEN mishaps \cup {"short"} ELSE mishaps
          /\ Set(c, [Moves(c, to) EXCEPT !.token = k, !.lease = l, !.renewable = b])
          /\ UNCHANGED <<cache, vaultFaults>>
  BY <1>1 DEF Answers
<1>3. PICK rec : rec = [Moves(c, to) EXCEPT !.token = k, !.lease = l, !.renewable = b]
  OBVIOUS
<1>4. /\ rec \in CallerRecords /\ rec.at = to /\ rec.age = FALSE /\ rec.token = k
      /\ rec.lease = l
  BY <1>3, VaultTypes DEF CallerRecords, Places, Moves
<1>5. Set(c, rec) /\ caller'[c] = rec
  BY <1>2, <1>3 DEF Set, VaultInv, VaultTypeOK
<1>6. /\ life' \in [Tokens -> Nat] /\ l \in Nat /\ life'[k] = l
      /\ \A x \in Tokens : life[x] <= life'[x] \/ ~InUse(x)
  BY <1>2, VaultTypes, VaultAssumption
<1>7. CallerInv(c)' /\ (Short(l) \/ CallerLife(c)')
  <2>1. Age(c)' = 0
    BY <1>4, <1>5 DEF Age
  <2>2. CallerInv(c)'
    BY <1>4, <1>5 DEF CallerInv
  <2>3. Short(l) \/ CallerLife(c)'
    BY <1>4, <1>5, <1>6, <2>1 DEF CallerLife
  <2> QED BY <2>2, <2>3
<1>8. ASSUME CacheLife PROVE CacheLife'
  <2>1. CASE cache.token \in Tokens
    <3>1. PICK x \in Tokens : x = cache.token
      BY <2>1
    <3>2. life[x] <= life'[x]
      BY <1>6, <3>1 DEF InUse
    <3>3. life[x] \in Nat /\ life'[x] \in Nat /\ cache.left \in Nat
      BY <1>6, VaultTypes
    <3> QED BY <1>2, <1>8, <3>1, <3>2, <3>3 DEF CacheLife
  <2>2. CASE cache.token \notin Tokens
    BY <1>2, <2>2 DEF CacheLife
  <2> QED BY <2>1, <2>2
<1>9. /\ cache' \in CacheRecords /\ vaultFaults' \in 0..MaxVaultFaults /\ cache' = cache
      /\ mishaps \subseteq mishaps' /\ mishaps' \subseteq {"refused", "revoked", "late", "short"}
      /\ Excused \/ CacheLife
  BY <1>2, VaultTypes
<1>10. Short(l) => Excused'
  BY <1>2 DEF Excused
<1> QED BY <1>4, <1>5, <1>6, <1>7, <1>8, <1>9, <1>10, ExcuseStays, CallerMoves

\* An answer is stored: the cache counts a whole lease of a token that has lost no more
\* than a tick of it.
LEMMA CachesStep ==
    ASSUME VaultInv, NEW c \in Callers, Renew(c) \/ Login(c)
    PROVE  VaultInv'
<1>1. PICK to \in {"renewed", "loggedIn"}, from \in {"renewAnswer", "loginAnswer"} :
          Caches(c, from, to)
  BY DEF Renew, Login
<1>2. PICK k \in Tokens : k = caller[c].token
  BY <1>1, VaultTypes DEF Caches, CallerInv, Holding
<1>3. PICK rec : rec = [Moves(c, to) EXCEPT !.token = NoToken, !.lease = 0, !.renewable = FALSE]
  OBVIOUS
<1>4. rec \in CallerRecords /\ rec.at = to
  BY <1>3, VaultTypes DEF Moves, CallerRecords, Places
<1>5. Set(c, rec) /\ caller'[c] = rec /\ UNCHANGED <<life, vaultFaults, mishaps>>
  BY <1>1, <1>3 DEF Caches, Set, VaultInv, VaultTypeOK
<1>6. /\ cache' \in CacheRecords /\ cache'.token = k
      /\ cache'.left = caller[c].lease /\ cache'.lease = caller[c].lease
  BY <1>1, <1>2, VaultTypes DEF Caches, CallerRecords, CacheRecords
<1>7. CallerInv(c)' /\ CallerLife(c)'
  BY <1>4, <1>5, <1>6 DEF CallerInv, CallerLife, Holding
<1>8. ASSUME CallerLife(c) PROVE CacheLife'
  <2>1. /\ life[k] + Age(c) >= caller[c].lease /\ ~Short(caller[c].lease)
        /\ life[k] \in Nat /\ Age(c) \in 0..1 /\ caller[c].lease \in Nat
    BY <1>1, <1>2, <1>8, VaultTypes DEF CallerLife, Caches
  <2>2. caller[c].lease <= life[k] + 1 /\ ~Short(caller[c].lease)
    BY <2>1
  <2> QED BY <1>5, <1>6, <2>2 DEF CacheLife
<1>9. /\ life' \in [Tokens -> Nat] /\ \A x \in Tokens : life[x] <= life'[x] \/ ~InUse(x)
      /\ vaultFaults' \in 0..MaxVaultFaults
      /\ mishaps \subseteq mishaps' /\ mishaps' \subseteq {"refused", "revoked", "late", "short"}
      /\ Excused \/ CallerLife(c)
  BY <1>5, VaultTypes
<1> QED BY <1>2, <1>4, <1>5, <1>6, <1>7, <1>8, <1>9, ExcuseStays, CallerMoves

\* The request goes on with what is cached by then.
LEMMA TakesStep ==
    ASSUME VaultInv, NEW c \in Callers, TakeRenewed(c) \/ TakeLoggedIn(c)
    PROVE  VaultInv'
<1>1. /\ caller[c].at \in {"renewed", "loggedIn"}
      /\ UNCHANGED <<life, cache, vaultFaults, mishaps>>
      /\ \/ cache.token # NoToken /\ Uses(c)
         \/ cache.token = NoToken /\ (Set(c, Moves(c, "login")) \/ Rests(c, "threw"))
  BY DEF TakeRenewed, TakeLoggedIn
<1>2. /\ vaultFaults' \in 0..MaxVaultFaults /\ mishaps \subseteq mishaps'
      /\ mishaps' \subseteq {"refused", "revoked", "late", "short"}
  BY <1>1, VaultTypes
<1>3. CASE cache.token # NoToken /\ Uses(c)
  <2>1. PICK rec : rec = [Moves(c, "sent") EXCEPT !.token = cache.token]
    OBVIOUS
  <2>2. /\ rec \in CallerRecords /\ rec.at = "sent" /\ rec.token = cache.token
        /\ rec.age = FALSE
    BY <2>1, VaultTypes DEF Moves, CallerRecords, Places
  <2>3. cache.token \in Tokens /\ cache.left = cache.lease
    BY <1>1, <1>3, VaultTypes DEF CallerInv
  <2>4. Excused \/ cache.left >= 3
    BY <2>3, VaultTypes DEF CacheLife, Short
  <2>5. Set(c, rec)
    BY <1>3, <2>1 DEF Uses
  <2> QED BY <1>1, <2>2, <2>3, <2>4, <2>5, TokenUsed
<1>4. CASE cache.token = NoToken /\ (Set(c, Moves(c, "login")) \/ Rests(c, "threw"))
  <2>1. PICK rec \in {Moves(c, "login"), AtRest("threw")} : Set(c, rec)
    BY <1>4 DEF Rests
  <2>2. rec \in CallerRecords /\ rec.at \in {"login", "threw"}
    <3>1. Moves(c, "login") \in CallerRecords /\ Moves(c, "login").at = "login"
      BY VaultTypes DEF Moves, CallerRecords, Places
    <3>2. AtRest("threw") \in CallerRecords /\ AtRest("threw").at = "threw"
      BY DEF AtRest, CallerRecords, Places, Resting
    <3> QED BY <2>1, <3>1, <3>2
  <2>3. mishaps' # {}
    BY <1>1, <1>4, VaultTypes, VaultAssumption DEF CallerInv
  <2> QED BY <1>1, <1>2, <2>1, <2>2, <2>3, GoesElsewhere
<1> QED BY <1>1, <1>3, <1>4

\* A renewal or a login fails.
LEMMA FailsStep ==
    ASSUME VaultInv, NEW c \in Callers, RenewalFails(c) \/ LoginFails(c)
    PROVE  VaultInv'
<1>1. /\ vaultFaults' \in 0..MaxVaultFaults /\ mishaps \subseteq mishaps'
      /\ mishaps' \subseteq {"refused", "revoked", "late", "short"} /\ mishaps' # {}
  <2>1. CASE SpendVaultFault("refused")
    BY <2>1, VaultTypes, VaultAssumption DEF SpendVaultFault
  <2>2. CASE mishaps' = mishaps \cup {"late"} /\ UNCHANGED vaultFaults
    BY <2>2, VaultTypes
  <2> QED BY <2>1, <2>2 DEF RenewalFails, LoginFails
<1>2. /\ life' = life /\ (cache' = cache \/ cache' = Nothing)
  BY DEF RenewalFails, LoginFails
<1>3. PICK rec \in {[Moves(c, "login") EXCEPT !.token = NoToken, !.lease = 0,
                                              !.renewable = FALSE],
                    AtRest("threw")} : Set(c, rec)
  BY DEF RenewalFails, LoginFails, Rests
<1>4. rec \in CallerRecords /\ rec.at \in {"login", "threw"}
  <2>1. PICK m : m = [Moves(c, "login") EXCEPT !.token = NoToken, !.lease = 0,
                                               !.renewable = FALSE]
    OBVIOUS
  <2>2. m \in CallerRecords /\ m.at = "login"
    BY <2>1, VaultTypes DEF Moves, CallerRecords, Places
  <2>3. AtRest("threw") \in CallerRecords /\ AtRest("threw").at = "threw"
    BY DEF AtRest, CallerRecords, Places, Resting
  <2> QED BY <1>3, <2>1, <2>2, <2>3
<1> QED BY <1>1, <1>2, <1>3, <1>4, GoesElsewhere

\* The operation reaches Vault, or fails: a token in use is honoured unless it was revoked.
LEMMA RequestStep ==
    ASSUME VaultInv, NEW c \in Callers, Request(c) \/ RequestFails(c)
    PROVE  VaultInv'
<1>1. /\ caller[c].at = "sent" /\ life' = life /\ cache' = cache
      /\ \E how \in {"ok", "threw"} : Rests(c, how)
  BY DEF Request, RequestFails
<1>2. PICK how \in {"ok", "threw"} : Rests(c, how)
  BY <1>1
<1>3. /\ vaultFaults' \in 0..MaxVaultFaults /\ mishaps \subseteq mishaps'
      /\ mishaps' \subseteq {"refused", "revoked", "late", "short"}
  <2>1. CASE Request(c)
    BY <2>1, VaultTypes DEF Request
  <2>2. CASE RequestFails(c)
    BY <2>2, VaultTypes, VaultAssumption DEF RequestFails, SpendVaultFault
  <2> QED BY <2>1, <2>2
<1>4. PICK rec : rec = AtRest(how)
  OBVIOUS
<1>5. rec \in CallerRecords /\ rec.at = how /\ Set(c, rec)
  BY <1>2, <1>4 DEF AtRest, CallerRecords, Places, Resting, Rests
<1>6. how = "threw" => mishaps' # {}
  <2>1. CASE RequestFails(c)
    BY <2>1 DEF RequestFails, SpendVaultFault
  <2>2. CASE Request(c) /\ life[caller[c].token] > 0
    <3>1. Set(c, AtRest("ok")) /\ AtRest("ok").at = "ok"
      BY <2>2 DEF Request, Rests, AtRest
    <3>2. caller'[c] = AtRest("ok") /\ caller'[c] = rec
      BY <1>5, <3>1 DEF Set, VaultInv, VaultTypeOK
    <3> QED BY <1>5, <3>1, <3>2
  <2>3. CASE Request(c) /\ ~(life[caller[c].token] > 0)
    <3>1. PICK k \in Tokens : k = caller[c].token
      BY <1>1, VaultTypes DEF CallerInv, Holding
    <3>2. life[k] \in Nat /\ ~(life[k] > 0) /\ Age(c) \in 0..1
      BY <2>3, <3>1, VaultTypes
    <3>3. ~CallerLife(c)
      BY <1>1, <3>1, <3>2 DEF CallerLife
    <3>4. mishaps # {}
      BY <3>3, VaultTypes DEF Excused
    <3> QED BY <1>3, <3>4
  <2> QED BY <2>1, <2>2, <2>3
<1> QED BY <1>1, <1>3, <1>5, <1>6, GoesElsewhere

\* A token is revoked.
LEMMA RevokeStep ==
    ASSUME VaultInv, NEW k \in Tokens, Revoke(k)
    PROVE  VaultInv'
<1>1. /\ life' = [life EXCEPT ![k] = 0] /\ UNCHANGED <<cache, caller>>
      /\ mishaps' = mishaps \cup {"revoked"}
  BY DEF Revoke, SpendVaultFault
<1>2. vaultFaults' \in 0..MaxVaultFaults
  BY VaultAssumption DEF Revoke, SpendVaultFault, VaultInv, VaultTypeOK
<1>3. life' \in [Tokens -> Nat]
  BY <1>1 DEF VaultInv, VaultTypeOK
<1>4. VaultTypeOK'
  BY <1>1, <1>2, <1>3 DEF VaultInv, VaultTypeOK
<1>5. \A c \in Callers : CallerInv(c)'
  BY <1>1 DEF VaultInv, CallerInv
<1> QED BY <1>1, <1>4, <1>5 DEF VaultInv, Excused

\* A tick passes: a token that is answered or used was one tick younger before it.
LEMMA TickStep ==
    ASSUME VaultInv, Tick
    PROVE  VaultInv'
<1>1. /\ \A c \in Callers : /\ caller[c].at \notin {"renewed", "loggedIn"}
                            /\ caller[c].at \in Resting \/ ~caller[c].age
      /\ life' = [k \in Tokens |-> IF life[k] = 0 THEN 0 ELSE life[k] - 1]
      /\ cache' = [cache EXCEPT !.left = IF @ = 0 THEN 0 ELSE @ - 1]
      /\ caller' = [c \in Callers |-> [caller[c] EXCEPT !.age = caller[c].at \notin Resting]]
      /\ UNCHANGED <<vaultFaults, mishaps>>
  BY DEF Tick
<1>2. /\ life \in [Tokens -> Nat]
      /\ cache \in CacheRecords
      /\ caller \in [Callers -> CallerRecords]
  BY DEF VaultInv, VaultTypeOK, CallerRecords, CacheRecords
<1>3. /\ life' \in [Tokens -> Nat]
      /\ \A k \in Tokens : /\ life[k] \in Nat /\ life'[k] \in Nat
                           /\ life'[k] + 1 >= life[k]
  <2>1. ASSUME NEW k \in Tokens
        PROVE  life[k] \in Nat /\ life'[k] \in Nat /\ life'[k] + 1 >= life[k]
    <3>1. life[k] \in Nat
      BY <1>2
    <3>2. life'[k] = IF life[k] = 0 THEN 0 ELSE life[k] - 1
      BY <1>1
    <3> QED BY <3>1, <3>2
  <2>2. life' \in [Tokens -> Nat]
    BY <1>1, <2>1
  <2> QED BY <2>1, <2>2
<1>4. /\ cache'.token = cache.token /\ cache'.lease = cache.lease
      /\ cache.left \in Nat /\ cache'.left = IF cache.left = 0 THEN 0 ELSE cache.left - 1
      /\ cache' \in CacheRecords
  <2>1. PICK n \in Nat : n = IF cache.left = 0 THEN 0 ELSE cache.left - 1
    <3>1. cache.left \in Nat
      BY <1>2 DEF CacheRecords
    <3> QED BY <3>1
  <2>2. cache' = [cache EXCEPT !.left = n]
    BY <1>1, <2>1
  <2>3. cache \in CacheRecords
    BY <1>2
  <2> QED BY <2>1, <2>2, <2>3 DEF CacheRecords
<1>5. /\ caller' \in [Callers -> CallerRecords]
      /\ \A c \in Callers : /\ caller'[c].at = caller[c].at
                            /\ caller'[c].token = caller[c].token
                            /\ caller'[c].lease = caller[c].lease
                            /\ caller'[c].age <=> caller[c].at \notin Resting
  <2>1. ASSUME NEW c \in Callers
        PROVE  /\ caller'[c] \in CallerRecords /\ caller'[c].at = caller[c].at
               /\ caller'[c].token = caller[c].token
               /\ caller'[c].lease = caller[c].lease
               /\ caller'[c].age <=> caller[c].at \notin Resting
    <3>1. caller[c] \in CallerRecords
      BY <1>2
    <3>2. PICK b \in BOOLEAN : b = (caller[c].at \notin Resting)
      OBVIOUS
    <3>3. caller'[c] = [caller[c] EXCEPT !.age = b]
      BY <1>1, <3>2
    <3> QED BY <3>1, <3>2, <3>3 DEF CallerRecords
  <2>2. caller' \in [Callers -> CallerRecords]
    BY <1>1, <2>1
  <2> QED BY <2>1, <2>2
<1>6. VaultTypeOK'
  BY <1>1, <1>3, <1>4, <1>5 DEF VaultInv, VaultTypeOK, CallerRecords, CacheRecords
<1>7. cache'.token \notin Tokens => cache'.left = 0
  BY <1>4 DEF VaultInv
<1>8. \A c \in Callers : CallerInv(c)'
  BY <1>1, <1>5 DEF VaultInv, CallerInv
<1>9. ASSUME CacheLife PROVE CacheLife'
  <2>1. CASE cache.token \in Tokens
    <3>1. PICK k \in Tokens : k = cache.token
      BY <2>1
    <3>2. /\ life[k] \in Nat /\ cache.left \in Nat /\ cache.left <= life[k] + 1
          /\ life'[k] = IF life[k] = 0 THEN 0 ELSE life[k] - 1
      BY <1>1, <1>2, <1>3, <1>4, <1>9, <3>1 DEF CacheLife
    <3>3. cache'.left <= life'[k] + 1
      BY <1>4, <3>2
    <3> QED BY <1>4, <1>9, <2>1, <3>1, <3>3 DEF CacheLife
  <2>2. CASE cache.token \notin Tokens
    BY <1>4, <2>2 DEF CacheLife
  <2> QED BY <2>1, <2>2
<1>10. ASSUME NEW c \in Callers, CallerLife(c) PROVE CallerLife(c)'
  <2>1. CASE caller[c].at \in {"renewAnswer", "loginAnswer", "sent"}
    <3>1. PICK k \in Tokens : k = caller[c].token
      BY <2>1 DEF VaultInv, CallerInv, Holding
    <3>2. caller[c].at \notin Resting
      BY <2>1 DEF Resting
    <3>3. Age(c) = 0 /\ Age(c)' = 1
      BY <1>1, <1>5, <3>2 DEF Age
    <3>4. /\ life[k] \in Nat /\ life'[k] \in Nat /\ life'[k] + 1 >= life[k]
          /\ caller[c].lease \in Nat
      BY <1>3, VaultTypes
    <3> QED BY <1>5, <1>10, <3>1, <3>3, <3>4 DEF CallerLife
  <2>2. CASE caller[c].at \notin {"renewAnswer", "loginAnswer", "sent"}
    BY <1>5, <2>2 DEF CallerLife
  <2> QED BY <2>1, <2>2
<1> QED BY <1>1, <1>6, <1>7, <1>8, <1>9, <1>10 DEF VaultInv, Excused

\* The invariant of the secrets holds at first, and every step keeps it.
LEMMA VaultInvariant ==
    /\ VaultInit => VaultInv
    /\ VaultInv /\ VaultNext => VaultInv'
    /\ VaultInv /\ UNCHANGED vaultVars => VaultInv'
<1>1. ASSUME VaultInit PROVE VaultInv
  <2> USE <1>1 DEF VaultInit
  <2>1. VaultTypeOK
    <3>1. Nothing \in CacheRecords
      BY VaultAssumption DEF Nothing, CacheRecords
    <3>2. AtRest("idle") \in CallerRecords
      BY DEF AtRest, CallerRecords, Places, Resting
    <3>3. life \in [Tokens -> Nat] /\ vaultFaults \in 0..MaxVaultFaults
      BY VaultAssumption
    <3>4. caller \in [Callers -> CallerRecords]
      BY <3>2
    <3> QED BY <3>1, <3>3, <3>4 DEF VaultTypeOK, CallerRecords, CacheRecords
  <2>2. \A c \in Callers : caller[c].at = "idle"
    BY DEF AtRest
  <2>3. cache.token \notin Tokens /\ cache.left = 0
    BY VaultAssumption DEF Nothing
  <2> QED BY <2>1, <2>2, <2>3 DEF VaultInv, CallerInv, CacheLife, CallerLife, Holding
<1>2. ASSUME VaultInv, VaultNext PROVE VaultInv'
  BY <1>2, ResolveTokenStep, VaultAnswersStep, CachesStep, TakesStep, FailsStep, RequestStep,
     RevokeStep, TickStep DEF VaultNext, SecretStep
<1>3. ASSUME VaultInv, UNCHANGED vaultVars PROVE VaultInv'
  BY <1>3 DEF vaultVars, VaultInv, VaultTypeOK, CallerInv, CacheLife, CallerLife, Age, Excused
<1> QED BY <1>1, <1>2, <1>3

-----------------------------------------------------------------------------
(* Proofs: the log of model calls *)

\* A row that joins rows it is not among.
LEMMA RowAppended ==
    ASSUME NEW S, NEW s \in Seq(S), NEW x \in S
    PROVE  /\ Append(s, x) \in Seq(S) /\ Len(Append(s, x)) = Len(s) + 1
           /\ ToSet(Append(s, x)) = ToSet(s) \cup {x}
           /\ Once(s) /\ x \notin ToSet(s) => Once(Append(s, x))
<1>1. /\ Append(s, x) \in Seq(S) /\ Len(Append(s, x)) = Len(s) + 1
      /\ \A i \in 1..Len(s) : Append(s, x)[i] = s[i]
      /\ Append(s, x)[Len(s) + 1] = x
  BY AppendProperties
<1>2. DOMAIN s = 1..Len(s) /\ DOMAIN Append(s, x) = 1..(Len(s) + 1) /\ Len(s) \in Nat
  BY <1>1, LenProperties
<1>3. 1..(Len(s) + 1) = (1..Len(s)) \cup {Len(s) + 1}
  BY <1>2
<1>4. ToSet(Append(s, x)) = ToSet(s) \cup {x}
  BY <1>1, <1>2, <1>3 DEF ToSet
<1>5. ASSUME Once(s), x \notin ToSet(s) PROVE Once(Append(s, x))
  <2>1. \A i \in 1..Len(s) : s[i] # x
    BY <1>2, <1>5 DEF ToSet
  <2> QED BY <1>1, <1>2, <1>3, <1>5, <2>1 DEF Once
<1> QED BY <1>1, <1>4, <1>5

\* Rows that follow others.
LEMMA RowsJoined ==
    ASSUME NEW S, NEW s \in Seq(S), NEW t \in Seq(S)
    PROVE  /\ s \o t \in Seq(S) /\ ToSet(s \o t) = ToSet(s) \cup ToSet(t)
           /\ Once(s) /\ Once(t) /\ ToSet(s) \cap ToSet(t) = {} => Once(s \o t)
<1>1. /\ s \o t \in Seq(S) /\ Len(s \o t) = Len(s) + Len(t)
      /\ \A i \in 1..Len(s) : (s \o t)[i] = s[i]
      /\ \A i \in 1..Len(t) : (s \o t)[Len(s) + i] = t[i]
  BY ConcatProperties
<1>2. /\ DOMAIN s = 1..Len(s) /\ DOMAIN t = 1..Len(t) /\ Len(s) \in Nat /\ Len(t) \in Nat
      /\ DOMAIN (s \o t) = 1..(Len(s) + Len(t))
  BY <1>1, LenProperties
<1>3. \A i \in 1..(Len(s) + Len(t)) :
          i \in 1..Len(s) \/ \E j \in 1..Len(t) : i = Len(s) + j
  <2>1. ASSUME NEW i \in 1..(Len(s) + Len(t)), i \notin 1..Len(s)
        PROVE  i - Len(s) \in 1..Len(t) /\ i = Len(s) + (i - Len(s))
    BY <1>2, <2>1
  <2> QED BY <2>1
<1>4. \A i \in 1..Len(s) : i \in 1..(Len(s) + Len(t))
  BY <1>2
<1>5. \A j \in 1..Len(t) : Len(s) + j \in 1..(Len(s) + Len(t))
  BY <1>2
<1>6. ToSet(s \o t) = ToSet(s) \cup ToSet(t)
  <2>1. ASSUME NEW x \in ToSet(s \o t) PROVE x \in ToSet(s) \cup ToSet(t)
    <3>1. PICK i \in 1..(Len(s) + Len(t)) : (s \o t)[i] = x
      BY <1>2 DEF ToSet
    <3>2. CASE i \in 1..Len(s)
      BY <1>1, <1>2, <3>1, <3>2 DEF ToSet
    <3>3. CASE \E j \in 1..Len(t) : i = Len(s) + j
      BY <1>1, <1>2, <3>1, <3>3 DEF ToSet
    <3> QED BY <1>3, <3>2, <3>3
  <2>2. ASSUME NEW x \in ToSet(s) PROVE x \in ToSet(s \o t)
    <3>1. PICK i \in 1..Len(s) : s[i] = x
      BY <1>2 DEF ToSet
    <3> QED BY <1>1, <1>2, <1>4, <3>1 DEF ToSet
  <2>3. ASSUME NEW x \in ToSet(t) PROVE x \in ToSet(s \o t)
    <3>1. PICK j \in 1..Len(t) : t[j] = x
      BY <1>2 DEF ToSet
    <3> QED BY <1>1, <1>2, <1>5, <3>1 DEF ToSet
  <2> QED BY <2>1, <2>2, <2>3
<1>7. ASSUME Once(s), Once(t), ToSet(s) \cap ToSet(t) = {} PROVE Once(s \o t)
  <2>1. \A i \in 1..Len(s), j \in 1..Len(t) : s[i] # t[j]
    BY <1>2, <1>7 DEF ToSet
  <2> SUFFICES ASSUME NEW i \in 1..(Len(s) + Len(t)), NEW j \in 1..(Len(s) + Len(t)),
                      (s \o t)[i] = (s \o t)[j]
               PROVE  i = j
    BY <1>1 DEF Once
  <2>2. CASE i \in 1..Len(s) /\ j \in 1..Len(s)
    BY <1>1, <1>7, <2>2 DEF Once
  <2>3. CASE i \in 1..Len(s) /\ \E k \in 1..Len(t) : j = Len(s) + k
    BY <1>1, <2>1, <2>3
  <2>4. CASE j \in 1..Len(s) /\ \E k \in 1..Len(t) : i = Len(s) + k
    BY <1>1, <2>1, <2>4
  <2>5. ASSUME NEW k \in 1..Len(t), i = Len(s) + k, NEW l \in 1..Len(t), j = Len(s) + l
        PROVE  i = j
    BY <1>1, <1>7, <2>5 DEF Once
  <2> QED BY <1>3, <2>2, <2>3, <2>4, <2>5
<1> QED BY <1>1, <1>6, <1>7

\* A row that occurs once is counted once.
LEMMA CountedOnce ==
    ASSUME NEW S, NEW s \in Seq(S), Once(s), NEW x
    PROVE  Count(x, s) = IF x \in ToSet(s) THEN 1 ELSE 0
<1> DEFINE At == {i \in DOMAIN s : s[i] = x}
<1>1. DOMAIN s = 1..Len(s)
  BY LenProperties
<1>2. CASE x \in ToSet(s)
  <2>1. PICK i \in DOMAIN s : s[i] = x
    BY <1>2 DEF ToSet
  <2>2. At = {i}
    BY <1>1, <2>1 DEF Once
  <2> QED BY <1>2, <2>2, FS_Singleton DEF Count
<1>3. CASE x \notin ToSet(s)
  <2>1. At = {}
    BY <1>3 DEF ToSet
  <2> QED BY <1>3, <2>1, FS_EmptySet DEF Count
<1> QED BY <1>2, <1>3

\* What is there to know of the log and of a call's row.
LEMMA LogTypes ==
    ASSUME LogInv
    PROVE  /\ buffer \in Seq(LlmCalls) /\ Len(buffer) \in Nat /\ table \in Seq(LlmCalls)
           /\ batches \subseteq Seq(LlmCalls)
           /\ MaxBatchSize \in Nat \ {0} /\ Retries \in Nat /\ MaxLogFaults \in Nat
           /\ <<>> \in Seq(LlmCalls) /\ Len(<<>>) = 0 /\ ToSet(<<>>) = {} /\ Once(<<>>)
           /\ \A c \in LlmCalls : call[c].attempt \in 0..Retries
<1>1. buffer \in Seq(LlmCalls) /\ table \in Seq(LlmCalls) /\ batches \subseteq Seq(LlmCalls)
  BY DEF LogInv, LogTypeOK
<1>2. Len(buffer) \in Nat
  BY <1>1, LenProperties
<1>3. MaxBatchSize \in Nat \ {0} /\ Retries \in Nat /\ MaxLogFaults \in Nat
  BY LogAssumption
<1>4. <<>> \in Seq(LlmCalls) /\ Len(<<>>) = 0
  BY EmptySeq
<1>5. ToSet(<<>>) = {} /\ Once(<<>>)
  BY <1>4 DEF ToSet, Once
<1>6. \A c \in LlmCalls : call[c].attempt \in 0..Retries
  BY DEF LogInv, LogTypeOK
<1> QED BY <1>1, <1>2, <1>3, <1>4, <1>5, <1>6

\* A call that does not return changes no row.
LEMMA CallGoesOn ==
    ASSUME LogInv, NEW c \in LlmCalls,
           StartCall(c) \/ WakeUp(c) \/ \E b \in BOOLEAN : AttemptFails(c, b)
    PROVE  LogInv'
<1>1. /\ UNCHANGED <<sink, buffer, batches, table, logFaults, dropped, process>>
      /\ call[c].at \in {"idle", "sleeping", "calling"}
  BY DEF StartCall, WakeUp, AttemptFails
<1>2. call \in [LlmCalls -> [at : {"idle", "calling", "sleeping", "returned", "threw"},
                             attempt : 0..Retries]]
  BY DEF LogInv, LogTypeOK
<1>3. /\ call' \in [LlmCalls -> [at : {"idle", "calling", "sleeping", "returned", "threw"},
                                attempt : 0..Retries]]
      /\ \A d \in LlmCalls \ {c} : call'[d] = call[d]
      /\ call'[c].at \in {"calling", "sleeping", "threw"}
      /\ call'[c].at = "sleeping" => call'[c].attempt < Retries
  <2>1. CASE StartCall(c)
    BY <1>2, <2>1 DEF StartCall
  <2>2. CASE WakeUp(c)
    <3>1. call[c].attempt + 1 \in 0..Retries
      BY <2>2, LogTypes DEF WakeUp, LogInv, RetryInv
    <3> QED BY <1>2, <2>2, <3>1 DEF WakeUp
  <2>3. CASE \E b \in BOOLEAN : AttemptFails(c, b)
    <3>1. PICK to \in {"sleeping", "threw"} : /\ call' = [call EXCEPT ![c].at = to]
                                              /\ to = "sleeping" => call[c].attempt < Retries
      BY <2>3 DEF AttemptFails
    <3> QED BY <1>2, <3>1
  <2> QED BY <2>1, <2>2, <2>3
<1>4. LogTypeOK'
  <2>1. sink' \in BOOLEAN /\ process' \in BOOLEAN
    BY <1>1, Zenon DEF LogInv, LogTypeOK
  <2> QED BY <1>1, <1>3, <2>1 DEF LogInv, LogTypeOK
<1>5. RowsInv' /\ RetryInv'
  BY <1>1, <1>3 DEF LogInv, RowsInv, RetryInv
<1>6. HeldInv'
  <2>1. \A d \in LlmCalls : call'[d].at = "returned" <=> call[d].at = "returned"
    BY <1>1, <1>3
  <2>2. \A d \in LlmCalls : Held(d)' <=> Held(d)
    BY <1>1 DEF Held
  <2>3. dropped \subseteq LlmCalls
    BY DEF LogInv, LogTypeOK
  <2> QED BY <1>1, <2>1, <2>2, <2>3 DEF LogInv, HeldInv
<1> QED BY <1>4, <1>5, <1>6 DEF LogInv

\* A call returns: its row joins the buffer, or the batch that the buffer becomes.
LEMMA CallReturns ==
    ASSUME LogInv, NEW c \in LlmCalls, AttemptSucceeds(c)
    PROVE  LogInv'
<1>1. /\ call[c].at = "calling" /\ call' = [call EXCEPT ![c].at = "returned"]
      /\ UNCHANGED <<sink, table, logFaults, dropped, process>>
      /\ sink => Log(c)
      /\ ~sink => UNCHANGED <<buffer, batches>>
  BY DEF AttemptSucceeds
<1>2. /\ call' \in [LlmCalls -> [at : {"idle", "calling", "sleeping", "returned", "threw"},
                                 attempt : 0..Retries]]
      /\ \A d \in LlmCalls \ {c} : call'[d] = call[d]
      /\ call'[c].at = "returned"
  BY <1>1 DEF LogInv, LogTypeOK
<1>3. c \notin dropped /\ dropped \subseteq LlmCalls /\ ~Held(c)
  BY <1>1 DEF LogInv, HeldInv, LogTypeOK
<1>4. sink' \in BOOLEAN /\ process' \in BOOLEAN
  BY <1>1, Zenon DEF LogInv, LogTypeOK
<1>5. RetryInv'
  BY <1>2 DEF LogInv, RetryInv
<1>6. CASE ~sink
  <2>1. LogTypeOK'
    BY <1>1, <1>2, <1>4, <1>6 DEF LogInv, LogTypeOK
  <2>2. RowsInv'
    BY <1>1, <1>6 DEF LogInv, RowsInv
  <2>3. HeldInv'
    BY <1>1, <1>2, <1>3, <1>6 DEF LogInv, HeldInv, Held
  <2> QED BY <1>5, <2>1, <2>2, <2>3 DEF LogInv
<1>7. CASE sink
  <2>1. PICK more : more = Append(buffer, c)
    OBVIOUS
  <2>2. /\ more \in Seq(LlmCalls) /\ Len(more) = Len(buffer) + 1
        /\ ToSet(more) = ToSet(buffer) \cup {c} /\ Once(more)
    BY <1>3, <2>1, LogTypes, RowAppended DEF LogInv, RowsInv, Held
  <2>3. \/ buffer' = <<>> /\ batches' = batches \cup {more}
        \/ buffer' = more /\ batches' = batches /\ Len(more) < MaxBatchSize
    <3>1. Len(more) \in Nat /\ MaxBatchSize \in Nat
      BY <2>2, LogTypes
    <3> QED BY <1>1, <1>7, <2>1, <3>1 DEF Log, Flush
  <2>4. LogTypeOK'
    <3>1. buffer' \in Seq(LlmCalls) /\ Len(buffer') < MaxBatchSize
          /\ batches' \subseteq Seq(LlmCalls)
      <4>1. CASE buffer' = <<>> /\ batches' = batches \cup {more}
        BY <2>2, <4>1, LogTypes
      <4>2. CASE buffer' = more /\ batches' = batches /\ Len(more) < MaxBatchSize
        BY <2>2, <4>2, LogTypes
      <4> QED BY <2>3, <4>1, <4>2
    <3> QED BY <1>1, <1>2, <1>4, <3>1 DEF LogInv, LogTypeOK
  <2>5. RowsInv'
    <3>1. ToSet(more) \cap ToSet(table) = {}
      BY <1>3, <2>2 DEF LogInv, RowsInv, Held
    <3>2. \A b \in batches : ToSet(more) \cap ToSet(b) = {}
      BY <1>3, <2>2 DEF LogInv, RowsInv, Held
    <3>3. CASE buffer' = <<>> /\ batches' = batches \cup {more}
      BY <1>1, <2>2, <3>1, <3>2, <3>3, LogTypes DEF LogInv, RowsInv
    <3>4. CASE buffer' = more /\ batches' = batches
      BY <1>1, <2>2, <3>1, <3>2, <3>4 DEF LogInv, RowsInv
    <3> QED BY <2>3, <3>3, <3>4
  <2>6. \A d \in LlmCalls : Held(d)' <=> Held(d) \/ d = c
    <3>1. CASE buffer' = <<>> /\ batches' = batches \cup {more}
      BY <1>1, <2>2, <3>1, LogTypes DEF Held
    <3>2. CASE buffer' = more /\ batches' = batches
      BY <1>1, <2>2, <3>2 DEF Held
    <3> QED BY <2>3, <3>1, <3>2
  <2>7. HeldInv'
    BY <1>1, <1>2, <1>3, <1>7, <2>6 DEF LogInv, HeldInv
  <2> QED BY <1>5, <2>4, <2>5, <2>7 DEF LogInv
<1> QED BY <1>6, <1>7

\* The buffer becomes a batch, or is lost with the process.
LEMMA BufferLeaves ==
    ASSUME LogInv, AutoFlush \/ Stop
    PROVE  LogInv'
<1>1. /\ buffer' = <<>> /\ UNCHANGED <<sink, call, table, logFaults>> /\ process' \in BOOLEAN
      /\ \/ batches' = batches \cup {buffer} /\ dropped' = dropped
         \/ batches' = batches /\ dropped' = dropped \cup ToSet(buffer)
  <2>1. CASE AutoFlush
    <3>1. process' \in BOOLEAN
      BY <2>1, Zenon DEF AutoFlush, LogInv, LogTypeOK
    <3> QED BY <2>1, <3>1 DEF AutoFlush, Flush
  <2>2. CASE Stop
    <3>1. process' \in BOOLEAN
      BY <2>2, Zenon DEF Stop
    <3> QED BY <2>2, <3>1 DEF Stop
  <2> QED BY <2>1, <2>2
<1>2. sink' \in BOOLEAN
  BY <1>1, Zenon DEF LogInv, LogTypeOK
<1>3. ToSet(buffer) \subseteq LlmCalls
  <2>1. DOMAIN buffer = 1..Len(buffer) /\ \A i \in 1..Len(buffer) : buffer[i] \in LlmCalls
    BY LogTypes, LenProperties, ElementOfSeq
  <2> QED BY <2>1 DEF ToSet
<1>4. \A c \in ToSet(buffer) : call[c].at = "returned" /\ c \notin dropped
  BY <1>3 DEF LogInv, HeldInv, Held
<1>5. LogTypeOK'
  BY <1>1, <1>2, <1>3, LogTypes DEF LogInv, LogTypeOK
<1>6. RowsInv'
  <2>1. CASE batches' = batches \cup {buffer}
    BY <1>1, <2>1, LogTypes DEF LogInv, RowsInv
  <2>2. CASE batches' = batches
    BY <1>1, <2>2, LogTypes DEF LogInv, RowsInv
  <2> QED BY <1>1, <2>1, <2>2
<1>7. HeldInv'
  <2>1. CASE batches' = batches \cup {buffer} /\ dropped' = dropped
    <3>1. \A c \in LlmCalls : Held(c)' <=> Held(c)
      BY <1>1, <2>1, LogTypes DEF Held
    <3> QED BY <1>1, <2>1, <3>1 DEF LogInv, HeldInv
  <2>2. CASE batches' = batches /\ dropped' = dropped \cup ToSet(buffer)
    <3>1. \A c \in LlmCalls : Held(c)' <=> Held(c) /\ c \notin ToSet(buffer)
      BY <1>1, <2>2, LogTypes DEF Held, LogInv, RowsInv
    <3> QED BY <1>1, <1>4, <2>2, <3>1 DEF LogInv, HeldInv
  <2> QED BY <1>1, <2>1, <2>2
<1>8. RetryInv'
  BY <1>1 DEF LogInv, RetryInv
<1> QED BY <1>5, <1>6, <1>7, <1>8 DEF LogInv

\* ClickHouse answers a batch, with its rows or without them.
LEMMA BatchAnswered ==
    ASSUME LogInv, NEW b \in batches, Inserted(b) \/ InsertFails(b)
    PROVE  LogInv'
<1>1. /\ UNCHANGED <<sink, call, buffer, process>> /\ batches' = batches \ {b}
      /\ \/ table' = table \o b /\ dropped' = dropped
         \/ table' = table /\ dropped' = dropped \cup ToSet(b)
  BY DEF Inserted, InsertFails
<1>2. logFaults' \in 0..MaxLogFaults
  BY LogTypes DEF Inserted, InsertFails, LogInv, LogTypeOK
<1>3. sink' \in BOOLEAN /\ process' \in BOOLEAN
  BY <1>1, Zenon DEF LogInv, LogTypeOK
<1>4. b \in Seq(LlmCalls) /\ ToSet(b) \subseteq LlmCalls
  <2>1. b \in Seq(LlmCalls)
    BY LogTypes
  <2>2. DOMAIN b = 1..Len(b) /\ \A i \in 1..Len(b) : b[i] \in LlmCalls
    BY <2>1, LenProperties, ElementOfSeq
  <2> QED BY <2>1, <2>2 DEF ToSet
<1>5. \A c \in ToSet(b) : call[c].at = "returned" /\ c \notin dropped
  BY <1>4 DEF LogInv, HeldInv, Held
<1>6. /\ table \o b \in Seq(LlmCalls) /\ ToSet(table \o b) = ToSet(table) \cup ToSet(b)
      /\ Once(table \o b)
  BY <1>4, LogTypes, RowsJoined DEF LogInv, RowsInv
<1>7. \A d \in batches \ {b} : ToSet(d) \cap ToSet(b) = {}
  BY DEF LogInv, RowsInv
<1>8. LogTypeOK'
  <2>1. table' \in Seq(LlmCalls) /\ dropped' \subseteq LlmCalls /\ batches' \subseteq batches
    BY <1>1, <1>4, <1>6, LogTypes DEF LogInv, LogTypeOK
  <2> QED BY <1>1, <1>2, <1>3, <2>1 DEF LogInv, LogTypeOK
<1>9. RowsInv'
  <2>1. CASE table' = table \o b
    BY <1>1, <1>6, <1>7, <2>1 DEF LogInv, RowsInv
  <2>2. CASE table' = table
    BY <1>1, <2>2 DEF LogInv, RowsInv
  <2> QED BY <1>1, <2>1, <2>2
<1>10. HeldInv'
  <2>1. CASE table' = table \o b /\ dropped' = dropped
    <3>1. \A c \in LlmCalls : Held(c)' <=> Held(c)
      BY <1>1, <1>6, <2>1 DEF Held
    <3> QED BY <1>1, <2>1, <3>1 DEF LogInv, HeldInv
  <2>2. CASE table' = table /\ dropped' = dropped \cup ToSet(b)
    <3>1. \A c \in LlmCalls : Held(c)' <=> Held(c) /\ c \notin ToSet(b)
      BY <1>1, <1>7, <2>2 DEF Held, LogInv, RowsInv
    <3> QED BY <1>1, <1>5, <2>2, <3>1 DEF LogInv, HeldInv
  <2> QED BY <1>1, <2>1, <2>2
<1>11. RetryInv'
  BY <1>1 DEF LogInv, RetryInv
<1> QED BY <1>8, <1>9, <1>10, <1>11 DEF LogInv

\* The invariant of the log holds at first, and every step keeps it.
LEMMA LogInvariant ==
    /\ LogInit => LogInv
    /\ LogInv /\ LogNext => LogInv'
    /\ LogInv /\ UNCHANGED logVars => LogInv'
<1>1. ASSUME LogInit PROVE LogInv
  <2> USE <1>1 DEF LogInit
  <2>1. <<>> \in Seq(LlmCalls) /\ Len(<<>>) = 0
    BY EmptySeq
  <2>2. ToSet(<<>>) = {} /\ Once(<<>>)
    BY <2>1 DEF ToSet, Once
  <2>3. sink \in BOOLEAN /\ process \in BOOLEAN
    BY Zenon
  <2>4. LogTypeOK
    BY <2>1, <2>3, LogAssumption DEF LogTypeOK
  <2>5. RowsInv /\ HeldInv /\ RetryInv
    BY <2>2 DEF RowsInv, HeldInv, Held, RetryInv
  <2> QED BY <2>4, <2>5 DEF LogInv
<1>2. ASSUME LogInv, LogNext PROVE LogInv'
  BY <1>2, CallGoesOn, CallReturns, BufferLeaves, BatchAnswered DEF LogNext, CallStep
<1>3. ASSUME LogInv, UNCHANGED logVars PROVE LogInv'
  BY <1>3 DEF logVars, LogInv, LogTypeOK, RowsInv, HeldInv, Held, RetryInv
<1> QED BY <1>1, <1>2, <1>3

-----------------------------------------------------------------------------
(* Proofs: work from Paperclip *)

\* Whether replica w has issue i in hand.
InHand(w, i) == IF w \in Claimants(i) THEN 1 ELSE 0

\* The sets that are counted are finite.
LEMMA FiniteClaims ==
    ASSUME BeatInv, NEW i \in Issues
    PROVE  /\ IsFiniteSet(RowsOf(i)) /\ Cardinality(RowsOf(i)) \in Nat
           /\ IsFiniteSet(Claimants(i)) /\ Cardinality(Claimants(i)) \in Nat
           /\ moves \in Nat /\ beatFaults \in Nat
<1>1. RowsOf(i) \subseteq rows /\ IsFiniteSet(rows)
  BY DEF BeatInv, ClaimsInv, RowsOf
<1>2. Claimants(i) \subseteq Replicas /\ IsFiniteSet(Replicas)
  BY HeartbeatAssumption DEF Claimants
<1>3. IsFiniteSet(RowsOf(i)) /\ IsFiniteSet(Claimants(i))
  BY <1>1, <1>2, FS_Subset
<1>4. moves \in Nat /\ beatFaults \in Nat
  BY HeartbeatAssumption DEF BeatInv, BeatTypeOK
<1> QED BY <1>3, <1>4, FS_CardinalityType

\* A set that only the presence of w may change.
LEMMA OneMember ==
    ASSUME NEW S, IsFiniteSet(S), NEW T, NEW w, S \ {w} = T \ {w}
    PROVE  /\ IsFiniteSet(T) /\ Cardinality(T) \in Nat
           /\ Cardinality(T) + (IF w \in S THEN 1 ELSE 0) =
                 Cardinality(S) + (IF w \in T THEN 1 ELSE 0)
<1>1. PICK K : K = S \ {w} /\ w \notin K
  OBVIOUS
<1>2. IsFiniteSet(K) /\ Cardinality(K) \in Nat
  BY <1>1, FS_Subset, FS_CardinalityType
<1>3. IsFiniteSet(K \cup {w}) /\ Cardinality(K \cup {w}) = Cardinality(K) + 1
  BY <1>1, <1>2, FS_AddElement
<1>4. S = (IF w \in S THEN K \cup {w} ELSE K) /\ T = (IF w \in T THEN K \cup {w} ELSE K)
  BY <1>1
<1> QED BY <1>2, <1>3, <1>4

\* The claims on an issue that only replica w may take up or put down.
LEMMA HandsCounted ==
    ASSUME BeatInv, NEW w \in Replicas, NEW i \in Issues,
           \A v \in Replicas \ {w} : poll'[v] = poll[v]
    PROVE  /\ Cardinality(Claimants(i)') \in Nat
           /\ Cardinality(Claimants(i)') + InHand(w, i) =
                 Cardinality(Claimants(i)) + InHand(w, i)'
<1>1. Claimants(i) \ {w} = Claimants(i)' \ {w}
  BY DEF Claimants
<1>2. IsFiniteSet(Claimants(i))
  BY FiniteClaims
<1> DEFINE S == Claimants(i)
           T == Claimants(i)'
<1>3. S \ {w} = T \ {w} /\ IsFiniteSet(S)
  BY <1>1, <1>2
<1>4. InHand(w, i) = (IF w \in S THEN 1 ELSE 0) /\ InHand(w, i)' = (IF w \in T THEN 1 ELSE 0)
  BY DEF InHand
<1> HIDE DEF S, T
<1>5. /\ IsFiniteSet(T) /\ Cardinality(T) \in Nat
      /\ Cardinality(T) + (IF w \in S THEN 1 ELSE 0) =
            Cardinality(S) + (IF w \in T THEN 1 ELSE 0)
  BY <1>3, OneMember
<1> QED BY <1>4, <1>5 DEF S, T

\* The rows of an issue when one may be added.
LEMMA RowsCounted ==
    ASSUME BeatInv, NEW j \in Issues, NEW x, x.issue = j, NEW new \in {0, 1},
           rows' = IF new = 1 THEN rows \cup {x} ELSE rows
    PROVE  /\ IsFiniteSet(rows')
           /\ \A i \in Issues \ {j} : RowsOf(i)' = RowsOf(i)
           /\ Cardinality(RowsOf(j)') \in Nat
           /\ Cardinality(RowsOf(j)') <= Cardinality(RowsOf(j)) + new
<1>1. IsFiniteSet(rows) /\ IsFiniteSet(RowsOf(j)) /\ Cardinality(RowsOf(j)) \in Nat
  BY FiniteClaims DEF BeatInv, ClaimsInv
<1>2. CASE new = 0
  <2>1. rows' = rows /\ \A i \in Issues : RowsOf(i)' = RowsOf(i)
    BY <1>2 DEF RowsOf
  <2> QED BY <1>1, <1>2, <2>1
<1>3. CASE new = 1
  <2>1. rows' = rows \cup {x}
    BY <1>3
  <2>2. IsFiniteSet(rows')
    BY <1>1, <2>1, FS_AddElement
  <2>3. \A i \in Issues \ {j} : RowsOf(i)' = RowsOf(i)
    BY <2>1 DEF RowsOf
  <2>4. RowsOf(j)' = RowsOf(j) \cup {x}
    BY <2>1 DEF RowsOf
  <2>5. /\ IsFiniteSet(RowsOf(j) \cup {x})
        /\ Cardinality(RowsOf(j) \cup {x}) = IF x \in RowsOf(j) THEN Cardinality(RowsOf(j))
                                             ELSE Cardinality(RowsOf(j)) + 1
    BY <1>1, FS_AddElement
  <2> QED BY <1>1, <1>3, <2>2, <2>3, <2>4, <2>5
<1> QED BY <1>2, <1>3

\* The bound on the claims of one issue, as the claims and what may pay for them change.
LEMMA ClaimsPaid ==
    ASSUME NEW R \in Nat, NEW C \in Nat, NEW B \in Nat, NEW S \in {0, 1},
           NEW Rn \in Nat, NEW Cn \in Nat, NEW Sn \in {0, 1},
           NEW new \in {0, 1}, NEW h \in {0, 1}, NEW hn \in {0, 1}, NEW paid \in {0, 1},
           R + C <= B + S, Rn <= R + new, Cn + h = C + hn,
           new + hn + S <= h + Sn + paid
    PROVE  Rn + Cn <= B + paid + Sn
  OBVIOUS

\* A step of one replica, with the issue it has in hand: claims, rows and faults balance.
LEMMA ReplicaBalances ==
    ASSUME BeatInv, NEW w \in Replicas, NEW j \in Issues, poll[w].doing \subseteq {j},
           \A v \in Replicas \ {w} : poll'[v] = poll[v], poll'[w].doing \subseteq {j},
           \A i \in Issues \ {j} : issue'[i] = issue[i],
           NEW x, x.issue = j, NEW new \in {0, 1},
           rows' = IF new = 1 THEN rows \cup {x} ELSE rows,
           moves' = moves, NEW paid \in {0, 1}, beatFaults' = beatFaults + paid,
           new + InHand(w, j)' + Spent(j) <= InHand(w, j) + Spent(j)' + paid
    PROVE  ClaimsInv'
<1>1. /\ IsFiniteSet(rows') /\ \A i \in Issues \ {j} : RowsOf(i)' = RowsOf(i)
      /\ Cardinality(RowsOf(j)') \in Nat
      /\ Cardinality(RowsOf(j)') <= Cardinality(RowsOf(j)) + new
  BY RowsCounted
<1>2. ASSUME NEW i \in Issues, i # j
      PROVE  Cardinality(RowsOf(i)') + Cardinality(Claimants(i)') <=
                 moves' + beatFaults' + Spent(i)'
  <2>1. Claimants(i)' = Claimants(i) /\ RowsOf(i)' = RowsOf(i) /\ Spent(i)' = Spent(i)
    BY <1>1, <1>2 DEF Claimants, Spent
  <2>2. Cardinality(RowsOf(i)) + Cardinality(Claimants(i)) <= moves + beatFaults + Spent(i)
    BY <1>2 DEF BeatInv, ClaimsInv
  <2>3. Spent(i) \in Nat
    BY DEF Spent
  <2> QED BY <2>1, <2>2, <2>3, FiniteClaims
<1>3. Cardinality(RowsOf(j)') + Cardinality(Claimants(j)') <=
          moves' + beatFaults' + Spent(j)'
  <2>1. Cardinality(RowsOf(j)) + Cardinality(Claimants(j)) <= moves + beatFaults + Spent(j)
    BY DEF BeatInv, ClaimsInv
  <2>2. /\ Cardinality(Claimants(j)') \in Nat
        /\ Cardinality(Claimants(j)') + InHand(w, j) = Cardinality(Claimants(j)) + InHand(w, j)'
    BY HandsCounted
  <2>3. /\ Spent(j) \in {0, 1} /\ Spent(j)' \in {0, 1}
        /\ InHand(w, j) \in {0, 1} /\ InHand(w, j)' \in {0, 1}
    BY DEF Spent, InHand
  <2>4. /\ Cardinality(RowsOf(j)) \in Nat /\ Cardinality(Claimants(j)) \in Nat
        /\ moves + beatFaults \in Nat
        /\ moves' + beatFaults' = moves + beatFaults + paid
    BY FiniteClaims
  <2>5. Cardinality(RowsOf(j)') + Cardinality(Claimants(j)') <=
            (moves + beatFaults) + paid + Spent(j)'
    <3> DEFINE R == Cardinality(RowsOf(j))
               C == Cardinality(Claimants(j))
               Rn == Cardinality(RowsOf(j)')
               Cn == Cardinality(Claimants(j)')
               S == Spent(j)
               Sn == Spent(j)'
               h == InHand(w, j)
               hn == InHand(w, j)'
               B == moves + beatFaults
    <3>1. /\ R \in Nat /\ C \in Nat /\ B \in Nat /\ Rn \in Nat /\ Cn \in Nat
          /\ S \in {0, 1} /\ Sn \in {0, 1} /\ h \in {0, 1} /\ hn \in {0, 1}
      BY <1>1, <2>2, <2>3, <2>4
    <3>2. R + C <= B + S /\ Rn <= R + new /\ Cn + h = C + hn
      BY <1>1, <2>1, <2>2
    <3>3. new + hn + S <= h + Sn + paid
      OBVIOUS
    <3> HIDE DEF R, C, Rn, Cn, S, Sn, h, hn, B
    <3>4. Rn + Cn <= B + paid + Sn
      BY <3>1, <3>2, <3>3, ClaimsPaid
    <3> QED BY <3>4 DEF R, C, Rn, Cn, S, Sn, h, hn, B
  <2> QED BY <2>4, <2>5
<1> QED BY <1>1, <1>2, <1>3 DEF ClaimsInv

\* A step that takes up and puts down nothing.
LEMMA NothingClaimed ==
    ASSUME BeatInv, \A i \in Issues : Claimants(i)' = Claimants(i),
           \A i \in Issues : issue'[i].status = issue[i].status, rows' = rows,
           moves' = moves, NEW paid \in Nat, beatFaults' = beatFaults + paid
    PROVE  ClaimsInv'
<1>1. ASSUME NEW i \in Issues
      PROVE  /\ RowsOf(i)' = RowsOf(i) /\ Spent(i)' = Spent(i) /\ Spent(i) \in Nat
             /\ Cardinality(RowsOf(i)') + Cardinality(Claimants(i)') <=
                    moves' + beatFaults' + Spent(i)'
  <2>1. RowsOf(i)' = RowsOf(i) /\ Spent(i)' = Spent(i) /\ Spent(i) \in Nat
    BY DEF RowsOf, Spent
  <2>2. Cardinality(RowsOf(i)) + Cardinality(Claimants(i)) <= moves + beatFaults + Spent(i)
    BY DEF BeatInv, ClaimsInv
  <2> QED BY <2>1, <2>2, FiniteClaims
<1> QED BY <1>1 DEF BeatInv, ClaimsInv

\* People change one issue: it is unclaimed, or its move pays for a new claim.
LEMMA IssueChanges ==
    ASSUME BeatInv, NEW j \in Issues, poll' = poll, rows' = rows,
           \A i \in Issues \ {j} : issue'[i] = issue[i],
           NEW m \in Nat, moves' = moves + m, NEW paid \in Nat, beatFaults' = beatFaults + paid,
           (RowsOf(j) = {} /\ Claimants(j) = {}) \/ Spent(j) <= Spent(j)' + m + paid
    PROVE  ClaimsInv'
<1>1. \A i \in Issues : RowsOf(i)' = RowsOf(i) /\ Claimants(i)' = Claimants(i)
  BY DEF RowsOf, Claimants
<1>2. ASSUME NEW i \in Issues
      PROVE  Cardinality(RowsOf(i)') + Cardinality(Claimants(i)') <=
                 moves' + beatFaults' + Spent(i)'
  <2>1. Cardinality(RowsOf(i)) + Cardinality(Claimants(i)) <= moves + beatFaults + Spent(i)
    BY <1>2 DEF BeatInv, ClaimsInv
  <2>2. Spent(i) \in Nat /\ Spent(i)' \in Nat
    BY DEF Spent
  <2>3. CASE i # j
    <3>1. Spent(i)' = Spent(i)
      BY <2>3 DEF Spent
    <3> QED BY <1>1, <2>1, <2>2, <3>1, FiniteClaims
  <2>4. CASE i = j /\ RowsOf(j) = {} /\ Claimants(j) = {}
    BY <1>1, <2>2, <2>4, FiniteClaims, FS_EmptySet
  <2>5. CASE i = j /\ Spent(j) <= Spent(j)' + m + paid
    BY <1>1, <2>1, <2>2, <2>5, FiniteClaims
  <2> QED BY <2>3, <2>4, <2>5
<1> QED BY <1>1, <1>2 DEF BeatInv, ClaimsInv

PollRecords ==
    [at : {"list", "checkout", "dispatch", "requeue"}, company : Companies \cup {NoCompany},
     left : SUBSET Issues, bare : SUBSET Issues, doing : SUBSET Issues, run : 0..MaxRunIds]

IssueRecords ==
    [company : Companies \cup {NoCompany}, status : Statuses \cup {"absent"},
     assigned : BOOLEAN, run : 0..MaxRunIds]

\* The row of an issue that replica w has in hand.
RowFor(w, j) ==
    [tenant |-> CompanyTenant[poll[w].company], issue |-> j, run |-> poll[w].run]

\* The types, and the invariant of the polls, when one replica moves.
LEMMA PollMoves ==
    ASSUME BeatInv, NEW w \in Replicas, NEW p \in PollRecords,
           poll' = [poll EXCEPT ![w] = p], PollOK(p)',
           issue' \in [Issues -> IssueRecords],
           \A i \in Issues : issue'[i].company = issue[i].company,
           \A i \in Issues : issue'[i].status = "absent" => issue'[i] = Absent,
           \A i \in Issues : issue[i].status = "absent" => issue'[i] = issue[i],
           NEW x \in [tenant : {CompanyTenant[c] : c \in Companies}, issue : Issues,
                      run : 1..MaxRunIds],
           rows' \subseteq rows \cup {x}, RowOK(x),
           UNCHANGED <<live, hired, boot, unmarked, moves>>, runIds' \in 0..MaxRunIds,
           beatFaults' \in 0..MaxBeatFaults
    PROVE  BeatTypeOK' /\ PollInv'
<1>1. BeatTypeOK /\ PollInv
  BY DEF BeatInv
<1>2. /\ poll' \in [Replicas -> PollRecords] /\ poll'[w] = p
      /\ \A v \in Replicas \ {w} : poll'[v] = poll[v]
  BY <1>1 DEF BeatTypeOK, PollRecords
<1>3. live' \in BOOLEAN
  BY <1>1, Zenon DEF BeatTypeOK
<1>4. BeatTypeOK'
  BY <1>1, <1>2, <1>3 DEF BeatTypeOK, PollRecords, IssueRecords
<1>5. ASSUME NEW v \in Replicas PROVE PollOK(poll[v])'
  <2>1. CASE v = w
    BY <1>2, <2>1 DEF PollOK
  <2>2. CASE v # w
    <3>1. PollOK(poll[v]) /\ poll'[v] = poll[v]
          /\ poll[v].doing \subseteq Issues /\ poll[v].left \subseteq Issues
      BY <1>1, <1>2, <2>2 DEF PollInv, BeatTypeOK
    <3> QED BY <3>1 DEF PollOK, MayTake
  <2> QED BY <2>1, <2>2
<1>6. ASSUME NEW r \in rows' PROVE RowOK(r)'
  <2>1. RowOK(r) /\ r.issue \in Issues
    BY <1>1 DEF PollInv, BeatTypeOK
  <2> QED BY <2>1 DEF RowOK
<1>7. \A i \in unmarked' : issue'[i].company \in Companies
  BY <1>1 DEF PollInv, BeatTypeOK
<1>8. \A i \in Issues : IF issue'[i].status = "absent" THEN issue'[i] = Absent
                       ELSE issue'[i].company \in Companies
  BY <1>1 DEF PollInv
<1> QED BY <1>4, <1>5, <1>6, <1>7, <1>8 DEF PollInv

\* The row of the issue in hand is of the tenant of its company, or of one the list did not
\* say the company of.
LEMMA RowIsRight ==
    ASSUME BeatInv, NEW w \in Replicas, NEW j \in Issues, poll[w].at # "list",
           poll[w].doing = {j}, NEW x, x = RowFor(w, j)
    PROVE  /\ x \in [tenant : {CompanyTenant[c] : c \in Companies}, issue : Issues,
                     run : 1..MaxRunIds]
           /\ x.issue = j /\ issue[j].company \in Companies /\ issue[j] # Absent
           /\ RowOK(x) /\ x.run = poll[w].run
           /\ WorkReady(w) = {x}
<1>1. PollOK(poll[w]) /\ poll[w] \in PollRecords
  BY DEF BeatInv, PollInv, BeatTypeOK, PollRecords
<1>2. /\ poll[w].company \in Companies /\ poll[w].run \in 1..MaxRunIds
      /\ MayTake(poll[w].company, j)
  <2>1. MaxRunIds \in Nat
    BY HeartbeatAssumption
  <2> QED BY <1>1, <2>1 DEF PollOK, PollRecords
<1>3. issue[j] # Absent
  BY <1>2, HeartbeatAssumption DEF Absent, Companies, MayTake
<1>4. WorkReady(w) = {x}
  <2>1. WorkReady(w) = {RowFor(w, i) : i \in {j}}
    BY DEF WorkReady, RowFor
  <2> QED BY <2>1
<1>5. x = [tenant |-> CompanyTenant[poll[w].company], issue |-> j, run |-> poll[w].run]
  BY DEF RowFor
<1>6. RowOK(x)
  BY <1>2, <1>5 DEF RowOK, MayTake
<1> QED BY <1>2, <1>3, <1>4, <1>5, <1>6 DEF MayTake

\* A step of a replica with an issue in hand.
LEMMA HandStep ==
    ASSUME BeatInv, NEW w \in Replicas, NEW j \in Issues, poll[w].at # "list",
           poll[w].doing = {j}, NEW p \in PollRecords, poll' = [poll EXCEPT ![w] = p],
           p.bare \subseteq poll[w].bare,
           \/ /\ p.at = "list" /\ p.doing = {} /\ p.left \subseteq poll[w].left
              /\ p.left # {} => p.company = poll[w].company
           \/ /\ p.at \in {"dispatch", "requeue"} /\ p.doing = {j}
              /\ p.company = poll[w].company /\ p.run = poll[w].run /\ p.left = poll[w].left,
           issue' \in [Issues -> IssueRecords], \A i \in Issues \ {j} : issue'[i] = issue[i],
           issue'[j].company = issue[j].company,
           issue'[j].status # "absent" \/ issue'[j] = issue[j],
           NEW new \in {0, 1}, rows' = IF new = 1 THEN rows \cup {RowFor(w, j)} ELSE rows,
           UNCHANGED <<live, hired, boot, unmarked, runIds, moves>>,
           NEW paid \in {0, 1}, beatFaults' = beatFaults + paid,
           beatFaults' \in 0..MaxBeatFaults,
           new + (IF p.at = "list" THEN 0 ELSE 1) + Spent(j) <=
               (IF poll[w].at = "checkout" THEN 0 ELSE 1) + Spent(j)' + paid,
           KeptInv'
    PROVE  BeatInv'
<1>1. PICK x : x = RowFor(w, j)
  OBVIOUS
<1>2. /\ x \in [tenant : {CompanyTenant[c] : c \in Companies}, issue : Issues,
                run : 1..MaxRunIds]
      /\ x.issue = j /\ issue[j].company \in Companies /\ RowOK(x) /\ issue[j] # Absent
  BY <1>1, RowIsRight
<1>3. PollOK(poll[w]) /\ poll[w] \in PollRecords /\ runIds \in 0..MaxRunIds
      /\ poll \in [Replicas -> PollRecords]
  BY DEF BeatInv, PollInv, BeatTypeOK, PollRecords
<1>4. PollOK(p)'
  <2>1. \A i \in Issues : issue'[i].company = issue[i].company
    OBVIOUS
  <2>2. p.left \subseteq poll[w].left /\ poll[w].left \subseteq Issues
    BY <1>3 DEF PollRecords
  <2>3. CASE p.at = "list"
    BY <1>3, <2>1, <2>2, <2>3 DEF PollOK
  <2>4. CASE p.at # "list"
    BY <1>3, <2>1, <2>2, <2>4 DEF PollOK, MayTake
  <2> QED BY <2>3, <2>4
<1>5. \A i \in Issues : issue'[i].company = issue[i].company
  OBVIOUS
<1>6. \A i \in Issues : issue'[i].status = "absent" => issue'[i] = Absent
  BY DEF BeatInv, PollInv
<1>7. \A i \in Issues : issue[i].status = "absent" => issue'[i] = issue[i]
  BY <1>2 DEF BeatInv, PollInv
<1>8. rows' \subseteq rows \cup {x} /\ rows' = (IF new = 1 THEN rows \cup {x} ELSE rows)
  BY <1>1
<1>9. BeatTypeOK' /\ PollInv'
  BY <1>2, <1>3, <1>4, <1>5, <1>6, <1>8, <1>7, PollMoves
<1>10. poll'[w] = p /\ \A v \in Replicas \ {w} : poll'[v] = poll[v]
  BY <1>3
<1>11. /\ InHand(w, j) = (IF poll[w].at = "checkout" THEN 0 ELSE 1)
       /\ InHand(w, j)' = (IF p.at = "list" THEN 0 ELSE 1)
  <2>1. poll[w].at \in {"checkout", "dispatch", "requeue"}
    BY <1>3 DEF PollRecords
  <2>2. InHand(w, j) = (IF poll[w].at = "checkout" THEN 0 ELSE 1)
    BY <2>1 DEF InHand, Claimants
  <2>3. InHand(w, j)' = (IF p.at = "list" THEN 0 ELSE 1)
    BY <1>10 DEF InHand, Claimants
  <2> QED BY <2>2, <2>3
<1>12. ClaimsInv'
  <2>1. new + InHand(w, j)' + Spent(j) <= InHand(w, j) + Spent(j)' + paid
    BY <1>11
  <2>2. poll[w].doing \subseteq {j} /\ poll'[w].doing \subseteq {j}
    BY <1>10
  <2> QED BY <1>2, <1>8, <1>10, <2>1, <2>2, ReplicaBalances
<1>13. BootInv'
  BY DEF BeatInv, BootInv
<1> QED BY <1>9, <1>12, <1>13 DEF BeatInv

\* Before the first fault a claimed issue keeps its row or its claimant, when each issue
\* is not claimed, is claimed by replica w, or was claimed and has not lost w.
LEMMA KeptStep ==
    ASSUME BeatInv, NEW w \in Replicas, \A v \in Replicas \ {w} : poll'[v] = poll[v],
           rows \subseteq rows', beatFaults' = 0 => beatFaults = 0,
           beatFaults' = 0 => \A i \in Issues \ Unnamed :
               \/ issue'[i].status # "in_progress" \/ issue'[i].run = 0
               \/ w \in Claimants(i)' /\ poll'[w].run = issue'[i].run
               \/ /\ issue'[i] = issue[i]
                  /\ w \in Claimants(i) /\ poll[w].run = issue[i].run =>
                        \/ w \in Claimants(i)' /\ poll'[w].run = poll[w].run
                        \/ \E r \in rows' : r.run = poll[w].run
    PROVE  KeptInv'
<1> SUFFICES ASSUME beatFaults' = 0, NEW i \in Issues \ Unnamed,
                    issue'[i].status = "in_progress", issue'[i].run # 0
             PROVE  \/ \E r \in rows' : r.run = issue'[i].run
                    \/ \E v \in Claimants(i)' : poll'[v].run = issue'[i].run
  BY DEF KeptInv
<1>1. CASE w \in Claimants(i)' /\ poll'[w].run = issue'[i].run
  BY <1>1
<1>2. CASE /\ issue'[i] = issue[i]
           /\ w \in Claimants(i) /\ poll[w].run = issue[i].run =>
                 \/ w \in Claimants(i)' /\ poll'[w].run = poll[w].run
                 \/ \E r \in rows' : r.run = poll[w].run
  <2>1. \/ \E r \in rows : r.run = issue[i].run
        \/ \E v \in Claimants(i) : poll[v].run = issue[i].run
    BY <1>2 DEF BeatInv, KeptInv
  <2>2. CASE \E r \in rows : r.run = issue[i].run
    BY <1>2, <2>2
  <2>3. ASSUME NEW v \in Claimants(i), poll[v].run = issue[i].run, v # w
        PROVE  v \in Claimants(i)' /\ poll'[v].run = issue'[i].run
    BY <1>2, <2>3 DEF Claimants
  <2>4. CASE w \in Claimants(i) /\ poll[w].run = issue[i].run
    BY <1>2, <2>4
  <2> QED BY <2>1, <2>2, <2>3, <2>4
<1> QED BY <1>1, <1>2

\* An issue gets a status and a run.
LEMMA IssueSet ==
    ASSUME BeatInv, NEW j \in Issues, NEW s \in Statuses, NEW n \in 0..MaxRunIds,
           issue' = [issue EXCEPT ![j].status = s, ![j].run = n]
    PROVE  /\ issue' \in [Issues -> IssueRecords]
           /\ \A i \in Issues \ {j} : issue'[i] = issue[i]
           /\ issue'[j].company = issue[j].company /\ issue'[j].assigned = issue[j].assigned
           /\ issue'[j].status = s /\ issue'[j].run = n /\ s # "absent"
           /\ Spent(j)' = IF s \in RunnableStatuses THEN 0 ELSE 1
<1>1. issue \in [Issues -> IssueRecords]
  BY DEF BeatInv, BeatTypeOK, IssueRecords
<1>2. /\ issue' \in [Issues -> IssueRecords] /\ \A i \in Issues \ {j} : issue'[i] = issue[i]
      /\ issue'[j].company = issue[j].company /\ issue'[j].assigned = issue[j].assigned
      /\ issue'[j].status = s /\ issue'[j].run = n
  BY <1>1 DEF IssueRecords
<1> QED BY <1>2 DEF Spent, Statuses, RunnableStatuses

\* What a replica goes on with.
LEMMA Continues ==
    ASSUME BeatInv, NEW w \in Replicas, NEW to \in {"list", "dispatch", "requeue"},
           Continue(w, to)
    PROVE  \E p \in PollRecords :
               /\ poll' = [poll EXCEPT ![w] = p] /\ p.at = to
               /\ p.company = poll[w].company /\ p.left = poll[w].left /\ p.bare = poll[w].bare
               /\ to = "list" => p.doing = {}
               /\ to # "list" => p.doing = poll[w].doing /\ p.run = poll[w].run
<1>1. poll \in [Replicas -> PollRecords] /\ poll[w] \in PollRecords /\ 0 \in 0..MaxRunIds
  BY HeartbeatAssumption DEF BeatInv, BeatTypeOK, PollRecords
<1> DEFINE p == [poll[w] EXCEPT !.at = to,
                                !.doing = IF to = "list" THEN {} ELSE @,
                                !.run = IF to = "list" THEN 0 ELSE @]
<1>2. poll' = [poll EXCEPT ![w] = p]
  BY <1>1 DEF Continue
<1>3. /\ p \in PollRecords /\ p.at = to
      /\ p.company = poll[w].company /\ p.left = poll[w].left /\ p.bare = poll[w].bare
      /\ to = "list" => p.doing = {}
      /\ to # "list" => p.doing = poll[w].doing /\ p.run = poll[w].run
  BY <1>1 DEF PollRecords
<1> HIDE DEF p
<1> QED BY <1>2, <1>3

\* Whether a fault was spent.
LEMMA FaultSpent ==
    ASSUME BeatInv
    PROVE  /\ beatFaults \in 0..MaxBeatFaults /\ beatFaults \in Nat /\ runIds \in 0..MaxRunIds
           /\ SpendBeatFault => /\ beatFaults' = beatFaults + 1 /\ beatFaults' # 0
                                /\ beatFaults' \in 0..MaxBeatFaults
  BY HeartbeatAssumption DEF BeatInv, BeatTypeOK, SpendBeatFault

\* A replica with an issue in hand, and whether it counts as its claimant.
LEMMA InHandFacts ==
    ASSUME BeatInv, NEW w \in Replicas, poll[w].at # "list"
    PROVE  \E j \in Issues :
               /\ poll[w].doing = {j} /\ poll[w].run \in 1..MaxRunIds
               /\ poll[w].run \in 0..MaxRunIds
               /\ poll[w].at \in {"checkout", "dispatch", "requeue"}
               /\ \A i \in Issues : w \in Claimants(i) <=> i = j /\ poll[w].at # "checkout"
               /\ Spent(j) \in {0, 1} /\ Spent(j)' \in {0, 1}
<1>1. PollOK(poll[w]) /\ poll[w] \in PollRecords /\ MaxRunIds \in Nat
  BY HeartbeatAssumption DEF BeatInv, PollInv, BeatTypeOK, PollRecords
<1>2. PICK j \in Issues : poll[w].doing = {j}
  BY <1>1 DEF PollOK
<1>3. /\ poll[w].run \in 1..MaxRunIds /\ poll[w].run \in 0..MaxRunIds
      /\ poll[w].at \in {"checkout", "dispatch", "requeue"}
  BY <1>1 DEF PollOK, PollRecords
<1>4. \A i \in Issues : w \in Claimants(i) <=> i = j /\ poll[w].at # "checkout"
  BY <1>2, <1>3 DEF Claimants
<1> QED BY <1>2, <1>3, <1>4 DEF Spent

\* Nothing happens to an issue.
LEMMA IssuesSame ==
    ASSUME BeatInv, issue' = issue
    PROVE  /\ issue' \in [Issues -> IssueRecords]
           /\ \A i \in Issues : issue'[i] = issue[i] /\ Spent(i)' = Spent(i)
  BY DEF BeatInv, BeatTypeOK, IssueRecords, Spent

\* A checkout is answered: it claims an issue that is still runnable.
LEMMA CheckoutStep ==
    ASSUME BeatInv, NEW w \in Replicas, CheckoutIssue(w)
    PROVE  BeatInv'
<1>1. /\ poll[w].at = "checkout" /\ poll[w].at # "list"
      /\ UNCHANGED <<live, hired, boot, unmarked, rows, runIds, moves, beatFaults>>
  BY DEF CheckoutIssue
<1>2. PICK j \in Issues :
          /\ poll[w].doing = {j} /\ poll[w].run \in 1..MaxRunIds
          /\ poll[w].run \in 0..MaxRunIds
          /\ \A i \in Issues : w \in Claimants(i) <=> i = j /\ poll[w].at # "checkout"
          /\ Spent(j) \in {0, 1} /\ Spent(j)' \in {0, 1}
  BY <1>1, InHandFacts
<1>3. beatFaults \in Nat /\ beatFaults' = beatFaults + 0 /\ beatFaults' \in 0..MaxBeatFaults
  BY <1>1, FaultSpent
<1>4. rows' = (IF 0 = 1 THEN rows \cup {RowFor(w, j)} ELSE rows)
  BY <1>1
<1>5. CASE StatusExpected(j)
  <2> DEFINE to == IF j \in Unnamed THEN "list" ELSE "dispatch"
  <2>1. CheckedOut(w, j) /\ Continue(w, to)
    BY <1>2, <1>5 DEF CheckoutIssue
  <2>2. to \in {"list", "dispatch", "requeue"} /\ (to = "list" <=> j \in Unnamed)
    OBVIOUS
  <2> HIDE DEF to
  <2>3. PICK p \in PollRecords :
            /\ poll' = [poll EXCEPT ![w] = p] /\ p.at = to
            /\ p.company = poll[w].company /\ p.left = poll[w].left /\ p.bare = poll[w].bare
            /\ to = "list" => p.doing = {}
            /\ to # "list" => p.doing = poll[w].doing /\ p.run = poll[w].run
    BY <2>1, <2>2, Continues
  <2>4. /\ issue' \in [Issues -> IssueRecords] /\ \A i \in Issues \ {j} : issue'[i] = issue[i]
        /\ issue'[j].company = issue[j].company
        /\ issue'[j].status = "in_progress" /\ issue'[j].run = poll[w].run
        /\ Spent(j)' = 1
    <3>1. PICK n \in 0..MaxRunIds : n = poll[w].run
      BY <1>2
    <3>2. "in_progress" \in Statuses /\ "in_progress" \notin RunnableStatuses
      BY DEF Statuses, RunnableStatuses
    <3>3. issue' = [issue EXCEPT ![j].status = "in_progress", ![j].run = n]
      BY <2>1, <3>1 DEF CheckedOut
    <3>4. /\ issue' \in [Issues -> IssueRecords]
          /\ \A i \in Issues \ {j} : issue'[i] = issue[i]
          /\ issue'[j].company = issue[j].company
          /\ issue'[j].status = "in_progress" /\ issue'[j].run = n
      <4>1. issue \in [Issues -> IssueRecords]
        BY DEF BeatInv, BeatTypeOK, IssueRecords
      <4> QED BY <1>2, <3>1, <3>2, <3>3, <4>1 DEF IssueRecords
    <3> QED BY <3>1, <3>2, <3>4 DEF Spent
  <2>5. Spent(j) = 0
    BY <1>5 DEF StatusExpected, Spent
  <2>6. poll'[w] = p /\ \A v \in Replicas \ {w} : poll'[v] = poll[v]
    BY <2>3 DEF BeatInv, BeatTypeOK
  <2>7. KeptInv'
    <3>1. j \notin Unnamed => w \in Claimants(j)' /\ poll'[w].run = issue'[j].run
      BY <1>2, <2>2, <2>3, <2>4, <2>6 DEF Claimants
    <3>2. \A i \in Issues : w \notin Claimants(i)
      BY <1>1, <1>2
    <3> QED BY <1>1, <2>4, <2>6, <3>1, <3>2, KeptStep
  <2>8. 0 + (IF p.at = "list" THEN 0 ELSE 1) + Spent(j) <=
            (IF poll[w].at = "checkout" THEN 0 ELSE 1) + Spent(j)' + 0
    BY <1>1, <2>3, <2>4, <2>5
  <2>9. issue'[j].status # "absent" /\ p.bare \subseteq poll[w].bare
    BY <2>3, <2>4
  <2>10. \/ /\ p.at = "list" /\ p.doing = {} /\ p.left \subseteq poll[w].left
            /\ p.left # {} => p.company = poll[w].company
         \/ /\ p.at \in {"dispatch", "requeue"} /\ p.doing = {j}
            /\ p.company = poll[w].company /\ p.run = poll[w].run /\ p.left = poll[w].left
    BY <1>2, <2>2, <2>3
  <2> QED BY <1>1, <1>2, <1>3, <1>4, <2>3, <2>4, <2>7, <2>8, <2>9, <2>10, HandStep
<1>6. CASE ~StatusExpected(j)
  <2>1. issue' = issue /\ Continue(w, "list")
    BY <1>2, <1>6 DEF CheckoutIssue
  <2>2. PICK p \in PollRecords :
            /\ poll' = [poll EXCEPT ![w] = p] /\ p.at = "list"
            /\ p.company = poll[w].company /\ p.left = poll[w].left /\ p.doing = {}
            /\ p.bare = poll[w].bare
    BY <2>1, Continues
  <2>3. /\ issue' \in [Issues -> IssueRecords]
        /\ \A i \in Issues : issue'[i] = issue[i] /\ Spent(i)' = Spent(i)
    BY <2>1, IssuesSame
  <2>4. \A v \in Replicas \ {w} : poll'[v] = poll[v]
    BY <2>2 DEF BeatInv, BeatTypeOK
  <2>5. KeptInv'
    <3>1. \A i \in Issues : w \notin Claimants(i)
      BY <1>1, <1>2
    <3> QED BY <1>1, <2>3, <2>4, <3>1, KeptStep
  <2>6. 0 + (IF p.at = "list" THEN 0 ELSE 1) + Spent(j) <=
            (IF poll[w].at = "checkout" THEN 0 ELSE 1) + Spent(j)' + 0
    BY <1>1, <1>2, <2>2, <2>3
  <2> QED BY <1>1, <1>2, <1>3, <1>4, <2>2, <2>3, <2>5, <2>6, HandStep
<1> QED BY <1>5, <1>6

\* A dispatch writes the row of the claim.
LEMMA DispatchStep ==
    ASSUME BeatInv, NEW w \in Replicas, Dispatch(w)
    PROVE  BeatInv'
<1>1. /\ poll[w].at = "dispatch" /\ poll[w].at # "list" /\ poll[w].at # "checkout"
      /\ UNCHANGED <<live, issue, hired, boot, unmarked, runIds, moves, beatFaults>>
      /\ Continue(w, "list") /\ rows' = rows \cup WorkReady(w)
  BY DEF Dispatch
<1>2. PICK j \in Issues :
          /\ poll[w].doing = {j}
          /\ \A i \in Issues : w \in Claimants(i) <=> i = j /\ poll[w].at # "checkout"
          /\ Spent(j) \in {0, 1}
  BY <1>1, InHandFacts
<1>3. beatFaults \in Nat /\ beatFaults' = beatFaults + 0 /\ beatFaults' \in 0..MaxBeatFaults
  BY <1>1, FaultSpent
<1>4. /\ issue' \in [Issues -> IssueRecords]
      /\ \A i \in Issues : issue'[i] = issue[i] /\ Spent(i)' = Spent(i)
  BY <1>1, IssuesSame
<1>5. PICK x : x = RowFor(w, j)
  OBVIOUS
<1>6. rows' = rows \cup {x} /\ x.run = poll[w].run
  BY <1>1, <1>2, <1>5, RowIsRight
<1>7. PICK p \in PollRecords :
          /\ poll' = [poll EXCEPT ![w] = p] /\ p.at = "list"
          /\ p.company = poll[w].company /\ p.left = poll[w].left /\ p.doing = {}
          /\ p.bare = poll[w].bare
  BY <1>1, Continues
<1>8. \A v \in Replicas \ {w} : poll'[v] = poll[v]
  BY <1>7 DEF BeatInv, BeatTypeOK
<1>9. KeptInv'
  BY <1>1, <1>4, <1>6, <1>8, KeptStep
<1>10. rows' = (IF 1 = 1 THEN rows \cup {RowFor(w, j)} ELSE rows)
  BY <1>5, <1>6
<1>11. 1 + (IF p.at = "list" THEN 0 ELSE 1) + Spent(j) <=
           (IF poll[w].at = "checkout" THEN 0 ELSE 1) + Spent(j)' + 0
  BY <1>1, <1>2, <1>4, <1>7
<1> QED BY <1>1, <1>2, <1>3, <1>4, <1>7, <1>9, <1>10, <1>11, HandStep

\* An issue goes back to todo.
LEMMA RequeueStep ==
    ASSUME BeatInv, NEW w \in Replicas, RequeueIssue(w)
    PROVE  BeatInv'
<1>1. /\ poll[w].at = "requeue" /\ poll[w].at # "list" /\ ToDo(w) /\ Continue(w, "list")
      /\ UNCHANGED <<live, hired, boot, unmarked, rows, runIds, moves, beatFaults>>
  BY DEF RequeueIssue
<1>2. PICK j \in Issues :
          /\ poll[w].doing = {j}
          /\ \A i \in Issues : w \in Claimants(i) <=> i = j /\ poll[w].at # "checkout"
          /\ Spent(j) \in {0, 1}
  BY <1>1, InHandFacts
<1>3. beatFaults \in Nat /\ beatFaults' = beatFaults + 0 /\ beatFaults' \in 0..MaxBeatFaults
  BY <1>1, FaultSpent
<1>4. /\ issue' \in [Issues -> IssueRecords] /\ \A i \in Issues \ {j} : issue'[i] = issue[i]
      /\ issue'[j].company = issue[j].company /\ issue'[j].status = "todo"
      /\ issue'[j].run = 0 /\ Spent(j)' = 0
  <2>1. issue' = [issue EXCEPT ![j].status = "todo", ![j].run = 0]
    BY <1>1, <1>2 DEF ToDo
  <2>2. "todo" \in Statuses /\ "todo" \in RunnableStatuses /\ 0 \in 0..MaxRunIds
    BY HeartbeatAssumption DEF Statuses, RunnableStatuses
  <2> QED BY <2>1, <2>2, IssueSet
<1>5. PICK p \in PollRecords :
          /\ poll' = [poll EXCEPT ![w] = p] /\ p.at = "list"
          /\ p.company = poll[w].company /\ p.left = poll[w].left /\ p.doing = {}
          /\ p.bare = poll[w].bare
  BY <1>1, Continues
<1>6. \A v \in Replicas \ {w} : poll'[v] = poll[v]
  BY <1>5 DEF BeatInv, BeatTypeOK
<1>7. KeptInv'
  <2>1. \A i \in Issues \ {j} : w \notin Claimants(i)
    BY <1>2
  <2> QED BY <1>1, <1>4, <1>6, <2>1, KeptStep
<1>8. rows' = (IF 0 = 1 THEN rows \cup {RowFor(w, j)} ELSE rows)
  BY <1>1
<1>9. 0 + (IF p.at = "list" THEN 0 ELSE 1) + Spent(j) <=
          (IF poll[w].at = "checkout" THEN 0 ELSE 1) + Spent(j)' + 0
  BY <1>1, <1>2, <1>4, <1>5
<1> QED BY <1>1, <1>2, <1>3, <1>4, <1>5, <1>7, <1>8, <1>9, HandStep

\* A fault meets a replica with an issue in hand, wherever it is with it: the fault pays
\* for whatever was done or left undone.
LEMMA FaultInHand ==
    ASSUME BeatInv, NEW w \in Replicas, NEW j \in Issues, poll[w].at # "list",
           poll[w].doing = {j}, SpendBeatFault,
           NEW p \in PollRecords, poll' = [poll EXCEPT ![w] = p],
           p.bare \subseteq poll[w].bare,
           \/ /\ p.at = "list" /\ p.doing = {} /\ p.left \subseteq poll[w].left
              /\ p.left # {} => p.company = poll[w].company
           \/ /\ p.at = "requeue" /\ poll[w].at = "dispatch" /\ p.doing = {j}
              /\ p.company = poll[w].company /\ p.run = poll[w].run /\ p.left = poll[w].left,
           \/ issue' = issue
           \/ /\ poll[w].at # "dispatch"
              /\ \E s \in {"todo", "in_progress"}, n \in 0..MaxRunIds :
                    issue' = [issue EXCEPT ![j].status = s, ![j].run = n],
           rows' = rows \/ (poll[w].at = "dispatch" /\ rows' = rows \cup WorkReady(w)),
           UNCHANGED <<live, hired, boot, unmarked, runIds, moves>>
    PROVE  BeatInv'
<1>1. /\ beatFaults' = beatFaults + 1 /\ beatFaults' \in 0..MaxBeatFaults
      /\ beatFaults' # 0
  BY FaultSpent
<1>2. KeptInv'
  BY <1>1 DEF KeptInv
<1>3. issue \in [Issues -> IssueRecords]
  BY DEF BeatInv, BeatTypeOK, IssueRecords
<1>4. /\ issue' \in [Issues -> IssueRecords] /\ \A i \in Issues \ {j} : issue'[i] = issue[i]
      /\ issue'[j].company = issue[j].company
      /\ issue'[j].status # "absent" \/ issue'[j] = issue[j]
      /\ poll[w].at = "dispatch" => issue' = issue
  <2>1. CASE issue' = issue
    BY <1>3, <2>1
  <2>2. CASE /\ poll[w].at # "dispatch"
             /\ \E s \in {"todo", "in_progress"}, n \in 0..MaxRunIds :
                   issue' = [issue EXCEPT ![j].status = s, ![j].run = n]
    <3>1. PICK s \in {"todo", "in_progress"}, n \in 0..MaxRunIds :
              issue' = [issue EXCEPT ![j].status = s, ![j].run = n]
      BY <2>2
    <3>2. s \in Statuses
      BY <3>1 DEF Statuses, RunnableStatuses
    <3>3. s # "absent" /\ issue' = [issue EXCEPT ![j].status = s, ![j].run = n]
      BY <3>1
    <3>4. /\ issue' \in [Issues -> IssueRecords]
          /\ \A i \in Issues \ {j} : issue'[i] = issue[i]
          /\ issue'[j].company = issue[j].company /\ issue'[j].status = s
      BY <3>1, <3>2, <3>3, IssueSet, ZenonT(40)
    <3> QED BY <2>2, <3>3, <3>4
  <2> QED BY <2>1, <2>2
<1>5. PICK new \in {0, 1} :
          /\ rows' = IF new = 1 THEN rows \cup {RowFor(w, j)} ELSE rows
          /\ new = 1 => poll[w].at = "dispatch"
  <2>1. PICK x : x = RowFor(w, j)
    OBVIOUS
  <2>2. WorkReady(w) = {x}
    BY <2>1, RowIsRight
  <2>3. CASE rows' = rows
    <3>1. rows' = (IF 0 = 1 THEN rows \cup {RowFor(w, j)} ELSE rows)
      BY <2>3
    <3> QED BY <3>1
  <2>4. CASE rows' = rows \cup {x} /\ poll[w].at = "dispatch"
    <3>1. rows' = (IF 1 = 1 THEN rows \cup {RowFor(w, j)} ELSE rows)
      BY <2>1, <2>4
    <3> QED BY <2>4, <3>1
  <2> QED BY <2>2, <2>3, <2>4
<1>6. new + (IF p.at = "list" THEN 0 ELSE 1) + Spent(j) <=
          (IF poll[w].at = "checkout" THEN 0 ELSE 1) + Spent(j)' + 1
  <2>1. Spent(j) \in {0, 1} /\ Spent(j)' \in {0, 1}
    BY DEF Spent
  <2>2. CASE poll[w].at = "dispatch"
    <3>1. Spent(j)' = Spent(j)
      BY <1>4, <2>2 DEF Spent
    <3> QED BY <2>1, <2>2, <3>1
  <2>3. CASE poll[w].at # "dispatch"
    BY <1>5, <2>1, <2>3
  <2> QED BY <2>2, <2>3
<1>7. \/ /\ p.at = "list" /\ p.doing = {} /\ p.left \subseteq poll[w].left
         /\ p.left # {} => p.company = poll[w].company
      \/ /\ p.at \in {"dispatch", "requeue"} /\ p.doing = {j}
         /\ p.company = poll[w].company /\ p.run = poll[w].run /\ p.left = poll[w].left
  OBVIOUS
<1> QED BY <1>1, <1>2, <1>4, <1>5, <1>6, <1>7, HandStep

\* A checkout, a dispatch or a requeue fails, done or not.
LEMMA HandFails ==
    ASSUME BeatInv, NEW w \in Replicas,
           CheckoutFails(w) \/ DispatchFails(w) \/ RequeueFails(w)
    PROVE  BeatInv'
<1>1. poll[w].at # "list"
  BY DEF CheckoutFails, DispatchFails, RequeueFails
<1>2. PICK j \in Issues : poll[w].doing = {j} /\ poll[w].run \in 0..MaxRunIds
  BY <1>1, InHandFacts
<1>3. 0 \in 0..MaxRunIds
  BY HeartbeatAssumption
<1>4. CASE CheckoutFails(w)
  <2>1. /\ poll[w].at = "checkout" /\ SpendBeatFault /\ Continue(w, "list")
        /\ UNCHANGED <<live, hired, boot, unmarked, rows, runIds, moves>>
        /\ issue' = issue \/ CheckedOut(w, j)
    BY <1>2, <1>4 DEF CheckoutFails
  <2>2. PICK p \in PollRecords :
            /\ poll' = [poll EXCEPT ![w] = p] /\ p.at = "list"
            /\ p.company = poll[w].company /\ p.left = poll[w].left /\ p.doing = {}
            /\ p.bare = poll[w].bare
    BY <2>1, Continues
  <2>3. \/ issue' = issue
        \/ /\ poll[w].at # "dispatch"
           /\ \E s \in {"todo", "in_progress"}, n \in 0..MaxRunIds :
                 issue' = [issue EXCEPT ![j].status = s, ![j].run = n]
    BY <1>2, <2>1 DEF CheckedOut
  <2> QED BY <1>1, <1>2, <2>1, <2>2, <2>3, FaultInHand
<1>5. CASE RequeueFails(w)
  <2>1. /\ poll[w].at = "requeue" /\ SpendBeatFault /\ Continue(w, "list")
        /\ UNCHANGED <<live, hired, boot, unmarked, rows, runIds, moves>>
        /\ issue' = issue \/ ToDo(w)
    BY <1>2, <1>5 DEF RequeueFails
  <2>2. PICK p \in PollRecords :
            /\ poll' = [poll EXCEPT ![w] = p] /\ p.at = "list"
            /\ p.company = poll[w].company /\ p.left = poll[w].left /\ p.doing = {}
            /\ p.bare = poll[w].bare
    BY <2>1, Continues
  <2>3. \/ issue' = issue
        \/ /\ poll[w].at # "dispatch"
           /\ \E s \in {"todo", "in_progress"}, n \in 0..MaxRunIds :
                 issue' = [issue EXCEPT ![j].status = s, ![j].run = n]
    BY <1>2, <1>3, <2>1 DEF ToDo
  <2> QED BY <1>1, <1>2, <2>1, <2>2, <2>3, FaultInHand
<1>6. CASE DispatchFails(w)
  <2>1. /\ poll[w].at = "dispatch" /\ SpendBeatFault /\ Continue(w, "requeue")
        /\ UNCHANGED <<live, issue, hired, boot, unmarked, runIds, moves>>
        /\ rows' = rows \/ (poll[w].at = "dispatch" /\ rows' = rows \cup WorkReady(w))
    BY <1>6 DEF DispatchFails
  <2>2. PICK p \in PollRecords :
            /\ poll' = [poll EXCEPT ![w] = p] /\ p.at = "requeue"
            /\ p.company = poll[w].company /\ p.left = poll[w].left /\ p.bare = poll[w].bare
            /\ p.doing = poll[w].doing /\ p.run = poll[w].run
    BY <2>1, Continues
  <2> QED BY <1>1, <1>2, <2>1, <2>2, FaultInHand
<1> QED BY <1>4, <1>5, <1>6

\* A replica that has nothing in hand stays so, or takes an issue it is to check out.
LEMMA EmptyHanded ==
    ASSUME BeatInv, NEW w \in Replicas, poll[w].at = "list",
           NEW p \in PollRecords, poll' = [poll EXCEPT ![w] = p], PollOK(p)',
           p.at \in {"list", "checkout"},
           unmarked \subseteq unmarked', unmarked' \subseteq Issues,
           \A i \in unmarked' : issue[i].company \in Companies,
           UNCHANGED <<live, issue, hired, boot, rows, moves>>, runIds' \in 0..MaxRunIds,
           beatFaults' = beatFaults \/ SpendBeatFault
    PROVE  BeatInv'
<1>1. BeatTypeOK /\ PollInv /\ poll \in [Replicas -> PollRecords]
  BY DEF BeatInv, BeatTypeOK, PollRecords
<1>2. /\ poll' \in [Replicas -> PollRecords] /\ poll'[w] = p
      /\ \A v \in Replicas \ {w} : poll'[v] = poll[v]
  BY <1>1
<1>3. PICK paid \in Nat : /\ beatFaults' = beatFaults + paid
                          /\ beatFaults' \in 0..MaxBeatFaults
                          /\ beatFaults' = 0 => beatFaults = 0
  <2>1. beatFaults = beatFaults + 0
    BY FaultSpent
  <2> QED BY <2>1, FaultSpent
<1>4. live' \in BOOLEAN
  BY <1>1, Zenon DEF BeatTypeOK
<1>5. BeatTypeOK'
  BY <1>1, <1>2, <1>3, <1>4 DEF BeatTypeOK, PollRecords
<1>6. PollInv'
  <2>1. ASSUME NEW v \in Replicas PROVE PollOK(poll[v])'
    <3>1. CASE v = w
      BY <1>2, <3>1 DEF PollOK
    <3>2. CASE v # w
      <4>1. PollOK(poll[v]) /\ poll'[v] = poll[v]
        BY <1>1, <1>2, <3>2 DEF PollInv
      <4> QED BY <4>1 DEF PollOK, MayTake
    <3> QED BY <3>1, <3>2
  <2>2. \A r \in rows : RowOK(r)'
    BY <1>1 DEF PollInv, RowOK
  <2> QED BY <1>1, <2>1, <2>2 DEF PollInv
<1>7. \A i \in Issues : Claimants(i)' = Claimants(i) /\ w \notin Claimants(i)
  BY <1>2 DEF Claimants
<1>8. ClaimsInv'
  BY <1>3, <1>7, NothingClaimed
<1>9. KeptInv'
  BY <1>2, <1>3, <1>7, KeptStep
<1>10. BootInv'
  BY DEF BeatInv, BootInv
<1> QED BY <1>5, <1>6, <1>8, <1>9, <1>10 DEF BeatInv

\* A tick lists the runnable issues of a company, or takes the next one of the list.
LEMMA ListStep ==
    ASSUME BeatInv, NEW w \in Replicas,
           (\E c \in Companies : TickCompany(w, c) \/ MalformedList(w, c)) \/ NextIssue(w)
    PROVE  BeatInv'
<1>1. /\ poll[w] \in PollRecords /\ poll \in [Replicas -> PollRecords] /\ PollOK(poll[w])
      /\ runIds \in 0..MaxRunIds /\ MaxRunIds \in Nat /\ unmarked \subseteq Issues
      /\ \A i \in unmarked : issue[i].company \in Companies
  BY HeartbeatAssumption DEF BeatInv, BeatTypeOK, PollRecords, PollInv
<1>2. ASSUME NEW c \in Companies, TickCompany(w, c) \/ MalformedList(w, c) PROVE BeatInv'
  <2>1. \A i \in Issues : IsRunnable(i) => issue[i].company \in Companies
    BY DEF BeatInv, PollInv, IsRunnable, Absent
  <2>2. PICK L \in SUBSET Issues, bare \in SUBSET Issues :
            /\ Lists(w, c, L, bare) /\ bare \subseteq L
            /\ \A i \in L : issue[i].company \in Companies
    <3>1. CASE TickCompany(w, c)
      <4>1. PICK L : L = {i \in Issues : IsRunnable(i) /\ issue[i].company = c}
        OBVIOUS
      <4>2. Lists(w, c, L, {})
        BY <3>1, <4>1 DEF TickCompany
      <4> QED BY <4>1, <4>2
    <3>2. CASE MalformedList(w, c)
      <4>1. PICK L : L = {i \in Issues : IsRunnable(i)}
        OBVIOUS
      <4>2. PICK bare \in SUBSET {i \in L : issue[i].company # c} : Lists(w, c, L, bare)
        BY <3>2, <4>1 DEF MalformedList
      <4> QED BY <2>1, <4>1, <4>2
    <3> QED BY <1>2, <3>1, <3>2
  <2>3. PICK p : p = [BetweenTicks EXCEPT !.company = c, !.left = L, !.bare = bare]
    OBVIOUS
  <2>4. /\ p \in PollRecords /\ p.at = "list" /\ p.doing = {} /\ p.company = c
        /\ p.left = L /\ p.bare = bare
    <3>1. p = [at |-> "list", company |-> c, left |-> L, bare |-> bare, doing |-> {},
               run |-> 0]
      BY <2>3 DEF BetweenTicks
    <3> QED BY <1>1, <1>2, <2>2, <3>1 DEF PollRecords
  <2>5. /\ poll[w].at = "list" /\ poll' = [poll EXCEPT ![w] = p]
        /\ unmarked' = unmarked \cup bare
        /\ UNCHANGED <<live, issue, hired, boot, rows, runIds, moves>>
    BY <2>2, <2>3 DEF Lists
  <2>6. PollOK(p)'
    BY <1>2, <2>2, <2>4, <2>5 DEF PollOK
  <2>7. beatFaults' = beatFaults \/ SpendBeatFault
    BY <1>2 DEF TickCompany, MalformedList
  <2>8. /\ unmarked \subseteq unmarked' /\ unmarked' \subseteq Issues
        /\ \A i \in unmarked' : issue[i].company \in Companies
    BY <1>1, <2>2, <2>5
  <2> QED BY <1>1, <2>4, <2>5, <2>6, <2>7, <2>8, EmptyHanded
<1>3. CASE NextIssue(w)
  <2>1. /\ poll[w].at = "list"
        /\ UNCHANGED <<live, issue, hired, boot, unmarked, rows, moves, beatFaults>>
    BY <1>3 DEF NextIssue
  <2>2. PICK i \in poll[w].left :
            IF Takes(w, i)
            THEN /\ runIds < MaxRunIds /\ runIds' = runIds + 1
                 /\ poll' = [poll EXCEPT ![w].at = "checkout", ![w].doing = {i},
                                         ![w].left = @ \ {i}, ![w].bare = @ \ {i},
                                         ![w].run = runIds + 1]
            ELSE /\ poll' = [poll EXCEPT ![w].left = @ \ {i}, ![w].bare = @ \ {i}]
                 /\ runIds' = runIds
    BY <1>3 DEF NextIssue
  <2>3. i \in Issues /\ poll[w].company \in Companies /\ issue[i].company \in Companies
    BY <1>1, <2>2 DEF PollRecords, PollOK
  <2>4. CASE Takes(w, i)
    <3>1. PICK p : p = [poll[w] EXCEPT !.at = "checkout", !.doing = {i}, !.left = @ \ {i},
                                       !.bare = @ \ {i}, !.run = runIds + 1]
      OBVIOUS
    <3>2. poll' = [poll EXCEPT ![w] = p] /\ runIds' = runIds + 1 /\ runIds < MaxRunIds
      BY <1>1, <2>2, <2>4, <3>1
    <3>3. runIds + 1 \in 0..MaxRunIds /\ runIds + 1 > 0
      BY <1>1, <3>2
    <3>4. /\ p \in PollRecords /\ p.at = "checkout" /\ p.doing = {i}
          /\ p.company = poll[w].company /\ p.run = runIds + 1
          /\ p.left \subseteq poll[w].left /\ p.bare \subseteq poll[w].bare
      BY <1>1, <2>3, <3>1, <3>3 DEF PollRecords
    <3>5. MayTake(p.company, i)
      BY <1>1, <2>3, <2>4, <3>4 DEF PollOK, Takes, MayTake
    <3>6. PollOK(p)'
      BY <1>1, <2>1, <2>3, <3>3, <3>4, <3>5 DEF PollOK, MayTake
    <3> QED BY <1>1, <2>1, <3>2, <3>3, <3>4, <3>6, EmptyHanded
  <2>5. CASE ~Takes(w, i)
    <3>1. PICK p : p = [poll[w] EXCEPT !.left = @ \ {i}, !.bare = @ \ {i}]
      OBVIOUS
    <3>2. poll' = [poll EXCEPT ![w] = p] /\ runIds' = runIds
      BY <1>1, <2>2, <2>5, <3>1
    <3>3. /\ p \in PollRecords /\ p.at = "list" /\ p.doing = {}
          /\ p.company = poll[w].company
          /\ p.left \subseteq poll[w].left /\ p.bare \subseteq poll[w].bare
      BY <1>1, <2>1, <3>1 DEF PollRecords, PollOK
    <3>4. PollOK(p)'
      BY <1>1, <2>1, <2>3, <3>3 DEF PollOK
    <3> QED BY <1>1, <2>1, <3>2, <3>3, <3>4, EmptyHanded
  <2> QED BY <2>4, <2>5
<1> QED BY <1>2, <1>3

\* A process is stopped.
LEMMA ShutdownStep ==
    ASSUME BeatInv, NEW w \in Replicas, Shutdown(w)
    PROVE  BeatInv'
<1>1. PICK p : p = BetweenTicks
  OBVIOUS
<1>2. /\ poll' = [poll EXCEPT ![w] = p] /\ SpendBeatFault
      /\ UNCHANGED <<live, hired, boot, unmarked, runIds, moves>>
  BY <1>1 DEF Shutdown
<1>3. /\ p \in PollRecords /\ p.at = "list" /\ p.doing = {} /\ p.left = {}
      /\ p.bare = {}
      /\ 0 \in 0..MaxRunIds
  BY <1>1, HeartbeatAssumption DEF BetweenTicks, PollRecords
<1>4. CASE poll[w].at = "list"
  <2>1. UNCHANGED <<issue, rows>>
    BY <1>4 DEF Shutdown
  <2>2. PollOK(p)'
    BY <1>3 DEF PollOK
  <2>3. /\ runIds' \in 0..MaxRunIds
        /\ unmarked \subseteq unmarked' /\ unmarked' \subseteq Issues
        /\ \A i \in unmarked' : issue[i].company \in Companies
    BY <1>2, FaultSpent DEF BeatInv, BeatTypeOK, PollInv
  <2> QED BY <1>2, <1>3, <1>4, <2>1, <2>2, <2>3, EmptyHanded
<1>5. CASE poll[w].at # "list"
  <2>1. PICK j \in Issues : poll[w].doing = {j} /\ poll[w].run \in 0..MaxRunIds
    BY <1>5, InHandFacts
  <2>2. rows' = rows \/ (poll[w].at = "dispatch" /\ rows' = rows \cup WorkReady(w))
    BY DEF Shutdown
  <2>3. issue' = issue \/ (poll[w].at # "dispatch" /\ (CheckedOut(w, j) \/ ToDo(w)))
    BY <2>1 DEF Shutdown
  <2>4. \/ issue' = issue
        \/ /\ poll[w].at # "dispatch"
           /\ \E s \in {"todo", "in_progress"}, n \in 0..MaxRunIds :
                 issue' = [issue EXCEPT ![j].status = s, ![j].run = n]
    <3>1. CASE CheckedOut(w, j)
      BY <2>1, <2>3, <3>1 DEF CheckedOut
    <3>2. CASE ToDo(w)
      BY <1>3, <2>1, <2>3, <3>2 DEF ToDo
    <3> QED BY <2>3, <3>1, <3>2
  <2>5. p.left \subseteq poll[w].left /\ (p.left # {} => p.company = poll[w].company)
        /\ p.bare \subseteq poll[w].bare
    BY <1>3
  <2> QED BY <1>2, <1>3, <1>5, <2>1, <2>2, <2>4, <2>5, FaultInHand
<1> QED BY <1>4, <1>5

\* A step outside the worker that changes no issue.
LEMMA BootStep ==
    ASSUME BeatInv, UNCHANGED <<live, issue, poll, unmarked, rows, runIds, moves>>,
           hired' \subseteq Companies,
           boot' \in [Bootstraps -> [at : {"company", "hire", "issue", "done"},
                                     company : Companies \cup {NoCompany}]],
           BootInv', beatFaults' = beatFaults \/ SpendBeatFault
    PROVE  BeatInv'
<1>1. PICK paid \in Nat : /\ beatFaults' = beatFaults + paid
                          /\ beatFaults' \in 0..MaxBeatFaults
                          /\ beatFaults' = 0 => beatFaults = 0
  <2>1. beatFaults = beatFaults + 0
    BY FaultSpent
  <2> QED BY <2>1, FaultSpent
<1>2. live' \in BOOLEAN
  BY Zenon DEF BeatInv, BeatTypeOK
<1>3. BeatTypeOK'
  BY <1>1, <1>2 DEF BeatInv, BeatTypeOK
<1>4. PollInv'
  BY DEF BeatInv, PollInv, PollOK, MayTake, RowOK
<1>5. \A i \in Issues : Claimants(i)' = Claimants(i)
  BY DEF Claimants
<1>6. ClaimsInv'
  BY <1>1, <1>5, NothingClaimed
<1>7. KeptInv'
  BY <1>1, <1>5 DEF BeatInv, KeptInv
<1> QED BY <1>3, <1>4, <1>6, <1>7 DEF BeatInv

\* A step outside the worker that changes one issue: it keeps its company or nobody has it,
\* and a claim that it had is kept or ends.
LEMMA IssueStep ==
    ASSUME BeatInv, NEW j \in Issues, UNCHANGED <<live, poll, unmarked, rows, runIds>>,
           hired' \subseteq Companies,
           boot' \in [Bootstraps -> [at : {"company", "hire", "issue", "done"},
                                     company : Companies \cup {NoCompany}]], BootInv',
           issue' \in [Issues -> IssueRecords], \A i \in Issues \ {j} : issue'[i] = issue[i],
           issue'[j].status # "absent", issue'[j].company \in Companies,
           issue'[j].company = issue[j].company \/ issue[j] = Absent,
           NEW m \in Nat, moves' = moves + m, moves' \in 0..MaxMoves,
           NEW paid \in Nat, beatFaults' = beatFaults + paid, beatFaults' \in 0..MaxBeatFaults,
           issue[j] = Absent \/ Spent(j) <= Spent(j)' + m + paid,
           \/ issue'[j].status # "in_progress" \/ issue'[j].run = 0
           \/ issue'[j].status = issue[j].status /\ issue'[j].run = issue[j].run
    PROVE  BeatInv'
<1>1. live' \in BOOLEAN
  BY Zenon DEF BeatInv, BeatTypeOK
<1>2. BeatTypeOK'
  BY <1>1 DEF BeatInv, BeatTypeOK, IssueRecords
<1>3. issue[j] = Absent =>
          RowsOf(j) = {} /\ j \notin unmarked /\ \A w \in Replicas : j \notin poll[w].doing
  <2>1. ASSUME issue[j] = Absent PROVE issue[j].company \notin Companies
    BY <2>1, HeartbeatAssumption DEF Absent, Companies
  <2>2. /\ \A r \in rows : issue[r.issue].company \in Companies
        /\ \A i \in unmarked : issue[i].company \in Companies
    BY DEF BeatInv, PollInv, RowOK
  <2>3. ASSUME NEW w \in Replicas, j \in poll[w].doing PROVE issue[j].company \in Companies
    BY <2>3 DEF BeatInv, PollInv, PollOK, MayTake
  <2> QED BY <2>1, <2>2, <2>3 DEF RowsOf
<1>4. PollInv'
  <2>1. ASSUME NEW w \in Replicas PROVE PollOK(poll[w])'
    <3>1. /\ PollOK(poll[w]) /\ poll[w].doing \subseteq Issues /\ poll[w].left \subseteq Issues
      BY DEF BeatInv, PollInv, BeatTypeOK
    <3>2. \A i \in poll[w].doing : issue'[i].company = issue[i].company
      BY <1>3, <3>1
    <3>3. \A i \in poll[w].left : issue'[i].company \in Companies
      BY <3>1 DEF PollOK
    <3> QED BY <3>1, <3>2, <3>3 DEF PollOK, MayTake
  <2>2. ASSUME NEW r \in rows PROVE RowOK(r)'
    <3>1. RowOK(r) /\ r.issue \in Issues
      BY DEF BeatInv, PollInv, BeatTypeOK
    <3>2. issue'[r.issue].company = issue[r.issue].company
      BY <1>3, <3>1 DEF RowsOf
    <3> QED BY <3>1, <3>2 DEF RowOK
  <2>3. \A i \in Issues : IF issue'[i].status = "absent" THEN issue'[i] = Absent
                         ELSE issue'[i].company \in Companies
    BY DEF BeatInv, PollInv
  <2>4. \A i \in unmarked' : issue'[i].company \in Companies
    BY DEF BeatInv, PollInv, BeatTypeOK
  <2> QED BY <2>1, <2>2, <2>3, <2>4 DEF PollInv
<1>5. ClaimsInv'
  <2>1. issue[j] = Absent => RowsOf(j) = {} /\ Claimants(j) = {}
    BY <1>3 DEF Claimants
  <2>2. (RowsOf(j) = {} /\ Claimants(j) = {}) \/ Spent(j) <= Spent(j)' + m + paid
    BY <2>1
  <2>3. poll' = poll /\ rows' = rows
    OBVIOUS
  <2> QED BY <2>2, <2>3, IssueChanges
<1>6. KeptInv'
  <2>1. beatFaults' = 0 => beatFaults = 0
    BY FaultSpent
  <2>2. \A i \in Issues : Claimants(i)' = Claimants(i)
    BY DEF Claimants
  <2> QED BY <2>1, <2>2 DEF BeatInv, KeptInv
<1> QED BY <1>2, <1>4, <1>5, <1>6 DEF BeatInv

\* The bootstrap of a tenant.
LEMMA BootstrapStep ==
    ASSUME BeatInv, NEW b \in Bootstraps,
           CreateCompany(b) \/ CreateAgentHire(b) \/ CreateIssue(b) \/ BootstrapFails(b)
    PROVE  BeatInv'
<1> DEFINE Boots == [Bootstraps -> [at : {"company", "hire", "issue", "done"},
                                    company : Companies \cup {NoCompany}]]
<1>1. boot \in Boots /\ hired \subseteq Companies /\ moves \in Nat /\ moves \in 0..MaxMoves
  BY HeartbeatAssumption DEF BeatInv, BeatTypeOK
<1>2. boot' \in Boots /\ BootInv'
  <2>1. BootInv
    BY DEF BeatInv
  <2>2. CASE CreateCompany(b)
    BY <1>1, <2>1, <2>2 DEF CreateCompany, BootInv
  <2>3. CASE CreateAgentHire(b)
    BY <1>1, <2>1, <2>3 DEF CreateAgentHire, BootInv
  <2>4. CASE CreateIssue(b)
    BY <1>1, <2>1, <2>4 DEF CreateIssue, BootInv
  <2>5. CASE BootstrapFails(b)
    BY <1>1, <2>1, <2>5 DEF BootstrapFails, BootInv
  <2> QED BY <2>2, <2>3, <2>4, <2>5
<1>3. ASSUME NEW j \in Issues, SeedIssue(b, j), UNCHANGED <<live, poll, unmarked, rows, runIds, moves>>,
             beatFaults' = beatFaults \/ SpendBeatFault, hired' \subseteq Companies
      PROVE  BeatInv'
  <2>1. /\ issue[j] = Absent
        /\ issue' = [issue EXCEPT
                        ![j] = [Absent EXCEPT !.company = boot[b].company, !.status = "todo"]]
        /\ boot[b].company \in Companies
    BY <1>3 DEF SeedIssue, BeatInv, BootInv
  <2>2. PICK rec : rec = [Absent EXCEPT !.company = boot[b].company, !.status = "todo"]
    OBVIOUS
  <2>3. /\ rec \in IssueRecords /\ rec.status = "todo" /\ rec.run = 0
        /\ rec.company \in Companies
    <3>1. rec = [company |-> boot[b].company, status |-> "todo", assigned |-> FALSE, run |-> 0]
      BY <2>2 DEF Absent
    <3> QED BY <1>1, <2>1, <3>1, HeartbeatAssumption DEF IssueRecords, Statuses, RunnableStatuses
  <2>4. /\ issue' \in [Issues -> IssueRecords] /\ issue'[j] = rec
        /\ \A i \in Issues \ {j} : issue'[i] = issue[i]
    BY <2>1, <2>2, <2>3 DEF BeatInv, BeatTypeOK, IssueRecords
  <2>5. PICK paid \in Nat : beatFaults' = beatFaults + paid /\ beatFaults' \in 0..MaxBeatFaults
    <3>1. beatFaults = beatFaults + 0
      BY FaultSpent
    <3> QED BY <1>3, <3>1, FaultSpent
  <2>6. moves' = moves + 0 /\ moves' \in 0..MaxMoves /\ issue'[j].status # "absent"
        /\ issue'[j].run = 0 /\ issue'[j].company \in Companies
    BY <1>1, <1>3, <2>3, <2>4
  <2>7. UNCHANGED <<live, poll, unmarked, rows, runIds>>
    BY <1>3
  <2> QED BY <1>2, <1>3, <2>1, <2>4, <2>5, <2>6, <2>7, IssueStep
<1>4. CASE CreateCompany(b)
  BY <1>1, <1>2, <1>4, BootStep DEF CreateCompany
<1>5. CASE CreateAgentHire(b)
  <2>1. hired' \subseteq Companies
    BY <1>1, <1>5 DEF CreateAgentHire, BeatInv, BootInv
  <2> QED BY <1>2, <1>5, <2>1, BootStep DEF CreateAgentHire
<1>6. CASE CreateIssue(b)
  BY <1>1, <1>3, <1>6 DEF CreateIssue
<1>7. CASE BootstrapFails(b)
  <2>1. /\ SpendBeatFault /\ UNCHANGED <<live, poll, unmarked, rows, runIds, moves>>
        /\ hired' \subseteq Companies
        /\ issue' = issue \/ \E i \in Issues : SeedIssue(b, i)
    BY <1>1, <1>7 DEF BootstrapFails
  <2> QED BY <1>2, <1>3, <2>1, BootStep
<1> QED BY <1>4, <1>5, <1>6, <1>7

\* People open an issue, assign it or move it.
LEMMA PeopleStep ==
    ASSUME BeatInv, NEW j \in Issues,
           \/ Assign(j) \/ \E c \in Companies : OpenIssue(j, c)
           \/ \E s \in Statuses : MoveIssue(j, s)
    PROVE  BeatInv'
<1>1. /\ issue \in [Issues -> IssueRecords] /\ hired \subseteq Companies
      /\ IF issue[j].status = "absent" THEN issue[j] = Absent
         ELSE issue[j].company \in Companies
      /\ moves \in 0..MaxMoves /\ moves \in Nat /\ MaxMoves \in Nat /\ 0 \in 0..MaxRunIds
      /\ beatFaults' = beatFaults + 0 /\ beatFaults' \in 0..MaxBeatFaults
  <2>1. beatFaults' = beatFaults /\ beatFaults \in Nat /\ beatFaults \in 0..MaxBeatFaults
    BY FaultSpent DEF Assign, MoveIssue, OpenIssue
  <2>2. beatFaults' = beatFaults + 0
    BY <2>1
  <2> QED BY <2>1, <2>2, HeartbeatAssumption
          DEF BeatInv, BeatTypeOK, IssueRecords, PollInv
<1>2. /\ UNCHANGED <<live, poll, unmarked, rows, runIds>> /\ hired' \subseteq Companies
      /\ boot' \in [Bootstraps -> [at : {"company", "hire", "issue", "done"},
                                   company : Companies \cup {NoCompany}]]
      /\ BootInv'
  BY <1>1 DEF BeatInv, BeatTypeOK, BootInv, Assign, MoveIssue, OpenIssue
<1>3. Spent(j) \in {0, 1} /\ Spent(j)' \in {0, 1}
  BY DEF Spent
<1>4. CASE Assign(j)
  <2>1. issue[j].company \in Companies /\ issue' = [issue EXCEPT ![j].assigned = TRUE]
        /\ moves' = moves
    BY <1>1, <1>4 DEF Assign
  <2>2. issue[j].status # "absent"
    BY <1>1, <2>1, HeartbeatAssumption DEF Absent, Companies
  <2>3. /\ issue' \in [Issues -> IssueRecords] /\ \A i \in Issues \ {j} : issue'[i] = issue[i]
        /\ issue'[j].company = issue[j].company /\ issue'[j].status = issue[j].status
        /\ issue'[j].run = issue[j].run
    BY <1>1, <2>1 DEF IssueRecords
  <2>4. moves' = moves + 0 /\ moves' \in 0..MaxMoves /\ Spent(j) <= Spent(j)' + 0 + 0
    BY <1>1, <1>3, <2>1, <2>3 DEF Spent
  <2> QED BY <1>1, <1>2, <2>2, <2>3, <2>4, IssueStep
<1>5. ASSUME NEW s \in Statuses, MoveIssue(j, s) PROVE BeatInv'
  <2>1. /\ issue[j].assigned /\ moves < MaxMoves /\ moves' = moves + 1
        /\ issue' = [issue EXCEPT ![j].status = s, ![j].run = 0]
    BY <1>5 DEF MoveIssue
  <2>2. issue[j].company \in Companies
    BY <1>1, <2>1 DEF Absent
  <2>3. /\ issue' \in [Issues -> IssueRecords] /\ \A i \in Issues \ {j} : issue'[i] = issue[i]
        /\ issue'[j].company = issue[j].company /\ issue'[j].status = s
        /\ issue'[j].run = 0 /\ s # "absent"
    BY <1>1, <1>5, <2>1 DEF IssueRecords, Statuses, RunnableStatuses
  <2>4. moves' \in 0..MaxMoves /\ Spent(j) <= Spent(j)' + 1 + 0
    BY <1>1, <1>3, <2>1
  <2>5. issue'[j].status # "absent"
    BY <2>3
  <2>6. issue'[j].company \in Companies
    BY <2>3, <2>2
  <2> QED BY <1>1, <1>2, <2>1, <2>3, <2>4, <2>5, <2>6, IssueStep
<1>6. ASSUME NEW c \in Companies, OpenIssue(j, c) PROVE BeatInv'
  <2>1. PICK rec : rec = [Absent EXCEPT !.company = c, !.status = "todo"]
    OBVIOUS
  <2>2. issue[j] = Absent /\ issue' = [issue EXCEPT ![j] = rec] /\ moves' = moves
    BY <1>6, <2>1 DEF OpenIssue
  <2>3. /\ rec \in IssueRecords /\ rec.status = "todo" /\ rec.run = 0 /\ rec.company = c
    <3>1. rec = [company |-> c, status |-> "todo", assigned |-> FALSE, run |-> 0]
      BY <2>1 DEF Absent
    <3> QED BY <1>1, <3>1 DEF IssueRecords, Statuses, RunnableStatuses
  <2>4. /\ issue' \in [Issues -> IssueRecords] /\ issue'[j] = rec
        /\ \A i \in Issues \ {j} : issue'[i] = issue[i]
    BY <1>1, <2>2, <2>3
  <2>5. moves' = moves + 0 /\ moves' \in 0..MaxMoves
    BY <1>1, <2>2
  <2> QED BY <1>1, <1>2, <2>2, <2>3, <2>4, <2>5, IssueStep
<1> QED BY <1>4, <1>5, <1>6

\* The invariant of the heartbeat holds at first, and every step keeps it.
LEMMA BeatInvariant ==
    /\ BeatInit => BeatInv
    /\ BeatInv /\ BeatNext => BeatInv'
    /\ BeatInv /\ UNCHANGED beatVars => BeatInv'
<1>1. ASSUME BeatInit PROVE BeatInv
  <2> USE <1>1 DEF BeatInit
  <2>1. BeatTypeOK
    <3>1. Absent \in IssueRecords
      BY HeartbeatAssumption DEF Absent, IssueRecords
    <3>2. BetweenTicks \in PollRecords
      BY HeartbeatAssumption DEF BetweenTicks, PollRecords
    <3>3. issue \in [Issues -> IssueRecords] /\ poll \in [Replicas -> PollRecords]
      BY <3>1, <3>2
    <3>4. live \in BOOLEAN
      BY Zenon
    <3> QED BY <3>3, <3>4, HeartbeatAssumption DEF BeatTypeOK, IssueRecords, PollRecords
  <2>2. \A w \in Replicas : /\ poll[w].at = "list" /\ poll[w].doing = {}
                            /\ poll[w].left = {} /\ poll[w].bare = {}
    BY DEF BetweenTicks
  <2>3. PollInv /\ BootInv
    <3>1. \A i \in Issues : issue[i] = Absent /\ issue[i].status = "absent"
      BY DEF Absent
    <3> QED BY <2>2, <3>1 DEF PollInv, PollOK, BootInv
  <2>4. \A i \in Issues : RowsOf(i) = {} /\ Claimants(i) = {} /\ Spent(i) \in {0, 1}
    BY <2>2 DEF RowsOf, Claimants, Spent
  <2>5. ClaimsInv
    BY <2>4, FS_EmptySet DEF ClaimsInv
  <2>6. KeptInv
    BY DEF KeptInv, Absent
  <2> QED BY <2>1, <2>3, <2>5, <2>6 DEF BeatInv
<1>2. ASSUME BeatInv, BeatNext PROVE BeatInv'
  BY <1>2, ListStep, CheckoutStep, DispatchStep, RequeueStep, HandFails, ShutdownStep,
     BootstrapStep, PeopleStep DEF BeatNext, BeatStep
<1>3. ASSUME BeatInv, UNCHANGED beatVars PROVE BeatInv'
  <2>1. UNCHANGED <<live, issue, hired, boot, poll, unmarked, rows, runIds, moves,
                    beatFaults>>
    BY <1>3 DEF beatVars
  <2> QED BY <1>3, <2>1, BootStep DEF BeatInv, BeatTypeOK, BootInv
<1> QED BY <1>1, <1>2, <1>3

-----------------------------------------------------------------------------
(* Theorems *)

\* The inductive invariant holds of every behaviour: the part that moves keeps its own
\* conjunct, and the others' variables stand still.
THEOREM Invariance == Spec => []IInv
<1>1. Init => IInv
  BY ResourcesInvariant, VaultInvariant, LogInvariant, BeatInvariant DEF Init, IInv
<1>2. IInv /\ [Next]_vars => IInv'
  <2> SUFFICES ASSUME IInv, [Next]_vars PROVE IInv'
    OBVIOUS
  <2>1. ResourcesInv /\ VaultInv /\ LogInv /\ BeatInv /\ part \in Parts
    BY DEF IInv
  <2>2. part' = part
    BY DEF Next, vars
  <2>3. ResourcesNext \/ UNCHANGED resourceVars
    BY DEF Next, vars
  <2>4. VaultNext \/ UNCHANGED vaultVars
    BY DEF Next, vars
  <2>5. LogNext \/ UNCHANGED logVars
    BY DEF Next, vars
  <2>6. BeatNext \/ UNCHANGED beatVars
    BY DEF Next, vars
  <2>7. ResourcesInv' /\ VaultInv' /\ LogInv' /\ BeatInv'
    BY <2>1, <2>3, <2>4, <2>5, <2>6, ResourcesInvariant, VaultInvariant, LogInvariant,
       BeatInvariant
  <2> QED BY <2>1, <2>2, <2>7 DEF IInv
<1> QED BY <1>1, <1>2, PTL DEF Spec

\* Every variable of the four parts keeps its type.
THEOREM TypeCorrect == Spec => []TypeOK
<1>1. IInv => TypeOK
  BY DEF IInv, TypeOK, ResourcesInv, VaultInv, LogInv, BeatInv
<1> QED BY <1>1, Invariance, PTL

\* A provisioning run that completes leaves every resource of its tenant behind
\* (tenant-provisioning.ts run and the clients it drives), for any number of runs that
\* overlap, fail and crash.
THEOREM ProvisioningIsComplete == Spec => []ProvisionedIsComplete
<1>1. IInv => ProvisionedIsComplete
  <2> SUFFICES ASSUME IInv, NEW r \in Runs, step[r] = "done"
               PROVE  LET t == TenantOf[r] IN
                      /\ "zitadel" \in real => OrgName(t) \in cloud.orgs \cap cloud.accounts
                      /\ "gitea" \in real => t \in cloud.repos /\ cloud.doc[t].rev > 0
                      /\ "minio" \in real => t \in cloud.buckets
                      /\ "lago" \in real => t \in cloud.customers \cap cloud.plans
                      /\ "vault" \in real => {t} \X SecretKeys \subseteq cloud.secrets
    BY DEF ProvisionedIsComplete
  <2>1. Reached(r, "done", cloud) /\ WrittenInv(r)
    BY DEF IInv, ResourcesInv, BehindInv
  <2> QED BY <2>1 DEF Reached, WrittenInv, AfterOrg, AfterAccount, AfterRepo, AfterBucket,
                      AfterCustomer, AfterPlan, AfterDoc
<1> QED BY <1>1, Invariance, PTL

\* A provisioning run fails only when a call of its own failed, another run of its tenant
\* ran at the same time, or the founder edited FOUNDER.md under it: repeating a run is safe
\* once the calls of the earlier one are over (tenant-provisioning.ts:19 "Each step is
\* idempotent").
THEOREM RunsAreIdempotent == Spec => []FailedRunHasCause
<1>1. IInv => FailedRunHasCause
  BY DEF IInv, ResourcesInv, LookedInv, FailedRunHasCause
<1> QED BY <1>1, Invariance, PTL

\* A token that a request uses is honoured when the request reaches Vault, unless one was
\* revoked or Vault gave a lease whose three tenths do not outlast two messages, and no
\* operation throws without a mishap (vault-approle-auth.ts:92 "always returns a valid,
\* non-expired token"), however requests interleave and whatever leases they are given.
THEOREM TokensAreValid == Spec => []SecretFailureHasCause
<1>1. IInv => SecretFailureHasCause
  <2> SUFFICES ASSUME VaultInv PROVE SecretFailureHasCause
    BY DEF IInv
  <2>1. ASSUME NEW c \in Callers, caller[c].at = "sent"
        PROVE  life[caller[c].token] > 0 \/ mishaps \cap {"revoked", "short"} # {}
    <3>1. PICK k \in Tokens : k = caller[c].token
      BY <2>1, VaultTypes DEF CallerInv, Holding
    <3>2. life[k] \in Nat /\ Age(c) \in 0..1
      BY <2>1, <3>1, VaultTypes
    <3>3. mishaps \cap {"revoked", "short"} # {} \/ life[k] + Age(c) >= 2
      BY <2>1, <3>1, VaultTypes DEF CallerLife, Excused
    <3> QED BY <3>1, <3>2, <3>3
  <2>2. \A c \in Callers : caller[c].at = "threw" => mishaps # {}
    BY DEF VaultInv, CallerInv
  <2> QED BY <2>1, <2>2 DEF SecretFailureHasCause
<1> QED BY <1>1, Invariance, PTL

\* A call of the model that returned has exactly one row, in the buffer, in one batch or in
\* the table, unless a failed insert or the stop of the process lost it; a call that threw
\* has none (openai-runner.ts run and BufferedLlmCallLogSink).
THEOREM CallsAreLoggedOnce == Spec => []OneRowPerCall
<1>1. IInv => OneRowPerCall
  <2> SUFFICES ASSUME LogInv, NEW c \in LlmCalls
               PROVE  Count(c, buffer) + Cardinality({b \in batches : c \in ToSet(b)})
                          + Count(c, table)
                      = IF sink /\ call[c].at = "returned" /\ c \notin dropped THEN 1 ELSE 0
    BY DEF IInv, OneRowPerCall
  <2> DEFINE In == {b \in batches : c \in ToSet(b)}
  <2>1. /\ Count(c, buffer) = IF c \in ToSet(buffer) THEN 1 ELSE 0
        /\ Count(c, table) = IF c \in ToSet(table) THEN 1 ELSE 0
    BY LogTypes, CountedOnce DEF LogInv, RowsInv
  <2>2. Cardinality(In) = IF \E b \in batches : c \in ToSet(b) THEN 1 ELSE 0
    <3>1. CASE \E b \in batches : c \in ToSet(b)
      <4>1. PICK b \in batches : c \in ToSet(b)
        BY <3>1
      <4>2. In = {b}
        BY <4>1 DEF LogInv, RowsInv
      <4> QED BY <3>1, <4>2, FS_Singleton
    <3>2. CASE ~\E b \in batches : c \in ToSet(b)
      <4>1. In = {}
        BY <3>2
      <4> QED BY <3>2, <4>1, FS_EmptySet
    <3> QED BY <3>1, <3>2
  <2>3. /\ ~(c \in ToSet(buffer) /\ c \in ToSet(table))
        /\ ~(c \in ToSet(buffer) /\ \E b \in batches : c \in ToSet(b))
        /\ ~(c \in ToSet(table) /\ \E b \in batches : c \in ToSet(b))
    BY DEF LogInv, RowsInv
  <2>4. (c \in ToSet(buffer) \/ c \in ToSet(table) \/ \E b \in batches : c \in ToSet(b))
            <=> sink /\ call[c].at = "returned" /\ c \notin dropped
    BY DEF LogInv, HeldInv, Held
  <2> HIDE DEF In
  <2>5. Count(c, buffer) + Cardinality(In) + Count(c, table)
            = IF sink /\ call[c].at = "returned" /\ c \notin dropped THEN 1 ELSE 0
    BY <2>1, <2>2, <2>3, <2>4
  <2> QED BY <2>5 DEF In
<1> QED BY <1>1, Invariance, PTL

\* Work never crosses to another tenant unless Paperclip listed it for a company that is not
\* its own and without naming that; an issue is handed over again only after a move or a
\* fault; and a claimed issue is left behind only by a fault or when the answer to its
\* checkout does not parse (paperclip-heartbeat-worker.ts tickCompany and processIssue), for
\* any number of replicas.
THEOREM WorkIsHandedOver == Spec => []WorkIsHandedOverOnce
<1>1. IInv => WorkIsHandedOverOnce
  <2> SUFFICES ASSUME BeatInv PROVE WorkIsHandedOverOnce
    BY DEF IInv
  <2>1. \A r \in rows :
            r.tenant = CompanyTenant[issue[r.issue].company] \/ r.issue \in unmarked
    BY DEF BeatInv, PollInv, RowOK
  <2>2. ASSUME NEW i \in Issues
        PROVE  Cardinality({r \in rows : r.issue = i}) <= 1 + moves + beatFaults
    <3>1. RowsOf(i) = {r \in rows : r.issue = i} /\ Spent(i) \in {0, 1}
      BY DEF RowsOf, Spent
    <3>2. Cardinality(RowsOf(i)) + Cardinality(Claimants(i)) <= moves + beatFaults + Spent(i)
      BY DEF BeatInv, ClaimsInv
    <3>3. Cardinality(RowsOf(i)) <= 1 + moves + beatFaults
      BY <3>1, <3>2, FiniteClaims
    <3> QED BY <3>1, <3>3
  <2>3. ASSUME NEW i \in Issues, StrandedIssue(i) PROVE beatFaults > 0 \/ i \in Unnamed
    <3>1. beatFaults # 0 \/ i \in Unnamed
      BY <2>3 DEF StrandedIssue, BeatInv, KeptInv, Claimants
    <3> QED BY <3>1, FaultSpent
  <2> QED BY <2>1, <2>2, <2>3 DEF WorkIsHandedOverOnce
<1> QED BY <1>1, Invariance, PTL
=============================================================================
