---------------------------- MODULE VaultSecrets ----------------------------
(***************************************************************************)
(* Secrets in Vault: VaultSecretManager and the AppRole login that gives   *)
(* it tokens (packages/secrets/src/secret-manager.ts and                   *)
(* vault-approle-auth.ts). Requests of one process share a cached token;   *)
(* each of them looks at the cache, renews or logs in across awaits, and   *)
(* looks at the cache again.                                               *)
(*                                                                         *)
(* Time is counted in ticks of MaxLatency, the longest a message takes. A  *)
(* token's life is what Vault still allows it; the cache counts its own,   *)
(* from when the answer came, and so believes in a token for up to a tick  *)
(* longer than Vault does. Vault itself is external.                       *)
(***************************************************************************)
EXTENDS Naturals, FiniteSets

CONSTANTS
    Callers,         \* requests for secrets that may be under way together
    Tokens,          \* tokens Vault may issue
    NoToken,         \* no token is held
    Leases,          \* what an answer's lease_duration may be, in ticks
    MaxVaultFaults   \* bound on failed calls and revocations

ASSUME VaultAssumption ==
    /\ Leases \subseteq Nat \ {0}
    /\ MaxVaultFaults \in Nat
    /\ NoToken \notin Tokens
    /\ Cardinality(Tokens) > Cardinality(Callers)

Nothing == [token |-> NoToken, left |-> 0, lease |-> 0, renewable |-> FALSE]
AtRest(how) ==
    [at |-> how, token |-> NoToken, age |-> FALSE, lease |-> 0, renewable |-> FALSE]

(* Three tenths of a lease outlast two messages, the answer that brought   *)
(* the token and the request that uses it: that takes seven ticks. Vault   *)
(* gives shorter leases as a token comes to its max_ttl.                   *)
Short(lease) == lease < 7

VARIABLES
    life,       \* ticks Vault still honours a token for; 0: never issued or over
    cache,      \* VaultAppRoleAuth.cached
    caller,     \* where a request is, with the answer it waits for
    vaultFaults,
    mishaps     \* what has gone wrong outside the code so far (history)

vaultVars == <<life, cache, caller, vaultFaults, mishaps>>

(* at: a request is at rest, waits for Vault to see its renewal or login,  *)
(* waits for the answer, has stored the answer and not yet continued, has  *)
(* sent its operation, or is over. age: a message has been under way for a *)
(* tick.                                                                   *)
Resting == {"idle", "ok", "threw"}
Places ==
    Resting \cup {"renew", "renewAnswer", "renewed", "login", "loginAnswer", "loggedIn", "sent"}

VaultTypeOK ==
    /\ life \in [Tokens -> Nat]
    /\ cache \in [token : Tokens \cup {NoToken}, left : Nat, lease : Leases \cup {0},
                  renewable : BOOLEAN]
    /\ caller \in [Callers -> [at : Places, token : Tokens \cup {NoToken}, age : BOOLEAN,
                               lease : Leases \cup {0}, renewable : BOOLEAN]]
    /\ vaultFaults \in 0..MaxVaultFaults
    /\ mishaps \subseteq {"refused", "revoked", "late", "short"}

VaultInit ==
    /\ life = [k \in Tokens |-> 0]
    /\ cache = Nothing
    /\ caller = [c \in Callers |-> AtRest("idle")]
    /\ vaultFaults = 0
    /\ mishaps = {}

-----------------------------------------------------------------------------
Moves(c, to) == [caller[c] EXCEPT !.at = to, !.age = FALSE]
Set(c, rec) == caller' = [caller EXCEPT ![c] = rec]

Rests(c, how) == Set(c, AtRest(how))
Uses(c) == Set(c, [Moves(c, "sent") EXCEPT !.token = cache.token])

(* Mutant: a token is used until the cache believes it expired. *)
NotExpired == cache.left > 0

(* The token is comfortably within its lease: more than three tenths left. *)
Comfortable == 10 * cache.left > 3 * cache.lease

(* A request starts: it takes the cached token, renews one that runs out,  *)
(* or logs in.                                                             *)
FirstMove ==
    CASE Comfortable -> "sent"
      [] ~Comfortable /\ cache.left > 0 /\ cache.renewable -> "renew"
      [] OTHER -> "login"

ResolveToken(c) ==
    /\ caller[c].at \in Resting
    /\ Set(c, [AtRest(FirstMove) EXCEPT
                   !.token = IF FirstMove = "login" THEN NoToken ELSE cache.token])
    /\ UNCHANGED <<life, cache, vaultFaults, mishaps>>

(* Vault gives token k one of these leases, which its answer to c carries. *)
Answers(c, k, leases, to) ==
    /\ \E l \in leases, b \in BOOLEAN :
           /\ life' = [life EXCEPT ![k] = l]
           /\ mishaps' = IF Short(l) THEN mishaps \cup {"short"} ELSE mishaps
           /\ Set(c, [Moves(c, to) EXCEPT !.token = k, !.lease = l, !.renewable = b])
    /\ UNCHANGED <<cache, vaultFaults>>

(* Vault renews a token it honours; that never brings its end nearer. *)
VaultRenews(c) ==
    /\ caller[c].at = "renew" /\ life[caller[c].token] > 0
    /\ Answers(c, caller[c].token, {l \in Leases : l >= life[caller[c].token]}, "renewAnswer")

(* A token nobody holds any more may come back under the same name. *)
InUse(k) == k = cache.token \/ \E c \in Callers : caller[c].token = k

VaultLogsIn(c) ==
    /\ caller[c].at = "login"
    /\ \E k \in {k \in Tokens : ~InUse(k)} : Answers(c, k, Leases, "loginAnswer")

(* The answer is stored in the cache when it comes. *)
Caches(c, from, to) ==
    /\ caller[c].at = from
    /\ cache' = [token |-> caller[c].token, left |-> caller[c].lease,
                 lease |-> caller[c].lease, renewable |-> caller[c].renewable]
    /\ Set(c, [Moves(c, to) EXCEPT !.token = NoToken, !.lease = 0, !.renewable = FALSE])
    /\ UNCHANGED <<life, vaultFaults, mishaps>>

Renew(c) == Caches(c, "renewAnswer", "renewed")
Login(c) == Caches(c, "loginAnswer", "loggedIn")

(* The request goes on with whatever is cached by now. With nothing cached *)
(* after a renewal it logs in, after a login it throws.                    *)
TakeRenewed(c) ==
    /\ caller[c].at = "renewed"
    /\ IF cache.token # NoToken THEN Uses(c) ELSE Set(c, Moves(c, "login"))
    /\ UNCHANGED <<life, cache, vaultFaults, mishaps>>

TakeLoggedIn(c) ==
    /\ caller[c].at = "loggedIn"
    /\ IF cache.token # NoToken THEN Uses(c) ELSE Rests(c, "threw")
    /\ UNCHANGED <<life, cache, vaultFaults, mishaps>>

SpendVaultFault(what) ==
    /\ vaultFaults < MaxVaultFaults
    /\ vaultFaults' = vaultFaults + 1
    /\ mishaps' = mishaps \cup {what}

(* A renewal fails, at Vault or on its way back: the cache is emptied,     *)
(* whoever filled it, and the request logs in.                             *)
RenewalFails(c) ==
    /\ caller[c].at \in {"renew", "renewAnswer"}
    /\ \/ SpendVaultFault("refused")
       \/ /\ caller[c].at = "renew" /\ life[caller[c].token] = 0
          /\ mishaps' = mishaps \cup {"late"}
          /\ UNCHANGED vaultFaults
    /\ cache' = Nothing
    /\ Set(c, [Moves(c, "login") EXCEPT !.token = NoToken, !.lease = 0, !.renewable = FALSE])
    /\ UNCHANGED life

LoginFails(c) ==
    /\ caller[c].at \in {"login", "loginAnswer"}
    /\ SpendVaultFault("refused")
    /\ Rests(c, "threw")
    /\ UNCHANGED <<life, cache>>

-----------------------------------------------------------------------------
(* The operation (get, put, delete or list) reaches Vault. A token it no   *)
(* longer honours is refused (403), which each of them throws; a missing   *)
(* secret (404) is null, an empty list or a delete that is done. What is   *)
(* in Vault is not modelled here: nothing about tokens depends on it.      *)
Request(c) ==
    /\ caller[c].at = "sent"
    /\ Rests(c, IF life[caller[c].token] > 0 THEN "ok" ELSE "threw")
    /\ UNCHANGED <<life, cache, vaultFaults, mishaps>>

(* The operation fails or is not answered in time; it may have been done.  *)
RequestFails(c) ==
    /\ caller[c].at = "sent"
    /\ SpendVaultFault("refused")
    /\ Rests(c, "threw")
    /\ UNCHANGED <<life, cache>>

(* An operator revokes a token. *)
Revoke(k) ==
    /\ life[k] > 0
    /\ SpendVaultFault("revoked")
    /\ life' = [life EXCEPT ![k] = 0]
    /\ UNCHANGED <<cache, caller>>

(* A tick passes. No message is under way for longer, and a continuation   *)
(* runs before the clock moves on.                                         *)
Tick ==
    /\ \A c \in Callers : /\ caller[c].at \notin {"renewed", "loggedIn"}
                          /\ caller[c].at \in Resting \/ ~caller[c].age
    /\ life' = [k \in Tokens |-> IF life[k] = 0 THEN 0 ELSE life[k] - 1]
    /\ cache' = [cache EXCEPT !.left = IF @ = 0 THEN 0 ELSE @ - 1]
    /\ caller' = [c \in Callers |-> [caller[c] EXCEPT !.age = caller[c].at \notin Resting]]
    /\ UNCHANGED <<vaultFaults, mishaps>>

SecretStep(c) ==
    \/ ResolveToken(c) \/ VaultRenews(c) \/ VaultLogsIn(c) \/ Renew(c) \/ Login(c)
    \/ TakeRenewed(c) \/ TakeLoggedIn(c) \/ RenewalFails(c) \/ LoginFails(c)
    \/ Request(c) \/ RequestFails(c)

VaultNext == (\E c \in Callers : SecretStep(c)) \/ (\E k \in Tokens : Revoke(k)) \/ Tick

-----------------------------------------------------------------------------
(* The token a request is given is one Vault still honours when the        *)
(* request gets there: however renewals, logins and operations of several  *)
(* requests interleave, however late their answers are and whatever leases *)
(* they give, and although the cache counts a lease from when the answer   *)
(* came. The exceptions are a token that was revoked and a lease too short *)
(* to outlast the messages: after a renewal the code uses the token,       *)
(* however little is left of it. And no operation throws unless a call     *)
(* failed, a token was revoked or short, or a renewal reached Vault too    *)
(* late (that empties the cache, at worst under a request that has just    *)
(* logged in). vault-approle-auth.ts:92 "always returns a valid,           *)
(* non-expired token".                                                     *)
SecretFailureHasCause ==
    /\ \A c \in Callers :
           caller[c].at = "sent" =>
               life[caller[c].token] > 0 \/ mishaps \cap {"revoked", "short"} # {}
    /\ (\E c \in Callers : caller[c].at = "threw") => mishaps # {}
=============================================================================
