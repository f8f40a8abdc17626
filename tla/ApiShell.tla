------------------------------ MODULE ApiShell ------------------------------
(***************************************************************************)
(* What every request to the API passes before a route works on it:        *)
(* apps/api/src/app.ts (stores resolved from the environment, routes under *)
(* the service token), auth-middleware.ts, error-middleware.ts and the     *)
(* checks each route makes of the tenant header, the query and the body.   *)
(* Constant operators only; FounderConsole admits its calls with them.     *)
(***************************************************************************)
EXTENDS Naturals, FiniteSets

(* The routes of the founder console. *)
Routes == {"list", "decide", "summary", "health", "incidents", "weekly",
           "send", "getSettings", "patch", "score", "motion"}

(* What the environment of the API process sets: the database URL, the     *)
(* service token, the Postal server with a recipient.                      *)
Environments == [database: BOOLEAN, token: BOOLEAN, postal: BOOLEAN]

(* A request as the checks tell it apart. *)
Requests == [token: {"none", "wrong", "right"},
             tenant: {"missing", "malformed", "valid"},
             query: {"valid", "invalid"},
             body: {"notJson", "invalid", "valid"}]

(* One lazily opened database handle stands behind every repository, so    *)
(* without DATABASE_URL all of them are null, and else none is.            *)
StoreConfigured(env) == env.database

(* The routes mounted behind the token check. *)
Protected ==
    {"decide", "summary", "health", "incidents", "send", "patch", "score"}

(* The middleware lets everything pass when no token is configured. *)
Authorized(route, r, env) ==
    route \in Protected /\ env.token => r.token = "right"

(* Thrown errors become a status: validation 400, ServiceUnavailableError  *)
(* 503, anything else 500.                                                 *)
StatusOf(error) ==
    CASE error = "ZodError" -> 400
      [] error = "ServiceUnavailableError" -> 503
      [] OTHER -> 500

(* The control plane refuses a header that is no UUID before it looks at   *)
(* any store; the other routes only ask that there is one.                 *)
RequireTenantId(r) == IF r.tenant = "valid" THEN 200 ELSE 400

HasTenant(r) == r.tenant # "missing"

(* A store that is asked for the rows of a malformed tenant parses the id  *)
(* and throws. The database is not reached.                                *)
StoreParses(r) == IF r.tenant = "valid" THEN 200 ELSE StatusOf("ZodError")

(* health and incidents refuse a limit that is no integer from 1 to 100;   *)
(* list and motion clamp it.                                               *)
ParseLimit(r) == IF r.query = "valid" THEN 200 ELSE 400

(* GET /v1/approvals: store, then header; the limit is clamped. *)
AdmitList(r, env) ==
    IF ~StoreConfigured(env) THEN StatusOf("ServiceUnavailableError")
    ELSE IF ~HasTenant(r) THEN 400 ELSE StoreParses(r)

(* POST /v1/approvals/decide: store, header, then the body. A body that    *)
(* is no JSON is a SyntaxError, which no branch of the mapping knows.      *)
AdmitDecide(r, env) ==
    IF ~StoreConfigured(env) THEN StatusOf("ServiceUnavailableError")
    ELSE IF ~HasTenant(r) THEN 400
    ELSE IF r.body = "notJson" THEN StatusOf("SyntaxError")
    ELSE IF r.body = "invalid" THEN StatusOf("ZodError") ELSE StoreParses(r)

(* The three reads of the control plane: header, store, then the limit. *)
AdmitControlPlane(route, r, env) ==
    IF RequireTenantId(r) # 200 THEN 400
    ELSE IF ~StoreConfigured(env) THEN StatusOf("ServiceUnavailableError")
    ELSE IF route = "summary" THEN 200 ELSE ParseLimit(r)

(* The digest asks for the header. Without stores it reports zeros; with   *)
(* them the reads of a malformed tenant throw, and the last of them, the   *)
(* count of signals, is not caught. /send takes no JSON as an empty body.  *)
AdmitDigest(route, r, env) ==
    IF ~HasTenant(r) THEN 400
    ELSE IF route = "send" /\ r.body = "invalid" THEN 422
    ELSE IF StoreConfigured(env) THEN StoreParses(r) ELSE 200

(* Settings: header, store; PATCH then its body, where no JSON is an empty *)
(* patch.                                                                  *)
AdmitSettings(route, r, env) ==
    IF ~HasTenant(r) THEN 400
    ELSE IF ~StoreConfigured(env) THEN StatusOf("ServiceUnavailableError")
    ELSE IF route = "patch" /\ r.body = "invalid" THEN 422 ELSE StoreParses(r)

(* POST /v1/motions/score looks at the body, which names the tenant,       *)
(* before the store: an invalid body is told even without a database.      *)
AdmitScore(r, env) ==
    IF r.body = "notJson" THEN 400
    ELSE IF r.body = "invalid" THEN 422
    ELSE IF ~StoreConfigured(env) THEN StatusOf("ServiceUnavailableError")
    ELSE 200

(* GET /v1/motion: store, then header; the history limit is clamped. *)
AdmitMotion(r, env) == AdmitList(r, env)

(* The status a route ends a request with before it does any work, 200     *)
(* when the request is admitted.                                           *)
Admit(route, r, env) ==
    IF ~Authorized(route, r, env) THEN 401
    ELSE CASE route = "list" -> AdmitList(r, env)
           [] route = "decide" -> AdmitDecide(r, env)
           [] route \in {"summary", "health", "incidents"} ->
                AdmitControlPlane(route, r, env)
           [] route \in {"weekly", "send"} -> AdmitDigest(route, r, env)
           [] route \in {"getSettings", "patch"} -> AdmitSettings(route, r, env)
           [] route = "score" -> AdmitScore(r, env)
           [] route = "motion" -> AdmitMotion(r, env)

(* The statuses the requests to a route get. *)
OutcomeTable ==
    [route \in Routes |-> [env \in Environments |->
        {Admit(route, r, env) : r \in Requests}]]
Outcomes(route, env) == OutcomeTable[route][env]
=============================================================================
