---------------------------- MODULE HttpRequests ----------------------------
(***************************************************************************)
(* One HTTP request from its arrival to its answer: the controllers of     *)
(* apps/api/src/index.ts, the adapters of apps/api/src/platform-http and   *)
(* auth/local-http-adapter.ts, and the authorisation of composition.ts.    *)
(* A request walks the steps of its route; between two of them sessions    *)
(* end and permissions are granted and withdrawn. What the owners do with  *)
(* an operation is theirs (FileCenter, TaskCenter, Administration,         *)
(* Notifications, Sessions); here an owner only knows which operations it  *)
(* has done. Sessions are of one account; a session that lapsed because an *)
(* assignment did does not come back.                                      *)
(***************************************************************************)
EXTENDS Integers, Sequences

CONSTANTS HttpRequestIds, \* requests
          Cookies,        \* bound: session credentials, each with a CSRF token of its own
          NoCookie,       \* no credential, or no token
          AskedTogether   \* functions from HttpRequestIds to what they ask

ASSUME NoCookieAssumption == NoCookie \notin Cookies

VARIABLES
  requested,     \* per request: route, credential, token, origin, key, and its flaw
  stepOf,        \* per request: the steps behind it, -1 before it arrives
  httpStatus,    \* per request: the status it was answered with, 0 before
  liveSessions,  \* credentials whose session lives
  issuedCookies, \* credentials given out so far
  permitted,     \* the person holds an active assignment with the permission
  trueSince,     \* per request: what was true at some time after its arrival
  carriedOut,    \* requests that an owner has carried out
  ownerEffects   \* operations the owners have done

cookieVars == <<liveSessions, issuedCookies>>
grantVars == <<permitted, trueSince>>
ownerVars == <<carriedOut, ownerEffects>>
httpVars == <<requested, stepOf, httpStatus, cookieVars, grantVars, ownerVars>>

(* What each handler does, in its order. The owner decides on the          *)
(* permission again, and the templates look at the body after the first    *)
(* decision.                                                               *)
LoginSteps == <<"trace", "form", "origin", "owner">>
SessionSteps == <<"trace", "cookie", "current">>
RotateSteps == <<"trace", "form", "cookie", "session", "owner">>
LogoutSteps == <<"trace", "origin", "leave", "owner">>
BootstrapSteps == <<"trace", "cookie", "principal", "owner", "reply">>
AccountsSteps == <<"trace", "cookie", "form", "principal", "permission", "owner", "reply">>
CommandSteps == <<"trace", "cookie", "headers", "session", "form", "principal", "permission",
                  "owner", "reply">>
FormSteps == <<"trace", "form", "cookie", "principal", "permission", "recheck", "owner">>
UploadSteps == <<"trace", "form", "cookie", "session", "principal", "permission", "recheck",
                 "owner", "reply">>
DownloadSteps == <<"trace", "form", "cookie", "principal", "permission", "recheck", "owner",
                   "reply">>
ListSteps == <<"trace", "cookie", "form", "principal", "permission", "recheck", "owner">>
CompleteSteps == <<"trace", "cookie", "form", "session", "principal", "permission", "recheck",
                   "owner">>
ReadSteps == <<"trace", "identifier", "cookie", "principal", "permission", "recheck", "owner">>
ChangeSteps == <<"trace", "identifier", "cookie", "headers", "session", "principal",
                 "permission", "recheck", "owner">>
TemplateSteps == <<"trace", "identifier", "cookie", "headers", "session", "principal",
                   "permission", "body", "recheck", "owner">>
RouteSteps == [
  login |-> LoginSteps, session |-> SessionSteps, rotate |-> RotateSteps, logout |-> LogoutSteps,
  bootstrap |-> BootstrapSteps, accounts |-> AccountsSteps, command |-> CommandSteps,
  release |-> FormSteps, validate |-> FormSteps,
  createUpload |-> UploadSteps, confirm |-> UploadSteps, download |-> DownloadSteps,
  tasks |-> ListSteps, complete |-> CompleteSteps,
  inbox |-> ListSteps, notification |-> ReadSteps, markRead |-> ChangeSteps,
  template |-> ReadSteps, draft |-> TemplateSteps, preview |-> TemplateSteps,
  publish |-> TemplateSteps, activate |-> TemplateSteps]
Routes == DOMAIN RouteSteps

AuthRoutes == {"login", "session", "rotate", "logout"}
WorkforceRoutes == {"accounts", "command"}
FormRoutes == {"release", "validate"}
FileRoutes == {"createUpload", "confirm", "download"}
TemplateRoutes == {"draft", "publish", "activate"}
TaskRoutes ==
  {"tasks", "complete", "inbox", "notification", "markRead", "template", "preview"}
    \cup TemplateRoutes
KeyedRoutes ==
  {"command", "createUpload", "confirm", "download", "complete"} \cup TemplateRoutes
MutatingRoutes ==
  {"rotate", "command", "createUpload", "confirm", "complete", "markRead", "preview"}
    \cup TemplateRoutes

(* The status each adapter gives to a failure.                             *)
AuthStatus(failure) ==
  CASE failure \in {"form", "missing", "credentials", "required"} -> 401
    [] failure = "csrf" -> 403
    [] failure = "limited" -> 429
    [] failure = "session outage" -> 503
WorkbenchStatus(failure) ==
  CASE failure \in {"missing", "required", "session outage"} -> 401
    [] failure = "denied" -> 403
    [] OTHER -> 503
WorkforceStatus(failure) ==
  CASE failure \in {"form", "invalid"} -> 400
    [] failure = "missing" -> 401
    [] failure \in {"csrf", "denied"} -> 403
    [] failure \in {"absent", "conflict"} -> 409
    [] OTHER -> 503
FormStatus(failure) ==
  CASE failure \in {"form", "invalid"} -> 400
    [] failure \in {"missing", "required"} -> 401
    [] failure = "denied" -> 403
    [] failure = "absent" -> 404
    [] OTHER -> 503
FileStatus(failure) ==
  CASE failure \in {"form", "invalid"} -> 400
    [] failure \in {"missing", "required"} -> 401
    [] failure \in {"csrf", "denied"} -> 403
    [] failure = "absent" -> 404
    [] failure = "conflict" -> 409
    [] OTHER -> 503
TaskStatus(failure) ==
  CASE failure \in {"form", "invalid"} -> 400
    [] failure \in {"missing", "required", "session outage"} -> 401
    [] failure \in {"csrf", "denied"} -> 403
    [] failure = "absent" -> 404
    [] failure = "conflict" -> 409
    [] OTHER -> 503
StatusOf(route, failure) ==
  CASE failure = "trace" -> 400
    [] failure # "trace" /\ route \in AuthRoutes -> AuthStatus(failure)
    [] failure # "trace" /\ route = "bootstrap" -> WorkbenchStatus(failure)
    [] failure # "trace" /\ route \in WorkforceRoutes -> WorkforceStatus(failure)
    [] failure # "trace" /\ route \in FormRoutes -> FormStatus(failure)
    [] failure # "trace" /\ route \in FileRoutes -> FileStatus(failure)
    [] failure # "trace" /\ route \in TaskRoutes -> TaskStatus(failure)

SuccessOf(route) ==
  CASE route \in {"createUpload", "publish"} -> 201
    [] route = "complete" -> 202
    [] route = "logout" -> 204
    [] OTHER -> 200

-----------------------------------------------------------------------------
HttpTypeOK ==
  /\ requested \in AskedTogether
  /\ stepOf \in [HttpRequestIds -> -1 .. 10]
  /\ httpStatus \in [HttpRequestIds -> {0, 200, 201, 202, 204, 400, 401, 403, 404, 409, 429, 503}]
  /\ liveSessions \subseteq issuedCookies /\ issuedCookies \subseteq Cookies
  /\ permitted \in BOOLEAN
  /\ trueSince \in [HttpRequestIds -> SUBSET {"alive", "permitted"}]
  /\ carriedOut \subseteq HttpRequestIds
  /\ \A e \in ownerEffects : e.route \in Routes /\ e.by \in HttpRequestIds

HttpInit ==
  /\ requested \in AskedTogether
  /\ stepOf = [r \in HttpRequestIds |-> -1]
  /\ httpStatus = [r \in HttpRequestIds |-> 0]
  /\ \E c \in Cookies : issuedCookies = {c} /\ liveSessions = {c}
  /\ permitted \in BOOLEAN
  /\ trueSince = [r \in HttpRequestIds |-> {}]
  /\ carriedOut = {}
  /\ ownerEffects = {}

Handled(r) == stepOf[r] >= 0 /\ httpStatus[r] = 0
TrueNow(r) == {t \in {"alive", "permitted"} :
                 IF t = "alive" THEN requested[r].cookie \in liveSessions ELSE permitted}

RequestArrives(r) ==
  /\ stepOf[r] = -1
  /\ requested[r].route \in Routes
  /\ {requested[r].cookie, requested[r].token} \subseteq issuedCookies \cup {NoCookie}
  /\ stepOf' = [stepOf EXCEPT ![r] = 0]
  /\ trueSince' = [trueSince EXCEPT ![r] = TrueNow(r)]
  /\ UNCHANGED <<requested, httpStatus, cookieVars, permitted, ownerVars>>

(* A session expires, or the account or its assignment changes.            *)
SessionOver ==
  /\ liveSessions # {}
  /\ liveSessions' = {}
  /\ UNCHANGED <<requested, stepOf, httpStatus, issuedCookies, grantVars, ownerVars>>

Permit ==
  /\ permitted' = ~permitted
  /\ trueSince' = [r \in HttpRequestIds |->
                    trueSince[r] \cup IF Handled(r) /\ permitted' THEN {"permitted"} ELSE {}]
  /\ UNCHANGED <<requested, stepOf, httpStatus, cookieVars, ownerVars>>

-----------------------------------------------------------------------------
(* The steps before the owner is asked.                                    *)

Awaiting(r, step) ==
  /\ Handled(r)
  /\ stepOf[r] < Len(RouteSteps[requested[r].route])
  /\ RouteSteps[requested[r].route][stepOf[r] + 1] = step

SessionLives(r) == requested[r].cookie \in liveSessions
FromThePage(r) == requested[r].origin = "own" /\ requested[r].token = requested[r].cookie

(* What the steps may fail with now. A body, a query or an identifier that *)
(* does not parse; where the handler throws a plain error for it, nobody   *)
(* knows it for bad input.                                                 *)
FlawFailures(r, flaw, failure) == IF requested[r].flaw = flaw THEN {failure} ELSE {}

CookieFailures(r) == IF requested[r].cookie = NoCookie THEN {"missing"} ELSE {}

(* mutationHeaders wants a token, an origin and a referer, the controller  *)
(* of the workforce administration a token.                                *)
HeaderFailures(r) ==
  LET workforce == requested[r].route \in WorkforceRoutes
  IN  IF requested[r].token # NoCookie /\ (requested[r].origin # "none" \/ workforce) THEN {}
      ELSE IF workforce THEN {"form"} ELSE {"csrf"}

OriginFailures(r) == IF requested[r].origin = "own" THEN {} ELSE {"csrf"}

(* The session is read, then the origin and the token are compared. The    *)
(* controller of the workforce administration takes any failure for a      *)
(* rejected token.                                                         *)
MutationFailures(r) ==
  LET found == {"session outage"} \cup
                 IF ~SessionLives(r) THEN {"required"} ELSE IF FromThePage(r) THEN {} ELSE {"csrf"}
  IN  IF requested[r].route \in WorkforceRoutes THEN {"csrf" : f \in found} ELSE found

PrincipalFailures(r) == {"session outage"} \cup IF SessionLives(r) THEN {} ELSE {"required"}

PermissionFailures == {"outage"} \cup IF permitted THEN {} ELSE {"denied"}

(* What the owner returned does not fit what may be sent.                  *)
ReplyFailures == {"unhandled"}

Failures(r, step) ==
  CASE step = "trace" -> FlawFailures(r, "trace", "trace")
    [] step = "form" -> FlawFailures(r, "form", "form")
    [] step = "identifier" -> FlawFailures(r, "form", "unhandled")
    [] step = "body" -> FlawFailures(r, "body", "unhandled")
    [] step = "cookie" -> CookieFailures(r)
    [] step = "headers" -> HeaderFailures(r)
    [] step = "origin" -> OriginFailures(r)
    [] step = "session" -> MutationFailures(r)
    [] step \in {"current", "principal"} -> PrincipalFailures(r)
    [] step \in {"permission", "recheck"} -> PermissionFailures
    [] step = "reply" -> ReplyFailures

Passes(r, step) ==
  Failures(r, step) \subseteq {"session outage", "outage"} \/ step = "reply"
    \/ (step = "session" /\ SessionLives(r) /\ FromThePage(r))

GoesOn(r) == stepOf' = [stepOf EXCEPT ![r] = @ + 1]
Responds(r, code) == httpStatus' = [httpStatus EXCEPT ![r] = code]

(* After its last step a request is answered with success.                 *)
RespondsAtEnd(r) ==
  IF stepOf[r] + 1 = Len(RouteSteps[requested[r].route])
  THEN Responds(r, SuccessOf(requested[r].route)) ELSE UNCHANGED httpStatus

CheckStep(r) ==
  /\ \E step \in {"trace", "form", "identifier", "cookie", "headers", "origin", "session",
                  "current", "principal", "permission", "recheck", "body", "reply"} :
       /\ Awaiting(r, step)
       /\ \/ /\ Passes(r, step)
             /\ GoesOn(r)
             /\ RespondsAtEnd(r)
          \/ /\ \E f \in Failures(r, step) : Responds(r, StatusOf(requested[r].route, f))
             /\ UNCHANGED stepOf
  /\ UNCHANGED <<requested, cookieVars, grantVars, ownerVars>>

(* logout: a request without a session has nothing to end.                 *)
Leave(r) ==
  /\ Awaiting(r, "leave")
  /\ \/ ~SessionLives(r) /\ Responds(r, 204) /\ UNCHANGED stepOf
     \/ SessionLives(r) /\ FromThePage(r) /\ GoesOn(r) /\ UNCHANGED httpStatus
     \/ SessionLives(r) /\ ~FromThePage(r) /\ Responds(r, 403) /\ UNCHANGED stepOf
     \/ requested[r].cookie # NoCookie /\ Responds(r, 503) /\ UNCHANGED stepOf
  /\ UNCHANGED <<requested, cookieVars, grantVars, ownerVars>>

-----------------------------------------------------------------------------
(* The owner's operation.                                                  *)

(* Where the key of a request goes: the template commands put their name   *)
(* before it.                                                              *)
OperationOf(route, key) ==
  IF route \in TemplateRoutes THEN <<route, key>>
  ELSE IF route \in FileRoutes THEN <<"file", key>>
  ELSE <<"own", route, key>>

Effect(r) ==
  LET q == requested[r]
  IN  [id |-> OperationOf(q.route, q.key), route |-> q.route, key |-> q.key, by |-> r]
EarlierEffects(r) == {e \in ownerEffects : e.id = Effect(r).id}

OwnerDone(r) ==
  /\ carriedOut' = carriedOut \cup {r}
  /\ GoesOn(r)
  /\ RespondsAtEnd(r)

(* A new session replaces the account's session; a rotation needs the one  *)
(* it replaces.                                                            *)
OpensSession(r) ==
  /\ Awaiting(r, "owner")
  /\ requested[r].route \in {"login", "rotate"}
  /\ requested[r].route = "rotate" => SessionLives(r)
  /\ \E c \in Cookies \ issuedCookies :
       issuedCookies' = issuedCookies \cup {c} /\ liveSessions' = {c}
  /\ ownerEffects' = ownerEffects \cup {Effect(r)}
  /\ OwnerDone(r)
  /\ UNCHANGED <<requested, grantVars>>

EndsSession(r) ==
  /\ Awaiting(r, "owner")
  /\ requested[r].route = "logout"
  /\ liveSessions' = liveSessions \ {requested[r].cookie}
  /\ OwnerDone(r)
  /\ UNCHANGED <<requested, issuedCookies, grantVars, ownerEffects>>

(* A read, a command the owner carries out, or one it has done before. The *)
(* file center refuses a key that was used for something else; a publication*)
(* and an activation of one release share a history.                       *)
OwnerAnswers(r) ==
  /\ Awaiting(r, "owner")
  /\ requested[r].route \notin AuthRoutes
  /\ \/ /\ EarlierEffects(r) = {}
        /\ ownerEffects' = ownerEffects \cup
             IF requested[r].route \in KeyedRoutes \cup {"markRead"} THEN {Effect(r)} ELSE {}
     \/ /\ EarlierEffects(r) # {}
        /\ requested[r].route \in FileRoutes =>
             \A e \in EarlierEffects(r) : e.route = requested[r].route
        /\ UNCHANGED ownerEffects
  /\ OwnerDone(r)
  /\ UNCHANGED <<requested, cookieVars, grantVars>>

OwnerRefusals(route) ==
  CASE route = "login" -> {"credentials", "limited", "session outage"}
    [] route = "rotate" -> {"credentials", "limited", "required", "session outage"}
    [] route = "logout" -> {"session outage"}
    [] route = "bootstrap" -> {"denied", "outage"}
    [] OTHER -> {"denied", "invalid", "absent", "conflict", "outage"}

OwnerRefuses(r) ==
  /\ Awaiting(r, "owner")
  /\ \E f \in OwnerRefusals(requested[r].route) : Responds(r, StatusOf(requested[r].route, f))
  /\ UNCHANGED <<requested, stepOf, cookieVars, grantVars, ownerVars>>

(* The operation is committed and its answer lost.                         *)
OwnerAnswerLost(r) ==
  /\ Awaiting(r, "owner")
  /\ requested[r].route \in KeyedRoutes
  /\ EarlierEffects(r) = {}
  /\ ownerEffects' = ownerEffects \cup {Effect(r)}
  /\ carriedOut' = carriedOut \cup {r}
  /\ Responds(r, StatusOf(requested[r].route, "outage"))
  /\ UNCHANGED <<requested, stepOf, cookieVars, grantVars>>

HttpNext ==
  \/ SessionOver \/ Permit
  \/ \E r \in HttpRequestIds :
       \/ RequestArrives(r) \/ CheckStep(r) \/ Leave(r)
       \/ OpensSession(r) \/ EndsSession(r)
       \/ OwnerAnswers(r) \/ OwnerRefuses(r) \/ OwnerAnswerLost(r)

HttpSpec == HttpInit /\ [][HttpNext]_httpVars

-----------------------------------------------------------------------------
(* Properties.                                                             *)

(* An owner carries a request out only if its session lived and the        *)
(* permission was held at some time while the request was handled, however *)
(* both changed between the checks, and a change only for a request of the *)
(* application's own page, which has the session's token.                  *)
ServedWasVouched ==
  \A r \in carriedOut :
    /\ requested[r].route \notin {"login", "logout"} => "alive" \in trueSince[r]
    /\ requested[r].route \notin AuthRoutes \cup {"bootstrap"} => "permitted" \in trueSince[r]
    /\ requested[r].route \in MutatingRoutes => FromThePage(r)

(* A request that was answered with a refusal (4xx) has had no effect: the *)
(* client may correct it and send it again under another key. A failure    *)
(* after the effect is told as 503.                                        *)
RefusedHasNoEffect ==
  \A r \in HttpRequestIds : httpStatus[r] \in 400 .. 499 => \A e \in ownerEffects : e.by # r

(* A request that was answered with success has the effect that its route  *)
(* and its key name, its own or that of an earlier attempt, and not one of *)
(* another command that was sent under the same key.                       *)
ServedHasEffect ==
  \A r \in HttpRequestIds :
    httpStatus[r] \in 200 .. 299 /\ requested[r].route \in KeyedRoutes
      => \E e \in ownerEffects : e.route = requested[r].route /\ e.key = requested[r].key

(* The session endpoint, the forms and the files answer a well-formed      *)
(* request that it is signed out (401) only when its session is over: an   *)
(* outage does not send the user to the login page.                        *)
SignedOutIsOver ==
  \A r \in HttpRequestIds :
    httpStatus[r] = 401 /\ requested[r].route \in {"session"} \cup FormRoutes \cup FileRoutes
      => requested[r].cookie \notin liveSessions

(* After a logout was answered with success the session of its credential  *)
(* is over, also when it raced with a rotation or an expiry.               *)
LoggedOutIsOver ==
  \A r \in HttpRequestIds : httpStatus[r] = 204 => requested[r].cookie \notin liveSessions
=============================================================================
