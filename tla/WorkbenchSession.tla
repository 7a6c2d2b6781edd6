-------------------------- MODULE WorkbenchSession --------------------------
(***************************************************************************)
(* apps/workbench-web: what one tab of the workbench shows of the session  *)
(* its browser holds. The shown workbench is the answer of a bootstrap     *)
(* query, which is fetched again at any time and stays as it was answered; *)
(* signing in, signing out, the check of the session and what the server   *)
(* does to the session go on beside it. A session is the number of the     *)
(* sign-in that opened it, and 0 is none.                                  *)
(***************************************************************************)
EXTENDS Naturals

CONSTANT MaxSignIns   \* bound: how often the server opens a session

ASSUME WorkbenchSessionAssumption == MaxSignIns \in Nat \ {0}

VARIABLES
  lastSession,   \* how many sessions the server has opened
  alive,         \* those it would still accept
  browserHolds,  \* the session of the cookie that requests are sent with
  place,         \* the route the tab is at
  shownData,     \* the bootstrap query: what it was last answered or set to
  fetching,      \* its fetch under way, if any
  signingIn,     \* the login request: unanswered, 0, or the session that answers it
  leaving,       \* the logout: its two requests
  collections,   \* per session: whose collections are cached under its scope
  gathering      \* per session: the cookie its poll was sent with, if one is under way

workbenchVars == <<lastSession, alive, browserHolds, place, shownData, fetching, signingIn,
                   leaving, collections, gathering>>

SignIns == 1 .. MaxSignIns
Uncached == MaxSignIns + 1
NotSentYet == MaxSignIns + 1

NoSession(kind) == [kind |-> kind, session |-> 0]
ReadyFor(s) == [kind |-> "ready", session |-> s]
NothingFetched == NoSession("none")
SignedOutKinds == {"signed-out", "logged-out"}
Unanswered == {NoSession("none"), NoSession("failed")}

NotLeaving == [step |-> "idle", session |-> 0, from |-> "shell"]
NoFetch == [sent |-> 0, stage |-> "idle", after |-> "stay"]

Results == {NoSession(k) : k \in SignedOutKinds \cup {"none", "refused", "failed"}}
             \cup {ReadyFor(s) : s \in SignIns}

WorkbenchTypeOK ==
  /\ lastSession \in 0 .. MaxSignIns /\ alive \subseteq 1 .. lastSession
  /\ browserHolds \in 0 .. MaxSignIns
  /\ place \in {"workspace", "login", "mobile", "expired"}
  /\ shownData \in Results
  /\ fetching \in [sent : 0 .. MaxSignIns, stage : {"idle", "sent", "ready"},
                   after : {"stay", "return"}]
  /\ signingIn \in 0 .. NotSentYet
  /\ leaving \in [step : {"idle", "sent", "answered"}, session : 0 .. MaxSignIns,
                  from : {"shell", "mobile"}]
  /\ collections \in [SignIns -> 0 .. Uncached]
  /\ gathering \in [SignIns -> 0 .. NotSentYet]

-----------------------------------------------------------------------------
(* What the tab shows follows from the route and the query.                *)

ScreenOf(p, data) ==
  CASE p = "expired" -> "status"
    [] p # "expired" /\ data = NothingFetched -> "spinner"
    [] p # "expired" /\ data.kind = "failed" -> "failed"
    [] p # "expired" /\ data.kind \in SignedOutKinds -> "login"
    [] p # "expired" /\ data.kind \in {"ready", "refused"} ->
         IF p = "login" THEN "redirect"
         ELSE IF data.kind = "refused" THEN "refused"
         ELSE IF p = "mobile" THEN "mobile" ELSE "shell"

Screen == ScreenOf(place, shownData)
ShellOf(s) == Screen = "shell" /\ shownData = ReadyFor(s)

WorkbenchInit ==
  /\ lastSession = 1 /\ alive = {1} /\ browserHolds = 1
  /\ place \in {"workspace", "mobile"}
  /\ shownData = NothingFetched
  /\ fetching = [NoFetch EXCEPT !.stage = "sent", !.sent = 1]
  /\ signingIn = NotSentYet /\ leaving = NotLeaving
  /\ collections = [s \in SignIns |-> Uncached]
  /\ gathering = [s \in SignIns |-> NotSentYet]

(* The tab shows another route or data. A shell that is mounted anew caches*)
(* the empty collections of its bootstrap, unless some are cached.         *)
Render(p, data, cached) ==
  /\ place' = p /\ shownData' = data
  /\ collections' = IF ScreenOf(p, data) # "shell" \/ cached[data.session] # Uncached
                      THEN cached ELSE [cached EXCEPT ![data.session] = 0]

-----------------------------------------------------------------------------
(* The bootstrap query.                                                    *)

FetchWith(after) == [NoFetch EXCEPT !.stage = "sent", !.sent = browserHolds, !.after = after]

(* A refetch takes the place of the one under way, unless nothing has been *)
(* answered yet: then it waits for that one. Whoever waited for a replaced *)
(* one goes on with the data there is.                                     *)
Refetch(after) ==
  IF fetching.stage = "idle" \/ shownData \notin Unanswered
    THEN fetching' = FetchWith(after)
    ELSE fetching' = [fetching EXCEPT !.after = after]

(* The window gets the focus and the data is stale: this one never takes   *)
(* another's place.                                                        *)
RefetchStale ==
  /\ fetching.stage = "idle"
  /\ fetching' = FetchWith("stay")
  /\ UNCHANGED <<lastSession, alive, browserHolds, place, shownData, signingIn, leaving,
                 collections, gathering>>

(* The retry button of a failure or of a maintenance page.                 *)
RetryBootstrap ==
  /\ Screen \in {"failed", "refused"}
  /\ Refetch("stay")
  /\ UNCHANGED <<lastSession, alive, browserHolds, place, shownData, signingIn, leaving,
                 collections, gathering>>

(* The server finds the session alive: that stays its answer.              *)
BootstrapAnswers ==
  /\ fetching.stage = "sent" /\ fetching.sent \in alive
  /\ fetching' = [fetching EXCEPT !.stage = "ready"]
  /\ UNCHANGED <<lastSession, alive, browserHolds, place, shownData, signingIn, leaving,
                 collections, gathering>>

(* The query takes the answer, and who asked for it goes on: after a login *)
(* to where it was if the answer is ready.                                 *)
Takes(data) ==
  /\ fetching' = NoFetch
  /\ LET goes == fetching.after = "return" /\ data.kind = "ready" /\ place = "login"
     IN  Render(IF goes THEN "workspace" ELSE place, data, collections)
  /\ UNCHANGED <<lastSession, alive, browserHolds, signingIn, leaving, gathering>>

BootstrapArrives == fetching.stage = "ready" /\ Takes(ReadyFor(fetching.sent))

(* Signed out if the session is over, forbidden or in maintenance; a server*)
(* in trouble answers with any status.                                     *)
BootstrapRefused ==
  /\ fetching.stage = "sent"
  /\ \E k \in {"signed-out", "refused"} : Takes(NoSession(k))

(* A failed fetch ends at a failure page, and the earlier answer, if any, is*)
(* not seen again: such a page is like a refusal, which has a retry too.   *)
BootstrapFails ==
  /\ fetching.stage # "idle"
  /\ fetching' = NoFetch
  /\ Render(place, NoSession(IF shownData \in Unanswered THEN "failed" ELSE "refused"), collections)
  /\ UNCHANGED <<lastSession, alive, browserHolds, signingIn, leaving, gathering>>

(* The login page is left once the query says there is nothing to sign in. *)
Redirected ==
  /\ Screen = "redirect"
  /\ Render("workspace", shownData, collections)
  /\ UNCHANGED <<lastSession, alive, browserHolds, fetching, signingIn, leaving, gathering>>

(* The user goes to the workbench of the other kind of device.             *)
Navigate(p) ==
  /\ Screen \in {"shell", "mobile", "login"} /\ p # place
  /\ Render(p, shownData, collections)
  /\ UNCHANGED <<lastSession, alive, browserHolds, fetching, signingIn, leaving, gathering>>

(* The page is loaded again, at the login page from the expired one: all   *)
(* that was cached or under way is gone.                                   *)
ReloadPage ==
  /\ place' = IF place = "expired" THEN "login" ELSE "workspace"
  /\ shownData' = NothingFetched
  /\ fetching' = FetchWith("stay")
  /\ signingIn' = NotSentYet /\ leaving' = NotLeaving
  /\ collections' = [s \in SignIns |-> Uncached]
  /\ gathering' = [s \in SignIns |-> NotSentYet]
  /\ UNCHANGED <<lastSession, alive, browserHolds>>

-----------------------------------------------------------------------------
(* Signing in. The login page sends one request at a time.                 *)

SignIn ==
  /\ Screen = "login" /\ signingIn = NotSentYet
  /\ signingIn' = 0
  /\ UNCHANGED <<lastSession, alive, browserHolds, place, shownData, fetching, leaving,
                 collections, gathering>>

(* The server opens a session, and ends the account's former one if the    *)
(* browser held it.                                                        *)
ServerSignsIn ==
  /\ signingIn = 0 /\ lastSession < MaxSignIns
  /\ lastSession' = lastSession + 1
  /\ \E ended \in {{}, {browserHolds}} : alive' = (alive \ ended) \cup {lastSession + 1}
  /\ signingIn' = lastSession + 1
  /\ UNCHANGED <<browserHolds, place, shownData, fetching, leaving, collections,
                 gathering>>

(* Refused, limited or unavailable, or the answer is lost.                 *)
SignInFails ==
  /\ signingIn # NotSentYet
  /\ signingIn' = NotSentYet
  /\ UNCHANGED <<lastSession, alive, browserHolds, place, shownData, fetching, leaving,
                 collections, gathering>>

(* The answer brings the cookie, and the bootstrap is fetched with it.     *)
Authenticated ==
  /\ signingIn \in SignIns
  /\ signingIn' = NotSentYet
  /\ browserHolds' = signingIn
  /\ IF fetching.stage = "idle" \/ shownData \notin Unanswered
       THEN fetching' = [NoFetch EXCEPT !.stage = "sent", !.sent = signingIn, !.after = "return"]
       ELSE fetching' = [fetching EXCEPT !.after = "return"]
  /\ UNCHANGED <<lastSession, alive, place, shownData, leaving, collections, gathering>>

-----------------------------------------------------------------------------
(* Signing out: the session is asked for its token, and the logout is sent *)
(* with it, or without one if there is no session.                         *)

RequestLogout ==
  /\ Screen \in {"shell", "mobile"} /\ leaving = NotLeaving
  /\ leaving' = [NotLeaving EXCEPT !.step = "sent", !.session = browserHolds, !.from = Screen]
  /\ UNCHANGED <<lastSession, alive, browserHolds, place, shownData, fetching, signingIn,
                 collections, gathering>>

(* A logout of a session that is over is confirmed all the same.           *)
LogoutServed ==
  /\ leaving.step = "sent"
  /\ leaving' = [leaving EXCEPT !.step = "answered", !.session = 0]
  /\ alive' = alive \ {leaving.session}
  /\ UNCHANGED <<lastSession, browserHolds, place, shownData, fetching, signingIn,
                 collections, gathering>>

(* A request is refused or lost, or its answer is: the session may be over *)
(* although the shell says that it goes on.                                *)
LogoutFails ==
  /\ leaving.step # "idle"
  /\ leaving' = NotLeaving
  /\ UNCHANGED <<lastSession, alive, browserHolds, place, shownData, fetching, signingIn,
                 collections, gathering>>

(* The cookie is cleared. The shell removes its collections and sets the   *)
(* query signed out, without stopping a fetch under way; the mobile one *)
(* only goes to the login page.                                            *)
LogoutArrives ==
  /\ leaving.step = "answered"
  /\ leaving' = NotLeaving
  /\ browserHolds' = 0
  /\ IF leaving.from = "shell"
       THEN /\ Render(place, NoSession("logged-out"), [s \in SignIns |-> Uncached])
            /\ gathering' = [s \in SignIns |-> NotSentYet]
       ELSE /\ Render("login", shownData, collections)
            /\ UNCHANGED gathering
  /\ UNCHANGED <<lastSession, alive, fetching, signingIn>>

-----------------------------------------------------------------------------
(* The shell's collections and its session.                                *)

PollStarts(s) ==
  /\ ShellOf(s) /\ gathering[s] = NotSentYet
  /\ gathering' = [gathering EXCEPT ![s] = browserHolds]
  /\ UNCHANGED <<lastSession, alive, browserHolds, place, shownData, fetching, signingIn,
                 leaving, collections>>

(* Answered for the session it was sent with, or refused.                  *)
PollArrives(s) ==
  /\ gathering[s] # NotSentYet
  /\ gathering' = [gathering EXCEPT ![s] = NotSentYet]
  /\ collections' = IF gathering[s] \in alive THEN [collections EXCEPT ![s] = gathering[s]]
                                              ELSE collections
  /\ UNCHANGED <<lastSession, alive, browserHolds, place, shownData, fetching, signingIn,
                 leaving>>

(* Everything cached is cleared, and the tab says that the session is over.*)
(* The query, which is still in use, is fetched anew.                      *)
SessionRevoked ==
  /\ Render("expired", NothingFetched, [s \in SignIns |-> Uncached])
  /\ gathering' = [s \in SignIns |-> NotSentYet]
  /\ fetching' = FetchWith("stay")
  /\ UNCHANGED <<lastSession, alive, browserHolds, signingIn, leaving>>

(* The check of the session, which a shell repeats until it is refused.    *)
CheckRefused ==
  /\ Screen = "shell" /\ browserHolds \notin alive
  /\ SessionRevoked

(* The socket is told that its session was revoked.                        *)
RevocationArrives ==
  /\ Screen = "shell" /\ shownData.session \notin alive
  /\ SessionRevoked

(* A session expires, or is revoked elsewhere.                             *)
ServerEnds(s) ==
  /\ s \in alive
  /\ alive' = alive \ {s}
  /\ UNCHANGED <<lastSession, browserHolds, place, shownData, fetching, signingIn, leaving,
                 collections, gathering>>

BootstrapSettles == BootstrapAnswers \/ BootstrapArrives \/ BootstrapRefused \/ BootstrapFails

WorkbenchNext ==
  \/ RefetchStale \/ RetryBootstrap \/ BootstrapSettles \/ Redirected \/ ReloadPage
  \/ \E p \in {"workspace", "mobile"} : Navigate(p)
  \/ SignIn \/ ServerSignsIn \/ SignInFails \/ Authenticated
  \/ RequestLogout \/ LogoutServed \/ LogoutFails \/ LogoutArrives
  \/ CheckRefused \/ RevocationArrives
  \/ \E s \in SignIns : PollStarts(s) \/ PollArrives(s) \/ ServerEnds(s)

WorkbenchSpec ==
  /\ WorkbenchInit /\ [][WorkbenchNext]_workbenchVars
  /\ WF_workbenchVars(BootstrapSettles)
  /\ WF_workbenchVars(Authenticated) /\ WF_workbenchVars(CheckRefused)

-----------------------------------------------------------------------------
(* Properties.                                                             *)

(* A shell shows the collections of the session it shows, whatever polls   *)
(* were under way, unless another sign-in is on its way to take its place; *)
(* once it was signed out nothing is cached.                               *)
CollectionsAreTheirOwners ==
  /\ \A s \in SignIns :
       ShellOf(s) /\ (fetching.stage = "idle" \/ fetching.sent = s) =>
         collections[s] \in {0, s}
  /\ Screen = "login" /\ shownData = NoSession("logged-out") =>
       \A s \in SignIns : collections[s] = Uncached

(* A shell does not for ever show a session that is over, nor the          *)
(* collections of another one.                                             *)
LostSessionIsLeft ==
  \A s \in SignIns :
    []<>(ShellOf(s) => s \in alive /\ collections[s] \in {0, s})

-----------------------------------------------------------------------------
(***************************************************************************)
(* apps/workbench-web/src/collection-polling.ts: how the workbench keeps   *)
(* its collections fresh. Each run of the effect fetches, then connects;   *)
(* a socket that is lost is reconnected after another fetch, and when none *)
(* has opened for a while the collections are polled. The effect is cleaned*)
(* up, and may run again, at any moment; a fetch it started goes on.       *)
(***************************************************************************)

CONSTANT MaxMounts   \* bound: how often the effect runs

ASSUME CollectionPollingAssumption == MaxMounts \in Nat \ {0}

VARIABLES
  mounts,         \* how often the effect has run
  mounted,        \* the last one was not cleaned up: stopped is false
  refetching,     \* runs whose refetch, which they connect after, is under way
  sockets,        \* per run: its last socket
  fallbackTimer,  \* of the last run: not set, set, or set and over
  reconnectTimer, \* of the last run: set
  polling,        \* fallback: the collections are polled
  liveness        \* of the last run's session check: timer, request, or neither

pollingVars == <<mounts, mounted, refetching, sockets, fallbackTimer, reconnectTimer, polling,
                 liveness>>

Mounts == 1 .. MaxMounts

CollectionPollingTypeOK ==
  /\ mounts \in 0 .. MaxMounts
  /\ {mounted, reconnectTimer, polling} \subseteq BOOLEAN
  /\ refetching \subseteq Mounts
  /\ sockets \in [Mounts -> {"none", "connecting", "open"}]
  /\ fallbackTimer \in {"unset", "set", "over"}
  /\ liveness \in {"none", "timer", "asking"}

CollectionPollingInit ==
  /\ mounts = 0 /\ mounted = FALSE
  /\ refetching = {}
  /\ sockets = [g \in Mounts |-> "none"]
  /\ fallbackTimer = "unset" /\ reconnectTimer = FALSE
  /\ polling = FALSE
  /\ liveness = "none"

-----------------------------------------------------------------------------
(* The effect.                                                             *)

Mount ==
  /\ ~mounted /\ mounts < MaxMounts
  /\ mounts' = mounts + 1 /\ mounted' = TRUE
  /\ refetching' = refetching \cup {mounts + 1}
  /\ fallbackTimer' = "unset"
  /\ liveness' = "timer"
  /\ UNCHANGED <<sockets, reconnectTimer, polling>>

Unmount ==
  /\ mounted
  /\ mounted' = FALSE
  /\ fallbackTimer' = "unset" /\ reconnectTimer' = FALSE
  /\ sockets' = [sockets EXCEPT ![mounts] = "none"]
  /\ liveness' = "none"
  /\ UNCHANGED <<mounts, refetching, polling>>

Stopped(g) == g < mounts \/ ~mounted

(* A refetch settles, answered or not, or cancelled by another; whoever    *)
(* waited for it connects.                                                 *)
Refetched(g) ==
  /\ g \in refetching
  /\ refetching' = refetching \ {g}
  /\ sockets' = IF Stopped(g) THEN sockets ELSE [sockets EXCEPT ![g] = "connecting"]
  /\ UNCHANGED <<mounts, mounted, fallbackTimer, reconnectTimer, polling, liveness>>

SocketOpens(g) ==
  /\ sockets[g] = "connecting"
  /\ sockets' = [sockets EXCEPT ![g] = "open"]
  /\ polling' = FALSE
  /\ fallbackTimer' = "unset"
  /\ UNCHANGED <<mounts, mounted, refetching, reconnectTimer, liveness>>

(* Refused, lost, or closed after a message that is not understood. A timer*)
(* that is over counts as set: the collections are polled by then.         *)
SocketCloses(g) ==
  /\ sockets[g] \in {"connecting", "open"}
  /\ sockets' = [sockets EXCEPT ![g] = "none"]
  /\ fallbackTimer' = IF fallbackTimer = "unset" THEN "set" ELSE fallbackTimer
  /\ reconnectTimer' = TRUE
  /\ UNCHANGED <<mounts, mounted, refetching, polling, liveness>>

Reconnect ==
  /\ reconnectTimer
  /\ reconnectTimer' = FALSE
  /\ refetching' = refetching \cup {mounts}
  /\ UNCHANGED <<mounts, mounted, sockets, fallbackTimer, polling, liveness>>

FallBack ==
  /\ fallbackTimer = "set"
  /\ fallbackTimer' = "over"
  /\ polling' = TRUE
  /\ UNCHANGED <<mounts, mounted, refetching, sockets, reconnectTimer, liveness>>

-----------------------------------------------------------------------------
(* The session check: one request after another; only a 401 ends it, and   *)
(* with it the workbench.                                                  *)

CheckSession ==
  /\ liveness = "timer"
  /\ liveness' = "asking"
  /\ UNCHANGED <<mounts, mounted, refetching, sockets, fallbackTimer, reconnectTimer, polling>>

SessionAnswers ==
  /\ liveness = "asking"
  /\ liveness' \in {"timer", "none"}
  /\ UNCHANGED <<mounts, mounted, refetching, sockets, fallbackTimer, reconnectTimer, polling>>

(* Requests settle and timers fire; that a socket opens or closes at last  *)
(* is the browser's to see to.                                             *)
PollingGoesOn ==
  \/ Reconnect \/ FallBack
  \/ \E g \in Mounts : Refetched(g)

SocketSettles == \E g \in Mounts :
  sockets[g] = "connecting" /\ (SocketOpens(g) \/ SocketCloses(g))

CollectionPollingNext ==
  \/ PollingGoesOn \/ Mount \/ Unmount \/ CheckSession \/ SessionAnswers
  \/ \E g \in Mounts : SocketOpens(g) \/ SocketCloses(g)

CollectionPollingSpec ==
  /\ CollectionPollingInit /\ [][CollectionPollingNext]_pollingVars
  /\ WF_pollingVars(FallBack) /\ WF_pollingVars(Reconnect) /\ WF_pollingVars(SocketSettles)
  /\ \A g \in Mounts : WF_pollingVars(Refetched(g))

-----------------------------------------------------------------------------
(* Properties.                                                             *)

(* A run of the effect that was cleaned up leaves nothing behind: no timer,*)
(* and no socket, not even one that a late answer would have opened. One   *)
(* that runs has a socket, or something pending that leads to one.         *)
OneRunConnects ==
  /\ \A g \in Mounts : Stopped(g) => sockets[g] = "none"
  /\ ~mounted => fallbackTimer = "unset" /\ ~reconnectTimer /\ liveness = "none"
  /\ mounted => sockets[mounts] # "none" \/ reconnectTimer \/ mounts \in refetching

(* A workbench that stays without a socket polls.                          *)
PollsWithoutSocket ==
  <>[](mounted /\ sockets[mounts] # "open") => <>[]polling
=============================================================================
