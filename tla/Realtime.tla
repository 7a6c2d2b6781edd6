------------------------------ MODULE Realtime ------------------------------
(***************************************************************************)
(* apps/api/src/realtime/realtime-server.ts with the event source that     *)
(* feeds it: the WebSocket connections of one session at one API node, and *)
(* the events of one task or notification. Whether the session still holds *)
(* and what the item looks like is read elsewhere, behind an await, while  *)
(* other events, timers and closes go on.                                  *)
(***************************************************************************)
EXTENDS Naturals, FiniteSets

CONSTANTS Connections,    \* identities of connections; used again when nothing refers to them
          MaxPerSession,  \* maxConnectionsPerSession
          MaxStateVersion \* bound: versions of the item

ASSUME RealtimeAssumption == MaxPerSession \in Nat \ {0} /\ MaxStateVersion \in Nat

VARIABLES
  valid,       \* the session, person and assignment of the connections hold
  stateVersion,\* the version of the item its owner has committed
  closed,      \* close() was called
  socket,      \* per connection: its WebSocket, and whether the server lists it
  revalidating,\* per connection: the timer's revalidation, held: it has read that
               \* the session holds, which may be over when it goes on
  inHandler,    \* per connection and event: where the handler is, what it read
  versions,    \* per connection: the version of the newest event it remembers
  sent         \* history, per connection: the newest version it was sent

realtimeVars == <<valid, stateVersion, closed, socket, revalidating, inHandler, versions, sent>>

Events == 1 .. MaxStateVersion
Unread == 0
NotThere == [stage |-> "none", read |-> Unread]

RealtimeTypeOK ==
  /\ valid \in BOOLEAN /\ closed \in BOOLEAN
  /\ stateVersion \in 0 .. MaxStateVersion
  /\ socket \in [Connections -> {"none", "upgrading", "open", "closing"}]
  /\ revalidating \in [Connections -> {"no", "reads", "held"}]
  /\ inHandler \in [Connections -> [Events ->
       [stage : {"none", "revalidate", "held", "snapshot", "send"}, read : 0 .. MaxStateVersion]]]
  /\ versions \in [Connections -> 0 .. MaxStateVersion]
  /\ sent \in [Connections -> 0 .. MaxStateVersion]

RealtimeInit ==
  /\ valid = TRUE /\ closed = FALSE
  /\ stateVersion = 0
  /\ socket = [k \in Connections |-> "none"]
  /\ revalidating = [k \in Connections |-> "no"]
  /\ inHandler = [k \in Connections |-> [e \in Events |-> NotThere]]
  /\ versions = [k \in Connections |-> 0]
  /\ sent = [k \in Connections |-> 0]

Listed == {k \in Connections : socket[k] \in {"open", "closing"}}

-----------------------------------------------------------------------------
(* Around the server.                                                      *)

(* Logout, a newer login, a disabled account, an assignment that ended.    *)
Revoke ==
  /\ valid
  /\ valid' = FALSE
  /\ UNCHANGED <<stateVersion, closed, socket, revalidating, inHandler, versions, sent>>

Change ==
  /\ stateVersion < MaxStateVersion
  /\ stateVersion' = stateVersion + 1
  /\ UNCHANGED <<valid, closed, socket, revalidating, inHandler, versions, sent>>

-----------------------------------------------------------------------------
(* Connections.                                                            *)

Socket(k, s) == socket' = [socket EXCEPT ![k] = s]

Upgrade(k) ==
  /\ socket[k] = "none" /\ ~closed
  /\ revalidating[k] = "no" /\ \A e \in Events : inHandler[k][e] = NotThere
  /\ Socket(k, "upgrading")
  /\ UNCHANGED <<valid, stateVersion, closed, revalidating, inHandler, versions, sent>>

(* Broken: the limit was looked at before the identity was resolved.       *)
CheckedBefore == TRUE

WithinLimit == Cardinality(Listed) < MaxPerSession

(* authenticate has resolved the identity of a session that held.          *)
Connect(k) ==
  /\ socket[k] = "upgrading" /\ ~closed
  /\ valid /\ WithinLimit
  /\ Socket(k, "open")
  /\ versions' = [versions EXCEPT ![k] = 0]
  /\ sent' = [sent EXCEPT ![k] = 0]
  /\ UNCHANGED <<valid, stateVersion, closed, revalidating, inHandler>>

RejectUpgrade(k) ==
  /\ socket[k] = "upgrading"
  /\ Socket(k, "none")
  /\ UNCHANGED <<valid, stateVersion, closed, revalidating, inHandler, versions, sent>>

(* The close handshake ends, the connection breaks, or a ping stays without*)
(* a pong.                                                                 *)
Disconnect(k) ==
  /\ k \in Listed
  /\ Socket(k, "none")
  /\ UNCHANGED <<valid, stateVersion, closed, revalidating, inHandler, versions, sent>>

-----------------------------------------------------------------------------
(* The timer.                                                              *)

Revalidation(k, s) == revalidating' = [revalidating EXCEPT ![k] = s]

StartRevalidation(k) ==
  /\ k \in Listed /\ ~closed
  /\ revalidating[k] = "no"
  /\ Revalidation(k, "reads")
  /\ UNCHANGED <<valid, stateVersion, closed, socket, inHandler, versions, sent>>

RevalidationReads(k) ==
  /\ revalidating[k] = "reads" /\ valid
  /\ Revalidation(k, "held")
  /\ UNCHANGED <<valid, stateVersion, closed, socket, inHandler, versions, sent>>

Revalidated(k) ==
  /\ revalidating[k] = "held"
  /\ Revalidation(k, "no")
  /\ UNCHANGED <<valid, stateVersion, closed, socket, inHandler, versions, sent>>

Closing(k) == socket' = [socket EXCEPT ![k] = IF @ = "open" THEN "closing" ELSE @]

(* The session does not hold, or that cannot be found out now.             *)
CutOff(k) ==
  /\ revalidating[k] = "reads"
  /\ Closing(k)
  /\ Revalidation(k, "no")
  /\ UNCHANGED <<valid, stateVersion, closed, inHandler, versions, sent>>

-----------------------------------------------------------------------------
(* Events. One may arrive at any time after the change it announces, after *)
(* a newer one, or never; the handler runs for every connection listed.    *)

HandlerAt(k, e, stage, read) ==
  inHandler' = [inHandler EXCEPT ![k][e] = [stage |-> stage, read |-> read]]

Arrive(e) ==
  /\ e <= stateVersion /\ ~closed
  /\ Listed # {}
  /\ \A k \in Connections : inHandler[k][e] = NotThere
  /\ inHandler' = [k \in Connections |-> IF k \in Listed
       THEN [inHandler[k] EXCEPT ![e] = [stage |-> "revalidate", read |-> Unread]]
       ELSE inHandler[k]]
  /\ UNCHANGED <<valid, stateVersion, closed, socket, revalidating, versions, sent>>

Hold(k, e) ==
  /\ inHandler[k][e].stage = "revalidate" /\ valid
  /\ HandlerAt(k, e, "held", Unread)
  /\ UNCHANGED <<valid, stateVersion, closed, socket, revalidating, versions, sent>>

(* The session does not hold, or that cannot be found out.                 *)
Drop(k, e) ==
  /\ inHandler[k][e].stage = "revalidate"
  /\ Closing(k)
  /\ HandlerAt(k, e, "none", Unread)
  /\ UNCHANGED <<valid, stateVersion, closed, revalidating, versions, sent>>

Compare(k, e) ==
  /\ inHandler[k][e].stage = "held"
  /\ IF versions[k] >= e THEN HandlerAt(k, e, "none", Unread)
                         ELSE HandlerAt(k, e, "snapshot", Unread)
  /\ UNCHANGED <<valid, stateVersion, closed, socket, revalidating, versions, sent>>

ReadSnapshot(k, e) ==
  /\ inHandler[k][e].stage = "snapshot"
  /\ HandlerAt(k, e, "send", stateVersion)
  /\ UNCHANGED <<valid, stateVersion, closed, socket, revalidating, versions, sent>>

(* The client is asked to synchronise again.                               *)
SnapshotFails(k, e) ==
  /\ inHandler[k][e].stage = "snapshot"
  /\ HandlerAt(k, e, "none", Unread)
  /\ UNCHANGED <<valid, stateVersion, closed, socket, revalidating, versions, sent>>

(* What is remembered is the version of the event, not of the snapshot.    *)
Send(k, e) ==
  /\ inHandler[k][e].stage = "send" /\ socket[k] = "open"
  /\ sent' = [sent EXCEPT ![k] = IF @ < inHandler[k][e].read THEN inHandler[k][e].read ELSE @]
  /\ versions' = [versions EXCEPT ![k] = e]
  /\ HandlerAt(k, e, "none", Unread)
  /\ UNCHANGED <<valid, stateVersion, closed, socket, revalidating>>

(* The socket is not open any more, its buffer is full, which closes it, or*)
(* the snapshot is too large.                                              *)
SendFails(k, e) ==
  /\ inHandler[k][e].stage = "send"
  /\ Closing(k) \/ UNCHANGED socket
  /\ HandlerAt(k, e, "none", Unread)
  /\ UNCHANGED <<valid, stateVersion, closed, revalidating, versions, sent>>

Shutdown ==
  /\ ~closed
  /\ closed' = TRUE
  /\ socket' = [k \in Connections |-> IF socket[k] = "upgrading" THEN "upgrading" ELSE "none"]
  /\ UNCHANGED <<valid, stateVersion, revalidating, inHandler, versions, sent>>

ConnectionNext(k) ==
  \/ Upgrade(k) \/ Connect(k) \/ RejectUpgrade(k) \/ Disconnect(k)
  \/ StartRevalidation(k) \/ RevalidationReads(k) \/ Revalidated(k) \/ CutOff(k)

DeliveryNext(k, e) ==
  \/ Hold(k, e) \/ Drop(k, e) \/ Compare(k, e) \/ ReadSnapshot(k, e) \/ SnapshotFails(k, e)
  \/ Send(k, e) \/ SendFails(k, e)

RealtimeNext ==
  \/ Revoke \/ Change \/ Shutdown
  \/ \E e \in Events : Arrive(e)
  \/ \E k \in Connections : ConnectionNext(k) \/ \E e \in Events : DeliveryNext(k, e)

TimerGoesOn(k) ==
  StartRevalidation(k) \/ RevalidationReads(k) \/ Revalidated(k) \/ CutOff(k)

(* The interval timer fires, and a revalidation answers or fails.          *)
RealtimeFairness == \A k \in Connections : WF_realtimeVars(TimerGoesOn(k))

RealtimeSpec == RealtimeInit /\ [][RealtimeNext]_realtimeVars /\ RealtimeFairness

-----------------------------------------------------------------------------
(* Properties.                                                             *)

(* A session never has more connections than its limit, however many       *)
(* upgrades await their identity at the same time, and a server that was   *)
(* closed lists none, whatever was under way.                              *)
ConnectionsAreBounded ==
  /\ Cardinality(Listed) <= MaxPerSession
  /\ closed => Listed = {}

(* An event is skipped as old only when the connection was sent a snapshot *)
(* at least as new: although the versions are compared before the snapshot *)
(* is awaited and stored after it was sent, in any order.                  *)
SkippedWasSent == \A k \in Connections : versions[k] <= sent[k]

(* The connection of a session that no longer holds is closed by the next  *)
(* revalidation that answers. (A session that is over stays so.)           *)
RevokedIsCut == \A k \in Connections : []<>(valid \/ socket[k] # "open")

-----------------------------------------------------------------------------
(***************************************************************************)
(* apps/api/src/realtime/rabbit-event-source.ts: the connection over which *)
(* an API node receives realtime events. It is established when the source *)
(* starts and again, after a delay, whenever it is lost; closing the source*)
(* may meet an attempt that is under way.                                  *)
(***************************************************************************)

CONSTANTS MaxLinks,         \* bound: connections that are opened
          MaxSourceStarts   \* bound: how often the source is started

ASSUME RealtimeSourceAssumption == MaxLinks \in Nat \ {0} /\ MaxSourceStarts \in Nat \ {0}

VARIABLES
  sourceStarts,   \* how often start() was called
  sourceClosed,   \* closed
  sourceHealthy,  \* healthy
  retryTimer,     \* reconnectTimer is set
  establishing,        \* connecting: the link it has opened, 0 before, Idle when there is none
  connection,        \* connection, 0 when there is none
  links,          \* per link: what became of it
  brokerUp        \* the broker answers

sourceVars == <<sourceStarts, sourceClosed, sourceHealthy, retryTimer, establishing, connection, links,
                brokerUp>>

Links == 1 .. MaxLinks
Idle == MaxLinks + 1

RealtimeSourceTypeOK ==
  /\ sourceStarts \in 0 .. MaxSourceStarts
  /\ {sourceClosed, sourceHealthy, retryTimer, brokerUp} \subseteq BOOLEAN
  /\ establishing \in 0 .. Idle
  /\ connection \in 0 .. MaxLinks
  /\ links \in [Links -> {"unused", "open", "lost", "gone"}]

RealtimeSourceInit ==
  /\ sourceStarts = 0 /\ sourceClosed = FALSE /\ sourceHealthy = FALSE
  /\ retryTimer = FALSE
  /\ establishing = Idle /\ connection = 0
  /\ links = [l \in Links |-> "unused"]
  /\ brokerUp = TRUE

-----------------------------------------------------------------------------
(* Attempts.                                                               *)

ScheduleReconnect == retryTimer' = (retryTimer \/ ~sourceClosed)

(* Nothing is established twice, nor for a closed source.                  *)
EstablishUnless(isClosed) ==
  establishing' = IF isClosed \/ establishing # Idle \/ sourceHealthy THEN establishing ELSE 0

StartSource ==
  /\ sourceStarts < MaxSourceStarts
  /\ sourceStarts = 0 \/ sourceClosed
  /\ sourceStarts' = sourceStarts + 1
  /\ sourceClosed' = FALSE
  /\ EstablishUnless(FALSE)
  /\ UNCHANGED <<sourceHealthy, retryTimer, connection, links, brokerUp>>

TimerFires ==
  /\ retryTimer
  /\ retryTimer' = FALSE
  /\ EstablishUnless(sourceClosed)
  /\ UNCHANGED <<sourceStarts, sourceClosed, sourceHealthy, connection, links, brokerUp>>

OpenLink ==
  /\ establishing = 0 /\ brokerUp
  /\ \E l \in Links :
       /\ links[l] = "unused"
       /\ links' = [links EXCEPT ![l] = "open"]
       /\ establishing' = l
  /\ UNCHANGED <<sourceStarts, sourceClosed, sourceHealthy, retryTimer, connection, brokerUp>>

(* The queue is declared, bound and consumed from.                         *)
Established ==
  /\ establishing \in Links /\ links[establishing] = "open"
  /\ establishing' = Idle
  /\ IF sourceClosed
     THEN links' = [links EXCEPT ![establishing] = "gone"] /\ UNCHANGED <<connection, sourceHealthy>>
     ELSE connection' = establishing /\ sourceHealthy' = TRUE /\ UNCHANGED links
  /\ UNCHANGED <<sourceStarts, sourceClosed, retryTimer, brokerUp>>

AttemptFails ==
  \/ establishing = 0 /\ ~brokerUp
  \/ establishing \in Links /\ links[establishing] = "lost"

(* Whoever has called establish, start() or the timer, schedules the next. *)
EstablishFails ==
  /\ AttemptFails
  /\ links' = [l \in Links |-> IF l = establishing THEN "gone" ELSE links[l]]
  /\ establishing' = Idle
  /\ sourceHealthy' = FALSE
  /\ ScheduleReconnect
  /\ UNCHANGED <<sourceStarts, sourceClosed, connection, brokerUp>>

-----------------------------------------------------------------------------
(* Losing and closing.                                                     *)

(* An "error" event of the connection comes with it, or not.               *)
LinkIsLost(l) ==
  /\ links[l] = "open"
  /\ links' = [links EXCEPT ![l] = "lost"]
  /\ \/ UNCHANGED sourceHealthy
     \/ l = connection /\ sourceHealthy' = FALSE
  /\ UNCHANGED <<sourceStarts, sourceClosed, retryTimer, establishing, connection, brokerUp>>

(* The "close" event. Only that of the present connection is heeded.       *)
Disconnected(l) ==
  /\ links[l] = "lost" /\ l # establishing
  /\ links' = [links EXCEPT ![l] = "gone"]
  /\ IF l = connection
     THEN sourceHealthy' = FALSE /\ connection' = 0 /\ ScheduleReconnect
     ELSE UNCHANGED <<sourceHealthy, connection, retryTimer>>
  /\ UNCHANGED <<sourceStarts, sourceClosed, establishing, brokerUp>>

(* The connection that is closed will say so, and not be heeded.           *)
CloseSource ==
  /\ sourceStarts > 0 /\ ~sourceClosed
  /\ sourceClosed' = TRUE
  /\ sourceHealthy' = FALSE
  /\ retryTimer' = FALSE
  /\ connection' = 0
  /\ links' = [l \in Links |-> IF l = connection THEN "lost" ELSE links[l]]
  /\ UNCHANGED <<sourceStarts, establishing, brokerUp>>

BrokerGoes == /\ brokerUp' = ~brokerUp
              /\ UNCHANGED <<sourceStarts, sourceClosed, sourceHealthy, retryTimer, establishing,
                             connection, links>>

SourceGoesOn ==
  \/ TimerFires \/ OpenLink \/ Established \/ EstablishFails
  \/ \E l \in Links : Disconnected(l)

RealtimeSourceNext ==
  \/ SourceGoesOn \/ StartSource \/ CloseSource \/ BrokerGoes
  \/ \E l \in Links : LinkIsLost(l)

RealtimeSourceSpec ==
  RealtimeSourceInit /\ [][RealtimeSourceNext]_sourceVars /\ WF_sourceVars(SourceGoesOn)

-----------------------------------------------------------------------------
(* Properties.                                                             *)

(* A source that runs and is not connected is about to try again: whatever *)
(* has failed, something is pending that leads to the next attempt. One    *)
(* that was closed keeps neither a timer nor, once its last attempt is     *)
(* over, a connection.                                                     *)
NeverGivesUp ==
  /\ sourceStarts > 0 /\ ~sourceClosed =>
       \/ connection # 0 /\ links[connection] \in {"open", "lost"}
       \/ retryTimer \/ establishing # Idle
  /\ sourceHealthy => connection # 0
  /\ sourceClosed => ~retryTimer /\ (establishing = Idle => \A l \in Links : links[l] # "open")

(* Once the broker stays up and the source is not closed, it is connected  *)
(* and stays so, unless its connections go on failing.                     *)
SourceRecovers ==
  <>[](brokerUp /\ sourceStarts > 0 /\ ~sourceClosed /\ \E l \in Links : links[l] = "unused")
    => <>[]sourceHealthy
=============================================================================
