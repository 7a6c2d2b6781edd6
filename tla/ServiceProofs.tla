--------------------------- MODULE ServiceProofs ----------------------------
(***************************************************************************)
(* Proofs about the services of the API and the workbench that listens to  *)
(* them: realtime connections, the source that feeds them and the polling  *)
(* that stands in for them; administration commands, what they leave of an *)
(* account, and the audited operations of the notification and the task    *)
(* centre; sessions, the order in which a request is checked, the shell    *)
(* that shows a session's collections and the dialogs that edit them. For  *)
(* any number of connections, requests, accounts, sessions and ticks.      *)
(***************************************************************************)
EXTENDS Realtime, WorkbenchSession, Administration, Workforce, AuditedOperations,
        Sessions, HttpRequests, WorkbenchEditors, Integers, FiniteSetTheorems, TLAPS

(* What a handler has read is at least as new as its event.                *)
HandlersAreBehind ==
  \A k \in Connections, e \in Events :
    /\ inHandler[k][e].stage # "none" => e <= stateVersion
    /\ inHandler[k][e].stage = "send" => e <= inHandler[k][e].read

RealtimeInv ==
  /\ RealtimeTypeOK
  /\ IsFiniteSet(Listed)
  /\ ConnectionsAreBounded
  /\ HandlersAreBehind
  /\ SkippedWasSent

LEMMA RealtimeStarts == RealtimeInit => RealtimeInv
<1> SUFFICES ASSUME RealtimeInit PROVE RealtimeInv
  OBVIOUS
<1>1. Listed = {}
  BY DEF RealtimeInit, Listed
<1>2. IsFiniteSet(Listed) /\ Cardinality(Listed) = 0
  BY <1>1, FS_EmptySet
<1>3. RealtimeTypeOK
  <2>1. NotThere \in [stage : {"none", "revalidate", "held", "snapshot", "send"},
                      read : 0 .. MaxStateVersion]
    BY RealtimeAssumption DEF NotThere, Unread
  <2>2. inHandler \in [Connections -> [Events ->
           [stage : {"none", "revalidate", "held", "snapshot", "send"}, read : 0 .. MaxStateVersion]]]
    BY <2>1 DEF RealtimeInit
  <2>3. /\ stateVersion \in 0 .. MaxStateVersion
        /\ versions \in [Connections -> 0 .. MaxStateVersion]
        /\ sent \in [Connections -> 0 .. MaxStateVersion]
    BY RealtimeAssumption DEF RealtimeInit
  <2> QED
    BY <2>2, <2>3 DEF RealtimeInit, RealtimeTypeOK
<1> QED
  BY <1>1, <1>2, <1>3, RealtimeAssumption
  DEF RealtimeInv, RealtimeInit, ConnectionsAreBounded, HandlersAreBehind, NotThere, SkippedWasSent

(* A step that lists no further connection keeps their number within bounds*)
LEMMA FewerAreListed ==
  ASSUME RealtimeInv, Listed' \subseteq Listed, closed' => closed \/ Listed' = {}
  PROVE  IsFiniteSet(Listed') /\ ConnectionsAreBounded'
<1>1. IsFiniteSet(Listed') /\ Cardinality(Listed') <= Cardinality(Listed)
  BY FS_Subset DEF RealtimeInv
<1>2. Cardinality(Listed) \in Nat /\ Cardinality(Listed') \in Nat
  BY <1>1, FS_CardinalityType DEF RealtimeInv
<1> QED
  BY <1>1, <1>2, RealtimeAssumption DEF RealtimeInv, ConnectionsAreBounded

(* A step of one handler: what it reads and sends is what it may.          *)
LEMMA HandlerGoesOn ==
  ASSUME RealtimeInv, NEW k \in Connections, NEW e \in Events, DeliveryNext(k, e)
  PROVE  RealtimeTypeOK' /\ HandlersAreBehind' /\ SkippedWasSent'
<1> USE DEF Events, Unread
<1>1. inHandler[k][e].stage # "none" /\ stateVersion' = stateVersion /\ closed' = closed
      /\ valid' = valid /\ revalidating' = revalidating
  BY DEF DeliveryNext, Hold, Drop, Compare, ReadSnapshot, SnapshotFails, Send, SendFails
<1>2. /\ e \in Nat /\ stateVersion \in 0 .. MaxStateVersion
      /\ e <= stateVersion
      /\ versions[k] \in Nat /\ sent[k] \in 0 .. MaxStateVersion
      /\ inHandler[k][e].read \in 0 .. MaxStateVersion
  BY <1>1, RealtimeAssumption DEF RealtimeInv, RealtimeTypeOK, HandlersAreBehind
<1>3. socket' \in [Connections -> {"none", "upgrading", "open", "closing"}]
  BY DEF DeliveryNext, Hold, Drop, Compare, ReadSnapshot, SnapshotFails, Send, SendFails, Closing,
         RealtimeInv, RealtimeTypeOK
<1>4. \E s \in {"none", "held", "snapshot", "send"}, n \in 0 .. MaxStateVersion :
        HandlerAt(k, e, s, n) /\ (s = "send" => e <= n)
  <2>1. 0 \in 0 .. MaxStateVersion /\ stateVersion \in 0 .. MaxStateVersion
    BY <1>2, RealtimeAssumption
  <2>2. \/ \E s \in {"none", "held", "snapshot"} : HandlerAt(k, e, s, 0)
        \/ HandlerAt(k, e, "send", stateVersion)
    BY DEF DeliveryNext, Hold, Drop, Compare, ReadSnapshot, SnapshotFails, Send, SendFails
  <2>3. ASSUME NEW s \in {"none", "held", "snapshot"}, HandlerAt(k, e, s, 0)
        PROVE  \E t \in {"none", "held", "snapshot", "send"}, n \in 0 .. MaxStateVersion :
                 HandlerAt(k, e, t, n) /\ (t = "send" => e <= n)
    BY <2>1, <2>3
  <2> QED
    BY <1>2, <2>1, <2>2, <2>3
<1>5. PICK s \in {"none", "held", "snapshot", "send"}, n \in 0 .. MaxStateVersion :
        HandlerAt(k, e, s, n) /\ (s = "send" => e <= n)
  BY <1>4
<1>6. /\ inHandler' \in [Connections -> [Events ->
           [stage : {"none", "revalidate", "held", "snapshot", "send"}, read : 0 .. MaxStateVersion]]]
      /\ \A j \in Connections, f \in Events :
           inHandler'[j][f] = IF j = k /\ f = e THEN [stage |-> s, read |-> n] ELSE inHandler[j][f]
  BY <1>5 DEF HandlerAt, RealtimeInv, RealtimeTypeOK
<1>7. HandlersAreBehind'
  BY <1>1, <1>2, <1>5, <1>6 DEF HandlersAreBehind, RealtimeInv
<1>8. /\ versions' \in [Connections -> 0 .. MaxStateVersion]
      /\ sent' \in [Connections -> 0 .. MaxStateVersion]
      /\ SkippedWasSent'
  <2>1. CASE Send(k, e)
    <3>1. e <= inHandler[k][e].read
      BY <2>1 DEF Send, RealtimeInv, HandlersAreBehind
    <3> QED
      BY <2>1, <3>1, <1>2 DEF Send, RealtimeInv, RealtimeTypeOK, SkippedWasSent
  <2>2. CASE UNCHANGED <<versions, sent>>
    BY <2>2 DEF RealtimeInv, RealtimeTypeOK, SkippedWasSent
  <2> QED
    BY <2>1, <2>2 DEF DeliveryNext, Hold, Drop, Compare, ReadSnapshot, SnapshotFails, SendFails
<1> QED
  BY <1>1, <1>3, <1>6, <1>7, <1>8 DEF RealtimeInv, RealtimeTypeOK

LEMMA RealtimeGoesOn == RealtimeInv /\ [RealtimeNext]_realtimeVars => RealtimeInv'
<1> SUFFICES ASSUME RealtimeInv, [RealtimeNext]_realtimeVars PROVE RealtimeInv'
  OBVIOUS
<1> USE RealtimeAssumption DEF Events
<1>1. CASE UNCHANGED realtimeVars
  BY <1>1 DEF realtimeVars, RealtimeInv, RealtimeTypeOK, Listed, ConnectionsAreBounded,
              HandlersAreBehind, SkippedWasSent
<1>2. CASE Revoke \/ Change \/ Shutdown
  <2>1. /\ UNCHANGED <<revalidating, inHandler, versions, sent>>
        /\ valid' \in BOOLEAN /\ closed' \in BOOLEAN
        /\ stateVersion' \in 0 .. MaxStateVersion /\ stateVersion <= stateVersion'
        /\ socket' \in [Connections -> {"none", "upgrading", "open", "closing"}]
    <3>. stateVersion \in 0 .. MaxStateVersion /\ closed \in BOOLEAN
      BY DEF RealtimeInv, RealtimeTypeOK
    <3>1. CASE Revoke
      <4>1. UNCHANGED <<stateVersion, closed, socket, revalidating, inHandler, versions, sent>>
            /\ valid' \in BOOLEAN
        BY <3>1 DEF Revoke
      <4>2. socket' \in [Connections -> {"none", "upgrading", "open", "closing"}]
        BY <4>1 DEF RealtimeInv, RealtimeTypeOK
      <4>3. stateVersion' \in 0 .. MaxStateVersion /\ stateVersion <= stateVersion'
        BY <4>1
      <4>4. closed' \in BOOLEAN
        BY <4>1
      <4> QED
        BY <4>1, <4>2, <4>3, <4>4
    <3>2. CASE Change
      BY <3>2 DEF Change, RealtimeInv, RealtimeTypeOK
    <3>3. CASE Shutdown
      BY <3>3 DEF Shutdown, RealtimeInv, RealtimeTypeOK
    <3> QED
      BY <1>2, <3>1, <3>2, <3>3
  <2>4. RealtimeTypeOK' /\ SkippedWasSent'
    BY <2>1 DEF RealtimeInv, RealtimeTypeOK, SkippedWasSent
  <2>5. HandlersAreBehind'
    BY <2>1 DEF RealtimeInv, RealtimeTypeOK, HandlersAreBehind
  <2>2. Listed' \subseteq Listed /\ (closed' => closed \/ Listed' = {})
    BY <1>2 DEF Revoke, Change, Shutdown, Listed
  <2> QED
    BY <2>2, <2>4, <2>5, FewerAreListed DEF RealtimeInv
<1>3. ASSUME NEW e \in Events, Arrive(e) PROVE RealtimeInv'
  <2>1. UNCHANGED <<valid, stateVersion, closed, socket, revalidating, versions, sent>>
        /\ e <= stateVersion
    BY <1>3 DEF Arrive
  <2>2. /\ inHandler' \in [Connections -> [Events ->
           [stage : {"none", "revalidate", "held", "snapshot", "send"}, read : 0 .. MaxStateVersion]]]
        /\ \A k \in Connections, f \in Events :
             \/ inHandler'[k][f] = inHandler[k][f]
             \/ f = e /\ inHandler'[k][f] = [stage |-> "revalidate", read |-> Unread]
    BY <1>3 DEF Arrive, RealtimeInv, RealtimeTypeOK, Unread
  <2>3. RealtimeTypeOK' /\ HandlersAreBehind' /\ SkippedWasSent'
    <3>1. RealtimeTypeOK' /\ SkippedWasSent'
      BY <2>1, <2>2 DEF RealtimeInv, RealtimeTypeOK, SkippedWasSent
    <3>2. HandlersAreBehind'
      BY <2>1, <2>2 DEF RealtimeInv, HandlersAreBehind
    <3> QED
      BY <3>1, <3>2
  <2>4. Listed' = Listed /\ closed' = closed
    BY <2>1 DEF Listed
  <2> QED
    BY <2>3, <2>4, FewerAreListed DEF RealtimeInv
<1>4. ASSUME NEW k \in Connections, ConnectionNext(k) PROVE RealtimeInv'
  <2>1. RealtimeTypeOK' /\ HandlersAreBehind' /\ SkippedWasSent'
    <3>1. UNCHANGED <<valid, stateVersion, closed, inHandler>>
      BY <1>4 DEF ConnectionNext, Upgrade, Connect, RejectUpgrade, Disconnect, StartRevalidation,
                  RevalidationReads, Revalidated, CutOff
    <3>2. /\ socket' \in [Connections -> {"none", "upgrading", "open", "closing"}]
          /\ revalidating' \in [Connections -> {"no", "reads", "held"}]
      BY <1>4 DEF ConnectionNext, Upgrade, Connect, RejectUpgrade, Disconnect, StartRevalidation,
         RevalidationReads, Revalidated, CutOff, Closing, Socket, Revalidation, RealtimeInv,
         RealtimeTypeOK
    <3>3. \/ UNCHANGED <<versions, sent>>
          \/ versions' = [versions EXCEPT ![k] = 0] /\ sent' = [sent EXCEPT ![k] = 0]
      BY <1>4 DEF ConnectionNext, Upgrade, Connect, RejectUpgrade, Disconnect, StartRevalidation,
                  RevalidationReads, Revalidated, CutOff
    <3>4. /\ versions' \in [Connections -> 0 .. MaxStateVersion]
          /\ sent' \in [Connections -> 0 .. MaxStateVersion]
          /\ SkippedWasSent'
      <4>1. /\ versions \in [Connections -> 0 .. MaxStateVersion]
            /\ sent \in [Connections -> 0 .. MaxStateVersion]
            /\ SkippedWasSent
        BY DEF RealtimeInv, RealtimeTypeOK
      <4> QED
        BY <3>3, <4>1 DEF SkippedWasSent
    <3>5. RealtimeTypeOK'
      BY <3>1, <3>2, <3>4 DEF RealtimeInv, RealtimeTypeOK
    <3> QED
      BY <3>1, <3>4, <3>5 DEF RealtimeInv, HandlersAreBehind
  <2>2. CASE Connect(k)
    <3>1. ~closed /\ closed' = closed /\ Cardinality(Listed) < MaxPerSession
      BY <2>2 DEF Connect, WithinLimit
    <3>2. Listed' = Listed \cup {k}
      BY <2>2 DEF Connect, Socket, Listed, RealtimeInv, RealtimeTypeOK
    <3>3. /\ IsFiniteSet(Listed) /\ IsFiniteSet(Listed')
          /\ Cardinality(Listed') \in {Cardinality(Listed), Cardinality(Listed) + 1}
      BY <3>2, FS_AddElement DEF RealtimeInv
    <3>4. Cardinality(Listed) \in Nat
      BY <3>3, FS_CardinalityType
    <3> QED
      BY <2>1, <3>1, <3>3, <3>4 DEF RealtimeInv, ConnectionsAreBounded
  <2>3. CASE ~Connect(k)
    <3>1. Listed' \subseteq Listed /\ closed' = closed
      BY <1>4, <2>3 DEF ConnectionNext, Upgrade, RejectUpgrade, Disconnect, StartRevalidation,
         RevalidationReads, Revalidated, CutOff, Closing, Socket, Revalidation, Listed,
         RealtimeInv, RealtimeTypeOK
    <3> QED
      BY <2>1, <3>1, FewerAreListed DEF RealtimeInv
  <2> QED
    BY <2>2, <2>3
<1>5. ASSUME NEW k \in Connections, NEW e \in Events, DeliveryNext(k, e) PROVE RealtimeInv'
  <2>1. Listed' \subseteq Listed /\ closed' = closed
    BY <1>5 DEF DeliveryNext, Hold, Drop, Compare, ReadSnapshot, SnapshotFails, Send, SendFails,
       Closing, Listed, RealtimeInv, RealtimeTypeOK
  <2> QED
    BY <1>5, <2>1, HandlerGoesOn, FewerAreListed DEF RealtimeInv
<1> QED
  BY <1>1, <1>2, <1>3, <1>4, <1>5 DEF RealtimeNext

(* A session has no more connections than its limit, a closed server lists *)
(* none, and an event that is skipped as old was preceded by a snapshot at *)
(* least as new.                                                           *)
THEOREM ConnectionsKeepUp == RealtimeSpec => [](ConnectionsAreBounded /\ SkippedWasSent)
<1>1. RealtimeInv => ConnectionsAreBounded /\ SkippedWasSent
  BY DEF RealtimeInv
<1> QED
  BY RealtimeStarts, RealtimeGoesOn, <1>1, PTL DEF RealtimeSpec

-----------------------------------------------------------------------------
(* The source of the events.                                               *)

(* The link that is in use, and the one being established, were opened and *)
(* are not given up; no other link is open.                                *)
LinksAreHeld ==
  /\ connection # 0 => links[connection] \in {"open", "lost"}
  /\ \A l \in Links : links[l] = "open" => l \in {connection, establishing}

(* One thing at a time: an attempt, a timer, or a connection.              *)
OneThingIsPending ==
  /\ establishing # Idle => connection = 0 /\ ~retryTimer /\ ~sourceHealthy
  /\ retryTimer => connection = 0 /\ ~sourceHealthy
  /\ sourceStarts = 0 => connection = 0 /\ ~retryTimer /\ establishing = Idle
  /\ sourceClosed => connection = 0

SourceInv ==
  /\ RealtimeSourceTypeOK
  /\ LinksAreHeld
  /\ OneThingIsPending
  /\ NeverGivesUp

(* The type invariant, variable by variable.                               *)
SourceFlags ==
  /\ sourceClosed \in BOOLEAN /\ sourceHealthy \in BOOLEAN
  /\ retryTimer \in BOOLEAN /\ brokerUp \in BOOLEAN
SourceTypes ==
  /\ sourceStarts \in 0 .. MaxSourceStarts
  /\ establishing \in 0 .. Idle
  /\ connection \in 0 .. MaxLinks
  /\ links \in [Links -> {"unused", "open", "lost", "gone"}]

LEMMA SourceTyping ==
  /\ RealtimeSourceTypeOK <=> SourceFlags /\ SourceTypes
  /\ RealtimeSourceTypeOK' <=> SourceFlags' /\ SourceTypes'
  BY DEF RealtimeSourceTypeOK, SourceFlags, SourceTypes

LEMMA SourceStarts == RealtimeSourceInit => SourceInv
<1> SUFFICES ASSUME RealtimeSourceInit PROVE SourceInv
  OBVIOUS
<1>1. SourceTypes
  BY RealtimeSourceAssumption DEF RealtimeSourceInit, SourceTypes, Links, Idle
<1>2. SourceFlags
  BY Zenon DEF RealtimeSourceInit, SourceFlags
<1> QED
  BY <1>1, <1>2, SourceTyping, RealtimeSourceAssumption
  DEF RealtimeSourceInit, SourceInv, LinksAreHeld, OneThingIsPending, NeverGivesUp, Links, Idle

(* A source that is not closed has its timer set after it.                 *)
LEMMA TimerIsSet ==
  ASSUME ScheduleReconnect, SourceFlags
  PROVE  (retryTimer' <=> retryTimer \/ ~sourceClosed) /\ retryTimer' \in BOOLEAN
  BY Zenon DEF ScheduleReconnect, SourceFlags

LEMMA SourceGoesOnSoundly == SourceInv /\ [RealtimeSourceNext]_sourceVars => SourceInv'
<1> SUFFICES ASSUME SourceInv, [RealtimeSourceNext]_sourceVars PROVE SourceInv'
  OBVIOUS
<1> USE RealtimeSourceAssumption DEF Links, Idle
<1>0. SourceFlags /\ SourceTypes /\ LinksAreHeld /\ OneThingIsPending /\ NeverGivesUp
  BY SourceTyping DEF SourceInv
<1>1. CASE UNCHANGED sourceVars
  BY <1>1 DEF sourceVars, SourceInv, RealtimeSourceTypeOK, LinksAreHeld, OneThingIsPending,
              NeverGivesUp
<1>2. CASE StartSource
  <2>1. SourceTypes'
    BY <1>0, <1>2 DEF StartSource, EstablishUnless, SourceTypes, OneThingIsPending
  <2>5. SourceFlags'
    BY <1>0, <1>2, Zenon DEF StartSource, EstablishUnless, SourceFlags
  <2>2. LinksAreHeld'
    BY <1>0, <1>2 DEF StartSource, EstablishUnless, SourceTypes, LinksAreHeld, OneThingIsPending
  <2>3. OneThingIsPending'
    BY <1>0, <1>2 DEF StartSource, EstablishUnless, SourceTypes, OneThingIsPending, NeverGivesUp
  <2>4. NeverGivesUp'
    BY <1>0, <1>2 DEF StartSource, EstablishUnless, SourceTypes, LinksAreHeld, OneThingIsPending,
                       NeverGivesUp
  <2> QED
    BY <2>1, <2>2, <2>3, <2>4, <2>5, SourceTyping DEF SourceInv
<1>3. CASE TimerFires
  <2>1. SourceTypes'
    BY <1>0, <1>3 DEF TimerFires, EstablishUnless, SourceTypes, OneThingIsPending
  <2>5. SourceFlags'
    BY <1>0, <1>3, Zenon DEF TimerFires, EstablishUnless, SourceFlags
  <2>2. LinksAreHeld'
    BY <1>0, <1>3 DEF TimerFires, EstablishUnless, SourceTypes, LinksAreHeld, OneThingIsPending
  <2>3. OneThingIsPending'
    BY <1>0, <1>3 DEF TimerFires, EstablishUnless, SourceTypes, OneThingIsPending, NeverGivesUp
  <2>4. NeverGivesUp'
    BY <1>0, <1>3 DEF TimerFires, EstablishUnless, SourceTypes, LinksAreHeld, OneThingIsPending,
                       NeverGivesUp
  <2> QED
    BY <2>1, <2>2, <2>3, <2>4, <2>5, SourceTyping DEF SourceInv
<1>4. CASE OpenLink
  <2>1. SourceTypes'
    BY <1>0, <1>4 DEF OpenLink, SourceTypes, OneThingIsPending
  <2>5. SourceFlags'
    BY <1>0, <1>4, Zenon DEF OpenLink, SourceFlags
  <2>2. LinksAreHeld'
    BY <1>0, <1>4 DEF OpenLink, SourceTypes, LinksAreHeld, OneThingIsPending
  <2>3. OneThingIsPending'
    BY <1>0, <1>4 DEF OpenLink, SourceTypes, OneThingIsPending, NeverGivesUp
  <2>4. NeverGivesUp'
    BY <1>0, <1>4 DEF OpenLink, SourceTypes, LinksAreHeld, OneThingIsPending,
                       NeverGivesUp
  <2> QED
    BY <2>1, <2>2, <2>3, <2>4, <2>5, SourceTyping DEF SourceInv
<1>5. CASE Established
  <2>1. SourceTypes'
    BY <1>0, <1>5 DEF Established, SourceTypes, OneThingIsPending
  <2>5. SourceFlags'
    BY <1>0, <1>5, Zenon DEF Established, SourceFlags
  <2>2. LinksAreHeld'
    BY <1>0, <1>5 DEF Established, SourceTypes, LinksAreHeld, OneThingIsPending
  <2>3. OneThingIsPending'
    BY <1>0, <1>5 DEF Established, SourceTypes, OneThingIsPending, NeverGivesUp
  <2>4. NeverGivesUp'
    BY <1>0, <1>5 DEF Established, SourceTypes, LinksAreHeld, OneThingIsPending,
                       NeverGivesUp
  <2> QED
    BY <2>1, <2>2, <2>3, <2>4, <2>5, SourceTyping DEF SourceInv
<1>6. CASE EstablishFails
  <2>1. SourceTypes'
    BY <1>0, <1>6
    DEF EstablishFails, AttemptFails, ScheduleReconnect, SourceTypes, OneThingIsPending
  <2>5. SourceFlags'
    BY <1>0, <1>6, Zenon DEF EstablishFails, AttemptFails, ScheduleReconnect, SourceFlags
  <2>2. LinksAreHeld'
    BY <1>0, <1>6
    DEF EstablishFails, AttemptFails, ScheduleReconnect, SourceTypes, LinksAreHeld,
        OneThingIsPending
  <2>3. OneThingIsPending'
    BY <1>0, <1>6
    DEF EstablishFails, AttemptFails, ScheduleReconnect, SourceTypes, OneThingIsPending,
        NeverGivesUp
  <2>4. NeverGivesUp'
    <3>1. (retryTimer' <=> retryTimer \/ ~sourceClosed)
      BY <1>0, <1>6, TimerIsSet DEF EstablishFails
    <3> QED
      BY <1>0, <1>6, <3>1
      DEF EstablishFails, AttemptFails, SourceTypes, LinksAreHeld, OneThingIsPending, NeverGivesUp
  <2> QED
    BY <2>1, <2>2, <2>3, <2>4, <2>5, SourceTyping DEF SourceInv
<1>7. ASSUME NEW l \in Links, LinkIsLost(l) PROVE SourceInv'
  <2>1. SourceTypes'
    BY <1>0, <1>7 DEF LinkIsLost, SourceTypes, OneThingIsPending
  <2>5. SourceFlags'
    BY <1>0, <1>7, Zenon DEF LinkIsLost, SourceFlags
  <2>2. LinksAreHeld'
    BY <1>0, <1>7 DEF LinkIsLost, SourceTypes, LinksAreHeld, OneThingIsPending
  <2>3. OneThingIsPending'
    BY <1>0, <1>7 DEF LinkIsLost, SourceTypes, OneThingIsPending, NeverGivesUp
  <2>4. NeverGivesUp'
    BY <1>0, <1>7 DEF LinkIsLost, SourceTypes, LinksAreHeld, OneThingIsPending,
                       NeverGivesUp
  <2> QED
    BY <2>1, <2>2, <2>3, <2>4, <2>5, SourceTyping DEF SourceInv
<1>8. ASSUME NEW l \in Links, Disconnected(l) PROVE SourceInv'
  <2>1. SourceTypes'
    BY <1>0, <1>8 DEF Disconnected, ScheduleReconnect, SourceTypes, OneThingIsPending
  <2>5. SourceFlags'
    BY <1>0, <1>8, Zenon DEF Disconnected, ScheduleReconnect, SourceFlags
  <2>2. LinksAreHeld'
    BY <1>0, <1>8 DEF Disconnected, ScheduleReconnect, SourceTypes, LinksAreHeld, OneThingIsPending
  <2>3. OneThingIsPending'
    BY <1>0, <1>8 DEF Disconnected, ScheduleReconnect, SourceTypes, OneThingIsPending, NeverGivesUp
  <2>4. NeverGivesUp'
    <3>1. l = connection => (retryTimer' <=> retryTimer \/ ~sourceClosed)
      BY <1>0, <1>8, TimerIsSet DEF Disconnected
    <3> QED
      BY <1>0, <1>8, <3>1
      DEF Disconnected, SourceTypes, LinksAreHeld, OneThingIsPending, NeverGivesUp
  <2> QED
    BY <2>1, <2>2, <2>3, <2>4, <2>5, SourceTyping DEF SourceInv
<1>9. CASE CloseSource
  <2>1. SourceTypes'
    BY <1>0, <1>9 DEF CloseSource, SourceTypes, OneThingIsPending
  <2>5. SourceFlags'
    BY <1>0, <1>9, Zenon DEF CloseSource, SourceFlags
  <2>2. LinksAreHeld'
    BY <1>0, <1>9 DEF CloseSource, SourceTypes, LinksAreHeld, OneThingIsPending
  <2>3. OneThingIsPending'
    BY <1>0, <1>9 DEF CloseSource, SourceTypes, OneThingIsPending, NeverGivesUp
  <2>4. NeverGivesUp'
    BY <1>0, <1>9 DEF CloseSource, SourceTypes, LinksAreHeld, OneThingIsPending,
                       NeverGivesUp
  <2> QED
    BY <2>1, <2>2, <2>3, <2>4, <2>5, SourceTyping DEF SourceInv
<1>10. CASE BrokerGoes
  <2>1. SourceTypes'
    BY <1>0, <1>10 DEF BrokerGoes, SourceTypes, OneThingIsPending
  <2>5. SourceFlags'
    BY <1>0, <1>10, Zenon DEF BrokerGoes, SourceFlags
  <2>2. LinksAreHeld'
    BY <1>0, <1>10 DEF BrokerGoes, SourceTypes, LinksAreHeld, OneThingIsPending
  <2>3. OneThingIsPending'
    BY <1>0, <1>10 DEF BrokerGoes, SourceTypes, OneThingIsPending, NeverGivesUp
  <2>4. NeverGivesUp'
    BY <1>0, <1>10 DEF BrokerGoes, SourceTypes, LinksAreHeld, OneThingIsPending,
                       NeverGivesUp
  <2> QED
    BY <2>1, <2>2, <2>3, <2>4, <2>5, SourceTyping DEF SourceInv
<1> QED
  BY <1>1, <1>2, <1>3, <1>4, <1>5, <1>6, <1>7, <1>8, <1>9, <1>10
  DEF RealtimeSourceNext, SourceGoesOn

(* A source that is to run is connected, is trying or has set its timer;   *)
(* one that was closed keeps neither a timer nor a connection.             *)
THEOREM SourceGoesOnTrying == RealtimeSourceSpec => []NeverGivesUp
<1>1. SourceInv => NeverGivesUp
  BY DEF SourceInv
<1> QED
  BY SourceStarts, SourceGoesOnSoundly, <1>1, PTL DEF RealtimeSourceSpec

-----------------------------------------------------------------------------
(* The last run of the effect is the only one that has a socket.           *)
PollingInv ==
  /\ CollectionPollingTypeOK
  /\ mounted => mounts # 0
  /\ refetching \subseteq 1 .. mounts
  /\ \A g \in Mounts : sockets[g] # "none" => g = mounts /\ mounted
  /\ OneRunConnects

LEMMA PollingStarts == CollectionPollingInit => PollingInv
<1> SUFFICES ASSUME CollectionPollingInit PROVE PollingInv
  OBVIOUS
<1>1. {mounted, reconnectTimer, polling} \subseteq BOOLEAN
  BY Zenon DEF CollectionPollingInit
<1>2. CollectionPollingTypeOK
  BY <1>1, CollectionPollingAssumption DEF CollectionPollingInit, CollectionPollingTypeOK
<1> QED
  BY <1>2 DEF CollectionPollingInit, PollingInv, OneRunConnects, Stopped

LEMMA PollingGoesOnSoundly == PollingInv /\ [CollectionPollingNext]_pollingVars => PollingInv'
<1> SUFFICES ASSUME PollingInv, [CollectionPollingNext]_pollingVars PROVE PollingInv'
  OBVIOUS
<1> USE CollectionPollingAssumption
    DEF PollingInv, CollectionPollingTypeOK, OneRunConnects, Mounts, Stopped
<1>1. CASE UNCHANGED pollingVars
  BY <1>1 DEF pollingVars
<1>2. CASE Mount
  BY <1>2 DEF Mount
<1>3. CASE Unmount
  BY <1>3 DEF Unmount
<1>4. ASSUME NEW g \in Mounts, Refetched(g) PROVE PollingInv'
  BY <1>4 DEF Refetched
<1>5. ASSUME NEW g \in Mounts, SocketOpens(g) PROVE PollingInv'
  BY <1>5 DEF SocketOpens
<1>6. ASSUME NEW g \in Mounts, SocketCloses(g) PROVE PollingInv'
  BY <1>6 DEF SocketCloses
<1>7. CASE Reconnect
  <2>1. /\ reconnectTimer /\ ~reconnectTimer' /\ refetching' = refetching \cup {mounts}
        /\ reconnectTimer' \in BOOLEAN
        /\ UNCHANGED <<mounts, mounted, sockets, fallbackTimer, polling, liveness>>
    BY <1>7 DEF Reconnect
  <2>2. mounted /\ mounts \in Mounts
    BY <2>1
  <2> QED
    BY <2>1, <2>2
<1>8. CASE FallBack
  BY <1>8 DEF FallBack
<1>9. CASE CheckSession \/ SessionAnswers
  BY <1>9 DEF CheckSession, SessionAnswers
<1> QED
  BY <1>1, <1>2, <1>3, <1>4, <1>5, <1>6, <1>7, <1>8, <1>9 DEF CollectionPollingNext, PollingGoesOn

(* A run of the effect that is over leaves no timer and no socket; the one *)
(* that is not has a socket or something pending that leads to one.        *)
THEOREM OnlyOneRunConnects == CollectionPollingSpec => []OneRunConnects
<1>1. PollingInv => OneRunConnects
  BY DEF PollingInv
<1> QED
  BY PollingStarts, PollingGoesOnSoundly, <1>1, PTL DEF CollectionPollingSpec

-----------------------------------------------------------------------------
(* Between its insert and its commit, a request is the only one that has   *)
(* the operation, and the operation has no committed row.                  *)
Working(r) == stage[r] \in {"read", "lock", "count", "apply"}

OperationsAreClaimed ==
  /\ \A r \in Administering : stage[r] # "idle" => work[r] \in Work
  /\ \A r \in Administering :
       Working(r) => Op(r) \in claimed /\ operations[Op(r)] = Absent
  /\ \A r, q \in Administering : Working(r) /\ Working(q) /\ Op(r) = Op(q) => r = q

(* One request at a time has counted the administrators, and while it is   *)
(* about to deactivate one of them another one is active.                  *)
Deactivates(r) == Command(r).kind = "deactivate" /\ Command(r).target \in Administrators
OthersRemain(t) == \E a \in Administrators \ {t} : accounts[a].status = "active"

CountsAreExclusive ==
  /\ \A r, q \in locked : r = q
  /\ \A r \in locked : stage[r] \in {"count", "apply"}
  /\ \A r \in Administering : stage[r] = "count" => r \in locked
  /\ \A r \in Administering :
       stage[r] = "apply" /\ Deactivates(r) => r \in locked /\ OthersRemain(Command(r).target)

AdministrationInv ==
  /\ AdministrationTypeOK
  /\ OperationsAreClaimed
  /\ CountsAreExclusive
  /\ AnAdministratorRemains
  /\ OperationOnce

LEMMA AdministrationStarts == AdministrationInit => AdministrationInv
<1> SUFFICES ASSUME AdministrationInit PROVE AdministrationInv
  OBVIOUS
<1> USE AdministrationAssumption DEF AdministrationInit
<1>1. AdministrationTypeOK
  BY DEF AdministrationTypeOK, Stages
<1>2. OperationsAreClaimed /\ CountsAreExclusive
  BY DEF OperationsAreClaimed, CountsAreExclusive, Working
<1>3. AnAdministratorRemains
  BY DEF AnAdministratorRemains, ActiveAdministrators
<1>4. OperationOnce
  BY DEF OperationOnce, Absent
<1> QED
  BY <1>1, <1>2, <1>3, <1>4 DEF AdministrationInv

(* A request that works has read its command and the account it is about.  *)
LEMMA WorkIsKnown ==
  ASSUME AdministrationInv, NEW r \in Administering, stage[r] # "idle"
  PROVE  /\ work[r] \in Work /\ Op(r) \in Operations
         /\ Command(r) \in Commands
         /\ Command(r).kind \in {"deactivate", "reactivate", "reset"}
         /\ Command(r).target \in Accounts /\ Command(r).actor \in Accounts
         /\ Target(r).status \in {"active", "disabled"} /\ Target(r).revision \in 1 .. MaxAccountRev
<1>1. work[r] \in Work
  BY DEF AdministrationInv, OperationsAreClaimed
<1>2. Op(r) \in Operations /\ Command(r) \in Commands
  BY <1>1 DEF Work, Op, Command
<1>3. /\ Command(r).kind \in {"deactivate", "reactivate", "reset"}
      /\ Command(r).target \in Accounts /\ Command(r).actor \in Accounts
  BY <1>2, AdministrationAssumption
<1> QED
  BY <1>1, <1>2, <1>3 DEF AdministrationInv, AdministrationTypeOK, Target

(* What a command makes of an account: the next revision, and nobody is    *)
(* disabled but by a deactivation.                                         *)
LEMMA AfterCommand ==
  ASSUME NEW x \in [status : {"active", "disabled"}, revision : 1 .. MaxAccountRev],
         x.revision < MaxAccountRev, NEW k \in {"deactivate", "reactivate", "reset"}
  PROVE  /\ After(x, k) \in [status : {"active", "disabled"}, revision : 1 .. MaxAccountRev]
         /\ k # "deactivate" /\ x.status = "active" => After(x, k).status = "active"
<1> DEFINE s == CASE k = "deactivate" -> "disabled" [] k = "reactivate" -> "active"
                  [] k = "reset" -> x.status
<1>1. After(x, k) = [status |-> s, revision |-> x.revision + 1]
  <2>1. After(x, k) = [x EXCEPT !.status = s, !.revision = x.revision + 1]
    BY DEF After
  <2> HIDE DEF s
  <2> QED
    BY <2>1
<1>2. s \in {"active", "disabled"} /\ (k # "deactivate" /\ x.status = "active" => s = "active")
  OBVIOUS
<1>3. x.revision + 1 \in 1 .. MaxAccountRev
  BY AdministrationAssumption
<1> QED
  BY <1>1, <1>2, <1>3

LEMMA TwoAreActive ==
  ASSUME AdministrationAssumption, Cardinality(ActiveAdministrators) > 1, NEW t
  PROVE  OthersRemain(t)
<1> SUFFICES ASSUME ActiveAdministrators \subseteq {t} PROVE FALSE
  BY DEF ActiveAdministrators, OthersRemain
<1>1. IsFiniteSet({t}) /\ Cardinality({t}) = 1
  BY FS_Singleton
<1>2. Cardinality(ActiveAdministrators) <= 1 /\ IsFiniteSet(ActiveAdministrators)
  BY <1>1, FS_Subset
<1> QED
  BY <1>2, FS_CardinalityType

(* One step of a request.                                                  *)
RequestStep(r) ==
  \/ \E o \in Operations, c \in Commands : Submit(r, o, c)
  \/ Claim(r) \/ Replay(r) \/ FailCommand(r) \/ RecordFailure(r)
  \/ Read(r) \/ Lock(r) \/ Count(r) \/ CommitCommand(r)

LEMMA AdministrationTypeStays ==
  ASSUME AdministrationInv, NEW r \in Administering, RequestStep(r)
  PROVE  AdministrationTypeOK'
<1> USE DEF Becomes, Finish, Stages
<1>0. AdministrationTypeOK
  BY DEF AdministrationInv
<1>1. ASSUME NEW o \in Operations, NEW c \in Commands, Submit(r, o, c)
      PROVE  AdministrationTypeOK'
  <2>1. [op |-> o, command |-> c, seen |-> 0] \in Work
    BY AdministrationAssumption DEF Work
  <2> QED
    BY <1>0, <1>1, <2>1 DEF Submit, AdministrationTypeOK
<1>2. CASE Claim(r)
  <2>1. Op(r) \in Operations
    BY <1>2, WorkIsKnown DEF Claim
  <2> QED
    BY <1>0, <1>2, <2>1 DEF Claim, AdministrationTypeOK
<1>3. CASE Replay(r)
  <2>1. Op(r) \in Operations /\ Command(r) \in Commands
    BY <1>3, WorkIsKnown DEF Replay
  <2>2. told' \subseteq Operations \X Commands
    BY <1>0, <1>3, <2>1 DEF Replay, AdministrationTypeOK
  <2> QED
    BY <1>0, <1>3, <2>2 DEF Replay, AdministrationTypeOK
<1>4. CASE FailCommand(r)
  BY <1>0, <1>4 DEF FailCommand, AdministrationTypeOK
<1>5. CASE RecordFailure(r)
  <2>1. Op(r) \in Operations /\ Command(r) \in Commands
    BY <1>5, WorkIsKnown DEF RecordFailure
  <2>2. [status |-> "failed", command |-> Command(r)] \in Rows
    BY <2>1 DEF Rows
  <2>3. operations' \in [Operations -> Rows \cup {Absent}]
    BY <1>0, <1>5, <2>2 DEF RecordFailure, AdministrationTypeOK
  <2> QED
    BY <1>0, <1>5, <2>3 DEF RecordFailure, AdministrationTypeOK
<1>6. CASE Read(r)
  <2>1. work[r] \in Work /\ Target(r).revision \in 1 .. MaxAccountRev
    BY <1>6, WorkIsKnown DEF Read
  <2>2. [work[r] EXCEPT !.seen = Target(r).revision] \in Work
    BY <2>1, AdministrationAssumption DEF Work
  <2>3. work' = [work EXCEPT ![r] = [work[r] EXCEPT !.seen = Target(r).revision]]
    BY <1>6 DEF Read
  <2> QED
    BY <1>0, <1>6, <2>2, <2>3 DEF Read, AdministrationTypeOK
<1>7. CASE Lock(r) \/ Count(r)
  BY <1>0, <1>7 DEF Lock, Count, AdministrationTypeOK
<1>8. CASE CommitCommand(r)
  <2>1. /\ Op(r) \in Operations /\ Command(r) \in Commands
        /\ Command(r).kind \in {"deactivate", "reactivate", "reset"}
        /\ Target(r).revision \in 1 .. MaxAccountRev /\ Target(r).status \in {"active", "disabled"}
        /\ Command(r).target \in Accounts
    BY <1>8, WorkIsKnown DEF CommitCommand
  <2>2. /\ Target(r).revision < MaxAccountRev
        /\ accounts' = [accounts EXCEPT ![Command(r).target] = After(Target(r), Command(r).kind)]
    BY <1>8 DEF CommitCommand, Target
  <2>3. Target(r) \in [status : {"active", "disabled"}, revision : 1 .. MaxAccountRev]
    BY <1>0, <2>1 DEF AdministrationTypeOK, Target
  <2>4. After(Target(r), Command(r).kind)
          \in [status : {"active", "disabled"}, revision : 1 .. MaxAccountRev]
    BY <2>1, <2>2, <2>3, AfterCommand
  <2>5. accounts' \in [Accounts -> [status : {"active", "disabled"}, revision : 1 .. MaxAccountRev]]
    BY <1>0, <2>2, <2>4 DEF AdministrationTypeOK
  <2>6. [status |-> "succeeded", command |-> Command(r)] \in Rows
    BY <2>1 DEF Rows
  <2>7. /\ operations' \in [Operations -> Rows \cup {Absent}]
        /\ applied' \in [Operations -> Nat] /\ told' \subseteq Operations \X Commands
    BY <1>0, <1>8, <2>1, <2>6 DEF CommitCommand, AdministrationTypeOK
  <2> QED
    BY <1>0, <1>8, <2>5, <2>7 DEF CommitCommand, AdministrationTypeOK
<1> QED
  BY <1>1, <1>2, <1>3, <1>4, <1>5, <1>6, <1>7, <1>8 DEF RequestStep

(* A request that does not work any more, or whose operation has no row,   *)
(* disturbs nobody else's operation.                                       *)
LEMMA OperationsStayClaimed ==
  ASSUME AdministrationInv, NEW r \in Administering, RequestStep(r)
  PROVE  OperationsAreClaimed'
<1> USE DEF Becomes, Finish
<1>0. /\ AdministrationTypeOK /\ OperationsAreClaimed
      /\ stage \in [Administering -> Stages] /\ work \in [Administering -> Work \cup {NoWork}]
      /\ operations \in [Operations -> Rows \cup {Absent}]
  BY DEF AdministrationInv, AdministrationTypeOK
<1>1. ASSUME NEW o \in Operations, NEW c \in Commands, Submit(r, o, c)
      PROVE  OperationsAreClaimed'
  <2>1. [op |-> o, command |-> c, seen |-> 0] \in Work
    BY AdministrationAssumption DEF Work
  <2> QED
    BY <1>0, <1>1, <2>1 DEF Submit, OperationsAreClaimed, Working, Op
<1>2. CASE Claim(r)
  BY <1>0, <1>2 DEF Claim, Claimable, Row, OperationsAreClaimed, Working, Op
<1>3. CASE Replay(r)
  BY <1>0, <1>3 DEF Replay, OperationsAreClaimed, Working, Op
<1>4. CASE FailCommand(r)
  BY <1>0, <1>4 DEF FailCommand, OperationsAreClaimed, Working, Op
<1>5. CASE RecordFailure(r)
  <2>1. /\ Op(r) \notin claimed /\ claimed' = claimed
        /\ stage' = [stage EXCEPT ![r] = "idle"] /\ work' = [work EXCEPT ![r] = NoWork]
    BY <1>5 DEF RecordFailure
  <2>2. \A o \in Operations : o # Op(r) => operations'[o] = operations[o]
    BY <1>0, <1>5 DEF RecordFailure
  <2>3. \A q \in Administering : Working(q) => Op(q) \in Operations
    BY WorkIsKnown DEF Working
  <2>4. \A q \in Administering : Working(q)' => q # r /\ Working(q) /\ Op(q)' = Op(q)
    BY <1>0, <2>1 DEF Working, Op
  <2>5. \A q \in Administering : stage'[q] # "idle" => q # r /\ stage[q] # "idle" /\ work'[q] = work[q]
    BY <1>0, <2>1
  <2> QED
    BY <1>0, <2>1, <2>2, <2>3, <2>4, <2>5 DEF OperationsAreClaimed
<1>6. CASE Read(r)
  <2>1. work[r] \in Work /\ Target(r).revision \in 0 .. MaxAccountRev
    BY <1>6, WorkIsKnown DEF Read
  <2>2. /\ work' = [work EXCEPT ![r] = [work[r] EXCEPT !.seen = Target(r).revision]]
        /\ stage[r] = "read" /\ stage'[r] \in {"lock", "apply"}
        /\ \A q \in Administering \ {r} : stage'[q] = stage[q]
        /\ UNCHANGED <<claimed, operations>>
    BY <1>0, <1>6 DEF Read
  <2>3. [work[r] EXCEPT !.seen = Target(r).revision] \in Work
    BY <2>1 DEF Work
  <2>4. work'[r] \in Work /\ \A q \in Administering : work'[q].op = work[q].op
    BY <1>0, <2>1, <2>2, <2>3 DEF Work
  <2>5. \A q \in Administering \ {r} : work'[q] = work[q]
    BY <1>0, <2>2
  <2> QED
    BY <1>0, <2>2, <2>4, <2>5 DEF OperationsAreClaimed, Working, Op
<1>7. CASE Lock(r) \/ Count(r)
  BY <1>0, <1>7 DEF Lock, Count, OperationsAreClaimed, Working, Op
<1>8. CASE CommitCommand(r)
  BY <1>0, <1>8 DEF CommitCommand, OperationsAreClaimed, Working, Op
<1> QED
  BY <1>1, <1>2, <1>3, <1>4, <1>5, <1>6, <1>7, <1>8 DEF RequestStep

(* Nobody but the holder of the lock is about to deactivate an             *)
(* administrator, and no other command disables one.                       *)
LEMMA CountsStayExclusive ==
  ASSUME AdministrationInv, NEW r \in Administering, RequestStep(r)
  PROVE  CountsAreExclusive' /\ AnAdministratorRemains'
<1> USE DEF Becomes, Finish
<1>0. /\ CountsAreExclusive /\ AnAdministratorRemains
      /\ stage \in [Administering -> Stages] /\ work \in [Administering -> Work \cup {NoWork}]
      /\ accounts \in [Accounts -> [status : {"active", "disabled"}, revision : 1 .. MaxAccountRev]]
      /\ locked \subseteq Administering
  BY DEF AdministrationInv, AdministrationTypeOK
<1>1. CASE (\E o \in Operations, c \in Commands : Submit(r, o, c)) \/ Claim(r) \/ Replay(r)
           \/ FailCommand(r) \/ RecordFailure(r)
  <2>1. /\ accounts' = accounts /\ locked' \subseteq locked /\ \A q \in locked \ {r} : q \in locked'
        /\ stage'[r] \notin {"count", "apply"}
        /\ r \notin locked'
        /\ \A q \in Administering \ {r} : stage'[q] = stage[q] /\ work'[q] = work[q]
    BY <1>0, <1>1 DEF Submit, Claim, Replay, FailCommand, RecordFailure, CountsAreExclusive
  <2> QED
    BY <1>0, <2>1 DEF CountsAreExclusive, Deactivates, Command, OthersRemain,
                      AnAdministratorRemains, ActiveAdministrators
<1>2. CASE Read(r)
  <2>1. /\ UNCHANGED <<accounts, locked>> /\ stage[r] = "read"
        /\ stage'[r] = IF Deactivates(r) THEN "lock" ELSE "apply"
        /\ \A q \in Administering \ {r} : stage'[q] = stage[q] /\ work'[q] = work[q]
        /\ work' = [work EXCEPT ![r] = [work[r] EXCEPT !.seen = Target(r).revision]]
    BY <1>0, <1>2 DEF Read, Deactivates
  <2>2. work[r] \in Work
    BY <1>2, WorkIsKnown DEF Read
  <2>3. work'[r].command = work[r].command
    BY <1>0, <2>1, <2>2 DEF Work
  <2>4. Deactivates(r)' <=> Deactivates(r)
    BY <2>3 DEF Deactivates, Command
  <2>5. stage'[r] # "count" /\ (stage'[r] = "apply" => ~Deactivates(r)') /\ r \notin locked
    BY <1>0, <2>1, <2>4 DEF CountsAreExclusive
  <2> QED
    BY <1>0, <2>1, <2>5 DEF CountsAreExclusive, Deactivates, Command, OthersRemain,
                            AnAdministratorRemains, ActiveAdministrators
<1>3. CASE Lock(r)
  BY <1>0, <1>3 DEF Lock, LockFree, CountsAreExclusive, Deactivates, Command, OthersRemain,
                    AnAdministratorRemains, ActiveAdministrators
<1>4. CASE Count(r)
  <2>1. OthersRemain(Command(r).target)
    BY <1>4, TwoAreActive, AdministrationAssumption DEF Count
  <2> QED
    BY <1>0, <1>4, <2>1 DEF Count, CountsAreExclusive, Deactivates, Command, OthersRemain,
                            AnAdministratorRemains, ActiveAdministrators
<1>5. CASE CommitCommand(r)
  <2> DEFINE t == Command(r).target
             x == Target(r)
             k == Command(r).kind
  <2>1. /\ stage[r] = "apply" /\ stage'[r] = "idle" /\ locked' = locked \ {r}
        /\ accounts' = [accounts EXCEPT ![t] = After(x, k)] /\ x.revision < MaxAccountRev
        /\ \A q \in Administering \ {r} : stage'[q] = stage[q] /\ work'[q] = work[q]
    BY <1>0, <1>5 DEF CommitCommand, Target
  <2>2. t \in Accounts /\ k \in {"deactivate", "reactivate", "reset"}
        /\ x \in [status : {"active", "disabled"}, revision : 1 .. MaxAccountRev]
        /\ x = accounts[t]
    BY <1>0, <2>1, WorkIsKnown DEF Target
  <2>3. k # "deactivate" /\ x.status = "active" => After(x, k).status = "active"
    BY <2>1, <2>2, AfterCommand
  <2>4. Deactivates(r) <=> k = "deactivate" /\ t \in Administrators
    BY DEF Deactivates
  <2>5. Deactivates(r) => r \in locked /\ OthersRemain(t)
    BY <1>0, <2>1 DEF CountsAreExclusive
  <2> HIDE DEF t, x, k
  <2>6. ~Deactivates(r) =>
          \A a \in Administrators : accounts[a].status = "active" => accounts'[a].status = "active"
    BY <1>0, <2>1, <2>2, <2>3, <2>4, AdministrationAssumption
  <2>7. \A a \in Administrators \ {t} : accounts'[a] = accounts[a]
    BY <1>0, <2>1, <2>2, AdministrationAssumption
  <2>8. AnAdministratorRemains'
    <3>1. CASE Deactivates(r)
      BY <2>5, <2>7, <3>1 DEF OthersRemain, AnAdministratorRemains, ActiveAdministrators
    <3>2. CASE ~Deactivates(r)
      BY <1>0, <2>6, <3>2 DEF AnAdministratorRemains, ActiveAdministrators
    <3> QED
      BY <3>1, <3>2
  <2>9. ASSUME NEW q \in Administering, stage'[q] = "apply", Deactivates(q)'
        PROVE  q \in locked' /\ OthersRemain(Command(q).target)'
    <3>1. q # r /\ stage[q] = "apply" /\ work'[q] = work[q]
      BY <2>1, <2>9
    <3>2. Deactivates(q) /\ Command(q)' = Command(q)
      BY <2>9, <3>1 DEF Deactivates, Command
    <3>3. q \in locked /\ OthersRemain(Command(q).target)
      BY <1>0, <3>1, <3>2 DEF CountsAreExclusive
    <3>4. ~Deactivates(r)
      BY <1>0, <2>5, <3>1, <3>3 DEF CountsAreExclusive
    <3>5. OthersRemain(Command(q).target)'
      BY <2>6, <3>2, <3>3, <3>4 DEF OthersRemain
    <3> QED
      BY <2>1, <3>1, <3>3, <3>5
  <2>10. CountsAreExclusive'
    BY <1>0, <2>1, <2>9 DEF CountsAreExclusive
  <2> QED
    BY <2>8, <2>10
<1> QED
  BY <1>1, <1>2, <1>3, <1>4, <1>5 DEF RequestStep

(* The row of a succeeded operation is final, and is written with the      *)
(* effect.                                                                 *)
LEMMA OperationStaysOnce ==
  ASSUME AdministrationInv, NEW r \in Administering, RequestStep(r)
  PROVE  OperationOnce'
<1> USE DEF Becomes, Finish
<1>0. /\ OperationOnce /\ OperationsAreClaimed
      /\ operations \in [Operations -> Rows \cup {Absent}] /\ applied \in [Operations -> Nat]
      /\ told \subseteq Operations \X Commands
  BY DEF AdministrationInv, AdministrationTypeOK
<1>1. CASE UNCHANGED <<operations, applied, told>>
  BY <1>0, <1>1 DEF OperationOnce
<1>2. CASE Replay(r)
  BY <1>0, <1>2 DEF Replay, Row, OperationOnce
<1>3. CASE RecordFailure(r)
  <2>1. UNCHANGED <<applied, told>>
    BY <1>3 DEF RecordFailure
  <2>2. \A o \in Operations :
          \/ operations'[o] = operations[o]
          \/ operations[o] = Absent /\ operations'[o] = [status |-> "failed", command |-> Command(r)]
    BY <1>0, <1>3 DEF RecordFailure
  <2>3. Absent.status # "succeeded"
    BY DEF Absent
  <2>4. \A o \in Operations : operations[o].status = "succeeded" => operations'[o] = operations[o]
    BY <2>2, <2>3
  <2>5. \A o \in Operations :
          operations'[o].status = "succeeded" <=> operations[o].status = "succeeded"
    BY <2>2, <2>3
  <2>6. \A t \in told : t[1] \in Operations
    BY <1>0
  <2> QED
    BY <1>0, <2>1, <2>4, <2>5, <2>6 DEF OperationOnce
<1>4. CASE CommitCommand(r)
  <2>1. Op(r) \in Operations /\ operations[Op(r)] = Absent
    BY <1>0, <1>4, WorkIsKnown DEF CommitCommand, OperationsAreClaimed, Working
  <2>2. Absent.status # "succeeded"
    BY DEF Absent
  <2>3. /\ operations' = [operations EXCEPT ![Op(r)] = [status |-> "succeeded", command |-> Command(r)]]
        /\ applied' = [applied EXCEPT ![Op(r)] = @ + 1]
        /\ told' = told \cup {<<Op(r), Command(r)>>}
    BY <1>4 DEF CommitCommand
  <2>4. \A o \in Operations :
          applied'[o] = IF operations'[o].status = "succeeded" THEN 1 ELSE 0
    BY <1>0, <2>1, <2>2, <2>3 DEF OperationOnce
  <2>5. ASSUME NEW t \in told'
        PROVE  operations'[t[1]] = [status |-> "succeeded", command |-> t[2]]
    <3>1. CASE t = <<Op(r), Command(r)>>
      BY <1>0, <2>1, <2>3, <3>1
    <3>2. CASE t \in told
      <4>1. t[1] # Op(r) /\ t[1] \in Operations
        <5>1. operations[t[1]].status = "succeeded"
          <6>1. operations[t[1]] = [status |-> "succeeded", command |-> t[2]]
            BY <1>0, <3>2 DEF OperationOnce
          <6> QED
            BY <6>1
        <5> QED
          BY <1>0, <2>1, <2>2, <3>2, <5>1
      <4> QED
        BY <1>0, <2>3, <3>2, <4>1 DEF OperationOnce
    <3> QED
      BY <2>3, <2>5, <3>1, <3>2
  <2> QED
    BY <2>4, <2>5 DEF OperationOnce
<1> QED
  BY <1>1, <1>2, <1>3, <1>4 DEF RequestStep, Submit, Claim, FailCommand, Read, Lock, Count

LEMMA AdministrationGoesOn ==
  AdministrationInv /\ [AdministrationNext]_adminVars => AdministrationInv'
<1> SUFFICES ASSUME AdministrationInv, [AdministrationNext]_adminVars PROVE AdministrationInv'
  OBVIOUS
<1>1. CASE UNCHANGED adminVars
  BY <1>1 DEF adminVars, AdministrationInv, AdministrationTypeOK, OperationsAreClaimed, Working, Op,
       CountsAreExclusive, Deactivates, Command, OthersRemain, AnAdministratorRemains,
       ActiveAdministrators, OperationOnce
<1>2. CASE AdministrationNext
  BY <1>2, AdministrationTypeStays, OperationsStayClaimed, CountsStayExclusive, OperationStaysOnce
  DEF AdministrationNext, RequestStep, AdministrationInv
<1> QED
  BY <1>1, <1>2

(* Two administrators cannot deactivate each other, and an operation has   *)
(* its effect once, however it is retried.                                 *)
THEOREM AdministratorsRemain == AdministrationSpec => [](AnAdministratorRemains /\ OperationOnce)
<1>1. AdministrationInv => AnAdministratorRemains /\ OperationOnce
  BY DEF AdministrationInv
<1> QED
  BY AdministrationStarts, AdministrationGoesOn, <1>1, PTL DEF AdministrationSpec

-----------------------------------------------------------------------------
(* What a request has read is older than the account, or is the account.   *)
EditsAreTrue == \A e \in Editors : edits[e] # NoEdit =>
  LET c == edits[e]
      now == staff[c.account]
  IN  /\ c.kind = "create" => c.row = NotCreated
      /\ c.kind # "create" => /\ now.status # "none" /\ c.row.status # "none"
                              /\ c.row.revision <= now.revision
                              /\ c.row.revision = now.revision => c.row = now /\ c.open = open[c.account]
      /\ c.kind \in {"update", "move", "deactivate"} => c.row.status = "active"
      /\ c.kind = "reactivate" => c.row.status = "disabled"

(* The open assignment of an active account, and its grant.                *)
IsPlaced(a) == \E n \in AssignmentNumbers : open[a] = {n} /\ <<"application_user", n>> \in grants[a]
AccountsArePlaced == \A a \in Staff :
  /\ staff[a].status = "active" => IsPlaced(a)
  /\ staff[a].status # "active" => open[a] = {}
  /\ staff[a].status = "none" => staff[a] = NotCreated

(* The identifiers an account has now are in its own history.              *)
IdentifiersAreHeld == \A a \in Staff :
  /\ staff[a].username # NoValue => userHolder[staff[a].username] = a
  /\ staff[a].phone # NoValue => phoneHolder[staff[a].phone] = a

WorkforceInv ==
  /\ WorkforceTypeOK
  /\ EditsAreTrue
  /\ AccountsArePlaced
  /\ IdentifiersAreHeld

LEMMA WorkforceMeans == WorkforceInv => OneAssignment /\ IdentifiersLeadHome
<1> SUFFICES ASSUME WorkforceInv PROVE OneAssignment /\ IdentifiersLeadHome
  OBVIOUS
<1>1. ASSUME NEW a \in Staff, NEW n \in AssignmentNumbers, open[a] = {n},
             <<"application_user", n>> \in grants[a]
      PROVE  {g[2] : g \in {h \in grants[a] : h[1] = "application_user"}} \cap open[a] = {n}
  BY <1>1
<1>2. OneAssignment
  BY <1>1 DEF OneAssignment, WorkforceInv, AccountsArePlaced, IsPlaced
<1>3. ASSUME NEW a \in Staff, NEW v \in {staff[a].username, staff[a].phone} \ {NoValue}
      PROVE  /\ a \in LoginFinds(v)
             /\ \A b \in Staff : b # a => staff[b].username # v \/ staff[a].username # v
  <2>1. staff[a].username \in Usernames \cup {NoValue} /\ staff[a].phone \in Phones \cup {NoValue}
    BY DEF WorkforceInv, WorkforceTypeOK, StaffRecords
  <2> QED
    BY <1>3, <2>1 DEF LoginFinds, WorkforceInv, IdentifiersAreHeld
<1> QED
  BY <1>2, <1>3 DEF IdentifiersLeadHome

LEMMA WorkforceStarts == WorkforceInit => WorkforceInv
<1> SUFFICES ASSUME WorkforceInit PROVE WorkforceInv
  OBVIOUS
<1> USE WorkforceAssumption DEF WorkforceInit
<1>1. NotCreated \in StaffRecords /\ NotCreated.status = "none" /\ NotCreated.username = NoValue
      /\ NotCreated.phone = NoValue
  BY DEF NotCreated, StaffRecords
<1>2. WorkforceTypeOK
  BY <1>1 DEF WorkforceTypeOK
<1>3. EditsAreTrue /\ AccountsArePlaced /\ IdentifiersAreHeld
  BY <1>1 DEF EditsAreTrue, AccountsArePlaced, IdentifiersAreHeld
<1> QED
  BY <1>2, <1>3 DEF WorkforceInv

(* A step that writes nothing but the requests.                            *)
LEMMA EditIsReadTruly ==
  ASSUME WorkforceInv, NEW e \in Editors, NEW c \in EditCommands, AskEdit(e, c)
  PROVE  WorkforceInv'
<1> DEFINE a == c.account
           u == IF c.kind = "move" THEN staff[a].username ELSE c.username
           p == IF c.kind = "move" THEN staff[a].phone ELSE c.phone
           d == [kind |-> c.kind, account |-> a, username |-> u, phone |-> p,
                 row |-> staff[a], open |-> open[a],
                 crm |-> \E n \in open[a] : <<"crm_administrator", n>> \in grants[a]]
<1>1. c \in CommandsOfWorkforce
  BY EditCommandsAssumption
<1>2. /\ c.kind \in Kinds /\ a \in Staff
      /\ c.username \in Usernames \cup {NoValue} /\ c.phone \in Phones \cup {NoValue}
  BY <1>1 DEF CommandsOfWorkforce
<1>3. staff[a] \in StaffRecords /\ open[a] \in SUBSET AssignmentNumbers
  BY <1>2 DEF WorkforceInv, WorkforceTypeOK
<1>4. u \in Usernames \cup {NoValue} /\ p \in Phones \cup {NoValue}
  BY <1>2, <1>3 DEF StaffRecords
<1>5. edits' = [edits EXCEPT ![e] = d] /\ c.kind \in Offered(a)
      /\ UNCHANGED <<staff, userHolder, phoneHolder, opened, open, grants>>
  BY Zenon DEF AskEdit
<1>6. d \in Edits
  BY <1>2, <1>3, <1>4 DEF Edits
<1>7. WorkforceTypeOK'
  BY <1>5, <1>6 DEF WorkforceInv, WorkforceTypeOK
<1>8. /\ c.kind = "create" => staff[a].status = "none"
      /\ c.kind # "create" => staff[a].status # "none"
      /\ c.kind \in {"update", "move", "deactivate"} => staff[a].status = "active"
      /\ c.kind = "reactivate" => staff[a].status = "disabled"
  <2>1. staff[a].status \in {"active", "disabled", "none"}
    BY <1>3 DEF StaffRecords
  <2> QED
    BY <1>5, <2>1 DEF Offered
<1>9. staff[a].status = "none" => staff[a] = NotCreated
  BY <1>2 DEF WorkforceInv, AccountsArePlaced
<1>10. staff[a].revision \in Nat
  BY <1>3, WorkforceAssumption DEF StaffRecords
<1>11. /\ d.kind = c.kind /\ d.account = a /\ d.row = staff[a] /\ d.open = open[a]
  OBVIOUS
<1>12. edits'[e] = d /\ \A q \in Editors \ {e} : edits'[q] = edits[q]
  BY <1>5 DEF WorkforceInv, WorkforceTypeOK
<1> HIDE DEF d, a
<1>13. EditsAreTrue'
  BY <1>5, <1>8, <1>9, <1>10, <1>11, <1>12 DEF WorkforceInv, EditsAreTrue
<1> QED
  BY <1>5, <1>7, <1>13 DEF WorkforceInv, AccountsArePlaced, IsPlaced, IdentifiersAreHeld

(* The command of a request, and the account it is about.                  *)
LEMMA EditIsKnown ==
  ASSUME WorkforceInv, NEW e \in Editors, edits[e].kind \in Kinds
  PROVE  /\ edits[e] \in Edits /\ edits[e] # NoEdit
         /\ edits[e].account \in Staff /\ edits[e].row \in StaffRecords
         /\ edits[e].username \in Usernames \cup {NoValue} /\ edits[e].phone \in Phones \cup {NoValue}
         /\ edits[e].open \subseteq AssignmentNumbers
         /\ edits[e].row.revision \in 0 .. MaxStaffRevision
<1>1. NoEdit.kind = "none"
  BY DEF NoEdit
<1>2. edits[e] # NoEdit
  BY <1>1 DEF Kinds
<1>3. edits[e] \in Edits
  BY <1>2 DEF WorkforceInv, WorkforceTypeOK
<1>4. edits[e].row \in StaffRecords
  BY <1>3 DEF Edits
<1> QED
  BY <1>2, <1>3, <1>4 DEF Edits, StaffRecords

(* A commit that raises the revision of its account makes the requests that*)
(* have read it stale, and the others do not concern it.                   *)
LEMMA EditsStayTrue ==
  ASSUME WorkforceInv, NEW e \in Editors, NEW a \in Staff, NEW row \in StaffRecords, NEW s,
         EditIsOver(e), staff' = [staff EXCEPT ![a] = row], open' = [open EXCEPT ![a] = s],
         row.status # "none",
         staff[a].status = "none" \/ row.revision > staff[a].revision
  PROVE  EditsAreTrue'
<1>1. edits'[e] = NoEdit /\ \A q \in Editors \ {e} : edits'[q] = edits[q]
  BY DEF EditIsOver, WorkforceInv, WorkforceTypeOK
<1>2. staff'[a] = row /\ open'[a] = s
      /\ \A b \in Staff \ {a} : staff'[b] = staff[b] /\ open'[b] = open[b]
  BY DEF WorkforceInv, WorkforceTypeOK
<1>3. ASSUME NEW q \in Editors \ {e}, edits[q] # NoEdit
      PROVE  edits[q].account \in Staff /\ edits[q].row.revision \in Nat
             /\ edits[q].kind \in Kinds
  <2>1. edits[q] \in Edits
    BY <1>3 DEF WorkforceInv, WorkforceTypeOK
  <2>2. edits[q].row \in StaffRecords
    BY <2>1 DEF Edits
  <2> QED
    BY <2>1, <2>2, WorkforceAssumption DEF Edits, StaffRecords
<1>4. row.revision \in Nat /\ staff[a].revision \in Nat
  <2>1. staff[a] \in StaffRecords
    BY DEF WorkforceInv, WorkforceTypeOK
  <2> QED
    BY <2>1, WorkforceAssumption DEF StaffRecords
<1>5. EditsAreTrue
  BY DEF WorkforceInv
<1>6. ASSUME NEW q \in Editors \ {e}, edits[q] # NoEdit, edits[q].kind # "create"
      PROVE  LET c == edits[q]
             IN  /\ staff'[c.account].status # "none"
                 /\ c.row.revision <= staff'[c.account].revision
                 /\ c.row.revision = staff'[c.account].revision
                      => c.row = staff'[c.account] /\ c.open = open'[c.account]
  BY <1>2, <1>3, <1>4, <1>5, <1>6 DEF EditsAreTrue
<1> QED
  BY <1>1, <1>5, <1>6 DEF EditsAreTrue

(* Taking identifiers: what the account has afterwards is its own, and     *)
(* nobody loses any.                                                       *)
LEMMA TakenAreHeld ==
  ASSUME WorkforceInv, NEW a \in Staff, NEW row \in StaffRecords, NEW c,
         c.account = a, c.row \in StaffRecords,
         c.username \in Usernames \cup {NoValue}, c.phone \in Phones \cup {NoValue},
         c.row.username = staff[a].username, c.row.phone = staff[a].phone,
         row.username = c.username, row.phone = c.phone,
         staff' = [staff EXCEPT ![a] = row], TakesIdentifiers(c)
  PROVE  /\ IdentifiersAreHeld'
         /\ userHolder' \in [Usernames -> Staff \cup {Nobody}]
         /\ phoneHolder' \in [Phones -> Staff \cup {Nobody}]
<1>1. staff'[a] = row /\ \A b \in Staff \ {a} : staff'[b] = staff[b]
  BY DEF WorkforceInv, WorkforceTypeOK
<1>2. /\ userHolder \in [Usernames -> Staff \cup {Nobody}]
      /\ phoneHolder \in [Phones -> Staff \cup {Nobody}]
      /\ \A b \in Staff : /\ staff[b].username \in Usernames \cup {NoValue}
                          /\ staff[b].phone \in Phones \cup {NoValue}
  BY DEF WorkforceInv, WorkforceTypeOK, StaffRecords
<1>3. IdentifiersAreHeld
  BY DEF WorkforceInv
<1>4. /\ userHolder' \in [Usernames -> Staff \cup {Nobody}]
      /\ phoneHolder' \in [Phones -> Staff \cup {Nobody}]
  BY <1>2 DEF TakesIdentifiers
<1>5. ASSUME NEW b \in Staff, staff'[b].username # NoValue
      PROVE  userHolder'[staff'[b].username] = b
  BY <1>1, <1>2, <1>3, <1>5, WorkforceAssumption DEF TakesIdentifiers, IdentifiersAreHeld
<1>6. ASSUME NEW b \in Staff, staff'[b].phone # NoValue
      PROVE  phoneHolder'[staff'[b].phone] = b
  BY <1>1, <1>2, <1>3, <1>6, WorkforceAssumption DEF TakesIdentifiers, IdentifiersAreHeld
<1> QED
  BY <1>4, <1>5, <1>6 DEF IdentifiersAreHeld

(* Reassigning: the numbers stay numbers, what is closed is closed and what*)
(* is opened has its grant.                                                *)
LEMMA ReassignedIsPlaced ==
  ASSUME WorkforceInv, NEW c, c.account \in Staff, NEW ended, NEW opens \in BOOLEAN,
         NEW moved \in BOOLEAN, Reassigns(c, ended, opens, moved),
         ended = open[c.account]
  PROVE  /\ opened' \in [Staff -> 0 .. MaxAssignments]
         /\ open' \in [Staff -> SUBSET AssignmentNumbers]
         /\ grants' \in [Staff -> SUBSET (Roles \X AssignmentNumbers)]
         /\ open' = [open EXCEPT ![c.account] = open'[c.account]]
         /\ IF opens THEN IsPlaced(c.account)' ELSE open'[c.account] = {}
         /\ \A b \in Staff : b # c.account => open'[b] = open[b] /\ grants'[b] = grants[b]
<1> DEFINE a == c.account
           n == opened[a] + 1
           kept == grants[a] \ {g \in grants[a] : moved /\ g[1] = "application_user" /\ g[2] \in ended}
           s == (open[a] \ ended) \cup (IF opens THEN {n} ELSE {})
           g2 == kept \cup (IF opens THEN {<<"application_user", n>>} ELSE {})
<1>1. /\ opens => opened[a] < MaxAssignments
      /\ opened' = [opened EXCEPT ![a] = IF opens THEN n ELSE opened[a]]
      /\ open' = [open EXCEPT ![a] = s]
      /\ grants' = [grants EXCEPT ![a] = g2]
  BY DEF Reassigns
<1>2. /\ opened \in [Staff -> 0 .. MaxAssignments]
      /\ open \in [Staff -> SUBSET AssignmentNumbers]
      /\ grants \in [Staff -> SUBSET (Roles \X AssignmentNumbers)]
      /\ MaxAssignments \in Nat
  BY WorkforceAssumption DEF WorkforceInv, WorkforceTypeOK
<1>3. opens => n \in AssignmentNumbers /\ n \in 0 .. MaxAssignments
  BY <1>1, <1>2 DEF AssignmentNumbers
<1>4. s = (IF opens THEN {n} ELSE {}) /\ s \subseteq AssignmentNumbers
  BY <1>3
<1>5. kept \subseteq Roles \X AssignmentNumbers
  BY <1>2
<1>6. g2 \subseteq Roles \X AssignmentNumbers /\ (opens => <<"application_user", n>> \in g2)
  BY <1>3, <1>5 DEF Roles
<1> HIDE DEF kept, s, g2, n
<1>7. /\ opened' \in [Staff -> 0 .. MaxAssignments]
      /\ open' \in [Staff -> SUBSET AssignmentNumbers]
      /\ grants' \in [Staff -> SUBSET (Roles \X AssignmentNumbers)]
  BY <1>1, <1>2, <1>3, <1>4, <1>6
<1>8. open'[a] = s /\ grants'[a] = g2
      /\ \A b \in Staff : b # a => open'[b] = open[b] /\ grants'[b] = grants[b]
  BY <1>1, <1>2
<1>9. IF opens THEN IsPlaced(a)' ELSE open'[a] = {}
  BY <1>3, <1>4, <1>6, <1>8 DEF IsPlaced
<1> QED
  BY <1>1, <1>7, <1>8, <1>9

LEMMA WorkforceGoesOn == WorkforceInv /\ [WorkforceNext]_workforceVars => WorkforceInv'
<1> SUFFICES ASSUME WorkforceInv, [WorkforceNext]_workforceVars PROVE WorkforceInv'
  OBVIOUS
<1> USE WorkforceAssumption
<1>0. WorkforceTypeOK /\ EditsAreTrue /\ AccountsArePlaced /\ IdentifiersAreHeld
  BY DEF WorkforceInv
<1>1. CASE UNCHANGED workforceVars
  BY <1>1
  DEF workforceVars, WorkforceInv, WorkforceTypeOK, EditsAreTrue, AccountsArePlaced, IsPlaced,
              IdentifiersAreHeld
<1>2. ASSUME NEW e \in Editors, EditFails(e) PROVE WorkforceInv'
  <2>1. edits' \in [Editors -> Edits \cup {NoEdit}]
        /\ \A q \in Editors : edits'[q] \in {edits[q], NoEdit}
    BY <1>0, <1>2 DEF EditFails, WorkforceTypeOK
  <2>2. UNCHANGED <<staff, userHolder, phoneHolder, opened, open, grants>>
    BY <1>2 DEF EditFails
  <2> QED
    BY <1>0, <2>1, <2>2
    DEF WorkforceInv, WorkforceTypeOK, EditsAreTrue, AccountsArePlaced, IsPlaced,
                            IdentifiersAreHeld
<1>3. ASSUME NEW e \in Editors, NEW c, c = edits[e], CreateAccount(e) PROVE WorkforceInv'
  <2> DEFINE a == c.account
             row == [status |-> "active", revision |-> 0, username |-> c.username, phone |-> c.phone]
  <2>1. /\ c.kind = "create" /\ EditIsOver(e) /\ staff[a] = NotCreated
        /\ staff' = [staff EXCEPT ![a] = row]
        /\ TakesIdentifiers(c) /\ Reassigns(c, {}, TRUE, FALSE)
    BY <1>3, Zenon DEF CreateAccount
  <2>2. /\ a \in Staff /\ c # NoEdit /\ c.row \in StaffRecords
        /\ c.username \in Usernames \cup {NoValue} /\ c.phone \in Phones \cup {NoValue}
    BY <1>3, <2>1, EditIsKnown DEF Kinds
  <2>3. row \in StaffRecords /\ row.status = "active" /\ row.username = c.username
        /\ row.phone = c.phone
    BY <2>2 DEF StaffRecords
  <2>4. c.row = NotCreated
    BY <1>0, <1>3, <2>1, <2>2 DEF EditsAreTrue
  <2>5. staff[a].status = "none" /\ open[a] = {}
    BY <1>0, <2>1, <2>2 DEF AccountsArePlaced, NotCreated
  <2> HIDE DEF row
  <2>6. /\ IdentifiersAreHeld'
        /\ userHolder' \in [Usernames -> Staff \cup {Nobody}]
        /\ phoneHolder' \in [Phones -> Staff \cup {Nobody}]
    BY <2>1, <2>2, <2>3, <2>4, TakenAreHeld
  <2>7. /\ opened' \in [Staff -> 0 .. MaxAssignments]
        /\ open' \in [Staff -> SUBSET AssignmentNumbers]
        /\ grants' \in [Staff -> SUBSET (Roles \X AssignmentNumbers)]
        /\ open' = [open EXCEPT ![a] = open'[a]]
        /\ IsPlaced(a)'
        /\ \A b \in Staff : b # a => open'[b] = open[b] /\ grants'[b] = grants[b]
    BY <2>1, <2>2, <2>5, ReassignedIsPlaced
  <2>8. EditsAreTrue'
    <3>1. PICK s : s = open'[a]
      OBVIOUS
    <3>2. open' = [open EXCEPT ![a] = s] /\ staff' = [staff EXCEPT ![a] = row] /\ EditIsOver(e)
      BY <2>1, <2>7, <3>1
    <3>3. row \in StaffRecords /\ row.status # "none"
      BY <2>3
    <3>4. staff[a].status = "none" \/ row.revision > staff[a].revision
      BY <2>5
    <3> HIDE DEF a
    <3> QED
      BY <2>2, <3>2, <3>3, <3>4, EditsStayTrue
  <2>9. staff'[a] = row /\ \A b \in Staff : b # a => staff'[b] = staff[b]
    BY <1>0, <2>1, <2>2 DEF WorkforceTypeOK
  <2>10. WorkforceTypeOK'
    BY <1>0, <2>1, <2>2, <2>3, <2>6, <2>7 DEF WorkforceTypeOK, EditIsOver
  <2>11. AccountsArePlaced'
    BY <1>0, <2>3, <2>7, <2>9 DEF AccountsArePlaced, IsPlaced
  <2> QED
    BY <2>6, <2>8, <2>10, <2>11 DEF WorkforceInv
<1>4. ASSUME NEW e \in Editors, NEW c, c = edits[e], UpdateAccount(e) PROVE WorkforceInv'
  <2> DEFINE a == c.account
             row == [c.row EXCEPT !.revision = c.row.revision + 1, !.username = c.username,
                                  !.phone = c.phone]
  <2>1. /\ c.kind \in {"update", "move"} /\ EditIsOver(e) /\ c.row.revision < MaxStaffRevision
        /\ staff[a].revision = c.row.revision /\ staff' = [staff EXCEPT ![a] = row]
        /\ TakesIdentifiers(c)
        /\ IF c.kind = "move" THEN Reassigns(c, c.open, TRUE, TRUE) ELSE UNCHANGED <<opened, open, grants>>
    BY <1>4, Zenon DEF UpdateAccount, UpdatesRow
  <2>2. /\ a \in Staff /\ c # NoEdit /\ c.row \in StaffRecords /\ c.row.revision \in Nat
        /\ c.username \in Usernames \cup {NoValue} /\ c.phone \in Phones \cup {NoValue}
    BY <1>4, <2>1, EditIsKnown DEF Kinds
  <2>3. row \in StaffRecords /\ row.revision = c.row.revision + 1 /\ row.status = c.row.status
        /\ row.username = c.username /\ row.phone = c.phone
    <3>1. c.row.revision + 1 \in 0 .. MaxStaffRevision
      BY <2>1, <2>2
    <3>2. /\ c.row \in [status : {"active", "disabled", "none"}, revision : 0 .. MaxStaffRevision,
                        username : Usernames \cup {NoValue}, phone : Phones \cup {NoValue}]
          /\ c.username \in Usernames \cup {NoValue} /\ c.phone \in Phones \cup {NoValue}
      BY <2>2 DEF StaffRecords
    <3> QED
      BY <3>1, <3>2 DEF StaffRecords
  <2>4. c.row = staff[a] /\ c.open = open[a] /\ c.row.status = "active"
    BY <1>0, <1>4, <2>1, <2>2 DEF EditsAreTrue
  <2> HIDE DEF row
  <2>6. /\ IdentifiersAreHeld'
        /\ userHolder' \in [Usernames -> Staff \cup {Nobody}]
        /\ phoneHolder' \in [Phones -> Staff \cup {Nobody}]
    BY <2>1, <2>2, <2>3, <2>4, TakenAreHeld
  <2>7. /\ opened' \in [Staff -> 0 .. MaxAssignments]
        /\ open' \in [Staff -> SUBSET AssignmentNumbers]
        /\ grants' \in [Staff -> SUBSET (Roles \X AssignmentNumbers)]
        /\ open' = [open EXCEPT ![a] = open'[a]]
        /\ IsPlaced(a)'
        /\ \A b \in Staff : b # a => open'[b] = open[b] /\ grants'[b] = grants[b]
    <3>1. CASE c.kind = "move"
      BY <2>1, <2>2, <2>4, <3>1, ReassignedIsPlaced
    <3>2. CASE c.kind # "move"
      <4>1. UNCHANGED <<opened, open, grants>>
        BY <2>1, <3>2
      <4>2. IsPlaced(a)
        BY <1>0, <2>2, <2>4 DEF AccountsArePlaced
      <4> QED
        BY <1>0, <2>2, <4>1, <4>2 DEF IsPlaced, WorkforceTypeOK
    <3> QED
      BY <3>1, <3>2
  <2>8. EditsAreTrue'
    <3>1. PICK s : s = open'[a]
      OBVIOUS
    <3>2. open' = [open EXCEPT ![a] = s] /\ staff' = [staff EXCEPT ![a] = row] /\ EditIsOver(e)
      BY <2>1, <2>7, <3>1
    <3>3. row \in StaffRecords /\ row.status # "none"
      BY <2>3, <2>4
    <3>4. staff[a].status = "none" \/ row.revision > staff[a].revision
      BY <2>1, <2>2, <2>3
    <3> HIDE DEF a
    <3> QED
      BY <2>2, <3>2, <3>3, <3>4, EditsStayTrue
  <2>9. staff'[a] = row /\ \A b \in Staff : b # a => staff'[b] = staff[b]
    BY <1>0, <2>1, <2>2 DEF WorkforceTypeOK
  <2>10. WorkforceTypeOK'
    BY <1>0, <2>1, <2>2, <2>3, <2>6, <2>7 DEF WorkforceTypeOK, EditIsOver
  <2>11. AccountsArePlaced'
    BY <1>0, <2>3, <2>4, <2>7, <2>9 DEF AccountsArePlaced, IsPlaced
  <2> QED
    BY <2>6, <2>8, <2>10, <2>11 DEF WorkforceInv
<1>5. ASSUME NEW e \in Editors, NEW c, c = edits[e], Deactivate(e) \/ Reactivate(e)
      PROVE  WorkforceInv'
  <2> DEFINE a == c.account
             back == c.kind = "reactivate"
             row == [c.row EXCEPT !.revision = c.row.revision + 1,
                                  !.status = IF back THEN "active" ELSE "disabled"]
  <2>1. /\ c.kind \in {"deactivate", "reactivate"} /\ EditIsOver(e)
        /\ c.row.revision < MaxStaffRevision
        /\ staff[a].revision = c.row.revision /\ staff' = [staff EXCEPT ![a] = row]
        /\ UNCHANGED <<userHolder, phoneHolder>>
        /\ IF back THEN Reassigns(c, {}, TRUE, FALSE) ELSE Reassigns(c, c.open, FALSE, FALSE)
    BY <1>5 DEF Deactivate, Reactivate, UpdatesRow
  <2>2. /\ a \in Staff /\ c # NoEdit /\ c.row \in StaffRecords /\ c.row.revision \in Nat
    BY <1>5, <2>1, EditIsKnown DEF Kinds
  <2>3. row \in StaffRecords /\ row.revision = c.row.revision + 1
        /\ row.status = (IF back THEN "active" ELSE "disabled")
        /\ row.username = c.row.username /\ row.phone = c.row.phone
    <3>1. c.row.revision + 1 \in 0 .. MaxStaffRevision
      BY <2>1, <2>2
    <3>2. c.row \in [status : {"active", "disabled", "none"}, revision : 0 .. MaxStaffRevision,
                     username : Usernames \cup {NoValue}, phone : Phones \cup {NoValue}]
      BY <2>2 DEF StaffRecords
    <3> QED
      BY <3>1, <3>2 DEF StaffRecords
  <2>4. c.row = staff[a] /\ c.open = open[a] /\ (back => c.row.status = "disabled")
    BY <1>0, <1>5, <2>1, <2>2 DEF EditsAreTrue
  <2>5. back => open[a] = {}
    BY <1>0, <2>2, <2>4 DEF AccountsArePlaced
  <2> HIDE DEF row, back
  <2>7. /\ opened' \in [Staff -> 0 .. MaxAssignments]
        /\ open' \in [Staff -> SUBSET AssignmentNumbers]
        /\ grants' \in [Staff -> SUBSET (Roles \X AssignmentNumbers)]
        /\ open' = [open EXCEPT ![a] = open'[a]]
        /\ IF back THEN IsPlaced(a)' ELSE open'[a] = {}
        /\ \A b \in Staff : b # a => open'[b] = open[b] /\ grants'[b] = grants[b]
    <3>1. CASE back
      BY <2>1, <2>2, <2>5, <3>1, ReassignedIsPlaced
    <3>2. CASE ~back
      BY <2>1, <2>2, <2>4, <3>2, ReassignedIsPlaced
    <3> QED
      BY <3>1, <3>2
  <2>8. EditsAreTrue'
    <3>1. PICK s : s = open'[a]
      OBVIOUS
    <3>2. open' = [open EXCEPT ![a] = s] /\ staff' = [staff EXCEPT ![a] = row] /\ EditIsOver(e)
      BY <2>1, <2>7, <3>1
    <3>3. row \in StaffRecords /\ row.status # "none"
      BY <2>3
    <3>4. staff[a].status = "none" \/ row.revision > staff[a].revision
      BY <2>1, <2>2, <2>3
    <3> HIDE DEF a
    <3> QED
      BY <2>2, <3>2, <3>3, <3>4, EditsStayTrue
  <2>9. staff'[a] = row /\ \A b \in Staff : b # a => staff'[b] = staff[b]
    BY <1>0, <2>1, <2>2 DEF WorkforceTypeOK
  <2>10. WorkforceTypeOK'
    BY <1>0, <2>1, <2>2, <2>3, <2>7 DEF WorkforceTypeOK, EditIsOver
  <2>11. AccountsArePlaced'
    <3>1. /\ row.status = "active" => IsPlaced(a)'
          /\ row.status # "active" => open'[a] = {}
          /\ row.status # "none"
      BY <2>3, <2>7
    <3> QED
      BY <1>0, <2>7, <2>9, <3>1 DEF AccountsArePlaced, IsPlaced
  <2>12. IdentifiersAreHeld'
    BY <1>0, <2>1, <2>3, <2>4, <2>9 DEF IdentifiersAreHeld
  <2> QED
    BY <2>8, <2>10, <2>11, <2>12 DEF WorkforceInv
<1>6. ASSUME NEW e \in Editors, NEW c, c = edits[e], ReleasePhone(e) PROVE WorkforceInv'
  <2>1. /\ c.kind = "release_phone" /\ EditIsOver(e)
        /\ staff[c.account].phone # c.phone /\ phoneHolder[c.phone] = c.account
        /\ phoneHolder' = [phoneHolder EXCEPT ![c.phone] = Nobody]
        /\ UNCHANGED <<staff, userHolder, opened, open, grants>>
    BY <1>6, Zenon DEF ReleasePhone
  <2>2. c.account \in Staff
    BY <1>6, <2>1, EditIsKnown DEF Kinds
  <2>3. \A b \in Staff : staff[b].phone \in Phones \cup {NoValue}
    BY <1>0 DEF WorkforceTypeOK, StaffRecords
  <2>4. \A b \in Staff : staff[b].phone # NoValue => phoneHolder'[staff[b].phone] = b
    BY <1>0, <2>1, <2>2, <2>3 DEF WorkforceTypeOK, IdentifiersAreHeld
  <2>5. IdentifiersAreHeld'
    BY <1>0, <2>1, <2>4 DEF IdentifiersAreHeld
  <2>6. \A q \in Editors : edits'[q] \in {edits[q], NoEdit}
    BY <1>0, <2>1 DEF EditIsOver, WorkforceTypeOK
  <2>7. WorkforceTypeOK'
    BY <1>0, <2>1 DEF EditIsOver, WorkforceTypeOK
  <2>8. EditsAreTrue' /\ AccountsArePlaced'
    BY <1>0, <2>1, <2>6 DEF EditsAreTrue, AccountsArePlaced, IsPlaced
  <2> QED
    BY <2>5, <2>7, <2>8 DEF WorkforceInv
<1>7. ASSUME NEW e \in Editors, NEW c, c = edits[e], SetCrmAdministrator(e) PROVE WorkforceInv'
  <2> DEFINE a == c.account
             g == {<<"crm_administrator", n>> : n \in c.open}
             h == CASE c.kind = "grant_crm" /\ ~c.crm -> grants[a] \cup g
                    [] c.kind = "revoke_crm" /\ c.crm -> grants[a] \ g
                    [] OTHER -> grants[a]
  <2>1. /\ c.kind \in {"grant_crm", "revoke_crm"} /\ EditIsOver(e)
        /\ grants' = [grants EXCEPT ![a] = h]
        /\ UNCHANGED <<staff, userHolder, phoneHolder, opened, open>>
    BY <1>7 DEF SetCrmAdministrator
  <2>2. a \in Staff /\ c.open \subseteq AssignmentNumbers
    BY <1>7, <2>1, EditIsKnown DEF Kinds
  <2>3. g \subseteq Roles \X AssignmentNumbers /\ \A n : <<"application_user", n>> \notin g
    BY <2>2 DEF Roles
  <2>4. grants[a] \subseteq Roles \X AssignmentNumbers
    BY <1>0, <2>2 DEF WorkforceTypeOK
  <2> HIDE DEF g
  <2>5. h \subseteq Roles \X AssignmentNumbers
        /\ \A n : <<"application_user", n>> \in grants[a] => <<"application_user", n>> \in h
    BY <2>3, <2>4
  <2> HIDE DEF h
  <2>6. \A b \in Staff : \A n :
          <<"application_user", n>> \in grants[b] => <<"application_user", n>> \in grants'[b]
    BY <1>0, <2>1, <2>2, <2>5 DEF WorkforceTypeOK
  <2>7. \A q \in Editors : edits'[q] \in {edits[q], NoEdit}
    BY <1>0, <2>1 DEF EditIsOver, WorkforceTypeOK
  <2>8. WorkforceTypeOK'
    BY <1>0, <2>1, <2>2, <2>5 DEF EditIsOver, WorkforceTypeOK
  <2>9. EditsAreTrue' /\ IdentifiersAreHeld'
    BY <1>0, <2>1, <2>7 DEF EditsAreTrue, IdentifiersAreHeld
  <2>10. AccountsArePlaced'
    BY <1>0, <2>1, <2>6 DEF AccountsArePlaced, IsPlaced
  <2> QED
    BY <2>8, <2>9, <2>10 DEF WorkforceInv
<1> QED
  BY <1>1, <1>2, <1>3, <1>4, <1>5, <1>6, <1>7, EditIsReadTruly DEF WorkforceNext

(* An active account has one assignment with its role, another one none,   *)
(* and its identifiers find it or nobody.                                  *)
THEOREM AccountsStayWhole == WorkforceSpec => [](OneAssignment /\ IdentifiersLeadHome)
<1>1. WorkforceInv => OneAssignment /\ IdentifiersLeadHome
  BY WorkforceMeans
<1> QED
  BY WorkforceStarts, WorkforceGoesOn, <1>1, PTL DEF WorkforceSpec

-----------------------------------------------------------------------------
(* A revocation lies in the past, and no row covers the time an operation  *)
(* without the role is decided for.                                        *)
RolesAreDated ==
  /\ granting.at <= operationTime
  /\ \A row \in roleRows : row.until # NotRevoked => row.until <= operationTime
  /\ \A r \in OperationIds : progress[r] # "waits" /\ r \notin heldRole => ActiveRows = {}
  /\ \A r \in OperationIds : progress[r] = "lists" /\ r \notin heldRole =>
       \A row \in roleRows : row.until <= evaluatedAt[r]
  /\ decidedAllowed \subseteq heldRole
  /\ RevokedIsDenied

(* How far an operation is says what is on record about it.                *)
ProgressIsOnRecord == \A r \in OperationIds :
  /\ progress[r] \in {"looks", "works", "items", "finishes", "ok"} => decisionRows[r] = "allowed"
  /\ progress[r] \in {"audits", "denied"} => decisionRows[r] # "none"
  /\ progress[r] = "audits" /\ r \in decidedAllowed => decisionRows[r] = "allowed"
  /\ progress[r] \in {"works", "items", "finishes", "ok"} => <<r, "attempted">> \in auditRows
  /\ progress[r] = "ok" => <<r, "succeeded">> \in auditRows
  /\ progress[r] = "denied" => <<r, "failed">> \in auditRows
  /\ r \in worked => /\ progress[r] \in {"finishes", "fails", "ok", "failed"}
                     /\ decisionRows[r] = "allowed" /\ <<r, "attempted">> \in auditRows

(* An outcome is recorded when nothing but an attempt to record another one*)
(* is left to do, for which the trace is gone.                             *)
OutcomesAreLast == \A r \in OperationIds :
  /\ <<r, "failed">> \in auditRows =>
       progress[r] \in {"denied", "failed"} /\ <<r, "succeeded">> \notin auditRows
  /\ <<r, "succeeded">> \in auditRows =>
       \/ progress[r] \in {"ok", "failed"}
       \/ progress[r] = "fails" /\ r \notin decisionTraces
  /\ r \in decisionTraces =>
       \/ progress[r] \in {"looks", "audits", "works", "items", "finishes", "fails"}
       \/ progress[r] = "failed" /\ r \in lookupLost

(* The tasks of a page are not looked at before the page was read.         *)
ItemsWait == \A l, i \in OperationIds :
  /\ kindOf[l] = "list" /\ kindOf[i] = "item"
  /\ progress[l] \in {"waits", "asked", "lists", "records", "looks", "audits", "works"}
  => progress[i] = "waits"

OperationsInv ==
  /\ OperationsTypeOK
  /\ RolesAreDated
  /\ ProgressIsOnRecord
  /\ OutcomesAreLast
  /\ ItemsWait

(* The type invariant, variable by variable.                               *)
LEMMA OperationsTyping ==
  ASSUME OperationsTypeOK
  PROVE  /\ operationTime \in RoleTimes /\ MaxOperationTime \in Nat
         /\ roleRows \subseteq [from : RoleTimes, until : 0 .. NotRevoked]
         /\ granting.kind \in {"none", "grant", "revoke"} /\ granting.at \in RoleTimes
         /\ kindOf \in OperationKinds /\ kindOf \in [OperationIds -> AuditedKinds]
         /\ progress \in [OperationIds ->
                     {"waits", "asked", "lists", "records", "looks", "audits", "works", "items",
                      "finishes", "fails", "ok", "denied", "failed"}]
         /\ evaluatedAt \in [OperationIds -> RoleTimes]
         /\ decisionRows \in [OperationIds -> {"none", "allowed", "denied"}]
         /\ auditRows \subseteq OperationIds \X {"attempted", "succeeded", "failed"}
         /\ decisionTraces \subseteq OperationIds /\ decidedAllowed \subseteq OperationIds
         /\ worked \subseteq OperationIds /\ heldRole \subseteq OperationIds
         /\ lookupLost \subseteq OperationIds
  BY AuditedOperationsAssumption DEF OperationsTypeOK, Answered

LEMMA OperationsStart == OperationsInit => OperationsInv
<1> SUFFICES ASSUME OperationsInit PROVE OperationsInv
  OBVIOUS
<1> USE AuditedOperationsAssumption DEF OperationsInit
<1>1. OperationsTypeOK
  BY DEF OperationsTypeOK, NoGranting, RoleTimes, NotRevoked
<1>2. RolesAreDated
  BY DEF RolesAreDated, NoGranting, RevokedIsDenied
<1>3. ProgressIsOnRecord /\ OutcomesAreLast /\ ItemsWait
  BY DEF ProgressIsOnRecord, OutcomesAreLast, ItemsWait
<1> QED
  BY <1>1, <1>2, <1>3 DEF OperationsInv

(* A record is written or not, and its answer comes or is lost.            *)
LEMMA AuditEnds ==
  ASSUME OperationsTypeOK, NEW r \in OperationIds, NEW phase, NEW next, NEW otherwise,
         Audit(r, phase, next, otherwise)
  PROVE  \/ /\ r \notin decisionTraces
            /\ UNCHANGED <<auditRows, decisionTraces>> /\ Proceeds(r, otherwise)
         \/ /\ r \in decisionTraces /\ decisionTraces' = decisionTraces \ {r}
            /\ auditRows' \in {auditRows, auditRows \cup {<<r, phase>>}} /\ Proceeds(r, otherwise)
         \/ /\ r \in decisionTraces /\ auditRows' = auditRows \cup {<<r, phase>>}
            /\ decisionTraces' = IF phase = "attempted" THEN decisionTraces ELSE decisionTraces \ {r}
            /\ Proceeds(r, next)
<1>1. CASE r \notin decisionTraces
  BY <1>1 DEF Audit
<1>2. CASE r \in decisionTraces
  <2>1. PICK written \in BOOLEAN, heard \in BOOLEAN :
           /\ heard => written
           /\ auditRows' = IF written THEN auditRows \cup {<<r, phase>>} ELSE auditRows
           /\ decisionTraces' = IF heard /\ phase = "attempted" THEN decisionTraces
                                                               ELSE decisionTraces \ {r}
           /\ Proceeds(r, IF heard THEN next ELSE otherwise)
    BY <1>2 DEF Audit
  <2>2. CASE heard
    BY <1>2, <2>1, <2>2, Zenon
  <2>3. CASE ~heard
    BY <1>2, <2>1, <2>3, Zenon
  <2> QED
    BY <2>2, <2>3
<1> QED
  BY <1>1, <1>2

(* An operation that audits is the only one about which something changes. *)
LEMMA AuditKeepsOutcomes ==
  ASSUME OperationsTypeOK, OutcomesAreLast, lookupLost' = lookupLost, NEW r \in OperationIds,
         \/ progress[r] = "audits" /\ Audit(r, "attempted", "works", "failed")
         \/ progress[r] = "audits" /\ Audit(r, "attempted", "finishes", "failed")
         \/ progress[r] = "audits" /\ Audit(r, "failed", "denied", "failed")
         \/ progress[r] = "finishes" /\ Audit(r, "succeeded", "ok", "failed")
         \/ progress[r] = "finishes" /\ Audit(r, "succeeded", "ok", "fails")
         \/ progress[r] = "fails" /\ Audit(r, "failed", "failed", "failed")
  PROVE  OutcomesAreLast'
<1> USE OperationsTyping DEF Proceeds
<1>0. <<r, "failed">> \notin auditRows /\ (<<r, "succeeded">> \in auditRows => r \notin decisionTraces)
  BY DEF OutcomesAreLast
<1>1. \A q \in OperationIds \ {r} : \A phase \in {"succeeded", "failed"} :
         progress'[q] = progress[q] /\ (<<q, phase>> \in auditRows' <=> <<q, phase>> \in auditRows)
         /\ (q \in decisionTraces' <=> q \in decisionTraces)
  BY AuditEnds
<1>2. CASE progress[r] = "audits" /\ (Audit(r, "attempted", "works", "failed")
                                       \/ Audit(r, "attempted", "finishes", "failed"))
  <2>1. <<r, "failed">> \notin auditRows' /\ <<r, "succeeded">> \notin auditRows'
        /\ (progress'[r] \in {"works", "finishes"} \/ r \notin decisionTraces')
    BY <1>0, <1>2, AuditEnds DEF OutcomesAreLast
  <2> QED
    BY <1>1, <2>1 DEF OutcomesAreLast
<1>3. CASE progress[r] = "audits" /\ Audit(r, "failed", "denied", "failed")
  <2>1. <<r, "succeeded">> \notin auditRows' /\ r \notin decisionTraces'
        /\ progress'[r] \in {"denied", "failed"}
    BY <1>0, <1>3, AuditEnds DEF OutcomesAreLast
  <2> QED
    BY <1>1, <2>1 DEF OutcomesAreLast
<1>4. CASE progress[r] = "finishes" /\ (Audit(r, "succeeded", "ok", "failed")
                                         \/ Audit(r, "succeeded", "ok", "fails"))
  <2>1. <<r, "failed">> \notin auditRows' /\ r \notin decisionTraces'
        /\ progress'[r] \in {"ok", "fails", "failed"}
    BY <1>0, <1>4, AuditEnds DEF OutcomesAreLast
  <2> QED
    BY <1>1, <2>1 DEF OutcomesAreLast
<1>5. CASE progress[r] = "fails" /\ Audit(r, "failed", "failed", "failed")
  <2>1. r \notin decisionTraces' /\ progress'[r] = "failed"
        /\ (<<r, "failed">> \in auditRows' => <<r, "succeeded">> \notin auditRows')
    BY <1>0, <1>5, AuditEnds DEF OutcomesAreLast
  <2> QED
    BY <1>1, <2>1 DEF OutcomesAreLast
<1> QED
  BY <1>2, <1>3, <1>4, <1>5

LEMMA OperationsGoOn == OperationsInv /\ [OperationsNext]_operationVars => OperationsInv'
<1> SUFFICES ASSUME OperationsInv, [OperationsNext]_operationVars PROVE OperationsInv'
  OBVIOUS
<1> USE DEF Stands, Proceeds, roleVars, recordVars, historyVars, RoleTimes, NotRevoked
<1>1. CASE UNCHANGED operationVars
  BY <1>1 DEF operationVars, OperationsInv, OperationsTypeOK, RolesAreDated, ProgressIsOnRecord,
       OutcomesAreLast, ItemsWait, RevokedIsDenied, ActiveRows
<1>2. CASE ClockTicks
  <2>0. OperationsTypeOK /\ RolesAreDated /\ ProgressIsOnRecord /\ OutcomesAreLast /\ ItemsWait
    BY DEF OperationsInv
  <2>1. OperationsTypeOK'
    BY <1>2, <2>0, OperationsTyping DEF ClockTicks, OperationsTypeOK, Answered
  <2>2. RolesAreDated'
    BY <1>2, <2>0, OperationsTyping DEF ClockTicks, RolesAreDated, RevokedIsDenied, ActiveRows
  <2>3. ProgressIsOnRecord'
    BY <1>2, <2>0, OperationsTyping DEF ClockTicks, ProgressIsOnRecord
  <2>4. OutcomesAreLast'
    BY <1>2, <2>0, OperationsTyping DEF ClockTicks, OutcomesAreLast
  <2>5. ItemsWait'
    BY <1>2, <2>0, OperationsTyping DEF ClockTicks, ItemsWait
  <2> QED
    BY <2>1, <2>2, <2>3, <2>4, <2>5 DEF OperationsInv
<1>3. ASSUME NEW kind \in {"grant", "revoke"}, BeginGranting(kind) PROVE OperationsInv'
  <2>0. OperationsTypeOK /\ RolesAreDated /\ ProgressIsOnRecord /\ OutcomesAreLast /\ ItemsWait
    BY DEF OperationsInv
  <2>1. OperationsTypeOK'
    BY <1>3, <2>0, OperationsTyping DEF BeginGranting, OperationsTypeOK, Answered
  <2>2. RolesAreDated'
    BY <1>3, <2>0, OperationsTyping DEF BeginGranting, RolesAreDated, RevokedIsDenied, ActiveRows
  <2>3. ProgressIsOnRecord'
    BY <1>3, <2>0, OperationsTyping DEF BeginGranting, ProgressIsOnRecord
  <2>4. OutcomesAreLast'
    BY <1>3, <2>0, OperationsTyping DEF BeginGranting, OutcomesAreLast
  <2>5. ItemsWait'
    BY <1>3, <2>0, OperationsTyping DEF BeginGranting, ItemsWait
  <2> QED
    BY <2>1, <2>2, <2>3, <2>4, <2>5 DEF OperationsInv
<1>4. CASE CommitGranting
  <2>0. OperationsTypeOK /\ RolesAreDated /\ ProgressIsOnRecord /\ OutcomesAreLast /\ ItemsWait
    BY DEF OperationsInv
  <2>6. granting.kind # "grant" =>
          roleRows' = (roleRows \ ActiveRows) \cup {[row EXCEPT !.until = granting.at] : row \in ActiveRows}
    BY <1>4 DEF CommitGranting
  <2>7. granting.kind = "grant" => roleRows' = roleRows \cup {[from |-> granting.at, until |-> NotRevoked]}
    BY <1>4 DEF CommitGranting
  <2>8. \A row \in roleRows :
          /\ [row EXCEPT !.until = granting.at] \in [from : RoleTimes, until : 0 .. NotRevoked]
          /\ [row EXCEPT !.until = granting.at].until = granting.at
    BY <2>0, OperationsTyping
  <2>9. granting.at \in 0 .. MaxOperationTime /\ granting.at <= operationTime
        /\ NotRevoked \in 0 .. NotRevoked
        /\ operationTime \in Nat
    BY <2>0, OperationsTyping DEF RolesAreDated
  <2>10. roleRows' \subseteq [from : RoleTimes, until : 0 .. NotRevoked]
    <3>1. CASE granting.kind = "grant"
      BY <2>0, <2>7, <2>9, <3>1, OperationsTyping
    <3>2. CASE granting.kind # "grant"
      BY <2>0, <2>6, <2>8, <3>2, OperationsTyping DEF ActiveRows
    <3> QED
      BY <3>1, <3>2
  <2>11. UNCHANGED <<operationTime, kindOf, progress, evaluatedAt, decidedAllowed, recordVars, worked,
                     lookupLost>> /\ granting' = NoGranting
    BY <1>4 DEF CommitGranting
  <2>12. heldRole' = (IF granting.kind = "grant"
                       THEN heldRole \cup {r \in OperationIds : progress[r] # "waits"} ELSE heldRole)
    BY <1>4 DEF CommitGranting
  <2>1. OperationsTypeOK'
    BY <2>0, <2>10, <2>11, <2>12, OperationsTyping DEF OperationsTypeOK, Answered, NoGranting
  <2>2. RolesAreDated'
    <3>1. CASE granting.kind = "grant"
      BY <2>0, <2>7, <2>9, <2>11, <2>12, <3>1, OperationsTyping
      DEF RolesAreDated, RevokedIsDenied, ActiveRows, NoGranting
    <3>2. CASE granting.kind # "grant"
      <4>1. \A row \in roleRows' :
              (row \in roleRows /\ row.until # NotRevoked) \/ row.until = granting.at
        BY <2>6, <2>8, <3>2 DEF ActiveRows
      <4>2. ActiveRows' = {}
        <5>1. granting.at # NotRevoked
          BY <2>0, <2>9, OperationsTyping
        <5> QED
          BY <4>1, <5>1 DEF ActiveRows
      <4>3. ActiveRows = {} => roleRows' = roleRows
        BY <2>6, <3>2
      <4>4. \A r \in OperationIds : progress[r] = "lists" /\ r \notin heldRole =>
              \A row \in roleRows' : row.until <= evaluatedAt[r]
        BY <2>0, <4>3 DEF RolesAreDated
      <4>5. \A row \in roleRows' : row.until <= operationTime
        BY <2>0, <2>9, <4>1 DEF RolesAreDated, ActiveRows
      <4>6. UNCHANGED <<operationTime, progress, evaluatedAt, decidedAllowed, decisionRows, heldRole>>
            /\ granting'.at = 0
        BY <2>11, <2>12, <3>2 DEF NoGranting
      <4> QED
        BY <2>0, <2>9, <4>2, <4>4, <4>5, <4>6 DEF RolesAreDated, RevokedIsDenied
    <3> QED
      BY <3>1, <3>2
  <2>3. ProgressIsOnRecord'
    BY <1>4, <2>0, OperationsTyping DEF CommitGranting, ProgressIsOnRecord
  <2>4. OutcomesAreLast'
    BY <1>4, <2>0, OperationsTyping DEF CommitGranting, OutcomesAreLast
  <2>5. ItemsWait'
    BY <1>4, <2>0, OperationsTyping DEF CommitGranting, ItemsWait
  <2> QED
    BY <2>1, <2>2, <2>3, <2>4, <2>5 DEF OperationsInv
<1>5. CASE ForgetTraces
  <2>0. OperationsTypeOK /\ RolesAreDated /\ ProgressIsOnRecord /\ OutcomesAreLast /\ ItemsWait
    BY DEF OperationsInv
  <2>1. OperationsTypeOK'
    BY <1>5, <2>0, OperationsTyping DEF ForgetTraces, OperationsTypeOK, Answered
  <2>2. RolesAreDated'
    BY <1>5, <2>0, OperationsTyping DEF ForgetTraces, RolesAreDated, RevokedIsDenied, ActiveRows
  <2>3. ProgressIsOnRecord'
    BY <1>5, <2>0, OperationsTyping DEF ForgetTraces, ProgressIsOnRecord
  <2>4. OutcomesAreLast'
    BY <1>5, <2>0, OperationsTyping DEF ForgetTraces, OutcomesAreLast
  <2>5. ItemsWait'
    BY <1>5, <2>0, OperationsTyping DEF ForgetTraces, ItemsWait
  <2> QED
    BY <2>1, <2>2, <2>3, <2>4, <2>5 DEF OperationsInv
<1>6. ASSUME NEW r \in OperationIds, AskOperation(r) PROVE OperationsInv'
  <2>0. OperationsTypeOK /\ RolesAreDated /\ ProgressIsOnRecord /\ OutcomesAreLast /\ ItemsWait
    BY DEF OperationsInv
  <2>1. OperationsTypeOK'
    BY <1>6, <2>0, OperationsTyping DEF AskOperation, SetsOut, OperationsTypeOK, Answered
  <2>2. RolesAreDated'
    BY <1>6, <2>0, OperationsTyping
    DEF AskOperation, SetsOut, RolesAreDated, RevokedIsDenied, ActiveRows
  <2>3. ProgressIsOnRecord'
    BY <1>6, <2>0, OperationsTyping DEF AskOperation, SetsOut, ProgressIsOnRecord
  <2>4. OutcomesAreLast'
    BY <1>6, <2>0, OperationsTyping DEF AskOperation, SetsOut, OutcomesAreLast
  <2>5. ItemsWait'
    BY <1>6, <2>0, OperationsTyping DEF AskOperation, SetsOut, ItemsWait
  <2> QED
    BY <2>1, <2>2, <2>3, <2>4, <2>5 DEF OperationsInv
<1>7. ASSUME NEW r \in OperationIds, ReadClock(r) PROVE OperationsInv'
  <2>0. OperationsTypeOK /\ RolesAreDated /\ ProgressIsOnRecord /\ OutcomesAreLast /\ ItemsWait
    BY DEF OperationsInv
  <2>1. OperationsTypeOK'
    BY <1>7, <2>0, OperationsTyping DEF ReadClock, OperationsTypeOK, Answered
  <2>2. RolesAreDated'
    BY <1>7, <2>0, OperationsTyping DEF ReadClock, RolesAreDated, RevokedIsDenied, ActiveRows
  <2>3. ProgressIsOnRecord'
    BY <1>7, <2>0, OperationsTyping DEF ReadClock, ProgressIsOnRecord
  <2>4. OutcomesAreLast'
    BY <1>7, <2>0, OperationsTyping DEF ReadClock, OutcomesAreLast
  <2>5. ItemsWait'
    BY <1>7, <2>0, OperationsTyping DEF ReadClock, ItemsWait
  <2> QED
    BY <2>1, <2>2, <2>3, <2>4, <2>5 DEF OperationsInv
<1>8. ASSUME NEW r \in OperationIds, ListActive(r) PROVE OperationsInv'
  <2>0. OperationsTypeOK /\ RolesAreDated /\ ProgressIsOnRecord /\ OutcomesAreLast /\ ItemsWait
    BY DEF OperationsInv
  <2>1. OperationsTypeOK'
    BY <1>8, <2>0, OperationsTyping DEF ListActive, Covers, OperationsTypeOK, Answered
  <2>2. RolesAreDated'
    BY <1>8, <2>0, OperationsTyping
    DEF ListActive, Covers, RolesAreDated, RevokedIsDenied, ActiveRows
  <2>3. ProgressIsOnRecord'
    BY <1>8, <2>0, OperationsTyping DEF ListActive, Covers, ProgressIsOnRecord
  <2>4. OutcomesAreLast'
    BY <1>8, <2>0, OperationsTyping DEF ListActive, Covers, OutcomesAreLast
  <2>5. ItemsWait'
    BY <1>8, <2>0, OperationsTyping DEF ListActive, Covers, ItemsWait
  <2> QED
    BY <2>1, <2>2, <2>3, <2>4, <2>5 DEF OperationsInv
<1>9. ASSUME NEW r \in OperationIds, RecordDecision(r) PROVE OperationsInv'
  <2>0. OperationsTypeOK /\ RolesAreDated /\ ProgressIsOnRecord /\ OutcomesAreLast /\ ItemsWait
    BY DEF OperationsInv
  <2>1. OperationsTypeOK'
    BY <1>9, <2>0, OperationsTyping
    DEF RecordDecision, Decision, LooksUp, OperationsTypeOK, Answered
  <2>2. RolesAreDated'
    BY <1>9, <2>0, OperationsTyping
    DEF RecordDecision, Decision, LooksUp, RolesAreDated, RevokedIsDenied, ActiveRows
  <2>3. ProgressIsOnRecord'
    BY <1>9, <2>0, OperationsTyping DEF RecordDecision, Decision, LooksUp, ProgressIsOnRecord
  <2>4. OutcomesAreLast'
    BY <1>9, <2>0, OperationsTyping DEF RecordDecision, Decision, LooksUp, OutcomesAreLast
  <2>5. ItemsWait'
    BY <1>9, <2>0, OperationsTyping DEF RecordDecision, Decision, LooksUp, ItemsWait
  <2> QED
    BY <2>1, <2>2, <2>3, <2>4, <2>5 DEF OperationsInv
<1>10. ASSUME NEW r \in OperationIds, DecisionFails(r) PROVE OperationsInv'
  <2>0. OperationsTypeOK /\ RolesAreDated /\ ProgressIsOnRecord /\ OutcomesAreLast /\ ItemsWait
    BY DEF OperationsInv
  <2>1. OperationsTypeOK'
    BY <1>10, <2>0, OperationsTyping DEF DecisionFails, Decision, OperationsTypeOK, Answered
  <2>2. RolesAreDated'
    BY <1>10, <2>0, OperationsTyping
    DEF DecisionFails, Decision, RolesAreDated, RevokedIsDenied, ActiveRows
  <2>3. ProgressIsOnRecord'
    BY <1>10, <2>0, OperationsTyping DEF DecisionFails, Decision, ProgressIsOnRecord
  <2>4. OutcomesAreLast'
    BY <1>10, <2>0, OperationsTyping DEF DecisionFails, Decision, OutcomesAreLast
  <2>5. ItemsWait'
    BY <1>10, <2>0, OperationsTyping DEF DecisionFails, Decision, ItemsWait
  <2> QED
    BY <2>1, <2>2, <2>3, <2>4, <2>5 DEF OperationsInv
<1>11. ASSUME NEW r \in OperationIds, LookUpTask(r) PROVE OperationsInv'
  <2>0. OperationsTypeOK /\ RolesAreDated /\ ProgressIsOnRecord /\ OutcomesAreLast /\ ItemsWait
    BY DEF OperationsInv
  <2>1. OperationsTypeOK'
    BY <1>11, <2>0, OperationsTyping DEF LookUpTask, OperationsTypeOK, Answered
  <2>2. RolesAreDated'
    BY <1>11, <2>0, OperationsTyping DEF LookUpTask, RolesAreDated, RevokedIsDenied, ActiveRows
  <2>3. ProgressIsOnRecord'
    BY <1>11, <2>0, OperationsTyping DEF LookUpTask, ProgressIsOnRecord
  <2>4. OutcomesAreLast'
    BY <1>11, <2>0, OperationsTyping DEF LookUpTask, OutcomesAreLast
  <2>5. ItemsWait'
    BY <1>11, <2>0, OperationsTyping DEF LookUpTask, ItemsWait
  <2> QED
    BY <2>1, <2>2, <2>3, <2>4, <2>5 DEF OperationsInv
<1>12. ASSUME NEW r \in OperationIds, LookUpFails(r) PROVE OperationsInv'
  <2>0. OperationsTypeOK /\ RolesAreDated /\ ProgressIsOnRecord /\ OutcomesAreLast /\ ItemsWait
    BY DEF OperationsInv
  <2>1. OperationsTypeOK'
    BY <1>12, <2>0, OperationsTyping DEF LookUpFails, OperationsTypeOK, Answered
  <2>2. RolesAreDated'
    BY <1>12, <2>0, OperationsTyping DEF LookUpFails, RolesAreDated, RevokedIsDenied, ActiveRows
  <2>3. ProgressIsOnRecord'
    BY <1>12, <2>0, OperationsTyping DEF LookUpFails, ProgressIsOnRecord
  <2>4. OutcomesAreLast'
    BY <1>12, <2>0, OperationsTyping DEF LookUpFails, OutcomesAreLast
  <2>5. ItemsWait'
    BY <1>12, <2>0, OperationsTyping DEF LookUpFails, ItemsWait
  <2> QED
    BY <2>1, <2>2, <2>3, <2>4, <2>5 DEF OperationsInv
<1>13. ASSUME NEW r \in OperationIds, AuditDecision(r) PROVE OperationsInv'
  <2>0. OperationsTypeOK /\ RolesAreDated /\ ProgressIsOnRecord /\ OutcomesAreLast /\ ItemsWait
    BY DEF OperationsInv
  <2>1. OperationsTypeOK'
    BY <1>13, <2>0, OperationsTyping DEF AuditDecision, Audit, OperationsTypeOK, Answered
  <2>2. RolesAreDated'
    BY <1>13, <2>0, OperationsTyping
    DEF AuditDecision, Audit, RolesAreDated, RevokedIsDenied, ActiveRows
  <2>3. ProgressIsOnRecord'
    BY <1>13, <2>0, OperationsTyping DEF AuditDecision, Audit, ProgressIsOnRecord
  <2>4. OutcomesAreLast'
    BY <1>13, <2>0, AuditKeepsOutcomes DEF AuditDecision
  <2>5. ItemsWait'
    BY <1>13, <2>0, OperationsTyping DEF AuditDecision, Audit, ItemsWait
  <2> QED
    BY <2>1, <2>2, <2>3, <2>4, <2>5 DEF OperationsInv
<1>14. ASSUME NEW r \in OperationIds, ReadIt(r) PROVE OperationsInv'
  <2>0. OperationsTypeOK /\ RolesAreDated /\ ProgressIsOnRecord /\ OutcomesAreLast /\ ItemsWait
    BY DEF OperationsInv
  <2>1. OperationsTypeOK'
    BY <1>14, <2>0, OperationsTyping DEF ReadIt, OperationsTypeOK, Answered
  <2>2. RolesAreDated'
    BY <1>14, <2>0, OperationsTyping DEF ReadIt, RolesAreDated, RevokedIsDenied, ActiveRows
  <2>3. ProgressIsOnRecord'
    BY <1>14, <2>0, OperationsTyping DEF ReadIt, ProgressIsOnRecord
  <2>4. OutcomesAreLast'
    BY <1>14, <2>0, OperationsTyping DEF ReadIt, OutcomesAreLast
  <2>5. ItemsWait'
    BY <1>14, <2>0, OperationsTyping DEF ReadIt, ItemsWait
  <2> QED
    BY <2>1, <2>2, <2>3, <2>4, <2>5 DEF OperationsInv
<1>15. ASSUME NEW r \in OperationIds, ChangeIt(r) PROVE OperationsInv'
  <2>0. OperationsTypeOK /\ RolesAreDated /\ ProgressIsOnRecord /\ OutcomesAreLast /\ ItemsWait
    BY DEF OperationsInv
  <2>1. OperationsTypeOK'
    BY <1>15, <2>0, OperationsTyping DEF ChangeIt, OperationsTypeOK, Answered
  <2>2. RolesAreDated'
    BY <1>15, <2>0, OperationsTyping DEF ChangeIt, RolesAreDated, RevokedIsDenied, ActiveRows
  <2>3. ProgressIsOnRecord'
    BY <1>15, <2>0, OperationsTyping DEF ChangeIt, ProgressIsOnRecord
  <2>4. OutcomesAreLast'
    BY <1>15, <2>0, OperationsTyping DEF ChangeIt, OutcomesAreLast
  <2>5. ItemsWait'
    BY <1>15, <2>0, OperationsTyping DEF ChangeIt, ItemsWait
  <2> QED
    BY <2>1, <2>2, <2>3, <2>4, <2>5 DEF OperationsInv
<1>16. ASSUME NEW r \in OperationIds, WorkFails(r) PROVE OperationsInv'
  <2>0. OperationsTypeOK /\ RolesAreDated /\ ProgressIsOnRecord /\ OutcomesAreLast /\ ItemsWait
    BY DEF OperationsInv
  <2>1. OperationsTypeOK'
    BY <1>16, <2>0, OperationsTyping DEF WorkFails, OperationsTypeOK, Answered
  <2>2. RolesAreDated'
    BY <1>16, <2>0, OperationsTyping DEF WorkFails, RolesAreDated, RevokedIsDenied, ActiveRows
  <2>3. ProgressIsOnRecord'
    BY <1>16, <2>0, OperationsTyping DEF WorkFails, ProgressIsOnRecord
  <2>4. OutcomesAreLast'
    BY <1>16, <2>0, OperationsTyping DEF WorkFails, OutcomesAreLast
  <2>5. ItemsWait'
    BY <1>16, <2>0, OperationsTyping DEF WorkFails, ItemsWait
  <2> QED
    BY <2>1, <2>2, <2>3, <2>4, <2>5 DEF OperationsInv
<1>17. ASSUME NEW r \in OperationIds, ListPage(r) PROVE OperationsInv'
  <2>0. OperationsTypeOK /\ RolesAreDated /\ ProgressIsOnRecord /\ OutcomesAreLast /\ ItemsWait
    BY DEF OperationsInv
  <2>1. OperationsTypeOK'
    BY <1>17, <2>0, OperationsTyping DEF ListPage, ItemsOf, OperationsTypeOK, Answered
  <2>2. RolesAreDated'
    BY <1>17, <2>0, OperationsTyping
    DEF ListPage, ItemsOf, RolesAreDated, RevokedIsDenied, ActiveRows
  <2>6. \A l \in OperationIds : kindOf[l] = "list" => l = r
    BY <1>17, <2>0, OperationsTyping, AuditedOperationsAssumption DEF ListPage
  <2>7. /\ progress[r] = "works" /\ progress'[r] = "items" /\ kindOf[r] = "list"
        /\ \A i \in OperationIds :
             kindOf[i] = "item" => i # r /\ progress[i] = "waits" /\ progress'[i] = "asked"
        /\ \A i \in OperationIds \ {r} : kindOf[i] # "item" => progress'[i] = progress[i]
    BY <1>17, <2>0 DEF ListPage, ItemsOf, ItemsWait
  <2>8. UNCHANGED <<kindOf, auditRows, decisionRows, decisionTraces, decidedAllowed, worked, lookupLost>>
    BY <1>17 DEF ListPage
  <2>3. ProgressIsOnRecord'
    BY <2>0, <2>7, <2>8 DEF ProgressIsOnRecord
  <2>4. OutcomesAreLast'
    BY <2>0, <2>7, <2>8 DEF OutcomesAreLast
  <2>5. ItemsWait'
    BY <2>6, <2>7, <2>8 DEF ItemsWait
  <2> QED
    BY <2>1, <2>2, <2>3, <2>4, <2>5 DEF OperationsInv
<1>18. ASSUME NEW r \in OperationIds, PageIsChecked(r) PROVE OperationsInv'
  <2>0. OperationsTypeOK /\ RolesAreDated /\ ProgressIsOnRecord /\ OutcomesAreLast /\ ItemsWait
    BY DEF OperationsInv
  <2>1. OperationsTypeOK'
    BY <1>18, <2>0, OperationsTyping DEF PageIsChecked, ItemsOf, OperationsTypeOK, Answered
  <2>2. RolesAreDated'
    BY <1>18, <2>0, OperationsTyping
    DEF PageIsChecked, ItemsOf, RolesAreDated, RevokedIsDenied, ActiveRows
  <2>3. ProgressIsOnRecord'
    BY <1>18, <2>0, OperationsTyping DEF PageIsChecked, ItemsOf, ProgressIsOnRecord
  <2>4. OutcomesAreLast'
    BY <1>18, <2>0, OperationsTyping DEF PageIsChecked, ItemsOf, OutcomesAreLast
  <2>5. ItemsWait'
    BY <1>18, <2>0, OperationsTyping DEF PageIsChecked, ItemsOf, ItemsWait
  <2> QED
    BY <2>1, <2>2, <2>3, <2>4, <2>5 DEF OperationsInv
<1>19. ASSUME NEW r \in OperationIds, FinishAudited(r) PROVE OperationsInv'
  <2>0. OperationsTypeOK /\ RolesAreDated /\ ProgressIsOnRecord /\ OutcomesAreLast /\ ItemsWait
    BY DEF OperationsInv
  <2>1. OperationsTypeOK'
    BY <1>19, <2>0, OperationsTyping DEF FinishAudited, Audit, OperationsTypeOK, Answered
  <2>2. RolesAreDated'
    BY <1>19, <2>0, OperationsTyping
    DEF FinishAudited, Audit, RolesAreDated, RevokedIsDenied, ActiveRows
  <2>3. ProgressIsOnRecord'
    BY <1>19, <2>0, OperationsTyping DEF FinishAudited, Audit, ProgressIsOnRecord
  <2>4. OutcomesAreLast'
    BY <1>19, <2>0, AuditKeepsOutcomes DEF FinishAudited
  <2>5. ItemsWait'
    BY <1>19, <2>0, OperationsTyping DEF FinishAudited, Audit, ItemsWait
  <2> QED
    BY <2>1, <2>2, <2>3, <2>4, <2>5 DEF OperationsInv
<1>20. ASSUME NEW r \in OperationIds, FinishFailing(r) PROVE OperationsInv'
  <2>0. OperationsTypeOK /\ RolesAreDated /\ ProgressIsOnRecord /\ OutcomesAreLast /\ ItemsWait
    BY DEF OperationsInv
  <2>1. OperationsTypeOK'
    BY <1>20, <2>0, OperationsTyping DEF FinishFailing, Audit, OperationsTypeOK, Answered
  <2>2. RolesAreDated'
    BY <1>20, <2>0, OperationsTyping
    DEF FinishFailing, Audit, RolesAreDated, RevokedIsDenied, ActiveRows
  <2>3. ProgressIsOnRecord'
    BY <1>20, <2>0, OperationsTyping DEF FinishFailing, Audit, ProgressIsOnRecord
  <2>4. OutcomesAreLast'
    BY <1>20, <2>0, AuditKeepsOutcomes DEF FinishFailing
  <2>5. ItemsWait'
    BY <1>20, <2>0, OperationsTyping DEF FinishFailing, Audit, ItemsWait
  <2> QED
    BY <2>1, <2>2, <2>3, <2>4, <2>5 DEF OperationsInv
<1> QED
  BY <1>1, <1>2, <1>3, <1>4, <1>5, <1>6, <1>7, <1>8, <1>9, <1>10,
     <1>11, <1>12, <1>13, <1>14, <1>15, <1>16, <1>17, <1>18, <1>19, <1>20
  DEF OperationsNext

LEMMA OperationsMean ==
  OperationsInv => AnswersAreOnRecord /\ OneOutcome /\ RevokedIsDenied /\ TracesAreOwned
<1> SUFFICES ASSUME OperationsInv
             PROVE  AnswersAreOnRecord /\ OneOutcome /\ RevokedIsDenied /\ TracesAreOwned
  OBVIOUS
<1>1. OperationsTypeOK /\ RolesAreDated /\ ProgressIsOnRecord /\ OutcomesAreLast
  BY DEF OperationsInv
<1>2. AnswersAreOnRecord
  BY <1>1, OperationsTyping DEF ProgressIsOnRecord, AnswersAreOnRecord
<1>3. OneOutcome /\ TracesAreOwned
  BY <1>1, OperationsTyping DEF OutcomesAreLast, OneOutcome, TracesAreOwned, Answered
<1> QED
  BY <1>1, <1>2, <1>3 DEF RolesAreDated

(* Nothing is answered or changed that was not decided by a role that was  *)
(* held and audited before, and the audit has one outcome of it.           *)
THEOREM OperationsAreOnRecord ==
  OperationsSpec => [](AnswersAreOnRecord /\ OneOutcome /\ RevokedIsDenied /\ TracesAreOwned)
<1>1. OperationsInv => AnswersAreOnRecord /\ OneOutcome /\ RevokedIsDenied /\ TracesAreOwned
  BY OperationsMean
<1> QED
  BY OperationsStart, OperationsGoOn, <1>1, PTL DEF OperationsSpec

-----------------------------------------------------------------------------
(* Sessions: a browser has one, and what is valid was begun under the      *)
(* revision of the account it is checked against.                          *)

(* No record is of a later security revision than the account's.           *)
RecordsArePast ==
  /\ \A c \in Credentials : sessions[c].revision <= account.revision
  /\ \A r \in Requests : held[r].record.revision <= account.revision

SessionsInv ==
  /\ SessionsTypeOK
  /\ OneSession
  /\ RecordsArePast
  /\ RevisionVouches

(* What is stored under a credential, or held by a request, by itself.     *)
RecordIsGood(record) ==
  /\ record \in Record \cup {NoRecord}
  /\ record.revision <= account.revision
  /\ record.revision = account.revision =>
       account.status = "active" /\ record.password = account.password
AccountType ==
  account \in [status : {"active", "disabled"}, revision : 1 .. MaxRevision, password : Passwords]
DoingType ==
  doing \in [Requests -> {"nothing", "create", "account", "rotate", "audit"}]
HeldType(h) == h.credential \in Credentials \cup {Missing} /\ RecordIsGood(h.record)
HeldGood ==
  /\ held \in [Requests -> [credential : Credentials \cup {Missing}, record : Record \cup {NoRecord}]]
  /\ \A r \in Requests : RecordIsGood(held[r].record)
SessionsGood ==
  /\ sessions \in [Credentials -> Record \cup {NoRecord}]
  /\ \A c \in Credentials : RecordIsGood(sessions[c])

LEMMA SessionsParts ==
  /\ SessionsInv <=> /\ AccountType /\ DoingType /\ HeldGood /\ SessionsGood
                     /\ index \in Credentials \cup {Missing} /\ issued \subseteq Credentials
                     /\ OneSession
  /\ SessionsInv' <=> /\ AccountType' /\ DoingType' /\ HeldGood' /\ SessionsGood'
                      /\ index' \in Credentials \cup {Missing} /\ issued' \subseteq Credentials
                      /\ OneSession'
<1>1. SessionsInv <=> /\ AccountType /\ DoingType /\ HeldGood /\ SessionsGood
                     /\ index \in Credentials \cup {Missing} /\ issued \subseteq Credentials
                     /\ OneSession
  BY DEF SessionsInv, SessionsTypeOK, RecordsArePast, RevisionVouches, AccountType, DoingType,
         HeldGood, SessionsGood, RecordIsGood
<1>2. SessionsInv' <=> /\ AccountType' /\ DoingType' /\ HeldGood' /\ SessionsGood'
                      /\ index' \in Credentials \cup {Missing} /\ issued' \subseteq Credentials
                      /\ OneSession'
  BY DEF SessionsInv, SessionsTypeOK, RecordsArePast, RevisionVouches, AccountType, DoingType,
         HeldGood, SessionsGood, RecordIsGood
<1> QED
  BY <1>1, <1>2

LEMMA SessionsStarts == SessionsInit => SessionsInv
<1> SUFFICES ASSUME SessionsInit PROVE SessionsInv
  OBVIOUS
<1>1. AccountType /\ DoingType /\ OneSession
  BY SessionsAssumption DEF SessionsInit, AccountType, DoingType, OneSession, Live
<1>2. RecordIsGood(NoRecord)
  BY SessionsAssumption DEF SessionsInit, RecordIsGood, NoRecord
<1>3. HeldGood /\ SessionsGood
  BY <1>2 DEF SessionsInit, HeldGood, SessionsGood, Nothing, NoRecord
<1> QED
  BY <1>1, <1>3, SessionsParts DEF SessionsInit

(* A request puts down what it held, or takes up a record that is good.    *)
LEMMA HeldStays ==
  ASSUME HeldGood, AccountType, account' = account, NEW r \in Requests,
         NEW c \in Credentials \cup {Missing}, NEW record, RecordIsGood(record),
         held' = held \/ held' = [held EXCEPT ![r] = Nothing]
           \/ held' = [held EXCEPT ![r] = [credential |-> c, record |-> record]]
  PROVE  HeldGood'
<1>1. RecordIsGood(NoRecord)
  BY DEF AccountType, RecordIsGood, NoRecord
<1>2. record \in Record \cup {NoRecord}
  BY DEF RecordIsGood
<1>3. held' \in [Requests -> [credential : Credentials \cup {Missing}, record : Record \cup {NoRecord}]]
  BY <1>2 DEF HeldGood, Nothing
<1>4. ASSUME NEW q \in Requests PROVE RecordIsGood(held'[q].record)
  BY <1>1 DEF HeldGood, Nothing
<1>5. ASSUME NEW q \in Requests PROVE RecordIsGood(held[q].record)'
  BY <1>4 DEF RecordIsGood
<1> QED
  BY <1>3, <1>5 DEF HeldGood

(* The sessions that are left were there, but for one that is good.        *)
LEMMA SessionsStay ==
  ASSUME SessionsGood, AccountType, account' = account,
         sessions' \in [Credentials -> Record \cup {NoRecord}],
         \A c \in Credentials : \/ sessions'[c] = NoRecord \/ sessions'[c] = sessions[c]
                                \/ RecordIsGood(sessions'[c])
  PROVE  SessionsGood'
<1>1. RecordIsGood(NoRecord)
  BY DEF AccountType, RecordIsGood, NoRecord
<1>2. ASSUME NEW c \in Credentials PROVE RecordIsGood(sessions'[c])
  BY <1>1 DEF SessionsGood
<1>3. ASSUME NEW c \in Credentials PROVE RecordIsGood(sessions[c])'
  BY <1>2 DEF RecordIsGood
<1> QED
  BY <1>3 DEF SessionsGood

(* A security change makes every record one of the past.                   *)
LEMMA AccountChanges ==
  ASSUME SessionsInv, UNCHANGED <<redis, request>>,
         account' \in [status : {"active", "disabled"}, revision : 1 .. MaxRevision,
                       password : Passwords],
         account'.revision = account.revision + 1
  PROVE  SessionsInv'
<1>1. AccountType' /\ DoingType' /\ OneSession'
  BY SessionsParts DEF AccountType, DoingType, OneSession, Live, redis, request
<1>2. ASSUME NEW record, RecordIsGood(record)
      PROVE  record \in Record \cup {NoRecord} /\ record.revision < account'.revision
  <2>1. record.revision \in Nat
    BY <1>2, SessionsAssumption DEF RecordIsGood, Record, NoRecord
  <2>2. account.revision \in Nat
    BY SessionsParts DEF AccountType
  <2> QED
    BY <1>2, <2>1, <2>2 DEF RecordIsGood
<1>3. HeldGood' /\ SessionsGood'
  <2>1. HeldGood /\ SessionsGood /\ held' = held /\ sessions' = sessions
    BY SessionsParts DEF redis, request
  <2>2. ASSUME NEW r \in Requests PROVE RecordIsGood(held[r].record)'
    <3>1. RecordIsGood(held[r].record)
      BY <2>1 DEF HeldGood
    <3>2. /\ held[r].record \in Record \cup {NoRecord}
          /\ held[r].record.revision < account'.revision
      BY <1>2, <3>1
    <3>3. held[r].record.revision \in Nat /\ account'.revision \in Nat
      BY <3>2, SessionsAssumption DEF Record, NoRecord
    <3> QED
      BY <2>1, <3>2, <3>3 DEF RecordIsGood
  <2>3. ASSUME NEW c \in Credentials PROVE RecordIsGood(sessions[c])'
    <3>1. RecordIsGood(sessions[c])
      BY <2>1 DEF SessionsGood
    <3>2. sessions[c] \in Record \cup {NoRecord} /\ sessions[c].revision < account'.revision
      BY <1>2, <3>1
    <3>3. sessions[c].revision \in Nat /\ account'.revision \in Nat
      BY <3>2, SessionsAssumption DEF Record, NoRecord
    <3> QED
      BY <2>1, <3>2, <3>3 DEF RecordIsGood
  <2> QED
    BY <2>1, <2>2, <2>3 DEF HeldGood, SessionsGood
<1> QED
  BY <1>1, <1>3, SessionsParts DEF redis

(* The invariant is kept by every step.                                    *)
LEMMA SessionsGoOn == SessionsInv /\ [SessionsNext]_sessionVars => SessionsInv'
<1> SUFFICES ASSUME SessionsInv, [SessionsNext]_sessionVars PROVE SessionsInv'
  OBVIOUS
<1> USE DEF Awaits, Holds, Answers, request, redis
<1>0. /\ AccountType /\ DoingType /\ HeldGood /\ SessionsGood
      /\ index \in Credentials \cup {Missing} /\ issued \subseteq Credentials /\ OneSession
      /\ RecordIsGood(NoRecord)
  BY SessionsParts DEF RecordIsGood, NoRecord, AccountType
<1>1. CASE SetStatus
  <2>1. account.revision + 1 \in 1 .. MaxRevision /\ account.revision \in Nat
    BY <1>1, <1>0, SessionsAssumption DEF SetStatus, AccountType
  <2>2. PICK s \in {"active", "disabled"} :
          account' = [account EXCEPT !.status = s, !.revision = @ + 1]
    BY <1>1 DEF SetStatus
  <2>3. account' \in [status : {"active", "disabled"}, revision : 1 .. MaxRevision,
                      password : Passwords]
    BY <2>1, <2>2, <1>0 DEF AccountType
  <2>4. account'.revision = account.revision + 1
    BY <2>2, <1>0 DEF AccountType
  <2> QED
    BY <1>1, <2>3, <2>4, AccountChanges DEF SetStatus
<1>2. ASSUME NEW p \in Passwords, ReplacePassword(p) PROVE SessionsInv'
  <2>1. account.revision + 1 \in 1 .. MaxRevision /\ account.revision \in Nat
    BY <1>2, <1>0, SessionsAssumption DEF ReplacePassword, AccountType
  <2>2. account' = [account EXCEPT !.password = p, !.revision = @ + 1]
    BY <1>2 DEF ReplacePassword
  <2>3. account' \in [status : {"active", "disabled"}, revision : 1 .. MaxRevision,
                      password : Passwords]
    BY <2>1, <2>2, <1>0 DEF AccountType
  <2>4. account'.revision = account.revision + 1
    BY <2>2, <1>0 DEF AccountType
  <2> QED
    BY <1>2, <2>3, <2>4, AccountChanges DEF ReplacePassword
<1>3. ASSUME NEW c \in Credentials, Logout(c) \/ SessionExpires(c) PROVE SessionsInv'
  <2>1. SessionsGood'
    BY <1>3, <1>0, SessionsStay DEF Logout, SessionExpires, Delete, SessionsGood
  <2>2. OneSession' /\ index' \in Credentials \cup {Missing}
    BY <1>3, <1>0 DEF Logout, SessionExpires, Delete, OneSession, Live, SessionsGood
  <2>3. AccountType' /\ DoingType' /\ HeldGood' /\ issued' \subseteq Credentials
    BY <1>3, <1>0 DEF Logout, SessionExpires, AccountType, DoingType, HeldGood, RecordIsGood
  <2> QED
    BY <2>1, <2>2, <2>3, SessionsParts
<1>4. CASE IndexExpires
  <2>1. OneSession'
    BY <1>4, <1>0 DEF IndexExpires, OneSession, Live
  <2>2. AccountType' /\ DoingType' /\ HeldGood' /\ SessionsGood' /\ issued' \subseteq Credentials
    BY <1>4, <1>0 DEF IndexExpires, AccountType, DoingType, HeldGood, SessionsGood, RecordIsGood
  <2> QED
    BY <1>4, <2>1, <2>2, SessionsParts DEF IndexExpires
<1>5. ASSUME NEW r \in Requests, Verify(r) PROVE SessionsInv'
  <2> DEFINE record == [revision |-> account.revision, password |-> account.password]
  <2>1. RecordIsGood(record)
    BY <1>5, <1>0 DEF Verify, RecordIsGood, AccountType, Record
  <2>2. HeldGood'
    BY <1>5, <2>1, <1>0, HeldStays DEF Verify
  <2>3. AccountType' /\ DoingType' /\ SessionsGood' /\ OneSession'
    BY <1>5, <1>0 DEF Verify, AccountType, DoingType, SessionsGood, RecordIsGood, OneSession, Live
  <2> QED
    BY <1>5, <1>0, <2>2, <2>3, SessionsParts DEF Verify
<1>6. ASSUME NEW r \in Requests, Admit(r) \/ Deny(r) \/ GiveUp(r) \/ Audited(r) PROVE SessionsInv'
  <2>1. HeldGood'
    <3>1. account' = account /\ (held' = held \/ held' = [held EXCEPT ![r] = Nothing])
      BY <1>6 DEF Admit, Deny, GiveUp, Audited
    <3> QED
      BY <3>1, <1>0, HeldStays
  <2>2. AccountType' /\ DoingType' /\ SessionsGood' /\ OneSession'
    BY <1>6, <1>0 DEF Admit, Deny, GiveUp, Audited, AccountType, DoingType, SessionsGood,
       RecordIsGood, OneSession, Live
  <2> QED
    BY <1>6, <1>0, <2>1, <2>2, SessionsParts DEF Admit, Deny, GiveUp, Audited
<1>7. ASSUME NEW r \in Requests, AuditFails(r) PROVE SessionsInv'
  <2>1. HeldGood'
    BY <1>7, <1>0, HeldStays DEF AuditFails
  <2>2. SessionsGood'
    BY <1>7, <1>0, SessionsStay DEF AuditFails, Delete, SessionsGood
  <2>3. OneSession' /\ index' \in Credentials \cup {Missing}
    BY <1>7, <1>0 DEF AuditFails, Delete, OneSession, Live, SessionsGood
  <2>4. AccountType' /\ DoingType' /\ issued' \subseteq Credentials
    BY <1>7, <1>0 DEF AuditFails, AccountType, DoingType
  <2> QED
    BY <2>1, <2>2, <2>3, <2>4, SessionsParts
<1>8. ASSUME NEW r \in Requests, NEW c \in Credentials, Create(r, c) PROVE SessionsInv'
  <2>0. RecordIsGood(held[r].record) /\ held[r].record \in Record \cup {NoRecord}
    BY <1>0 DEF HeldGood, RecordIsGood
  <2>1. HeldGood'
    BY <1>8, <2>0, <1>0, HeldStays DEF Create
  <2>2. sessions' = [d \in Credentials |-> IF d = c THEN held[r].record
                       ELSE IF d = index THEN NoRecord ELSE sessions[d]]
    BY <1>8 DEF Create, WithSession
  <2>3. SessionsGood'
    <3>1. sessions' \in [Credentials -> Record \cup {NoRecord}]
      BY <2>0, <2>2, <1>0 DEF SessionsGood
    <3>2. account' = account
      BY <1>8 DEF Create
    <3> QED
      BY <2>0, <2>2, <3>1, <3>2, <1>0, SessionsStay
  <2>4. OneSession' /\ index' \in Credentials \cup {Missing}
    BY <1>8, <2>2, <1>0 DEF Create, OneSession, Live
  <2>5. AccountType' /\ DoingType' /\ issued' \subseteq Credentials
    BY <1>8, <1>0 DEF Create, AccountType, DoingType
  <2> QED
    BY <2>1, <2>3, <2>4, <2>5, SessionsParts
<1>9. ASSUME NEW r \in Requests, NEW c \in Credentials, ReadSession(r, c) PROVE SessionsInv'
  <2>1. HeldGood'
    <3>1. RecordIsGood(sessions[c])
      BY <1>0 DEF SessionsGood
    <3> QED
      BY <1>9, <3>1, <1>0, HeldStays DEF ReadSession
  <2>2. AccountType' /\ DoingType' /\ SessionsGood' /\ OneSession'
    BY <1>9, <1>0 DEF ReadSession, AccountType, DoingType, SessionsGood, RecordIsGood, OneSession,
       Live
  <2> QED
    BY <1>9, <1>0, <2>1, <2>2, SessionsParts DEF ReadSession
<1>10. ASSUME NEW r \in Requests, NEW c \in Credentials, Rotate(r, c) PROVE SessionsInv'
  <2>0. RecordIsGood(held[r].record) /\ held[r].record \in Record \cup {NoRecord}
    BY <1>0 DEF HeldGood, RecordIsGood
  <2>1. HeldGood'
    BY <1>10, <2>0, <1>0, HeldStays DEF Rotate
  <2>2. SessionsGood'
    <3>1. sessions' \in [Credentials -> Record \cup {NoRecord}]
      BY <1>10, <2>0, <1>0 DEF Rotate, SessionsGood
    <3>2. account' = account
      BY <1>10 DEF Rotate
    <3>3. \A d \in Credentials : sessions'[d] \in {NoRecord, sessions[d], held[r].record}
      BY <1>10, <1>0 DEF Rotate, SessionsGood
    <3> QED
      BY <2>0, <3>1, <3>2, <3>3, <1>0, SessionsStay
  <2>3. OneSession' /\ index' \in Credentials \cup {Missing}
    BY <1>10, <1>0 DEF Rotate, Rotates, OneSession, Live, SessionsGood
  <2>4. AccountType' /\ DoingType' /\ issued' \subseteq Credentials
    BY <1>10, <1>0 DEF Rotate, AccountType, DoingType
  <2> QED
    BY <2>1, <2>2, <2>3, <2>4, SessionsParts
<1>11. CASE UNCHANGED sessionVars
  BY <1>11, <1>0, SessionsParts DEF sessionVars, AccountType, DoingType, HeldGood, SessionsGood,
     RecordIsGood, OneSession, Live
<1> QED
  BY <1>1, <1>2, <1>3, <1>4, <1>5, <1>6, <1>7, <1>8, <1>9, <1>10, <1>11 DEF SessionsNext

(* The account has one live session at most, and a record of its present   *)
(* security revision is worth its present password.                        *)
THEOREM SessionsAreVouched == SessionsSpec => [](OneSession /\ RevisionVouches)
<1>1. SessionsInv => OneSession /\ RevisionVouches
  BY DEF SessionsInv
<1> QED
  BY <1>1, SessionsStarts, SessionsGoOn, PTL DEF SessionsSpec

-----------------------------------------------------------------------------
(* Requests: what a route answers is what its steps did, in their order.   *)

(* What the order of a route's steps says of its owner and its reply.      *)
StepsGood(route, q) ==
  /\ Len(q) \in 3 .. 10
  /\ \A i \in 1 .. Len(q) :
       /\ q[i] = "owner" =>
            /\ i = Len(q) \/ (i + 1 = Len(q) /\ q[i + 1] = "reply")
            /\ route \notin {"login", "logout"} =>
                 \E j \in 1 .. i - 1 : q[j] = "session" \/ q[j] = "principal"
            /\ route \notin AuthRoutes \cup {"bootstrap"} => \E j \in 1 .. i - 1 : q[j] = "permission"
            /\ route \in MutatingRoutes => \E j \in 1 .. i - 1 : q[j] = "session"
       /\ q[i] = "reply" => /\ i = Len(q) /\ i > 1 /\ q[i - 1] = "owner"
       /\ q[i] = "leave" => route = "logout" /\ i < Len(q)
  /\ route \in KeyedRoutes => \E j \in 1 .. Len(q) : q[j] = "owner"
  /\ route = "logout" => q[Len(q)] = "owner"
  /\ route \in AuthRoutes => \A i \in 1 .. Len(q) :
       /\ q[i] \in {"trace", "form", "origin", "cookie", "session", "current", "leave", "owner"}
       /\ route = "session" => q[i] \in {"trace", "cookie", "current"}

LEMMA AllRoutes ==
  /\ Routes = {"login", "session", "rotate", "logout", "bootstrap", "accounts", "command",
               "release", "validate", "createUpload", "confirm", "download", "tasks", "complete",
               "inbox", "notification", "markRead", "template", "draft", "preview", "publish",
               "activate"}
  /\ RouteSteps["login"] = LoginSteps /\ RouteSteps["session"] = SessionSteps
  /\ RouteSteps["rotate"] = RotateSteps /\ RouteSteps["logout"] = LogoutSteps
  /\ RouteSteps["bootstrap"] = BootstrapSteps /\ RouteSteps["accounts"] = AccountsSteps
  /\ RouteSteps["command"] = CommandSteps
  /\ \A route \in FormRoutes : RouteSteps[route] = FormSteps
  /\ \A route \in {"createUpload", "confirm"} : RouteSteps[route] = UploadSteps
  /\ RouteSteps["download"] = DownloadSteps /\ RouteSteps["complete"] = CompleteSteps
  /\ \A route \in {"tasks", "inbox"} : RouteSteps[route] = ListSteps
  /\ \A route \in {"notification", "template"} : RouteSteps[route] = ReadSteps
  /\ RouteSteps["markRead"] = ChangeSteps
  /\ \A route \in {"draft", "preview", "publish", "activate"} : RouteSteps[route] = TemplateSteps
<1>1. /\ RouteSteps["login"] = LoginSteps /\ RouteSteps["session"] = SessionSteps
      /\ RouteSteps["rotate"] = RotateSteps /\ RouteSteps["logout"] = LogoutSteps
  BY DEF RouteSteps
<1>2. /\ RouteSteps["bootstrap"] = BootstrapSteps /\ RouteSteps["accounts"] = AccountsSteps
      /\ RouteSteps["command"] = CommandSteps
  BY DEF RouteSteps
<1>3. /\ \A route \in FormRoutes : RouteSteps[route] = FormSteps
      /\ \A route \in {"createUpload", "confirm"} : RouteSteps[route] = UploadSteps
  BY DEF RouteSteps, FormRoutes
<1>4. /\ RouteSteps["download"] = DownloadSteps /\ RouteSteps["complete"] = CompleteSteps
      /\ \A route \in {"tasks", "inbox"} : RouteSteps[route] = ListSteps
  BY DEF RouteSteps
<1>5. /\ \A route \in {"notification", "template"} : RouteSteps[route] = ReadSteps
      /\ RouteSteps["markRead"] = ChangeSteps
      /\ \A route \in {"draft", "preview", "publish", "activate"} : RouteSteps[route] = TemplateSteps
  BY DEF RouteSteps
<1>6. Routes = {"login", "session", "rotate", "logout", "bootstrap", "accounts", "command",
               "release", "validate", "createUpload", "confirm", "download", "tasks", "complete",
               "inbox", "notification", "markRead", "template", "draft", "preview", "publish",
               "activate"}
  BY DEF Routes, RouteSteps
<1> QED
  BY <1>1, <1>2, <1>3, <1>4, <1>5, <1>6

LEMMA RoutesAreGood == \A route \in Routes : StepsGood(route, RouteSteps[route])
<1> USE DEF StepsGood, AuthRoutes, MutatingRoutes, KeyedRoutes, TemplateRoutes
<1>1. StepsGood("login", LoginSteps)
  BY DEF LoginSteps
<1>2. StepsGood("session", SessionSteps)
  BY DEF SessionSteps
<1>3. StepsGood("rotate", RotateSteps)
  BY DEF RotateSteps
<1>4. StepsGood("logout", LogoutSteps)
  BY DEF LogoutSteps
<1>5. StepsGood("bootstrap", BootstrapSteps)
  BY DEF BootstrapSteps
<1>6. StepsGood("accounts", AccountsSteps)
  BY DEF AccountsSteps
<1>7. StepsGood("command", CommandSteps)
  BY DEF CommandSteps
<1>8. \A route \in FormRoutes : StepsGood(route, FormSteps)
  BY DEF FormSteps, FormRoutes
<1>9. \A route \in {"createUpload", "confirm"} : StepsGood(route, UploadSteps)
  BY DEF UploadSteps
<1>10. StepsGood("download", DownloadSteps)
  BY DEF DownloadSteps
<1>11. StepsGood("complete", CompleteSteps)
  BY DEF CompleteSteps
<1>12. \A route \in {"tasks", "inbox"} : StepsGood(route, ListSteps)
  BY DEF ListSteps
<1>13. \A route \in {"notification", "template"} : StepsGood(route, ReadSteps)
  BY DEF ReadSteps
<1>14. StepsGood("markRead", ChangeSteps)
  BY DEF ChangeSteps
<1>15. \A route \in {"draft", "preview", "publish", "activate"} : StepsGood(route, TemplateSteps)
  BY DEF TemplateSteps
<1> HIDE DEF StepsGood, AuthRoutes, MutatingRoutes, KeyedRoutes, TemplateRoutes
<1> QED
  BY <1>1, <1>2, <1>3, <1>4, <1>5, <1>6, <1>7, <1>8, <1>9, <1>10, <1>11, <1>12, <1>13, <1>14,
     <1>15, AllRoutes DEF FormRoutes

(* The status of a failure.                                                *)
Refusals == {400, 401, 403, 404, 409, 429, 503}
AuthFailures == {"trace", "form", "missing", "credentials", "required", "csrf", "limited",
                 "session outage"}
AllFailures ==
  AuthFailures \cup {"denied", "invalid", "absent", "conflict", "outage", "unhandled"}

LEMMA RoutesOf ==
  \A route \in Routes :
    \/ route \in AuthRoutes
    \/ route \notin AuthRoutes /\ route = "bootstrap"
    \/ route \notin AuthRoutes \cup {"bootstrap"} /\ route \in WorkforceRoutes
    \/ route \notin AuthRoutes \cup {"bootstrap"} \cup WorkforceRoutes /\ route \in FormRoutes
    \/ route \notin AuthRoutes \cup {"bootstrap"} \cup WorkforceRoutes \cup FormRoutes
         /\ route \in FileRoutes
    \/ route \notin AuthRoutes \cup {"bootstrap"} \cup WorkforceRoutes \cup FormRoutes \cup FileRoutes
         /\ route \in TaskRoutes
BY AllRoutes DEF AuthRoutes, WorkforceRoutes, FormRoutes, FileRoutes, TaskRoutes, TemplateRoutes

LEMMA StatusesAre ==
  ASSUME NEW route \in Routes, NEW f \in AllFailures
  PROVE  /\ route \notin AuthRoutes \/ f \in AuthFailures => StatusOf(route, f) \in Refusals
         /\ route \notin AuthRoutes /\ f \in {"unhandled", "outage"} => StatusOf(route, f) = 503
         /\ (\/ route \in FormRoutes \cup FileRoutes
             \/ route = "session" /\ f \in {"trace", "missing", "required", "session outage"})
              => (StatusOf(route, f) = 401 => f \in {"missing", "required"})
<1>1. CASE f = "trace"
  BY <1>1 DEF StatusOf, Refusals
<1>2. CASE f # "trace" /\ route \in AuthRoutes
  <2>1. StatusOf(route, f) = AuthStatus(f)
    BY <1>2, RoutesOf DEF StatusOf, AuthRoutes, WorkforceRoutes, FormRoutes, FileRoutes, TaskRoutes,
       TemplateRoutes
  <2>2. route \notin FormRoutes \cup FileRoutes
    BY <1>2 DEF AuthRoutes, FormRoutes, FileRoutes
  <2>3. f \in {"form", "missing", "credentials", "required"} => AuthStatus(f) = 401
    BY DEF AuthStatus
  <2>4. f = "csrf" => AuthStatus(f) = 403
    BY DEF AuthStatus
  <2>5. f = "limited" => AuthStatus(f) = 429
    BY DEF AuthStatus
  <2>6. f = "session outage" => AuthStatus(f) = 503
    BY DEF AuthStatus
  <2>7. f \in AuthFailures => StatusOf(route, f) \in Refusals
    <3>1. f \in AuthFailures => AuthStatus(f) \in {401, 403, 429, 503}
      BY <1>2, <2>3, <2>4, <2>5, <2>6 DEF AuthFailures
    <3>2. {401, 403, 429, 503} \subseteq Refusals
      BY DEF Refusals
    <3> QED
      BY <2>1, <3>1, <3>2
  <2>8. f \in {"trace", "missing", "required", "session outage"} /\ StatusOf(route, f) = 401
          => f \in {"missing", "required"}
    <3>1. CASE f = "session outage"
      <4>1. StatusOf(route, f) = 503
        BY <2>1, <2>6, <3>1
      <4>2. 503 # 401
        OBVIOUS
      <4>3. StatusOf(route, f) # 401
        BY <4>1, <4>2
      <4> QED
        BY <4>3
    <3>2. CASE f # "session outage"
      BY <1>2, <3>2
    <3> QED
      BY <3>1, <3>2
  <2> QED
    BY <1>2, <2>2, <2>7, <2>8
<1>3. CASE f # "trace" /\ route = "bootstrap"
  <2>1. StatusOf(route, f) = WorkbenchStatus(f)
    BY <1>3 DEF StatusOf, AuthRoutes, WorkforceRoutes, FormRoutes, FileRoutes, TaskRoutes,
       TemplateRoutes
  <2>2. WorkbenchStatus(f) \in Refusals
    BY DEF WorkbenchStatus, Refusals
  <2>3. f \in {"unhandled", "outage"} => WorkbenchStatus(f) = 503
    BY DEF WorkbenchStatus
  <2>4. route \notin FormRoutes \cup FileRoutes \cup {"session"}
    BY <1>3 DEF FormRoutes, FileRoutes
  <2> QED
    BY <2>1, <2>2, <2>3, <2>4
<1>4. CASE f # "trace" /\ route \in WorkforceRoutes
  <2>1. StatusOf(route, f) = WorkforceStatus(f)
    BY <1>4 DEF StatusOf, AuthRoutes, WorkforceRoutes, FormRoutes, FileRoutes, TaskRoutes,
       TemplateRoutes
  <2>2. WorkforceStatus(f) \in Refusals
    BY DEF WorkforceStatus, Refusals
  <2>3. f \in {"unhandled", "outage"} => WorkforceStatus(f) = 503
    BY DEF WorkforceStatus
  <2>4. route \notin FormRoutes \cup FileRoutes \cup {"session"}
    BY <1>4 DEF FormRoutes, FileRoutes, WorkforceRoutes
  <2> QED
    BY <2>1, <2>2, <2>3, <2>4
<1>5. CASE f # "trace" /\ route \in FormRoutes
  <2>1. StatusOf(route, f) = FormStatus(f)
    BY <1>5 DEF StatusOf, AuthRoutes, WorkforceRoutes, FormRoutes, FileRoutes, TaskRoutes,
       TemplateRoutes
  <2>2. FormStatus(f) \in Refusals
    BY DEF FormStatus, Refusals
  <2>3. f \in {"unhandled", "outage"} => FormStatus(f) = 503
    BY DEF FormStatus
  <2>4. FormStatus(f) = 401 => f \in {"missing", "required"}
    BY DEF FormStatus
  <2>5. StatusOf(route, f) \in Refusals
    BY <2>1, <2>2, Zenon
  <2>6. f \in {"unhandled", "outage"} => StatusOf(route, f) = 503
    BY <2>1, <2>3, Zenon
  <2>7. StatusOf(route, f) = 401 => f \in {"missing", "required"}
    BY <2>1, <2>4, Zenon
  <2> QED
    BY <2>5, <2>6, <2>7, Zenon
<1>6. CASE f # "trace" /\ route \in FileRoutes
  <2>1. StatusOf(route, f) = FileStatus(f)
    BY <1>6 DEF StatusOf, AuthRoutes, WorkforceRoutes, FormRoutes, FileRoutes, TaskRoutes,
       TemplateRoutes
  <2>2. FileStatus(f) \in Refusals
    BY DEF FileStatus, Refusals
  <2>3. f \in {"unhandled", "outage"} => FileStatus(f) = 503
    BY DEF FileStatus
  <2>4. FileStatus(f) = 401 => f \in {"missing", "required"}
    BY DEF FileStatus
  <2>5. StatusOf(route, f) \in Refusals
    BY <2>1, <2>2, Zenon
  <2>6. f \in {"unhandled", "outage"} => StatusOf(route, f) = 503
    BY <2>1, <2>3, Zenon
  <2>7. StatusOf(route, f) = 401 => f \in {"missing", "required"}
    BY <2>1, <2>4, Zenon
  <2> QED
    BY <2>5, <2>6, <2>7, Zenon
<1>7. CASE f # "trace" /\ route \in TaskRoutes
  <2>1. StatusOf(route, f) = TaskStatus(f)
    BY <1>7 DEF StatusOf, AuthRoutes, WorkforceRoutes, FormRoutes, FileRoutes, TaskRoutes,
       TemplateRoutes
  <2>2. TaskStatus(f) \in Refusals
    BY DEF TaskStatus, Refusals
  <2>3. f \in {"unhandled", "outage"} => TaskStatus(f) = 503
    BY DEF TaskStatus
  <2>4. route \notin FormRoutes \cup FileRoutes \cup {"session"}
    BY <1>7 DEF FormRoutes, FileRoutes, TaskRoutes, TemplateRoutes
  <2> QED
    BY <2>1, <2>2, <2>3, <2>4
<1> QED
  BY <1>1, <1>2, <1>3, <1>4, <1>5, <1>6, <1>7, RoutesOf

LEMMA RefusalsAre ==
  \A route \in Routes, f \in AllFailures :
    route \notin AuthRoutes \/ f \in AuthFailures => StatusOf(route, f) \in Refusals
BY StatusesAre

SaysSignedOut(route, f) == StatusOf(route, f) = 401

LEMMA SessionsAreMissed ==
  \A route \in Routes, f \in AllFailures :
    /\ SaysSignedOut(route, f)
    /\ \/ route \in FormRoutes \cup FileRoutes
       \/ route = "session" /\ f \in {"trace", "missing", "required", "session outage"}
    => f \in {"missing", "required"}
BY StatusesAre DEF SaysSignedOut

CheckedSteps == {"trace", "form", "identifier", "cookie", "headers", "origin", "session",
                 "current", "principal", "permission", "recheck", "body", "reply"}

(* What a check may fail with, and what it means that it passed.           *)
LEMMA FailuresAre ==
  ASSUME NEW r \in HttpRequestIds, NEW step \in CheckedSteps, NEW f \in Failures(r, step)
  PROVE  /\ step \in {"trace", "form", "origin", "cookie", "session", "current"} => f \in AuthFailures
         /\ step \in {"trace", "cookie", "current"} =>
              f \in {"trace", "missing", "required", "session outage"}
         /\ f = "missing" => requested[r].cookie = NoCookie
         /\ f = "required" => ~SessionLives(r)
         /\ step = "reply" => f = "unhandled"
         /\ f \in AllFailures
BY DEF CheckedSteps, Failures, FlawFailures, CookieFailures, HeaderFailures, OriginFailures,
   MutationFailures, PrincipalFailures, PermissionFailures, ReplyFailures, AuthFailures, AllFailures

LEMMA PassedMeans ==
  ASSUME NEW r \in HttpRequestIds, NEW step \in CheckedSteps, Passes(r, step)
  PROVE  /\ step = "session" => SessionLives(r) /\ FromThePage(r)
         /\ step = "principal" => SessionLives(r)
         /\ step = "permission" => permitted
<1>1. CASE step = "session"
  <2>1. CASE requested[r].route \in WorkforceRoutes
    <3> DEFINE found == {"session outage"} \cup IF ~SessionLives(r) THEN {"required"}
                                               ELSE IF FromThePage(r) THEN {} ELSE {"csrf"}
    <3>1. Failures(r, step) = {"csrf" : g \in found} /\ "session outage" \in found
      BY <1>1, <2>1 DEF Failures, MutationFailures
    <3>2. "csrf" \in Failures(r, step)
      BY <3>1
    <3> QED
      BY <1>1, <3>2 DEF Passes
  <2>2. CASE requested[r].route \notin WorkforceRoutes
    BY <1>1, <2>2 DEF Passes, Failures, MutationFailures
  <2> QED
    BY <2>1, <2>2, <1>1
<1>2. CASE step = "principal"
  BY <1>2 DEF Passes, Failures, PrincipalFailures
<1>3. CASE step = "permission"
  BY <1>3 DEF Passes, Failures, PermissionFailures
<1> QED
  BY <1>1, <1>2, <1>3

(* A request, its checks and its answer.                                   *)
StepsOf(r) == RouteSteps[requested[r].route]
Behind(r, step) == \E i \in 1 .. stepOf[r] : StepsOf(r)[i] = step
Named(r) == \E e \in ownerEffects : e.route = requested[r].route /\ e.key = requested[r].key

RequestIsKnown(r) == stepOf[r] >= 0 =>
  /\ requested[r].route \in Routes
  /\ requested[r].cookie \in issuedCookies \cup {NoCookie}
  /\ stepOf[r] <= Len(StepsOf(r))
  /\ requested[r].cookie \in liveSessions => "alive" \in trueSince[r]
  /\ permitted /\ httpStatus[r] = 0 => "permitted" \in trueSince[r]
NotYet(r) == stepOf[r] = -1 => httpStatus[r] = 0 /\ r \notin carriedOut
ChecksAreTrue(r) ==
  /\ Behind(r, "session") \/ Behind(r, "principal") => "alive" \in trueSince[r]
  /\ Behind(r, "permission") => "permitted" \in trueSince[r]
  /\ Behind(r, "session") => FromThePage(r)
  /\ Behind(r, "owner") /\ requested[r].route \in KeyedRoutes => Named(r)
CarriedOutIsLast(r) == r \in carriedOut =>
  /\ httpStatus[r] = 0 => stepOf[r] > 0 /\ StepsOf(r)[stepOf[r]] = "owner"
  /\ httpStatus[r] \in {0, 503} \cup 200 .. 299
  /\ requested[r].route \notin {"login", "logout"} => "alive" \in trueSince[r]
  /\ requested[r].route \notin AuthRoutes \cup {"bootstrap"} => "permitted" \in trueSince[r]
  /\ requested[r].route \in MutatingRoutes => FromThePage(r)
AnswerIsTrue(r) ==
  /\ httpStatus[r] \in 200 .. 299 /\ requested[r].route \in KeyedRoutes => Behind(r, "owner")
  /\ httpStatus[r] = 401 /\ requested[r].route \in {"session"} \cup FormRoutes \cup FileRoutes
       => requested[r].cookie \notin liveSessions
  /\ httpStatus[r] = 204 => requested[r].cookie \notin liveSessions
RequestGood(r) ==
  /\ RequestIsKnown(r) /\ NotYet(r) /\ ChecksAreTrue(r) /\ CarriedOutIsLast(r) /\ AnswerIsTrue(r)
EffectsAreTheirs == \A e \in ownerEffects :
  e.by \in carriedOut /\ e.id = OperationOf(e.route, e.key)

HttpInv == HttpTypeOK /\ EffectsAreTheirs /\ \A r \in HttpRequestIds : RequestGood(r)

LEMMA HttpStarts == HttpInit => HttpInv
<1> SUFFICES ASSUME HttpInit PROVE HttpInv
  OBVIOUS
<1>1. HttpTypeOK /\ EffectsAreTheirs
  BY DEF HttpInit, HttpTypeOK, EffectsAreTheirs
<1>2. ASSUME NEW r \in HttpRequestIds PROVE RequestGood(r)
  BY DEF HttpInit, RequestGood, RequestIsKnown, NotYet, ChecksAreTrue, CarriedOutIsLast,
     AnswerIsTrue, Behind
<1> QED
  BY <1>1, <1>2 DEF HttpInv

(* What sessions, permissions and effects may do beside a request.         *)
Beside ==
  /\ requested' = requested
  /\ issuedCookies \subseteq issuedCookies'
  /\ liveSessions' \subseteq liveSessions \cup (Cookies \ issuedCookies)
  /\ ownerEffects \subseteq ownerEffects'

LEMMA OthersStay ==
  ASSUME HttpTypeOK, Beside, NEW r \in HttpRequestIds, RequestGood(r),
         stepOf'[r] = stepOf[r], httpStatus'[r] = httpStatus[r],
         r \in carriedOut' => r \in carriedOut,
         trueSince[r] \subseteq trueSince'[r],
         permitted' => permitted \/ (Handled(r) => "permitted" \in trueSince'[r])
  PROVE  RequestGood(r)'
<1>0. stepOf[r] \in -1 .. 10
  BY DEF HttpTypeOK
<1>1. StepsOf(r)' = StepsOf(r) /\ FromThePage(r)' = FromThePage(r) /\ (Named(r) => Named(r)')
  BY DEF StepsOf, FromThePage, Named, Beside
<1>2. \A step : Behind(r, step)' <=> Behind(r, step)
  BY <1>1 DEF Behind
<1>3. stepOf[r] >= 0 /\ requested[r].cookie \notin liveSessions => requested[r].cookie \notin liveSessions'
  BY NoCookieAssumption DEF RequestGood, RequestIsKnown, Beside
<1>4. RequestIsKnown(r)' /\ NotYet(r)'
  BY <1>0, <1>1, <1>3 DEF RequestGood, RequestIsKnown, NotYet, Beside, Handled
<1>5. ChecksAreTrue(r)'
  BY <1>1, <1>2 DEF RequestGood, ChecksAreTrue, Beside
<1>6. CarriedOutIsLast(r)'
  BY <1>1 DEF RequestGood, CarriedOutIsLast, Beside
<1>7. AnswerIsTrue(r)'
  BY <1>0, <1>2, <1>3 DEF RequestGood, NotYet, AnswerIsTrue, Beside
<1> QED
  BY <1>4, <1>5, <1>6, <1>7 DEF RequestGood

LEMMA Awaited ==
  ASSUME HttpTypeOK, NEW r \in HttpRequestIds, NEW step, Awaiting(r, step), RequestGood(r)
  PROVE  /\ requested[r].route \in Routes /\ StepsGood(requested[r].route, StepsOf(r))
         /\ stepOf[r] \in 0 .. 10 /\ httpStatus[r] = 0
         /\ stepOf[r] + 1 \in 1 .. Len(StepsOf(r)) /\ StepsOf(r)[stepOf[r] + 1] = step
         /\ r \in carriedOut => step = "reply"
         /\ step = "reply" => Behind(r, "owner")
<1>1. /\ requested[r].route \in Routes /\ stepOf[r] \in 0 .. 10 /\ httpStatus[r] = 0
      /\ StepsOf(r)[stepOf[r] + 1] = step /\ stepOf[r] < Len(StepsOf(r))
  BY DEF HttpTypeOK, Awaiting, Handled, RequestGood, RequestIsKnown, StepsOf
<1>2. StepsGood(requested[r].route, StepsOf(r))
  BY <1>1, RoutesAreGood DEF StepsOf
<1>3. Len(StepsOf(r)) \in 3 .. 10 /\ stepOf[r] + 1 \in 1 .. Len(StepsOf(r))
  BY <1>1, <1>2 DEF StepsGood
<1>4. r \in carriedOut => step = "reply"
  <2>1. SUFFICES ASSUME r \in carriedOut PROVE step = "reply"
    OBVIOUS
  <2>2. stepOf[r] > 0 /\ StepsOf(r)[stepOf[r]] = "owner"
    BY <1>1, <2>1 DEF RequestGood, CarriedOutIsLast
  <2> QED
    BY <1>1, <1>2, <1>3, <2>2 DEF StepsGood
<1>5. step = "reply" => Behind(r, "owner")
  <2>1. SUFFICES ASSUME step = "reply" PROVE Behind(r, "owner")
    OBVIOUS
  <2>2. stepOf[r] \in 1 .. stepOf[r] /\ StepsOf(r)[stepOf[r]] = "owner"
    BY <1>1, <1>2, <1>3, <2>1 DEF StepsGood
  <2> QED
    BY <2>2 DEF Behind
<1> QED
  BY <1>1, <1>2, <1>3, <1>4, <1>5

(* What is true when a request gets to its owner.                          *)
LEMMA OwnerIsVouched ==
  ASSUME HttpTypeOK, NEW r \in HttpRequestIds, Awaiting(r, "owner"), RequestGood(r)
  PROVE  /\ requested[r].route \notin {"login", "logout"} => "alive" \in trueSince[r]
         /\ requested[r].route \notin AuthRoutes \cup {"bootstrap"} => "permitted" \in trueSince[r]
         /\ requested[r].route \in MutatingRoutes => FromThePage(r)
<1> DEFINE q == StepsOf(r)
           route == requested[r].route
<1>1. /\ StepsGood(route, q) /\ stepOf[r] \in 0 .. 10
      /\ stepOf[r] + 1 \in 1 .. Len(q) /\ q[stepOf[r] + 1] = "owner"
  BY Awaited
<1> HIDE DEF q, route
<1>2. ASSUME NEW i \in 1 .. Len(q), q[i] = "owner"
      PROVE  /\ route \notin {"login", "logout"} =>
                  \E j \in 1 .. i - 1 : q[j] = "session" \/ q[j] = "principal"
             /\ route \notin AuthRoutes \cup {"bootstrap"} =>
                  \E j \in 1 .. i - 1 : q[j] = "permission"
             /\ route \in MutatingRoutes => \E j \in 1 .. i - 1 : q[j] = "session"
  BY <1>1, <1>2 DEF StepsGood
<1>3. (stepOf[r] + 1) - 1 = stepOf[r]
  BY <1>1
<1>4. /\ route \notin {"login", "logout"} =>
           \E j \in 1 .. (stepOf[r] + 1) - 1 : q[j] = "session" \/ q[j] = "principal"
      /\ route \notin AuthRoutes \cup {"bootstrap"} =>
           \E j \in 1 .. (stepOf[r] + 1) - 1 : q[j] = "permission"
      /\ route \in MutatingRoutes => \E j \in 1 .. (stepOf[r] + 1) - 1 : q[j] = "session"
  BY <1>1, <1>2
<1>5. /\ route \notin {"login", "logout"} => Behind(r, "session") \/ Behind(r, "principal")
      /\ route \notin AuthRoutes \cup {"bootstrap"} => Behind(r, "permission")
      /\ route \in MutatingRoutes => Behind(r, "session")
  BY <1>3, <1>4 DEF Behind, q
<1> QED
  BY <1>5 DEF RequestGood, ChecksAreTrue, route

(* A request passes a step.                                                *)
LEMMA PassesOn ==
  ASSUME HttpTypeOK, Beside, NEW r \in HttpRequestIds, RequestGood(r),
         NEW step, Awaiting(r, step), GoesOn(r), RespondsAtEnd(r), UNCHANGED grantVars,
         step = "session" => SessionLives(r) /\ FromThePage(r),
         step = "principal" => SessionLives(r),
         step = "permission" => permitted,
         step = "owner" => /\ r \in carriedOut'
                           /\ requested[r].route \in KeyedRoutes => Named(r)'
                           /\ requested[r].route = "logout" =>
                                requested[r].cookie \notin liveSessions',
         step # "owner" => carriedOut' = carriedOut
  PROVE  RequestGood(r)' /\ httpStatus'[r] \in {0, 200, 201, 202, 204}
         /\ \A q \in HttpRequestIds \ {r} : stepOf'[q] = stepOf[q] /\ httpStatus'[q] = httpStatus[q]
<1> DEFINE q == StepsOf(r)
<1>0. /\ requested[r].route \in Routes /\ StepsGood(requested[r].route, q)
      /\ stepOf[r] \in 0 .. 10 /\ httpStatus[r] = 0
      /\ stepOf[r] + 1 \in 1 .. Len(q) /\ q[stepOf[r] + 1] = step
      /\ r \in carriedOut => step = "reply"
      /\ step = "reply" => Behind(r, "owner")
  BY Awaited
<1> HIDE DEF q
<1>1. StepsOf(r)' = q /\ FromThePage(r)' = FromThePage(r) /\ (Named(r) => Named(r)')
  BY DEF StepsOf, FromThePage, Named, Beside, q
<1>2. stepOf'[r] = stepOf[r] + 1
  BY DEF HttpTypeOK, GoesOn
<1>3. \A s : Behind(r, s)' <=> Behind(r, s) \/ s = step
  <2>1. ASSUME NEW s, NEW i \in 1 .. stepOf'[r] PROVE i \in 1 .. stepOf[r] \/ i = stepOf[r] + 1
    BY <1>0, <1>2
  <2>2. ASSUME NEW s, NEW i \in 1 .. stepOf[r] PROVE i \in 1 .. stepOf'[r]
    BY <1>0, <1>2
  <2>3. stepOf[r] + 1 \in 1 .. stepOf'[r]
    BY <1>0, <1>2
  <2> QED
    BY <1>0, <1>1, <2>1, <2>2, <2>3 DEF Behind, q
<1>4. /\ httpStatus'[r] = IF stepOf[r] + 1 = Len(q) THEN SuccessOf(requested[r].route) ELSE 0
      /\ SuccessOf(requested[r].route) \in {200, 201, 202, 204}
      /\ SuccessOf(requested[r].route) = 204 => requested[r].route = "logout"
  <2>1. httpStatus'[r] = IF stepOf[r] + 1 = Len(q) THEN SuccessOf(requested[r].route) ELSE 0
    BY <1>0 DEF HttpTypeOK, RespondsAtEnd, Responds, q, StepsOf
  <2>2. SuccessOf(requested[r].route) \in {200, 201, 202, 204}
    BY DEF SuccessOf
  <2>3. SuccessOf(requested[r].route) = 204 => requested[r].route = "logout"
    BY DEF SuccessOf
  <2> QED
    BY <2>1, <2>2, <2>3
<1>5. /\ httpStatus'[r] \in {0, 200, 201, 202, 204}
      /\ httpStatus'[r] \in {0} \cup 200 .. 299
  BY <1>4
<1>6. stepOf[r] >= 0 /\ requested[r].cookie \notin liveSessions => requested[r].cookie \notin liveSessions'
  BY NoCookieAssumption DEF RequestGood, RequestIsKnown, Beside
<1>7. RequestIsKnown(r)' /\ NotYet(r)'
  BY <1>0, <1>1, <1>2, <1>6 DEF RequestGood, RequestIsKnown, NotYet, Beside, grantVars
<1>8. ChecksAreTrue(r)'
  BY <1>0, <1>1, <1>3 DEF RequestGood, ChecksAreTrue, RequestIsKnown, Beside, grantVars, SessionLives
<1>9. CarriedOutIsLast(r)'
  <2>1. CASE step = "owner"
    <3>2. /\ requested[r].route \notin {"login", "logout"} => "alive" \in trueSince[r]
          /\ requested[r].route \notin AuthRoutes \cup {"bootstrap"} => "permitted" \in trueSince[r]
          /\ requested[r].route \in MutatingRoutes => FromThePage(r)
      BY <2>1, OwnerIsVouched
    <3> QED
      BY <1>0, <1>1, <1>2, <1>5, <2>1, <3>2 DEF CarriedOutIsLast, Beside, grantVars
  <2>2. CASE step # "owner" /\ r \in carriedOut
    <3>1. step = "reply" /\ stepOf[r] + 1 = Len(q)
      BY <1>0, <2>2 DEF StepsGood
    <3>2. httpStatus'[r] \in 200 .. 299
      BY <3>1, <1>4
    <3> QED
      BY <1>1, <2>2, <3>2 DEF RequestGood, CarriedOutIsLast, Beside, grantVars
  <2>3. CASE step # "owner" /\ r \notin carriedOut
    BY <2>3 DEF CarriedOutIsLast
  <2> QED
    BY <2>1, <2>2, <2>3
<1>10. AnswerIsTrue(r)'
  <2>1. CASE stepOf[r] + 1 # Len(q)
    <3>1. httpStatus'[r] = 0
      BY <1>4, <2>1
    <3> QED
      BY <3>1 DEF AnswerIsTrue
  <2>2. CASE stepOf[r] + 1 = Len(q)
    <3>1. httpStatus'[r] # 401 /\ (httpStatus'[r] = 204 => requested[r].route = "logout")
      BY <1>4, <2>2
    <3>2. requested[r].route = "logout" => step = "owner"
      BY <1>0, <2>2 DEF StepsGood
    <3>3. requested[r].route \in KeyedRoutes => Behind(r, "owner")'
      <4>1. requested[r].route \in KeyedRoutes => \E j \in 1 .. stepOf'[r] : q[j] = "owner"
        BY <1>0, <1>2, <2>2 DEF StepsGood
      <4> QED
        BY <1>1, <4>1 DEF Behind
    <3> QED
      BY <3>1, <3>2, <3>3 DEF AnswerIsTrue, Beside
  <2> QED
    BY <2>1, <2>2
<1>11. \A p \in HttpRequestIds \ {r} : stepOf'[p] = stepOf[p] /\ httpStatus'[p] = httpStatus[p]
  BY DEF HttpTypeOK, GoesOn, RespondsAtEnd, Responds
<1> QED
  BY <1>5, <1>7, <1>8, <1>9, <1>10, <1>11 DEF RequestGood

(* A request is answered where it stands.                                  *)
LEMMA IsAnswered ==
  ASSUME HttpTypeOK, Beside, NEW r \in HttpRequestIds, RequestGood(r),
         NEW step, Awaiting(r, step), UNCHANGED <<stepOf, grantVars>>,
         NEW code \in Refusals \cup {204}, Responds(r, code),
         \/ carriedOut' = carriedOut /\ (r \in carriedOut => code = 503)
         \/ /\ carriedOut' = carriedOut \cup {r} /\ code = 503 /\ step = "owner",
         /\ code = 401 /\ requested[r].route \in {"session"} \cup FormRoutes \cup FileRoutes
              => requested[r].cookie \notin liveSessions,
         code = 204 => requested[r].cookie \notin liveSessions /\ requested[r].route = "logout"
  PROVE  RequestGood(r)' /\ httpStatus'[r] = code
         /\ \A q \in HttpRequestIds \ {r} : stepOf'[q] = stepOf[q] /\ httpStatus'[q] = httpStatus[q]
<1>0. /\ requested[r].route \in Routes /\ StepsGood(requested[r].route, StepsOf(r))
      /\ stepOf[r] \in 0 .. 10 /\ httpStatus[r] = 0
      /\ stepOf[r] + 1 \in 1 .. Len(StepsOf(r)) /\ StepsOf(r)[stepOf[r] + 1] = step
  BY Awaited
<1>1. StepsOf(r)' = StepsOf(r) /\ FromThePage(r)' = FromThePage(r) /\ (Named(r) => Named(r)')
  BY DEF StepsOf, FromThePage, Named, Beside
<1>2. \A s : Behind(r, s)' <=> Behind(r, s)
  BY <1>1 DEF Behind
<1>3. httpStatus'[r] = code /\ code # 0
  BY DEF HttpTypeOK, Responds, Refusals
<1>4. requested[r].cookie \notin liveSessions => requested[r].cookie \notin liveSessions'
  BY <1>0, NoCookieAssumption DEF RequestGood, RequestIsKnown, Beside
<1>5. RequestIsKnown(r)' /\ NotYet(r)'
  BY <1>0, <1>1, <1>3, <1>4 DEF RequestGood, RequestIsKnown, NotYet, Beside, grantVars
<1>6. ChecksAreTrue(r)'
  BY <1>1, <1>2 DEF RequestGood, ChecksAreTrue, Beside, grantVars
<1>7. CarriedOutIsLast(r)'
  <2>1. CASE step = "owner"
    <3>2. /\ requested[r].route \notin {"login", "logout"} => "alive" \in trueSince[r]
          /\ requested[r].route \notin AuthRoutes \cup {"bootstrap"} => "permitted" \in trueSince[r]
          /\ requested[r].route \in MutatingRoutes => FromThePage(r)
      BY <2>1, OwnerIsVouched
    <3>3. r \in carriedOut' => httpStatus'[r] = 503
      BY <1>3
    <3> QED
      BY <1>1, <3>2, <3>3 DEF CarriedOutIsLast, Beside, grantVars
  <2>2. CASE step # "owner"
    <3>1. r \in carriedOut' => r \in carriedOut /\ httpStatus'[r] = 503
      BY <2>2, <1>3
    <3> QED
      BY <1>1, <3>1 DEF RequestGood, CarriedOutIsLast, Beside, grantVars
  <2> QED
    BY <2>1, <2>2
<1>8. AnswerIsTrue(r)'
  <2>1. code \notin 200 .. 299 \/ code = 204
    BY DEF Refusals
  <2>2. code = 204 => requested[r].route \notin KeyedRoutes
    BY DEF KeyedRoutes, TemplateRoutes
  <2> QED
    BY <1>3, <1>4, <2>1, <2>2 DEF AnswerIsTrue, Beside
<1>9. \A q \in HttpRequestIds \ {r} : stepOf'[q] = stepOf[q] /\ httpStatus'[q] = httpStatus[q]
  BY DEF HttpTypeOK, Responds
<1> QED
  BY <1>3, <1>5, <1>6, <1>7, <1>8, <1>9 DEF RequestGood

(* A request arrives.                                                      *)
LEMMA Arrives ==
  ASSUME HttpTypeOK, NEW r \in HttpRequestIds, RequestGood(r), RequestArrives(r)
  PROVE  RequestGood(r)'
<1>1. /\ httpStatus'[r] = 0 /\ r \notin carriedOut' /\ stepOf'[r] = 0
      /\ trueSince'[r] = TrueNow(r) /\ requested' = requested
      /\ UNCHANGED <<liveSessions, issuedCookies, permitted>>
  BY DEF HttpTypeOK, RequestArrives, RequestGood, NotYet, ownerVars, cookieVars
<1>2. /\ requested[r].cookie \in liveSessions => "alive" \in trueSince'[r]
      /\ permitted => "permitted" \in trueSince'[r]
  BY <1>1 DEF TrueNow
<1>3. requested[r].route \in Routes /\ requested[r].cookie \in issuedCookies \cup {NoCookie}
  BY DEF RequestArrives
<1>4. 0 <= Len(StepsOf(r))
  BY <1>3, RoutesAreGood DEF StepsOf, StepsGood
<1>5. RequestIsKnown(r)' /\ NotYet(r)'
  BY <1>1, <1>2, <1>3, <1>4 DEF RequestIsKnown, NotYet, StepsOf
<1>6. \A s : ~Behind(r, s)'
  BY <1>1 DEF Behind
<1> QED
  BY <1>1, <1>5, <1>6 DEF RequestGood, ChecksAreTrue, CarriedOutIsLast, AnswerIsTrue

(* A key names one operation.                                              *)
LEMMA OperationsDiffer ==
  ASSUME NEW ra \in Routes, NEW rb \in Routes, NEW ka, NEW kb,
         OperationOf(ra, ka) = OperationOf(rb, kb), rb \in FileRoutes => ra = rb
  PROVE  ra = rb /\ ka = kb
<1>1. CASE rb \in TemplateRoutes
  BY <1>1 DEF OperationOf, TemplateRoutes, FileRoutes
<1>2. CASE rb \in FileRoutes
  BY <1>2 DEF OperationOf, TemplateRoutes, FileRoutes
<1>3. CASE rb \notin TemplateRoutes \cup FileRoutes
  BY <1>3 DEF OperationOf, TemplateRoutes, FileRoutes
<1> QED
  BY <1>1, <1>2, <1>3

(* The others beside one that acts.                                        *)
LEMMA AllStay ==
  ASSUME HttpInv, Beside, NEW r \in HttpRequestIds, HttpTypeOK', RequestGood(r)',
         \A q \in HttpRequestIds \ {r} : /\ stepOf'[q] = stepOf[q] /\ httpStatus'[q] = httpStatus[q]
                                         /\ trueSince'[q] = trueSince[q],
         permitted' = permitted,
         carriedOut' \in {carriedOut, carriedOut \cup {r}},
         ownerEffects' = ownerEffects
           \/ (r \in carriedOut' /\ ownerEffects' = ownerEffects \cup {Effect(r)})
  PROVE  HttpInv'
<1>1. ASSUME NEW q \in HttpRequestIds PROVE RequestGood(q)'
  <2>1. CASE q = r
    BY <2>1
  <2>2. CASE q # r
    BY <2>2, OthersStay DEF HttpInv
  <2> QED
    BY <2>1, <2>2
<1>2. EffectsAreTheirs'
  BY DEF HttpInv, EffectsAreTheirs, Effect
<1> QED
  BY <1>1, <1>2 DEF HttpInv

LEMMA HttpGoesOn == HttpInv /\ [HttpNext]_httpVars => HttpInv'
<1> SUFFICES ASSUME HttpInv, [HttpNext]_httpVars PROVE HttpInv'
  OBVIOUS
<1> USE DEF cookieVars, grantVars, ownerVars
<1>0. HttpTypeOK /\ EffectsAreTheirs /\ \A r \in HttpRequestIds : RequestGood(r)
  BY DEF HttpInv
<1>1. CASE UNCHANGED httpVars
  <2>1. Beside /\ HttpTypeOK'
    BY <1>0, <1>1 DEF httpVars, Beside, HttpTypeOK
  <2>2. ASSUME NEW r \in HttpRequestIds PROVE RequestGood(r)'
    BY <1>0, <1>1, <2>1, OthersStay DEF httpVars
  <2> QED
    BY <1>0, <1>1, <2>1, <2>2 DEF httpVars, HttpInv, EffectsAreTheirs
<1>2. CASE SessionOver
  <2>1. Beside /\ HttpTypeOK'
    BY <1>0, <1>2 DEF SessionOver, Beside, HttpTypeOK
  <2>2. ASSUME NEW r \in HttpRequestIds PROVE RequestGood(r)'
    BY <1>0, <1>2, <2>1, OthersStay DEF SessionOver
  <2> QED
    BY <1>0, <1>2, <2>1, <2>2 DEF SessionOver, HttpInv, EffectsAreTheirs
<1>3. CASE Permit
  <2>1. permitted' \in BOOLEAN
    BY <1>0, <1>3 DEF Permit, HttpTypeOK
  <2>2. trueSince' \in [HttpRequestIds -> SUBSET {"alive", "permitted"}]
    BY <1>0, <1>3 DEF Permit, HttpTypeOK
  <2>3. Beside /\ HttpTypeOK'
    BY <1>0, <1>3, <2>1, <2>2 DEF Permit, Beside, HttpTypeOK
  <2>4. ASSUME NEW r \in HttpRequestIds PROVE RequestGood(r)'
    <3>1. trueSince[r] \subseteq trueSince'[r]
      BY <1>3 DEF Permit
    <3>2. permitted' => (Handled(r) => "permitted" \in trueSince'[r])
      BY <1>3 DEF Permit
    <3> QED
      BY <1>0, <1>3, <2>3, <3>1, <3>2, OthersStay DEF Permit
  <2> QED
    BY <1>0, <1>3, <2>3, <2>4 DEF Permit, HttpInv, EffectsAreTheirs
<1>4. ASSUME NEW r \in HttpRequestIds, RequestArrives(r) PROVE HttpInv'
  <2>1. HttpTypeOK'
    <3>1. TrueNow(r) \in SUBSET {"alive", "permitted"}
      BY DEF TrueNow
    <3> QED
      BY <1>0, <1>4, <3>1 DEF RequestArrives, HttpTypeOK
  <2>2. Beside
    BY <1>4 DEF RequestArrives, Beside
  <2>3. \A q \in HttpRequestIds \ {r} :
          stepOf'[q] = stepOf[q] /\ httpStatus'[q] = httpStatus[q] /\ trueSince'[q] = trueSince[q]
    BY <1>0, <1>4 DEF RequestArrives, HttpTypeOK
  <2>4. RequestGood(r)'
    BY <1>0, <1>4, Arrives
  <2> QED
    BY <1>4, <2>1, <2>2, <2>3, <2>4, AllStay DEF RequestArrives
<1>5. ASSUME NEW r \in HttpRequestIds, NEW step, Awaiting(r, step), Beside,
             issuedCookies' \subseteq Cookies, liveSessions' \subseteq issuedCookies',
             UNCHANGED <<permitted, trueSince>>,
             RequestGood(r)' /\ httpStatus'[r] \in Refusals \cup {0, 200, 201, 202, 204},
             \A q \in HttpRequestIds \ {r} : stepOf'[q] = stepOf[q] /\ httpStatus'[q] = httpStatus[q],
             stepOf' = stepOf \/ GoesOn(r),
             httpStatus' = httpStatus \/ \E code : Responds(r, code),
             carriedOut' \in {carriedOut, carriedOut \cup {r}},
             \/ ownerEffects' = ownerEffects
             \/ r \in carriedOut' /\ ownerEffects' = ownerEffects \cup {Effect(r)}
      PROVE  HttpInv'
  <2>1. /\ requested[r].route \in Routes /\ StepsGood(requested[r].route, StepsOf(r))
        /\ stepOf[r] \in 0 .. 10 /\ stepOf[r] + 1 \in 1 .. Len(StepsOf(r))
    BY <1>0, <1>5, Awaited
  <2>2. stepOf' \in [HttpRequestIds -> -1 .. 10]
    <3>1. stepOf[r] + 1 \in -1 .. 10
      BY <2>1 DEF StepsGood
    <3> QED
      BY <1>0, <1>5, <3>1 DEF GoesOn, HttpTypeOK
  <2>3. httpStatus' \in [HttpRequestIds -> {0, 200, 201, 202, 204, 400, 401, 403, 404, 409, 429, 503}]
    <3>1. httpStatus'[r] \in {0, 200, 201, 202, 204, 400, 401, 403, 404, 409, 429, 503}
      BY <1>5 DEF Refusals
    <3>2. httpStatus' = [httpStatus EXCEPT ![r] = httpStatus'[r]]
      BY <1>0, <1>5 DEF Responds, HttpTypeOK
    <3> QED
      BY <1>0, <3>1, <3>2 DEF HttpTypeOK
  <2>4. \A e \in ownerEffects' : e.route \in Routes /\ e.by \in HttpRequestIds
    BY <1>0, <1>5, <2>1 DEF HttpTypeOK, Effect
  <2>5. HttpTypeOK'
    BY <1>0, <1>5, <2>2, <2>3, <2>4 DEF HttpTypeOK, Beside
  <2> QED
    BY <1>5, <2>5, AllStay
<1>6. ASSUME NEW r \in HttpRequestIds, NEW step \in CheckedSteps, Awaiting(r, step), Passes(r, step),
             GoesOn(r), RespondsAtEnd(r), UNCHANGED <<requested, cookieVars, grantVars, ownerVars>>
      PROVE  HttpInv'
  <2>1. Beside /\ step # "owner" /\ issuedCookies' \subseteq Cookies /\ liveSessions' \subseteq issuedCookies'
    BY <1>0, <1>6 DEF Beside, HttpTypeOK, CheckedSteps
  <2>2. /\ step = "session" => SessionLives(r) /\ FromThePage(r)
        /\ step = "principal" => SessionLives(r)
        /\ step = "permission" => permitted
    BY <1>6, PassedMeans
  <2>3. RequestGood(r)' /\ httpStatus'[r] \in {0, 200, 201, 202, 204}
        /\ \A q \in HttpRequestIds \ {r} : stepOf'[q] = stepOf[q] /\ httpStatus'[q] = httpStatus[q]
    BY <1>0, <1>6, <2>1, <2>2, PassesOn
  <2> QED
    BY <1>5, <1>6, <2>1, <2>3 DEF RespondsAtEnd
<1>7. ASSUME NEW r \in HttpRequestIds, NEW step, Awaiting(r, step),
             NEW code \in Refusals \cup {204}, Responds(r, code),
             UNCHANGED <<requested, stepOf, cookieVars, grantVars, ownerVars>>,
             r \in carriedOut => code = 503,
             code = 401 /\ requested[r].route \in {"session"} \cup FormRoutes \cup FileRoutes
               => requested[r].cookie \notin liveSessions,
             code = 204 => requested[r].cookie \notin liveSessions /\ requested[r].route = "logout"
      PROVE  HttpInv'
  <2>1. Beside /\ issuedCookies' \subseteq Cookies /\ liveSessions' \subseteq issuedCookies'
    BY <1>0, <1>7 DEF Beside, HttpTypeOK
  <2>2. RequestGood(r)' /\ httpStatus'[r] = code
        /\ \A q \in HttpRequestIds \ {r} : stepOf'[q] = stepOf[q] /\ httpStatus'[q] = httpStatus[q]
    BY <1>0, <1>7, <2>1, IsAnswered
  <2> QED
    BY <1>5, <1>7, <2>1, <2>2
<1>8. ASSUME NEW r \in HttpRequestIds, CheckStep(r) PROVE HttpInv'
  <2>1. PICK step \in CheckedSteps :
          /\ Awaiting(r, step)
          /\ \/ Passes(r, step) /\ GoesOn(r) /\ RespondsAtEnd(r)
             \/ /\ \E f \in Failures(r, step) : Responds(r, StatusOf(requested[r].route, f))
                /\ UNCHANGED stepOf
    BY <1>8 DEF CheckStep, CheckedSteps
  <2>2. UNCHANGED <<requested, cookieVars, grantVars, ownerVars>>
    BY <1>8 DEF CheckStep
  <2>3. CASE Passes(r, step) /\ GoesOn(r) /\ RespondsAtEnd(r)
    BY <1>6, <2>1, <2>2, <2>3
  <2>4. ASSUME NEW f \in Failures(r, step), Responds(r, StatusOf(requested[r].route, f)), UNCHANGED stepOf
        PROVE  HttpInv'
    <3> DEFINE route == requested[r].route
               code == StatusOf(route, f)
    <3>1. /\ route \in Routes /\ StepsGood(route, StepsOf(r))
          /\ r \in carriedOut => step = "reply"
          /\ stepOf[r] + 1 \in 1 .. Len(StepsOf(r)) /\ StepsOf(r)[stepOf[r] + 1] = step
      BY <1>0, <2>1, Awaited
    <3>2. /\ step \in {"trace", "form", "origin", "cookie", "session", "current"} => f \in AuthFailures
          /\ step \in {"trace", "cookie", "current"} =>
               f \in {"trace", "missing", "required", "session outage"}
          /\ f = "missing" => requested[r].cookie = NoCookie
          /\ f = "required" => ~SessionLives(r)
          /\ step = "reply" => f = "unhandled"
          /\ f \in AllFailures
      BY <2>4, FailuresAre
    <3>3. /\ route \in AuthRoutes =>
               step \in {"trace", "form", "origin", "cookie", "session", "current", "leave", "owner"}
          /\ route = "session" => step \in {"trace", "cookie", "current"}
          /\ step = "reply" => route \notin AuthRoutes
      BY <3>1 DEF StepsGood, AuthRoutes
    <3>4. route \notin AuthRoutes \/ f \in AuthFailures
      BY <3>2, <3>3 DEF CheckedSteps
    <3>5. code \in Refusals
      BY <3>1, <3>2, <3>4, RefusalsAre
    <3>6. r \in carriedOut => code = 503
      BY <3>1, <3>2, <3>3, StatusesAre
    <3>7. code = 401 /\ route \in {"session"} \cup FormRoutes \cup FileRoutes
            => requested[r].cookie \notin liveSessions
      <4>1. code = 401 /\ route \in {"session"} \cup FormRoutes \cup FileRoutes
              => f \in {"missing", "required"}
        <5>1. SUFFICES ASSUME SaysSignedOut(route, f),
                              route \in {"session"} \cup FormRoutes \cup FileRoutes
                       PROVE  f \in {"missing", "required"}
          BY DEF SaysSignedOut
        <5>2. \/ route \in FormRoutes \cup FileRoutes
              \/ route = "session" /\ f \in {"trace", "missing", "required", "session outage"}
          BY <5>1, <3>2, <3>3
        <5>3. route \in Routes /\ f \in AllFailures
          BY <3>1, <3>2
        <5> QED
          BY <5>1, <5>2, <5>3, SessionsAreMissed
      <4>2. NoCookie \notin liveSessions
        BY <1>0, NoCookieAssumption DEF HttpTypeOK
      <4> QED
        BY <3>2, <4>1, <4>2 DEF SessionLives
    <3>8. code # 204
      BY <3>5 DEF Refusals
    <3> HIDE DEF code
    <3>9. Responds(r, code)
      BY <2>4 DEF code
    <3> QED
      BY <1>7, <2>1, <2>2, <2>4, <3>5, <3>6, <3>7, <3>8, <3>9
  <2> QED
    BY <2>1, <2>3, <2>4
<1>9. ASSUME NEW r \in HttpRequestIds, Leave(r) PROVE HttpInv'
  <2>1. /\ requested[r].route = "logout" /\ r \notin carriedOut /\ Awaiting(r, "leave")
        /\ stepOf[r] + 1 # Len(StepsOf(r))
    BY <1>0, <1>9, Awaited DEF Leave, StepsGood
  <2>2. UNCHANGED <<requested, cookieVars, grantVars, ownerVars>>
    BY <1>9 DEF Leave
  <2>3. CASE GoesOn(r) /\ UNCHANGED httpStatus
    <3>1. RespondsAtEnd(r)
      BY <2>1, <2>3 DEF RespondsAtEnd, StepsOf
    <3>2. Beside /\ issuedCookies' \subseteq Cookies /\ liveSessions' \subseteq issuedCookies'
      BY <1>0, <2>2 DEF Beside, HttpTypeOK
    <3>3. RequestGood(r)' /\ httpStatus'[r] \in {0, 200, 201, 202, 204}
        /\ \A q \in HttpRequestIds \ {r} : stepOf'[q] = stepOf[q] /\ httpStatus'[q] = httpStatus[q]
      BY <1>0, <2>1, <2>2, <2>3, <3>1, <3>2, PassesOn
    <3> QED
      BY <1>5, <2>1, <2>2, <2>3, <3>2, <3>3
  <2>4. ASSUME NEW code \in {204, 403, 503}, Responds(r, code), UNCHANGED stepOf,
               code = 204 => ~SessionLives(r)
        PROVE  HttpInv'
    <3>1. code \in Refusals \cup {204} /\ code # 401
      BY DEF Refusals
    <3> QED
      BY <1>7, <2>1, <2>2, <2>4, <3>1 DEF SessionLives
  <2> QED
    BY <1>9, <2>3, <2>4 DEF Leave
<1>10. ASSUME NEW r \in HttpRequestIds, Awaiting(r, "owner"), OwnerDone(r), Beside,
              issuedCookies' \subseteq Cookies, liveSessions' \subseteq issuedCookies',
              UNCHANGED grantVars,
              ownerEffects' = ownerEffects \/ ownerEffects' = ownerEffects \cup {Effect(r)},
              requested[r].route \in KeyedRoutes => Named(r)',
              requested[r].route = "logout" => requested[r].cookie \notin liveSessions'
       PROVE  HttpInv'
  <2>1. RequestGood(r)' /\ httpStatus'[r] \in {0, 200, 201, 202, 204}
        /\ \A q \in HttpRequestIds \ {r} : stepOf'[q] = stepOf[q] /\ httpStatus'[q] = httpStatus[q]
    BY <1>0, <1>10, PassesOn DEF OwnerDone
  <2> QED
    BY <1>5, <1>10, <2>1 DEF OwnerDone, RespondsAtEnd
<1>11. ASSUME NEW r \in HttpRequestIds, OpensSession(r) PROVE HttpInv'
  <2>1. Beside /\ issuedCookies' \subseteq Cookies /\ liveSessions' \subseteq issuedCookies'
    BY <1>0, <1>11 DEF OpensSession, Beside, HttpTypeOK
  <2>2. requested[r].route \notin KeyedRoutes \cup {"logout"}
    BY <1>11 DEF OpensSession, KeyedRoutes, TemplateRoutes
  <2> QED
    BY <1>10, <1>11, <2>1, <2>2 DEF OpensSession
<1>12. ASSUME NEW r \in HttpRequestIds, EndsSession(r) PROVE HttpInv'
  <2>1. /\ Beside /\ issuedCookies' \subseteq Cookies /\ liveSessions' \subseteq issuedCookies'
        /\ requested[r].cookie \notin liveSessions'
    BY <1>0, <1>12 DEF EndsSession, Beside, HttpTypeOK
  <2>2. requested[r].route \notin KeyedRoutes
    BY <1>12 DEF EndsSession, KeyedRoutes, TemplateRoutes
  <2> QED
    BY <1>10, <1>12, <2>1, <2>2 DEF EndsSession
<1>13. ASSUME NEW r \in HttpRequestIds, Awaiting(r, "owner"), requested' = requested,
              ownerEffects' = ownerEffects \cup {Effect(r)}
       PROVE  Named(r)'
  <2>1. /\ Effect(r) \in ownerEffects' /\ Effect(r).route = requested[r].route
        /\ Effect(r).key = requested[r].key
    BY <1>13 DEF Effect
  <2> QED
    BY <1>13, <2>1 DEF Named
<1>14. ASSUME NEW r \in HttpRequestIds, OwnerAnswers(r) PROVE HttpInv'
  <2>1. /\ Beside /\ issuedCookies' \subseteq Cookies /\ liveSessions' \subseteq issuedCookies'
        /\ Awaiting(r, "owner") /\ requested[r].route \in Routes
    BY <1>0, <1>14, Awaited DEF OwnerAnswers, Beside, HttpTypeOK
  <2>2. requested[r].route # "logout"
    BY <1>14 DEF OwnerAnswers, AuthRoutes
  <2>3. ownerEffects' = ownerEffects \/ ownerEffects' = ownerEffects \cup {Effect(r)}
    BY <1>14 DEF OwnerAnswers
  <2>4. ASSUME requested[r].route \in KeyedRoutes PROVE Named(r)'
    <3>1. CASE ownerEffects' = ownerEffects \cup {Effect(r)}
      BY <1>13, <1>14, <2>1, <3>1 DEF Beside
    <3>2. CASE /\ EarlierEffects(r) # {}
               /\ requested[r].route \in FileRoutes =>
                    \A e \in EarlierEffects(r) : e.route = requested[r].route
               /\ UNCHANGED ownerEffects
      <4>1. PICK e \in ownerEffects : e \in EarlierEffects(r)
        BY <3>2 DEF EarlierEffects
      <4>2. OperationOf(e.route, e.key) = OperationOf(requested[r].route, requested[r].key)
        BY <1>0, <4>1 DEF EarlierEffects, Effect, EffectsAreTheirs
      <4>3. e.route \in Routes
        BY <1>0 DEF HttpTypeOK
      <4>4. e.route = requested[r].route /\ e.key = requested[r].key
        BY <2>1, <3>2, <4>1, <4>2, <4>3, OperationsDiffer
      <4> QED
        BY <2>1, <3>2, <4>4 DEF Named, Beside
    <3> QED
      BY <1>14, <2>4, <3>1, <3>2 DEF OwnerAnswers
  <2> QED
    BY <1>10, <1>14, <2>1, <2>2, <2>3, <2>4 DEF OwnerAnswers
<1>15. ASSUME NEW r \in HttpRequestIds, OwnerRefuses(r) PROVE HttpInv'
  <2>1. PICK f \in OwnerRefusals(requested[r].route) : Responds(r, StatusOf(requested[r].route, f))
    BY <1>15 DEF OwnerRefuses
  <2> DEFINE route == requested[r].route
             code == StatusOf(route, f)
  <2>2. /\ Awaiting(r, "owner") /\ route \in Routes /\ r \notin carriedOut
        /\ StepsGood(route, StepsOf(r))
        /\ stepOf[r] + 1 \in 1 .. Len(StepsOf(r)) /\ StepsOf(r)[stepOf[r] + 1] = "owner"
    BY <1>0, <1>15, Awaited DEF OwnerRefuses
  <2>3. route # "session"
    BY <2>2 DEF StepsGood, AuthRoutes
  <2>4. /\ f \in AllFailures /\ (route \in AuthRoutes => f \in AuthFailures)
        /\ route \in FormRoutes \cup FileRoutes => f \notin {"missing", "required"}
    BY <2>3 DEF OwnerRefusals, AllFailures, AuthFailures, AuthRoutes, FormRoutes, FileRoutes
  <2>5. code \in Refusals
    BY <2>2, <2>4, RefusalsAre
  <2>6. ~(code = 401 /\ route \in {"session"} \cup FormRoutes \cup FileRoutes)
    <3>1. SUFFICES ASSUME SaysSignedOut(route, f),
                          route \in {"session"} \cup FormRoutes \cup FileRoutes
                   PROVE  FALSE
      BY DEF SaysSignedOut
    <3>2. route \in FormRoutes \cup FileRoutes
      BY <3>1, <2>3
    <3>3. route \in Routes /\ f \in AllFailures
      BY <2>2, <2>4
    <3>4. f \in {"missing", "required"}
      BY <3>1, <3>2, <3>3, SessionsAreMissed
    <3> QED
      BY <2>4, <3>2, <3>4
  <2>7. code # 204
    BY <2>5 DEF Refusals
  <2>8. Responds(r, code)
    BY <2>1
  <2> HIDE DEF code
  <2> QED
    BY <1>7, <1>15, <2>2, <2>5, <2>6, <2>7, <2>8 DEF OwnerRefuses
<1>16. ASSUME NEW r \in HttpRequestIds, OwnerAnswerLost(r) PROVE HttpInv'
  <2>1. /\ Awaiting(r, "owner") /\ requested[r].route \in Routes
    BY <1>0, <1>16, Awaited DEF OwnerAnswerLost
  <2>2. requested[r].route \notin AuthRoutes
    BY <1>16 DEF OwnerAnswerLost, KeyedRoutes, AuthRoutes, TemplateRoutes
  <2>3. StatusOf(requested[r].route, "outage") = 503
    BY <2>1, <2>2, StatusesAre DEF AllFailures
  <2>4. Responds(r, 503) /\ 503 \in Refusals \cup {204} /\ 503 # 401 /\ 503 # 204
    BY <1>16, <2>3 DEF OwnerAnswerLost, Refusals
  <2>5. /\ Beside /\ issuedCookies' \subseteq Cookies /\ liveSessions' \subseteq issuedCookies'
        /\ UNCHANGED <<stepOf, grantVars>> /\ carriedOut' = carriedOut \cup {r}
        /\ ownerEffects' = ownerEffects \cup {Effect(r)}
    BY <1>0, <1>16 DEF OwnerAnswerLost, Beside, HttpTypeOK
  <2>6. RequestGood(r)' /\ httpStatus'[r] = 503
        /\ \A q \in HttpRequestIds \ {r} : stepOf'[q] = stepOf[q] /\ httpStatus'[q] = httpStatus[q]
    BY <1>0, <2>1, <2>4, <2>5, IsAnswered
  <2> QED
    BY <1>5, <2>1, <2>4, <2>5, <2>6
<1> QED
  BY <1>1, <1>2, <1>3, <1>4, <1>8, <1>9, <1>11, <1>12, <1>14, <1>15, <1>16 DEF HttpNext

LEMMA HttpMeans ==
  HttpInv => ServedWasVouched /\ RefusedHasNoEffect /\ ServedHasEffect /\ SignedOutIsOver
               /\ LoggedOutIsOver
<1> SUFFICES ASSUME HttpInv
             PROVE  ServedWasVouched /\ RefusedHasNoEffect /\ ServedHasEffect /\ SignedOutIsOver
                      /\ LoggedOutIsOver
  OBVIOUS
<1>0. \A r \in HttpRequestIds : RequestGood(r)
  BY DEF HttpInv
<1>1. ServedWasVouched
  BY <1>0 DEF ServedWasVouched, HttpInv, HttpTypeOK, RequestGood, CarriedOutIsLast
<1>2. RefusedHasNoEffect
  <2>1. ASSUME NEW r \in HttpRequestIds, NEW e \in ownerEffects, e.by = r
        PROVE  httpStatus[r] \notin 400 .. 499
    BY <1>0, <2>1 DEF HttpInv, EffectsAreTheirs, RequestGood, CarriedOutIsLast
  <2> QED
    BY <2>1 DEF RefusedHasNoEffect
<1>3. ServedHasEffect
  BY <1>0 DEF ServedHasEffect, RequestGood, AnswerIsTrue, ChecksAreTrue, Named
<1>4. SignedOutIsOver /\ LoggedOutIsOver
  BY <1>0 DEF SignedOutIsOver, LoggedOutIsOver, RequestGood, AnswerIsTrue
<1> QED
  BY <1>1, <1>2, <1>3, <1>4

(* A request is carried out only with a session, a permission and a token  *)
(* that were good while it was handled, and its answer is true.            *)
THEOREM AnswersAreTrue ==
  HttpSpec => [](/\ HttpTypeOK /\ ServedWasVouched /\ RefusedHasNoEffect /\ ServedHasEffect
                 /\ SignedOutIsOver /\ LoggedOutIsOver)
<1>1. HttpInv => HttpTypeOK
  BY DEF HttpInv
<1> QED
  BY <1>1, HttpStarts, HttpGoesOn, HttpMeans, PTL DEF HttpSpec

-----------------------------------------------------------------------------
(* The workbench: a fetch under way belongs to the session it was sent for.*)

(* The sessions that the browser may have been sent a cookie of.           *)
Begun == IF signingIn \in SignIns THEN lastSession - 1 ELSE lastSession
SignInIsFresh ==
  /\ signingIn \in SignIns => signingIn = lastSession
  /\ browserHolds <= Begun /\ fetching.sent <= Begun /\ shownData.session <= Begun

(* A fetch that was not sent with the browser's cookie cannot succeed, and *)
(* what is shown is of that cookie, or about to be replaced.               *)
FetchIsCurrent ==
  /\ fetching.stage = "ready" => fetching.sent # 0
  /\ fetching.stage # "idle" =>
       \/ fetching.sent = browserHolds \/ browserHolds = 0
       \/ fetching.stage = "sent" /\ fetching.sent \notin alive
  /\ shownData.kind = "ready" =>
       \/ browserHolds \in {0, shownData.session}
       \/ fetching.stage # "idle" /\ fetching.sent = browserHolds /\ signingIn = NotSentYet
  /\ signingIn # NotSentYet /\ shownData \in Unanswered =>
       /\ browserHolds \notin alive
       /\ fetching.stage # "idle" => fetching.stage = "sent" /\ fetching.sent \notin alive

(* Under the scope of a session somebody else's collections are, or may    *)
(* come to be, cached: that session is of the past, and its shell, if      *)
(* shown, is about to be replaced.                                         *)
Strange(s) == collections[s] \notin {Uncached, 0, s} \/ gathering[s] \notin {NotSentYet, 0, s}
StrangersAreLeft ==
  \A s \in SignIns : Strange(s) =>
    /\ s <= Begun /\ browserHolds # s
    /\ fetching.stage # "idle" => fetching.sent # s
    /\ shownData = ReadyFor(s) => fetching.stage # "idle"
CachedWhenShown ==
  /\ Screen = "shell" => collections[shownData.session] # Uncached
  /\ shownData = NoSession("logged-out") =>
       \A s \in SignIns : collections[s] = Uncached /\ gathering[s] = NotSentYet

WorkbenchInv ==
  WorkbenchTypeOK /\ SignInIsFresh /\ FetchIsCurrent /\ StrangersAreLeft /\ CachedWhenShown

TabPlaces == {"workspace", "login", "mobile", "expired"}
Caches == [SignIns -> 0 .. Uncached]
Polls == [SignIns -> 0 .. NotSentYet]
Fetches == [sent : 0 .. MaxSignIns, stage : {"idle", "sent", "ready"}, after : {"stay", "return"}]
NothingCached == [s \in SignIns |-> Uncached]
NothingPolled == [s \in SignIns |-> NotSentYet]

LEMMA SignInNumbers ==
  /\ MaxSignIns \in Nat \ {0} /\ Uncached \notin SignIns \cup {0} /\ NotSentYet \notin SignIns
  /\ NotSentYet \in Nat \ {0} /\ \A s \in SignIns : s \in Nat \ {0}
BY WorkbenchSessionAssumption DEF SignIns, Uncached, NotSentYet

LEMMA ResultsAre ==
  /\ \A s \in SignIns : /\ ReadyFor(s) \in Results
                        /\ ReadyFor(s).kind = "ready" /\ ReadyFor(s).session = s
  /\ \A k \in SignedOutKinds \cup {"none", "refused", "failed"} :
       /\ NoSession(k) \in Results
       /\ NoSession(k).kind = k /\ NoSession(k).session = 0
  /\ \A d \in Results :
       \/ d.kind = "ready" /\ d.session \in SignIns /\ d = ReadyFor(d.session)
       \/ /\ d.kind \in SignedOutKinds \cup {"none", "refused", "failed"}
          /\ d.session = 0 /\ d = NoSession(d.kind)
<1>1. \A s : ReadyFor(s).kind = "ready" /\ ReadyFor(s).session = s
  BY DEF ReadyFor
<1>2. \A k : NoSession(k).kind = k /\ NoSession(k).session = 0
  BY DEF NoSession
<1>3. \A s \in SignIns : ReadyFor(s) \in Results
  BY DEF Results
<1>4. \A k \in SignedOutKinds \cup {"none", "refused", "failed"} : NoSession(k) \in Results
  BY DEF Results
<1>5. ASSUME NEW d \in Results
      PROVE  \/ d.kind = "ready" /\ d.session \in SignIns /\ d = ReadyFor(d.session)
             \/ /\ d.kind \in SignedOutKinds \cup {"none", "refused", "failed"}
                /\ d.session = 0 /\ d = NoSession(d.kind)
  <2>1. CASE \E s \in SignIns : d = ReadyFor(s)
    BY <2>1, <1>1
  <2>2. CASE \E k \in SignedOutKinds \cup {"none", "refused", "failed"} : d = NoSession(k)
    BY <2>2, <1>2
  <2> QED
    BY <2>1, <2>2 DEF Results
<1> QED
  BY <1>1, <1>2, <1>3, <1>4, <1>5

LEMMA ScreensAre ==
  ASSUME NEW p \in TabPlaces, NEW d \in Results
  PROVE  /\ ScreenOf(p, d) = "shell" <=> p = "workspace" /\ d.kind = "ready"
         /\ ScreenOf(p, d) = "mobile" => d.kind = "ready"
         /\ ScreenOf(p, d) = "login" => d.kind \in SignedOutKinds
         /\ ScreenOf(p, d) \in {"failed", "refused"} => d.kind \in {"failed", "refused"}
<1>1. \/ d.kind = "ready" /\ d # NothingFetched
      \/ d.kind \in SignedOutKinds /\ d # NothingFetched
      \/ d.kind = "none" /\ d = NothingFetched
      \/ d.kind \in {"refused", "failed"} /\ d # NothingFetched
  BY ResultsAre DEF NothingFetched, SignedOutKinds
<1>2. p \in {"workspace", "login", "mobile", "expired"}
  BY DEF TabPlaces
<1> QED
  BY <1>1, <1>2 DEF ScreenOf, SignedOutKinds

LEMMA WorkbenchStarts == WorkbenchInit => WorkbenchInv
<1> SUFFICES ASSUME WorkbenchInit PROVE WorkbenchInv
  OBVIOUS
<1>1. shownData = NoSession("none") /\ shownData \in Results /\ shownData.kind = "none"
      /\ shownData.session = 0 /\ shownData # NoSession("logged-out")
  BY ResultsAre DEF WorkbenchInit, NothingFetched, NoSession
<1>2. fetching = [sent |-> 1, stage |-> "sent", after |-> "stay"]
  BY DEF WorkbenchInit, NoFetch
<1>3. WorkbenchTypeOK
  BY <1>1, <1>2, SignInNumbers DEF WorkbenchInit, WorkbenchTypeOK, NotLeaving, Uncached, NotSentYet
<1>4. SignInIsFresh /\ FetchIsCurrent
  BY <1>1, <1>2, SignInNumbers DEF WorkbenchInit, SignInIsFresh, Begun, FetchIsCurrent
<1>5. \A s \in SignIns : ~Strange(s)
  BY DEF WorkbenchInit, Strange
<1>6. CachedWhenShown
  <2>1. Screen # "shell"
    BY <1>1, <1>3, ScreensAre DEF Screen, WorkbenchTypeOK, TabPlaces
  <2> QED
    BY <2>1, <1>1 DEF CachedWhenShown
<1> QED
  BY <1>3, <1>4, <1>5, <1>6 DEF WorkbenchInv, StrangersAreLeft

(* What is cached after the tab shows something else.                      *)
LEMMA RenderedAnew ==
  ASSUME NEW p \in TabPlaces, NEW data \in Results, NEW cached \in Caches, Render(p, data, cached)
  PROVE  /\ place' \in TabPlaces /\ shownData' \in Results /\ collections' \in Caches
         /\ \A s \in SignIns : \/ collections'[s] = cached[s]
                               \/ collections'[s] = 0 /\ data.kind = "ready"
         /\ Screen' = "shell" => collections'[shownData'.session] # Uncached
<1>1. place' = p /\ shownData' = data /\ Screen' = ScreenOf(p, data)
  BY DEF Render, Screen, ScreenOf
<1>2. ScreenOf(p, data) = "shell" => data.kind = "ready" /\ data.session \in SignIns
  <2>1. ScreenOf(p, data) = "shell" => data.kind = "ready"
    BY ScreensAre
  <2>2. data.kind = "ready" => data.session \in SignIns
    BY ResultsAre DEF SignedOutKinds
  <2> QED
    BY <2>1, <2>2
<1>3. 0 \in 0 .. Uncached /\ Uncached # 0
  BY SignInNumbers DEF Uncached
<1>4. CASE ScreenOf(p, data) # "shell" \/ cached[data.session] # Uncached
  BY <1>1, <1>4 DEF Render
<1>5. CASE ~(ScreenOf(p, data) # "shell" \/ cached[data.session] # Uncached)
  <2>1. collections' = [cached EXCEPT ![data.session] = 0]
    BY <1>5 DEF Render
  <2> QED
    BY <2>1, <1>1, <1>2, <1>3, <1>5 DEF Caches
<1> QED
  BY <1>4, <1>5

(* Where the collections are no stranger, and neither cookie nor fetch went*)
(* back to one, strangers are left.                                        *)
LEMMA WorkbenchSteps ==
  ASSUME WorkbenchInv, place' \in TabPlaces, shownData' \in Results,
         collections' \in Caches, gathering' \in Polls,
         \A s \in SignIns : \/ collections'[s] \in {Uncached, collections[s]}
                            \/ collections'[s] = 0 /\ shownData'.kind = "ready",
         \A s \in SignIns : gathering'[s] \in {NotSentYet, gathering[s]},
         Screen' = "shell" => collections'[shownData'.session] # Uncached,
         shownData' = NoSession("logged-out") =>
           \/ shownData = NoSession("logged-out")
           \/ collections' = NothingCached /\ gathering' = NothingPolled
  PROVE  CachedWhenShown' /\ \A s \in SignIns : Strange(s)' => Strange(s)
<1>1. \A s \in SignIns : Strange(s)' => Strange(s)
  BY DEF Strange
<1>2. ASSUME shownData' = NoSession("logged-out"), NEW s \in SignIns
      PROVE  collections'[s] = Uncached /\ gathering'[s] = NotSentYet
  <2>1. shownData'.kind # "ready"
    BY <1>2, ResultsAre DEF SignedOutKinds
  <2> QED
    BY <2>1, <1>2 DEF WorkbenchInv, CachedWhenShown, NothingCached, NothingPolled
<1> QED
  BY <1>1, <1>2 DEF CachedWhenShown

(* The invariant is kept by every step that shows what was shown.          *)
LEMMA ShowingStays ==
  ASSUME WorkbenchInv,
         UNCHANGED <<place, shownData, collections, gathering>>
  PROVE  /\ place' \in TabPlaces /\ shownData' \in Results /\ collections' \in Caches
         /\ gathering' \in Polls
         /\ CachedWhenShown'
         /\ \A s \in SignIns : Strange(s)' => Strange(s)
BY DEF WorkbenchInv, WorkbenchTypeOK, TabPlaces, Caches, Polls, CachedWhenShown, Screen, ScreenOf, Strange

LEMMA TypeParts ==
  /\ WorkbenchTypeOK <=>
       /\ lastSession \in 0 .. MaxSignIns /\ alive \subseteq 1 .. lastSession
       /\ browserHolds \in 0 .. MaxSignIns /\ place \in TabPlaces /\ shownData \in Results
       /\ fetching \in Fetches /\ signingIn \in 0 .. NotSentYet
       /\ leaving \in [step : {"idle", "sent", "answered"}, session : 0 .. MaxSignIns,
                       from : {"shell", "mobile"}]
       /\ collections \in Caches /\ gathering \in Polls
  /\ WorkbenchTypeOK' <=>
       /\ lastSession' \in 0 .. MaxSignIns /\ alive' \subseteq 1 .. lastSession'
       /\ browserHolds' \in 0 .. MaxSignIns /\ place' \in TabPlaces /\ shownData' \in Results
       /\ fetching' \in Fetches /\ signingIn' \in 0 .. NotSentYet
       /\ leaving' \in [step : {"idle", "sent", "answered"}, session : 0 .. MaxSignIns,
                       from : {"shell", "mobile"}]
       /\ collections' \in Caches /\ gathering' \in Polls
BY DEF WorkbenchTypeOK, TabPlaces, Fetches, Caches, Polls

(* The fetches that are sent.                                              *)
LEMMA FetchingIs ==
  ASSUME WorkbenchInv, NEW after \in {"stay", "return"}
  PROVE  /\ FetchWith(after) = [sent |-> browserHolds, stage |-> "sent", after |-> after]
         /\ FetchWith(after) \in Fetches /\ NoFetch \in Fetches
         /\ NoFetch.stage = "idle" /\ NoFetch.sent = 0
         /\ [fetching EXCEPT !.after = after] =
              [sent |-> fetching.sent, stage |-> fetching.stage, after |-> after]
         /\ [fetching EXCEPT !.after = after] \in Fetches
<1>1. fetching \in Fetches /\ browserHolds \in 0 .. MaxSignIns
  BY TypeParts DEF WorkbenchInv
<1>2. 0 \in 0 .. MaxSignIns
  BY SignInNumbers
<1>3. FetchWith(after) = [sent |-> browserHolds, stage |-> "sent", after |-> after]
  <2> DEFINE then == FetchWith(after)
  <2>1. DOMAIN then = {"sent", "stage", "after"}
    BY DEF FetchWith, NoFetch
  <2>2. then.sent = browserHolds /\ then.stage = "sent" /\ then.after = after
    BY DEF FetchWith, NoFetch
  <2>3. then = [f \in {"sent", "stage", "after"} |-> then[f]]
    BY <2>1 DEF FetchWith, NoFetch
  <2> QED
    BY <2>2, <2>3
<1>4. FetchWith(after) \in Fetches
  BY <1>1, <1>3 DEF Fetches
<1>5. NoFetch \in Fetches /\ NoFetch.stage = "idle" /\ NoFetch.sent = 0
  BY <1>2 DEF NoFetch, Fetches
<1>6. [fetching EXCEPT !.after = after] =
        [sent |-> fetching.sent, stage |-> fetching.stage, after |-> after]
  BY <1>1 DEF Fetches
<1>7. [fetching EXCEPT !.after = after] \in Fetches
  BY <1>1 DEF Fetches
<1> QED
  BY <1>3, <1>4, <1>5, <1>6, <1>7

LEMMA WorkbenchFacts ==
  ASSUME WorkbenchInv
  PROVE  /\ lastSession \in Nat /\ lastSession <= MaxSignIns /\ alive \subseteq 1 .. lastSession
         /\ browserHolds \in Nat /\ fetching.sent \in Nat /\ signingIn \in Nat /\ Begun \in Int
         /\ Begun <= lastSession /\ shownData.session \in Nat /\ 0 \notin alive
         /\ fetching \in Fetches /\ shownData \in Results /\ place \in TabPlaces
<1>1. WorkbenchTypeOK
  BY DEF WorkbenchInv
<1>2. shownData.session \in Nat
  <2>1. shownData \in Results
    BY <1>1, TypeParts
  <2> QED
    BY <2>1, ResultsAre, SignInNumbers
<1> QED
  BY <1>1, <1>2, TypeParts, SignInNumbers DEF Begun, Fetches

(* A fetch that is sent with the browser's cookie, or goes on.             *)
LEMMA FetchesAnew ==
  ASSUME WorkbenchInv, NEW after \in {"stay", "return"},
         UNCHANGED <<lastSession, alive, browserHolds, place, shownData, signingIn, leaving,
                     collections, gathering>>,
         \/ fetching' = FetchWith(after) /\ (fetching.stage = "idle" \/ shownData \notin Unanswered)
         \/ fetching' = [fetching EXCEPT !.after = after]
         \/ /\ fetching' = [fetching EXCEPT !.stage = "ready"]
            /\ fetching.stage = "sent" /\ fetching.sent \in alive
  PROVE  WorkbenchInv'
<1>0. fetching \in Fetches /\ 0 \notin alive
  BY WorkbenchFacts
<1>1. /\ fetching' \in Fetches
      /\ \/ fetching'.sent = browserHolds /\ fetching'.stage = "sent"
              /\ (fetching.stage = "idle" \/ shownData \notin Unanswered)
         \/ fetching'.sent = fetching.sent /\ fetching'.stage = fetching.stage
         \/ fetching'.sent = fetching.sent /\ fetching'.stage = "ready" /\ fetching.sent \in alive
              /\ fetching.stage # "idle"
  BY <1>0, FetchingIs DEF Fetches
<1>2. WorkbenchTypeOK' /\ Begun' = Begun
  BY <1>1, TypeParts DEF WorkbenchInv, Begun
<1>3. SignInIsFresh'
  BY <1>1, <1>2 DEF WorkbenchInv, SignInIsFresh
<1>4. FetchIsCurrent'
  BY <1>0, <1>1, WorkbenchFacts DEF WorkbenchInv, FetchIsCurrent
<1>5. CachedWhenShown' /\ \A s \in SignIns : Strange(s)' => Strange(s)
  BY ShowingStays
<1>6. StrangersAreLeft'
  BY <1>1, <1>2, <1>5 DEF WorkbenchInv, StrangersAreLeft, ReadyFor
<1> QED
  BY <1>2, <1>3, <1>4, <1>5, <1>6 DEF WorkbenchInv

(* An answer is shown, or none any more, beside the same sessions.         *)
LEMMA ShowsAnew ==
  ASSUME WorkbenchInv, NEW p \in TabPlaces, NEW data \in Results,
         UNCHANGED <<lastSession, alive, browserHolds, signingIn, gathering>>,
         leaving' = leaving \/ leaving' = NotLeaving,
         Render(p, data, collections),
         \/ data = shownData /\ fetching' = fetching
         \/ /\ fetching' = NoFetch /\ fetching.stage # "idle"
            /\ \/ data \in {NoSession("signed-out"), NoSession("refused")}
               \/ data = NoSession("failed") /\ shownData \in Unanswered
               \/ fetching.stage = "ready" /\ data = ReadyFor(fetching.sent)
  PROVE  WorkbenchInv'
<1>0. /\ fetching \in Fetches /\ 0 \notin alive /\ collections \in Caches /\ gathering \in Polls
      /\ Begun \in Nat /\ WorkbenchTypeOK
  <2>1. Begun \in Nat
    BY WorkbenchFacts DEF WorkbenchInv, SignInIsFresh
  <2> QED
    BY <2>1, WorkbenchFacts, TypeParts DEF WorkbenchInv
<1>1. /\ place' \in TabPlaces /\ shownData' = data /\ collections' \in Caches
      /\ \A s \in SignIns : \/ collections'[s] = collections[s]
                            \/ collections'[s] = 0 /\ data.kind = "ready"
      /\ Screen' = "shell" => collections'[shownData'.session] # Uncached
  BY <1>0, RenderedAnew DEF Render
<1>2. fetching' \in Fetches /\ (fetching' = NoFetch => fetching'.stage = "idle" /\ fetching'.sent = 0)
  BY <1>0, FetchingIs
<1>3. WorkbenchTypeOK' /\ Begun' = Begun
  <2>1. NotLeaving \in [step : {"idle", "sent", "answered"}, session : 0 .. MaxSignIns,
                        from : {"shell", "mobile"}]
    BY SignInNumbers DEF NotLeaving
  <2> QED
    BY <2>1, <1>0, <1>1, <1>2, TypeParts DEF Begun
<1>4. \/ data = shownData
      \/ data.kind = "ready" /\ data.session = fetching.sent
      \/ data.kind # "ready" /\ data.session = 0
  BY DEF NoSession, ReadyFor
<1>5. SignInIsFresh'
  BY <1>0, <1>1, <1>2, <1>3, <1>4 DEF WorkbenchInv, SignInIsFresh
<1>6. FetchIsCurrent'
  <2>1. CASE data = shownData /\ fetching' = fetching
    BY <2>1, <1>1 DEF WorkbenchInv, FetchIsCurrent
  <2>2. CASE fetching' = NoFetch /\ data \in {NoSession("signed-out"), NoSession("refused")}
    BY <2>2, <1>1, <1>2 DEF FetchIsCurrent, NoSession, Unanswered
  <2>3. CASE fetching' = NoFetch /\ data = NoSession("failed") /\ shownData \in Unanswered
    BY <2>3, <1>1, <1>2 DEF WorkbenchInv, FetchIsCurrent, NoSession
  <2>4. CASE fetching' = NoFetch /\ fetching.stage = "ready" /\ data = ReadyFor(fetching.sent)
    BY <2>4, <1>1, <1>2 DEF WorkbenchInv, FetchIsCurrent, NoSession, Unanswered, ReadyFor
  <2> QED
    BY <2>1, <2>2, <2>3, <2>4
<1>7. CachedWhenShown' /\ \A s \in SignIns : Strange(s)' => Strange(s)
  <2>1. shownData' = NoSession("logged-out") => shownData = NoSession("logged-out")
    BY <1>1 DEF NoSession, ReadyFor
  <2> QED
    BY <2>1, <1>0, <1>1, <1>3, WorkbenchSteps
<1>8. StrangersAreLeft'
  BY <1>1, <1>2, <1>3, <1>7 DEF WorkbenchInv, StrangersAreLeft, ReadyFor, NoSession
<1> QED
  BY <1>3, <1>5, <1>6, <1>7, <1>8 DEF WorkbenchInv

(* All that was cached is gone, and a fetch has nothing to replace: at once*)
(* if the cookie's session is over or no login is unanswered.              *)
LEMMA StartsAnew ==
  ASSUME WorkbenchInv, NEW p \in TabPlaces, place' = p, ScreenOf(p, NothingFetched) # "shell",
         UNCHANGED <<lastSession, alive, browserHolds>>,
         shownData' = NothingFetched, fetching' = FetchWith("stay"),
         collections' = NothingCached, gathering' = NothingPolled,
         leaving' = leaving \/ leaving' = NotLeaving,
         \/ signingIn' = NotSentYet
         \/ signingIn' = signingIn /\ browserHolds \notin alive
  PROVE  WorkbenchInv'
<1>0. /\ fetching' \in Fetches /\ fetching'.sent = browserHolds /\ fetching'.stage = "sent"
      /\ Begun \in Nat /\ WorkbenchTypeOK /\ lastSession \in Nat
  <2>1. Begun \in Nat
    BY WorkbenchFacts DEF WorkbenchInv, SignInIsFresh
  <2> QED
    BY <2>1, FetchingIs, WorkbenchFacts DEF WorkbenchInv
<1>1. /\ shownData' = NoSession("none") /\ shownData' \in Results /\ shownData'.kind = "none"
      /\ shownData'.session = 0
  BY ResultsAre DEF NothingFetched, SignedOutKinds
<1>2. WorkbenchTypeOK'
  <2>1. NotLeaving \in [step : {"idle", "sent", "answered"}, session : 0 .. MaxSignIns,
                        from : {"shell", "mobile"}]
    BY SignInNumbers DEF NotLeaving
  <2>2. NothingCached \in Caches /\ NothingPolled \in Polls /\ NotSentYet \in 0 .. NotSentYet
    BY SignInNumbers DEF NothingCached, NothingPolled, Caches, Polls, Uncached, NotSentYet
  <2> QED
    BY <2>1, <2>2, <1>0, <1>1, TypeParts
<1>3. Begun' \in Nat /\ Begun <= Begun'
  BY <1>0, SignInNumbers DEF Begun
<1>4. SignInIsFresh'
  BY <1>0, <1>1, <1>3, SignInNumbers, WorkbenchFacts DEF WorkbenchInv, SignInIsFresh
<1>5. FetchIsCurrent'
  BY <1>0, <1>1, WorkbenchFacts DEF WorkbenchInv, FetchIsCurrent
<1>6. \A s \in SignIns : ~Strange(s)' /\ collections'[s] = Uncached /\ gathering'[s] = NotSentYet
  BY DEF Strange, NothingCached, NothingPolled
<1>7. CachedWhenShown'
  BY <1>6 DEF CachedWhenShown, Screen, ScreenOf
<1> QED
  BY <1>2, <1>4, <1>5, <1>6, <1>7 DEF WorkbenchInv, StrangersAreLeft

(* The sessions and the cookie change beside what is shown.                *)
LEMMA SignsIn ==
  ASSUME WorkbenchInv, SignIn \/ ServerSignsIn \/ SignInFails \/ Authenticated
  PROVE  WorkbenchInv'
<1>0. /\ fetching \in Fetches /\ 0 \notin alive /\ WorkbenchTypeOK /\ place \in TabPlaces
      /\ lastSession \in Nat /\ signingIn \in Nat /\ browserHolds \in Nat /\ shownData \in Results
      /\ Begun \in Nat /\ fetching.sent \in Nat /\ alive \subseteq 1 .. lastSession
      /\ shownData.session \in Nat /\ lastSession <= MaxSignIns
  <2>1. Begun \in Nat
    BY WorkbenchFacts DEF WorkbenchInv, SignInIsFresh
  <2> QED
    BY <2>1, WorkbenchFacts DEF WorkbenchInv
<1>1. CachedWhenShown' /\ \A s \in SignIns : Strange(s)' => Strange(s)
  BY ShowingStays DEF SignIn, ServerSignsIn, SignInFails, Authenticated
<1>2. CASE SignIn
  <2>1. shownData \notin Unanswered /\ shownData.kind # "ready"
    BY <1>0, <1>2, ScreensAre DEF SignIn, Screen, Unanswered, NoSession, SignedOutKinds
  <2>2. WorkbenchTypeOK' /\ Begun' = Begun
    BY <1>0, <1>2, TypeParts, SignInNumbers DEF SignIn, Begun
  <2>3. SignInIsFresh'
    BY <1>2, <2>2, SignInNumbers DEF SignIn, WorkbenchInv, SignInIsFresh
  <2>4. FetchIsCurrent'
    BY <1>2, <2>1 DEF SignIn, WorkbenchInv, FetchIsCurrent
  <2>5. StrangersAreLeft'
    BY <1>1, <1>2, <2>2 DEF SignIn, WorkbenchInv, StrangersAreLeft
  <2> QED
    BY <1>1, <2>2, <2>3, <2>4, <2>5 DEF WorkbenchInv
<1>3. CASE ServerSignsIn
  <2>1. /\ lastSession' = lastSession + 1 /\ signingIn' = lastSession + 1
        /\ lastSession + 1 \in SignIns /\ Begun = lastSession /\ Begun' = lastSession
        /\ alive' \subseteq alive \cup {lastSession + 1} /\ signingIn = 0
    BY <1>0, <1>3, SignInNumbers DEF ServerSignsIn, Begun, SignIns
  <2>2. WorkbenchTypeOK'
    <3>1. alive' \subseteq 1 .. lastSession'
      BY <1>0, <2>1
    <3>2. lastSession' \in 0 .. MaxSignIns /\ signingIn' \in 0 .. NotSentYet
      BY <1>0, <2>1, SignInNumbers DEF SignIns, NotSentYet
    <3> QED
      BY <1>0, <1>3, <3>1, <3>2, TypeParts DEF ServerSignsIn
  <2>3. SignInIsFresh'
    BY <1>3, <2>1 DEF ServerSignsIn, WorkbenchInv, SignInIsFresh
  <2>4. FetchIsCurrent'
    BY <1>0, <1>3, <2>1, SignInNumbers DEF ServerSignsIn, WorkbenchInv, FetchIsCurrent, SignInIsFresh
  <2>5. StrangersAreLeft'
    BY <1>1, <1>3, <2>1 DEF ServerSignsIn, WorkbenchInv, StrangersAreLeft
  <2> QED
    BY <1>1, <2>2, <2>3, <2>4, <2>5 DEF WorkbenchInv
<1>4. CASE SignInFails
  <2>1. Begun' = lastSession /\ Begun <= Begun'
    BY <1>0, <1>4, SignInNumbers, WorkbenchFacts DEF SignInFails, Begun
  <2>2. WorkbenchTypeOK'
    BY <1>0, <1>4, TypeParts, SignInNumbers DEF SignInFails
  <2>3. SignInIsFresh'
    BY <1>0, <1>4, <2>1, SignInNumbers DEF SignInFails, WorkbenchInv, SignInIsFresh
  <2>4. FetchIsCurrent'
    BY <1>4 DEF SignInFails, WorkbenchInv, FetchIsCurrent
  <2>5. StrangersAreLeft'
    BY <1>0, <1>1, <1>4, <2>1, SignInNumbers DEF SignInFails, WorkbenchInv, StrangersAreLeft
  <2> QED
    BY <1>1, <2>2, <2>3, <2>4, <2>5 DEF WorkbenchInv
<1>5. CASE Authenticated
  <2>1. /\ signingIn = lastSession /\ browserHolds' = lastSession /\ Begun = lastSession - 1
        /\ signingIn' = NotSentYet /\ Begun' = lastSession /\ lastSession \in SignIns
        /\ signingIn # NotSentYet
    BY <1>0, <1>5, SignInNumbers DEF Authenticated, Begun, WorkbenchInv, SignInIsFresh
  <2>2. /\ fetching' \in Fetches
        /\ \/ /\ fetching'.sent = lastSession /\ fetching'.stage = "sent"
           \/ /\ fetching'.sent = fetching.sent /\ fetching'.stage = fetching.stage
              /\ fetching.stage # "idle" /\ shownData \in Unanswered
    <3>1. CASE fetching.stage = "idle" \/ shownData \notin Unanswered
      <4> DEFINE then == [NoFetch EXCEPT !.stage = "sent", !.sent = signingIn, !.after = "return"]
      <4>1. fetching' = then
        BY <1>5, <3>1 DEF Authenticated
      <4>2. DOMAIN then = {"sent", "stage", "after"} /\ then = [f \in {"sent", "stage", "after"} |-> then[f]]
        BY DEF NoFetch
      <4>3. then.sent = lastSession /\ then.stage = "sent" /\ then.after = "return"
        BY <2>1 DEF NoFetch
      <4>4. lastSession \in 0 .. MaxSignIns
        BY <1>0
      <4> HIDE DEF then
      <4>5. then = [sent |-> lastSession, stage |-> "sent", after |-> "return"]
        BY <4>2, <4>3
      <4>6. then \in Fetches
        BY <4>4, <4>5 DEF Fetches
      <4> QED
        BY <4>1, <4>3, <4>6
    <3>2. CASE ~(fetching.stage = "idle" \/ shownData \notin Unanswered)
      BY <1>5, <3>2, FetchingIs DEF Authenticated
    <3> QED
      BY <3>1, <3>2
  <2>3. WorkbenchTypeOK'
    BY <1>0, <1>5, <2>1, <2>2, TypeParts, SignInNumbers DEF Authenticated
  <2>4. SignInIsFresh'
    BY <1>0, <1>5, <2>1, <2>2, SignInNumbers DEF Authenticated, WorkbenchInv, SignInIsFresh
  <2>5. FetchIsCurrent'
    <3>1. shownData \in Unanswered => shownData.kind # "ready"
      BY DEF Unanswered, NoSession
    <3> QED
      BY <1>0, <1>5, <2>1, <2>2, <3>1, SignInNumbers DEF Authenticated, WorkbenchInv, FetchIsCurrent
  <2>6. StrangersAreLeft'
    BY <1>0, <1>1, <1>5, <2>1, <2>2, SignInNumbers
       DEF Authenticated, WorkbenchInv, StrangersAreLeft, Unanswered, NoSession, ReadyFor
  <2> QED
    BY <1>1, <2>3, <2>4, <2>5, <2>6 DEF WorkbenchInv
<1> QED
  BY <1>2, <1>3, <1>4, <1>5

(* Sessions end, and a logout is sent and answered.                        *)
LEMMA SessionsEnd ==
  ASSUME WorkbenchInv,
         UNCHANGED <<lastSession, browserHolds, place, shownData, fetching, signingIn,
                     collections, gathering>>,
         leaving' \in [step : {"idle", "sent", "answered"}, session : 0 .. MaxSignIns,
                       from : {"shell", "mobile"}],
         alive' \subseteq alive
  PROVE  WorkbenchInv'
<1>1. CachedWhenShown' /\ \A s \in SignIns : Strange(s)' => Strange(s)
  BY ShowingStays
<1>2. WorkbenchTypeOK' /\ Begun' = Begun
  BY TypeParts DEF Begun, WorkbenchInv
<1>3. SignInIsFresh' /\ FetchIsCurrent'
  BY <1>2 DEF WorkbenchInv, SignInIsFresh, FetchIsCurrent
<1>4. StrangersAreLeft'
  BY <1>1, <1>2 DEF WorkbenchInv, StrangersAreLeft
<1> QED
  BY <1>1, <1>2, <1>3, <1>4 DEF WorkbenchInv

(* The collections are polled.                                             *)
LEMMA CollectionsArrive ==
  ASSUME WorkbenchInv, NEW s \in SignIns, PollStarts(s) \/ PollArrives(s)
  PROVE  WorkbenchInv'
<1>0. /\ collections \in Caches /\ gathering \in Polls /\ WorkbenchTypeOK /\ shownData \in Results
      /\ browserHolds \in 0 .. MaxSignIns /\ place \in TabPlaces /\ alive \subseteq 1 .. lastSession
      /\ lastSession \in 0 .. MaxSignIns
  BY TypeParts DEF WorkbenchInv
<1>1. Begun' = Begun /\ Screen' = Screen
  BY DEF PollStarts, PollArrives, Begun, Screen, ScreenOf
<1>2. SignInIsFresh' /\ FetchIsCurrent'
  BY <1>1 DEF PollStarts, PollArrives, WorkbenchInv, SignInIsFresh, FetchIsCurrent
<1>3. CASE PollStarts(s)
  <2>1. gathering' \in Polls /\ browserHolds # NotSentYet
    BY <1>0, <1>3, SignInNumbers DEF PollStarts, Polls, NotSentYet
  <2>2. WorkbenchTypeOK'
    BY <1>0, <1>3, <2>1, TypeParts DEF PollStarts
  <2>3. shownData = ReadyFor(s) /\ shownData.kind = "ready" /\ shownData.session = s
    BY <1>3, ResultsAre DEF PollStarts, ShellOf
  <2>4. CachedWhenShown'
    BY <1>1, <1>3, <2>3 DEF PollStarts, WorkbenchInv, CachedWhenShown, NoSession
  <2>5. ASSUME NEW t \in SignIns, Strange(t)' PROVE Strange(t) \/ (t = s /\ browserHolds \notin {0, s})
    BY <1>0, <1>3, <2>5 DEF PollStarts, Strange, Polls
  <2>6. StrangersAreLeft'
    BY <1>1, <1>3, <2>3, <2>5 DEF PollStarts, WorkbenchInv, StrangersAreLeft, SignInIsFresh, FetchIsCurrent
  <2> QED
    BY <1>2, <2>2, <2>4, <2>6 DEF WorkbenchInv
<1>4. CASE PollArrives(s)
  <2>1. gathering' \in Polls /\ collections' \in Caches
    BY <1>0, <1>4, SignInNumbers DEF PollArrives, Polls, Caches, NotSentYet, Uncached
  <2>2. WorkbenchTypeOK'
    BY <1>0, <1>4, <2>1, TypeParts DEF PollArrives
  <2>3. \A t \in SignIns : \/ collections'[t] = collections[t]
                           \/ t = s /\ collections'[t] = gathering[t] /\ gathering[t] # Uncached
    BY <1>0, <1>4 DEF PollArrives, Caches, Uncached, NotSentYet
  <2>4. \A t \in SignIns : gathering'[t] \in {NotSentYet, gathering[t]}
    BY <1>0, <1>4 DEF PollArrives, Polls
  <2>5. \A t \in SignIns : Strange(t)' => Strange(t)
    BY <2>3, <2>4 DEF Strange, Uncached, NotSentYet
  <2>6. CachedWhenShown'
    <3>1. Screen = "shell" => shownData.session \in SignIns
      BY <1>0, ScreensAre, ResultsAre DEF Screen, SignedOutKinds
    <3> QED
      BY <1>1, <1>4, <2>3, <2>4, <3>1 DEF PollArrives, WorkbenchInv, CachedWhenShown
  <2>7. StrangersAreLeft'
    BY <1>1, <1>4, <2>5 DEF PollArrives, WorkbenchInv, StrangersAreLeft
  <2> QED
    BY <1>2, <2>2, <2>6, <2>7 DEF WorkbenchInv
<1> QED
  BY <1>3, <1>4

(* A cookie is cleared, by a shell that clears its collections as well.    *)
LEMMA Leaves == ASSUME WorkbenchInv, LogoutArrives PROVE WorkbenchInv'
<1>0. /\ fetching \in Fetches /\ 0 \notin alive /\ WorkbenchTypeOK /\ shownData \in Results
      /\ collections \in Caches /\ gathering \in Polls /\ place \in TabPlaces /\ Begun \in Nat
  <2>1. Begun \in Nat
    BY WorkbenchFacts DEF WorkbenchInv, SignInIsFresh
  <2> QED
    BY <2>1, WorkbenchFacts, TypeParts DEF WorkbenchInv
<1>1. /\ browserHolds' = 0 /\ Begun' = Begun /\ leaving' = NotLeaving
      /\ UNCHANGED <<lastSession, alive, fetching, signingIn>>
  BY DEF LogoutArrives, Begun
<1>2. PICK p \in TabPlaces, data \in Results, cached \in Caches :
        /\ Render(p, data, cached)
        /\ \/ /\ data = NoSession("logged-out") /\ cached = NothingCached
              /\ gathering' = NothingPolled
           \/ data = shownData /\ cached = collections /\ gathering' = gathering
  <2>1. NoSession("logged-out") \in Results /\ "login" \in TabPlaces
    BY ResultsAre DEF SignedOutKinds, TabPlaces
  <2>2. NothingCached \in Caches
    BY SignInNumbers DEF NothingCached, Caches, Uncached
  <2>3. CASE leaving.from = "shell"
    BY <1>0, <2>1, <2>2, <2>3 DEF LogoutArrives, NothingCached, NothingPolled
  <2>4. CASE leaving.from # "shell"
    BY <1>0, <2>1, <2>4 DEF LogoutArrives
  <2> QED
    BY <2>3, <2>4
<1>3. /\ place' \in TabPlaces /\ shownData' = data /\ collections' \in Caches /\ gathering' \in Polls
      /\ \A s \in SignIns : \/ collections'[s] = cached[s]
                            \/ collections'[s] = 0 /\ data.kind = "ready"
      /\ Screen' = "shell" => collections'[shownData'.session] # Uncached
  <2>1. NothingPolled \in Polls
    BY SignInNumbers DEF NothingPolled, Polls, NotSentYet
  <2> QED
    BY <1>0, <1>2, <2>1, RenderedAnew DEF Render
<1>4. WorkbenchTypeOK'
  <2>1. NotLeaving \in [step : {"idle", "sent", "answered"}, session : 0 .. MaxSignIns,
                        from : {"shell", "mobile"}]
    BY SignInNumbers DEF NotLeaving
  <2> QED
    BY <2>1, <1>0, <1>1, <1>3, SignInNumbers, TypeParts
<1>5. data = shownData \/ (data.kind = "logged-out" /\ data.session = 0 /\ data \notin Unanswered)
  BY <1>2 DEF NoSession, Unanswered
<1>6. SignInIsFresh'
  BY <1>0, <1>1, <1>3, <1>5 DEF WorkbenchInv, SignInIsFresh
<1>7. FetchIsCurrent'
  BY <1>0, <1>1, <1>3, <1>5 DEF WorkbenchInv, FetchIsCurrent
<1>8. CachedWhenShown' /\ \A s \in SignIns : Strange(s)' => Strange(s)
  <2>1. CASE data = shownData /\ cached = collections /\ gathering' = gathering
    BY <2>1, <1>3, <1>0, WorkbenchSteps
  <2>2. CASE data = NoSession("logged-out") /\ cached = NothingCached /\ gathering' = NothingPolled
    <3>1. data.kind # "ready"
      BY <2>2 DEF NoSession
    <3>2. \A s \in SignIns : collections'[s] = Uncached /\ gathering'[s] = NotSentYet
      BY <2>2, <3>1, <1>3 DEF NothingCached, NothingPolled
    <3>3. collections' = NothingCached
      BY <3>2, <1>3 DEF NothingCached, Caches
    <3> QED
      BY <2>2, <3>2, <3>3, <1>3, WorkbenchSteps
  <2> QED
    BY <1>2, <2>1, <2>2
<1>9. StrangersAreLeft'
  BY <1>0, <1>1, <1>3, <1>5, <1>8, SignInNumbers DEF WorkbenchInv, StrangersAreLeft, ReadyFor
<1> QED
  BY <1>4, <1>6, <1>7, <1>8, <1>9 DEF WorkbenchInv

LEMMA WorkbenchGoesOn == WorkbenchInv /\ [WorkbenchNext]_workbenchVars => WorkbenchInv'
<1> SUFFICES ASSUME WorkbenchInv, [WorkbenchNext]_workbenchVars PROVE WorkbenchInv'
  OBVIOUS
<1>0. /\ WorkbenchTypeOK /\ place \in TabPlaces /\ shownData \in Results /\ fetching \in Fetches
      /\ leaving \in [step : {"idle", "sent", "answered"}, session : 0 .. MaxSignIns,
                      from : {"shell", "mobile"}]
      /\ browserHolds \in 0 .. MaxSignIns
  BY TypeParts DEF WorkbenchInv
<1>1. CASE RefetchStale \/ RetryBootstrap \/ BootstrapAnswers
  BY <1>1, FetchesAnew DEF RefetchStale, RetryBootstrap, BootstrapAnswers, Refetch
<1>2. CASE BootstrapArrives \/ BootstrapRefused
  <2>1. PICK data \in Results :
          /\ Takes(data) /\ fetching.stage # "idle"
          /\ \/ data \in {NoSession("signed-out"), NoSession("refused")}
             \/ fetching.stage = "ready" /\ data = ReadyFor(fetching.sent)
    <3>1. NoSession("signed-out") \in Results /\ NoSession("refused") \in Results
      BY ResultsAre DEF SignedOutKinds
    <3>2. fetching.stage = "ready" => ReadyFor(fetching.sent) \in Results
      BY <1>0, ResultsAre DEF WorkbenchInv, FetchIsCurrent, Fetches, SignIns
    <3> QED
      BY <1>2, <3>1, <3>2 DEF BootstrapArrives, BootstrapRefused
  <2>2. PICK p \in TabPlaces : Render(p, data, collections)
    BY <1>0, <2>1 DEF Takes, TabPlaces
  <2> QED
    BY <2>1, <2>2, ShowsAnew DEF Takes
<1>3. CASE BootstrapFails
  <2>1. PICK data \in Results :
          /\ Render(place, data, collections)
          /\ \/ data = NoSession("refused")
             \/ data = NoSession("failed") /\ shownData \in Unanswered
    BY <1>3, ResultsAre DEF BootstrapFails
  <2> QED
    BY <1>0, <1>3, <2>1, ShowsAnew DEF BootstrapFails
<1>4. ASSUME NEW p \in {"workspace", "mobile"}, Redirected \/ Navigate(p) PROVE WorkbenchInv'
  <2>1. PICK q \in TabPlaces : Render(q, shownData, collections)
    BY <1>4 DEF Redirected, Navigate, TabPlaces
  <2> QED
    BY <1>0, <1>4, <2>1, ShowsAnew DEF Redirected, Navigate
<1>5. CASE ReloadPage
  <2>1. PICK p \in {"login", "workspace"} : place' = p
    BY <1>5 DEF ReloadPage
  <2>2. ScreenOf(p, NothingFetched) # "shell" /\ p \in TabPlaces
    BY ScreensAre, ResultsAre DEF TabPlaces, NothingFetched, SignedOutKinds
  <2> QED
    BY <1>5, <2>1, <2>2, StartsAnew DEF ReloadPage, NothingCached, NothingPolled
<1>6. CASE SignIn \/ ServerSignsIn \/ SignInFails \/ Authenticated
  BY <1>6, SignsIn
<1>7. CASE RequestLogout \/ LogoutServed \/ LogoutFails
  <2>1. leaving' \in [step : {"idle", "sent", "answered"}, session : 0 .. MaxSignIns,
                      from : {"shell", "mobile"}]
    <3> DEFINE Logouts == [step : {"idle", "sent", "answered"}, session : 0 .. MaxSignIns,
                           from : {"shell", "mobile"}]
    <3>1. 0 \in 0 .. MaxSignIns
      BY SignInNumbers
    <3>2. NotLeaving \in Logouts
      BY <3>1 DEF NotLeaving
    <3>3. CASE RequestLogout
      <4>1. Screen \in {"shell", "mobile"} /\ browserHolds \in 0 .. MaxSignIns
        BY <1>0, <3>3 DEF RequestLogout
      <4>2. \A h \in 0 .. MaxSignIns, f \in {"shell", "mobile"} :
              [NotLeaving EXCEPT !.step = "sent", !.session = h, !.from = f] \in Logouts
        BY <3>2
      <4> QED
        BY <3>3, <4>1, <4>2 DEF RequestLogout
    <3>4. CASE LogoutServed
      BY <1>0, <3>1, <3>4 DEF LogoutServed
    <3>5. CASE LogoutFails
      BY <3>2, <3>5 DEF LogoutFails
    <3> QED
      BY <1>7, <3>3, <3>4, <3>5
  <2> QED
    BY <1>7, <2>1, SessionsEnd DEF RequestLogout, LogoutServed, LogoutFails
<1>8. CASE LogoutArrives
  BY <1>8, Leaves
<1>9. CASE CheckRefused \/ RevocationArrives
  <2>1. browserHolds \notin alive \/ signingIn = NotSentYet
    BY <1>0, <1>9, ScreensAre, WorkbenchFacts
       DEF CheckRefused, RevocationArrives, Screen, WorkbenchInv, FetchIsCurrent
  <2>2. ScreenOf("expired", NothingFetched) # "shell" /\ "expired" \in TabPlaces
    BY DEF ScreenOf, TabPlaces
  <2>3. /\ place' = "expired" /\ shownData' = NothingFetched /\ collections' = NothingCached
        /\ gathering' = NothingPolled /\ fetching' = FetchWith("stay")
        /\ UNCHANGED <<lastSession, alive, browserHolds, signingIn, leaving>>
    BY <1>9, <2>2 DEF CheckRefused, RevocationArrives, SessionRevoked, Render, NothingCached,
       NothingPolled
  <2> QED
    BY <2>1, <2>2, <2>3, StartsAnew
<1>10. ASSUME NEW s \in SignIns, PollStarts(s) \/ PollArrives(s) PROVE WorkbenchInv'
  BY <1>10, CollectionsArrive
<1>11. ASSUME NEW s \in SignIns, ServerEnds(s) PROVE WorkbenchInv'
  BY <1>0, <1>11, SessionsEnd DEF ServerEnds
<1>12. CASE UNCHANGED workbenchVars
  BY <1>0, <1>12, SessionsEnd DEF workbenchVars
<1> QED
  BY <1>1, <1>2, <1>3, <1>4, <1>5, <1>6, <1>7, <1>8, <1>9, <1>10, <1>11, <1>12
     DEF WorkbenchNext, BootstrapSettles

LEMMA WorkbenchMeans == WorkbenchInv => CollectionsAreTheirOwners
<1> SUFFICES ASSUME WorkbenchInv PROVE CollectionsAreTheirOwners
  OBVIOUS
<1>1. ASSUME NEW s \in SignIns, ShellOf(s), fetching.stage = "idle" \/ fetching.sent = s
      PROVE  collections[s] \in {0, s}
  BY <1>1, ResultsAre DEF ShellOf, WorkbenchInv, CachedWhenShown, StrangersAreLeft, Strange
<1> QED
  BY <1>1 DEF CollectionsAreTheirOwners, WorkbenchInv, CachedWhenShown

(* A shell shows the collections of its session, whatever was under way.   *)
THEOREM ShellsShowTheirOwn == WorkbenchSpec => []CollectionsAreTheirOwners
<1> QED
  BY WorkbenchStarts, WorkbenchGoesOn, WorkbenchMeans, PTL DEF WorkbenchSpec

-----------------------------------------------------------------------------
(* The dialogs: what is saved was seen, and a closed dialog stays closed.  *)

(* What somebody has seen of a row is the row of then: its text is the     *)
(* row's as long as the revision is.                                       *)
SeenIsOld(row, seen) ==
  /\ seen.revision <= savedRows[row].revision
  /\ seen.revision = savedRows[row].revision => seen.text = savedRows[row].text
RowsTyped ==
  /\ savedRows \in [Editable -> Revised]
  /\ shownRows \in [People -> [Editable -> Revised]]
  /\ editing \in [People -> {NoDialog} \cup [row : DialogRows, seen : Revised]]
  /\ typed \in [People -> [Editable -> EditTexts]]
Sent(s) == [revision |-> s.expected, text |-> s.seen]
SaveGood(s) ==
  /\ s = [no |-> s.no, by |-> s.by, row |-> s.row, expected |-> s.expected, text |-> s.text,
          seen |-> s.seen, answer |-> s.answer]
  /\ s.by \in People /\ s.row \in Editable /\ s.text \in EditTexts
  /\ Sent(s) \in Revised /\ SeenIsOld(s.row, Sent(s))
EditsAreOld ==
  /\ \A u \in People, r \in Editable : SeenIsOld(r, shownRows[u][r])
  /\ \A u \in People : editing[u] # NoDialog => SeenIsOld(editing[u].row, editing[u].seen)
  /\ \A s \in saves : SaveGood(s)
EditsInv == RowsTyped /\ EditsAreOld /\ SavedOverSeen

(* A question that is being checked is open, and who has cancelled it has  *)
(* neither.                                                                *)
QuestionsInv ==
  /\ passwordStep \in [People -> SUBSET {"dialog", "checking", "editor", "cancelled"}]
  /\ \A u \in People :
       /\ "checking" \in passwordStep[u] => "dialog" \in passwordStep[u]
       /\ "dialog" \in passwordStep[u] => "editor" \notin passwordStep[u]
       /\ "cancelled" \in passwordStep[u] => passwordStep[u] \cap {"dialog", "editor"} = {}

(* What is not read came after the snapshot the draft is based on.         *)
MergingType ==
  [basedOn : DraftVersions, version : DraftVersions, snapshot : [Fields -> EditTexts],
   edited : SUBSET Fields, local : [Fields -> EditTexts], conflicts : SUBSET Fields,
   unread : SUBSET Fields]
MergeInv ==
  /\ merging \in MergingType
  /\ merging.basedOn <= merging.version
  /\ merging.unread # {} => merging.basedOn < merging.version

EditorsInv == EditsInv /\ QuestionsInv /\ MergeInv

LEMMA BlankIsText == Blank \in EditTexts
BY EditorsAssumption DEF Blank

LEMMA EditorsStart == EditorsInit => EditorsInv
<1> SUFFICES ASSUME EditorsInit PROVE EditorsInv
  OBVIOUS
<1> USE BlankIsText, EditorsAssumption
<1>1. RowsTyped
  BY DEF EditorsInit, RowsTyped, Revised
<1>2. EditsAreOld /\ SavedOverSeen
  BY <1>1 DEF EditorsInit, EditsAreOld, SavedOverSeen, SeenIsOld, NoDialog, RowsTyped, Revised
<1>3. QuestionsInv
  BY DEF EditorsInit, QuestionsInv
<1>4. MergeInv
  BY DEF EditorsInit, MergeInv, MergingType, DraftVersions
<1> QED
  BY <1>1, <1>2, <1>3, <1>4 DEF EditorsInv, EditsInv

(* The rows of dialogs and templates.                                      *)
editVars == <<savedRows, shownRows, editing, typed, saves, overwrites>>

LEMMA SameRows ==
  ASSUME EditsInv, savedRows' = savedRows, overwrites' = overwrites,
         shownRows' \in [People -> [Editable -> Revised]],
         editing' \in [People -> {NoDialog} \cup [row : DialogRows, seen : Revised]],
         typed' \in [People -> [Editable -> EditTexts]],
         \A u \in People, r \in Editable : SeenIsOld(r, shownRows'[u][r]),
         \A u \in People : editing'[u] # NoDialog => SeenIsOld(editing'[u].row, editing'[u].seen),
         \A s \in saves' : SaveGood(s)
  PROVE  EditsInv'
<1>1. RowsTyped' /\ SavedOverSeen'
  BY DEF EditsInv, RowsTyped, SavedOverSeen
<1>2. EditsAreOld'
  BY DEF EditsAreOld, SeenIsOld, SaveGood
<1> QED
  BY <1>1, <1>2 DEF EditsInv

LEMMA EditsGoOn == EditsInv /\ (EditNext(Editable) \/ UNCHANGED editVars) => EditsInv'
<1> SUFFICES ASSUME EditsInv, EditNext(Editable) \/ UNCHANGED editVars PROVE EditsInv'
  OBVIOUS
<1>0. /\ RowsTyped /\ EditsAreOld /\ SavedOverSeen
      /\ \A u \in People, r \in Editable : SeenIsOld(r, shownRows[u][r])
      /\ \A u \in People : editing[u] # NoDialog => SeenIsOld(editing[u].row, editing[u].seen)
      /\ \A s \in saves : SaveGood(s)
  BY DEF EditsInv, EditsAreOld
<1>1. CASE UNCHANGED editVars
  BY <1>1, <1>0, SameRows DEF editVars, RowsTyped
<1>2. ASSUME NEW u \in People, NEW r \in DialogRows, OpenDialog(u, r) PROVE EditsInv'
  <2>1. shownRows[u][r] \in Revised /\ SeenIsOld(r, shownRows[u][r]) /\ shownRows[u][r].text \in EditTexts
    BY <1>0 DEF RowsTyped, Editable, Revised
  <2>2. editing' \in [People -> {NoDialog} \cup [row : DialogRows, seen : Revised]]
    BY <1>2, <1>0, <2>1 DEF OpenDialog, RowsTyped
  <2>3. typed' \in [People -> [Editable -> EditTexts]]
    BY <1>2, <1>0, <2>1 DEF OpenDialog, RowsTyped, Editable
  <2>4. \A w \in People : editing'[w] # NoDialog => SeenIsOld(editing'[w].row, editing'[w].seen)
    BY <1>2, <1>0, <2>1 DEF OpenDialog, RowsTyped
  <2> QED
    BY <1>2, <1>0, <2>2, <2>3, <2>4, SameRows DEF OpenDialog, RowsTyped
<1>3. ASSUME NEW u \in People, CancelDialog(u) PROVE EditsInv'
  <2>2. editing' \in [People -> {NoDialog} \cup [row : DialogRows, seen : Revised]]
    BY <1>3, <1>0 DEF CancelDialog, RowsTyped
  <2>3. typed' \in [People -> [Editable -> EditTexts]]
    BY <1>3, <1>0, BlankIsText DEF CancelDialog, RowsTyped
  <2>4. \A w \in People : editing'[w] # NoDialog => SeenIsOld(editing'[w].row, editing'[w].seen)
    BY <1>3, <1>0 DEF CancelDialog, RowsTyped
  <2> QED
    BY <1>3, <1>0, <2>2, <2>3, <2>4, SameRows DEF CancelDialog, RowsTyped
<1>4. ASSUME NEW u \in People, NEW r \in Editable, NEW text \in EditTexts, TypeText(u, r, text)
      PROVE EditsInv'
  <2>3. typed' \in [People -> [Editable -> EditTexts]]
    BY <1>4, <1>0 DEF TypeText, RowsTyped
  <2> QED
    BY <1>4, <1>0, <2>3, SameRows DEF TypeText, RowsTyped
<1>5. ASSUME NEW u \in People, NEW r \in Editable, NEW over \in Revised, SeenIsOld(r, over),
             SendSave(u, r, over)
      PROVE EditsInv'
  <2>1. PICK no : saves' = saves \cup {[no |-> no, by |-> u, row |-> r, expected |-> over.revision,
                               text |-> typed[u][r], seen |-> over.text, answer |-> "none"]}
    BY <1>5 DEF SendSave
  <2>2. typed[u][r] \in EditTexts
    BY <1>0 DEF RowsTyped
  <2>3. over = [revision |-> over.revision, text |-> over.text]
    BY DEF Revised
  <2>4. SaveGood([no |-> no, by |-> u, row |-> r, expected |-> over.revision,
                  text |-> typed[u][r], seen |-> over.text, answer |-> "none"])
    BY <1>5, <2>2, <2>3 DEF SaveGood, Sent
  <2>5. \A s \in saves' : SaveGood(s)
    BY <2>1, <2>4, <1>0
  <2> QED
    BY <1>5, <1>0, <2>5, SameRows DEF SendSave, RowsTyped
<1>6. ASSUME NEW u \in People, SubmitDialog(u) PROVE EditsInv'
  <2>1. editing[u].row \in Editable /\ editing[u].seen \in Revised
    BY <1>6, <1>0 DEF SubmitDialog, RowsTyped, Editable
  <2> QED
    BY <2>1, <1>6, <1>5, <1>0 DEF SubmitDialog
<1>7. ASSUME NEW u \in People, NEW r \in Editable, SaveTemplate(u, r) PROVE EditsInv'
  <2>1. shownRows[u][r] \in Revised
    BY <1>0 DEF RowsTyped
  <2> QED
    BY <2>1, <1>7, <1>5, <1>0 DEF SaveTemplate
<1>8. ASSUME NEW s \in saves, ServeSave(s) PROVE EditsInv'
  <2>1. SaveGood(s) /\ \A a : SaveGood([s EXCEPT !.answer = a])
    BY <1>0 DEF SaveGood, Sent
  <2>2. \A t \in saves' : SaveGood(t)
    BY <1>8, <2>1, <1>0 DEF ServeSave
  <2>3. CASE UNCHANGED <<savedRows, overwrites>>
    BY <1>8, <2>3, <2>2, <1>0, SameRows DEF ServeSave, RowsTyped
  <2>4. CASE /\ savedRows[s.row].revision = s.expected
             /\ s.expected < MaxEditRevision
             /\ savedRows' = [savedRows EXCEPT ![s.row] = [revision |-> s.expected + 1, text |-> s.text]]
             /\ overwrites' = overwrites \cup {<<savedRows[s.row].text, s.seen>>}
    <3>1. s.row \in Editable /\ s.text \in EditTexts /\ Sent(s) \in Revised /\ SeenIsOld(s.row, Sent(s))
      BY <2>1 DEF SaveGood
    <3>2. s.expected + 1 \in 0 .. MaxEditRevision /\ s.expected \in Nat
      BY <2>4, <3>1, EditorsAssumption DEF Revised, Sent
    <3>3. RowsTyped'
      BY <1>8, <2>4, <3>1, <3>2, <1>0 DEF ServeSave, RowsTyped, Revised
    <3>4. SavedOverSeen'
      BY <2>4, <3>1, <1>0 DEF SavedOverSeen, SeenIsOld, Sent
    <3>5. ASSUME NEW r \in Editable, NEW seen \in Revised, SeenIsOld(r, seen)
          PROVE  seen.revision <= savedRows'[r].revision
              /\ (seen.revision = savedRows'[r].revision => seen.text = savedRows'[r].text)
      BY <2>4, <3>1, <3>2, <3>5, <1>0, EditorsAssumption DEF SeenIsOld, RowsTyped, Revised
    <3>6. EditsAreOld'
      <4>1. \A u \in People, r \in Editable : SeenIsOld(r, shownRows[u][r])'
        BY <1>8, <3>5, <1>0 DEF ServeSave, SeenIsOld, RowsTyped
      <4>2. \A u \in People : editing[u] # NoDialog => SeenIsOld(editing[u].row, editing[u].seen)'
        BY <1>8, <3>5, <1>0 DEF ServeSave, SeenIsOld, RowsTyped, Editable
      <4>3. \A t \in saves' : SeenIsOld(t.row, Sent(t))'
        BY <2>2, <3>5 DEF SeenIsOld, SaveGood, Sent
      <4>4. (\A t \in saves : SaveGood(t))'
        BY <2>2, <4>3 DEF SaveGood, Sent
      <4> QED
        BY <1>8, <4>1, <4>2, <4>4 DEF ServeSave, EditsAreOld
    <3> QED
      BY <3>3, <3>4, <3>6 DEF EditsInv
  <2> QED
    BY <1>8, <2>3, <2>4 DEF ServeSave
<1>9. ASSUME NEW u \in People, NEW shut, Fetched(u, shut)
      PROVE  /\ shownRows' \in [People -> [Editable -> Revised]]
             /\ typed' \in [People -> [Editable -> EditTexts]]
             /\ \A w \in People, r \in Editable : SeenIsOld(r, shownRows'[w][r])
  <2>1. shownRows' \in [People -> [Editable -> Revised]]
    BY <1>9, <1>0 DEF Fetched, RowsTyped
  <2>2. \A r \in Editable : savedRows[r].text \in EditTexts
    BY <1>0 DEF RowsTyped, Revised
  <2>3. typed' \in [People -> [Editable -> EditTexts]]
    BY <1>9, <2>2, <1>0, BlankIsText DEF Fetched, RowsTyped
  <2>4. \A r \in Editable : SeenIsOld(r, savedRows[r])
    BY <1>0, EditorsAssumption DEF SeenIsOld, RowsTyped, Revised
  <2>5. \A w \in People, r \in Editable : SeenIsOld(r, shownRows'[w][r])
    BY <1>9, <2>4, <1>0 DEF Fetched, RowsTyped
  <2> QED
    BY <2>1, <2>3, <2>5
<1>10. ASSUME NEW u \in People, Refetches(u) PROVE EditsInv'
  BY <1>10, <1>9, <1>0, SameRows DEF Refetches, RowsTyped
<1>11. ASSUME NEW s \in saves, SaveSucceeds(s) PROVE EditsInv'
  <2>1. s.by \in People
    BY <1>0 DEF SaveGood
  <2>2. editing' \in [People -> {NoDialog} \cup [row : DialogRows, seen : Revised]]
    BY <1>11, <1>0 DEF SaveSucceeds, RowsTyped
  <2>3. \A w \in People : editing'[w] # NoDialog => SeenIsOld(editing'[w].row, editing'[w].seen)
    BY <1>11, <1>0 DEF SaveSucceeds, RowsTyped
  <2>4. \A t \in saves' : SaveGood(t)
    BY <1>11, <1>0 DEF SaveSucceeds
  <2>5. PICK shut : Fetched(s.by, shut)
    BY <1>11 DEF SaveSucceeds
  <2> QED
    BY <1>11, <1>9, <2>1, <2>2, <2>3, <2>4, <2>5, SameRows DEF SaveSucceeds
<1>12. ASSUME NEW s \in saves, SaveFails(s) PROVE EditsInv'
  BY <1>12, <1>0, SameRows DEF SaveFails, RowsTyped
<1> QED
  BY <1>1, <1>2, <1>3, <1>4, <1>6, <1>7, <1>8, <1>10, <1>11, <1>12 DEF EditNext, Editable

(* The question before the system account's editor.                        *)
LEMMA QuestionsGoOn ==
  QuestionsInv /\ (PasswordsNext \/ UNCHANGED passwordStep) => QuestionsInv'
<1> SUFFICES ASSUME QuestionsInv, PasswordsNext \/ UNCHANGED passwordStep PROVE QuestionsInv'
  OBVIOUS
<1>1. CASE UNCHANGED passwordStep
  BY <1>1 DEF QuestionsInv
<1>2. CASE PasswordsNext
  <2> DEFINE Step(u, state) ==
        /\ passwordStep' = [passwordStep EXCEPT ![u] = state]
        /\ state \subseteq {"dialog", "checking", "editor", "cancelled"}
        /\ "checking" \in state => "dialog" \in state
        /\ "dialog" \in state => "editor" \notin state
        /\ "cancelled" \in state => state \cap {"dialog", "editor"} = {}
  <2>1. ASSUME NEW u \in People, NEW state, Step(u, state) PROVE QuestionsInv'
    BY <2>1 DEF QuestionsInv
  <2> HIDE DEF Step
  <2>2. ASSUME NEW u \in People, AskPassword(u) PROVE QuestionsInv'
    <3>1. Step(u, {"dialog"})
      BY <2>2 DEF AskPassword, Confirms, Step
    <3> QED
      BY <3>1, <2>1
  <2>3. ASSUME NEW u \in People, SubmitPassword(u) PROVE QuestionsInv'
    <3>1. Step(u, passwordStep[u] \cup {"checking"})
      BY <2>3 DEF SubmitPassword, Confirms, Step, QuestionsInv
    <3> QED
      BY <3>1, <2>1
  <2>4. ASSUME NEW u \in People, PasswordIsRight(u) PROVE QuestionsInv'
    <3>1. Step(u, (passwordStep[u] \ {"dialog", "checking"}) \cup {"editor"})
      BY <2>4 DEF PasswordIsRight, Confirms, Step, QuestionsInv
    <3> QED
      BY <3>1, <2>1
  <2>5. ASSUME NEW u \in People, PasswordIsWrong(u) PROVE QuestionsInv'
    <3>1. Step(u, passwordStep[u] \ {"checking"})
      BY <2>5 DEF PasswordIsWrong, Confirms, Step, QuestionsInv
    <3> QED
      BY <3>1, <2>1
  <2>6. ASSUME NEW u \in People, CancelPassword(u) PROVE QuestionsInv'
    <3>1. Step(u, (passwordStep[u] \ {"dialog"}) \cup {"cancelled"})
      BY <2>6 DEF CancelPassword, Confirms, Step, QuestionsInv
    <3> QED
      BY <3>1, <2>1
  <2>7. ASSUME NEW u \in People, CloseEditor(u) PROVE QuestionsInv'
    <3>1. Step(u, {})
      BY <2>7 DEF CloseEditor, Confirms, Step
    <3> QED
      BY <3>1, <2>1
  <2> QED
    BY <1>2, <2>2, <2>3, <2>4, <2>5, <2>6, <2>7 DEF PasswordsNext
<1> QED
  BY <1>1, <1>2

(* The draft beside its snapshots.                                         *)
LEMMA MergeGoesOn == MergeInv /\ (MergeNext \/ UNCHANGED merging) => MergeInv'
<1> SUFFICES ASSUME MergeInv, MergeNext \/ UNCHANGED merging PROVE MergeInv'
  OBVIOUS
<1>0. /\ merging \in MergingType
      /\ merging.basedOn \in Nat /\ merging.version \in Nat /\ \A v \in DraftVersions : v \in Nat
  BY EditorsAssumption DEF MergeInv, MergingType, DraftVersions
<1>1. CASE UNCHANGED merging
  BY <1>1 DEF MergeInv
<1>2. ASSUME NEW f \in Fields, NEW text \in EditTexts, EditDraft(f, text) PROVE MergeInv'
  BY <1>2 DEF EditDraft, MergeInv, MergingType
<1>3. ASSUME NEW v \in DraftVersions, NEW snapshot \in [Fields -> EditTexts],
             ReceiveSnapshot(v, snapshot)
      PROVE  MergeInv'
  <2>1. PICK changed \in SUBSET Fields :
          merging' = IF v <= merging.version THEN merging
                     ELSE [merging EXCEPT !.version = v, !.snapshot = snapshot,
                                          !.conflicts = changed, !.unread = @ \cup changed]
    BY <1>3, <1>0 DEF ReceiveSnapshot, MergingType
  <2>2. CASE merging' = merging
    BY <2>2 DEF MergeInv
  <2>3. CASE v > merging.version /\ merging' # merging
    <3>1. merging' = [merging EXCEPT !.version = v, !.snapshot = snapshot, !.conflicts = changed,
                                     !.unread = @ \cup changed]
      BY <2>1, <2>3, <1>0
    <3>2. merging' \in MergingType
      BY <3>1, <1>0 DEF MergingType
    <3>3. merging'.basedOn = merging.basedOn /\ merging'.version = v
      BY <3>1, <1>0 DEF MergingType
    <3> QED
      BY <3>2, <3>3, <2>3, <1>0 DEF MergeInv
  <2> QED
    BY <2>1, <2>2, <2>3, <1>0
<1>4. CASE AcceptLatest
  <2>1. merging' \in MergingType /\ merging'.basedOn = merging'.version /\ merging'.unread = {}
    BY <1>4, <1>0 DEF AcceptLatest, MergingType
  <2>2. merging'.version \in Nat
    BY <2>1, EditorsAssumption DEF MergingType, DraftVersions
  <2> QED
    BY <2>1, <2>2 DEF MergeInv
<1> QED
  BY <1>1, <1>2, <1>3, <1>4 DEF MergeNext

LEMMA EditorsGoOn ==
  EditorsInv /\ [EditNext(Editable) \/ PasswordsNext \/ MergeNext]_editorVars => EditorsInv'
<1> SUFFICES ASSUME EditorsInv, [EditNext(Editable) \/ PasswordsNext \/ MergeNext]_editorVars
             PROVE  EditorsInv'
  OBVIOUS
<1>1. CASE EditNext(Editable)
  <2>1. UNCHANGED <<passwordStep, merging>>
    BY <1>1 DEF EditNext, OpenDialog, CancelDialog, SubmitDialog, SendSave, SaveTemplate, TypeText,
       Refetches, ServeSave, SaveSucceeds, SaveFails
  <2> QED
    BY <1>1, <2>1, EditsGoOn, QuestionsGoOn, MergeGoesOn DEF EditorsInv
<1>2. CASE PasswordsNext
  <2>1. UNCHANGED <<editVars, merging>>
    BY <1>2 DEF PasswordsNext, AskPassword, SubmitPassword, PasswordIsRight, PasswordIsWrong,
       CancelPassword, CloseEditor, Confirms, editVars
  <2> QED
    BY <1>2, <2>1, EditsGoOn, QuestionsGoOn, MergeGoesOn DEF EditorsInv
<1>3. CASE MergeNext
  <2>1. UNCHANGED <<editVars, passwordStep>>
    BY <1>3 DEF MergeNext, EditDraft, ReceiveSnapshot, AcceptLatest, DraftChanges, editVars
  <2> QED
    BY <1>3, <2>1, EditsGoOn, QuestionsGoOn, MergeGoesOn DEF EditorsInv
<1>4. CASE UNCHANGED editorVars
  BY <1>4, EditsGoOn, QuestionsGoOn, MergeGoesOn DEF EditorsInv, editorVars, editVars
<1> QED
  BY <1>1, <1>2, <1>3, <1>4

LEMMA EditorsMean == EditorsInv => SavedOverSeen /\ CancelledStaysClosed /\ SubmittedIsAccepted
<1> SUFFICES ASSUME EditorsInv PROVE SavedOverSeen /\ CancelledStaysClosed /\ SubmittedIsAccepted
  OBVIOUS
<1>1. SavedOverSeen /\ CancelledStaysClosed
  BY DEF EditorsInv, EditsInv, QuestionsInv, CancelledStaysClosed
<1>2. SubmittedIsAccepted
  BY EditorsAssumption DEF EditorsInv, MergeInv, MergingType, SubmittedIsAccepted, CanSubmit, DraftVersions
<1> QED
  BY <1>1, <1>2

(* Commands under way have numbers of their own while there is room, and   *)
(* carry texts, as does what they replace.                                 *)
SavesTyped ==
  /\ IsFiniteSet(saves)
  /\ saves \subseteq [no : 1 .. MaxSaves, by : People, row : Editable,
                      expected : 0 .. MaxEditRevision, text : EditTexts, seen : EditTexts,
                      answer : {"none", "ok", "failed"}]
  /\ overwrites \subseteq EditTexts \X EditTexts

(* While there are fewer commands than numbers, a number is free.          *)
LEMMA ANumberIsFree ==
  ASSUME IsFiniteSet(saves), Cardinality(saves) < MaxSaves
  PROVE  \E n \in 1 .. MaxSaves : \A s \in saves : s.no # n
<1> SUFFICES ASSUME \A n \in 1 .. MaxSaves : \E s \in saves : s.no = n PROVE FALSE
  OBVIOUS
<1>1. IsFiniteSet(1 .. MaxSaves) /\ Cardinality(1 .. MaxSaves) = MaxSaves
  BY FS_Interval, EditorsAssumption
<1> DEFINE f == [n \in 1 .. MaxSaves |-> CHOOSE s \in saves : s.no = n]
<1>2. f \in [1 .. MaxSaves -> saves] /\ \A n \in 1 .. MaxSaves : f[n].no = n
  OBVIOUS
<1>3. \E m, n \in 1 .. MaxSaves : m # n /\ f[m] = f[n]
  <2> HIDE DEF f
  <2> QED
    BY <1>1, <1>2, FS_PigeonHole
<1> QED
  BY <1>2, <1>3

LEMMA SaveIsTyped ==
  ASSUME SavesTyped, RowsTyped, NEW u \in People, NEW r \in Editable, NEW over \in Revised,
         SendSave(u, r, over)
  PROVE  SavesTyped'
<1>1. \E n \in 1 .. MaxSaves : \A s \in saves : s.no # n
  BY ANumberIsFree DEF SendSave, SavesTyped
<1>2. PICK no \in 1 .. MaxSaves :
        saves' = saves \cup {[no |-> no, by |-> u, row |-> r, expected |-> over.revision,
                              text |-> typed[u][r], seen |-> over.text, answer |-> "none"]}
  BY <1>1 DEF SendSave
<1>3. typed[u][r] \in EditTexts /\ over.revision \in 0 .. MaxEditRevision /\ over.text \in EditTexts
  BY DEF RowsTyped, Revised
<1>4. IsFiniteSet(saves')
  BY <1>2, FS_AddElement DEF SavesTyped
<1>5. overwrites' = overwrites
  BY DEF SendSave
<1> QED
  BY <1>2, <1>3, <1>4, <1>5 DEF SavesTyped

LEMMA SavesStayTyped ==
  ASSUME EditorsInv, SavesTyped, [EditNext(Editable) \/ PasswordsNext \/ MergeNext]_editorVars
  PROVE  SavesTyped'
<1>0. RowsTyped
  BY DEF EditorsInv, EditsInv
<1>1. CASE UNCHANGED <<saves, overwrites>>
  BY <1>1 DEF SavesTyped
<1>2. ASSUME NEW u \in People, SubmitDialog(u) PROVE SavesTyped'
  <2>1. editing[u].row \in Editable /\ editing[u].seen \in Revised
    BY <1>0, <1>2 DEF SubmitDialog, RowsTyped, Editable
  <2> QED
    BY <2>1, <1>0, <1>2, SaveIsTyped DEF SubmitDialog
<1>3. ASSUME NEW u \in People, NEW r \in Editable, SaveTemplate(u, r) PROVE SavesTyped'
  <2>1. shownRows[u][r] \in Revised
    BY <1>0 DEF RowsTyped
  <2> QED
    BY <2>1, <1>0, <1>3, SaveIsTyped DEF SaveTemplate
<1>4. ASSUME NEW s \in saves, ServeSave(s) PROVE SavesTyped'
  <2>1. /\ s \in [no : 1 .. MaxSaves, by : People, row : Editable,
                  expected : 0 .. MaxEditRevision, text : EditTexts, seen : EditTexts,
                  answer : {"none", "ok", "failed"}]
        /\ savedRows[s.row].text \in EditTexts
    BY <1>0 DEF SavesTyped, RowsTyped, Revised
  <2>2. PICK a \in {"ok", "failed"} : saves' = (saves \ {s}) \cup {[s EXCEPT !.answer = a]}
    BY <1>4 DEF ServeSave
  <2>3. IsFiniteSet(saves')
    BY <2>2, FS_AddElement, FS_RemoveElement DEF SavesTyped
  <2>4. saves' \subseteq [no : 1 .. MaxSaves, by : People, row : Editable,
                          expected : 0 .. MaxEditRevision, text : EditTexts, seen : EditTexts,
                          answer : {"none", "ok", "failed"}]
    BY <2>1, <2>2 DEF SavesTyped
  <2>5. overwrites' \subseteq EditTexts \X EditTexts
    BY <1>4, <2>1 DEF ServeSave, SavesTyped
  <2> QED
    BY <2>3, <2>4, <2>5 DEF SavesTyped
<1>5. ASSUME NEW s \in saves, SaveSucceeds(s) \/ SaveFails(s) PROVE SavesTyped'
  <2>1. saves' = saves \ {s} /\ overwrites' = overwrites
    BY <1>5 DEF SaveSucceeds, SaveFails
  <2> QED
    BY <2>1, FS_RemoveElement DEF SavesTyped
<1>6. ASSUME NEW u \in People, NEW r, NEW text,
             OpenDialog(u, r) \/ CancelDialog(u) \/ Refetches(u) \/ TypeText(u, r, text)
      PROVE  UNCHANGED <<saves, overwrites>>
  BY <1>6 DEF OpenDialog, CancelDialog, Refetches, TypeText
<1>7. CASE EditNext(Editable)
  BY <1>1, <1>2, <1>3, <1>4, <1>5, <1>6, <1>7 DEF EditNext
<1>8. CASE PasswordsNext \/ MergeNext
  <2>1. UNCHANGED <<saves, overwrites>>
    BY <1>8 DEF PasswordsNext, AskPassword, SubmitPassword, PasswordIsRight, PasswordIsWrong,
       CancelPassword, CloseEditor, Confirms, MergeNext, EditDraft, ReceiveSnapshot, AcceptLatest,
       DraftChanges
  <2> QED
    BY <2>1, <1>1
<1> QED
  BY <1>1, <1>7, <1>8 DEF editorVars

LEMMA EditorsAreTyped == EditorsInv /\ SavesTyped => EditorsTypeOK
BY DEF EditorsInv, EditsInv, RowsTyped, QuestionsInv, MergeInv, MergingType, SavesTyped, EditorsTypeOK

(* Nothing is saved over what its user has not seen, no editor opens for   *)
(* who has cancelled, and no draft goes out over a change nobody read.     *)
THEOREM EditsAreInformed ==
  EditorsSpec => [](SavedOverSeen /\ CancelledStaysClosed /\ SubmittedIsAccepted)
<1> QED
  BY EditorsStart, EditorsGoOn, EditorsMean, PTL DEF EditorsSpec
=============================================================================
