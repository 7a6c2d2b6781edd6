--------------------------- MODULE ConsumerAdapter ---------------------------
(***************************************************************************)
(* apps/worker/src/rabbit-adapter.ts, ConsumerAdapter, with the handler of *)
(* handlers.ts that stops and drains it: consumers are registered one by   *)
(* one, deliveries beyond the concurrency wait for one in flight to settle,*)
(* and an abort, a stop, a lost channel or a failed delivery may come at   *)
(* any of these awaits.                                                    *)
(***************************************************************************)
EXTENDS Naturals, FiniteSets

CONSTANTS Bindings,     \* the topologies consumed, by binding id
          Deliveries,   \* deliveries the broker makes
          Concurrency

ASSUME AdapterAssumption ==
  Concurrency \in Nat \ {0} /\ IsFiniteSet(Deliveries) /\ "none" \notin Bindings

VARIABLES
  run,         \* where run() is
  todo,        \* bindings run() has not sent a consume for
  registering, \* the binding whose consume or late cancel is awaited
  consumers,   \* bindings whose consumer tag is known
  cancelling,  \* bindings whose cancel is awaited by stopAcquisition
  atBroker,    \* the broker's consumers of this channel
  acquisition, \* "stopping" is set, the run's signal is aborted
  delivery,    \* per delivery: what schedule() does
  snapshot,    \* per delivery: what it races for
  inFlight,
  stop,        \* where the handler's stop is: what it awaits
  channelOpen

adapterVars == <<run, todo, registering, consumers, cancelling, atBroker, acquisition, delivery,
                 snapshot, inFlight, stop, channelOpen>>
registration == <<run, todo, registering>>
deliveryVars == <<delivery, snapshot, inFlight>>

NotStopping == [stage |-> "none", on |-> {}]

AdapterTypeOK ==
  /\ run \in {"idle", "register", "completion", "ended"}
  /\ todo \subseteq Bindings /\ registering \in Bindings \cup {"none"}
  /\ consumers \subseteq Bindings /\ cancelling \subseteq Bindings /\ atBroker \subseteq Bindings
  /\ acquisition \in [stopping : BOOLEAN, aborted : BOOLEAN]
  /\ delivery \in [Deliveries ->
       {"none", "waiting", "woken", "rejected", "active", "done", "failed"}]
  /\ snapshot \in [Deliveries -> SUBSET Deliveries]
  /\ inFlight \subseteq Deliveries
  /\ stop.stage \in {"none", "cancel", "drain", "closed", "failed"}
  /\ channelOpen \in BOOLEAN

AdapterInit ==
  /\ run = "idle" /\ todo = Bindings /\ registering = "none"
  /\ consumers = {} /\ cancelling = {} /\ atBroker = {}
  /\ acquisition = [stopping |-> FALSE, aborted |-> FALSE]
  /\ delivery = [d \in Deliveries |-> "none"]
  /\ snapshot = [d \in Deliveries |-> {}]
  /\ inFlight = {}
  /\ stop = NotStopping
  /\ channelOpen = TRUE

Stopping == acquisition.stopping

-----------------------------------------------------------------------------
(* Acquisition.                                                            *)

StartAcquisition ==
  /\ run = "idle" /\ channelOpen /\ ~Stopping
  /\ run' = "register"
  /\ UNCHANGED <<todo, registering, consumers, cancelling, atBroker, acquisition, deliveryVars, stop, channelOpen>>

(* The broker registers the consumer; its reply is still to come.          *)
Consume(b) ==
  /\ run = "register" /\ registering = "none" /\ b \in todo /\ channelOpen
  /\ registering' = b /\ todo' = todo \ {b}
  /\ atBroker' = atBroker \cup {b}
  /\ UNCHANGED <<run, consumers, cancelling, acquisition, deliveryVars, stop, channelOpen>>

Registered(b) == registering = b /\ b \notin cancelling /\ channelOpen

(* A tag that comes late is cancelled, before the next one is asked for.   *)
ConsumeReplies(b) ==
  /\ Registered(b)
  /\ IF Stopping \/ acquisition.aborted
     THEN cancelling' = cancelling \cup {b} /\ UNCHANGED <<registering, consumers>>
     ELSE consumers' = consumers \cup {b} /\ registering' = "none" /\ UNCHANGED cancelling
  /\ UNCHANGED <<run, todo, atBroker, acquisition, deliveryVars, stop, channelOpen>>

CancelReplies(b) ==
  /\ b \in cancelling
  /\ cancelling' = cancelling \ {b} /\ atBroker' = atBroker \ {b}
  /\ registering' = IF registering = b THEN "none" ELSE registering
  /\ UNCHANGED <<run, todo, consumers, acquisition, deliveryVars, stop, channelOpen>>

StopAcquisition ==
  /\ acquisition' = [acquisition EXCEPT !.stopping = TRUE]
  /\ cancelling' = cancelling \cup consumers
  /\ consumers' = {}

(* All consumers are asked for: run() awaits its completion.               *)
AwaitCompletion ==
  /\ run = "register" /\ registering = "none" /\ todo = {}
  /\ run' = "completion"
  /\ IF acquisition.aborted THEN StopAcquisition ELSE UNCHANGED <<acquisition, cancelling, consumers>>
  /\ UNCHANGED <<todo, registering, atBroker, deliveryVars, stop, channelOpen>>

(* Completion is resolved or rejected, or the channel fails under consume. *)
RunEnds ==
  /\ \/ run = "completion" /\ (Stopping \/ ~channelOpen)
     \/ run = "register" /\ ~channelOpen
  /\ run' = "ended" /\ registering' = "none"
  /\ UNCHANGED <<todo, consumers, cancelling, atBroker, acquisition, deliveryVars, stop, channelOpen>>

(* The worker aborts the attempt that runs this handler.                   *)
AbortRun ==
  /\ run \in {"register", "completion"} /\ ~acquisition.aborted
  /\ acquisition' = [stopping |-> TRUE, aborted |-> TRUE]
  /\ cancelling' = cancelling \cup consumers /\ consumers' = {}
  /\ UNCHANGED <<registration, atBroker, deliveryVars, stop, channelOpen>>

(* The broker cancels a consumer.                                          *)
ConsumerCancelled(b) ==
  /\ b \in consumers
  /\ consumers' = consumers \ {b} /\ atBroker' = atBroker \ {b}
  /\ acquisition' = [acquisition EXCEPT !.stopping = TRUE]
  /\ UNCHANGED <<registration, cancelling, deliveryVars, stop, channelOpen>>

(* failed: the connection, the channel or the retry port is lost.          *)
ChannelLost ==
  /\ channelOpen
  /\ channelOpen' = FALSE
  /\ acquisition' = [acquisition EXCEPT !.stopping = TRUE]
  /\ consumers' = {} /\ cancelling' = {} /\ atBroker' = {}
  /\ UNCHANGED <<registration, deliveryVars, stop>>

-----------------------------------------------------------------------------
(* Deliveries.                                                             *)

Active == {d \in Deliveries : delivery[d] = "active"}

(* schedule(), from its loop on.                                           *)
Slot(d) ==
  IF Stopping THEN "done" ELSE IF Cardinality(Active) >= Concurrency THEN "waiting" ELSE "active"

Waiters(d) == {e \in Deliveries : delivery[e] = "waiting" /\ d \in snapshot[e]}

Race(d) ==
  /\ delivery' = [e \in Deliveries |-> IF e = d THEN Slot(d)
       ELSE IF Slot(d) = "done" /\ e \in Waiters(d) THEN "woken" ELSE delivery[e]]
  /\ snapshot' = [snapshot EXCEPT ![d] = inFlight]
  /\ inFlight' = IF Slot(d) = "done" THEN inFlight \ {d} ELSE inFlight \cup {d}

Deliver(d) ==
  /\ delivery[d] = "none" /\ atBroker # {} /\ ~Stopping
  /\ Race(d)
  /\ UNCHANGED <<registration, consumers, cancelling, atBroker, acquisition, stop, channelOpen>>

(* accept() has settled the delivery; who raced for it goes on.            *)
SettleDelivery(d) ==
  /\ delivery[d] = "active"
  /\ delivery' = [e \in Deliveries |-> IF e = d THEN "done"
                                      ELSE IF e \in Waiters(d) THEN "woken" ELSE delivery[e]]
  /\ inFlight' = inFlight \ {d}
  /\ UNCHANGED <<registration, consumers, cancelling, atBroker, acquisition, snapshot, stop, channelOpen>>

Wake(d) ==
  /\ delivery[d] = "woken"
  /\ Race(d)
  /\ UNCHANGED <<registration, consumers, cancelling, atBroker, acquisition, stop, channelOpen>>

(* accept() is rejected, and so is who raced for it: none is acknowledged. *)
DeliveryFails(d) ==
  /\ delivery[d] \in {"active", "rejected"}
  /\ delivery' = [e \in Deliveries |-> IF e = d THEN "failed"
                                      ELSE IF e \in Waiters(d) THEN "rejected" ELSE delivery[e]]
  /\ inFlight' = inFlight \ {d}
  /\ acquisition' = [acquisition EXCEPT !.stopping = TRUE]
  /\ UNCHANGED <<registration, consumers, cancelling, atBroker, snapshot, stop, channelOpen>>

-----------------------------------------------------------------------------
(* Stop and drain: awaited on are the cancels, then the deliveries.        *)

Stop ==
  /\ stop = NotStopping
  /\ IF Stopping /\ consumers = {} THEN UNCHANGED <<acquisition, cancelling, consumers>>
     ELSE StopAcquisition
  /\ stop' = [stage |-> "cancel", on |-> consumers]
  /\ UNCHANGED <<registration, atBroker, deliveryVars, channelOpen>>

DrainAdapter ==
  /\ stop.stage = "cancel" /\ stop.on \cap cancelling = {}
  /\ stop' = [stage |-> "drain", on |-> inFlight]
  /\ UNCHANGED <<registration, consumers, cancelling, atBroker, acquisition, deliveryVars, channelOpen>>

Close(s) ==
  /\ stop.stage = "drain"
  /\ stop' = [stop EXCEPT !.stage = s]
  /\ channelOpen' = FALSE
  /\ atBroker' = {} /\ cancelling' = {}
  /\ UNCHANGED <<registration, consumers, acquisition, deliveryVars>>

AdapterDrained == stop.on \cap inFlight = {} /\ Close("closed")

(* A delivery drained was rejected, or the drain is aborted.               *)
AdapterDrainFails == Close("failed")

AcquisitionNext ==
  \/ StartAcquisition \/ AwaitCompletion \/ RunEnds \/ AbortRun \/ ChannelLost
  \/ \E b \in Bindings : Consume(b) \/ ConsumeReplies(b) \/ CancelReplies(b) \/ ConsumerCancelled(b)

AdapterNext ==
  \/ AcquisitionNext
  \/ \E d \in Deliveries : Deliver(d) \/ SettleDelivery(d) \/ Wake(d) \/ DeliveryFails(d)
  \/ Stop \/ DrainAdapter \/ AdapterDrained \/ AdapterDrainFails

AdapterSpec == AdapterInit /\ [][AdapterNext]_adapterVars

-----------------------------------------------------------------------------
(* Properties.                                                             *)

(* No more deliveries are handled at a time than the concurrency allows,   *)
(* and one that waits races for one that is being handled, so it is woken: *)
(* the set it raced for is a snapshot others have left and entered since.  *)
WaitersAreWoken ==
  /\ Cardinality(Active) <= Concurrency
  /\ \A d \in Deliveries : delivery[d] = "waiting" => snapshot[d] \cap Active # {}

(* Once acquisition was stopped and every reply awaited has come, no       *)
(* consumer is left at the broker: it would be sent deliveries that nobody *)
(* handles, although a reply may come after the stop.                      *)
NoConsumerIsLeft ==
  stop.stage \in {"drain", "closed"} /\ registering = "none" /\ cancelling = {} => atBroker = {}

(* A drain that succeeds closes the channel after every delivery it had    *)
(* accepted was settled: their acknowledgements need the channel.          *)
ClosedWhenSettled ==
  stop.stage = "closed" => \A d \in Deliveries : delivery[d] \in {"none", "done", "failed"}
=============================================================================
