----------------------------- MODULE ConfirmPort ----------------------------
(***************************************************************************)
(* ConfirmPort of apps/worker/src/rabbit-adapter.ts, with the publish of   *)
(* createRabbitConfirmTransport that drives it: one list of outstanding    *)
(* publications shared by every caller of the confirm channel. Several     *)
(* channel and connection events may be dispatched together; then the      *)
(* callers they woke run, each up to its next await, before the next event.*)
(***************************************************************************)
EXTENDS Integers, Sequences, SequencesExt

CONSTANTS Callers,   \* concurrent calls of publish on one channel
          PortMessages,  \* stable message ids
          Pubs,      \* transportPublicationId, fresh for every publication
          None,      \* no publication, no message
          MaxOps     \* bound: publications in the operations list

ASSUME OpsAssumption == MaxOps \in Nat \ {0}
ASSUME PortNoneAssumption == None \notin Pubs \cup PortMessages

VARIABLES
  operations,    \* ConfirmPort.operations
  confirmation,  \* per publication: the state of its promise
  running,       \* woken callers have started to run: no event until they end
  backpressured, \* ConfirmPort.backpressured
  open,          \* ConfirmPort.open: false once fail() ran
  blocked,       \* ConnectionState.blocked
  at,            \* per caller: where its publish is suspended
  msg,           \* per caller: the message it publishes
  own,           \* per caller: the publication it made
  claimed,       \* per caller: the operation it awaits
  stored,        \* history: messages the broker confirmed without a return
  reported       \* history: messages whose publish resolved

events == <<stored, reported>>
portVars == <<operations, confirmation, running, backpressured, open, blocked, at, msg,
          own, claimed, stored, reported>>

(* confirmed is the flag the confirm callback sets, for a nack as well.    *)
Operations == [pub : Pubs, msg : PortMessages, claimed : BOOLEAN, confirmed : BOOLEAN,
               returned : BOOLEAN]

PortTypeOK == /\ operations \in Seq(Operations) /\ Len(operations) <= MaxOps
              /\ confirmation \in [Pubs -> {"pending", "resolved", "rejected"}]
              /\ running \in BOOLEAN
              /\ backpressured \in BOOLEAN
              /\ open \in BOOLEAN
              /\ blocked \in BOOLEAN
              /\ at \in [Callers -> {"idle", "draining", "drained", "awaiting", "taking"}]
              /\ msg \in [Callers -> PortMessages \cup {None}]
              /\ own \in [Callers -> Pubs \cup {None}]
              /\ claimed \in [Callers -> Pubs \cup {None}]
              /\ \A c \in Callers : at[c] = "idle" <=> own[c] = None
              /\ stored \subseteq PortMessages
              /\ reported \subseteq PortMessages

PortInit == /\ operations = <<>>
            /\ confirmation = [p \in Pubs |-> "pending"]
            /\ running = FALSE
            /\ backpressured = FALSE
            /\ open = TRUE
            /\ blocked = FALSE
            /\ at = [c \in Callers |-> "idle"]
            /\ msg = [c \in Callers |-> None]
            /\ own = [c \in Callers |-> None]
            /\ claimed = [c \in Callers |-> None]
            /\ stored = {}
            /\ reported = {}

Healthy == open /\ ~blocked

Outstanding == {operations[i].pub : i \in DOMAIN operations}
Referenced == Outstanding \cup {own[c] : c \in Callers} \cup {claimed[c] : c \in Callers}

(* Broken: a rejected confirmation wakes nobody.                           *)
WokenByConfirm(c) == at[c] = "awaiting" /\ confirmation[claimed[c]] = "resolved"

(* A caller whose awaited confirmation has settled.                        *)
Woken(c) == at[c] = "awaiting" /\ confirmation[claimed[c]] # "pending"

(* After a continuation: no event until nobody is left to run.             *)
RunOn == running' = \E d \in Callers :
           \/ at'[d] \in {"drained", "taking"}
           \/ at'[d] = "awaiting" /\ confirmation'[claimed'[d]] # "pending"

Place(p) == CHOOSE i \in DOMAIN operations : operations[i].pub = p

(* Broken: the call ends and its publication is kept.                      *)
ReturnHolding(c) == /\ at' = [at EXCEPT ![c] = "idle"]
                    /\ msg' = [msg EXCEPT ![c] = None]
                    /\ claimed' = [claimed EXCEPT ![c] = None]
                    /\ UNCHANGED own

(* The call of c ends: with a thrown error, unless reported says otherwise.*)
Return(c) == /\ at' = [at EXCEPT ![c] = "idle"]
             /\ msg' = [msg EXCEPT ![c] = None]
             /\ own' = [own EXCEPT ![c] = None]
             /\ claimed' = [claimed EXCEPT ![c] = None]

(* Broken: the first operation, claimed or not.                            *)
ClaimHead(ops, c) ==
  /\ operations' = [ops EXCEPT ![1].claimed = TRUE]
  /\ claimed' = [claimed EXCEPT ![c] = ops[1].pub]
  /\ at' = [at EXCEPT ![c] = "awaiting"]

(* waitForConfirms up to its await: it claims the first operation nobody   *)
(* has claimed.                                                            *)
ClaimFirst(ops, c) ==
  LET i == CHOOSE k \in DOMAIN ops :
             ~ops[k].claimed /\ \A h \in 1 .. k - 1 : ops[h].claimed
  IN /\ operations' = [ops EXCEPT ![i].claimed = TRUE]
     /\ claimed' = [claimed EXCEPT ![c] = ops[i].pub]
     /\ at' = [at EXCEPT ![c] = "awaiting"]

(* publishMandatory. With room in the write buffer the caller goes straight*)
(* on to waitForConfirms; otherwise it waits for the drain first. A caller *)
(* that finds the port unhealthy or backpressured fails and changes nothing*)
Publish(c, m) ==
  /\ ~running
  /\ at[c] = "idle"
  /\ Healthy /\ ~backpressured
  /\ Len(operations) < MaxOps
  /\ Pubs \ Referenced # {}
  /\ LET p == CHOOSE q \in Pubs : q \notin Referenced
         op == [pub |-> p, msg |-> m, claimed |-> FALSE, confirmed |-> FALSE,
                returned |-> FALSE]
     IN   /\ own' = [own EXCEPT ![c] = p]
          /\ confirmation' = [confirmation EXCEPT ![p] = "pending"]
          /\ \/ /\ ClaimFirst(Append(operations, op), c)
                /\ UNCHANGED backpressured
             \/ /\ operations' = Append(operations, op)
                /\ backpressured' = TRUE
                /\ at' = [at EXCEPT ![c] = "draining"]
                /\ UNCHANGED claimed
  /\ msg' = [msg EXCEPT ![c] = m]
  /\ UNCHANGED <<running, open, blocked, events>>

(* The channel's drain event.                                              *)
Drain(c) ==
  /\ ~running /\ open
  /\ at[c] = "draining"
  /\ at' = [at EXCEPT ![c] = "drained"]
  /\ UNCHANGED <<operations, confirmation, running, backpressured, open, blocked, msg,
                 own, claimed, events>>

(* The rest of waitForDrain, then waitForConfirms. If the connection is    *)
(* blocked by now it throws, and the publication stays in the list.        *)
AfterDrain(c) ==
  /\ at[c] = "drained"
  /\ backpressured' = FALSE
  /\ IF Healthy
     THEN ClaimFirst(operations, c) /\ UNCHANGED <<msg, own>>
     ELSE Return(c) /\ UNCHANGED operations
  /\ UNCHANGED <<confirmation, open, blocked, events>>
  /\ RunOn

(* The awaited confirmation is settled; waitForConfirms goes on. A rejected*)
(* one leaves the list. A blocked or closed port throws all the same.      *)
AfterConfirmation(c) ==
  /\ Woken(c)
  /\ \/ /\ confirmation[claimed[c]] = "rejected"
        /\ operations' = IF claimed[c] \in Outstanding
                         THEN RemoveAt(operations, Place(claimed[c])) ELSE operations
        /\ Return(c)
     \/ /\ confirmation[claimed[c]] = "resolved" /\ ~Healthy
        /\ Return(c)
        /\ UNCHANGED operations
     \/ /\ confirmation[claimed[c]] = "resolved" /\ Healthy
        /\ at' = [at EXCEPT ![c] = "taking"]
        /\ UNCHANGED <<operations, msg, own, claimed>>
  /\ UNCHANGED <<confirmation, backpressured, open, blocked, events>>
  /\ RunOn

(* Broken: the message id alone decides.                                   *)
TakeableById(c) == {i \in DOMAIN operations : operations[i].msg = msg[c]}

Takeable(c) == {i \in DOMAIN operations : /\ operations[i].claimed
                                          /\ operations[i].confirmed
                                          /\ operations[i].msg = msg[c]}

(* takeReturned: the first claimed and confirmed operation of the message  *)
(* decides; with none the outcome is reported as uncertain. It runs one    *)
(* await later than the continuations of the promises settled together.    *)
TakeReturned(c) ==
  /\ at[c] = "taking"
  /\ ~\E d \in Callers : Woken(d)
  /\ IF Takeable(c) = {}
     THEN UNCHANGED <<operations, reported>>
     ELSE LET i == CHOOSE k \in Takeable(c) : \A h \in Takeable(c) : k <= h
          IN /\ operations' = RemoveAt(operations, i)
             /\ reported' = IF operations[i].returned THEN reported
                                                     ELSE reported \cup {msg[c]}
  /\ Return(c)
  /\ UNCHANGED <<confirmation, backpressured, open, blocked, stored>>
  /\ RunOn

-----------------------------------------------------------------------------
(* The broker and the connection.                                          *)

(* Basic.Return of an unroutable publication precedes its confirm. One that*)
(* matches no operation fails the port; the broker sends no such thing.    *)
BasicReturn(p) ==
  /\ ~running /\ open
  /\ ~operations[Place(p)].confirmed /\ ~operations[Place(p)].returned
  /\ operations' = [operations EXCEPT ![Place(p)].returned = TRUE]
  /\ UNCHANGED <<confirmation, running, backpressured, open, blocked, at, msg, own,
                 claimed, events>>

Confirm(p, ok) ==
  /\ ~running /\ open
  /\ LET op == operations[Place(p)]
     IN /\ ~op.confirmed
        /\ stored' = IF ok /\ ~op.returned THEN stored \cup {op.msg} ELSE stored
  /\ operations' = [operations EXCEPT ![Place(p)].confirmed = TRUE]
  /\ confirmation' = [confirmation EXCEPT ![p] = IF ok THEN "resolved" ELSE "rejected"]
  /\ UNCHANGED <<running, backpressured, open, blocked, at, msg, own, claimed, reported>>

Blocked ==
  /\ ~running /\ open /\ ~blocked
  /\ blocked' = TRUE
  /\ UNCHANGED <<operations, confirmation, running, backpressured, open, at, msg, own,
                 claimed, events>>

Unblocked ==
  /\ ~running /\ open /\ blocked
  /\ blocked' = FALSE
  /\ UNCHANGED <<operations, confirmation, running, backpressured, open, at, msg, own,
                 claimed, events>>

(* close or error of the channel or the connection: fail() rejects what is *)
(* not confirmed, and a caller waiting for the drain is rejected with it.  *)
Close ==
  /\ ~running /\ open
  /\ open' = FALSE
  /\ confirmation' = [p \in Pubs |->
       IF p \in Outstanding /\ ~operations[Place(p)].confirmed
       THEN "rejected" ELSE confirmation[p]]
  /\ at' = [c \in Callers |-> IF at[c] = "draining" THEN "idle" ELSE at[c]]
  /\ own' = [c \in Callers |-> IF at[c] = "draining" THEN None ELSE own[c]]
  /\ msg' = [c \in Callers |-> IF at[c] = "draining" THEN None ELSE msg[c]]
  /\ UNCHANGED <<operations, running, backpressured, blocked, claimed, events>>

PortNext ==
  \/ \E c \in Callers : \/ \E m \in PortMessages : Publish(c, m)
                        \/ Drain(c) \/ AfterDrain(c)
                        \/ AfterConfirmation(c) \/ TakeReturned(c)
  \/ \E p \in Outstanding : \/ BasicReturn(p)
                            \/ \E ok \in BOOLEAN : Confirm(p, ok)
  \/ Blocked \/ Unblocked \/ Close

(* Continuations run. Events wait for them, hence strong fairness: a drain *)
(* follows backpressure while the channel is open, and the broker answers  *)
(* every publication or the channel closes.                                *)
PortFairness ==
  \A c \in Callers :
    /\ WF_portVars(AfterDrain(c)) /\ WF_portVars(AfterConfirmation(c)) /\ WF_portVars(TakeReturned(c))
    /\ SF_portVars(Drain(c))
    /\ SF_portVars(\E ok \in BOOLEAN : claimed[c] # None /\ Confirm(claimed[c], ok))

PortSafeSpec == PortInit /\ [][PortNext]_portVars
PortSpec == PortSafeSpec /\ PortFairness

-----------------------------------------------------------------------------
(* A publish that resolves means the broker has stored a routed copy of the*)
(* message: no nack, return, block or close is ever taken for a success,   *)
(* even when another publication's confirmation was awaited.               *)
ReportedIsStored == reported \subseteq stored

(* No two callers wait for the same confirmation.                          *)
ClaimsAreExclusive ==
  \A c, d \in Callers : claimed[c] = claimed[d] /\ claimed[c] # None => c = d

(* Every call of publish comes back, with a success or an error.           *)
PublishSettles == \A c \in Callers : at[c] # "idle" ~> at[c] = "idle"

(* What apps/worker/README.md promises: a confirmation per publication. A  *)
(* caller waits for the confirmation of the publication it made.           *)
AwaitsOwnPublication ==
  \A c \in Callers : at[c] = "awaiting" => claimed[c] = own[c]
=============================================================================
