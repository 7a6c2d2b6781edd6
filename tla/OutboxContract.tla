--------------------------- MODULE OutboxContract ---------------------------
(***************************************************************************)
(* What the outbox promises to the module that appended a message, with no *)
(* publisher, claim, lease or clock in sight: a committed message is owed; *)
(* the broker may receive it any number of times; it is written off as     *)
(* done only if the broker has it; and it does not stay owed for ever.     *)
(***************************************************************************)
CONSTANT Messages

VARIABLES fate,       \* what the outbox says of each message
          delivered   \* the messages of which the broker holds a copy

vars == <<fate, delivered>>

Fates == {"absent", "owed", "done", "parked"}

TypeOK == /\ fate \in [Messages -> Fates]
          /\ delivered \subseteq Messages

Init == /\ fate = [m \in Messages |-> "absent"]
        /\ delivered = {}

(* The owner's transaction commits the message.                            *)
Commit(m) == /\ fate[m] = "absent"
             /\ fate' = [fate EXCEPT ![m] = "owed"]
             /\ UNCHANGED delivered

(* A copy reaches the broker: never of a message that was not committed,   *)
(* and perhaps after the outbox has already given up or finished.          *)
Deliver(m) == /\ fate[m] # "absent"
              /\ delivered' = delivered \cup {m}
              /\ UNCHANGED fate

Settle(m) == /\ fate[m] = "owed"
             /\ m \in delivered
             /\ fate' = [fate EXCEPT ![m] = "done"]
             /\ UNCHANGED delivered

Park(m) == /\ fate[m] = "owed"
           /\ fate' = [fate EXCEPT ![m] = "parked"]
           /\ UNCHANGED delivered

Replay(m) == /\ fate[m] = "parked"
             /\ fate' = [fate EXCEPT ![m] = "owed"]
             /\ UNCHANGED delivered

Next == \E m \in Messages : \/ Commit(m) \/ Deliver(m) \/ Settle(m)
                            \/ Park(m) \/ Replay(m)

Decide(m) == Settle(m) \/ Park(m)

SafeSpec == Init /\ [][Next]_vars

Spec == SafeSpec /\ \A m \in Messages : SF_vars(Decide(m))

(* Nothing reaches the broker before its owner has committed it.           *)
OnlyCommittedDelivered == \A m \in delivered : fate[m] # "absent"

DoneIsDelivered == \A m \in Messages : fate[m] = "done" => m \in delivered
=============================================================================
