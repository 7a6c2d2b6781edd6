-------------------------- MODULE PublisherProofs ---------------------------
(***************************************************************************)
(* Proofs about how a message leaves: the confirm port through which a     *)
(* publisher hands it to the broker, and the outbox and its publishers.    *)
(***************************************************************************)
EXTENDS Outbox, ConfirmPort, SequenceTheorems, WellFoundedInduction, TLAPS

-----------------------------------------------------------------------------
(* Proofs about the confirm port for any number of callers, messages and   *)
(* outstanding publications. Callers await each other's confirmations, so  *)
(* the argument is about the list and not about who made an entry: a       *)
(* rejected entry that somebody claimed has its claimant on the way to     *)
(* remove it, and until then nobody gets to take an entry for a success.   *)

(* An entry is found by its publication.                                   *)
PubsAreUnique ==
  \A i, j \in DOMAIN operations : operations[i].pub = operations[j].pub => i = j

(* The confirm callback settles the promise with the flag; a promise that  *)
(* resolved without a return means a stored message.                       *)
ConfirmedIsSettled ==
  \A i \in DOMAIN operations :
    /\ operations[i].confirmed => confirmation[operations[i].pub] # "pending"
    /\ ~operations[i].confirmed => confirmation[operations[i].pub] # "resolved"
    /\ confirmation[operations[i].pub] = "resolved" /\ ~operations[i].returned
         => operations[i].msg \in stored

(* An entry that is claimed and not resolved has its claimant waiting.     *)
UnresolvedIsAwaited ==
  \A i \in DOMAIN operations :
    operations[i].claimed /\ confirmation[operations[i].pub] # "resolved"
    => \E c \in Callers : at[c] = "awaiting" /\ claimed[c] = operations[i].pub

(* What a caller has claimed is marked as long as it is in the list.       *)
ClaimsAreMarked ==
  \A c \in Callers, i \in DOMAIN operations :
    claimed[c] = operations[i].pub => operations[i].claimed

(* Backpressure keeps everybody else out while one caller waits for the    *)
(* drain, so that waitForConfirms finds an operation to claim.             *)
Draining(c) == at[c] \in {"draining", "drained"}
OneDrain ==
  \A c \in Callers : Draining(c) =>
    /\ backpressured
    /\ \E i \in DOMAIN operations : ~operations[i].claimed
    /\ \A d \in Callers : Draining(d) => d = c

ListInv == PubsAreUnique /\ ConfirmedIsSettled /\ UnresolvedIsAwaited
ClaimInv == ClaimsAreMarked /\ ClaimsAreExclusive /\ OneDrain

PortInv == PortTypeOK /\ ListInv /\ ClaimInv /\ ReportedIsStored

-----------------------------------------------------------------------------
(* Lists.                                                                  *)

(* Array.find looks at the entries in order: there is a first one.         *)
LEMMA First ==
  ASSUME NEW S, S \subseteq Nat, S # {}
  PROVE  \E n \in S : \A m \in S : n <= m
<1>1. PICK n \in S : \A m \in S : ~(<<m, n>> \in OpToRel(<, Nat))
  BY WFMin, NatLessThanWellFounded, Zenon
<1>2. \A m \in S : ~(m < n)
  BY <1>1 DEF OpToRel
<1>3. QED
  BY <1>2

(* splice(i, 1): what is behind the entry moves up.                        *)
LEMMA Splice ==
  ASSUME NEW S, NEW s \in Seq(S), NEW i \in 1 .. Len(s)
  PROVE  /\ RemoveAt(s, i) \in Seq(S)
         /\ Len(RemoveAt(s, i)) = Len(s) - 1
         /\ \A k \in 1 .. Len(s) - 1 : RemoveAt(s, i)[k] = IF k < i THEN s[k] ELSE s[k + 1]
<1> DEFINE a == SubSeq(s, 1, i - 1)
           b == SubSeq(s, i + 1, Len(s))
<1>1. a \in Seq(S) /\ Len(a) = i - 1 /\ \A k \in 1 .. i - 1 : a[k] = s[k]
  OBVIOUS
<1>2. b \in Seq(S) /\ Len(b) = Len(s) - i /\ \A k \in 1 .. Len(s) - i : b[k] = s[i + k]
  OBVIOUS
<1>3. RemoveAt(s, i) = a \o b
  BY DEF RemoveAt
<1> HIDE DEF a, b
<1>4. /\ a \o b \in Seq(S)
      /\ Len(a \o b) = Len(s) - 1
      /\ \A k \in 1 .. Len(s) - 1 : (a \o b)[k] = IF k < i THEN a[k] ELSE b[k - (i - 1)]
  <2>1. /\ a \o b \in Seq(S)
        /\ Len(a \o b) = Len(a) + Len(b)
        /\ \A k \in 1 .. Len(a) + Len(b) : (a \o b)[k] = IF k <= Len(a) THEN a[k] ELSE b[k - Len(a)]
    BY <1>1, <1>2, ConcatProperties, Zenon
  <2>2. Len(a) = i - 1 /\ Len(a) + Len(b) = Len(s) - 1
    BY <1>1, <1>2
  <2>3. QED
    BY <2>1, <2>2
<1>5. \A k \in 1 .. Len(s) - 1 : (a \o b)[k] = IF k < i THEN s[k] ELSE s[k + 1]
  <2>1. SUFFICES ASSUME NEW k \in 1 .. Len(s) - 1 PROVE (a \o b)[k] = IF k < i THEN s[k] ELSE s[k + 1]
    OBVIOUS
  <2>2. CASE k < i
    BY <1>1, <1>4, <2>2
  <2>3. CASE ~(k < i)
    <3>1. k - (i - 1) \in 1 .. Len(s) - i /\ i + (k - (i - 1)) = k + 1
      BY <2>3
    <3>2. QED
      BY <1>2, <1>4, <2>3, <3>1
  <2>4. QED
    BY <2>2, <2>3
<1>6. QED
  BY <1>3, <1>4, <1>5

(* What is left of the list after an entry was removed: the others.        *)
LEMMA Others ==
  ASSUME operations \in Seq(Operations), PubsAreUnique, NEW i \in DOMAIN operations,
         operations' = RemoveAt(operations, i)
  PROVE  /\ operations' \in Seq(Operations) /\ Len(operations') = Len(operations) - 1
         /\ PubsAreUnique'
         /\ \A k \in DOMAIN operations' : \E j \in DOMAIN operations :
              j # i /\ operations'[k] = operations[j]
         /\ \A j \in DOMAIN operations : j # i =>
              \E k \in DOMAIN operations' : operations'[k] = operations[j]
<1>1. /\ operations' \in Seq(Operations) /\ Len(operations') = Len(operations) - 1
      /\ \A k \in 1 .. Len(operations) - 1 :
           operations'[k] = IF k < i THEN operations[k] ELSE operations[k + 1]
  BY Splice
<1>2. PubsAreUnique'
  <2> DEFINE Old(k) == IF k < i THEN k ELSE k + 1
  <2>1. SUFFICES ASSUME NEW k \in DOMAIN operations', NEW l \in DOMAIN operations',
                        operations'[k].pub = operations'[l].pub
                 PROVE  k = l
    BY DEF PubsAreUnique
  <2>2. k \in 1 .. Len(operations) - 1 /\ l \in 1 .. Len(operations) - 1
    BY <1>1
  <2>3. Old(k) \in DOMAIN operations /\ Old(l) \in DOMAIN operations
    BY <2>2
  <2>4. operations'[k] = operations[Old(k)] /\ operations'[l] = operations[Old(l)]
    BY <1>1, <2>2
  <2>5. Old(k) = Old(l)
    BY <2>1, <2>3, <2>4 DEF PubsAreUnique
  <2>6. QED
    BY <2>2, <2>5
<1>3. \A k \in DOMAIN operations' : \E j \in DOMAIN operations :
        j # i /\ operations'[k] = operations[j]
  <2>1. SUFFICES ASSUME NEW k \in 1 .. Len(operations) - 1
                 PROVE \E j \in DOMAIN operations : j # i /\ operations'[k] = operations[j]
    BY <1>1
  <2>2. CASE k < i
    BY <1>1, <2>2
  <2>3. CASE ~(k < i)
    <3>1. k + 1 \in DOMAIN operations /\ k + 1 # i /\ operations'[k] = operations[k + 1]
      BY <1>1, <2>3
    <3>2. QED
      BY <3>1
  <2>4. QED
    BY <2>2, <2>3
<1>4. \A j \in DOMAIN operations : j # i =>
        \E k \in DOMAIN operations' : operations'[k] = operations[j]
  <2>1. SUFFICES ASSUME NEW j \in 1 .. Len(operations), j # i
                 PROVE \E k \in DOMAIN operations' : operations'[k] = operations[j]
    OBVIOUS
  <2>2. CASE j < i
    BY <1>1, <2>2
  <2>3. CASE ~(j < i)
    <3>1. j - 1 \in DOMAIN operations' /\ operations'[j - 1] = operations[j]
      BY <1>1, <2>1, <2>3
    <3>2. QED
      BY <3>1
  <2>4. QED
    BY <2>2, <2>3
<1>5. QED
  BY <1>1, <1>2, <1>3, <1>4

(* What an entry is made of.                                               *)
LEMMA Entries ==
  ASSUME NEW ops \in Seq(Operations), NEW i \in DOMAIN ops
  PROVE  /\ ops[i] \in Operations
         /\ ops[i].pub \in Pubs /\ ops[i].msg \in PortMessages
         /\ ops[i].claimed \in BOOLEAN /\ ops[i].confirmed \in BOOLEAN
         /\ ops[i].returned \in BOOLEAN
<1>1. ops[i] \in Operations
  OBVIOUS
<1>2. QED
  BY <1>1 DEF Operations

(* An entry that is replaced leaves the others where they are.             *)
LEMMA Replaced ==
  ASSUME NEW ops \in Seq(Operations), NEW i \in DOMAIN ops, NEW e \in Operations
  PROVE  /\ [ops EXCEPT ![i] = e] \in Seq(Operations)
         /\ Len([ops EXCEPT ![i] = e]) = Len(ops)
         /\ [ops EXCEPT ![i] = e][i] = e
         /\ \A k \in DOMAIN ops : k # i => [ops EXCEPT ![i] = e][k] = ops[k]
<1>1. i \in 1 .. Len(ops)
  OBVIOUS
<1>2. /\ [ops EXCEPT ![i] = e] \in Seq(Operations)
      /\ Len([ops EXCEPT ![i] = e]) = Len(ops)
      /\ \A j \in 1 .. Len(ops) : [ops EXCEPT ![i] = e][j] = IF j = i THEN e ELSE ops[j]
  BY <1>1, ExceptSeq
<1>3. QED
  BY <1>1, <1>2

(* indexOf finds the entry of an outstanding publication.                  *)
LEMMA Found ==
  ASSUME PubsAreUnique, NEW p \in Outstanding
  PROVE  Place(p) \in DOMAIN operations /\ operations[Place(p)].pub = p
  BY DEF Place, Outstanding

(* waitForConfirms marks one entry that nobody had claimed.                *)
LEMMA ClaimsKept ==
  ASSUME NEW ops \in Seq(Operations), NEW c \in Callers, ClaimFirst(ops, c),
         \E k \in DOMAIN ops : ~ops[k].claimed
  PROVE  \E i \in DOMAIN ops :
           /\ ~ops[i].claimed
           /\ operations' = [ops EXCEPT ![i].claimed = TRUE]
           /\ claimed' = [claimed EXCEPT ![c] = ops[i].pub]
           /\ at' = [at EXCEPT ![c] = "awaiting"]
<1> DEFINE Free(k) == ~ops[k].claimed /\ \A h \in 1 .. k - 1 : ops[h].claimed
<1>1. \E i \in DOMAIN ops : Free(i)
  <2> DEFINE S == {k \in DOMAIN ops : ~ops[k].claimed}
  <2>1. S \subseteq Nat /\ S # {}
    OBVIOUS
  <2>2. PICK i \in S : \A k \in S : i <= k
    BY <2>1, First
  <2>3. i \in DOMAIN ops /\ Free(i)
    BY <2>2
  <2>4. QED
    BY <2>3
<1>2. QED
  BY <1>1 DEF ClaimFirst

-----------------------------------------------------------------------------
(* What the actions do to the list.                                        *)

(* Only the mark of an entry may have been set.                            *)
OnlyClaimed(e, d) ==
  /\ d.pub = e.pub /\ d.msg = e.msg
  /\ d.confirmed = e.confirmed /\ d.returned = e.returned
  /\ e.claimed => d.claimed

SameButClaim(k) == OnlyClaimed(operations[k], operations'[k])

(* Caller c has claimed entry i of the new list, which was free.           *)
HasClaimed(c, i) ==
  /\ operations'[i].claimed
  /\ i \in DOMAIN operations => ~operations[i].claimed
  /\ \A k \in DOMAIN operations' : k # i =>
       IF k \in DOMAIN operations THEN operations'[k] = operations[k]
                                 ELSE ~operations'[k].claimed
  /\ claimed' = [claimed EXCEPT ![c] = operations'[i].pub]
  /\ at' = [at EXCEPT ![c] = "awaiting"]

(* publishMandatory adds one entry with a fresh promise, and a caller that *)
(* need not drain has claimed an entry, that one or an older one.          *)
Adds(c, m, p) ==
  /\ operations' \in Seq(Operations) /\ Len(operations') = Len(operations) + 1
  /\ confirmation' = [confirmation EXCEPT ![p] = "pending"]
  /\ \A k \in DOMAIN operations : SameButClaim(k)
  /\ operations'[Len(operations) + 1].pub = p
  /\ ~operations'[Len(operations) + 1].confirmed
  /\ \/ /\ UNCHANGED backpressured
        /\ \E i \in DOMAIN operations' : HasClaimed(c, i)
     \/ /\ backpressured'
        /\ at' = [at EXCEPT ![c] = "draining"]
        /\ ~operations'[Len(operations) + 1].claimed
        /\ \A k \in DOMAIN operations : operations'[k] = operations[k]
        /\ UNCHANGED claimed

(* An entry that is marked keeps everything else.                          *)
LEMMA Marks ==
  ASSUME NEW ops \in Seq(Operations), NEW i \in DOMAIN ops,
         operations' = [ops EXCEPT ![i].claimed = TRUE]
  PROVE  /\ operations' \in Seq(Operations) /\ Len(operations') = Len(ops)
         /\ operations'[i].claimed /\ operations'[i].pub = ops[i].pub
         /\ \A k \in DOMAIN ops : k # i => operations'[k] = ops[k]
         /\ \A k \in DOMAIN ops : OnlyClaimed(ops[k], operations'[k])
<1> DEFINE e == [ops[i] EXCEPT !.claimed = TRUE]
<1>1. ops[i] \in Operations
  BY Entries
<1>2. e \in Operations /\ e.claimed /\ OnlyClaimed(ops[i], e)
  BY <1>1 DEF Operations, OnlyClaimed
<1>3. operations' = [ops EXCEPT ![i] = e]
  OBVIOUS
<1> HIDE DEF e
<1>4. /\ operations' \in Seq(Operations) /\ Len(operations') = Len(ops)
      /\ operations'[i] = e
      /\ \A k \in DOMAIN ops : k # i => operations'[k] = ops[k]
  <2>1. /\ [ops EXCEPT ![i] = e] \in Seq(Operations)
        /\ Len([ops EXCEPT ![i] = e]) = Len(ops)
        /\ [ops EXCEPT ![i] = e][i] = e
        /\ \A k \in DOMAIN ops : k # i => [ops EXCEPT ![i] = e][k] = ops[k]
    BY <1>2, Replaced
  <2>2. QED
    BY <1>3, <2>1
<1>5. \A k \in DOMAIN ops : OnlyClaimed(ops[k], operations'[k])
  BY <1>2, <1>4 DEF OnlyClaimed
<1>6. QED
  BY <1>2, <1>4, <1>5 DEF OnlyClaimed

(* What publish leaves in the list.                                        *)
LEMMA PublishAdds ==
  ASSUME PortTypeOK, NEW c \in Callers, NEW m \in PortMessages, Publish(c, m)
  PROVE  \E p \in Pubs : p \notin Referenced /\ own' = [own EXCEPT ![c] = p] /\ Adds(c, m, p)
<1>1. PICK p \in Pubs : p \notin Referenced /\ p = CHOOSE q \in Pubs : q \notin Referenced
  BY DEF Publish
<1> DEFINE op == [pub |-> p, msg |-> m, claimed |-> FALSE, confirmed |-> FALSE, returned |-> FALSE]
           ops == Append(operations, op)
           n == Len(operations) + 1
<1>2. /\ own' = [own EXCEPT ![c] = p]
      /\ confirmation' = [confirmation EXCEPT ![p] = "pending"]
      /\ \/ ClaimFirst(ops, c) /\ UNCHANGED backpressured
         \/ /\ operations' = ops
            /\ backpressured' = TRUE
            /\ at' = [at EXCEPT ![c] = "draining"]
            /\ UNCHANGED claimed
  BY <1>1, Zenon DEF Publish
<1>3. op \in Operations
  BY DEF Operations
<1>4. /\ ops \in Seq(Operations) /\ Len(ops) = n /\ ops[n] = op
      /\ \A k \in DOMAIN operations : ops[k] = operations[k]
  BY <1>3 DEF PortTypeOK
<1> HIDE DEF ops
<1>5. CASE ClaimFirst(ops, c) /\ UNCHANGED backpressured
  <2>1. PICK i \in DOMAIN ops :
          /\ ~ops[i].claimed
          /\ operations' = [ops EXCEPT ![i].claimed = TRUE]
          /\ claimed' = [claimed EXCEPT ![c] = ops[i].pub]
          /\ at' = [at EXCEPT ![c] = "awaiting"]
    <3>1. n \in DOMAIN ops /\ ~ops[n].claimed
      BY <1>4 DEF PortTypeOK
    <3>2. QED
      BY <1>4, <1>5, <3>1, ClaimsKept
  <2>2. /\ operations' \in Seq(Operations) /\ Len(operations') = n
        /\ operations'[i].claimed /\ operations'[i].pub = ops[i].pub
        /\ \A k \in DOMAIN ops : k # i => operations'[k] = ops[k]
        /\ \A k \in DOMAIN ops : OnlyClaimed(ops[k], operations'[k])
    <3>1. ops \in Seq(Operations) /\ Len(ops) = n
      BY <1>4
    <3>2. QED
      BY <2>1, <3>1, Marks
  <2>3. DOMAIN operations \subseteq DOMAIN ops /\ n \in DOMAIN ops /\ i \in DOMAIN operations'
    BY <1>4, <2>2 DEF PortTypeOK
  <2>4. HasClaimed(c, i)
    <3>1. DOMAIN operations' = DOMAIN operations \cup {n} /\ n \notin DOMAIN operations
      BY <2>2 DEF PortTypeOK
    <3>2. ASSUME NEW k \in DOMAIN operations', k # i
          PROVE  IF k \in DOMAIN operations THEN operations'[k] = operations[k]
                                           ELSE ~operations'[k].claimed
      <4>1. k \in DOMAIN ops
        BY <2>3, <3>1
      <4>2. operations'[k] = ops[k]
        BY <2>2, <3>2, <4>1
      <4>3. QED
        BY <1>4, <3>1, <4>2
    <3>3. i \in DOMAIN operations => ~operations[i].claimed
      BY <1>4, <2>1
    <3>4. QED
      BY <2>1, <2>2, <3>2, <3>3 DEF HasClaimed
  <2>5. operations'[n].pub = p /\ ~operations'[n].confirmed
    BY <1>4, <2>2, <2>3 DEF OnlyClaimed
  <2>6. \A k \in DOMAIN operations : SameButClaim(k)
    BY <1>4, <2>2, <2>3 DEF SameButClaim
  <2>7. QED
    BY <1>1, <1>2, <1>5, <2>2, <2>3, <2>4, <2>5, <2>6 DEF Adds
<1>6. CASE operations' = ops /\ backpressured' = TRUE /\ UNCHANGED claimed
           /\ at' = [at EXCEPT ![c] = "draining"]
  <2>1. \A k \in DOMAIN operations : SameButClaim(k)
    BY <1>4, <1>6 DEF SameButClaim, OnlyClaimed
  <2>2. operations'[n].pub = p /\ ~operations'[n].confirmed /\ ~operations'[n].claimed
    BY <1>4, <1>6
  <2>3. Adds(c, m, p)
    BY <1>2, <1>4, <1>6, <2>1, <2>2 DEF Adds
  <2>4. QED
    BY <1>1, <1>2, <2>3
<1>7. QED
  BY <1>2, <1>5, <1>6

(* After the drain there is an entry to claim, as waitForConfirms expects. *)
LEMMA DrainedClaims ==
  ASSUME PortTypeOK, OneDrain, NEW c \in Callers, AfterDrain(c), Healthy
  PROVE  /\ operations' \in Seq(Operations) /\ Len(operations') = Len(operations)
         /\ \A k \in DOMAIN operations : SameButClaim(k)
         /\ \E i \in DOMAIN operations : HasClaimed(c, i)
<1>1. PICK i \in DOMAIN operations :
        /\ ~operations[i].claimed
        /\ operations' = [operations EXCEPT ![i].claimed = TRUE]
        /\ claimed' = [claimed EXCEPT ![c] = operations[i].pub]
        /\ at' = [at EXCEPT ![c] = "awaiting"]
  <2>1. \E k \in DOMAIN operations : ~operations[k].claimed
    BY DEF AfterDrain, OneDrain, Draining
  <2>2. QED
    BY <2>1, ClaimsKept DEF AfterDrain, PortTypeOK
<1>2. /\ operations' \in Seq(Operations) /\ Len(operations') = Len(operations)
      /\ operations'[i].claimed /\ operations'[i].pub = operations[i].pub
      /\ \A k \in DOMAIN operations : k # i => operations'[k] = operations[k]
      /\ \A k \in DOMAIN operations : OnlyClaimed(operations[k], operations'[k])
  BY <1>1, Marks DEF PortTypeOK
<1>3. HasClaimed(c, i)
  BY <1>1, <1>2 DEF HasClaimed
<1>4. QED
  BY <1>2, <1>3 DEF SameButClaim

(* Others' entries survive when a rejected one is removed.                 *)
LEMMA RejectedRemoves ==
  ASSUME PortTypeOK, PubsAreUnique, NEW c \in Callers, AfterConfirmation(c)
  PROVE  \/ operations' = operations
         \/ \E i \in DOMAIN operations : /\ operations[i].pub = claimed[c]
                                         /\ operations' = RemoveAt(operations, i)
  BY Found DEF AfterConfirmation

(* takeReturned takes one that matches, and an outcome from it.            *)
LEMMA TakesOne ==
  ASSUME PortTypeOK, NEW c \in Callers, TakeReturned(c)
  PROVE  \/ UNCHANGED <<operations, reported>>
         \/ \E i \in Takeable(c) :
              /\ operations' = RemoveAt(operations, i)
              /\ reported' = IF operations[i].returned THEN reported ELSE reported \cup {msg[c]}
<1>1. CASE Takeable(c) = {}
  BY <1>1 DEF TakeReturned
<1>2. CASE Takeable(c) # {}
  <2>1. Takeable(c) \subseteq Nat
    BY DEF Takeable, PortTypeOK
  <2>2. \E i \in Takeable(c) : \A h \in Takeable(c) : i <= h
    BY <1>2, <2>1, First
  <2>3. QED
    BY <1>2, <2>2 DEF TakeReturned
<1>3. QED
  BY <1>1, <1>2

(* The return event and the confirm callback each touch one entry.         *)
SameButFlags(k) == /\ operations'[k].pub = operations[k].pub
                   /\ operations'[k].msg = operations[k].msg
                   /\ operations'[k].claimed = operations[k].claimed

(* The entry of the returned publication is marked.                        *)
LEMMA ReturnMarks ==
  ASSUME PortTypeOK, PubsAreUnique, NEW p \in Outstanding, BasicReturn(p)
  PROVE  \E i \in DOMAIN operations :
           /\ operations[i].pub = p /\ ~operations[i].confirmed
           /\ operations' \in Seq(Operations) /\ Len(operations') = Len(operations)
           /\ operations'[i].returned /\ operations'[i].confirmed = operations[i].confirmed
           /\ \A j \in DOMAIN operations : SameButFlags(j)
           /\ \A k \in DOMAIN operations : k # i => operations'[k] = operations[k]
<1>1. PICK i \in DOMAIN operations : i = Place(p) /\ operations[i].pub = p
  BY Found
<1>2. operations[i] \in Operations
  BY Entries DEF PortTypeOK
<1> DEFINE e == [operations[i] EXCEPT !.returned = TRUE]
<1>3. /\ e \in Operations
      /\ e.returned /\ e.confirmed = operations[i].confirmed
      /\ e.pub = operations[i].pub /\ e.msg = operations[i].msg /\ e.claimed = operations[i].claimed
  BY <1>2 DEF Operations
<1>4. operations' = [operations EXCEPT ![i] = e] /\ ~operations[i].confirmed
  BY <1>1 DEF BasicReturn
<1> HIDE DEF e
<1>5. /\ operations' \in Seq(Operations) /\ Len(operations') = Len(operations)
      /\ operations'[i] = e
      /\ \A k \in DOMAIN operations : k # i => operations'[k] = operations[k]
  BY <1>3, <1>4, Replaced DEF PortTypeOK
<1>6. QED
  BY <1>1, <1>3, <1>4, <1>5 DEF SameButFlags

(* The entry of a confirmed or refused one is marked, and its message is   *)
(* stored if it was confirmed and not returned.                            *)
LEMMA ConfirmMarks ==
  ASSUME PortTypeOK, PubsAreUnique, NEW p \in Outstanding, NEW ok \in BOOLEAN, Confirm(p, ok)
  PROVE  \E i \in DOMAIN operations :
           /\ operations[i].pub = p /\ ~operations[i].confirmed
           /\ operations' \in Seq(Operations) /\ Len(operations') = Len(operations)
           /\ operations'[i].confirmed /\ operations'[i].returned = operations[i].returned
           /\ \A j \in DOMAIN operations : SameButFlags(j)
           /\ \A k \in DOMAIN operations : k # i => operations'[k] = operations[k]
           /\ stored' = IF ok /\ ~operations[i].returned THEN stored \cup {operations[i].msg}
                                                         ELSE stored
<1>1. PICK i \in DOMAIN operations : i = Place(p) /\ operations[i].pub = p
  BY Found
<1>2. operations[i] \in Operations
  BY Entries DEF PortTypeOK
<1> DEFINE e == [operations[i] EXCEPT !.confirmed = TRUE]
<1>3. /\ e \in Operations
      /\ e.confirmed /\ e.returned = operations[i].returned
      /\ e.pub = operations[i].pub /\ e.msg = operations[i].msg /\ e.claimed = operations[i].claimed
  BY <1>2 DEF Operations
<1>4. operations' = [operations EXCEPT ![i] = e] /\ ~operations[i].confirmed
  BY <1>1 DEF Confirm
<1>5. stored' = IF ok /\ ~operations[i].returned THEN stored \cup {operations[i].msg} ELSE stored
  BY <1>1 DEF Confirm
<1> HIDE DEF e
<1>6. /\ operations' \in Seq(Operations) /\ Len(operations') = Len(operations)
      /\ operations'[i] = e
      /\ \A k \in DOMAIN operations : k # i => operations'[k] = operations[k]
  BY <1>3, <1>4, Replaced DEF PortTypeOK
<1>7. QED
  BY <1>1, <1>3, <1>4, <1>5, <1>6 DEF SameButFlags

(* Every step keeps the state well-typed: whoever claims finds an entry.   *)
LEMMA PortTypeStep ==
  ASSUME PortTypeOK, PubsAreUnique, OneDrain, PortNext
  PROVE  PortTypeOK'
<1> USE DEF PortTypeOK, events
<1>1. ASSUME NEW c \in Callers, NEW m \in PortMessages, Publish(c, m)
      PROVE PortTypeOK'
  <2>1. PICK p \in Pubs : p \notin Referenced /\ own' = [own EXCEPT ![c] = p] /\ Adds(c, m, p)
    BY <1>1, PublishAdds
  <2>2. confirmation' \in [Pubs -> {"pending", "resolved", "rejected"}]
    BY <2>1 DEF Adds
  <2>3. /\ at' \in [Callers -> {"idle", "draining", "drained", "awaiting", "taking"}]
        /\ at'[c] # "idle" /\ \A d \in Callers \ {c} : at'[d] = at[d]
    BY <2>1 DEF Adds, HasClaimed
  <2>4. claimed' \in [Callers -> Pubs \cup {None}]
    <3>1. \A i \in DOMAIN operations' : operations'[i].pub \in Pubs
      BY <2>1, Entries DEF Adds
    <3>2. QED
      BY <2>1, <3>1 DEF Adds, HasClaimed
  <2>5. operations' \in Seq(Operations) /\ Len(operations') <= MaxOps
    BY <1>1, <2>1, OpsAssumption DEF Publish, Adds
  <2>6. backpressured' \in BOOLEAN
    BY <1>1 DEF Publish
  <2>7. /\ own' \in [Callers -> Pubs \cup {None}]
        /\ \A d \in Callers : at'[d] = "idle" <=> own'[d] = None
    BY <2>1, <2>3, PortNoneAssumption
  <2>8. msg' \in [Callers -> PortMessages \cup {None}] /\ UNCHANGED <<running, open, blocked, events>>
    BY <1>1 DEF Publish
  <2>9. QED
    BY <2>2, <2>3, <2>4, <2>5, <2>6, <2>7, <2>8
<1>2. ASSUME NEW c \in Callers, Drain(c)
      PROVE PortTypeOK'
  BY <1>2 DEF Drain
<1>3. ASSUME NEW c \in Callers, AfterDrain(c)
      PROVE PortTypeOK'
  <2>1. CASE Healthy
    <3>1. /\ operations' \in Seq(Operations) /\ Len(operations') = Len(operations)
          /\ \E i \in DOMAIN operations : HasClaimed(c, i)
      BY <1>3, <2>1, DrainedClaims
    <3>2. \A i \in DOMAIN operations : operations'[i].pub \in Pubs
      BY <3>1, Entries
    <3>3. claimed' \in [Callers -> Pubs \cup {None}] /\ at' = [at EXCEPT ![c] = "awaiting"]
      BY <3>1, <3>2 DEF HasClaimed
    <3>4. QED
      BY <1>3, <2>1, <3>1, <3>3 DEF AfterDrain, RunOn
  <2>2. CASE ~Healthy
    BY <1>3, <2>2 DEF AfterDrain, Return, RunOn
  <2>3. QED
    BY <2>1, <2>2
<1>4. ASSUME NEW c \in Callers, AfterConfirmation(c)
      PROVE PortTypeOK'
  <2>1. operations' \in Seq(Operations) /\ Len(operations') <= MaxOps
    BY <1>4, RejectedRemoves, Others, OpsAssumption
  <2>2. QED
    BY <1>4, <2>1 DEF AfterConfirmation, Woken, Return, RunOn
<1>5. ASSUME NEW c \in Callers, TakeReturned(c)
      PROVE PortTypeOK'
  <2>1. operations' \in Seq(Operations) /\ Len(operations') <= MaxOps
    BY <1>5, TakesOne, Others, OpsAssumption DEF Takeable
  <2>2. reported' \subseteq PortMessages
    BY <1>5, TakesOne, Entries DEF Takeable
  <2>3. QED
    BY <1>5, <2>1, <2>2 DEF TakeReturned, Return, RunOn
<1>6. ASSUME NEW p \in Outstanding, BasicReturn(p)
      PROVE PortTypeOK'
  BY <1>6, ReturnMarks DEF BasicReturn
<1>7. ASSUME NEW p \in Outstanding, NEW ok \in BOOLEAN, Confirm(p, ok)
      PROVE PortTypeOK'
  <2>1. /\ operations' \in Seq(Operations) /\ Len(operations') = Len(operations)
        /\ \E i \in DOMAIN operations : stored' \subseteq stored \cup {operations[i].msg}
    <3>1. PICK i \in DOMAIN operations :
            /\ operations' \in Seq(Operations) /\ Len(operations') = Len(operations)
            /\ stored' = IF ok /\ ~operations[i].returned THEN stored \cup {operations[i].msg}
                                                          ELSE stored
      BY <1>7, ConfirmMarks
    <3>2. QED
      BY <3>1
  <2>2. confirmation' \in [Pubs -> {"pending", "resolved", "rejected"}]
    BY <1>7 DEF Confirm
  <2>3. stored' \subseteq PortMessages
    BY <2>1, Entries
  <2>4. QED
    BY <1>7, <2>1, <2>2, <2>3 DEF Confirm
<1>8. CASE Blocked \/ Unblocked
  BY <1>8 DEF Blocked, Unblocked
<1>9. CASE Close
  BY <1>9 DEF Close
<1>10. QED
  BY <1>1, <1>2, <1>3, <1>4, <1>5, <1>6, <1>7, <1>8, <1>9 DEF PortNext

(* A publication enters the list with an id nobody refers to.              *)
LEMMA UniqueStep ==
  ASSUME PortTypeOK, PubsAreUnique, OneDrain, PortNext
  PROVE  PubsAreUnique'
<1> USE DEF PortTypeOK
<1>1. ASSUME NEW c \in Callers, NEW m \in PortMessages, Publish(c, m)
      PROVE PubsAreUnique'
  <2>1. PICK p \in Pubs : p \notin Referenced /\ Adds(c, m, p)
    BY <1>1, PublishAdds
  <2>2. \A k \in DOMAIN operations : operations'[k].pub = operations[k].pub /\ operations[k].pub # p
    BY <2>1 DEF Adds, SameButClaim, OnlyClaimed, Referenced, Outstanding
  <2>3. DOMAIN operations' = DOMAIN operations \cup {Len(operations) + 1}
    BY <2>1 DEF Adds
  <2>4. operations'[Len(operations) + 1].pub = p
    BY <2>1 DEF Adds
  <2>5. QED
    BY <2>2, <2>3, <2>4 DEF PubsAreUnique
<1>2. ASSUME NEW c \in Callers, Drain(c)
      PROVE PubsAreUnique'
  BY <1>2 DEF Drain, PubsAreUnique
<1>3. ASSUME NEW c \in Callers, AfterDrain(c)
      PROVE PubsAreUnique'
  <2>1. CASE Healthy
    <3>1. /\ operations' \in Seq(Operations) /\ Len(operations') = Len(operations)
          /\ \A k \in DOMAIN operations : SameButClaim(k)
      BY <1>3, <2>1, DrainedClaims
    <3>2. \A k \in DOMAIN operations : operations'[k].pub = operations[k].pub
      BY <3>1 DEF SameButClaim, OnlyClaimed
    <3>3. QED
      BY <3>1, <3>2 DEF PubsAreUnique
  <2>2. CASE ~Healthy
    BY <1>3, <2>2 DEF AfterDrain, PubsAreUnique
  <2>3. QED
    BY <2>1, <2>2
<1>4. ASSUME NEW c \in Callers, AfterConfirmation(c)
      PROVE PubsAreUnique'
  <2>1. CASE operations' = operations
    BY <2>1 DEF PubsAreUnique
  <2>2. QED
    BY <1>4, <2>1, RejectedRemoves, Others
<1>5. ASSUME NEW c \in Callers, TakeReturned(c)
      PROVE PubsAreUnique'
  <2>1. CASE operations' = operations
    BY <2>1 DEF PubsAreUnique
  <2>2. QED
    BY <1>5, <2>1, TakesOne, Others DEF Takeable
<1>6. ASSUME NEW p \in Outstanding, BasicReturn(p)
      PROVE PubsAreUnique'
  <2>1. /\ Len(operations') = Len(operations) /\ operations' \in Seq(Operations)
        /\ \A k \in DOMAIN operations : operations'[k].pub = operations[k].pub
    BY <1>6, ReturnMarks DEF SameButFlags
  <2>2. DOMAIN operations' = DOMAIN operations
    BY <2>1
  <2>3. QED
    BY <2>1, <2>2, Zenon DEF PubsAreUnique
<1>7. ASSUME NEW p \in Outstanding, NEW ok \in BOOLEAN, Confirm(p, ok)
      PROVE PubsAreUnique'
  <2>1. /\ Len(operations') = Len(operations) /\ operations' \in Seq(Operations)
        /\ \A k \in DOMAIN operations : operations'[k].pub = operations[k].pub
    BY <1>7, ConfirmMarks DEF SameButFlags
  <2>2. DOMAIN operations' = DOMAIN operations
    BY <2>1
  <2>3. QED
    BY <2>1, <2>2, Zenon DEF PubsAreUnique
<1>8. CASE Blocked \/ Unblocked
  BY <1>8 DEF Blocked, Unblocked, PubsAreUnique
<1>9. CASE Close
  BY <1>9 DEF Close, PubsAreUnique
<1>10. QED
  BY <1>1, <1>2, <1>3, <1>4, <1>5, <1>6, <1>7, <1>8, <1>9 DEF PortNext

(* fail() rejects what is not confirmed, and nothing else.                 *)
LEMMA CloseRejects ==
  ASSUME PortTypeOK, PubsAreUnique, Close, NEW i \in DOMAIN operations
  PROVE  confirmation'[operations[i].pub] =
           IF operations[i].confirmed THEN confirmation[operations[i].pub] ELSE "rejected"
<1>1. Place(operations[i].pub) = i /\ operations[i].pub \in Outstanding
  BY Found DEF Outstanding, PubsAreUnique
<1>2. operations[i].pub \in Pubs
  BY Entries DEF PortTypeOK
<1>3. QED
  BY <1>1, <1>2 DEF Close

(* A promise settles once, with the flag, and is not made pending again.   *)
LEMMA SettledStep ==
  ASSUME PortTypeOK, ListInv, OneDrain, PortNext
  PROVE  ConfirmedIsSettled'
<1> USE DEF PortTypeOK, ListInv, ConfirmedIsSettled
<1>1. ASSUME NEW c \in Callers, NEW m \in PortMessages, Publish(c, m)
      PROVE ConfirmedIsSettled'
  <2>1. PICK p \in Pubs : p \notin Referenced /\ Adds(c, m, p)
    BY <1>1, PublishAdds
  <2>2. DOMAIN operations' = DOMAIN operations \cup {Len(operations) + 1}
    BY <2>1 DEF Adds
  <2>3. \A k \in DOMAIN operations : SameButClaim(k) /\ operations[k].pub # p
    BY <2>1 DEF Adds, SameButClaim, OnlyClaimed, Referenced, Outstanding
  <2>4. \A k \in DOMAIN operations : confirmation'[operations'[k].pub] = confirmation[operations[k].pub]
    BY <2>1, <2>3, Entries DEF Adds, SameButClaim, OnlyClaimed
  <2>5. stored' = stored
    BY <1>1 DEF Publish, events
  <2>6. /\ ~operations'[Len(operations) + 1].confirmed
        /\ confirmation'[operations'[Len(operations) + 1].pub] = "pending"
    BY <2>1 DEF Adds
  <2>7. QED
    BY <2>2, <2>3, <2>4, <2>5, <2>6 DEF SameButClaim, OnlyClaimed
<1>2. ASSUME NEW c \in Callers, Drain(c)
      PROVE ConfirmedIsSettled'
  BY <1>2 DEF Drain, events
<1>3. ASSUME NEW c \in Callers, AfterDrain(c)
      PROVE ConfirmedIsSettled'
  <2>1. UNCHANGED <<confirmation, stored>>
    BY <1>3 DEF AfterDrain, events
  <2>2. CASE Healthy
    <3>1. DOMAIN operations' = DOMAIN operations /\ \A k \in DOMAIN operations : SameButClaim(k)
      BY <1>3, <2>2, DrainedClaims
    <3>2. QED
      BY <2>1, <3>1 DEF SameButClaim, OnlyClaimed
  <2>3. CASE ~Healthy
    BY <1>3, <2>1, <2>3 DEF AfterDrain
  <2>4. QED
    BY <2>2, <2>3
<1>4. ASSUME NEW c \in Callers, AfterConfirmation(c)
      PROVE ConfirmedIsSettled'
  <2>1. \A k \in DOMAIN operations' : \E j \in DOMAIN operations : operations'[k] = operations[j]
    BY <1>4, RejectedRemoves, Others
  <2>2. UNCHANGED <<confirmation, stored>>
    BY <1>4 DEF AfterConfirmation, events
  <2>3. QED
    BY <2>1, <2>2
<1>5. ASSUME NEW c \in Callers, TakeReturned(c)
      PROVE ConfirmedIsSettled'
  <2>1. \A k \in DOMAIN operations' : \E j \in DOMAIN operations : operations'[k] = operations[j]
    BY <1>5, TakesOne, Others DEF Takeable
  <2>2. UNCHANGED <<confirmation, stored>>
    BY <1>5 DEF TakeReturned
  <2>3. QED
    BY <2>1, <2>2
<1>6. ASSUME NEW p \in Outstanding, BasicReturn(p)
      PROVE ConfirmedIsSettled'
  <2>1. PICK i \in DOMAIN operations :
          /\ ~operations[i].confirmed /\ operations'[i].confirmed = operations[i].confirmed
          /\ DOMAIN operations' = DOMAIN operations /\ SameButFlags(i)
          /\ \A k \in DOMAIN operations : k # i => operations'[k] = operations[k]
    BY <1>6, ReturnMarks
  <2>2. UNCHANGED <<confirmation, stored>>
    BY <1>6 DEF BasicReturn, events
  <2>3. QED
    BY <2>1, <2>2 DEF SameButFlags
<1>7. ASSUME NEW p \in Outstanding, NEW ok \in BOOLEAN, Confirm(p, ok)
      PROVE ConfirmedIsSettled'
  <2>1. PICK i \in DOMAIN operations :
          /\ operations[i].pub = p
          /\ DOMAIN operations' = DOMAIN operations
          /\ operations'[i].confirmed /\ operations'[i].returned = operations[i].returned
          /\ SameButFlags(i)
          /\ \A k \in DOMAIN operations : k # i => operations'[k] = operations[k]
          /\ stored' = IF ok /\ ~operations[i].returned THEN stored \cup {operations[i].msg}
                                                        ELSE stored
    BY <1>7, ConfirmMarks
  <2>2. confirmation' = [confirmation EXCEPT ![p] = IF ok THEN "resolved" ELSE "rejected"]
    BY <1>7 DEF Confirm
  <2>3. /\ confirmation'[operations'[i].pub] # "pending" /\ operations'[i].confirmed
        /\ confirmation'[operations'[i].pub] = "resolved" /\ ~operations'[i].returned
             => operations'[i].msg \in stored'
    BY <2>1, <2>2, Entries DEF SameButFlags
  <2>4. \A k \in DOMAIN operations :
          k # i => confirmation'[operations'[k].pub] = confirmation[operations[k].pub]
    BY <2>1, <2>2, Entries DEF PubsAreUnique
  <2>5. QED
    BY <2>1, <2>3, <2>4
<1>8. CASE Blocked \/ Unblocked
  BY <1>8 DEF Blocked, Unblocked, events
<1>9. CASE Close
  <2>1. \A i \in DOMAIN operations :
          confirmation'[operations[i].pub] = IF operations[i].confirmed
                                             THEN confirmation[operations[i].pub] ELSE "rejected"
    BY <1>9, CloseRejects
  <2>2. operations' = operations /\ stored' = stored
    BY <1>9 DEF Close, events
  <2>3. QED
    BY <2>1, <2>2
<1>10. QED
  BY <1>1, <1>2, <1>3, <1>4, <1>5, <1>6, <1>7, <1>8, <1>9 DEF PortNext

(* A claimant leaves an entry alone once it resolved, and removes it if it *)
(* was rejected.                                                           *)
LEMMA AwaitedStep ==
  ASSUME PortTypeOK, ListInv, OneDrain, PortNext
  PROVE  UnresolvedIsAwaited'
<1> USE DEF PortTypeOK, ListInv, UnresolvedIsAwaited
<1>1. ASSUME NEW c \in Callers, NEW m \in PortMessages, Publish(c, m)
      PROVE UnresolvedIsAwaited'
  <2>1. PICK p \in Pubs : p \notin Referenced /\ Adds(c, m, p)
    BY <1>1, PublishAdds
  <2>2. DOMAIN operations' = DOMAIN operations \cup {Len(operations) + 1}
    BY <2>1 DEF Adds
  <2>3. \A k \in DOMAIN operations : SameButClaim(k) /\ operations[k].pub # p
    BY <2>1 DEF Adds, SameButClaim, OnlyClaimed, Referenced, Outstanding
  <2>4. \A k \in DOMAIN operations : confirmation'[operations'[k].pub] = confirmation[operations[k].pub]
    BY <2>1, <2>3, Entries DEF Adds, SameButClaim, OnlyClaimed
  <2>6. at[c] = "idle"
    BY <1>1 DEF Publish
  <2>7. ASSUME NEW i \in DOMAIN operations', HasClaimed(c, i) PROVE UnresolvedIsAwaited'
    <3>1. SUFFICES ASSUME NEW k \in DOMAIN operations', operations'[k].claimed,
                          confirmation'[operations'[k].pub] # "resolved"
                   PROVE  \E d \in Callers : at'[d] = "awaiting" /\ claimed'[d] = operations'[k].pub
      OBVIOUS
    <3>2. CASE k = i
      BY <2>7, <3>2 DEF HasClaimed
    <3>3. CASE k # i
      <4>1. k \in DOMAIN operations /\ operations'[k] = operations[k]
        BY <2>7, <3>1, <3>3 DEF HasClaimed
      <4>2. PICK d \in Callers : at[d] = "awaiting" /\ claimed[d] = operations[k].pub
        BY <2>4, <3>1, <4>1
      <4>3. QED
        BY <2>6, <2>7, <4>1, <4>2 DEF HasClaimed
    <3>4. QED
      BY <3>2, <3>3
  <2>8. CASE /\ at' = [at EXCEPT ![c] = "draining"] /\ UNCHANGED claimed
             /\ ~operations'[Len(operations) + 1].claimed
             /\ \A k \in DOMAIN operations : operations'[k] = operations[k]
    BY <2>2, <2>4, <2>6, <2>8
  <2>9. QED
    BY <2>1, <2>7, <2>8 DEF Adds
<1>2. ASSUME NEW c \in Callers, Drain(c)
      PROVE UnresolvedIsAwaited'
  BY <1>2 DEF Drain
<1>3. ASSUME NEW c \in Callers, AfterDrain(c)
      PROVE UnresolvedIsAwaited'
  <2>1. confirmation' = confirmation /\ at[c] = "drained"
    BY <1>3 DEF AfterDrain
  <2>2. CASE Healthy
    <3>1. DOMAIN operations' = DOMAIN operations /\ \A k \in DOMAIN operations : SameButClaim(k)
      BY <1>3, <2>2, DrainedClaims
    <3>2. PICK i \in DOMAIN operations : HasClaimed(c, i)
      BY <1>3, <2>2, DrainedClaims
    <3>3. QED
      BY <2>1, <3>1, <3>2 DEF HasClaimed, SameButClaim, OnlyClaimed
  <2>3. CASE ~Healthy
    BY <1>3, <2>1, <2>3 DEF AfterDrain, Return
  <2>4. QED
    BY <2>2, <2>3
<1>4. ASSUME NEW c \in Callers, AfterConfirmation(c)
      PROVE UnresolvedIsAwaited'
  <2>1. confirmation' = confirmation /\ \A d \in Callers : d # c => at'[d] = at[d] /\ claimed'[d] = claimed[d]
    BY <1>4 DEF AfterConfirmation, Return
  <2>2. \A k \in DOMAIN operations' : \E j \in DOMAIN operations :
          /\ operations'[k] = operations[j]
          /\ confirmation[operations[j].pub] # "resolved" => operations[j].pub # claimed[c]
    <3>1. CASE confirmation[claimed[c]] = "rejected" /\ claimed[c] \in Outstanding
      <4>1. PICK i \in DOMAIN operations : /\ operations[i].pub = claimed[c]
                                         /\ operations' = RemoveAt(operations, i)
        BY <1>4, <3>1, Found DEF AfterConfirmation
      <4>2. \A k \in DOMAIN operations' : \E j \in DOMAIN operations :
              j # i /\ operations'[k] = operations[j]
        BY <4>1, Others
      <4>3. QED
        BY <4>1, <4>2 DEF PubsAreUnique
    <3>2. CASE claimed[c] \notin Outstanding
      BY <1>4, <3>2 DEF AfterConfirmation, Outstanding
    <3>3. CASE confirmation[claimed[c]] # "rejected"
      BY <1>4, <3>3 DEF AfterConfirmation, Woken
    <3>4. QED
      BY <3>1, <3>2, <3>3
  <2>3. QED
    BY <2>1, <2>2
<1>5. ASSUME NEW c \in Callers, TakeReturned(c)
      PROVE UnresolvedIsAwaited'
  <2>1. \A k \in DOMAIN operations' : \E j \in DOMAIN operations : operations'[k] = operations[j]
    BY <1>5, TakesOne, Others DEF Takeable
  <2>2. /\ confirmation' = confirmation /\ at[c] = "taking"
        /\ \A d \in Callers : d # c => at'[d] = at[d] /\ claimed'[d] = claimed[d]
    BY <1>5 DEF TakeReturned, Return
  <2>3. QED
    BY <2>1, <2>2
<1>6. ASSUME NEW p \in Outstanding, BasicReturn(p)
      PROVE UnresolvedIsAwaited'
  <2>1. DOMAIN operations' = DOMAIN operations /\ \A k \in DOMAIN operations : SameButFlags(k)
    BY <1>6, ReturnMarks
  <2>2. UNCHANGED <<confirmation, at, claimed>>
    BY <1>6 DEF BasicReturn
  <2>3. QED
    BY <2>1, <2>2 DEF SameButFlags
<1>7. ASSUME NEW p \in Outstanding, NEW ok \in BOOLEAN, Confirm(p, ok)
      PROVE UnresolvedIsAwaited'
  <2>1. PICK i \in DOMAIN operations :
          /\ operations[i].pub = p /\ ~operations[i].confirmed
          /\ DOMAIN operations' = DOMAIN operations
          /\ SameButFlags(i)
          /\ \A k \in DOMAIN operations : k # i => operations'[k] = operations[k]
    BY <1>7, ConfirmMarks
  <2>2. confirmation' = [confirmation EXCEPT ![p] = IF ok THEN "resolved" ELSE "rejected"]
        /\ UNCHANGED <<at, claimed>>
    BY <1>7 DEF Confirm
  <2>3. operations[i].claimed => \E d \in Callers : at[d] = "awaiting" /\ claimed[d] = p
    BY <2>1 DEF ConfirmedIsSettled
  <2>4. \A k \in DOMAIN operations :
          k # i => confirmation'[operations'[k].pub] = confirmation[operations[k].pub]
    BY <2>1, <2>2, Entries DEF PubsAreUnique
  <2>5. QED
    BY <2>1, <2>2, <2>3, <2>4 DEF SameButFlags
<1>8. CASE Blocked \/ Unblocked
  BY <1>8 DEF Blocked, Unblocked
<1>9. CASE Close
  <2>1. \A i \in DOMAIN operations :
          confirmation'[operations[i].pub] = IF operations[i].confirmed
                                             THEN confirmation[operations[i].pub] ELSE "rejected"
    BY <1>9, CloseRejects
  <2>2. operations' = operations /\ claimed' = claimed
        /\ \A d \in Callers : at[d] = "awaiting" => at'[d] = "awaiting"
    BY <1>9 DEF Close
  <2>3. QED
    BY <2>1, <2>2 DEF ConfirmedIsSettled
<1>10. QED
  BY <1>1, <1>2, <1>3, <1>4, <1>5, <1>6, <1>7, <1>8, <1>9 DEF PortNext

(* Claiming and marking are one step, and a call that ends forgets both.   *)
LEMMA MarkedStep ==
  ASSUME PortTypeOK, PubsAreUnique, PubsAreUnique', ClaimsAreMarked, OneDrain, PortNext
  PROVE  ClaimsAreMarked'
<1> USE DEF PortTypeOK, ClaimsAreMarked
<1>1. ASSUME NEW c \in Callers, NEW m \in PortMessages, Publish(c, m)
      PROVE ClaimsAreMarked'
  <2>1. PICK p \in Pubs : p \notin Referenced /\ Adds(c, m, p)
    BY <1>1, PublishAdds
  <2>2. DOMAIN operations' = DOMAIN operations \cup {Len(operations) + 1}
    BY <2>1 DEF Adds
  <2>3. \A k \in DOMAIN operations : SameButClaim(k)
    BY <2>1 DEF Adds
  <2>4. operations'[Len(operations) + 1].pub = p /\ \A d \in Callers : claimed[d] # p
    BY <2>1 DEF Adds, Referenced
  <2>5. ASSUME NEW i \in DOMAIN operations', HasClaimed(c, i) PROVE ClaimsAreMarked'
    BY <2>2, <2>3, <2>4, <2>5 DEF HasClaimed, SameButClaim, OnlyClaimed, PubsAreUnique
  <2>6. CASE UNCHANGED claimed
    BY <2>2, <2>3, <2>4, <2>6 DEF SameButClaim, OnlyClaimed
  <2>7. QED
    BY <2>1, <2>5, <2>6 DEF Adds
<1>2. ASSUME NEW c \in Callers, Drain(c)
      PROVE ClaimsAreMarked'
  BY <1>2 DEF Drain
<1>3. ASSUME NEW c \in Callers, AfterDrain(c)
      PROVE ClaimsAreMarked'
  <2>1. CASE Healthy
    <3>1. DOMAIN operations' = DOMAIN operations /\ \A k \in DOMAIN operations : SameButClaim(k)
      BY <1>3, <2>1, DrainedClaims
    <3>2. PICK i \in DOMAIN operations : HasClaimed(c, i)
      BY <1>3, <2>1, DrainedClaims
    <3>3. QED
      BY <3>1, <3>2 DEF HasClaimed, SameButClaim, OnlyClaimed, PubsAreUnique
  <2>2. CASE ~Healthy
    BY <1>3, <2>2, Entries, PortNoneAssumption DEF AfterDrain, Return
  <2>3. QED
    BY <2>1, <2>2
<1>4. ASSUME NEW c \in Callers, AfterConfirmation(c)
      PROVE ClaimsAreMarked'
  <2>1. \A k \in DOMAIN operations' : \E j \in DOMAIN operations : operations'[k] = operations[j]
    BY <1>4, RejectedRemoves, Others
  <2>2. \A d \in Callers : claimed'[d] \in {claimed[d], None}
    BY <1>4 DEF AfterConfirmation, Return
  <2>3. QED
    BY <2>1, <2>2, Entries, PortNoneAssumption
<1>5. ASSUME NEW c \in Callers, TakeReturned(c)
      PROVE ClaimsAreMarked'
  <2>1. \A k \in DOMAIN operations' : \E j \in DOMAIN operations : operations'[k] = operations[j]
    BY <1>5, TakesOne, Others DEF Takeable
  <2>2. \A d \in Callers : claimed'[d] \in {claimed[d], None}
    BY <1>5 DEF TakeReturned, Return
  <2>3. QED
    BY <2>1, <2>2, Entries, PortNoneAssumption
<1>6. ASSUME NEW p \in Outstanding, BasicReturn(p)
      PROVE ClaimsAreMarked'
  <2>1. DOMAIN operations' = DOMAIN operations /\ \A k \in DOMAIN operations : SameButFlags(k)
    BY <1>6, ReturnMarks
  <2>2. QED
    BY <1>6, <2>1 DEF BasicReturn, SameButFlags
<1>7. ASSUME NEW p \in Outstanding, NEW ok \in BOOLEAN, Confirm(p, ok)
      PROVE ClaimsAreMarked'
  <2>1. DOMAIN operations' = DOMAIN operations /\ \A k \in DOMAIN operations : SameButFlags(k)
    BY <1>7, ConfirmMarks
  <2>2. QED
    BY <1>7, <2>1 DEF Confirm, SameButFlags
<1>8. CASE Blocked \/ Unblocked
  BY <1>8 DEF Blocked, Unblocked
<1>9. CASE Close
  BY <1>9 DEF Close
<1>10. QED
  BY <1>1, <1>2, <1>3, <1>4, <1>5, <1>6, <1>7, <1>8, <1>9 DEF PortNext

(* Nobody claims what somebody has claimed.                                *)
LEMMA ExclusiveStep ==
  ASSUME PortTypeOK, ClaimsAreMarked, ClaimsAreExclusive, OneDrain, PortNext
  PROVE  ClaimsAreExclusive'
<1> USE DEF PortTypeOK, ClaimsAreExclusive
<1>1. ASSUME NEW c \in Callers, NEW m \in PortMessages, Publish(c, m)
      PROVE ClaimsAreExclusive'
  <2>1. PICK p \in Pubs : p \notin Referenced /\ Adds(c, m, p)
    BY <1>1, PublishAdds
  <2>2. DOMAIN operations' = DOMAIN operations \cup {Len(operations) + 1}
    BY <2>1 DEF Adds
  <2>3. \A k \in DOMAIN operations : SameButClaim(k)
    BY <2>1 DEF Adds
  <2>4. operations'[Len(operations) + 1].pub = p /\ \A d \in Callers : claimed[d] # p
    BY <2>1 DEF Adds, Referenced
  <2>5. ASSUME NEW i \in DOMAIN operations', HasClaimed(c, i) PROVE ClaimsAreExclusive'
    <3>1. \A d \in Callers : claimed[d] # operations'[i].pub
      BY <2>2, <2>3, <2>4, <2>5 DEF HasClaimed, SameButClaim, OnlyClaimed, ClaimsAreMarked
    <3>2. QED
      BY <2>5, <3>1 DEF HasClaimed
  <2>6. QED
    BY <2>1, <2>5 DEF Adds
<1>2. ASSUME NEW c \in Callers, Drain(c)
      PROVE ClaimsAreExclusive'
  BY <1>2 DEF Drain
<1>3. ASSUME NEW c \in Callers, AfterDrain(c)
      PROVE ClaimsAreExclusive'
  <2>1. CASE Healthy
    <3>1. \A k \in DOMAIN operations : SameButClaim(k)
      BY <1>3, <2>1, DrainedClaims
    <3>2. PICK i \in DOMAIN operations : HasClaimed(c, i)
      BY <1>3, <2>1, DrainedClaims
    <3>3. \A d \in Callers : claimed[d] # operations'[i].pub
      BY <3>1, <3>2 DEF HasClaimed, SameButClaim, OnlyClaimed, ClaimsAreMarked
    <3>4. QED
      BY <3>2, <3>3 DEF HasClaimed
  <2>2. CASE ~Healthy
    BY <1>3, <2>2 DEF AfterDrain, Return
  <2>3. QED
    BY <2>1, <2>2
<1>4. ASSUME NEW c \in Callers, AfterConfirmation(c)
      PROVE ClaimsAreExclusive'
  BY <1>4 DEF AfterConfirmation, Return
<1>5. ASSUME NEW c \in Callers, TakeReturned(c)
      PROVE ClaimsAreExclusive'
  BY <1>5 DEF TakeReturned, Return
<1>6. ASSUME NEW p \in Outstanding, BasicReturn(p)
      PROVE ClaimsAreExclusive'
  BY <1>6 DEF BasicReturn
<1>7. ASSUME NEW p \in Outstanding, NEW ok \in BOOLEAN, Confirm(p, ok)
      PROVE ClaimsAreExclusive'
  BY <1>7 DEF Confirm
<1>8. CASE Blocked \/ Unblocked
  BY <1>8 DEF Blocked, Unblocked
<1>9. CASE Close
  BY <1>9 DEF Close
<1>10. QED
  BY <1>1, <1>2, <1>3, <1>4, <1>5, <1>6, <1>7, <1>8, <1>9 DEF PortNext

(* While a caller drains no other publishes, and what others remove had    *)
(* been claimed: the free entry stays.                                     *)
LEMMA DrainStep ==
  ASSUME PortTypeOK, PubsAreUnique, ClaimsAreMarked, OneDrain, PortNext
  PROVE  OneDrain'
<1> USE DEF PortTypeOK, OneDrain
<1>1. ASSUME NEW c \in Callers, NEW m \in PortMessages, Publish(c, m)
      PROVE OneDrain'
  <2>1. PICK p \in Pubs : Adds(c, m, p)
    BY <1>1, PublishAdds
  <2>2. \A d \in Callers : ~Draining(d)
    BY <1>1 DEF Publish
  <2>3. CASE /\ backpressured' /\ at' = [at EXCEPT ![c] = "draining"]
             /\ ~operations'[Len(operations) + 1].claimed
    <3>1. \E i \in DOMAIN operations' : ~operations'[i].claimed
      BY <2>1, <2>3 DEF Adds
    <3>2. QED
      BY <2>2, <2>3, <3>1 DEF Draining
  <2>4. CASE at' = [at EXCEPT ![c] = "awaiting"]
    BY <2>2, <2>4 DEF Draining
  <2>5. QED
    BY <2>1, <2>3, <2>4 DEF Adds, HasClaimed
<1>2. ASSUME NEW c \in Callers, Drain(c)
      PROVE OneDrain'
  BY <1>2 DEF Drain, Draining
<1>3. ASSUME NEW c \in Callers, AfterDrain(c)
      PROVE OneDrain'
  <2>1. \A d \in Callers : at'[d] \in {"draining", "drained"} => d # c /\ Draining(d)
    <3>1. CASE Healthy
      BY <1>3, <3>1, DrainedClaims DEF HasClaimed, Draining
    <3>2. CASE ~Healthy
      BY <1>3, <3>2 DEF AfterDrain, Return, Draining
    <3>3. QED
      BY <3>1, <3>2
  <2>2. Draining(c)
    BY <1>3 DEF AfterDrain, Draining
  <2>3. QED
    BY <2>1, <2>2 DEF Draining
<1>4. ASSUME NEW c \in Callers, AfterConfirmation(c)
      PROVE OneDrain'
  <2>1. \A d \in Callers : at'[d] \in {"draining", "drained"} => Draining(d)
    BY <1>4 DEF AfterConfirmation, Return, Draining
  <2>2. \A j \in DOMAIN operations : ~operations[j].claimed =>
          \E k \in DOMAIN operations' : operations'[k] = operations[j]
    <3>1. CASE operations' = operations
      BY <3>1
    <3>2. ASSUME NEW i \in DOMAIN operations, operations[i].pub = claimed[c],
                 operations' = RemoveAt(operations, i)
          PROVE  \A j \in DOMAIN operations : ~operations[j].claimed =>
                   \E k \in DOMAIN operations' : operations'[k] = operations[j]
      BY <3>2, Others DEF ClaimsAreMarked
    <3>3. QED
      BY <1>4, <3>1, <3>2, RejectedRemoves
  <2>3. backpressured' = backpressured
    BY <1>4 DEF AfterConfirmation
  <2>4. QED
    BY <2>1, <2>2, <2>3 DEF Draining
<1>5. ASSUME NEW c \in Callers, TakeReturned(c)
      PROVE OneDrain'
  <2>1. \A d \in Callers : at'[d] \in {"draining", "drained"} => Draining(d)
    BY <1>5 DEF TakeReturned, Return, Draining
  <2>2. \A j \in DOMAIN operations : ~operations[j].claimed =>
          \E k \in DOMAIN operations' : operations'[k] = operations[j]
    <3>1. CASE operations' = operations
      BY <3>1
    <3>2. ASSUME NEW i \in Takeable(c), operations' = RemoveAt(operations, i)
          PROVE  \A j \in DOMAIN operations : ~operations[j].claimed =>
                   \E k \in DOMAIN operations' : operations'[k] = operations[j]
      BY <3>2, Others DEF Takeable
    <3>3. QED
      BY <1>5, <3>1, <3>2, TakesOne
  <2>3. backpressured' = backpressured
    BY <1>5 DEF TakeReturned
  <2>4. QED
    BY <2>1, <2>2, <2>3 DEF Draining
<1>6. ASSUME NEW p \in Outstanding, BasicReturn(p)
      PROVE OneDrain'
  <2>1. DOMAIN operations' = DOMAIN operations /\ \A k \in DOMAIN operations : SameButFlags(k)
    BY <1>6, ReturnMarks
  <2>2. QED
    BY <1>6, <2>1 DEF BasicReturn, SameButFlags, Draining
<1>7. ASSUME NEW p \in Outstanding, NEW ok \in BOOLEAN, Confirm(p, ok)
      PROVE OneDrain'
  <2>1. DOMAIN operations' = DOMAIN operations /\ \A k \in DOMAIN operations : SameButFlags(k)
    BY <1>7, ConfirmMarks
  <2>2. QED
    BY <1>7, <2>1 DEF Confirm, SameButFlags, Draining
<1>8. CASE Blocked \/ Unblocked
  BY <1>8 DEF Blocked, Unblocked, Draining
<1>9. CASE Close
  BY <1>9 DEF Close, Draining
<1>10. QED
  BY <1>1, <1>2, <1>3, <1>4, <1>5, <1>6, <1>7, <1>8, <1>9 DEF PortNext

(* Before a publication is reported, the entry that vouches for it was     *)
(* claimed and confirmed; had it been rejected, its claimant, who runs     *)
(* first, would have removed it.                                           *)
LEMMA ReportedStep ==
  ASSUME PortTypeOK, ListInv, ReportedIsStored, PortNext
  PROVE  ReportedIsStored'
<1>1. ASSUME NEW c \in Callers, TakeReturned(c) PROVE ReportedIsStored'
  <2>1. CASE reported' = reported
    BY <1>1, <2>1 DEF TakeReturned, ReportedIsStored
  <2>2. ASSUME NEW i \in Takeable(c), ~operations[i].returned, reported' = reported \cup {msg[c]}
        PROVE  ReportedIsStored'
    <3>1. /\ i \in DOMAIN operations /\ operations[i].claimed /\ operations[i].confirmed
          /\ operations[i].msg = msg[c]
      BY DEF Takeable
    <3>2. confirmation[operations[i].pub] = "resolved"
      BY <1>1, <3>1 DEF TakeReturned, Woken, ListInv, ConfirmedIsSettled, UnresolvedIsAwaited
    <3>3. msg[c] \in stored
      BY <2>2, <3>1, <3>2 DEF ListInv, ConfirmedIsSettled
    <3>4. QED
      BY <1>1, <2>2, <3>3 DEF TakeReturned, ReportedIsStored
  <2>3. QED
    BY <1>1, <2>1, <2>2, TakesOne
<1>2. ASSUME NEW p \in Outstanding, NEW ok \in BOOLEAN, Confirm(p, ok) PROVE ReportedIsStored'
  BY <1>2 DEF Confirm, ReportedIsStored
<1>3. QED
  BY <1>1, <1>2
     DEF PortNext, Publish, Drain, AfterDrain, AfterConfirmation, BasicReturn, Blocked, Unblocked,
         Close, events, ReportedIsStored

-----------------------------------------------------------------------------
(* The list is empty and nobody publishes.                                 *)
LEMMA PortStarts == PortInit => PortInv
<1>1. PortInit => PortTypeOK
  <2>1. SUFFICES ASSUME PortInit PROVE PortTypeOK
    OBVIOUS
  <2>2. operations \in Seq(Operations) /\ Len(operations) <= MaxOps
    BY <2>1, OpsAssumption DEF PortInit
  <2>3. QED
    BY <2>1, <2>2 DEF PortInit, PortTypeOK
<1>2. PortInit => ListInv /\ ClaimInv /\ ReportedIsStored
  BY DEF PortInit, ListInv, PubsAreUnique, ConfirmedIsSettled, UnresolvedIsAwaited,
         ClaimInv, ClaimsAreMarked, ClaimsAreExclusive, OneDrain, Draining, ReportedIsStored
<1>3. QED
  BY <1>1, <1>2 DEF PortInv

(* The invariant speaks of the variables only.                             *)
LEMMA PortRests == PortInv /\ UNCHANGED portVars => PortInv'
<1>1. SUFFICES ASSUME PortInv, UNCHANGED portVars PROVE PortInv'
  OBVIOUS
<1>2. PortTypeOK'
  BY <1>1 DEF PortInv, PortTypeOK, portVars, events
<1>3. ListInv'
  BY <1>1 DEF PortInv, ListInv, PubsAreUnique, ConfirmedIsSettled, UnresolvedIsAwaited, portVars, events
<1>4. ClaimInv'
  BY <1>1 DEF PortInv, ClaimInv, ClaimsAreMarked, ClaimsAreExclusive, OneDrain, Draining, portVars
<1>5. ReportedIsStored'
  BY <1>1 DEF PortInv, ReportedIsStored, portVars, events
<1>6. QED
  BY <1>2, <1>3, <1>4, <1>5 DEF PortInv

(* The invariant holds in whatever order callers run and the broker        *)
(* answers.                                                                *)
THEOREM PortInvariance == PortSafeSpec => []PortInv
<1>1. PortInv /\ [PortNext]_portVars => PortInv'
  <2>1. SUFFICES ASSUME PortInv, [PortNext]_portVars PROVE PortInv'
    OBVIOUS
  <2>2. CASE PortNext
    <3>1. PortTypeOK' /\ PubsAreUnique'
      BY <2>1, <2>2, PortTypeStep, UniqueStep DEF PortInv, ListInv, ClaimInv
    <3>2. ConfirmedIsSettled' /\ UnresolvedIsAwaited'
      BY <2>1, <2>2, SettledStep, AwaitedStep DEF PortInv, ListInv, ClaimInv
    <3>3. ClaimInv'
      BY <2>1, <2>2, <3>1, MarkedStep, ExclusiveStep, DrainStep DEF PortInv, ListInv, ClaimInv
    <3>4. ReportedIsStored'
      BY <2>1, <2>2, ReportedStep DEF PortInv
    <3>5. QED
      BY <3>1, <3>2, <3>3, <3>4 DEF PortInv, ListInv
  <2>3. CASE UNCHANGED portVars
    BY <2>1, <2>3, PortRests
  <2>4. QED
    BY <2>1, <2>2, <2>3
<1>2. QED
  BY <1>1, PortStarts, PTL DEF PortSafeSpec

(* Every variable keeps its type: what is claimed and removed is there.    *)
THEOREM PortTypeCorrect == PortSafeSpec => []PortTypeOK
  BY PortInvariance, PTL DEF PortInv

(* No nack, return, block or close of the channel is taken for a success,  *)
(* though callers await the confirmations of each other's publications.    *)
THEOREM ReportedOnlyIfStored == PortSafeSpec => []ReportedIsStored
  BY PortInvariance, PTL DEF PortInv

(* No two callers await the same confirmation.                             *)
THEOREM ClaimsAreApart == PortSafeSpec => []ClaimsAreExclusive
<1>1. PortInv => ClaimsAreExclusive
  BY DEF PortInv, ClaimInv
<1>2. QED
  BY <1>1, PortInvariance, PTL

(* The check of waitForConfirms for a missing operation never fires.       *)
OneIsLeftToClaim ==
  \A c \in Callers : at[c] = "drained" => \E i \in DOMAIN operations : ~operations[i].claimed

(* Whoever waited for a drain finds an unclaimed operation after it, since *)
(* backpressure kept everybody else from claiming.                         *)
THEOREM DrainedFindsOperation == PortSafeSpec => []OneIsLeftToClaim
<1>1. PortInv => OneIsLeftToClaim
  BY DEF PortInv, ClaimInv, OneDrain, Draining, OneIsLeftToClaim
<1>2. QED
  BY <1>1, PortInvariance, PTL

-----------------------------------------------------------------------------
(* Proofs about the outbox for any number of messages, publishers, tokens  *)
(* and attempts. The inductive invariant says what a claim in a publisher's*)
(* memory is worth: its token is its own, a confirm it waits to record has *)
(* arrived, and as long as it is live the row carries the same attempt.    *)

(* Two publishers never hold the same token for a message.                 *)
TokensAreUnique ==
  \A m \in Messages : \A p, q \in Publishers :
    claim[p][m].token # NoToken /\ claim[p][m].token = claim[q][m].token => p = q

(* A publisher about to record a publication has the confirm of it.        *)
RecordsConfirmed ==
  \A p \in Publishers : pc[p] = "markPublished" => current[p] \in confirmed

(* A live claim and the row agree on the attempt.                          *)
LiveAttempt ==
  \A p \in Publishers : \A m \in Messages :
    Live(p, m) => claim[p][m].attempt = row[m].attempt

(* Claims are made of committed rows, and confirms of stored copies.       *)
ClaimsAreCommitted ==
  \A p \in Publishers : \A m \in Messages :
    claim[p][m].token # NoToken => row[m].status # "absent"

(* A claim counts at least the attempt it was made for.                    *)
ClaimCounts ==
  \A p \in Publishers : \A m \in Messages :
    claim[p][m].token # NoToken => claim[p][m].attempt > 0

ConfirmedIsStored == confirmed \subseteq broker

IInv == /\ TypeOK
        /\ TokensAreUnique
        /\ RecordsConfirmed
        /\ LiveAttempt
        /\ ClaimCounts
        /\ ClaimsAreCommitted
        /\ ConfirmedIsStored
        /\ PublishedIsConfirmed
        /\ IsolatedIsExhausted

-----------------------------------------------------------------------------
USE AttemptsAssumption, BatchAssumption, LeaseAssumption, BackoffAssumption,
    NoneAssumption

(* The attempt a claim gives a row is positive and within the budget.      *)
LEMMA NextAttemptType ==
  ASSUME TypeOK, NEW m \in Messages
  PROVE  NextAttempt(m) \in 1 .. MaxAttempts
  BY DEF TypeOK, Rows, NextAttempt

(* Whatever a step writes to one row, the table stays well-typed if that   *)
(* row does; the same for one publisher's claims.                          *)
LEMMA PutRow ==
  ASSUME row \in [Messages -> Rows], NEW m \in Messages, NEW r \in Rows
  PROVE  [row EXCEPT ![m] = r] \in [Messages -> Rows]
  OBVIOUS

(* The same facts of TypeOK, one row and one claim at a time.              *)
LEMMA EntryTypes ==
  ASSUME TypeOK
  PROVE  /\ \A m \in Messages : row[m] \in Rows
         /\ \A p \in Publishers, m \in Messages : claim[p][m] \in Claims
  BY DEF TypeOK

(* The rows that markOutboxPublished and markOutboxFailure write: the delay*)
(* is defined because Backoff is read only below the last attempt, and a   *)
(* claim in memory counts at least one attempt.                            *)
LEMMA OutcomeType ==
  ASSUME TypeOK, ClaimCounts, NEW p \in Publishers, NEW m \in Messages, Live(p, m)
  PROVE  PublishedRow(m) \in Rows /\ FailedRow(p, m) \in Rows
<1>1. row[m] \in Rows /\ claim[p][m] \in Claims
  BY DEF TypeOK
<1>2. PublishedRow(m) \in Rows
  BY <1>1 DEF PublishedRow, Rows, Statuses
<1>3. CASE Exhausted(p, m)
  BY <1>1, <1>2, <1>3 DEF FailedRow, Rows, Statuses
<1>4. CASE ~Exhausted(p, m)
  <2>1. claim[p][m].attempt \in 1 .. MaxAttempts - 1
    BY <1>1, <1>4 DEF Exhausted, Claims, ClaimCounts, Live
  <2>2. Backoff[claim[p][m].attempt] \in Nat
    BY <2>1
  <2>3. QED
    BY <1>1, <1>2, <1>4, <2>2 DEF FailedRow, Rows, Statuses
<1>5. QED
  BY <1>2, <1>3, <1>4

(* After its process stops, or when it goes on to the next record, a       *)
(* publisher is well-typed again.                                          *)
LEMMA ReleaseType ==
  ASSUME TypeOK, NEW p \in Publishers, NEW m \in Messages,
         NextRecord(p, m) \/ Abandon(p)
  PROVE  /\ claim' \in [Publishers -> [Messages -> Claims]]
         /\ current' \in [Publishers -> Messages \cup {NoMessage}]
         /\ pc' \in [Publishers -> Steps]
<1>1. NoClaim \in Claims
  BY DEF NoClaim, Claims
<1>2. claim \in [Publishers -> [Messages -> Claims]]
  BY DEF TypeOK
<1>3. CASE NextRecord(p, m)
  <2>1. [claim[p] EXCEPT ![m] = NoClaim] \in [Messages -> Claims]
    BY <1>1, <1>2
  <2>2. claim' = [claim EXCEPT ![p] = [claim[p] EXCEPT ![m] = NoClaim]]
    BY <1>3 DEF NextRecord
  <2>3. QED
    BY <1>2, <1>3, <2>1, <2>2 DEF NextRecord, TypeOK, Steps
<1>4. CASE Abandon(p)
  <2>1. [n \in Messages |-> NoClaim] \in [Messages -> Claims]
    BY <1>1
  <2>2. QED
    BY <1>2, <1>4, <2>1 DEF Abandon, TypeOK, Steps
<1>5. QED
  BY <1>3, <1>4

(* The initial table is empty and nobody holds a claim.                    *)
LEMMA InitType == Init => TypeOK
<1> SUFFICES ASSUME Init
             PROVE  TypeOK
  OBVIOUS
<1>1. [status |-> "absent", attempt |-> 0, token |-> NoToken, dueIn |-> 0,
       staleIn |-> 0] \in Rows
  BY DEF Rows, Statuses
<1>2. NoClaim \in Claims
  BY DEF NoClaim, Claims
<1>3. QED
  BY <1>1, <1>2 DEF Init, TypeOK, Steps

(* Every operation keeps the types.                                        *)
LEMMA NextType == TypeOK /\ ClaimCounts /\ [Next]_vars => TypeOK'
<1> SUFFICES ASSUME TypeOK, ClaimCounts, [Next]_vars
             PROVE  TypeOK'
  OBVIOUS
<1>1. ASSUME NEW m \in Messages, AppendEvent(m)
      PROVE  TypeOK'
  <2>1. PICK delay \in 0 .. 1 :
          row' = [row EXCEPT ![m] = [row[m] EXCEPT !.status = "pending", !.dueIn = delay]]
    BY <1>1 DEF AppendEvent
  <2>2. row[m] \in Rows /\ "pending" \in Statuses /\ delay \in Nat
    BY EntryTypes DEF Statuses
  <2>3. [row[m] EXCEPT !.status = "pending", !.dueIn = delay] \in Rows
    BY <2>2 DEF Rows
  <2>4. QED
    BY <1>1, <2>1, <2>3, PutRow DEF AppendEvent, TypeOK
<1>2. ASSUME NEW m \in Messages, AuthorizeReplay(m)
      PROVE  TypeOK'
  BY <1>2 DEF AuthorizeReplay, TypeOK
<1>3. ASSUME NEW m \in Messages, ReplayOutbox(m)
      PROVE  TypeOK'
  <2>1. row[m] \in Rows /\ "pending" \in Statuses /\ 0 \in 0 .. MaxAttempts
    BY EntryTypes DEF Statuses
  <2>2. [row[m] EXCEPT !.status = "pending", !.attempt = 0, !.dueIn = 0] \in Rows
    BY <2>1 DEF Rows
  <2>3. QED
    BY <1>3, <2>2, PutRow DEF ReplayOutbox, TypeOK
<1>4. ASSUME NEW p \in Publishers, NEW batch \in SUBSET Messages, ClaimOutbox(p, batch)
      PROVE  TypeOK'
  <2>1. PICK token \in [batch -> Tokens] :
          /\ row' = [m \in Messages |-> IF m \in batch
               THEN [row[m] EXCEPT !.status = "publishing", !.token = token[m],
                                   !.attempt = NextAttempt(m), !.staleIn = Lease]
               ELSE row[m]]
          /\ claim' = [claim EXCEPT ![p] = [m \in Messages |-> IF m \in batch
               THEN [token |-> token[m], attempt |-> NextAttempt(m)]
               ELSE NoClaim]]
    BY <1>4 DEF ClaimOutbox
  <2>2. \A m \in batch : token[m] \in Tokens /\ NextAttempt(m) \in 0 .. MaxAttempts
    BY NextAttemptType
  <2>3. ASSUME NEW m \in batch
        PROVE  [row[m] EXCEPT !.status = "publishing", !.token = token[m],
                              !.attempt = NextAttempt(m), !.staleIn = Lease] \in Rows
    BY <2>2, EntryTypes DEF Rows, Statuses
  <2>4. row' \in [Messages -> Rows]
    BY <2>1, <2>3 DEF TypeOK
  <2>5. ASSUME NEW m \in batch
        PROVE  [token |-> token[m], attempt |-> NextAttempt(m)] \in Claims
    BY <2>2 DEF Claims
  <2>6. NoClaim \in Claims
    BY DEF NoClaim, Claims
  <2>7. claim' \in [Publishers -> [Messages -> Claims]]
    BY <2>1, <2>5, <2>6 DEF TypeOK
  <2>8. QED
    BY <1>4, <2>4, <2>7 DEF ClaimOutbox, TypeOK
<1>5. ASSUME NEW p \in Publishers, Crash(p)
      PROVE  TypeOK'
  <2>1. PICK m \in Messages : m \in Held(p)
    BY <1>5 DEF Crash, Held
  <2>2. QED
    BY <1>5, <2>1, ReleaseType DEF Crash, Held, TypeOK
<1>6. ASSUME NEW p \in Publishers, NEW m \in Messages,
             PublishConfirmed(p, m) \/ PublishFailed(p, m)
      PROVE  TypeOK'
  <2>1. broker' \subseteq Messages /\ confirmed' \subseteq Messages
    BY <1>6 DEF PublishConfirmed, PublishFailed, TypeOK
  <2>2. /\ pc' = [pc EXCEPT ![p] = "markPublished"] \/ pc' = [pc EXCEPT ![p] = "markFailure"]
        /\ current' = [current EXCEPT ![p] = m]
        /\ UNCHANGED <<row, claim, intent>>
    BY <1>6 DEF PublishConfirmed, PublishFailed
  <2>3. QED
    BY <2>1, <2>2 DEF TypeOK, Steps
<1>7. ASSUME NEW p \in Publishers, NEW m \in Messages, MarkPublished(p, m)
      PROVE  TypeOK'
  BY <1>7, OutcomeType, PutRow, ReleaseType DEF MarkPublished, TypeOK
<1>8. ASSUME NEW p \in Publishers, NEW m \in Messages, MarkFailure(p, m)
      PROVE  TypeOK'
  BY <1>8, OutcomeType, PutRow, ReleaseType DEF MarkFailure, TypeOK
<1>9. ASSUME NEW p \in Publishers, NEW m \in Messages, MarkRefused(p, m)
      PROVE  TypeOK'
  BY <1>9, ReleaseType DEF MarkRefused, TypeOK
<1>10. ASSUME NEW p \in Publishers, NEW m \in Messages, MarkReplyLost(p, m)
       PROVE  TypeOK'
  BY <1>10, OutcomeType, PutRow, ReleaseType DEF MarkReplyLost, TypeOK
<1>11. ASSUME Tick
       PROVE  TypeOK'
  <2>1. \A n \in Nat : Down(n) \in Nat
    BY DEF Down
  <2>2. ASSUME NEW m \in Messages
        PROVE  [row[m] EXCEPT !.dueIn = Down(@), !.staleIn = Down(@)] \in Rows
    BY <2>1, EntryTypes DEF Rows
  <2>3. row' \in [Messages -> Rows]
    BY <1>11, <2>2 DEF Tick
  <2>4. QED
    BY <1>11, <2>3 DEF Tick, TypeOK
<1>12. CASE UNCHANGED vars
  BY <1>12 DEF vars, TypeOK
<1>13. QED
  BY <1>1, <1>2, <1>3, <1>4, <1>5, <1>6, <1>7, <1>8, <1>9, <1>10, <1>11, <1>12
     DEF Next, Claim

-----------------------------------------------------------------------------
(* Nobody holds a claim at first.                                          *)
LEMMA InitInv == Init => IInv
<1> SUFFICES ASSUME Init
             PROVE  IInv
  OBVIOUS
<1>1. TypeOK
  BY InitType
<1>2. \A p \in Publishers, m \in Messages :
        claim[p][m].token = NoToken /\ row[m].status = "absent" /\ pc[p] = "publish"
  BY DEF Init, NoClaim
<1>3. TokensAreUnique /\ ClaimCounts /\ ClaimsAreCommitted
  BY <1>2 DEF TokensAreUnique, ClaimCounts, ClaimsAreCommitted
<1>4. LiveAttempt /\ PublishedIsConfirmed /\ IsolatedIsExhausted
  BY <1>2 DEF LiveAttempt, Live, PublishedIsConfirmed, IsolatedIsExhausted, Init
<1>5. ConfirmedIsStored /\ RecordsConfirmed
  BY DEF Init, ConfirmedIsStored, RecordsConfirmed
<1>6. QED
  BY <1>1, <1>3, <1>4, <1>5 DEF IInv

(* What every operation but ClaimOutbox has in common: it makes no claim,  *)
(* and a row that stays claimed keeps its token and its attempt.           *)
ClaimsShrink ==
  \A p \in Publishers, m \in Messages :
    claim'[p][m] = claim[p][m] \/ claim'[p][m].token = NoToken

RowsKeepClaims ==
  \A m \in Messages :
    /\ row[m].status # "absent" => row'[m].status # "absent"
    /\ row'[m].status = "publishing" =>
         /\ row[m].status = "publishing"
         /\ row'[m].token = row[m].token
         /\ row'[m].attempt = row[m].attempt

(* Such an operation cannot disturb what claims are worth.                 *)
LEMMA ClaimsStaySound ==
  ASSUME IInv, ClaimsShrink, RowsKeepClaims
  PROVE  TokensAreUnique' /\ ClaimCounts' /\ LiveAttempt' /\ ClaimsAreCommitted'
<1>1. TokensAreUnique'
  BY DEF IInv, TokensAreUnique, ClaimsShrink
<1>2. ClaimCounts'
  BY DEF IInv, ClaimCounts, ClaimsShrink
<1>3. LiveAttempt'
  BY DEF IInv, LiveAttempt, Live, ClaimsShrink, RowsKeepClaims
<1>4. ClaimsAreCommitted'
  BY DEF IInv, ClaimsAreCommitted, ClaimsShrink, RowsKeepClaims
<1>5. QED
  BY <1>1, <1>2, <1>3, <1>4

(* A publisher that goes on or goes down gives claims up, and waits for no *)
(* confirm it had not already got.                                         *)
LEMMA ReleaseShrinks ==
  ASSUME TypeOK, RecordsConfirmed, NEW p \in Publishers, NEW m \in Messages,
         NextRecord(p, m) \/ Abandon(p), confirmed' = confirmed
  PROVE  ClaimsShrink /\ RecordsConfirmed'
<1>1. /\ claim \in [Publishers -> [Messages -> Claims]]
      /\ current \in [Publishers -> Messages \cup {NoMessage}]
      /\ pc \in [Publishers -> Steps]
  BY DEF TypeOK
<1>2. NoClaim.token = NoToken
  BY DEF NoClaim
<1>3. ASSUME NEW q \in Publishers, NEW n \in Messages
      PROVE  claim'[q][n] = claim[q][n] \/ claim'[q][n] = NoClaim
  <2>1. CASE NextRecord(p, m)
    BY <1>1, <2>1 DEF NextRecord
  <2>2. CASE Abandon(p)
    BY <1>1, <2>2 DEF Abandon
  <2>3. QED
    BY <2>1, <2>2
<1>4. ASSUME NEW q \in Publishers, pc'[q] = "markPublished"
      PROVE  current'[q] \in confirmed'
  <2>1. q # p /\ pc'[q] = pc[q] /\ current'[q] = current[q]
    BY <1>1, <1>4 DEF NextRecord, Abandon
  <2>2. QED
    BY <1>4, <2>1 DEF RecordsConfirmed
<1>5. QED
  BY <1>2, <1>3, <1>4 DEF ClaimsShrink, RecordsConfirmed

(* The inductive step.                                                     *)
LEMMA NextInv == IInv /\ [Next]_vars => IInv'
<1> SUFFICES ASSUME IInv, [Next]_vars
             PROVE  IInv'
  OBVIOUS
<1> DEFINE Claimed == TokensAreUnique /\ ClaimCounts /\ LiveAttempt /\ ClaimsAreCommitted
           Recorded == RecordsConfirmed /\ ConfirmedIsStored
           Finished == PublishedIsConfirmed /\ IsolatedIsExhausted
<1>a. /\ TypeOK /\ RecordsConfirmed
      /\ row \in [Messages -> Rows]
      /\ \A m \in Messages : row[m] \in Rows
      /\ claim \in [Publishers -> [Messages -> Claims]]
      /\ current \in [Publishers -> Messages \cup {NoMessage}]
      /\ pc \in [Publishers -> Steps]
  BY DEF IInv, TypeOK
<1>b. TypeOK'
  BY NextType DEF IInv
<1>1. ASSUME NEW m \in Messages, AppendEvent(m)
      PROVE  Claimed' /\ Recorded' /\ Finished'
  <2>1. PICK delay \in 0 .. 1 :
          row' = [row EXCEPT ![m] = [row[m] EXCEPT !.status = "pending", !.dueIn = delay]]
    BY <1>1 DEF AppendEvent
  <2>2. row'[m].status = "pending" /\ \A n \in Messages \ {m} : row'[n] = row[n]
    BY <1>a, <2>1 DEF Rows
  <2>3. ClaimsShrink /\ RowsKeepClaims
    BY <1>1, <2>2 DEF AppendEvent, ClaimsShrink, RowsKeepClaims
  <2>4. Recorded'
    BY <1>1 DEF AppendEvent, IInv, RecordsConfirmed, ConfirmedIsStored
  <2>5. Finished'
    BY <1>1, <2>2 DEF AppendEvent, IInv, PublishedIsConfirmed, IsolatedIsExhausted
  <2>6. QED
    BY <2>3, <2>4, <2>5, ClaimsStaySound
<1>2. ASSUME NEW m \in Messages, AuthorizeReplay(m)
      PROVE  Claimed' /\ Recorded' /\ Finished'
  <2>1. ClaimsShrink /\ RowsKeepClaims
    BY <1>2 DEF AuthorizeReplay, ClaimsShrink, RowsKeepClaims
  <2>2. Recorded' /\ Finished'
    BY <1>2 DEF AuthorizeReplay, IInv, RecordsConfirmed, ConfirmedIsStored,
                PublishedIsConfirmed, IsolatedIsExhausted
  <2>3. QED
    BY <2>1, <2>2, ClaimsStaySound
<1>3. ASSUME NEW m \in Messages, ReplayOutbox(m)
      PROVE  Claimed' /\ Recorded' /\ Finished'
  <2>1. row'[m].status = "pending" \/ row'[m] = row[m]
    BY <1>3, <1>a DEF ReplayOutbox, Rows
  <2>2. \A n \in Messages \ {m} : row'[n] = row[n]
    BY <1>3, <1>a DEF ReplayOutbox
  <2>3. ClaimsShrink /\ RowsKeepClaims
    BY <1>3, <2>1, <2>2 DEF ReplayOutbox, ClaimsShrink, RowsKeepClaims
  <2>4. Recorded'
    BY <1>3 DEF ReplayOutbox, IInv, RecordsConfirmed, ConfirmedIsStored
  <2>5. Finished'
    BY <1>3, <2>1, <2>2 DEF ReplayOutbox, IInv, PublishedIsConfirmed, IsolatedIsExhausted
  <2>6. QED
    BY <2>3, <2>4, <2>5, ClaimsStaySound
<1>4. ASSUME NEW p \in Publishers, NEW batch \in SUBSET Messages, ClaimOutbox(p, batch)
      PROVE  Claimed' /\ Recorded' /\ Finished'
  <2>1. PICK token \in [batch -> Tokens] :
          /\ \A m \in batch : token[m] \notin UsedTokens(m)
          /\ row' = [m \in Messages |-> IF m \in batch
               THEN [row[m] EXCEPT !.status = "publishing", !.token = token[m],
                                   !.attempt = NextAttempt(m), !.staleIn = Lease]
               ELSE row[m]]
          /\ claim' = [claim EXCEPT ![p] = [m \in Messages |-> IF m \in batch
               THEN [token |-> token[m], attempt |-> NextAttempt(m)]
               ELSE NoClaim]]
    BY <1>4 DEF ClaimOutbox
  <2>2. ASSUME NEW m \in batch
        PROVE  /\ row'[m].status = "publishing" /\ row'[m].token = token[m]
               /\ row'[m].attempt = NextAttempt(m)
               /\ claim'[p][m].token = token[m] /\ claim'[p][m].attempt = NextAttempt(m)
               /\ \A q \in Publishers : claim[q][m].token # token[m]
    BY <1>a, <2>1 DEF Rows, UsedTokens
  <2>3. \A m \in Messages \ batch : row'[m] = row[m] /\ claim'[p][m].token = NoToken
    BY <1>a, <2>1 DEF NoClaim
  <2>4. \A q \in Publishers \ {p} : claim'[q] = claim[q]
    BY <1>a, <2>1
  <2>5. TokensAreUnique'
    <3>1. SUFFICES ASSUME NEW m \in Messages, NEW q \in Publishers, NEW r \in Publishers,
                          claim'[q][m].token # NoToken,
                          claim'[q][m].token = claim'[r][m].token
                   PROVE  q = r
      BY DEF TokensAreUnique
    <3>2. CASE m \in batch
      BY <2>2, <2>4, <3>1, <3>2 DEF IInv, TokensAreUnique
    <3>3. CASE m \notin batch
      BY <2>3, <2>4, <3>1, <3>3 DEF IInv, TokensAreUnique
    <3>4. QED
      BY <3>2, <3>3
  <2>6. ClaimCounts'
    <3>1. \A m \in batch : NextAttempt(m) > 0
      BY <1>a, NextAttemptType
    <3>2. QED
      BY <2>2, <2>3, <2>4, <3>1 DEF IInv, ClaimCounts
  <2>7. LiveAttempt'
    BY <2>2, <2>3, <2>4 DEF IInv, LiveAttempt, Live
  <2>8. ClaimsAreCommitted'
    BY <2>2, <2>3, <2>4 DEF IInv, ClaimsAreCommitted
  <2>9. Recorded'
    BY <1>4 DEF ClaimOutbox, IInv, RecordsConfirmed, ConfirmedIsStored
  <2>10. Finished'
    BY <1>4, <2>2, <2>3 DEF ClaimOutbox, IInv, PublishedIsConfirmed, IsolatedIsExhausted
  <2>11. QED
    BY <2>5, <2>6, <2>7, <2>8, <2>9, <2>10
<1>5. ASSUME NEW p \in Publishers, Crash(p)
      PROVE  Claimed' /\ Recorded' /\ Finished'
  <2>1. PICK m \in Messages : m \in Held(p)
    BY <1>5 DEF Crash, Held
  <2>2. ClaimsShrink /\ RecordsConfirmed'
    BY <1>5, <1>a, <2>1, ReleaseShrinks DEF Crash
  <2>3. RowsKeepClaims
    BY <1>5 DEF Crash, RowsKeepClaims
  <2>4. ConfirmedIsStored' /\ Finished'
    BY <1>5 DEF Crash, IInv, ConfirmedIsStored, PublishedIsConfirmed, IsolatedIsExhausted
  <2>5. QED
    BY <2>2, <2>3, <2>4, ClaimsStaySound
<1>6. ASSUME NEW p \in Publishers, NEW m \in Messages, PublishConfirmed(p, m)
      PROVE  Claimed' /\ Recorded' /\ Finished'
  <2>1. ClaimsShrink /\ RowsKeepClaims
    BY <1>6 DEF PublishConfirmed, ClaimsShrink, RowsKeepClaims
  <2>2. RecordsConfirmed'
    BY <1>6, <1>a DEF PublishConfirmed, RecordsConfirmed
  <2>3. ConfirmedIsStored' /\ Finished'
    BY <1>6 DEF PublishConfirmed, IInv, ConfirmedIsStored, PublishedIsConfirmed,
                IsolatedIsExhausted
  <2>4. QED
    BY <2>1, <2>2, <2>3, ClaimsStaySound
<1>7. ASSUME NEW p \in Publishers, NEW m \in Messages, PublishFailed(p, m)
      PROVE  Claimed' /\ Recorded' /\ Finished'
  <2>1. ClaimsShrink /\ RowsKeepClaims
    BY <1>7 DEF PublishFailed, ClaimsShrink, RowsKeepClaims
  <2>2. RecordsConfirmed'
    BY <1>7, <1>a DEF PublishFailed, RecordsConfirmed
  <2>3. ConfirmedIsStored' /\ Finished'
    BY <1>7 DEF PublishFailed, IInv, ConfirmedIsStored, PublishedIsConfirmed,
                IsolatedIsExhausted
  <2>4. QED
    BY <2>1, <2>2, <2>3, ClaimsStaySound
<1>8. ASSUME NEW p \in Publishers, NEW m \in Messages, MarkRefused(p, m)
      PROVE  Claimed' /\ Recorded' /\ Finished'
  <2>1. ClaimsShrink /\ RecordsConfirmed'
    BY <1>8, <1>a, ReleaseShrinks DEF MarkRefused
  <2>2. RowsKeepClaims
    BY <1>8 DEF MarkRefused, RowsKeepClaims
  <2>3. ConfirmedIsStored' /\ Finished'
    BY <1>8 DEF MarkRefused, IInv, ConfirmedIsStored, PublishedIsConfirmed,
                IsolatedIsExhausted
  <2>4. QED
    BY <2>1, <2>2, <2>3, ClaimsStaySound
<1>9. ASSUME NEW p \in Publishers, NEW m \in Messages,
             MarkPublished(p, m) \/ MarkFailure(p, m) \/ MarkReplyLost(p, m)
      PROVE  Claimed' /\ Recorded' /\ Finished'
  <2>1. /\ current[p] = m /\ Live(p, m)
        /\ \/ pc[p] = "markPublished" /\ row' = [row EXCEPT ![m] = PublishedRow(m)]
           \/ row' = [row EXCEPT ![m] = FailedRow(p, m)]
        /\ NextRecord(p, m) \/ Abandon(p)
        /\ confirmed' = confirmed /\ broker' = broker
    BY <1>9 DEF MarkPublished, MarkFailure, MarkReplyLost
  <2>2. \A n \in Messages \ {m} : row'[n] = row[n]
    BY <1>a, <2>1
  <2>3. \/ row'[m].status = "published" /\ m \in confirmed
        \/ row'[m].status = "pending"
        \/ row'[m].status = "isolated" /\ row'[m].attempt = MaxAttempts
    <3>1. row[m] \in Rows /\ row[m].attempt = claim[p][m].attempt
      BY <1>a, <2>1 DEF IInv, LiveAttempt
    <3>2. CASE pc[p] = "markPublished" /\ row' = [row EXCEPT ![m] = PublishedRow(m)]
      BY <1>a, <2>1, <3>1, <3>2 DEF RecordsConfirmed, PublishedRow, Rows
    <3>3. CASE row' = [row EXCEPT ![m] = FailedRow(p, m)]
      BY <1>a, <3>1, <3>3 DEF FailedRow, Exhausted, Rows
    <3>4. QED
      BY <2>1, <3>2, <3>3
  <2>4. ClaimsShrink /\ RecordsConfirmed'
    BY <1>a, <2>1, ReleaseShrinks
  <2>5. RowsKeepClaims
    BY <2>2, <2>3 DEF RowsKeepClaims
  <2>6. ConfirmedIsStored'
    BY <2>1 DEF IInv, ConfirmedIsStored
  <2>7. Finished'
    BY <2>1, <2>2, <2>3 DEF IInv, PublishedIsConfirmed, IsolatedIsExhausted
  <2>8. QED
    BY <2>4, <2>5, <2>6, <2>7, ClaimsStaySound
<1>10. ASSUME Tick
       PROVE  Claimed' /\ Recorded' /\ Finished'
  <2>1. \A m \in Messages : /\ row'[m].status = row[m].status
                            /\ row'[m].token = row[m].token
                            /\ row'[m].attempt = row[m].attempt
    BY <1>10, <1>a DEF Tick, Rows
  <2>2. ClaimsShrink /\ RowsKeepClaims
    BY <1>10, <2>1 DEF Tick, ClaimsShrink, RowsKeepClaims
  <2>3. Recorded' /\ Finished'
    BY <1>10, <2>1 DEF Tick, IInv, RecordsConfirmed, ConfirmedIsStored,
                       PublishedIsConfirmed, IsolatedIsExhausted
  <2>4. QED
    BY <2>2, <2>3, ClaimsStaySound
<1>11. ASSUME UNCHANGED vars
       PROVE  Claimed' /\ Recorded' /\ Finished'
  BY <1>11 DEF vars, IInv, TokensAreUnique, ClaimCounts, LiveAttempt, Live,
               ClaimsAreCommitted, RecordsConfirmed, ConfirmedIsStored,
               PublishedIsConfirmed, IsolatedIsExhausted
<1>12. Claimed' /\ Recorded' /\ Finished'
  BY <1>1, <1>2, <1>3, <1>4, <1>5, <1>6, <1>7, <1>8, <1>9, <1>10, <1>11 DEF Next, Claim
<1>13. QED
  BY <1>b, <1>12 DEF IInv

-----------------------------------------------------------------------------
(* The invariant holds in every reachable state.                           *)
THEOREM Invariance == SafeSpec => []IInv
<1>1. Init => IInv
  BY InitInv
<1>2. IInv /\ [Next]_vars => IInv'
  BY NextInv
<1>3. QED
  BY <1>1, <1>2, PTL DEF SafeSpec

(* The table and the publishers' memory are well-typed: a claim's attempt  *)
(* never leaves the policy's range, so a retry always has its delay.       *)
THEOREM TypeCorrect == SafeSpec => []TypeOK
<1>1. IInv => TypeOK
  BY DEF IInv
<1>2. QED
  BY <1>1, Invariance, PTL

(* No row says published without a broker confirm, for any number of       *)
(* publishers, crashes and takeovers of claims.                            *)
THEOREM PublishedOnlyIfConfirmed == SafeSpec => []PublishedIsConfirmed
<1>1. IInv => PublishedIsConfirmed
  BY DEF IInv
<1>2. QED
  BY <1>1, Invariance, PTL

(* Claim tokens fence: at most one publisher can record an outcome of a row*)
THEOREM ClaimsAreFenced == SafeSpec => []OneLiveClaim
<1>1. IInv => OneLiveClaim
  BY DEF IInv, TokensAreUnique, OneLiveClaim, Live
<1>2. QED
  BY <1>1, Invariance, PTL

(* A row is isolated only with its whole attempt budget spent.             *)
THEOREM IsolatedOnlyIfExhausted == SafeSpec => []IsolatedIsExhausted
<1>1. IInv => IsolatedIsExhausted
  BY DEF IInv
<1>2. QED
  BY <1>1, Invariance, PTL

(* ClaimOutbox changes the status of claimable rows only.                  *)
LEMMA ClaimedStatus ==
  ASSUME IInv, NEW p \in Publishers, NEW batch \in SUBSET Messages,
         ClaimOutbox(p, batch), NEW m \in Messages
  PROVE  \/ row'[m].status = row[m].status
         \/ row[m].status \in {"pending", "publishing"} /\ row'[m].status = "publishing"
<1>1. PICK token \in [batch -> Tokens] :
        row' = [n \in Messages |-> IF n \in batch
             THEN [row[n] EXCEPT !.status = "publishing", !.token = token[n],
                                 !.attempt = NextAttempt(n), !.staleIn = Lease]
             ELSE row[n]]
  BY DEF ClaimOutbox
<1>2. row[m] \in Rows
  BY DEF IInv, TypeOK
<1>3. CASE m \in batch
  <2>1. row'[m].status = "publishing"
    BY <1>1, <1>2, <1>3 DEF Rows
  <2>2. row[m].status \in {"pending", "publishing"}
    BY <1>3 DEF ClaimOutbox, Claimable
  <2>3. QED
    BY <2>1, <2>2
<1>4. CASE m \notin batch
  BY <1>1, <1>4
<1>5. QED
  BY <1>3, <1>4

(* What a single step may do to the status of one row.                     *)
LEMMA RowStep ==
  ASSUME IInv, [Next]_vars, NEW m \in Messages
  PROVE  \/ row'[m].status = row[m].status
         \/ row[m].status = "absent" /\ row'[m].status = "pending"
         \/ row[m].status \in {"pending", "publishing"} /\ row'[m].status = "publishing"
         \/ /\ row[m].status = "publishing"
            /\ \E p \in Publishers :
                 /\ Live(p, m) /\ current[p] = m
                 /\ \/ pc[p] = "markPublished" /\ row'[m].status = "published"
                    \/ pc[p] = "markFailure" /\ row'[m].status \in {"pending", "isolated"}
         \/ /\ row[m].status = "isolated" /\ row'[m].status = "pending"
            /\ m \in intent /\ m \notin intent'
<1> DEFINE Goal ==
         \/ row'[m].status = row[m].status
         \/ row[m].status = "absent" /\ row'[m].status = "pending"
         \/ row[m].status \in {"pending", "publishing"} /\ row'[m].status = "publishing"
         \/ /\ row[m].status = "publishing"
            /\ \E p \in Publishers :
                 /\ Live(p, m) /\ current[p] = m
                 /\ \/ pc[p] = "markPublished" /\ row'[m].status = "published"
                    \/ pc[p] = "markFailure" /\ row'[m].status \in {"pending", "isolated"}
         \/ /\ row[m].status = "isolated" /\ row'[m].status = "pending"
            /\ m \in intent /\ m \notin intent'
<1>a. row \in [Messages -> Rows] /\ row[m] \in Rows
  BY DEF IInv, TypeOK
<1>1. ASSUME NEW n \in Messages, AppendEvent(n)
      PROVE  Goal
  BY <1>1, <1>a DEF AppendEvent, Rows
<1>2. ASSUME NEW n \in Messages, ReplayOutbox(n)
      PROVE  Goal
  BY <1>2, <1>a DEF ReplayOutbox, Rows
<1>3. ASSUME NEW p \in Publishers, NEW batch \in SUBSET Messages, ClaimOutbox(p, batch)
      PROVE  Goal
  BY <1>3, ClaimedStatus
<1>4. ASSUME NEW p \in Publishers, NEW n \in Messages,
             MarkPublished(p, n) \/ MarkFailure(p, n) \/ MarkReplyLost(p, n)
      PROVE  Goal
  <2>1. /\ current[p] = n /\ Live(p, n)
        /\ \/ pc[p] = "markPublished" /\ row' = [row EXCEPT ![n] = PublishedRow(n)]
           \/ pc[p] = "markFailure" /\ row' = [row EXCEPT ![n] = FailedRow(p, n)]
    BY <1>4 DEF MarkPublished, MarkFailure, MarkReplyLost
  <2>2. CASE m # n
    BY <1>a, <2>1, <2>2
  <2>3. CASE m = n
    <3>1. row[m].status = "publishing"
      BY <2>1, <2>3 DEF Live
    <3>2. PublishedRow(m).status = "published"
      BY <1>a DEF PublishedRow, Rows
    <3>3. FailedRow(p, m).status \in {"pending", "isolated"}
      BY <1>a DEF FailedRow, Rows
    <3>4. QED
      BY <1>a, <2>1, <2>3, <3>1, <3>2, <3>3
  <2>4. QED
    BY <2>2, <2>3
<1>5. ASSUME Tick
      PROVE  row'[m].status = row[m].status
  BY <1>5, <1>a DEF Tick, Rows
<1>6. ASSUME UNCHANGED row
      PROVE  Goal
  BY <1>6
<1>7. QED
  <2>1. \/ \E n \in Messages : AppendEvent(n) \/ ReplayOutbox(n)
        \/ \E p \in Publishers, batch \in SUBSET Messages : ClaimOutbox(p, batch)
        \/ \E p \in Publishers, n \in Messages :
             MarkPublished(p, n) \/ MarkFailure(p, n) \/ MarkReplyLost(p, n)
        \/ Tick
        \/ UNCHANGED row
    BY DEF Next, Claim, AuthorizeReplay, Crash, PublishConfirmed, PublishFailed,
           MarkRefused, vars
  <2>2. QED
    BY <1>1, <1>2, <1>3, <1>4, <1>5, <1>6, <2>1

(* While the owner of a row waits to record its confirm, nobody requeues or*)
(* isolates the row.                                                       *)
THEOREM ConfirmedRowIsKept == SafeSpec => ConfirmedIsNotFailed
<1>1. ASSUME IInv, [Next]_vars, NEW p \in Publishers, NEW m \in Messages,
             Live(p, m), current[p] = m, pc[p] = "markPublished"
      PROVE  row'[m].status \in {"publishing", "published"}
  <2>1. row[m].status = "publishing"
    BY <1>1 DEF Live
  <2>2. \A q \in Publishers : Live(q, m) => pc[q] = "markPublished"
    BY <1>1 DEF IInv, TokensAreUnique, Live
  <2>3. QED
    BY <1>1, <2>1, <2>2, RowStep
<1>2. IInv /\ [Next]_vars =>
        \A p \in Publishers, m \in Messages :
          Live(p, m) /\ current[p] = m /\ pc[p] = "markPublished"
            => row'[m].status \in {"publishing", "published"}
  BY <1>1
<1>3. QED
  BY <1>2, Invariance, PTL DEF SafeSpec, ConfirmedIsNotFailed

(* No late publisher touches a finished row, and only an authorized and    *)
(* recorded replay reopens one.                                            *)
THEOREM FinishedRowIsFinal == SafeSpec => FinishedIsFinal
<1>1. ASSUME IInv, [Next]_vars, NEW m \in Messages
      PROVE  /\ row[m].status = "published" => row'[m].status = "published"
             /\ row[m].status = "isolated" /\ row'[m].status # "isolated"
                  => row'[m].status = "pending" /\ m \in intent /\ m \notin intent'
  BY <1>1, RowStep
<1>2. IInv /\ [Next]_vars =>
        \A m \in Messages :
          /\ row[m].status = "published" => row'[m].status = "published"
          /\ row[m].status = "isolated" /\ row'[m].status # "isolated"
               => row'[m].status = "pending" /\ m \in intent /\ m \notin intent'
  BY <1>1
<1>3. QED
  BY <1>2, Invariance, PTL DEF SafeSpec, FinishedIsFinal

-----------------------------------------------------------------------------
(* Refinement: the contract's fate is a function of the row's status.      *)
Fates == [m \in Messages |-> Fate(m)]

(* At most one row's status changes in a step that is not a claim, and a   *)
(* claim changes no fate.                                                  *)
LEMMA OneFateChanges ==
  ASSUME IInv, [Next]_vars
  PROVE  \/ Fates' = Fates
         \/ broker' = broker /\ \E m \in Messages : Fates' = [Fates EXCEPT ![m] = Fate(m)']
<1>a. row \in [Messages -> Rows] /\ \A m \in Messages : row[m] \in Rows
  BY DEF IInv, TypeOK
<1>1. ASSUME NEW m \in Messages, \A n \in Messages \ {m} : row'[n] = row[n]
      PROVE  Fates' = [Fates EXCEPT ![m] = Fate(m)']
  <2>1. \A n \in Messages \ {m} : Fate(n)' = Fate(n)
    BY <1>1 DEF Fate
  <2>2. QED
    BY <2>1 DEF Fates
<1>2. ASSUME NEW m \in Messages, AppendEvent(m) \/ ReplayOutbox(m)
      PROVE  broker' = broker /\ \A n \in Messages \ {m} : row'[n] = row[n]
  BY <1>2, <1>a DEF AppendEvent, ReplayOutbox
<1>3. ASSUME NEW p \in Publishers, NEW m \in Messages,
             MarkPublished(p, m) \/ MarkFailure(p, m) \/ MarkReplyLost(p, m)
      PROVE  broker' = broker /\ \A n \in Messages \ {m} : row'[n] = row[n]
  BY <1>3, <1>a DEF MarkPublished, MarkFailure, MarkReplyLost
<1>4. ASSUME NEW p \in Publishers, NEW batch \in SUBSET Messages, ClaimOutbox(p, batch)
      PROVE  Fates' = Fates
  <2>1. \A m \in Messages :
          \/ row'[m].status = row[m].status
          \/ row[m].status \in {"pending", "publishing"} /\ row'[m].status = "publishing"
    BY <1>4, ClaimedStatus
  <2>2. \A m \in Messages : Fate(m)' = Fate(m)
    BY <2>1 DEF Fate
  <2>3. QED
    BY <2>2 DEF Fates
<1>5. ASSUME Tick
      PROVE  Fates' = Fates
  <2>1. \A m \in Messages : row'[m].status = row[m].status
    BY <1>5, <1>a DEF Tick, Rows
  <2>2. \A m \in Messages : Fate(m)' = Fate(m)
    BY <2>1 DEF Fate
  <2>3. QED
    BY <2>2 DEF Fates
<1>6. ASSUME UNCHANGED row
      PROVE  Fates' = Fates
  BY <1>6 DEF Fates, Fate
<1>7. QED
  <2>1. \/ \E n \in Messages : AppendEvent(n) \/ ReplayOutbox(n)
        \/ \E p \in Publishers, batch \in SUBSET Messages : ClaimOutbox(p, batch)
        \/ \E p \in Publishers, n \in Messages :
             MarkPublished(p, n) \/ MarkFailure(p, n) \/ MarkReplyLost(p, n)
        \/ Tick
        \/ UNCHANGED row
    BY DEF Next, Claim, AuthorizeReplay, Crash, PublishConfirmed, PublishFailed,
           MarkRefused, vars
  <2>2. QED
    BY <1>1, <1>2, <1>3, <1>4, <1>5, <1>6, <2>1

(* The only copies that reach the broker are of claimed, so committed, rows*)
LEMMA CopiesAreCommitted ==
  ASSUME IInv, [Next]_vars
  PROVE  \/ broker' = broker
         \/ /\ row' = row
            /\ \E m \in Messages : row[m].status # "absent" /\ broker' = broker \cup {m}
<1>1. ASSUME NEW p \in Publishers, NEW m \in Held(p)
      PROVE  row[m].status # "absent"
  BY <1>1 DEF IInv, ClaimsAreCommitted, Held
<1>2. \/ broker' = broker
      \/ /\ row' = row
         /\ \E p \in Publishers : \E m \in Held(p) : broker' = broker \cup {m}
  <2>1. ASSUME NEW p \in Publishers, NEW m \in Messages,
               PublishConfirmed(p, m) \/ PublishFailed(p, m)
        PROVE  \/ broker' = broker
               \/ row' = row /\ m \in Held(p) /\ broker' = broker \cup {m}
    BY <2>1 DEF PublishConfirmed, PublishFailed
  <2>2. ASSUME NEW p \in Publishers, Crash(p)
        PROVE  \/ broker' = broker
               \/ row' = row /\ \E m \in Held(p) : broker' = broker \cup {m}
    BY <2>2 DEF Crash
  <2>3. \/ \E p \in Publishers, m \in Messages : PublishConfirmed(p, m) \/ PublishFailed(p, m)
        \/ \E p \in Publishers : Crash(p)
        \/ broker' = broker
    BY DEF Next, Claim, AppendEvent, AuthorizeReplay, ReplayOutbox, ClaimOutbox,
           MarkPublished, MarkFailure, MarkRefused, MarkReplyLost, Tick, vars
  <2>4. QED
    BY <2>1, <2>2, <2>3
<1>3. QED
  BY <1>1, <1>2 DEF Held

(* An empty table is the contract's initial state.                         *)
LEMMA ContractInit == Init => Contract!Init
  BY DEF Init, Contract!Init, Fate

(* Every step is a step of the contract or leaves its variables alone.     *)
LEMMA ContractStep == IInv /\ [Next]_vars => [Contract!Next]_(Contract!vars)
<1> SUFFICES ASSUME IInv, [Next]_vars
             PROVE  Contract!Next \/ UNCHANGED <<Fates, broker>>
  BY DEF Contract!vars, Fates
<1>1. CASE Fates' = Fates
  <2>1. CASE broker' = broker
    BY <1>1, <2>1
  <2>2. CASE broker' # broker
    <3>1. PICK m \in Messages : row[m].status # "absent" /\ broker' = broker \cup {m}
      BY <2>2, CopiesAreCommitted
    <3>2. Fates[m] # "absent"
      <4>1. row[m].status \in Statuses
        BY DEF IInv, TypeOK, Rows
      <4>2. QED
        BY <3>1, <4>1 DEF Fates, Fate, Statuses
    <3>3. Contract!Deliver(m)
      BY <1>1, <3>1, <3>2 DEF Contract!Deliver, Fates
    <3>4. QED
      BY <3>3 DEF Contract!Next
  <2>3. QED
    BY <2>1, <2>2
<1>2. CASE Fates' # Fates
  <2>1. PICK m \in Messages : broker' = broker /\ Fates' = [Fates EXCEPT ![m] = Fate(m)']
    BY <1>2, OneFateChanges
  <2>2. Fates[m] = Fate(m) /\ Fate(m)' # Fate(m)
    BY <1>2, <2>1 DEF Fates
  <2>3. \/ row[m].status = "absent" /\ row'[m].status = "pending"
        \/ /\ row[m].status = "publishing"
           /\ \E p \in Publishers :
                /\ current[p] = m
                /\ \/ pc[p] = "markPublished" /\ row'[m].status = "published"
                   \/ row'[m].status = "isolated"
        \/ row[m].status = "isolated" /\ row'[m].status = "pending"
    <3>1. \/ row'[m].status = row[m].status
          \/ row[m].status \in {"pending", "publishing"}
               /\ row'[m].status \in {"pending", "publishing"}
          => Fate(m)' = Fate(m)
      BY DEF Fate
    <3>2. QED
      BY <2>2, <3>1, RowStep
  <2>4. CASE row[m].status = "absent" /\ row'[m].status = "pending"
    <3>1. Contract!Commit(m)
      BY <2>1, <2>2, <2>4 DEF Contract!Commit, Fates, Fate
    <3>2. QED
      BY <3>1 DEF Contract!Next
  <2>5. CASE row[m].status = "isolated" /\ row'[m].status = "pending"
    <3>1. Contract!Replay(m)
      BY <2>1, <2>2, <2>5 DEF Contract!Replay, Fates, Fate
    <3>2. QED
      BY <3>1 DEF Contract!Next
  <2>6. CASE row[m].status = "publishing" /\ row'[m].status = "isolated"
    <3>1. Contract!Park(m)
      BY <2>1, <2>2, <2>6 DEF Contract!Park, Fates, Fate
    <3>2. QED
      BY <3>1 DEF Contract!Next
  <2>7. ASSUME NEW p \in Publishers, row[m].status = "publishing", current[p] = m,
               pc[p] = "markPublished", row'[m].status = "published"
        PROVE  Contract!Next
    <3>1. m \in broker
      BY <2>7 DEF IInv, RecordsConfirmed, ConfirmedIsStored
    <3>2. Contract!Settle(m)
      BY <2>1, <2>2, <2>7, <3>1 DEF Contract!Settle, Fates, Fate
    <3>3. QED
      BY <3>2 DEF Contract!Next
  <2>8. QED
    BY <2>3, <2>4, <2>5, <2>6, <2>7
<1>3. QED
  BY <1>1, <1>2

(* The table and its publishers implement the contract.                    *)
THEOREM Refinement == SafeSpec => ImplementsContract
<1>1. SafeSpec => Contract!Init
  BY ContractInit DEF SafeSpec
<1>2. IInv /\ [Next]_vars => [Contract!Next]_(Contract!vars)
  BY ContractStep
<1>3. QED
  BY <1>1, <1>2, Invariance, PTL DEF SafeSpec, ImplementsContract, Contract!SafeSpec
=============================================================================
