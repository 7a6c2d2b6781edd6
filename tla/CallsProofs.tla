---------------------------- MODULE CallsProofs ----------------------------
(***************************************************************************)
(* Proofs about what goes out to providers and comes in from them: the     *)
(* limiter and the circuit breaker, for any number of calls, slots and     *)
(* attempts; the acceptance of webhooks, for any clock; the model calls of *)
(* the gateway and the commands of the workflow, for any number of callers.*)
(***************************************************************************)
EXTENDS IntegrationRuntime, AiGateway, Workflow, FiniteSetTheorems, SequenceTheorems, TLAPS

(* Those that hold a slot: granted one, and not settled or in backoff.     *)
Holders == {c \in Calls : at[c] \in {"entering", "calling"}}
WaitingCalls == {c \in Calls : at[c] = "waiting"}

(* Who waits for its next attempt has one left.                            *)
AttemptsAreLeft == \A c \in Calls : at[c] = "backoff" => attempt[c] < MaxAttempts

CallsInv ==
  /\ IntegrationTypeOK
  /\ AttemptsAreLeft
  /\ IsFiniteSet(Holders)
  /\ SlotsAreExact
  /\ WaitOnlyWhenFull
  /\ ClosedBelowThreshold

-----------------------------------------------------------------------------
(* Lemmas about the queue of the limiter: what its three operations do to  *)
(* a sequence without repetitions.                                         *)

Distinct(s) == \A i, j \in DOMAIN s : s[i] = s[j] => i = j
MembersOf(s) == {s[i] : i \in DOMAIN s}

LEMMA AppendDistinct ==
  ASSUME NEW S, NEW s \in Seq(S), NEW e \in S, Distinct(s), e \notin MembersOf(s)
  PROVE  /\ Append(s, e) \in Seq(S) /\ Len(Append(s, e)) = Len(s) + 1
         /\ Distinct(Append(s, e)) /\ MembersOf(Append(s, e)) = MembersOf(s) \cup {e}
<1> DEFINE t == Append(s, e)
<1>1. /\ t \in Seq(S) /\ Len(t) = Len(s) + 1 /\ DOMAIN t = 1 .. Len(s) + 1
      /\ DOMAIN s = 1 .. Len(s) /\ Len(s) \in Nat
      /\ \A i \in 1 .. Len(s) : t[i] = s[i]
      /\ t[Len(s) + 1] = e
  BY AppendProperties, LenProperties
<1> HIDE DEF t
<1>2. Distinct(t)
  BY <1>1 DEF Distinct, MembersOf
<1>3. MembersOf(t) = MembersOf(s) \cup {e}
  BY <1>1 DEF MembersOf
<1> QED
  BY <1>1, <1>2, <1>3 DEF t

LEMMA TailDistinct ==
  ASSUME NEW S, NEW s \in Seq(S), s # <<>>, Distinct(s)
  PROVE  /\ Head(s) \in MembersOf(s) /\ Head(s) \in S
         /\ Tail(s) \in Seq(S) /\ Len(Tail(s)) = Len(s) - 1 /\ Len(s) \in Nat
         /\ Distinct(Tail(s)) /\ MembersOf(Tail(s)) = MembersOf(s) \ {Head(s)}
<1> DEFINE t == Tail(s)
<1>1. /\ Head(s) \in S /\ t \in Seq(S) /\ Len(t) = Len(s) - 1
      /\ DOMAIN t = 1 .. Len(s) - 1 /\ DOMAIN s = 1 .. Len(s)
      /\ Len(s) \in Nat \ {0}
      /\ \A i \in 1 .. Len(s) - 1 : t[i] = s[i + 1]
      /\ Head(s) = s[1]
  BY HeadTailProperties, LenProperties, EmptySeq
<1> HIDE DEF t
<1>2. Distinct(t)
  <2> SUFFICES ASSUME NEW i \in DOMAIN t, NEW j \in DOMAIN t, t[i] = t[j] PROVE i = j
    BY DEF Distinct
  <2>1. i + 1 \in DOMAIN s /\ j + 1 \in DOMAIN s /\ s[i + 1] = s[j + 1]
    BY <1>1
  <2> QED
    BY <2>1, <1>1 DEF Distinct
<1>3. MembersOf(t) = MembersOf(s) \ {Head(s)}
  <2>1. ASSUME NEW x \in MembersOf(t) PROVE x \in MembersOf(s) \ {Head(s)}
    <3>1. PICK i \in DOMAIN t : x = t[i]
      BY DEF MembersOf
    <3>2. i + 1 \in DOMAIN s /\ 1 \in DOMAIN s /\ i + 1 # 1 /\ x = s[i + 1]
      BY <3>1, <1>1
    <3> QED
      BY <3>2, <1>1 DEF MembersOf, Distinct
  <2>2. ASSUME NEW x \in MembersOf(s) \ {Head(s)} PROVE x \in MembersOf(t)
    <3>1. PICK i \in DOMAIN s : x = s[i]
      BY DEF MembersOf
    <3>2. i # 1 /\ i - 1 \in DOMAIN t /\ t[i - 1] = s[i]
      BY <3>1, <1>1
    <3> QED
      BY <3>1, <3>2 DEF MembersOf
  <2> QED
    BY <2>1, <2>2
<1> QED
  BY <1>1, <1>2, <1>3 DEF t, MembersOf

(* The splice of an aborted waiter: what is behind it moves up.            *)
Spliced(s, i) == SubSeq(s, 1, i - 1) \o SubSeq(s, i + 1, Len(s))

LEMMA Splice ==
  ASSUME NEW S, NEW s \in Seq(S), NEW i \in 1 .. Len(s)
  PROVE  /\ Spliced(s, i) \in Seq(S) /\ Len(Spliced(s, i)) = Len(s) - 1
         /\ \A k \in 1 .. Len(s) - 1 : k < i => Spliced(s, i)[k] = s[k]
         /\ \A k \in 1 .. Len(s) - 1 : ~(k < i) => Spliced(s, i)[k] = s[k + 1]
<1> DEFINE a == SubSeq(s, 1, i - 1)
           b == SubSeq(s, i + 1, Len(s))
<1>1. a \in Seq(S) /\ Len(a) = i - 1 /\ \A k \in 1 .. i - 1 : a[k] = s[k]
  OBVIOUS
<1>2. b \in Seq(S) /\ Len(b) = Len(s) - i /\ \A k \in 1 .. Len(s) - i : b[k] = s[i + k]
  OBVIOUS
<1>3. Spliced(s, i) = a \o b
  BY DEF Spliced
<1> HIDE DEF a, b
<1>4. /\ a \o b \in Seq(S)
      /\ Len(a \o b) = Len(a) + Len(b)
      /\ \A k \in 1 .. Len(a) + Len(b) : (a \o b)[k] = IF k <= Len(a) THEN a[k] ELSE b[k - Len(a)]
  BY <1>1, <1>2, ConcatProperties, Zenon
<1>5. Len(a) = i - 1 /\ Len(a) + Len(b) = Len(s) - 1
  BY <1>1, <1>2
<1>6. \A k \in 1 .. Len(s) - 1 : k < i => (a \o b)[k] = s[k]
  BY <1>1, <1>4, <1>5
<1>7. ASSUME NEW k \in 1 .. Len(s) - 1, ~(k < i) PROVE (a \o b)[k] = s[k + 1]
  <2>1. k - (i - 1) \in 1 .. Len(s) - i /\ i + (k - (i - 1)) = k + 1
    BY <1>7
  <2>2. (a \o b)[k] = b[k - (i - 1)]
    BY <1>4, <1>5, <1>7
  <2> QED
    BY <1>2, <2>1, <2>2
<1> QED
  BY <1>3, <1>4, <1>5, <1>6, <1>7

LEMMA SpliceDistinct ==
  ASSUME NEW S, NEW s \in Seq(S), NEW i \in 1 .. Len(s), Distinct(s), NEW t \in Seq(S),
         t = Spliced(s, i)
  PROVE  Len(t) = Len(s) - 1 /\ Distinct(t) /\ MembersOf(t) = MembersOf(s) \ {s[i]}
<1>1. /\ DOMAIN s = 1 .. Len(s) /\ Len(s) \in Nat
      /\ Len(t) = Len(s) - 1 /\ DOMAIN t = 1 .. Len(s) - 1
      /\ \A k \in 1 .. Len(s) - 1 : k < i => t[k] = s[k]
      /\ \A k \in 1 .. Len(s) - 1 : ~(k < i) => t[k] = s[k + 1]
  BY Splice, LenProperties
<1> DEFINE Old(k) == IF k < i THEN k ELSE k + 1
<1>2. \A k \in DOMAIN t : Old(k) \in DOMAIN s /\ Old(k) # i /\ t[k] = s[Old(k)]
  BY <1>1
<1>3. \A j, k \in DOMAIN t : Old(j) = Old(k) => j = k
  BY <1>1
<1>4. \A n \in DOMAIN s : n # i => \E k \in DOMAIN t : Old(k) = n
  <2> SUFFICES ASSUME NEW n \in DOMAIN s, n # i PROVE \E k \in DOMAIN t : Old(k) = n
    OBVIOUS
  <2>1. CASE n < i
    <3>1. n \in DOMAIN t /\ Old(n) = n
      BY <1>1, <2>1
    <3> QED
      BY <3>1
  <2>2. CASE ~(n < i)
    <3>1. n - 1 \in DOMAIN t /\ Old(n - 1) = n
      BY <1>1, <2>2
    <3> QED
      BY <3>1
  <2> QED
    BY <2>1, <2>2
<1> HIDE DEF Old
<1>5. Distinct(t)
  <2> SUFFICES ASSUME NEW j \in DOMAIN t, NEW k \in DOMAIN t, t[j] = t[k] PROVE j = k
    BY DEF Distinct
  <2>1. Old(j) \in DOMAIN s /\ Old(k) \in DOMAIN s /\ s[Old(j)] = s[Old(k)]
    BY <1>2
  <2>2. Old(j) = Old(k)
    BY <2>1 DEF Distinct
  <2> QED
    BY <2>2, <1>3
<1>6. MembersOf(t) = MembersOf(s) \ {s[i]}
  <2>1. ASSUME NEW x \in MembersOf(t) PROVE x \in MembersOf(s) \ {s[i]}
    <3>1. PICK k \in DOMAIN t : x = t[k]
      BY DEF MembersOf
    <3>2. Old(k) \in DOMAIN s /\ x = s[Old(k)] /\ s[Old(k)] # s[i]
      BY <3>1, <1>1, <1>2 DEF Distinct
    <3> QED
      BY <3>2 DEF MembersOf
  <2>2. ASSUME NEW x \in MembersOf(s) \ {s[i]} PROVE x \in MembersOf(t)
    <3>1. PICK n \in DOMAIN s : x = s[n] /\ n # i
      BY DEF MembersOf
    <3>2. PICK k \in DOMAIN t : Old(k) = n
      BY <3>1, <1>4
    <3> QED
      BY <3>1, <3>2, <1>2 DEF MembersOf
  <2> QED
    BY <2>1, <2>2
<1> QED
  BY <1>1, <1>5, <1>6

-----------------------------------------------------------------------------
(* The limiter and the circuit breaker.                                    *)

Places == {"idle", "attempt", "waiting", "entering", "calling", "backoff"}

(* What the limiter keeps, of its three variables.                         *)
LimiterInv ==
  /\ active \in Nat /\ queue \in Seq(Calls) /\ at \in [Calls -> Places]
  /\ IsFiniteSet(Holders) /\ active = Cardinality(Holders) /\ active <= Limit
  /\ queue # <<>> => active = Limit
  /\ Len(queue) <= MaxQueue /\ Distinct(queue) /\ MembersOf(queue) = WaitingCalls

(* What the circuit breaker keeps.                                         *)
CircuitInv(b) ==
  /\ b \in Circuit
  /\ b.state = "closed" => b.failures < FailureThreshold
  /\ b.state # "half_open" => b.halfOpenActive = 0
  /\ b.halfOpenActive <= HalfOpenMaxCalls

(* What each call keeps.                                                   *)
OwnInv ==
  /\ attempt \in [Calls -> 1 .. MaxAttempts]
  /\ aborted \in [Calls -> {"no", "expired", "cancelled"}]
  /\ probe \in [Calls -> BOOLEAN]
  /\ AttemptsAreLeft

LEMMA CallsInvParts ==
  /\ CallsInv <=> LimiterInv /\ CircuitInv(breaker) /\ OwnInv
  /\ CallsInv' <=> LimiterInv' /\ CircuitInv(breaker') /\ OwnInv'
<1>1. CallsInv <=> LimiterInv /\ CircuitInv(breaker) /\ OwnInv
  BY DEF CallsInv, LimiterInv, CircuitInv, OwnInv, IntegrationTypeOK, SlotsAreExact,
         WaitOnlyWhenFull, ClosedBelowThreshold, Holders, WaitingCalls, Places, Distinct, MembersOf
<1>2. CallsInv' <=> LimiterInv' /\ CircuitInv(breaker') /\ OwnInv'
  BY DEF CallsInv, LimiterInv, CircuitInv, OwnInv, IntegrationTypeOK, SlotsAreExact,
         WaitOnlyWhenFull, ClosedBelowThreshold, Holders, WaitingCalls, Places, Distinct, MembersOf
<1> QED
  BY <1>1, <1>2

(* A step that moves one call from a place where it holds no slot and does *)
(* not wait to another such place, or one that holds a slot to another.    *)
LEMMA Moving ==
  ASSUME LimiterInv, NEW c \in Calls, NEW to \in Places, at' = [at EXCEPT ![c] = to],
         UNCHANGED <<active, queue>>,
         \/ at[c] \in {"idle", "attempt", "backoff"} /\ to \in {"idle", "attempt", "backoff"}
         \/ at[c] \in {"entering", "calling"} /\ to \in {"entering", "calling"}
  PROVE  LimiterInv'
<1>1. at' \in [Calls -> Places] /\ Holders' = Holders /\ WaitingCalls' = WaitingCalls
  BY DEF LimiterInv, Holders, WaitingCalls
<1> QED
  BY <1>1 DEF LimiterInv

LEMMA Taking ==
  ASSUME LimiterInv, NEW c \in Calls, at[c] = "attempt", active < Limit,
         active' = active + 1, At(c, "entering"), UNCHANGED queue
  PROVE  LimiterInv'
<1> USE IntegrationAssumption
<1>1. at' \in [Calls -> Places] /\ Holders' = Holders \cup {c} /\ c \notin Holders
      /\ WaitingCalls' = WaitingCalls
  BY DEF LimiterInv, Holders, WaitingCalls, Places, At
<1>2. IsFiniteSet(Holders') /\ Cardinality(Holders') = Cardinality(Holders) + 1
  BY <1>1, FS_AddElement DEF LimiterInv
<1>3. queue = <<>>
  BY DEF LimiterInv
<1> QED
  BY <1>1, <1>2, <1>3 DEF LimiterInv

LEMMA Queueing ==
  ASSUME LimiterInv, NEW c \in Calls, at[c] = "attempt", active >= Limit, Len(queue) < MaxQueue,
         queue' = Append(queue, c), At(c, "waiting"), UNCHANGED active
  PROVE  LimiterInv'
<1> USE IntegrationAssumption
<1>1. at' \in [Calls -> Places] /\ Holders' = Holders /\ WaitingCalls' = WaitingCalls \cup {c}
      /\ c \notin WaitingCalls
  BY DEF LimiterInv, Holders, WaitingCalls, Places, At
<1>2. /\ queue' \in Seq(Calls) /\ Len(queue') = Len(queue) + 1
      /\ Distinct(queue') /\ MembersOf(queue') = MembersOf(queue) \cup {c}
  BY <1>1, AppendDistinct DEF LimiterInv
<1>3. active' = Limit /\ Len(queue') <= MaxQueue
  BY <1>2, LenProperties DEF LimiterInv
<1> QED
  BY <1>1, <1>2, <1>3 DEF LimiterInv

LEMMA Releasing ==
  ASSUME LimiterInv, NEW c \in Calls, at[c] \in {"entering", "calling"},
         NEW end \in {"idle", "backoff"}, Release(c, end)
  PROVE  /\ LimiterInv'
         /\ \A d \in Calls : at'[d] = "backoff" =>
              IF d = c THEN end = "backoff" ELSE at[d] = "backoff"
<1>0. c \in Holders /\ active \in Nat /\ IsFiniteSet(Holders) /\ active = Cardinality(Holders)
  BY DEF LimiterInv, Holders
<1>1. IsFiniteSet(Holders \ {c}) /\ Cardinality(Holders \ {c}) = active - 1
  BY <1>0, FS_RemoveElement
<1>2. CASE queue = <<>>
  <2>1. at' = [at EXCEPT ![c] = end] /\ active' = active - 1 /\ queue' = queue
    BY <1>2 DEF Release
  <2>2. at' \in [Calls -> Places] /\ Holders' = Holders \ {c} /\ WaitingCalls' = WaitingCalls
    BY <2>1 DEF LimiterInv, Holders, WaitingCalls, Places
  <2>3. active' \in Nat /\ active' <= Limit
    BY <2>1, <1>0, <1>1, FS_CardinalityType, IntegrationAssumption DEF LimiterInv
  <2>4. LimiterInv'
    BY <1>1, <1>2, <2>1, <2>2, <2>3 DEF LimiterInv
  <2> QED
    BY <2>1, <2>4 DEF LimiterInv
<1>3. CASE queue # <<>>
  <2> DEFINE h == Head(queue)
  <2>1. at' = [at EXCEPT ![c] = end, ![h] = "entering"] /\ active' = active /\ queue' = Tail(queue)
    BY <1>3 DEF Release
  <2>2. /\ h \in Calls /\ queue' \in Seq(Calls) /\ Len(queue') = Len(queue) - 1 /\ Len(queue) \in Nat
        /\ Distinct(queue') /\ MembersOf(queue') = WaitingCalls \ {h} /\ h \in WaitingCalls
    BY <1>3, <2>1, TailDistinct DEF LimiterInv
  <2> HIDE DEF h
  <2>3. h # c /\ h \notin Holders \ {c}
    BY <2>2 DEF WaitingCalls, Holders
  <2>4. at' \in [Calls -> Places] /\ Holders' = (Holders \ {c}) \cup {h} /\ WaitingCalls' = WaitingCalls \ {h}
    BY <2>1, <2>2, <2>3 DEF LimiterInv, Holders, WaitingCalls, Places
  <2>5. IsFiniteSet(Holders') /\ Cardinality(Holders') = active
    BY <1>0, <1>1, <2>3, <2>4, FS_AddElement
  <2>6. Len(queue') <= MaxQueue /\ active' = Limit
    BY <1>3, <2>1, <2>2, IntegrationAssumption DEF LimiterInv
  <2>7. LimiterInv'
    BY <1>3, <2>1, <2>2, <2>4, <2>5, <2>6 DEF LimiterInv
  <2> QED
    BY <2>1, <2>2, <2>3, <2>7 DEF LimiterInv
<1> QED
  BY <1>2, <1>3

LEMMA Withdrawing ==
  ASSUME LimiterInv, NEW c \in Calls, at[c] \in {"waiting", "backoff"},
         queue' = Without(c), At(c, "idle"), UNCHANGED active
  PROVE  LimiterInv'
<1>1. /\ at' \in [Calls -> Places] /\ Holders' = Holders /\ WaitingCalls' = WaitingCalls \ {c}
      /\ c \in WaitingCalls <=> at[c] = "waiting"
  BY DEF LimiterInv, Holders, WaitingCalls, Places, At
<1>2. CASE \E i \in DOMAIN queue : queue[i] = c
  <2> DEFINE i == CHOOSE i \in DOMAIN queue : queue[i] = c
  <2>1. i \in DOMAIN queue /\ queue[i] = c
    BY <1>2
  <2>2. queue' = Spliced(queue, i)
    BY <1>2 DEF Without, Spliced
  <2> HIDE DEF i
  <2>3. i \in 1 .. Len(queue) /\ Len(queue) \in Nat /\ queue # <<>>
    BY <2>1, LenProperties, EmptySeq DEF LimiterInv
  <2>4. queue' \in Seq(Calls)
    BY <2>2, <2>3, Splice DEF LimiterInv
  <2>5. Len(queue') = Len(queue) - 1 /\ Distinct(queue') /\ MembersOf(queue') = WaitingCalls \ {c}
    BY <2>1, <2>2, <2>3, <2>4, SpliceDistinct DEF LimiterInv
  <2> QED
    BY <1>1, <2>3, <2>4, <2>5, IntegrationAssumption DEF LimiterInv
<1>3. CASE ~ \E i \in DOMAIN queue : queue[i] = c
  <2>1. queue' = queue
    BY <1>3 DEF Without
  <2>2. c \notin WaitingCalls
    BY <1>3 DEF LimiterInv, MembersOf
  <2> QED
    BY <1>1, <2>1, <2>2 DEF LimiterInv
<1> QED
  BY <1>2, <1>3

LEMMA Refreshing ==
  ASSUME CircuitInv(breaker)
  PROVE  CircuitInv(Refreshed)
  BY IntegrationAssumption DEF CircuitInv, Circuit, Refreshed

LEMMA Admitting ==
  ASSUME CircuitInv(breaker), Admits(Refreshed),
         breaker' = IF Refreshed.state = "half_open"
                    THEN [Refreshed EXCEPT !.halfOpenActive = @ + 1] ELSE Refreshed
  PROVE  CircuitInv(breaker')
<1>0. PICK b : b = Refreshed
  OBVIOUS
<1>1. CircuitInv(b)
  BY <1>0, Refreshing
<1>2. b.state = "closed" \/ (b.state = "half_open" /\ b.halfOpenActive < HalfOpenMaxCalls)
  BY <1>0 DEF Admits
<1>3. breaker' = IF b.state = "half_open" THEN [b EXCEPT !.halfOpenActive = @ + 1] ELSE b
  BY <1>0
<1> QED
  BY <1>1, <1>2, <1>3, IntegrationAssumption DEF CircuitInv, Circuit

LEMMA Counting ==
  ASSUME CircuitInv(breaker), NEW c \in Calls, probe[c] \in BOOLEAN, CountedFailure(c)
  PROVE  CircuitInv(breaker')
<1> DEFINE n == IF breaker.failures < FailureThreshold THEN breaker.failures + 1
                                                       ELSE FailureThreshold
           counted == [breaker EXCEPT !.failures = n]
<1>1. n \in 0 .. FailureThreshold /\ counted \in Circuit
      /\ counted.state = breaker.state /\ counted.failures = n
      /\ counted.halfOpenActive = breaker.halfOpenActive
  BY IntegrationAssumption DEF CircuitInv, Circuit
<1>2. breaker' = IF Opens(c, n) THEN Opened(counted) ELSE counted
  BY DEF CountedFailure
<1> HIDE DEF n, counted
<1>3. CASE Opens(c, n)
  <2>1. breaker' = [counted EXCEPT !.state = "open", !.halfOpenActive = 0, !.cooled = FALSE]
    BY <1>2, <1>3 DEF Opened
  <2>2. breaker' = [state |-> "open", failures |-> n, halfOpenActive |-> 0, cooled |-> FALSE]
    BY <1>1, <2>1 DEF Circuit
  <2>3. /\ breaker' \in Circuit
        /\ breaker'.state = "open" /\ breaker'.halfOpenActive = 0
    BY <1>1, <2>2 DEF Circuit
  <2> QED
    BY <2>3, IntegrationAssumption DEF CircuitInv
<1>4. CASE ~Opens(c, n)
  <2>1. n < FailureThreshold
    BY <1>1, <1>4, IntegrationAssumption DEF Opens
  <2> QED
    BY <1>1, <1>2, <1>4, <2>1 DEF CircuitInv
<1> QED
  BY <1>3, <1>4

LEMMA Uncounting ==
  ASSUME CircuitInv(breaker), NEW c \in Calls, probe[c] \in BOOLEAN, UncountedFailure(c)
  PROVE  CircuitInv(breaker')
  BY IntegrationAssumption DEF CircuitInv, Circuit, UncountedFailure

LEMMA Succeeding ==
  ASSUME CircuitInv(breaker), NEW c \in Calls, Succeed(c)
  PROVE  CircuitInv(breaker')
  BY IntegrationAssumption DEF CircuitInv, Circuit, Succeed

LEMMA IntegrationStarts == IntegrationInit => CallsInv
<1> SUFFICES ASSUME IntegrationInit PROVE CallsInv
  OBVIOUS
<1>1. Holders = {} /\ WaitingCalls = {} /\ MembersOf(queue) = {} /\ Distinct(queue)
  BY DEF IntegrationInit, Holders, WaitingCalls, MembersOf, Distinct
<1>2. LimiterInv
  BY <1>1, FS_EmptySet, IntegrationAssumption DEF IntegrationInit, LimiterInv, Places
<1>3. CircuitInv(breaker)
  BY IntegrationAssumption DEF IntegrationInit, CircuitInv, Circuit
<1>4. OwnInv
  BY IntegrationAssumption DEF IntegrationInit, OwnInv, AttemptsAreLeft
<1> QED
  BY <1>2, <1>3, <1>4, CallsInvParts

(* A call that settles, and does not go into backoff.                      *)
LEMMA Settling ==
  ASSUME OwnInv, NEW c \in Calls, Settled(c),
         \A d \in Calls : at'[d] = "backoff" => d # c /\ at[d] = "backoff"
  PROVE  OwnInv'
  BY IntegrationAssumption DEF OwnInv, AttemptsAreLeft, Settled

(* A step that gives no call another attempt.                              *)
LEMMA Going ==
  ASSUME OwnInv, attempt' = attempt,
         aborted' \in [Calls -> {"no", "expired", "cancelled"}], probe' \in [Calls -> BOOLEAN],
         \A d \in Calls : at'[d] = "backoff" => at[d] = "backoff"
  PROVE  OwnInv'
  BY DEF OwnInv, AttemptsAreLeft

(* An abort at any time keeps the limiter exact: who waits is spliced out  *)
(* of the queue, the others keep what they have.                           *)
LEMMA Aborting ==
  ASSUME CallsInv, NEW c \in Calls, NEW why \in {"expired", "cancelled"}, Abort(c, why)
  PROVE  CallsInv'
<1>0. LimiterInv /\ CircuitInv(breaker) /\ OwnInv /\ at \in [Calls -> Places]
  BY CallsInvParts DEF LimiterInv
<1>1. CASE at[c] \in {"waiting", "backoff"}
  <2>1. /\ queue' = Without(c) /\ At(c, "idle") /\ Settled(c) /\ UNCHANGED <<active, breaker>>
    BY <1>1 DEF Abort, Settle, Settled
  <2>2. LimiterInv'
    BY <1>0, <1>1, <2>1, Withdrawing
  <2>3. OwnInv'
    BY <1>0, <2>1, Settling DEF At
  <2> QED
    BY <1>0, <2>1, <2>2, <2>3, CallsInvParts
<1>2. CASE at[c] \notin {"waiting", "backoff"}
  <2>1. /\ aborted' = [aborted EXCEPT ![c] = why]
        /\ UNCHANGED <<active, queue, at, attempt, probe, breaker>>
    BY <1>2 DEF Abort
  <2>2. LimiterInv'
    BY <1>0, <2>1 DEF LimiterInv, Holders, WaitingCalls
  <2>3. OwnInv'
    BY <1>0, <2>1 DEF OwnInv, AttemptsAreLeft
  <2> QED
    BY <1>0, <2>1, <2>2, <2>3, CallsInvParts
<1> QED
  BY <1>1, <1>2

LEMMA IntegrationGoesOn == CallsInv /\ [IntegrationNext]_callVars => CallsInv'
<1> SUFFICES ASSUME CallsInv, [IntegrationNext]_callVars PROVE CallsInv'
  OBVIOUS
<1>0. LimiterInv /\ CircuitInv(breaker) /\ OwnInv /\ at \in [Calls -> Places]
      /\ aborted \in [Calls -> {"no", "expired", "cancelled"}] /\ probe \in [Calls -> BOOLEAN]
  BY CallsInvParts DEF LimiterInv, OwnInv
<1>q. ASSUME LimiterInv', CircuitInv(breaker'), OwnInv' PROVE CallsInv'
  BY <1>q, CallsInvParts
<1>s. ASSUME UNCHANGED <<active, queue, at>> PROVE LimiterInv'
  BY <1>0, <1>s DEF LimiterInv, Holders, WaitingCalls
<1>1. CASE UNCHANGED callVars
  <2>1. OwnInv'
    BY <1>0, <1>1, Going DEF callVars
  <2> QED
    BY <1>0, <1>1, <1>q, <1>s, <2>1 DEF callVars
<1>2. CASE CoolsDown
  <2>1. CircuitInv(breaker')
    BY <1>0, <1>2 DEF CoolsDown, CircuitInv, Circuit
  <2>2. OwnInv'
    BY <1>0, <1>2, Going DEF CoolsDown
  <2> QED
    BY <1>2, <1>q, <1>s, <2>1, <2>2 DEF CoolsDown, limiter
<1>3. CASE Snapshot
  <2>1. CircuitInv(breaker')
    BY <1>0, <1>3, Refreshing DEF Snapshot
  <2>2. OwnInv'
    BY <1>0, <1>3, Going DEF Snapshot
  <2> QED
    BY <1>3, <1>q, <1>s, <2>1, <2>2 DEF Snapshot, limiter
<1>4. ASSUME NEW c \in Calls, Execute(c) PROVE CallsInv'
  <2>1. LimiterInv'
    BY <1>0, <1>4, Moving DEF Execute, At, limiter, Places
  <2>2. OwnInv'
    BY <1>0, <1>4, Going DEF Execute, At
  <2> QED
    BY <1>0, <1>4, <1>q, <2>1, <2>2 DEF Execute
<1>5. ASSUME NEW c \in Calls, Acquire(c) PROVE CallsInv'
  <2>1. LimiterInv'
    BY <1>0, <1>5, Taking DEF Acquire
  <2>2. OwnInv'
    BY <1>0, <1>5, Going DEF Acquire, At
  <2> QED
    BY <1>0, <1>5, <1>q, <2>1, <2>2 DEF Acquire
<1>6. ASSUME NEW c \in Calls, Enqueue(c) PROVE CallsInv'
  <2>1. LimiterInv'
    BY <1>0, <1>6, Queueing DEF Enqueue
  <2>2. OwnInv'
    BY <1>0, <1>6, Going DEF Enqueue, At
  <2> QED
    BY <1>0, <1>6, <1>q, <2>1, <2>2 DEF Enqueue
<1>7. ASSUME NEW c \in Calls, Refuse(c) PROVE CallsInv'
  <2>1. LimiterInv'
    BY <1>0, <1>7, Moving DEF Refuse, Settle, At, limiter, Places
  <2>2. Settled(c) /\ At(c, "idle") /\ breaker' = breaker
    BY <1>7 DEF Refuse, Settle, Settled
  <2>3. OwnInv'
    BY <1>0, <2>2, Settling DEF At
  <2> QED
    BY <1>0, <1>q, <2>1, <2>2, <2>3
<1>8. ASSUME NEW c \in Calls, Enter(c) PROVE CallsInv'
  <2>1. LimiterInv'
    BY <1>0, <1>8, Moving DEF Enter, At, limiter, Places
  <2>2. CircuitInv(breaker')
    BY <1>0, <1>8, Admitting DEF Enter
  <2>3. probe' \in [Calls -> BOOLEAN]
    BY <1>0, <1>8 DEF Enter
  <2>4. OwnInv'
    BY <1>0, <1>8, <2>3, Going DEF Enter, At
  <2> QED
    BY <1>q, <2>1, <2>2, <2>4
(* The calls that leave their slot: it is handed on, or given back.        *)
<1>r. ASSUME NEW c \in Calls, at[c] \in {"entering", "calling"}, Release(c, "idle"), Settled(c),
             CircuitInv(breaker')
      PROVE  CallsInv'
  <2>1. /\ LimiterInv'
        /\ \A d \in Calls : at'[d] = "backoff" => d # c /\ at[d] = "backoff"
    BY <1>0, <1>r, Releasing
  <2>2. OwnInv'
    BY <1>0, <1>r, <2>1, Settling
  <2> QED
    BY <1>q, <1>r, <2>1, <2>2
<1>9. ASSUME NEW c \in Calls, EnterRefused(c) PROVE CallsInv'
  BY <1>0, <1>9, <1>r, Refreshing DEF EnterRefused
<1>10. ASSUME NEW c \in Calls, EnterAborted(c) PROVE CallsInv'
  BY <1>0, <1>10, <1>r DEF EnterAborted
<1>11. ASSUME NEW c \in Calls, Succeed(c) PROVE CallsInv'
  <2>1. CircuitInv(breaker')
    BY <1>0, <1>11, Succeeding
  <2> QED
    BY <1>11, <1>r, <2>1 DEF Succeed
<1>12. ASSUME NEW c \in Calls, Fail(c) PROVE CallsInv'
  BY <1>0, <1>12, <1>r, Counting DEF Fail
<1>13. ASSUME NEW c \in Calls, FailAndRetry(c) PROVE CallsInv'
  <2>1. /\ LimiterInv' /\ CircuitInv(breaker')
        /\ \A d \in Calls : at'[d] = "backoff" => d = c \/ at[d] = "backoff"
    BY <1>0, <1>13, Counting, Releasing DEF FailAndRetry
  <2>2. OwnInv'
    BY <1>0, <1>13, <2>1 DEF FailAndRetry, OwnInv, AttemptsAreLeft
  <2> QED
    BY <1>q, <2>1, <2>2
<1>14. ASSUME NEW c \in Calls, FailUncounted(c) PROVE CallsInv'
  BY <1>0, <1>14, <1>r, Uncounting DEF FailUncounted
<1>15. ASSUME NEW c \in Calls, Retry(c) PROVE CallsInv'
  <2>1. LimiterInv'
    BY <1>0, <1>15, Moving DEF Retry, At, limiter, Places
  <2>2. attempt[c] + 1 \in 1 .. MaxAttempts
    BY <1>0, <1>15, IntegrationAssumption DEF Retry, OwnInv, AttemptsAreLeft
  <2>3. OwnInv'
    BY <1>0, <1>15, <2>2 DEF Retry, At, OwnInv, AttemptsAreLeft
  <2> QED
    BY <1>0, <1>15, <1>q, <2>1, <2>3 DEF Retry
<1>16. ASSUME NEW c \in Calls, Expire(c) \/ Cancel(c) PROVE CallsInv'
  BY <1>16, Aborting DEF Expire, Cancel
<1> QED
  BY <1>1, <1>2, <1>3, <1>4, <1>5, <1>6, <1>7, <1>8, <1>9, <1>10, <1>11, <1>12, <1>13, <1>14, <1>15,
     <1>16 DEF IntegrationNext, CallGoesOn

(* The limiter and the circuit breaker of the integration runtime, for any *)
(* number of calls, slots, waiters, failures and attempts: no abort, late  *)
(* result or retry leaks a slot, doubles one or loses a wake-up, and the   *)
(* circuit is closed only below its threshold.                             *)
THEOREM SlotsAreAccountedFor ==
  IntegrationSpec => [](SlotsAreExact /\ WaitOnlyWhenFull /\ ClosedBelowThreshold)
<1>1. CallsInv => SlotsAreExact /\ WaitOnlyWhenFull /\ ClosedBelowThreshold
  BY DEF CallsInv
<1> QED
  BY <1>1, IntegrationStarts, IntegrationGoesOn, PTL DEF IntegrationSpec

-----------------------------------------------------------------------------
(* Webhooks.                                                               *)

(* A delivery under way looked at the clock within the last MaxDelay, and  *)
(* its message was recent then.                                            *)
DeliveriesAreRecent ==
  \A d \in Acceptances : acceptances[d] # NoDelivery =>
    LET a == acceptances[d]
    IN  /\ a.at <= clock /\ clock <= a.at + MaxDelay
        /\ a.at - a.message.signedAt <= Skew /\ a.message.signedAt - a.at <= Skew

(* What was accepted is reserved, by its event, for as long as it could be *)
(* recent to anybody, from the earliest time it can have been looked at.   *)
AcceptedIsReserved ==
  \A m \in WebhookMessages :
    acceptedTimes[m] # 0 => reservedTill[m.event] >= m.signedAt - Skew + Retention

WebhookInv == WebhookTypeOK /\ DeliveriesAreRecent /\ AcceptedIsReserved /\ AcceptedOnce

LEMMA WebhookStarts == WebhookInit => WebhookInv
  BY WebhookAssumption DEF WebhookInit, WebhookInv, WebhookTypeOK, DeliveriesAreRecent,
     AcceptedIsReserved, AcceptedOnce

LEMMA Accepting ==
  ASSUME WebhookInv, RetentionCoversDelay, NEW d \in Acceptances, AcceptWebhook(d)
  PROVE  WebhookInv'
<1> USE WebhookAssumption
<1> DEFINE a == acceptances[d]
           m == a.message
<1>1. /\ a # NoDelivery /\ a \in DeliveriesOfWebhook
      /\ reservedTill' = [i \in WebhookIds |->
              IF i \in {m.event, m.nonce} THEN a.at + Retention ELSE reservedTill[i]]
      /\ acceptedTimes' = [acceptedTimes EXCEPT ![m] = @ + 1]
      /\ acceptances' = [acceptances EXCEPT ![d] = NoDelivery]
      /\ clock' = clock
  BY DEF AcceptWebhook, WebhookInv, WebhookTypeOK
<1>2. /\ a.at \in Nat /\ m \in WebhookMessages
      /\ m.event \in WebhookIds /\ m.nonce \in WebhookIds /\ m.signedAt \in Nat
  BY <1>1 DEF DeliveriesOfWebhook
<1>3. ~(reservedTill[m.event] > clock) /\ ~(reservedTill[m.nonce] > clock)
  BY <1>2 DEF AcceptWebhook, Reserved
<1>4. /\ a.at <= clock /\ clock <= a.at + MaxDelay
      /\ a.at - m.signedAt <= Skew /\ m.signedAt - a.at <= Skew
  BY <1>1 DEF WebhookInv, DeliveriesAreRecent
<1> HIDE DEF a, m
<1>5. /\ clock \in Nat /\ reservedTill \in [WebhookIds -> Nat]
      /\ acceptedTimes \in [WebhookMessages -> Nat]
      /\ acceptances \in [Acceptances -> DeliveriesOfWebhook \cup {NoDelivery}]
  BY DEF WebhookInv, WebhookTypeOK
<1>6. WebhookTypeOK'
  BY <1>1, <1>2, <1>5 DEF WebhookTypeOK
<1>7. DeliveriesAreRecent'
  BY <1>1, <1>5 DEF WebhookInv, DeliveriesAreRecent
(* No reservation is shortened: a new one outlasts any that has run out.   *)
<1>8. \A i \in WebhookIds : reservedTill'[i] >= reservedTill[i]
  <2> SUFFICES ASSUME NEW i \in WebhookIds PROVE reservedTill'[i] >= reservedTill[i]
    OBVIOUS
  <2>1. CASE i \in {m.event, m.nonce}
    <3>1. reservedTill'[i] = a.at + Retention /\ reservedTill[i] <= clock
      BY <1>1, <1>2, <1>3, <1>5, <2>1
    <3> QED
      BY <3>1, <1>2, <1>4, <1>5 DEF RetentionCoversDelay
  <2>2. CASE i \notin {m.event, m.nonce}
    BY <1>1, <1>5, <2>2
  <2> QED
    BY <2>1, <2>2
<1>9. AcceptedIsReserved'
  <2> SUFFICES ASSUME NEW n \in WebhookMessages, acceptedTimes'[n] # 0
               PROVE  reservedTill'[n.event] >= n.signedAt - Skew + Retention
    BY DEF AcceptedIsReserved
  <2>1. n.event \in WebhookIds /\ n.signedAt \in Nat
    OBVIOUS
  <2>2. CASE n = m
    <3>1. reservedTill'[n.event] = a.at + Retention
      BY <1>1, <1>2, <2>2
    <3> QED
      BY <3>1, <2>2, <1>2, <1>4
  <2>3. CASE n # m
    <3>1. reservedTill[n.event] >= n.signedAt - Skew + Retention
      BY <1>1, <1>5, <2>3 DEF WebhookInv, AcceptedIsReserved
    <3>2. reservedTill'[n.event] \in Nat /\ reservedTill[n.event] \in Nat
      BY <1>5, <1>6, <2>1 DEF WebhookTypeOK
    <3> QED
      BY <3>1, <3>2, <2>1, <1>8
  <2> QED
    BY <2>2, <2>3
(* Had m been accepted before, its event would still be reserved.          *)
<1>10. acceptedTimes[m] = 0
  <2> SUFFICES ASSUME acceptedTimes[m] # 0 PROVE FALSE
    OBVIOUS
  <2>1. reservedTill[m.event] >= m.signedAt - Skew + Retention
    BY <1>2 DEF WebhookInv, AcceptedIsReserved
  <2> QED
    BY <2>1, <1>2, <1>3, <1>4, <1>5 DEF RetentionCoversDelay
<1>11. AcceptedOnce'
  BY <1>1, <1>2, <1>5, <1>10 DEF WebhookInv, AcceptedOnce
<1> QED
  BY <1>6, <1>7, <1>9, <1>11 DEF WebhookInv

LEMMA WebhookGoesOn ==
  ASSUME RetentionCoversDelay
  PROVE  WebhookInv /\ [WebhookNext]_webhookVars => WebhookInv'
<1> SUFFICES ASSUME WebhookInv, [WebhookNext]_webhookVars PROVE WebhookInv'
  OBVIOUS
<1> USE WebhookAssumption
<1>0. /\ clock \in Nat /\ acceptances \in [Acceptances -> DeliveriesOfWebhook \cup {NoDelivery}]
  BY DEF WebhookInv, WebhookTypeOK
<1>1. CASE UNCHANGED webhookVars
  BY <1>1 DEF WebhookInv, WebhookTypeOK, DeliveriesAreRecent, AcceptedIsReserved, AcceptedOnce,
              webhookVars
<1>k. ASSUME UNCHANGED <<reservedTill, acceptedTimes>>
      PROVE  AcceptedIsReserved' /\ AcceptedOnce'
  BY <1>k DEF WebhookInv, AcceptedIsReserved, AcceptedOnce
<1>2. CASE ClockAdvances
  <2>1. WebhookTypeOK'
    BY <1>2 DEF ClockAdvances, WebhookInv, WebhookTypeOK
  <2>2. DeliveriesAreRecent'
    <3> SUFFICES ASSUME NEW d \in Acceptances, acceptances[d] # NoDelivery
                 PROVE  /\ acceptances[d].at <= clock + 1 /\ clock + 1 <= acceptances[d].at + MaxDelay
                        /\ acceptances[d].at - acceptances[d].message.signedAt <= Skew
                        /\ acceptances[d].message.signedAt - acceptances[d].at <= Skew
      BY <1>2 DEF ClockAdvances, DeliveriesAreRecent
    <3>1. acceptances[d].at \in Nat
      BY <1>0 DEF DeliveriesOfWebhook
    <3>2. clock < acceptances[d].at + MaxDelay
      BY <1>2 DEF ClockAdvances
    <3>3. /\ acceptances[d].at <= clock
          /\ acceptances[d].at - acceptances[d].message.signedAt <= Skew
          /\ acceptances[d].message.signedAt - acceptances[d].at <= Skew
      BY DEF WebhookInv, DeliveriesAreRecent
    <3> QED
      BY <1>0, <3>1, <3>2, <3>3
  <2> QED
    BY <1>2, <1>k, <2>1, <2>2 DEF ClockAdvances, WebhookInv
<1>3. ASSUME NEW d \in Acceptances, RejectWebhook(d) PROVE WebhookInv'
  <2>1. WebhookTypeOK' /\ DeliveriesAreRecent'
    BY <1>0, <1>3 DEF RejectWebhook, WebhookInv, WebhookTypeOK, DeliveriesAreRecent
  <2> QED
    BY <1>3, <1>k, <2>1 DEF RejectWebhook, WebhookInv
<1>4. ASSUME NEW d \in Acceptances, AcceptWebhook(d) PROVE WebhookInv'
  BY <1>4, Accepting
<1>5. ASSUME NEW d \in Acceptances, NEW m \in WebhookMessages, ReceiveWebhook(d, m)
      PROVE  WebhookInv'
  <2>1. m.signedAt \in Nat /\ clock - m.signedAt <= Skew /\ m.signedAt - clock <= Skew
    BY <1>5 DEF ReceiveWebhook, IsRecent
  <2>2. /\ acceptances' = [acceptances EXCEPT ![d] = [at |-> clock, message |-> m]]
        /\ [at |-> clock, message |-> m] \in DeliveriesOfWebhook
        /\ clock' = clock
    BY <1>0, <1>5 DEF ReceiveWebhook, DeliveriesOfWebhook
  <2>3. WebhookTypeOK'
    BY <1>5, <2>2 DEF ReceiveWebhook, WebhookInv, WebhookTypeOK
  <2>4. DeliveriesAreRecent'
    BY <1>0, <2>1, <2>2 DEF WebhookInv, DeliveriesAreRecent
  <2> QED
    BY <1>5, <1>k, <2>3, <2>4 DEF ReceiveWebhook, WebhookInv
<1> QED
  BY <1>1, <1>2, <1>3, <1>4, <1>5 DEF WebhookNext

(* The types are kept whatever the store keeps.                            *)
LEMMA WebhooksStayTyped ==
  ASSUME WebhookTypeOK, [WebhookNext]_webhookVars
  PROVE  WebhookTypeOK'
<1> USE WebhookAssumption
<1>1. CASE UNCHANGED webhookVars
  BY <1>1 DEF WebhookTypeOK, webhookVars
<1>2. CASE ClockAdvances
  BY <1>2 DEF ClockAdvances, WebhookTypeOK
<1>3. ASSUME NEW d \in Acceptances, RejectWebhook(d) PROVE WebhookTypeOK'
  BY <1>3 DEF RejectWebhook, WebhookTypeOK
<1>4. ASSUME NEW d \in Acceptances, AcceptWebhook(d) PROVE WebhookTypeOK'
  <2>1. PICK a : a = acceptances[d]
    OBVIOUS
  <2>2. a \in DeliveriesOfWebhook
    BY <1>4, <2>1 DEF AcceptWebhook, WebhookTypeOK
  <2>3. a.at \in Nat /\ a.message \in WebhookMessages
    BY <2>2 DEF DeliveriesOfWebhook
  <2>4. /\ reservedTill' = [i \in WebhookIds |->
              IF i \in {a.message.event, a.message.nonce} THEN a.at + Retention ELSE reservedTill[i]]
        /\ acceptedTimes' = [acceptedTimes EXCEPT ![a.message] = @ + 1]
        /\ acceptances' = [acceptances EXCEPT ![d] = NoDelivery]
        /\ clock' = clock
    BY <1>4, <2>1 DEF AcceptWebhook
  <2> QED
    BY <2>3, <2>4 DEF WebhookTypeOK
<1>5. ASSUME NEW d \in Acceptances, NEW m \in WebhookMessages, ReceiveWebhook(d, m)
      PROVE  WebhookTypeOK'
  <2>1. [at |-> clock, message |-> m] \in DeliveriesOfWebhook
    BY DEF WebhookTypeOK, DeliveriesOfWebhook
  <2> QED
    BY <1>5, <2>1 DEF ReceiveWebhook, WebhookTypeOK
<1> QED
  BY <1>1, <1>2, <1>3, <1>4, <1>5 DEF WebhookNext

(* A webhook is accepted at most once by any number of deliveries and with *)
(* any clock, when the retention covers the window and the delay.          *)
THEOREM WebhooksAreAcceptedOnce ==
  ASSUME RetentionCoversDelay
  PROVE  WebhookSpec => []AcceptedOnce
<1>1. WebhookInv => AcceptedOnce
  BY DEF WebhookInv
<1> QED
  BY <1>1, WebhookStarts, WebhookGoesOn, PTL DEF WebhookSpec

-----------------------------------------------------------------------------
(* The gateway of model calls.                                             *)

(* What an invocation has spent is told by the place it has come to.       *)
SpentByPlace ==
  \A o \in AiOperations :
    /\ invocation[o].at \in {"none", "authorize", "reserve"} => reserved[o] = 0 /\ invoked[o] = 0
    /\ invocation[o].at = "adapter" => reserved[o] = 1 /\ invoked[o] = 0
    /\ invocation[o].at \in {"record", "succeeded"} => reserved[o] = 1 /\ invoked[o] = 1
    /\ invocation[o].at \in {"recordFailure", "failed"} =>
         reserved[o] <= 1 /\ invoked[o] <= reserved[o]

(* Every answer is the outcome the operation has come to, of its input.    *)
AnswersAreOutcomes ==
  \A t \in toldAi : /\ invocation[t[1]].at \in Outcomes
                    /\ t[2] = invocation[t[1]].input /\ t[3] = invocation[t[1]].at

(* There are proposals of invocations that succeeded, and those are on     *)
(* record; what is confirmed, and what is being confirmed, is one of them. *)
ProposalsSucceeded ==
  /\ \A o \in AiOperations : proposals[o] # "none" => invocation[o].at = "succeeded"
  /\ \A o \in AiOperations : invocation[o].at = "succeeded" => "proposal_created" \in callRecords[o]
  /\ \A c \in Confirmations : confirming[c] # NotConfirming => proposals[confirming[c].of] # "none"
  /\ \A t \in decided : proposals[t[2]] # "none"

(* What was decided under a confirmation id is what its entry still holds. *)
DecidedIsHeld == \A t \in decided : confirming[t[1]] = [of |-> t[2], decision |-> t[3]]

AiInv == AiTypeOK /\ SpentByPlace /\ AnswersAreOutcomes /\ ProposalsSucceeded /\ DecidedIsHeld

LEMMA AiStarts == AiInit => AiInv
  BY DEF AiInit, AiInv, AiTypeOK, SpentByPlace, AnswersAreOutcomes, ProposalsSucceeded,
         DecidedIsHeld, Executions

(* A step of the invocation of one operation that has no outcome yet.      *)
LEMMA Invoking ==
  ASSUME AiInv, NEW o \in AiOperations, NEW from \in Executions \ Outcomes,
         NEW e \in [input : AiInputs \cup {NoInput}, at : Executions \ {"none"}],
         invocation[o].at = from, invocation' = [invocation EXCEPT ![o] = e],
         reserved' \in [AiOperations -> Nat], invoked' \in [AiOperations -> Nat],
         callRecords' \in [AiOperations -> SUBSET {"proposal_created", "failed"}],
         \A p \in AiOperations : callRecords[p] \subseteq callRecords'[p],
         \A p \in AiOperations \ {o} : reserved'[p] = reserved[p] /\ invoked'[p] = invoked[p],
         \/ e.at \in {"authorize", "reserve"} /\ reserved'[o] = 0 /\ invoked'[o] = 0
         \/ e.at = "adapter" /\ reserved'[o] = 1 /\ invoked'[o] = 0
         \/ e.at = "record" /\ reserved'[o] = 1 /\ invoked'[o] = 1
         \/ e.at = "succeeded" /\ reserved'[o] = 1 /\ invoked'[o] = 1
              /\ "proposal_created" \in callRecords'[o]
         \/ e.at \in {"recordFailure", "failed"} /\ reserved'[o] <= 1 /\ invoked'[o] <= reserved'[o],
         \/ UNCHANGED proposals
         \/ e.at = "succeeded" /\ proposals' = [proposals EXCEPT ![o] = "open"],
         UNCHANGED <<confirming, decided, toldAi>>
  PROVE  AiInv'
<1>0. /\ invocation \in [AiOperations -> [input : AiInputs \cup {NoInput}, at : Executions]]
      /\ proposals \in [AiOperations -> {"none", "open", "expired"}]
      /\ invocation'[o] = e /\ \A p \in AiOperations \ {o} : invocation'[p] = invocation[p]
      /\ invocation[o].at \notin Outcomes /\ invocation[o].at # "succeeded"
  BY DEF AiInv, AiTypeOK, Outcomes
<1>1. AiTypeOK'
  BY <1>0 DEF AiInv, AiTypeOK, Executions
<1>2. SpentByPlace'
  BY <1>0 DEF AiInv, SpentByPlace
<1>3. AnswersAreOutcomes'
  <2>1. \A t \in toldAi : t[1] \in AiOperations /\ t[1] # o
    BY <1>0 DEF AiInv, AiTypeOK, AnswersAreOutcomes
  <2> QED
    BY <1>0, <2>1 DEF AiInv, AnswersAreOutcomes
<1>4. \A p \in AiOperations : proposals[p] # "none" => proposals'[p] # "none"
  BY <1>0
<1>5. ProposalsSucceeded'
  <2>1. \A p \in AiOperations : proposals'[p] # "none" => invocation'[p].at = "succeeded"
    BY <1>0 DEF AiInv, ProposalsSucceeded
  <2>2. \A p \in AiOperations :
          invocation'[p].at = "succeeded" => "proposal_created" \in callRecords'[p]
    BY <1>0 DEF AiInv, ProposalsSucceeded
  <2>3. \A c \in Confirmations :
          confirming[c] # NotConfirming => confirming[c].of \in AiOperations
    BY DEF AiInv, AiTypeOK
  <2>4. \A t \in decided : t[2] \in AiOperations
    BY DEF AiInv, AiTypeOK
  <2> QED
    BY <1>4, <2>1, <2>2, <2>3, <2>4 DEF AiInv, ProposalsSucceeded
<1>6. DecidedIsHeld'
  BY DEF AiInv, DecidedIsHeld
<1> QED
  BY <1>1, <1>2, <1>3, <1>5, <1>6 DEF AiInv

LEMMA AiGoesOn == AiInv /\ [AiNext]_aiVars => AiInv'
<1> SUFFICES ASSUME AiInv, [AiNext]_aiVars PROVE AiInv'
  OBVIOUS
<1>0. /\ invocation \in [AiOperations -> [input : AiInputs \cup {NoInput}, at : Executions]]
      /\ reserved \in [AiOperations -> Nat] /\ invoked \in [AiOperations -> Nat]
      /\ callRecords \in [AiOperations -> SUBSET {"proposal_created", "failed"}]
      /\ proposals \in [AiOperations -> {"none", "open", "expired"}]
      /\ confirming \in [Confirmations ->
           [of : AiOperations, decision : Decisions] \cup {NotConfirming}]
      /\ decided \subseteq (Confirmations \X AiOperations \X Decisions)
      /\ SpentByPlace
  BY DEF AiInv, AiTypeOK
<1>1. CASE UNCHANGED aiVars
  BY <1>1 DEF AiInv, AiTypeOK, SpentByPlace, AnswersAreOutcomes, ProposalsSucceeded, DecidedIsHeld,
              aiVars
(* A move of the invocation keeps what was asked.                          *)
<1>m. ASSUME NEW o \in AiOperations, NEW from \in Executions, NEW to \in Executions \ {"none"},
             Executes(o, from, to)
      PROVE  \E e \in [input : AiInputs \cup {NoInput}, at : Executions \ {"none"}] :
               /\ e.at = to /\ invocation[o].at = from /\ invocation' = [invocation EXCEPT ![o] = e]
  <2>1. [invocation[o] EXCEPT !.at = to] \in
          [input : AiInputs \cup {NoInput}, at : Executions \ {"none"}]
    BY <1>0, <1>m
  <2>2. /\ [invocation[o] EXCEPT !.at = to].at = to /\ invocation[o].at = from
        /\ invocation' = [invocation EXCEPT ![o] = [invocation[o] EXCEPT !.at = to]]
    BY <1>0, <1>m DEF Executes
  <2> QED
    BY <2>1, <2>2
<1>2. ASSUME NEW o \in AiOperations, NEW i \in AiInputs, Invoke(o, i) PROVE AiInv'
  <2> DEFINE e == [input |-> i, at |-> "authorize"]
  <2>1. e \in [input : AiInputs \cup {NoInput}, at : Executions \ {"none"}] /\ e.at = "authorize"
    BY DEF Executions
  <2> HIDE DEF e
  <2>2. /\ invocation[o].at = "none" /\ "none" \in Executions \ Outcomes
        /\ invocation' = [invocation EXCEPT ![o] = e]
        /\ UNCHANGED <<reserved, invoked, callRecords, proposals, confirming, decided, toldAi>>
    BY <1>2 DEF Invoke, FreshOperation, e, Executions, Outcomes
  <2>3. reserved[o] = 0 /\ invoked[o] = 0
    BY <1>0, <2>2 DEF SpentByPlace
  <2> QED
    BY <1>0, <2>1, <2>2, <2>3, Invoking
<1>3. ASSUME NEW o \in AiOperations, Authorized(o) PROVE AiInv'
  <2>1. PICK e \in [input : AiInputs \cup {NoInput}, at : Executions \ {"none"}] :
          e.at = "reserve" /\ invocation[o].at = "authorize" /\ invocation' = [invocation EXCEPT ![o] = e]
    BY <1>3, <1>m DEF Authorized, Executions
  <2>2. reserved[o] = 0 /\ invoked[o] = 0 /\ "authorize" \in Executions \ Outcomes
    BY <1>0, <2>1 DEF SpentByPlace, Executions, Outcomes
  <2> QED
    BY <1>0, <1>3, <2>1, <2>2, Invoking DEF Authorized
<1>4. ASSUME NEW o \in AiOperations, Reserve(o) PROVE AiInv'
  <2>1. PICK e \in [input : AiInputs \cup {NoInput}, at : Executions \ {"none"}] :
          e.at = "adapter" /\ invocation[o].at = "reserve" /\ invocation' = [invocation EXCEPT ![o] = e]
    BY <1>4, <1>m DEF Reserve, Executions
  <2>2. reserved[o] = 0 /\ invoked[o] = 0 /\ "reserve" \in Executions \ Outcomes
    BY <1>0, <2>1 DEF SpentByPlace, Executions, Outcomes
  <2>3. /\ reserved' \in [AiOperations -> Nat] /\ reserved'[o] = 1
        /\ \A p \in AiOperations \ {o} : reserved'[p] = reserved[p]
    BY <1>0, <1>4, <2>2 DEF Reserve
  <2> QED
    BY <1>0, <1>4, <2>1, <2>2, <2>3, Invoking DEF Reserve
<1>5. ASSUME NEW o \in AiOperations, AdapterInvoked(o) PROVE AiInv'
  <2>1. PICK e \in [input : AiInputs \cup {NoInput}, at : Executions \ {"none"}] :
          e.at = "record" /\ invocation[o].at = "adapter" /\ invocation' = [invocation EXCEPT ![o] = e]
    BY <1>5, <1>m DEF AdapterInvoked, Executions
  <2>2. reserved[o] = 1 /\ invoked[o] = 0 /\ "adapter" \in Executions \ Outcomes
    BY <1>0, <2>1 DEF SpentByPlace, Executions, Outcomes
  <2>3. /\ invoked' \in [AiOperations -> Nat] /\ invoked'[o] = 1
        /\ \A p \in AiOperations \ {o} : invoked'[p] = invoked[p]
    BY <1>0, <1>5, <2>2 DEF AdapterInvoked
  <2> QED
    BY <1>0, <1>5, <2>1, <2>2, <2>3, Invoking DEF AdapterInvoked
<1>6. ASSUME NEW o \in AiOperations, InvocationFails(o) PROVE AiInv'
  <2>1. PICK from \in {"authorize", "reserve", "adapter"} : Executes(o, from, "recordFailure")
    BY <1>6 DEF InvocationFails
  <2>2. PICK e \in [input : AiInputs \cup {NoInput}, at : Executions \ {"none"}] :
          /\ e.at = "recordFailure" /\ invocation[o].at = from
          /\ invocation' = [invocation EXCEPT ![o] = e]
    BY <2>1, <1>m DEF Executions
  <2>3. from \in Executions \ Outcomes
    BY DEF Executions, Outcomes
  <2>4. /\ reserved' \in [AiOperations -> Nat] /\ invoked' \in [AiOperations -> Nat]
        /\ reserved'[o] <= 1 /\ invoked'[o] <= reserved'[o]
        /\ \A p \in AiOperations \ {o} : reserved'[p] = reserved[p] /\ invoked'[p] = invoked[p]
    <3>1. CASE from = "authorize"
      <4>1. UNCHANGED <<reserved, invoked>> /\ reserved[o] = 0 /\ invoked[o] = 0
        BY <1>0, <1>6, <2>2, <3>1 DEF InvocationFails, Executes, SpentByPlace
      <4> QED
        BY <1>0, <4>1
    <3>2. CASE from = "reserve"
      <4>1. /\ UNCHANGED invoked /\ reserved[o] = 0 /\ invoked[o] = 0
            /\ \E n \in 0 .. 1 : reserved' = [reserved EXCEPT ![o] = @ + n]
        BY <1>0, <1>6, <2>2, <3>2 DEF InvocationFails, Executes, SpentByPlace
      <4> QED
        BY <1>0, <4>1
    <3>3. CASE from = "adapter"
      <4>1. /\ UNCHANGED reserved /\ reserved[o] = 1 /\ invoked[o] = 0
            /\ invoked' = [invoked EXCEPT ![o] = @ + 1]
        BY <1>0, <1>6, <2>2, <3>3 DEF InvocationFails, Executes, SpentByPlace
      <4> QED
        BY <1>0, <4>1
    <3> QED
      BY <3>1, <3>2, <3>3
  <2> QED
    BY <1>0, <1>6, <2>2, <2>3, <2>4, Invoking DEF InvocationFails
<1>7. ASSUME NEW o \in AiOperations, RecordCall(o) PROVE AiInv'
  <2>1. PICK e \in [input : AiInputs \cup {NoInput}, at : Executions \ {"none"}] :
          e.at = "succeeded" /\ invocation[o].at = "record" /\ invocation' = [invocation EXCEPT ![o] = e]
    BY <1>7, <1>m DEF RecordCall, Executions
  <2>2. reserved[o] = 1 /\ invoked[o] = 1 /\ "record" \in Executions \ Outcomes
    BY <1>0, <2>1 DEF SpentByPlace, Executions, Outcomes
  <2>3. /\ callRecords' \in [AiOperations -> SUBSET {"proposal_created", "failed"}]
        /\ \A p \in AiOperations : callRecords[p] \subseteq callRecords'[p]
        /\ "proposal_created" \in callRecords'[o]
    BY <1>0, <1>7 DEF RecordCall
  <2> QED
    BY <1>0, <1>7, <2>1, <2>2, <2>3, Invoking DEF RecordCall
<1>8. ASSUME NEW o \in AiOperations, RecordCallFails(o) PROVE AiInv'
  <2>1. PICK e \in [input : AiInputs \cup {NoInput}, at : Executions \ {"none"}] :
          /\ e.at = "recordFailure" /\ invocation[o].at = "record"
          /\ invocation' = [invocation EXCEPT ![o] = e]
    BY <1>8, <1>m DEF RecordCallFails, Executions
  <2>2. reserved[o] = 1 /\ invoked[o] = 1 /\ "record" \in Executions \ Outcomes
    BY <1>0, <2>1 DEF SpentByPlace, Executions, Outcomes
  <2>3. /\ callRecords' \in [AiOperations -> SUBSET {"proposal_created", "failed"}]
        /\ \A p \in AiOperations : callRecords[p] \subseteq callRecords'[p]
    BY <1>0, <1>8 DEF RecordCallFails
  <2>4. UNCHANGED <<reserved, invoked, proposals, confirming, decided, toldAi>>
    BY <1>8 DEF RecordCallFails
  <2>5. /\ reserved' \in [AiOperations -> Nat] /\ invoked' \in [AiOperations -> Nat]
        /\ reserved'[o] <= 1 /\ invoked'[o] <= reserved'[o]
        /\ \A p \in AiOperations \ {o} : reserved'[p] = reserved[p] /\ invoked'[p] = invoked[p]
    BY <1>0, <2>2, <2>4
  <2> QED
    BY <2>1, <2>2, <2>3, <2>4, <2>5, Invoking
<1>9. ASSUME NEW o \in AiOperations, RecordFailedCall(o) PROVE AiInv'
  <2>1. PICK e \in [input : AiInputs \cup {NoInput}, at : Executions \ {"none"}] :
          /\ e.at = "failed" /\ invocation[o].at = "recordFailure"
          /\ invocation' = [invocation EXCEPT ![o] = e]
    BY <1>9, <1>m DEF RecordFailedCall, Executions
  <2>2. reserved[o] <= 1 /\ invoked[o] <= reserved[o] /\ "recordFailure" \in Executions \ Outcomes
    BY <1>0, <2>1 DEF SpentByPlace, Executions, Outcomes
  <2>3. /\ callRecords' \in [AiOperations -> SUBSET {"proposal_created", "failed"}]
        /\ \A p \in AiOperations : callRecords[p] \subseteq callRecords'[p]
    BY <1>0, <1>9 DEF RecordFailedCall
  <2> QED
    BY <1>0, <1>9, <2>1, <2>2, <2>3, Invoking DEF RecordFailedCall
<1>10. ASSUME NEW o \in AiOperations, NEW i \in AiInputs, AnswerInvocation(o, i) PROVE AiInv'
  <2>1. /\ invocation[o].at \in Outcomes /\ invocation[o].input = i
        /\ toldAi' = toldAi \cup {<<o, i, invocation[o].at>>}
        /\ UNCHANGED <<invocation, reserved, invoked, callRecords, proposals, confirming, decided>>
    BY <1>10 DEF AnswerInvocation
  <2>2. AiTypeOK' /\ AnswersAreOutcomes'
    BY <2>1 DEF AiInv, AiTypeOK, AnswersAreOutcomes
  <2> QED
    BY <2>1, <2>2 DEF AiInv, SpentByPlace, ProposalsSucceeded, DecidedIsHeld
<1>11. ASSUME NEW o \in AiOperations, Expires(o) PROVE AiInv'
  <2>1. /\ proposals[o] = "open" /\ proposals' = [proposals EXCEPT ![o] = "expired"]
        /\ UNCHANGED <<invocation, reserved, invoked, callRecords, confirming, decided, toldAi>>
    BY <1>11 DEF Expires
  <2>2. /\ proposals' \in [AiOperations -> {"none", "open", "expired"}]
        /\ \A p \in AiOperations : proposals'[p] # "none" <=> proposals[p] # "none"
    BY <1>0, <2>1
  <2>3. AiTypeOK' /\ SpentByPlace' /\ AnswersAreOutcomes' /\ DecidedIsHeld'
    BY <2>1, <2>2 DEF AiInv, AiTypeOK, SpentByPlace, AnswersAreOutcomes, DecidedIsHeld
  <2>4. ProposalsSucceeded'
    <3>1. \A c \in Confirmations :
            confirming[c] # NotConfirming => confirming[c].of \in AiOperations
      BY <1>0
    <3>2. \A t \in decided : t[2] \in AiOperations
      BY <1>0
    <3> QED
      BY <2>1, <2>2, <3>1, <3>2 DEF AiInv, ProposalsSucceeded
  <2> QED
    BY <2>3, <2>4 DEF AiInv
<1>12. ASSUME NEW c \in Confirmations, NEW o \in AiOperations, NEW d \in Decisions, Confirm(c, o, d)
       PROVE  AiInv'
  <2>1. /\ confirming[c] = NotConfirming /\ proposals[o] # "none"
        /\ confirming' = [confirming EXCEPT ![c] = [of |-> o, decision |-> d]]
        /\ UNCHANGED <<invocation, reserved, invoked, callRecords, proposals, decided, toldAi>>
    BY <1>12 DEF Confirm, Unconfirmed
  <2>2. AiTypeOK' /\ SpentByPlace' /\ AnswersAreOutcomes'
    BY <2>1 DEF AiInv, AiTypeOK, SpentByPlace, AnswersAreOutcomes
  <2>3. ProposalsSucceeded'
    BY <1>0, <2>1 DEF AiInv, ProposalsSucceeded
  <2>4. \A t \in decided : t[1] \in Confirmations /\ t[1] # c
    <3> SUFFICES ASSUME NEW t \in decided PROVE t[1] \in Confirmations /\ t[1] # c
      OBVIOUS
    <3>1. t[1] \in Confirmations /\ t[3] \in Decisions
      BY <1>0
    <3>2. confirming[t[1]] = [of |-> t[2], decision |-> t[3]]
      BY DEF AiInv, DecidedIsHeld
    <3>3. confirming[t[1]].decision # NotConfirming.decision
      BY <3>1, <3>2, AiGatewayAssumption DEF NotConfirming
    <3> QED
      BY <2>1, <3>1, <3>3
  <2>5. DecidedIsHeld'
    BY <1>0, <2>1, <2>4 DEF AiInv, DecidedIsHeld
  <2> QED
    BY <2>2, <2>3, <2>5 DEF AiInv
<1>13. ASSUME NEW c \in Confirmations, ConfirmSucceeds(c) PROVE AiInv'
  <2>1. /\ confirming[c] # NotConfirming
        /\ decided' = decided \cup {<<c, confirming[c].of, confirming[c].decision>>}
        /\ UNCHANGED <<invocation, reserved, invoked, callRecords, proposals, confirming, toldAi>>
    BY <1>13 DEF ConfirmSucceeds, Unconfirmed
  <2>2. confirming[c] \in [of : AiOperations, decision : Decisions]
    BY <1>0, <2>1
  <2>3. AiTypeOK' /\ SpentByPlace' /\ AnswersAreOutcomes'
    BY <2>1, <2>2 DEF AiInv, AiTypeOK, SpentByPlace, AnswersAreOutcomes
  <2>4. ProposalsSucceeded' /\ DecidedIsHeld'
    BY <2>1, <2>2 DEF AiInv, ProposalsSucceeded, DecidedIsHeld
  <2> QED
    BY <2>3, <2>4 DEF AiInv
<1>14. ASSUME NEW c \in Confirmations, ConfirmFails(c) PROVE AiInv'
  <2>1. /\ \A t \in decided : t[1] # c
        /\ confirming' = [confirming EXCEPT ![c] = NotConfirming]
        /\ UNCHANGED <<invocation, reserved, invoked, callRecords, proposals, decided, toldAi>>
    BY <1>14 DEF ConfirmFails
  <2>2. AiTypeOK' /\ SpentByPlace' /\ AnswersAreOutcomes'
    BY <2>1 DEF AiInv, AiTypeOK, SpentByPlace, AnswersAreOutcomes
  <2>3. ProposalsSucceeded' /\ DecidedIsHeld'
    BY <1>0, <2>1 DEF AiInv, ProposalsSucceeded, DecidedIsHeld
  <2> QED
    BY <2>2, <2>3 DEF AiInv
<1> QED
  BY <1>1, <1>2, <1>3, <1>4, <1>5, <1>6, <1>7, <1>8, <1>9, <1>10, <1>11, <1>12, <1>13, <1>14
     DEF AiNext

(* What the invariant says to the callers of the gateway.                  *)
LEMMA AiMeans == AiInv => CalledOnce /\ ConfirmedIsRecorded /\ OneDecisionPerConfirmation
<1> SUFFICES ASSUME AiInv PROVE CalledOnce /\ ConfirmedIsRecorded /\ OneDecisionPerConfirmation
  OBVIOUS
<1>1. /\ invocation \in [AiOperations -> [input : AiInputs \cup {NoInput}, at : Executions]]
      /\ reserved \in [AiOperations -> Nat] /\ invoked \in [AiOperations -> Nat]
      /\ decided \subseteq (Confirmations \X AiOperations \X Decisions)
      /\ toldAi \subseteq (AiOperations \X AiInputs \X Outcomes)
  BY DEF AiInv, AiTypeOK
<1>2. \A o \in AiOperations : reserved[o] <= 1 /\ invoked[o] <= 1 /\ invoked[o] <= reserved[o]
  BY <1>1 DEF AiInv, SpentByPlace, Executions
<1>3. \A s, t \in toldAi : s[1] = t[1] => s = t
  <2> SUFFICES ASSUME NEW s \in toldAi, NEW t \in toldAi, s[1] = t[1] PROVE s = t
    OBVIOUS
  <2>1. s[2] = t[2] /\ s[3] = t[3]
    BY DEF AiInv, AnswersAreOutcomes
  <2>2. s = <<s[1], s[2], s[3]>> /\ t = <<t[1], t[2], t[3]>>
    BY <1>1
  <2> QED
    BY <2>1, <2>2
<1>4. ConfirmedIsRecorded
  <2> SUFFICES ASSUME NEW o \in AiOperations,
                      proposals[o] # "none" \/ (\E t \in decided : t[2] = o)
               PROVE  /\ "proposal_created" \in callRecords[o]
                      /\ \A t \in toldAi : t[1] = o => t[3] = "succeeded"
    BY DEF ConfirmedIsRecorded
  <2>1. proposals[o] # "none"
    BY DEF AiInv, ProposalsSucceeded
  <2>2. invocation[o].at = "succeeded"
    BY <2>1 DEF AiInv, ProposalsSucceeded
  <2> QED
    BY <2>2 DEF AiInv, ProposalsSucceeded, AnswersAreOutcomes
<1>5. OneDecisionPerConfirmation
  <2> SUFFICES ASSUME NEW s \in decided, NEW t \in decided, s[1] = t[1] PROVE s = t
    BY DEF OneDecisionPerConfirmation
  <2>1. [of |-> s[2], decision |-> s[3]] = [of |-> t[2], decision |-> t[3]]
    BY DEF AiInv, DecidedIsHeld
  <2>2. s[2] = t[2] /\ s[3] = t[3]
    BY <2>1
  <2>3. s = <<s[1], s[2], s[3]>> /\ t = <<t[1], t[2], t[3]>>
    BY <1>1
  <2> QED
    BY <2>2, <2>3
<1> QED
  BY <1>2, <1>3, <1>4, <1>5 DEF CalledOnce

(* The gateway, for any number of operations, inputs and confirmations: an *)
(* operation spends and calls once and has one outcome, and what can be    *)
(* confirmed is on record; a confirmation id stands for one decision.      *)
THEOREM ModelIsCalledOnce ==
  AiSpec => [](CalledOnce /\ ConfirmedIsRecorded /\ OneDecisionPerConfirmation)
  BY AiMeans, AiStarts, AiGoesOn, PTL DEF AiSpec

-----------------------------------------------------------------------------
(* Commands to the workflow engine.                                        *)

(* The request that does a command with the engine, for all that share it. *)
Leads(r) == workflowCalls[r].step \in {"reading", "writing", "confirming", "returning"}

(* An entry of the ledger is absent, or of a command with its key.         *)
EntriesAreKeyed ==
  \A k \in WorkflowKeys : \/ ledger[k] = NoEntry
                          \/ /\ ledger[k].status # "absent" /\ ledger[k].command \in WorkflowCommands
                             /\ ledger[k].command.key = k

(* A request that waits for an outcome finds its command running in the    *)
(* ledger, and one that publishes carries the outcome the ledger holds.    *)
CallsFollowLedger ==
  \A r \in WorkflowRequests : workflowCalls[r].step # "rest" =>
    LET call == workflowCalls[r]
        e == ledger[call.command.key]
    IN  /\ call.command \in WorkflowCommands /\ e.command = call.command
        /\ call.step # "publishing" => e.status = "running"
        /\ call.step = "publishing" =>
             e.status = "completed" /\ e.value = call.value /\ e.revision = call.revision

(* One request does a command, and has written it if it is past writing.   *)
LeadersAreAlone ==
  \A r \in WorkflowRequests : Leads(r) =>
    /\ writes[workflowCalls[r].command] =
         IF workflowCalls[r].step \in {"confirming", "returning"} THEN 1 ELSE 0
    /\ \A q \in WorkflowRequests :
         Leads(q) /\ workflowCalls[q].command = workflowCalls[r].command => q = r

(* What the ledger says of a command bounds what the engine took of it.    *)
WritesAreOnLedger ==
  \A c \in WorkflowCommands :
    /\ ledger[c.key].command # c => writes[c] = 0 /\ c \notin unanswered
    /\ ledger[c.key].command = c =>
         /\ writes[c] <= 1
         /\ ledger[c.key].status = "completed" => writes[c] = 1
         /\ c \in unanswered => ledger[c.key].status = "reconciliation_required" /\ writes[c] = 0

(* The revisions of completed commands on the task were allotted once.     *)
RevisionsAreApart ==
  \A k \in WorkflowKeys : ledger[k].status = "completed" =>
    /\ ~OfTask(ledger[k].command) => ledger[k].revision = 0
    /\ OfTask(ledger[k].command) =>
         /\ ledger[k].revision \in 1 .. taskRevision
         /\ \A l \in WorkflowKeys :
              ledger[l].status = "completed" /\ ledger[l].revision = ledger[k].revision => l = k

(* A published fact is what the ledger holds as completed under its key.   *)
FactsAreOnLedger ==
  \A k \in WorkflowKeys : facts[k] # NoFact =>
    /\ ledger[k].status = "completed" /\ ledger[k].command = facts[k].command
    /\ ledger[k].value = facts[k].value /\ ledger[k].revision = facts[k].revision

WorkflowInv ==
  /\ WorkflowTypeOK /\ EntriesAreKeyed /\ CallsFollowLedger /\ LeadersAreAlone /\ WritesAreOnLedger
  /\ RevisionsAreApart /\ FactsAreOnLedger

EntriesOfWorkflow ==
  [status : {"absent", "running", "completed", "reconciliation_required"},
   command : WorkflowCommands \cup {NoCommandOfWorkflow}, value : TaskStates, revision : Nat]
CallsOfWorkflow ==
  [step : {"rest", "reading", "writing", "confirming", "returning", "waiting", "publishing"},
   command : WorkflowCommands \cup {NoCommandOfWorkflow}, value : TaskStates, revision : Nat]

(* The facts about types that every step needs.                            *)
LEMMA WorkflowTypes ==
  ASSUME WorkflowTypeOK
  PROVE  /\ \A c \in WorkflowCommands : c.key \in WorkflowKeys /\ c # NoCommandOfWorkflow
         /\ engineTask \in TaskStates /\ taskRevision \in Nat
         /\ writes \in [WorkflowCommands -> Nat] /\ unanswered \subseteq WorkflowCommands
         /\ ledger \in [WorkflowKeys -> EntriesOfWorkflow]
         /\ workflowCalls \in [WorkflowRequests -> CallsOfWorkflow]
<1>1. ASSUME NEW c \in WorkflowCommands PROVE c.key \in WorkflowKeys /\ c # NoCommandOfWorkflow
  <2>1. c \in CommandsOfWorkflow
    BY WorkflowAssumption
  <2>2. c.kind # NoCommandOfWorkflow.kind
    BY <2>1 DEF CommandsOfWorkflow, WorkflowKinds, NoCommandOfWorkflow
  <2> QED
    BY <2>1, <2>2 DEF CommandsOfWorkflow
<1> QED
  BY <1>1 DEF WorkflowTypeOK, EntriesOfWorkflow, CallsOfWorkflow

LEMMA WorkflowTyping ==
  ASSUME WorkflowTypeOK, engineTask' \in TaskStates, taskRevision' \in Nat,
         writes' \in [WorkflowCommands -> Nat], unanswered' \subseteq WorkflowCommands,
         ledger' \in [WorkflowKeys -> EntriesOfWorkflow], UNCHANGED facts,
         workflowCalls' \in [WorkflowRequests -> CallsOfWorkflow]
  PROVE  WorkflowTypeOK'
  BY DEF WorkflowTypeOK, EntriesOfWorkflow, CallsOfWorkflow

LEMMA WorkflowStarts == WorkflowInit => WorkflowInv
<1> SUFFICES ASSUME WorkflowInit PROVE WorkflowInv
  OBVIOUS
<1>1. NewTask \in TaskStates
  BY DEF NewTask, TaskStates
<1>2. /\ NoEntry \in EntriesOfWorkflow /\ AtRest \in CallsOfWorkflow
      /\ NoFact \in [command : WorkflowCommands \cup {NoCommandOfWorkflow},
                     value : TaskStates, revision : Nat]
  BY <1>1 DEF NoEntry, NoFact, AtRest, EntriesOfWorkflow, CallsOfWorkflow
<1>3. WorkflowTypeOK
  BY <1>1, <1>2 DEF WorkflowInit, WorkflowTypeOK, EntriesOfWorkflow, CallsOfWorkflow
<1>4. /\ \A k \in WorkflowKeys : ledger[k] = NoEntry /\ ledger[k].status = "absent"
                                 /\ ledger[k].command = NoCommandOfWorkflow /\ facts[k] = NoFact
      /\ \A r \in WorkflowRequests : workflowCalls[r].step = "rest"
      /\ \A c \in WorkflowCommands : writes[c] = 0 /\ c \notin unanswered
  BY DEF WorkflowInit, NoEntry, AtRest
<1>5. /\ EntriesAreKeyed /\ CallsFollowLedger /\ LeadersAreAlone /\ RevisionsAreApart
      /\ FactsAreOnLedger
  BY <1>4 DEF EntriesAreKeyed, CallsFollowLedger, LeadersAreAlone, RevisionsAreApart,
              FactsAreOnLedger, Leads
<1>6. WritesAreOnLedger
  BY <1>3, <1>4, WorkflowTypes DEF WritesAreOnLedger
<1> QED
  BY <1>3, <1>5, <1>6 DEF WorkflowInv

(* What was completed stays so, whatever becomes of the other entries.     *)
LEMMA OutcomesStay ==
  ASSUME WorkflowInv, NEW k \in WorkflowKeys, ledger[k].status # "completed",
         ledger' \in [WorkflowKeys -> EntriesOfWorkflow], ledger'[k].status # "completed",
         \A l \in WorkflowKeys \ {k} : ledger'[l] = ledger[l],
         UNCHANGED <<taskRevision, facts>>
  PROVE  RevisionsAreApart' /\ FactsAreOnLedger'
<1>1. \A l \in WorkflowKeys : ledger'[l].status = "completed" => ledger'[l] = ledger[l]
  OBVIOUS
<1>2. \A l \in WorkflowKeys : ledger[l].status = "completed" => ledger'[l] = ledger[l]
  OBVIOUS
<1>3. RevisionsAreApart'
  BY <1>1 DEF WorkflowInv, RevisionsAreApart
<1>4. FactsAreOnLedger'
  BY <1>2 DEF WorkflowInv, FactsAreOnLedger
<1> QED
  BY <1>3, <1>4

(* A running command ends for all that share it: the ledger forgets it, or *)
(* keeps it as one whose outcome is unknown.                               *)
LEMMA Ending ==
  ASSUME WorkflowInv, NEW c \in WorkflowCommands,
         ledger[c.key].command = c, ledger[c.key].status = "running", EndAll(c),
         NEW e \in EntriesOfWorkflow, ledger' = [ledger EXCEPT ![c.key] = e],
         \/ e = NoEntry /\ writes[c] = 0 /\ unanswered' = unanswered
         \/ /\ e.status = "reconciliation_required" /\ e.command = c
            /\ \/ unanswered' = unanswered
               \/ unanswered' = unanswered \cup {c} /\ writes[c] = 0,
         UNCHANGED <<engineTask, writes, taskRevision, facts>>
  PROVE  WorkflowInv'
<1>0. WorkflowTypeOK
  BY DEF WorkflowInv
<1>1. /\ c.key \in WorkflowKeys /\ c # NoCommandOfWorkflow
      /\ ledger \in [WorkflowKeys -> EntriesOfWorkflow]
      /\ workflowCalls \in [WorkflowRequests -> CallsOfWorkflow]
      /\ unanswered \subseteq WorkflowCommands
      /\ \A d \in WorkflowCommands : d.key \in WorkflowKeys
  BY <1>0, WorkflowTypes
<1>2. /\ ledger' \in [WorkflowKeys -> EntriesOfWorkflow] /\ ledger'[c.key] = e
      /\ \A l \in WorkflowKeys \ {c.key} : ledger'[l] = ledger[l]
  BY <1>1
<1>3. AtRest.step = "rest" /\ NoEntry.status = "absent" /\ NoEntry.command = NoCommandOfWorkflow
  BY DEF AtRest, NoEntry
<1>4. /\ workflowCalls' \in [WorkflowRequests -> CallsOfWorkflow]
      /\ \A q \in WorkflowRequests : \/ workflowCalls'[q] = AtRest
                                     \/ workflowCalls'[q] = workflowCalls[q] /\ q \notin Sharing(c)
  <2>1. NewTask \in TaskStates
    BY DEF NewTask, TaskStates
  <2>2. AtRest \in CallsOfWorkflow
    BY <2>1 DEF AtRest, CallsOfWorkflow
  <2> QED
    BY <1>1, <2>2 DEF EndAll
<1>5. WorkflowTypeOK'
  <2>1. unanswered' \subseteq WorkflowCommands
    BY <1>1
  <2> QED
    BY <1>0, <1>2, <1>4, <2>1, WorkflowTypes, WorkflowTyping
(* Whoever goes on has another key.                                        *)
<1>6. ASSUME NEW q \in WorkflowRequests, workflowCalls'[q].step # "rest"
      PROVE  /\ workflowCalls'[q] = workflowCalls[q] /\ workflowCalls[q].command \in WorkflowCommands
             /\ workflowCalls[q].command.key # c.key /\ workflowCalls[q].command # c
  <2>1. workflowCalls'[q] = workflowCalls[q] /\ q \notin Sharing(c)
    BY <1>3, <1>4, <1>6
  <2>2. workflowCalls[q].step # "rest" /\ workflowCalls[q] # AtRest
    BY <1>3, <1>6, <2>1
  <2>3. \/ workflowCalls[q].command # c
        \/ workflowCalls[q].step = "publishing"
    BY <2>1, <2>2 DEF Sharing
  <2>4. /\ workflowCalls[q].command \in WorkflowCommands
        /\ ledger[workflowCalls[q].command.key].command = workflowCalls[q].command
        /\ workflowCalls[q].step = "publishing" =>
             ledger[workflowCalls[q].command.key].status = "completed"
    BY <2>2 DEF WorkflowInv, CallsFollowLedger
  <2> QED
    BY <2>1, <2>3, <2>4
<1>7. EntriesAreKeyed'
  BY <1>1, <1>2 DEF WorkflowInv, EntriesAreKeyed
<1>8. CallsFollowLedger'
  <2> SUFFICES ASSUME NEW q \in WorkflowRequests, workflowCalls'[q].step # "rest"
               PROVE  LET call == workflowCalls'[q]
                          f == ledger'[call.command.key]
                      IN  /\ call.command \in WorkflowCommands /\ f.command = call.command
                          /\ call.step # "publishing" => f.status = "running"
                          /\ call.step = "publishing" =>
                               f.status = "completed" /\ f.value = call.value
                                 /\ f.revision = call.revision
    BY DEF CallsFollowLedger
  <2>1. ledger'[workflowCalls[q].command.key] = ledger[workflowCalls[q].command.key]
    BY <1>1, <1>2, <1>6
  <2> QED
    BY <1>6, <2>1 DEF WorkflowInv, CallsFollowLedger
<1>9. LeadersAreAlone'
  BY <1>6 DEF WorkflowInv, LeadersAreAlone, Leads
<1>10. WritesAreOnLedger'
  <2>1. ASSUME NEW d \in WorkflowCommands, d.key # c.key
        PROVE  ledger'[d.key] = ledger[d.key] /\ (d \in unanswered' <=> d \in unanswered)
    BY <1>1, <1>2, <2>1
  <2>2. ASSUME NEW d \in WorkflowCommands, d.key = c.key, d # c
        PROVE  ledger'[d.key].command # d /\ writes'[d] = 0 /\ d \notin unanswered'
    BY <1>1, <1>2, <1>3, <2>2, WorkflowTypes, <1>0 DEF WorkflowInv, WritesAreOnLedger
  <2>3. c \notin unanswered /\ writes[c] <= 1
    BY DEF WorkflowInv, WritesAreOnLedger
  <2> QED
    BY <1>1, <1>2, <1>3, <2>1, <2>2, <2>3 DEF WorkflowInv, WritesAreOnLedger
<1>11. RevisionsAreApart' /\ FactsAreOnLedger'
  BY <1>1, <1>2, <1>3, OutcomesStay
<1> QED
  BY <1>5, <1>7, <1>8, <1>9, <1>10, <1>11 DEF WorkflowInv

(* The step of one request while ledger and facts stay: a leader goes on,  *)
(* maybe with its write, or the request ends.                              *)
LEMMA Stepping ==
  ASSUME WorkflowInv, NEW r \in WorkflowRequests, NEW e \in CallsOfWorkflow,
         workflowCalls' = [workflowCalls EXCEPT ![r] = e],
         workflowCalls[r].step # "rest", engineTask' \in TaskStates,
         \/ e.step = "rest" /\ UNCHANGED writes
         \/ /\ Leads(r) /\ e.step \in {"reading", "writing", "confirming", "returning"}
            /\ e.command = workflowCalls[r].command
            /\ \/ /\ UNCHANGED writes
                  /\ (e.step \in {"confirming", "returning"})
                       <=> (workflowCalls[r].step \in {"confirming", "returning"})
               \/ /\ workflowCalls[r].step = "writing" /\ e.step = "confirming"
                  /\ writes' = [writes EXCEPT ![e.command] = @ + 1],
         UNCHANGED <<unanswered, ledger, taskRevision, facts>>
  PROVE  WorkflowInv'
<1>0. WorkflowTypeOK
  BY DEF WorkflowInv
<1>1. /\ workflowCalls \in [WorkflowRequests -> CallsOfWorkflow]
      /\ writes \in [WorkflowCommands -> Nat]
      /\ ledger \in [WorkflowKeys -> EntriesOfWorkflow]
      /\ taskRevision \in Nat /\ unanswered \subseteq WorkflowCommands
  BY <1>0, WorkflowTypes
<1>2. /\ workflowCalls' \in [WorkflowRequests -> CallsOfWorkflow] /\ workflowCalls'[r] = e
      /\ \A q \in WorkflowRequests \ {r} : workflowCalls'[q] = workflowCalls[q]
  BY <1>1
<1>3. /\ workflowCalls[r].command \in WorkflowCommands
      /\ ledger[workflowCalls[r].command.key].command = workflowCalls[r].command
      /\ Leads(r) => ledger[workflowCalls[r].command.key].status = "running"
  BY DEF WorkflowInv, CallsFollowLedger, Leads
<1>4. CASE e.step = "rest"
  <2>1. WorkflowTypeOK'
    BY <1>0, <1>1, <1>2, <1>4, WorkflowTyping
  <2>2. EntriesAreKeyed' /\ WritesAreOnLedger' /\ RevisionsAreApart' /\ FactsAreOnLedger'
    BY <1>4 DEF WorkflowInv, EntriesAreKeyed, WritesAreOnLedger, RevisionsAreApart, FactsAreOnLedger
  <2>3. CallsFollowLedger'
    BY <1>2, <1>4 DEF WorkflowInv, CallsFollowLedger
  <2>4. LeadersAreAlone'
    BY <1>2, <1>4 DEF WorkflowInv, LeadersAreAlone, Leads
  <2> QED
    BY <2>1, <2>2, <2>3, <2>4 DEF WorkflowInv
<1>5. CASE e.step # "rest"
  <2> DEFINE c == workflowCalls[r].command
  <2>1. /\ Leads(r) /\ e.step \in {"reading", "writing", "confirming", "returning"}
        /\ e.command = c /\ c \in WorkflowCommands
        /\ ledger[c.key].command = c /\ ledger[c.key].status = "running"
    BY <1>3, <1>5
  <2>2. c \notin unanswered
    BY <2>1 DEF WorkflowInv, WritesAreOnLedger
  <2>3. /\ writes' \in [WorkflowCommands -> Nat]
        /\ writes'[c] = IF e.step \in {"confirming", "returning"} THEN 1 ELSE 0
        /\ \A d \in WorkflowCommands \ {c} : writes'[d] = writes[d]
    <3>1. writes[c] = IF workflowCalls[r].step \in {"confirming", "returning"} THEN 1 ELSE 0
      BY <2>1 DEF WorkflowInv, LeadersAreAlone
    <3> QED
      BY <1>1, <1>5, <2>1, <3>1
  <2> HIDE DEF c
  <2>4. WorkflowTypeOK'
    BY <1>0, <1>1, <1>2, <2>3, WorkflowTyping
  <2>5. EntriesAreKeyed' /\ RevisionsAreApart' /\ FactsAreOnLedger'
    BY DEF WorkflowInv, EntriesAreKeyed, RevisionsAreApart, FactsAreOnLedger
  <2>6. CallsFollowLedger'
    BY <1>2, <2>1 DEF WorkflowInv, CallsFollowLedger
  <2>7. LeadersAreAlone'
    <3>1. \A q \in WorkflowRequests \ {r} : Leads(q) => /\ workflowCalls[q].command # c
                                                       /\ workflowCalls[q].command \in WorkflowCommands
      BY <2>1 DEF c, WorkflowInv, LeadersAreAlone, CallsFollowLedger, Leads
    <3> QED
      BY <1>2, <2>1, <2>3, <3>1 DEF WorkflowInv, LeadersAreAlone, Leads
  <2>8. WritesAreOnLedger'
    BY <2>1, <2>2, <2>3 DEF WorkflowInv, WritesAreOnLedger
  <2> QED
    BY <2>4, <2>5, <2>6, <2>7, <2>8 DEF WorkflowInv
<1> QED
  BY <1>4, <1>5

(* A request enters: it leads a command that the ledger does not know, or  *)
(* waits for the one that runs, or goes on with the outcome there is.      *)
LEMMA Sending ==
  ASSUME WorkflowInv, NEW r \in WorkflowRequests, NEW c \in WorkflowCommands, SendCommand(r, c)
  PROVE  WorkflowInv'
<1>0. WorkflowTypeOK
  BY DEF WorkflowInv
<1>1. /\ workflowCalls \in [WorkflowRequests -> CallsOfWorkflow]
      /\ ledger \in [WorkflowKeys -> EntriesOfWorkflow]
      /\ c.key \in WorkflowKeys /\ c # NoCommandOfWorkflow
      /\ engineTask \in TaskStates /\ writes \in [WorkflowCommands -> Nat]
      /\ taskRevision \in Nat /\ unanswered \subseteq WorkflowCommands
      /\ \A d \in WorkflowCommands : d.key \in WorkflowKeys /\ d # NoCommandOfWorkflow
  BY <1>0, WorkflowTypes
<1> DEFINE e == ledger[c.key]
           Entered(step) == [step |-> step, command |-> c, value |-> e.value, revision |-> e.revision]
<1>2. /\ e \in EntriesOfWorkflow
      /\ \A step \in {"reading", "waiting", "publishing"} : Entered(step) \in CallsOfWorkflow
  BY <1>1 DEF EntriesOfWorkflow, CallsOfWorkflow
<1>3. UNCHANGED <<engineTask, writes, unanswered, taskRevision, facts>>
  BY DEF SendCommand
<1>4. NoEntry.status = "absent" /\ NoEntry.command = NoCommandOfWorkflow
  BY DEF NoEntry
<1>5. ASSUME e = NoEntry,
             ledger' = [ledger EXCEPT ![c.key].status = "running", ![c.key].command = c],
             workflowCalls' = [workflowCalls EXCEPT ![r] = Entered("reading")]
      PROVE  WorkflowInv'
  <2> DEFINE f == [status |-> "running", command |-> c, value |-> e.value, revision |-> e.revision]
  <2>1. /\ f \in EntriesOfWorkflow /\ ledger' \in [WorkflowKeys -> EntriesOfWorkflow]
        /\ ledger'[c.key] = f /\ \A l \in WorkflowKeys \ {c.key} : ledger'[l] = ledger[l]
    BY <1>1, <1>2, <1>5 DEF EntriesOfWorkflow
  <2>2. /\ workflowCalls' \in [WorkflowRequests -> CallsOfWorkflow]
        /\ workflowCalls'[r] = Entered("reading")
        /\ \A q \in WorkflowRequests \ {r} : workflowCalls'[q] = workflowCalls[q]
    BY <1>1, <1>2, <1>5
  (* Nobody carries a command of this key.                                 *)
  <2>3. \A q \in WorkflowRequests : workflowCalls[q].step # "rest" =>
          /\ workflowCalls[q].command \in WorkflowCommands
          /\ workflowCalls[q].command.key # c.key
    BY <1>1, <1>4, <1>5 DEF WorkflowInv, CallsFollowLedger
  <2>4. f.status = "running" /\ f.command = c
    OBVIOUS
  <2>5. /\ Entered("reading").step = "reading" /\ Entered("reading").command = c
    OBVIOUS
  <2>6. writes[c] = 0 /\ c \notin unanswered
    BY <1>1, <1>4, <1>5 DEF WorkflowInv, WritesAreOnLedger
  <2> HIDE DEF f, e, Entered
  <2>7. WorkflowTypeOK'
    BY <1>0, <1>1, <1>3, <2>1, <2>2, WorkflowTyping
  <2>8. EntriesAreKeyed'
    BY <2>1, <2>4 DEF WorkflowInv, EntriesAreKeyed
  <2>9. CallsFollowLedger'
    <3>1. \A q \in WorkflowRequests \ {r} : workflowCalls[q].step # "rest" =>
            ledger'[workflowCalls[q].command.key] = ledger[workflowCalls[q].command.key]
      BY <1>1, <2>1, <2>3
    <3> QED
      BY <2>1, <2>2, <2>4, <2>5, <3>1 DEF WorkflowInv, CallsFollowLedger
  <2>10. LeadersAreAlone'
    BY <1>3, <2>2, <2>3, <2>5, <2>6 DEF WorkflowInv, LeadersAreAlone, Leads
  <2>11. WritesAreOnLedger'
    <3> SUFFICES ASSUME NEW d \in WorkflowCommands
                 PROVE  /\ ledger'[d.key].command # d => writes[d] = 0 /\ d \notin unanswered
                        /\ ledger'[d.key].command = d =>
                             /\ writes[d] <= 1
                             /\ ledger'[d.key].status = "completed" => writes[d] = 1
                             /\ d \in unanswered =>
                                  /\ ledger'[d.key].status = "reconciliation_required"
                                  /\ writes[d] = 0
      BY <1>3 DEF WritesAreOnLedger
    <3>1. CASE d.key # c.key
      BY <1>1, <2>1, <3>1 DEF WorkflowInv, WritesAreOnLedger
    <3>2. CASE d.key = c.key
      <4>1. writes[d] = 0 /\ d \notin unanswered
        BY <1>1, <1>4, <1>5, <3>2 DEF e, WorkflowInv, WritesAreOnLedger
      <4> QED
        BY <2>1, <2>4, <3>2, <4>1
    <3> QED
      BY <3>1, <3>2
  <2>12. RevisionsAreApart' /\ FactsAreOnLedger'
    BY <1>1, <1>3, <1>4, <1>5, <2>1, <2>4, OutcomesStay DEF e
  <2> QED
    BY <2>7, <2>8, <2>9, <2>10, <2>11, <2>12 DEF WorkflowInv
<1>6. ASSUME NEW step \in {"waiting", "publishing"}, e.command = c, UNCHANGED ledger,
             workflowCalls' = [workflowCalls EXCEPT ![r] = Entered(step)],
             e.status = IF step = "waiting" THEN "running" ELSE "completed"
      PROVE  WorkflowInv'
  <2>1. /\ workflowCalls' \in [WorkflowRequests -> CallsOfWorkflow]
        /\ workflowCalls'[r] = Entered(step)
        /\ \A q \in WorkflowRequests \ {r} : workflowCalls'[q] = workflowCalls[q]
    BY <1>1, <1>2, <1>6
  <2>2. /\ Entered(step).step = step /\ Entered(step).command = c
        /\ Entered(step).value = e.value /\ Entered(step).revision = e.revision
    OBVIOUS
  <2> HIDE DEF Entered
  <2>3. WorkflowTypeOK'
    BY <1>0, <1>1, <1>3, <1>6, <2>1, WorkflowTyping
  <2>4. EntriesAreKeyed' /\ WritesAreOnLedger' /\ RevisionsAreApart' /\ FactsAreOnLedger'
    BY <1>3, <1>6 DEF WorkflowInv, EntriesAreKeyed, WritesAreOnLedger, RevisionsAreApart,
                      FactsAreOnLedger
  <2>5. CallsFollowLedger'
    BY <1>6, <2>1, <2>2 DEF WorkflowInv, CallsFollowLedger
  <2>6. LeadersAreAlone'
    BY <1>3, <2>1, <2>2 DEF WorkflowInv, LeadersAreAlone, Leads
  <2> QED
    BY <2>3, <2>4, <2>5, <2>6 DEF WorkflowInv
<1>7. \/ /\ e = NoEntry
         /\ ledger' = [ledger EXCEPT ![c.key].status = "running", ![c.key].command = c]
         /\ workflowCalls' = [workflowCalls EXCEPT ![r] = Entered("reading")]
      \/ /\ e.command = c /\ e.status = "running" /\ UNCHANGED ledger
         /\ workflowCalls' = [workflowCalls EXCEPT ![r] = Entered("waiting")]
      \/ /\ e.command = c /\ e.status = "completed" /\ UNCHANGED ledger
         /\ workflowCalls' = [workflowCalls EXCEPT ![r] = Entered("publishing")]
  BY DEF SendCommand
<1> QED
  BY <1>5, <1>6, <1>7

(* The ledger keeps the outcome under a revision of its own, and all that  *)
(* waited for it go on to publish it.                                      *)
LEMMA Completing ==
  ASSUME WorkflowInv, NEW r \in WorkflowRequests, Complete(r)
  PROVE  WorkflowInv'
<1>0. WorkflowTypeOK
  BY DEF WorkflowInv
<1>1. /\ workflowCalls \in [WorkflowRequests -> CallsOfWorkflow]
      /\ ledger \in [WorkflowKeys -> EntriesOfWorkflow]
      /\ engineTask \in TaskStates /\ writes \in [WorkflowCommands -> Nat]
      /\ taskRevision \in Nat /\ unanswered \subseteq WorkflowCommands
      /\ \A d \in WorkflowCommands : d.key \in WorkflowKeys /\ d # NoCommandOfWorkflow
  BY <1>0, WorkflowTypes
<1>2. PICK c, n, e, call :
        /\ workflowCalls[r].step = "returning" /\ c = workflowCalls[r].command
        /\ n = IF OfTask(c) THEN taskRevision + 1 ELSE 0
        /\ e = [status |-> "completed", command |-> c, value |-> workflowCalls[r].value,
                revision |-> n]
        /\ call = [step |-> "publishing", command |-> c, value |-> workflowCalls[r].value,
                   revision |-> n]
        /\ taskRevision' = IF OfTask(c) THEN n ELSE taskRevision
        /\ ledger' = [ledger EXCEPT ![c.key] = e]
        /\ workflowCalls' = [q \in WorkflowRequests |->
                               IF q \notin Sharing(c) THEN workflowCalls[q] ELSE call]
        /\ UNCHANGED <<engineTask, writes, unanswered, facts>>
  BY DEF Complete
<1>3. /\ c \in WorkflowCommands /\ c.key \in WorkflowKeys
      /\ ledger[c.key].command = c /\ ledger[c.key].status = "running" /\ writes[c] = 1
  BY <1>1, <1>2 DEF WorkflowInv, CallsFollowLedger, LeadersAreAlone, Leads
<1>4. c \notin unanswered
  BY <1>3 DEF WorkflowInv, WritesAreOnLedger
<1>5. /\ n \in Nat /\ taskRevision' \in Nat /\ taskRevision <= taskRevision'
      /\ OfTask(c) => n = taskRevision + 1 /\ taskRevision' = n
      /\ ~OfTask(c) => n = 0 /\ taskRevision' = taskRevision
  BY <1>1, <1>2
<1>6. /\ e \in EntriesOfWorkflow /\ call \in CallsOfWorkflow
      /\ e.status = "completed" /\ e.command = c /\ e.revision = n
      /\ call.step = "publishing" /\ call.command = c
      /\ call.value = e.value /\ call.revision = e.revision
  BY <1>1, <1>2, <1>3, <1>5 DEF EntriesOfWorkflow, CallsOfWorkflow
<1>7. /\ ledger' \in [WorkflowKeys -> EntriesOfWorkflow] /\ ledger'[c.key] = e
      /\ \A l \in WorkflowKeys \ {c.key} : ledger'[l] = ledger[l]
  BY <1>1, <1>2, <1>3, <1>6
<1>8. /\ workflowCalls' \in [WorkflowRequests -> CallsOfWorkflow]
      /\ \A q \in WorkflowRequests :
           \/ workflowCalls'[q] = call
           \/ workflowCalls'[q] = workflowCalls[q] /\ q \notin Sharing(c)
  BY <1>1, <1>2, <1>6
<1>9. WorkflowTypeOK'
  BY <1>0, <1>1, <1>2, <1>5, <1>7, <1>8, WorkflowTyping
<1>10. EntriesAreKeyed'
  BY <1>3, <1>6, <1>7 DEF WorkflowInv, EntriesAreKeyed
(* Whoever does not share it has another key.                              *)
<1>11. ASSUME NEW q \in WorkflowRequests, workflowCalls'[q] # call, workflowCalls[q].step # "rest"
       PROVE  /\ workflowCalls'[q] = workflowCalls[q]
              /\ workflowCalls[q].command \in WorkflowCommands
              /\ workflowCalls[q].command.key # c.key /\ workflowCalls[q].command # c
  <2>1. workflowCalls'[q] = workflowCalls[q] /\ q \notin Sharing(c)
    BY <1>8, <1>11
  <2>2. workflowCalls[q].command # c \/ workflowCalls[q].step = "publishing"
    BY <1>11, <2>1 DEF Sharing, AtRest
  <2>3. /\ workflowCalls[q].command \in WorkflowCommands
        /\ ledger[workflowCalls[q].command.key].command = workflowCalls[q].command
        /\ workflowCalls[q].step = "publishing" =>
             ledger[workflowCalls[q].command.key].status = "completed"
    BY <1>11 DEF WorkflowInv, CallsFollowLedger
  <2> QED
    BY <1>3, <2>1, <2>2, <2>3
<1>12. CallsFollowLedger'
  <2> SUFFICES ASSUME NEW q \in WorkflowRequests, workflowCalls'[q].step # "rest"
               PROVE  LET x == workflowCalls'[q]
                          f == ledger'[x.command.key]
                      IN  /\ x.command \in WorkflowCommands /\ f.command = x.command
                          /\ x.step # "publishing" => f.status = "running"
                          /\ x.step = "publishing" =>
                               f.status = "completed" /\ f.value = x.value
                                 /\ f.revision = x.revision
    BY DEF CallsFollowLedger
  <2>1. CASE workflowCalls'[q] = call
    BY <1>3, <1>6, <1>7, <2>1
  <2>2. CASE workflowCalls'[q] # call
    <3>1. workflowCalls'[q] = workflowCalls[q]
      BY <1>8, <2>2
    <3>2. ledger'[workflowCalls[q].command.key] = ledger[workflowCalls[q].command.key]
      BY <1>1, <1>7, <1>11, <2>2, <3>1
    <3> QED
      BY <3>1, <3>2 DEF WorkflowInv, CallsFollowLedger
  <2> QED
    BY <2>1, <2>2
<1>13. LeadersAreAlone'
  <2>1. \A q \in WorkflowRequests : Leads(q)' => Leads(q) /\ workflowCalls'[q] = workflowCalls[q]
    BY <1>6, <1>8 DEF Leads
  <2> QED
    BY <1>2, <2>1 DEF WorkflowInv, LeadersAreAlone
<1>14. WritesAreOnLedger'
  <2>1. ASSUME NEW d \in WorkflowCommands, d.key # c.key PROVE ledger'[d.key] = ledger[d.key]
    BY <1>1, <1>7, <2>1
  <2>2. ASSUME NEW d \in WorkflowCommands, d.key = c.key, d # c
        PROVE  ledger'[d.key].command # d /\ writes[d] = 0 /\ d \notin unanswered
    BY <1>3, <1>6, <1>7, <2>2 DEF WorkflowInv, WritesAreOnLedger
  <2> QED
    BY <1>2, <1>3, <1>4, <1>6, <1>7, <2>1, <2>2 DEF WorkflowInv, WritesAreOnLedger
<1>15. RevisionsAreApart'
  <2>1. \A l \in WorkflowKeys \ {c.key} : ledger'[l].status = "completed" =>
          /\ ledger'[l] = ledger[l] /\ ledger[l].revision \in Nat
          /\ ledger[l].revision <= taskRevision
          /\ OfTask(ledger[l].command) => ledger[l].revision >= 1
          /\ ~OfTask(ledger[l].command) => ledger[l].revision = 0
    BY <1>1, <1>7 DEF WorkflowInv, RevisionsAreApart
  <2> SUFFICES ASSUME NEW k \in WorkflowKeys, ledger'[k].status = "completed"
               PROVE  /\ ~OfTask(ledger'[k].command) => ledger'[k].revision = 0
                      /\ OfTask(ledger'[k].command) =>
                           /\ ledger'[k].revision \in 1 .. taskRevision'
                           /\ \A l \in WorkflowKeys : ledger'[l].status = "completed"
                                /\ ledger'[l].revision = ledger'[k].revision => l = k
    BY DEF RevisionsAreApart, OfTask
  <2>2. CASE k = c.key
    <3>1. /\ OfTask(ledger'[k].command) <=> OfTask(c)
          /\ ledger'[k].revision = n
      BY <1>6, <1>7, <2>2
    <3>2. ASSUME OfTask(c), NEW l \in WorkflowKeys \ {c.key}, ledger'[l].status = "completed"
          PROVE  ledger'[l].revision # n
      BY <1>1, <1>5, <2>1, <3>2
    <3>3. OfTask(c) => n \in 1 .. taskRevision'
      BY <1>1, <1>5
    <3> QED
      BY <1>5, <2>2, <3>1, <3>2, <3>3
  <2>3. CASE k # c.key
    <3>1. /\ ledger'[k] = ledger[k] /\ ledger[k].revision \in Nat
          /\ ledger[k].revision <= taskRevision /\ ledger[k].status = "completed"
          /\ OfTask(ledger[k].command) => ledger[k].revision >= 1
          /\ ~OfTask(ledger[k].command) => ledger[k].revision = 0
      BY <2>1, <2>3
    <3>2. OfTask(ledger[k].command) => ledger[k].revision # n
      BY <1>1, <1>5, <3>1
    <3>3. OfTask(ledger[k].command) => ledger[k].revision \in 1 .. taskRevision'
      BY <1>1, <1>5, <3>1
    <3>4. ASSUME OfTask(ledger[k].command), NEW l \in WorkflowKeys, ledger'[l].status = "completed",
                 ledger'[l].revision = ledger[k].revision
          PROVE  l = k
      <4>1. l # c.key
        BY <1>6, <1>7, <3>2, <3>4
      <4>2. ledger[l].status = "completed" /\ ledger[l].revision = ledger[k].revision
        BY <2>1, <3>4, <4>1
      <4> QED
        BY <3>1, <3>4, <4>2 DEF WorkflowInv, RevisionsAreApart
    <3> QED
      BY <3>1, <3>3, <3>4
  <2> QED
    BY <2>2, <2>3
<1>16. FactsAreOnLedger'
  <2>1. \A k \in WorkflowKeys : ledger[k].status = "completed" => ledger'[k] = ledger[k]
    BY <1>3, <1>7
  <2> QED
    BY <1>2, <2>1 DEF WorkflowInv, FactsAreOnLedger
<1> QED
  BY <1>9, <1>10, <1>12, <1>13, <1>14, <1>15, <1>16 DEF WorkflowInv

LEMMA Publishing ==
  ASSUME WorkflowInv, NEW r \in WorkflowRequests, PublishFact(r)
  PROVE  WorkflowInv'
<1>0. WorkflowTypeOK
  BY DEF WorkflowInv
<1>1. /\ workflowCalls \in [WorkflowRequests -> CallsOfWorkflow]
      /\ \A d \in WorkflowCommands : d.key \in WorkflowKeys /\ d # NoCommandOfWorkflow
      /\ facts \in [WorkflowKeys -> [command : WorkflowCommands \cup {NoCommandOfWorkflow},
                                     value : TaskStates, revision : Nat]]
  BY <1>0, WorkflowTypes DEF WorkflowTypeOK
<1>2. PICK call, fact :
        /\ call = workflowCalls[r] /\ call.step = "publishing"
        /\ fact = [command |-> call.command, value |-> call.value, revision |-> call.revision]
        /\ facts' = [facts EXCEPT ![call.command.key] =
             IF facts[call.command.key] = NoFact THEN fact ELSE facts[call.command.key]]
        /\ workflowCalls' = [workflowCalls EXCEPT ![r] = AtRest]
        /\ UNCHANGED <<engineTask, writes, unanswered, ledger, taskRevision>>
  BY DEF PublishFact
<1>3. /\ call \in CallsOfWorkflow /\ call.command \in WorkflowCommands
      /\ call.command.key \in WorkflowKeys
      /\ ledger[call.command.key].status = "completed"
      /\ ledger[call.command.key].command = call.command
      /\ ledger[call.command.key].value = call.value
      /\ ledger[call.command.key].revision = call.revision
  BY <1>1, <1>2 DEF WorkflowInv, CallsFollowLedger
<1>4. AtRest \in CallsOfWorkflow /\ AtRest.step = "rest"
  BY DEF AtRest, CallsOfWorkflow, NewTask, TaskStates
<1>5. /\ workflowCalls' \in [WorkflowRequests -> CallsOfWorkflow] /\ workflowCalls'[r] = AtRest
      /\ \A q \in WorkflowRequests \ {r} : workflowCalls'[q] = workflowCalls[q]
  BY <1>1, <1>2, <1>4
<1>6. facts' \in [WorkflowKeys -> [command : WorkflowCommands \cup {NoCommandOfWorkflow},
                                  value : TaskStates, revision : Nat]]
  <2>1. fact \in [command : WorkflowCommands \cup {NoCommandOfWorkflow}, value : TaskStates,
                  revision : Nat]
    BY <1>2, <1>3 DEF CallsOfWorkflow
  <2> QED
    BY <1>1, <1>2, <2>1
<1>7. WorkflowTypeOK'
  BY <1>0, <1>2, <1>5, <1>6 DEF WorkflowTypeOK, CallsOfWorkflow
<1>8. EntriesAreKeyed' /\ WritesAreOnLedger' /\ RevisionsAreApart'
  BY <1>2 DEF WorkflowInv, EntriesAreKeyed, WritesAreOnLedger, RevisionsAreApart
<1>9. CallsFollowLedger'
  BY <1>2, <1>4, <1>5 DEF WorkflowInv, CallsFollowLedger
<1>10. LeadersAreAlone'
  BY <1>2, <1>4, <1>5 DEF WorkflowInv, LeadersAreAlone, Leads
<1>11. FactsAreOnLedger'
  <2>1. \A k \in WorkflowKeys : \/ facts'[k] = facts[k]
                                \/ k = call.command.key /\ facts'[k] = fact
    BY <1>1, <1>2
  <2>2. fact.command = call.command /\ fact.value = call.value /\ fact.revision = call.revision
    BY <1>2
  <2> QED
    BY <1>2, <1>3, <2>1, <2>2 DEF WorkflowInv, FactsAreOnLedger
<1> QED
  BY <1>7, <1>8, <1>9, <1>10, <1>11 DEF WorkflowInv

(* A write nobody waits for arrives, at most once, or is lost.             *)
LEMMA ArrivingLate ==
  ASSUME WorkflowInv, NEW c \in WorkflowCommands, LateWrite(c), engineTask' \in TaskStates
  PROVE  WorkflowInv'
<1>0. WorkflowTypeOK
  BY DEF WorkflowInv
<1>1. /\ writes \in [WorkflowCommands -> Nat] /\ unanswered \subseteq WorkflowCommands
      /\ ledger \in [WorkflowKeys -> EntriesOfWorkflow] /\ taskRevision \in Nat
      /\ workflowCalls \in [WorkflowRequests -> CallsOfWorkflow]
  BY <1>0, WorkflowTypes
<1>2. /\ c \in unanswered /\ unanswered' = unanswered \ {c}
      /\ \/ writes' = [writes EXCEPT ![c] = @ + 1]
         \/ writes' = writes
      /\ UNCHANGED <<ledger, taskRevision, facts, workflowCalls>>
  BY DEF LateWrite, EngineTakes
<1>3. /\ ledger[c.key].command = c /\ writes[c] = 0
      /\ ledger[c.key].status = "reconciliation_required"
  BY <1>2 DEF WorkflowInv, WritesAreOnLedger
<1>4. /\ writes' \in [WorkflowCommands -> Nat] /\ writes'[c] \in {0, 1}
      /\ \A d \in WorkflowCommands \ {c} : writes'[d] = writes[d]
  BY <1>1, <1>2, <1>3
<1>5. WorkflowTypeOK'
  BY <1>0, <1>1, <1>2, <1>4, WorkflowTyping
<1>6. EntriesAreKeyed' /\ CallsFollowLedger' /\ RevisionsAreApart' /\ FactsAreOnLedger'
  BY <1>2 DEF WorkflowInv, EntriesAreKeyed, CallsFollowLedger, RevisionsAreApart, FactsAreOnLedger
<1>7. LeadersAreAlone'
  <2>1. \A r \in WorkflowRequests : Leads(r) =>
          workflowCalls[r].command \in WorkflowCommands \ {c}
    BY <1>3 DEF WorkflowInv, CallsFollowLedger, Leads
  <2> QED
    BY <1>2, <1>4, <2>1 DEF WorkflowInv, LeadersAreAlone, Leads
<1>8. WritesAreOnLedger'
  BY <1>2, <1>3, <1>4 DEF WorkflowInv, WritesAreOnLedger
<1> QED
  BY <1>5, <1>6, <1>7, <1>8 DEF WorkflowInv

(* What the engine does with a command leaves a task.                      *)
LEMMA EngineKeepsTask ==
  ASSUME WorkflowTypeOK, NEW c \in WorkflowCommands, EngineTakes(c)
  PROVE  engineTask' \in TaskStates
<1>1. c.assignee \in Assignees \cup {NoAssignee}
  BY WorkflowAssumption DEF CommandsOfWorkflow
<1>2. /\ engineTask \in TaskStates
      /\ engineTask.status \in {"active", "completed", "cancelled"}
      /\ engineTask.assignee \in Assignees \cup {NoAssignee}
  BY WorkflowTypes DEF TaskStates
<1>3. \/ engineTask' = [engineTask EXCEPT !.assignee = c.assignee]
      \/ engineTask' = [engineTask EXCEPT !.assignee = NoAssignee]
      \/ engineTask' = [engineTask EXCEPT !.status = "completed"]
      \/ engineTask' = [engineTask EXCEPT !.status = "cancelled"]
      \/ engineTask' = engineTask
  BY DEF EngineTakes
<1> QED
  BY <1>1, <1>2, <1>3 DEF TaskStates

LEMMA WorkflowGoesOn == WorkflowInv /\ [WorkflowNext]_workflowVars => WorkflowInv'
<1> SUFFICES ASSUME WorkflowInv, [WorkflowNext]_workflowVars PROVE WorkflowInv'
  OBVIOUS
<1>0. /\ WorkflowTypeOK
      /\ workflowCalls \in [WorkflowRequests -> CallsOfWorkflow]
      /\ ledger \in [WorkflowKeys -> EntriesOfWorkflow]
      /\ engineTask \in TaskStates
      /\ \A c \in WorkflowCommands : c.key \in WorkflowKeys
  BY WorkflowTypes DEF WorkflowInv
<1>1. CASE UNCHANGED workflowVars
  BY <1>1 DEF WorkflowInv, WorkflowTypeOK, EntriesAreKeyed, CallsFollowLedger, LeadersAreAlone,
              WritesAreOnLedger, RevisionsAreApart, FactsAreOnLedger, Leads, workflowVars
<1>r. AtRest \in CallsOfWorkflow /\ AtRest.step = "rest"
  BY DEF AtRest, CallsOfWorkflow, NewTask, TaskStates
<1>f. NoEntry \in EntriesOfWorkflow
  BY DEF NoEntry, EntriesOfWorkflow, NewTask, TaskStates
(* A request that is busy carries a command that is on the ledger.         *)
<1>b. ASSUME NEW r \in WorkflowRequests,
             workflowCalls[r].step \in {"reading", "writing", "confirming", "returning"}
      PROVE  /\ workflowCalls[r].command \in WorkflowCommands
             /\ ledger[workflowCalls[r].command.key].command = workflowCalls[r].command
             /\ ledger[workflowCalls[r].command.key].status = "running"
             /\ workflowCalls[r].step \in {"reading", "writing"} =>
                  writes[workflowCalls[r].command] = 0
  BY <1>b DEF WorkflowInv, CallsFollowLedger, LeadersAreAlone, Leads
(* An unknown outcome is kept in the entry of the command.                 *)
<1>k. ASSUME NEW c \in WorkflowCommands, KeepUnknown(c), ledger[c.key].command = c
      PROVE  \E e \in EntriesOfWorkflow :
               /\ e.status = "reconciliation_required" /\ e.command = c
               /\ ledger' = [ledger EXCEPT ![c.key] = e]
  <2> DEFINE e == [status |-> "reconciliation_required", command |-> c,
                   value |-> ledger[c.key].value, revision |-> ledger[c.key].revision]
  <2>1. e \in EntriesOfWorkflow /\ e.status = "reconciliation_required" /\ e.command = c
    BY <1>0 DEF EntriesOfWorkflow
  <2>2. ledger' = [ledger EXCEPT ![c.key] = e]
    <3>1. ledger[c.key] \in EntriesOfWorkflow
      BY <1>0
    <3>2. [ledger[c.key] EXCEPT !.status = "reconciliation_required"] = e
      BY <1>k, <3>1 DEF EntriesOfWorkflow
    <3>3. ledger' = [ledger EXCEPT
            ![c.key] = [ledger[c.key] EXCEPT !.status = "reconciliation_required"]]
      BY <1>0, <1>k DEF KeepUnknown
    <3> QED
      BY <3>2, <3>3
  <2> QED
    BY <2>1, <2>2
<1>2. ASSUME NEW r \in WorkflowRequests, NEW c \in WorkflowCommands, SendCommand(r, c)
      PROVE  WorkflowInv'
  BY <1>2, Sending
<1>3. ASSUME NEW r \in WorkflowRequests, ReadTask(r) PROVE WorkflowInv'
  <2>1. PICK e \in CallsOfWorkflow :
          /\ workflowCalls[r].step = "reading" /\ e.step = "writing"
          /\ e.command = workflowCalls[r].command
          /\ workflowCalls' = [workflowCalls EXCEPT ![r] = e]
    BY <1>0, <1>3 DEF ReadTask, Step, CallsOfWorkflow
  <2> QED
    BY <1>0, <1>3, <2>1, Stepping DEF ReadTask, Leads
<1>4. ASSUME NEW r \in WorkflowRequests, ActionFails(r) PROVE WorkflowInv'
  <2>1. /\ workflowCalls[r].step \in {"reading", "writing"}
        /\ ledger' = [ledger EXCEPT ![workflowCalls[r].command.key] = NoEntry]
        /\ EndAll(workflowCalls[r].command)
        /\ UNCHANGED <<engineTask, writes, unanswered, taskRevision, facts>>
    BY <1>4 DEF ActionFails, Forget
  <2> QED
    BY <1>b, <1>f, <2>1, Ending
<1>5. ASSUME NEW r \in WorkflowRequests, WriteTask(r) PROVE WorkflowInv'
  <2>1. PICK e \in CallsOfWorkflow :
          /\ workflowCalls[r].step = "writing" /\ e.step = "confirming"
          /\ e.command = workflowCalls[r].command
          /\ workflowCalls' = [workflowCalls EXCEPT ![r] = e]
    BY <1>0, <1>5 DEF WriteTask, Step, CallsOfWorkflow
  <2>2. e.command \in WorkflowCommands
    BY <1>b, <2>1
  <2>3. writes' = [writes EXCEPT ![e.command] = @ + 1] /\ engineTask' \in TaskStates
    BY <1>0, <1>5, <2>1, <2>2, EngineKeepsTask DEF WriteTask, EngineTakes
  <2>4. UNCHANGED <<unanswered, ledger, taskRevision, facts>>
    BY <1>5 DEF WriteTask
  <2> QED
    BY <2>1, <2>3, <2>4, Stepping DEF Leads
<1>6. ASSUME NEW r \in WorkflowRequests, WriteIsUnknown(r) PROVE WorkflowInv'
  <2> DEFINE c == workflowCalls[r].command
  <2>1. /\ workflowCalls[r].step = "writing" /\ KeepUnknown(c) /\ EndAll(c)
        /\ unanswered' = unanswered \cup {c}
        /\ UNCHANGED <<engineTask, writes, taskRevision, facts>>
    BY <1>6 DEF WriteIsUnknown, KeepUnknown
  <2>2. /\ c \in WorkflowCommands /\ writes[c] = 0
        /\ ledger[c.key].command = c /\ ledger[c.key].status = "running"
    BY <1>b, <2>1
  <2> HIDE DEF c
  <2> QED
    BY <1>k, <2>1, <2>2, Ending
<1>7. ASSUME NEW r \in WorkflowRequests, ReadBack(r) PROVE WorkflowInv'
  <2>1. PICK e \in CallsOfWorkflow :
          /\ workflowCalls[r].step = "confirming" /\ e.step = "returning"
          /\ e.command = workflowCalls[r].command
          /\ workflowCalls' = [workflowCalls EXCEPT ![r] = e]
    BY <1>0, <1>7 DEF ReadBack, CallsOfWorkflow
  <2> QED
    BY <1>0, <1>7, <2>1, Stepping DEF ReadBack, Leads
<1>8. ASSUME NEW r \in WorkflowRequests, ReadBackFails(r) PROVE WorkflowInv'
  <2> DEFINE c == workflowCalls[r].command
  <2>1. /\ workflowCalls[r].step = "confirming" /\ KeepUnknown(c) /\ EndAll(c)
        /\ UNCHANGED <<engineTask, writes, unanswered, taskRevision, facts>>
    BY <1>8 DEF ReadBackFails, KeepUnknown
  <2>2. /\ c \in WorkflowCommands
        /\ ledger[c.key].command = c /\ ledger[c.key].status = "running"
    BY <1>b, <2>1
  <2> HIDE DEF c
  <2> QED
    BY <1>k, <2>1, <2>2, Ending
<1>9. ASSUME NEW r \in WorkflowRequests, Complete(r) PROVE WorkflowInv'
  BY <1>9, Completing
<1>10. ASSUME NEW r \in WorkflowRequests, PublishFact(r) PROVE WorkflowInv'
  BY <1>10, Publishing
<1>11. ASSUME NEW r \in WorkflowRequests, PublishingFails(r) PROVE WorkflowInv'
  BY <1>0, <1>r, <1>11, Stepping DEF PublishingFails
<1>12. ASSUME NEW c \in WorkflowCommands, LateWrite(c) PROVE WorkflowInv'
  <2>1. engineTask' \in TaskStates
    BY <1>0, <1>12, EngineKeepsTask DEF LateWrite
  <2> QED
    BY <1>12, <2>1, ArrivingLate
<1> QED
  BY <1>1, <1>2, <1>3, <1>4, <1>5, <1>6, <1>7, <1>8, <1>9, <1>10, <1>11, <1>12 DEF WorkflowNext

(* What the invariant says of the engine and of what is published.         *)
LEMMA WorkflowMeans == WorkflowInv => EngineWritesOnce /\ FactsAreOutcomes
<1> SUFFICES ASSUME WorkflowInv PROVE EngineWritesOnce /\ FactsAreOutcomes
  OBVIOUS
<1>1. /\ \A c \in WorkflowCommands : c.key \in WorkflowKeys /\ c # NoCommandOfWorkflow
      /\ writes \in [WorkflowCommands -> Nat] /\ taskRevision \in Nat
      /\ ledger \in [WorkflowKeys -> EntriesOfWorkflow]
  BY WorkflowTypes DEF WorkflowInv
<1>2. EngineWritesOnce
  <2> SUFFICES ASSUME NEW c \in WorkflowCommands
               PROVE  /\ writes[c] <= 1
                      /\ c \in unanswered => /\ ledger[c.key].command = c
                                             /\ ledger[c.key].status = "reconciliation_required"
    BY DEF EngineWritesOnce
  <2> QED
    BY DEF WorkflowInv, WritesAreOnLedger
<1>3. FactsAreOutcomes
  <2> SUFFICES ASSUME NEW k \in WorkflowKeys, facts[k] # NoFact
               PROVE  /\ writes[facts[k].command] = 1
                      /\ ledger[k].status = "completed"
                      /\ ledger[k].command = facts[k].command
                      /\ ledger[k].value = facts[k].value
                      /\ ledger[k].revision = facts[k].revision
                      /\ OfTask(facts[k].command) => \A l \in WorkflowKeys :
                           facts[l] # NoFact /\ facts[l].revision = facts[k].revision => l = k
    BY DEF FactsAreOutcomes
  <2>1. \A l \in WorkflowKeys : facts[l] # NoFact =>
          /\ ledger[l].status = "completed" /\ ledger[l].command = facts[l].command
          /\ ledger[l].value = facts[l].value /\ ledger[l].revision = facts[l].revision
    BY DEF WorkflowInv, FactsAreOnLedger
  <2>2. ledger[k] # NoEntry
    BY <2>1 DEF NoEntry
  <2>3. /\ ledger[k].command \in WorkflowCommands /\ ledger[k].command.key = k
    BY <2>2 DEF WorkflowInv, EntriesAreKeyed
  <2>4. writes[ledger[k].command] = 1
    BY <2>1, <2>3 DEF WorkflowInv, WritesAreOnLedger
  <2>5. ASSUME OfTask(ledger[k].command), NEW l \in WorkflowKeys, facts[l] # NoFact,
               facts[l].revision = facts[k].revision
        PROVE  l = k
    BY <2>1, <2>5 DEF WorkflowInv, RevisionsAreApart
  <2> QED
    BY <2>1, <2>4, <2>5
<1> QED
  BY <1>2, <1>3

(* Workflow commands, for any number of requests, keys and commands: the   *)
(* engine takes each at most once, also when its answer comes too late or  *)
(* never, and what is published is the outcome that the ledger holds.      *)
THEOREM EngineActsOnce == WorkflowSpec => [](EngineWritesOnce /\ FactsAreOutcomes)
  BY WorkflowStarts, WorkflowGoesOn, WorkflowMeans, PTL DEF WorkflowSpec
=============================================================================
