------------------------------ MODULE Telemetry ------------------------------
(***************************************************************************)
(* packages/observability/src/sanitize.ts: what a log record or a report   *)
(* takes from a value of the program. Values are a graph, which may share  *)
(* and contain itself; what comes out is a tree of limited depth and width *)
(* without what stands under a sensitive name. Texts and their limits are  *)
(* left out, and so are accessors and objects of a class.                  *)
(***************************************************************************)
EXTENDS Naturals
LOCAL INSTANCE SequencesExt
LOCAL INSTANCE FiniteSetsExt
LOCAL INSTANCE Functions

CONSTANTS Nodes, Recorded,   \* objects, and the one that is recorded
          TelemetryShapes,   \* the kinds and fields objects may have
          MaxDepth, MaxFields,   \* limits of the sanitizer, the second also for arrays
          StackDepth         \* nested calls after which the stack of the program ends

TelemetryKinds == {"object", "array", "error"}

(* A field has a name that is sensitive or not, and holds an object, a text*)
(* or a text that only sensitive names stand for; an error has its cause.  *)
Values == Nodes \cup {"text", "hidden"}

ASSUME TelemetryAssumption ==
  /\ Recorded \in Nodes
  /\ MaxDepth \in Nat /\ MaxFields \in Nat /\ StackDepth \in Nat
  /\ \A shape \in TelemetryShapes :
       /\ shape.kind \in TelemetryKinds
       /\ shape.fields \in Seq([sensitive : BOOLEAN, value : Values])
       /\ \A i \in DOMAIN shape.fields :
            shape.fields[i].value = "hidden" => shape.fields[i].sensitive

VARIABLE graph   \* per object: its shape

Plain == [kind |-> "object", fields |-> <<>>]

TelemetryTypeOK == graph \in [Nodes -> TelemetryShapes \cup {Plain}]

TelemetryInit == graph = [n \in Nodes |-> Plain]

Build(n, shape) == graph[n] = Plain /\ graph' = [graph EXCEPT ![n] = shape]

TelemetryNext == \E n \in Nodes, shape \in TelemetryShapes : Build(n, shape)

-----------------------------------------------------------------------------
(* A result is the tree that comes out, the objects seen on the way, which *)
(* the whole traversal shares, and whether the stack held.                 *)

Leaf(text, seen) ==
  [out |-> [is |-> text, of |-> "none", parts |-> <<>>], seen |-> seen, held |-> TRUE]

RECURSIVE SanitizeValue(_, _, _, _), SanitizeFields(_, _, _)

SanitizeError(n, depth, calls, seen) ==
  LET cause == SanitizeFields(graph[n].fields, [depth |-> depth + 1, calls |-> calls + 1],
                              [seen |-> seen, parts |-> <<>>, held |-> TRUE])
  IN  [out |-> [is |-> "error", of |-> n, parts |-> cause.parts],
       seen |-> cause.seen, held |-> cause.held]

SanitizeContainer(n, depth, calls, seen) ==
  LET fields == graph[n].fields
      kept == SubSeq(fields, 1, IF Len(fields) < MaxFields THEN Len(fields) ELSE MaxFields)
      all == SanitizeFields(kept, [depth |-> depth + 1, calls |-> calls + 1],
                            [seen |-> seen \cup {n}, parts |-> <<>>, held |-> TRUE])
      cut == IF Len(fields) > MaxFields THEN <<Leaf("[TRUNCATED]", {}).out>> ELSE <<>>
  IN  [out |-> [is |-> graph[n].kind, of |-> n, parts |-> all.parts \o cut],
       seen |-> all.seen, held |-> all.held]

(* An error is looked into before the depth and what was seen are looked at*)
SanitizeValue(v, depth, calls, seen) ==
  IF calls > StackDepth THEN [Leaf("text", seen) EXCEPT !.held = FALSE]
  ELSE IF v \notin Nodes THEN Leaf(v, seen)
  ELSE IF graph[v].kind = "error" THEN SanitizeError(v, depth, calls, seen)
  ELSE IF depth >= MaxDepth THEN Leaf("[MAX_DEPTH]", seen)
  ELSE IF v \in seen THEN Leaf("[CIRCULAR]", seen)
  ELSE SanitizeContainer(v, depth, calls, seen)

(* One field after the other, each with what those before it have seen.    *)
SanitizeFields(fields, at, done) ==
  IF fields = <<>> \/ ~done.held THEN done
  ELSE LET f == Head(fields)
           r == IF f.sensitive THEN Leaf("[REDACTED]", done.seen)
                ELSE SanitizeValue(f.value, at.depth, at.calls, done.seen)
       IN  SanitizeFields(Tail(fields), at,
             [seen |-> r.seen, parts |-> Append(done.parts, r.out), held |-> r.held])

(* A stack that ends is caught, and nothing of the value is recorded.      *)
SanitizeTelemetry ==
  LET result == SanitizeValue(Recorded, 0, 0, {})
  IN  IF result.held THEN result.out ELSE Leaf("Unknown", {}).out

-----------------------------------------------------------------------------
(* Properties.                                                             *)

PartsOf(out) == {out.parts[i] : i \in DOMAIN out.parts}
IsContainer(out) == out.is \in {"object", "array"}

RECURSIVE Within(_), Containers(_), Expansions(_, _)
Within(out) == {out} \cup UNION {Within(inner) : inner \in PartsOf(out)}

(* How many containers are within each other, and how often n is laid out. *)
Containers(out) ==
  (IF IsContainer(out) THEN 1 ELSE 0) + Max({0} \cup {Containers(inner) : inner \in PartsOf(out)})
Expansions(out, n) ==
  (IF IsContainer(out) /\ out.of = n THEN 1 ELSE 0)
    + FoldFunction(+, 0, [i \in DOMAIN out.parts |-> Expansions(out.parts[i], n)])

(* However the value is shared or contains itself, what is recorded has at *)
(* most MaxDepth levels, no level with more than MaxFields entries and a   *)
(* mark, and no object twice; and nothing that stands under a sensitive    *)
(* name is in it.                                                          *)
TelemetryIsBounded ==
  LET out == SanitizeTelemetry
  IN  /\ Containers(out) <= MaxDepth
      /\ \A n \in Nodes : Expansions(out, n) <= 1
      /\ \A inner \in Within(out) :
           /\ Len(inner.parts) <= MaxFields + 1
           /\ inner.is # "hidden"

(* Only a value with an error that is among its own causes is lost.        *)
OnlyEndlessCausesAreLost ==
  LET IsCause(m, n) == graph[n].kind = "error" /\ graph[n].fields # <<>>
                         /\ graph[n].fields[1].value = m
      Causes[k \in Nat, n \in Nodes] ==
        IF k = 0 THEN {n}
        ELSE {m \in Nodes : \E c \in Causes[k - 1, n] : IsCause(m, c)}
  IN  SanitizeTelemetry.is = "Unknown" =>
        \E n \in Nodes, k \in 1 .. Cardinality(Nodes) : n \in Causes[k, n]
=============================================================================
