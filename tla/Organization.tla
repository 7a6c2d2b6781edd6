---------------------------- MODULE Organization ----------------------------
(***************************************************************************)
(* packages/crm-modules/organization: the hierarchy of organisation units. *)
(* A placement puts a unit under a parent for an interval of time. The     *)
(* service looks for a cycle before the transaction; the transaction claims*)
(* the operation id, and a trigger of the database locks the hierarchy and *)
(* looks again.                                                            *)
(***************************************************************************)
EXTENDS Naturals

CONSTANTS Units, Root,        \* organisation units; what a unit without a parent has
          PlacementIds,
          OrganizationRequests,   \* commands under way
          OrganizationOperations, \* operation ids
          OrganizationCommands,   \* the commands, with their operation ids
          EndOfTime           \* bound: time; open intervals end here

Instants == 0 .. EndOfTime

CommandsOfOrganization ==
  [op : OrganizationOperations, kind : {"create", "place"}, id : PlacementIds, unit : Units, parent : Units \cup {Root},
   from : Instants, to : Instants]
    \cup [op : OrganizationOperations, kind : {"close"}, id : PlacementIds, to : Instants]

ASSUME OrganizationAssumption ==
  /\ Root \notin Units /\ EndOfTime \in Nat \ {0}
  /\ OrganizationCommands \subseteq CommandsOfOrganization
  /\ \A c \in OrganizationCommands : c.kind # "close" => c.from < c.to

VARIABLES
  units,       \* organization_units
  placements,  \* organization_unit_placements
  organizationReceipts, \* operation_receipts: the command, which the fingerprint is of
  handling,    \* per request: the command and how far it is
  written      \* history, per operation: how often its write was committed

organizationVars == <<units, placements, organizationReceipts, handling, written>>

NoPlacement == [unit |-> Root]
NoReceipt == [kind |-> "none"]
NotHandling == [stage |-> "idle"]

OrganizationTypeOK ==
  /\ units \subseteq Units
  /\ placements \in [PlacementIds -> {NoPlacement} \cup
       [unit : Units, parent : Units \cup {Root}, from : Instants, to : Instants]]
  /\ organizationReceipts \in [OrganizationOperations -> {NoReceipt} \cup OrganizationCommands]
  /\ handling \in [OrganizationRequests -> {NotHandling} \cup
       [stage : {"checked", "claimed", "written"}, command : OrganizationCommands]]
  /\ written \in [OrganizationOperations -> Nat]

OrganizationInit ==
  /\ units = {}
  /\ placements = [p \in PlacementIds |-> NoPlacement]
  /\ organizationReceipts = [o \in OrganizationOperations |-> NoReceipt]
  /\ handling = [r \in OrganizationRequests |-> NotHandling]
  /\ written = [o \in OrganizationOperations |-> 0]

-----------------------------------------------------------------------------
(* The hierarchy.                                                          *)

Placed == {p \in PlacementIds : placements[p] # NoPlacement}
ActiveAt(p, t) == p \in Placed /\ placements[p].from <= t /\ t < placements[p].to
ParentsAt(u, t) == {placements[p].parent : p \in {q \in Placed : ActiveAt(q, t) /\ placements[q].unit = u}}

(* The ancestors of a unit with the unit itself: what every set has that   *)
(* has the unit and, with each of its units, the parents.                  *)
AncestorsAt(u, t) ==
  {x \in Units : \A S \in SUBSET Units :
     u \in S /\ (\A y \in S : ParentsAt(y, t) \ {Root} \subseteq S) => x \in S}

(* The hierarchy changes under a new placement where another one begins.   *)
Checkpoints(c) ==
  {c.from} \cup {t \in Instants : c.from < t /\ t < c.to /\ \E p \in Placed : placements[p].from = t}

Acyclic(c) ==
  c.parent # Root => \A t \in Checkpoints(c) : c.unit \notin AncestorsAt(c.parent, t)

(* The service also wants every ancestor to have exactly one placement.    *)
PathsAreValid(c) ==
  c.parent # Root =>
    \A t \in Checkpoints(c), u \in Units : u \in AncestorsAt(c.parent, t) =>
      \E p \in Placed : ActiveAt(p, t) /\ placements[p].unit = u

NoOverlap(c) ==
  \A p \in Placed : placements[p].unit = c.unit /\ p # c.id =>
    placements[p].to <= c.from \/ c.to <= placements[p].from

-----------------------------------------------------------------------------
(* A command.                                                              *)

Goes(r, s) == handling' = [handling EXCEPT ![r].stage = s]
Done(r) == handling' = [handling EXCEPT ![r] = NotHandling]

(* What the service checks of what it reads before the transaction.        *)
ServiceAllows(c) ==
  CASE c.kind = "create" -> c.parent = Root \/ (c.parent \in units /\ PathsAreValid(c))
    [] c.kind = "place" -> c.unit \in units /\ Acyclic(c) /\ PathsAreValid(c)
    [] OTHER -> c.id \in Placed /\ placements[c.id].from < c.to
                  /\ placements[c.id].to \in {c.to, EndOfTime}

Check(r, c) ==
  /\ handling[r] = NotHandling /\ ServiceAllows(c)
  /\ handling' = [handling EXCEPT ![r] = [stage |-> "checked", command |-> c]]
  /\ UNCHANGED <<units, placements, organizationReceipts, written>>

(* The receipt is inserted; a rival with the same operation id waits. One  *)
(* that is there ends the command: as a replay, or as a conflict.          *)
ClaimOperation(r) ==
  /\ handling[r].stage = "checked"
  /\ \A q \in OrganizationRequests : handling[q].stage \in {"claimed", "written"} =>
       handling[q].command.op # handling[r].command.op
  /\ IF organizationReceipts[handling[r].command.op] = NoReceipt THEN Goes(r, "claimed") ELSE Done(r)
  /\ UNCHANGED <<units, placements, organizationReceipts, written>>

HierarchyFree == \A q \in OrganizationRequests : handling[q].stage # "written"

(* What the tables and the trigger allow.                                  *)
TriggerAllows(c) ==
  CASE c.kind = "create" -> c.unit \notin units /\ c.id \notin Placed /\ NoOverlap(c) /\ Acyclic(c)
    [] c.kind = "place" -> c.id \notin Placed /\ NoOverlap(c) /\ Acyclic(c)
    [] OTHER -> c.id \in Placed /\ placements[c.id].from < c.to
                  /\ placements[c.id].to \in {c.to, EndOfTime}

Write(r) ==
  /\ handling[r].stage = "claimed"
  /\ HierarchyFree /\ TriggerAllows(handling[r].command)
  /\ Goes(r, "written")
  /\ UNCHANGED <<units, placements, organizationReceipts, written>>

CommitWrite(r) ==
  /\ handling[r].stage = "written"
  /\ LET c == handling[r].command
     IN /\ placements' = [placements EXCEPT ![c.id] =
             IF c.kind = "close" THEN [@ EXCEPT !.to = c.to]
             ELSE [unit |-> c.unit, parent |-> c.parent, from |-> c.from, to |-> c.to]]
        /\ units' = IF c.kind = "create" THEN units \cup {c.unit} ELSE units
        /\ organizationReceipts' = [organizationReceipts EXCEPT ![handling[r].command.op] = c]
  /\ written' = [written EXCEPT ![handling[r].command.op] = @ + 1]
  /\ Done(r)

(* A conflict, a lost connection or a crash.                               *)
RollBackWrite(r) ==
  /\ handling[r] # NotHandling
  /\ Done(r)
  /\ UNCHANGED <<units, placements, organizationReceipts, written>>

OrganizationNext ==
  \E r \in OrganizationRequests :
    \/ ClaimOperation(r) \/ Write(r) \/ CommitWrite(r) \/ RollBackWrite(r)
    \/ \E c \in OrganizationCommands : Check(r, c)

OrganizationSpec == OrganizationInit /\ [][OrganizationNext]_organizationVars

-----------------------------------------------------------------------------
(* Properties.                                                             *)

(* At no time is a unit among its own ancestors, and at no time has it two *)
(* parents: however commands race that were allowed one by one, and        *)
(* although a cycle is looked for at a few instants of an interval only.   *)
HierarchyIsSound ==
  \A t \in Instants, u \in Units :
    /\ \A x \in ParentsAt(u, t) \ {Root} : u \notin AncestorsAt(x, t)
    /\ \A p, q \in Placed :
         ActiveAt(p, t) /\ ActiveAt(q, t) /\ placements[p].unit = u /\ placements[q].unit = u => p = q

(* A command is written at most once under its operation id.               *)
WrittenOnce == \A o \in OrganizationOperations : written[o] <= 1

-----------------------------------------------------------------------------
(***************************************************************************)
(* Employments, positions and assignments of the organisation core, each in*)
(* force for an interval of time: created once, closed once, never changed *)
(* otherwise. The service checks a command by reads that take no lock. The *)
(* context of a person, what it is employed and assigned as at an instant, *)
(* is read in several statements while commands go on.                     *)
(***************************************************************************)

CONSTANTS EmploymentIds, PositionIds, AssignmentIds,
          FactRequests,   \* commands that are handled at a time
          FactCommands,   \* bound: the commands that are sent, with operation ids
          ContextReaders, \* contexts that are resolved at a time
          OpenEnded       \* bound on time: intervals without an end reach it

FactIds == EmploymentIds \cup PositionIds \cup AssignmentIds
FactTimes == 0 .. OpenEnded
FactOperations == {c.op : c \in FactCommands}

CommandsOfFacts ==
  [op : FactOperations, kind : {"create"}, id : EmploymentIds \cup PositionIds,
   from : FactTimes, to : FactTimes]
    \cup [op : FactOperations, kind : {"create"}, id : AssignmentIds, from : FactTimes, to : FactTimes,
          employment : EmploymentIds, position : PositionIds]
    \cup [op : FactOperations, kind : {"close"}, id : FactIds, to : FactTimes \ {OpenEnded}]

ASSUME FactsAssumption ==
  /\ OpenEnded \in Nat
  /\ AssignmentIds \cap (EmploymentIds \cup PositionIds) = {}
  /\ FactCommands \subseteq CommandsOfFacts
  /\ \A c \in FactCommands : c.kind = "create" => c.from < c.to

VARIABLES
  coreFacts,     \* employments, positions and assignments
  factReceipts,  \* operation_receipts
  factOf,        \* per request: its command and step
  resolving      \* per reader: the context it resolves, or resolved last

factVars == <<coreFacts, factReceipts, factOf, resolving>>

NoInterval == [from |-> OpenEnded, to |-> OpenEnded]
FactIdle == [step |-> "idle"]
NotResolving == [step |-> "none", at |-> OpenEnded, employments |-> {}, assignments |-> {}]

FactsTypeOK ==
  /\ coreFacts \in [FactIds -> {NoInterval} \cup {c \in CommandsOfFacts : c.kind = "create"}]
  /\ factReceipts \subseteq FactCommands
  /\ factOf \in [FactRequests ->
       {FactIdle} \cup [step : {"checked", "written"}, command : FactCommands]]
  /\ resolving \in [ContextReaders ->
       [step : {"none", "read", "answered"}, at : FactTimes,
        employments : SUBSET EmploymentIds, assignments : SUBSET AssignmentIds]]

FactsInit ==
  /\ coreFacts = [f \in FactIds |-> NoInterval]
  /\ factReceipts = {}
  /\ factOf = [r \in FactRequests |-> FactIdle]
  /\ resolving = [x \in ContextReaders |-> NotResolving]

InForce(f, t) == coreFacts[f].from <= t /\ t < coreFacts[f].to
Contains(f, c) == coreFacts[f].from <= c.from /\ c.to <= coreFacts[f].to

-----------------------------------------------------------------------------
(* Commands.                                                               *)

MayEnd(c) == coreFacts[c.id].from < c.to /\ coreFacts[c.id].to \in {c.to, OpenEnded}

ServiceAccepts(c) ==
  IF c.kind = "close" THEN coreFacts[c.id] # NoInterval /\ MayEnd(c)
  ELSE c.id \in AssignmentIds =>
         /\ coreFacts[c.employment] # NoInterval /\ Contains(c.employment, c)
         /\ coreFacts[c.position] # NoInterval /\ Contains(c.position, c)

BeginFact(r, c) ==
  /\ factOf[r] = FactIdle
  /\ ServiceAccepts(c)
  /\ factOf' = [factOf EXCEPT ![r] = [step |-> "checked", command |-> c]]
  /\ UNCHANGED <<coreFacts, factReceipts, resolving>>

(* One statement waits for the other on the receipt or on the row. A close *)
(* does not change an end that is there.                                   *)
WriteFact(r) ==
  LET c == factOf[r].command
  IN  /\ factOf[r].step = "checked"
      /\ \A p \in FactRequests : factOf[p].step = "written" =>
           factOf[p].command.op # c.op /\ factOf[p].command.id # c.id
      /\ \A x \in factReceipts : x.op # c.op
      /\ IF c.kind = "create" THEN coreFacts[c.id] = NoInterval ELSE MayEnd(c)
      /\ factOf' = [factOf EXCEPT ![r].step = "written"]
      /\ UNCHANGED <<coreFacts, factReceipts, resolving>>

CommitFact(r) ==
  LET c == factOf[r].command
  IN  /\ factOf[r].step = "written"
      /\ coreFacts' = [coreFacts EXCEPT ![c.id] =
                      IF c.kind = "create" THEN c ELSE [@ EXCEPT !.to = c.to]]
      /\ factReceipts' = factReceipts \cup {c}
      /\ factOf' = [factOf EXCEPT ![r] = FactIdle]
      /\ UNCHANGED resolving

(* A replay, a conflict, or a failure that rolls back.                     *)
EndFact(r) ==
  /\ factOf[r] # FactIdle
  /\ factOf' = [factOf EXCEPT ![r] = FactIdle]
  /\ UNCHANGED <<coreFacts, factReceipts, resolving>>

-----------------------------------------------------------------------------
(* The context of a person.                                                *)

ReadEmployments(x, t) ==
  /\ resolving[x].step # "read"
  /\ LET active == {e \in EmploymentIds : InForce(e, t)}
     IN  /\ active # {}
         /\ resolving' = [resolving EXCEPT ![x] =
              [step |-> "read", at |-> t, employments |-> active, assignments |-> {}]]
  /\ UNCHANGED <<coreFacts, factReceipts, factOf>>

(* Assignments of an employment that was not read are left out, although   *)
(* they are in force; a position that is not in force is a failure.        *)
AssignmentsRead(x) ==
  {a \in AssignmentIds : InForce(a, resolving[x].at)
                           /\ coreFacts[a].employment \in resolving[x].employments}

ReadAssignments(x) ==
  LET found == AssignmentsRead(x)
  IN  /\ resolving[x].step = "read"
      /\ resolving' = [resolving EXCEPT ![x] =
           IF \A a \in found : InForce(coreFacts[a].position, @.at)
             THEN [@ EXCEPT !.step = "answered", !.assignments = found]
             ELSE NotResolving]
      /\ UNCHANGED <<coreFacts, factReceipts, factOf>>

FactsNext ==
  \/ \E r \in FactRequests :
       \/ \E c \in FactCommands : BeginFact(r, c)
       \/ WriteFact(r) \/ CommitFact(r) \/ EndFact(r)
  \/ \E x \in ContextReaders :
       ReadAssignments(x) \/ \E t \in FactTimes \ {OpenEnded} : ReadEmployments(x, t)

FactsSpec == FactsInit /\ [][FactsNext]_factVars

-----------------------------------------------------------------------------
(* Properties.                                                             *)

(* The end of a fact is set once: of two commands that close it at other   *)
(* instants, both found open, one fails.                                   *)
EndedOnce ==
  \A x, y \in factReceipts : x.kind = "close" /\ y.kind = "close" /\ x.id = y.id => x.to = y.to

(* A context that was answered lists only assignments of the employments   *)
(* it lists, although an assignment can outlast the employment that was    *)
(* closed beside it, also between the two reads.                           *)
ContextIsVouched ==
  \A x \in ContextReaders : resolving[x].step = "answered" =>
    \A a \in resolving[x].assignments : coreFacts[a].employment \in resolving[x].employments
=============================================================================
