------------------------------ MODULE Directory ------------------------------
(***************************************************************************)
(* The organisation directory: departments below departments and positions *)
(* below departments, as administrators create, rename, move, disable and  *)
(* restore them. The service checks a command by reads that take no lock;  *)
(* what it writes is guarded by the revision, two unique indexes, the check*)
(* of a root and a trigger that walks up the hierarchy under one lock. A   *)
(* command is one READ COMMITTED transaction, which may fail anywhere.     *)
(***************************************************************************)
EXTENDS Naturals, FiniteSets

CONSTANTS Entries,            \* ids of departments and positions
          EntryNames,         \* their names, normalised
          TopLevel,           \* the parent of a department that has none
          KeepParent,         \* of an update that does not move
          DirectoryRequests,  \* requests that are handled at a time
          DirectoryOperations,
          DirectoryCommands,  \* bound: the commands that are sent
          FirstEntries,       \* the directory as it was set up
          MaxEntryRevision    \* bound

VARIABLES
  entries,           \* *_directory: the row of each id, or NoRow
  entryHistory,      \* *_directory_history, and the operation that wrote it
  directoryReceipts, \* directory_operation_receipts: operation and fingerprint
  directoryOf        \* per request: its command, its step and the row it has written

directoryVars == <<entries, entryHistory, directoryReceipts, directoryOf>>

NoRow == [sort |-> "none"]
EntryRows == [sort : {"department", "position"}, name : EntryNames, above : Entries \cup {TopLevel},
              active : BOOLEAN, locked : BOOLEAN, revision : 0 .. MaxEntryRevision]
DirectoryIdle == [step |-> "idle"]
DirectoryStates ==
  {DirectoryIdle}
    \cup [step : {"begun", "checked"}, command : DirectoryCommands]
    \cup [step : {"written"}, command : DirectoryCommands, row : EntryRows]

DirectoryTypeOK ==
  /\ entries \in [Entries -> EntryRows \cup {NoRow}]
  /\ entryHistory \subseteq [op : DirectoryOperations \cup {"setup"}, id : Entries, row : EntryRows]
  /\ directoryReceipts \subseteq DirectoryCommands
  /\ directoryOf \in [DirectoryRequests -> DirectoryStates]

DirectoryInit ==
  /\ entries = [d \in Entries |-> IF d \in DOMAIN FirstEntries THEN FirstEntries[d] ELSE NoRow]
  /\ entryHistory =
       {[op |-> "setup", id |-> d, row |-> FirstEntries[d]] : d \in DOMAIN FirstEntries}
  /\ directoryReceipts = {}
  /\ directoryOf = [q \in DirectoryRequests |-> DirectoryIdle]

IsEntry(d) == entries[d] # NoRow
Enabled(d) == IsEntry(d) /\ entries[d].active

(* What is reached from u along the edges E in V, with u itself.           *)
Reached(V, E, u) ==
  {x \in V : \A S \in SUBSET V :
     u \in S /\ (\A e \in E : e[1] \in S => e[2] \in S) => x \in S}

(* No edge leads to what it is reached from.                               *)
IsHierarchy(V, E) == \A e \in E : e[1] \notin Reached(V, E, e[2])

EntryPlaces == Entries \cup {TopLevel}
LinksOf(rows) == {<<d, rows[d].above>> : d \in {e \in DOMAIN rows : rows[e] # NoRow}}

(* The ids from one up to the top, over the rows that are committed.       *)
Upwards(d) == Reached(EntryPlaces, LinksOf(entries), d)

-----------------------------------------------------------------------------
(* The service.                                                            *)

BeginDirectory(q, c) ==
  /\ directoryOf[q].step = "idle"
  /\ directoryOf' = [directoryOf EXCEPT ![q] = [step |-> "begun", command |-> c]]
  /\ UNCHANGED <<entries, entryHistory, directoryReceipts>>

MayCreate(c) == c.above # TopLevel => Enabled(c.above)

(* A root is not moved, nothing is moved below itself or what is disabled. *)
MayUpdate(c) ==
  /\ IsEntry(c.id)
  /\ c.above # KeepParent =>
       /\ ~entries[c.id].locked
       /\ c.above # TopLevel => Enabled(c.above) /\ c.id \notin Upwards(c.above)

MayDisable(c) ==
  /\ IsEntry(c.id) /\ ~entries[c.id].locked
  /\ \A d \in Entries : Enabled(d) => entries[d].above # c.id

MayRestore(c) ==
  IsEntry(c.id) /\ (entries[c.id].above # TopLevel => Enabled(entries[c.id].above))

Permissible(c) ==
  CASE c.kind = "create" -> MayCreate(c)
    [] c.kind = "update" -> MayUpdate(c)
    [] c.kind = "disable" -> MayDisable(c)
    [] c.kind = "restore" -> MayRestore(c)

(* Where nobody is assigned to it, or the command restores it.             *)
CheckDirectory(q) ==
  /\ directoryOf[q].step = "begun"
  /\ Permissible(directoryOf[q].command)
  /\ directoryOf' = [directoryOf EXCEPT ![q].step = "checked"]
  /\ UNCHANGED <<entries, entryHistory, directoryReceipts>>

(* It is refused, or the database fails: what was written is rolled back.  *)
RefuseDirectory(q) ==
  /\ directoryOf[q].step # "idle"
  /\ directoryOf' = [directoryOf EXCEPT ![q] = DirectoryIdle]
  /\ UNCHANGED <<entries, entryHistory, directoryReceipts>>

-----------------------------------------------------------------------------
(* The store.                                                              *)

RowAfter(c) ==
  IF c.kind = "create"
    THEN [sort |-> c.sort, name |-> c.name, above |-> c.above, active |-> TRUE, locked |-> FALSE,
          revision |-> 0]
    ELSE LET row == entries[c.id]
             next == [row EXCEPT !.revision = row.revision + 1]
         IN  IF c.kind = "update"
               THEN [next EXCEPT !.name = c.name,
                                 !.above = IF c.above = KeepParent THEN row.above ELSE c.above]
               ELSE [next EXCEPT !.active = c.kind = "restore"]

(* The insert, or the update where the revision is still the expected one. *)
RowIsThere(c) ==
  IF c.kind = "create" THEN ~IsEntry(c.id)
                       ELSE IsEntry(c.id) /\ entries[c.id].revision = c.expected

(* The unique indexes are over the active rows.                            *)
SameKey(row, other) ==
  /\ row.active /\ other.active
  /\ row.sort = other.sort /\ row.above = other.above /\ row.name = other.name

(* A command is one of these; positions and departments are in tables of   *)
(* their own, and only a department is above anything. The directory is set*)
(* up in order.                                                            *)
DirectoryCreates ==
  [op : DirectoryOperations, kind : {"create"}, sort : {"department", "position"}, id : Entries,
   name : EntryNames, above : EntryPlaces]
DirectoryUpdates ==
  [op : DirectoryOperations, kind : {"update"}, id : Entries, expected : 0 .. MaxEntryRevision,
   name : EntryNames, above : EntryPlaces \cup {KeepParent}]
DirectoryTurns ==
  [op : DirectoryOperations, kind : {"disable", "restore"}, id : Entries,
   expected : 0 .. MaxEntryRevision]
PostIds ==
  {c.id : c \in {d \in DirectoryCommands : d.kind = "create" /\ d.sort = "position"}}
    \cup {d \in DOMAIN FirstEntries : FirstEntries[d].sort = "position"}

ASSUME DirectoryAssumption ==
  /\ TopLevel \notin Entries /\ KeepParent \notin EntryPlaces
  /\ MaxEntryRevision \in Nat /\ "setup" \notin DirectoryOperations
  /\ DirectoryCommands \subseteq DirectoryCreates \cup DirectoryUpdates \cup DirectoryTurns
  /\ \A c \in DirectoryCommands : c.kind \in {"create", "update"} => c.above \notin PostIds
  /\ DOMAIN FirstEntries \subseteq Entries
  /\ \A d \in DOMAIN FirstEntries :
       /\ FirstEntries[d] \in EntryRows /\ FirstEntries[d].revision = 0
       /\ FirstEntries[d].above \notin PostIds
       /\ FirstEntries[d].locked => FirstEntries[d].active
  /\ IsHierarchy(EntryPlaces, LinksOf(FirstEntries))
  /\ \A d, e \in DOMAIN FirstEntries : SameKey(FirstEntries[d], FirstEntries[e]) => d = e

WritesParent(c) == c.kind \in {"create", "update"} /\ RowAfter(c).above # TopLevel

(* The trigger fires where the parent is written, on departments.          *)
Walked(c) == WritesParent(c) /\ RowAfter(c).sort = "department"

(* Two transactions wait for each other where they insert one receipt, one *)
(* row or one key, where one has yet to free a key, and for the trigger.   *)
WaitsFor(c, p) ==
  /\ directoryOf[p].step = "written"
  /\ LET other == directoryOf[p].command
     IN  \/ other.op = c.op \/ other.id = c.id
         \/ SameKey(RowAfter(c), directoryOf[p].row)
         \/ IsEntry(other.id) /\ SameKey(RowAfter(c), entries[other.id])
         \/ Walked(c) /\ Walked(other)

Violated(c, row) ==
  \/ \E d \in Entries \ {c.id} : IsEntry(d) /\ SameKey(row, entries[d])
  \/ row.locked /\ ~row.active
  \/ row.above = c.id
  \/ Walked(c) /\ c.id \in Upwards(row.above)

WriteDirectory(q) ==
  LET c == directoryOf[q].command
  IN  /\ directoryOf[q].step = "checked"
      /\ \A r \in directoryReceipts : r.op # c.op
      /\ RowIsThere(c)
      /\ \A p \in DirectoryRequests \ {q} : ~WaitsFor(c, p)
      /\ RowAfter(c).revision <= MaxEntryRevision
      /\ ~Violated(c, RowAfter(c))
      /\ directoryOf' = [directoryOf EXCEPT
           ![q] = [step |-> "written", command |-> c, row |-> RowAfter(c)]]
      /\ UNCHANGED <<entries, entryHistory, directoryReceipts>>

(* An operation that is on record answers as it did, under its content.    *)
ReplayDirectory(q) ==
  /\ directoryOf[q].step = "checked"
  /\ directoryOf[q].command \in directoryReceipts
  /\ directoryOf' = [directoryOf EXCEPT ![q] = DirectoryIdle]
  /\ UNCHANGED <<entries, entryHistory, directoryReceipts>>

CommitDirectory(q) ==
  /\ directoryOf[q].step = "written"
  /\ LET c == directoryOf[q].command
         row == directoryOf[q].row
     IN  /\ entries' = [entries EXCEPT ![c.id] = row]
         /\ entryHistory' = entryHistory \cup {[op |-> c.op, id |-> c.id, row |-> row]}
         /\ directoryReceipts' = directoryReceipts \cup {c}
  /\ directoryOf' = [directoryOf EXCEPT ![q] = DirectoryIdle]

DirectoryNext ==
  \E q \in DirectoryRequests :
    \/ \E c \in DirectoryCommands : BeginDirectory(q, c)
    \/ CheckDirectory(q) \/ RefuseDirectory(q)
    \/ WriteDirectory(q) \/ ReplayDirectory(q) \/ CommitDirectory(q)

DirectorySpec == DirectoryInit /\ [][DirectoryNext]_directoryVars

-----------------------------------------------------------------------------
(* Properties.                                                             *)

(* No department is below itself, although two administrators may each     *)
(* move one below the other's after checks that both passed.               *)
NothingIsBelowItself ==
  \A d \in Entries : IsEntry(d) /\ entries[d].above # TopLevel => d \notin Upwards(entries[d].above)

(* Two active departments below one, or positions of one, differ in name.  *)
SiblingsDiffer ==
  \A d, e \in Entries : IsEntry(d) /\ IsEntry(e) /\ SameKey(entries[d], entries[e]) => d = e

(* A root stays where it was set up, and active.                           *)
RootsStay ==
  \A d \in DOMAIN FirstEntries :
    FirstEntries[d].locked => entries[d].active /\ entries[d].above = FirstEntries[d].above

(* The history has each revision of a row once, the present one as it is,  *)
(* and a row is written by who has seen the revision before: of two who    *)
(* edit one revision one is refused. However often an operation is sent it *)
(* writes once.                                                            *)
RevisionsAreKept ==
  /\ \A d \in Entries :
       LET kept == {h \in entryHistory : h.id = d}
       IN  /\ IsEntry(d) => entries[d] \in {h.row : h \in kept}
           /\ {h.row.revision : h \in kept} = IF IsEntry(d) THEN 0 .. entries[d].revision ELSE {}
           /\ \A g, h \in kept : g.row.revision = h.row.revision => g = h
           /\ \A h \in kept, c \in directoryReceipts :
                c.op = h.op /\ c.kind # "create" => h.row.revision = c.expected + 1
  /\ \A g, h \in entryHistory : g.op = h.op /\ g.op # "setup" => g = h
=============================================================================
