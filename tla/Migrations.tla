----------------------------- MODULE Migrations -----------------------------
(***************************************************************************)
(* packages/database/src/migrations.ts and migration-compatibility.ts:     *)
(* releases of the application migrate one database, possibly at the same  *)
(* time, each along its own catalogue of reviewed migrations, and ask      *)
(* whether the database is the one they were built for.                    *)
(***************************************************************************)
EXTENDS Integers

CONSTANTS Runners,
          MigrationVersions,    \* versions of migrations, in their order from 1 on
          Checksums,            \* what the SQL of a migration may be, for its checksum
          FileNames,            \* the owner and the name of a migration
          Catalogue,            \* per runner: the migrations its release brings
          EvidenceFrom,         \* the version that adds and fills the compatibility columns
          ReviewedChecksums,    \* what it expects of the rows before it
          ApplicationVersions,  \* schema versions of applications that ask
          NoRunner              \* nobody holds the advisory lock

SemanticVersions == Nat \X Nat \X Nat
Open == <<>>                    \* a bound that is not given, a column that is null
Ranges == [minimum : SemanticVersions \cup {Open}, maximum : SemanticVersions \cup {Open}]
MigrationRows == [checksum : Checksums, name : FileNames, range : Ranges]

ASSUME MigrationsAssumption ==
  /\ MigrationVersions \subseteq Nat \ {0} /\ EvidenceFrom \in MigrationVersions
  /\ ReviewedChecksums \in [{v \in MigrationVersions : v < EvidenceFrom} -> Checksums]
  /\ ApplicationVersions \subseteq SemanticVersions
  /\ \A r \in Runners : \A m \in Catalogue[r] :
       /\ m \in [version : MigrationVersions, checksum : Checksums, name : FileNames,
                 range : Ranges, complete : BOOLEAN, destructive : BOOLEAN,
                 approved : BOOLEAN, drops : BOOLEAN]
       /\ m.range.minimum # Open
  /\ NoRunner \notin Runners

VARIABLES
  holder,     \* the session that holds pg_advisory_lock
  registry,   \* applied_migrations: a row per applied version
  executed,   \* per version: how often its SQL was committed
  runner      \* per runner: where it is, what it has read and what it executes

migrationVars == <<holder, registry, executed, runner>>

Empty == [v \in {} |-> 0]
Ready == [at |-> "idle", seen |-> Empty, next |-> 0]

MigrationsTypeOK ==
  /\ holder \in Runners \cup {NoRunner}
  /\ DOMAIN registry \subseteq MigrationVersions
  /\ \A v \in DOMAIN registry : registry[v] \in MigrationRows
  /\ executed \in [MigrationVersions -> Nat]
  /\ \A r \in Runners :
       /\ runner[r].at \in {"idle", "lock", "read", "next", "begun", "done", "failed",
                            "refused"}
       /\ \A v \in DOMAIN runner[r].seen : runner[r].seen[v] \in Checksums
       /\ runner[r].next \in MigrationVersions \cup {0}

MigrationsInit ==
  /\ holder = NoRunner
  /\ registry = Empty
  /\ executed = [v \in MigrationVersions |-> 0]
  /\ runner = [r \in Runners |-> Ready]

RunnerAt(r, s) == runner[r].at = s
RunnerGoes(r, s) == runner' = [runner EXCEPT ![r].at = s]
Frees(r) == holder' = IF holder = r THEN NoRunner ELSE holder

-----------------------------------------------------------------------------
(* Ranges of application versions.                                         *)

Before(a, b) == \E i \in 1..3 : a[i] < b[i] /\ \A j \in 1..(i - 1) : a[j] = b[j]
Supports(range, a) ==
  ~Before(a, range.minimum) /\ (range.maximum # Open => Before(a, range.maximum))
IsEmptyRange(range) == range.maximum # Open /\ ~Before(range.minimum, range.maximum)
AnyApplication == [minimum |-> <<0, 0, 0>>, maximum |-> Open]
NoRange == [minimum |-> Open, maximum |-> Open]

(* The catalogue of a release, sorted by version.                          *)

Known(r) == {m.version : m \in Catalogue[r]}
Entry(r, v) == CHOOSE m \in Catalogue[r] : m.version = v
Checksum(r, v) == Entry(r, v).checksum
UniqueVersions(r) == \A m, n \in Catalogue[r] : m.version = n.version => m = n

(* What loads: its metadata is complete, its range holds some application, *)
(* and what it drops is declared and approved.                             *)
IsReviewed(m) ==
  /\ m.complete /\ ~IsEmptyRange(m.range)
  /\ m.destructive => m.approved
  /\ m.drops => m.destructive
Loads(r) == UniqueVersions(r) /\ \A m \in Catalogue[r] : IsReviewed(m)

-----------------------------------------------------------------------------
(* A runner. Its session ends with the process, and with it the lock and   *)
(* the transaction.                                                        *)

(* A catalogue with a version twice or a careless migration is refused.    *)
LoadMigrations(r) ==
  /\ RunnerAt(r, "idle")
  /\ RunnerGoes(r, IF Loads(r) THEN "lock" ELSE "refused")
  /\ UNCHANGED <<holder, registry, executed>>

LockIsFree(r) == holder = NoRunner

TakeLock(r) ==
  /\ RunnerAt(r, "lock") /\ LockIsFree(r)
  /\ holder' = r
  /\ RunnerGoes(r, "read")
  /\ UNCHANGED <<registry, executed>>

(* Versions and checksums; a registry that does not exist yet reads as an  *)
(* empty one.                                                              *)
ReadApplied(r) ==
  /\ RunnerAt(r, "read")
  /\ runner' = [runner EXCEPT ![r] =
       [at |-> "next", next |-> 0,
        seen |-> [v \in DOMAIN registry |-> registry[v].checksum]]]
  /\ UNCHANGED <<holder, registry, executed>>

Remaining(r) == {v \in Known(r) : v > runner[r].next}
First(S) == CHOOSE v \in S : \A u \in S : v <= u
Modified(r, v) == v \in DOMAIN runner[r].seen /\ runner[r].seen[v] # Checksum(r, v)

(* What was applied is skipped, and the next one begins its transaction.   *)
BeginMigration(r) ==
  /\ RunnerAt(r, "next")
  /\ LET todo == {v \in Remaining(r) : v \notin DOMAIN runner[r].seen}
     IN /\ todo # {}
        /\ \A v \in Remaining(r) : v < First(todo) => ~Modified(r, v)
        /\ runner' = [runner EXCEPT ![r].at = "begun", ![r].next = First(todo)]
  /\ UNCHANGED <<holder, registry, executed>>

(* An applied migration whose text has changed stops the runner.           *)
FindModified(r) ==
  /\ RunnerAt(r, "next")
  /\ \E v \in Remaining(r) :
       /\ Modified(r, v)
       /\ \A u \in Remaining(r) : u < v => u \in DOMAIN runner[r].seen
  /\ Frees(r)
  /\ RunnerGoes(r, "failed")
  /\ UNCHANGED <<registry, executed>>

(* A row is written with its range once the columns are there. The         *)
(* migration that adds them fills in the rows whose text it knows, and     *)
(* fails when there is another one.                                        *)
RowOf(r, v) ==
  [checksum |-> Checksum(r, v), name |-> Entry(r, v).name,
   range |-> IF v >= EvidenceFrom THEN Entry(r, v).range ELSE NoRange]
Earlier == {v \in DOMAIN registry : v < EvidenceFrom}
ColumnsAreThere(v) ==
  /\ v > EvidenceFrom => EvidenceFrom \in DOMAIN registry
  /\ v = EvidenceFrom => \A u \in Earlier : registry[u].checksum = ReviewedChecksums[u]
Filled(v, u) ==
  IF v = EvidenceFrom /\ u \in Earlier THEN [registry[u] EXCEPT !.range = AnyApplication]
  ELSE registry[u]

(* The migration and its row are committed together; when the answer is    *)
(* lost the runner fails all the same.                                     *)
CommitMigration(r) ==
  /\ RunnerAt(r, "begun")
  /\ LET v == runner[r].next
     IN /\ v \notin DOMAIN registry
        /\ ColumnsAreThere(v)
        /\ registry' = [u \in DOMAIN registry \cup {v} |->
                          IF u = v THEN RowOf(r, v) ELSE Filled(v, u)]
        /\ executed' = [executed EXCEPT ![v] = @ + 1]
  /\ \/ RunnerGoes(r, "next") /\ UNCHANGED holder
     \/ RunnerGoes(r, "failed") /\ Frees(r)

(* The migration fails and is rolled back, or the process ends.            *)
RunnerFails(r) ==
  /\ runner[r].at \in {"lock", "read", "next", "begun"}
  /\ Frees(r)
  /\ RunnerGoes(r, "failed")
  /\ UNCHANGED <<registry, executed>>

FinishMigrations(r) ==
  /\ RunnerAt(r, "next")
  /\ \A v \in Remaining(r) : v \in DOMAIN runner[r].seen /\ ~Modified(r, v)
  /\ Frees(r)
  /\ RunnerGoes(r, "done")
  /\ UNCHANGED <<registry, executed>>

(* The deployment runs it again.                                           *)
RunAgain(r) ==
  /\ runner[r].at \in {"failed", "done"}
  /\ runner' = [runner EXCEPT ![r] = Ready]
  /\ UNCHANGED <<holder, registry, executed>>

MigrationsNext ==
  \E r \in Runners :
    \/ LoadMigrations(r) \/ TakeLock(r) \/ ReadApplied(r)
    \/ BeginMigration(r) \/ FindModified(r) \/ CommitMigration(r)
    \/ RunnerFails(r) \/ FinishMigrations(r) \/ RunAgain(r)

MigrationsSpec == MigrationsInit /\ [][MigrationsNext]_migrationVars

-----------------------------------------------------------------------------
(* The compatibility check of an application of version a that is built    *)
(* with the release of runner r.                                           *)

EvidenceIssue(r, a, v) ==
  LET range == registry[v].range
  IN CASE range.minimum = Open                     -> {"compatibility-evidence-unavailable"}
       [] range \notin {NoRange, Entry(r, v).range} -> {"compatibility-evidence-mismatch"}
       [] OTHER -> {k \in {"application-schema-version-unsupported"} : ~Supports(range, a)}

IssuesOf(r, a, v) ==
  CASE v \notin DOMAIN registry -> {"missing-migration"}
    [] v \notin Known(r) -> {"unknown-applied-migration"}
    [] OTHER -> EvidenceIssue(r, a, v)
         \cup {k \in {"checksum-mismatch"} : registry[v].checksum # Checksum(r, v)}
         \cup {k \in {"record-mismatch"} : registry[v].name # Entry(r, v).name}

Issues(r, a) ==
  UNION {{<<k, v>> : k \in IssuesOf(r, a, v)} : v \in Known(r) \cup DOMAIN registry}
IsCompatible(r, a) == Issues(r, a) = {}

-----------------------------------------------------------------------------
(* Properties.                                                             *)

(* Whoever runs, crashes and runs again at the same time: a migration is   *)
(* executed once, together with its row.                                   *)
ExecutedOnce ==
  \A v \in MigrationVersions : executed[v] = IF v \in DOMAIN registry THEN 1 ELSE 0

(* What is executed was reviewed: SQL that drops something was approved in *)
(* a release that brings it, also when another release that is not         *)
(* reviewed brings the same version; and a row from before the columns has *)
(* a range only when its text is the one that was reviewed.                *)
ExecutedIsReviewed ==
  \A v \in DOMAIN registry :
    /\ \E r \in Runners : \E m \in Catalogue[r] :
         /\ m.version = v /\ m.checksum = registry[v].checksum
         /\ m.drops => m.approved
    /\ v < EvidenceFrom /\ registry[v].range # NoRange =>
         registry[v].checksum = ReviewedChecksums[v]

(* A reference for the order of versions: the first part that differs.     *)
Precedes(a, b) ==
  \/ a[1] < b[1]
  \/ a[1] = b[1] /\ (a[2] < b[2] \/ (a[2] = b[2] /\ a[3] < b[3]))
IsMeantFor(m, a) ==
  /\ ~Precedes(a, m.range.minimum)
  /\ m.range.maximum # Open => Precedes(a, m.range.maximum)

(* From then on a release whose migrations have run finds none of them     *)
(* missing or changed. A range differs only when releases disagree about   *)
(* it, for the checksum is of the SQL alone, or when the migration that    *)
(* added the columns filled in another one; it lacks only in a release     *)
(* without that migration, or of a migration that a release which brings   *)
(* that one is without.                                                    *)
MigratedIsFound ==
  \A r \in Runners, a \in ApplicationVersions : RunnerAt(r, "done") =>
    \A i \in Issues(r, a) :
      \/ i[1] = "unknown-applied-migration"
      \/ i[1] = "application-schema-version-unsupported"
           /\ ~IsMeantFor(Entry(r, i[2]), a)
      \/ /\ i[1] = "compatibility-evidence-unavailable"
         /\ \/ EvidenceFrom \notin Known(r)
            \/ \E o \in Runners : EvidenceFrom \in Known(o) /\ i[2] \notin Known(o)
      \/ /\ i[1] \in {"compatibility-evidence-mismatch", "record-mismatch"}
         /\ \/ \E o \in Runners : \E m \in Catalogue[o] :
                 /\ m.version = i[2] /\ m.checksum = Checksum(r, i[2])
                 /\ m # Entry(r, i[2])
            \/ i[2] < EvidenceFrom /\ Entry(r, i[2]).range # AnyApplication

(* An application that finds no issue runs on a database in which exactly  *)
(* the migrations of its release were executed, each for applications of   *)
(* its version.                                                            *)
CompatibleIsMigrated ==
  \A r \in Runners, a \in ApplicationVersions : Loads(r) /\ IsCompatible(r, a) =>
    /\ \A v \in MigrationVersions : executed[v] = IF v \in Known(r) THEN 1 ELSE 0
    /\ \A m \in Catalogue[r] : IsMeantFor(m, a)

(* A release of the repository can migrate: none of its catalogues is      *)
(* refused before it has begun.                                            *)
ReleaseMigrates == \A r \in Runners : ~RunnerAt(r, "refused")
=============================================================================
