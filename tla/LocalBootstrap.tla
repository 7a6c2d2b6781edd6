--------------------------- MODULE LocalBootstrap ---------------------------
(***************************************************************************)
(* scripts/bootstrap: the commands that set up a local installation. Each  *)
(* one is a process that first prepares the secret files; they are run in  *)
(* any order, again, at the same time, and are interrupted anywhere. A     *)
(* secret is a number in the order of drawing, and 0 an empty file.        *)
(***************************************************************************)
EXTENDS Naturals

CONSTANTS Shells,    \* where commands are run
          Asks,      \* bound: per shell, the commands that are run there
          MaxDrawn   \* bound: the random secrets drawn

VARIABLES
  drawn,           \* how many random secrets were drawn
  secretFile,      \* per name: absent, empty or the secret
  urlFile,         \* per URL file: absent, empty or the password in it
  cluster,         \* the database: set up, migrated, and with which passwords
  installed,   \* its system administrator: none, as created or changed since
  lockedBy,        \* the shell whose bootstrap holds the advisory lock
  shellRun          \* per shell: the command, where it is and what it has read

localVars == <<drawn, secretFile, urlFile, cluster, installed, lockedBy, shellRun>>

NoFile == MaxDrawn + 1
NoUrl == [state |-> "absent", password |-> 0]
EmptyUrl == [state |-> "empty", password |-> 0]
UrlWith(v) == [state |-> "url", password |-> v]

LocalSecrets == {"migration", "app", "admin"}
UrlFiles == {"migration", "app"}
NameAfter(s) == IF s = "migration" THEN "app" ELSE "admin"

SetUpCommands == {"infra", "migrate", "bootstrap", "api", "doctor"}
NoShell == "no shell"
ASSUME LocalBootstrapAssumption ==
  MaxDrawn \in Nat /\ Asks \in [Shells -> SUBSET SetUpCommands] /\ NoShell \notin Shells

ShellAtRest == [command |-> "none", step |-> "rest", name |-> "migration", held |-> 0]

LocalTypeOK ==
  /\ drawn \in 0 .. MaxDrawn
  /\ secretFile \in [LocalSecrets -> 0 .. NoFile]
  /\ urlFile \in [UrlFiles -> [state : {"absent", "empty", "url"}, password : 0 .. MaxDrawn]]
  /\ cluster \in [up : BOOLEAN, migrated : BOOLEAN, migration : 0 .. MaxDrawn, app : 0 .. MaxDrawn]
  /\ installed \in [state : {"none", "created", "changed"}, password : 0 .. MaxDrawn]
  /\ lockedBy \in Shells \cup {NoShell}
  /\ \A p \in Shells :
       /\ shellRun[p].command \in SetUpCommands \cup {"none"}
       /\ shellRun[p].step \in {"rest", "create", "fill", "url", "fillUrl", "work", "start",
                                "serving", "lock", "examine", "insert", "collided"}
       /\ shellRun[p].name \in LocalSecrets /\ shellRun[p].held \in 0 .. MaxDrawn

LocalInit ==
  /\ drawn = 0
  /\ secretFile = [s \in LocalSecrets |-> NoFile]
  /\ urlFile = [u \in UrlFiles |-> NoUrl]
  /\ cluster = [up |-> FALSE, migrated |-> FALSE, migration |-> 0, app |-> 0]
  /\ installed = [state |-> "none", password |-> 0]
  /\ lockedBy = NoShell
  /\ shellRun = [p \in Shells |-> ShellAtRest]

StandsAt(p, step) == shellRun[p].step = step
StepsTo(p, step) == shellRun' = [shellRun EXCEPT ![p].step = step]
CommandEnds(p) == shellRun' = [shellRun EXCEPT ![p] = ShellAtRest]   \* successfully or not

RunCommand(p, c) ==
  /\ shellRun[p].step = "rest" /\ c \in Asks[p]
  /\ shellRun' = [shellRun EXCEPT ![p] = [ShellAtRest EXCEPT !.command = c, !.step = "create"]]
  /\ UNCHANGED <<drawn, secretFile, urlFile, cluster, installed, lockedBy>>

-----------------------------------------------------------------------------
(* The secret files, which every command prepares first.                   *)

(* The next name, or the URL of the migrations, whose text is put together *)
(* before the file is created.                                             *)
NextName(p) ==
  IF shellRun[p].name # "admin"
    THEN shellRun' = [shellRun EXCEPT ![p].name = NameAfter(@), ![p].step = "create"]
    ELSE shellRun' = [shellRun EXCEPT ![p].name = "migration", ![p].step = "url",
                                    ![p].held = secretFile["migration"]]

(* A file is only created where there is none, whatever is in it.          *)
CreateSecret(p) ==
  /\ StandsAt(p, "create")
  /\ IF secretFile[shellRun[p].name] = NoFile
       THEN StepsTo(p, "fill") /\ secretFile' = [secretFile EXCEPT ![shellRun[p].name] = 0]
       ELSE NextName(p) /\ UNCHANGED secretFile
  /\ UNCHANGED <<drawn, urlFile, cluster, installed, lockedBy>>

FillSecret(p) ==
  /\ StandsAt(p, "fill") /\ drawn < MaxDrawn
  /\ drawn' = drawn + 1
  /\ secretFile' = [secretFile EXCEPT ![shellRun[p].name] = drawn + 1]
  /\ NextName(p)
  /\ UNCHANGED <<urlFile, cluster, installed, lockedBy>>

PreparedAll(p) == shellRun' = [shellRun EXCEPT ![p].step = "work", ![p].held = 0]

CreateUrl(p) ==
  /\ StandsAt(p, "url")
  /\ IF urlFile["migration"] = NoUrl
       THEN StepsTo(p, "fillUrl") /\ urlFile' = [urlFile EXCEPT !["migration"] = EmptyUrl]
       ELSE PreparedAll(p) /\ UNCHANGED urlFile
  /\ UNCHANGED <<drawn, secretFile, cluster, installed, lockedBy>>

FillUrl(p) ==
  /\ StandsAt(p, "fillUrl")
  /\ urlFile' = [urlFile EXCEPT !["migration"] = UrlWith(shellRun[p].held)]
  /\ PreparedAll(p)
  /\ UNCHANGED <<drawn, secretFile, cluster, installed, lockedBy>>

-----------------------------------------------------------------------------
(* What the commands do.                                                   *)

(* A database that is not there is set up with the secrets, if they are    *)
(* whole.                                                                  *)
Infra(p) ==
  /\ StandsAt(p, "work") /\ shellRun[p].command = "infra"
  /\ CommandEnds(p)
  /\ IF ~cluster.up /\ secretFile["migration"] # 0 /\ secretFile["app"] # 0
       THEN cluster' = [cluster EXCEPT !.up = TRUE, !.migration = secretFile["migration"],
                                       !.app = secretFile["app"]]
       ELSE UNCHANGED cluster
  /\ UNCHANGED <<drawn, secretFile, urlFile, installed, lockedBy>>

LocalConnects(u) == cluster.up /\ urlFile[u] = UrlWith(cluster[u])

MigrateLocal(p) ==
  /\ StandsAt(p, "work") /\ shellRun[p].command = "migrate"
  /\ CommandEnds(p)
  /\ IF LocalConnects("migration")
       THEN cluster' = [cluster EXCEPT !.migrated = TRUE]
       ELSE UNCHANGED cluster
  /\ UNCHANGED <<drawn, secretFile, urlFile, installed, lockedBy>>

ConnectToBootstrap(p) ==
  /\ StandsAt(p, "work") /\ shellRun[p].command = "bootstrap"
  /\ IF LocalConnects("migration") THEN StepsTo(p, "lock") ELSE CommandEnds(p)
  /\ UNCHANGED <<drawn, secretFile, urlFile, cluster, installed, lockedBy>>

LockBootstrap(p) ==
  /\ StandsAt(p, "lock") /\ lockedBy = NoShell
  /\ lockedBy' = p
  /\ StepsTo(p, "examine")
  /\ UNCHANGED <<drawn, secretFile, urlFile, cluster, installed>>

BootstrapUnlocks == lockedBy' = NoShell

(* What is there is compared: as it was created it is left alone, anything *)
(* else is refused. The password is read only when nothing is there.       *)
ExamineInstallation(p) ==
  /\ StandsAt(p, "examine")
  /\ IF cluster.migrated /\ installed.state = "none" /\ secretFile["admin"] \notin {0, NoFile}
       THEN /\ shellRun' = [shellRun EXCEPT ![p].step = "insert", ![p].held = secretFile["admin"]]
            /\ UNCHANGED lockedBy
       ELSE /\ CommandEnds(p)
            /\ BootstrapUnlocks
  /\ UNCHANGED <<drawn, secretFile, urlFile, cluster, installed>>

(* All its rows, or none: the identities are the same in every bootstrap.  *)
InsertAdministrator(p) ==
  /\ StandsAt(p, "insert")
  /\ IF installed.state = "none"
       THEN /\ installed' = [state |-> "created", password |-> shellRun[p].held]
            /\ CommandEnds(p)
       ELSE /\ shellRun' = [shellRun EXCEPT ![p] = [ShellAtRest EXCEPT !.step = "collided"]]
            /\ UNCHANGED installed
  /\ BootstrapUnlocks
  /\ UNCHANGED <<drawn, secretFile, urlFile, cluster>>

(* The files of the API are written each time, and read back at once. That *)
(* another command may be emptying them meanwhile is left out.             *)
WriteApiFiles(p) ==
  /\ StandsAt(p, "work") /\ shellRun[p].command \in {"api", "doctor"}
  /\ urlFile' = [urlFile EXCEPT !["app"] = UrlWith(secretFile["app"])]
  /\ IF shellRun[p].command = "api" THEN StepsTo(p, "start") ELSE CommandEnds(p)
  /\ UNCHANGED <<drawn, secretFile, cluster, installed, lockedBy>>

StartApi(p) ==
  /\ StandsAt(p, "start")
  /\ IF LocalConnects("app") /\ cluster.migrated THEN StepsTo(p, "serving") ELSE CommandEnds(p)
  /\ UNCHANGED <<drawn, secretFile, urlFile, cluster, installed, lockedBy>>

-----------------------------------------------------------------------------
(* The process is killed; its connection goes with it.                     *)
CommandKilled(p) ==
  /\ shellRun[p].command # "none"
  /\ CommandEnds(p)
  /\ IF lockedBy = p THEN BootstrapUnlocks ELSE UNCHANGED lockedBy
  /\ UNCHANGED <<drawn, secretFile, urlFile, cluster, installed>>

(* The administrator is renamed, moved or given another password.          *)
AdministratorChanges ==
  /\ installed.state = "created"
  /\ installed' = [state |-> "changed", password |-> 0]
  /\ UNCHANGED <<drawn, secretFile, urlFile, cluster, lockedBy, shellRun>>

LocalNext ==
  \/ AdministratorChanges
  \/ \E p \in Shells :
       \/ \E c \in SetUpCommands : RunCommand(p, c)
       \/ CreateSecret(p) \/ FillSecret(p) \/ CreateUrl(p) \/ FillUrl(p)
       \/ Infra(p) \/ MigrateLocal(p)
       \/ ConnectToBootstrap(p) \/ LockBootstrap(p) \/ ExamineInstallation(p)
       \/ InsertAdministrator(p)
       \/ WriteApiFiles(p) \/ StartApi(p)
       \/ CommandKilled(p)

LocalSpec == LocalInit /\ [][LocalNext]_localVars

-----------------------------------------------------------------------------
(* Properties.                                                             *)

(* The secrets in the files are those the database was set up with and the *)
(* administrator created with, whichever command drew them, was interrupted*)
(* or ran at the same time; none of them is empty.                         *)
SecretsOpenTheInstallation ==
  /\ cluster.up => /\ cluster.migration # 0 /\ cluster.migration = secretFile["migration"]
                   /\ cluster.app # 0 /\ cluster.app = secretFile["app"]
  /\ installed.state = "created" =>
       installed.password # 0 /\ installed.password = secretFile["admin"]

(* Of two bootstraps at once, one creates the administrator and the other  *)
(* finds it: neither fails on the other's rows.                            *)
BootstrapsDoNotCollide == \A p \in Shells : ~StandsAt(p, "collided")
=============================================================================
