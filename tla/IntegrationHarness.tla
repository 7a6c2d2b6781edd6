-------------------------- MODULE IntegrationHarness --------------------------
(***************************************************************************)
(* The scripts that run the integration tests: each takes what its tests   *)
(* need from Docker one after the other, waits until it is ready, runs the *)
(* tests and gives everything back, whatever has failed in between; the    *)
(* combined evidence is three of them in a row. Any command can fail, time *)
(* out after it has had its effect, or be interrupted with the script. A   *)
(* PostgreSQL container first starts a temporary server that answers on    *)
(* its socket only, and then the one that the tests are to meet.           *)
(***************************************************************************)
EXTENDS Naturals, Sequences, FiniteSets

VARIABLES
  harness,     \* the script that runs, its step, position, failures and what it has noted
  taken,       \* containers, projects, networks, volumes and sessions that exist
  materials,   \* scripts whose temporary directories with secrets exist
  endedRuns,   \* how scripts have ended
  combined     \* the combined evidence: no, running, passed or failed

harnessVars == <<harness, taken, materials, endedRuns, combined>>

-----------------------------------------------------------------------------
(* The scripts: what each takes in which order, which of it is PostgreSQL, *)
(* which of that it probes over TCP, and its traits. It has a directory;   *)
(* removes only what it has noted; counts a removal that fails; retains    *)
(* the directory then; takes the rest although one has failed.             *)

Plan(units, postgres, probed, traits) ==
  [units |-> units, postgres |-> postgres, probed |-> probed, traits |-> traits]

OneContainer == Plan(<<"postgres">>, {"postgres"}, {"postgres"}, {"directory", "counts"})
OneProject == Plan(<<"postgres">>, {"postgres"}, {"postgres"}, {"directory", "counts", "retains"})

DatabaseScript == Plan(<<"postgres", "missing-role">>, {"postgres", "missing-role"},
                       {"missing-role"}, {"directory", "counts"})
MainChainScript == Plan(<<"flowable", "rabbit">>, {"flowable"}, {}, {"directory", "counts"})
ClamAvScript == Plan(<<"network", "volume", "container">>, {}, {}, {"notes", "counts"})
EdgeScript == Plan(<<"network", "api-a", "api-b", "volume", "edge">>, {}, {}, {"directory"})
ComposeE2EScript == Plan(<<"project">>, {"project"}, {}, {"directory"})
ComposeScript == Plan(<<"project">>, {"project"}, {}, {"directory"})
FlowableScript == Plan(<<"flowable">>, {"flowable"}, {}, {"directory"})
RabbitScript == Plan(<<"rabbit">>, {}, {}, {"directory"})
RabbitJobsScript == Plan(<<"rabbit">>, {}, {}, {"directory"})
BrowserScript == Plan(<<"pc", "internal-h5">>, {}, {}, {"notes", "counts", "all"})
EventingScript == OneProject
TaskCenterScript == OneProject
NotificationsScript == OneProject
OrganizationScript == OneContainer
AuthorizationScript == OneContainer
AuditScript == OneContainer
ConfigurationScript == OneContainer
FormSchemaScript == OneContainer
FilesScript == OneContainer
WorkforceScript == [OneContainer EXCEPT !.traits = {"directory"}]
WorkflowScript == FlowableScript

Scripts == [database |-> DatabaseScript, mainChain |-> MainChainScript, clamAv |-> ClamAvScript,
            edge |-> EdgeScript, composeE2E |-> ComposeE2EScript, compose |-> ComposeScript,
            flowable |-> FlowableScript, rabbit |-> RabbitScript, rabbitJobs |-> RabbitJobsScript,
            browser |-> BrowserScript, eventing |-> EventingScript, taskCenter |-> TaskCenterScript,
            notifications |-> NotificationsScript, organization |-> OrganizationScript,
            authorization |-> AuthorizationScript, audit |-> AuditScript,
            configuration |-> ConfigurationScript, formSchema |-> FormSchemaScript,
            files |-> FilesScript, workforce |-> WorkforceScript, workflow |-> WorkflowScript]

CombinedScripts == <<"clamAv", "browser", "mainChain">>

-----------------------------------------------------------------------------
ActiveSteps == {"taking", "waiting", "testing", "removing", "directory"}
HarnessIdle == [script |-> "none", step |-> "idle", at |-> 0, failures |-> {}, noted |-> {}]
UnitsOf(s) == {Scripts[s].units[i] : i \in 1 .. Len(Scripts[s].units)}
PlanNow == Scripts[harness.script]
Taken(u, states) == \E x \in states : [script |-> harness.script, unit |-> u, state |-> x] \in taken
Untaken(u) == {t \in taken : <<t.script, t.unit>> # <<harness.script, u>>}

HarnessTypeOK ==
  /\ harness.step \in {"idle"} \cup ActiveSteps
  /\ harness.step # "idle" => harness.script \in DOMAIN Scripts
  /\ harness.failures \subseteq {"primary", "removal"}
  /\ \A t \in taken : /\ t.script \in DOMAIN Scripts /\ t.unit \in UnitsOf(t.script)
                      /\ t.state \in {"made", "initial", "serving"}
  /\ materials \subseteq DOMAIN Scripts
  /\ endedRuns \subseteq (DOMAIN Scripts) \X {"passed", "failed", "killed"}
  /\ combined \in {"no", "running", "passed", "failed"}

HarnessInit ==
  harness = HarnessIdle /\ taken = {} /\ materials = {} /\ endedRuns = {} /\ combined = "no"

(* The ports are looked at before anything is taken; one that is taken in  *)
(* the meantime makes a command fail.                                      *)
StartScript(s) ==
  /\ harness.step = "idle" /\ \A o \in {"passed", "failed", "killed"} : <<s, o>> \notin endedRuns
  /\ \/ /\ harness' = [HarnessIdle EXCEPT !.script = s, !.step = "taking", !.at = 1]
        /\ materials' = IF "directory" \in Scripts[s].traits THEN materials \cup {s} ELSE materials
        /\ UNCHANGED <<taken, endedRuns, combined>>
     \/ /\ endedRuns' = endedRuns \cup {<<s, "failed">>}
        /\ UNCHANGED <<harness, taken, materials, combined>>

StartAlone(s) == combined = "no" /\ endedRuns = {} /\ StartScript(s)

(* Where the last was taken the waiting begins; a failure leaves the rest. *)
TakeUnit(works, left) ==
  /\ harness.step = "taking"
  /\ LET u == PlanNow.units[harness.at]
         last == harness.at = Len(PlanNow.units)
         failures == harness.failures \cup IF works THEN {} ELSE {"primary"}
         stops == failures # {} /\ (last \/ "all" \notin PlanNow.traits)
     IN  /\ works => left = IF u \in PlanNow.postgres THEN "initial" ELSE "serving"
         /\ taken' = IF left = "absent" THEN taken
                     ELSE taken \cup {[script |-> harness.script, unit |-> u, state |-> left]}
         /\ harness' = [harness EXCEPT
              !.failures = failures, !.noted = IF works THEN @ \cup {u} ELSE @,
              !.step = IF stops THEN "removing" ELSE IF last THEN "waiting" ELSE "taking",
              !.at = IF stops THEN Len(PlanNow.units) ELSE @ + 1]
  /\ UNCHANGED <<materials, endedRuns, combined>>

(* The temporary server of a container gives way to the one that stays.    *)
ServerSettles(t) ==
  /\ t \in taken /\ t.state = "initial"
  /\ taken' = (taken \ {t}) \cup {[t EXCEPT !.state = "serving"]}
  /\ UNCHANGED <<harness, materials, endedRuns, combined>>

StepTo(step) ==
  harness' = [harness EXCEPT !.step = step, !.at = Len(PlanNow.units)]

(* One postmaster answered over TCP two times, before the deadline.        *)
WaitUntilReady ==
  /\ harness.step = "waiting"
  /\ \A u \in PlanNow.probed : Taken(u, {"serving"})
  /\ StepTo("testing")
  /\ UNCHANGED <<taken, materials, endedRuns, combined>>

RunTests ==
  /\ harness.step = "testing"
  /\ StepTo("removing")
  /\ UNCHANGED <<taken, materials, endedRuns, combined>>

(* The deadline, a migration or a test.                                    *)
StepFails ==
  /\ harness.step \in {"waiting", "testing"}
  /\ harness' = [harness EXCEPT !.step = "removing", !.at = Len(PlanNow.units),
                                !.failures = @ \cup {"primary"}]
  /\ UNCHANGED <<taken, materials, endedRuns, combined>>

(* Backwards; every script goes on although a removal has failed.          *)
RemoveUnit(works) ==
  /\ harness.step = "removing" /\ harness.at > 0
  /\ LET u == PlanNow.units[harness.at]
         skipped == "notes" \in PlanNow.traits /\ u \notin harness.noted
     IN  /\ taken' = IF works /\ ~skipped THEN Untaken(u) ELSE taken
         /\ harness' = [harness EXCEPT
              !.at = @ - 1,
              !.step = IF harness.at = 1 THEN "directory" ELSE @,
              !.failures = IF ~works /\ ~skipped /\ "counts" \in PlanNow.traits
                             THEN @ \cup {"removal"} ELSE @]
  /\ UNCHANGED <<materials, endedRuns, combined>>

(* The directory stays where its project could not be taken down. All the  *)
(* scripts fail where the directory cannot be removed.                     *)
RemoveDirectory(works) ==
  /\ harness.step = "directory" /\ (works \/ "directory" \in PlanNow.traits)
  /\ LET kept == "retains" \in PlanNow.traits /\ "removal" \in harness.failures
         failures == harness.failures \cup IF works THEN {} ELSE {"removal"}
     IN  /\ materials' = IF works /\ ~kept THEN materials \ {harness.script} ELSE materials
         /\ endedRuns' = endedRuns
              \cup {<<harness.script, IF failures = {} THEN "passed" ELSE "failed">>}
  /\ harness' = HarnessIdle
  /\ UNCHANGED <<taken, combined>>

(* No script handles a signal.                                             *)
InterruptScript ==
  /\ harness.step \in ActiveSteps
  /\ endedRuns' = endedRuns \cup {<<harness.script, "killed">>}
  /\ harness' = HarnessIdle
  /\ UNCHANGED <<taken, materials, combined>>

-----------------------------------------------------------------------------
(* The combined evidence is that of scripts that have ended well.          *)

StartCombined ==
  /\ combined = "no" /\ endedRuns = {} /\ harness.step = "idle"
  /\ combined' = "running" /\ UNCHANGED <<harness, taken, materials, endedRuns>>

NextScenario ==
  /\ combined = "running"
  /\ \E i \in 1 .. Len(CombinedScripts) :
       /\ \A j \in 1 .. i - 1 : <<CombinedScripts[j], "passed">> \in endedRuns
       /\ StartScript(CombinedScripts[i])

CombineEvidence ==
  /\ combined = "running" /\ harness.step = "idle"
  /\ \/ /\ \E e \in endedRuns : e[2] # "passed"
        /\ combined' = "failed"
     \/ /\ \A i \in 1 .. Len(CombinedScripts) : <<CombinedScripts[i], "passed">> \in endedRuns
        /\ combined' \in {"passed", "failed"}
  /\ UNCHANGED <<harness, taken, materials, endedRuns>>

HarnessNext ==
  \/ \E s \in DOMAIN Scripts : StartAlone(s)
  \/ \E left \in {"absent", "made", "initial", "serving"}, works \in BOOLEAN : TakeUnit(works, left)
  \/ \E t \in taken : ServerSettles(t)
  \/ WaitUntilReady \/ RunTests \/ StepFails \/ InterruptScript
  \/ \E works \in BOOLEAN : RemoveUnit(works) \/ RemoveDirectory(works)
  \/ StartCombined \/ NextScenario \/ CombineEvidence

HarnessSpec == HarnessInit /\ [][HarnessNext]_harnessVars

-----------------------------------------------------------------------------
(* Properties.                                                             *)

Kept(s) == {t \in taken : t.script = s}

(* The tests of a script that probes its PostgreSQL over TCP do not meet   *)
(* the temporary server, which a health check over the socket accepts.     *)
TestedOnFinalServer ==
  harness.step = "testing" => \A u \in PlanNow.probed : Taken(u, {"serving"})

(* A script that counts its removals leaves nothing behind where it ends   *)
(* well, and so does the combined evidence.                                *)
PassedLeavesNothing ==
  /\ \A s \in DOMAIN Scripts :
       "counts" \in Scripts[s].traits /\ <<s, "passed">> \in endedRuns
         => Kept(s) = {} /\ s \notin materials
  /\ combined = "passed" => taken = {} /\ materials = {}

(* A project that could not be taken down is left with the secrets it      *)
(* takes to look at it.                                                    *)
SecretsAreRetained ==
  \A s \in DOMAIN Scripts :
    "retains" \in Scripts[s].traits /\ Kept(s) # {} => s \in materials
=============================================================================
