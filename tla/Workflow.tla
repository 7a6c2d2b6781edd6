------------------------------ MODULE Workflow ------------------------------
(***************************************************************************)
(* packages/crm-modules/workflow: commands on one human task of a process  *)
(* that a remote engine keeps (service.ts, flowable-rest.ts), the ledger   *)
(* that makes a command take effect once (testing.ts; the production one   *)
(* is a port), and the facts that are published of them. The engine itself *)
(* is external: it takes a write on a task that is active, at any time     *)
(* after it was sent, and tells it or not.                                 *)
(***************************************************************************)
EXTENDS Naturals

CONSTANTS WorkflowRequests,
          WorkflowKeys,       \* operation and idempotency key of a command
          WorkflowCommands,   \* the commands that are sent
          Assignees, NoAssignee

WorkflowKinds == {"claim", "release", "complete", "cancel", "start"}
CommandsOfWorkflow ==
  [key : WorkflowKeys, kind : WorkflowKinds, assignee : Assignees \cup {NoAssignee}]

ASSUME WorkflowAssumption ==
  /\ NoAssignee \notin Assignees
  /\ WorkflowCommands \subseteq CommandsOfWorkflow

VARIABLES
  engineTask,    \* the task as the engine has it
  writes,        \* per command: how often the engine took it
  unanswered,    \* writes nobody waits for any more, which may still arrive
  ledger,        \* per key: what the ledger holds
  taskRevision,  \* the last revision that was allotted to the task
  facts,         \* per key: the lifecycle fact, once it is published
  workflowCalls  \* per request: where it is, with what it carries

workflowVars == <<engineTask, writes, unanswered, ledger, taskRevision, facts, workflowCalls>>

TaskStates == [status : {"active", "completed", "cancelled"}, assignee : Assignees \cup {NoAssignee}]
NoCommandOfWorkflow == [kind |-> "none"]
NewTask == [status |-> "active", assignee |-> NoAssignee]
NoEntry == [status |-> "absent", command |-> NoCommandOfWorkflow, value |-> NewTask, revision |-> 0]
NoFact == [command |-> NoCommandOfWorkflow, value |-> NewTask, revision |-> 0]
AtRest == [step |-> "rest", command |-> NoCommandOfWorkflow, value |-> NewTask, revision |-> 0]

WorkflowTypeOK ==
  LET C == WorkflowCommands \cup {NoCommandOfWorkflow}
      LedgerEntries == [status : {"absent", "running", "completed", "reconciliation_required"},
                  command : C, value : TaskStates, revision : Nat]
  IN  /\ engineTask \in TaskStates
      /\ writes \in [WorkflowCommands -> Nat]
      /\ unanswered \subseteq WorkflowCommands
      /\ ledger \in [WorkflowKeys -> LedgerEntries]
      /\ taskRevision \in Nat
      /\ facts \in [WorkflowKeys -> [command : C, value : TaskStates, revision : Nat]]
      /\ workflowCalls \in [WorkflowRequests -> [step : {"rest", "reading", "writing", "confirming",
           "returning", "waiting", "publishing"}, command : C, value : TaskStates, revision : Nat]]

WorkflowInit ==
  /\ engineTask = NewTask
  /\ writes = [c \in WorkflowCommands |-> 0]
  /\ unanswered = {}
  /\ ledger = [k \in WorkflowKeys |-> NoEntry]
  /\ taskRevision = 0
  /\ facts = [k \in WorkflowKeys |-> NoFact]
  /\ workflowCalls = [r \in WorkflowRequests |-> AtRest]

-----------------------------------------------------------------------------
(* The engine.                                                             *)

EngineAccepts(c) ==
  \/ c.kind = "start"
  \/ engineTask.status = "active" /\ (c.kind = "claim" =>
                                        engineTask.assignee \in {NoAssignee, c.assignee})

EngineTakes(c) ==
  /\ writes' = [writes EXCEPT ![c] = @ + 1]
  /\ engineTask' =
       CASE c.kind = "claim" -> [engineTask EXCEPT !.assignee = c.assignee]
         [] c.kind = "release" -> [engineTask EXCEPT !.assignee = NoAssignee]
         [] c.kind = "complete" -> [engineTask EXCEPT !.status = "completed"]
         [] c.kind = "cancel" -> [engineTask EXCEPT !.status = "cancelled"]
         [] OTHER -> engineTask

(* A write that was given up arrives after all, or never does.             *)
LateWrite(c) ==
  /\ c \in unanswered
  /\ unanswered' = unanswered \ {c}
  /\ \/ EngineAccepts(c) /\ EngineTakes(c)
     \/ UNCHANGED <<writes, engineTask>>
  /\ UNCHANGED <<ledger, taskRevision, facts, workflowCalls>>

-----------------------------------------------------------------------------
(* The ledger. Requests that share a running command share its outcome.    *)

Sharing(c) == {q \in WorkflowRequests :
                 workflowCalls[q] # AtRest /\ workflowCalls[q].command = c
                   /\ workflowCalls[q].step # "publishing"}

EndAll(c) == workflowCalls' = [q \in WorkflowRequests |->
                                 IF q \in Sharing(c) THEN AtRest ELSE workflowCalls[q]]

(* The engine had no part in it: the command may be tried again.           *)
Forget(c) == ledger' = [ledger EXCEPT ![c.key] = NoEntry] /\ EndAll(c)

(* It may have: the command is never tried again by itself.                *)
KeepUnknown(c) ==
  /\ ledger' = [ledger EXCEPT ![c.key].status = "reconciliation_required"]
  /\ EndAll(c)

(* Authorisation, the attempt on record, and the ledger asked. A command   *)
(* under another's key, or with an unknown outcome, ends at once.          *)
SendCommand(r, c) ==
  /\ workflowCalls[r] = AtRest
  /\ LET e == ledger[c.key]
         Goes(step) == workflowCalls' = [workflowCalls EXCEPT ![r] =
                         [step |-> step, command |-> c, value |-> e.value, revision |-> e.revision]]
     IN  \/ /\ e = NoEntry
            /\ ledger' = [ledger EXCEPT ![c.key].status = "running", ![c.key].command = c]
            /\ Goes("reading")
         \/ e.command = c /\ e.status = "running" /\ Goes("waiting") /\ UNCHANGED ledger
         \/ e.command = c /\ e.status = "completed" /\ Goes("publishing") /\ UNCHANGED ledger
  /\ UNCHANGED <<engineTask, writes, unanswered, taskRevision, facts>>

-----------------------------------------------------------------------------
(* What the first request of a command does, with the engine.              *)

Step(r, from, to) ==
  /\ workflowCalls[r].step = from
  /\ workflowCalls' = [workflowCalls EXCEPT ![r].step = to]

MayWrite(c) ==
  \/ c.kind = "start"
  \/ /\ engineTask.status = "active"
     /\ c.kind = "release" => engineTask.assignee # NoAssignee

ReadTask(r) ==
  /\ MayWrite(workflowCalls[r].command)
  /\ Step(r, "reading", "writing")
  /\ UNCHANGED <<engineTask, writes, unanswered, ledger, taskRevision, facts>>

(* The task does not admit it or cannot be read, or the engine refuses.    *)
ActionFails(r) ==
  /\ workflowCalls[r].step \in {"reading", "writing"}
  /\ Forget(workflowCalls[r].command)
  /\ UNCHANGED <<engineTask, writes, unanswered, taskRevision, facts>>

WriteTask(r) ==
  /\ Step(r, "writing", "confirming")
  /\ EngineAccepts(workflowCalls[r].command)
  /\ EngineTakes(workflowCalls[r].command)
  /\ UNCHANGED <<unanswered, ledger, taskRevision, facts>>

(* No answer in time, or one that does not tell: 408, 429, 5xx, nonsense.  *)
WriteIsUnknown(r) ==
  /\ workflowCalls[r].step = "writing"
  /\ unanswered' = unanswered \cup {workflowCalls[r].command}
  /\ KeepUnknown(workflowCalls[r].command)
  /\ UNCHANGED <<engineTask, writes, taskRevision, facts>>

(* The task is read again, for the answer; the read may fail.              *)
ReadBack(r) ==
  /\ workflowCalls[r].step = "confirming"
  /\ workflowCalls' = [workflowCalls EXCEPT ![r].step = "returning", ![r].value = engineTask]
  /\ UNCHANGED <<engineTask, writes, unanswered, ledger, taskRevision, facts>>

ReadBackFails(r) ==
  /\ workflowCalls[r].step = "confirming"
  /\ KeepUnknown(workflowCalls[r].command)
  /\ UNCHANGED <<engineTask, writes, unanswered, taskRevision, facts>>

OfTask(c) == c.kind \in {"claim", "release", "complete"}

(* The ledger keeps the outcome, and everybody goes on with it.            *)
Complete(r) ==
  /\ workflowCalls[r].step = "returning"
  /\ LET c == workflowCalls[r].command
         revision == IF OfTask(c) THEN taskRevision + 1 ELSE 0
     IN  /\ taskRevision' = IF OfTask(c) THEN revision ELSE taskRevision
         /\ ledger' = [ledger EXCEPT ![c.key] = [status |-> "completed", command |-> c,
                         value |-> workflowCalls[r].value, revision |-> revision]]
         /\ workflowCalls' = [q \in WorkflowRequests |->
              IF q \notin Sharing(c) THEN workflowCalls[q]
              ELSE [step |-> "publishing", command |-> c,
                    value |-> workflowCalls[r].value, revision |-> revision]]
  /\ UNCHANGED <<engineTask, writes, unanswered, facts>>

(* The fact has a key of its own, by which a repeated one is dropped. When *)
(* publishing fails, so does the request; the next one publishes.          *)
PublishFact(r) ==
  /\ workflowCalls[r].step = "publishing"
  /\ LET call == workflowCalls[r]
     IN  facts' = [facts EXCEPT ![call.command.key] =
           IF @ = NoFact
           THEN [command |-> call.command, value |-> call.value, revision |-> call.revision]
           ELSE @]
  /\ workflowCalls' = [workflowCalls EXCEPT ![r] = AtRest]
  /\ UNCHANGED <<engineTask, writes, unanswered, ledger, taskRevision>>

PublishingFails(r) ==
  /\ workflowCalls[r].step = "publishing"
  /\ workflowCalls' = [workflowCalls EXCEPT ![r] = AtRest]
  /\ UNCHANGED <<engineTask, writes, unanswered, ledger, taskRevision, facts>>

WorkflowNext ==
  \/ \E r \in WorkflowRequests :
       \/ \E c \in WorkflowCommands : SendCommand(r, c)
       \/ ReadTask(r) \/ ActionFails(r) \/ WriteTask(r) \/ WriteIsUnknown(r)
       \/ ReadBack(r) \/ ReadBackFails(r) \/ Complete(r)
       \/ PublishFact(r) \/ PublishingFails(r)
  \/ \E c \in WorkflowCommands : LateWrite(c)

WorkflowSpec == WorkflowInit /\ [][WorkflowNext]_workflowVars

-----------------------------------------------------------------------------
(* Properties.                                                             *)

(* However often a command is sent, and whatever becomes of its answers,   *)
(* the engine takes it once; and while a write may still arrive, the ledger*)
(* holds its command back.                                                 *)
EngineWritesOnce == \A c \in WorkflowCommands :
  /\ writes[c] <= 1
  /\ c \in unanswered => /\ ledger[c.key].command = c
                       /\ ledger[c.key].status = "reconciliation_required"

(* What is published happened: its command was taken by the engine, the    *)
(* ledger has the same outcome, and no other fact of the task has its      *)
(* revision. Publishing again changes nothing that was published.          *)
FactsAreOutcomes == \A k \in WorkflowKeys : facts[k] # NoFact =>
  /\ writes[facts[k].command] = 1
  /\ ledger[k].status = "completed"
  /\ ledger[k].command = facts[k].command
  /\ ledger[k].value = facts[k].value /\ ledger[k].revision = facts[k].revision
  /\ OfTask(facts[k].command) => \A l \in WorkflowKeys :
       facts[l] # NoFact /\ facts[l].revision = facts[k].revision => l = k
=============================================================================
