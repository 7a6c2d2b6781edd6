----------------------------- MODULE AiGateway ------------------------------
(***************************************************************************)
(* packages/crm-modules/ai-gateway/src/service.ts: model calls, each under *)
(* an operation id, and the human confirmations of the proposals they make.*)
(* The maps of the service live in one process; its ports (authorizer,     *)
(* budget, adapter, call records) are awaited and may fail, and a record   *)
(* whose answer is lost may have been stored.                              *)
(***************************************************************************)
EXTENDS Naturals

CONSTANTS AiOperations,      \* operation ids of invocations
          AiInputs,          \* what is asked under one, for its fingerprint
          Confirmations,     \* operation ids of confirmations
          Decisions,         \* what is decided under one, for its fingerprint
          NoInput            \* nothing was asked under an id yet

ASSUME AiGatewayAssumption == NoInput \notin AiInputs /\ NoInput \notin Decisions

VARIABLES
  invocation,   \* the map operations: input asked and where its execution is
  reserved,     \* per operation: reservations made in the budget
  invoked,      \* per operation: calls of the adapter
  callRecords,  \* per operation: the records that were stored
  proposals,    \* per operation: its proposal in the map
  confirming,   \* the map confirmations: operation, decision, where it is
  decided,    \* what was confirmed: confirmation, operation and decision
  toldAi        \* answers given: operation, input and outcome

aiVars == <<invocation, reserved, invoked, callRecords, proposals, confirming, decided, toldAi>>

Executions == {"none", "authorize", "reserve", "adapter", "record", "recordFailure", "succeeded",
               "failed"}
Outcomes == {"succeeded", "failed"}
NotConfirming == [of |-> "none", decision |-> NoInput]

AiTypeOK ==
  /\ invocation \in [AiOperations -> [input : AiInputs \cup {NoInput}, at : Executions]]
  /\ reserved \in [AiOperations -> Nat] /\ invoked \in [AiOperations -> Nat]
  /\ callRecords \in [AiOperations -> SUBSET {"proposal_created", "failed"}]
  /\ proposals \in [AiOperations -> {"none", "open", "expired"}]
  /\ confirming \in [Confirmations ->
       [of : AiOperations, decision : Decisions] \cup {NotConfirming}]
  /\ decided \subseteq (Confirmations \X AiOperations \X Decisions)
  /\ toldAi \subseteq (AiOperations \X AiInputs \X Outcomes)

AiInit ==
  /\ invocation = [o \in AiOperations |-> [input |-> NoInput, at |-> "none"]]
  /\ reserved = [o \in AiOperations |-> 0]
  /\ invoked = [o \in AiOperations |-> 0]
  /\ callRecords = [o \in AiOperations |-> {}]
  /\ proposals = [o \in AiOperations |-> "none"]
  /\ confirming = [c \in Confirmations |-> NotConfirming]
  /\ decided = {}
  /\ toldAi = {}

Executes(o, from, to) ==
  invocation[o].at = from /\ invocation' = [invocation EXCEPT ![o].at = to]

-----------------------------------------------------------------------------
(* invoke                                                                  *)

(* Nothing was asked under this id. What has failed stays in the map.      *)
FreshOperation(o) == invocation[o].at = "none"

Invoke(o, i) ==
  /\ FreshOperation(o)
  /\ invocation' = [invocation EXCEPT ![o] = [input |-> i, at |-> "authorize"]]
  /\ UNCHANGED <<reserved, invoked, callRecords, proposals, confirming, decided, toldAi>>

Authorized(o) ==
  /\ Executes(o, "authorize", "reserve")
  /\ UNCHANGED <<reserved, invoked, callRecords, proposals, confirming, decided, toldAi>>

Reserve(o) ==
  /\ Executes(o, "reserve", "adapter")
  /\ reserved' = [reserved EXCEPT ![o] = @ + 1]
  /\ UNCHANGED <<invoked, callRecords, proposals, confirming, decided, toldAi>>

(* Its output is validated when it answers.                                *)
AdapterInvoked(o) ==
  /\ Executes(o, "adapter", "record")
  /\ invoked' = [invoked EXCEPT ![o] = @ + 1]
  /\ UNCHANGED <<reserved, callRecords, proposals, confirming, decided, toldAi>>

(* Denied, over budget, an invalid output, or a port that throws.          *)
InvocationFails(o) ==
  /\ \/ Executes(o, "authorize", "recordFailure") /\ UNCHANGED <<reserved, invoked>>
     \/ /\ Executes(o, "reserve", "recordFailure")
        /\ \E n \in 0 .. 1 : reserved' = [reserved EXCEPT ![o] = @ + n]
        /\ UNCHANGED invoked
     \/ /\ Executes(o, "adapter", "recordFailure")
        /\ invoked' = [invoked EXCEPT ![o] = @ + 1]
        /\ UNCHANGED reserved
  /\ UNCHANGED <<callRecords, proposals, confirming, decided, toldAi>>

(* The call is recorded, and then there is a proposal.                     *)
RecordCall(o) ==
  /\ Executes(o, "record", "succeeded")
  /\ callRecords' = [callRecords EXCEPT ![o] = @ \cup {"proposal_created"}]
  /\ proposals' = [proposals EXCEPT ![o] = "open"]
  /\ UNCHANGED <<reserved, invoked, confirming, decided, toldAi>>

RecordCallFails(o) ==
  /\ Executes(o, "record", "recordFailure")
  /\ \E r \in {{}, {"proposal_created"}} : callRecords' = [callRecords EXCEPT ![o] = @ \cup r]
  /\ UNCHANGED <<reserved, invoked, proposals, confirming, decided, toldAi>>

RecordFailedCall(o) ==
  /\ Executes(o, "recordFailure", "failed")
  /\ \E r \in {{}, {"failed"}} : callRecords' = [callRecords EXCEPT ![o] = @ \cup r]
  /\ UNCHANGED <<reserved, invoked, proposals, confirming, decided, toldAi>>

(* Whoever asks the same under the id gets the result of its execution;    *)
(* whoever asks something else is refused.                                 *)
AnswerInvocation(o, i) ==
  /\ invocation[o].at \in Outcomes
  /\ invocation[o].input = i
  /\ toldAi' = toldAi \cup {<<o, i, invocation[o].at>>}
  /\ UNCHANGED <<invocation, reserved, invoked, callRecords, proposals, confirming, decided>>

-----------------------------------------------------------------------------
(* confirm                                                                 *)

Expires(o) ==
  /\ proposals[o] = "open"
  /\ proposals' = [proposals EXCEPT ![o] = "expired"]
  /\ UNCHANGED <<invocation, reserved, invoked, callRecords, confirming, decided, toldAi>>

Unconfirmed(c) == confirming[c] = NotConfirming

(* The proposal and the time are looked at before the authorization.       *)
Confirm(c, o, d) ==
  /\ Unconfirmed(c)
  /\ proposals[o] = "open"
  /\ confirming' = [confirming EXCEPT ![c] = [of |-> o, decision |-> d]]
  /\ UNCHANGED <<invocation, reserved, invoked, callRecords, proposals, decided, toldAi>>

ConfirmSucceeds(c) ==
  /\ ~Unconfirmed(c)
  /\ decided' = decided \cup {<<c, confirming[c].of, confirming[c].decision>>}
  /\ UNCHANGED <<invocation, reserved, invoked, callRecords, proposals, confirming, toldAi>>

(* Denied or unavailable, which leaves the id free for another try.        *)
ConfirmFails(c) ==
  /\ ~Unconfirmed(c)
  /\ \A t \in decided : t[1] # c
  /\ confirming' = [confirming EXCEPT ![c] = NotConfirming]
  /\ UNCHANGED <<invocation, reserved, invoked, callRecords, proposals, decided, toldAi>>

AiNext ==
  \/ \E o \in AiOperations :
       \/ \E i \in AiInputs : Invoke(o, i) \/ AnswerInvocation(o, i)
       \/ Authorized(o) \/ Reserve(o) \/ AdapterInvoked(o) \/ InvocationFails(o)
       \/ RecordCall(o) \/ RecordCallFails(o) \/ RecordFailedCall(o)
       \/ Expires(o)
  \/ \E c \in Confirmations :
       \/ \E o \in AiOperations, d \in Decisions : Confirm(c, o, d)
       \/ ConfirmSucceeds(c) \/ ConfirmFails(c)

AiSpec == AiInit /\ [][AiNext]_aiVars

-----------------------------------------------------------------------------
(* Properties.                                                             *)

(* However often an invocation is repeated, and also when it has failed: it*)
(* spends the budget and calls the model once, and every caller of the id  *)
(* gets the one outcome of the one input it stands for.                    *)
CalledOnce ==
  /\ \A o \in AiOperations : reserved[o] <= 1 /\ invoked[o] <= 1 /\ invoked[o] <= reserved[o]
  /\ \A s, t \in toldAi : s[1] = t[1] => s = t

(* A proposal that anybody can confirm, or has confirmed, is one whose call*)
(* was recorded as having made it, and whose caller was not told it failed.*)
ConfirmedIsRecorded ==
  \A o \in AiOperations :
    proposals[o] # "none" \/ (\E t \in decided : t[2] = o)
      => /\ "proposal_created" \in callRecords[o]
         /\ \A t \in toldAi : t[1] = o => t[3] = "succeeded"

(* A confirmation id stands for one decision on one proposal.              *)
OneDecisionPerConfirmation ==
  \A s, t \in decided : s[1] = t[1] => s = t
=============================================================================
