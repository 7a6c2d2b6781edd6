---------------------------- MODULE RecordProofs ----------------------------
(***************************************************************************)
(* Proofs about what is kept on record: configurations, forms,             *)
(* organizations and their facts, notifications, the directory, and what   *)
(* the outbox of one process delivers to the inbox of another. For any     *)
(* number of requests, commands, versions and messages.                    *)
(***************************************************************************)
EXTENDS BusinessConfiguration, FormSchema, Organization, Notifications, Directory, Delivery,
        FiniteSetTheorems, WellFoundedInduction, TLAPS

-----------------------------------------------------------------------------
(* Configurations: activations, codes and their commands.                  *)

(* A command holds the lock of its operation id until it ends, and nothing *)
(* was done under the id before.                                           *)
OperationsAreHeld ==
  \A q, r \in ConfigurationRequests :
    command[r].stage \in {"resource", "commit"} =>
      /\ configurationReceipts[command[r].command.op] = NoPublication
      /\ q # r /\ command[q].stage \in {"resource", "commit"}
           => command[q].command.op # command[r].command.op

(* A command about to commit holds the lock of what it changes, and what it*)
(* was allowed by still holds.                                             *)
ResourcesAreHeld ==
  \A r \in ConfigurationRequests : command[r].stage = "commit" =>
    /\ Allowed(command[r].command)
    /\ command[r].command.kind = "terminate" => activations[command[r].command.id] # NoPublication
    /\ \A q \in ConfigurationRequests \ {r} :
         command[q].stage = "commit" => LockOf(command[q].command) # LockOf(command[r].command)

TerminatedWasActivated ==
  \A a \in ActivationIds : terminations[a] # 0 => activations[a] # NoPublication

ReceiptPerEffect ==
  \A o \in ConfigurationOperations :
    effects[o] = IF configurationReceipts[o] = NoPublication THEN 0 ELSE 1

ConfigurationInv ==
  /\ ConfigurationTypeOK /\ OperationsAreHeld /\ ResourcesAreHeld /\ TerminatedWasActivated
  /\ ReceiptPerEffect /\ ActivationsDoNotOverlap /\ CodesAreKept


CommandStates == {NoCommand} \cup
  [stage : {"operation", "resource", "commit"}, command : ConfigurationCommands]

CommandsTyped == command \in [ConfigurationRequests -> CommandStates]

ConfigurationTyped ==
  /\ dictionaryDraft \in [revision : 0 .. MaxRelease, items : SUBSET Codes]
  /\ dictionary \in [Releases -> {NoPublication} \cup [codes : SUBSET Codes]]
  /\ values \in 0 .. MaxRelease
  /\ activations \in [ActivationIds -> {NoPublication} \cup [scope : Scopes, from : Times, to : Times]]
  /\ terminations \in [ActivationIds -> Times]
  /\ configurationReceipts \in [ConfigurationOperations -> {NoPublication} \cup ConfigurationCommands]
  /\ effects \in [ConfigurationOperations -> Nat]

(* The fields a command has, by its kind.                                  *)
LEMMA CommandFields ==
  ASSUME NEW c \in ConfigurationCommands
  PROVE  /\ c.op \in ConfigurationOperations
         /\ c.kind \in {"draft", "dictionary", "value", "activate", "terminate"}
         /\ c.kind = "draft" => c.revision \in 0 .. MaxRelease /\ c.items \in SUBSET Codes
         /\ c.kind = "activate" => c.id \in ActivationIds /\ c.scope \in Scopes
              /\ c.from \in Times /\ c.to \in Times /\ c.from < c.to
         /\ c.kind = "terminate" => c.id \in ActivationIds /\ c.to \in Times
         /\ c # NoPublication
  BY ConfigurationAssumption DEF CommandsOfConfiguration, NoPublication

(* The states of a request, and what becomes of them.                      *)
LEMMA CommandStatesAreKept ==
  ASSUME CommandsTyped, NEW r \in ConfigurationRequests, command[r].stage \in {"operation", "resource", "commit"}
  PROVE  /\ command[r] \in [stage : {"operation", "resource", "commit"}, command : ConfigurationCommands]
         /\ command[r].command \in ConfigurationCommands
         /\ \A s \in {"operation", "resource", "commit"} :
              [command[r] EXCEPT !.stage = s] \in
                [stage : {"operation", "resource", "commit"}, command : ConfigurationCommands]
  BY DEF CommandsTyped, CommandStates, NoCommand

LEMMA StagesOfCommands ==
  ASSUME CommandsTyped, NEW r \in ConfigurationRequests
  PROVE  /\ command[r].stage \in {"idle", "operation", "resource", "commit"}
         /\ command[r] # NoCommand => command[r].stage \in {"operation", "resource", "commit"}
         /\ command[r].stage # "idle" => command[r].stage \in {"operation", "resource", "commit"}
  BY DEF CommandsTyped, CommandStates, NoCommand

LEMMA ConfigurationStarts == ConfigurationInit => ConfigurationInv
  <1> SUFFICES ASSUME ConfigurationInit PROVE ConfigurationInv
    OBVIOUS
  <1>1. CommandsTyped
    BY DEF ConfigurationInit, CommandsTyped, CommandStates
  <1>2. ConfigurationTyped
    BY ConfigurationAssumption DEF ConfigurationInit, ConfigurationTyped, Times
  <1>3. OperationsAreHeld /\ ResourcesAreHeld
    BY DEF ConfigurationInit, OperationsAreHeld, ResourcesAreHeld, NoCommand
  <1>4. TerminatedWasActivated /\ ReceiptPerEffect
    BY DEF ConfigurationInit, TerminatedWasActivated, ReceiptPerEffect
  <1>5. ActivationsDoNotOverlap /\ CodesAreKept
    BY DEF ConfigurationInit, ActivationsDoNotOverlap, CodesAreKept, Published
  <1> QED
    BY <1>1, <1>2, <1>3, <1>4, <1>5 DEF ConfigurationInv, ConfigurationTypeOK, CommandsTyped,
       CommandStates, ConfigurationTyped

(* The next release is after all there are.                                *)
LEMMA NextIsLast ==
  ASSUME ConfigurationTyped
  PROVE  /\ NextRelease \in 1 .. MaxRelease + 1
         /\ NextRelease \notin Published
         /\ \A w \in Published : w < NextRelease
  <1>1. MaxRelease + 1 \in 1 .. MaxRelease + 1 /\ MaxRelease + 1 \notin Published
          /\ \A w \in Published : w < MaxRelease + 1
    BY ConfigurationAssumption DEF Published, Releases
  <1>2. \E v \in 1 .. MaxRelease + 1 : v \notin Published /\ \A w \in Published : w < v
    BY <1>1, Zenon
  <1> QED
    BY <1>2, Zenon DEF NextRelease


(* What the commands under way rest on when nothing but a command changes. *)
LEMMA NothingIsPublished ==
  ASSUME ConfigurationInv, UNCHANGED <<configuration, configurationReceipts, effects>>
  PROVE  /\ ConfigurationTyped' /\ TerminatedWasActivated' /\ ReceiptPerEffect'
         /\ ActivationsDoNotOverlap' /\ CodesAreKept'
         /\ \A c \in ConfigurationCommands : Allowed(c)' = Allowed(c) /\ LockOf(c)' = LockOf(c)
  <1>1. UNCHANGED <<dictionaryDraft, dictionary, values, activations, terminations, configurationReceipts, effects>>
    BY DEF configuration
  <1>2. ConfigurationTyped'
    BY <1>1 DEF ConfigurationInv, ConfigurationTypeOK, ConfigurationTyped
  <1>3. TerminatedWasActivated' /\ ReceiptPerEffect'
    BY <1>1 DEF ConfigurationInv, TerminatedWasActivated, ReceiptPerEffect
  <1>4. ActivationsDoNotOverlap'
    BY <1>1 DEF ConfigurationInv, ActivationsDoNotOverlap, End
  <1>5. CodesAreKept'
    BY <1>1 DEF ConfigurationInv, CodesAreKept, Published
  <1>6. \A c \in ConfigurationCommands : Allowed(c)' = Allowed(c) /\ LockOf(c)' = LockOf(c)
    BY <1>1, Zenon DEF Allowed, LockOf, ContainsAll, Overlaps, End, NextRelease, Published
  <1> QED
    BY <1>2, <1>3, <1>4, <1>5, <1>6

(* A request that goes on, or ends, holds no more than it held: the locks  *)
(* of the others stay theirs.                                              *)
LEMMA OthersHoldTheirs ==
  ASSUME OperationsAreHeld, ResourcesAreHeld, CommandsTyped,
         NEW r \in ConfigurationRequests, NEW x, x.stage \notin {"resource", "commit"},
         command' = [command EXCEPT ![r] = x],
         \A q \in ConfigurationRequests \ {r} : command[q].stage \in {"resource", "commit"} =>
           configurationReceipts'[command[q].command.op] = NoPublication,
         \A q \in ConfigurationRequests \ {r}, c \in ConfigurationCommands :
           command[q].stage = "commit" /\ command[q].command = c =>
             /\ Allowed(c)'
             /\ c.kind = "terminate" => activations'[c.id] # NoPublication
             /\ LockOf(c)' = LockOf(c)
  PROVE  OperationsAreHeld' /\ ResourcesAreHeld'
  <1>0. command'[r] = x /\ \A q \in ConfigurationRequests \ {r} : command'[q] = command[q]
    BY DEF CommandsTyped
  <1>1. OperationsAreHeld'
    BY <1>0 DEF OperationsAreHeld
  <1>2. ASSUME NEW q \in ConfigurationRequests, command'[q].stage = "commit"
        PROVE  /\ Allowed(command[q].command)'
               /\ (command[q].command.kind = "terminate" => activations[command[q].command.id] # NoPublication)'
               /\ \A p \in ConfigurationRequests \ {q} :
                    (command[p].stage = "commit" => LockOf(command[p].command) # LockOf(command[q].command))'
    <2>1. q # r /\ command'[q] = command[q] /\ command[q].stage = "commit"
      BY <1>0, <1>2
    <2>2. PICK c \in ConfigurationCommands : c = command[q].command
      BY <2>1, CommandStatesAreKept
    <2>3. c = command'[q].command /\ c = command[q].command
      BY <2>1, <2>2
    <2>4. Allowed(c)' /\ (c.kind = "terminate" => activations'[c.id] # NoPublication) /\ LockOf(c)' = LockOf(c)
      BY <2>1, <2>2
    <2>5. Allowed(command[q].command)'
      BY <2>3, <2>4
    <2>6. (command[q].command.kind = "terminate" => activations[command[q].command.id] # NoPublication)'
      BY <2>3, <2>4
    <2>7. ASSUME NEW p \in ConfigurationRequests \ {q}, command'[p].stage = "commit"
          PROVE  (LockOf(command[p].command) # LockOf(command[q].command))'
      <3>1. p # r /\ command'[p] = command[p] /\ command[p].stage = "commit"
        BY <1>0, <2>7
      <3>2. PICK d \in ConfigurationCommands : d = command[p].command
        BY <3>1, CommandStatesAreKept
      <3>3. d = command'[p].command /\ d = command[p].command
        BY <3>1, <3>2
      <3>4. LockOf(d)' = LockOf(d)
        BY <3>1, <3>2
      <3>5. LockOf(d) # LockOf(c)
        BY <2>1, <3>1, <3>3, <2>3 DEF ResourcesAreHeld
      <3>6. LockOf(d)' # LockOf(c)'
        BY <2>4, <3>4, <3>5
      <3> QED
        BY <3>6, <3>3, <2>3
    <2> QED
      BY <2>5, <2>6, <2>7
  <1> QED
    BY <1>1, <1>2 DEF ResourcesAreHeld

(* A request that is only begun, or over, when nothing is published.       *)
LEMMA CommandIsLeft ==
  ASSUME ConfigurationInv, UNCHANGED <<configuration, configurationReceipts, effects>>,
         NEW r \in ConfigurationRequests, NEW x \in CommandStates, x.stage \notin {"resource", "commit"},
         command' = [command EXCEPT ![r] = x]
  PROVE  ConfigurationInv'
  <1>1. CommandsTyped /\ CommandsTyped'
    BY DEF ConfigurationInv, ConfigurationTypeOK, CommandsTyped, CommandStates
  <1>2. /\ ConfigurationTyped' /\ TerminatedWasActivated' /\ ReceiptPerEffect'
        /\ ActivationsDoNotOverlap' /\ CodesAreKept'
        /\ \A c \in ConfigurationCommands : Allowed(c)' = Allowed(c) /\ LockOf(c)' = LockOf(c)
    BY NothingIsPublished
  <1>3. activations' = activations /\ configurationReceipts' = configurationReceipts
    BY DEF configuration
  <1>4. OperationsAreHeld /\ ResourcesAreHeld
    BY DEF ConfigurationInv
  <1>5. \A q \in ConfigurationRequests \ {r} : command[q].stage \in {"resource", "commit"} =>
           configurationReceipts'[command[q].command.op] = NoPublication
    BY <1>3, <1>4 DEF OperationsAreHeld
  <1>6. \A q \in ConfigurationRequests \ {r}, c \in ConfigurationCommands :
           command[q].stage = "commit" /\ command[q].command = c =>
             /\ Allowed(c)'
             /\ c.kind = "terminate" => activations'[c.id] # NoPublication
             /\ LockOf(c)' = LockOf(c)
    BY <1>2, <1>3, <1>4 DEF ResourcesAreHeld
  <1>7. OperationsAreHeld' /\ ResourcesAreHeld'
    BY <1>1, <1>4, <1>5, <1>6, OthersHoldTheirs
  <1> QED
    BY <1>1, <1>2, <1>7 DEF ConfigurationInv, ConfigurationTypeOK, CommandsTyped, CommandStates,
       ConfigurationTyped

LEMMA OperationIsLocked ==
  ASSUME ConfigurationInv, NEW r \in ConfigurationRequests, LockOperation(r)
  PROVE  ConfigurationInv'
  <1>1. CommandsTyped /\ OperationsAreHeld /\ ResourcesAreHeld
    BY DEF ConfigurationInv, ConfigurationTypeOK, CommandsTyped, CommandStates
  <1>2. CASE configurationReceipts[command[r].command.op] # NoPublication
    BY <1>2, CommandIsLeft DEF LockOperation, Ends, CommandStates, NoCommand
  <1>3. CASE configurationReceipts[command[r].command.op] = NoPublication
    <2> DEFINE e == [command[r] EXCEPT !.stage = "resource"]
    <2>1. UNCHANGED <<configuration, configurationReceipts, effects>> /\ command' = [command EXCEPT ![r] = e]
            /\ command[r].stage = "operation" /\ OperationFree(r)
      BY <1>3 DEF LockOperation, Handling
    <2>2. /\ ConfigurationTyped' /\ TerminatedWasActivated' /\ ReceiptPerEffect'
          /\ ActivationsDoNotOverlap' /\ CodesAreKept'
          /\ \A c \in ConfigurationCommands : Allowed(c)' = Allowed(c) /\ LockOf(c)' = LockOf(c)
      BY <2>1, NothingIsPublished
    <2>3. activations' = activations /\ configurationReceipts' = configurationReceipts
      BY <2>1 DEF configuration
    <2>4. e \in CommandStates /\ e.stage = "resource" /\ e.command = command[r].command
      BY <1>1, <2>1, CommandStatesAreKept DEF CommandStates
    <2> HIDE DEF e
    <2>5. command'[r] = e /\ \A q \in ConfigurationRequests \ {r} : command'[q] = command[q]
      BY <1>1, <2>1 DEF CommandsTyped
    <2>6. CommandsTyped'
      BY <1>1, <2>1, <2>4 DEF CommandsTyped
    <2>7. OperationsAreHeld'
      BY <1>1, <1>3, <2>1, <2>3, <2>4, <2>5 DEF OperationsAreHeld, OperationFree
    <2>8. ASSUME NEW q \in ConfigurationRequests, command'[q].stage = "commit"
          PROVE  q # r /\ command'[q] = command[q] /\ \E c \in ConfigurationCommands : c = command[q].command
      BY <1>1, <2>8, <2>4, <2>5, CommandStatesAreKept
    <2>9. \A q \in ConfigurationRequests : command'[q].stage = "commit" =>
            /\ Allowed(command[q].command)'
            /\ (command[q].command.kind = "terminate" => activations[command[q].command.id] # NoPublication)'
            /\ \A p \in ConfigurationRequests \ {q} :
                 (command[p].stage = "commit" => LockOf(command[p].command) # LockOf(command[q].command))'
      <3> TAKE q \in ConfigurationRequests
      <3> HAVE command'[q].stage = "commit"
      <3>1. PICK c \in ConfigurationCommands : c = command[q].command
        BY <2>8
      <3>2. c = command'[q].command /\ command[q].stage = "commit" /\ q # r
        BY <2>8, <3>1
      <3>3. Allowed(c)' /\ (c.kind = "terminate" => activations'[c.id] # NoPublication) /\ LockOf(c)' = LockOf(c)
        BY <1>1, <2>2, <2>3, <3>1, <3>2 DEF ResourcesAreHeld
      <3>4. ASSUME NEW p \in ConfigurationRequests \ {q}, command'[p].stage = "commit"
            PROVE  (LockOf(command[p].command) # LockOf(command[q].command))'
        <4>1. PICK d \in ConfigurationCommands : d = command[p].command
          BY <2>8, <3>4
        <4>2. d = command'[p].command /\ command[p].stage = "commit"
          BY <2>8, <3>4, <4>1
        <4>3. LockOf(d) # LockOf(c)
          BY <1>1, <4>1, <4>2, <3>1, <3>2 DEF ResourcesAreHeld
        <4>4. LockOf(d)' # LockOf(c)'
          BY <4>3, <3>3, <2>2
        <4> QED
          BY <4>4, <4>2, <3>2
      <3> QED
        BY <3>2, <3>3, <3>4
    <2> QED
      BY <2>2, <2>6, <2>7, <2>9
      DEF ConfigurationInv, ConfigurationTypeOK, CommandsTyped, CommandStates, ConfigurationTyped, ResourcesAreHeld
  <1> QED
    BY <1>2, <1>3

LEMMA ResourceIsLocked ==
  ASSUME ConfigurationInv, NEW r \in ConfigurationRequests, LockResource(r)
  PROVE  ConfigurationInv'
  <1>1. CommandsTyped /\ OperationsAreHeld /\ ResourcesAreHeld
    BY DEF ConfigurationInv, ConfigurationTypeOK, CommandsTyped, CommandStates
  <1> DEFINE e == [command[r] EXCEPT !.stage = "commit"]
  <1>2. UNCHANGED <<configuration, configurationReceipts, effects>> /\ command' = [command EXCEPT ![r] = e]
          /\ command[r].stage = "resource" /\ ResourceFree(r) /\ Allowed(command[r].command)
          /\ (command[r].command.kind = "terminate" => activations[command[r].command.id] # NoPublication)
    BY DEF LockResource, Handling
  <1>3. /\ ConfigurationTyped' /\ TerminatedWasActivated' /\ ReceiptPerEffect'
        /\ ActivationsDoNotOverlap' /\ CodesAreKept'
        /\ \A c \in ConfigurationCommands : Allowed(c)' = Allowed(c) /\ LockOf(c)' = LockOf(c)
    BY <1>2, NothingIsPublished
  <1>4. activations' = activations /\ configurationReceipts' = configurationReceipts
    BY <1>2 DEF configuration
  <1>5. e \in CommandStates /\ e.stage = "commit" /\ e.command = command[r].command
    BY <1>1, <1>2, CommandStatesAreKept DEF CommandStates
  <1> HIDE DEF e
  <1>6. command'[r] = e /\ \A q \in ConfigurationRequests \ {r} : command'[q] = command[q]
    BY <1>1, <1>2 DEF CommandsTyped
  <1>7. CommandsTyped'
    BY <1>1, <1>2, <1>5 DEF CommandsTyped
  <1>8. OperationsAreHeld'
    BY <1>1, <1>2, <1>4, <1>5, <1>6 DEF OperationsAreHeld
  <1>9. ASSUME NEW q \in ConfigurationRequests, command'[q].stage = "commit"
        PROVE  \E c \in ConfigurationCommands :
                 /\ c = command[q].command /\ c = command'[q].command
                 /\ Allowed(c)' /\ (c.kind = "terminate" => activations'[c.id] # NoPublication)
                 /\ LockOf(c)' = LockOf(c) /\ (q # r => command[q].stage = "commit")
    <2>1. command'[q].command = command[q].command /\ (q # r => command[q].stage = "commit")
      BY <1>9, <1>5, <1>6
    <2>2. PICK c \in ConfigurationCommands : c = command[q].command
      BY <1>1, <1>2, <2>1, CommandStatesAreKept
    <2>3. Allowed(c) /\ (c.kind = "terminate" => activations[c.id] # NoPublication)
      BY <1>1, <1>2, <2>1, <2>2 DEF ResourcesAreHeld
    <2> QED
      BY <1>3, <1>4, <2>1, <2>2, <2>3
  <1>10. ResourcesAreHeld'
    <2>1. ASSUME NEW q \in ConfigurationRequests, command'[q].stage = "commit"
          PROVE  /\ Allowed(command[q].command)'
                 /\ (command[q].command.kind = "terminate" => activations[command[q].command.id] # NoPublication)'
                 /\ \A p \in ConfigurationRequests \ {q} :
                      (command[p].stage = "commit" => LockOf(command[p].command) # LockOf(command[q].command))'
      <3>1. PICK c \in ConfigurationCommands :
                 /\ c = command[q].command /\ c = command'[q].command
                 /\ Allowed(c)' /\ (c.kind = "terminate" => activations'[c.id] # NoPublication)
                 /\ LockOf(c)' = LockOf(c) /\ (q # r => command[q].stage = "commit")
        BY <2>1, <1>9
      <3>2. ASSUME NEW p \in ConfigurationRequests \ {q}, command'[p].stage = "commit"
            PROVE  (LockOf(command[p].command) # LockOf(command[q].command))'
        <4>1. PICK d \in ConfigurationCommands :
                 /\ d = command[p].command /\ d = command'[p].command
                 /\ LockOf(d)' = LockOf(d) /\ (p # r => command[p].stage = "commit")
          BY <3>2, <1>9
        <4>2. LockOf(d) # LockOf(c)
          BY <1>1, <1>2, <3>1, <4>1 DEF ResourcesAreHeld, ResourceFree
        <4>3. LockOf(d)' # LockOf(c)'
          BY <4>1, <4>2, <3>1
        <4> QED
          BY <4>1, <4>3, <3>1
      <3> QED
        BY <3>1, <3>2
    <2> QED
      BY <2>1 DEF ResourcesAreHeld
  <1> QED
    BY <1>3, <1>7, <1>8, <1>10
    DEF ConfigurationInv, ConfigurationTypeOK, CommandsTyped, CommandStates, ConfigurationTyped

(* What a command that commits leaves to the ones that wait for theirs.    *)
LeavesToOthers(c) ==
  \A d \in ConfigurationCommands :
    /\ LockOf(d) # LockOf(c) /\ Allowed(d)
    /\ (d.kind = "terminate" => activations[d.id] # NoPublication)
    => /\ Allowed(d)' /\ LockOf(d)' = LockOf(d)
       /\ (d.kind = "terminate" => activations'[d.id] # NoPublication)

CommandApplies(c) ==
  /\ ConfigurationTypeOK /\ ConfigurationTyped /\ TerminatedWasActivated
  /\ ActivationsDoNotOverlap /\ CodesAreKept
  /\ c \in ConfigurationCommands /\ Allowed(c) /\ Unique(c) /\ Apply(c)
  /\ c.kind = "terminate" => activations[c.id] # NoPublication
  /\ configurationReceipts' \in [ConfigurationOperations -> {NoPublication} \cup ConfigurationCommands]
  /\ effects' \in [ConfigurationOperations -> Nat]

CommandIsSound(c) ==
  /\ ConfigurationTyped' /\ TerminatedWasActivated' /\ ActivationsDoNotOverlap' /\ CodesAreKept'
  /\ LeavesToOthers(c)

LEMMA DraftApplies ==
  ASSUME NEW c, CommandApplies(c), c.kind = "draft"
  PROVE  CommandIsSound(c)
  <1>1. /\ dictionaryDraft' = [revision |-> dictionaryDraft.revision + 1, items |-> c.items]
        /\ UNCHANGED <<dictionary, values, activations, terminations>>
        /\ dictionaryDraft.revision = c.revision /\ c.revision < MaxRelease
    BY DEF CommandApplies, Apply, Allowed
  <1>2. c.revision \in 0 .. MaxRelease /\ c.items \in SUBSET Codes
    BY CommandFields DEF CommandApplies
  <1>3. dictionaryDraft' \in [revision : 0 .. MaxRelease, items : SUBSET Codes]
    BY <1>1, <1>2, ConfigurationAssumption
  <1>4. ConfigurationTyped'
    BY <1>1, <1>3 DEF CommandApplies, ConfigurationTyped
  <1>5. TerminatedWasActivated' /\ CodesAreKept'
    BY <1>1 DEF CommandApplies, TerminatedWasActivated, CodesAreKept, Published
  <1>6. ActivationsDoNotOverlap'
    BY <1>1 DEF CommandApplies, ActivationsDoNotOverlap, End
  <1>7. LeavesToOthers(c)
    <2> SUFFICES ASSUME NEW d \in ConfigurationCommands, LockOf(d) # LockOf(c), Allowed(d),
                        d.kind = "terminate" => activations[d.id] # NoPublication
                 PROVE  /\ Allowed(d)' /\ LockOf(d)' = LockOf(d)
                        /\ (d.kind = "terminate" => activations'[d.id] # NoPublication)
      BY DEF LeavesToOthers
    <2>1. d.kind \in {"value", "activate", "terminate"}
      BY CommandFields DEF LockOf
    <2>2. LockOf(d)' = LockOf(d)
      BY <1>1, <2>1 DEF LockOf
    <2>3. Allowed(d)'
      BY <1>1, <2>1 DEF Allowed, Overlaps, End
    <2> QED
      BY <1>1, <2>2, <2>3
  <1> QED
    BY <1>4, <1>5, <1>6, <1>7 DEF CommandIsSound

LEMMA DictionaryApplies ==
  ASSUME NEW c, CommandApplies(c), c.kind = "dictionary"
  PROVE  CommandIsSound(c)
  <1>1. /\ dictionary' = [dictionary EXCEPT ![NextRelease] = [codes |-> dictionaryDraft.items]]
        /\ UNCHANGED <<dictionaryDraft, values, activations, terminations>>
        /\ ContainsAll /\ NextRelease <= MaxRelease
    BY DEF CommandApplies, Apply, Allowed
  <1>2. PICK n : n = NextRelease
    OBVIOUS
  <1>3. n \in Releases /\ n \notin Published /\ \A w \in Published : w < n
    BY <1>1, <1>2, NextIsLast, ConfigurationAssumption DEF CommandApplies, Releases
  <1>4. dictionary \in [Releases -> {NoPublication} \cup [codes : SUBSET Codes]]
          /\ dictionaryDraft.items \in SUBSET Codes
    BY DEF CommandApplies, ConfigurationTyped
  <1>5. PICK x : x = [codes |-> dictionaryDraft.items]
    OBVIOUS
  <1>6. x \in [codes : SUBSET Codes] /\ x.codes = dictionaryDraft.items
    BY <1>4, <1>5
  <1>7. dictionary' = [dictionary EXCEPT ![n] = x]
    BY <1>1, <1>2, <1>5
  <1>8. dictionary' \in [Releases -> {NoPublication} \cup [codes : SUBSET Codes]]
    BY <1>4, <1>6, <1>7
  <1>9. dictionary'[n] = x /\ \A v \in Releases \ {n} : dictionary'[v] = dictionary[v]
    BY <1>3, <1>4, <1>7
  <1>10. ConfigurationTyped'
    BY <1>1, <1>8 DEF CommandApplies, ConfigurationTyped
  <1>11. TerminatedWasActivated'
    BY <1>1 DEF CommandApplies, TerminatedWasActivated
  <1>12. ActivationsDoNotOverlap'
    BY <1>1 DEF CommandApplies, ActivationsDoNotOverlap, End
  <1>13. CodesAreKept'
    <2>1. SUFFICES ASSUME NEW v \in Releases, NEW w \in Releases, v < w,
                          dictionary'[v] # NoPublication, dictionary'[w] # NoPublication
                   PROVE  dictionary'[v].codes \subseteq dictionary'[w].codes
      BY DEF CodesAreKept, Published
    <2>2. CASE w = n
      <3>1. v # n /\ v \in Published
        BY <2>1, <2>2, <1>9 DEF Published, Releases
      <3> QED
        BY <3>1, <2>2, <1>1, <1>6, <1>9 DEF ContainsAll, Published
    <2>3. CASE w # n
      <3>1. w \in Published /\ w < n
        BY <2>1, <2>3, <1>3, <1>9 DEF Published
      <3>2. v # n /\ v \in Published
        BY <2>1, <3>1, <1>3, <1>9 DEF Published, Releases
      <3>3. dictionary[v].codes \subseteq dictionary[w].codes
        BY <2>1, <3>1, <3>2 DEF CommandApplies, CodesAreKept
      <3> QED
        BY <3>2, <3>3, <2>3, <1>9
    <2> QED
      BY <2>2, <2>3
  <1>14. LeavesToOthers(c)
    <2> SUFFICES ASSUME NEW d \in ConfigurationCommands, LockOf(d) # LockOf(c), Allowed(d),
                        d.kind = "terminate" => activations[d.id] # NoPublication
                 PROVE  /\ Allowed(d)' /\ LockOf(d)' = LockOf(d)
                        /\ (d.kind = "terminate" => activations'[d.id] # NoPublication)
      BY DEF LeavesToOthers
    <2>1. d.kind \in {"value", "activate", "terminate"}
      BY CommandFields DEF LockOf
    <2>2. LockOf(d)' = LockOf(d)
      BY <1>1, <2>1 DEF LockOf
    <2>3. Allowed(d)'
      BY <1>1, <2>1 DEF Allowed, Overlaps, End
    <2> QED
      BY <1>1, <2>2, <2>3
  <1> QED
    BY <1>10, <1>11, <1>12, <1>13, <1>14 DEF CommandIsSound

LEMMA ValueApplies ==
  ASSUME NEW c, CommandApplies(c), c.kind = "value"
  PROVE  CommandIsSound(c)
  <1>1. /\ values' = values + 1 /\ values < MaxRelease
        /\ UNCHANGED <<dictionaryDraft, dictionary, activations, terminations>>
    BY DEF CommandApplies, Apply, Allowed
  <1>2. values' \in 0 .. MaxRelease
    BY <1>1, ConfigurationAssumption DEF CommandApplies, ConfigurationTyped
  <1>3. ConfigurationTyped'
    BY <1>1, <1>2 DEF CommandApplies, ConfigurationTyped
  <1>4. TerminatedWasActivated' /\ CodesAreKept'
    BY <1>1 DEF CommandApplies, TerminatedWasActivated, CodesAreKept, Published
  <1>5. ActivationsDoNotOverlap'
    BY <1>1 DEF CommandApplies, ActivationsDoNotOverlap, End
  <1>6. LeavesToOthers(c)
    <2> SUFFICES ASSUME NEW d \in ConfigurationCommands, LockOf(d) # LockOf(c), Allowed(d),
                        d.kind = "terminate" => activations[d.id] # NoPublication
                 PROVE  /\ Allowed(d)' /\ LockOf(d)' = LockOf(d)
                        /\ (d.kind = "terminate" => activations'[d.id] # NoPublication)
      BY DEF LeavesToOthers
    <2>1. d.kind \in {"draft", "dictionary", "activate", "terminate"}
      BY CommandFields DEF LockOf
    <2>2. LockOf(d)' = LockOf(d)
      BY <1>1, <2>1 DEF LockOf
    <2>3. NextRelease' = NextRelease /\ (ContainsAll' <=> ContainsAll)
      BY <1>1, Zenon DEF NextRelease, ContainsAll, Published
    <2>4. CASE d.kind = "draft"
      BY <1>1, <2>2, <2>4 DEF Allowed
    <2>5. CASE d.kind = "dictionary"
      BY <1>1, <2>2, <2>3, <2>5 DEF Allowed
    <2>6. CASE d.kind = "activate"
      BY <1>1, <2>2, <2>6 DEF Allowed, Overlaps, End
    <2>7. CASE d.kind = "terminate"
      BY <1>1, <2>2, <2>7 DEF Allowed
    <2> QED
      BY <1>1, <2>1, <2>2, <2>4, <2>5, <2>6, <2>7
  <1> QED
    BY <1>3, <1>4, <1>5, <1>6 DEF CommandIsSound

LEMMA ActivateApplies ==
  ASSUME NEW c, CommandApplies(c), c.kind = "activate"
  PROVE  CommandIsSound(c)
  <1> DEFINE x == [scope |-> c.scope, from |-> c.from, to |-> c.to]
  <1>1. /\ activations' = [activations EXCEPT ![c.id] = x]
        /\ UNCHANGED <<dictionaryDraft, dictionary, values, terminations>>
        /\ activations[c.id] = NoPublication
        /\ \A a \in ActivationIds : ~Overlaps(a, c)
    BY DEF CommandApplies, Apply, Allowed, Unique
  <1>2. /\ c.id \in ActivationIds /\ c.scope \in Scopes /\ c.from \in Times /\ c.to \in Times /\ c.from < c.to
        /\ c \in ConfigurationCommands
    BY CommandFields DEF CommandApplies
  <1>3. x \in [scope : Scopes, from : Times, to : Times] /\ x # NoPublication
          /\ x.scope = c.scope /\ x.from = c.from /\ x.to = c.to
    BY <1>2 DEF NoPublication
  <1> HIDE DEF x
  <1>4. /\ activations \in [ActivationIds -> {NoPublication} \cup [scope : Scopes, from : Times, to : Times]]
        /\ terminations \in [ActivationIds -> Times]
    BY DEF CommandApplies, ConfigurationTyped
  <1>5. activations' \in [ActivationIds -> {NoPublication} \cup [scope : Scopes, from : Times, to : Times]]
    BY <1>1, <1>3, <1>4
  <1>6. activations'[c.id] = x /\ \A a \in ActivationIds \ {c.id} : activations'[a] = activations[a]
    BY <1>1, <1>2, <1>4
  <1>7. ConfigurationTyped'
    BY <1>1, <1>5 DEF CommandApplies, ConfigurationTyped
  <1>8. TerminatedWasActivated'
    BY <1>1, <1>3, <1>6 DEF CommandApplies, TerminatedWasActivated
  <1>9. CodesAreKept'
    BY <1>1 DEF CommandApplies, CodesAreKept, Published
  <1>10. terminations[c.id] = 0
    BY <1>1, <1>2 DEF CommandApplies, TerminatedWasActivated
  <1>11. \A a \in ActivationIds \ {c.id} : End(a)' = End(a)
    BY <1>1, <1>6 DEF End
  <1>12. End(c.id)' = c.to
    BY <1>1, <1>2, <1>3, <1>6, <1>10 DEF End
  <1>13. \A a \in ActivationIds : activations[a] # NoPublication =>
           activations[a].from \in Times /\ End(a) \in Times
    BY <1>4 DEF End
  <1>14. ActivationsDoNotOverlap'
    <2>1. SUFFICES ASSUME NEW a \in ActivationIds, NEW b \in ActivationIds, a # b,
                          activations'[a] # NoPublication, activations'[b] # NoPublication,
                          activations'[a].scope = activations'[b].scope
                   PROVE  End(a)' <= activations'[b].from \/ End(b)' <= activations'[a].from
      BY DEF ActivationsDoNotOverlap
    <2>2. CASE a # c.id /\ b # c.id
      <3>1. activations'[a] = activations[a] /\ activations'[b] = activations[b]
              /\ End(a)' = End(a) /\ End(b)' = End(b)
        BY <1>6, <1>11, <2>2
      <3>2. End(a) <= activations[b].from \/ End(b) <= activations[a].from
        BY <2>1, <3>1 DEF CommandApplies, ActivationsDoNotOverlap
      <3> QED
        BY <3>1, <3>2
    <2>3. CASE a = c.id
      <3>1. b # c.id /\ activations'[b] = activations[b] /\ End(b)' = End(b) /\ activations[b].scope = c.scope
              /\ activations'[a] = x /\ End(a)' = c.to
        BY <1>3, <1>6, <1>11, <1>12, <2>1, <2>3
      <3>2. c.to <= activations[b].from \/ End(b) <= c.from
        BY <1>1, <1>2, <1>13, <2>1, <3>1 DEF Overlaps, Times
      <3> QED
        BY <3>1, <3>2, <1>3
    <2>4. CASE b = c.id
      <3>1. a # c.id /\ activations'[a] = activations[a] /\ End(a)' = End(a) /\ activations[a].scope = c.scope
              /\ activations'[b] = x /\ End(b)' = c.to
        BY <1>3, <1>6, <1>11, <1>12, <2>1, <2>4
      <3>2. c.to <= activations[a].from \/ End(a) <= c.from
        BY <1>1, <1>2, <1>13, <2>1, <3>1 DEF Overlaps, Times
      <3> QED
        BY <3>1, <3>2, <1>3
    <2> QED
      BY <2>2, <2>3, <2>4
  <1>15. LeavesToOthers(c)
    <2> SUFFICES ASSUME NEW d \in ConfigurationCommands, LockOf(d) # LockOf(c), Allowed(d),
                        d.kind = "terminate" => activations[d.id] # NoPublication
                 PROVE  /\ Allowed(d)' /\ LockOf(d)' = LockOf(d)
                        /\ (d.kind = "terminate" => activations'[d.id] # NoPublication)
      BY DEF LeavesToOthers
    <2>1. CASE d.kind \in {"draft", "dictionary", "value"}
      <3>1. NextRelease' = NextRelease /\ (ContainsAll' <=> ContainsAll)
        BY <1>1, Zenon DEF NextRelease, ContainsAll, Published
      <3> QED
        BY <1>1, <2>1, <3>1 DEF Allowed, LockOf
    <2>2. CASE d.kind = "activate"
      <3>1. d.scope # c.scope /\ LockOf(d)' = LockOf(d)
        BY <2>2 DEF LockOf
      <3>2. \A a \in ActivationIds : ~Overlaps(a, d)
        BY <2>2 DEF Allowed
      <3>3. \A a \in ActivationIds : ~(Overlaps(a, d)')
        BY <3>1, <3>2, <1>1, <1>3, <1>6 DEF Overlaps, End
      <3> QED
        BY <2>2, <3>1, <3>3 DEF Allowed
    <2>3. CASE d.kind = "terminate"
      <3>1. d.id \in ActivationIds /\ d.id # c.id /\ activations'[d.id] = activations[d.id]
        BY <2>3, <1>1, <1>6, CommandFields
      <3> QED
        BY <2>3, <3>1 DEF Allowed, LockOf
    <2> QED
      BY <2>1, <2>2, <2>3, CommandFields
  <1> QED
    BY <1>7, <1>8, <1>9, <1>14, <1>15 DEF CommandIsSound

LEMMA TerminateApplies ==
  ASSUME NEW c, CommandApplies(c), c.kind = "terminate"
  PROVE  CommandIsSound(c)
  <1>1. /\ terminations' = [terminations EXCEPT ![c.id] = c.to]
        /\ UNCHANGED <<dictionaryDraft, dictionary, values, activations>>
        /\ activations[c.id] # NoPublication /\ terminations[c.id] = 0
        /\ activations[c.id].from < c.to /\ c.to <= activations[c.id].to
    BY CommandFields DEF CommandApplies, Apply, Allowed, Unique
  <1>2. c.id \in ActivationIds /\ c.to \in Times /\ c \in ConfigurationCommands
    BY CommandFields DEF CommandApplies
  <1>4. /\ activations \in [ActivationIds -> {NoPublication} \cup [scope : Scopes, from : Times, to : Times]]
        /\ terminations \in [ActivationIds -> Times]
    BY DEF CommandApplies, ConfigurationTyped
  <1>5. terminations' \in [ActivationIds -> Times]
    BY <1>1, <1>2, <1>4
  <1>6. terminations'[c.id] = c.to /\ \A a \in ActivationIds \ {c.id} : terminations'[a] = terminations[a]
    BY <1>1, <1>2, <1>4
  <1>7. ConfigurationTyped'
    BY <1>1, <1>5 DEF CommandApplies, ConfigurationTyped
  <1>8. TerminatedWasActivated'
    BY <1>1, <1>6 DEF CommandApplies, TerminatedWasActivated
  <1>9. CodesAreKept'
    BY <1>1 DEF CommandApplies, CodesAreKept, Published
  <1>10. \A a \in ActivationIds : activations[a] # NoPublication =>
           activations[a].from \in Times /\ End(a) \in Times /\ End(a)' \in Times /\ End(a)' <= End(a)
    <2> TAKE a \in ActivationIds
    <2> HAVE activations[a] # NoPublication
    <2>1. activations[a].from \in Times /\ activations[a].to \in Times /\ terminations[a] \in Times
      BY <1>4
    <2>2. CASE a # c.id
      BY <2>1, <2>2, <1>1, <1>6 DEF End, Times
    <2>3. CASE a = c.id
      BY <2>1, <2>3, <1>1, <1>2, <1>6 DEF End, Times
    <2> QED
      BY <2>2, <2>3
  <1>11. ActivationsDoNotOverlap'
    <2>1. SUFFICES ASSUME NEW a \in ActivationIds, NEW b \in ActivationIds, a # b,
                          activations[a] # NoPublication, activations[b] # NoPublication,
                          activations[a].scope = activations[b].scope
                   PROVE  End(a)' <= activations[b].from \/ End(b)' <= activations[a].from
      BY <1>1 DEF ActivationsDoNotOverlap
    <2>2. End(a) <= activations[b].from \/ End(b) <= activations[a].from
      BY <2>1 DEF CommandApplies, ActivationsDoNotOverlap
    <2> QED
      BY <2>1, <2>2, <1>10 DEF Times
  <1>12. LeavesToOthers(c)
    <2> SUFFICES ASSUME NEW d \in ConfigurationCommands, LockOf(d) # LockOf(c), Allowed(d),
                        d.kind = "terminate" => activations[d.id] # NoPublication
                 PROVE  /\ Allowed(d)' /\ LockOf(d)' = LockOf(d)
                        /\ (d.kind = "terminate" => activations'[d.id] # NoPublication)
      BY DEF LeavesToOthers
    <2>0. LockOf(d)' = LockOf(d)
      BY <1>1 DEF LockOf
    <2>1. CASE d.kind \in {"draft", "dictionary", "value"}
      <3>1. NextRelease' = NextRelease /\ (ContainsAll' <=> ContainsAll)
        BY <1>1, Zenon DEF NextRelease, ContainsAll, Published
      <3> QED
        BY <1>1, <2>0, <2>1, <3>1 DEF Allowed
    <2>2. CASE d.kind = "activate"
      <3>1. d.scope # activations[c.id].scope
        BY <2>2 DEF LockOf
      <3>2. \A a \in ActivationIds : ~Overlaps(a, d)
        BY <2>2 DEF Allowed
      <3>3. \A a \in ActivationIds : ~(Overlaps(a, d)')
        BY <3>1, <3>2, <1>1, <1>6 DEF Overlaps, End
      <3> QED
        BY <2>0, <2>2, <3>3 DEF Allowed
    <2>3. CASE d.kind = "terminate"
      BY <2>0, <2>3, <1>1 DEF Allowed
    <2> QED
      BY <2>1, <2>2, <2>3, CommandFields
  <1> QED
    BY <1>7, <1>8, <1>9, <1>11, <1>12 DEF CommandIsSound

LEMMA CommandCommits ==
  ASSUME ConfigurationInv, NEW r \in ConfigurationRequests, CommitConfiguration(r)
  PROVE  ConfigurationInv'
  <1>1. CommandsTyped /\ OperationsAreHeld /\ ResourcesAreHeld /\ ConfigurationTyped
    BY DEF ConfigurationInv, ConfigurationTypeOK, CommandsTyped, CommandStates, ConfigurationTyped
  <1>2. command[r].stage = "commit"
    BY DEF CommitConfiguration
  <1>3. PICK c \in ConfigurationCommands : c = command[r].command
    BY <1>1, <1>2, CommandStatesAreKept
  <1>4. /\ Unique(c) /\ Apply(c)
        /\ configurationReceipts' = [configurationReceipts EXCEPT ![c.op] = c]
        /\ effects' = [effects EXCEPT ![c.op] = @ + 1]
        /\ command' = [command EXCEPT ![r] = NoCommand]
    BY <1>3 DEF CommitConfiguration, Ends
  <1>5. Allowed(c) /\ (c.kind = "terminate" => activations[c.id] # NoPublication)
          /\ configurationReceipts[c.op] = NoPublication
    BY <1>1, <1>2, <1>3 DEF OperationsAreHeld, ResourcesAreHeld
  <1>6. c.op \in ConfigurationOperations /\ c # NoPublication
    BY CommandFields
  <1>7. configurationReceipts' \in [ConfigurationOperations -> {NoPublication} \cup ConfigurationCommands]
          /\ effects' \in [ConfigurationOperations -> Nat]
    BY <1>1, <1>4, <1>6 DEF ConfigurationTyped
  <1>8. CommandApplies(c)
    BY <1>1, <1>4, <1>5, <1>7 DEF CommandApplies, ConfigurationInv
  <1>9. CommandIsSound(c)
    BY <1>8, CommandFields, DraftApplies, DictionaryApplies, ValueApplies, ActivateApplies,
       TerminateApplies
  <1>10. ReceiptPerEffect'
    BY <1>1, <1>4, <1>5, <1>6 DEF ConfigurationInv, ReceiptPerEffect, ConfigurationTyped
  <1>11. NoCommand \in CommandStates /\ NoCommand.stage \notin {"resource", "commit"}
    BY DEF CommandStates, NoCommand
  <1>12. CommandsTyped'
    BY <1>1, <1>4, <1>11 DEF CommandsTyped
  <1>13. \A q \in ConfigurationRequests \ {r} : command[q].stage \in {"resource", "commit"} =>
           configurationReceipts'[command[q].command.op] = NoPublication
    <2> TAKE q \in ConfigurationRequests \ {r}
    <2> HAVE command[q].stage \in {"resource", "commit"}
    <2>1. PICK d \in ConfigurationCommands : d = command[q].command
      BY <1>1, CommandStatesAreKept
    <2>2. d.op # c.op /\ configurationReceipts[d.op] = NoPublication
      BY <1>1, <1>2, <1>3, <2>1 DEF OperationsAreHeld
    <2>3. d.op \in ConfigurationOperations
      BY CommandFields
    <2> QED
      BY <1>1, <1>4, <2>1, <2>2, <2>3 DEF ConfigurationTyped
  <1>14. \A q \in ConfigurationRequests \ {r}, d \in ConfigurationCommands :
           command[q].stage = "commit" /\ command[q].command = d =>
             /\ Allowed(d)'
             /\ d.kind = "terminate" => activations'[d.id] # NoPublication
             /\ LockOf(d)' = LockOf(d)
    <2> TAKE q \in ConfigurationRequests \ {r}, d \in ConfigurationCommands
    <2> HAVE command[q].stage = "commit" /\ command[q].command = d
    <2>1. Allowed(d) /\ (d.kind = "terminate" => activations[d.id] # NoPublication) /\ LockOf(d) # LockOf(c)
      BY <1>1, <1>2, <1>3 DEF ResourcesAreHeld
    <2> QED
      BY <2>1, <1>9 DEF CommandIsSound, LeavesToOthers
  <1>15. OperationsAreHeld' /\ ResourcesAreHeld'
    BY <1>1, <1>4, <1>11, <1>13, <1>14, OthersHoldTheirs
  <1> QED
    BY <1>9, <1>10, <1>12, <1>15
    DEF CommandIsSound, ConfigurationInv, ConfigurationTypeOK, CommandsTyped, CommandStates, ConfigurationTyped

LEMMA ConfigurationGoesOn == ConfigurationInv /\ [ConfigurationNext]_configurationVars => ConfigurationInv'
  <1> SUFFICES ASSUME ConfigurationInv, [ConfigurationNext]_configurationVars PROVE ConfigurationInv'
    OBVIOUS
  <1>0. CommandsTyped
    BY DEF ConfigurationInv, ConfigurationTypeOK, CommandsTyped, CommandStates
  <1>1. ASSUME NEW r \in ConfigurationRequests, NEW c \in ConfigurationCommands, Begin(r, c)
        PROVE  ConfigurationInv'
    <2> DEFINE x == [stage |-> "operation", command |-> c]
    <2>1. x \in CommandStates /\ x.stage \notin {"resource", "commit"}
      BY DEF CommandStates
    <2>2. UNCHANGED <<configuration, configurationReceipts, effects>> /\ command' = [command EXCEPT ![r] = x]
      BY <1>1 DEF Begin
    <2> HIDE DEF x
    <2> QED
      BY <2>1, <2>2, CommandIsLeft
  <1>2. ASSUME NEW r \in ConfigurationRequests, RollBack(r) PROVE ConfigurationInv'
    BY <1>2, CommandIsLeft DEF RollBack, Ends, CommandStates, NoCommand
  <1>3. CASE UNCHANGED configurationVars
    <2>1. UNCHANGED <<configuration, configurationReceipts, effects>> /\ command' = command
      BY <1>3 DEF configurationVars, configuration
    <2>2. /\ ConfigurationTyped' /\ TerminatedWasActivated' /\ ReceiptPerEffect'
          /\ ActivationsDoNotOverlap' /\ CodesAreKept'
      BY <2>1, NothingIsPublished
    <2>3. OperationsAreHeld' /\ ResourcesAreHeld' /\ CommandsTyped'
      <3>1. UNCHANGED <<dictionaryDraft, dictionary, values, activations, terminations, configurationReceipts, command>>
        BY <1>3 DEF configurationVars
      <3>2. OperationsAreHeld' /\ CommandsTyped'
        BY <1>0, <3>1 DEF ConfigurationInv, OperationsAreHeld, CommandsTyped, CommandStates
      <3>3. NextRelease' = NextRelease /\ (ContainsAll' <=> ContainsAll)
        BY <3>1, Zenon DEF NextRelease, ContainsAll, Published
      <3>4. ResourcesAreHeld'
        <4>1. ASSUME NEW q \in ConfigurationRequests, command[q].stage = "commit"
              PROVE  /\ Allowed(command[q].command)'
                     /\ (command[q].command.kind = "terminate" => activations[command[q].command.id] # NoPublication)'
                     /\ \A p \in ConfigurationRequests \ {q} :
                          (command[p].stage = "commit" => LockOf(command[p].command) # LockOf(command[q].command))'
          <5>1. Allowed(command[q].command)' = Allowed(command[q].command)
                  /\ \A p \in ConfigurationRequests : LockOf(command[p].command)' = LockOf(command[p].command)
            BY <3>1, <3>3, Zenon DEF Allowed, LockOf, Overlaps, End
          <5> QED
            BY <3>1, <4>1, <5>1 DEF ConfigurationInv, ResourcesAreHeld
        <4> QED
          BY <3>1, <4>1 DEF ResourcesAreHeld
      <3> QED
        BY <3>2, <3>4
    <2> QED
      BY <2>2, <2>3 DEF ConfigurationInv, ConfigurationTypeOK, CommandsTyped, CommandStates,
         ConfigurationTyped
  <1> QED
    BY <1>1, <1>2, <1>3, OperationIsLocked, ResourceIsLocked, CommandCommits DEF ConfigurationNext

LEMMA ConfigurationMeans ==
  ConfigurationInv => ConfigurationTypeOK /\ ActivationsDoNotOverlap /\ CodesAreKept /\ EffectOnce
  BY DEF ConfigurationInv, ReceiptPerEffect, EffectOnce

(* Activations of a scope never overlap, published codes are kept, and a   *)
(* command takes effect once, however many commands race.                  *)
THEOREM ConfigurationIsSound ==
  ConfigurationSpec => [](ConfigurationTypeOK /\ ActivationsDoNotOverlap /\ CodesAreKept /\ EffectOnce)
  <1>1. ConfigurationInit => ConfigurationInv
    BY ConfigurationStarts
  <1>2. ConfigurationInv /\ [ConfigurationNext]_configurationVars => ConfigurationInv'
    BY ConfigurationGoesOn
  <1>3. ConfigurationInv => ConfigurationTypeOK /\ ActivationsDoNotOverlap /\ CodesAreKept /\ EffectOnce
    BY ConfigurationMeans
  <1> QED
    BY <1>1, <1>2, <1>3, PTL DEF ConfigurationSpec

-----------------------------------------------------------------------------
(* Forms: drafts, releases and what is answered of them.                   *)

(* The revisions are numbered without a gap, and each was saved by a       *)
(* command; so are the releases, each of a revision that is there.         *)
RevisionsAreWhole ==
  /\ DraftRevision \in 0 .. MaxFormRevision
  /\ \A n \in Revisions :
       /\ revisions[n] # NoRevision <=> n <= DraftRevision
       /\ n <= DraftRevision => revisions[n].by \in FormCommands

ReleasesAreWhole ==
  /\ ReleasesMade \in 0 .. MaxFormReleases
  /\ \A n \in FormReleases :
       /\ formReleases[n] # NoFormRelease <=> n <= ReleasesMade
       /\ n <= ReleasesMade =>
            formReleases[n].by \in FormCommands /\ formReleases[n].of \in 1 .. DraftRevision

(* A request under way was allowed to ask; if nobody saved since, it has   *)
(* read the draft that is there.                                           *)
TasksFollow ==
  \A r \in FormRequests : formTasks[r].step # "idle" =>
    LET c == formTasks[r].command
    IN  /\ c \in FormCommands
        /\ c.kind = "publish" =>
             /\ c.expected <= DraftRevision
             /\ c.expected = DraftRevision => formTasks[r].read = DraftContent
        /\ c.kind = "switch" => c.release <= ReleasesMade

AttemptsAreAudited ==
  \A r \in FormRequests : formTasks[r].step = "attempted" => formTasks[r].command.op \in audited

QueriesFollow ==
  \A q \in FormReaders :
    /\ formQueries[q].step # "idle" => formQueries[q].release \in FormReleases
    /\ formQueries[q].step = "answered" => formQueries[q].release <= ReleasesMade

FormSchemaInv ==
  /\ FormSchemaTypeOK /\ RevisionsAreWhole /\ ReleasesAreWhole
  /\ TasksFollow /\ AttemptsAreAudited /\ QueriesFollow
  /\ DigestIsOfContent /\ NoEditIsLost /\ EffectsAreAudited /\ AnswersStayTrue


FormTaskStates == [step : {"idle", "begun", "attempted"},
       command : FormCommands \cup {NoFormCommand}, read : Contents \cup {NoContent}]
FormQueryStates == [step : {"idle", "asked", "allowed", "answered"},
       kind : {"read", "validate"}, release : 0 .. MaxFormReleases,
       content : Contents \cup {NoContent}, digest : Contents \cup {NoContent}]

FormTasksTyped == formTasks \in [FormRequests -> FormTaskStates]
FormQueriesTyped == formQueries \in [FormReaders -> FormQueryStates]

FormRecordsTyped ==
  /\ revisions \in [Revisions -> [content : Contents \cup {NoContent},
                                  by : FormCommands \cup {NoFormCommand}]]
  /\ formReleases \in [FormReleases -> [content : Contents \cup {NoContent},
       digest : Contents \cup {NoContent}, active : BOOLEAN, of : 0 .. MaxFormRevision,
       by : FormCommands \cup {NoFormCommand}]]
  /\ formReceipts \in [FormOperations -> FormCommands \cup {NoFormCommand}]
  /\ audited \subseteq FormOperations

(* The fields a command has, by its kind.                                  *)
LEMMA FormCommandFields ==
  ASSUME NEW c \in FormCommands
  PROVE  /\ c.op \in FormOperations /\ c # NoFormCommand
         /\ c.kind \in {"save", "publish", "switch"}
         /\ c.kind = "save" => c.expected \in 0 .. MaxFormRevision /\ c.content \in Contents
         /\ c.kind = "publish" => c.expected \in Revisions
         /\ c.kind = "switch" => c.release \in FormReleases /\ c.active \in BOOLEAN
  BY FormCommandsAssumption DEF CommandsOfForms, NoFormCommand

LEMMA CountedTo ==
  ASSUME NEW d \in Nat
  PROVE  Cardinality(1 .. d) = d
  BY FS_Interval

LEMMA FormSchemaStarts == FormSchemaInit => FormSchemaInv
  <1> SUFFICES ASSUME FormSchemaInit PROVE FormSchemaInv
    OBVIOUS
  <1> USE FormSchemaAssumption
  <1>1. FormSchemaTypeOK
    <2>1. FormRecordsTyped
      BY DEF FormSchemaInit, FormRecordsTyped, NoRevision, NoFormRelease
    <2>2. FormTasksTyped /\ FormQueriesTyped
      BY DEF FormSchemaInit, FormTasksTyped, FormQueriesTyped, FormTaskStates, FormQueryStates,
         NoTask, NotAsked
    <2> QED
      BY <2>1, <2>2 DEF FormSchemaTypeOK, FormRecordsTyped, FormTasksTyped, FormQueriesTyped,
         FormTaskStates, FormQueryStates
  <1>2. DraftRevision = 0
    <2>1. {n \in Revisions : revisions[n] # NoRevision} = {}
      BY DEF FormSchemaInit
    <2> QED
      BY <2>1, FS_EmptySet, Zenon DEF DraftRevision
  <1>3. ReleasesMade = 0
    <2>1. {n \in FormReleases : formReleases[n] # NoFormRelease} = {}
      BY DEF FormSchemaInit
    <2> QED
      BY <2>1, FS_EmptySet, Zenon DEF ReleasesMade
  <1>4. RevisionsAreWhole /\ ReleasesAreWhole
    BY <1>2, <1>3 DEF FormSchemaInit, RevisionsAreWhole, ReleasesAreWhole, Revisions, FormReleases
  <1>5. TasksFollow /\ AttemptsAreAudited /\ QueriesFollow
    BY DEF FormSchemaInit, TasksFollow, AttemptsAreAudited, QueriesFollow, NoTask, NotAsked
  <1>6. DigestIsOfContent /\ NoEditIsLost /\ EffectsAreAudited /\ AnswersStayTrue
    BY DEF FormSchemaInit, DigestIsOfContent, NoEditIsLost, EffectsAreAudited, AnswersStayTrue,
       NotAsked
  <1> QED
    BY <1>1, <1>4, <1>5, <1>6 DEF FormSchemaInv

(* What holds of the tables while they stay as they are.                   *)
LEMMA FormTablesStay ==
  ASSUME FormSchemaInv, UNCHANGED <<revisions, formReleases, formReceipts>>, audited \subseteq audited'
  PROVE  /\ DraftRevision' = DraftRevision /\ ReleasesMade' = ReleasesMade /\ DraftContent' = DraftContent
         /\ RevisionsAreWhole' /\ ReleasesAreWhole' /\ DigestIsOfContent' /\ NoEditIsLost' /\ EffectsAreAudited'
  <1>1. DraftRevision' = DraftRevision /\ ReleasesMade' = ReleasesMade /\ DraftContent' = DraftContent
    BY DEF DraftRevision, ReleasesMade, DraftContent
  <1>2. RevisionsAreWhole' /\ ReleasesAreWhole'
    BY <1>1 DEF FormSchemaInv, RevisionsAreWhole, ReleasesAreWhole
  <1>3. DigestIsOfContent'
    BY DEF FormSchemaInv, DigestIsOfContent
  <1>4. NoEditIsLost'
    BY DEF FormSchemaInv, NoEditIsLost
  <1>5. EffectsAreAudited'
    BY DEF FormSchemaInv, EffectsAreAudited
  <1> QED
    BY <1>1, <1>2, <1>3, <1>4, <1>5

(* A query goes on.                                                        *)
LEMMA QueryGoesOn ==
  ASSUME FormSchemaInv, UNCHANGED FormDraft, NEW q \in FormReaders, NEW x \in FormQueryStates,
         formQueries' = [formQueries EXCEPT ![q] = x],
         x.step # "idle" => x.release \in FormReleases,
         x.step = "answered" => /\ x.release <= ReleasesMade
                                /\ x.content = formReleases[x.release].content
                                /\ x.digest = formReleases[x.release].digest
  PROVE  FormSchemaInv'
  <1>0. FormRecordsTyped /\ FormTasksTyped /\ FormQueriesTyped
    BY DEF FormSchemaInv, FormSchemaTypeOK, FormRecordsTyped, FormTasksTyped, FormQueriesTyped,
       FormTaskStates, FormQueryStates
  <1>1. UNCHANGED <<revisions, formReleases, formReceipts, audited, formTasks>>
    BY DEF FormDraft
  <1>2. /\ DraftRevision' = DraftRevision /\ ReleasesMade' = ReleasesMade /\ DraftContent' = DraftContent
        /\ RevisionsAreWhole' /\ ReleasesAreWhole' /\ DigestIsOfContent' /\ NoEditIsLost' /\ EffectsAreAudited'
    BY <1>1, FormTablesStay
  <1>3. FormQueriesTyped' /\ FormRecordsTyped' /\ FormTasksTyped'
    BY <1>0, <1>1 DEF FormRecordsTyped, FormTasksTyped, FormQueriesTyped
  <1>4. formQueries'[q] = x /\ \A p \in FormReaders \ {q} : formQueries'[p] = formQueries[p]
    BY <1>0 DEF FormQueriesTyped
  <1>5. TasksFollow' /\ AttemptsAreAudited'
    BY <1>1, <1>2 DEF FormSchemaInv, TasksFollow, AttemptsAreAudited
  <1>6. QueriesFollow'
    BY <1>2, <1>4 DEF FormSchemaInv, QueriesFollow
  <1>7. AnswersStayTrue'
    <2>1. ASSUME NEW p \in FormReaders, formQueries'[p].step = "answered"
          PROVE  /\ formQueries'[p].digest = formQueries'[p].content
                 /\ formReleases'[formQueries'[p].release].content = formQueries'[p].content
      <3>1. CASE p # q
        BY <1>1, <1>4, <2>1, <3>1 DEF FormSchemaInv, AnswersStayTrue, FindRelease
      <3>2. CASE p = q
        <4>1. x.step = "answered" /\ x.release \in FormReleases /\ x.release <= ReleasesMade
          BY <1>4, <2>1, <3>2
        <4>2. formReleases[x.release] # NoFormRelease
          BY <4>1 DEF FormSchemaInv, ReleasesAreWhole
        <4>3. formReleases[x.release].digest = formReleases[x.release].content
          BY <4>1, <4>2 DEF FormSchemaInv, DigestIsOfContent
        <4> QED
          BY <1>1, <1>4, <3>2, <4>1, <4>3
      <3> QED
        BY <3>1, <3>2
    <2> QED
      BY <2>1 DEF AnswersStayTrue, FindRelease
  <1> QED
    BY <1>2, <1>3, <1>5, <1>6, <1>7 DEF FormSchemaInv, FormSchemaTypeOK,
       FormRecordsTyped, FormTasksTyped, FormQueriesTyped, FormTaskStates, FormQueryStates

LEMMA QueriesGoOn ==
  ASSUME FormSchemaInv, QueriesNext
  PROVE  FormSchemaInv'
  <1>0. FormRecordsTyped /\ FormQueriesTyped
    BY DEF FormSchemaInv, FormSchemaTypeOK, FormRecordsTyped, FormQueriesTyped, FormQueryStates
  <1>1. ASSUME NEW q \in FormReaders, AllowQuery(q) PROVE FormSchemaInv'
    <2> DEFINE x == [formQueries[q] EXCEPT !.step = "allowed"]
    <2>1. formQueries' = [formQueries EXCEPT ![q] = x] /\ UNCHANGED FormDraft /\ formQueries[q].step = "asked"
      BY <1>1 DEF AllowQuery
    <2>2. x \in FormQueryStates /\ x.step = "allowed" /\ x.release = formQueries[q].release
      BY <1>0 DEF FormQueriesTyped, FormQueryStates
    <2>3. x.release \in FormReleases
      BY <2>1, <2>2 DEF FormSchemaInv, QueriesFollow
    <2> HIDE DEF x
    <2> QED
      BY <2>1, <2>2, <2>3, QueryGoesOn
  <1>2. ASSUME NEW q \in FormReaders, AnswerQuery(q) PROVE FormSchemaInv'
    <2> DEFINE x == [formQueries[q] EXCEPT !.step = "answered",
                       !.content = FindRelease(q).content, !.digest = FindRelease(q).digest]
    <2>1. formQueries' = [formQueries EXCEPT ![q] = x] /\ UNCHANGED FormDraft /\ formQueries[q].step = "allowed"
            /\ FindRelease(q) # NoFormRelease
      BY <1>2 DEF AnswerQuery
    <2>2. formQueries[q].release \in FormReleases
      BY <2>1 DEF FormSchemaInv, QueriesFollow
    <2>3. FindRelease(q).content \in Contents \cup {NoContent} /\ FindRelease(q).digest \in Contents \cup {NoContent}
      BY <2>2, <1>0 DEF FormRecordsTyped, FindRelease
    <2>4. formQueries[q] \in FormQueryStates
      BY <1>0 DEF FormQueriesTyped
    <2>5. x \in FormQueryStates /\ x.step = "answered" /\ x.release = formQueries[q].release
            /\ x.content = FindRelease(q).content /\ x.digest = FindRelease(q).digest
      BY <2>3, <2>4 DEF FormQueryStates
    <2> HIDE DEF x
    <2>6. x.release <= ReleasesMade
      BY <2>1, <2>2, <2>5 DEF FormSchemaInv, ReleasesAreWhole, FindRelease
    <2> QED
      BY <2>1, <2>2, <2>5, <2>6, QueryGoesOn DEF FindRelease
  <1>3. ASSUME NEW q \in FormReaders, RefuseQuery(q) PROVE FormSchemaInv'
    <2>1. NotAsked \in FormQueryStates /\ NotAsked.step = "idle"
      BY FormSchemaAssumption DEF NotAsked, FormQueryStates
    <2> QED
      BY <1>3, <2>1, QueryGoesOn DEF RefuseQuery
  <1>4. ASSUME NEW q \in FormReaders, NEW kind \in {"read", "validate"}, NEW n \in FormReleases, AskRelease(q, kind, n)
        PROVE  FormSchemaInv'
    <2> DEFINE x == [formQueries[q] EXCEPT !.step = "asked", !.kind = kind, !.release = n]
    <2>1. formQueries' = [formQueries EXCEPT ![q] = x] /\ UNCHANGED FormDraft
      BY <1>4 DEF AskRelease
    <2>2. formQueries[q] \in FormQueryStates /\ n \in 0 .. MaxFormReleases
      BY <1>0 DEF FormQueriesTyped, FormReleases
    <2>3. x \in FormQueryStates /\ x.step = "asked" /\ x.release = n
      BY <2>2 DEF FormQueryStates
    <2> HIDE DEF x
    <2> QED
      BY <2>1, <2>3, QueryGoesOn
  <1> QED
    BY <1>1, <1>2, <1>3, <1>4 DEF QueriesNext, ReadRelease, ValidateSubmission

(* A request goes on that has no effect yet.                               *)
LEMMA TaskGoesOn ==
  ASSUME FormSchemaInv, UNCHANGED <<revisions, formReleases, formReceipts, formQueries>>,
         audited \subseteq audited', audited' \subseteq FormOperations,
         NEW r \in FormRequests, NEW x \in FormTaskStates, formTasks' = [formTasks EXCEPT ![r] = x],
         x.step = "attempted" => x.command.op \in audited',
         x.step # "idle" =>
           /\ x.command \in FormCommands
           /\ x.command.kind = "publish" =>
                /\ x.command.expected <= DraftRevision
                /\ x.command.expected = DraftRevision => x.read = DraftContent
           /\ x.command.kind = "switch" => x.command.release <= ReleasesMade
  PROVE  FormSchemaInv'
  <1>0. FormRecordsTyped /\ FormTasksTyped /\ FormQueriesTyped
    BY DEF FormSchemaInv, FormSchemaTypeOK, FormRecordsTyped, FormTasksTyped, FormQueriesTyped,
       FormTaskStates, FormQueryStates
  <1>2. /\ DraftRevision' = DraftRevision /\ ReleasesMade' = ReleasesMade /\ DraftContent' = DraftContent
        /\ RevisionsAreWhole' /\ ReleasesAreWhole' /\ DigestIsOfContent' /\ NoEditIsLost' /\ EffectsAreAudited'
    BY FormTablesStay
  <1>3. FormQueriesTyped' /\ FormRecordsTyped' /\ FormTasksTyped'
    BY <1>0 DEF FormRecordsTyped, FormTasksTyped, FormQueriesTyped
  <1>4. formTasks'[r] = x /\ \A p \in FormRequests \ {r} : formTasks'[p] = formTasks[p]
    BY <1>0 DEF FormTasksTyped
  <1>5. TasksFollow'
    BY <1>2, <1>4 DEF FormSchemaInv, TasksFollow
  <1>6. AttemptsAreAudited'
    BY <1>4 DEF FormSchemaInv, AttemptsAreAudited
  <1>7. QueriesFollow'
    BY <1>2 DEF FormSchemaInv, QueriesFollow
  <1>8. AnswersStayTrue'
    BY DEF FormSchemaInv, AnswersStayTrue, FindRelease
  <1> QED
    BY <1>2, <1>3, <1>5, <1>6, <1>7, <1>8 DEF FormSchemaInv, FormSchemaTypeOK,
       FormRecordsTyped, FormTasksTyped, FormQueriesTyped, FormTaskStates, FormQueryStates

LEMMA DraftContentTyped ==
  ASSUME FormSchemaInv
  PROVE  DraftContent \in Contents \cup {NoContent}
  <1>1. FormRecordsTyped /\ DraftRevision \in 0 .. MaxFormRevision
    BY DEF FormSchemaInv, FormSchemaTypeOK, FormRecordsTyped, RevisionsAreWhole
  <1> QED
    BY <1>1 DEF DraftContent, FormRecordsTyped, Revisions

LEMMA FormBegins ==
  ASSUME FormSchemaInv, NEW r \in FormRequests, NEW c \in FormCommands, BeginForm(r, c)
  PROVE  FormSchemaInv'
  <1> DEFINE x == [step |-> "begun", command |-> c, read |-> DraftContent]
  <1>1. x \in FormTaskStates /\ x.step = "begun" /\ x.command = c /\ x.read = DraftContent
    BY DraftContentTyped DEF FormTaskStates
  <1>2. UNCHANGED <<revisions, formReleases, formReceipts, formQueries, audited>> /\ MayAsk(c)
          /\ formTasks' = [formTasks EXCEPT ![r] = x]
    BY DEF BeginForm
  <1> HIDE DEF x
  <1>3. (c.kind = "publish" => c.expected <= DraftRevision) /\ (c.kind = "switch" => c.release <= ReleasesMade)
    BY <1>2 DEF MayAsk
  <1>4. audited' \subseteq FormOperations
    BY <1>2 DEF FormSchemaInv, FormSchemaTypeOK
  <1> QED
    BY <1>1, <1>2, <1>3, <1>4, TaskGoesOn

LEMMA AttemptIsRecorded ==
  ASSUME FormSchemaInv, NEW r \in FormRequests, RecordAttempt(r)
  PROVE  FormSchemaInv'
  <1> DEFINE x == [formTasks[r] EXCEPT !.step = "attempted"]
  <1>0. formTasks[r] \in FormTaskStates
    BY DEF FormSchemaInv, FormSchemaTypeOK, FormTaskStates
  <1>1. x \in FormTaskStates /\ x.step = "attempted" /\ x.command = formTasks[r].command /\ x.read = formTasks[r].read
    BY <1>0 DEF FormTaskStates
  <1>2. UNCHANGED <<revisions, formReleases, formReceipts, formQueries>> /\ formTasks[r].step = "begun"
          /\ formTasks' = [formTasks EXCEPT ![r] = x] /\ audited' = audited \cup {formTasks[r].command.op}
    BY DEF RecordAttempt
  <1> HIDE DEF x
  <1>3. /\ x.command \in FormCommands
        /\ x.command.kind = "publish" =>
             /\ x.command.expected <= DraftRevision
             /\ x.command.expected = DraftRevision => x.read = DraftContent
        /\ x.command.kind = "switch" => x.command.release <= ReleasesMade
    BY <1>1, <1>2 DEF FormSchemaInv, TasksFollow
  <1>4. audited' \subseteq FormOperations
    BY <1>1, <1>2, <1>3, FormCommandFields DEF FormSchemaInv, FormSchemaTypeOK
  <1> QED
    BY <1>1, <1>2, <1>3, <1>4, TaskGoesOn

LEMMA FormIsLeft ==
  ASSUME FormSchemaInv, NEW r \in FormRequests, FormFails(r)
  PROVE  FormSchemaInv'
  <1>1. NoTask \in FormTaskStates /\ NoTask.step = "idle"
    BY DEF NoTask, FormTaskStates
  <1>2. audited' \subseteq FormOperations
    BY DEF FormSchemaInv, FormSchemaTypeOK, FormFails
  <1> QED
    BY <1>1, <1>2, TaskGoesOn DEF FormFails

(* What every commit does, whatever it is of.                              *)
LEMMA FormCommits ==
  ASSUME FormSchemaInv, NEW r \in FormRequests, NEW c \in FormCommands, CommitForm(r, c)
  PROVE  /\ formReceipts' \in [FormOperations -> FormCommands \cup {NoFormCommand}]
         /\ FormTasksTyped' /\ FormQueriesTyped'
         /\ formReceipts[c.op] = NoFormCommand /\ formReceipts'[c.op] = c
         /\ \A o \in FormOperations \ {c.op} : formReceipts'[o] = formReceipts[o]
         /\ formTasks[r].step = "attempted" /\ formTasks[r].command = c
         /\ formTasks'[r] = NoTask /\ \A p \in FormRequests \ {r} : formTasks'[p] = formTasks[p]
         /\ UNCHANGED <<audited, formQueries>>
         /\ EffectsAreAudited' /\ AttemptsAreAudited'
         /\ \A n \in Revisions : revisions[n] # NoRevision =>
              revisions[n].by # c /\ formReceipts'[revisions[n].by.op] = formReceipts[revisions[n].by.op]
         /\ \A n \in FormReleases : formReleases[n] # NoFormRelease =>
              formReleases[n].by # c /\ formReceipts'[formReleases[n].by.op] = formReceipts[formReleases[n].by.op]
  <1>0. FormRecordsTyped /\ FormTasksTyped /\ FormQueriesTyped
    BY DEF FormSchemaInv, FormSchemaTypeOK, FormRecordsTyped, FormTasksTyped, FormQueriesTyped,
       FormTaskStates, FormQueryStates
  <1>1. c.op \in FormOperations /\ c # NoFormCommand
    BY FormCommandFields
  <1>2. /\ formReceipts' = [formReceipts EXCEPT ![c.op] = c]
        /\ formTasks' = [formTasks EXCEPT ![r] = NoTask]
        /\ formReceipts[c.op] = NoFormCommand
        /\ formTasks[r].step = "attempted" /\ formTasks[r].command = c
        /\ UNCHANGED <<audited, formQueries>>
    BY DEF CommitForm, FirstTime
  <1>3. NoTask \in FormTaskStates /\ NoTask.step = "idle"
    BY DEF NoTask, FormTaskStates
  <1>4. /\ formReceipts' \in [FormOperations -> FormCommands \cup {NoFormCommand}]
        /\ FormTasksTyped' /\ FormQueriesTyped'
    BY <1>0, <1>1, <1>2, <1>3 DEF FormRecordsTyped, FormTasksTyped, FormQueriesTyped
  <1>5. /\ formReceipts'[c.op] = c /\ \A o \in FormOperations \ {c.op} : formReceipts'[o] = formReceipts[o]
        /\ formTasks'[r] = NoTask /\ \A p \in FormRequests \ {r} : formTasks'[p] = formTasks[p]
    BY <1>0, <1>1, <1>2 DEF FormRecordsTyped, FormTasksTyped
  <1>6. EffectsAreAudited'
    BY <1>1, <1>2, <1>5 DEF FormSchemaInv, EffectsAreAudited, AttemptsAreAudited
  <1>7. AttemptsAreAudited'
    BY <1>2, <1>3, <1>5 DEF FormSchemaInv, AttemptsAreAudited
  <1>8. \A n \in Revisions : revisions[n] # NoRevision =>
              revisions[n].by # c /\ formReceipts'[revisions[n].by.op] = formReceipts[revisions[n].by.op]
    <2> TAKE n \in Revisions
    <2> HAVE revisions[n] # NoRevision
    <2>1. revisions[n].by \in FormCommands /\ formReceipts[revisions[n].by.op] = revisions[n].by
      BY DEF FormSchemaInv, RevisionsAreWhole, NoEditIsLost
    <2>2. revisions[n].by.op \in FormOperations /\ revisions[n].by # NoFormCommand
      BY <2>1, FormCommandFields
    <2> QED
      BY <2>1, <2>2, <1>2, <1>5
  <1>9. \A n \in FormReleases : formReleases[n] # NoFormRelease =>
              formReleases[n].by # c /\ formReceipts'[formReleases[n].by.op] = formReceipts[formReleases[n].by.op]
    <2> TAKE n \in FormReleases
    <2> HAVE formReleases[n] # NoFormRelease
    <2>1. formReleases[n].by \in FormCommands /\ formReceipts[formReleases[n].by.op] = formReleases[n].by
      BY DEF FormSchemaInv, ReleasesAreWhole, NoEditIsLost
    <2>2. formReleases[n].by.op \in FormOperations /\ formReleases[n].by # NoFormCommand
      BY <2>1, FormCommandFields
    <2> QED
      BY <2>1, <2>2, <1>2, <1>5
  <1> QED
    BY <1>2, <1>4, <1>5, <1>6, <1>7, <1>8, <1>9

LEMMA FormIsSaved ==
  ASSUME FormSchemaInv, NEW r \in FormRequests, NEW c \in FormCommands, SaveFormDraft(r, c)
  PROVE  FormSchemaInv'
  <1>0. FormRecordsTyped /\ FormTasksTyped /\ FormQueriesTyped
    BY DEF FormSchemaInv, FormSchemaTypeOK, FormRecordsTyped, FormTasksTyped, FormQueriesTyped,
       FormTaskStates, FormQueryStates
  <1>1. CommitForm(r, c) /\ c.kind = "save"
    BY DEF SaveFormDraft
  <1> DEFINE x == [content |-> c.content, by |-> c]
  <1>2. PICK d : d = DraftRevision
    OBVIOUS
  <1>3. /\ d < MaxFormRevision /\ c.expected = d /\ formReleases' = formReleases
        /\ revisions' = [revisions EXCEPT ![d + 1] = x]
    BY <1>2 DEF SaveFormDraft, RevisionIs
  <1>4. d \in 0 .. MaxFormRevision /\ d + 1 \in Revisions
    BY <1>2, <1>3, FormSchemaAssumption DEF FormSchemaInv, RevisionsAreWhole, Revisions
  <1>5. /\ x \in [content : Contents \cup {NoContent}, by : FormCommands \cup {NoFormCommand}]
        /\ x.by = c /\ x.content = c.content /\ x # NoRevision /\ c # NoFormCommand
    <2>1. c.content \in Contents /\ c # NoFormCommand
      BY <1>1, FormCommandFields
    <2> QED
      BY <2>1 DEF NoRevision
  <1> HIDE DEF x
  <1>6. revisions'[d + 1] = x /\ \A n \in Revisions : n # d + 1 => revisions'[n] = revisions[n]
    BY <1>0, <1>3, <1>4 DEF FormRecordsTyped
  <1>7. FormRecordsTyped' /\ FormTasksTyped' /\ FormQueriesTyped'
    <2>1. revisions' \in [Revisions -> [content : Contents \cup {NoContent}, by : FormCommands \cup {NoFormCommand}]]
      BY <1>0, <1>3, <1>5 DEF FormRecordsTyped
    <2>2. /\ formReceipts' \in [FormOperations -> FormCommands \cup {NoFormCommand}] /\ audited' = audited
          /\ FormTasksTyped' /\ FormQueriesTyped'
      BY <1>1, FormCommits
    <2> QED
      BY <1>0, <1>3, <2>1, <2>2 DEF FormRecordsTyped
  <1>8. \A n \in Revisions : revisions[n] # NoRevision <=> n <= d
    BY <1>2 DEF FormSchemaInv, RevisionsAreWhole
  <1>9. \A n \in Revisions : revisions'[n] # NoRevision <=> n <= d + 1
    BY <1>4, <1>5, <1>6, <1>8, FormSchemaAssumption DEF Revisions
  <1>10. DraftRevision' = d + 1
    <2>1. d + 1 \in 0 .. MaxFormRevision /\ MaxFormRevision \in Nat
      BY <1>4, FormSchemaAssumption DEF Revisions
    <2>2. \A n \in 1 .. MaxFormRevision : revisions'[n] # NoRevision <=> n <= d + 1
      BY <1>9 DEF Revisions
    <2>3. {n \in Revisions : revisions'[n] # NoRevision} = 1 .. d + 1
      BY <2>1, <2>2 DEF Revisions
    <2>4. Cardinality(1 .. d + 1) = d + 1
      BY <2>1, CountedTo
    <2> QED
      BY <2>3, <2>4, Zenon DEF DraftRevision
  <1>11. ReleasesMade' = ReleasesMade
    BY <1>3 DEF ReleasesMade
  <1>12. RevisionsAreWhole'
    <2>1. \A n \in Revisions : n <= d + 1 => revisions'[n].by \in FormCommands
      BY <1>2, <1>4, <1>5, <1>6, FormSchemaAssumption DEF FormSchemaInv, RevisionsAreWhole,
         Revisions
    <2> QED
      BY <1>4, <1>9, <1>10, <2>1, FormSchemaAssumption DEF RevisionsAreWhole, Revisions
  <1>13. ReleasesAreWhole'
    BY <1>2, <1>3, <1>4, <1>10, <1>11 DEF FormSchemaInv, ReleasesAreWhole
  <1>14. TasksFollow'
    <2>1. /\ formTasks'[r] = NoTask /\ \A p \in FormRequests \ {r} : formTasks'[p] = formTasks[p]
      BY <1>1, FormCommits
    <2>2. SUFFICES ASSUME NEW p \in FormRequests, formTasks'[p].step # "idle", NEW e, e = formTasks'[p].command
                   PROVE  /\ e \in FormCommands
                          /\ e.kind = "publish" =>
                               /\ e.expected <= d + 1
                               /\ e.expected = d + 1 => formTasks'[p].read = DraftContent'
                          /\ e.kind = "switch" => e.release <= ReleasesMade
      BY <1>10, <1>11 DEF TasksFollow
    <2>3. p # r /\ formTasks'[p] = formTasks[p]
      BY <2>1, <2>2 DEF NoTask
    <2>4. /\ e \in FormCommands /\ (e.kind = "publish" => e.expected <= d)
          /\ (e.kind = "switch" => e.release <= ReleasesMade)
      BY <1>2, <2>2, <2>3 DEF FormSchemaInv, TasksFollow
    <2>5. e.kind = "publish" => e.expected \in Revisions
      BY <2>4, FormCommandFields
    <2> QED
      BY <1>4, <2>4, <2>5 DEF Revisions
  <1>15. QueriesFollow'
    BY <1>1, <1>11, FormCommits DEF FormSchemaInv, QueriesFollow
  <1>16. DigestIsOfContent'
    BY <1>2, <1>3, <1>4, <1>6 DEF FormSchemaInv, DigestIsOfContent, ReleasesAreWhole, Revisions
  <1>17. NoEditIsLost'
    <2>1. ASSUME NEW n \in Revisions, revisions'[n] # NoRevision
          PROVE  /\ revisions'[n].by.expected = n - 1
                 /\ formReceipts'[revisions'[n].by.op] = revisions'[n].by
                 /\ \A m \in Revisions : revisions'[m].by = revisions'[n].by => m = n
      <3>1. \A m \in Revisions : m # d + 1 => revisions'[m].by = revisions[m].by /\ revisions[m].by # c
        <4> TAKE m \in Revisions
        <4> HAVE m # d + 1
        <4>1. CASE revisions[m] # NoRevision
          BY <4>1, <1>1, <1>6, FormCommits
        <4>2. CASE revisions[m] = NoRevision
          BY <4>2, <1>5, <1>6 DEF NoRevision
        <4> QED
          BY <4>1, <4>2
      <3>2. CASE n = d + 1
        BY <1>1, <1>3, <1>4, <1>5, <1>6, <3>1, <3>2, FormCommits
      <3>3. CASE n # d + 1
        <4>1. /\ revisions[n] # NoRevision /\ revisions'[n] = revisions[n]
              /\ formReceipts'[revisions[n].by.op] = formReceipts[revisions[n].by.op]
          BY <2>1, <3>3, <1>1, <1>6, FormCommits
        <4>2. /\ revisions[n].by.expected = n - 1 /\ formReceipts[revisions[n].by.op] = revisions[n].by
              /\ \A m \in Revisions : revisions[m].by = revisions[n].by => m = n
          BY <4>1 DEF FormSchemaInv, NoEditIsLost
        <4> QED
          BY <4>1, <4>2, <3>1, <3>3, <1>5, <1>6
      <3> QED
        BY <3>2, <3>3
    <2>2. \A n \in FormReleases : formReleases[n] # NoFormRelease =>
       /\ formReceipts'[formReleases[n].by.op] = formReleases[n].by
       /\ \A m \in FormReleases : formReleases[m].by = formReleases[n].by => m = n
      BY <1>1, FormCommits DEF FormSchemaInv, NoEditIsLost
    <2> QED
      BY <1>3, <2>1, <2>2 DEF NoEditIsLost
  <1>18. AnswersStayTrue'
    BY <1>1, <1>3, FormCommits DEF FormSchemaInv, AnswersStayTrue, FindRelease
  <1> QED
    BY <1>1, <1>7, <1>12, <1>13, <1>14, <1>15, <1>16, <1>17, <1>18, FormCommits DEF FormSchemaInv,
       FormSchemaTypeOK,
       FormRecordsTyped, FormTasksTyped, FormQueriesTyped, FormTaskStates, FormQueryStates

(* The requests and queries that are under way, when a release is made or  *)
(* switched.                                                               *)
LEMMA OthersFollow ==
  ASSUME FormSchemaInv, NEW r \in FormRequests, NEW c \in FormCommands, CommitForm(r, c),
         UNCHANGED revisions, ReleasesMade \in Nat, ReleasesMade' \in Nat, ReleasesMade <= ReleasesMade',
         \A n \in FormReleases : n <= ReleasesMade => formReleases'[n].content = formReleases[n].content
  PROVE  /\ DraftRevision' = DraftRevision /\ RevisionsAreWhole'
         /\ TasksFollow' /\ QueriesFollow' /\ AnswersStayTrue'
  <1>1. DraftRevision' = DraftRevision /\ DraftContent' = DraftContent
    BY DEF DraftRevision, DraftContent
  <1>2. RevisionsAreWhole'
    BY <1>1 DEF FormSchemaInv, RevisionsAreWhole
  <1>3. TasksFollow'
    <2>1. /\ formTasks'[r] = NoTask /\ \A p \in FormRequests \ {r} : formTasks'[p] = formTasks[p]
      BY FormCommits
    <2>2. SUFFICES ASSUME NEW p \in FormRequests, formTasks'[p].step # "idle", NEW e, e = formTasks'[p].command
                   PROVE  /\ e \in FormCommands
                          /\ e.kind = "publish" =>
                               /\ e.expected <= DraftRevision
                               /\ e.expected = DraftRevision => formTasks'[p].read = DraftContent
                          /\ e.kind = "switch" => e.release <= ReleasesMade'
      BY <1>1 DEF TasksFollow
    <2>3. p # r /\ formTasks'[p] = formTasks[p]
      BY <2>1, <2>2 DEF NoTask
    <2>4. /\ e \in FormCommands
          /\ e.kind = "publish" =>
               /\ e.expected <= DraftRevision
               /\ e.expected = DraftRevision => formTasks[p].read = DraftContent
          /\ e.kind = "switch" => e.release <= ReleasesMade
      BY <2>2, <2>3 DEF FormSchemaInv, TasksFollow
    <2>5. e.kind = "switch" => e.release \in FormReleases
      BY <2>4, FormCommandFields
    <2> QED
      BY <2>3, <2>4, <2>5 DEF FormReleases
  <1>4. formQueries' = formQueries
    BY FormCommits
  <1>5. QueriesFollow'
    <2> SUFFICES ASSUME NEW q \in FormReaders
                 PROVE  /\ formQueries[q].step # "idle" => formQueries[q].release \in FormReleases
                        /\ formQueries[q].step = "answered" => formQueries[q].release <= ReleasesMade'
      BY <1>4 DEF QueriesFollow
    <2>1. /\ formQueries[q].step # "idle" => formQueries[q].release \in FormReleases
          /\ formQueries[q].step = "answered" => formQueries[q].release <= ReleasesMade
      BY DEF FormSchemaInv, QueriesFollow
    <2> QED
      BY <2>1 DEF FormReleases
  <1>6. AnswersStayTrue'
    <2> SUFFICES ASSUME NEW q \in FormReaders, formQueries[q].step = "answered"
                 PROVE  /\ formQueries[q].digest = formQueries[q].content
                        /\ formReleases'[formQueries[q].release].content = formQueries[q].content
      BY <1>4 DEF AnswersStayTrue, FindRelease
    <2>1. formQueries[q].release \in FormReleases /\ formQueries[q].release <= ReleasesMade
      BY DEF FormSchemaInv, QueriesFollow
    <2> QED
      BY <2>1 DEF FormSchemaInv, AnswersStayTrue, FindRelease
  <1> QED
    BY <1>1, <1>2, <1>3, <1>5, <1>6

LEMMA FormIsPublished ==
  ASSUME FormSchemaInv, NEW r \in FormRequests, NEW c \in FormCommands, PublishForm(r, c)
  PROVE  FormSchemaInv'
  <1>0. FormRecordsTyped /\ FormTasksTyped /\ FormQueriesTyped
    BY DEF FormSchemaInv, FormSchemaTypeOK, FormRecordsTyped, FormTasksTyped, FormQueriesTyped,
       FormTaskStates, FormQueryStates
  <1>1. CommitForm(r, c) /\ c.kind = "publish"
    BY DEF PublishForm
  <1> DEFINE x == [content |-> DraftContent, digest |-> formTasks[r].read, active |-> TRUE,
                   of |-> c.expected, by |-> c]
  <1>2. PICK d : d = ReleasesMade
    OBVIOUS
  <1>3. /\ d < MaxFormReleases /\ c.expected = DraftRevision /\ revisions' = revisions
        /\ formReleases' = [formReleases EXCEPT ![d + 1] = x]
    BY <1>2 DEF PublishForm, RevisionIs
  <1>4. d \in 0 .. MaxFormReleases /\ d + 1 \in FormReleases
    BY <1>2, <1>3, FormSchemaAssumption DEF FormSchemaInv, ReleasesAreWhole, FormReleases
  <1>5. formTasks[r].read = DraftContent /\ c.expected \in Revisions
    <2>1. formTasks[r].step = "attempted" /\ formTasks[r].command = c
      BY <1>1, FormCommits
    <2> QED
      BY <1>1, <1>3, <2>1, FormCommandFields DEF FormSchemaInv, TasksFollow
  <1>6. DraftContent = revisions[c.expected].content
    BY <1>3, <1>5 DEF DraftContent, Revisions
  <1>7. /\ x \in [content : Contents \cup {NoContent}, digest : Contents \cup {NoContent}, active : BOOLEAN,
                  of : 0 .. MaxFormRevision, by : FormCommands \cup {NoFormCommand}]
        /\ x.by = c /\ x.content = DraftContent /\ x.digest = DraftContent /\ x.of = c.expected
        /\ x # NoFormRelease /\ c # NoFormCommand
    <2>1. DraftContent \in Contents \cup {NoContent} /\ c # NoFormCommand
      BY DraftContentTyped, FormCommandFields
    <2>2. c.expected \in 0 .. MaxFormRevision
      BY <1>5 DEF Revisions
    <2> QED
      BY <2>1, <2>2, <1>5 DEF NoFormRelease
  <1> HIDE DEF x
  <1>8. formReleases'[d + 1] = x /\ \A n \in FormReleases : n # d + 1 => formReleases'[n] = formReleases[n]
    BY <1>0, <1>3, <1>4 DEF FormRecordsTyped
  <1>9. FormRecordsTyped' /\ FormTasksTyped' /\ FormQueriesTyped'
    <2>1. formReleases' \in [FormReleases -> [content : Contents \cup {NoContent},
       digest : Contents \cup {NoContent}, active : BOOLEAN, of : 0 .. MaxFormRevision,
       by : FormCommands \cup {NoFormCommand}]]
      BY <1>0, <1>3, <1>7 DEF FormRecordsTyped
    <2>2. /\ formReceipts' \in [FormOperations -> FormCommands \cup {NoFormCommand}] /\ audited' = audited
          /\ FormTasksTyped' /\ FormQueriesTyped'
      BY <1>1, FormCommits
    <2> QED
      BY <1>0, <1>3, <2>1, <2>2 DEF FormRecordsTyped
  <1>10. \A n \in FormReleases : formReleases[n] # NoFormRelease <=> n <= d
    BY <1>2 DEF FormSchemaInv, ReleasesAreWhole
  <1>11. \A n \in FormReleases : formReleases'[n] # NoFormRelease <=> n <= d + 1
    BY <1>4, <1>7, <1>8, <1>10, FormSchemaAssumption DEF FormReleases
  <1>12. ReleasesMade' = d + 1
    <2>1. d + 1 \in 0 .. MaxFormReleases /\ MaxFormReleases \in Nat
      BY <1>4, FormSchemaAssumption DEF FormReleases
    <2>2. \A n \in 1 .. MaxFormReleases : formReleases'[n] # NoFormRelease <=> n <= d + 1
      BY <1>11 DEF FormReleases
    <2>3. {n \in FormReleases : formReleases'[n] # NoFormRelease} = 1 .. d + 1
      BY <2>1, <2>2 DEF FormReleases
    <2>4. Cardinality(1 .. d + 1) = d + 1
      BY <2>1, CountedTo
    <2> QED
      BY <2>3, <2>4, Zenon DEF ReleasesMade
  <1>13. /\ DraftRevision' = DraftRevision /\ RevisionsAreWhole'
         /\ TasksFollow' /\ QueriesFollow' /\ AnswersStayTrue'
    <2>1. ReleasesMade \in Nat /\ ReleasesMade' \in Nat /\ ReleasesMade <= ReleasesMade'
      BY <1>2, <1>4, <1>12
    <2>2. \A n \in FormReleases : n <= ReleasesMade => formReleases'[n].content = formReleases[n].content
      BY <1>2, <1>4, <1>8
    <2> QED
      BY <1>1, <1>3, <2>1, <2>2, OthersFollow
  <1>14. ReleasesAreWhole'
    <2>1. \A n \in FormReleases : n <= d + 1 =>
            formReleases'[n].by \in FormCommands /\ formReleases'[n].of \in 1 .. DraftRevision
      <3> TAKE n \in FormReleases
      <3> HAVE n <= d + 1
      <3>1. CASE n = d + 1
        BY <3>1, <1>3, <1>5, <1>7, <1>8, FormSchemaAssumption DEF Revisions
      <3>2. CASE n # d + 1
        BY <3>2, <1>2, <1>4, <1>8 DEF FormSchemaInv, ReleasesAreWhole, FormReleases
      <3> QED
        BY <3>1, <3>2
    <2> QED
      BY <1>4, <1>11, <1>12, <1>13, <2>1, FormSchemaAssumption DEF ReleasesAreWhole, FormReleases
  <1>15. DigestIsOfContent'
    <2>1. ASSUME NEW n \in FormReleases, formReleases'[n] # NoFormRelease
          PROVE  /\ formReleases'[n].digest = formReleases'[n].content
                 /\ formReleases'[n].content = revisions[formReleases'[n].of].content
      <3>1. CASE n = d + 1
        BY <3>1, <1>6, <1>7, <1>8
      <3>2. CASE n # d + 1
        BY <2>1, <3>2, <1>8 DEF FormSchemaInv, DigestIsOfContent
      <3> QED
        BY <3>1, <3>2
    <2> QED
      BY <1>3, <2>1 DEF DigestIsOfContent
  <1>16. NoEditIsLost'
    <2>1. ASSUME NEW n \in FormReleases, formReleases'[n] # NoFormRelease
          PROVE  /\ formReceipts'[formReleases'[n].by.op] = formReleases'[n].by
                 /\ \A m \in FormReleases : formReleases'[m].by = formReleases'[n].by => m = n
      <3>1. \A m \in FormReleases : m # d + 1 => formReleases'[m].by = formReleases[m].by /\ formReleases[m].by # c
        <4> TAKE m \in FormReleases
        <4> HAVE m # d + 1
        <4>1. CASE formReleases[m] # NoFormRelease
          BY <4>1, <1>1, <1>8, FormCommits
        <4>2. CASE formReleases[m] = NoFormRelease
          BY <4>2, <1>7, <1>8 DEF NoFormRelease
        <4> QED
          BY <4>1, <4>2
      <3>2. CASE n = d + 1
        BY <1>1, <1>7, <1>8, <3>1, <3>2, FormCommits
      <3>3. CASE n # d + 1
        <4>1. /\ formReleases[n] # NoFormRelease /\ formReleases'[n] = formReleases[n]
              /\ formReceipts'[formReleases[n].by.op] = formReceipts[formReleases[n].by.op]
          BY <2>1, <3>3, <1>1, <1>8, FormCommits
        <4>2. /\ formReceipts[formReleases[n].by.op] = formReleases[n].by
              /\ \A m \in FormReleases : formReleases[m].by = formReleases[n].by => m = n
          BY <4>1 DEF FormSchemaInv, NoEditIsLost
        <4> QED
          BY <4>1, <4>2, <3>1, <3>3, <1>7, <1>8
      <3> QED
        BY <3>2, <3>3
    <2>2. \A n \in Revisions : revisions[n] # NoRevision =>
       /\ revisions[n].by.expected = n - 1
       /\ formReceipts'[revisions[n].by.op] = revisions[n].by
       /\ \A m \in Revisions : revisions[m].by = revisions[n].by => m = n
      BY <1>1, FormCommits DEF FormSchemaInv, NoEditIsLost
    <2> QED
      BY <1>3, <2>1, <2>2 DEF NoEditIsLost
  <1> QED
    BY <1>1, <1>9, <1>13, <1>14, <1>15, <1>16, FormCommits DEF FormSchemaInv, FormSchemaTypeOK,
       FormRecordsTyped, FormTasksTyped, FormQueriesTyped, FormTaskStates, FormQueryStates

LEMMA ReleaseIsSwitched ==
  ASSUME FormSchemaInv, NEW r \in FormRequests, NEW c \in FormCommands, SetReleaseActive(r, c)
  PROVE  FormSchemaInv'
  <1>0. FormRecordsTyped /\ FormTasksTyped /\ FormQueriesTyped
    BY DEF FormSchemaInv, FormSchemaTypeOK, FormRecordsTyped, FormTasksTyped, FormQueriesTyped,
       FormTaskStates, FormQueryStates
  <1>1. CommitForm(r, c) /\ c.kind = "switch" /\ revisions' = revisions
    BY DEF SetReleaseActive
  <1>2. PICK k \in FormReleases : k = c.release
    BY <1>1, FormCommandFields
  <1> DEFINE x == [formReleases[k] EXCEPT !.active = c.active]
  <1>3. formReleases' = [formReleases EXCEPT ![k] = x]
    BY <1>2 DEF SetReleaseActive
  <1>4. k <= ReleasesMade /\ formReleases[k] # NoFormRelease /\ formReleases[k].by \in FormCommands
    <2>1. formTasks[r].step = "attempted" /\ formTasks[r].command = c
      BY <1>1, FormCommits
    <2>2. k <= ReleasesMade
      BY <1>1, <1>2, <2>1 DEF FormSchemaInv, TasksFollow
    <2> QED
      BY <2>2 DEF FormSchemaInv, ReleasesAreWhole
  <1>5. /\ x \in [content : Contents \cup {NoContent}, digest : Contents \cup {NoContent}, active : BOOLEAN,
                  of : 0 .. MaxFormRevision, by : FormCommands \cup {NoFormCommand}]
        /\ x.by = formReleases[k].by /\ x.content = formReleases[k].content
        /\ x.digest = formReleases[k].digest /\ x.of = formReleases[k].of
    <2>1. c.active \in BOOLEAN
      BY <1>1, FormCommandFields, Zenon
    <2>2. formReleases[k] \in [content : Contents \cup {NoContent}, digest : Contents \cup {NoContent}, active : BOOLEAN,
                  of : 0 .. MaxFormRevision, by : FormCommands \cup {NoFormCommand}]
      BY <1>0 DEF FormRecordsTyped
    <2> QED
      BY <2>1, <2>2
  <1>6. x # NoFormRelease
    BY <1>4, <1>5, FormCommandFields DEF NoFormRelease
  <1> HIDE DEF x
  <1>7. formReleases'[k] = x /\ \A n \in FormReleases : n # k => formReleases'[n] = formReleases[n]
    BY <1>0, <1>3 DEF FormRecordsTyped
  <1>8. \A n \in FormReleases :
          /\ formReleases'[n].by = formReleases[n].by /\ formReleases'[n].content = formReleases[n].content
          /\ formReleases'[n].digest = formReleases[n].digest /\ formReleases'[n].of = formReleases[n].of
          /\ (formReleases'[n] # NoFormRelease <=> formReleases[n] # NoFormRelease)
    BY <1>4, <1>5, <1>6, <1>7
  <1>9. FormRecordsTyped' /\ FormTasksTyped' /\ FormQueriesTyped'
    <2>1. formReleases' \in [FormReleases -> [content : Contents \cup {NoContent},
       digest : Contents \cup {NoContent}, active : BOOLEAN, of : 0 .. MaxFormRevision,
       by : FormCommands \cup {NoFormCommand}]]
      BY <1>0, <1>3, <1>5 DEF FormRecordsTyped
    <2>2. /\ formReceipts' \in [FormOperations -> FormCommands \cup {NoFormCommand}] /\ audited' = audited
          /\ FormTasksTyped' /\ FormQueriesTyped'
      BY <1>1, FormCommits
    <2> QED
      BY <1>0, <1>1, <2>1, <2>2 DEF FormRecordsTyped
  <1>10. ReleasesMade' = ReleasesMade
    <2>1. {n \in FormReleases : formReleases'[n] # NoFormRelease} = {n \in FormReleases : formReleases[n] # NoFormRelease}
      BY <1>8
    <2> QED
      BY <2>1, Zenon DEF ReleasesMade
  <1>11. /\ DraftRevision' = DraftRevision /\ RevisionsAreWhole'
         /\ TasksFollow' /\ QueriesFollow' /\ AnswersStayTrue'
    <2>1. ReleasesMade \in Nat /\ ReleasesMade' \in Nat /\ ReleasesMade <= ReleasesMade'
      BY <1>10 DEF FormSchemaInv, ReleasesAreWhole
    <2> QED
      BY <1>1, <1>8, <2>1, OthersFollow
  <1>12. ReleasesAreWhole'
    BY <1>8, <1>10, <1>11 DEF FormSchemaInv, ReleasesAreWhole
  <1>13. DigestIsOfContent'
    BY <1>1, <1>8 DEF FormSchemaInv, DigestIsOfContent
  <1>14. NoEditIsLost'
    <2>1. \A n \in FormReleases : formReleases'[n] # NoFormRelease =>
       /\ formReceipts'[formReleases'[n].by.op] = formReleases'[n].by
       /\ \A m \in FormReleases : formReleases'[m].by = formReleases'[n].by => m = n
      BY <1>1, <1>8, FormCommits DEF FormSchemaInv, NoEditIsLost
    <2>2. \A n \in Revisions : revisions[n] # NoRevision =>
       /\ revisions[n].by.expected = n - 1
       /\ formReceipts'[revisions[n].by.op] = revisions[n].by
       /\ \A m \in Revisions : revisions[m].by = revisions[n].by => m = n
      BY <1>1, FormCommits DEF FormSchemaInv, NoEditIsLost
    <2> QED
      BY <1>1, <2>1, <2>2 DEF NoEditIsLost
  <1> QED
    BY <1>1, <1>9, <1>11, <1>12, <1>13, <1>14, FormCommits DEF FormSchemaInv, FormSchemaTypeOK,
       FormRecordsTyped, FormTasksTyped, FormQueriesTyped, FormTaskStates, FormQueryStates

LEMMA FormSchemaGoesOn == FormSchemaInv /\ [FormSchemaNext]_formVars => FormSchemaInv'
  <1> SUFFICES ASSUME FormSchemaInv, [FormSchemaNext]_formVars PROVE FormSchemaInv'
    OBVIOUS
  <1>1. CASE UNCHANGED formVars
    <2>1. UNCHANGED <<revisions, formReleases, formReceipts, audited, formTasks, formQueries>>
      BY <1>1 DEF formVars
    <2>2. /\ DraftRevision' = DraftRevision /\ ReleasesMade' = ReleasesMade /\ DraftContent' = DraftContent
          /\ RevisionsAreWhole' /\ ReleasesAreWhole' /\ DigestIsOfContent' /\ NoEditIsLost' /\ EffectsAreAudited'
      BY <2>1, FormTablesStay
    <2>3. TasksFollow' /\ AttemptsAreAudited' /\ QueriesFollow'
      BY <2>1, <2>2 DEF FormSchemaInv, TasksFollow, AttemptsAreAudited, QueriesFollow
    <2>4. FormSchemaTypeOK' /\ AnswersStayTrue'
      BY <2>1 DEF FormSchemaInv, FormSchemaTypeOK, AnswersStayTrue, FindRelease
    <2> QED
      BY <2>2, <2>3, <2>4 DEF FormSchemaInv
  <1> QED
    BY <1>1, QueriesGoOn, FormBegins, AttemptIsRecorded, FormIsLeft, FormIsSaved, FormIsPublished,
       ReleaseIsSwitched
    DEF FormSchemaNext

LEMMA FormSchemaMeans ==
  FormSchemaInv =>
    FormSchemaTypeOK /\ DigestIsOfContent /\ NoEditIsLost /\ EffectsAreAudited /\ AnswersStayTrue
  BY DEF FormSchemaInv

(* A release is what its digest says, no edit of a draft is lost and no    *)
(* effect is unrecorded, and what a query was told stays true.             *)
THEOREM FormsAreSound ==
  FormSchemaSpec =>
    [](FormSchemaTypeOK /\ DigestIsOfContent /\ NoEditIsLost /\ EffectsAreAudited /\ AnswersStayTrue)
  <1>1. FormSchemaInit => FormSchemaInv
    BY FormSchemaStarts
  <1>2. FormSchemaInv /\ [FormSchemaNext]_formVars => FormSchemaInv'
    BY FormSchemaGoesOn
  <1>3. FormSchemaInv =>
          FormSchemaTypeOK /\ DigestIsOfContent /\ NoEditIsLost /\ EffectsAreAudited /\ AnswersStayTrue
    BY FormSchemaMeans
  <1> QED
    BY <1>1, <1>2, <1>3, PTL DEF FormSchemaSpec

-----------------------------------------------------------------------------
(* Organizations: placements, and who is above whom.                       *)

(* Hierarchies: what is above what, as edges E between the elements of V.  *)

LEMMA ReachedIsClosed ==
  ASSUME NEW V, NEW E \in SUBSET (V \X V), NEW u \in V
  PROVE  /\ Reached(V, E, u) \in SUBSET V /\ u \in Reached(V, E, u)
         /\ \A e \in E : e[1] \in Reached(V, E, u) => e[2] \in Reached(V, E, u)
  <1>1. Reached(V, E, u) \in SUBSET V /\ u \in Reached(V, E, u)
    BY DEF Reached
  <1>2. ASSUME NEW e \in E, e[1] \in Reached(V, E, u)
        PROVE  e[2] \in Reached(V, E, u)
    <2>1. e[2] \in V
      OBVIOUS
    <2>2. ASSUME NEW S \in SUBSET V, u \in S, \A f \in E : f[1] \in S => f[2] \in S
          PROVE  e[2] \in S
      BY <1>2, <2>2 DEF Reached
    <2> QED
      BY <2>1, <2>2 DEF Reached
  <1> QED
    BY <1>1, <1>2

LEMMA ReachedIsLeast ==
  ASSUME NEW V, NEW E, NEW u, NEW S \in SUBSET V, u \in S, \A e \in E : e[1] \in S => e[2] \in S
  PROVE  Reached(V, E, u) \subseteq S
  BY DEF Reached

LEMMA FewerReachLess ==
  ASSUME NEW V, NEW F \in SUBSET (V \X V), NEW E \in SUBSET F, NEW u \in V
  PROVE  Reached(V, E, u) \subseteq Reached(V, F, u)
  BY ReachedIsClosed, ReachedIsLeast

LEMMA FewerIsHierarchy ==
  ASSUME NEW V, NEW F \in SUBSET (V \X V), NEW E \in SUBSET F, IsHierarchy(V, F)
  PROVE  IsHierarchy(V, E)
  <1> SUFFICES ASSUME NEW e \in E PROVE e[1] \notin Reached(V, E, e[2])
    BY DEF IsHierarchy
  <1>1. e \in F /\ e[2] \in V
    OBVIOUS
  <1> QED
    BY <1>1, FewerReachLess DEF IsHierarchy

(* What is put below something that is not reached from it stays in order. *)
LEMMA PlacedIsHierarchy ==
  ASSUME NEW V, NEW E \in SUBSET (V \X V), IsHierarchy(V, E),
         NEW a \in V, NEW b \in V, a \notin Reached(V, E, b)
  PROVE  IsHierarchy(V, E \cup {<<a, b>>})
  <1> DEFINE F == E \cup {<<a, b>>}
             B == Reached(V, E, b)
  <1>1. F \in SUBSET (V \X V)
    OBVIOUS
  <1>2. /\ B \in SUBSET V /\ b \in B /\ a \notin B
        /\ \A e \in E : e[1] \in B => e[2] \in B
    BY ReachedIsClosed
  <1>3. ASSUME NEW e \in F PROVE e[1] \notin Reached(V, F, e[2])
    <2>1. CASE e = <<a, b>>
      <3>1. \A f \in F : f[1] \in B => f[2] \in B
        BY <1>2
      <3> HIDE DEF F, B
      <3>2. Reached(V, F, b) \subseteq B
        BY <1>2, <3>1, ReachedIsLeast
      <3> QED
        BY <1>2, <2>1, <3>2
    <2>2. CASE e # <<a, b>>
      <3> DEFINE A == Reached(V, E, e[2])
      <3>1. e \in E /\ e[1] \in V /\ e[2] \in V
        BY <2>2
      <3>2. /\ A \in SUBSET V /\ e[2] \in A
            /\ \A f \in E : f[1] \in A => f[2] \in A
        BY <3>1, ReachedIsClosed
      <3>3. e[1] \notin A
        BY <3>1 DEF IsHierarchy
      <3>4. CASE a \notin A
        <4>1. \A f \in F : f[1] \in A => f[2] \in A
          BY <3>2, <3>4
        <4> HIDE DEF F, A
        <4>2. Reached(V, F, e[2]) \subseteq A
          BY <3>2, <4>1, ReachedIsLeast
        <4> QED
          BY <3>3, <4>2
      <3>5. CASE a \in A
        <4> DEFINE S == A \cup B
        <4>1. \A f \in F : f[1] \in S => f[2] \in S
          BY <1>2, <3>2
        <4>2. e[1] \notin B
          <5> SUFFICES ASSUME e[1] \in B PROVE FALSE
            OBVIOUS
          <5>1. e[2] \in B
            BY <1>2, <3>1
          <5>2. A \subseteq B
            BY <1>2, <5>1, ReachedIsLeast
          <5> QED
            BY <1>2, <3>5, <5>2
        <4>3. S \in SUBSET V /\ e[2] \in S /\ e[1] \notin S
          BY <1>2, <3>2, <3>3, <4>2
        <4> HIDE DEF F, S
        <4>4. Reached(V, F, e[2]) \subseteq S
          BY <4>1, <4>3, ReachedIsLeast
        <4> QED
          BY <4>3, <4>4
      <3> QED
        BY <3>4, <3>5
    <2> QED
      BY <2>1, <2>2
  <1> HIDE DEF F
  <1>4. IsHierarchy(V, F)
    BY <1>3 DEF IsHierarchy
  <1> QED
    BY <1>4 DEF F

(* A claimed operation is nobody else's, and nothing was written under it. *)
PlacementsAreClaimed ==
  \A q, r \in OrganizationRequests :
    handling[r].stage \in {"claimed", "written"} =>
      /\ organizationReceipts[handling[r].command.op] = NoReceipt
      /\ q # r /\ handling[q].stage \in {"claimed", "written"}
           => handling[q].command.op # handling[r].command.op

(* One command at a time has written, and what the trigger allowed it by   *)
(* still holds when it commits.                                            *)
OneHasWritten ==
  \A q, r \in OrganizationRequests :
    handling[r].stage = "written" =>
      TriggerAllows(handling[r].command) /\ (handling[q].stage = "written" => q = r)

ReceiptPerWrite ==
  \A o \in OrganizationOperations :
    written[o] = IF organizationReceipts[o] = NoReceipt THEN 0 ELSE 1

OrganizationInv ==
  /\ OrganizationTypeOK /\ PlacementsAreClaimed /\ OneHasWritten /\ ReceiptPerWrite
  /\ HierarchyIsSound

PlacementRows == [unit : Units, parent : Units \cup {Root}, from : Instants, to : Instants]
HandlingStates == {NotHandling} \cup
  [stage : {"checked", "claimed", "written"}, command : OrganizationCommands]

HandlingTyped == handling \in [OrganizationRequests -> HandlingStates]
PlacementsTyped == placements \in [PlacementIds -> {NoPlacement} \cup PlacementRows]
OrganizationTyped ==
  /\ units \subseteq Units /\ PlacementsTyped
  /\ organizationReceipts \in [OrganizationOperations -> {NoReceipt} \cup OrganizationCommands]
  /\ written \in [OrganizationOperations -> Nat]

(* The fields a command has, by its kind.                                  *)
LEMMA OrganizationFields ==
  ASSUME NEW c \in OrganizationCommands
  PROVE  /\ c.op \in OrganizationOperations /\ c.id \in PlacementIds /\ c.to \in Instants
         /\ c.kind \in {"create", "place", "close"} /\ c # NoReceipt
         /\ c.kind # "close" =>
              c.unit \in Units /\ c.parent \in Units \cup {Root} /\ c.from \in Instants /\ c.from < c.to
  BY OrganizationAssumption DEF CommandsOfOrganization, NoReceipt

LEMMA PlacedRows ==
  ASSUME PlacementsTyped, NEW p \in Placed
  PROVE  p \in PlacementIds /\ placements[p] \in PlacementRows
  BY DEF PlacementsTyped, Placed

LEMMA HandledCommands ==
  ASSUME HandlingTyped, NEW r \in OrganizationRequests,
         handling[r].stage \in {"checked", "claimed", "written"}
  PROVE  /\ handling[r].command \in OrganizationCommands
         /\ \A s \in {"checked", "claimed", "written"} :
              /\ [handling[r] EXCEPT !.stage = s] \in HandlingStates
              /\ [handling[r] EXCEPT !.stage = s].stage = s
              /\ [handling[r] EXCEPT !.stage = s].command = handling[r].command
  BY DEF HandlingTyped, HandlingStates, NotHandling

(* The last of some instants that are not after another.                   *)
LEMMA LatestInstant ==
  ASSUME NEW S \in SUBSET Nat, NEW t \in Nat, NEW i \in S, i <= t
  PROVE  \E m \in S : m <= t /\ \A s \in S : s <= t => s <= m
  <1> DEFINE R == OpToRel(<, Nat)
             T == {n \in Nat : n <= t /\ t - n \in S}
  <1>1. T \subseteq Nat /\ t - i \in T
    OBVIOUS
  <1>2. IsWellFoundedOn(R, Nat)
    BY NatLessThanWellFounded, Zenon
  <1> HIDE DEF R
  <1>3. PICK x \in T : \A y \in T : ~ (<<y, x>> \in R)
    <2> HIDE DEF T
    <2> QED
      BY <1>1, <1>2, WFMin, Zenon
  <1>4. \A y \in T : ~ (y < x)
    BY <1>3 DEF R, OpToRel
  <1>5. t - x \in S /\ t - x <= t
    BY <1>3
  <1>6. ASSUME NEW s \in S, s <= t PROVE s <= t - x
    <2>1. t - s \in T
      BY <1>6
    <2>2. ~ (t - s < x)
      BY <1>4, <2>1, Zenon
    <2>3. x \in Nat /\ s \in Nat
      BY <1>3
    <2> HIDE DEF T
    <2> QED
      BY <2>2, <2>3, <1>6
  <1> QED
    BY <1>5, <1>6

-----------------------------------------------------------------------------
(* The hierarchy at an instant, as edges.                                  *)

EdgesAt(t) == {e \in Units \X Units : e[2] \in ParentsAt(e[1], t)}

OneParentAt(t) ==
  \A u \in Units, p, q \in Placed :
    ActiveAt(p, t) /\ ActiveAt(q, t) /\ placements[p].unit = u /\ placements[q].unit = u => p = q

LEMMA ParentsTyped ==
  ASSUME PlacementsTyped, NEW u, NEW t
  PROVE  ParentsAt(u, t) \subseteq Units \cup {Root}
  BY PlacedRows DEF ParentsAt, PlacementRows

LEMMA AncestorsAreReached ==
  ASSUME PlacementsTyped, NEW t, NEW u
  PROVE  AncestorsAt(u, t) = Reached(Units, EdgesAt(t), u)
  <1>1. ASSUME NEW S \in SUBSET Units
        PROVE  (\A y \in S : ParentsAt(y, t) \ {Root} \subseteq S)
                 <=> (\A e \in EdgesAt(t) : e[1] \in S => e[2] \in S)
    <2>1. ASSUME \A y \in S : ParentsAt(y, t) \ {Root} \subseteq S, NEW e \in EdgesAt(t), e[1] \in S
          PROVE  e[2] \in S
      BY <2>1, OrganizationAssumption DEF EdgesAt
    <2>2. ASSUME \A e \in EdgesAt(t) : e[1] \in S => e[2] \in S, NEW y \in S, NEW x \in ParentsAt(y, t) \ {Root}
          PROVE  x \in S
      <3>1. x \in Units
        BY ParentsTyped
      <3>2. <<y, x>> \in EdgesAt(t)
        BY <3>1 DEF EdgesAt
      <3> QED
        BY <2>2, <3>2
    <2> QED
      BY <2>1, <2>2
  <1> QED
    BY <1>1 DEF AncestorsAt, Reached

LEMMA HierarchyAsEdges ==
  PlacementsTyped =>
    (HierarchyIsSound <=> \A t \in Instants : IsHierarchy(Units, EdgesAt(t)) /\ OneParentAt(t))
  <1> SUFFICES ASSUME PlacementsTyped, NEW t \in Instants
               PROVE  (\A u \in Units : \A x \in ParentsAt(u, t) \ {Root} : u \notin AncestorsAt(x, t))
                        <=> IsHierarchy(Units, EdgesAt(t))
    BY DEF HierarchyIsSound, OneParentAt
  <1>1. ASSUME \A u \in Units : \A x \in ParentsAt(u, t) \ {Root} : u \notin AncestorsAt(x, t),
               NEW e \in EdgesAt(t)
        PROVE  e[1] \notin Reached(Units, EdgesAt(t), e[2])
    <2>1. e[1] \in Units /\ e[2] \in ParentsAt(e[1], t) \ {Root}
      BY OrganizationAssumption DEF EdgesAt
    <2> QED
      BY <1>1, <2>1, AncestorsAreReached
  <1>2. ASSUME IsHierarchy(Units, EdgesAt(t)), NEW u \in Units, NEW x \in ParentsAt(u, t) \ {Root}
        PROVE  u \notin AncestorsAt(x, t)
    <2>1. <<u, x>> \in EdgesAt(t)
      BY ParentsTyped DEF EdgesAt
    <2>2. u \notin Reached(Units, EdgesAt(t), x)
      BY <1>2, <2>1 DEF IsHierarchy
    <2> QED
      BY <2>2, AncestorsAreReached
  <1> QED
    BY <1>1, <1>2 DEF IsHierarchy

LEMMA EdgesAreOfUnits ==
  \A t : EdgesAt(t) \in SUBSET (Units \X Units)
  BY DEF EdgesAt

(* The few instants at which a cycle is looked for are enough: what is in  *)
(* force at any instant of the interval is in force at the last of them.   *)
LEMMA CheckpointsAreEnough ==
  ASSUME PlacementsTyped, NEW c \in OrganizationCommands, c.kind # "close", Acyclic(c), c.parent # Root,
         NEW t \in Instants, c.from <= t, t < c.to
  PROVE  c.unit \notin Reached(Units, EdgesAt(t), c.parent)
  <1>0. c.from \in Nat /\ c.to \in Nat /\ c.from < c.to /\ t \in Nat /\ c.unit \in Units /\ c.parent \in Units
    BY OrganizationFields DEF Instants
  <1> DEFINE S == Checkpoints(c)
  <1>1. S \in SUBSET Nat /\ c.from \in S
    BY <1>0 DEF Checkpoints, Instants
  <1>2. PICK m \in S : m <= t /\ \A s \in S : s <= t => s <= m
    BY <1>0, <1>1, LatestInstant
  <1>3. c.unit \notin Reached(Units, EdgesAt(m), c.parent)
    BY AncestorsAreReached DEF Acyclic
  <1>4. m \in Nat /\ c.from <= m
    BY <1>0, <1>1, <1>2
  <1>5. \A p \in Placed : ActiveAt(p, t) => ActiveAt(p, m)
    <2> SUFFICES ASSUME NEW p \in Placed, ActiveAt(p, t) PROVE ActiveAt(p, m)
      OBVIOUS
    <2>1. /\ placements[p].from \in Instants /\ placements[p].to \in Instants
          /\ placements[p].from <= t /\ t < placements[p].to
      BY PlacedRows DEF ActiveAt, PlacementRows
    <2>2. placements[p].from <= m
      <3> SUFFICES ASSUME ~(placements[p].from <= m) PROVE FALSE
        OBVIOUS
      <3>1. c.from < placements[p].from /\ placements[p].from < c.to
        BY <1>0, <1>4, <2>1 DEF Instants
      <3>2. placements[p].from \in S
        BY <2>1, <3>1 DEF Checkpoints
      <3> QED
        BY <1>2, <2>1, <3>2
    <2>3. m < placements[p].to
      BY <1>0, <1>2, <1>4, <2>1 DEF Instants
    <2> QED
      BY <2>2, <2>3 DEF ActiveAt
  <1>6. EdgesAt(t) \subseteq EdgesAt(m)
    <2> SUFFICES ASSUME NEW e \in EdgesAt(t) PROVE e \in EdgesAt(m)
      OBVIOUS
    <2>1. e \in Units \X Units /\ e[2] \in ParentsAt(e[1], t)
      BY DEF EdgesAt
    <2>2. PICK p \in Placed : ActiveAt(p, t) /\ placements[p].unit = e[1] /\ placements[p].parent = e[2]
      BY <2>1 DEF ParentsAt
    <2>3. e[2] \in ParentsAt(e[1], m)
      BY <1>5, <2>2 DEF ParentsAt
    <2> QED
      BY <2>1, <2>3 DEF EdgesAt
  <1>7. EdgesAt(m) \in SUBSET (Units \X Units)
    BY EdgesAreOfUnits
  <1> QED
    BY <1>0, <1>3, <1>6, <1>7, FewerReachLess

-----------------------------------------------------------------------------
(* The commands.                                                           *)

LEMMA OrganizationStarts == OrganizationInit => OrganizationInv
  <1> SUFFICES ASSUME OrganizationInit PROVE OrganizationInv
    OBVIOUS
  <1>1. HandlingTyped /\ OrganizationTyped
    BY DEF OrganizationInit, HandlingTyped, HandlingStates, OrganizationTyped, PlacementsTyped
  <1>2. PlacementsAreClaimed /\ OneHasWritten /\ ReceiptPerWrite
    BY DEF OrganizationInit, PlacementsAreClaimed, OneHasWritten, ReceiptPerWrite, NotHandling
  <1>3. Placed = {}
    BY DEF OrganizationInit, Placed
  <1>4. HierarchyIsSound
    BY <1>3 DEF HierarchyIsSound, ParentsAt
  <1> QED
    BY <1>1, <1>2, <1>4 DEF OrganizationInv, OrganizationTypeOK,
       HandlingTyped, HandlingStates, OrganizationTyped, PlacementsTyped, PlacementRows

LEMMA OrganizationIsTyped ==
  ASSUME OrganizationInv
  PROVE  HandlingTyped /\ OrganizationTyped /\ PlacementsTyped
  BY DEF OrganizationInv, OrganizationTypeOK, HandlingTyped, HandlingStates, OrganizationTyped,
     PlacementsTyped, PlacementRows

LEMMA PlacementsStay ==
  ASSUME units' = units, placements' = placements
  PROVE  /\ \A c \in OrganizationCommands : TriggerAllows(c)' <=> TriggerAllows(c)
         /\ HierarchyIsSound' <=> HierarchyIsSound
  <1>1. Placed' = Placed /\ \A p, t : ActiveAt(p, t)' <=> ActiveAt(p, t)
    BY DEF Placed, ActiveAt
  <1>2. \A u, t : ParentsAt(u, t)' = ParentsAt(u, t)
    BY <1>1 DEF ParentsAt
  <1>3. \A u, t : AncestorsAt(u, t)' = AncestorsAt(u, t)
    BY <1>2 DEF AncestorsAt
  <1>4. \A c \in OrganizationCommands : (Acyclic(c)' <=> Acyclic(c)) /\ (NoOverlap(c)' <=> NoOverlap(c))
    BY <1>1, <1>3 DEF Acyclic, Checkpoints, NoOverlap
  <1>5. \A c \in OrganizationCommands : TriggerAllows(c)' <=> TriggerAllows(c)
    BY <1>1, <1>4 DEF TriggerAllows
  <1>6. HierarchyIsSound' <=> HierarchyIsSound
    BY <1>1, <1>2, <1>3 DEF HierarchyIsSound
  <1> QED
    BY <1>5, <1>6

(* A command that changes nothing of the organisation.                     *)
LEMMA HandlingGoesOn ==
  ASSUME OrganizationInv, UNCHANGED <<units, placements, organizationReceipts, written>>,
         NEW r \in OrganizationRequests, NEW x \in HandlingStates,
         handling' = [handling EXCEPT ![r] = x],
         x.stage \in {"claimed", "written"} =>
           /\ organizationReceipts[x.command.op] = NoReceipt
           /\ \A q \in OrganizationRequests \ {r} :
                handling[q].stage \in {"claimed", "written"} => handling[q].command.op # x.command.op,
         x.stage = "written" =>
           /\ x.command \in OrganizationCommands /\ TriggerAllows(x.command)
           /\ \A q \in OrganizationRequests : handling[q].stage # "written"
  PROVE  OrganizationInv'
  <1>1. HandlingTyped /\ OrganizationTyped
    BY OrganizationIsTyped
  <1>2. handling'[r] = x /\ \A q \in OrganizationRequests \ {r} : handling'[q] = handling[q]
    BY <1>1 DEF HandlingTyped
  <1>3. HandlingTyped' /\ OrganizationTyped'
    BY <1>1 DEF HandlingTyped, OrganizationTyped, PlacementsTyped
  <1>4. PlacementsAreClaimed'
    BY <1>2 DEF OrganizationInv, PlacementsAreClaimed
  <1>5. OneHasWritten'
    <2>1. ASSUME NEW q \in OrganizationRequests, handling'[q].stage = "written"
          PROVE  /\ TriggerAllows(handling[q].command)'
                 /\ \A p \in OrganizationRequests : handling'[p].stage = "written" => p = q
      <3>1. PICK c \in OrganizationCommands : c = handling'[q].command
        BY <1>3, <2>1 DEF HandlingTyped, HandlingStates, NotHandling
      <3>2. TriggerAllows(c)
        BY <1>2, <2>1, <3>1 DEF OrganizationInv, OneHasWritten
      <3>3. TriggerAllows(c)' <=> TriggerAllows(c)
        BY PlacementsStay
      <3>4. TriggerAllows(handling[q].command)'
        BY <3>1, <3>2, <3>3
      <3>5. \A p \in OrganizationRequests : handling'[p].stage = "written" => p = q
        BY <1>2, <2>1 DEF OrganizationInv, OneHasWritten
      <3> QED
        BY <3>4, <3>5
    <2> QED
      BY <2>1 DEF OneHasWritten
  <1>6. ReceiptPerWrite'
    BY DEF OrganizationInv, ReceiptPerWrite
  <1>7. HierarchyIsSound'
    <2>1. HierarchyIsSound' <=> HierarchyIsSound
      BY PlacementsStay
    <2> QED
      BY <2>1 DEF OrganizationInv
  <1> QED
    BY <1>3, <1>4, <1>5, <1>6, <1>7 DEF OrganizationInv, OrganizationTypeOK,
       HandlingTyped, HandlingStates, OrganizationTyped, PlacementsTyped, PlacementRows

(* A placement that is made or closed: what it does to the hierarchy.      *)
LEMMA PlacementIsSound ==
  ASSUME OrganizationInv, PlacementsTyped', NEW c \in OrganizationCommands, TriggerAllows(c),
         c.kind # "close",
         placements' = [placements EXCEPT ![c.id] =
           [unit |-> c.unit, parent |-> c.parent, from |-> c.from, to |-> c.to]]
  PROVE  HierarchyIsSound'
  <1>0. PlacementsTyped
    BY OrganizationIsTyped
  <1>1. /\ c.id \in PlacementIds /\ c.unit \in Units /\ c.parent \in Units \cup {Root}
        /\ c.from \in Instants /\ c.to \in Instants /\ c.kind \in {"create", "place"}
    BY OrganizationFields
  <1>2. c.id \notin Placed /\ NoOverlap(c) /\ Acyclic(c)
    BY <1>1 DEF TriggerAllows
  <1> DEFINE w == [unit |-> c.unit, parent |-> c.parent, from |-> c.from, to |-> c.to]
  <1>3. w.unit = c.unit /\ w.parent = c.parent /\ w.from = c.from /\ w.to = c.to
    OBVIOUS
  <1>4. w # NoPlacement
    BY <1>0, <1>1 DEF NoPlacement
  <1>5. placements' = [placements EXCEPT ![c.id] = w]
    OBVIOUS
  <1> HIDE DEF w
  <1>6. placements'[c.id] = w /\ \A p \in PlacementIds \ {c.id} : placements'[p] = placements[p]
    BY <1>0, <1>1, <1>5 DEF PlacementsTyped
  <1>7. Placed' = Placed \cup {c.id} /\ Placed \subseteq PlacementIds
    BY <1>1, <1>4, <1>6 DEF Placed
  <1>8. \A p \in Placed : \A t : p # c.id /\ placements'[p] = placements[p] /\ (ActiveAt(p, t)' <=> ActiveAt(p, t))
    BY <1>2, <1>6, <1>7 DEF ActiveAt
  <1>9. \A t : ActiveAt(c.id, t)' <=> c.from <= t /\ t < c.to
    BY <1>3, <1>6, <1>7 DEF ActiveAt
  <1>10. ASSUME NEW t \in Instants
         PROVE  IsHierarchy(Units, EdgesAt(t)') /\ OneParentAt(t)'
    <2>1. IsHierarchy(Units, EdgesAt(t)) /\ OneParentAt(t)
      BY <1>0, HierarchyAsEdges DEF OrganizationInv
    <2>2. EdgesAt(t) \in SUBSET (Units \X Units)
      BY EdgesAreOfUnits
    <2>3. ASSUME NEW e \in EdgesAt(t)'
          PROVE  e \in EdgesAt(t) \/ (c.from <= t /\ t < c.to /\ e = <<c.unit, c.parent>> /\ c.parent # Root)
      <3>1. e \in Units \X Units /\ e[2] \in ParentsAt(e[1], t)'
        BY DEF EdgesAt
      <3>2. PICK p \in Placed' : ActiveAt(p, t)' /\ placements'[p].unit = e[1] /\ placements'[p].parent = e[2]
        BY <3>1 DEF ParentsAt
      <3>3. CASE p \in Placed
        <4>1. ActiveAt(p, t) /\ placements[p].unit = e[1] /\ placements[p].parent = e[2]
          BY <1>8, <3>2, <3>3
        <4>2. e[2] \in ParentsAt(e[1], t)
          BY <3>3, <4>1 DEF ParentsAt
        <4> QED
          BY <3>1, <4>2 DEF EdgesAt
      <3>4. CASE p = c.id
        BY <1>3, <1>6, <1>9, <3>1, <3>2, <3>4, OrganizationAssumption
      <3> QED
        BY <1>7, <3>3, <3>4
    <2>4. IsHierarchy(Units, EdgesAt(t)')
      <3>1. CASE c.from <= t /\ t < c.to /\ c.parent # Root
        <4>1. c.unit \notin Reached(Units, EdgesAt(t), c.parent) /\ c.parent \in Units
          BY <1>0, <1>1, <1>2, <3>1, CheckpointsAreEnough
        <4> DEFINE F == EdgesAt(t) \cup {<<c.unit, c.parent>>}
        <4>2. IsHierarchy(Units, F)
          BY <1>1, <2>1, <2>2, <4>1, PlacedIsHierarchy
        <4>3. EdgesAt(t)' \in SUBSET F /\ F \in SUBSET (Units \X Units)
          BY <1>1, <2>2, <2>3, <4>1
        <4> HIDE DEF F
        <4> QED
          BY <4>2, <4>3, FewerIsHierarchy
      <3>2. CASE ~(c.from <= t /\ t < c.to /\ c.parent # Root)
        <4>1. EdgesAt(t)' \in SUBSET EdgesAt(t)
          BY <2>3, <3>2
        <4> QED
          BY <2>1, <2>2, <4>1, FewerIsHierarchy
      <3> QED
        BY <3>1, <3>2
    <2>5. OneParentAt(t)'
      <3>1. SUFFICES ASSUME NEW p \in Placed', NEW q \in Placed', ActiveAt(p, t)', ActiveAt(q, t)',
                            placements'[p].unit = placements'[q].unit, p # q
                     PROVE  FALSE
        BY DEF OneParentAt
      <3>2. ASSUME NEW o \in Placed, ActiveAt(o, t)', placements'[o].unit = c.unit, c.from <= t, t < c.to
            PROVE  FALSE
        <4>1. /\ placements[o].unit = c.unit /\ o # c.id
              /\ placements[o].from <= t /\ t < placements[o].to
              /\ placements[o].from \in Instants /\ placements[o].to \in Instants
          BY <1>0, <1>8, <3>2, PlacedRows DEF ActiveAt, PlacementRows
        <4>2. placements[o].to <= c.from \/ c.to <= placements[o].from
          BY <1>2, <4>1 DEF NoOverlap
        <4> QED
          BY <1>1, <3>2, <4>1, <4>2 DEF Instants
      <3>3. CASE p \in Placed /\ q \in Placed
        <4>1. placements'[p].unit \in Units
          BY <1>0, <1>8, <3>3, PlacedRows DEF PlacementRows
        <4> QED
          BY <1>8, <2>1, <3>1, <3>3, <4>1 DEF OneParentAt
      <3>4. CASE p = c.id
        BY <1>3, <1>6, <1>7, <1>9, <3>1, <3>2, <3>4
      <3>5. CASE q = c.id
        BY <1>3, <1>6, <1>7, <1>9, <3>1, <3>2, <3>5
      <3> QED
        BY <1>7, <3>3, <3>4, <3>5
    <2> QED
      BY <2>4, <2>5
  <1>11. PlacementsTyped' => (HierarchyIsSound' <=> (\A t \in Instants : IsHierarchy(Units, EdgesAt(t)) /\ OneParentAt(t))')
    BY HierarchyAsEdges, PTL
  <1> QED
    BY <1>10, <1>11 DEF IsHierarchy

LEMMA ClosingIsSound ==
  ASSUME OrganizationInv, PlacementsTyped', NEW c \in OrganizationCommands, TriggerAllows(c),
         c.kind = "close",
         placements' = [placements EXCEPT ![c.id] = [placements[c.id] EXCEPT !.to = c.to]]
  PROVE  HierarchyIsSound'
  <1>0. PlacementsTyped
    BY OrganizationIsTyped
  <1>1. c.id \in PlacementIds /\ c.to \in Instants
    BY OrganizationFields
  <1>2. c.id \in Placed /\ placements[c.id].to \in {c.to, EndOfTime}
    BY DEF TriggerAllows
  <1> DEFINE w == [placements[c.id] EXCEPT !.to = c.to]
  <1>3. /\ w \in PlacementRows /\ w.unit = placements[c.id].unit /\ w.parent = placements[c.id].parent
        /\ w.from = placements[c.id].from /\ w.to = c.to /\ w.to <= placements[c.id].to
        /\ placements[c.id].to \in Instants
    <2>1. placements[c.id] \in PlacementRows
      BY <1>0, <1>2, PlacedRows
    <2> QED
      BY <1>1, <1>2, <2>1, OrganizationAssumption DEF PlacementRows, Instants
  <1>4. w # NoPlacement
    <2>1. w.unit \in Units
      BY <1>3 DEF PlacementRows
    <2> QED
      BY <2>1, OrganizationAssumption DEF NoPlacement
  <1>5. placements' = [placements EXCEPT ![c.id] = w]
    OBVIOUS
  <1> HIDE DEF w
  <1>6. placements'[c.id] = w /\ \A p \in PlacementIds \ {c.id} : placements'[p] = placements[p]
    BY <1>0, <1>1, <1>5 DEF PlacementsTyped
  <1>7. Placed' = Placed /\ Placed \subseteq PlacementIds
    BY <1>1, <1>2, <1>4, <1>6 DEF Placed
  <1>8. \A p \in Placed, t \in Instants :
          /\ placements'[p].unit = placements[p].unit /\ placements'[p].parent = placements[p].parent
          /\ (ActiveAt(p, t)' => ActiveAt(p, t))
    <2> TAKE p \in Placed, t \in Instants
    <2>1. CASE p # c.id
      BY <1>6, <1>7, <2>1 DEF ActiveAt
    <2>2. CASE p = c.id
      <3>1. w.from <= t /\ t < w.to => t < placements[c.id].to
        BY <1>1, <1>3 DEF Instants
      <3> QED
        BY <1>1, <1>3, <1>6, <1>7, <2>2, <3>1 DEF ActiveAt
    <2> QED
      BY <2>1, <2>2
  <1>9. ASSUME NEW t \in Instants
        PROVE  IsHierarchy(Units, EdgesAt(t)') /\ OneParentAt(t)'
    <2>1. IsHierarchy(Units, EdgesAt(t)) /\ OneParentAt(t)
      BY <1>0, HierarchyAsEdges DEF OrganizationInv
    <2>2. EdgesAt(t) \in SUBSET (Units \X Units)
      BY EdgesAreOfUnits
    <2>3. EdgesAt(t)' \in SUBSET EdgesAt(t)
      <3> SUFFICES ASSUME NEW e \in EdgesAt(t)' PROVE e \in EdgesAt(t)
        OBVIOUS
      <3>1. e \in Units \X Units /\ e[2] \in ParentsAt(e[1], t)'
        BY DEF EdgesAt
      <3>2. PICK p \in Placed' : ActiveAt(p, t)' /\ placements'[p].unit = e[1] /\ placements'[p].parent = e[2]
        BY <3>1 DEF ParentsAt
      <3>3. p \in Placed /\ ActiveAt(p, t) /\ placements[p].unit = e[1] /\ placements[p].parent = e[2]
        BY <1>7, <1>8, <3>2
      <3>4. e[2] \in ParentsAt(e[1], t)
        BY <3>3 DEF ParentsAt
      <3> QED
        BY <3>1, <3>4 DEF EdgesAt
    <2>4. IsHierarchy(Units, EdgesAt(t)')
      BY <2>1, <2>2, <2>3, FewerIsHierarchy
    <2>5. OneParentAt(t)'
      BY <1>7, <1>8, <2>1 DEF OneParentAt
    <2> QED
      BY <2>4, <2>5
  <1>10. PlacementsTyped' => (HierarchyIsSound' <=> (\A t \in Instants : IsHierarchy(Units, EdgesAt(t)) /\ OneParentAt(t))')
    BY HierarchyAsEdges, PTL
  <1> QED
    BY <1>9, <1>10 DEF IsHierarchy

LEMMA WriteCommits ==
  ASSUME OrganizationInv, NEW r \in OrganizationRequests, CommitWrite(r)
  PROVE  OrganizationInv'
  <1>0. HandlingTyped /\ OrganizationTyped /\ PlacementsTyped
    BY OrganizationIsTyped
  <1>1. handling[r].stage = "written"
    BY DEF CommitWrite
  <1>2. PICK c \in OrganizationCommands : c = handling[r].command
    BY <1>0, <1>1, HandledCommands
  <1>3. /\ units' = IF c.kind = "create" THEN units \cup {c.unit} ELSE units
        /\ organizationReceipts' = [organizationReceipts EXCEPT ![c.op] = c]
        /\ written' = [written EXCEPT ![c.op] = @ + 1]
        /\ handling' = [handling EXCEPT ![r] = NotHandling]
    BY <1>2 DEF CommitWrite, Done
  <1>4. TriggerAllows(c) /\ organizationReceipts[c.op] = NoReceipt
    BY <1>1, <1>2 DEF OrganizationInv, OneHasWritten, PlacementsAreClaimed
  <1>5. /\ c.op \in OrganizationOperations /\ c.id \in PlacementIds /\ c.to \in Instants
        /\ c.kind \in {"create", "place", "close"} /\ c # NoReceipt
        /\ c.kind # "close" =>
              c.unit \in Units /\ c.parent \in Units \cup {Root} /\ c.from \in Instants /\ c.from < c.to
    BY OrganizationFields
  <1>6. /\ c.kind = "close" =>
             placements' = [placements EXCEPT ![c.id] = [placements[c.id] EXCEPT !.to = c.to]]
        /\ c.kind # "close" =>
             placements' = [placements EXCEPT ![c.id] =
               [unit |-> c.unit, parent |-> c.parent, from |-> c.from, to |-> c.to]]
    BY <1>0, <1>2 DEF CommitWrite, PlacementsTyped
  <1>7. PlacementsTyped'
    <2>1. CASE c.kind = "close"
      <3>1. placements[c.id] \in PlacementRows
        BY <1>0, <1>4, <2>1, PlacedRows DEF TriggerAllows
      <3>2. [placements[c.id] EXCEPT !.to = c.to] \in PlacementRows
        BY <1>5, <3>1 DEF PlacementRows
      <3> QED
        BY <1>0, <1>5, <1>6, <2>1, <3>2 DEF PlacementsTyped
    <2>2. CASE c.kind # "close"
      BY <1>0, <1>5, <1>6, <2>2 DEF PlacementsTyped, PlacementRows
    <2> QED
      BY <2>1, <2>2
  <1>8. HierarchyIsSound'
    BY <1>4, <1>6, <1>7, PlacementIsSound, ClosingIsSound
  <1>9. OrganizationTyped' /\ HandlingTyped'
    BY <1>0, <1>3, <1>5, <1>7 DEF OrganizationTyped, HandlingTyped, HandlingStates
  <1>10. handling'[r] = NotHandling /\ \A q \in OrganizationRequests \ {r} : handling'[q] = handling[q]
    BY <1>0, <1>3 DEF HandlingTyped
  <1>11. PlacementsAreClaimed'
    <2>1. ASSUME NEW q \in OrganizationRequests, handling'[q].stage \in {"claimed", "written"}
          PROVE  /\ organizationReceipts'[handling'[q].command.op] = NoReceipt
                 /\ q # r /\ handling'[q] = handling[q]
      <3>1. q # r /\ handling'[q] = handling[q]
        BY <1>10, <2>1 DEF NotHandling
      <3>2. handling[q].command.op # c.op /\ organizationReceipts[handling[q].command.op] = NoReceipt
        BY <1>1, <1>2, <2>1, <3>1 DEF OrganizationInv, PlacementsAreClaimed
      <3>3. handling[q].command \in OrganizationCommands
        BY <1>0, <2>1, <3>1, HandledCommands
      <3>4. handling[q].command.op \in OrganizationOperations
        BY <3>3, OrganizationFields
      <3> QED
        BY <1>0, <1>3, <3>1, <3>2, <3>4 DEF OrganizationTyped
    <2> QED
      BY <2>1 DEF OrganizationInv, PlacementsAreClaimed
  <1>12. OneHasWritten'
    <2>1. \A q \in OrganizationRequests : handling'[q].stage # "written"
      BY <1>1, <1>10 DEF OrganizationInv, OneHasWritten, NotHandling
    <2> QED
      BY <2>1 DEF OneHasWritten
  <1>13. ReceiptPerWrite'
    BY <1>0, <1>3, <1>4, <1>5 DEF OrganizationInv, ReceiptPerWrite, OrganizationTyped
  <1> QED
    BY <1>8, <1>9, <1>11, <1>12, <1>13 DEF OrganizationInv, OrganizationTypeOK,
       HandlingTyped, HandlingStates, OrganizationTyped, PlacementsTyped, PlacementRows

LEMMA OrganizationGoesOn == OrganizationInv /\ [OrganizationNext]_organizationVars => OrganizationInv'
  <1> SUFFICES ASSUME OrganizationInv, [OrganizationNext]_organizationVars PROVE OrganizationInv'
    OBVIOUS
  <1>0. HandlingTyped /\ OrganizationTyped
    BY OrganizationIsTyped
  <1>1. ASSUME NEW r \in OrganizationRequests, NEW c \in OrganizationCommands, Check(r, c)
        PROVE  OrganizationInv'
    <2> DEFINE x == [stage |-> "checked", command |-> c]
    <2>1. x \in HandlingStates /\ x.stage = "checked"
      BY DEF HandlingStates
    <2>2. UNCHANGED <<units, placements, organizationReceipts, written>> /\ handling' = [handling EXCEPT ![r] = x]
      BY <1>1 DEF Check
    <2> HIDE DEF x
    <2> QED
      BY <2>1, <2>2, HandlingGoesOn
  <1>2. ASSUME NEW r \in OrganizationRequests, ClaimOperation(r) PROVE OrganizationInv'
    <2>1. UNCHANGED <<units, placements, organizationReceipts, written>> /\ handling[r].stage = "checked"
      BY <1>2 DEF ClaimOperation
    <2>2. CASE organizationReceipts[handling[r].command.op] = NoReceipt
      <3> DEFINE x == [handling[r] EXCEPT !.stage = "claimed"]
      <3>1. handling' = [handling EXCEPT ![r] = x] /\
            \A q \in OrganizationRequests : handling[q].stage \in {"claimed", "written"} =>
              handling[q].command.op # handling[r].command.op
        BY <1>2, <2>2 DEF ClaimOperation, Goes
      <3>2. x \in HandlingStates /\ x.stage = "claimed" /\ x.command = handling[r].command
        BY <1>0, <2>1, HandledCommands
      <3> HIDE DEF x
      <3> QED
        BY <2>1, <2>2, <3>1, <3>2, HandlingGoesOn
    <2>3. CASE organizationReceipts[handling[r].command.op] # NoReceipt
      <3>1. handling' = [handling EXCEPT ![r] = NotHandling]
        BY <1>2, <2>3 DEF ClaimOperation, Done
      <3> QED
        BY <2>1, <3>1, HandlingGoesOn DEF NotHandling, HandlingStates
    <2> QED
      BY <2>2, <2>3
  <1>3. ASSUME NEW r \in OrganizationRequests, Write(r) PROVE OrganizationInv'
    <2> DEFINE x == [handling[r] EXCEPT !.stage = "written"]
    <2>1. /\ UNCHANGED <<units, placements, organizationReceipts, written>> /\ handling[r].stage = "claimed"
          /\ handling' = [handling EXCEPT ![r] = x] /\ TriggerAllows(handling[r].command)
          /\ \A q \in OrganizationRequests : handling[q].stage # "written"
      BY <1>3 DEF Write, Goes, HierarchyFree
    <2>2. x \in HandlingStates /\ x.stage = "written" /\ x.command = handling[r].command
            /\ x.command \in OrganizationCommands
      BY <1>0, <2>1, HandledCommands
    <2> HIDE DEF x
    <2>3. /\ organizationReceipts[x.command.op] = NoReceipt
          /\ \A q \in OrganizationRequests \ {r} :
                handling[q].stage \in {"claimed", "written"} => handling[q].command.op # x.command.op
      BY <2>1, <2>2 DEF OrganizationInv, PlacementsAreClaimed
    <2>4. TriggerAllows(x.command)
      BY <2>1, <2>2
    <2> QED
      BY <2>1, <2>2, <2>3, <2>4, HandlingGoesOn
  <1>4. ASSUME NEW r \in OrganizationRequests, RollBackWrite(r) PROVE OrganizationInv'
    BY <1>4, HandlingGoesOn DEF RollBackWrite, Done, NotHandling, HandlingStates
  <1>5. CASE UNCHANGED organizationVars
    <2>1. UNCHANGED <<units, placements, organizationReceipts, handling, written>>
      BY <1>5 DEF organizationVars
    <2>2. HandlingTyped' /\ OrganizationTyped' /\ ReceiptPerWrite' /\ PlacementsAreClaimed'
      BY <1>0, <2>1 DEF HandlingTyped, OrganizationTyped, PlacementsTyped, OrganizationInv,
         ReceiptPerWrite, PlacementsAreClaimed
    <2>3. HierarchyIsSound'
      BY <2>1, PlacementsStay DEF OrganizationInv
    <2>4. ASSUME NEW q \in OrganizationRequests, handling[q].stage = "written"
          PROVE  TriggerAllows(handling[q].command)'
                   /\ \A p \in OrganizationRequests : handling[p].stage = "written" => p = q
      <3>1. PICK c \in OrganizationCommands : c = handling[q].command
        BY <1>0, <2>4, HandledCommands
      <3>2. TriggerAllows(c) /\ \A p \in OrganizationRequests : handling[p].stage = "written" => p = q
        BY <2>4, <3>1 DEF OrganizationInv, OneHasWritten
      <3>3. TriggerAllows(c)' <=> TriggerAllows(c)
        BY <2>1, PlacementsStay
      <3> QED
        BY <2>1, <3>1, <3>2, <3>3
    <2>5. OneHasWritten'
      BY <2>1, <2>4 DEF OneHasWritten
    <2> QED
      BY <2>2, <2>3, <2>5 DEF OrganizationInv, OrganizationTypeOK,
         HandlingTyped, HandlingStates, OrganizationTyped, PlacementsTyped, PlacementRows
  <1> QED
    BY <1>1, <1>2, <1>3, <1>4, <1>5, WriteCommits DEF OrganizationNext

LEMMA OrganizationMeans ==
  OrganizationInv => OrganizationTypeOK /\ HierarchyIsSound /\ WrittenOnce
  BY DEF OrganizationInv, ReceiptPerWrite, WrittenOnce

(* At no instant is a unit among its own ancestors or below two, and a     *)
(* command is written once, however commands race.                         *)
THEOREM OrganizationIsSound ==
  OrganizationSpec => [](OrganizationTypeOK /\ HierarchyIsSound /\ WrittenOnce)
  <1>1. OrganizationInit => OrganizationInv
    BY OrganizationStarts
  <1>2. OrganizationInv /\ [OrganizationNext]_organizationVars => OrganizationInv'
    BY OrganizationGoesOn
  <1>3. OrganizationInv => OrganizationTypeOK /\ HierarchyIsSound /\ WrittenOnce
    BY OrganizationMeans
  <1> QED
    BY <1>1, <1>2, <1>3, PTL DEF OrganizationSpec

-----------------------------------------------------------------------------
(* The facts of an organization: employments, positions and assignments.   *)

(* Of what a command has written, it is still true that it may; it is alone*)
(* with its fact.                                                          *)
FactsAreWritten ==
  \A p, r \in FactRequests : factOf[r].step = "written" =>
    LET c == factOf[r].command
    IN  /\ IF c.kind = "create" THEN coreFacts[c.id] = NoInterval ELSE MayEnd(c)
        /\ p # r /\ factOf[p].step = "written" => factOf[p].command.id # c.id

FactsAreNamed == \A f \in FactIds : coreFacts[f] # NoInterval => coreFacts[f].id = f

EndsAreKept ==
  \A x \in factReceipts : x.kind = "close" =>
    coreFacts[x.id] # NoInterval /\ coreFacts[x.id].to = x.to

ContextsAreKept ==
  \A x \in ContextReaders : \A a \in resolving[x].assignments :
    coreFacts[a] # NoInterval /\ coreFacts[a].employment \in resolving[x].employments

FactsInv == FactsTypeOK /\ FactsAreNamed /\ FactsAreWritten /\ EndsAreKept /\ ContextsAreKept

FactRows == {c \in CommandsOfFacts : c.kind = "create"}
FactStates == {FactIdle} \cup [step : {"checked", "written"}, command : FactCommands]
ResolvingStates == [step : {"none", "read", "answered"}, at : FactTimes,
        employments : SUBSET EmploymentIds, assignments : SUBSET AssignmentIds]

CoreFactsTyped == coreFacts \in [FactIds -> {NoInterval} \cup FactRows]
FactOfTyped == factOf \in [FactRequests -> FactStates]
ResolvingTyped == resolving \in [ContextReaders -> ResolvingStates]

LEMMA FactFields ==
  ASSUME NEW c \in FactCommands
  PROVE  /\ c.id \in FactIds /\ c.to \in FactTimes /\ c.kind \in {"create", "close"}
         /\ c.kind = "create" => c \in FactRows
         /\ c.kind = "close" => c.to # OpenEnded
  BY FactsAssumption DEF CommandsOfFacts, FactIds, FactRows

(* A row has an interval, that of an assignment whom it is of; no row is   *)
(* like what is not there.                                                 *)
LEMMA RowFields ==
  ASSUME NEW f \in FactRows
  PROVE  /\ f.from \in FactTimes /\ f.to \in FactTimes /\ f # NoInterval
         /\ f.id \in AssignmentIds => f.employment \in EmploymentIds
         /\ \A t \in FactTimes :
              /\ [f EXCEPT !.to = t] \in FactRows
              /\ [f EXCEPT !.to = t].to = t /\ [f EXCEPT !.to = t].from = f.from
              /\ f.id \in AssignmentIds => [f EXCEPT !.to = t].employment = f.employment
  <1>1. CASE f \in [op : FactOperations, kind : {"create"}, id : EmploymentIds \cup PositionIds,
                    from : FactTimes, to : FactTimes]
    BY <1>1, FactsAssumption DEF FactRows, CommandsOfFacts, NoInterval
  <1>2. CASE f \in [op : FactOperations, kind : {"create"}, id : AssignmentIds, from : FactTimes, to : FactTimes,
          employment : EmploymentIds, position : PositionIds]
    BY <1>2, FactsAssumption DEF FactRows, CommandsOfFacts, NoInterval
  <1> QED
    BY <1>1, <1>2 DEF FactRows, CommandsOfFacts

LEMMA FactsAreTyped ==
  FactsTypeOK <=> CoreFactsTyped /\ FactOfTyped /\ ResolvingTyped /\ factReceipts \subseteq FactCommands
  BY DEF FactsTypeOK, CoreFactsTyped, FactOfTyped, ResolvingTyped, FactRows, FactStates,
     ResolvingStates

LEMMA FactsStart == FactsInit => FactsInv
  <1> SUFFICES ASSUME FactsInit PROVE FactsInv
    OBVIOUS
  <1>1. CoreFactsTyped /\ FactOfTyped /\ factReceipts \subseteq FactCommands
    BY DEF FactsInit, CoreFactsTyped, FactOfTyped, FactStates
  <1>2. ResolvingTyped
    BY FactsAssumption DEF FactsInit, ResolvingTyped, ResolvingStates, NotResolving, FactTimes
  <1>3. FactsAreNamed /\ FactsAreWritten /\ EndsAreKept
    BY DEF FactsInit, FactsAreNamed, FactsAreWritten, EndsAreKept, FactIdle
  <1>4. ContextsAreKept
    BY DEF FactsInit, ContextsAreKept, NotResolving
  <1> QED
    BY <1>1, <1>2, <1>3, <1>4, FactsAreTyped DEF FactsInv

(* A command that has changed no fact yet, or ends.                        *)
LEMMA FactGoesOn ==
  ASSUME FactsInv, UNCHANGED <<coreFacts, factReceipts, resolving>>,
         NEW r \in FactRequests, NEW x \in FactStates, factOf' = [factOf EXCEPT ![r] = x],
         x.step = "written" =>
           /\ IF x.command.kind = "create" THEN coreFacts[x.command.id] = NoInterval ELSE MayEnd(x.command)
           /\ \A p \in FactRequests \ {r} : factOf[p].step = "written" => factOf[p].command.id # x.command.id
  PROVE  FactsInv'
  <1>1. CoreFactsTyped /\ FactOfTyped /\ ResolvingTyped /\ factReceipts \subseteq FactCommands
    BY FactsAreTyped DEF FactsInv
  <1>2. factOf'[r] = x /\ \A p \in FactRequests \ {r} : factOf'[p] = factOf[p]
    BY <1>1 DEF FactOfTyped
  <1>3. CoreFactsTyped' /\ FactOfTyped' /\ ResolvingTyped' /\ factReceipts' \subseteq FactCommands
    BY <1>1 DEF CoreFactsTyped, FactOfTyped, ResolvingTyped
  <1>4. FactsAreNamed' /\ EndsAreKept' /\ ContextsAreKept'
    BY DEF FactsInv, FactsAreNamed, EndsAreKept, ContextsAreKept
  <1>5. FactsAreWritten'
    BY <1>2 DEF FactsInv, FactsAreWritten, MayEnd
  <1>6. (FactsTypeOK <=> CoreFactsTyped /\ FactOfTyped /\ ResolvingTyped /\ factReceipts \subseteq FactCommands)'
    BY FactsAreTyped, PTL
  <1> QED
    BY <1>3, <1>4, <1>5, <1>6 DEF FactsInv

LEMMA FactCommits ==
  ASSUME FactsInv, NEW r \in FactRequests, CommitFact(r)
  PROVE  FactsInv'
  <1>1. CoreFactsTyped /\ FactOfTyped /\ ResolvingTyped /\ factReceipts \subseteq FactCommands
    BY FactsAreTyped DEF FactsInv
  <1>2. factOf[r].step = "written"
    BY DEF CommitFact
  <1>3. PICK c \in FactCommands : c = factOf[r].command
    BY <1>1, <1>2 DEF FactOfTyped, FactStates, FactIdle
  <1>4. /\ coreFacts' = [coreFacts EXCEPT ![c.id] =
                      IF c.kind = "create" THEN c ELSE [coreFacts[c.id] EXCEPT !.to = c.to]]
        /\ factReceipts' = factReceipts \cup {c}
        /\ factOf' = [factOf EXCEPT ![r] = FactIdle]
        /\ resolving' = resolving
    <2>1. c.id \in FactIds
      BY FactFields
    <2> QED
      BY <1>1, <1>3, <2>1 DEF CommitFact, CoreFactsTyped
  <1>5. /\ c.id \in FactIds /\ c.to \in FactTimes /\ c.kind \in {"create", "close"}
        /\ c.kind = "create" => c \in FactRows
        /\ c.kind = "close" => c.to # OpenEnded
    BY FactFields
  <1>6. IF c.kind = "create" THEN coreFacts[c.id] = NoInterval ELSE MayEnd(c)
    BY <1>2, <1>3 DEF FactsInv, FactsAreWritten
  <1>7. /\ factOf'[r] = FactIdle /\ \A p \in FactRequests \ {r} : factOf'[p] = factOf[p]
        /\ FactOfTyped'
    BY <1>1, <1>4 DEF FactOfTyped, FactStates
  (* What the fact is now.                                                 *)
  <1>8. PICK w \in FactRows :
          /\ coreFacts' = [coreFacts EXCEPT ![c.id] = w]
          /\ c.kind = "create" => w = c
          /\ c.kind = "close" =>
               /\ coreFacts[c.id] \in FactRows /\ w.id = coreFacts[c.id].id
               /\ w.to = c.to /\ coreFacts[c.id].to \in {c.to, OpenEnded}
               /\ coreFacts[c.id].id \in AssignmentIds => w.employment = coreFacts[c.id].employment
    <2>1. CASE c.kind = "create"
      BY <1>4, <1>5, <2>1
    <2>2. CASE c.kind = "close"
      <3>1. coreFacts[c.id].from < c.to /\ coreFacts[c.id].to \in {c.to, OpenEnded}
        BY <1>6, <2>2 DEF MayEnd
      <3>2. coreFacts[c.id] # NoInterval
        BY <1>5, <2>2, <3>1, FactsAssumption DEF NoInterval, FactTimes
      <3>3. PICK f \in FactRows : f = coreFacts[c.id]
        BY <1>1, <1>5, <3>2 DEF CoreFactsTyped
      <3>4. PICK w : w = [f EXCEPT !.to = c.to]
        OBVIOUS
      <3>5. w \in FactRows /\ w.to = c.to /\ (f.id \in AssignmentIds => w.employment = f.employment)
        BY <1>5, <3>4, RowFields
      <3>6. w.id = f.id
        BY <3>4 DEF FactRows, CommandsOfFacts
      <3>7. coreFacts' = [coreFacts EXCEPT ![c.id] = w]
        BY <1>4, <2>2, <3>3, <3>4
      <3> QED
        BY <2>2, <3>1, <3>3, <3>5, <3>6, <3>7
    <2> QED
      BY <1>5, <2>1, <2>2
  <1>9. coreFacts'[c.id] = w /\ (\A f \in FactIds \ {c.id} : coreFacts'[f] = coreFacts[f]) /\ CoreFactsTyped'
    BY <1>1, <1>5, <1>8 DEF CoreFactsTyped
  <1>10. w # NoInterval
    BY RowFields
  <1>11. FactsAreNamed'
    BY <1>5, <1>8, <1>9, RowFields DEF FactsInv, FactsAreNamed
  <1>12. FactsAreWritten'
    <2> SUFFICES ASSUME NEW p \in FactRequests, NEW q \in FactRequests, factOf'[q].step = "written", NEW d, d = factOf'[q].command
                 PROVE  /\ IF d.kind = "create" THEN coreFacts'[d.id] = NoInterval
                           ELSE coreFacts'[d.id].from < d.to /\ coreFacts'[d.id].to \in {d.to, OpenEnded}
                        /\ p # q /\ factOf'[p].step = "written" => factOf'[p].command.id # d.id
      BY DEF FactsAreWritten, MayEnd
    <2>1. q # r /\ factOf'[q] = factOf[q]
      BY <1>7 DEF FactIdle
    <2>2. d.id # c.id /\ d \in FactCommands
      BY <1>1, <1>2, <1>3, <2>1 DEF FactsInv, FactsAreWritten, FactOfTyped, FactStates, FactIdle
    <2>3. coreFacts'[d.id] = coreFacts[d.id]
      BY <1>9, <2>2, FactFields
    <2>4. IF d.kind = "create" THEN coreFacts[d.id] = NoInterval ELSE MayEnd(d)
      BY <2>1 DEF FactsInv, FactsAreWritten
    <2>5. p # q /\ factOf'[p].step = "written" => factOf'[p].command.id # d.id
      BY <1>7, <2>1 DEF FactsInv, FactsAreWritten, FactIdle
    <2> QED
      BY <2>3, <2>4, <2>5 DEF MayEnd
  <1>13. EndsAreKept'
    <2> SUFFICES ASSUME NEW x \in factReceipts', x.kind = "close"
                 PROVE  coreFacts'[x.id] # NoInterval /\ coreFacts'[x.id].to = x.to
      BY DEF EndsAreKept
    <2>1. CASE x = c
      BY <1>8, <1>9, <1>10, <2>1
    <2>2. CASE x # c
      <3>1. x \in factReceipts /\ x \in FactCommands /\ x.id \in FactIds /\ x.to # OpenEnded
        BY <1>1, <1>4, <2>2, FactFields
      <3>2. coreFacts[x.id] # NoInterval /\ coreFacts[x.id].to = x.to
        BY <3>1 DEF FactsInv, EndsAreKept
      <3>3. CASE x.id = c.id
        BY <1>5, <1>6, <1>8, <1>9, <1>10, <3>1, <3>2, <3>3
      <3>4. CASE x.id # c.id
        BY <1>9, <3>1, <3>2, <3>4
      <3> QED
        BY <3>3, <3>4
    <2> QED
      BY <2>1, <2>2
  <1>14. ContextsAreKept'
    <2> SUFFICES ASSUME NEW x \in ContextReaders, NEW a \in resolving[x].assignments
                 PROVE  coreFacts'[a] # NoInterval /\ coreFacts'[a].employment \in resolving[x].employments
      BY <1>4 DEF ContextsAreKept
    <2>1. a \in AssignmentIds /\ a \in FactIds
      BY <1>1 DEF ResolvingTyped, ResolvingStates, FactIds
    <2>2. coreFacts[a] # NoInterval /\ coreFacts[a].employment \in resolving[x].employments
      BY DEF FactsInv, ContextsAreKept
    <2>3. CASE a = c.id
      <3>1. c.kind = "close" /\ coreFacts[a].id = a
        BY <1>5, <1>6, <2>1, <2>2, <2>3 DEF FactsInv, FactsAreNamed
      <3> QED
        BY <1>8, <1>9, <1>10, <2>1, <2>2, <2>3, <3>1
    <2>4. CASE a # c.id
      BY <1>9, <2>1, <2>2, <2>4
    <2> QED
      BY <2>3, <2>4
  <1>15. factReceipts' \subseteq FactCommands /\ ResolvingTyped'
    BY <1>1, <1>4 DEF ResolvingTyped
  <1>16. (FactsTypeOK <=> CoreFactsTyped /\ FactOfTyped /\ ResolvingTyped /\ factReceipts \subseteq FactCommands)'
    BY FactsAreTyped, PTL
  <1> QED
    BY <1>7, <1>9, <1>11, <1>12, <1>13, <1>14, <1>15, <1>16 DEF FactsInv

(* A context is read.                                                      *)
LEMMA ContextGoesOn ==
  ASSUME FactsInv, UNCHANGED <<coreFacts, factReceipts, factOf>>,
         NEW x \in ContextReaders, NEW y \in ResolvingStates, resolving' = [resolving EXCEPT ![x] = y],
         \A a \in y.assignments : coreFacts[a] # NoInterval /\ coreFacts[a].employment \in y.employments
  PROVE  FactsInv'
  <1>1. CoreFactsTyped /\ FactOfTyped /\ ResolvingTyped /\ factReceipts \subseteq FactCommands
    BY FactsAreTyped DEF FactsInv
  <1>2. /\ resolving'[x] = y /\ \A z \in ContextReaders \ {x} : resolving'[z] = resolving[z]
        /\ ResolvingTyped'
    BY <1>1 DEF ResolvingTyped
  <1>3. CoreFactsTyped' /\ FactOfTyped' /\ factReceipts' \subseteq FactCommands
    BY <1>1 DEF CoreFactsTyped, FactOfTyped
  <1>4. FactsAreNamed' /\ EndsAreKept' /\ FactsAreWritten'
    BY DEF FactsInv, FactsAreNamed, EndsAreKept, FactsAreWritten, MayEnd
  <1>5. ContextsAreKept'
    BY <1>2 DEF FactsInv, ContextsAreKept
  <1>6. (FactsTypeOK <=> CoreFactsTyped /\ FactOfTyped /\ ResolvingTyped /\ factReceipts \subseteq FactCommands)'
    BY FactsAreTyped, PTL
  <1> QED
    BY <1>2, <1>3, <1>4, <1>5, <1>6 DEF FactsInv

LEMMA FactsGoOn == FactsInv /\ [FactsNext]_factVars => FactsInv'
  <1> SUFFICES ASSUME FactsInv, [FactsNext]_factVars PROVE FactsInv'
    OBVIOUS
  <1>0. CoreFactsTyped /\ FactOfTyped /\ ResolvingTyped /\ factReceipts \subseteq FactCommands
    BY FactsAreTyped DEF FactsInv
  <1>1. ASSUME NEW r \in FactRequests, NEW c \in FactCommands, BeginFact(r, c) PROVE FactsInv'
    <2> DEFINE x == [step |-> "checked", command |-> c]
    <2>1. x \in FactStates /\ x.step = "checked"
      BY DEF FactStates
    <2>2. UNCHANGED <<coreFacts, factReceipts, resolving>> /\ factOf' = [factOf EXCEPT ![r] = x]
      BY <1>1 DEF BeginFact
    <2> HIDE DEF x
    <2> QED
      BY <2>1, <2>2, FactGoesOn
  <1>2. ASSUME NEW r \in FactRequests, WriteFact(r) PROVE FactsInv'
    <2> DEFINE x == [factOf[r] EXCEPT !.step = "written"]
    <2>1. /\ UNCHANGED <<coreFacts, factReceipts, resolving>> /\ factOf' = [factOf EXCEPT ![r] = x]
          /\ factOf[r].step = "checked"
          /\ \A p \in FactRequests : factOf[p].step = "written" => factOf[p].command.id # factOf[r].command.id
          /\ IF factOf[r].command.kind = "create" THEN coreFacts[factOf[r].command.id] = NoInterval
             ELSE MayEnd(factOf[r].command)
      BY <1>2 DEF WriteFact
    <2>2. x \in FactStates /\ x.step = "written" /\ x.command = factOf[r].command
      BY <1>0, <2>1 DEF FactOfTyped, FactStates, FactIdle
    <2> HIDE DEF x
    <2> QED
      BY <2>1, <2>2, FactGoesOn
  <1>3. ASSUME NEW r \in FactRequests, EndFact(r) PROVE FactsInv'
    BY <1>3, FactGoesOn DEF EndFact, FactIdle, FactStates
  <1>4. ASSUME NEW x \in ContextReaders, ReadAssignments(x) PROVE FactsInv'
    <2>1. UNCHANGED <<coreFacts, factReceipts, factOf>> /\ resolving[x].step = "read"
      BY <1>4 DEF ReadAssignments
    <2> DEFINE y == [resolving[x] EXCEPT !.step = "answered", !.assignments = AssignmentsRead(x)]
    <2>2. resolving' = [resolving EXCEPT ![x] = y] \/ resolving' = [resolving EXCEPT ![x] = NotResolving]
      BY <1>0, <1>4 DEF ReadAssignments, ResolvingTyped
    <2>3. /\ y \in ResolvingStates /\ y.assignments = AssignmentsRead(x)
          /\ y.employments = resolving[x].employments
      <3>1. AssignmentsRead(x) \in SUBSET AssignmentIds /\ resolving[x] \in ResolvingStates
        BY <1>0 DEF AssignmentsRead, ResolvingTyped
      <3> QED
        BY <3>1 DEF ResolvingStates
    <2> HIDE DEF y
    <2>4. \A a \in y.assignments : coreFacts[a] # NoInterval /\ coreFacts[a].employment \in y.employments
      <3> TAKE a \in y.assignments
      <3>1. InForce(a, resolving[x].at) /\ coreFacts[a].employment \in resolving[x].employments
              /\ resolving[x].at \in FactTimes
        BY <1>0, <2>3 DEF AssignmentsRead, ResolvingTyped, ResolvingStates
      <3>2. coreFacts[a] # NoInterval
        BY <3>1, FactsAssumption DEF InForce, NoInterval, FactTimes
      <3> QED
        BY <2>3, <3>1, <3>2
    <2>5. NotResolving \in ResolvingStates /\ NotResolving.assignments = {}
      BY FactsAssumption DEF NotResolving, ResolvingStates, FactTimes
    <2> QED
      BY <2>1, <2>2, <2>3, <2>4, <2>5, ContextGoesOn
  <1>5. ASSUME NEW x \in ContextReaders, NEW t \in FactTimes \ {OpenEnded}, ReadEmployments(x, t) PROVE FactsInv'
    <2> DEFINE s == {e \in EmploymentIds : InForce(e, t)}
               y == [step |-> "read", at |-> t, employments |-> s, assignments |-> {}]
    <2>1. y \in ResolvingStates /\ y.assignments = {}
      BY DEF ResolvingStates
    <2>2. UNCHANGED <<coreFacts, factReceipts, factOf>> /\ resolving' = [resolving EXCEPT ![x] = y]
      BY <1>5 DEF ReadEmployments
    <2> HIDE DEF y
    <2> QED
      BY <2>1, <2>2, ContextGoesOn
  <1>6. CASE UNCHANGED factVars
    BY <1>6 DEF factVars, FactsInv, FactsTypeOK, FactsAreNamed, FactsAreWritten, EndsAreKept,
       ContextsAreKept, MayEnd
  <1> QED
    BY <1>1, <1>2, <1>3, <1>4, <1>5, <1>6, FactCommits DEF FactsNext

LEMMA FactsMean == FactsInv => FactsTypeOK /\ EndedOnce /\ ContextIsVouched
  BY DEF FactsInv, EndsAreKept, ContextsAreKept, EndedOnce, ContextIsVouched

(* The end of a fact is set once, and a context lists assignments only of  *)
(* the employments it lists.                                               *)
THEOREM FactsAreSound == FactsSpec => [](FactsTypeOK /\ EndedOnce /\ ContextIsVouched)
  <1>1. FactsInit => FactsInv
    BY FactsStart
  <1>2. FactsInv /\ [FactsNext]_factVars => FactsInv'
    BY FactsGoOn
  <1>3. FactsInv => FactsTypeOK /\ EndedOnce /\ ContextIsVouched
    BY FactsMean
  <1> QED
    BY <1>1, <1>2, <1>3, PTL DEF FactsSpec

-----------------------------------------------------------------------------
(* Notifications: templates, their releases, intents and items.            *)

PublishStates ==
  {NotPublishing} \cup [stage : {"drafted"}, text : Texts]
    \cup [stage : {"listed"}, text : Texts, version : Versions]
SubmitStates ==
  {NotSubmitting} \cup [stage : {"looked"}, key : IntentKeys, fingerprint : Fingerprints]
    \cup [stage : {"resolved"}, key : IntentKeys, fingerprint : Fingerprints, result : SUBSET Recipients]
DraftReceipts ==
  [expected : 0 .. MaxDraftRevision, revision : 1 .. MaxDraftRevision, text : Texts]
IntentRows == [fingerprint : Fingerprints, result : SUBSET Recipients]
NotificationItems == [version : 0 .. 3, read : BOOLEAN, archived : BOOLEAN]

DraftTyped ==
  /\ draft.revision \in 0 .. MaxDraftRevision
  /\ draft = [revision |-> 0, text |-> None] \/ draft \in [revision : 1 .. MaxDraftRevision, text : Texts]
  /\ receipts \in [Drafting -> {None} \cup DraftReceipts]

(* Each revision of the draft has one receipt.                             *)
ReceiptsAreWhole ==
  /\ \A o \in Drafting : receipts[o] # None =>
       receipts[o].revision <= draft.revision /\ receipts[o].revision = receipts[o].expected + 1
  /\ \A r \in 1 .. draft.revision : \E o \in Drafting : receipts[o] # None /\ receipts[o].revision = r
  /\ \A o, u \in Drafting : receipts[o] # None /\ receipts[u] # None /\ o # u =>
       receipts[o].revision # receipts[u].revision

ReleasesTyped ==
  /\ releases \in [Versions -> {None} \cup TemplateRelease]
  /\ history \in [Activations -> 0 .. MaxVersion]
  /\ publishing \in [Publishers -> PublishStates]
  /\ current # NotCurrent =>
       /\ current \in [version : Versions, activation : Activations]
       /\ releases[current.version] # None /\ history[current.activation] = current.version

IntentsTyped ==
  /\ intents \in [IntentKeys -> {None} \cup IntentRows]
  /\ submitting \in [Submitters -> SubmitStates]
  /\ items \in [IntentKeys \X Recipients -> NotificationItems]
  /\ announced \subseteq (IntentKeys \X Recipients) \X (1 .. 3)
  /\ accepted \subseteq IntentKeys \X SUBSET Recipients

(* A notification has a state for each thing its recipient did with it.    *)
StatesAreCounted ==
  \A i \in IntentKeys \X Recipients :
    items[i].version <= 1 + (IF items[i].read THEN 1 ELSE 0) + (IF items[i].archived THEN 1 ELSE 0)

NotificationsInv ==
  /\ DraftTyped /\ ReceiptsAreWhole /\ ReleasesTyped /\ IntentsTyped /\ StatesAreCounted
  /\ OneResultPerKey /\ ChangesAreAnnounced

LEMMA RowsAreSomething ==
  /\ \A x \in TemplateRelease : x # None
  /\ \A x \in DraftReceipts : x # None
  /\ \A x \in IntentRows : x # None
  BY DEF TemplateRelease, DraftReceipts, IntentRows, None

LEMMA ActivationIs ==
  ASSUME NEW v, NEW a
  PROVE  [version |-> v, activation |-> a].version = v /\ [version |-> v, activation |-> a].activation = a
  OBVIOUS

LEMMA NotificationsStart == NotificationsInit => NotificationsInv
  <1> SUFFICES ASSUME NotificationsInit PROVE NotificationsInv
    OBVIOUS
  <1>1. DraftTyped
    BY NotificationsAssumption DEF NotificationsInit, DraftTyped
  <1>2. ReceiptsAreWhole
    BY DEF NotificationsInit, ReceiptsAreWhole
  <1>3. ReleasesTyped
    BY NotificationsAssumption DEF NotificationsInit, ReleasesTyped, PublishStates
  <1>4. IntentsTyped
    <2>1. NoItem \in NotificationItems
      BY DEF NoItem, NotificationItems
    <2> QED
      BY <2>1 DEF NotificationsInit, IntentsTyped, SubmitStates
  <1>5. \A i \in IntentKeys \X Recipients : items[i].version = 0
    BY DEF NotificationsInit, NoItem
  <1>6. DOMAIN items = IntentKeys \X Recipients /\ accepted = {}
    BY DEF NotificationsInit
  <1>7. StatesAreCounted
    BY <1>5 DEF StatesAreCounted
  <1>8. OneResultPerKey
    BY <1>5, <1>6 DEF OneResultPerKey
  <1>9. ChangesAreAnnounced
    BY <1>5, <1>6 DEF ChangesAreAnnounced
  <1> QED
    BY <1>1, <1>2, <1>3, <1>4, <1>7, <1>8, <1>9 DEF NotificationsInv

(* A draft is saved over the revision before it.                           *)
LEMMA SaveKeepsDrafts ==
  ASSUME DraftTyped, ReceiptsAreWhole,
         NEW o \in Drafting, NEW expected \in 0 .. MaxDraftRevision, NEW words \in Texts,
         SaveDraft(o, expected, words)
  PROVE  DraftTyped' /\ ReceiptsAreWhole'
  <1> DEFINE d == draft.revision
             x == [expected |-> expected, revision |-> d + 1, text |-> words]
  <1>1. /\ receipts[o] = None /\ d = expected /\ d < MaxDraftRevision
        /\ draft' = [revision |-> d + 1, text |-> words] /\ receipts' = [receipts EXCEPT ![o] = x]
    BY DEF SaveDraft, AsExpected
  <1>2. d \in 0 .. MaxDraftRevision /\ d + 1 \in 1 .. MaxDraftRevision /\ d + 1 \in 0 .. MaxDraftRevision
    BY <1>1, NotificationsAssumption DEF DraftTyped
  <1>3. x \in DraftReceipts /\ x.revision = d + 1 /\ x.expected = d
    BY <1>1, <1>2 DEF DraftReceipts
  <1>4. draft' \in [revision : 1 .. MaxDraftRevision, text : Texts] /\ draft'.revision = d + 1
    BY <1>1, <1>2
  <1>5. x # None
    BY <1>3, RowsAreSomething
  <1> HIDE DEF x
  <1>6. receipts' \in [Drafting -> {None} \cup DraftReceipts]
    BY <1>1, <1>3 DEF DraftTyped
  <1>7. receipts'[o] = x /\ \A u \in Drafting \ {o} : receipts'[u] = receipts[u]
    BY <1>1 DEF DraftTyped
  <1>8. DraftTyped'
    BY <1>2, <1>4, <1>6 DEF DraftTyped
  <1> HIDE DEF d
  <1>9. \A u \in Drafting : receipts[u] # None =>
          receipts[u].revision \in 1 .. MaxDraftRevision /\ receipts[u].revision <= d
            /\ receipts[u].revision = receipts[u].expected + 1
    BY DEF DraftTyped, ReceiptsAreWhole, DraftReceipts, d
  <1>10. \A u \in Drafting : receipts'[u] # None =>
           receipts'[u].revision <= d + 1 /\ receipts'[u].revision = receipts'[u].expected + 1
    <2> TAKE u \in Drafting
    <2>1. CASE u = o
      BY <1>2, <1>3, <1>7, <2>1
    <2>2. CASE u # o
      BY <1>2, <1>7, <1>9, <2>2
    <2> QED
      BY <2>1, <2>2
  <1>11. \A r \in 1 .. d + 1 : \E u \in Drafting : receipts'[u] # None /\ receipts'[u].revision = r
    <2> TAKE r \in 1 .. d + 1
    <2>1. CASE r = d + 1
      BY <1>3, <1>5, <1>7, <2>1
    <2>2. CASE r # d + 1
      <3>1. r \in 1 .. d
        BY <1>2, <2>2
      <3>2. PICK u \in Drafting : receipts[u] # None /\ receipts[u].revision = r
        BY <3>1 DEF ReceiptsAreWhole, d
      <3> QED
        BY <1>1, <1>7, <3>2
    <2> QED
      BY <2>1, <2>2
  <1>12. \A u, w \in Drafting : receipts'[u] # None /\ receipts'[w] # None /\ u # w =>
           receipts'[u].revision # receipts'[w].revision
    <2>1. \A u \in Drafting \ {o} : receipts'[u] # None => receipts'[u].revision <= d /\ receipts'[u].revision \in Nat
      BY <1>7, <1>9
    <2>2. \A u \in Drafting \ {o} : receipts'[u] # None => receipts'[u].revision # d + 1
      BY <1>2, <2>1
    <2>3. \A u, w \in Drafting \ {o} : receipts'[u] # None /\ receipts'[w] # None /\ u # w =>
            receipts'[u].revision # receipts'[w].revision
      BY <1>7 DEF ReceiptsAreWhole
    <2> QED
      BY <1>3, <1>7, <2>2, <2>3
  <1>13. ReceiptsAreWhole'
    BY <1>4, <1>10, <1>11, <1>12 DEF ReceiptsAreWhole
  <1> QED
    BY <1>8, <1>13

(* The newest of the versions that are released.                           *)
LEMMA NewestIs ==
  ASSUME ReleasesTyped
  PROVE  Newest \in 0 .. MaxVersion
  <1> DEFINE S == {v \in 0 .. MaxVersion : v = 0 \/ releases[v] # None}
  <1>1. S \in SUBSET Nat /\ 0 \in S /\ MaxVersion \in Nat /\ 0 <= MaxVersion
    BY NotificationsAssumption
  <1> HIDE DEF S
  <1>2. PICK m \in S : m <= MaxVersion /\ \A s \in S : s <= MaxVersion => s <= m
    BY <1>1, LatestInstant
  <1>3. /\ m \in 0 .. MaxVersion /\ (m = 0 \/ releases[m] # None)
        /\ \A s \in 0 .. MaxVersion : (s = 0 \/ releases[s] # None) => s <= m
    BY <1>2, NotificationsAssumption DEF S
  <1>4. \A w \in Versions : w > m => releases[w] = None
    <2> TAKE w \in Versions
    <2>1. w \in 0 .. MaxVersion /\ w \in Nat /\ m \in Nat
      BY <1>3, NotificationsAssumption DEF Versions
    <2> QED
      BY <1>3, <2>1
  <1> QED
    BY <1>3, <1>4 DEF Newest

(* A release is inserted, activated, or both.                              *)
LEMMA ReleaseIsInserted ==
  ASSUME ReleasesTyped, NEW v \in Versions, NEW x \in TemplateRelease, Insert(v, x)
  PROVE  /\ releases' \in [Versions -> {None} \cup TemplateRelease] /\ releases'[v] # None
         /\ \A w \in Versions : releases[w] # None => releases'[w] # None
  <1>1. releases' = [releases EXCEPT ![v] = x] /\ x # None
    BY RowsAreSomething DEF Insert
  <1> QED
    BY <1>1 DEF ReleasesTyped

LEMMA ReleaseIsActivated ==
  ASSUME ReleasesTyped, NEW v \in Versions, NEW a \in Activations, ActivateRelease(a, v)
  PROVE  /\ history' \in [Activations -> 0 .. MaxVersion]
         /\ current' \in [version : Versions, activation : Activations]
         /\ current'.version = v /\ current'.activation = a /\ history'[a] = v
  <1>1. history' = [history EXCEPT ![a] = v] /\ current' = [version |-> v, activation |-> a]
    BY DEF ActivateRelease
  <1>2. v \in 0 .. MaxVersion
    BY NotificationsAssumption DEF Versions
  <1> QED
    BY <1>1, <1>2 DEF ReleasesTyped

(* A request to publish reads, lists, and publishes what it has read.      *)
LEMMA ReleasesStayTyped ==
  ASSUME ReleasesTyped, DraftTyped, ReleaseNext
  PROVE  ReleasesTyped'
  <1>0. NotPublishing \in PublishStates
    BY DEF PublishStates
  <1>1. ASSUME NEW p \in Publishers, NEW x \in PublishStates, publishing' = [publishing EXCEPT ![p] = x],
               UNCHANGED <<releases, history, current>>
        PROVE  ReleasesTyped'
    <2>1. publishing' \in [Publishers -> PublishStates]
      BY <1>1 DEF ReleasesTyped
    <2>2. releases' = releases /\ history' = history /\ current' = current
      BY <1>1
    <2> QED
      BY <2>1, <2>2 DEF ReleasesTyped, NotCurrent
  <1>2. ASSUME NEW p \in Publishers, ReadDraft(p) PROVE ReleasesTyped'
    <2>1. draft.text \in Texts
      BY <1>2, NotificationsAssumption DEF DraftTyped, ReadDraft
    <2>2. [stage |-> "drafted", text |-> draft.text] \in PublishStates
      BY <2>1 DEF PublishStates
    <2>3. publishing' = [publishing EXCEPT ![p] = [stage |-> "drafted", text |-> draft.text]]
          /\ UNCHANGED <<releases, history, current>>
      BY <1>2 DEF ReadDraft
    <2> QED
      BY <1>1, <2>2, <2>3
  <1>3. ASSUME NEW p \in Publishers, ListReleases(p) PROVE ReleasesTyped'
    <2>1. publishing[p] \in PublishStates /\ publishing[p].stage = "drafted"
      BY <1>3 DEF ReleasesTyped, ListReleases
    <2>2. publishing[p].text \in Texts
      BY <2>1 DEF PublishStates, NotPublishing
    <2>3. Newest + 1 \in Versions
      <3>1. Newest \in 0 .. MaxVersion /\ Newest < MaxVersion
        BY <1>3, NewestIs DEF ListReleases
      <3> QED
        BY <3>1, NotificationsAssumption DEF Versions
    <2>4. [stage |-> "listed", text |-> publishing[p].text, version |-> Newest + 1] \in PublishStates
      BY <2>2, <2>3 DEF PublishStates
    <2>5. /\ publishing' = [publishing EXCEPT ![p] = [stage |-> "listed", text |-> publishing[p].text, version |-> Newest + 1]]
          /\ UNCHANGED <<releases, history, current>>
      BY <1>3 DEF ListReleases
    <2> QED
      BY <1>1, <2>4, <2>5
  <1>4. ASSUME NEW p \in Publishers, PublishFails(p) PROVE ReleasesTyped'
    BY <1>0, <1>1, <1>4 DEF PublishFails
  <1>5. ASSUME NEW p \in Publishers, NEW a \in Activations, PublishAndActivate(p, a) PROVE ReleasesTyped'
    <2>1. publishing[p] \in PublishStates /\ publishing[p].stage = "listed"
      BY <1>5 DEF ReleasesTyped, PublishAndActivate
    <2>2. PICK v : v = publishing[p].version
      OBVIOUS
    <2>3. PICK x : x = [text |-> publishing[p].text, at |-> a]
      OBVIOUS
    <2>4. v \in Versions /\ x \in TemplateRelease
      BY <2>1, <2>2, <2>3 DEF PublishStates, NotPublishing, TemplateRelease
    <2>5. Insert(v, x) /\ ActivateRelease(a, v) /\ publishing' = [publishing EXCEPT ![p] = NotPublishing]
      BY <1>5, <2>2, <2>3 DEF PublishAndActivate
    <2>6. publishing' \in [Publishers -> PublishStates]
      BY <1>0, <2>5 DEF ReleasesTyped
    <2>7. /\ releases' \in [Versions -> {None} \cup TemplateRelease] /\ releases'[v] # None
      BY <2>4, <2>5, ReleaseIsInserted
    <2>8. /\ history' \in [Activations -> 0 .. MaxVersion]
          /\ current' \in [version : Versions, activation : Activations]
          /\ current'.version = v /\ current'.activation = a /\ history'[a] = v
      BY <2>4, <2>5, ReleaseIsActivated
    <2> QED
      BY <2>6, <2>7, <2>8 DEF ReleasesTyped
  <1>6. ASSUME NEW v \in Versions, NEW x \in TemplateRelease, PublishTemplate(v, x) PROVE ReleasesTyped'
    <2>1. Insert(v, x) /\ history' = history /\ current' = current /\ publishing' = publishing
      BY <1>6 DEF PublishTemplate
    <2>2. /\ releases' \in [Versions -> {None} \cup TemplateRelease]
          /\ \A w \in Versions : releases[w] # None => releases'[w] # None
      BY <2>1, ReleaseIsInserted
    <2> QED
      BY <2>1, <2>2 DEF ReleasesTyped, NotCurrent
  <1>7. ASSUME NEW a \in Activations, NEW v \in Versions, ActivateTemplate(a, v) PROVE ReleasesTyped'
    <2>1. ActivateRelease(a, v) /\ releases[v] # None /\ releases' = releases /\ publishing' = publishing
      BY <1>7 DEF ActivateTemplate
    <2>2. /\ history' \in [Activations -> 0 .. MaxVersion]
          /\ current' \in [version : Versions, activation : Activations]
          /\ current'.version = v /\ current'.activation = a /\ history'[a] = v
      BY <2>1, ReleaseIsActivated
    <2> QED
      BY <2>1, <2>2 DEF ReleasesTyped
  <1> QED
    BY <1>2, <1>3, <1>4, <1>5, <1>6, <1>7 DEF ReleaseNext

(* What a submission does to the state of the request.                     *)
LEMMA SubmitsIsTyped ==
  ASSUME IntentsTyped, NEW s \in Submitters, NEW x \in SubmitStates, Submits(s, x)
  PROVE  submitting' \in [Submitters -> SubmitStates]
  BY DEF IntentsTyped, Submits

IntentsAreSound ==
  /\ IntentsTyped /\ StatesAreCounted /\ OneResultPerKey /\ ChangesAreAnnounced

(* Until an intent is accepted, nothing of it can be seen.                 *)
LEMMA RequestsChangeNothing ==
  ASSUME IntentsAreSound, submitting' \in [Submitters -> SubmitStates],
         UNCHANGED <<intents, items, announced, accepted>>
  PROVE  IntentsAreSound'
  <1>1. intents' = intents /\ items' = items /\ announced' = announced /\ accepted' = accepted
    OBVIOUS
  <1> QED
    BY <1>1 DEF IntentsAreSound, IntentsTyped, StatesAreCounted, OneResultPerKey,
       ChangesAreAnnounced

(* A result that is recorded under the key can be told again.              *)
LEMMA ToldIsRecorded ==
  ASSUME IntentsAreSound, submitting' \in [Submitters -> SubmitStates],
         NEW k \in IntentKeys, intents[k] # None, Tell(k, intents[k].result),
         UNCHANGED <<intents, items, announced>>
  PROVE  IntentsAreSound'
  <1>1. intents' = intents /\ items' = items /\ announced' = announced
        /\ accepted' = accepted \cup {<<k, intents[k].result>>}
    BY DEF Tell
  <1>2. intents[k].result \in SUBSET Recipients
    BY DEF IntentsAreSound, IntentsTyped, IntentRows
  <1>3. accepted' \subseteq IntentKeys \X SUBSET Recipients
    BY <1>1, <1>2 DEF IntentsAreSound, IntentsTyped
  <1>4. \A t \in accepted' : intents[t[1]] # None /\ t[2] = intents[t[1]].result
    BY <1>1 DEF IntentsAreSound, OneResultPerKey
  <1> QED
    BY <1>1, <1>3, <1>4 DEF IntentsAreSound, IntentsTyped, StatesAreCounted, OneResultPerKey,
       ChangesAreAnnounced

(* Of two requests that resolved the recipients, one records its result.   *)
LEMMA OneIsAccepted ==
  ASSUME IntentsAreSound, submitting' \in [Submitters -> SubmitStates],
         NEW k \in IntentKeys, NEW rec \in IntentRows, NEW delivered \in SUBSET rec.result,
         intents[k] = None, intents' = [intents EXCEPT ![k] = rec],
         items' = [i \in DOMAIN items |->
           IF i[1] = k /\ i[2] \in delivered THEN [NoItem EXCEPT !.version = 1] ELSE items[i]],
         announced' = announced \cup {<<<<k, r>>, 1>> : r \in delivered},
         Tell(k, rec.result)
  PROVE  IntentsAreSound'
  <1> DEFINE new == [NoItem EXCEPT !.version = 1]
             I == IntentKeys \X Recipients
  <1>1. new \in NotificationItems /\ new.version = 1
    <2>1. PICK y : y = NoItem
      OBVIOUS
    <2>2. y \in NotificationItems
      BY <2>1 DEF NoItem, NotificationItems
    <2>3. 1 \in 0 .. 3
      OBVIOUS
    <2>4. [y EXCEPT !.version = 1] \in NotificationItems /\ [y EXCEPT !.version = 1].version = 1
      BY <2>2, <2>3 DEF NotificationItems
    <2> QED
      BY <2>1, <2>4
  <1>2. rec # None /\ rec.result \in SUBSET Recipients
    BY RowsAreSomething DEF IntentRows
  <1>3. accepted' = accepted \cup {<<k, rec.result>>}
    BY DEF Tell
  <1>4. /\ intents \in [IntentKeys -> {None} \cup IntentRows] /\ items \in [I -> NotificationItems]
        /\ announced \subseteq I \X (1 .. 3) /\ accepted \subseteq IntentKeys \X SUBSET Recipients
        /\ DOMAIN items = I
    BY DEF IntentsAreSound, IntentsTyped
  <1>5. /\ \A t \in accepted : intents[t[1]] # None /\ t[2] = intents[t[1]].result
        /\ \A i \in I : items[i].version > 0 => intents[i[1]] # None /\ i[2] \in intents[i[1]].result
    BY <1>4 DEF IntentsAreSound, OneResultPerKey
  <1>6. /\ intents' \in [IntentKeys -> {None} \cup IntentRows] /\ intents'[k] = rec
        /\ \A j \in IntentKeys : intents[j] # None => intents'[j] = intents[j]
    BY <1>4
  <1> HIDE DEF new
  <1>7. /\ items' \in [I -> NotificationItems] /\ DOMAIN items' = I
        /\ \A i \in I : i[1] = k /\ i[2] \in delivered => items'[i] = new
        /\ \A i \in I : ~ (i[1] = k /\ i[2] \in delivered) => items'[i] = items[i]
    BY <1>1, <1>4 DEF new
  <1>8. announced' \subseteq I \X (1 .. 3) /\ announced \subseteq announced'
    <2>1. \A r \in delivered : <<<<k, r>>, 1>> \in I \X (1 .. 3)
      BY <1>2
    <2> QED
      BY <1>4, <2>1
  <1>9. accepted' \subseteq IntentKeys \X SUBSET Recipients
    BY <1>2, <1>3, <1>4
  <1>10. IntentsTyped'
    BY <1>6, <1>7, <1>8, <1>9 DEF IntentsTyped
  <1>11. \A i \in I : i[1] \in IntentKeys /\ i[2] \in Recipients /\ i = <<i[1], i[2]>>
    OBVIOUS
  <1>12. StatesAreCounted'
    <2> SUFFICES ASSUME NEW i \in I
                 PROVE  items'[i].version <= 1 + (IF items'[i].read THEN 1 ELSE 0) + (IF items'[i].archived THEN 1 ELSE 0)
      BY DEF StatesAreCounted
    <2>1. CASE i[1] = k /\ i[2] \in delivered
      BY <1>1, <1>7, <2>1
    <2>2. CASE ~ (i[1] = k /\ i[2] \in delivered)
      BY <1>7, <2>2 DEF IntentsAreSound, StatesAreCounted
    <2> QED
      BY <2>1, <2>2
  <1>13. OneResultPerKey'
    <2>1. ASSUME NEW t \in accepted' PROVE intents'[t[1]] # None /\ t[2] = intents'[t[1]].result
      <3>1. CASE t \in accepted
        <4>1. t[1] \in IntentKeys
          BY <1>4, <3>1
        <4> QED
          BY <1>5, <1>6, <3>1, <4>1
      <3>2. CASE t = <<k, rec.result>>
        BY <1>2, <1>6, <3>2
      <3> QED
        BY <1>3, <2>1, <3>1, <3>2
    <2>2. ASSUME NEW i \in I, items'[i].version > 0 PROVE intents'[i[1]] # None /\ i[2] \in intents'[i[1]].result
      <3>1. CASE i[1] = k /\ i[2] \in delivered
        BY <1>2, <1>6, <3>1
      <3>2. CASE ~ (i[1] = k /\ i[2] \in delivered)
        BY <1>5, <1>6, <1>7, <1>11, <2>2, <3>2
      <3> QED
        BY <3>1, <3>2
    <2> QED
      BY <1>7, <2>1, <2>2 DEF OneResultPerKey
  <1>14. ChangesAreAnnounced'
    <2> SUFFICES ASSUME NEW i \in I, NEW v \in 1 .. items'[i].version PROVE <<i, v>> \in announced'
      BY <1>7 DEF ChangesAreAnnounced
    <2>1. CASE i[1] = k /\ i[2] \in delivered
      <3>1. v = 1 /\ i = <<k, i[2]>>
        BY <1>1, <1>7, <1>11, <2>1
      <3> QED
        BY <2>1, <3>1
    <2>2. CASE ~ (i[1] = k /\ i[2] \in delivered)
      BY <1>4, <1>7, <1>8, <2>2 DEF IntentsAreSound, ChangesAreAnnounced
    <2> QED
      BY <2>1, <2>2
  <1> QED
    BY <1>10, <1>12, <1>13, <1>14 DEF IntentsAreSound

LEMMA IntentsStaySound ==
  ASSUME IntentsAreSound, IntentNext
  PROVE  IntentsAreSound'
  <1>0. NotSubmitting \in SubmitStates /\ IntentsTyped /\ submitting \in [Submitters -> SubmitStates]
    BY DEF SubmitStates, IntentsAreSound, IntentsTyped
  <1>1. ASSUME NEW s \in Submitters, NEW k \in IntentKeys, NEW f \in Fingerprints, SubmitIntent(s, k, f)
        PROVE  IntentsAreSound'
    <2>1. CASE intents[k] = None
      <3>1. [stage |-> "looked", key |-> k, fingerprint |-> f] \in SubmitStates
        BY DEF SubmitStates
      <3>2. Submits(s, [stage |-> "looked", key |-> k, fingerprint |-> f]) /\ UNCHANGED <<intents, items, announced, accepted>>
        BY <1>1, <2>1 DEF SubmitIntent
      <3> QED
        BY <1>0, <3>1, <3>2, SubmitsIsTyped, RequestsChangeNothing
    <2>2. CASE intents[k] # None
      <3>1. Tell(k, intents[k].result) /\ submitting' = submitting /\ UNCHANGED <<intents, items, announced>>
        BY <1>1, <2>2 DEF SubmitIntent
      <3> QED
        BY <1>0, <2>2, <3>1, ToldIsRecorded
    <2> QED
      BY <2>1, <2>2
  <1>2. ASSUME NEW s \in Submitters, NEW recipients \in SUBSET Recipients, ResolveRecipients(s, recipients)
        PROVE  IntentsAreSound'
    <2>1. submitting[s] \in SubmitStates /\ submitting[s].stage = "looked"
      BY <1>0, <1>2 DEF ResolveRecipients
    <2>2. submitting[s].key \in IntentKeys /\ submitting[s].fingerprint \in Fingerprints
      BY <2>1 DEF SubmitStates, NotSubmitting
    <2>3. [stage |-> "resolved", key |-> submitting[s].key,
           fingerprint |-> submitting[s].fingerprint, result |-> recipients] \in SubmitStates
      BY <2>2 DEF SubmitStates
    <2>4. Submits(s, [stage |-> "resolved", key |-> submitting[s].key,
           fingerprint |-> submitting[s].fingerprint, result |-> recipients]) /\ UNCHANGED <<intents, items, announced, accepted>>
      BY <1>2 DEF ResolveRecipients
    <2> QED
      BY <1>0, <2>3, <2>4, SubmitsIsTyped, RequestsChangeNothing
  <1>3. ASSUME NEW s \in Submitters, SubmitFails(s) PROVE IntentsAreSound'
    <2>1. Submits(s, NotSubmitting) /\ UNCHANGED <<intents, items, announced, accepted>>
      BY <1>3 DEF SubmitFails
    <2> QED
      BY <1>0, <2>1, SubmitsIsTyped, RequestsChangeNothing
  <1>4. ASSUME NEW s \in Submitters, NEW delivered \in SUBSET Recipients, AcceptIntent(s, delivered)
        PROVE  IntentsAreSound'
    <2>1. submitting[s] \in SubmitStates /\ submitting[s].stage = "resolved"
      BY <1>0, <1>4 DEF AcceptIntent
    <2>2. PICK k : k = submitting[s].key
      OBVIOUS
    <2>3. PICK rec : rec = [fingerprint |-> submitting[s].fingerprint, result |-> submitting[s].result]
      OBVIOUS
    <2>4. k \in IntentKeys /\ rec \in IntentRows /\ rec.result = submitting[s].result
          /\ rec.fingerprint = submitting[s].fingerprint
      BY <2>1, <2>2, <2>3 DEF SubmitStates, NotSubmitting, IntentRows
    <2>5. delivered \in SUBSET rec.result /\ Submits(s, NotSubmitting)
      BY <1>4, <2>4 DEF AcceptIntent
    <2>6. submitting' \in [Submitters -> SubmitStates]
      BY <1>0, <2>5, SubmitsIsTyped
    <2>7. CASE intents[k] = None
      <3>1. /\ intents' = [intents EXCEPT ![k] = rec]
            /\ items' = [i \in DOMAIN items |->
                 IF i[1] = k /\ i[2] \in delivered THEN [NoItem EXCEPT !.version = 1] ELSE items[i]]
            /\ announced' = announced \cup {<<<<k, r>>, 1>> : r \in delivered}
            /\ Tell(k, rec.result)
        BY <1>4, <2>2, <2>3, <2>4, <2>7 DEF AcceptIntent, NotAccepted
      <3> QED
        BY <2>4, <2>5, <2>6, <2>7, <3>1, OneIsAccepted
    <2>8. CASE intents[k] # None
      <3>1. UNCHANGED <<intents, items, announced>>
        BY <1>4, <2>2, <2>8 DEF AcceptIntent, NotAccepted
      <3>2. Tell(k, intents[k].result) \/ UNCHANGED accepted
        BY <1>4, <2>2, <2>8 DEF AcceptIntent, NotAccepted
      <3> QED
        BY <2>4, <2>6, <2>8, <3>1, <3>2, ToldIsRecorded, RequestsChangeNothing
    <2> QED
      BY <2>7, <2>8
  <1> QED
    BY <1>1, <1>2, <1>3, <1>4 DEF IntentNext

(* What the recipient does the first time is a state more.                 *)
LEMMA RecipientIsAnnounced ==
  ASSUME IntentsAreSound, NEW i \in IntentKeys \X Recipients, NEW x \in NotificationItems,
         items[i].version > 0, x.version = items[i].version + 1,
         x.version <= 1 + (IF x.read THEN 1 ELSE 0) + (IF x.archived THEN 1 ELSE 0),
         items' = [items EXCEPT ![i] = x], Announce(i, items[i].version + 1),
         UNCHANGED <<intents, submitting, accepted>>
  PROVE  IntentsAreSound'
  <1> DEFINE I == IntentKeys \X Recipients
  <1>1. /\ intents' = intents /\ submitting' = submitting /\ accepted' = accepted
        /\ announced' = announced \cup {<<i, x.version>>}
    BY DEF Announce
  <1>2. /\ items \in [I -> NotificationItems] /\ announced \subseteq I \X (1 .. 3)
    BY DEF IntentsAreSound, IntentsTyped
  <1>3. /\ items' \in [I -> NotificationItems] /\ items'[i] = x /\ \A j \in I \ {i} : items'[j] = items[j]
        /\ DOMAIN items' = I /\ DOMAIN items = I
    BY <1>2
  <1>4. items[i].version \in 0 .. 3 /\ x.version \in 0 .. 3
    BY <1>2 DEF NotificationItems
  <1>5. <<i, x.version>> \in I \X (1 .. 3)
    BY <1>4
  <1>6. announced' \subseteq I \X (1 .. 3)
    BY <1>1, <1>2, <1>5
  <1>7. IntentsTyped'
    BY <1>1, <1>3, <1>6 DEF IntentsAreSound, IntentsTyped
  <1>8. StatesAreCounted'
    <2> SUFFICES ASSUME NEW j \in I
                 PROVE  items'[j].version <= 1 + (IF items'[j].read THEN 1 ELSE 0) + (IF items'[j].archived THEN 1 ELSE 0)
      BY DEF StatesAreCounted
    <2> QED
      BY <1>3 DEF IntentsAreSound, StatesAreCounted
  <1>9. OneResultPerKey'
    <2>1. \A j \in I : items'[j].version > 0 => items[j].version > 0
      BY <1>3
    <2> QED
      BY <1>1, <1>3, <2>1 DEF IntentsAreSound, OneResultPerKey
  <1>10. ChangesAreAnnounced'
    <2> SUFFICES ASSUME NEW j \in I, NEW v \in 1 .. items'[j].version PROVE <<j, v>> \in announced'
      BY <1>3 DEF ChangesAreAnnounced
    <2>1. \A u \in 1 .. items[j].version : <<j, u>> \in announced
      BY <1>3 DEF IntentsAreSound, ChangesAreAnnounced
    <2>2. CASE j # i
      BY <1>1, <1>3, <2>1, <2>2
    <2>3. CASE j = i
      <3>1. v \in 1 .. items[i].version \/ v = x.version
        BY <1>3, <1>4, <2>3
      <3> QED
        BY <1>1, <2>1, <2>3, <3>1
    <2> QED
      BY <2>2, <2>3
  <1> QED
    BY <1>7, <1>8, <1>9, <1>10 DEF IntentsAreSound

LEMMA RecipientsStaySound ==
  ASSUME IntentsAreSound, RecipientNext
  PROVE  IntentsAreSound'
  <1>1. ASSUME NEW i \in IntentKeys \X Recipients, MarkRead(i) \/ Archive(i)
        PROVE  IntentsAreSound'
    <2>1. PICK y \in NotificationItems : y = items[i]
      BY DEF IntentsAreSound, IntentsTyped
    <2>2. y.version \in 0 .. 3 /\ y.read \in BOOLEAN /\ y.archived \in BOOLEAN
      BY <2>1 DEF NotificationItems
    <2>3. y.version <= 1 + (IF y.read THEN 1 ELSE 0) + (IF y.archived THEN 1 ELSE 0)
      BY <2>1 DEF IntentsAreSound, StatesAreCounted
    <2>4. CASE MarkRead(i)
      <3> DEFINE x == [[y EXCEPT !.read = TRUE] EXCEPT !.version = y.version + 1]
      <3>1. ~ y.read /\ y.version > 0
        BY <2>1, <2>4 DEF MarkRead
      <3>2. y.version + 1 \in 0 .. 3
        BY <2>2, <2>3, <3>1
      <3>3. x \in NotificationItems /\ x.version = y.version + 1 /\ x.read /\ x.archived = y.archived
        BY <3>2, <2>2 DEF NotificationItems
      <3>4. items' = [items EXCEPT ![i] = x]
        BY <2>1, <2>4 DEF MarkRead
      <3>5. Announce(i, items[i].version + 1) /\ UNCHANGED <<intents, submitting, accepted>>
        BY <2>4 DEF MarkRead
      <3> HIDE DEF x
      <3>6. x.version <= 1 + (IF x.read THEN 1 ELSE 0) + (IF x.archived THEN 1 ELSE 0)
        BY <2>2, <2>3, <3>1, <3>3
      <3> QED
        BY <2>1, <3>1, <3>3, <3>4, <3>5, <3>6, RecipientIsAnnounced
    <2>5. CASE Archive(i)
      <3> DEFINE x == [[y EXCEPT !.archived = TRUE] EXCEPT !.version = y.version + 1]
      <3>1. ~ y.archived /\ y.version > 0
        BY <2>1, <2>5 DEF Archive
      <3>2. y.version + 1 \in 0 .. 3
        BY <2>2, <2>3, <3>1
      <3>3. x \in NotificationItems /\ x.version = y.version + 1 /\ x.archived /\ x.read = y.read
        BY <3>2, <2>2 DEF NotificationItems
      <3>4. items' = [items EXCEPT ![i] = x]
        BY <2>1, <2>5 DEF Archive
      <3>5. Announce(i, items[i].version + 1) /\ UNCHANGED <<intents, submitting, accepted>>
        BY <2>5 DEF Archive
      <3> HIDE DEF x
      <3>6. x.version <= 1 + (IF x.read THEN 1 ELSE 0) + (IF x.archived THEN 1 ELSE 0)
        BY <2>2, <2>3, <3>1, <3>3
      <3> QED
        BY <2>1, <3>1, <3>3, <3>4, <3>5, <3>6, RecipientIsAnnounced
    <2> QED
      BY <1>1, <2>4, <2>5
  <1> QED
    BY <1>1 DEF RecipientNext

(* What a step leaves alone stays as it is.                                *)
LEMMA TemplatesUnchanged ==
  ASSUME UNCHANGED templateVars, DraftTyped, ReceiptsAreWhole, ReleasesTyped
  PROVE  DraftTyped' /\ ReceiptsAreWhole' /\ ReleasesTyped'
  <1>1. /\ draft' = draft /\ receipts' = receipts /\ releases' = releases /\ history' = history
        /\ current' = current /\ publishing' = publishing
    BY DEF templateVars
  <1>2. DraftTyped' /\ ReceiptsAreWhole'
    BY <1>1 DEF DraftTyped, ReceiptsAreWhole
  <1> QED
    BY <1>1, <1>2 DEF ReleasesTyped, NotCurrent

LEMMA IntentsUnchanged ==
  ASSUME UNCHANGED intentVars, IntentsAreSound
  PROVE  IntentsAreSound'
  BY RequestsChangeNothing DEF intentVars, IntentsAreSound, IntentsTyped

LEMMA NotificationsGoOn == NotificationsInv /\ [NotificationsNext]_notificationVars => NotificationsInv'
  <1> SUFFICES ASSUME NotificationsInv, [NotificationsNext]_notificationVars
               PROVE  NotificationsInv'
    OBVIOUS
  <1>0. DraftTyped /\ ReceiptsAreWhole /\ ReleasesTyped /\ IntentsAreSound
    BY DEF NotificationsInv, IntentsAreSound
  <1>1. ASSUME NEW o \in Drafting, NEW expected \in 0 .. MaxDraftRevision, NEW words \in Texts,
               SaveDraft(o, expected, words)
        PROVE  NotificationsInv'
    <2>1. UNCHANGED intentVars /\ releases' = releases /\ history' = history /\ current' = current
          /\ publishing' = publishing
      BY <1>1 DEF SaveDraft
    <2>2. ReleasesTyped'
      BY <1>0, <2>1 DEF ReleasesTyped, NotCurrent
    <2> QED
      BY <1>0, <1>1, <2>1, <2>2, SaveKeepsDrafts, IntentsUnchanged DEF NotificationsInv,
         IntentsAreSound
  <1>2. CASE ReleaseNext
    <2>1. UNCHANGED intentVars /\ draft' = draft /\ receipts' = receipts
      BY <1>2 DEF ReleaseNext, ReadDraft, ListReleases, PublishFails, PublishAndActivate,
         PublishTemplate,
            ActivateTemplate
    <2>2. DraftTyped' /\ ReceiptsAreWhole'
      BY <1>0, <2>1 DEF DraftTyped, ReceiptsAreWhole
    <2> QED
      BY <1>0, <1>2, <2>1, <2>2, ReleasesStayTyped, IntentsUnchanged DEF NotificationsInv,
         IntentsAreSound
  <1>3. CASE IntentNext \/ RecipientNext
    <2>1. UNCHANGED templateVars
      BY <1>3 DEF IntentNext, RecipientNext, SubmitIntent, ResolveRecipients, SubmitFails,
         AcceptIntent,
            MarkRead, Archive
    <2> QED
      BY <1>0, <1>3, <2>1, TemplatesUnchanged, IntentsStaySound, RecipientsStaySound
         DEF NotificationsInv, IntentsAreSound
  <1>4. CASE UNCHANGED notificationVars
    <2>1. UNCHANGED templateVars /\ UNCHANGED intentVars
      BY <1>4 DEF notificationVars, templateVars, intentVars
    <2> QED
      BY <1>0, <2>1, TemplatesUnchanged, IntentsUnchanged DEF NotificationsInv, IntentsAreSound
  <1> QED
    BY <1>1, <1>2, <1>3, <1>4 DEF NotificationsNext, DraftNext

(* One receipt per revision, as a number.                                  *)
LEMMA NoDraftIsLost ==
  ASSUME DraftTyped, ReceiptsAreWhole
  PROVE  NoLostDraft
  <1>1. ASSUME NEW r \in 1 .. draft.revision
        PROVE  Cardinality({o \in Drafting : receipts[o] # None /\ receipts[o].revision = r}) = 1
    <2>1. PICK u \in Drafting : receipts[u] # None /\ receipts[u].revision = r
      BY <1>1 DEF ReceiptsAreWhole
    <2>2. {o \in Drafting : receipts[o] # None /\ receipts[o].revision = r} = {u}
      BY <2>1 DEF ReceiptsAreWhole
    <2>3. Cardinality({u}) = 1
      BY FS_Singleton
    <2> QED
      BY <2>2, <2>3
  <1>2. \A o \in Drafting : receipts[o] # None => receipts[o].revision = receipts[o].expected + 1
    BY DEF ReceiptsAreWhole
  <1> QED
    BY <1>1, <1>2 DEF NoLostDraft

LEMMA NotificationsMean ==
  NotificationsInv =>
    /\ NotificationsTypeOK /\ NoLostDraft /\ CurrentWasActivated /\ OneResultPerKey /\ ChangesAreAnnounced
  <1> SUFFICES ASSUME NotificationsInv
               PROVE  /\ NotificationsTypeOK /\ NoLostDraft /\ CurrentWasActivated /\ OneResultPerKey
                      /\ ChangesAreAnnounced
    OBVIOUS
  <1>1. NoLostDraft
    BY NoDraftIsLost DEF NotificationsInv
  <1>2. CurrentWasActivated
    BY DEF NotificationsInv, ReleasesTyped, CurrentWasActivated
  <1>3. current \in [version : 0 .. MaxVersion, activation : Activations \cup {None}]
    BY NotificationsAssumption DEF NotificationsInv, ReleasesTyped, NotCurrent, Versions
  <1>4. \A p \in Publishers : publishing[p].stage \in {"idle", "drafted", "listed"}
    <2> TAKE p \in Publishers
    <2>1. publishing[p] \in PublishStates
      BY DEF NotificationsInv, ReleasesTyped
    <2> QED
      BY <2>1 DEF PublishStates, NotPublishing
  <1>5. \A s \in Submitters : submitting[s].stage \in {"idle", "looked", "resolved"}
    <2> TAKE s \in Submitters
    <2>1. submitting[s] \in SubmitStates
      BY DEF NotificationsInv, IntentsTyped
    <2> QED
      BY <2>1 DEF SubmitStates, NotSubmitting
  <1>6. NotificationsTypeOK
    BY <1>3, <1>4, <1>5 DEF NotificationsInv, DraftTyped, ReleasesTyped, IntentsTyped,
       NotificationsTypeOK,
          DraftReceipts, IntentRows, NotificationItems
  <1> QED
    BY <1>1, <1>2, <1>6 DEF NotificationsInv

(* However requests race and are retried: no edit of a draft is lost, the  *)
(* current release exists and was activated, one result is told per key    *)
(* and every state shown was announced.                                    *)
THEOREM NotificationsAreSound ==
  NotificationsSpec =>
    []( /\ NotificationsTypeOK /\ NoLostDraft /\ CurrentWasActivated /\ OneResultPerKey
        /\ ChangesAreAnnounced )
  <1>1. NotificationsInit => NotificationsInv
    BY NotificationsStart
  <1>2. NotificationsInv /\ [NotificationsNext]_notificationVars => NotificationsInv'
    BY NotificationsGoOn
  <1>3. NotificationsInv => /\ NotificationsTypeOK /\ NoLostDraft /\ CurrentWasActivated /\ OneResultPerKey
                            /\ ChangesAreAnnounced
    BY NotificationsMean
  <1> QED
    BY <1>1, <1>2, <1>3, PTL DEF NotificationsSpec

-----------------------------------------------------------------------------
(* The directory of departments and positions.                             *)

(* A request whose row is written, and waits for its commit.               *)
Writes(q) == directoryOf[q].step = "written"
(* Where the trigger has taken its lock.                                   *)
Walks(q) ==
  /\ Writes(q) /\ directoryOf[q].command.kind \in {"create", "update"}
  /\ directoryOf[q].row.sort = "department" /\ directoryOf[q].row.above # TopLevel

(* What a service has read of a row that is locked stays so.               *)
StillUnlocked(c) ==
  c.kind = "disable" \/ (c.kind = "update" /\ c.above # KeepParent) => IsEntry(c.id) /\ ~ entries[c.id].locked
ChecksStand ==
  \A q \in DirectoryRequests :
    directoryOf[q].step \in {"checked", "written"} => StillUnlocked(directoryOf[q].command)

(* Until it commits nobody else changes the row it wrote.                  *)
IsNext(c, entry) ==
  RowIsThere(c) /\ entry = RowAfter(c) /\ \A r \in directoryReceipts : r.op # c.op
WrittenIsNext ==
  \A q \in DirectoryRequests : Writes(q) => IsNext(directoryOf[q].command, directoryOf[q].row)

WritesDiffer ==
  \A p, q \in DirectoryRequests : Writes(p) /\ Writes(q) /\ p # q =>
    /\ directoryOf[p].command.op # directoryOf[q].command.op
    /\ directoryOf[p].command.id # directoryOf[q].command.id
    /\ ~ SameKey(directoryOf[p].row, directoryOf[q].row)
    /\ ~ (Walks(p) /\ Walks(q))

(* Only departments are above anything.                                    *)
PositionsAreLeaves ==
  \A d \in Entries : IsEntry(d) =>
    entries[d].above \notin PostIds /\ (entries[d].sort = "position" => d \in PostIds)

LinksAreSound ==
  /\ IsHierarchy(EntryPlaces, LinksOf(entries))
  /\ \A q \in DirectoryRequests : Walks(q) => directoryOf[q].command.id \notin Upwards(directoryOf[q].row.above)

KeysAreApart ==
  /\ SiblingsDiffer
  /\ \A q \in DirectoryRequests : Writes(q) =>
       \A d \in Entries \ {directoryOf[q].command.id} : IsEntry(d) => ~ SameKey(directoryOf[q].row, entries[d])

RootsAreLocked ==
  \A d \in DOMAIN FirstEntries : FirstEntries[d].locked =>
    IsEntry(d) /\ entries[d].locked /\ entries[d].active /\ entries[d].above = FirstEntries[d].above

(* The history of a row: its revisions up to the present one.              *)
KeptOf(d) == {h \in entryHistory : h.id = d}
KeepsRevisions(d) ==
  /\ IsEntry(d) => entries[d] \in {h.row : h \in KeptOf(d)}
  /\ {h.row.revision : h \in KeptOf(d)} = IF IsEntry(d) THEN 0 .. entries[d].revision ELSE {}
  /\ \A g, h \in KeptOf(d) : g.row.revision = h.row.revision => g = h
OperationsAreOnce ==
  /\ \A h \in entryHistory, c \in directoryReceipts :
       c.op = h.op /\ c.kind # "create" => h.row.revision = c.expected + 1
  /\ \A h \in entryHistory : h.op = "setup" \/ \E c \in directoryReceipts : c.op = h.op
  /\ \A g, h \in entryHistory : g.op = h.op /\ g.op # "setup" => g = h
HistoryIsWhole == (\A d \in Entries : KeepsRevisions(d)) /\ OperationsAreOnce

DirectoryInv ==
  /\ DirectoryTypeOK /\ ChecksStand /\ WrittenIsNext /\ WritesDiffer /\ PositionsAreLeaves
  /\ LinksAreSound /\ KeysAreApart /\ RootsAreLocked /\ HistoryIsWhole
LEMMA EntryRowsTyped ==
  ASSUME DirectoryTypeOK, NEW d \in Entries
  PROVE  /\ IsEntry(d) => entries[d] \in EntryRows
         /\ entries[d] \in EntryRows => IsEntry(d)
  BY DEF DirectoryTypeOK, IsEntry, NoRow, EntryRows

LEMMA EntryCommandsTyped ==
  ASSUME NEW c \in DirectoryCommands
  PROVE  /\ c.id \in Entries /\ c.op \in DirectoryOperations
         /\ c.kind \in {"create", "update", "disable", "restore"}
         /\ c.kind = "create" =>
              c.sort \in {"department", "position"} /\ c.name \in EntryNames /\ c.above \in EntryPlaces
         /\ c.kind = "update" => c.name \in EntryNames /\ c.above \in EntryPlaces \cup {KeepParent}
         /\ c.kind # "create" => c.expected \in 0 .. MaxEntryRevision
         /\ c.kind \in {"create", "update"} => c.above \notin PostIds
         /\ c.kind = "create" /\ c.sort = "position" => c.id \in PostIds
  <1>1. c \in DirectoryCreates \cup DirectoryUpdates \cup DirectoryTurns
    BY DirectoryAssumption
  <1>2. CASE c \in DirectoryCreates
    BY <1>2, DirectoryAssumption DEF DirectoryCreates, PostIds
  <1>3. CASE c \in DirectoryUpdates
    BY <1>3, DirectoryAssumption DEF DirectoryUpdates
  <1>4. CASE c \in DirectoryTurns
    BY <1>4 DEF DirectoryTurns
  <1> QED
    BY <1>1, <1>2, <1>3, <1>4

(* What a request has at each of its steps.                                *)
LEMMA RequestsTyped ==
  ASSUME DirectoryTypeOK, NEW q \in DirectoryRequests
  PROVE  /\ directoryOf[q].step \in {"begun", "checked"} =>
              /\ directoryOf[q].command \in DirectoryCommands
              /\ directoryOf[q] = [step |-> directoryOf[q].step, command |-> directoryOf[q].command]
         /\ directoryOf[q].step = "written" =>
              directoryOf[q].command \in DirectoryCommands /\ directoryOf[q].row \in EntryRows
  BY DEF DirectoryTypeOK, DirectoryStates, DirectoryIdle

(* The row a command leaves, by its kind.                                  *)
LEMMA RowIsAfter ==
  ASSUME DirectoryTypeOK, NEW c \in DirectoryCommands, RowIsThere(c)
  PROVE  /\ c.kind = "create" =>
              /\ RowAfter(c) \in EntryRows
              /\ RowAfter(c).sort = c.sort /\ RowAfter(c).above = c.above
              /\ RowAfter(c).revision = 0 /\ ~ RowAfter(c).locked
         /\ c.kind # "create" =>
              /\ IsEntry(c.id) /\ entries[c.id] \in EntryRows /\ entries[c.id].revision = c.expected
              /\ RowAfter(c).sort = entries[c.id].sort /\ RowAfter(c).locked = entries[c.id].locked
              /\ RowAfter(c).revision = entries[c.id].revision + 1
              /\ RowAfter(c).revision <= MaxEntryRevision => RowAfter(c) \in EntryRows
         /\ c.kind = "update" =>
              /\ RowAfter(c).active = entries[c.id].active
              /\ RowAfter(c).above = IF c.above = KeepParent THEN entries[c.id].above ELSE c.above
         /\ c.kind \in {"disable", "restore"} =>
              /\ RowAfter(c).above = entries[c.id].above
              /\ RowAfter(c).active = (c.kind = "restore")
  <1>1. CASE c.kind = "create"
    <2>1. RowAfter(c) = [sort |-> c.sort, name |-> c.name, above |-> c.above, active |-> TRUE,
                         locked |-> FALSE, revision |-> 0]
      BY <1>1 DEF RowAfter
    <2>2. 0 \in 0 .. MaxEntryRevision
      BY DirectoryAssumption
    <2> QED
      BY <1>1, <2>1, <2>2, EntryCommandsTyped DEF EntryRows, EntryPlaces
  <1>2. CASE c.kind # "create"
    <2>1. IsEntry(c.id) /\ entries[c.id].revision = c.expected /\ c.id \in Entries
      BY <1>2, EntryCommandsTyped DEF RowIsThere
    <2>2. PICK x \in EntryRows : x = entries[c.id]
      BY <2>1, EntryRowsTyped
    <2>3. /\ x = [sort |-> x.sort, name |-> x.name, above |-> x.above, active |-> x.active,
                  locked |-> x.locked, revision |-> x.revision]
          /\ x.sort \in {"department", "position"} /\ x.name \in EntryNames /\ x.above \in EntryPlaces
          /\ x.active \in BOOLEAN /\ x.locked \in BOOLEAN /\ x.revision \in Nat
      BY DirectoryAssumption DEF EntryRows, EntryPlaces
    <2> DEFINE y == [x EXCEPT !.revision = x.revision + 1]
    <2>4. y = [sort |-> x.sort, name |-> x.name, above |-> x.above, active |-> x.active,
               locked |-> x.locked, revision |-> x.revision + 1]
      BY <2>3
    <2>5. CASE c.kind = "update"
      <3> DEFINE up == IF c.above = KeepParent THEN x.above ELSE c.above
      <3>1. up \in EntryPlaces /\ c.name \in EntryNames
        BY <2>3, <2>5, EntryCommandsTyped
      <3>2. RowAfter(c) = [y EXCEPT !.name = c.name, !.above = up]
        BY <1>2, <2>2, <2>5 DEF RowAfter
      <3>3. RowAfter(c) = [sort |-> x.sort, name |-> c.name, above |-> up, active |-> x.active,
                           locked |-> x.locked, revision |-> x.revision + 1]
        BY <2>4, <3>2
      <3> HIDE DEF y
      <3>4. /\ RowAfter(c).sort = x.sort /\ RowAfter(c).locked = x.locked /\ RowAfter(c).above = up
            /\ RowAfter(c).active = x.active /\ RowAfter(c).revision = x.revision + 1
        BY <3>3
      <3>5. ASSUME x.revision + 1 <= MaxEntryRevision PROVE RowAfter(c) \in EntryRows
        <4>1. x.revision + 1 \in 0 .. MaxEntryRevision
          BY <2>3, <3>5, DirectoryAssumption
        <4> HIDE DEF up
        <4> QED
          BY <2>3, <3>1, <3>3, <4>1 DEF EntryRows, EntryPlaces
      <3> QED
        BY <1>2, <2>1, <2>2, <2>5, <3>4, <3>5
    <2>6. CASE c.kind \in {"disable", "restore"}
      <3>2. RowAfter(c) = [y EXCEPT !.active = c.kind = "restore"]
        BY <1>2, <2>2, <2>6 DEF RowAfter
      <3>3. RowAfter(c) = [sort |-> x.sort, name |-> x.name, above |-> x.above,
                           active |-> (c.kind = "restore"),
                           locked |-> x.locked, revision |-> x.revision + 1]
        BY <2>4, <3>2
      <3> HIDE DEF y
      <3>4. /\ RowAfter(c).sort = x.sort /\ RowAfter(c).locked = x.locked
            /\ RowAfter(c).above = x.above /\ RowAfter(c).revision = x.revision + 1
        BY <3>3
      <3>6. RowAfter(c).active = (c.kind = "restore")
        BY <3>3
      <3>5. ASSUME x.revision + 1 <= MaxEntryRevision PROVE RowAfter(c) \in EntryRows
        <4>1. x.revision + 1 \in 0 .. MaxEntryRevision
          BY <2>3, <3>5, DirectoryAssumption
        <4> QED
          BY <2>3, <3>3, <4>1 DEF EntryRows, EntryPlaces
      <3> QED
        BY <1>2, <2>1, <2>2, <2>6, <3>4, <3>5, <3>6
    <2> QED
      BY <1>2, <2>5, <2>6, EntryCommandsTyped
  <1> QED
    BY <1>1, <1>2

LEMMA EntryLinksTyped ==
  ASSUME DirectoryTypeOK
  PROVE  /\ LinksOf(entries) \in SUBSET (EntryPlaces \X EntryPlaces)
         /\ \A e \in LinksOf(entries) : e[1] \in Entries /\ IsEntry(e[1]) /\ e[2] = entries[e[1]].above
         /\ \A d \in Entries : IsEntry(d) =>
              <<d, entries[d].above>> \in LinksOf(entries) /\ entries[d].above \in EntryPlaces
  <1>1. DOMAIN entries = Entries
    BY DEF DirectoryTypeOK
  <1>2. \A d \in Entries : IsEntry(d) => entries[d].above \in EntryPlaces
    BY EntryRowsTyped DEF EntryRows, EntryPlaces
  <1> QED
    BY <1>1, <1>2 DEF LinksOf, IsEntry, EntryPlaces

(* A write that waits: what it wrote, and that its row is below itself in  *)
(* no way, whether the trigger walked or not.                              *)
LEMMA WritesTyped ==
  ASSUME DirectoryInv, NEW q \in DirectoryRequests, Writes(q)
  PROVE  /\ directoryOf[q].command \in DirectoryCommands /\ directoryOf[q].command.id \in Entries
         /\ directoryOf[q].row \in EntryRows /\ directoryOf[q].row.above \in EntryPlaces
         /\ directoryOf[q].row = RowAfter(directoryOf[q].command)
         /\ RowIsThere(directoryOf[q].command)
  <1>1. DirectoryTypeOK /\ IsNext(directoryOf[q].command, directoryOf[q].row)
    BY DEF DirectoryInv, WrittenIsNext
  <1>2. directoryOf[q].command \in DirectoryCommands /\ directoryOf[q].row \in EntryRows
    BY <1>1, RequestsTyped DEF Writes
  <1> QED
    BY <1>1, <1>2, EntryCommandsTyped DEF IsNext, EntryRows, EntryPlaces

LEMMA LeavesAreNotReached ==
  ASSUME DirectoryInv, NEW u \in EntryPlaces, u \notin PostIds
  PROVE  Upwards(u) \cap PostIds = {}
  <1> DEFINE S == EntryPlaces \ PostIds
  <1>1. \A e \in LinksOf(entries) : e[1] \in S => e[2] \in S
    <2> SUFFICES ASSUME NEW e \in LinksOf(entries) PROVE e[2] \in S
      OBVIOUS
    <2>1. e[1] \in Entries /\ IsEntry(e[1]) /\ e[2] = entries[e[1]].above /\ e[2] \in EntryPlaces
      BY EntryLinksTyped DEF DirectoryInv
    <2> QED
      BY <2>1 DEF DirectoryInv, PositionsAreLeaves
  <1>2. S \in SUBSET EntryPlaces /\ u \in S
    OBVIOUS
  <1> HIDE DEF S
  <1>3. Upwards(u) \subseteq S
    BY <1>1, <1>2, ReachedIsLeast DEF Upwards
  <1> QED
    BY <1>3 DEF S

LEMMA PositionsAreWritten ==
  ASSUME DirectoryInv, NEW q \in DirectoryRequests, Writes(q)
  PROVE  /\ directoryOf[q].row.sort = "position" => directoryOf[q].command.id \in PostIds
         /\ directoryOf[q].row.above \notin PostIds
  <1> DEFINE c == directoryOf[q].command
  <1>1. c \in DirectoryCommands /\ RowIsThere(c) /\ directoryOf[q].row = RowAfter(c) /\ c.id \in Entries
    BY WritesTyped
  <1> HIDE DEF c
  <1>2. DirectoryTypeOK /\ PositionsAreLeaves
    BY DEF DirectoryInv
  <1>3. CASE c.kind = "create"
    <2>1. RowAfter(c).sort = c.sort /\ RowAfter(c).above = c.above
      BY <1>1, <1>2, <1>3, RowIsAfter
    <2> QED
      BY <1>1, <1>3, <2>1, EntryCommandsTyped DEF c
  <1>4. CASE c.kind # "create"
    <2>1. /\ IsEntry(c.id) /\ RowAfter(c).sort = entries[c.id].sort
          /\ RowAfter(c).above \in {entries[c.id].above, c.above}
          /\ c.kind # "update" => RowAfter(c).above = entries[c.id].above
      BY <1>1, <1>2, <1>4, RowIsAfter, EntryCommandsTyped
    <2>2. entries[c.id].above \notin PostIds /\ (entries[c.id].sort = "position" => c.id \in PostIds)
      BY <1>1, <1>2, <2>1 DEF PositionsAreLeaves
    <2>3. c.kind = "update" => c.above \notin PostIds
      BY <1>1, EntryCommandsTyped
    <2> QED
      BY <1>1, <2>1, <2>2, <2>3 DEF c
  <1> QED
    BY <1>3, <1>4

LEMMA TheTopIsReached ==
  ASSUME DirectoryTypeOK
  PROVE  Upwards(TopLevel) \subseteq {TopLevel}
  <1>1. \A e \in LinksOf(entries) : e[1] # TopLevel
    BY EntryLinksTyped, DirectoryAssumption
  <1>2. {TopLevel} \in SUBSET EntryPlaces
    BY DEF EntryPlaces
  <1> QED
    BY <1>1, <1>2, ReachedIsLeast DEF Upwards

LEMMA WrittenIsNotReached ==
  ASSUME DirectoryInv, NEW q \in DirectoryRequests, Writes(q)
  PROVE  directoryOf[q].command.id \notin Upwards(directoryOf[q].row.above)
  <1> DEFINE c == directoryOf[q].command
             r == directoryOf[q].row
  <1>1. /\ c \in DirectoryCommands /\ RowIsThere(c) /\ r = RowAfter(c) /\ c.id \in Entries
        /\ r \in EntryRows /\ r.above \in EntryPlaces
    BY WritesTyped
  <1>2. DirectoryTypeOK
    BY DEF DirectoryInv
  <1> HIDE DEF c, r
  <1>3. CASE Walks(q)
    BY <1>3 DEF DirectoryInv, LinksAreSound, c, r
  <1>4. CASE r.above = TopLevel
    BY <1>1, <1>2, <1>4, TheTopIsReached, DirectoryAssumption DEF c, r
  <1>5. CASE c.kind \in {"disable", "restore"}
    <2>1. IsEntry(c.id) /\ r.above = entries[c.id].above
      BY <1>1, <1>2, <1>5, RowIsAfter
    <2>2. <<c.id, r.above>> \in LinksOf(entries)
      BY <1>1, <1>2, <2>1, EntryLinksTyped
    <2>3. <<c.id, r.above>>[1] \notin Reached(EntryPlaces, LinksOf(entries), <<c.id, r.above>>[2])
      BY <2>2 DEF DirectoryInv, LinksAreSound, IsHierarchy
    <2> QED
      BY <2>3 DEF Upwards, c, r
  <1>6. CASE r.sort = "position"
    BY <1>1, <1>6, PositionsAreWritten, LeavesAreNotReached DEF c, r
  <1> QED
    BY <1>1, <1>3, <1>4, <1>5, <1>6, EntryCommandsTyped DEF Walks, EntryRows, c, r
LEMMA DirectoryStarts == DirectoryInit => DirectoryInv
  <1> SUFFICES ASSUME DirectoryInit PROVE DirectoryInv
    OBVIOUS
  <1>1. /\ entries = [d \in Entries |-> IF d \in DOMAIN FirstEntries THEN FirstEntries[d] ELSE NoRow]
        /\ entryHistory = {[op |-> "setup", id |-> d, row |-> FirstEntries[d]] : d \in DOMAIN FirstEntries}
        /\ directoryReceipts = {} /\ directoryOf = [q \in DirectoryRequests |-> DirectoryIdle]
    BY DEF DirectoryInit
  <1>2. /\ TopLevel \notin Entries /\ DOMAIN FirstEntries \subseteq Entries
        /\ \A d \in DOMAIN FirstEntries :
             /\ FirstEntries[d] \in EntryRows /\ FirstEntries[d].revision = 0
             /\ FirstEntries[d].above \notin PostIds
             /\ FirstEntries[d].locked => FirstEntries[d].active
        /\ IsHierarchy(EntryPlaces, LinksOf(FirstEntries))
        /\ \A d, e \in DOMAIN FirstEntries : SameKey(FirstEntries[d], FirstEntries[e]) => d = e
    BY DirectoryAssumption
  <1>3. \A d \in Entries :
          /\ IsEntry(d) <=> d \in DOMAIN FirstEntries
          /\ d \in DOMAIN FirstEntries => entries[d] = FirstEntries[d]
    BY <1>1, <1>2 DEF IsEntry, NoRow, EntryRows
  <1>4. DirectoryTypeOK
    BY <1>1, <1>2 DEF DirectoryTypeOK, DirectoryStates
  <1>5. \A q \in DirectoryRequests : directoryOf[q].step = "idle"
    BY <1>1 DEF DirectoryIdle
  <1>6. ChecksStand /\ WrittenIsNext /\ WritesDiffer
    BY <1>5 DEF ChecksStand, WrittenIsNext, WritesDiffer, Writes
  <1>7. PositionsAreLeaves
    BY <1>2, <1>3 DEF PositionsAreLeaves, PostIds
  <1>8. LinksAreSound
    <2>1. DOMAIN entries = Entries
      BY <1>1
    <2>2. LinksOf(entries) = LinksOf(FirstEntries)
      BY <1>2, <1>3, <2>1 DEF LinksOf, IsEntry, NoRow, EntryRows
    <2> QED
      BY <1>2, <1>5, <2>2 DEF LinksAreSound, Walks, Writes
  <1>9. KeysAreApart
    BY <1>2, <1>3, <1>5 DEF KeysAreApart, SiblingsDiffer, Writes
  <1>10. RootsAreLocked
    BY <1>2, <1>3 DEF RootsAreLocked
  <1>11. HistoryIsWhole
    <2>1. ASSUME NEW d \in Entries PROVE KeepsRevisions(d)
      <3>1. KeptOf(d) = IF d \in DOMAIN FirstEntries
                          THEN {[op |-> "setup", id |-> d, row |-> FirstEntries[d]]} ELSE {}
        BY <1>1 DEF KeptOf
      <3>2. CASE d \in DOMAIN FirstEntries
        <4>1. entries[d] = FirstEntries[d] /\ IsEntry(d) /\ FirstEntries[d].revision = 0
          BY <1>2, <1>3, <3>2
        <4>2. {h.row : h \in KeptOf(d)} = {FirstEntries[d]}
          BY <3>1, <3>2
        <4>3. {h.row.revision : h \in KeptOf(d)} = {0}
          BY <3>1, <3>2, <4>1
        <4>4. 0 .. entries[d].revision = {0}
          BY <4>1
        <4> QED
          BY <3>1, <3>2, <4>1, <4>2, <4>3, <4>4 DEF KeepsRevisions
      <3>3. CASE d \notin DOMAIN FirstEntries
        <4>1. ~ IsEntry(d) /\ KeptOf(d) = {}
          BY <1>3, <3>1, <3>3
        <4> QED
          BY <4>1 DEF KeepsRevisions
      <3> QED
        BY <3>2, <3>3
    <2>2. OperationsAreOnce
      BY <1>1 DEF OperationsAreOnce
    <2> QED
      BY <2>1, <2>2 DEF HistoryIsWhole
  <1> QED
    BY <1>4, <1>6, <1>7, <1>8, <1>9, <1>10, <1>11 DEF DirectoryInv

(* What only moves a request, and writes no row, disturbs nothing.         *)
LEMMA OnlyARequestMoves ==
  ASSUME DirectoryInv, NEW q \in DirectoryRequests, NEW s \in DirectoryStates,
         directoryOf' = [directoryOf EXCEPT ![q] = s],
         UNCHANGED <<entries, entryHistory, directoryReceipts>>,
         s.step # "written", s.step = "checked" => StillUnlocked(s.command)
  PROVE  DirectoryInv'
  <1>0. entries' = entries /\ entryHistory' = entryHistory /\ directoryReceipts' = directoryReceipts
    OBVIOUS
  <1>1. /\ directoryOf' \in [DirectoryRequests -> DirectoryStates]
        /\ directoryOf'[q] = s
        /\ \A p \in DirectoryRequests \ {q} : directoryOf'[p] = directoryOf[p]
    BY DEF DirectoryInv, DirectoryTypeOK
  <1>2. DirectoryTypeOK'
    BY <1>0, <1>1 DEF DirectoryInv, DirectoryTypeOK
  <1>3. \A p \in DirectoryRequests :
          Writes(p)' => /\ Writes(p) /\ directoryOf'[p] = directoryOf[p] /\ (Walks(p)' <=> Walks(p))
    BY <1>1 DEF Writes, Walks
  <1>4. ChecksStand'
    BY <1>0, <1>1 DEF DirectoryInv, ChecksStand, StillUnlocked, IsEntry
  <1>5. \A c, x : IsNext(c, x)' <=> IsNext(c, x)
    BY <1>0 DEF IsNext, RowIsThere, RowAfter, IsEntry
  <1>6. WrittenIsNext'
    BY <1>3, <1>5 DEF DirectoryInv, WrittenIsNext
  <1>7. WritesDiffer'
    BY <1>3 DEF DirectoryInv, WritesDiffer
  <1>8. PositionsAreLeaves'
    BY <1>0 DEF DirectoryInv, PositionsAreLeaves, IsEntry
  <1>9. LinksAreSound'
    <2>1. \A u : Upwards(u)' = Reached(EntryPlaces, LinksOf(entries), u')
      BY <1>0 DEF Upwards
    <2>2. IsHierarchy(EntryPlaces, LinksOf(entries))'
      BY <1>0 DEF DirectoryInv, LinksAreSound
    <2>3. ASSUME NEW p \in DirectoryRequests, Walks(p)'
          PROVE  directoryOf'[p].command.id \notin Reached(EntryPlaces, LinksOf(entries'), directoryOf'[p].row.above)
      BY <1>0, <1>3, <2>3 DEF DirectoryInv, LinksAreSound, Upwards, Walks
    <2> QED
      BY <2>2, <2>3 DEF LinksAreSound, Upwards
  <1>10. KeysAreApart'
    BY <1>0, <1>3 DEF DirectoryInv, KeysAreApart, SiblingsDiffer, IsEntry
  <1>11. RootsAreLocked'
    BY <1>0 DEF DirectoryInv, RootsAreLocked, IsEntry
  <1>12. HistoryIsWhole'
    BY <1>0 DEF DirectoryInv, HistoryIsWhole, KeepsRevisions, KeptOf, OperationsAreOnce, IsEntry
  <1> QED
    BY <1>2, <1>4, <1>6, <1>7, <1>8, <1>9, <1>10, <1>11, <1>12 DEF DirectoryInv

LEMMA DirectoryBegins ==
  ASSUME DirectoryInv, NEW q \in DirectoryRequests, NEW c \in DirectoryCommands, BeginDirectory(q, c)
  PROVE  DirectoryInv'
  <1>1. PICK s : s = [step |-> "begun", command |-> c]
    OBVIOUS
  <1>2. s \in DirectoryStates /\ s.step = "begun"
    BY <1>1 DEF DirectoryStates
  <1>3. /\ directoryOf' = [directoryOf EXCEPT ![q] = s]
        /\ UNCHANGED <<entries, entryHistory, directoryReceipts>>
    BY <1>1 DEF BeginDirectory
  <1> QED
    BY <1>2, <1>3, OnlyARequestMoves

LEMMA DirectoryIsChecked ==
  ASSUME DirectoryInv, NEW q \in DirectoryRequests, CheckDirectory(q)
  PROVE  DirectoryInv'
  <1> DEFINE c == directoryOf[q].command
  <1>1. /\ directoryOf[q] = [step |-> "begun", command |-> c] /\ c \in DirectoryCommands
        /\ Permissible(c)
    BY RequestsTyped DEF CheckDirectory, DirectoryInv
  <1>2. PICK s : s = [step |-> "checked", command |-> c]
    OBVIOUS
  <1>3. s \in DirectoryStates /\ s.step = "checked" /\ s.command = c
    BY <1>1, <1>2 DEF DirectoryStates
  <1>4. /\ directoryOf' = [directoryOf EXCEPT ![q] = s]
        /\ UNCHANGED <<entries, entryHistory, directoryReceipts>>
    <2>1. [directoryOf[q] EXCEPT !.step = "checked"] = s
      BY <1>1, <1>2
    <2>2. directoryOf' = [directoryOf EXCEPT ![q] = [directoryOf[q] EXCEPT !.step = "checked"]]
      BY DEF CheckDirectory
    <2> QED
      BY <2>1, <2>2 DEF CheckDirectory
  <1>5. StillUnlocked(c)
    <2>1. CASE c.kind = "update"
      BY <1>1, <2>1 DEF Permissible, MayUpdate, StillUnlocked
    <2>2. CASE c.kind = "disable"
      BY <1>1, <2>2 DEF Permissible, MayDisable, StillUnlocked
    <2> QED
      BY <2>1, <2>2 DEF StillUnlocked
  <1> QED
    BY <1>3, <1>4, <1>5, OnlyARequestMoves

LEMMA DirectoryIsLeft ==
  ASSUME DirectoryInv, NEW q \in DirectoryRequests, RefuseDirectory(q) \/ ReplayDirectory(q)
  PROVE  DirectoryInv'
  <1>1. PICK s : s = DirectoryIdle
    OBVIOUS
  <1>2. s \in DirectoryStates /\ s.step = "idle"
    BY <1>1 DEF DirectoryStates, DirectoryIdle
  <1>3. /\ directoryOf' = [directoryOf EXCEPT ![q] = s]
        /\ UNCHANGED <<entries, entryHistory, directoryReceipts>>
    BY <1>1 DEF RefuseDirectory, ReplayDirectory
  <1> QED
    BY <1>2, <1>3, OnlyARequestMoves

(* Of the writes that wait for their commits none meets another.           *)
LEMMA DirectoryIsWritten ==
  ASSUME DirectoryInv, NEW q \in DirectoryRequests, WriteDirectory(q)
  PROVE  DirectoryInv'
  <1>1. PICK c : c = directoryOf[q].command
    OBVIOUS
  <1>2. PICK r : r = RowAfter(c)
    OBVIOUS
  <1>0. entries' = entries /\ entryHistory' = entryHistory /\ directoryReceipts' = directoryReceipts
    BY DEF WriteDirectory
  <1>3. /\ directoryOf[q].step = "checked" /\ \A x \in directoryReceipts : x.op # c.op
        /\ RowIsThere(c) /\ \A p \in DirectoryRequests \ {q} : ~ WaitsFor(c, p)
        /\ r.revision <= MaxEntryRevision /\ ~ Violated(c, r)
        /\ directoryOf' = [directoryOf EXCEPT ![q] = [step |-> "written", command |-> c, row |-> r]]
    BY <1>1, <1>2 DEF WriteDirectory
  <1>4. DirectoryTypeOK /\ c \in DirectoryCommands
    BY <1>1, <1>3, RequestsTyped DEF DirectoryInv
  <1>5. r \in EntryRows
    BY <1>2, <1>3, <1>4, RowIsAfter
  <1>6. PICK s : s = [step |-> "written", command |-> c, row |-> r]
    OBVIOUS
  <1>7. s \in DirectoryStates /\ s.step = "written" /\ s.command = c /\ s.row = r
    BY <1>4, <1>5, <1>6 DEF DirectoryStates
  <1>8. /\ directoryOf' \in [DirectoryRequests -> DirectoryStates]
        /\ directoryOf'[q] = s
        /\ \A p \in DirectoryRequests \ {q} : directoryOf'[p] = directoryOf[p]
    BY <1>3, <1>4, <1>6, <1>7 DEF DirectoryTypeOK
  <1>9. DirectoryTypeOK'
    BY <1>0, <1>8 DEF DirectoryInv, DirectoryTypeOK
  <1>10. \A p \in DirectoryRequests \ {q} : (Writes(p)' <=> Writes(p)) /\ (Walks(p)' <=> Walks(p))
    BY <1>8 DEF Writes, Walks
  <1>11. ChecksStand'
    <2>1. StillUnlocked(c)
      BY <1>1, <1>3 DEF DirectoryInv, ChecksStand
    <2> QED
      BY <1>0, <1>7, <1>8, <2>1 DEF DirectoryInv, ChecksStand, StillUnlocked, IsEntry
  <1>12. WrittenIsNext'
    <2>1. \A d, x : IsNext(d, x)' <=> IsNext(d, x)
      BY <1>0 DEF IsNext, RowIsThere, RowAfter, IsEntry
    <2>2. IsNext(c, r)
      BY <1>2, <1>3 DEF IsNext
    <2>3. ASSUME NEW p \in DirectoryRequests, Writes(p)'
          PROVE  IsNext(directoryOf'[p].command, directoryOf'[p].row)
      BY <1>7, <1>8, <1>10, <2>2, <2>3 DEF DirectoryInv, WrittenIsNext
    <2> QED
      BY <2>1, <2>3 DEF WrittenIsNext
  <1>13. Walks(q)' => Walked(c)
    BY <1>2, <1>7, <1>8 DEF Walks, Walked, WritesParent
  <1>14. WritesDiffer'
    <2>1. ASSUME NEW p \in DirectoryRequests \ {q}, Writes(p)
          PROVE  /\ directoryOf[p].command.op # c.op /\ directoryOf[p].command.id # c.id
                 /\ ~ SameKey(directoryOf[p].row, r) /\ ~ SameKey(r, directoryOf[p].row)
                 /\ ~ (Walks(p) /\ Walked(c))
      <3>1. ~ WaitsFor(c, p)
        BY <1>3
      <3>2. ~ SameKey(r, directoryOf[p].row)
        BY <1>2, <2>1, <3>1 DEF WaitsFor, Writes
      <3>3. directoryOf[p].row = RowAfter(directoryOf[p].command)
        BY <2>1, WritesTyped
      <3>4. Walks(p) => Walked(directoryOf[p].command)
        BY <3>3 DEF Walks, Walked, WritesParent
      <3> QED
        BY <2>1, <3>1, <3>2, <3>4 DEF WaitsFor, Writes, SameKey
    <2> QED
      BY <1>7, <1>8, <1>10, <1>13, <2>1 DEF DirectoryInv, WritesDiffer
  <1>15. PositionsAreLeaves'
    BY <1>0 DEF DirectoryInv, PositionsAreLeaves, IsEntry
  <1>16. LinksAreSound'
    <2>2. IsHierarchy(EntryPlaces, LinksOf(entries))'
      BY <1>0 DEF DirectoryInv, LinksAreSound
    <2>3. ASSUME NEW p \in DirectoryRequests, Walks(p)'
          PROVE  directoryOf'[p].command.id \notin Reached(EntryPlaces, LinksOf(entries'), directoryOf'[p].row.above)
      <3>1. CASE p = q
        <4>1. c.id \notin Upwards(r.above)
          BY <1>3, <1>13, <2>3, <3>1 DEF Violated
        <4> QED
          BY <1>0, <1>7, <1>8, <3>1, <4>1 DEF Upwards
      <3>2. CASE p # q
        BY <1>0, <1>8, <1>10, <2>3, <3>2 DEF DirectoryInv, LinksAreSound, Upwards
      <3> QED
        BY <3>1, <3>2
    <2> QED
      BY <2>2, <2>3 DEF LinksAreSound, Upwards
  <1>17. KeysAreApart'
    <2>1. \A d \in Entries \ {c.id} : IsEntry(d) => ~ SameKey(r, entries[d])
      BY <1>3 DEF Violated
    <2> QED
      BY <1>0, <1>7, <1>8, <1>10, <2>1 DEF DirectoryInv, KeysAreApart, SiblingsDiffer, IsEntry
  <1>18. RootsAreLocked'
    BY <1>0 DEF DirectoryInv, RootsAreLocked, IsEntry
  <1>19. HistoryIsWhole'
    BY <1>0 DEF DirectoryInv, HistoryIsWhole, KeepsRevisions, KeptOf, OperationsAreOnce, IsEntry
  <1> QED
    BY <1>9, <1>11, <1>12, <1>14, <1>15, <1>16, <1>17, <1>18, <1>19 DEF DirectoryInv
(* What is committed is the row that was written, and no other request     *)
(* that has written finds its own row, its key or its operation taken.     *)
LEMMA DirectoryIsCommitted ==
  ASSUME DirectoryInv, NEW q \in DirectoryRequests, CommitDirectory(q)
  PROVE  DirectoryInv'
  <1>1. PICK c : c = directoryOf[q].command
    OBVIOUS
  <1>2. PICK r : r = directoryOf[q].row
    OBVIOUS
  <1>3. /\ Writes(q)
        /\ entries' = [entries EXCEPT ![c.id] = r]
        /\ entryHistory' = entryHistory \cup {[op |-> c.op, id |-> c.id, row |-> r]}
        /\ directoryReceipts' = directoryReceipts \cup {c}
        /\ directoryOf' = [directoryOf EXCEPT ![q] = DirectoryIdle]
    BY <1>1, <1>2 DEF CommitDirectory, Writes
  <1>4. /\ c \in DirectoryCommands /\ c.id \in Entries /\ r \in EntryRows /\ r.above \in EntryPlaces
        /\ r = RowAfter(c) /\ RowIsThere(c) /\ DirectoryTypeOK
        /\ c.op \in DirectoryOperations /\ c.op # "setup"
    <2>1. DirectoryTypeOK
      BY DEF DirectoryInv
    <2> QED
      BY <1>1, <1>2, <1>3, <2>1, WritesTyped, EntryCommandsTyped, DirectoryAssumption
  <1>5. \A x \in directoryReceipts : x.op # c.op
    BY <1>1, <1>3 DEF DirectoryInv, WrittenIsNext, IsNext
  <1>6. /\ entries' \in [Entries -> EntryRows \cup {NoRow}]
        /\ entries'[c.id] = r
        /\ \A d \in Entries \ {c.id} : entries'[d] = entries[d]
    BY <1>3, <1>4 DEF DirectoryTypeOK
  <1>7. /\ directoryOf' \in [DirectoryRequests -> DirectoryStates]
        /\ directoryOf'[q].step = "idle"
        /\ \A p \in DirectoryRequests \ {q} : directoryOf'[p] = directoryOf[p]
    BY <1>3, <1>4 DEF DirectoryTypeOK, DirectoryStates, DirectoryIdle
  <1>8. DirectoryTypeOK'
    <2>1. [op |-> c.op, id |-> c.id, row |-> r]
            \in [op : DirectoryOperations \cup {"setup"}, id : Entries, row : EntryRows]
      BY <1>4
    <2> QED
      BY <1>3, <1>4, <1>6, <1>7, <2>1 DEF DirectoryTypeOK
  <1>9. /\ IsEntry(c.id)'
        /\ \A d \in Entries \ {c.id} : IsEntry(d)' <=> IsEntry(d)
    <2>1. r # NoRow
      BY <1>4 DEF NoRow, EntryRows
    <2> QED
      BY <1>4, <1>6, <2>1 DEF IsEntry
  <1>10. /\ ~ Writes(q)'
         /\ \A p \in DirectoryRequests \ {q} : (Writes(p)' <=> Writes(p)) /\ (Walks(p)' <=> Walks(p))
    BY <1>7 DEF Writes, Walks
  <1>11. ASSUME NEW p \in DirectoryRequests, Writes(p)'
         PROVE  /\ p # q /\ Writes(p) /\ directoryOf'[p] = directoryOf[p]
                /\ directoryOf[p].command.op # c.op /\ directoryOf[p].command.id # c.id
                /\ ~ SameKey(directoryOf[p].row, r) /\ ~ (Walks(p) /\ Walks(q))
                /\ directoryOf[p].command \in DirectoryCommands
                /\ directoryOf[p].command.id \in Entries
    <2>1. p # q /\ Writes(p) /\ directoryOf'[p] = directoryOf[p]
      BY <1>7, <1>10, <1>11
    <2>2. /\ directoryOf[p].command.op # c.op /\ directoryOf[p].command.id # c.id
          /\ ~ SameKey(directoryOf[p].row, r) /\ ~ (Walks(p) /\ Walks(q))
      BY <1>1, <1>2, <1>3, <2>1 DEF DirectoryInv, WritesDiffer
    <2> QED
      BY <2>1, <2>2, WritesTyped
  <1>12. c.kind = "create" => ~ IsEntry(c.id) /\ ~ r.locked
    BY <1>4, RowIsAfter DEF RowIsThere
  <1>13. c.kind # "create" =>
           /\ IsEntry(c.id) /\ entries[c.id] \in EntryRows /\ entries[c.id].revision = c.expected
           /\ r.sort = entries[c.id].sort /\ r.locked = entries[c.id].locked
           /\ r.revision = entries[c.id].revision + 1
    BY <1>4, RowIsAfter
  <1>14. ChecksStand'
    <2> SUFFICES ASSUME NEW p \in DirectoryRequests, directoryOf'[p].step \in {"checked", "written"}
                 PROVE  StillUnlocked(directoryOf[p].command)'
      BY DEF ChecksStand
    <2>1. PICK d : d = directoryOf[p].command
      OBVIOUS
    <2>2. directoryOf'[p] = directoryOf[p] /\ p # q
      BY <1>7
    <2>3. d \in DirectoryCommands /\ d.id \in Entries
      BY <1>4, <2>1, <2>2, RequestsTyped, EntryCommandsTyped
    <2>4. d.kind = "disable" \/ (d.kind = "update" /\ d.above # KeepParent) =>
            IsEntry(d.id) /\ ~ entries[d.id].locked
      BY <2>1, <2>2 DEF DirectoryInv, ChecksStand, StillUnlocked
    <2>5. d.kind = "disable" \/ (d.kind = "update" /\ d.above # KeepParent) =>
            IsEntry(d.id)' /\ ~ entries'[d.id].locked
      BY <1>6, <1>9, <1>12, <1>13, <2>3, <2>4
    <2> QED
      BY <2>1, <2>2, <2>5 DEF StillUnlocked, IsEntry
  <1>15. WrittenIsNext'
    <2> SUFFICES ASSUME NEW p \in DirectoryRequests, Writes(p)'
                 PROVE  IsNext(directoryOf[p].command, directoryOf[p].row)'
      BY DEF WrittenIsNext
    <2>1. PICK d : d = directoryOf[p].command
      OBVIOUS
    <2>2. PICK x : x = directoryOf[p].row
      OBVIOUS
    <2>3. /\ directoryOf'[p].command = d /\ directoryOf'[p].row = x
          /\ d.id \in Entries \ {c.id} /\ d.op # c.op
      BY <1>11, <2>1, <2>2
    <2>4. RowIsThere(d) /\ x = RowAfter(d) /\ \A y \in directoryReceipts : y.op # d.op
      BY <1>11, <2>1, <2>2 DEF DirectoryInv, WrittenIsNext, IsNext
    <2>5. entries'[d.id] = entries[d.id] /\ (IsEntry(d.id)' <=> IsEntry(d.id))
      BY <1>6, <1>9, <2>3
    <2>6. IF d.kind = "create" THEN ~ IsEntry(d.id)'
                               ELSE IsEntry(d.id)' /\ entries'[d.id].revision = d.expected
      BY <2>4, <2>5 DEF RowIsThere
    <2>7. \A y \in directoryReceipts' : y.op # d.op
      BY <1>3, <2>3, <2>4
    <2>8. RowAfter(d)' = RowAfter(d)
      BY <2>5 DEF RowAfter
    <2>9. RowIsThere(d)'
      BY <2>6 DEF RowIsThere, IsEntry
    <2>10. IsNext(d, x)'
      BY <2>4, <2>7, <2>8, <2>9 DEF IsNext
    <2> QED
      BY <2>3, <2>10 DEF IsNext, RowIsThere, RowAfter, IsEntry
  <1>16. WritesDiffer'
    BY <1>7, <1>10 DEF DirectoryInv, WritesDiffer
  <1>17. PositionsAreLeaves'
    <2>1. r.above \notin PostIds /\ (r.sort = "position" => c.id \in PostIds)
      BY <1>1, <1>2, <1>3, PositionsAreWritten
    <2> QED
      BY <1>6, <1>9, <2>1 DEF DirectoryInv, PositionsAreLeaves
  <1>18. LinksAreSound'
    <2> DEFINE E == LinksOf(entries)
               F == LinksOf(entries')
               G == E \cup {<<c.id, r.above>>}
    <2>1. /\ E \in SUBSET (EntryPlaces \X EntryPlaces) /\ IsHierarchy(EntryPlaces, E)
          /\ c.id \in EntryPlaces /\ r.above \in EntryPlaces
      BY <1>4, EntryLinksTyped DEF DirectoryInv, LinksAreSound, EntryPlaces
    <2>2. c.id \notin Reached(EntryPlaces, E, r.above)
      BY <1>1, <1>2, <1>3, WrittenIsNotReached DEF Upwards
    <2>3. F \subseteq G
      <3>1. DOMAIN entries = Entries /\ DOMAIN entries' = Entries
        BY <1>4, <1>6 DEF DirectoryTypeOK
      <3>2. \A d \in Entries \ {c.id} : entries'[d] # NoRow => entries[d] # NoRow /\ entries'[d] = entries[d]
        BY <1>6
      <3> QED
        BY <1>6, <3>1, <3>2 DEF LinksOf
    <2>4. G \in SUBSET (EntryPlaces \X EntryPlaces)
      BY <2>1
    <2> HIDE DEF E, F
    <2>5. IsHierarchy(EntryPlaces, G)
      BY <2>1, <2>2, PlacedIsHierarchy
    <2> HIDE DEF G
    <2>6. IsHierarchy(EntryPlaces, F)
      BY <2>3, <2>4, <2>5, FewerIsHierarchy
    <2>7. ASSUME NEW p \in DirectoryRequests, Walks(p)'
          PROVE  directoryOf'[p].command.id \notin Reached(EntryPlaces, F, directoryOf'[p].row.above)
      <3>1. PICK d : d = directoryOf[p].command.id
        OBVIOUS
      <3>2. PICK u : u = directoryOf[p].row.above
        OBVIOUS
      <3>3. /\ directoryOf'[p] = directoryOf[p] /\ Writes(p) /\ Walks(p) /\ ~ Walks(q)
            /\ d \in Entries /\ d # c.id
        BY <1>10, <1>11, <2>7, <3>1 DEF Walks
      <3>4. u \in EntryPlaces /\ u \notin PostIds
        BY <3>2, <3>3, WritesTyped, PositionsAreWritten
      <3> DEFINE R == Reached(EntryPlaces, E, u)
                 S == R \cup {TopLevel}
      <3>5. d \notin R
        BY <3>1, <3>2, <3>3 DEF DirectoryInv, LinksAreSound, Upwards, E
      <3>6. d # TopLevel /\ c.id # TopLevel
        BY <1>4, <3>3, DirectoryAssumption
      <3>7. R \in SUBSET EntryPlaces /\ u \in R /\ \A e \in E : e[1] \in R => e[2] \in R
        BY <2>1, <3>4, ReachedIsClosed
      <3>8. c.id \in R => r.above \in S
        <4>1. CASE r.above = TopLevel
          BY <4>1
        <4>2. CASE c.kind \in {"disable", "restore"}
          <5>1. IsEntry(c.id) /\ r.above = entries[c.id].above
            BY <1>4, <4>2, RowIsAfter
          <5>2. <<c.id, r.above>> \in E
            BY <1>4, <5>1, EntryLinksTyped DEF E
          <5> QED
            BY <3>7, <5>2
        <4>3. CASE r.sort = "position"
          <5>1. c.id \in PostIds
            BY <1>1, <1>2, <1>3, <4>3, PositionsAreWritten
          <5>2. R \cap PostIds = {}
            BY <3>4, LeavesAreNotReached DEF Upwards, E
          <5> QED
            BY <5>1, <5>2
        <4>4. \/ r.above = TopLevel \/ c.kind \in {"disable", "restore"} \/ r.sort = "position"
          BY <1>1, <1>2, <1>3, <1>4, <3>3, EntryCommandsTyped DEF Walks, EntryRows
        <4> QED
          BY <4>1, <4>2, <4>3, <4>4
      <3>9. \A e \in E : e[1] # TopLevel
        BY <1>4, EntryLinksTyped, DirectoryAssumption DEF E
      <3> HIDE DEF R
      <3>10. \A e \in F : e[1] \in S => e[2] \in S
        <4> SUFFICES ASSUME NEW e \in F, e[1] \in S PROVE e[2] \in S
          OBVIOUS
        <4>1. e \in E \/ e = <<c.id, r.above>>
          BY <2>3 DEF G
        <4> QED
          BY <3>6, <3>7, <3>8, <3>9, <4>1
      <3>11. S \in SUBSET EntryPlaces /\ u \in S /\ d \notin S
        BY <3>5, <3>6, <3>7 DEF EntryPlaces
      <3> HIDE DEF S
      <3>12. Reached(EntryPlaces, F, u) \subseteq S
        BY <3>10, <3>11, ReachedIsLeast
      <3> QED
        BY <3>1, <3>2, <3>3, <3>11, <3>12
    <2> QED
      BY <2>6, <2>7 DEF LinksAreSound, Upwards, F
  <1>19. KeysAreApart'
    <2>1. \A d \in Entries \ {c.id} : IsEntry(d) => ~ SameKey(r, entries[d]) /\ ~ SameKey(entries[d], r)
      BY <1>1, <1>2, <1>3 DEF DirectoryInv, KeysAreApart, SameKey
    <2>2. SiblingsDiffer'
      <3> SUFFICES ASSUME NEW d \in Entries, NEW e \in Entries, IsEntry(d)', IsEntry(e)',
                          SameKey(entries'[d], entries'[e])
                   PROVE  d = e
        BY DEF SiblingsDiffer, SameKey, IsEntry
      <3> QED
        BY <1>6, <1>9, <2>1 DEF DirectoryInv, KeysAreApart, SiblingsDiffer
    <2>3. ASSUME NEW p \in DirectoryRequests, Writes(p)',
                 NEW d \in Entries \ {directoryOf[p].command.id}, IsEntry(d)'
          PROVE  ~ SameKey(directoryOf[p].row, entries'[d])
      BY <1>6, <1>9, <1>11, <2>3 DEF DirectoryInv, KeysAreApart
    <2>4. \A p \in DirectoryRequests : Writes(p)' => directoryOf'[p] = directoryOf[p]
      BY <1>11
    <2> QED
      BY <2>2, <2>3, <2>4 DEF KeysAreApart, SameKey, IsEntry
  <1>20. RootsAreLocked'
    <2> SUFFICES ASSUME NEW d \in DOMAIN FirstEntries, FirstEntries[d].locked
                 PROVE  IsEntry(d)' /\ entries'[d].locked /\ entries'[d].active
                          /\ entries'[d].above = FirstEntries[d].above
      BY DEF RootsAreLocked, IsEntry
    <2>1. d \in Entries
      BY DirectoryAssumption
    <2>2. /\ IsEntry(d) /\ entries[d].locked /\ entries[d].active
          /\ entries[d].above = FirstEntries[d].above
      BY DEF DirectoryInv, RootsAreLocked
    <2>3. CASE d = c.id
      <3>1. c.kind # "create"
        BY <1>12, <2>2, <2>3
      <3>2. StillUnlocked(c)
        BY <1>1, <1>3 DEF DirectoryInv, ChecksStand, Writes
      <3>3. c.kind # "disable" /\ (c.kind = "update" => c.above = KeepParent)
        BY <2>2, <2>3, <3>2 DEF StillUnlocked
      <3>4. r.locked /\ r.above = entries[c.id].above
        BY <1>4, <1>13, <2>2, <2>3, <3>1, <3>3, RowIsAfter, EntryCommandsTyped
      <3>5. r.active
        <4>1. CASE c.kind = "update"
          BY <1>4, <2>2, <2>3, <4>1, RowIsAfter
        <4>2. CASE c.kind = "restore"
          BY <1>4, <4>2, RowIsAfter
        <4> QED
          BY <1>4, <3>1, <3>3, <4>1, <4>2, EntryCommandsTyped
      <3> QED
        BY <1>6, <1>9, <2>2, <2>3, <3>4, <3>5
    <2>4. CASE d # c.id
      BY <1>6, <1>9, <2>1, <2>2, <2>4
    <2> QED
      BY <2>3, <2>4
  <1>21. HistoryIsWhole'
    <2>1. PICK n : n = [op |-> c.op, id |-> c.id, row |-> r]
      OBVIOUS
    <2>2. entryHistory' = entryHistory \cup {n} /\ n.op = c.op /\ n.id = c.id /\ n.row = r
      BY <1>3, <2>1
    <2>3. ASSUME NEW d \in Entries PROVE KeepsRevisions(d)'
      <3>1. /\ IsEntry(d) => entries[d] \in {h.row : h \in KeptOf(d)}
            /\ {h.row.revision : h \in KeptOf(d)} = IF IsEntry(d) THEN 0 .. entries[d].revision ELSE {}
            /\ \A g, h \in KeptOf(d) : g.row.revision = h.row.revision => g = h
        BY DEF DirectoryInv, HistoryIsWhole, KeepsRevisions
      <3>2. CASE d # c.id
        <4>1. KeptOf(d)' = KeptOf(d) /\ entries'[d] = entries[d] /\ (IsEntry(d)' <=> IsEntry(d))
          BY <1>6, <1>9, <2>2, <3>2 DEF KeptOf
        <4> QED
          BY <3>1, <4>1 DEF KeepsRevisions
      <3>3. CASE d = c.id
        <4>1. KeptOf(d)' = KeptOf(d) \cup {n} /\ entries'[d] = r /\ IsEntry(d)'
          BY <1>6, <1>9, <2>2, <3>3 DEF KeptOf
        <4>2. \A h \in KeptOf(d) : h.row.revision # r.revision
          <5>1. CASE c.kind = "create"
            BY <1>12, <3>1, <3>3, <5>1
          <5>2. CASE c.kind # "create"
            <6>1. \A h \in KeptOf(d) : h.row.revision \in 0 .. entries[d].revision
              BY <1>13, <3>1, <3>3, <5>2
            <6>2. entries[d].revision \in Nat /\ r.revision = entries[d].revision + 1
              BY <1>13, <3>3, <5>2, DirectoryAssumption DEF EntryRows
            <6> QED
              BY <6>1, <6>2
          <5> QED
            BY <5>1, <5>2
        <4>3. {h.row.revision : h \in KeptOf(d) \cup {n}} = 0 .. r.revision
          <5>0. {h.row.revision : h \in KeptOf(d) \cup {n}} = {h.row.revision : h \in KeptOf(d)} \cup {r.revision}
            BY <2>2
          <5>1. CASE c.kind = "create"
            <6>1. r.revision = 0
              BY <1>4, <5>1, RowIsAfter
            <6>2. {h.row.revision : h \in KeptOf(d)} = {}
              BY <1>12, <3>1, <3>3, <5>1
            <6>3. 0 .. 0 = {0}
              OBVIOUS
            <6> QED
              BY <5>0, <6>1, <6>2, <6>3
          <5>2. CASE c.kind # "create"
            <6>1. {h.row.revision : h \in KeptOf(d)} = 0 .. entries[d].revision
              BY <1>13, <3>1, <3>3, <5>2
            <6>2. entries[d].revision \in Nat /\ r.revision = entries[d].revision + 1
              BY <1>13, <3>3, <5>2, DirectoryAssumption DEF EntryRows
            <6>3. \A k \in Nat : 0 .. (k + 1) = (0 .. k) \cup {k + 1}
              OBVIOUS
            <6> QED
              BY <5>0, <6>1, <6>2, <6>3
          <5> QED
            BY <5>1, <5>2
        <4>4. r \in {h.row : h \in KeptOf(d) \cup {n}}
          BY <2>2
        <4>5. \A g, h \in KeptOf(d) \cup {n} : g.row.revision = h.row.revision => g = h
          BY <2>2, <3>1, <4>2
        <4> QED
          BY <4>1, <4>3, <4>4, <4>5 DEF KeepsRevisions
      <3> QED
        BY <3>2, <3>3
    <2>4. OperationsAreOnce'
      <3>1. /\ \A h \in entryHistory, x \in directoryReceipts :
                 x.op = h.op /\ x.kind # "create" => h.row.revision = x.expected + 1
            /\ \A h \in entryHistory : h.op = "setup" \/ \E x \in directoryReceipts : x.op = h.op
            /\ \A g, h \in entryHistory : g.op = h.op /\ g.op # "setup" => g = h
        BY DEF DirectoryInv, HistoryIsWhole, OperationsAreOnce
      <3>2. \A h \in entryHistory : h.op # c.op
        BY <1>4, <1>5, <3>1
      <3>3. c.kind # "create" => r.revision = c.expected + 1
        BY <1>13
      <3>4. \A h \in entryHistory', x \in directoryReceipts' :
              x.op = h.op /\ x.kind # "create" => h.row.revision = x.expected + 1
        BY <1>3, <1>5, <2>2, <3>1, <3>2, <3>3
      <3>5. \A h \in entryHistory' : h.op = "setup" \/ \E x \in directoryReceipts' : x.op = h.op
        BY <1>3, <2>2, <3>1
      <3>6. \A g, h \in entryHistory' : g.op = h.op /\ g.op # "setup" => g = h
        BY <2>2, <3>1, <3>2
      <3> QED
        BY <3>4, <3>5, <3>6 DEF OperationsAreOnce
    <2> QED
      BY <2>3, <2>4 DEF HistoryIsWhole
  <1> QED
    BY <1>8, <1>14, <1>15, <1>16, <1>17, <1>18, <1>19, <1>20, <1>21 DEF DirectoryInv

LEMMA DirectoryGoesOn == DirectoryInv /\ [DirectoryNext]_directoryVars => DirectoryInv'
  <1> SUFFICES ASSUME DirectoryInv, [DirectoryNext]_directoryVars PROVE DirectoryInv'
    OBVIOUS
  <1>1. CASE UNCHANGED directoryVars
    <2>1. /\ entries' = entries /\ entryHistory' = entryHistory
          /\ directoryReceipts' = directoryReceipts /\ directoryOf' = directoryOf
      BY <1>1 DEF directoryVars
    <2>2. CASE \E q \in DirectoryRequests : directoryOf[q].step # "written"
      <3>1. PICK q \in DirectoryRequests : directoryOf[q].step # "written"
        BY <2>2
      <3>2. PICK s : s = directoryOf[q]
        OBVIOUS
      <3>3. directoryOf \in [DirectoryRequests -> DirectoryStates]
        BY DEF DirectoryInv, DirectoryTypeOK
      <3>4. directoryOf' = [directoryOf EXCEPT ![q] = s] /\ s \in DirectoryStates
        BY <2>1, <3>2, <3>3
      <3>5. s.step = "checked" => StillUnlocked(s.command)
        BY <3>2 DEF DirectoryInv, ChecksStand
      <3> QED
        BY <2>1, <3>1, <3>2, <3>4, <3>5, OnlyARequestMoves
    <2>3. CASE \A q \in DirectoryRequests : directoryOf[q].step = "written"
      <3>1. DirectoryTypeOK' /\ ChecksStand' /\ PositionsAreLeaves' /\ RootsAreLocked' /\ KeysAreApart'
        BY <2>1 DEF DirectoryInv, DirectoryTypeOK, ChecksStand, StillUnlocked, PositionsAreLeaves,
                    RootsAreLocked, KeysAreApart, SiblingsDiffer, IsEntry, Writes
      <3>2. WrittenIsNext' /\ WritesDiffer'
        BY <2>1 DEF DirectoryInv, WrittenIsNext, WritesDiffer, Writes, Walks, IsNext, RowIsThere,
                    RowAfter, IsEntry
      <3>3. LinksAreSound'
        BY <2>1 DEF DirectoryInv, LinksAreSound, Upwards, Writes, Walks
      <3>4. HistoryIsWhole'
        BY <2>1 DEF DirectoryInv, HistoryIsWhole, KeepsRevisions, KeptOf, OperationsAreOnce, IsEntry
      <3> QED
        BY <3>1, <3>2, <3>3, <3>4 DEF DirectoryInv
    <2> QED
      BY <2>2, <2>3
  <1>2. CASE DirectoryNext
    BY <1>2, DirectoryBegins, DirectoryIsChecked, DirectoryIsLeft, DirectoryIsWritten,
       DirectoryIsCommitted DEF DirectoryNext
  <1> QED
    BY <1>1, <1>2

LEMMA DirectoryMeans ==
  DirectoryInv =>
    DirectoryTypeOK /\ NothingIsBelowItself /\ SiblingsDiffer /\ RootsStay /\ RevisionsAreKept
  <1> SUFFICES ASSUME DirectoryInv
               PROVE  DirectoryTypeOK /\ NothingIsBelowItself /\ SiblingsDiffer /\ RootsStay
                        /\ RevisionsAreKept
    OBVIOUS
  <1>1. DirectoryTypeOK
    BY DEF DirectoryInv
  <1>2. NothingIsBelowItself
    <2> SUFFICES ASSUME NEW d \in Entries, IsEntry(d) PROVE d \notin Upwards(entries[d].above)
      BY DEF NothingIsBelowItself
    <2>1. <<d, entries[d].above>> \in LinksOf(entries)
      BY <1>1, EntryLinksTyped
    <2>2. <<d, entries[d].above>>[1] \notin
            Reached(EntryPlaces, LinksOf(entries), <<d, entries[d].above>>[2])
      BY <2>1 DEF DirectoryInv, LinksAreSound, IsHierarchy
    <2> QED
      BY <2>2 DEF Upwards
  <1>3. SiblingsDiffer /\ RootsStay
    BY DEF DirectoryInv, KeysAreApart, RootsAreLocked, RootsStay
  <1>4. RevisionsAreKept
    BY DEF DirectoryInv, HistoryIsWhole, KeepsRevisions, KeptOf, OperationsAreOnce, RevisionsAreKept
  <1> QED
    BY <1>1, <1>2, <1>3, <1>4

(* However the checks of administrators' commands and their writes fall    *)
(* between one another, no department is below itself, siblings differ, a  *)
(* root stays, and the history has each revision of a row once.            *)
THEOREM DirectoryIsSound ==
  DirectorySpec =>
    [](DirectoryTypeOK /\ NothingIsBelowItself /\ SiblingsDiffer /\ RootsStay /\ RevisionsAreKept)
  <1> USE DirectoryStarts, DirectoryGoesOn, DirectoryMeans
  <1> QED
    BY PTL DEF DirectorySpec

-----------------------------------------------------------------------------
(* Delivery: the outbox, the broker and the inbox together.                *)

(* pg_advisory_xact_lock: one worker at a time is inside the transaction of*)
(* a message.                                                              *)
OneHandlerPerMessage ==
  \A v, w \in Workers :
    workerAt[v] = "handling" /\ workerAt[w] = "handling" /\ copy[v].id = copy[w].id => v = w

(* While it is there the message has no receipt, and its job, whose row it *)
(* has locked, is still queued for everybody else.                         *)
HandledIsFresh ==
  \A w \in Workers :
    workerAt[w] = "handling" =>
      /\ ~ Inbox!Received(copy[w].id)
      /\ copy[w].id \in Jobs => job[copy[w].id] = "queued"

(* The ack comes after something durable.                                  *)
AckedIsSettled == \A w \in Workers : workerAt[w] = "ack" => Inbox!Settled(copy[w].id)

(* A message that nothing durable tells of is queued, or held by a worker  *)
(* that has not passed it on as a retry.                                   *)
IsQueued(m) == \E c \in Inbox!Copies : c.id = m /\ queued[c] > 0
IsHeld(m) == \E w \in Workers : workerAt[w] \notin {"idle", "retried"} /\ copy[w].id = m
CopiesAreKept == \A m \in published : Inbox!Settled(m) \/ IsQueued(m) \/ IsHeld(m)

(* A delivery that is about to be rejected, or was, has no open job.       *)
DeadJobIsClosed ==
  /\ \A m \in Jobs \cap dlq : job[m] \notin {"absent", "queued"}
  /\ \A w \in Workers : workerAt[w] = "dead" /\ copy[w].id \in Jobs
                          => job[copy[w].id] \notin {"absent", "queued"}

(* A job is given up only by way of its row.                               *)
IsolatesOnlyJobs == \A w \in Workers : workerAt[w] \in {"isolate", "isolating"} => copy[w].id \in Jobs

EffectsInv == Inbox!AtMostOneEffect /\ Inbox!EffectIsRecorded /\ OneHandlerPerMessage /\ HandledIsFresh
CopiesInv == AckedIsSettled /\ CopiesAreKept
DeadJobsInv == DeadJobIsClosed /\ IsolatesOnlyJobs

ReceivingInv == Inbox!TypeOK /\ EffectsInv /\ CopiesInv /\ DeadJobsInv

-----------------------------------------------------------------------------
USE DEF Inbox!delivery, Inbox!tables, Inbox!worker

(* What a copy is, and that no worker's lack of one is a copy.             *)
LEMMA CopyFieldsAre ==
  ASSUME NEW c \in Inbox!Copies
  PROVE  /\ c.id \in Messages /\ c.print \in Prints
         /\ c.attempt \in 1 .. DeliveryAttempts + 1
         /\ c # NoCopy
  BY DeliveryAssumption DEF Inbox!Copies

(* The copy that a retry or a publication adds is one, of the same message.*)
LEMMA RetryCopyIs ==
  ASSUME NEW w \in Workers, copy[w] \in Inbox!Copies, copy[w].attempt < DeliveryAttempts
  PROVE  /\ [copy[w] EXCEPT !.attempt = @ + 1] \in Inbox!Copies
         /\ [copy[w] EXCEPT !.attempt = @ + 1].id = copy[w].id
  BY DeliveryAssumption DEF Inbox!Copies

(* One more of a copy leaves the queue well-typed, holds that copy, and    *)
(* takes nothing away.                                                     *)
LEMMA OneMoreQueued ==
  ASSUME NEW c \in Inbox!Copies, queued \in [Inbox!Copies -> Nat], queued' = [queued EXCEPT ![c] = @ + 1]
  PROVE  /\ queued' \in [Inbox!Copies -> Nat]
         /\ queued'[c] > 0
         /\ \A d \in Inbox!Copies : queued[d] > 0 => queued'[d] > 0
  OBVIOUS

(* Every step keeps the state well-typed.                                  *)
LEMMA ReceivingTypeStep ==
  ASSUME Inbox!TypeOK, IsolatesOnlyJobs, Inbox!Next
  PROVE  Inbox!TypeOK'
<1> USE DEF Inbox!TypeOK, Inbox!Locations, Inbox!Causes, Inbox!JobStatuses, Inbox!Reasons
<1>1. ASSUME NEW m \in Jobs, Inbox!SubmitJob(m) PROVE Inbox!TypeOK'
  BY <1>1 DEF Inbox!SubmitJob
<1>2. ASSUME NEW m \in Jobs, Inbox!CancelJob(m) PROVE Inbox!TypeOK'
  BY <1>2 DEF Inbox!CancelJob
<1>3. ASSUME NEW m \in Messages, NEW f \in Prints,
             NEW n \in 1 .. DeliveryAttempts + 1, Inbox!Publish(m, f, n) PROVE Inbox!TypeOK'
  <2>1. [id |-> m, print |-> f, attempt |-> n] \in Inbox!Copies
    BY DEF Inbox!Copies
  <2>2. queued' \in [Inbox!Copies -> Nat]
    BY <1>3, <2>1, OneMoreQueued DEF Inbox!Publish
  <2>3. QED
    BY <1>3, <2>2 DEF Inbox!Publish
<1>4. ASSUME NEW w \in Workers, NEW c \in Inbox!Copies, Inbox!Receive(w, c) PROVE Inbox!TypeOK'
  BY <1>4, CopyFieldsAre DEF Inbox!Receive, Inbox!Fail, Inbox!Go
<1>5. ASSUME NEW w \in Workers, Inbox!Lookup(w) PROVE Inbox!TypeOK'
  BY <1>5, CopyFieldsAre DEF Inbox!Lookup, Inbox!Go, Inbox!Isolated
<1>6. ASSUME NEW w \in Workers, Inbox!EnterRaced(w) PROVE Inbox!TypeOK'
  BY <1>6, CopyFieldsAre DEF Inbox!EnterRaced, Inbox!Go, Inbox!Isolated
<1>7. ASSUME NEW w \in Workers, Inbox!EnterMismatch(w) PROVE Inbox!TypeOK'
  BY <1>7, CopyFieldsAre DEF Inbox!EnterMismatch, Inbox!Go, Inbox!Isolated
<1>8. ASSUME NEW w \in Workers, Inbox!EnterFinished(w) PROVE Inbox!TypeOK'
  BY <1>8, CopyFieldsAre DEF Inbox!EnterFinished, Inbox!Go, Inbox!Receipted
<1>9. ASSUME NEW w \in Workers, Inbox!EnterHandler(w) PROVE Inbox!TypeOK'
  BY <1>9 DEF Inbox!EnterHandler, Inbox!Go
<1>10. ASSUME NEW w \in Workers, Inbox!Handle(w) PROVE Inbox!TypeOK'
  BY <1>10, CopyFieldsAre DEF Inbox!Handle, Inbox!CommitHandled, Inbox!Go, Inbox!Receipted
<1>11. ASSUME NEW w \in Workers, Inbox!HandleRejected(w) PROVE Inbox!TypeOK'
  BY <1>11, CopyFieldsAre DEF Inbox!HandleRejected, Inbox!Go, Inbox!Isolated, Inbox!Receipted
<1>12. ASSUME NEW w \in Workers, Inbox!CommitReplyLost(w) PROVE Inbox!TypeOK'
  BY <1>12, CopyFieldsAre DEF Inbox!CommitReplyLost, Inbox!CommitHandled, Inbox!Fail, Inbox!Go,
     Inbox!Receipted
<1>13. ASSUME NEW w \in Workers, NEW why \in Inbox!Causes, Inbox!ConsumeFails(w, why) PROVE Inbox!TypeOK'
  BY <1>13 DEF Inbox!ConsumeFails, Inbox!Fail, Inbox!Go
<1>14. ASSUME NEW w \in Workers, Inbox!Retry(w) PROVE Inbox!TypeOK'
  <2>1. [copy[w] EXCEPT !.attempt = @ + 1] \in Inbox!Copies
    BY <1>14, RetryCopyIs DEF Inbox!Retry, Inbox!MayRetry
  <2>2. queued' \in [Inbox!Copies -> Nat]
    BY <1>14, <2>1, OneMoreQueued DEF Inbox!Retry
  <2>3. QED
    BY <1>14, <2>2 DEF Inbox!Retry, Inbox!Go
<1>15. ASSUME NEW w \in Workers, Inbox!GiveUp(w) PROVE Inbox!TypeOK'
  BY <1>15 DEF Inbox!GiveUp, Inbox!GivingUp, Inbox!Go
<1>16. ASSUME NEW w \in Workers, Inbox!FindJobToIsolate(w) PROVE Inbox!TypeOK'
  BY <1>16 DEF Inbox!FindJobToIsolate, Inbox!Go
<1>17. ASSUME NEW w \in Workers, Inbox!IsolateJob(w) PROVE Inbox!TypeOK'
  BY <1>17 DEF Inbox!IsolateJob, Inbox!Go
<1>18. ASSUME NEW w \in Workers, Inbox!DeadLetter(w) PROVE Inbox!TypeOK'
  BY <1>18, CopyFieldsAre DEF Inbox!DeadLetter, Inbox!Release, Inbox!Fail, Inbox!Go
<1>19. ASSUME NEW w \in Workers, Inbox!Ack(w) PROVE Inbox!TypeOK'
  BY <1>19 DEF Inbox!Ack, Inbox!Release, Inbox!Fail, Inbox!Go
<1>20. ASSUME NEW w \in Workers, Inbox!IsolationThrows(w) PROVE Inbox!TypeOK'
  BY <1>20 DEF Inbox!IsolationThrows, Inbox!Requeue, Inbox!Release, Inbox!Fail, Inbox!Go
<1>21. ASSUME NEW w \in Workers, Inbox!Crash(w) PROVE Inbox!TypeOK'
  BY <1>21 DEF Inbox!Crash, Inbox!Requeue, Inbox!Release, Inbox!Fail, Inbox!Go
<1>22. QED
  BY <1>1, <1>2, <1>3, <1>4, <1>5, <1>6, <1>7, <1>8, <1>9, <1>10, <1>11, <1>12, <1>13, <1>14, <1>15,
     <1>16, <1>17, <1>18, <1>19, <1>20, <1>21 DEF Inbox!Next

(* The lock keeps the handlers of a message apart.                         *)
LEMMA HandlerStep ==
  ASSUME Inbox!TypeOK, OneHandlerPerMessage, Inbox!Next
  PROVE  OneHandlerPerMessage'
<1> USE DEF Inbox!TypeOK, Inbox!Locations, OneHandlerPerMessage
<1>1. ASSUME NEW m \in Jobs, Inbox!SubmitJob(m) PROVE OneHandlerPerMessage'
  BY <1>1 DEF Inbox!SubmitJob
<1>2. ASSUME NEW m \in Jobs, Inbox!CancelJob(m) PROVE OneHandlerPerMessage'
  BY <1>2 DEF Inbox!CancelJob
<1>3. ASSUME NEW m \in Messages, NEW f \in Prints,
             NEW n \in 1 .. DeliveryAttempts + 1, Inbox!Publish(m, f, n) PROVE OneHandlerPerMessage'
  BY <1>3 DEF Inbox!Publish
<1>4. ASSUME NEW w \in Workers, NEW c \in Inbox!Copies, Inbox!Receive(w, c) PROVE OneHandlerPerMessage'
  BY <1>4 DEF Inbox!Receive, Inbox!Fail, Inbox!Go
<1>5. ASSUME NEW w \in Workers, Inbox!Lookup(w) PROVE OneHandlerPerMessage'
  BY <1>5 DEF Inbox!Lookup, Inbox!Go, Inbox!Isolated
<1>6. ASSUME NEW w \in Workers, Inbox!EnterRaced(w) PROVE OneHandlerPerMessage'
  BY <1>6 DEF Inbox!EnterRaced, Inbox!Go, Inbox!Isolated
<1>7. ASSUME NEW w \in Workers, Inbox!EnterMismatch(w) PROVE OneHandlerPerMessage'
  BY <1>7 DEF Inbox!EnterMismatch, Inbox!Go, Inbox!Isolated
<1>8. ASSUME NEW w \in Workers, Inbox!EnterFinished(w) PROVE OneHandlerPerMessage'
  BY <1>8 DEF Inbox!EnterFinished, Inbox!Go, Inbox!Receipted
<1>9. ASSUME NEW w \in Workers, Inbox!EnterHandler(w) PROVE OneHandlerPerMessage'
  BY <1>9 DEF Inbox!EnterHandler, Inbox!Go, Inbox!Unlocked
<1>10. ASSUME NEW w \in Workers, Inbox!Handle(w) PROVE OneHandlerPerMessage'
  BY <1>10 DEF Inbox!Handle, Inbox!CommitHandled, Inbox!Go, Inbox!Receipted
<1>11. ASSUME NEW w \in Workers, Inbox!HandleRejected(w) PROVE OneHandlerPerMessage'
  BY <1>11 DEF Inbox!HandleRejected, Inbox!Go, Inbox!Isolated, Inbox!Receipted
<1>12. ASSUME NEW w \in Workers, Inbox!CommitReplyLost(w) PROVE OneHandlerPerMessage'
  BY <1>12 DEF Inbox!CommitReplyLost, Inbox!CommitHandled, Inbox!Fail, Inbox!Go, Inbox!Receipted
<1>13. ASSUME NEW w \in Workers, NEW why \in Inbox!Causes, Inbox!ConsumeFails(w, why) PROVE OneHandlerPerMessage'
  BY <1>13 DEF Inbox!ConsumeFails, Inbox!Fail, Inbox!Go
<1>14. ASSUME NEW w \in Workers, Inbox!Retry(w) PROVE OneHandlerPerMessage'
  BY <1>14 DEF Inbox!Retry, Inbox!MayRetry, Inbox!Go
<1>15. ASSUME NEW w \in Workers, Inbox!GiveUp(w) PROVE OneHandlerPerMessage'
  BY <1>15 DEF Inbox!GiveUp, Inbox!GivingUp, Inbox!Go
<1>16. ASSUME NEW w \in Workers, Inbox!FindJobToIsolate(w) PROVE OneHandlerPerMessage'
  BY <1>16 DEF Inbox!FindJobToIsolate, Inbox!Go
<1>17. ASSUME NEW w \in Workers, Inbox!IsolateJob(w) PROVE OneHandlerPerMessage'
  BY <1>17 DEF Inbox!IsolateJob, Inbox!Go
<1>18. ASSUME NEW w \in Workers, Inbox!DeadLetter(w) PROVE OneHandlerPerMessage'
  BY <1>18 DEF Inbox!DeadLetter, Inbox!Release, Inbox!Fail, Inbox!Go
<1>19. ASSUME NEW w \in Workers, Inbox!Ack(w) PROVE OneHandlerPerMessage'
  BY <1>19 DEF Inbox!Ack, Inbox!Release, Inbox!Fail, Inbox!Go
<1>20. ASSUME NEW w \in Workers, Inbox!IsolationThrows(w) PROVE OneHandlerPerMessage'
  BY <1>20 DEF Inbox!IsolationThrows, Inbox!Requeue, Inbox!Release, Inbox!Fail, Inbox!Go
<1>21. ASSUME NEW w \in Workers, Inbox!Crash(w) PROVE OneHandlerPerMessage'
  BY <1>21 DEF Inbox!Crash, Inbox!Requeue, Inbox!Release, Inbox!Fail, Inbox!Go
<1>22. QED
  BY <1>1, <1>2, <1>3, <1>4, <1>5, <1>6, <1>7, <1>8, <1>9, <1>10, <1>11, <1>12, <1>13, <1>14, <1>15,
     <1>16, <1>17, <1>18, <1>19, <1>20, <1>21 DEF Inbox!Next

(* Nobody else touches the row or the receipts of a message being handled. *)
LEMMA HandledFreshStep ==
  ASSUME Inbox!TypeOK, OneHandlerPerMessage, HandledIsFresh, Inbox!Next
  PROVE  HandledIsFresh'
<1> USE DEF Inbox!TypeOK, HandledIsFresh, Inbox!Received
<1>1. ASSUME NEW m \in Jobs, Inbox!SubmitJob(m) PROVE HandledIsFresh'
  BY <1>1 DEF Inbox!SubmitJob
<1>2. ASSUME NEW m \in Jobs, Inbox!CancelJob(m) PROVE HandledIsFresh'
  BY <1>2 DEF Inbox!CancelJob, Inbox!RowLocked
<1>3. ASSUME NEW m \in Messages, NEW f \in Prints,
             NEW n \in 1 .. DeliveryAttempts + 1, Inbox!Publish(m, f, n) PROVE HandledIsFresh'
  BY <1>3 DEF Inbox!Publish
<1>4. ASSUME NEW w \in Workers, NEW c \in Inbox!Copies, Inbox!Receive(w, c) PROVE HandledIsFresh'
  BY <1>4 DEF Inbox!Receive, Inbox!Fail, Inbox!Go
<1>5. ASSUME NEW w \in Workers, Inbox!Lookup(w) PROVE HandledIsFresh'
  BY <1>5 DEF Inbox!Lookup, Inbox!Go, Inbox!Isolated
<1>6. ASSUME NEW w \in Workers, Inbox!EnterRaced(w) PROVE HandledIsFresh'
  BY <1>6 DEF Inbox!EnterRaced, Inbox!Go, Inbox!Isolated
<1>7. ASSUME NEW w \in Workers, Inbox!EnterMismatch(w) PROVE HandledIsFresh'
  BY <1>7 DEF Inbox!EnterMismatch, Inbox!Go, Inbox!Isolated
<1>8. ASSUME NEW w \in Workers, Inbox!EnterFinished(w) PROVE HandledIsFresh'
  BY <1>8 DEF Inbox!EnterFinished, Inbox!Go, Inbox!Receipted
<1>9. ASSUME NEW w \in Workers, Inbox!EnterHandler(w) PROVE HandledIsFresh'
  BY <1>9 DEF Inbox!EnterHandler, Inbox!Go
<1>10. ASSUME NEW w \in Workers, Inbox!Handle(w) PROVE HandledIsFresh'
  <2>1. \A v \in Workers : workerAt'[v] = "handling" => workerAt[v] = "handling" /\ copy[v].id # copy[w].id
    BY <1>10 DEF OneHandlerPerMessage, Inbox!Handle, Inbox!Go
  <2>2. \A v \in Workers : workerAt'[v] = "handling" => ~(Inbox!Received(copy[v].id))'
    BY <1>10, <2>1 DEF Inbox!Handle, Inbox!CommitHandled, Inbox!Receipted
  <2>3. QED
    BY <1>10, <2>1, <2>2 DEF Inbox!Handle, Inbox!CommitHandled
<1>11. ASSUME NEW w \in Workers, Inbox!HandleRejected(w) PROVE HandledIsFresh'
  <2>1. \A v \in Workers : workerAt'[v] = "handling" => workerAt[v] = "handling" /\ copy[v].id # copy[w].id
    BY <1>11 DEF OneHandlerPerMessage, Inbox!HandleRejected, Inbox!Go
  <2>2. \A v \in Workers : workerAt'[v] = "handling" => ~(Inbox!Received(copy[v].id))'
    BY <1>11, <2>1 DEF Inbox!HandleRejected, Inbox!Receipted
  <2>3. QED
    BY <1>11, <2>1, <2>2 DEF Inbox!HandleRejected
<1>12. ASSUME NEW w \in Workers, Inbox!CommitReplyLost(w) PROVE HandledIsFresh'
  <2>1. \A v \in Workers : workerAt'[v] = "handling" => workerAt[v] = "handling" /\ copy[v].id # copy[w].id
    BY <1>12 DEF OneHandlerPerMessage, Inbox!CommitReplyLost, Inbox!Fail, Inbox!Go
  <2>2. \A v \in Workers : workerAt'[v] = "handling" => ~(Inbox!Received(copy[v].id))'
    BY <1>12, <2>1 DEF Inbox!CommitReplyLost, Inbox!CommitHandled, Inbox!Receipted
  <2>3. QED
    BY <1>12, <2>1, <2>2 DEF Inbox!CommitReplyLost, Inbox!CommitHandled
<1>13. ASSUME NEW w \in Workers, NEW why \in Inbox!Causes, Inbox!ConsumeFails(w, why) PROVE HandledIsFresh'
  BY <1>13 DEF Inbox!ConsumeFails, Inbox!Fail, Inbox!Go
<1>14. ASSUME NEW w \in Workers, Inbox!Retry(w) PROVE HandledIsFresh'
  BY <1>14 DEF Inbox!Retry, Inbox!MayRetry, Inbox!Go
<1>15. ASSUME NEW w \in Workers, Inbox!GiveUp(w) PROVE HandledIsFresh'
  BY <1>15 DEF Inbox!GiveUp, Inbox!GivingUp, Inbox!Go
<1>16. ASSUME NEW w \in Workers, Inbox!FindJobToIsolate(w) PROVE HandledIsFresh'
  BY <1>16 DEF Inbox!FindJobToIsolate, Inbox!Go
<1>17. ASSUME NEW w \in Workers, Inbox!IsolateJob(w) PROVE HandledIsFresh'
  BY <1>17 DEF Inbox!IsolateJob, Inbox!Go, Inbox!RowLocked
<1>18. ASSUME NEW w \in Workers, Inbox!DeadLetter(w) PROVE HandledIsFresh'
  BY <1>18 DEF Inbox!DeadLetter, Inbox!Release, Inbox!Fail, Inbox!Go
<1>19. ASSUME NEW w \in Workers, Inbox!Ack(w) PROVE HandledIsFresh'
  BY <1>19 DEF Inbox!Ack, Inbox!Release, Inbox!Fail, Inbox!Go
<1>20. ASSUME NEW w \in Workers, Inbox!IsolationThrows(w) PROVE HandledIsFresh'
  BY <1>20 DEF Inbox!IsolationThrows, Inbox!Requeue, Inbox!Release, Inbox!Fail, Inbox!Go
<1>21. ASSUME NEW w \in Workers, Inbox!Crash(w) PROVE HandledIsFresh'
  BY <1>21 DEF Inbox!Crash, Inbox!Requeue, Inbox!Release, Inbox!Fail, Inbox!Go
<1>22. QED
  BY <1>1, <1>2, <1>3, <1>4, <1>5, <1>6, <1>7, <1>8, <1>9, <1>10, <1>11, <1>12, <1>13, <1>14, <1>15,
     <1>16, <1>17, <1>18, <1>19, <1>20, <1>21 DEF Inbox!Next

(* An effect commits only from the handling of a message without one.      *)
LEMMA EffectOnceStep ==
  ASSUME Inbox!TypeOK, EffectsInv, Inbox!Next
  PROVE  (Inbox!AtMostOneEffect /\ Inbox!EffectIsRecorded)'
<1> USE DEF Inbox!TypeOK, Inbox!JobStatuses, Inbox!AtMostOneEffect, Inbox!EffectIsRecorded, EffectsInv, Inbox!Received
<1>1. ASSUME NEW m \in Jobs, Inbox!SubmitJob(m) PROVE (Inbox!AtMostOneEffect /\ Inbox!EffectIsRecorded)'
  BY <1>1 DEF Inbox!SubmitJob
<1>2. ASSUME NEW m \in Jobs, Inbox!CancelJob(m) PROVE (Inbox!AtMostOneEffect /\ Inbox!EffectIsRecorded)'
  BY <1>2 DEF Inbox!CancelJob
<1>3. ASSUME NEW m \in Messages, NEW f \in Prints,
             NEW n \in 1 .. DeliveryAttempts + 1, Inbox!Publish(m, f, n) PROVE (Inbox!AtMostOneEffect /\ Inbox!EffectIsRecorded)'
  BY <1>3 DEF Inbox!Publish
<1>4. ASSUME NEW w \in Workers, NEW c \in Inbox!Copies, Inbox!Receive(w, c) PROVE (Inbox!AtMostOneEffect /\ Inbox!EffectIsRecorded)'
  BY <1>4 DEF Inbox!Receive, Inbox!Fail, Inbox!Go
<1>5. ASSUME NEW w \in Workers, Inbox!Lookup(w) PROVE (Inbox!AtMostOneEffect /\ Inbox!EffectIsRecorded)'
  BY <1>5 DEF Inbox!Lookup, Inbox!Go, Inbox!Isolated
<1>6. ASSUME NEW w \in Workers, Inbox!EnterRaced(w) PROVE (Inbox!AtMostOneEffect /\ Inbox!EffectIsRecorded)'
  BY <1>6 DEF Inbox!EnterRaced, Inbox!Go, Inbox!Isolated
<1>7. ASSUME NEW w \in Workers, Inbox!EnterMismatch(w) PROVE (Inbox!AtMostOneEffect /\ Inbox!EffectIsRecorded)'
  BY <1>7 DEF Inbox!EnterMismatch, Inbox!Go, Inbox!Isolated
<1>8. ASSUME NEW w \in Workers, Inbox!EnterFinished(w) PROVE (Inbox!AtMostOneEffect /\ Inbox!EffectIsRecorded)'
  BY <1>8 DEF Inbox!EnterFinished, Inbox!Go, Inbox!Receipted
<1>9. ASSUME NEW w \in Workers, Inbox!EnterHandler(w) PROVE (Inbox!AtMostOneEffect /\ Inbox!EffectIsRecorded)'
  BY <1>9 DEF Inbox!EnterHandler, Inbox!Go
<1>10. ASSUME NEW w \in Workers, Inbox!Handle(w) PROVE (Inbox!AtMostOneEffect /\ Inbox!EffectIsRecorded)'
  <2>1. copy[w].id \in Messages /\ copy[w].print \in Prints
    BY <1>10, CopyFieldsAre DEF Inbox!Handle
  <2>2. handlerEffects[copy[w].id] = 0
    <3>1. ~(handlerEffects[copy[w].id] > 0)
      BY <1>10, <2>1 DEF Inbox!Handle, HandledIsFresh
    <3>2. QED
      BY <2>1, <3>1
  <2>3. handlerEffects' = [handlerEffects EXCEPT ![copy[w].id] = 1]
    BY <1>10, <2>1, <2>2 DEF Inbox!Handle, Inbox!CommitHandled
  <2>4. \A m \in Messages : Inbox!Received(m)' <=> Inbox!Received(m) \/ m = copy[w].id
    BY <1>10, <2>1 DEF Inbox!Handle, Inbox!CommitHandled, Inbox!Receipted
  <2>5. \A m \in Jobs : job'[m] = IF m = copy[w].id THEN "completed" ELSE job[m]
    BY <1>10 DEF Inbox!Handle, Inbox!CommitHandled
  <2>6. \A m \in Messages : handlerEffects'[m] = IF m = copy[w].id THEN 1 ELSE handlerEffects[m]
    BY <2>3
  <2>7. \A m \in Messages : handlerEffects'[m] > 0 => Inbox!Received(m)'
    BY <2>4, <2>6
  <2>8. \A m \in Jobs : handlerEffects'[m] > 0 <=> job'[m] = "completed"
    BY <2>5, <2>6, DeliveryAssumption
  <2>9. QED
    BY <2>6, <2>7, <2>8
<1>11. ASSUME NEW w \in Workers, Inbox!HandleRejected(w) PROVE (Inbox!AtMostOneEffect /\ Inbox!EffectIsRecorded)'
  <2>1. job[copy[w].id] = "queued"
    BY <1>11 DEF Inbox!HandleRejected, HandledIsFresh
  <2>2. \A m \in Jobs : job'[m] = IF m = copy[w].id THEN "isolated" ELSE job[m]
    BY <1>11 DEF Inbox!HandleRejected
  <2>3. \A m \in Messages : Inbox!Received(m) => Inbox!Received(m)'
    BY <1>11 DEF Inbox!HandleRejected, Inbox!Receipted
  <2>4. QED
    BY <1>11, <2>1, <2>2, <2>3, DeliveryAssumption DEF Inbox!HandleRejected
<1>12. ASSUME NEW w \in Workers, Inbox!CommitReplyLost(w) PROVE (Inbox!AtMostOneEffect /\ Inbox!EffectIsRecorded)'
  <2>1. copy[w].id \in Messages /\ copy[w].print \in Prints
    BY <1>12, CopyFieldsAre DEF Inbox!CommitReplyLost
  <2>2. handlerEffects[copy[w].id] = 0
    <3>1. ~(handlerEffects[copy[w].id] > 0)
      BY <1>12, <2>1 DEF Inbox!CommitReplyLost, HandledIsFresh
    <3>2. QED
      BY <2>1, <3>1
  <2>3. handlerEffects' = [handlerEffects EXCEPT ![copy[w].id] = 1]
    BY <1>12, <2>1, <2>2 DEF Inbox!CommitReplyLost, Inbox!CommitHandled
  <2>4. \A m \in Messages : Inbox!Received(m)' <=> Inbox!Received(m) \/ m = copy[w].id
    BY <1>12, <2>1 DEF Inbox!CommitReplyLost, Inbox!CommitHandled, Inbox!Receipted
  <2>5. \A m \in Jobs : job'[m] = IF m = copy[w].id THEN "completed" ELSE job[m]
    BY <1>12 DEF Inbox!CommitReplyLost, Inbox!CommitHandled
  <2>6. \A m \in Messages : handlerEffects'[m] = IF m = copy[w].id THEN 1 ELSE handlerEffects[m]
    BY <2>3
  <2>7. \A m \in Messages : handlerEffects'[m] > 0 => Inbox!Received(m)'
    BY <2>4, <2>6
  <2>8. \A m \in Jobs : handlerEffects'[m] > 0 <=> job'[m] = "completed"
    BY <2>5, <2>6, DeliveryAssumption
  <2>9. QED
    BY <2>6, <2>7, <2>8
<1>13. ASSUME NEW w \in Workers, NEW why \in Inbox!Causes, Inbox!ConsumeFails(w, why) PROVE (Inbox!AtMostOneEffect /\ Inbox!EffectIsRecorded)'
  BY <1>13 DEF Inbox!ConsumeFails, Inbox!Fail, Inbox!Go
<1>14. ASSUME NEW w \in Workers, Inbox!Retry(w) PROVE (Inbox!AtMostOneEffect /\ Inbox!EffectIsRecorded)'
  BY <1>14 DEF Inbox!Retry, Inbox!MayRetry, Inbox!Go
<1>15. ASSUME NEW w \in Workers, Inbox!GiveUp(w) PROVE (Inbox!AtMostOneEffect /\ Inbox!EffectIsRecorded)'
  BY <1>15 DEF Inbox!GiveUp, Inbox!GivingUp, Inbox!Go
<1>16. ASSUME NEW w \in Workers, Inbox!FindJobToIsolate(w) PROVE (Inbox!AtMostOneEffect /\ Inbox!EffectIsRecorded)'
  BY <1>16 DEF Inbox!FindJobToIsolate, Inbox!Go
<1>17. ASSUME NEW w \in Workers, Inbox!IsolateJob(w) PROVE (Inbox!AtMostOneEffect /\ Inbox!EffectIsRecorded)'
  BY <1>17 DEF Inbox!IsolateJob, Inbox!Go
<1>18. ASSUME NEW w \in Workers, Inbox!DeadLetter(w) PROVE (Inbox!AtMostOneEffect /\ Inbox!EffectIsRecorded)'
  BY <1>18 DEF Inbox!DeadLetter, Inbox!Release, Inbox!Fail, Inbox!Go
<1>19. ASSUME NEW w \in Workers, Inbox!Ack(w) PROVE (Inbox!AtMostOneEffect /\ Inbox!EffectIsRecorded)'
  BY <1>19 DEF Inbox!Ack, Inbox!Release, Inbox!Fail, Inbox!Go
<1>20. ASSUME NEW w \in Workers, Inbox!IsolationThrows(w) PROVE (Inbox!AtMostOneEffect /\ Inbox!EffectIsRecorded)'
  BY <1>20 DEF Inbox!IsolationThrows, Inbox!Requeue, Inbox!Release, Inbox!Fail, Inbox!Go
<1>21. ASSUME NEW w \in Workers, Inbox!Crash(w) PROVE (Inbox!AtMostOneEffect /\ Inbox!EffectIsRecorded)'
  BY <1>21 DEF Inbox!Crash, Inbox!Requeue, Inbox!Release, Inbox!Fail, Inbox!Go
<1>22. QED
  BY <1>1, <1>2, <1>3, <1>4, <1>5, <1>6, <1>7, <1>8, <1>9, <1>10, <1>11, <1>12, <1>13, <1>14, <1>15,
     <1>16, <1>17, <1>18, <1>19, <1>20, <1>21 DEF Inbox!Next

(* What is durably recorded of messages is never taken back.               *)
LEMMA ReceivedStaysStep ==
  ASSUME Inbox!Next
  PROVE  inboxReceipts \subseteq inboxReceipts' /\ isolations \subseteq isolations' /\ dlq \subseteq dlq'
<1>1. ASSUME NEW m \in Jobs, Inbox!SubmitJob(m) PROVE inboxReceipts \subseteq inboxReceipts' /\ isolations \subseteq isolations' /\ dlq \subseteq dlq'
  BY <1>1 DEF Inbox!SubmitJob
<1>2. ASSUME NEW m \in Jobs, Inbox!CancelJob(m) PROVE inboxReceipts \subseteq inboxReceipts' /\ isolations \subseteq isolations' /\ dlq \subseteq dlq'
  BY <1>2 DEF Inbox!CancelJob
<1>3. ASSUME NEW m \in Messages, NEW f \in Prints,
             NEW n \in 1 .. DeliveryAttempts + 1, Inbox!Publish(m, f, n) PROVE inboxReceipts \subseteq inboxReceipts' /\ isolations \subseteq isolations' /\ dlq \subseteq dlq'
  BY <1>3 DEF Inbox!Publish
<1>4. ASSUME NEW w \in Workers, NEW c \in Inbox!Copies, Inbox!Receive(w, c) PROVE inboxReceipts \subseteq inboxReceipts' /\ isolations \subseteq isolations' /\ dlq \subseteq dlq'
  BY <1>4 DEF Inbox!Receive, Inbox!Fail, Inbox!Go
<1>5. ASSUME NEW w \in Workers, Inbox!Lookup(w) PROVE inboxReceipts \subseteq inboxReceipts' /\ isolations \subseteq isolations' /\ dlq \subseteq dlq'
  BY <1>5 DEF Inbox!Lookup, Inbox!Go, Inbox!Isolated
<1>6. ASSUME NEW w \in Workers, Inbox!EnterRaced(w) PROVE inboxReceipts \subseteq inboxReceipts' /\ isolations \subseteq isolations' /\ dlq \subseteq dlq'
  BY <1>6 DEF Inbox!EnterRaced, Inbox!Go, Inbox!Isolated
<1>7. ASSUME NEW w \in Workers, Inbox!EnterMismatch(w) PROVE inboxReceipts \subseteq inboxReceipts' /\ isolations \subseteq isolations' /\ dlq \subseteq dlq'
  BY <1>7 DEF Inbox!EnterMismatch, Inbox!Go, Inbox!Isolated
<1>8. ASSUME NEW w \in Workers, Inbox!EnterFinished(w) PROVE inboxReceipts \subseteq inboxReceipts' /\ isolations \subseteq isolations' /\ dlq \subseteq dlq'
  BY <1>8 DEF Inbox!EnterFinished, Inbox!Go, Inbox!Receipted
<1>9. ASSUME NEW w \in Workers, Inbox!EnterHandler(w) PROVE inboxReceipts \subseteq inboxReceipts' /\ isolations \subseteq isolations' /\ dlq \subseteq dlq'
  BY <1>9 DEF Inbox!EnterHandler, Inbox!Go
<1>10. ASSUME NEW w \in Workers, Inbox!Handle(w) PROVE inboxReceipts \subseteq inboxReceipts' /\ isolations \subseteq isolations' /\ dlq \subseteq dlq'
  BY <1>10 DEF Inbox!Handle, Inbox!CommitHandled, Inbox!Go, Inbox!Receipted
<1>11. ASSUME NEW w \in Workers, Inbox!HandleRejected(w) PROVE inboxReceipts \subseteq inboxReceipts' /\ isolations \subseteq isolations' /\ dlq \subseteq dlq'
  BY <1>11 DEF Inbox!HandleRejected, Inbox!Go, Inbox!Isolated, Inbox!Receipted
<1>12. ASSUME NEW w \in Workers, Inbox!CommitReplyLost(w) PROVE inboxReceipts \subseteq inboxReceipts' /\ isolations \subseteq isolations' /\ dlq \subseteq dlq'
  BY <1>12 DEF Inbox!CommitReplyLost, Inbox!CommitHandled, Inbox!Fail, Inbox!Go, Inbox!Receipted
<1>13. ASSUME NEW w \in Workers, NEW why \in Inbox!Causes, Inbox!ConsumeFails(w, why) PROVE inboxReceipts \subseteq inboxReceipts' /\ isolations \subseteq isolations' /\ dlq \subseteq dlq'
  BY <1>13 DEF Inbox!ConsumeFails, Inbox!Fail, Inbox!Go
<1>14. ASSUME NEW w \in Workers, Inbox!Retry(w) PROVE inboxReceipts \subseteq inboxReceipts' /\ isolations \subseteq isolations' /\ dlq \subseteq dlq'
  BY <1>14 DEF Inbox!Retry, Inbox!MayRetry, Inbox!Go
<1>15. ASSUME NEW w \in Workers, Inbox!GiveUp(w) PROVE inboxReceipts \subseteq inboxReceipts' /\ isolations \subseteq isolations' /\ dlq \subseteq dlq'
  BY <1>15 DEF Inbox!GiveUp, Inbox!GivingUp, Inbox!Go
<1>16. ASSUME NEW w \in Workers, Inbox!FindJobToIsolate(w) PROVE inboxReceipts \subseteq inboxReceipts' /\ isolations \subseteq isolations' /\ dlq \subseteq dlq'
  BY <1>16 DEF Inbox!FindJobToIsolate, Inbox!Go
<1>17. ASSUME NEW w \in Workers, Inbox!IsolateJob(w) PROVE inboxReceipts \subseteq inboxReceipts' /\ isolations \subseteq isolations' /\ dlq \subseteq dlq'
  BY <1>17 DEF Inbox!IsolateJob, Inbox!Go
<1>18. ASSUME NEW w \in Workers, Inbox!DeadLetter(w) PROVE inboxReceipts \subseteq inboxReceipts' /\ isolations \subseteq isolations' /\ dlq \subseteq dlq'
  BY <1>18 DEF Inbox!DeadLetter, Inbox!Release, Inbox!Fail, Inbox!Go
<1>19. ASSUME NEW w \in Workers, Inbox!Ack(w) PROVE inboxReceipts \subseteq inboxReceipts' /\ isolations \subseteq isolations' /\ dlq \subseteq dlq'
  BY <1>19 DEF Inbox!Ack, Inbox!Release, Inbox!Fail, Inbox!Go
<1>20. ASSUME NEW w \in Workers, Inbox!IsolationThrows(w) PROVE inboxReceipts \subseteq inboxReceipts' /\ isolations \subseteq isolations' /\ dlq \subseteq dlq'
  BY <1>20 DEF Inbox!IsolationThrows, Inbox!Requeue, Inbox!Release, Inbox!Fail, Inbox!Go
<1>21. ASSUME NEW w \in Workers, Inbox!Crash(w) PROVE inboxReceipts \subseteq inboxReceipts' /\ isolations \subseteq isolations' /\ dlq \subseteq dlq'
  BY <1>21 DEF Inbox!Crash, Inbox!Requeue, Inbox!Release, Inbox!Fail, Inbox!Go
<1>22. QED
  BY <1>1, <1>2, <1>3, <1>4, <1>5, <1>6, <1>7, <1>8, <1>9, <1>10, <1>11, <1>12, <1>13, <1>14, <1>15,
     <1>16, <1>17, <1>18, <1>19, <1>20, <1>21 DEF Inbox!Next

(* A settled message stays settled.                                        *)
LEMMA SettledRemains ==
  ASSUME Inbox!Next, NEW m, Inbox!Settled(m)
  PROVE  Inbox!Settled(m)'
  BY ReceivedStaysStep DEF Inbox!Settled, Inbox!Received

(* A worker comes to ack after it has recorded or found the message's end. *)
LEMMA AckedStep ==
  ASSUME Inbox!TypeOK, AckedIsSettled, Inbox!Next
  PROVE  AckedIsSettled'
<1> USE DEF Inbox!TypeOK, Inbox!Locations, AckedIsSettled
<1>1. ASSUME NEW m \in Jobs, Inbox!SubmitJob(m) PROVE AckedIsSettled'
  BY <1>1, SettledRemains DEF Inbox!SubmitJob
<1>2. ASSUME NEW m \in Jobs, Inbox!CancelJob(m) PROVE AckedIsSettled'
  BY <1>2, SettledRemains DEF Inbox!CancelJob
<1>3. ASSUME NEW m \in Messages, NEW f \in Prints,
             NEW n \in 1 .. DeliveryAttempts + 1, Inbox!Publish(m, f, n) PROVE AckedIsSettled'
  BY <1>3, SettledRemains DEF Inbox!Publish
<1>4. ASSUME NEW w \in Workers, NEW c \in Inbox!Copies, Inbox!Receive(w, c) PROVE AckedIsSettled'
  BY <1>4, SettledRemains DEF Inbox!Receive, Inbox!Fail, Inbox!Go
<1>5. ASSUME NEW w \in Workers, Inbox!Lookup(w) PROVE AckedIsSettled'
  <2>1. copy[w].id \in Messages /\ copy[w].print \in Prints
    BY <1>5, CopyFieldsAre DEF Inbox!Lookup
  <2>2. workerAt'[w] = "ack" => Inbox!Settled(copy[w].id)'
    BY <1>5, <2>1 DEF Inbox!Lookup, Inbox!Go, Inbox!Isolated, Inbox!Settled, Inbox!Received,
       Inbox!Reasons, Inbox!Duplicate
  <2>3. QED
    BY <1>5, <2>2, SettledRemains DEF Inbox!Lookup, Inbox!Go
<1>6. ASSUME NEW w \in Workers, Inbox!EnterRaced(w) PROVE AckedIsSettled'
  <2>1. copy[w].id \in Messages /\ copy[w].print \in Prints
    BY <1>6, CopyFieldsAre DEF Inbox!EnterRaced
  <2>2. Inbox!Settled(copy[w].id)'
    BY <1>6, <2>1 DEF Inbox!EnterRaced, Inbox!Isolated, Inbox!Settled, Inbox!Received,
       Inbox!Reasons, Inbox!Duplicate
  <2>3. QED
    BY <1>6, <2>2, SettledRemains DEF Inbox!EnterRaced, Inbox!Go
<1>7. ASSUME NEW w \in Workers, Inbox!EnterMismatch(w) PROVE AckedIsSettled'
  <2>1. copy[w].id \in Messages /\ copy[w].print \in Prints
    BY <1>7, CopyFieldsAre DEF Inbox!EnterMismatch
  <2>2. Inbox!Settled(copy[w].id)'
    BY <1>7, <2>1 DEF Inbox!EnterMismatch, Inbox!Isolated, Inbox!Settled, Inbox!Received,
       Inbox!Reasons
  <2>3. QED
    BY <1>7, <2>2, SettledRemains DEF Inbox!EnterMismatch, Inbox!Go
<1>8. ASSUME NEW w \in Workers, Inbox!EnterFinished(w) PROVE AckedIsSettled'
  <2>1. copy[w].id \in Messages /\ copy[w].print \in Prints
    BY <1>8, CopyFieldsAre DEF Inbox!EnterFinished
  <2>2. Inbox!Settled(copy[w].id)'
    BY <1>8, <2>1 DEF Inbox!EnterFinished, Inbox!Receipted, Inbox!Settled, Inbox!Received,
       Inbox!Reasons
  <2>3. QED
    BY <1>8, <2>2, SettledRemains DEF Inbox!EnterFinished, Inbox!Go
<1>9. ASSUME NEW w \in Workers, Inbox!EnterHandler(w) PROVE AckedIsSettled'
  BY <1>9, SettledRemains DEF Inbox!EnterHandler, Inbox!Go
<1>10. ASSUME NEW w \in Workers, Inbox!Handle(w) PROVE AckedIsSettled'
  <2>1. copy[w].id \in Messages /\ copy[w].print \in Prints
    BY <1>10, CopyFieldsAre DEF Inbox!Handle
  <2>2. Inbox!Settled(copy[w].id)'
    BY <1>10, <2>1 DEF Inbox!Handle, Inbox!CommitHandled, Inbox!Receipted, Inbox!Settled,
       Inbox!Received, Inbox!Reasons
  <2>3. QED
    BY <1>10, <2>2, SettledRemains DEF Inbox!Handle, Inbox!Go
<1>11. ASSUME NEW w \in Workers, Inbox!HandleRejected(w) PROVE AckedIsSettled'
  <2>1. copy[w].id \in Messages /\ copy[w].print \in Prints
    BY <1>11, CopyFieldsAre DEF Inbox!HandleRejected
  <2>2. Inbox!Settled(copy[w].id)'
    BY <1>11, <2>1 DEF Inbox!HandleRejected, Inbox!Isolated, Inbox!Receipted, Inbox!Settled,
       Inbox!Received, Inbox!Reasons
  <2>3. QED
    BY <1>11, <2>2, SettledRemains DEF Inbox!HandleRejected, Inbox!Go
<1>12. ASSUME NEW w \in Workers, Inbox!CommitReplyLost(w) PROVE AckedIsSettled'
  BY <1>12, SettledRemains DEF Inbox!CommitReplyLost, Inbox!CommitHandled, Inbox!Fail, Inbox!Go,
     Inbox!Receipted
<1>13. ASSUME NEW w \in Workers, NEW why \in Inbox!Causes, Inbox!ConsumeFails(w, why) PROVE AckedIsSettled'
  BY <1>13, SettledRemains DEF Inbox!ConsumeFails, Inbox!Fail, Inbox!Go
<1>14. ASSUME NEW w \in Workers, Inbox!Retry(w) PROVE AckedIsSettled'
  BY <1>14, SettledRemains DEF Inbox!Retry, Inbox!MayRetry, Inbox!Go
<1>15. ASSUME NEW w \in Workers, Inbox!GiveUp(w) PROVE AckedIsSettled'
  BY <1>15, SettledRemains DEF Inbox!GiveUp, Inbox!GivingUp, Inbox!Go
<1>16. ASSUME NEW w \in Workers, Inbox!FindJobToIsolate(w) PROVE AckedIsSettled'
  BY <1>16, SettledRemains DEF Inbox!FindJobToIsolate, Inbox!Go
<1>17. ASSUME NEW w \in Workers, Inbox!IsolateJob(w) PROVE AckedIsSettled'
  BY <1>17, SettledRemains DEF Inbox!IsolateJob, Inbox!Go
<1>18. ASSUME NEW w \in Workers, Inbox!DeadLetter(w) PROVE AckedIsSettled'
  BY <1>18, SettledRemains DEF Inbox!DeadLetter, Inbox!Release, Inbox!Fail, Inbox!Go
<1>19. ASSUME NEW w \in Workers, Inbox!Ack(w) PROVE AckedIsSettled'
  BY <1>19, SettledRemains DEF Inbox!Ack, Inbox!Release, Inbox!Fail, Inbox!Go
<1>20. ASSUME NEW w \in Workers, Inbox!IsolationThrows(w) PROVE AckedIsSettled'
  BY <1>20, SettledRemains DEF Inbox!IsolationThrows, Inbox!Requeue, Inbox!Release, Inbox!Fail,
     Inbox!Go
<1>21. ASSUME NEW w \in Workers, Inbox!Crash(w) PROVE AckedIsSettled'
  BY <1>21, SettledRemains DEF Inbox!Crash, Inbox!Requeue, Inbox!Release, Inbox!Fail, Inbox!Go
<1>22. QED
  BY <1>1, <1>2, <1>3, <1>4, <1>5, <1>6, <1>7, <1>8, <1>9, <1>10, <1>11, <1>12, <1>13, <1>14, <1>15,
     <1>16, <1>17, <1>18, <1>19, <1>20, <1>21 DEF Inbox!Next

(* What leaves the queue is held, what is let go is queued or settled.     *)
LEMMA CopiesKeptStep ==
  ASSUME Inbox!TypeOK, AckedIsSettled, CopiesAreKept, Inbox!Next
  PROVE  CopiesAreKept'
<1> USE DEF Inbox!TypeOK, CopiesAreKept, IsQueued, IsHeld
<1>1. ASSUME NEW m \in Jobs, Inbox!SubmitJob(m) PROVE CopiesAreKept'
  BY <1>1, SettledRemains DEF Inbox!SubmitJob
<1>2. ASSUME NEW m \in Jobs, Inbox!CancelJob(m) PROVE CopiesAreKept'
  BY <1>2, SettledRemains DEF Inbox!CancelJob
<1>3. ASSUME NEW m \in Messages, NEW f \in Prints,
             NEW n \in 1 .. DeliveryAttempts + 1, Inbox!Publish(m, f, n) PROVE CopiesAreKept'
  <2> DEFINE c == [id |-> m, print |-> f, attempt |-> n]
  <2>1. c \in Inbox!Copies /\ c.id = m
    BY DEF Inbox!Copies
  <2>2. IsQueued(m)'
    BY <1>3, <2>1, OneMoreQueued DEF Inbox!Publish
  <2>3. QED
    BY <1>3, <2>1, <2>2, OneMoreQueued, SettledRemains DEF Inbox!Publish
<1>4. ASSUME NEW w \in Workers, NEW c \in Inbox!Copies, Inbox!Receive(w, c) PROVE CopiesAreKept'
  BY <1>4, SettledRemains DEF Inbox!Receive, Inbox!Fail, Inbox!Go
<1>5. ASSUME NEW w \in Workers, Inbox!Lookup(w) PROVE CopiesAreKept'
  BY <1>5, SettledRemains DEF Inbox!Lookup, Inbox!Go, Inbox!Isolated
<1>6. ASSUME NEW w \in Workers, Inbox!EnterRaced(w) PROVE CopiesAreKept'
  BY <1>6, SettledRemains DEF Inbox!EnterRaced, Inbox!Go, Inbox!Isolated
<1>7. ASSUME NEW w \in Workers, Inbox!EnterMismatch(w) PROVE CopiesAreKept'
  BY <1>7, SettledRemains DEF Inbox!EnterMismatch, Inbox!Go, Inbox!Isolated
<1>8. ASSUME NEW w \in Workers, Inbox!EnterFinished(w) PROVE CopiesAreKept'
  BY <1>8, SettledRemains DEF Inbox!EnterFinished, Inbox!Go, Inbox!Receipted
<1>9. ASSUME NEW w \in Workers, Inbox!EnterHandler(w) PROVE CopiesAreKept'
  BY <1>9, SettledRemains DEF Inbox!EnterHandler, Inbox!Go
<1>10. ASSUME NEW w \in Workers, Inbox!Handle(w) PROVE CopiesAreKept'
  BY <1>10, SettledRemains DEF Inbox!Handle, Inbox!CommitHandled, Inbox!Go, Inbox!Receipted
<1>11. ASSUME NEW w \in Workers, Inbox!HandleRejected(w) PROVE CopiesAreKept'
  BY <1>11, SettledRemains DEF Inbox!HandleRejected, Inbox!Go, Inbox!Isolated, Inbox!Receipted
<1>12. ASSUME NEW w \in Workers, Inbox!CommitReplyLost(w) PROVE CopiesAreKept'
  BY <1>12, SettledRemains DEF Inbox!CommitReplyLost, Inbox!CommitHandled, Inbox!Fail, Inbox!Go,
     Inbox!Receipted
<1>13. ASSUME NEW w \in Workers, NEW why \in Inbox!Causes, Inbox!ConsumeFails(w, why) PROVE CopiesAreKept'
  BY <1>13, SettledRemains DEF Inbox!ConsumeFails, Inbox!Fail, Inbox!Go
<1>14. ASSUME NEW w \in Workers, Inbox!Retry(w) PROVE CopiesAreKept'
  <2> DEFINE c == [copy[w] EXCEPT !.attempt = @ + 1]
  <2>1. c \in Inbox!Copies /\ c.id = copy[w].id
    BY <1>14, RetryCopyIs DEF Inbox!Retry, Inbox!MayRetry
  <2>2. IsQueued(copy[w].id)'
    BY <1>14, <2>1, OneMoreQueued DEF Inbox!Retry
  <2>3. QED
    BY <1>14, <2>1, <2>2, OneMoreQueued, SettledRemains DEF Inbox!Retry, Inbox!Go
<1>15. ASSUME NEW w \in Workers, Inbox!GiveUp(w) PROVE CopiesAreKept'
  BY <1>15, SettledRemains DEF Inbox!GiveUp, Inbox!GivingUp, Inbox!Go
<1>16. ASSUME NEW w \in Workers, Inbox!FindJobToIsolate(w) PROVE CopiesAreKept'
  BY <1>16, SettledRemains DEF Inbox!FindJobToIsolate, Inbox!Go
<1>17. ASSUME NEW w \in Workers, Inbox!IsolateJob(w) PROVE CopiesAreKept'
  BY <1>17, SettledRemains DEF Inbox!IsolateJob, Inbox!Go
<1>18. ASSUME NEW w \in Workers, Inbox!DeadLetter(w) PROVE CopiesAreKept'
  <2>1. ASSUME NEW m, m = copy[w].id PROVE Inbox!Settled(m)'
    BY <1>18, <2>1 DEF Inbox!DeadLetter, Inbox!Settled
  <2>2. QED
    BY <1>18, <2>1, SettledRemains DEF Inbox!DeadLetter, Inbox!Release, Inbox!Fail, Inbox!Go
<1>19. ASSUME NEW w \in Workers, Inbox!Ack(w) PROVE CopiesAreKept'
  <2>1. ASSUME NEW m, m = copy[w].id, workerAt[w] = "ack" PROVE Inbox!Settled(m)'
    BY <2>1, SettledRemains DEF AckedIsSettled
  <2>2. QED
    BY <1>19, <2>1, SettledRemains DEF Inbox!Ack, Inbox!Release, Inbox!Fail, Inbox!Go
<1>20. ASSUME NEW w \in Workers, Inbox!IsolationThrows(w) PROVE CopiesAreKept'
  BY <1>20, SettledRemains DEF Inbox!IsolationThrows, Inbox!Requeue, Inbox!Release, Inbox!Fail,
     Inbox!Go
<1>21. ASSUME NEW w \in Workers, Inbox!Crash(w) PROVE CopiesAreKept'
  BY <1>21, SettledRemains DEF Inbox!Crash, Inbox!Requeue, Inbox!Release, Inbox!Fail, Inbox!Go
<1>22. QED
  BY <1>1, <1>2, <1>3, <1>4, <1>5, <1>6, <1>7, <1>8, <1>9, <1>10, <1>11, <1>12, <1>13, <1>14, <1>15,
     <1>16, <1>17, <1>18, <1>19, <1>20, <1>21 DEF Inbox!Next

(* The row is closed before the delivery is rejected.                      *)
LEMMA DeadJobsStep ==
  ASSUME Inbox!TypeOK, DeadJobsInv, HandledIsFresh, Inbox!Next
  PROVE  DeadJobsInv'
<1> USE DEF Inbox!TypeOK, Inbox!Locations, DeadJobsInv, DeadJobIsClosed, IsolatesOnlyJobs
<1>1. ASSUME NEW m \in Jobs, Inbox!SubmitJob(m) PROVE DeadJobsInv'
  BY <1>1 DEF Inbox!SubmitJob
<1>2. ASSUME NEW m \in Jobs, Inbox!CancelJob(m) PROVE DeadJobsInv'
  BY <1>2 DEF Inbox!CancelJob
<1>3. ASSUME NEW m \in Messages, NEW f \in Prints,
             NEW n \in 1 .. DeliveryAttempts + 1, Inbox!Publish(m, f, n) PROVE DeadJobsInv'
  BY <1>3 DEF Inbox!Publish
<1>4. ASSUME NEW w \in Workers, NEW c \in Inbox!Copies, Inbox!Receive(w, c) PROVE DeadJobsInv'
  BY <1>4 DEF Inbox!Receive, Inbox!Fail, Inbox!Go
<1>5. ASSUME NEW w \in Workers, Inbox!Lookup(w) PROVE DeadJobsInv'
  BY <1>5 DEF Inbox!Lookup, Inbox!Go, Inbox!Isolated
<1>6. ASSUME NEW w \in Workers, Inbox!EnterRaced(w) PROVE DeadJobsInv'
  BY <1>6 DEF Inbox!EnterRaced, Inbox!Go, Inbox!Isolated
<1>7. ASSUME NEW w \in Workers, Inbox!EnterMismatch(w) PROVE DeadJobsInv'
  BY <1>7 DEF Inbox!EnterMismatch, Inbox!Go, Inbox!Isolated
<1>8. ASSUME NEW w \in Workers, Inbox!EnterFinished(w) PROVE DeadJobsInv'
  BY <1>8 DEF Inbox!EnterFinished, Inbox!Go, Inbox!Receipted
<1>9. ASSUME NEW w \in Workers, Inbox!EnterHandler(w) PROVE DeadJobsInv'
  BY <1>9 DEF Inbox!EnterHandler, Inbox!Go
<1>10. ASSUME NEW w \in Workers, Inbox!Handle(w) PROVE DeadJobsInv'
  BY <1>10 DEF Inbox!Handle, Inbox!CommitHandled, Inbox!Go, Inbox!Receipted
<1>11. ASSUME NEW w \in Workers, Inbox!HandleRejected(w) PROVE DeadJobsInv'
  BY <1>11 DEF Inbox!HandleRejected, Inbox!Go, Inbox!Isolated, Inbox!Receipted
<1>12. ASSUME NEW w \in Workers, Inbox!CommitReplyLost(w) PROVE DeadJobsInv'
  BY <1>12 DEF Inbox!CommitReplyLost, Inbox!CommitHandled, Inbox!Fail, Inbox!Go, Inbox!Receipted
<1>13. ASSUME NEW w \in Workers, NEW why \in Inbox!Causes, Inbox!ConsumeFails(w, why) PROVE DeadJobsInv'
  BY <1>13 DEF Inbox!ConsumeFails, Inbox!Fail, Inbox!Go
<1>14. ASSUME NEW w \in Workers, Inbox!Retry(w) PROVE DeadJobsInv'
  BY <1>14 DEF Inbox!Retry, Inbox!MayRetry, Inbox!Go
<1>15. ASSUME NEW w \in Workers, Inbox!GiveUp(w) PROVE DeadJobsInv'
  BY <1>15 DEF Inbox!GiveUp, Inbox!GivingUp, Inbox!Go
<1>16. ASSUME NEW w \in Workers, Inbox!FindJobToIsolate(w) PROVE DeadJobsInv'
  BY <1>16 DEF Inbox!FindJobToIsolate, Inbox!Go
<1>17. ASSUME NEW w \in Workers, Inbox!IsolateJob(w) PROVE DeadJobsInv'
  BY <1>17 DEF Inbox!IsolateJob, Inbox!Go
<1>18. ASSUME NEW w \in Workers, Inbox!DeadLetter(w) PROVE DeadJobsInv'
  BY <1>18 DEF Inbox!DeadLetter, Inbox!Release, Inbox!Fail, Inbox!Go
<1>19. ASSUME NEW w \in Workers, Inbox!Ack(w) PROVE DeadJobsInv'
  BY <1>19 DEF Inbox!Ack, Inbox!Release, Inbox!Fail, Inbox!Go
<1>20. ASSUME NEW w \in Workers, Inbox!IsolationThrows(w) PROVE DeadJobsInv'
  BY <1>20 DEF Inbox!IsolationThrows, Inbox!Requeue, Inbox!Release, Inbox!Fail, Inbox!Go
<1>21. ASSUME NEW w \in Workers, Inbox!Crash(w) PROVE DeadJobsInv'
  BY <1>21 DEF Inbox!Crash, Inbox!Requeue, Inbox!Release, Inbox!Fail, Inbox!Go
<1>22. QED
  BY <1>1, <1>2, <1>3, <1>4, <1>5, <1>6, <1>7, <1>8, <1>9, <1>10, <1>11, <1>12, <1>13, <1>14, <1>15,
     <1>16, <1>17, <1>18, <1>19, <1>20, <1>21 DEF Inbox!Next

-----------------------------------------------------------------------------
(* Nothing is published yet, and nobody works.                             *)
LEMMA ReceivingStarts == Inbox!Init => ReceivingInv
  BY DEF Inbox!Init, ReceivingInv, Inbox!TypeOK, Inbox!Locations, Inbox!Causes, Inbox!JobStatuses,
     EffectsInv, CopiesInv, DeadJobsInv,
         Inbox!AtMostOneEffect, Inbox!EffectIsRecorded, Inbox!Received, OneHandlerPerMessage, HandledIsFresh,
         AckedIsSettled, CopiesAreKept, DeadJobIsClosed, IsolatesOnlyJobs

(* The invariant speaks of the variables only.                             *)
LEMMA ReceivingStutters == ReceivingInv /\ UNCHANGED Inbox!vars => ReceivingInv'
<1>1. SUFFICES ASSUME ReceivingInv, UNCHANGED Inbox!vars PROVE ReceivingInv'
  OBVIOUS
<1>2. Inbox!TypeOK'
  BY <1>1 DEF ReceivingInv, Inbox!TypeOK, Inbox!vars
<1>3. EffectsInv'
  BY <1>1 DEF ReceivingInv, EffectsInv, Inbox!AtMostOneEffect, Inbox!EffectIsRecorded,
     Inbox!Received, OneHandlerPerMessage,
              HandledIsFresh, Inbox!vars
<1>4. CopiesInv'
  BY <1>1 DEF ReceivingInv, CopiesInv, AckedIsSettled, Inbox!Settled, Inbox!Received, CopiesAreKept,
     IsQueued, IsHeld, Inbox!vars
<1>5. DeadJobsInv'
  BY <1>1 DEF ReceivingInv, DeadJobsInv, DeadJobIsClosed, IsolatesOnlyJobs, Inbox!vars
<1>6. QED
  BY <1>2, <1>3, <1>4, <1>5 DEF ReceivingInv

HIDE DEF Inbox!delivery, Inbox!tables, Inbox!worker

(* Two publishers never hold the same token for a message.                 *)
TokensDiffer ==
  \A m \in Messages : \A p, q \in Senders :
    claim[p][m].token # NoToken /\ claim[p][m].token = claim[q][m].token => p = q

(* A publisher about to record a publication has the confirm of it.        *)
RecordsOnlyConfirmed ==
  \A p \in Senders : publisherAt[p] = "markPublished" => sending[p] \in confirmed

(* A live claim and the row agree on the attempt.                          *)
LiveClaimsAttempt ==
  \A p \in Senders : \A m \in Messages :
    Outbox!Live(p, m) => claim[p][m].attempt = row[m].attempt

(* Claims are made of committed rows, and confirms of stored copies.       *)
ClaimedIsCommitted ==
  \A p \in Senders : \A m \in Messages :
    claim[p][m].token # NoToken => row[m].status # "absent"

(* A claim counts at least the attempt it was made for.                    *)
ClaimsCount ==
  \A p \in Senders : \A m \in Messages :
    claim[p][m].token # NoToken => claim[p][m].attempt > 0

ConfirmedIsAtBroker == confirmed \subseteq broker

SendingInv == /\ Outbox!TypeOK
        /\ TokensDiffer
        /\ RecordsOnlyConfirmed
        /\ LiveClaimsAttempt
        /\ ClaimsCount
        /\ ClaimedIsCommitted
        /\ ConfirmedIsAtBroker
        /\ Outbox!PublishedIsConfirmed
        /\ Outbox!IsolatedIsExhausted

-----------------------------------------------------------------------------
USE DeliveryAssumption

(* The attempt a claim gives a row is positive and within the budget.      *)
LEMMA NextAttemptIs ==
  ASSUME Outbox!TypeOK, NEW m \in Messages
  PROVE  Outbox!NextAttempt(m) \in 1 .. PublishAttempts
  BY DEF Outbox!TypeOK, Outbox!Rows, Outbox!NextAttempt

(* Whatever a step writes to one row, the table stays well-typed if that   *)
(* row does; the same for one publisher's claims.                          *)
LEMMA RowIsPut ==
  ASSUME row \in [Messages -> Outbox!Rows], NEW m \in Messages, NEW r \in Outbox!Rows
  PROVE  [row EXCEPT ![m] = r] \in [Messages -> Outbox!Rows]
  OBVIOUS

(* The same facts of TypeOK, one row and one claim at a time.              *)
LEMMA RowTypes ==
  ASSUME Outbox!TypeOK
  PROVE  /\ \A m \in Messages : row[m] \in Outbox!Rows
         /\ \A p \in Senders, m \in Messages : claim[p][m] \in Outbox!Claims
  BY DEF Outbox!TypeOK

(* The rows that markOutboxPublished and markOutboxFailure write: the delay*)
(* is defined because Backoff is read only below the last attempt, and a   *)
(* claim in memory counts at least one attempt.                            *)
LEMMA OutcomeRows ==
  ASSUME Outbox!TypeOK, ClaimsCount, NEW p \in Senders, NEW m \in Messages, Outbox!Live(p, m)
  PROVE  Outbox!PublishedRow(m) \in Outbox!Rows /\ Outbox!FailedRow(p, m) \in Outbox!Rows
<1>1. row[m] \in Outbox!Rows /\ claim[p][m] \in Outbox!Claims
  BY DEF Outbox!TypeOK
<1>2. Outbox!PublishedRow(m) \in Outbox!Rows
  BY <1>1 DEF Outbox!PublishedRow, Outbox!Rows, Outbox!Statuses
<1>3. CASE Outbox!Exhausted(p, m)
  BY <1>1, <1>2, <1>3 DEF Outbox!FailedRow, Outbox!Rows, Outbox!Statuses
<1>4. CASE ~(Outbox!Exhausted(p, m))
  <2>1. claim[p][m].attempt \in 1 .. PublishAttempts - 1
    BY <1>1, <1>4 DEF Outbox!Exhausted, Outbox!Claims, ClaimsCount, Outbox!Live
  <2>2. Backoff[claim[p][m].attempt] \in Nat
    BY <2>1
  <2>3. QED
    BY <1>1, <1>2, <1>4, <2>2 DEF Outbox!FailedRow, Outbox!Rows, Outbox!Statuses
<1>5. QED
  BY <1>2, <1>3, <1>4

(* After its process stops, or when it goes on to the next record, a       *)
(* publisher is well-typed again.                                          *)
LEMMA ReleasedIsTyped ==
  ASSUME Outbox!TypeOK, NEW p \in Senders, NEW m \in Messages,
         Outbox!NextRecord(p, m) \/ Outbox!Abandon(p)
  PROVE  /\ claim' \in [Senders -> [Messages -> Outbox!Claims]]
         /\ sending' \in [Senders -> Messages \cup {NoMessage}]
         /\ publisherAt' \in [Senders -> Outbox!Steps]
<1>1. Outbox!NoClaim \in Outbox!Claims
  BY DEF Outbox!NoClaim, Outbox!Claims
<1>2. claim \in [Senders -> [Messages -> Outbox!Claims]]
  BY DEF Outbox!TypeOK
<1>3. CASE Outbox!NextRecord(p, m)
  <2>1. [claim[p] EXCEPT ![m] = Outbox!NoClaim] \in [Messages -> Outbox!Claims]
    BY <1>1, <1>2
  <2>2. claim' = [claim EXCEPT ![p] = [claim[p] EXCEPT ![m] = Outbox!NoClaim]]
    BY <1>3 DEF Outbox!NextRecord
  <2>3. QED
    BY <1>2, <1>3, <2>1, <2>2 DEF Outbox!NextRecord, Outbox!TypeOK, Outbox!Steps
<1>4. CASE Outbox!Abandon(p)
  <2>1. [n \in Messages |-> Outbox!NoClaim] \in [Messages -> Outbox!Claims]
    BY <1>1
  <2>2. QED
    BY <1>2, <1>4, <2>1 DEF Outbox!Abandon, Outbox!TypeOK, Outbox!Steps
<1>5. QED
  BY <1>3, <1>4

(* The initial table is empty and nobody holds a claim.                    *)
LEMMA SendingStartsTyped == Outbox!Init => Outbox!TypeOK
<1> SUFFICES ASSUME Outbox!Init
             PROVE  Outbox!TypeOK
  OBVIOUS
<1>1. [status |-> "absent", attempt |-> 0, token |-> NoToken, dueIn |-> 0,
       staleIn |-> 0] \in Outbox!Rows
  BY DEF Outbox!Rows, Outbox!Statuses
<1>2. Outbox!NoClaim \in Outbox!Claims
  BY DEF Outbox!NoClaim, Outbox!Claims
<1>3. QED
  BY <1>1, <1>2 DEF Outbox!Init, Outbox!TypeOK, Outbox!Steps

(* Every operation keeps the types.                                        *)
LEMMA SendingTypeStep == Outbox!TypeOK /\ ClaimsCount /\ [Outbox!Next]_(Outbox!vars) => Outbox!TypeOK'
<1> SUFFICES ASSUME Outbox!TypeOK, ClaimsCount, [Outbox!Next]_(Outbox!vars)
             PROVE  Outbox!TypeOK'
  OBVIOUS
<1>1. ASSUME NEW m \in Messages, Outbox!AppendEvent(m)
      PROVE  Outbox!TypeOK'
  <2>1. PICK delay \in 0 .. 1 :
          row' = [row EXCEPT ![m] = [row[m] EXCEPT !.status = "pending", !.dueIn = delay]]
    BY <1>1 DEF Outbox!AppendEvent
  <2>2. row[m] \in Outbox!Rows /\ "pending" \in Outbox!Statuses /\ delay \in Nat
    BY RowTypes DEF Outbox!Statuses
  <2>3. [row[m] EXCEPT !.status = "pending", !.dueIn = delay] \in Outbox!Rows
    BY <2>2 DEF Outbox!Rows
  <2>4. QED
    BY <1>1, <2>1, <2>3, RowIsPut DEF Outbox!AppendEvent, Outbox!TypeOK
<1>2. ASSUME NEW m \in Messages, Outbox!AuthorizeReplay(m)
      PROVE  Outbox!TypeOK'
  BY <1>2 DEF Outbox!AuthorizeReplay, Outbox!TypeOK
<1>3. ASSUME NEW m \in Messages, Outbox!ReplayOutbox(m)
      PROVE  Outbox!TypeOK'
  <2>1. row[m] \in Outbox!Rows /\ "pending" \in Outbox!Statuses /\ 0 \in 0 .. PublishAttempts
    BY RowTypes DEF Outbox!Statuses
  <2>2. [row[m] EXCEPT !.status = "pending", !.attempt = 0, !.dueIn = 0] \in Outbox!Rows
    BY <2>1 DEF Outbox!Rows
  <2>3. QED
    BY <1>3, <2>2, RowIsPut DEF Outbox!ReplayOutbox, Outbox!TypeOK
<1>4. ASSUME NEW p \in Senders, NEW batch \in SUBSET Messages, Outbox!ClaimOutbox(p, batch)
      PROVE  Outbox!TypeOK'
  <2>1. PICK token \in [batch -> Tokens] :
          /\ row' = [m \in Messages |-> IF m \in batch
               THEN [row[m] EXCEPT !.status = "publishing", !.token = token[m],
                                   !.attempt = Outbox!NextAttempt(m), !.staleIn = Lease]
               ELSE row[m]]
          /\ claim' = [claim EXCEPT ![p] = [m \in Messages |-> IF m \in batch
               THEN [token |-> token[m], attempt |-> Outbox!NextAttempt(m)]
               ELSE Outbox!NoClaim]]
    BY <1>4 DEF Outbox!ClaimOutbox
  <2>2. \A m \in batch : token[m] \in Tokens /\ Outbox!NextAttempt(m) \in 0 .. PublishAttempts
    BY NextAttemptIs
  <2>3. ASSUME NEW m \in batch
        PROVE  [row[m] EXCEPT !.status = "publishing", !.token = token[m],
                              !.attempt = Outbox!NextAttempt(m), !.staleIn = Lease] \in Outbox!Rows
    BY <2>2, RowTypes DEF Outbox!Rows, Outbox!Statuses
  <2>4. row' \in [Messages -> Outbox!Rows]
    BY <2>1, <2>3 DEF Outbox!TypeOK
  <2>5. ASSUME NEW m \in batch
        PROVE  [token |-> token[m], attempt |-> Outbox!NextAttempt(m)] \in Outbox!Claims
    BY <2>2 DEF Outbox!Claims
  <2>6. Outbox!NoClaim \in Outbox!Claims
    BY DEF Outbox!NoClaim, Outbox!Claims
  <2>7. claim' \in [Senders -> [Messages -> Outbox!Claims]]
    BY <2>1, <2>5, <2>6 DEF Outbox!TypeOK
  <2>8. QED
    BY <1>4, <2>4, <2>7 DEF Outbox!ClaimOutbox, Outbox!TypeOK
<1>5. ASSUME NEW p \in Senders, Outbox!Crash(p)
      PROVE  Outbox!TypeOK'
  <2>1. PICK m \in Messages : m \in Outbox!Held(p)
    BY <1>5 DEF Outbox!Crash, Outbox!Held
  <2>2. QED
    BY <1>5, <2>1, ReleasedIsTyped DEF Outbox!Crash, Outbox!Held, Outbox!TypeOK
<1>6. ASSUME NEW p \in Senders, NEW m \in Messages,
             Outbox!PublishConfirmed(p, m) \/ Outbox!PublishFailed(p, m)
      PROVE  Outbox!TypeOK'
  <2>1. broker' \subseteq Messages /\ confirmed' \subseteq Messages
    BY <1>6 DEF Outbox!PublishConfirmed, Outbox!PublishFailed, Outbox!TypeOK
  <2>2. /\ publisherAt' = [publisherAt EXCEPT ![p] = "markPublished"] \/ publisherAt' = [publisherAt EXCEPT ![p] = "markFailure"]
        /\ sending' = [sending EXCEPT ![p] = m]
        /\ UNCHANGED <<row, claim, intent>>
    BY <1>6 DEF Outbox!PublishConfirmed, Outbox!PublishFailed
  <2>3. QED
    BY <2>1, <2>2 DEF Outbox!TypeOK, Outbox!Steps
<1>7. ASSUME NEW p \in Senders, NEW m \in Messages, Outbox!MarkPublished(p, m)
      PROVE  Outbox!TypeOK'
  BY <1>7, OutcomeRows, RowIsPut, ReleasedIsTyped DEF Outbox!MarkPublished, Outbox!TypeOK
<1>8. ASSUME NEW p \in Senders, NEW m \in Messages, Outbox!MarkFailure(p, m)
      PROVE  Outbox!TypeOK'
  BY <1>8, OutcomeRows, RowIsPut, ReleasedIsTyped DEF Outbox!MarkFailure, Outbox!TypeOK
<1>9. ASSUME NEW p \in Senders, NEW m \in Messages, Outbox!MarkRefused(p, m)
      PROVE  Outbox!TypeOK'
  BY <1>9, ReleasedIsTyped DEF Outbox!MarkRefused, Outbox!TypeOK
<1>10. ASSUME NEW p \in Senders, NEW m \in Messages, Outbox!MarkReplyLost(p, m)
       PROVE  Outbox!TypeOK'
  BY <1>10, OutcomeRows, RowIsPut, ReleasedIsTyped DEF Outbox!MarkReplyLost, Outbox!TypeOK
<1>11. ASSUME Outbox!Tick
       PROVE  Outbox!TypeOK'
  <2>1. \A n \in Nat : Outbox!Down(n) \in Nat
    BY DEF Outbox!Down
  <2>2. ASSUME NEW m \in Messages
        PROVE  [row[m] EXCEPT !.dueIn = Outbox!Down(@), !.staleIn = Outbox!Down(@)] \in Outbox!Rows
    BY <2>1, RowTypes DEF Outbox!Rows
  <2>3. row' \in [Messages -> Outbox!Rows]
    BY <1>11, <2>2 DEF Outbox!Tick
  <2>4. QED
    BY <1>11, <2>3 DEF Outbox!Tick, Outbox!TypeOK
<1>12. CASE UNCHANGED Outbox!vars
  BY <1>12 DEF Outbox!vars, Outbox!TypeOK
<1>13. QED
  BY <1>1, <1>2, <1>3, <1>4, <1>5, <1>6, <1>7, <1>8, <1>9, <1>10, <1>11, <1>12
     DEF Outbox!Next, Outbox!Claim

-----------------------------------------------------------------------------
(* Nobody holds a claim at first.                                          *)
LEMMA SendingStarts == Outbox!Init => SendingInv
<1> SUFFICES ASSUME Outbox!Init
             PROVE  SendingInv
  OBVIOUS
<1>1. Outbox!TypeOK
  BY SendingStartsTyped
<1>2. \A p \in Senders, m \in Messages :
        claim[p][m].token = NoToken /\ row[m].status = "absent" /\ publisherAt[p] = "publish"
  BY DEF Outbox!Init, Outbox!NoClaim
<1>3. TokensDiffer /\ ClaimsCount /\ ClaimedIsCommitted
  BY <1>2 DEF TokensDiffer, ClaimsCount, ClaimedIsCommitted
<1>4. LiveClaimsAttempt /\ Outbox!PublishedIsConfirmed /\ Outbox!IsolatedIsExhausted
  BY <1>2 DEF LiveClaimsAttempt, Outbox!Live, Outbox!PublishedIsConfirmed,
     Outbox!IsolatedIsExhausted, Outbox!Init
<1>5. ConfirmedIsAtBroker /\ RecordsOnlyConfirmed
  BY DEF Outbox!Init, ConfirmedIsAtBroker, RecordsOnlyConfirmed
<1>6. QED
  BY <1>1, <1>3, <1>4, <1>5 DEF SendingInv

(* What every operation but ClaimOutbox has in common: it makes no claim,  *)
(* and a row that stays claimed keeps its token and its attempt.           *)
ClaimsOnlyShrink ==
  \A p \in Senders, m \in Messages :
    claim'[p][m] = claim[p][m] \/ claim'[p][m].token = NoToken

RowsKeepTokens ==
  \A m \in Messages :
    /\ row[m].status # "absent" => row'[m].status # "absent"
    /\ row'[m].status = "publishing" =>
         /\ row[m].status = "publishing"
         /\ row'[m].token = row[m].token
         /\ row'[m].attempt = row[m].attempt

(* Such an operation cannot disturb what claims are worth.                 *)
LEMMA ClaimsRemainSound ==
  ASSUME SendingInv, ClaimsOnlyShrink, RowsKeepTokens
  PROVE  TokensDiffer' /\ ClaimsCount' /\ LiveClaimsAttempt' /\ ClaimedIsCommitted'
<1>1. TokensDiffer'
  BY DEF SendingInv, TokensDiffer, ClaimsOnlyShrink
<1>2. ClaimsCount'
  BY DEF SendingInv, ClaimsCount, ClaimsOnlyShrink
<1>3. LiveClaimsAttempt'
  BY DEF SendingInv, LiveClaimsAttempt, Outbox!Live, ClaimsOnlyShrink, RowsKeepTokens
<1>4. ClaimedIsCommitted'
  BY DEF SendingInv, ClaimedIsCommitted, ClaimsOnlyShrink, RowsKeepTokens
<1>5. QED
  BY <1>1, <1>2, <1>3, <1>4

(* A publisher that goes on or goes down gives claims up, and waits for no *)
(* confirm it had not already got.                                         *)
LEMMA ReleasedShrinks ==
  ASSUME Outbox!TypeOK, RecordsOnlyConfirmed, NEW p \in Senders, NEW m \in Messages,
         Outbox!NextRecord(p, m) \/ Outbox!Abandon(p), confirmed' = confirmed
  PROVE  ClaimsOnlyShrink /\ RecordsOnlyConfirmed'
<1>1. /\ claim \in [Senders -> [Messages -> Outbox!Claims]]
      /\ sending \in [Senders -> Messages \cup {NoMessage}]
      /\ publisherAt \in [Senders -> Outbox!Steps]
  BY DEF Outbox!TypeOK
<1>2. Outbox!NoClaim.token = NoToken
  BY DEF Outbox!NoClaim
<1>3. ASSUME NEW q \in Senders, NEW n \in Messages
      PROVE  claim'[q][n] = claim[q][n] \/ claim'[q][n] = Outbox!NoClaim
  <2>1. CASE Outbox!NextRecord(p, m)
    BY <1>1, <2>1 DEF Outbox!NextRecord
  <2>2. CASE Outbox!Abandon(p)
    BY <1>1, <2>2 DEF Outbox!Abandon
  <2>3. QED
    BY <2>1, <2>2
<1>4. ASSUME NEW q \in Senders, publisherAt'[q] = "markPublished"
      PROVE  sending'[q] \in confirmed'
  <2>1. q # p /\ publisherAt'[q] = publisherAt[q] /\ sending'[q] = sending[q]
    BY <1>1, <1>4 DEF Outbox!NextRecord, Outbox!Abandon
  <2>2. QED
    BY <1>4, <2>1 DEF RecordsOnlyConfirmed
<1>5. QED
  BY <1>2, <1>3, <1>4 DEF ClaimsOnlyShrink, RecordsOnlyConfirmed

(* The inductive step.                                                     *)
LEMMA SendingStep == SendingInv /\ [Outbox!Next]_(Outbox!vars) => SendingInv'
<1> SUFFICES ASSUME SendingInv, [Outbox!Next]_(Outbox!vars)
             PROVE  SendingInv'
  OBVIOUS
<1> DEFINE ClaimsHold == TokensDiffer /\ ClaimsCount /\ LiveClaimsAttempt /\ ClaimedIsCommitted
           ConfirmsHold == RecordsOnlyConfirmed /\ ConfirmedIsAtBroker
           FinishedHold == Outbox!PublishedIsConfirmed /\ Outbox!IsolatedIsExhausted
<1>a. /\ Outbox!TypeOK /\ RecordsOnlyConfirmed
      /\ row \in [Messages -> Outbox!Rows]
      /\ \A m \in Messages : row[m] \in Outbox!Rows
      /\ claim \in [Senders -> [Messages -> Outbox!Claims]]
      /\ sending \in [Senders -> Messages \cup {NoMessage}]
      /\ publisherAt \in [Senders -> Outbox!Steps]
  BY DEF SendingInv, Outbox!TypeOK
<1>b. Outbox!TypeOK'
  BY SendingTypeStep DEF SendingInv
<1>1. ASSUME NEW m \in Messages, Outbox!AppendEvent(m)
      PROVE  ClaimsHold' /\ ConfirmsHold' /\ FinishedHold'
  <2>1. PICK delay \in 0 .. 1 :
          row' = [row EXCEPT ![m] = [row[m] EXCEPT !.status = "pending", !.dueIn = delay]]
    BY <1>1 DEF Outbox!AppendEvent
  <2>2. row'[m].status = "pending" /\ \A n \in Messages \ {m} : row'[n] = row[n]
    BY <1>a, <2>1 DEF Outbox!Rows
  <2>3. ClaimsOnlyShrink /\ RowsKeepTokens
    BY <1>1, <2>2 DEF Outbox!AppendEvent, ClaimsOnlyShrink, RowsKeepTokens
  <2>4. ConfirmsHold'
    BY <1>1 DEF Outbox!AppendEvent, SendingInv, RecordsOnlyConfirmed, ConfirmedIsAtBroker
  <2>5. FinishedHold'
    BY <1>1, <2>2 DEF Outbox!AppendEvent, SendingInv, Outbox!PublishedIsConfirmed,
       Outbox!IsolatedIsExhausted
  <2>6. QED
    BY <2>3, <2>4, <2>5, ClaimsRemainSound
<1>2. ASSUME NEW m \in Messages, Outbox!AuthorizeReplay(m)
      PROVE  ClaimsHold' /\ ConfirmsHold' /\ FinishedHold'
  <2>1. ClaimsOnlyShrink /\ RowsKeepTokens
    BY <1>2 DEF Outbox!AuthorizeReplay, ClaimsOnlyShrink, RowsKeepTokens
  <2>2. ConfirmsHold' /\ FinishedHold'
    BY <1>2 DEF Outbox!AuthorizeReplay, SendingInv, RecordsOnlyConfirmed, ConfirmedIsAtBroker,
                Outbox!PublishedIsConfirmed, Outbox!IsolatedIsExhausted
  <2>3. QED
    BY <2>1, <2>2, ClaimsRemainSound
<1>3. ASSUME NEW m \in Messages, Outbox!ReplayOutbox(m)
      PROVE  ClaimsHold' /\ ConfirmsHold' /\ FinishedHold'
  <2>1. row'[m].status = "pending" \/ row'[m] = row[m]
    BY <1>3, <1>a DEF Outbox!ReplayOutbox, Outbox!Rows
  <2>2. \A n \in Messages \ {m} : row'[n] = row[n]
    BY <1>3, <1>a DEF Outbox!ReplayOutbox
  <2>3. ClaimsOnlyShrink /\ RowsKeepTokens
    BY <1>3, <2>1, <2>2 DEF Outbox!ReplayOutbox, ClaimsOnlyShrink, RowsKeepTokens
  <2>4. ConfirmsHold'
    BY <1>3 DEF Outbox!ReplayOutbox, SendingInv, RecordsOnlyConfirmed, ConfirmedIsAtBroker
  <2>5. FinishedHold'
    BY <1>3, <2>1, <2>2 DEF Outbox!ReplayOutbox, SendingInv, Outbox!PublishedIsConfirmed,
       Outbox!IsolatedIsExhausted
  <2>6. QED
    BY <2>3, <2>4, <2>5, ClaimsRemainSound
<1>4. ASSUME NEW p \in Senders, NEW batch \in SUBSET Messages, Outbox!ClaimOutbox(p, batch)
      PROVE  ClaimsHold' /\ ConfirmsHold' /\ FinishedHold'
  <2>1. PICK token \in [batch -> Tokens] :
          /\ \A m \in batch : token[m] \notin Outbox!UsedTokens(m)
          /\ row' = [m \in Messages |-> IF m \in batch
               THEN [row[m] EXCEPT !.status = "publishing", !.token = token[m],
                                   !.attempt = Outbox!NextAttempt(m), !.staleIn = Lease]
               ELSE row[m]]
          /\ claim' = [claim EXCEPT ![p] = [m \in Messages |-> IF m \in batch
               THEN [token |-> token[m], attempt |-> Outbox!NextAttempt(m)]
               ELSE Outbox!NoClaim]]
    BY <1>4 DEF Outbox!ClaimOutbox
  <2>2. ASSUME NEW m \in batch
        PROVE  /\ row'[m].status = "publishing" /\ row'[m].token = token[m]
               /\ row'[m].attempt = Outbox!NextAttempt(m)
               /\ claim'[p][m].token = token[m] /\ claim'[p][m].attempt = Outbox!NextAttempt(m)
               /\ \A q \in Senders : claim[q][m].token # token[m]
    BY <1>a, <2>1 DEF Outbox!Rows, Outbox!UsedTokens
  <2>3. \A m \in Messages \ batch : row'[m] = row[m] /\ claim'[p][m].token = NoToken
    BY <1>a, <2>1 DEF Outbox!NoClaim
  <2>4. \A q \in Senders \ {p} : claim'[q] = claim[q]
    BY <1>a, <2>1
  <2>5. TokensDiffer'
    <3>1. SUFFICES ASSUME NEW m \in Messages, NEW q \in Senders, NEW r \in Senders,
                          claim'[q][m].token # NoToken,
                          claim'[q][m].token = claim'[r][m].token
                   PROVE  q = r
      BY DEF TokensDiffer
    <3>2. CASE m \in batch
      BY <2>2, <2>4, <3>1, <3>2 DEF SendingInv, TokensDiffer
    <3>3. CASE m \notin batch
      BY <2>3, <2>4, <3>1, <3>3 DEF SendingInv, TokensDiffer
    <3>4. QED
      BY <3>2, <3>3
  <2>6. ClaimsCount'
    <3>1. \A m \in batch : Outbox!NextAttempt(m) > 0
      BY <1>a, NextAttemptIs
    <3>2. QED
      BY <2>2, <2>3, <2>4, <3>1 DEF SendingInv, ClaimsCount
  <2>7. LiveClaimsAttempt'
    BY <2>2, <2>3, <2>4 DEF SendingInv, LiveClaimsAttempt, Outbox!Live
  <2>8. ClaimedIsCommitted'
    BY <2>2, <2>3, <2>4 DEF SendingInv, ClaimedIsCommitted
  <2>9. ConfirmsHold'
    BY <1>4 DEF Outbox!ClaimOutbox, SendingInv, RecordsOnlyConfirmed, ConfirmedIsAtBroker
  <2>10. FinishedHold'
    BY <1>4, <2>2, <2>3 DEF Outbox!ClaimOutbox, SendingInv, Outbox!PublishedIsConfirmed,
       Outbox!IsolatedIsExhausted
  <2>11. QED
    BY <2>5, <2>6, <2>7, <2>8, <2>9, <2>10
<1>5. ASSUME NEW p \in Senders, Outbox!Crash(p)
      PROVE  ClaimsHold' /\ ConfirmsHold' /\ FinishedHold'
  <2>1. PICK m \in Messages : m \in Outbox!Held(p)
    BY <1>5 DEF Outbox!Crash, Outbox!Held
  <2>2. ClaimsOnlyShrink /\ RecordsOnlyConfirmed'
    BY <1>5, <1>a, <2>1, ReleasedShrinks DEF Outbox!Crash
  <2>3. RowsKeepTokens
    BY <1>5 DEF Outbox!Crash, RowsKeepTokens
  <2>4. ConfirmedIsAtBroker' /\ FinishedHold'
    BY <1>5 DEF Outbox!Crash, SendingInv, ConfirmedIsAtBroker, Outbox!PublishedIsConfirmed,
       Outbox!IsolatedIsExhausted
  <2>5. QED
    BY <2>2, <2>3, <2>4, ClaimsRemainSound
<1>6. ASSUME NEW p \in Senders, NEW m \in Messages, Outbox!PublishConfirmed(p, m)
      PROVE  ClaimsHold' /\ ConfirmsHold' /\ FinishedHold'
  <2>1. ClaimsOnlyShrink /\ RowsKeepTokens
    BY <1>6 DEF Outbox!PublishConfirmed, ClaimsOnlyShrink, RowsKeepTokens
  <2>2. RecordsOnlyConfirmed'
    BY <1>6, <1>a DEF Outbox!PublishConfirmed, RecordsOnlyConfirmed
  <2>3. ConfirmedIsAtBroker' /\ FinishedHold'
    BY <1>6 DEF Outbox!PublishConfirmed, SendingInv, ConfirmedIsAtBroker,
       Outbox!PublishedIsConfirmed,
                Outbox!IsolatedIsExhausted
  <2>4. QED
    BY <2>1, <2>2, <2>3, ClaimsRemainSound
<1>7. ASSUME NEW p \in Senders, NEW m \in Messages, Outbox!PublishFailed(p, m)
      PROVE  ClaimsHold' /\ ConfirmsHold' /\ FinishedHold'
  <2>1. ClaimsOnlyShrink /\ RowsKeepTokens
    BY <1>7 DEF Outbox!PublishFailed, ClaimsOnlyShrink, RowsKeepTokens
  <2>2. RecordsOnlyConfirmed'
    BY <1>7, <1>a DEF Outbox!PublishFailed, RecordsOnlyConfirmed
  <2>3. ConfirmedIsAtBroker' /\ FinishedHold'
    BY <1>7 DEF Outbox!PublishFailed, SendingInv, ConfirmedIsAtBroker, Outbox!PublishedIsConfirmed,
                Outbox!IsolatedIsExhausted
  <2>4. QED
    BY <2>1, <2>2, <2>3, ClaimsRemainSound
<1>8. ASSUME NEW p \in Senders, NEW m \in Messages, Outbox!MarkRefused(p, m)
      PROVE  ClaimsHold' /\ ConfirmsHold' /\ FinishedHold'
  <2>1. ClaimsOnlyShrink /\ RecordsOnlyConfirmed'
    BY <1>8, <1>a, ReleasedShrinks DEF Outbox!MarkRefused
  <2>2. RowsKeepTokens
    BY <1>8 DEF Outbox!MarkRefused, RowsKeepTokens
  <2>3. ConfirmedIsAtBroker' /\ FinishedHold'
    BY <1>8 DEF Outbox!MarkRefused, SendingInv, ConfirmedIsAtBroker, Outbox!PublishedIsConfirmed,
                Outbox!IsolatedIsExhausted
  <2>4. QED
    BY <2>1, <2>2, <2>3, ClaimsRemainSound
<1>9. ASSUME NEW p \in Senders, NEW m \in Messages,
             Outbox!MarkPublished(p, m) \/ Outbox!MarkFailure(p, m) \/ Outbox!MarkReplyLost(p, m)
      PROVE  ClaimsHold' /\ ConfirmsHold' /\ FinishedHold'
  <2>1. /\ sending[p] = m /\ Outbox!Live(p, m)
        /\ \/ publisherAt[p] = "markPublished" /\ row' = [row EXCEPT ![m] = Outbox!PublishedRow(m)]
           \/ row' = [row EXCEPT ![m] = Outbox!FailedRow(p, m)]
        /\ Outbox!NextRecord(p, m) \/ Outbox!Abandon(p)
        /\ confirmed' = confirmed /\ broker' = broker
    BY <1>9 DEF Outbox!MarkPublished, Outbox!MarkFailure, Outbox!MarkReplyLost
  <2>2. \A n \in Messages \ {m} : row'[n] = row[n]
    BY <1>a, <2>1
  <2>3. \/ row'[m].status = "published" /\ m \in confirmed
        \/ row'[m].status = "pending"
        \/ row'[m].status = "isolated" /\ row'[m].attempt = PublishAttempts
    <3>1. row[m] \in Outbox!Rows /\ row[m].attempt = claim[p][m].attempt
      BY <1>a, <2>1 DEF SendingInv, LiveClaimsAttempt
    <3>2. CASE publisherAt[p] = "markPublished" /\ row' = [row EXCEPT ![m] = Outbox!PublishedRow(m)]
      BY <1>a, <2>1, <3>1, <3>2 DEF RecordsOnlyConfirmed, Outbox!PublishedRow, Outbox!Rows
    <3>3. CASE row' = [row EXCEPT ![m] = Outbox!FailedRow(p, m)]
      BY <1>a, <3>1, <3>3 DEF Outbox!FailedRow, Outbox!Exhausted, Outbox!Rows
    <3>4. QED
      BY <2>1, <3>2, <3>3
  <2>4. ClaimsOnlyShrink /\ RecordsOnlyConfirmed'
    BY <1>a, <2>1, ReleasedShrinks
  <2>5. RowsKeepTokens
    BY <2>2, <2>3 DEF RowsKeepTokens
  <2>6. ConfirmedIsAtBroker'
    BY <2>1 DEF SendingInv, ConfirmedIsAtBroker
  <2>7. FinishedHold'
    BY <2>1, <2>2, <2>3 DEF SendingInv, Outbox!PublishedIsConfirmed, Outbox!IsolatedIsExhausted
  <2>8. QED
    BY <2>4, <2>5, <2>6, <2>7, ClaimsRemainSound
<1>10. ASSUME Outbox!Tick
       PROVE  ClaimsHold' /\ ConfirmsHold' /\ FinishedHold'
  <2>1. \A m \in Messages : /\ row'[m].status = row[m].status
                            /\ row'[m].token = row[m].token
                            /\ row'[m].attempt = row[m].attempt
    BY <1>10, <1>a DEF Outbox!Tick, Outbox!Rows
  <2>2. ClaimsOnlyShrink /\ RowsKeepTokens
    BY <1>10, <2>1 DEF Outbox!Tick, ClaimsOnlyShrink, RowsKeepTokens
  <2>3. ConfirmsHold' /\ FinishedHold'
    BY <1>10, <2>1 DEF Outbox!Tick, SendingInv, RecordsOnlyConfirmed, ConfirmedIsAtBroker,
                       Outbox!PublishedIsConfirmed, Outbox!IsolatedIsExhausted
  <2>4. QED
    BY <2>2, <2>3, ClaimsRemainSound
<1>11. ASSUME UNCHANGED Outbox!vars
       PROVE  ClaimsHold' /\ ConfirmsHold' /\ FinishedHold'
  BY <1>11 DEF Outbox!vars, SendingInv, TokensDiffer, ClaimsCount, LiveClaimsAttempt, Outbox!Live,
               ClaimedIsCommitted, RecordsOnlyConfirmed, ConfirmedIsAtBroker,
               Outbox!PublishedIsConfirmed, Outbox!IsolatedIsExhausted
<1>12. ClaimsHold' /\ ConfirmsHold' /\ FinishedHold'
  BY <1>1, <1>2, <1>3, <1>4, <1>5, <1>6, <1>7, <1>8, <1>9, <1>10, <1>11 DEF Outbox!Next,
     Outbox!Claim
<1>13. QED
  BY <1>b, <1>12 DEF SendingInv

-----------------------------------------------------------------------------
HIDE DeliveryAssumption

-----------------------------------------------------------------------------
(* Both sides. What the broker stores for a publisher is what the consumer *)
(* is given: no copy exists of a message that has no committed row.        *)
StoredIsPublished == broker \subseteq published
PublishedIsCommitted == \A m \in published : row[m].status # "absent"

(* Whatever the inbox side has came by a publication.                      *)
CopiesArePublished ==
  /\ \A c \in Inbox!Copies : queued[c] > 0 => c.id \in published
  /\ \A w \in Workers : workerAt[w] # "idle" => copy[w].id \in published
  /\ \A m \in Messages : handlerEffects[m] > 0 => m \in published

DeliveringInv ==
  /\ SendingInv /\ ReceivingInv
  /\ StoredIsPublished /\ PublishedIsCommitted /\ CopiesArePublished

LEMMA DeliveringStarts == DeliveringInit => DeliveringInv
  <1> SUFFICES ASSUME DeliveringInit PROVE DeliveringInv
    OBVIOUS
  <1>1. Outbox!Init /\ Inbox!Init
    BY DEF DeliveringInit
  <1>2. SendingInv /\ ReceivingInv
    BY <1>1, SendingStarts, ReceivingStarts
  <1>3. StoredIsPublished /\ PublishedIsCommitted
    BY <1>1 DEF Outbox!Init, Inbox!Init, StoredIsPublished, PublishedIsCommitted
  <1>4. CopiesArePublished
    BY <1>1 DEF Inbox!Init, CopiesArePublished
  <1> QED
    BY <1>2, <1>3, <1>4 DEF DeliveringInv

(* A step of both sides, seen from each.                                   *)
LEMMA DeliveringSends ==
  [DeliveringNext]_deliveringVars => [Outbox!Next]_(Outbox!vars)
  <1> SUFFICES ASSUME [DeliveringNext]_deliveringVars, ~ UNCHANGED outboxVars PROVE Outbox!Next
    BY DEF outboxVars, Outbox!vars
  <1>1. ASSUME NEW m \in Messages, Commit(m) PROVE Outbox!Next
    BY <1>1 DEF Commit, Outbox!Next
  <1>2. ASSUME NEW p \in Senders, NEW m \in Messages, Transports(p, m) PROVE Outbox!Next
    BY <1>2 DEF Transports, Outbox!Next
  <1>3. ASSUME NEW p \in Senders, PublisherDies(p) PROVE Outbox!Next
    BY <1>3 DEF PublisherDies, Outbox!Next
  <1>4. CASE OutboxNext
    BY <1>4 DEF OutboxNext, Claims, Outbox!Next, Outbox!Claim
  <1>5. CASE InboxNext
    BY <1>5 DEF InboxNext
  <1>6. CASE UNCHANGED deliveringVars
    BY <1>6 DEF deliveringVars
  <1> QED
    BY <1>1, <1>2, <1>3, <1>4, <1>5, <1>6 DEF DeliveringNext

LEMMA StoringIsPublishing ==
  ASSUME NEW m \in Messages, Stores(m)
  PROVE  Inbox!Next /\ published' = published \cup {m}
  <1>1. TruePrint \in Prints /\ 1 \in 1 .. DeliveryAttempts + 1
    BY DeliveryAssumption
  <1>2. Inbox!Publish(m, TruePrint, 1)
    BY DEF Stores
  <1> QED
    BY <1>1, <1>2 DEF Inbox!Next, Inbox!Publish

LEMMA DeliveringReceives ==
  [DeliveringNext]_deliveringVars => [Inbox!Next]_(Inbox!vars)
  <1> SUFFICES ASSUME [DeliveringNext]_deliveringVars, ~ UNCHANGED inboxVars PROVE Inbox!Next
    BY DEF inboxVars, Inbox!vars
  <1>1. ASSUME NEW m \in Messages, Commit(m) PROVE Inbox!Next
    <2>1. m \in Jobs /\ Inbox!SubmitJob(m)
      BY <1>1 DEF Commit
    <2> QED
      BY <2>1 DEF Inbox!Next
  <1>2. ASSUME NEW p \in Senders, NEW m \in Messages, Transports(p, m) PROVE Inbox!Next
    <2>1. Stores(m)
      BY <1>2 DEF Transports
    <2> QED
      BY <2>1, StoringIsPublishing
  <1>3. ASSUME NEW p \in Senders, PublisherDies(p) PROVE Inbox!Next
    <2>1. PICK m \in Outbox!Held(p) : Stores(m)
      BY <1>3 DEF PublisherDies
    <2>2. m \in Messages
      BY DEF Outbox!Held
    <2> QED
      BY <2>1, <2>2, StoringIsPublishing
  <1>4. CASE OutboxNext
    BY <1>4 DEF OutboxNext
  <1>5. CASE InboxNext
    <2>1. ASSUME NEW w \in Workers, Inbox!Work(w) PROVE Inbox!Next
      BY <2>1 DEF Inbox!Work, Inbox!Enter, Inbox!Finish, Inbox!Settle, Inbox!Next
    <2> QED
      BY <1>5, <2>1 DEF InboxNext, Inbox!Next
  <1>6. CASE UNCHANGED deliveringVars
    BY <1>6 DEF deliveringVars
  <1> QED
    BY <1>1, <1>2, <1>3, <1>4, <1>5, <1>6 DEF DeliveringNext

(* A row that was committed is there for good.                             *)
LEMMA CommittedStays ==
  ASSUME Outbox!TypeOK, [Outbox!Next]_(Outbox!vars), NEW n \in Messages, row[n].status # "absent"
  PROVE  row'[n].status # "absent"
  <1>0. row \in [Messages -> Outbox!Rows] /\ row[n] \in Outbox!Rows
    BY DEF Outbox!TypeOK
  <1>1. ASSUME NEW m \in Messages, NEW r \in Outbox!Rows, row' = [row EXCEPT ![m] = r], r.status # "absent"
        PROVE  row'[n].status # "absent"
    BY <1>0, <1>1
  <1>2. ASSUME NEW m \in Messages, Outbox!AppendEvent(m) \/ Outbox!AuthorizeReplay(m)
        PROVE  row'[n].status # "absent"
    <2>1. CASE Outbox!AuthorizeReplay(m)
      BY <2>1 DEF Outbox!AuthorizeReplay
    <2>2. CASE Outbox!AppendEvent(m)
      <3>1. PICK delay \in 0 .. 1 :
              row' = [row EXCEPT ![m] = [row[m] EXCEPT !.status = "pending", !.dueIn = delay]]
        BY <2>2 DEF Outbox!AppendEvent
      <3>2. m # n
        BY <2>2 DEF Outbox!AppendEvent
      <3> QED
        BY <1>0, <3>1, <3>2
    <2> QED
      BY <1>2, <2>1, <2>2
  <1>3. ASSUME NEW m \in Messages, Outbox!ReplayOutbox(m) PROVE row'[n].status # "absent"
    BY <1>0, <1>3 DEF Outbox!ReplayOutbox, Outbox!Rows
  <1>4. ASSUME NEW p \in Senders, Outbox!Claim(p) PROVE row'[n].status # "absent"
    <2>1. PICK batch \in SUBSET Messages : Outbox!ClaimOutbox(p, batch)
      BY <1>4 DEF Outbox!Claim
    <2>2. PICK token \in [batch -> Tokens] :
            row' = [m \in Messages |-> IF m \in batch
              THEN [row[m] EXCEPT !.status = "publishing", !.token = token[m],
                                  !.attempt = Outbox!NextAttempt(m), !.staleIn = Lease]
              ELSE row[m]]
      BY <2>1 DEF Outbox!ClaimOutbox
    <2>3. n \in batch => row'[n].status = "publishing"
      BY <1>0, <2>2 DEF Outbox!Rows
    <2>4. n \notin batch => row'[n] = row[n]
      BY <2>2
    <2> QED
      BY <2>3, <2>4
  <1>5. ASSUME NEW p \in Senders, NEW m \in Messages,
               Outbox!Crash(p) \/ Outbox!PublishConfirmed(p, m) \/ Outbox!PublishFailed(p, m)
                 \/ Outbox!MarkRefused(p, m)
        PROVE  row'[n].status # "absent"
    BY <1>5 DEF Outbox!Crash, Outbox!PublishConfirmed, Outbox!PublishFailed, Outbox!MarkRefused
  <1>6. ASSUME NEW p \in Senders, NEW m \in Messages,
               Outbox!MarkPublished(p, m) \/ Outbox!MarkFailure(p, m) \/ Outbox!MarkReplyLost(p, m)
        PROVE  row'[n].status # "absent"
    <2>1. row[m] \in Outbox!Rows
      BY DEF Outbox!TypeOK
    <2>2. Outbox!PublishedRow(m).status = "published"
      BY <2>1 DEF Outbox!PublishedRow, Outbox!Rows
    <2>3. Outbox!FailedRow(p, m).status \in {"isolated", "pending"}
      BY <2>1 DEF Outbox!FailedRow, Outbox!Rows
    <2>4. row' = [row EXCEPT ![m] = Outbox!PublishedRow(m)] \/ row' = [row EXCEPT ![m] = Outbox!FailedRow(p, m)]
      BY <1>6 DEF Outbox!MarkPublished, Outbox!MarkFailure, Outbox!MarkReplyLost
    <2> QED
      BY <1>0, <2>2, <2>3, <2>4
  <1>7. CASE Outbox!Tick
    BY <1>0, <1>7 DEF Outbox!Tick, Outbox!Rows
  <1>8. CASE UNCHANGED Outbox!vars
    BY <1>8 DEF Outbox!vars
  <1>9. ASSUME NEW p \in Senders, Outbox!Crash(p) PROVE row'[n].status # "absent"
    BY <1>9 DEF Outbox!Crash
  <1> QED
    BY <1>2, <1>3, <1>4, <1>5, <1>6, <1>7, <1>8, <1>9 DEF Outbox!Next

(* What the broker stores comes from a claim of a committed row.           *)
LEMMA StoredOfARow ==
  ASSUME DeliveringInv, [DeliveringNext]_deliveringVars
  PROVE  \/ broker' = broker /\ published' = published
         \/ \E m \in Messages :
              /\ row[m].status # "absent"
              /\ broker' \in {broker, broker \cup {m}} /\ published' = published \cup {m}
  <1>0. ASSUME NEW p \in Senders, NEW m \in Outbox!Held(p), Stores(m)
        PROVE  m \in Messages /\ row[m].status # "absent" /\ published' = published \cup {m}
    <2>1. m \in Messages /\ claim[p][m].token # NoToken
      BY DEF Outbox!Held
    <2> QED
      BY <1>0, <2>1, StoringIsPublishing DEF DeliveringInv, SendingInv, ClaimedIsCommitted
  <1>1. ASSUME NEW m \in Messages, Commit(m) PROVE broker' = broker /\ published' = published
    <2>1. broker' = broker
      BY <1>1 DEF Commit, Outbox!AppendEvent
    <2>2. published' = published
      BY <1>1 DEF Commit, Inbox!SubmitJob, inboxVars, Inbox!delivery
    <2> QED
      BY <2>1, <2>2
  <1>2. ASSUME NEW p \in Senders, NEW m \in Messages, Transports(p, m)
        PROVE  \/ broker' = broker /\ published' = published
               \/ /\ row[m].status # "absent"
                  /\ broker' \in {broker, broker \cup {m}} /\ published' = published \cup {m}
    <2>1. m \in Outbox!Held(p) /\ broker' \in {broker, broker \cup {m}}
      BY <1>2 DEF Transports, Outbox!PublishConfirmed, Outbox!PublishFailed
    <2>2. Stores(m) \/ (broker' = broker /\ published' = published)
      BY <1>2 DEF Transports, inboxVars
    <2> QED
      BY <1>0, <2>1, <2>2
  <1>3. ASSUME NEW p \in Senders, PublisherDies(p)
        PROVE  \/ broker' = broker /\ published' = published
               \/ \E m \in Messages :
                    /\ row[m].status # "absent"
                    /\ broker' \in {broker, broker \cup {m}} /\ published' = published \cup {m}
    <2>1. CASE broker' = broker /\ UNCHANGED inboxVars
      BY <2>1 DEF inboxVars
    <2>2. ASSUME NEW m \in Outbox!Held(p), broker' = broker \cup {m}, Stores(m)
          PROVE  \E n \in Messages :
                   /\ row[n].status # "absent"
                   /\ broker' \in {broker, broker \cup {n}} /\ published' = published \cup {n}
      BY <1>0, <2>2
    <2> QED
      BY <1>3, <2>1, <2>2 DEF PublisherDies
  <1>4. CASE OutboxNext
    BY <1>4 DEF OutboxNext, Claims, inboxVars, Outbox!ClaimOutbox, Outbox!MarkPublished,
       Outbox!MarkFailure,
          Outbox!MarkRefused, Outbox!MarkReplyLost, Outbox!Tick
  <1>5. CASE InboxNext
    <2>1. broker' = broker
      BY <1>5 DEF InboxNext, outboxVars
    <2>2. ASSUME NEW w \in Workers, Inbox!Work(w) PROVE published' = published
      BY <2>2 DEF Inbox!Work, Inbox!Enter, Inbox!Finish, Inbox!Settle, Inbox!Lookup,
         Inbox!EnterRaced,
            Inbox!EnterMismatch, Inbox!EnterFinished, Inbox!EnterHandler, Inbox!Handle, Inbox!HandleRejected,
            Inbox!CommitReplyLost, Inbox!ConsumeFails, Inbox!Retry, Inbox!GiveUp, Inbox!FindJobToIsolate,
            Inbox!IsolateJob, Inbox!DeadLetter, Inbox!Ack, Inbox!IsolationThrows, Inbox!Requeue,
            Inbox!delivery
    <2>3. published' = published
      BY <1>5, <2>2 DEF InboxNext, Inbox!CancelJob, Inbox!Receive, Inbox!ConsumeFails, Inbox!Crash,
         Inbox!Requeue,
            Inbox!delivery
    <2> QED
      BY <2>1, <2>3
  <1>6. CASE UNCHANGED deliveringVars
    BY <1>6 DEF deliveringVars, outboxVars, inboxVars
  <1> QED
    BY <1>1, <1>2, <1>3, <1>4, <1>5, <1>6 DEF DeliveringNext

(* A worker has what was queued, retries what it has, and commits the      *)
(* effect of that.                                                         *)
LEMMA CopiesStayPublished ==
  ASSUME Inbox!TypeOK, CopiesArePublished, Inbox!Next
  PROVE  CopiesArePublished'
  <1>0. /\ queued \in [Inbox!Copies -> Nat] /\ copy \in [Workers -> Inbox!Copies \cup {NoCopy}]
        /\ workerAt \in [Workers -> Inbox!Locations] /\ handlerEffects \in [Messages -> 0 .. 2]
        /\ \A w \in Workers : workerAt[w] = "idle" <=> copy[w] = NoCopy
    BY DEF Inbox!TypeOK
  <1>1. ASSUME UNCHANGED <<queued, copy, published>>, handlerEffects' = handlerEffects,
               NEW w \in Workers, NEW l, workerAt[w] # "idle", workerAt' = [workerAt EXCEPT ![w] = l]
        PROVE  CopiesArePublished'
    BY <1>0, <1>1 DEF CopiesArePublished
  <1>2. ASSUME NEW w \in Workers, NEW l, workerAt[w] # "idle", workerAt' = [workerAt EXCEPT ![w] = l],
               Inbox!CommitHandled(w), UNCHANGED <<queued, copy, published>>
        PROVE  CopiesArePublished'
    <2>1. copy[w] \in Inbox!Copies /\ copy[w].id \in Messages /\ copy[w].id \in published
      BY <1>0, <1>2, CopyFieldsAre DEF CopiesArePublished
    <2>2. \A m \in Messages : handlerEffects'[m] = handlerEffects[m] \/ m = copy[w].id
      BY <1>0, <1>2, <2>1 DEF Inbox!CommitHandled
    <2>3. \A m \in Messages : handlerEffects'[m] > 0 => m \in published
      BY <1>0, <2>1, <2>2 DEF CopiesArePublished
    <2> QED
      BY <1>0, <1>2, <2>3 DEF CopiesArePublished
  <1>3. ASSUME NEW w \in Workers, NEW c \in Inbox!Copies, c.id \in published,
               queued' = [queued EXCEPT ![c] = @ + 1], UNCHANGED <<published, handlerEffects>>,
               \A v \in Workers : workerAt'[v] # "idle" => workerAt[v] # "idle" /\ copy'[v] = copy[v]
        PROVE  CopiesArePublished'
    <2>1. \A d \in Inbox!Copies : queued'[d] > 0 => queued[d] > 0 \/ d = c
      BY <1>0, <1>3
    <2> QED
      BY <1>3, <2>1 DEF CopiesArePublished
  <1>4. ASSUME NEW w \in Workers, Inbox!Release(w), UNCHANGED <<queued, published, handlerEffects>>
        PROVE  CopiesArePublished'
    <2>1. \A v \in Workers : workerAt'[v] # "idle" => workerAt[v] # "idle" /\ copy'[v] = copy[v]
      BY <1>0, <1>4 DEF Inbox!Release, Inbox!Fail, Inbox!Go
    <2> QED
      BY <1>4, <2>1 DEF CopiesArePublished
  <1>5. ASSUME NEW w \in Workers, workerAt[w] # "idle", Inbox!Requeue(w) PROVE CopiesArePublished'
    <2>1. copy[w] \in Inbox!Copies /\ copy[w].id \in published
      BY <1>0, <1>5 DEF CopiesArePublished
    <2>2. \A v \in Workers : workerAt'[v] # "idle" => workerAt[v] # "idle" /\ copy'[v] = copy[v]
      BY <1>0, <1>5 DEF Inbox!Requeue, Inbox!Release, Inbox!Fail, Inbox!Go
    <2>3. queued' = [queued EXCEPT ![copy[w]] = @ + 1] /\ published' = published /\ handlerEffects' = handlerEffects
      BY <1>5 DEF Inbox!Requeue, Inbox!tables
    <2> QED
      BY <1>3, <2>1, <2>2, <2>3
  <1>6. ASSUME NEW m \in Jobs, Inbox!SubmitJob(m) \/ Inbox!CancelJob(m) PROVE CopiesArePublished'
    BY <1>6 DEF Inbox!SubmitJob, Inbox!CancelJob, Inbox!delivery, Inbox!worker, CopiesArePublished
  <1>7. ASSUME NEW m \in Messages, NEW f \in Prints, NEW n \in 1 .. DeliveryAttempts + 1, Inbox!Publish(m, f, n)
        PROVE  CopiesArePublished'
    <2> DEFINE c == [id |-> m, print |-> f, attempt |-> n]
    <2>1. c \in Inbox!Copies /\ c.id = m
      BY DEF Inbox!Copies
    <2>2. queued' = [queued EXCEPT ![c] = @ + 1] /\ published' = published \cup {m}
          /\ UNCHANGED <<copy, workerAt, handlerEffects>>
      BY <1>7 DEF Inbox!Publish, Inbox!worker, Inbox!tables
    <2> HIDE DEF c
    <2>3. \A d \in Inbox!Copies : queued'[d] > 0 => queued[d] > 0 \/ d = c
      BY <1>0, <2>1, <2>2
    <2> QED
      BY <2>1, <2>2, <2>3 DEF CopiesArePublished
  <1>8. ASSUME NEW w \in Workers, NEW c \in Inbox!Copies, Inbox!Receive(w, c) PROVE CopiesArePublished'
    <2>1. c.id \in published
      BY <1>8 DEF Inbox!Receive, CopiesArePublished
    <2>2. queued' = [queued EXCEPT ![c] = @ - 1] /\ copy' = [copy EXCEPT ![w] = c]
          /\ UNCHANGED <<published, handlerEffects>> /\ queued[c] > 0
      BY <1>8 DEF Inbox!Receive, Inbox!tables
    <2>3. \A d \in Inbox!Copies : queued'[d] > 0 => queued[d] > 0
      BY <1>0, <2>2
    <2>4. \A v \in Workers \ {w} : workerAt'[v] = workerAt[v] /\ copy'[v] = copy[v]
      BY <1>0, <1>8 DEF Inbox!Receive, Inbox!Fail, Inbox!Go
    <2>5. copy'[w] = c
      BY <1>0, <2>2
    <2> QED
      BY <2>1, <2>2, <2>3, <2>4, <2>5 DEF CopiesArePublished
  <1>9. ASSUME NEW w \in Workers, Inbox!Lookup(w) \/ Inbox!Enter(w) PROVE CopiesArePublished'
    <2>1. workerAt[w] # "idle" /\ UNCHANGED <<queued, copy, published, handlerEffects>>
      BY <1>9 DEF Inbox!Lookup, Inbox!Enter, Inbox!EnterRaced, Inbox!EnterMismatch,
         Inbox!EnterFinished,
            Inbox!EnterHandler, Inbox!delivery, Inbox!tables
    <2>2. \E l : workerAt' = [workerAt EXCEPT ![w] = l]
      BY <1>9 DEF Inbox!Lookup, Inbox!Enter, Inbox!EnterRaced, Inbox!EnterMismatch,
         Inbox!EnterFinished,
            Inbox!EnterHandler, Inbox!Go
    <2> QED
      BY <1>1, <2>1, <2>2
  <1>10. ASSUME NEW w \in Workers, Inbox!Handle(w) \/ Inbox!CommitReplyLost(w) PROVE CopiesArePublished'
    <2>1. workerAt[w] # "idle" /\ UNCHANGED <<queued, copy, published>> /\ Inbox!CommitHandled(w)
      BY <1>10 DEF Inbox!Handle, Inbox!CommitReplyLost, Inbox!delivery
    <2>2. \E l : workerAt' = [workerAt EXCEPT ![w] = l]
      BY <1>10 DEF Inbox!Handle, Inbox!CommitReplyLost, Inbox!Fail, Inbox!Go
    <2> QED
      BY <1>2, <2>1, <2>2
  <1>11. ASSUME NEW w \in Workers, NEW why,
                \/ Inbox!HandleRejected(w) \/ Inbox!ConsumeFails(w, why) \/ Inbox!GiveUp(w)
                \/ Inbox!FindJobToIsolate(w) \/ Inbox!IsolateJob(w)
         PROVE  CopiesArePublished'
    <2>1. workerAt[w] # "idle" /\ UNCHANGED <<queued, copy, published, handlerEffects>>
      BY <1>11 DEF Inbox!HandleRejected, Inbox!ConsumeFails, Inbox!GiveUp, Inbox!FindJobToIsolate,
            Inbox!IsolateJob, Inbox!delivery, Inbox!tables
    <2>2. \E l : workerAt' = [workerAt EXCEPT ![w] = l]
      BY <1>11 DEF Inbox!HandleRejected, Inbox!ConsumeFails, Inbox!GiveUp, Inbox!FindJobToIsolate,
            Inbox!IsolateJob, Inbox!Fail, Inbox!Go
    <2> QED
      BY <1>1, <2>1, <2>2
  <1>12. ASSUME NEW w \in Workers, Inbox!Retry(w) PROVE CopiesArePublished'
    <2> DEFINE c == [copy[w] EXCEPT !.attempt = @ + 1]
    <2>1. workerAt[w] = "failed" /\ queued' = [queued EXCEPT ![c] = @ + 1]
          /\ UNCHANGED <<copy, published, handlerEffects>> /\ workerAt' = [workerAt EXCEPT ![w] = "retried"]
      BY <1>12 DEF Inbox!Retry, Inbox!Go, Inbox!tables
    <2>2. copy[w] \in Inbox!Copies /\ copy[w].id \in published
      BY <1>0, <2>1 DEF CopiesArePublished
    <2>3. c \in Inbox!Copies /\ c.id = copy[w].id
      BY <1>12, <2>2, RetryCopyIs DEF Inbox!Retry, Inbox!MayRetry
    <2>4. \A v \in Workers : workerAt'[v] # "idle" => workerAt[v] # "idle" /\ copy'[v] = copy[v]
      BY <1>0, <2>1
    <2> HIDE DEF c
    <2> QED
      BY <1>3, <2>1, <2>2, <2>3, <2>4
  <1>13. ASSUME NEW w \in Workers, Inbox!DeadLetter(w) \/ Inbox!Ack(w) PROVE CopiesArePublished'
    <2>1. Inbox!Release(w) /\ UNCHANGED <<queued, published, handlerEffects>>
      BY <1>13 DEF Inbox!DeadLetter, Inbox!Ack, Inbox!delivery, Inbox!tables
    <2> QED
      BY <1>4, <2>1
  <1>14. ASSUME NEW w \in Workers, Inbox!IsolationThrows(w) \/ Inbox!Crash(w) PROVE CopiesArePublished'
    <2>1. workerAt[w] # "idle" /\ Inbox!Requeue(w)
      BY <1>14 DEF Inbox!IsolationThrows, Inbox!Crash
    <2> QED
      BY <1>5, <2>1
  <1>15. ASSUME NEW w \in Workers,
                Inbox!EnterRaced(w) \/ Inbox!EnterMismatch(w) \/ Inbox!EnterFinished(w) \/ Inbox!EnterHandler(w)
         PROVE  CopiesArePublished'
    BY <1>9, <1>15 DEF Inbox!Enter
  <1> QED
    BY <1>6, <1>7, <1>8, <1>9, <1>10, <1>11, <1>12, <1>13, <1>14, <1>15 DEF Inbox!Next

(* The inbox side goes on as it does alone.                                *)
LEMMA ReceivingStep ==
  ReceivingInv /\ [Inbox!Next]_(Inbox!vars) => ReceivingInv'
  <1> SUFFICES ASSUME ReceivingInv, [Inbox!Next]_(Inbox!vars) PROVE ReceivingInv'
    OBVIOUS
  <1>1. CASE Inbox!Next
    <2>1. Inbox!TypeOK' /\ DeadJobsInv'
      BY <1>1, ReceivingTypeStep, DeadJobsStep DEF ReceivingInv, EffectsInv, DeadJobsInv
    <2>2. EffectsInv'
      BY <1>1, HandlerStep, HandledFreshStep, EffectOnceStep DEF ReceivingInv, EffectsInv
    <2>3. CopiesInv'
      BY <1>1, AckedStep, CopiesKeptStep DEF ReceivingInv, CopiesInv
    <2> QED
      BY <2>1, <2>2, <2>3 DEF ReceivingInv
  <1>2. CASE UNCHANGED Inbox!vars
    BY <1>2, ReceivingStutters
  <1> QED
    BY <1>1, <1>2

LEMMA DeliveringGoesOn == DeliveringInv /\ [DeliveringNext]_deliveringVars => DeliveringInv'
  <1> SUFFICES ASSUME DeliveringInv, [DeliveringNext]_deliveringVars PROVE DeliveringInv'
    OBVIOUS
  <1>1. [Outbox!Next]_(Outbox!vars) /\ [Inbox!Next]_(Inbox!vars)
    BY DeliveringSends, DeliveringReceives
  <1>2. SendingInv' /\ ReceivingInv'
    BY <1>1, SendingStep, ReceivingStep DEF DeliveringInv
  <1>3. Outbox!TypeOK /\ Inbox!TypeOK /\ CopiesArePublished /\ published \subseteq Messages
    BY DEF DeliveringInv, SendingInv, ReceivingInv, Inbox!TypeOK
  <1>4. CopiesArePublished'
    <2>1. CASE Inbox!Next
      BY <1>3, <2>1, CopiesStayPublished
    <2>2. CASE UNCHANGED Inbox!vars
      BY <1>3, <2>2 DEF Inbox!vars, CopiesArePublished
    <2> QED
      BY <1>1, <2>1, <2>2
  <1>5. \A n \in Messages : row[n].status # "absent" => row'[n].status # "absent"
    BY <1>1, <1>3, CommittedStays
  <1>6. StoredIsPublished' /\ PublishedIsCommitted'
    BY <1>3, <1>5, StoredOfARow DEF DeliveringInv, StoredIsPublished, PublishedIsCommitted
  <1> QED
    BY <1>2, <1>4, <1>6 DEF DeliveringInv

LEMMA DeliveringMeans ==
  DeliveringInv => Outbox!TypeOK /\ Inbox!TypeOK /\ PublishedIsNotLost /\ OneEffectOfACommit
  <1> SUFFICES ASSUME DeliveringInv
               PROVE  Outbox!TypeOK /\ Inbox!TypeOK /\ PublishedIsNotLost /\ OneEffectOfACommit
    OBVIOUS
  <1>1. Outbox!TypeOK /\ Inbox!TypeOK
    BY DEF DeliveringInv, SendingInv, ReceivingInv
  <1>2. ASSUME NEW m \in Messages, row[m].status = "published" PROVE Inbox!Settled(m) \/ Inbox!Travelling(m)
    <2>1. m \in confirmed
      BY <1>2 DEF DeliveringInv, SendingInv, Outbox!PublishedIsConfirmed
    <2>2. m \in published
      BY <2>1 DEF DeliveringInv, SendingInv, ConfirmedIsAtBroker, StoredIsPublished
    <2>3. Inbox!Settled(m) \/ IsQueued(m) \/ IsHeld(m)
      BY <2>2 DEF DeliveringInv, ReceivingInv, CopiesInv, CopiesAreKept
    <2> QED
      BY <2>3 DEF IsQueued, IsHeld, Inbox!Travelling
  <1>3. ASSUME NEW m \in Messages
        PROVE  handlerEffects[m] <= IF row[m].status = "absent" THEN 0 ELSE 1
    <2>1. handlerEffects[m] \in 0 .. 2 /\ handlerEffects[m] <= 1
      BY DEF DeliveringInv, ReceivingInv, EffectsInv, Inbox!TypeOK, Inbox!AtMostOneEffect
    <2>2. handlerEffects[m] > 0 => row[m].status # "absent"
      BY DEF DeliveringInv, CopiesArePublished, PublishedIsCommitted
    <2> QED
      BY <2>1, <2>2
  <1> QED
    BY <1>1, <1>2, <1>3 DEF PublishedIsNotLost, OneEffectOfACommit

(* Across the broker, for any number of messages, publishers and workers:  *)
(* what the outbox has marked published is settled at the consumer or a    *)
(* copy of it is on its way, and the effect happens once and only after the*)
(* owner's commit, whoever dies in between.                                *)
THEOREM DeliveryHolds ==
  DeliveringSpec => [](Outbox!TypeOK /\ Inbox!TypeOK /\ PublishedIsNotLost /\ OneEffectOfACommit)
  <1>1. DeliveringInit => DeliveringInv
    BY DeliveringStarts
  <1>2. DeliveringInv /\ [DeliveringNext]_deliveringVars => DeliveringInv'
    BY DeliveringGoesOn
  <1>3. DeliveringInv => Outbox!TypeOK /\ Inbox!TypeOK /\ PublishedIsNotLost /\ OneEffectOfACommit
    BY DeliveringMeans
  <1> HIDE DEF DeliveringInv
  <1> QED
    BY <1>1, <1>2, <1>3, PTL DEF DeliveringSpec
=============================================================================
