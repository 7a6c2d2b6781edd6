------------------------ MODULE BusinessConfiguration ------------------------
(***************************************************************************)
(* packages/crm-modules/business-configuration: the drafts and releases of *)
(* one dictionary, the values of one parameter, and the activations of     *)
(* those values per scope, as the commands that change them: each in one   *)
(* transaction, which locks its operation id, answers a command done before*)
(* from its receipt, then locks what it changes. Transactions are read     *)
(* committed.                                                              *)
(***************************************************************************)
EXTENDS Naturals

CONSTANTS ConfigurationRequests,  \* commands under way
          ConfigurationOperations,\* operation ids
          ConfigurationCommands,  \* the commands, with their operation ids
          Codes,                  \* codes of dictionary items
          ActivationIds,
          Scopes,
          Horizon,                \* bound: time; open ends are at the horizon
          MaxRelease              \* bound: revisions and versions

Times == 0 .. Horizon

CommandsOfConfiguration ==
  [op : ConfigurationOperations, kind : {"draft"}, revision : 0 .. MaxRelease, items : SUBSET Codes]
    \cup [op : ConfigurationOperations, kind : {"dictionary"}, revision : 0 .. MaxRelease]
    \cup [op : ConfigurationOperations, kind : {"value"}]
    \cup [op : ConfigurationOperations, kind : {"activate"}, id : ActivationIds, scope : Scopes,
          from : Times, to : Times]
    \cup [op : ConfigurationOperations, kind : {"terminate"}, id : ActivationIds, to : Times]

ASSUME ConfigurationAssumption ==
  /\ MaxRelease \in Nat /\ Horizon \in Nat \ {0}
  /\ ConfigurationCommands \subseteq CommandsOfConfiguration
  /\ \A c \in ConfigurationCommands : c.kind = "activate" => c.from < c.to
  /\ {"dictionary", "parameter"} \cap Scopes = {}

VARIABLES
  dictionaryDraft,  \* dictionary_drafts: revision and items
  dictionary,       \* dictionary_releases: the codes of each version
  values,           \* parameter_values: how many versions
  activations,      \* parameter_activations
  terminations,     \* parameter_activation_terminations: 0, none
  configurationReceipts, \* operation_receipts: the command, which the fingerprint is of
  command,          \* per request: the command, and how far it is
  effects           \* history, per operation: how often its effect was committed

configurationVars == <<dictionaryDraft, dictionary, values, activations, terminations,
                       configurationReceipts, command, effects>>
configuration == <<dictionaryDraft, dictionary, values, activations, terminations>>

NoPublication == [kind |-> "none"]
NoCommand == [stage |-> "idle"]
Releases == 1 .. MaxRelease

ConfigurationTypeOK ==
  /\ dictionaryDraft \in [revision : 0 .. MaxRelease, items : SUBSET Codes]
  /\ dictionary \in [Releases -> {NoPublication} \cup [codes : SUBSET Codes]]
  /\ values \in 0 .. MaxRelease
  /\ activations \in [ActivationIds -> {NoPublication} \cup [scope : Scopes, from : Times, to : Times]]
  /\ terminations \in [ActivationIds -> Times]
  /\ configurationReceipts \in [ConfigurationOperations -> {NoPublication} \cup ConfigurationCommands]
  /\ command \in [ConfigurationRequests -> {NoCommand} \cup
       [stage : {"operation", "resource", "commit"}, command : ConfigurationCommands]]
  /\ effects \in [ConfigurationOperations -> Nat]

ConfigurationInit ==
  /\ dictionaryDraft = [revision |-> 0, items |-> {}]
  /\ dictionary = [v \in Releases |-> NoPublication]
  /\ values = 0
  /\ activations = [a \in ActivationIds |-> NoPublication]
  /\ terminations = [a \in ActivationIds |-> 0]
  /\ configurationReceipts = [o \in ConfigurationOperations |-> NoPublication]
  /\ command = [r \in ConfigurationRequests |-> NoCommand]
  /\ effects = [o \in ConfigurationOperations |-> 0]

-----------------------------------------------------------------------------
(* Locks.                                                                  *)

Handling(r, s) == command' = [command EXCEPT ![r].stage = s]
Ends(r) == command' = [command EXCEPT ![r] = NoCommand]

LockOf(c) ==
  CASE c.kind \in {"draft", "dictionary"} -> "dictionary"
    [] c.kind = "value" -> "parameter"
    [] c.kind = "activate" -> c.scope
    [] OTHER -> activations[c.id].scope

OperationFree(r) ==
  \A q \in ConfigurationRequests \ {r} :
    command[q].stage \in {"resource", "commit"} => command[q].command.op # command[r].command.op

ResourceFree(r) ==
  \A q \in ConfigurationRequests \ {r} :
    command[q].stage = "commit" => LockOf(command[q].command) # LockOf(command[r].command)

-----------------------------------------------------------------------------
(* What a command needs and does.                                          *)

Published == {v \in Releases : dictionary[v] # NoPublication}
NextRelease == CHOOSE v \in 1 .. MaxRelease + 1 : v \notin Published /\ \A w \in Published : w < v

ContainsAll == \A v \in Published : dictionary[v].codes \subseteq dictionaryDraft.items

End(a) ==
  IF terminations[a] # 0 /\ terminations[a] < activations[a].to THEN terminations[a]
                                                                ELSE activations[a].to

Overlaps(a, c) ==
  activations[a] # NoPublication /\ activations[a].scope = c.scope
    /\ activations[a].from < c.to /\ c.from < End(a)

Allowed(c) ==
  CASE c.kind = "draft" -> dictionaryDraft.revision = c.revision /\ c.revision < MaxRelease
    [] c.kind = "dictionary" ->
         dictionaryDraft.revision = c.revision /\ c.revision > 0 /\ ContainsAll /\ NextRelease <= MaxRelease
    [] c.kind = "value" -> values < MaxRelease
    [] c.kind = "activate" -> ~\E a \in ActivationIds : Overlaps(a, c)
    [] OTHER -> activations[c.id].from < c.to /\ c.to <= activations[c.id].to

(* Keys are unique: of activations, and of terminations per activation.    *)
Unique(c) ==
  CASE c.kind = "activate" -> activations[c.id] = NoPublication
    [] c.kind = "terminate" -> terminations[c.id] = 0
    [] OTHER -> TRUE

Apply(c) ==
  CASE c.kind = "draft" ->
         /\ dictionaryDraft' = [revision |-> dictionaryDraft.revision + 1, items |-> c.items]
         /\ UNCHANGED <<dictionary, values, activations, terminations>>
    [] c.kind = "dictionary" ->
         /\ dictionary' = [dictionary EXCEPT ![NextRelease] = [codes |-> dictionaryDraft.items]]
         /\ UNCHANGED <<dictionaryDraft, values, activations, terminations>>
    [] c.kind = "value" ->
         /\ values' = values + 1
         /\ UNCHANGED <<dictionaryDraft, dictionary, activations, terminations>>
    [] c.kind = "activate" ->
         /\ activations' = [activations EXCEPT ![c.id] = [scope |-> c.scope, from |-> c.from, to |-> c.to]]
         /\ UNCHANGED <<dictionaryDraft, dictionary, values, terminations>>
    [] OTHER ->
         /\ terminations' = [terminations EXCEPT ![c.id] = c.to]
         /\ UNCHANGED <<dictionaryDraft, dictionary, values, activations>>

-----------------------------------------------------------------------------
(* A command.                                                              *)

Begin(r, c) ==
  /\ command[r] = NoCommand
  /\ command' = [command EXCEPT ![r] = [stage |-> "operation", command |-> c]]
  /\ UNCHANGED <<configuration, configurationReceipts, effects>>

(* A receipt ends the command: with its result, or as a conflict.          *)
LockOperation(r) ==
  /\ command[r].stage = "operation" /\ OperationFree(r)
  /\ IF configurationReceipts[command[r].command.op] # NoPublication THEN Ends(r) ELSE Handling(r, "resource")
  /\ UNCHANGED <<configuration, configurationReceipts, effects>>

LockResource(r) ==
  /\ command[r].stage = "resource"
  /\ LET c == command[r].command
     IN /\ c.kind = "terminate" => activations[c.id] # NoPublication
        /\ ResourceFree(r) /\ Allowed(c)
  /\ Handling(r, "commit")
  /\ UNCHANGED <<configuration, configurationReceipts, effects>>

CommitConfiguration(r) ==
  /\ command[r].stage = "commit" /\ Unique(command[r].command)
  /\ Apply(command[r].command)
  /\ configurationReceipts' = [configurationReceipts EXCEPT ![command[r].command.op] = command[r].command]
  /\ effects' = [effects EXCEPT ![command[r].command.op] = @ + 1]
  /\ Ends(r)

(* A conflict, a lost connection or a crash rolls the transaction back.    *)
RollBack(r) ==
  /\ command[r] # NoCommand
  /\ Ends(r)
  /\ UNCHANGED <<configuration, configurationReceipts, effects>>

ConfigurationNext ==
  \E r \in ConfigurationRequests :
    \/ LockOperation(r) \/ LockResource(r) \/ CommitConfiguration(r) \/ RollBack(r)
    \/ \E c \in ConfigurationCommands : Begin(r, c)

ConfigurationSpec == ConfigurationInit /\ [][ConfigurationNext]_configurationVars

-----------------------------------------------------------------------------
(* Properties.                                                             *)

(* At any time at most one activation of a scope is in effect, however     *)
(* activations and terminations race.                                      *)
ActivationsDoNotOverlap ==
  \A a, b \in ActivationIds :
    a # b /\ activations[a] # NoPublication /\ activations[b] # NoPublication
      /\ activations[a].scope = activations[b].scope
    => End(a) <= activations[b].from \/ End(b) <= activations[a].from

(* A code that was ever published is in every later release.               *)
CodesAreKept ==
  \A v, w \in Published : v < w => dictionary[v].codes \subseteq dictionary[w].codes

(* A command takes effect at most once under its operation id.             *)
EffectOnce == \A o \in ConfigurationOperations : effects[o] <= 1
=============================================================================
