--------------------------- MODULE PlatformProofs ---------------------------
(***************************************************************************)
(* What the components that share no state promise together, for every     *)
(* value of the constants. A step of the platform is a step of each of its *)
(* components or leaves it as it is, so an invariant of a component is one *)
(* of the platform.                                                        *)
(***************************************************************************)
EXTENDS Platform, CallsProofs, ServiceProofs, ProcessProofs, RecordProofs

(* A step exercises one part, and the others rest.                         *)
LEMMA CallsStep ==
  ASSUME [PlatformNext]_platformVars
  PROVE  /\ [IntegrationNext]_callVars /\ [AiNext]_aiVars
         /\ [WorkflowNext]_workflowVars /\ [WebhookNext]_webhookVars
<1>1. CASE UNCHANGED platformVars
  BY <1>1 DEF platformVars
<1>2. CASE PlatformNext
  <2>1. [IntegrationNext]_callVars
    BY <1>2 DEF PlatformNext, Only
  <2>2. [AiNext]_aiVars
    BY <1>2 DEF PlatformNext, Only
  <2>3. [WorkflowNext]_workflowVars
    BY <1>2 DEF PlatformNext, Only
  <2>4. [WebhookNext]_webhookVars
    BY <1>2 DEF PlatformNext, Only
  <2> QED
    BY <2>1, <2>2, <2>3, <2>4
<1> QED
  BY <1>1, <1>2

(* Provider calls, model calls, workflow commands and webhooks, whatever   *)
(* the others do: slots, circuit, budget, engine and acceptance as above,  *)
(* when the store keeps what it accepted for longer than a delivery lasts. *)
THEOREM CallsKeepTheirWord ==
  ASSUME RetentionCoversDelay
  PROVE  PlatformSpec => []CallsAreSound
<1> DEFINE Inv == CallsInv /\ AiInv /\ WorkflowInv /\ WebhookInv
<1>1. PlatformInit => Inv
  BY IntegrationStarts, AiStarts, WorkflowStarts, WebhookStarts DEF PlatformInit
<1>2. Inv /\ [PlatformNext]_platformVars => Inv'
  BY CallsStep, IntegrationGoesOn, AiGoesOn, WorkflowGoesOn, WebhookGoesOn
<1>3. Inv => CallsAreSound
  BY CallsInvParts, AiMeans, WorkflowMeans DEF CallsAreSound, WebhookInv, CallsInv
<1> HIDE DEF Inv
<1> QED
  BY <1>1, <1>2, <1>3, PTL DEF PlatformSpec

(* A step of the realtime server, of its source, of the workbench's socket,*)
(* of administration or of the audited operations is all there is to them. *)
LEMMA ServicesStep ==
  ASSUME [PlatformNext]_platformVars
  PROVE  /\ [RealtimeNext]_realtimeVars /\ [RealtimeSourceNext]_sourceVars
         /\ [CollectionPollingNext]_pollingVars
         /\ [AdministrationNext]_adminVars /\ [WorkforceNext]_workforceVars
         /\ [OperationsNext]_operationVars
<1>1. CASE UNCHANGED platformVars
  BY <1>1 DEF platformVars
<1>2. CASE PlatformNext
  <2>1. [RealtimeNext]_realtimeVars
    BY <1>2 DEF PlatformNext, Only
  <2>2. [RealtimeSourceNext]_sourceVars
    BY <1>2 DEF PlatformNext, Only
  <2>3. [CollectionPollingNext]_pollingVars
    BY <1>2 DEF PlatformNext, Only
  <2>4. [AdministrationNext]_adminVars
    BY <1>2 DEF PlatformNext, Only
  <2>5. [WorkforceNext]_workforceVars
    BY <1>2 DEF PlatformNext, Only
  <2>6. [OperationsNext]_operationVars
    BY <1>2 DEF PlatformNext, Only
  <2> QED
    BY <2>1, <2>2, <2>3, <2>4, <2>5, <2>6
<1> QED
  BY <1>1, <1>2

(* Realtime: connections are bounded, what is skipped was sent, and the    *)
(* source and the workbench's socket go on being tried, one at a time.     *)
THEOREM RealtimeKeepsUp == PlatformSpec => []RealtimeIsSound
<1> DEFINE Inv == RealtimeInv /\ SourceInv /\ PollingInv
<1>1. PlatformInit => Inv
  BY RealtimeStarts, SourceStarts, PollingStarts DEF PlatformInit
<1>2. Inv /\ [PlatformNext]_platformVars => Inv'
  BY ServicesStep, RealtimeGoesOn, SourceGoesOnSoundly, PollingGoesOnSoundly
<1>3. Inv => RealtimeIsSound
  BY DEF RealtimeIsSound, RealtimeInv, SourceInv, PollingInv
<1> HIDE DEF Inv
<1> QED
  BY <1>1, <1>2, <1>3, PTL DEF PlatformSpec

(* Administration: an administrator remains, effects are had once, accounts*)
(* stay whole, and what is answered is decided and on record.              *)
THEOREM AdministrationKeepsOrder == PlatformSpec => []AdministrationIsSound
<1> DEFINE Inv == AdministrationInv /\ WorkforceInv /\ OperationsInv
<1>1. PlatformInit => Inv
  BY AdministrationStarts, WorkforceStarts, OperationsStart DEF PlatformInit
<1>2. Inv /\ [PlatformNext]_platformVars => Inv'
  BY ServicesStep, AdministrationGoesOn, WorkforceGoesOn, OperationsGoOn
<1>3. Inv => AdministrationIsSound
  BY WorkforceMeans, OperationsMean DEF AdministrationIsSound, AdministrationInv
<1> HIDE DEF Inv
<1> QED
  BY <1>1, <1>2, <1>3, PTL DEF PlatformSpec

(* A step of a session, of a request, of a shell or of a dialog is all     *)
(* there is to them.                                                       *)
LEMMA SignInStep ==
  ASSUME [PlatformNext]_platformVars
  PROVE  /\ [SessionsNext]_sessionVars /\ [HttpNext]_httpVars
         /\ [WorkbenchNext]_workbenchVars
         /\ [EditNext(Editable) \/ PasswordsNext \/ MergeNext]_editorVars
<1>1. CASE UNCHANGED platformVars
  BY <1>1 DEF platformVars
<1>2. CASE PlatformNext
  <2>1. [SessionsNext]_sessionVars
    BY <1>2 DEF PlatformNext, Only
  <2>2. [HttpNext]_httpVars
    BY <1>2 DEF PlatformNext, Only
  <2>3. [WorkbenchNext]_workbenchVars
    BY <1>2 DEF PlatformNext, Only
  <2>4. [EditNext(Editable) \/ PasswordsNext \/ MergeNext]_editorVars
    <3>1. EditNext(DialogRows) \/ EditNext(Templates) => EditNext(Editable)
      BY DEF EditNext, Editable
    <3>2. \/ EditNext(DialogRows) \/ EditNext(Templates) \/ PasswordsNext \/ MergeNext
          \/ UNCHANGED editorVars
      BY <1>2 DEF PlatformNext, Only
    <3> QED
      BY <3>1, <3>2
  <2> QED
    BY <2>1, <2>2, <2>3, <2>4
<1> QED
  BY <1>1, <1>2

(* Signing in: one session of a browser, an account's revision vouches for *)
(* it, what a request is answered is true, a shell shows its own, and what *)
(* a dialog saves was seen.                                                *)
THEOREM SignInHolds == PlatformSpec => []SignInIsSound
<1> DEFINE Inv == SessionsInv /\ HttpInv /\ WorkbenchInv /\ EditorsInv
<1>1. PlatformInit => Inv
  BY SessionsStarts, HttpStarts, WorkbenchStarts, EditorsStart DEF PlatformInit
<1>2. Inv /\ [PlatformNext]_platformVars => Inv'
  BY SignInStep, SessionsGoOn, HttpGoesOn, WorkbenchGoesOn, EditorsGoOn
<1>3. Inv => SignInIsSound
  BY HttpMeans, WorkbenchMeans, EditorsMean DEF SignInIsSound, SessionsInv, HttpInv
<1> HIDE DEF Inv
<1> QED
  BY <1>1, <1>2, <1>3, PTL DEF PlatformSpec

(* A step of a process, of a script, of a transaction or of a migration is *)
(* all there is to them.                                                   *)
LEMMA ProcessesStep ==
  ASSUME [PlatformNext]_platformVars
  PROVE  /\ [WorkerNext]_workerVars
         /\ [ResourcesNext]_resourceVars
         /\ [AdapterNext]_adapterVars
         /\ [ApiNext]_apiVars
         /\ [BindingsNext]_bindingVars
         /\ [ReadinessNext]_readyVars
         /\ [LocalNext]_localVars
         /\ [HarnessNext]_harnessVars
         /\ [TransactionsNext]_transactionVars
         /\ [PoolNext]_poolVars
         /\ [MigrationsNext]_migrationVars
<1>1. CASE UNCHANGED platformVars
  BY <1>1 DEF platformVars
<1>2. CASE PlatformNext
  <2>1. [WorkerNext]_workerVars
    BY <1>2 DEF PlatformNext, Only
  <2>2. [ResourcesNext]_resourceVars
    BY <1>2 DEF PlatformNext, Only
  <2>3. [AdapterNext]_adapterVars
    BY <1>2 DEF PlatformNext, Only
  <2>4. [ApiNext]_apiVars
    BY <1>2 DEF PlatformNext, Only
  <2>5. [BindingsNext]_bindingVars
    BY <1>2 DEF PlatformNext, Only
  <2>6. [ReadinessNext]_readyVars
    BY <1>2 DEF PlatformNext, Only
  <2>7. [LocalNext]_localVars
    BY <1>2 DEF PlatformNext, Only
  <2>8. [HarnessNext]_harnessVars
    BY <1>2 DEF PlatformNext, Only
  <2>9. [TransactionsNext]_transactionVars
    BY <1>2 DEF PlatformNext, Only
  <2>10. [PoolNext]_poolVars
    BY <1>2 DEF PlatformNext, Only
  <2>11. [MigrationsNext]_migrationVars
    BY <1>2 DEF PlatformNext, Only
  <2> QED
    BY <2>1, <2>2, <2>3, <2>4, <2>5, <2>6, <2>7, <2>8, <2>9, <2>10, <2>11
<1> QED
  BY <1>1, <1>2

(* Processes: one generation of handlers, consumers that end with their    *)
(* adapter, readiness that is true and present, connections that are given *)
(* back, and installations whose secrets open them.                        *)
THEOREM ProcessesHold == PlatformSpec => []ProcessesAreSound
<1> DEFINE Inv == /\ WorkerInv /\ ResourcesInv /\ AdapterInv /\ ApiInv
                  /\ BindingsInv /\ ReadinessInv /\ LocalInv /\ HarnessInv
<1>1. PlatformInit => Inv
  BY WorkerStarts, ResourcesStart, AdapterStarts, ApiStartsSoundly, BindingsStart, ReadinessStarts,
     LocalStarts, HarnessStarts DEF PlatformInit
<1>2. Inv /\ [PlatformNext]_platformVars => Inv'
  BY ProcessesStep, WorkerGoesOn, ResourcesGoOn, AdapterGoesOn, ApiGoesOn, BindingsGoOn,
     ReadinessGoesOn, LocalGoesOn, HarnessGoesOn
<1>3. Inv => ProcessesAreSound
  BY WorkerMeans, ResourcesMean, AdapterMeans, ApiMeans, BindingsMean, ReadinessMeans, LocalMeans,
     HarnessMeans DEF ProcessesAreSound
<1> HIDE DEF Inv
<1> QED
  BY <1>1, <1>2, <1>3, PTL DEF PlatformSpec

(* A step of what is kept on record is all there is to it. The outbox also *)
(* moves alone, as another part, and the part does not change.             *)
LEMMA RecordsStep ==
  ASSUME [PlatformNext]_platformVars
  PROVE  /\ [ConfigurationNext]_configurationVars
         /\ [FormSchemaNext]_formVars
         /\ [OrganizationNext]_organizationVars
         /\ [FactsNext]_factVars
         /\ [DirectoryNext]_directoryVars
         /\ [NotificationsNext]_notificationVars
         /\ part' = part
         /\ part = "delivery" => [DeliveringNext]_deliveringVars
<1>1. CASE UNCHANGED platformVars
  BY <1>1 DEF platformVars
<1>2. CASE PlatformNext
  <2>1. [ConfigurationNext]_configurationVars
    BY <1>2 DEF PlatformNext, Only
  <2>2. [FormSchemaNext]_formVars
    BY <1>2 DEF PlatformNext, Only
  <2>3. [OrganizationNext]_organizationVars
    BY <1>2 DEF PlatformNext, Only
  <2>4. [FactsNext]_factVars
    BY <1>2 DEF PlatformNext, Only
  <2>5. [DirectoryNext]_directoryVars
    BY <1>2 DEF PlatformNext, Only
  <2>6. [NotificationsNext]_notificationVars
    <3>1. CASE part = "templates"
      BY <1>2, <3>1 DEF PlatformNext, NotificationsNext
    <3>2. CASE part = "intents"
      <4>1. 1 \in Versions /\ [text |-> text1, at |-> activation1] \in TemplateRelease
        BY ReleaseAssumption, NotificationsAssumption DEF Versions, TemplateRelease
      <4>2. \/ PublishTemplate(1, [text |-> text1, at |-> activation1])
            \/ ActivateTemplate(activation1, 1)
            => ReleaseNext
        BY <4>1, ReleaseAssumption DEF ReleaseNext
      <4> QED
        BY <1>2, <3>2, <4>2 DEF PlatformNext, NotificationsNext
    <3>3. CASE part \notin {"templates", "intents"}
      BY <1>2, <3>3 DEF PlatformNext, Only
    <3> QED
      BY <3>1, <3>2, <3>3
  <2>7. part' = part
    BY <1>2 DEF PlatformNext
  <2>8. part = "delivery" => [DeliveringNext]_deliveringVars
    BY <1>2 DEF PlatformNext, Only
  <2> QED
    BY <2>1, <2>2, <2>3, <2>4, <2>5, <2>6, <2>7, <2>8
<1> QED
  BY <1>1, <1>2

(* Records: no draft, result, activation, placement, release, fact,        *)
(* migration or delivery is lost, doubled or contradicted by what runs at  *)
(* the same time, and a transaction is reported as it ended.               *)
THEOREM RecordsHold == PlatformSpec => []RecordsAreSound
<1> DEFINE Delivers == part = "delivery" => DeliveringInv
           Inv == /\ NotificationsInv /\ ConfigurationInv /\ OrganizationInv /\ FactsInv
                  /\ TransactionsInv /\ PoolInv /\ MigrationsInv /\ AiInv /\ FormSchemaInv
                  /\ DirectoryInv /\ Delivers
<1>1. PlatformInit => Inv
  BY NotificationsStart, ConfigurationStarts, OrganizationStarts, FactsStart, TransactionsStart,
     PoolStarts, MigrationsStart, AiStarts, FormSchemaStarts, DirectoryStarts, DeliveringStarts
  DEF PlatformInit
<1>2. Inv /\ [PlatformNext]_platformVars => Inv'
  <2> SUFFICES ASSUME Inv, [PlatformNext]_platformVars PROVE Inv'
    OBVIOUS
  <2>1. Delivers'
    BY RecordsStep, DeliveringGoesOn
  <2>2. NotificationsInv' /\ ConfigurationInv' /\ OrganizationInv' /\ FactsInv'
    BY RecordsStep, NotificationsGoOn, ConfigurationGoesOn, OrganizationGoesOn, FactsGoOn
  <2>3. TransactionsInv' /\ PoolInv' /\ MigrationsInv' /\ AiInv'
    BY ProcessesStep, CallsStep, TransactionsGoOn, PoolGoesOn, MigrationsGoOn, AiGoesOn
  <2>4. FormSchemaInv' /\ DirectoryInv'
    BY RecordsStep, FormSchemaGoesOn, DirectoryGoesOn
  <2> QED
    BY <2>1, <2>2, <2>3, <2>4
<1>3. Inv => RecordsAreSound
  BY NotificationsMean, ConfigurationMeans, OrganizationMeans, FactsMean, TransactionsMean,
     PoolMeans, MigrationsMean, AiMeans, FormSchemaMeans, DirectoryMeans, DeliveringMeans
  DEF RecordsAreSound
<1> HIDE DEF Inv
<1> QED
  BY <1>1, <1>2, <1>3, PTL DEF PlatformSpec

(* The state of every component keeps its type, that of webhooks whatever  *)
(* their store keeps.                                                      *)
THEOREM PlatformTypeCorrect == PlatformSpec => []PlatformTypeOK
<1> DEFINE Called == CallsInv /\ AiInv /\ WorkflowInv /\ WebhookTypeOK
           Served == /\ RealtimeInv /\ SourceInv /\ PollingInv /\ AdministrationInv
                     /\ WorkforceInv /\ OperationsInv /\ SessionsInv /\ HttpInv
                     /\ WorkbenchInv /\ EditorsInv /\ SavesTyped
           Run == /\ WorkerInv /\ ResourcesInv /\ AdapterInv /\ ApiInv /\ BindingsInv
                  /\ ReadinessInv /\ LocalInv /\ HarnessInv
                  /\ TransactionsInv /\ PoolInv /\ MigrationsInv
           Recorded == /\ NotificationsInv /\ ConfigurationInv /\ OrganizationInv /\ FactsInv
                       /\ FormSchemaInv /\ DirectoryInv
                       /\ (part = "delivery" => DeliveringInv) /\ part \in Parts
           Inv == Called /\ Served /\ Run /\ Recorded
<1>1. PlatformInit => Inv
  <2> SUFFICES ASSUME PlatformInit PROVE Inv
    OBVIOUS
  <2>1. Called
    BY IntegrationStarts, AiStarts, WorkflowStarts, WebhookStarts DEF PlatformInit, WebhookInv
  <2>2. SavesTyped
    BY FS_EmptySet DEF PlatformInit, EditorsInit, SavesTyped
  <2>3. Served
    BY <2>2, RealtimeStarts, SourceStarts, PollingStarts, AdministrationStarts, WorkforceStarts,
       OperationsStart, SessionsStarts, HttpStarts, WorkbenchStarts, EditorsStart
    DEF PlatformInit
  <2>4. Run
    BY WorkerStarts, ResourcesStart, AdapterStarts, ApiStartsSoundly, BindingsStart,
       ReadinessStarts, LocalStarts, HarnessStarts, TransactionsStart, PoolStarts, MigrationsStart
    DEF PlatformInit
  <2>5. Recorded
    BY NotificationsStart, ConfigurationStarts, OrganizationStarts, FactsStart, FormSchemaStarts,
       DirectoryStarts, DeliveringStarts DEF PlatformInit
  <2> QED
    BY <2>1, <2>3, <2>4, <2>5
<1>2. Inv /\ [PlatformNext]_platformVars => Inv'
  <2> SUFFICES ASSUME Inv, [PlatformNext]_platformVars PROVE Inv'
    OBVIOUS
  <2>1. Called'
    BY CallsStep, IntegrationGoesOn, AiGoesOn, WorkflowGoesOn, WebhooksStayTyped
  <2>2. SavesTyped'
    BY SignInStep, SavesStayTyped
  <2>3. /\ RealtimeInv' /\ SourceInv' /\ PollingInv'
        /\ AdministrationInv' /\ WorkforceInv' /\ OperationsInv'
    BY ServicesStep, RealtimeGoesOn, SourceGoesOnSoundly, PollingGoesOnSoundly,
       AdministrationGoesOn, WorkforceGoesOn, OperationsGoOn
  <2>4. SessionsInv' /\ HttpInv' /\ WorkbenchInv' /\ EditorsInv'
    BY SignInStep, SessionsGoOn, HttpGoesOn, WorkbenchGoesOn, EditorsGoOn
  <2>5. Run'
    BY ProcessesStep, WorkerGoesOn, ResourcesGoOn, AdapterGoesOn, ApiGoesOn, BindingsGoOn,
       ReadinessGoesOn, LocalGoesOn, HarnessGoesOn, TransactionsGoOn, PoolGoesOn, MigrationsGoOn
  <2>6. Recorded'
    BY RecordsStep, NotificationsGoOn, ConfigurationGoesOn, OrganizationGoesOn, FactsGoOn,
       FormSchemaGoesOn, DirectoryGoesOn, DeliveringGoesOn
  <2> QED
    BY <2>1, <2>2, <2>3, <2>4, <2>5, <2>6
<1>3. Inv => PlatformTypeOK
  <2> SUFFICES ASSUME Inv PROVE PlatformTypeOK
    OBVIOUS
  <2>1. IntegrationTypeOK /\ AiTypeOK /\ WorkflowTypeOK /\ WebhookTypeOK
    BY DEF CallsInv, AiInv, WorkflowInv
  <2>2. /\ RealtimeTypeOK /\ RealtimeSourceTypeOK /\ CollectionPollingTypeOK
        /\ AdministrationTypeOK /\ WorkforceTypeOK /\ OperationsTypeOK
    BY DEF RealtimeInv, SourceInv, PollingInv, AdministrationInv, WorkforceInv, OperationsInv
  <2>3. SessionsTypeOK /\ HttpTypeOK /\ WorkbenchTypeOK /\ EditorsTypeOK
    BY EditorsAreTyped DEF SessionsInv, HttpInv, WorkbenchInv
  <2>4. /\ WorkerTypeOK /\ ResourcesTypeOK /\ AdapterTypeOK /\ ApiTypeOK /\ BindingsTypeOK
        /\ ReadinessTypeOK /\ LocalTypeOK /\ HarnessTypeOK
        /\ TransactionsTypeOK /\ PoolTypeOK /\ MigrationsTypeOK
    BY WorkerMeans, ResourcesMean, AdapterMeans, ApiMeans, BindingsMean, ReadinessMeans,
       LocalMeans, HarnessMeans, TransactionsMean, PoolMeans, MigrationsMean
  <2>5. /\ NotificationsTypeOK /\ ConfigurationTypeOK /\ OrganizationTypeOK /\ FactsTypeOK
        /\ FormSchemaTypeOK /\ DirectoryTypeOK /\ part \in Parts
        /\ part = "delivery" => Outbox!TypeOK /\ Inbox!TypeOK
    BY NotificationsMean, ConfigurationMeans, OrganizationMeans, FactsMean, FormSchemaMeans,
       DirectoryMeans, DeliveringMeans
  <2> QED
    BY <2>1, <2>2, <2>3, <2>4, <2>5 DEF PlatformTypeOK
<1> HIDE DEF Inv
<1> QED
  BY <1>1, <1>2, <1>3, PTL DEF PlatformSpec
=============================================================================
