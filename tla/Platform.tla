------------------------------ MODULE Platform ------------------------------
(***************************************************************************)
(* The components that share no state, together. "part" says which one the *)
(* behaviour exercises, and the others rest in their initial states: their *)
(* behaviours are the sum of those of the components and not the product.  *)
(* Templates and intents are two parts of one component: intents only need *)
(* some release to be current; the outbox is the one of the delivery,      *)
(* without the inbox. Two components whose operators recur, the compilation*)
(* of statements and telemetry, are added where TLC checks all of them.    *)
(***************************************************************************)
EXTENDS IntegrationRuntime, Sessions, Administration, Realtime,
        WorkerLifecycle, ConsumerAdapter, ApiLifecycle, Readiness,
        Notifications, BusinessConfiguration, Organization, Transactions,
        Migrations, Delivery, AiGateway, FormSchema, Workflow, Workforce,
        HttpRequests, WorkbenchSession, LocalBootstrap, AuditedOperations,
        Directory, WorkbenchEditors, IntegrationHarness

CONSTANTS Parts,               \* the parts there are
          text1, activation1   \* the release that intents are submitted under

ASSUME ReleaseAssumption == text1 \in Texts /\ activation1 \in Activations

VARIABLE part

platformVars == <<part, callVars, sessionVars, adminVars, realtimeVars, workerVars, adapterVars,
                  apiVars, readyVars, notificationVars, configurationVars, organizationVars,
                  transactionVars, migrationVars, deliveringVars, aiVars, sourceVars, formVars,
                  workflowVars, workforceVars, pollingVars, webhookVars, resourceVars, httpVars,
                  workbenchVars, localVars, operationVars, directoryVars, editorVars, harnessVars,
                  factVars, poolVars, bindingVars>>

PlatformInit ==
  /\ part \in Parts
  /\ IntegrationInit /\ SessionsInit /\ AdministrationInit /\ RealtimeInit
  /\ WorkerInit /\ AdapterInit /\ ApiInit /\ ReadinessInit
  /\ NotificationsInit /\ ConfigurationInit /\ OrganizationInit
  /\ TransactionsInit /\ MigrationsInit /\ DeliveringInit /\ AiInit /\ RealtimeSourceInit
  /\ FormSchemaInit /\ WorkflowInit /\ WorkforceInit /\ CollectionPollingInit /\ WebhookInit
  /\ ResourcesInit /\ HttpInit /\ WorkbenchInit /\ LocalInit
  /\ OperationsInit /\ DirectoryInit /\ EditorsInit /\ HarnessInit /\ FactsInit
  /\ PoolInit /\ BindingsInit

Only(p, vars) == part \notin p => UNCHANGED vars

PlatformNext ==
  /\ UNCHANGED part
  /\ \/ part = "calls" /\ IntegrationNext
     \/ part = "sessions" /\ SessionsNext
     \/ part = "administration" /\ AdministrationNext
     \/ part = "realtime" /\ RealtimeNext
     \/ part = "worker" /\ WorkerNext
     \/ part = "adapter" /\ AdapterNext
     \/ part = "api" /\ ApiNext
     \/ part = "readiness" /\ ReadinessNext
     \/ part = "templates" /\ (DraftNext \/ ReleaseNext)
     \/ part = "intents" /\ \/ PublishTemplate(1, [text |-> text1, at |-> activation1])
                            \/ ActivateTemplate(activation1, 1)
                            \/ IntentNext
                            \/ RecipientNext
     \/ part = "configuration" /\ ConfigurationNext
     \/ part = "organization" /\ OrganizationNext
     \/ part = "transactions" /\ TransactionsNext
     \/ part = "migrations" /\ MigrationsNext
     \/ part = "delivery" /\ DeliveringNext
     \/ part = "outbox" /\ Outbox!Next /\ UNCHANGED inboxVars
     \/ part = "ai" /\ AiNext
     \/ part = "source" /\ RealtimeSourceNext
     \/ part = "forms" /\ FormSchemaNext
     \/ part = "workflow" /\ WorkflowNext
     \/ part = "workforce" /\ WorkforceNext
     \/ part = "polling" /\ CollectionPollingNext
     \/ part = "webhooks" /\ WebhookNext
     \/ part = "resources" /\ ResourcesNext
     \/ part = "http" /\ HttpNext
     \/ part = "workbench" /\ WorkbenchNext
     \/ part = "local" /\ LocalNext
     \/ part = "operations" /\ OperationsNext
     \/ part = "directory" /\ DirectoryNext
     \/ part = "dialogs" /\ EditNext(DialogRows)
     \/ part = "editors" /\ EditNext(Templates)
     \/ part = "passwords" /\ PasswordsNext
     \/ part = "drafts" /\ MergeNext
     \/ part = "harness" /\ HarnessNext
     \/ part = "employments" /\ FactsNext
     \/ part = "pool" /\ PoolNext
     \/ part = "bindings" /\ BindingsNext
  /\ Only({"calls"}, callVars)
  /\ Only({"sessions"}, sessionVars)
  /\ Only({"administration"}, adminVars)
  /\ Only({"realtime"}, realtimeVars)
  /\ Only({"worker"}, workerVars)
  /\ Only({"adapter"}, adapterVars)
  /\ Only({"api"}, apiVars)
  /\ Only({"readiness"}, readyVars)
  /\ Only({"templates", "intents"}, notificationVars)
  /\ Only({"configuration"}, configurationVars)
  /\ Only({"organization"}, organizationVars)
  /\ Only({"transactions"}, transactionVars)
  /\ Only({"migrations"}, migrationVars)
  /\ Only({"delivery", "outbox"}, deliveringVars)
  /\ Only({"ai"}, aiVars)
  /\ Only({"source"}, sourceVars)
  /\ Only({"forms"}, formVars)
  /\ Only({"workflow"}, workflowVars)
  /\ Only({"workforce"}, workforceVars)
  /\ Only({"polling"}, pollingVars)
  /\ Only({"webhooks"}, webhookVars)
  /\ Only({"resources"}, resourceVars)
  /\ Only({"http"}, httpVars)
  /\ Only({"workbench"}, workbenchVars)
  /\ Only({"local"}, localVars)
  /\ Only({"operations"}, operationVars)
  /\ Only({"directory"}, directoryVars)
  /\ Only({"dialogs", "editors", "passwords", "drafts"}, editorVars)
  /\ Only({"harness"}, harnessVars)
  /\ Only({"employments"}, factVars)
  /\ Only({"pool"}, poolVars)
  /\ Only({"bindings"}, bindingVars)

PlatformSpec == PlatformInit /\ [][PlatformNext]_platformVars

(* The fairness of the components, which is stated of the part that moves. *)
PartFairness ==
  /\ \A c \in Calls : /\ WF_callVars(part = "calls" /\ CallGoesOn(c))
                      /\ WF_callVars(part = "calls" /\ Expire(c))
  /\ \A k \in Connections : WF_realtimeVars(part = "realtime" /\ TimerGoesOn(k))
  /\ WF_workerVars(part = "worker" /\ StopNext) /\ WF_workerVars(part = "worker" /\ CleanupNext)
  /\ WF_apiVars(part = "api" /\ Bind) /\ WF_apiVars(part = "api" /\ ApiStops)
  /\ WF_sourceVars(part = "source" /\ SourceGoesOn)
  /\ WF_pollingVars(part = "polling" /\ FallBack) /\ WF_pollingVars(part = "polling" /\ Reconnect)
  /\ WF_pollingVars(part = "polling" /\ SocketSettles)
  /\ \A g \in Mounts : WF_pollingVars(part = "polling" /\ Refetched(g))
  /\ WF_resourceVars(part = "resources" /\ BootstrapGoesOn)
  /\ WF_resourceVars(part = "resources" /\ CloseGoesOn)
  /\ \A t \in Targets : WF_resourceVars(part = "resources" /\ ResourceAnswers(t))
  /\ WF_outboxVars(part = "outbox" /\ Outbox!Tick)
  /\ \A m \in Messages :
       /\ SF_outboxVars(\E p \in Senders : part = "outbox" /\ Claims(p, m))
       /\ SF_outboxVars(\E p \in Senders :
                          part = "outbox" /\ Outbox!Live(p, m) /\ Outbox!Transport(p, m))
       /\ SF_outboxVars(\E p \in Senders : part = "outbox" /\ Outbox!Mark(p, m))
  /\ \A p \in Senders, m \in Messages :
       WF_outboxVars(/\ part = "outbox"
                     /\ \/ Outbox!Transport(p, m)
                        \/ Outbox!Mark(p, m)
                        \/ Outbox!MarkRefused(p, m))
  /\ WF_workbenchVars(part = "workbench" /\ BootstrapSettles)
  /\ WF_workbenchVars(part = "workbench" /\ Authenticated)
  /\ WF_workbenchVars(part = "workbench" /\ CheckRefused)

-----------------------------------------------------------------------------
(* Properties. Each one joins properties of the components, which state    *)
(* what they mean; here it says of the part that moves that they hold.     *)

(* Every component's state keeps its type.                                 *)
PlatformTypeOK ==
  /\ part \in Parts
  /\ part = "calls" => IntegrationTypeOK
  /\ part = "sessions" => SessionsTypeOK
  /\ part = "administration" => AdministrationTypeOK
  /\ part = "realtime" => RealtimeTypeOK
  /\ part = "worker" => WorkerTypeOK
  /\ part = "adapter" => AdapterTypeOK
  /\ part = "api" => ApiTypeOK
  /\ part = "readiness" => ReadinessTypeOK
  /\ part \in {"templates", "intents"} => NotificationsTypeOK
  /\ part = "configuration" => ConfigurationTypeOK
  /\ part = "organization" => OrganizationTypeOK
  /\ part = "transactions" => TransactionsTypeOK
  /\ part = "migrations" => MigrationsTypeOK
  /\ part = "delivery" => Outbox!TypeOK /\ Inbox!TypeOK
  /\ part = "ai" => AiTypeOK
  /\ part = "source" => RealtimeSourceTypeOK
  /\ part = "forms" => FormSchemaTypeOK
  /\ part = "workflow" => WorkflowTypeOK
  /\ part = "workforce" => WorkforceTypeOK
  /\ part = "polling" => CollectionPollingTypeOK
  /\ part = "webhooks" => WebhookTypeOK
  /\ part = "resources" => ResourcesTypeOK
  /\ part = "http" => HttpTypeOK
  /\ part = "workbench" => WorkbenchTypeOK
  /\ part = "local" => LocalTypeOK
  /\ part = "operations" => OperationsTypeOK
  /\ part = "directory" => DirectoryTypeOK
  /\ part \in {"dialogs", "editors", "passwords", "drafts"} => EditorsTypeOK
  /\ part = "harness" => HarnessTypeOK
  /\ part = "employments" => FactsTypeOK
  /\ part = "pool" => PoolTypeOK
  /\ part = "bindings" => BindingsTypeOK

(* Provider calls: the slots of the limiter are taken by exactly the calls *)
(* that were granted one, calls wait only while all are taken, and the     *)
(* circuit opens at its threshold, whatever order answers, timeouts and    *)
(* late probes come in. A model is called, an engine written to and a      *)
(* webhook accepted once, however often each is asked or delivered.        *)
CallsAreSound ==
  /\ part = "calls" => SlotsAreExact /\ WaitOnlyWhenFull /\ ClosedBelowThreshold
  /\ part = "ai" => CalledOnce
  /\ part = "workflow" => EngineWritesOnce /\ FactsAreOutcomes
  /\ part = "webhooks" => AcceptedOnce

(* Sign-in: an account has one session, and a session that carries the     *)
(* account's revision was opened with its present password. A request is   *)
(* carried out only with a session, a permission and, if it changes        *)
(* something, a token that were good while it was handled, and its answer  *)
(* says what has happened. A tab shows the collections of the session it   *)
(* shows, and saves over nothing that its user has not seen.               *)
SignInIsSound ==
  /\ part = "sessions" => OneSession /\ RevisionVouches
  /\ part = "http" => /\ ServedWasVouched /\ RefusedHasNoEffect /\ ServedHasEffect
                      /\ SignedOutIsOver /\ LoggedOutIsOver
  /\ part = "workbench" => CollectionsAreTheirOwners
  /\ part \in {"dialogs", "editors"} => SavedOverSeen
  /\ part = "passwords" => CancelledStaysClosed
  /\ part = "drafts" => SubmittedIsAccepted

(* Administration: an active administrator remains although two deactivate *)
(* each other, and an operation has its effect once, with its record. An   *)
(* active account has one assignment with its role and no identifier that  *)
(* is another's. What the notification and task centres answer and change  *)
(* was decided by a role that was held, and is on record with one outcome. *)
AdministrationIsSound ==
  /\ part = "administration" => AnAdministratorRemains /\ OperationOnce
  /\ part = "workforce" => OneAssignment /\ IdentifiersLeadHome
  /\ part = "operations" => AnswersAreOnRecord /\ OneOutcome /\ RevokedIsDenied /\ TracesAreOwned

(* Realtime: the connections of a session are bounded, and an event is     *)
(* only skipped when something at least as new was sent. The source of the *)
(* events and the workbench's socket go on being tried, one at a time.     *)
RealtimeIsSound ==
  /\ part = "realtime" => ConnectionsAreBounded /\ SkippedWasSent
  /\ part = "source" => NeverGivesUp
  /\ part = "polling" => OneRunConnects

(* Processes: the worker never runs two generations of handlers, no        *)
(* consumer outlives its adapter, an API that is ready serves, what it is  *)
(* ready for was answered by the probes that run, and no connection of a   *)
(* worker is left open or closed twice. An installation is set up with the *)
(* secrets that are in its files, by commands that run together.           *)
ProcessesAreSound ==
  /\ part = "worker" => OneGeneration /\ RunningMeansAll /\ ContextIsOwned
  /\ part = "adapter" => WaitersAreWoken /\ NoConsumerIsLeft /\ ClosedWhenSettled
  /\ part = "api" => ReadyServes /\ ServersAreOwned
  /\ part = "readiness" => ReadyIsCurrent
  /\ part = "local" => SecretsOpenTheInstallation /\ BootstrapsDoNotCollide
  /\ part = "resources" => NoConnectionIsOrphaned /\ ClosedIsClosedOnce /\ ClosedIsQuiet
  /\ part = "harness" => TestedOnFinalServer /\ PassedLeavesNothing /\ SecretsAreRetained
  /\ part = "bindings" => FailedStartIsReleased /\ ServesOrIsReleased

(* Records: no draft, result, code, activation, placement, release, fact,  *)
(* migration or delivery is lost, doubled or contradicted by what runs at  *)
(* the same time, and a transaction is reported as it ended.               *)
RecordsAreSound ==
  /\ part \in {"templates", "intents"} =>
       NoLostDraft /\ CurrentWasActivated /\ OneResultPerKey /\ ChangesAreAnnounced
  /\ part = "configuration" => ActivationsDoNotOverlap /\ CodesAreKept /\ EffectOnce
  /\ part = "organization" => HierarchyIsSound /\ WrittenOnce
  /\ part = "transactions" => OutcomeIsTrue
  /\ part = "migrations" =>
       ExecutedOnce /\ ExecutedIsReviewed /\ MigratedIsFound /\ CompatibleIsMigrated
  /\ part = "delivery" => PublishedIsNotLost /\ OneEffectOfACommit
  /\ part = "ai" => ConfirmedIsRecorded /\ OneDecisionPerConfirmation
  /\ part = "forms" => DigestIsOfContent /\ NoEditIsLost /\ EffectsAreAudited /\ AnswersStayTrue
  /\ part = "directory" => NothingIsBelowItself /\ SiblingsDiffer /\ RootsStay /\ RevisionsAreKept
  /\ part = "employments" => EndedOnce /\ ContextIsVouched
  /\ part = "pool" => PooledIsClean /\ GivenBackOnce /\ AbortedIsNotCommitted

(* A provider call settles, a connection whose session is over is cut off, *)
(* the two processes end when they are told to and hold no connection that *)
(* keeps them, the source of events comes back, a workbench without a      *)
(* socket polls, no tab shows for ever a session that is over and a        *)
(* committed message is published or isolated, whatever the broker answers *)
(* and however often publishers die.                                       *)
PlatformSettles ==
  /\ CallsSettle /\ RevokedIsCut /\ ExitSettles /\ SignalEnds /\ SourceRecovers
  /\ PollsWithoutSocket
  /\ ProcessIsReleased /\ LostSessionIsLeft /\ Outbox!CommittedIsSettled
=============================================================================
