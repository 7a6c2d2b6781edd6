---------------------------- MODULE Notifications ----------------------------
(***************************************************************************)
(* packages/crm-modules/notifications: the drafts, releases and activations*)
(* of one template, the intents accepted under idempotency keys, and what  *)
(* a recipient does with a notification. The service reads before it calls *)
(* the store; every store operation is one transaction, which an advisory  *)
(* lock or the row it writes orders with its rivals.                       *)
(***************************************************************************)
EXTENDS Naturals, FiniteSets

CONSTANTS Texts,         \* contents of a template
          Drafting,      \* operation ids of saveTemplateDraft
          Activations,   \* activation ids
          Publishers,    \* publishTemplateDraft requests under way
          Submitters,    \* submitIntent requests under way
          IntentKeys,    \* producers with their idempotency keys
          Fingerprints,  \* intents
          Recipients,    \* recipients the resolver may resolve
          MaxVersion,    \* bound: releases of the template
          MaxDraftRevision    \* bound: revisions of its draft

ASSUME NotificationsAssumption == MaxVersion \in Nat \ {0} /\ MaxDraftRevision \in Nat

VARIABLES
  draft,      \* template_drafts: revision and text
  receipts,   \* template_draft_operations
  releases,   \* template_releases: per version its text and the time, which the digest covers
  history,    \* template_activation_history: per activation its version, 0: none
  current,    \* current_template_release
  publishing, \* per request: how far it is, and what it has read
  intents,    \* notification_intents: per key the fingerprint and the result
  submitting, \* per request: how far it is, and what it has resolved
  items,      \* in_app_notifications: per key and recipient read, archived, state version
  announced,  \* state versions of notifications for which an event was recorded
  accepted    \* history: results callers were told, by key

templateVars == <<draft, receipts, releases, history, current, publishing>>
intentVars == <<intents, submitting, items, announced, accepted>>
notificationVars == <<draft, receipts, releases, history, current, publishing, intents, submitting,
                      items, announced, accepted>>

None == [none |-> TRUE]  \* no row
Versions == 1 .. MaxVersion
TemplateRelease == [text : Texts, at : Activations]
NotCurrent == [version |-> 0, activation |-> None]
NotPublishing == [stage |-> "idle"]
NotSubmitting == [stage |-> "idle"]
NoItem == [version |-> 0, read |-> FALSE, archived |-> FALSE]

NotificationsTypeOK ==
  /\ draft = [revision |-> 0, text |-> None]
       \/ draft \in [revision : 1 .. MaxDraftRevision, text : Texts]
  /\ receipts \in [Drafting -> {None} \cup [expected : 0 .. MaxDraftRevision, revision : 1 .. MaxDraftRevision, text : Texts]]
  /\ releases \in [Versions -> {None} \cup TemplateRelease]
  /\ history \in [Activations -> 0 .. MaxVersion]
  /\ current \in [version : 0 .. MaxVersion, activation : Activations \cup {None}]
  /\ \A p \in Publishers : publishing[p].stage \in {"idle", "drafted", "listed"}
  /\ intents \in [IntentKeys -> {None} \cup [fingerprint : Fingerprints, result : SUBSET Recipients]]
  /\ \A s \in Submitters : submitting[s].stage \in {"idle", "looked", "resolved"}
  /\ items \in [IntentKeys \X Recipients -> [version : 0 .. 3, read : BOOLEAN, archived : BOOLEAN]]
  /\ announced \subseteq (IntentKeys \X Recipients) \X (1 .. 3)
  /\ accepted \subseteq IntentKeys \X SUBSET Recipients

NotificationsInit ==
  /\ draft = [revision |-> 0, text |-> None]
  /\ receipts = [o \in Drafting |-> None]
  /\ releases = [v \in Versions |-> None]
  /\ history = [a \in Activations |-> 0]
  /\ current = NotCurrent
  /\ publishing = [p \in Publishers |-> NotPublishing]
  /\ intents = [k \in IntentKeys |-> None]
  /\ submitting = [s \in Submitters |-> NotSubmitting]
  /\ items = [i \in IntentKeys \X Recipients |-> NoItem]
  /\ announced = {} /\ accepted = {}

-----------------------------------------------------------------------------
(* Drafts.                                                                 *)

AsExpected(expected) == draft.revision = expected

(* A receipt answers a retry, or a conflict when it is of another command: *)
(* neither changes anything.                                               *)
SaveDraft(o, expected, text) ==
  /\ receipts[o] = None /\ AsExpected(expected)
  /\ draft.revision < MaxDraftRevision
  /\ draft' = [revision |-> draft.revision + 1, text |-> text]
  /\ receipts' = [receipts EXCEPT ![o] =
       [expected |-> expected, revision |-> draft.revision + 1, text |-> text]]
  /\ UNCHANGED <<releases, history, current, publishing, intentVars>>

-----------------------------------------------------------------------------
(* Releases and activations.                                               *)

(* What was activated under this id must be this version; a retry makes it *)
(* the current one again.                                                  *)
ActivateRelease(a, v) ==
  /\ history[a] \in {0, v}
  /\ history' = [history EXCEPT ![a] = v]
  /\ current' = [version |-> v, activation |-> a]

Insert(v, release) ==
  /\ releases[v] \in {None, release}
  /\ releases' = [releases EXCEPT ![v] = release]

ReadDraft(p) ==
  /\ publishing[p] = NotPublishing /\ draft.revision > 0
  /\ publishing' = [publishing EXCEPT ![p] = [stage |-> "drafted", text |-> draft.text]]
  /\ UNCHANGED <<draft, receipts, releases, history, current, intentVars>>

Newest == CHOOSE v \in 0 .. MaxVersion :
  /\ v = 0 \/ releases[v] # None
  /\ \A w \in Versions : w > v => releases[w] = None

ListReleases(p) ==
  /\ publishing[p].stage = "drafted" /\ Newest < MaxVersion
  /\ publishing' = [publishing EXCEPT ![p] =
       [stage |-> "listed", text |-> publishing[p].text, version |-> Newest + 1]]
  /\ UNCHANGED <<draft, receipts, releases, history, current, intentVars>>

(* The release is inserted and activated in one transaction.               *)
PublishAndActivate(p, a) ==
  /\ publishing[p].stage = "listed"
  /\ Insert(publishing[p].version, [text |-> publishing[p].text, at |-> a])
  /\ ActivateRelease(a, publishing[p].version)
  /\ publishing' = [publishing EXCEPT ![p] = NotPublishing]
  /\ UNCHANGED <<draft, receipts, intentVars>>

(* A conflict, or anything else that ends the request without effect.      *)
PublishFails(p) ==
  /\ publishing[p] # NotPublishing
  /\ publishing' = [publishing EXCEPT ![p] = NotPublishing]
  /\ UNCHANGED <<draft, receipts, releases, history, current, intentVars>>

(* publishTemplate: a version of the owner's choice, not activated.        *)
PublishTemplate(v, release) ==
  /\ releases[v] = None
  /\ Insert(v, release)
  /\ UNCHANGED <<draft, receipts, history, current, publishing, intentVars>>

ActivateTemplate(a, v) ==
  /\ releases[v] # None
  /\ ActivateRelease(a, v)
  /\ UNCHANGED <<draft, receipts, releases, publishing, intentVars>>

-----------------------------------------------------------------------------
(* Intents.                                                                *)

Submits(s, at) == submitting' = [submitting EXCEPT ![s] = at]

Tell(k, result) == accepted' = accepted \cup {<<k, result>>}

(* findIntent, before anything is resolved.                                *)
SubmitIntent(s, k, f) ==
  /\ submitting[s] = NotSubmitting
  /\ IF intents[k] = None
     THEN Submits(s, [stage |-> "looked", key |-> k, fingerprint |-> f]) /\ UNCHANGED accepted
     ELSE intents[k].fingerprint = f /\ Tell(k, intents[k].result) /\ UNCHANGED submitting
  /\ UNCHANGED <<templateVars, intents, items, announced>>

(* The release to use and the recipients, which may differ at the next try.*)
ResolveRecipients(s, recipients) ==
  /\ submitting[s].stage = "looked" /\ current.version # 0
  /\ Submits(s, [stage |-> "resolved", key |-> submitting[s].key,
                 fingerprint |-> submitting[s].fingerprint, result |-> recipients])
  /\ UNCHANGED <<templateVars, intents, items, announced, accepted>>

SubmitFails(s) ==
  /\ submitting[s].stage # "idle"
  /\ Submits(s, NotSubmitting)
  /\ UNCHANGED <<templateVars, intents, items, announced, accepted>>

NotAccepted(k) == intents[k] = None

(* acceptIntent: preferences suppress some notifications, which have a row *)
(* that nobody is shown.                                                   *)
AcceptIntent(s, delivered) ==
  /\ submitting[s].stage = "resolved"
  /\ LET k == submitting[s].key
         result == submitting[s].result
         fingerprint == submitting[s].fingerprint
     IN /\ delivered \subseteq result
        /\ IF NotAccepted(k)
           THEN /\ intents' = [intents EXCEPT ![k] = [fingerprint |-> fingerprint, result |-> result]]
                /\ items' = [i \in DOMAIN items |->
                     IF i[1] = k /\ i[2] \in delivered THEN [NoItem EXCEPT !.version = 1] ELSE items[i]]
                /\ announced' = announced \cup {<<<<k, r>>, 1>> : r \in delivered}
                /\ Tell(k, result)
           ELSE /\ UNCHANGED <<intents, items, announced>>
                /\ IF intents[k].fingerprint = fingerprint THEN Tell(k, intents[k].result)
                   ELSE UNCHANGED accepted
  /\ Submits(s, NotSubmitting)
  /\ UNCHANGED templateVars

-----------------------------------------------------------------------------
(* The recipient. Doing the same again would record the event of the same  *)
(* state version again, which fails the transaction.                       *)

Announce(i, version) == announced' = announced \cup {<<i, version>>}

(* Broken: the state version goes up with every call.                      *)
MarkReadAgain(i) ==
  /\ items[i].version > 0
  /\ items' = [items EXCEPT ![i].read = TRUE, ![i].version = @ + 1]
  /\ Announce(i, items[i].version + 1)
  /\ UNCHANGED <<templateVars, intents, submitting, accepted>>

MarkRead(i) ==
  /\ items[i].version > 0 /\ ~items[i].read
  /\ items' = [items EXCEPT ![i].read = TRUE, ![i].version = @ + 1]
  /\ Announce(i, items[i].version + 1)
  /\ UNCHANGED <<templateVars, intents, submitting, accepted>>

Archive(i) ==
  /\ items[i].version > 0 /\ ~items[i].archived
  /\ items' = [items EXCEPT ![i].archived = TRUE, ![i].version = @ + 1]
  /\ Announce(i, items[i].version + 1)
  /\ UNCHANGED <<templateVars, intents, submitting, accepted>>

DraftNext ==
  \E o \in Drafting, expected \in 0 .. MaxDraftRevision, text \in Texts : SaveDraft(o, expected, text)

ReleaseNext ==
  \/ \E p \in Publishers : ReadDraft(p) \/ ListReleases(p) \/ PublishFails(p)
  \/ \E p \in Publishers, a \in Activations : PublishAndActivate(p, a)
  \/ \E v \in Versions, release \in TemplateRelease : PublishTemplate(v, release)
  \/ \E a \in Activations, v \in Versions : ActivateTemplate(a, v)

IntentNext ==
  \/ \E s \in Submitters, k \in IntentKeys, f \in Fingerprints : SubmitIntent(s, k, f)
  \/ \E s \in Submitters, recipients \in SUBSET Recipients \ {{}} : ResolveRecipients(s, recipients)
  \/ \E s \in Submitters : SubmitFails(s)
  \/ \E s \in Submitters, delivered \in SUBSET Recipients : AcceptIntent(s, delivered)

RecipientNext == \E i \in IntentKeys \X Recipients : MarkRead(i) \/ Archive(i)

NotificationsNext == DraftNext \/ ReleaseNext \/ IntentNext \/ RecipientNext

NotificationsSpec == NotificationsInit /\ [][NotificationsNext]_notificationVars

-----------------------------------------------------------------------------
(* Properties.                                                             *)

(* No edit of a draft is lost: each revision was saved over the one before *)
(* it by one operation, which its receipt names.                           *)
NoLostDraft ==
  /\ \A r \in 1 .. draft.revision :
       Cardinality({o \in Drafting : receipts[o] # None /\ receipts[o].revision = r}) = 1
  /\ \A o \in Drafting : receipts[o] # None => receipts[o].revision = receipts[o].expected + 1

(* The current release exists and is what its activation id was recorded   *)
(* for: however requests to publish and to activate race or are retried.   *)
CurrentWasActivated ==
  current # NotCurrent =>
    /\ releases[current.version] # None
    /\ history[current.activation] = current.version

(* Everyone who submitted an intent under a key was told the same result,  *)
(* and whoever is shown a notification is one of it: two requests that both*)
(* found none and resolved different recipients notify once.               *)
OneResultPerKey ==
  /\ \A t \in accepted : intents[t[1]] # None /\ t[2] = intents[t[1]].result
  /\ \A i \in DOMAIN items : items[i].version > 0 =>
       intents[i[1]] # None /\ i[2] \in intents[i[1]].result

(* Every state a recipient can be shown was announced by an event.         *)
ChangesAreAnnounced ==
  \A i \in DOMAIN items : \A v \in 1 .. items[i].version : <<i, v>> \in announced
=============================================================================
