----------------------------- MODULE MCPlatform -----------------------------
(***************************************************************************)
(* The components that share no state, for TLC: one run takes every part   *)
(* and checks safety, the other takes those with a liveness property. No   *)
(* symmetry is used, because one run checks liveness.                      *)
(***************************************************************************)
EXTENDS Platform, SqlCompilation, Telemetry

CONSTANTS adminA, adminB, userC,         \* accounts
          cfg1, cfg2, cfg3, cfg4,        \* operation ids of configuration commands
          codeX, codeY, act1, act2, scope1,
          org1, org2, org3, org4, org5,  \* operation ids of organisation commands
          unit1, unit2, place1, place2, place3, place4, place5,
          pw1,
          older, newer, forked, careless,  \* releases of the migrations
          sum1, sum2, sum3, otherSum1, otherSum3, file1, file2,  \* checksums, files
          form1, form2, form3, form4,    \* operation ids of form commands
          schemaA, schemaB,
          flow1, flow2, flow3,           \* keys of workflow commands
          workerA, workerB,
          staffA, staffB,                \* accounts with login identifiers
          name1, name2, phone3,          \* a username, one that is also a phone, a phone
          eventId, nonce1, nonce2,
          httpA, httpB,                  \* HTTP requests
          sh1, sh2,                      \* shells
          ask1, ask2,                    \* audited operations
          topDep, depA, depB, post1, post2,  \* departments and positions
          dn1, dn2, do1, do2, do3, do4,  \* their names, and operation ids
          f_e1, f_e2, f_p1, f_a1,       \* employments, a position, an assignment
          tn1, tn2, tn3,                \* objects of a value that is recorded
          ck1, ck2, key1                 \* session credentials and an idempotency key

(* Two administrators that deactivate each other, and a reset beside that. *)
MCCommands == {
  [kind |-> "deactivate", actor |-> adminA, target |-> adminB],
  [kind |-> "deactivate", actor |-> adminB, target |-> adminA],
  [kind |-> "reset", actor |-> adminA, target |-> adminB]}

(* Drafts over the same revision, their publication, two activations that  *)
(* overlap and the termination that makes room for the second one.         *)
MCConfigurationCommands == {
  [op |-> cfg1, kind |-> "draft", revision |-> 0, items |-> {codeX}],
  [op |-> cfg3, kind |-> "draft", revision |-> 1, items |-> {codeY}],
  [op |-> cfg3, kind |-> "draft", revision |-> 1, items |-> {codeX, codeY}],
  [op |-> cfg2, kind |-> "dictionary", revision |-> 1],
  [op |-> cfg4, kind |-> "dictionary", revision |-> 2],
  [op |-> cfg1, kind |-> "activate", id |-> act1, scope |-> scope1, from |-> 0, to |-> 3],
  [op |-> cfg2, kind |-> "activate", id |-> act2, scope |-> scope1, from |-> 1, to |-> 2],
  [op |-> cfg3, kind |-> "terminate", id |-> act1, to |-> 1],
  [op |-> cfg4, kind |-> "value"]}

Placement(o, kind, unit, id, parent, from, to) ==
  [op |-> o, kind |-> kind, id |-> id, unit |-> unit, parent |-> parent, from |-> from, to |-> to]

(* Two units that are placed below each other, one of them for a while.    *)
MCOrganizationCommands == {
  Placement(org1, "create", unit1, place1, Root, 0, 3),
  Placement(org2, "create", unit2, place2, Root, 0, 2),
  Placement(org3, "place", unit2, place4, unit1, 2, 3),
  Placement(org4, "place", unit1, place3, unit2, 1, 3),
  Placement(org3, "place", unit1, place5, Root, 1, 3),
  [op |-> org5, kind |-> "close", id |-> place1, to |-> 1]}

Migration(v, s) ==
  [version |-> v, checksum |-> s, name |-> file1, range |-> AnyApplication,
   complete |-> TRUE, destructive |-> FALSE, approved |-> FALSE, drops |-> FALSE]
ForVersions(m, from, to) == [m EXCEPT !.range = [minimum |-> from, maximum |-> to]]

(* A release, the next one, which has amended the metadata of an applied   *)
(* migration and brings an approved destructive one, a release that brings *)
(* an applied migration with other text, and one whose destructive         *)
(* migration nobody approved.                                              *)
MCCatalogue ==
  LET first == Migration(1, sum1)
      second == Migration(2, sum2)
      third == [ForVersions(Migration(3, sum3), <<1, 0, 0>>, <<1, 2, 0>>) EXCEPT
                  !.drops = TRUE, !.destructive = TRUE, !.approved = TRUE]
  IN  [r \in Runners |->
         CASE r = older    -> {first, second}
           [] r = newer    -> {first, third, [ForVersions(second, <<0, 9, 0>>, Open)
                                               EXCEPT !.name = file2]}
           [] r = forked   -> {Migration(1, otherSum1), second}
           [] r = careless -> {first, second, [third EXCEPT !.checksum = otherSum3,
                                                            !.approved = FALSE]}]
MCReviewedChecksums == [v \in {1} |-> sum1]
MCApplicationVersions == {<<0, 9, 1>>, <<1, 0, 0>>, <<1, 1, 3>>, <<1, 2, 0>>}

MCBackoff == <<1>>

(* Two edits of one revision, publications of two revisions and a switch.  *)
MCFormCommands == {
  [op |-> form1, kind |-> "save", expected |-> 0, content |-> schemaA],
  [op |-> form2, kind |-> "save", expected |-> 1, content |-> schemaB],
  [op |-> form3, kind |-> "save", expected |-> 1, content |-> schemaA],
  [op |-> form3, kind |-> "publish", expected |-> 1],
  [op |-> form4, kind |-> "publish", expected |-> 2],
  [op |-> form4, kind |-> "switch", release |-> 1, active |-> FALSE]}

(* One claim that is sent twice under its key, one of somebody else that is*)
(* sent under the same key, and commands after it.                         *)
MCWorkflowCommands == {
  [key |-> flow1, kind |-> "claim", assignee |-> workerA],
  [key |-> flow1, kind |-> "claim", assignee |-> workerB],
  [key |-> flow2, kind |-> "release", assignee |-> NoAssignee],
  [key |-> flow3, kind |-> "complete", assignee |-> NoAssignee]}

Edit(kind, account_, username, phone) ==
  [kind |-> kind, account |-> account_, username |-> username, phone |-> phone]

(* All that happens to one account, and another one whose username is the  *)
(* phone the first one had.                                                *)
MCEditCommands ==
  {Edit("create", staffA, name1, name2), Edit("update", staffA, name1, phone3),
   Edit("create", staffB, name2, phone3), Edit("release_phone", staffA, NoValue, name2)}
    \cup {Edit(kind, staffA, NoValue, NoValue) :
            kind \in {"move", "deactivate", "reactivate", "grant_crm", "revoke_crm"}}

(* An event, and the same event signed again with another nonce.           *)
MCWebhookMessages == {
  [event |-> eventId, nonce |-> nonce1, signedAt |-> 1],
  [event |-> eventId, nonce |-> nonce2, signedAt |-> 4]}

Ask(route) == [route |-> route, cookie |-> ck1, token |-> ck1, origin |-> "own", key |-> key1,
               flaw |-> "none"]
Spoilt(q) ==
  {[q EXCEPT !.flaw = f] : f \in {"trace", "form", "body"}}
    \cup {[q EXCEPT !.cookie = NoCookie], [q EXCEPT !.token = NoCookie],
          [q EXCEPT !.origin = "foreign"], [q EXCEPT !.token = NoCookie, !.origin = "none"]}
Together(q, p) == [r \in HttpRequestIds |-> IF r = httpA THEN q ELSE p]
NotSent == Ask("none")

(* Every route alone, well-formed and with each flaw; two commands under   *)
(* one key, sign-ins that race, and a request that follows a rotation with *)
(* the old and with the new token.                                         *)
MCAsked ==
  {Together(q, NotSent) :
      q \in {NotSent} \cup UNION {Spoilt(Ask(route)) \cup {Ask(route)} : route \in Routes}}
    \cup {Together(Ask(p[1]), Ask(p[2])) :
            p \in {<<"publish", "activate">>, <<"createUpload", "confirm">>,
                   <<"logout", "rotate">>, <<"login", "logout">>}}
    \cup {Together(Ask("rotate"), [Ask(route) EXCEPT !.cookie = ck2, !.token = t]) :
            route \in {"logout", "complete"}, t \in {ck1, ck2}}

(* Two people set up one installation.                                     *)
MCAsks == [p \in Shells |-> IF p = sh1 THEN {"infra", "doctor", "bootstrap"}
                                       ELSE {"migrate", "bootstrap", "api"}]

(* Each operation beside a task of a page, which waits for a list. Two     *)
(* operations that do not wait share nothing but the grants they read.     *)
MCOperationKinds ==
  {[r \in OperationIds |-> IF r = ask1 THEN k ELSE "item"] : k \in AuditedKinds \ {"item"}}

MCFirstEntries ==
  [d \in {topDep, depA, depB} |->
    [sort |-> "department", name |-> IF d = depB THEN dn2 ELSE dn1,
     above |-> IF d = depA THEN topDep ELSE TopLevel, active |-> TRUE, locked |-> d = topDep,
     revision |-> 0]]

Rewrite(o, d, n, p) ==
  [op |-> o, kind |-> "update", id |-> d, expected |-> 0, name |-> n, above |-> p]
Turn(o, kind, d, r) == [op |-> o, kind |-> kind, id |-> d, expected |-> r]
NewPost(o, d) ==
  [op |-> o, kind |-> "create", sort |-> "position", id |-> d, name |-> dn1, above |-> depA]

(* Moves below each other, of the root, renamings that meet, and positions *)
(* in a department that is disabled meanwhile.                             *)
MCDirectoryCommands == {
  Rewrite(do1, depA, dn1, depB), Rewrite(do2, depB, dn2, depA), Rewrite(do3, depB, dn1, KeepParent),
  Rewrite(do4, topDep, dn1, depB), Rewrite(do3, depA, dn2, TopLevel),
  Turn(do2, "disable", topDep, 0), Turn(do3, "disable", depA, 0), Turn(do4, "restore", depA, 1),
  NewPost(do1, post1), NewPost(do4, post1), NewPost(do4, post2)}

(* A position and two employments, one closed twice at different ends, and *)
(* an assignment of the first that is never closed.                        *)
MCFactCommands ==
  {[op |-> 1, kind |-> "create", id |-> f_e1, from |-> 0, to |-> 3],
   [op |-> 2, kind |-> "create", id |-> f_p1, from |-> 0, to |-> 3],
   [op |-> 3, kind |-> "create", id |-> f_a1, from |-> 0, to |-> 3,
    employment |-> f_e1, position |-> f_p1],
   [op |-> 4, kind |-> "close", id |-> f_e1, to |-> 1],
   [op |-> 5, kind |-> "close", id |-> f_e1, to |-> 2],
   [op |-> 6, kind |-> "create", id |-> f_e2, from |-> 1, to |-> 3]}

(* Everything that opens or closes a part of a statement in which a        *)
(* parameter is only text, and two parameters.                             *)
MCSqlFragments ==
  {<<"'">>, <<"\"">>, <<"-", "-">>, <<"\n">>, <<"/", "*">>, <<"*", "/">>, <<"$", "1">>,
   <<"$", "2">>, <<"$", "$">>, <<"$", "t", "$">>, <<"\\">>, <<"E", "'">>}

Shape(kind, parts) ==
  [kind |-> kind, fields |-> [i \in DOMAIN parts |-> [sensitive |-> FALSE, value |-> parts[i]]]]

(* Objects that share, that contain themselves, with too many fields and   *)
(* with sensitive ones, a list, and errors with and without a cause.       *)
MCTelemetryShapes ==
  {Shape("error", <<>>), Shape("array", <<tn2, tn3>>), Shape("object", <<tn1>>),
   Shape("object", <<tn2, tn2>>), Shape("object", <<tn1, tn2, tn3>>),
   Shape("object", <<"text", tn3>>),
   [Shape("object", <<tn2, tn3>>) EXCEPT !.fields[2].sensitive = TRUE],
   [Shape("object", <<"hidden", tn3>>) EXCEPT !.fields[1].sensitive = TRUE]}
    \cup {Shape("error", <<n>>) : n \in Nodes}

AllParts == {"calls", "sessions", "administration", "realtime", "worker", "adapter", "api",
             "readiness", "templates", "intents", "configuration", "organization", "transactions",
             "migrations", "delivery", "outbox", "ai", "source", "forms", "workflow", "workforce",
             "polling", "webhooks", "resources", "http", "workbench", "local", "operations",
             "directory", "dialogs", "editors", "passwords", "drafts", "harness", "employments",
             "statements", "pool", "bindings", "telemetry"}

ASSUME PlatformAssumption == Parts \subseteq AllParts

Init ==
  /\ PlatformInit /\ SqlInit /\ TelemetryInit
  /\ account.password = pw1
  /\ ck1 \in issuedCookies
  /\ part # "http" => requested = Together(NotSent, NotSent) /\ permitted
  /\ part # "workbench" => place = "workspace"
  /\ part # "operations" => kindOf = [r \in OperationIds |-> IF r = ask1 THEN "list" ELSE "item"]

Next ==
  \/ PlatformNext /\ UNCHANGED <<fragments, graph>>
  \/ part = "statements" /\ SqlNext /\ UNCHANGED <<platformVars, graph>>
  \/ part = "telemetry" /\ TelemetryNext /\ UNCHANGED <<platformVars, fragments>>

SafeSpec == Init /\ [][Next]_<<platformVars, fragments, graph>>
Spec == SafeSpec /\ PartFairness

-----------------------------------------------------------------------------
(* Properties.                                                             *)

(* Values on their way out: a statement is sent with every value at the    *)
(* place of its parameter, and what is recorded of a value of the program  *)
(* is bounded and shows nothing sensitive, whatever the value contains.    *)
ValuesAreSound ==
  /\ part = "statements" => SqlTypeOK /\ BoundAsWritten
  /\ part = "telemetry" => TelemetryTypeOK /\ TelemetryIsBounded /\ OnlyEndlessCausesAreLost
=============================================================================
