---------------------------- MODULE Transactions ----------------------------
(***************************************************************************)
(* packages/database/src/prisma-runtime.ts: transactions as their callers  *)
(* see them. The callback of a transaction is free to catch what a query   *)
(* or a nested transaction throws and go on, or to throw; a nested one     *)
(* joins the transaction that runs. The signal "outer" is given to the     *)
(* transaction, "inner" to some of its queries and nested transactions.    *)
(* How transactions are isolated from each other is the server's business. *)
(***************************************************************************)
EXTENDS Naturals

CONSTANTS Transactions,
          MaxStatements    \* bound: statements of one transaction

ASSUME TransactionsAssumption == MaxStatements \in Nat

VARIABLES
  phase,    \* per transaction: where the runtime and the callback are
  state,    \* per transaction: TransactionState, and the nested transactions that run
  fired,    \* per transaction: the signals that were aborted
  backend,  \* per transaction: the transaction at the server
  queries,  \* per transaction: the statements sent to the server
  stored,   \* the statements that were committed
  heeded    \* transactions aborted while their callback ran, or before

transactionVars == <<phase, state, fired, backend, queries, stored, heeded>>

Signals == {"outer", "inner"}
Phases == {"idle", "begin", "work", "query", "signalledQuery", "commit", "resolved", "rejected",
           "unknown"}
Fresh == [aborted |-> FALSE, failure |-> FALSE, nested |-> {}]

TransactionsTypeOK ==
  /\ phase \in [Transactions -> Phases]
  /\ state \in [Transactions -> [aborted : BOOLEAN, failure : BOOLEAN,
                                 nested : SUBSET {"plain", "signalled"}]]
  /\ fired \in [Transactions -> SUBSET Signals]
  /\ backend \in [Transactions -> {"none", "open", "failed", "gone"}]
  /\ queries \in [Transactions -> 0 .. MaxStatements]
  /\ stored \subseteq (Transactions \X (1 .. MaxStatements))
  /\ heeded \subseteq Transactions

TransactionsInit ==
  /\ phase = [t \in Transactions |-> "idle"]
  /\ state = [t \in Transactions |-> Fresh]
  /\ fired = [t \in Transactions |-> {}]
  /\ backend = [t \in Transactions |-> "none"]
  /\ queries = [t \in Transactions |-> 0]
  /\ stored = {}
  /\ heeded = {}

Moves(t, from, to) == phase[t] = from /\ phase' = [phase EXCEPT ![t] = to]

-----------------------------------------------------------------------------
(* The transaction.                                                        *)

(* The pool gives a connection, or the wait for one times out.             *)
WithTransaction(t) ==
  /\ IF "outer" \in fired[t] THEN Moves(t, "idle", "rejected") ELSE Moves(t, "idle", "begin")
  /\ UNCHANGED <<state, fired, backend, queries, stored, heeded>>

BeginTransaction(t) ==
  /\ Moves(t, "begin", "work")
  /\ backend' = [backend EXCEPT ![t] = "open"]
  /\ UNCHANGED <<state, fired, queries, stored, heeded>>

BeginFails(t) ==
  /\ Moves(t, "begin", "rejected")
  /\ UNCHANGED <<state, fired, backend, queries, stored, heeded>>

(* Broken: what failed is forgotten when the callback catches it.          *)
CommitsRegardless(t) == "outer" \notin fired[t] /\ ~state[t].aborted

Commits(t) == "outer" \notin fired[t] /\ ~state[t].aborted /\ ~state[t].failure

(* The callback returns: the transaction is committed, or rolled back.     *)
Return(t) ==
  /\ state[t].nested = {}
  /\ IF Commits(t)
     THEN Moves(t, "work", "commit") /\ UNCHANGED backend
     ELSE Moves(t, "work", "rejected") /\ backend' = [backend EXCEPT ![t] = "none"]
  /\ UNCHANGED <<state, fired, queries, stored, heeded>>

(* The callback throws, through the nested transactions that run.          *)
Throw(t) ==
  /\ Moves(t, "work", "rejected")
  /\ backend' = [backend EXCEPT ![t] = "none"]
  /\ state' = [state EXCEPT ![t].nested = {}]
  /\ UNCHANGED <<fired, queries, stored, heeded>>

(* The server commits what is open; after a statement that has failed it   *)
(* rolls back and answers no error. When the connection is lost nobody     *)
(* knows which it was.                                                     *)
CommitAnswers(t) ==
  /\ backend[t] # "gone"
  /\ \/ Moves(t, "commit", "resolved")
     \/ Moves(t, "commit", "unknown")
  /\ backend' = [backend EXCEPT ![t] = "none"]
  /\ stored' = IF backend[t] = "open" THEN stored \cup ({t} \X (1 .. queries[t])) ELSE stored
  /\ UNCHANGED <<state, fired, queries, heeded>>

CommitFails(t) ==
  /\ Moves(t, "commit", "unknown")
  /\ backend' = [backend EXCEPT ![t] = "none"]
  /\ UNCHANGED <<state, fired, queries, stored, heeded>>

-----------------------------------------------------------------------------
(* Its queries and nested transactions.                                    *)

(* A query whose signal was aborted before throws and leaves no trace.     *)
Query(t) ==
  /\ queries[t] < MaxStatements
  /\ ~state[t].aborted
  /\ \/ Moves(t, "work", "query")
     \/ "inner" \notin fired[t] /\ Moves(t, "work", "signalledQuery")
  /\ queries' = [queries EXCEPT ![t] = @ + 1]
  /\ UNCHANGED <<state, fired, backend, stored, heeded>>

(* The statement, or the server's transaction as a whole, has failed. Only *)
(* an answer that reports the abortion is not kept as the failure.         *)
QueryFails(t) ==
  /\ \/ Moves(t, "query", "work") \/ Moves(t, "signalledQuery", "work")
  /\ backend' = [backend EXCEPT ![t] = IF @ = "gone" THEN @ ELSE "failed"]
  /\ state' = [state EXCEPT ![t].failure = TRUE]
  /\ UNCHANGED <<fired, queries, stored, heeded>>

QuerySucceeds(t) ==
  /\ backend[t] = "open"
  /\ \/ Moves(t, "query", "work") \/ Moves(t, "signalledQuery", "work")
  /\ UNCHANGED <<state, fired, backend, queries, stored, heeded>>

(* A nested transaction whose signal was aborted before throws as well.    *)
Nest(t) ==
  /\ phase[t] = "work" /\ state[t].nested = {} /\ ~state[t].aborted
  /\ \/ state' = [state EXCEPT ![t].nested = {"plain"}]
     \/ "inner" \notin fired[t] /\ state' = [state EXCEPT ![t].nested = {"signalled"}]
  /\ UNCHANGED <<phase, fired, backend, queries, stored, heeded>>

(* It returns or throws; the transaction it joined goes on.                *)
NestedEnds(t) ==
  /\ phase[t] = "work" /\ state[t].nested # {}
  /\ state' = [state EXCEPT ![t].nested = {}]
  /\ UNCHANGED <<phase, fired, backend, queries, stored, heeded>>

-----------------------------------------------------------------------------
(* Signals and the server.                                                 *)

CallbackRuns(t) == phase[t] \in {"work", "query", "signalledQuery"}

(* Who listens to a signal: the transaction while its callback runs, a     *)
(* query until it is answered and a nested transaction until it ends.      *)
Heard(t, s) ==
  \/ s = "outer" /\ CallbackRuns(t)
  \/ s = "inner" /\ (phase[t] = "signalledQuery" \/ "signalled" \in state[t].nested)

AbortSignal(t, s) ==
  /\ s \notin fired[t]
  /\ fired' = [fired EXCEPT ![t] = @ \cup {s}]
  /\ state' = [state EXCEPT ![t].aborted = @ \/ Heard(t, s)]
  /\ heeded' = heeded \cup IF Heard(t, s) \/ (s = "outer" /\ phase[t] \in {"idle", "begin"})
                           THEN {t} ELSE {}
  /\ UNCHANGED <<phase, backend, queries, stored>>

(* The server ends a transaction that takes too long or whose connection   *)
(* is lost.                                                                *)
BackendEnds(t) ==
  /\ backend[t] # "none" /\ CallbackRuns(t)
  /\ backend' = [backend EXCEPT ![t] = "gone"]
  /\ UNCHANGED <<phase, state, fired, queries, stored, heeded>>

TransactionsNext ==
  \E t \in Transactions :
    \/ WithTransaction(t) \/ BeginTransaction(t) \/ BeginFails(t)
    \/ Return(t) \/ Throw(t) \/ CommitAnswers(t) \/ CommitFails(t)
    \/ Query(t) \/ QueryFails(t) \/ QuerySucceeds(t)
    \/ Nest(t) \/ NestedEnds(t)
    \/ \E s \in Signals : AbortSignal(t, s)
    \/ BackendEnds(t)

TransactionsSpec == TransactionsInit /\ [][TransactionsNext]_transactionVars
-----------------------------------------------------------------------------
(* Properties.                                                             *)

(* A transaction that resolves has committed every statement it was asked  *)
(* for: also a query whose failure the callback has caught, or an abortion *)
(* that came before the callback returned, keeps it from being reported as *)
(* done. One that is rejected has left nothing, unless the answer to its   *)
(* commit was lost.                                                        *)
OutcomeIsTrue ==
  \A t \in Transactions :
    /\ phase[t] = "resolved" => {t} \X (1 .. queries[t]) \subseteq stored /\ t \notin heeded
    /\ phase[t] = "rejected" => \A w \in stored : w[1] # t

-----------------------------------------------------------------------------
(***************************************************************************)
(* packages/database/src/runtime.ts: transactions and statements over the  *)
(* connections of a pool, which a signal can abort at any time. An abort   *)
(* asks the server, over a connection of its own, to cancel what the       *)
(* backend does, and then ends the connection instead of giving it back.   *)
(* Statements without a signal are the pool's own affair and left out.     *)
(***************************************************************************)

CONSTANTS PoolUsers,        \* calls of withTransaction, and of execute outside of one
          PoolConnections,  \* places of the pool; one that ended is taken by a new connection
          NoConnection

ASSUME PoolAssumption == NoConnection \notin PoolConnections

VARIABLES
  useOf,      \* per call: its kind and step, the connection, what became of it
  unaborted,  \* calls whose signal is not aborted
  handedOut,  \* connections that are not in the pool
  openOn,     \* connections on which a transaction is open
  committed,  \* what the server has committed
  condemned,  \* history: calls that were aborted before they sent their commit
  givenBack   \* history: how often a call released or ended its connection

poolVars == <<useOf, unaborted, handedOut, openOn, committed, condemned, givenBack>>

UseSteps == {"connect", "begin", "work", "query", "commit", "rollback", "settle", "done"}
Unused == [kind |-> "none", step |-> "none", connection |-> NoConnection, destroyed |-> FALSE,
           cancelling |-> FALSE, failure |-> FALSE, answer |-> "none"]

PoolTypeOK ==
  /\ \A u \in PoolUsers : useOf[u] = Unused \/ useOf[u] \in
       [kind : {"transaction", "statement"}, step : UseSteps,
        connection : PoolConnections \cup {NoConnection}, destroyed : BOOLEAN,
        cancelling : BOOLEAN, failure : BOOLEAN, answer : {"none", "ok", "failed"}]
  /\ {unaborted, committed, condemned} \subseteq SUBSET PoolUsers
  /\ {handedOut, openOn} \subseteq SUBSET PoolConnections
  /\ givenBack \in [PoolUsers -> Nat]

PoolInit ==
  /\ useOf = [u \in PoolUsers |-> Unused]
  /\ unaborted = PoolUsers
  /\ handedOut = {} /\ openOn = {} /\ committed = {} /\ condemned = {}
  /\ givenBack = [u \in PoolUsers |-> 0]

UseStep(u) == useOf[u].step
MoveOn(u, step) == useOf' = [useOf EXCEPT ![u].step = step]
AnswerUse(u, answer) == useOf' = [useOf EXCEPT ![u].step = "settle", ![u].answer = answer]

(* The connection is there, as long as it was not ended.                   *)
Connected(u) == useOf[u].destroyed => useOf[u].cancelling

(* The connection goes back to the pool, or ends and leaves its place to   *)
(* another.                                                                *)
HandBack(u) ==
  /\ handedOut' = handedOut \ {useOf[u].connection}
  /\ givenBack' = [givenBack EXCEPT ![u] = @ + 1]

-----------------------------------------------------------------------------
(* A connection is asked for. An abort meanwhile is met when it comes.     *)

AskConnection(u, kind) ==
  /\ UseStep(u) = "none" /\ u \in unaborted
  /\ useOf' = [useOf EXCEPT ![u].kind = kind, ![u].step = "connect"]
  /\ UNCHANGED <<unaborted, handedOut, openOn, committed, condemned, givenBack>>

TakeConnection(u, c) ==
  /\ UseStep(u) = "connect" /\ c \notin handedOut
  /\ IF u \in unaborted
       THEN /\ useOf' = [useOf EXCEPT ![u].connection = c, ![u].step =
                           IF useOf[u].kind = "statement" THEN "query" ELSE "begin"]
            /\ handedOut' = handedOut \cup {c}
            /\ UNCHANGED givenBack
       ELSE /\ useOf' = [useOf EXCEPT ![u].connection = c, ![u].step = "done",
                                      ![u].destroyed = TRUE, ![u].answer = "failed"]
            /\ givenBack' = [givenBack EXCEPT ![u] = @ + 1]
            /\ UNCHANGED handedOut
  /\ UNCHANGED <<unaborted, openOn, committed, condemned>>

NoConnectionCame(u) ==
  /\ UseStep(u) = "connect"
  /\ useOf' = [useOf EXCEPT ![u].step = "done", ![u].answer = "failed"]
  /\ UNCHANGED <<unaborted, handedOut, openOn, committed, condemned, givenBack>>

-----------------------------------------------------------------------------
(* Aborts.                                                                 *)

Destroyed(u) == [useOf EXCEPT ![u].destroyed = TRUE, ![u].cancelling = @ \/ ~useOf[u].destroyed]

(* The listener is there from the connection to the end.                   *)
AbortUse(u) ==
  /\ u \in unaborted /\ UseStep(u) # "none"
  /\ unaborted' = unaborted \ {u}
  /\ useOf' = IF UseStep(u) \in {"connect", "settle", "done"} THEN useOf ELSE Destroyed(u)
  /\ condemned' = IF UseStep(u) \in {"connect", "begin", "work", "query"}
                       /\ useOf[u].kind = "transaction" THEN condemned \cup {u} ELSE condemned
  /\ UNCHANGED <<handedOut, openOn, committed, givenBack>>

(* The signal of one statement, or of a nested transaction.                *)
AbortInner(u) ==
  /\ useOf[u].kind = "transaction" /\ UseStep(u) \in {"work", "query"}
  /\ ~useOf[u].destroyed
  /\ useOf' = Destroyed(u)
  /\ condemned' = condemned \cup {u}
  /\ UNCHANGED <<unaborted, handedOut, openOn, committed, givenBack>>

(* #cancelAndTerminate has asked the server, or could not.                 *)
Terminate(u) ==
  /\ useOf[u].cancelling
  /\ useOf' = [useOf EXCEPT ![u].cancelling = FALSE]
  /\ openOn' = openOn \ {useOf[u].connection}
  /\ HandBack(u)
  /\ UNCHANGED <<unaborted, committed, condemned>>

-----------------------------------------------------------------------------
(* Statements and transactions.                                            *)

StatementAnswers(u) ==
  /\ UseStep(u) = "query" /\ Connected(u)
  /\ IF useOf[u].kind = "statement"
       THEN /\ AnswerUse(u, IF u \in unaborted THEN "ok" ELSE "failed")
            /\ committed' = committed \cup {u}
       ELSE MoveOn(u, "work") /\ UNCHANGED committed
  /\ UNCHANGED <<unaborted, handedOut, openOn, condemned, givenBack>>

(* Also because it was cancelled. The work may catch the error.            *)
StatementFails(u) ==
  /\ UseStep(u) = "query"
  /\ IF useOf[u].kind = "statement" THEN AnswerUse(u, "failed")
     ELSE useOf' = [useOf EXCEPT ![u].step = "work", ![u].failure = TRUE]
  /\ UNCHANGED <<unaborted, handedOut, openOn, committed, condemned, givenBack>>

BeginAnswers(u) ==
  /\ UseStep(u) = "begin" /\ Connected(u)
  /\ openOn' = openOn \cup {useOf[u].connection}
  /\ IF u \in unaborted THEN MoveOn(u, "work") ELSE AnswerUse(u, "failed")
  /\ UNCHANGED <<unaborted, handedOut, committed, condemned, givenBack>>

(* Statements are refused once the connection is destroyed.                *)
WorkQueries(u) ==
  /\ UseStep(u) = "work" /\ ~useOf[u].destroyed
  /\ MoveOn(u, "query")
  /\ UNCHANGED <<unaborted, handedOut, openOn, committed, condemned, givenBack>>

MayCommit(u) == ~useOf[u].destroyed /\ ~useOf[u].failure

CatchError(u) == IF useOf[u].destroyed THEN AnswerUse(u, "failed") ELSE MoveOn(u, "rollback")

WorkResolves(u) ==
  /\ UseStep(u) = "work"
  /\ IF u \in unaborted /\ MayCommit(u) THEN MoveOn(u, "commit") ELSE CatchError(u)
  /\ UNCHANGED <<unaborted, handedOut, openOn, committed, condemned, givenBack>>

(* The work, the begin or the commit is rejected.                          *)
UseRejects(u) ==
  /\ UseStep(u) \in {"begin", "work", "commit"}
  /\ CatchError(u)
  /\ UNCHANGED <<unaborted, handedOut, openOn, committed, condemned, givenBack>>

(* A commit that was sent may also be carried out after the connection     *)
(* ended; its caller does not hear of it.                                  *)
ServerCommits(u) ==
  /\ UseStep(u) = "commit" /\ u \notin committed
  /\ committed' = committed \cup {u}
  /\ openOn' = IF Connected(u) THEN openOn \ {useOf[u].connection} ELSE openOn
  /\ UNCHANGED <<useOf, unaborted, handedOut, condemned, givenBack>>

CommitReturns(u) ==
  /\ UseStep(u) = "commit" /\ u \in committed /\ Connected(u)
  /\ AnswerUse(u, "ok")
  /\ UNCHANGED <<unaborted, handedOut, openOn, committed, condemned, givenBack>>

RollbackReturns(u) ==
  /\ UseStep(u) = "rollback" /\ Connected(u)
  /\ openOn' = openOn \ {useOf[u].connection}
  /\ AnswerUse(u, "failed")
  /\ UNCHANGED <<unaborted, handedOut, committed, condemned, givenBack>>

RollbackFails(u) ==
  /\ UseStep(u) = "rollback"
  /\ useOf' = [Destroyed(u) EXCEPT ![u].step = "settle", ![u].answer = "failed"]
  /\ UNCHANGED <<unaborted, handedOut, openOn, committed, condemned, givenBack>>

(* finally: the cancellation is waited for, a connection that was not      *)
(* destroyed goes back.                                                    *)
EndUse(u) ==
  /\ UseStep(u) = "settle" /\ ~useOf[u].cancelling
  /\ MoveOn(u, "done")
  /\ IF useOf[u].destroyed THEN UNCHANGED <<handedOut, givenBack>> ELSE HandBack(u)
  /\ UNCHANGED <<unaborted, openOn, committed, condemned>>

PoolNext ==
  \E u \in PoolUsers :
    \/ \E kind \in {"transaction", "statement"} : AskConnection(u, kind)
    \/ \E c \in PoolConnections : TakeConnection(u, c)
    \/ NoConnectionCame(u) \/ AbortUse(u) \/ AbortInner(u) \/ Terminate(u)
    \/ StatementAnswers(u) \/ StatementFails(u) \/ BeginAnswers(u) \/ WorkQueries(u)
    \/ WorkResolves(u) \/ UseRejects(u) \/ ServerCommits(u) \/ CommitReturns(u)
    \/ RollbackReturns(u) \/ RollbackFails(u) \/ EndUse(u)

PoolSpec == PoolInit /\ [][PoolNext]_poolVars

-----------------------------------------------------------------------------
(* Properties.                                                             *)

(* What the next call finds in the pool has no transaction open, and no    *)
(* cancellation under way that would meet the statements of that call.     *)
PooledIsClean ==
  \A c \in PoolConnections : c \notin handedOut =>
    /\ c \notin openOn
    /\ \A u \in PoolUsers : useOf[u].connection = c => ~useOf[u].cancelling

(* No connection is lost to the pool or given back twice, however an abort *)
(* meets the end of its call.                                              *)
GivenBackOnce ==
  \A u \in PoolUsers : givenBack[u] =
    IF UseStep(u) = "done" /\ useOf[u].connection # NoConnection THEN 1
    ELSE IF Connected(u) THEN 0 ELSE 1

(* A transaction that was aborted before it sent its commit, or one of     *)
(* whose statements failed, is not committed, also when its work catches   *)
(* the error; one that was told to have succeeded is.                      *)
AbortedIsNotCommitted ==
  /\ \A u \in committed : u \notin condemned /\ ~useOf[u].failure
  /\ \A u \in PoolUsers : useOf[u].answer = "ok" => u \in committed
=============================================================================
