---------------------------- MODULE Transactions ----------------------------
(***************************************************************************)
(* The transaction boundary of the data layer: Data.ExecTx, WithTx, Tx and *)
(* DB (internal/data/db_postgres.go) over the swappable pool handle PgPool *)
(* (internal/data/live.go), used by concurrent requests.                   *)
(*                                                                         *)
(* A call is one use of the data layer by one request goroutine: either    *)
(* ExecTx(ctx, fn) or one repository statement outside a transaction.      *)
(* Inside fn the request runs statements and nested ExecTx calls, in any   *)
(* order, with the context fn was given, and may swallow any error they    *)
(* return.  pgx and PostgreSQL are modelled by what this code relies on:   *)
(* an SQL error makes the transaction refuse every later statement and     *)
(* turns its commit into a rollback that Commit reports; a context that is *)
(* done before a statement stops it from being sent; a connection is one   *)
(* per transaction and a pool has at most MaxConns of them.                *)
(***************************************************************************)
EXTENDS Naturals, FiniteSets

CONSTANTS
  Calls,      \* database calls made by request goroutines
  Pools,      \* the pools the handle may point to, one after the other
  NoPool,     \* "no pool": nothing loaded yet, or no transaction in the context
  MaxConns,   \* data.database.postgres.pool.max_conns
  MaxOps      \* bound: statements plus nested ExecTx calls in one call's fn

ASSUME PoolsAssumption == NoPool \notin Pools
ASSUME BoundsAssumption == MaxConns \in Nat \ {0} /\ MaxOps \in Nat \ {0}

VARIABLES
  handle,     \* PgPool.p, the pool the stable handle points to
  pc,         \* pc[c]: where call c is
  depth,      \* depth[c]: ExecTx calls on c's stack; its ctx has the tx iff > 0
  used,       \* used[c]: how many of its MaxOps fn has used
  live,       \* live[c]: the request context is not done
  txPool,     \* txPool[c]: the pool ExecTx loaded, NoPool before
  stmtPool,   \* stmtPool[c]: the pool a statement outside a tx loaded
  session,    \* session[c]: the transaction's connection, as the server has it
  asked,      \* asked[c]: statements sent to the server
  staged,     \* staged[c]: statements done inside the open transaction
  durable,    \* durable[c]: <<pool, statement>> pairs visible to everyone
  result      \* result[c]: what the call returned

callVars == <<depth, used, txPool, stmtPool>>
vars == <<handle, pc, depth, used, live, txPool, stmtPool, session, asked,
          staged, durable, result>>

Writes == 1..MaxOps
Locations == {"idle", "acquire", "fn", "commit", "sent", "rollback", "recover",
              "stmt", "done"}
\* "limbo": the client gave up while its COMMIT was on its way to the server.
Sessions == {"none", "open", "failed", "broken", "committed", "limbo",
             "returned", "discarded"}
Results == {"none", "nil", "begin_failed", "fn_error", "panic",
            "commit_failed", "stmt_failed"}

\* The session occupies one of the MaxConns places of its pool.
Holding == {"open", "failed", "broken", "committed"}
Held(p) == {c \in Calls : txPool[c] = p /\ session[c] \in Holding}
Free(p) == Cardinality(Held(p)) < MaxConns

TypeOK ==
  /\ handle \in Pools
  /\ pc \in [Calls -> Locations]
  /\ depth \in [Calls -> 0..(MaxOps + 1)]
  /\ used \in [Calls -> 0..MaxOps]
  /\ live \in [Calls -> BOOLEAN]
  /\ txPool \in [Calls -> Pools \cup {NoPool}]
  /\ stmtPool \in [Calls -> Pools \cup {NoPool}]
  /\ session \in [Calls -> Sessions]
  /\ asked \in [Calls -> SUBSET Writes]
  /\ staged \in [Calls -> SUBSET Writes]
  /\ durable \in [Calls -> SUBSET (Pools \X Writes)]
  /\ result \in [Calls -> Results]

Init ==
  /\ handle \in Pools
  /\ pc = [c \in Calls |-> "idle"]
  /\ depth = [c \in Calls |-> 0]
  /\ used = [c \in Calls |-> 0]
  /\ live = [c \in Calls |-> TRUE]
  /\ txPool = [c \in Calls |-> NoPool]
  /\ stmtPool = [c \in Calls |-> NoPool]
  /\ session = [c \in Calls |-> "none"]
  /\ asked = [c \in Calls |-> {}]
  /\ staged = [c \in Calls |-> {}]
  /\ durable = [c \in Calls |-> {}]
  /\ result = [c \in Calls |-> "none"]

-----------------------------------------------------------------------------
(* Where a call goes next and what it hands back. *)

Goto(c, l) == pc' = [pc EXCEPT ![c] = l]

Return(c, r) ==
  /\ Goto(c, "done")
  /\ result' = [result EXCEPT ![c] = r]

\* The connection goes back to the pool, or is closed and its place freed.
Release(c, s) ==
  /\ session' = [session EXCEPT ![c] = s]
  /\ staged' = [staged EXCEPT ![c] = {}]

\* fn may make another call with the context it was given.
MayCall(c) == pc[c] \in {"idle", "fn"} /\ used[c] < MaxOps

\* Variant: the transaction is not put in, or not read from, the context.
TxForgotten(c) == NoPool

\* Data.Tx: the transaction in the call's context, if it is in one.
Tx(c) == IF depth[c] > 0 THEN txPool[c] ELSE NoPool

\* Variant: the repository fixes its queries to the pool when it is built.
DBFixedToPool(c) == "pool"

\* Data.DB: what a repository statement runs on.
DB(c) == IF Tx(c) # NoPool THEN "tx" ELSE "pool"

-----------------------------------------------------------------------------
(* ExecTx: reuse or begin. *)

\* Already in a transaction: fn runs in it, with the same context.
Reuse(c) ==
  /\ MayCall(c) /\ Tx(c) # NoPool
  /\ depth' = [depth EXCEPT ![c] = @ + 1]
  /\ used' = [used EXCEPT ![c] = @ + 1]
  /\ UNCHANGED <<handle, pc, live, txPool, stmtPool, session, asked, staged,
                 durable, result>>

\* d.db.Pool(): the pool is loaded once, before the wait for a connection.
LoadPool(c) ==
  /\ MayCall(c) /\ Tx(c) = NoPool
  /\ txPool' = [txPool EXCEPT ![c] = handle]
  /\ Goto(c, "acquire")
  /\ UNCHANGED <<handle, depth, used, live, stmtPool, session, asked, staged,
                 durable, result>>

\* BeginTx got a connection and its BEGIN went through; fn runs in txCtx.
Begin(c) ==
  /\ pc[c] = "acquire"
  /\ live[c]
  /\ Free(txPool[c])
  /\ session' = [session EXCEPT ![c] = "open"]
  /\ depth' = [depth EXCEPT ![c] = 1]
  /\ Goto(c, "fn")
  /\ UNCHANGED <<handle, used, live, txPool, stmtPool, asked, staged, durable,
                 result>>

\* BeginTx failed: the context ended in the queue, or dialling or BEGIN did.
BeginFails(c) ==
  /\ pc[c] = "acquire"
  /\ ~live[c] \/ Free(txPool[c])
  /\ Return(c, "begin_failed")
  /\ UNCHANGED <<handle, depth, used, live, txPool, stmtPool, session, asked,
                 staged, durable>>

-----------------------------------------------------------------------------
(* fn: repository statements, then its return. *)

\* A repository method runs a statement on the transaction of its context.
\* It is sent unless the context is done; it fails on a failed or broken
\* session, and an SQL error of its own makes the session failed.
StatementInTx(c) ==
  /\ MayCall(c) /\ DB(c) = "tx"
  /\ used' = [used EXCEPT ![c] = @ + 1]
  /\ LET w == used[c] + 1 IN
       \/ /\ ~live[c]
          /\ UNCHANGED <<session, asked, staged>>
       \/ /\ live[c]
          /\ asked' = [asked EXCEPT ![c] = @ \cup {w}]
          /\ \/ /\ session[c] = "open"
                /\ staged' = [staged EXCEPT ![c] = @ \cup {w}]
                /\ UNCHANGED session
             \/ /\ session[c] = "open"
                /\ session' = [session EXCEPT ![c] = "failed"]
                /\ UNCHANGED staged
             \/ /\ session[c] \in {"failed", "broken"}
                /\ UNCHANGED <<session, staged>>
  /\ UNCHANGED <<handle, pc, depth, live, txPool, stmtPool, durable, result>>

\* A nested fn returns nil or an error: ExecTx hands it to the outer fn as it
\* is, and the transaction stays open.
NestedReturn(c) ==
  /\ pc[c] = "fn" /\ depth[c] > 1
  /\ depth' = [depth EXCEPT ![c] = @ - 1]
  /\ UNCHANGED <<handle, pc, used, live, txPool, stmtPool, session, asked,
                 staged, durable, result>>

\* The outermost fn returns; ExecTx goes on to Commit or to Rollback.
FnReturns(c) ==
  /\ pc[c] = "fn" /\ depth[c] = 1
  /\ depth' = [depth EXCEPT ![c] = 0]
  /\ \E l \in {"commit", "rollback"} : Goto(c, l)
  /\ UNCHANGED <<handle, used, live, txPool, stmtPool, session, asked, staged,
                 durable, result>>

\* Variant: no deferred recover, so a panic leaves the transaction open.
FnPanicsUnrecovered(c) ==
  /\ pc[c] = "fn"
  /\ depth' = [depth EXCEPT ![c] = 0]
  /\ Return(c, "panic")
  /\ UNCHANGED <<handle, used, live, txPool, stmtPool, session, asked, staged,
                 durable>>

\* A panic at any depth unwinds to the deferred function of the outermost
\* ExecTx, the only one that installed it.
FnPanics(c) ==
  /\ pc[c] = "fn"
  /\ depth' = [depth EXCEPT ![c] = 0]
  /\ Goto(c, "recover")
  /\ UNCHANGED <<handle, used, live, txPool, stmtPool, session, asked, staged,
                 durable, result>>

\* Variant: the rollback runs under the request's own context.
RollbackUnderContext(c) ==
  /\ pc[c] \in {"rollback", "recover"}
  /\ Return(c, IF pc[c] = "rollback" THEN "fn_error" ELSE "panic")
  /\ Release(c, IF session[c] = "broken" \/ ~live[c]
                  THEN "discarded" ELSE "returned")
  /\ UNCHANGED <<handle, live, callVars, asked, durable>>

\* tx.Rollback under context.WithoutCancel, then the error is returned or the
\* panic goes on.  Only a broken connection cannot be rolled back.
Rollback(c) ==
  /\ pc[c] \in {"rollback", "recover"}
  /\ Return(c, IF pc[c] = "rollback" THEN "fn_error" ELSE "panic")
  /\ Release(c, IF session[c] = "broken" THEN "discarded" ELSE "returned")
  /\ UNCHANGED <<handle, live, callVars, asked, durable>>

-----------------------------------------------------------------------------
(* tx.Commit under the request's context. *)

\* The context is done before COMMIT is sent: pgx closes the connection.
CommitNotSent(c) ==
  /\ pc[c] = "commit" /\ ~live[c]
  /\ Return(c, "commit_failed")
  /\ Release(c, "discarded")
  /\ UNCHANGED <<handle, live, callVars, asked, durable>>

CommitSent(c) ==
  /\ pc[c] = "commit" /\ live[c]
  /\ Goto(c, "sent")
  /\ UNCHANGED <<handle, live, callVars, session, asked, staged, durable,
                 result>>

\* The server commits an open transaction, at once or after the client gave
\* up on it.
ServerCommits(c) ==
  /\ \/ /\ pc[c] = "sent" /\ session[c] = "open"
        /\ session' = [session EXCEPT ![c] = "committed"]
     \/ /\ session[c] = "limbo"
        /\ session' = [session EXCEPT ![c] = "discarded"]
  /\ durable' = [durable EXCEPT ![c] = @ \cup ({txPool[c]} \X staged[c])]
  /\ staged' = [staged EXCEPT ![c] = {}]
  /\ UNCHANGED <<handle, pc, live, callVars, asked, result>>

\* The COMMIT the client gave up on never arrived.
ServerAborts(c) ==
  /\ session[c] = "limbo"
  /\ Release(c, "discarded")
  /\ UNCHANGED <<handle, pc, live, callVars, asked, durable, result>>

CommitAnswered(c) ==
  /\ pc[c] = "sent" /\ session[c] = "committed"
  /\ Return(c, "nil")
  /\ Release(c, "returned")
  /\ UNCHANGED <<handle, live, callVars, asked, durable>>

\* Variant: the error of Commit is not looked at.
CommitErrorIgnored(c) ==
  /\ pc[c] = "sent" /\ session[c] \in {"failed", "broken"}
  /\ Return(c, "nil")
  /\ Release(c, IF session[c] = "failed" THEN "returned" ELSE "discarded")
  /\ UNCHANGED <<handle, live, callVars, asked, durable>>

\* A failed transaction answers COMMIT with ROLLBACK, which pgx reports; a
\* broken connection does not answer.
CommitRefused(c) ==
  /\ pc[c] = "sent" /\ session[c] \in {"failed", "broken"}
  /\ Return(c, "commit_failed")
  /\ Release(c, IF session[c] = "failed" THEN "returned" ELSE "discarded")
  /\ UNCHANGED <<handle, live, callVars, asked, durable>>

\* The context ends or the connection drops while COMMIT is under way.
CommitAbandoned(c) ==
  /\ pc[c] = "sent" /\ session[c] \in {"open", "committed"}
  /\ Return(c, "commit_failed")
  /\ session' = [session EXCEPT ![c] =
                   IF @ = "open" THEN "limbo" ELSE "discarded"]
  /\ UNCHANGED <<handle, live, callVars, asked, staged, durable>>

-----------------------------------------------------------------------------
(* A repository statement outside a transaction runs on the PgPool handle. *)

\* PgPool.Exec, Query and QueryRow load the pool at call time.
StatementOnPool(c) ==
  /\ MayCall(c) /\ DB(c) = "pool"
  /\ stmtPool' = [stmtPool EXCEPT ![c] = handle]
  /\ used' = [used EXCEPT ![c] = @ + 1]
  /\ asked' = [asked EXCEPT ![c] = @ \cup {used[c] + 1}]
  /\ Goto(c, "stmt")
  /\ UNCHANGED <<handle, depth, live, txPool, session, staged, durable, result>>

\* The outcome of a statement goes to whoever ran it.
HandBack(c, r) ==
  IF depth[c] = 0 THEN Return(c, r) ELSE Goto(c, "fn") /\ UNCHANGED result

\* The statement gets a connection of that pool, commits by itself and gives
\* the connection back; or it fails, with or without having taken effect.
StatementEnds(c) ==
  /\ pc[c] = "stmt"
  /\ \/ /\ live[c] /\ Free(stmtPool[c])
        /\ durable' = [durable EXCEPT ![c] = @ \cup {<<stmtPool[c], used[c]>>}]
        /\ \E r \in {"nil", "stmt_failed"} : HandBack(c, r)
     \/ /\ ~live[c] \/ Free(stmtPool[c])
        /\ HandBack(c, "stmt_failed")
        /\ UNCHANGED durable
  /\ UNCHANGED <<handle, live, callVars, session, asked, staged>>

-----------------------------------------------------------------------------
(* The surroundings of a call. *)

\* The client disconnects or a deadline passes.
Cancel(c) ==
  /\ live[c] /\ pc[c] # "done"
  /\ live' = [live EXCEPT ![c] = FALSE]
  /\ UNCHANGED <<handle, pc, callVars, session, asked, staged, durable, result>>

\* The connection of an open transaction is lost, by a network failure or
\* because the context ended under a running statement.
Cut(c) ==
  /\ pc[c] \in {"fn", "commit", "sent", "rollback", "recover"}
  /\ session[c] \in {"open", "failed"}
  /\ session' = [session EXCEPT ![c] = "broken"]
  /\ staged' = [staged EXCEPT ![c] = {}]
  /\ UNCHANGED <<handle, pc, live, callVars, asked, durable, result>>

\* Variant: Swap takes the old pool out to drain it, and stores the new one later.
SwapDrainsFirst(p) ==
  /\ p # handle
  /\ handle' = NoPool
  /\ UNCHANGED <<pc, live, callVars, session, asked, staged, durable, result>>

\* PgPool.Swap after a configuration update.  Nothing in the repository calls
\* it yet; the handle promises that it may happen at any time.
Swap(p) ==
  /\ p # handle
  /\ handle' = p
  /\ UNCHANGED <<pc, live, callVars, session, asked, staged, durable, result>>

\* What the call's goroutine and the server do when they are not disturbed.
Step(c) ==
  \/ Reuse(c) \/ LoadPool(c) \/ Begin(c) \/ BeginFails(c)
  \/ StatementInTx(c) \/ NestedReturn(c) \/ FnReturns(c) \/ FnPanics(c)
  \/ Rollback(c)
  \/ CommitNotSent(c) \/ CommitSent(c) \/ ServerCommits(c)
  \/ CommitAnswered(c) \/ CommitRefused(c)
  \/ StatementOnPool(c) \/ StatementEnds(c)

Next ==
  \/ \E c \in Calls :
       Step(c) \/ CommitAbandoned(c) \/ ServerAborts(c) \/ Cancel(c) \/ Cut(c)
  \/ \E p \in Pools : Swap(p)

Spec == Init /\ [][Next]_vars

\* Every request goroutine runs and every server answers; nothing is assumed
\* of cancellations, lost connections and swaps.
FairSpec == Spec /\ \A c \in Calls : WF_vars(Step(c))

-----------------------------------------------------------------------------
(* Properties *)

\* The pool a call ran on.
Home(c) == IF txPool[c] # NoPool THEN txPool[c] ELSE stmtPool[c]

\* Other requests see all the statements of a call or none of them, and all
\* in one database, whatever fn did with errors, nested ExecTx calls and
\* panics, whenever the context ended, the connection broke or the handle was
\* swapped, and also after a COMMIT nobody waits for any more
\* (db_postgres.go 47-94, live.go 26-39).
AllOrNothing ==
  \A c \in Calls : durable[c] \in {{}, {Home(c)} \X asked[c]}

\* nil means that every statement sent took effect, even when fn swallowed the
\* error of one; a failed begin, an error of fn and a panic mean that none did,
\* then or later.  Only "commit failed" and a failed lone statement leave it
\* open (db_postgres.go 66-94).
AnswerIsTruthful ==
  \A c \in Calls :
    /\ result[c] = "nil" => durable[c] = {Home(c)} \X asked[c]
    /\ result[c] \in {"begin_failed", "fn_error", "panic"} =>
         durable[c] = {} /\ staged[c] = {}

\* A call that returned or re-panicked holds no connection, on any of the
\* paths through ExecTx (db_postgres.go 73-94).
NoConnectionLeak ==
  \A c \in Calls : pc[c] = "done" => session[c] \notin Holding

\* A step that throws a working connection of call c away.
Discards(c) ==
  session[c] \in {"open", "failed"} /\ session'[c] = "discarded"

KeepsConnections == \A c \in Calls : Discards(c) => pc[c] = "commit"

\* A working connection is thrown away only by a Commit whose context is done;
\* a rollback gives it back even when the request was cancelled, and does not
\* leave it hanging in the transaction (db_postgres.go 75-77, 83).
CancelKeepsConnections == [][KeepsConnections]_vars

\* The contract callers rely on.
Reply(c) ==
  CASE result[c] = "none" -> "none"
    [] result[c] = "nil" -> "nil"
    [] result[c] \in {"begin_failed", "fn_error", "panic"} -> "error"
    [] result[c] \in {"commit_failed", "stmt_failed"} -> "unknown"

Abstract == INSTANCE AtomicCalls
  WITH effect <- durable, reply <- [c \in Calls |-> Reply(c)]

\* ExecTx with its pools, connections and contexts does what AtomicCalls
\* promises (db_postgres.go 28-94).
ImplementsAtomicCalls == Abstract!AbsSpec

\* Every call returns, also when as many requests as there are connections
\* nest ExecTx: no call waits for a connection while it holds one
\* (db_postgres.go 56-63).
EveryCallReturns == \A c \in Calls : <>(pc[c] = "done")
=============================================================================
