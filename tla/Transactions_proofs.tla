------------------------ MODULE Transactions_proofs ------------------------
(***************************************************************************)
(* Proofs about module Transactions, for any number of calls and pools,    *)
(* any pool size and any bound on the operations of fn.                    *)
(*                                                                         *)
(* The invariants of the runs are not inductive: that an "open" session    *)
(* holds exactly what the call asked for, that a failed one has had no     *)
(* effect, and which sessions go with which location, is what carries them *)
(* from one step to the next.  Control and Data below say that, call by    *)
(* call; every action disturbs only the call it is about.                  *)
(***************************************************************************)
EXTENDS Transactions, FiniteSetTheorems, TLAPS

\* Where a call is, which session and context go with it.
Control(c) ==
  /\ pc[c] \in {"idle", "acquire", "stmt"} => session[c] = "none"
  /\ pc[c] \in {"fn", "commit", "rollback", "recover"} =>
       session[c] \in {"open", "failed", "broken"}
  /\ pc[c] = "sent" => session[c] \in Holding
  /\ pc[c] = "done" => session[c] \notin Holding
  /\ pc[c] = "fn" <=> depth[c] > 0
  /\ depth[c] <= used[c] + 1
  /\ pc[c] \in {"idle", "stmt"} => txPool[c] = NoPool
  /\ pc[c] = "acquire" => txPool[c] \in Pools
  /\ session[c] # "none" => txPool[c] \in Pools
  /\ pc[c] = "stmt" => stmtPool[c] \in Pools /\ used[c] \in Writes
  /\ result[c] = "none" <=> pc[c] # "done"
  /\ session[c] = "limbo" => result[c] = "commit_failed"

\* What the session holds and what the database shows of a call.
Data(c) ==
  /\ pc[c] \in {"idle", "acquire"} => asked[c] = {}
  /\ pc[c] = "stmt" => asked[c] = {used[c]}
  /\ session[c] \in {"open", "limbo"} => staged[c] = asked[c]
  /\ session[c] \in {"none", "committed", "returned", "discarded"} =>
       staged[c] = {}
  /\ session[c] \in {"open", "failed", "broken", "limbo"} => durable[c] = {}
  /\ pc[c] \in {"idle", "acquire", "stmt"} => durable[c] = {}
  /\ session[c] = "committed" => durable[c] = {txPool[c]} \X asked[c]

\* What the answer of a call says about its effect.
Outcome(c) ==
  /\ durable[c] \in {{}, {Home(c)} \X asked[c]}
  /\ result[c] = "nil" =>
       Home(c) \in Pools /\ durable[c] = {Home(c)} \X asked[c]
  /\ result[c] \in {"begin_failed", "fn_error", "panic"} =>
       durable[c] = {} /\ staged[c] = {}

\* The inductive invariant.
IInv ==
  /\ TypeOK
  /\ \A c \in Calls : Control(c) /\ Data(c) /\ Outcome(c)

\* A statement that commits by itself is the whole of its call.
LEMMA LoneStatement ==
  ASSUME NEW p, NEW w
  PROVE  {<<p, w>>} = {p} \X {w}
OBVIOUS

\* The invariant holds when no call has started.
LEMMA InitIInv == Init => IInv
BY PoolsAssumption, BoundsAssumption
   DEF Init, IInv, TypeOK, Control, Data, Outcome,
       Locations, Sessions, Results, Holding, Writes

-----------------------------------------------------------------------------
(* One lemma per action: it preserves the invariant. *)

\* A nested ExecTx opens no session, it only goes one call deeper.
LEMMA ReuseIInv ==
  ASSUME IInv, NEW c \in Calls, Reuse(c)
  PROVE  IInv'
<1>. USE DEF IInv, TypeOK, Reuse, MayCall, Tx
<1>1. TypeOK'
  BY BoundsAssumption
     DEF Control, Locations, Sessions, Results, Holding, Writes
<1>2. ASSUME NEW d \in Calls PROVE Control(d)'
  BY BoundsAssumption, PoolsAssumption
     DEF Control, Sessions, Results, Holding, Writes
<1>3. ASSUME NEW d \in Calls PROVE Data(d)'
  BY PoolsAssumption DEF Control, Data, Holding, Writes
<1>4. ASSUME NEW d \in Calls PROVE Outcome(d)'
  BY LoneStatement, PoolsAssumption DEF Control, Data, Outcome, Home, Holding
<1>. QED  BY <1>1, <1>2, <1>3, <1>4

\* Loading the pool fixes the home of a call that has none yet.
LEMMA LoadPoolIInv ==
  ASSUME IInv, NEW c \in Calls, LoadPool(c)
  PROVE  IInv'
<1>. USE DEF IInv, TypeOK, LoadPool, MayCall, Tx, Goto
<1>1. TypeOK'
  BY BoundsAssumption
     DEF Control, Locations, Sessions, Results, Holding, Writes
<1>2. ASSUME NEW d \in Calls PROVE Control(d)'
  BY BoundsAssumption, PoolsAssumption
     DEF Control, Sessions, Results, Holding, Writes
<1>3. ASSUME NEW d \in Calls PROVE Data(d)'
  BY PoolsAssumption DEF Control, Data, Holding, Writes
<1>4. ASSUME NEW d \in Calls PROVE Outcome(d)'
  BY LoneStatement, PoolsAssumption DEF Control, Data, Outcome, Home, Holding
<1>. QED  BY <1>1, <1>2, <1>3, <1>4

\* BEGIN opens an empty session for a call that has asked for nothing.
LEMMA BeginIInv ==
  ASSUME IInv, NEW c \in Calls, Begin(c)
  PROVE  IInv'
<1>. USE DEF IInv, TypeOK, Begin, Goto
<1>1. TypeOK'
  BY BoundsAssumption
     DEF Control, Locations, Sessions, Results, Holding, Writes
<1>2. ASSUME NEW d \in Calls PROVE Control(d)'
  BY BoundsAssumption, PoolsAssumption
     DEF Control, Sessions, Results, Holding, Writes
<1>3. ASSUME NEW d \in Calls PROVE Data(d)'
  BY PoolsAssumption DEF Control, Data, Holding, Writes
<1>4. ASSUME NEW d \in Calls PROVE Outcome(d)'
  BY LoneStatement, PoolsAssumption DEF Control, Data, Outcome, Home, Holding
<1>. QED  BY <1>1, <1>2, <1>3, <1>4

\* A call that never began has had no effect.
LEMMA BeginFailsIInv ==
  ASSUME IInv, NEW c \in Calls, BeginFails(c)
  PROVE  IInv'
<1>. USE DEF IInv, TypeOK, BeginFails, Return, Goto
<1>1. TypeOK'
  BY BoundsAssumption
     DEF Control, Locations, Sessions, Results, Holding, Writes
<1>2. ASSUME NEW d \in Calls PROVE Control(d)'
  BY BoundsAssumption, PoolsAssumption
     DEF Control, Sessions, Results, Holding, Writes
<1>3. ASSUME NEW d \in Calls PROVE Data(d)'
  BY PoolsAssumption DEF Control, Data, Holding, Writes
<1>4. ASSUME NEW d \in Calls PROVE Outcome(d)'
  BY LoneStatement, PoolsAssumption DEF Control, Data, Outcome, Home, Holding
<1>. QED  BY <1>1, <1>2, <1>3, <1>4

\* A statement is staged on an open session, or leaves it failed or broken.
LEMMA StatementInTxIInv ==
  ASSUME IInv, NEW c \in Calls, StatementInTx(c)
  PROVE  IInv'
<1>. USE DEF IInv, TypeOK, StatementInTx, MayCall, DB, Tx
<1>1. TypeOK'
  <2>1. used[c] + 1 \in Writes /\ used[c] + 1 \in 0..MaxOps
    BY BoundsAssumption DEF Writes
  <2>2. used' \in [Calls -> 0..MaxOps]
    BY <2>1
  <2>3. asked' \in [Calls -> SUBSET Writes]
    BY <2>1
  <2>4. staged' \in [Calls -> SUBSET Writes]
    BY <2>1
  <2>5. session' \in [Calls -> Sessions]
    BY DEF Sessions
  <2>6. UNCHANGED <<handle, pc, depth, live, txPool, stmtPool, durable, result>>
    OBVIOUS
  <2>. HIDE DEF StatementInTx
  <2>. QED  BY <2>2, <2>3, <2>4, <2>5, <2>6
<1>2. ASSUME NEW d \in Calls PROVE Control(d)'
  BY BoundsAssumption, PoolsAssumption
     DEF Control, Sessions, Results, Holding, Writes
<1>3. ASSUME NEW d \in Calls PROVE Data(d)'
  <2>1. pc[c] = "fn" /\ session[c] \in {"open", "failed", "broken"}
    BY DEF Control
  <2>2. CASE d # c
    BY <2>2 DEF Data
  <2>3. CASE d = c
    <3>. DEFINE w == used[c] + 1
    <3>1. CASE UNCHANGED <<session, asked, staged>>
      BY <2>1, <2>3, <3>1 DEF Data
    <3>2. CASE /\ session[c] = "open" /\ UNCHANGED session
               /\ asked' = [asked EXCEPT ![c] = @ \cup {w}]
               /\ staged' = [staged EXCEPT ![c] = @ \cup {w}]
      BY <2>1, <2>3, <3>2 DEF Data
    <3>3. CASE session[c] # "open" /\ UNCHANGED <<session, staged>>
      BY <2>1, <2>3, <3>3 DEF Data
    <3>4. CASE session' = [session EXCEPT ![c] = "failed"] /\ session[c] = "open"
      BY <2>1, <2>3, <3>4 DEF Data
    <3>. QED  BY <3>1, <3>2, <3>3, <3>4
  <2>. QED  BY <2>2, <2>3
<1>4. ASSUME NEW d \in Calls PROVE Outcome(d)'
  BY LoneStatement, PoolsAssumption DEF Control, Data, Outcome, Home, Holding
<1>. QED  BY <1>1, <1>2, <1>3, <1>4

\* The end of a nested ExecTx changes the depth and nothing else.
LEMMA NestedReturnIInv ==
  ASSUME IInv, NEW c \in Calls, NestedReturn(c)
  PROVE  IInv'
<1>. USE DEF IInv, TypeOK, NestedReturn
<1>1. TypeOK'
  BY BoundsAssumption
     DEF Control, Locations, Sessions, Results, Holding, Writes
<1>2. ASSUME NEW d \in Calls PROVE Control(d)'
  BY BoundsAssumption, PoolsAssumption
     DEF Control, Sessions, Results, Holding, Writes
<1>3. ASSUME NEW d \in Calls PROVE Data(d)'
  BY PoolsAssumption DEF Control, Data, Holding, Writes
<1>4. ASSUME NEW d \in Calls PROVE Outcome(d)'
  BY LoneStatement, PoolsAssumption DEF Control, Data, Outcome, Home, Holding
<1>. QED  BY <1>1, <1>2, <1>3, <1>4

\* Leaving fn puts the transaction in the hands of Commit or Rollback.
LEMMA FnReturnsIInv ==
  ASSUME IInv, NEW c \in Calls, FnReturns(c)
  PROVE  IInv'
<1>. USE DEF IInv, TypeOK, FnReturns, Goto
<1>1. TypeOK'
  BY BoundsAssumption
     DEF Control, Locations, Sessions, Results, Holding, Writes
<1>2. ASSUME NEW d \in Calls PROVE Control(d)'
  BY BoundsAssumption, PoolsAssumption
     DEF Control, Sessions, Results, Holding, Writes
<1>3. ASSUME NEW d \in Calls PROVE Data(d)'
  BY PoolsAssumption DEF Control, Data, Holding, Writes
<1>4. ASSUME NEW d \in Calls PROVE Outcome(d)'
  BY LoneStatement, PoolsAssumption DEF Control, Data, Outcome, Home, Holding
<1>. QED  BY <1>1, <1>2, <1>3, <1>4

\* A panic leaves every ExecTx on the stack at once.
LEMMA FnPanicsIInv ==
  ASSUME IInv, NEW c \in Calls, FnPanics(c)
  PROVE  IInv'
<1>. USE DEF IInv, TypeOK, FnPanics, Goto
<1>1. TypeOK'
  BY BoundsAssumption
     DEF Control, Locations, Sessions, Results, Holding, Writes
<1>2. ASSUME NEW d \in Calls PROVE Control(d)'
  BY BoundsAssumption, PoolsAssumption
     DEF Control, Sessions, Results, Holding, Writes
<1>3. ASSUME NEW d \in Calls PROVE Data(d)'
  BY PoolsAssumption DEF Control, Data, Holding, Writes
<1>4. ASSUME NEW d \in Calls PROVE Outcome(d)'
  BY LoneStatement, PoolsAssumption DEF Control, Data, Outcome, Home, Holding
<1>. QED  BY <1>1, <1>2, <1>3, <1>4

\* A rolled back session has shown nothing to anyone.
LEMMA RollbackIInv ==
  ASSUME IInv, NEW c \in Calls, Rollback(c)
  PROVE  IInv'
<1>. USE DEF IInv, TypeOK, Rollback, Return, Goto, Release, callVars
<1>1. TypeOK'
  BY BoundsAssumption
     DEF Control, Locations, Sessions, Results, Holding, Writes
<1>2. ASSUME NEW d \in Calls PROVE Control(d)'
  BY BoundsAssumption, PoolsAssumption
     DEF Control, Sessions, Results, Holding, Writes
<1>3. ASSUME NEW d \in Calls PROVE Data(d)'
  BY PoolsAssumption DEF Control, Data, Holding, Writes
<1>4. ASSUME NEW d \in Calls PROVE Outcome(d)'
  BY LoneStatement, PoolsAssumption DEF Control, Data, Outcome, Home, Holding
<1>. QED  BY <1>1, <1>2, <1>3, <1>4

\* A COMMIT that was not sent commits nothing.
LEMMA CommitNotSentIInv ==
  ASSUME IInv, NEW c \in Calls, CommitNotSent(c)
  PROVE  IInv'
<1>. USE DEF IInv, TypeOK, CommitNotSent, Return, Goto, Release, callVars
<1>1. TypeOK'
  BY BoundsAssumption
     DEF Control, Locations, Sessions, Results, Holding, Writes
<1>2. ASSUME NEW d \in Calls PROVE Control(d)'
  BY BoundsAssumption, PoolsAssumption
     DEF Control, Sessions, Results, Holding, Writes
<1>3. ASSUME NEW d \in Calls PROVE Data(d)'
  BY PoolsAssumption DEF Control, Data, Holding, Writes
<1>4. ASSUME NEW d \in Calls PROVE Outcome(d)'
  BY LoneStatement, PoolsAssumption DEF Control, Data, Outcome, Home, Holding
<1>. QED  BY <1>1, <1>2, <1>3, <1>4

\* Sending COMMIT changes nothing of what the session holds.
LEMMA CommitSentIInv ==
  ASSUME IInv, NEW c \in Calls, CommitSent(c)
  PROVE  IInv'
<1>. USE DEF IInv, TypeOK, CommitSent, Goto, callVars
<1>1. TypeOK'
  BY BoundsAssumption
     DEF Control, Locations, Sessions, Results, Holding, Writes
<1>2. ASSUME NEW d \in Calls PROVE Control(d)'
  BY BoundsAssumption, PoolsAssumption
     DEF Control, Sessions, Results, Holding, Writes
<1>3. ASSUME NEW d \in Calls PROVE Data(d)'
  BY PoolsAssumption DEF Control, Data, Holding, Writes
<1>4. ASSUME NEW d \in Calls PROVE Outcome(d)'
  BY LoneStatement, PoolsAssumption DEF Control, Data, Outcome, Home, Holding
<1>. QED  BY <1>1, <1>2, <1>3, <1>4

\* The server makes durable what was staged, which is all that was asked.
LEMMA ServerCommitsIInv ==
  ASSUME IInv, NEW c \in Calls, ServerCommits(c)
  PROVE  IInv'
<1>. USE DEF IInv, TypeOK, ServerCommits, callVars
<1>1. TypeOK'
  BY BoundsAssumption
     DEF Control, Locations, Sessions, Results, Holding, Writes
<1>2. ASSUME NEW d \in Calls PROVE Control(d)'
  BY BoundsAssumption, PoolsAssumption
     DEF Control, Sessions, Results, Holding, Writes
<1>3. ASSUME NEW d \in Calls PROVE Data(d)'
  BY PoolsAssumption DEF Control, Data, Holding, Writes
<1>4. ASSUME NEW d \in Calls PROVE Outcome(d)'
  BY LoneStatement, PoolsAssumption DEF Control, Data, Outcome, Home, Holding
<1>. QED  BY <1>1, <1>2, <1>3, <1>4

\* An answered COMMIT has committed.
LEMMA CommitAnsweredIInv ==
  ASSUME IInv, NEW c \in Calls, CommitAnswered(c)
  PROVE  IInv'
<1>. USE DEF IInv, TypeOK, CommitAnswered, Return, Goto, Release, callVars
<1>1. TypeOK'
  BY BoundsAssumption
     DEF Control, Locations, Sessions, Results, Holding, Writes
<1>2. ASSUME NEW d \in Calls PROVE Control(d)'
  BY BoundsAssumption, PoolsAssumption
     DEF Control, Sessions, Results, Holding, Writes
<1>3. ASSUME NEW d \in Calls PROVE Data(d)'
  BY PoolsAssumption DEF Control, Data, Holding, Writes
<1>4. ASSUME NEW d \in Calls PROVE Outcome(d)'
  BY LoneStatement, PoolsAssumption DEF Control, Data, Outcome, Home, Holding
<1>. QED  BY <1>1, <1>2, <1>3, <1>4

\* A refused COMMIT has committed nothing.
LEMMA CommitRefusedIInv ==
  ASSUME IInv, NEW c \in Calls, CommitRefused(c)
  PROVE  IInv'
<1>. USE DEF IInv, TypeOK, CommitRefused, Return, Goto, Release, callVars
<1>1. TypeOK'
  BY BoundsAssumption
     DEF Control, Locations, Sessions, Results, Holding, Writes
<1>2. ASSUME NEW d \in Calls PROVE Control(d)'
  BY BoundsAssumption, PoolsAssumption
     DEF Control, Sessions, Results, Holding, Writes
<1>3. ASSUME NEW d \in Calls PROVE Data(d)'
  BY PoolsAssumption DEF Control, Data, Holding, Writes
<1>4. ASSUME NEW d \in Calls PROVE Outcome(d)'
  BY LoneStatement, PoolsAssumption DEF Control, Data, Outcome, Home, Holding
<1>. QED  BY <1>1, <1>2, <1>3, <1>4

\* A lone statement asks for itself only.
LEMMA StatementOnPoolIInv ==
  ASSUME IInv, NEW c \in Calls, StatementOnPool(c)
  PROVE  IInv'
<1>. USE DEF IInv, TypeOK, StatementOnPool, MayCall, DB, Tx, Goto
<1>1. TypeOK'
  BY BoundsAssumption
     DEF Control, Locations, Sessions, Results, Holding, Writes
<1>2. ASSUME NEW d \in Calls PROVE Control(d)'
  BY BoundsAssumption, PoolsAssumption
     DEF Control, Sessions, Results, Holding, Writes
<1>3. ASSUME NEW d \in Calls PROVE Data(d)'
  BY PoolsAssumption DEF Control, Data, Holding, Writes
<1>4. ASSUME NEW d \in Calls PROVE Outcome(d)'
  BY LoneStatement, PoolsAssumption DEF Control, Data, Outcome, Home, Holding
<1>. QED  BY <1>1, <1>2, <1>3, <1>4

\* A lone statement takes effect wholly or not at all.
LEMMA StatementEndsIInv ==
  ASSUME IInv, NEW c \in Calls, StatementEnds(c)
  PROVE  IInv'
<1>. USE DEF IInv, TypeOK, StatementEnds, HandBack, Return, Goto, callVars
<1>1. TypeOK'
  BY BoundsAssumption
     DEF Control, Locations, Sessions, Results, Holding, Writes
<1>2. ASSUME NEW d \in Calls PROVE Control(d)'
  BY BoundsAssumption, PoolsAssumption
     DEF Control, Sessions, Results, Holding, Writes
<1>3. ASSUME NEW d \in Calls PROVE Data(d)'
  BY PoolsAssumption DEF Control, Data, Holding, Writes
<1>4. ASSUME NEW d \in Calls PROVE Outcome(d)'
  BY LoneStatement, PoolsAssumption DEF Control, Data, Outcome, Home, Holding
<1>. QED  BY <1>1, <1>2, <1>3, <1>4

\* Giving up on COMMIT leaves it open whether the server commits.
LEMMA CommitAbandonedIInv ==
  ASSUME IInv, NEW c \in Calls, CommitAbandoned(c)
  PROVE  IInv'
<1>. USE DEF IInv, TypeOK, CommitAbandoned, Return, Goto, callVars
<1>1. TypeOK'
  BY BoundsAssumption
     DEF Control, Locations, Sessions, Results, Holding, Writes
<1>2. ASSUME NEW d \in Calls PROVE Control(d)'
  BY BoundsAssumption, PoolsAssumption
     DEF Control, Sessions, Results, Holding, Writes
<1>3. ASSUME NEW d \in Calls PROVE Data(d)'
  BY PoolsAssumption DEF Control, Data, Holding, Writes
<1>4. ASSUME NEW d \in Calls PROVE Outcome(d)'
  BY LoneStatement, PoolsAssumption DEF Control, Data, Outcome, Home, Holding
<1>. QED  BY <1>1, <1>2, <1>3, <1>4

\* A COMMIT that never arrived drops what was staged.
LEMMA ServerAbortsIInv ==
  ASSUME IInv, NEW c \in Calls, ServerAborts(c)
  PROVE  IInv'
<1>. USE DEF IInv, TypeOK, ServerAborts, Release, callVars
<1>1. TypeOK'
  BY BoundsAssumption
     DEF Control, Locations, Sessions, Results, Holding, Writes
<1>2. ASSUME NEW d \in Calls PROVE Control(d)'
  BY BoundsAssumption, PoolsAssumption
     DEF Control, Sessions, Results, Holding, Writes
<1>3. ASSUME NEW d \in Calls PROVE Data(d)'
  BY PoolsAssumption DEF Control, Data, Holding, Writes
<1>4. ASSUME NEW d \in Calls PROVE Outcome(d)'
  BY LoneStatement, PoolsAssumption DEF Control, Data, Outcome, Home, Holding
<1>. QED  BY <1>1, <1>2, <1>3, <1>4

\* A context that ends changes no session by itself.
LEMMA CancelIInv ==
  ASSUME IInv, NEW c \in Calls, Cancel(c)
  PROVE  IInv'
<1>. USE DEF IInv, TypeOK, Cancel, callVars
<1>1. TypeOK'
  BY BoundsAssumption
     DEF Control, Locations, Sessions, Results, Holding, Writes
<1>2. ASSUME NEW d \in Calls PROVE Control(d)'
  BY BoundsAssumption, PoolsAssumption
     DEF Control, Sessions, Results, Holding, Writes
<1>3. ASSUME NEW d \in Calls PROVE Data(d)'
  BY PoolsAssumption DEF Control, Data, Holding, Writes
<1>4. ASSUME NEW d \in Calls PROVE Outcome(d)'
  BY LoneStatement, PoolsAssumption DEF Control, Data, Outcome, Home, Holding
<1>. QED  BY <1>1, <1>2, <1>3, <1>4

\* A lost connection loses what was staged on it.
LEMMA CutIInv ==
  ASSUME IInv, NEW c \in Calls, Cut(c)
  PROVE  IInv'
<1>. USE DEF IInv, TypeOK, Cut, callVars
<1>1. TypeOK'
  BY BoundsAssumption
     DEF Control, Locations, Sessions, Results, Holding, Writes
<1>2. ASSUME NEW d \in Calls PROVE Control(d)'
  BY BoundsAssumption, PoolsAssumption
     DEF Control, Sessions, Results, Holding, Writes
<1>3. ASSUME NEW d \in Calls PROVE Data(d)'
  BY PoolsAssumption DEF Control, Data, Holding, Writes
<1>4. ASSUME NEW d \in Calls PROVE Outcome(d)'
  BY LoneStatement, PoolsAssumption DEF Control, Data, Outcome, Home, Holding
<1>. QED  BY <1>1, <1>2, <1>3, <1>4

\* Swapping the handle moves no call that has loaded its pool.
LEMMA SwapIInv ==
  ASSUME IInv, NEW p \in Pools, Swap(p)
  PROVE  IInv'
BY DEF IInv, TypeOK, Swap, callVars, Control, Data, Outcome, Home

\* A stuttering step preserves the invariant.
LEMMA StutterIInv ==
  ASSUME IInv, UNCHANGED vars
  PROVE  IInv'
BY DEF IInv, TypeOK, vars, Control, Data, Outcome, Home

\* No step of any request, server or configuration update breaks IInv.
LEMMA NextIInv == IInv /\ [Next]_vars => IInv'
<1>. SUFFICES ASSUME IInv, [Next]_vars PROVE IInv'
  OBVIOUS
<1>1. ASSUME NEW c \in Calls,
             Step(c) \/ CommitAbandoned(c) \/ ServerAborts(c) \/ Cancel(c) \/ Cut(c)
      PROVE  IInv'
  BY <1>1, ReuseIInv, LoadPoolIInv, BeginIInv, BeginFailsIInv,
     StatementInTxIInv, NestedReturnIInv, FnReturnsIInv, FnPanicsIInv,
     RollbackIInv, CommitNotSentIInv, CommitSentIInv, ServerCommitsIInv,
     CommitAnsweredIInv, CommitRefusedIInv, StatementOnPoolIInv,
     StatementEndsIInv, CommitAbandonedIInv, ServerAbortsIInv, CancelIInv,
     CutIInv DEF Step
<1>2. ASSUME NEW p \in Pools, Swap(p) PROVE IInv'
  BY <1>2, SwapIInv
<1>3. CASE UNCHANGED vars
  BY <1>3, StutterIInv
<1>. QED  BY <1>1, <1>2, <1>3 DEF Next

LEMMA InductiveInvariant == Spec => []IInv
BY InitIInv, NextIInv, PTL DEF Spec

-----------------------------------------------------------------------------
(* What the runs check, for every instance. *)

\* The variables keep their types, and nesting stays within its bound.
THEOREM TypeCorrect == Spec => []TypeOK
<1>. IInv => TypeOK
  BY DEF IInv
<1>. QED  BY InductiveInvariant, PTL

\* Every call is all or nothing, in one database.
THEOREM Atomicity == Spec => []AllOrNothing
<1>. IInv => AllOrNothing
  BY DEF IInv, Outcome, AllOrNothing
<1>. QED  BY InductiveInvariant, PTL

\* The answer of a call tells its effect.
THEOREM Truthfulness == Spec => []AnswerIsTruthful
<1>. IInv => AnswerIsTruthful
  BY DEF IInv, Outcome, AnswerIsTruthful
<1>. QED  BY InductiveInvariant, PTL

\* A call that is over holds no connection.
THEOREM NoLeak == Spec => []NoConnectionLeak
<1>. IInv => NoConnectionLeak
  BY DEF IInv, Control, NoConnectionLeak
<1>. QED  BY InductiveInvariant, PTL

-----------------------------------------------------------------------------
(* What a step may not do, and what it is to a caller. *)

\* Only a Commit whose context is done throws a working connection away.
THEOREM ConnectionsKept == Spec => CancelKeepsConnections
<1>1. ASSUME IInv, NEW c \in Calls,
             Step(c) \/ CommitAbandoned(c) \/ ServerAborts(c) \/ Cancel(c) \/ Cut(c)
      PROVE  KeepsConnections
  <2>. USE <1>1 DEF IInv, TypeOK, KeepsConnections, Discards, Control, callVars
  <2>1. CASE Rollback(c)
    BY <2>1 DEF Rollback, Release, Return, Goto
  <2>2. CASE CommitNotSent(c)
    BY <2>2 DEF CommitNotSent, Release, Return, Goto
  <2>3. CASE CommitAnswered(c) \/ CommitRefused(c) \/ CommitAbandoned(c)
    BY <2>3 DEF CommitAnswered, CommitRefused, CommitAbandoned, Release, Return,
                Goto
  <2>4. CASE ServerCommits(c) \/ ServerAborts(c) \/ Cut(c)
    BY <2>4 DEF ServerCommits, ServerAborts, Cut, Release
  <2>5. CASE Begin(c) \/ StatementInTx(c)
    BY <2>5 DEF Begin, StatementInTx
  <2>6. CASE UNCHANGED session
    BY <2>6
  <2>. QED
    BY <2>1, <2>2, <2>3, <2>4, <2>5, <2>6
       DEF Step, Reuse, LoadPool, BeginFails, NestedReturn, FnReturns, FnPanics,
           CommitSent, StatementOnPool, StatementEnds, Cancel
<1>2. IInv /\ [Next]_vars => [KeepsConnections]_vars
  <2>1. ASSUME IInv, NEW p \in Pools, Swap(p) PROVE KeepsConnections
    BY <2>1 DEF IInv, TypeOK, KeepsConnections, Discards, Swap
  <2>. QED  BY <1>1, <2>1 DEF Next
<1>. QED
  BY <1>2, InductiveInvariant, PTL DEF Spec, CancelKeepsConnections

-----------------------------------------------------------------------------
(* Refinement: Transactions implements AtomicCalls. *)

\* The initial states are initial states of AtomicCalls.
LEMMA InitRefines == Init => Abstract!AbsInit
BY DEF Init, Abstract!AbsInit, Reply

\* A step that neither asks, nor takes effect, nor answers is a stutter.
LEMMA StepStutters ==
  ASSUME UNCHANGED <<asked, durable, result>>
  PROVE  UNCHANGED Abstract!absVars
BY DEF Abstract!absVars, Reply

\* The answer of call c is an Answer of the contract.
LEMMA StepAnswers ==
  ASSUME IInv, IInv', NEW c \in Calls, NEW r \in Results \ {"none"},
         result[c] = "none", UNCHANGED asked,
         result' = [result EXCEPT ![c] = r],
         NEW E, durable' = [durable EXCEPT ![c] = E],
         \/ E = durable[c]
         \/ durable[c] = {} /\ (\E p \in Pools : E = {p} \X asked[c])
  PROVE  Abstract!AbsNext
<1>. DEFINE ar == CASE r = "nil" -> "nil"
                    [] r \in {"begin_failed", "fn_error", "panic"} -> "error"
                    [] r \in {"commit_failed", "stmt_failed"} -> "unknown"
<1>1. ar \in Abstract!Replies \ {"none"}
  BY DEF Results, Abstract!Replies
<1>2. [d \in Calls |-> Reply(d)]' = [[d \in Calls |-> Reply(d)] EXCEPT ![c] = ar]
  BY DEF IInv, TypeOK, Results, Reply
<1>3. Reply(c) = "none"
  BY DEF Reply
<1>4. ar = "nil" => \E p \in Pools : E = {p} \X asked[c]
  BY DEF IInv, TypeOK, Outcome, Home, Control, Results
<1>5. ar = "error" => E = {}
  BY DEF IInv, TypeOK, Outcome, Results
<1>6. E \in {durable[c]} \cup {Abstract!Whole(c, p) : p \in Pools}
  BY DEF Abstract!Whole
<1>7. Abstract!Answer(c, ar, E)
  BY <1>1, <1>2, <1>3, <1>4, <1>5 DEF Abstract!Answer, Abstract!Whole
<1>. QED  BY <1>1, <1>6, <1>7 DEF Abstract!AbsNext

\* Every step of a call is a step of the contract, or nothing to its caller.
LEMMA CallRefines ==
  ASSUME IInv, IInv', NEW c \in Calls,
         Step(c) \/ CommitAbandoned(c) \/ ServerAborts(c) \/ Cancel(c) \/ Cut(c)
  PROVE  [Abstract!AbsNext]_(Abstract!absVars)
<1>. USE DEF callVars
<1>1. CASE UNCHANGED <<asked, durable, result>>
  BY <1>1, StepStutters
<1>2. CASE StatementInTx(c) /\ live[c]
  <2>. DEFINE w == used[c] + 1
  <2>1. w \in Writes /\ asked' = [asked EXCEPT ![c] = @ \cup {w}]
    BY <1>2, BoundsAssumption DEF StatementInTx, MayCall, IInv, TypeOK, Writes
  <2>2. durable[c] = {} /\ Reply(c) = "none"
    BY <1>2 DEF StatementInTx, MayCall, DB, Tx, IInv, TypeOK, Control, Data, Reply
  <2>3. durable' = durable /\ [d \in Calls |-> Reply(d)]' = [d \in Calls |-> Reply(d)]
    BY <1>2 DEF StatementInTx, Reply
  <2>4. Abstract!Ask(c, w)
    BY <2>1, <2>2, <2>3 DEF Abstract!Ask
  <2>. QED  BY <2>1, <2>4 DEF Abstract!AbsNext
<1>3. CASE StatementOnPool(c)
  <2>. DEFINE w == used[c] + 1
  <2>1. w \in Writes /\ asked' = [asked EXCEPT ![c] = @ \cup {w}]
    BY <1>3, BoundsAssumption DEF StatementOnPool, MayCall, IInv, TypeOK, Writes
  <2>2. durable[c] = {} /\ Reply(c) = "none"
    BY <1>3 DEF StatementOnPool, MayCall, IInv, TypeOK, Control, Data, Reply
  <2>3. durable' = durable /\ [d \in Calls |-> Reply(d)]' = [d \in Calls |-> Reply(d)]
    BY <1>3 DEF StatementOnPool, Reply
  <2>4. Abstract!Ask(c, w)
    BY <2>1, <2>2, <2>3 DEF Abstract!Ask
  <2>. QED  BY <2>1, <2>4 DEF Abstract!AbsNext
<1>4. CASE ServerCommits(c)
  <2>1. txPool[c] \in Pools /\ durable[c] = {} /\ staged[c] = asked[c]
    BY <1>4 DEF ServerCommits, IInv, TypeOK, Control, Data
  <2>2. Reply(c) \in {"none", "unknown"}
    BY <1>4 DEF ServerCommits, IInv, TypeOK, Control, Reply
  <2>3. durable' = [durable EXCEPT ![c] = {txPool[c]} \X asked[c]]
    BY <1>4, <2>1 DEF ServerCommits, IInv, TypeOK
  <2>4. asked' = asked /\ [d \in Calls |-> Reply(d)]' = [d \in Calls |-> Reply(d)]
    BY <1>4 DEF ServerCommits, Reply
  <2>5. Abstract!Apply(c, txPool[c])
    BY <2>1, <2>2, <2>3, <2>4 DEF Abstract!Apply, Abstract!Whole
  <2>. QED  BY <2>1, <2>5 DEF Abstract!AbsNext
<1>5. CASE \/ BeginFails(c) \/ Rollback(c) \/ CommitNotSent(c)
           \/ CommitAnswered(c) \/ CommitRefused(c) \/ CommitAbandoned(c)
  <2>1. /\ result[c] = "none"
        /\ UNCHANGED <<asked, durable>>
        /\ \E r \in Results \ {"none"} : result' = [result EXCEPT ![c] = r]
    BY <1>5 DEF BeginFails, Rollback, CommitNotSent, CommitAnswered,
                CommitRefused, CommitAbandoned, Return, IInv, TypeOK, Control,
                Results
  <2>. DEFINE E == durable[c]
  <2>2. durable' = [durable EXCEPT ![c] = E]
    BY <2>1 DEF IInv, TypeOK
  <2>3. PICK r \in Results \ {"none"} : result' = [result EXCEPT ![c] = r]
    BY <2>1
  <2>4. E = durable[c]
    OBVIOUS
  <2>. HIDE DEF E
  <2>5. Abstract!AbsNext
    BY <2>1, <2>2, <2>3, <2>4, StepAnswers
  <2>. QED  BY <2>5
<1>6. CASE StatementEnds(c)
  <2>1. /\ result[c] = "none" /\ durable[c] = {} /\ depth[c] = 0
        /\ stmtPool[c] \in Pools /\ asked[c] = {used[c]}
    BY <1>6 DEF StatementEnds, IInv, TypeOK, Control, Data
  <2>2. /\ UNCHANGED asked
        /\ \E r \in Results \ {"none"} : result' = [result EXCEPT ![c] = r]
    BY <1>6, <2>1 DEF StatementEnds, HandBack, Return, Results
  <2>3. \/ durable' = [durable EXCEPT ![c] = durable[c]]
        \/ durable' = [durable EXCEPT ![c] = {stmtPool[c]} \X asked[c]]
    BY <1>6, <2>1, LoneStatement DEF StatementEnds, IInv, TypeOK
  <2>4. PICK r \in Results \ {"none"} : result' = [result EXCEPT ![c] = r]
    BY <2>2
  <2>5. CASE durable' = [durable EXCEPT ![c] = durable[c]]
    <3>. DEFINE E == durable[c]
    <3>1. E = durable[c] /\ durable' = [durable EXCEPT ![c] = E]
      BY <2>5
    <3>. HIDE DEF E
    <3>2. Abstract!AbsNext
      BY <2>1, <2>2, <2>4, <3>1, StepAnswers
    <3>. QED  BY <3>2
  <2>6. CASE durable' = [durable EXCEPT ![c] = {stmtPool[c]} \X asked[c]]
    <3>. DEFINE E == {stmtPool[c]} \X asked[c]
    <3>1. durable[c] = {} /\ \E p \in Pools : E = {p} \X asked[c]
      BY <2>1
    <3>2. durable' = [durable EXCEPT ![c] = E]
      BY <2>6
    <3>. HIDE DEF E
    <3>3. Abstract!AbsNext
      BY <2>1, <2>2, <2>4, <3>1, <3>2, StepAnswers
    <3>. QED  BY <3>3
  <2>. QED  BY <2>3, <2>5, <2>6
<1>. QED
  BY <1>1, <1>2, <1>3, <1>4, <1>5, <1>6
     DEF Step, Reuse, LoadPool, Begin, StatementInTx, NestedReturn, FnReturns,
         FnPanics, CommitSent, ServerAborts, Cancel, Cut

\* ExecTx implements the contract of AtomicCalls.
THEOREM Refinement == Spec => ImplementsAtomicCalls
<1>1. IInv /\ IInv' /\ [Next]_vars => [Abstract!AbsNext]_(Abstract!absVars)
  <2>1. ASSUME NEW p \in Pools, Swap(p) PROVE UNCHANGED Abstract!absVars
    BY <2>1, StepStutters DEF Swap
  <2>2. CASE UNCHANGED vars
    BY <2>2, StepStutters DEF vars
  <2>. QED  BY <2>1, <2>2, CallRefines DEF Next
<1>. QED
  BY <1>1, InitRefines, InductiveInvariant, PTL
     DEF Spec, ImplementsAtomicCalls, Abstract!AbsSpec

-----------------------------------------------------------------------------
(* Why a call returns. *)

\* A pool never has more connections than it may have.
PoolsBounded ==
  \A p \in Pools : IsFiniteSet(Held(p)) /\ Cardinality(Held(p)) <= MaxConns

\* Only BEGIN takes a place of a pool.
LEMMA PlacesTaken ==
  ASSUME IInv, [Next]_vars, NEW p \in Pools
  PROVE  \/ Held(p)' \subseteq Held(p)
         \/ \E c \in Calls : Free(p) /\ Held(p)' \subseteq Held(p) \cup {c}
<1>. USE DEF IInv, TypeOK, Held
<1>1. CASE \E c \in Calls : Begin(c)
  <2>. PICK c \in Calls : Begin(c)
    BY <1>1
  <2>1. \A d \in Calls \ {c} : session'[d] = session[d] /\ txPool'[d] = txPool[d]
    BY DEF Begin
  <2>2. CASE txPool[c] = p
    BY <2>1, <2>2 DEF Begin
  <2>3. CASE txPool[c] # p
    BY <2>1, <2>3 DEF Begin
  <2>. QED  BY <2>2, <2>3
<1>2. CASE ~\E c \in Calls : Begin(c)
  <2>1. \A d \in Calls :
          session'[d] \in Holding => session[d] \in Holding /\ txPool'[d] = txPool[d]
    <3>1. ASSUME NEW c \in Calls, StatementEnds(c) \/ Reuse(c) \/ BeginFails(c)
                   \/ NestedReturn(c) \/ FnReturns(c) \/ FnPanics(c) \/ CommitSent(c)
                   \/ StatementOnPool(c) \/ Cancel(c)
          PROVE  UNCHANGED <<session, txPool>>
      BY <3>1 DEF StatementEnds, Reuse, BeginFails, NestedReturn, FnReturns, FnPanics,
                  CommitSent, StatementOnPool, Cancel, callVars
    <3>2. ASSUME NEW c \in Calls, LoadPool(c)
          PROVE  \A d \in Calls : session'[d] \in Holding =>
                   session[d] \in Holding /\ txPool'[d] = txPool[d]
      <4>1. session[c] = "none"
        BY <3>2, PoolsAssumption DEF LoadPool, MayCall, Tx, Control
      <4>2. \A d \in Calls \ {c} : txPool'[d] = txPool[d]
        BY <3>2 DEF LoadPool
      <4>. QED  BY <3>2, <4>1, <4>2 DEF LoadPool, Holding
    <3>3. ASSUME NEW c \in Calls, StatementInTx(c)
          PROVE  \A d \in Calls : session'[d] \in Holding =>
                   session[d] \in Holding /\ txPool'[d] = txPool[d]
      BY <3>3, PoolsAssumption DEF StatementInTx, Holding
    <3>4. ASSUME NEW c \in Calls, Rollback(c) \/ CommitNotSent(c) \/ CommitAnswered(c)
                   \/ CommitRefused(c) \/ CommitAbandoned(c) \/ ServerCommits(c)
                   \/ ServerAborts(c) \/ Cut(c)
          PROVE  \A d \in Calls : session'[d] \in Holding =>
                   session[d] \in Holding /\ txPool'[d] = txPool[d]
      BY <3>4 DEF Rollback, CommitNotSent, CommitAnswered, CommitRefused,
                  CommitAbandoned, ServerCommits, ServerAborts, Cut, callVars, Release,
                  Holding, Control
    <3>. QED  BY <1>2, <3>1, <3>2, <3>3, <3>4 DEF Next, Step, Swap, callVars, vars
  <2>. QED  BY <2>1
<1>. QED  BY <1>1, <1>2

\* No step exceeds the size of a pool.
LEMMA NextPoolsBounded == IInv /\ PoolsBounded /\ [Next]_vars => PoolsBounded'
<1>. SUFFICES ASSUME IInv, PoolsBounded, [Next]_vars, NEW p \in Pools
              PROVE  IsFiniteSet(Held(p)') /\ Cardinality(Held(p)') <= MaxConns
  BY DEF PoolsBounded
<1>. DEFINE S == Held(p)
            T == Held(p)'
<1>1. IsFiniteSet(S) /\ Cardinality(S) <= MaxConns /\ Cardinality(S) \in Nat
  BY FS_CardinalityType DEF PoolsBounded
<1>. HIDE DEF S, T
<1>2. CASE T \subseteq S
  <2>1. IsFiniteSet(T) /\ Cardinality(T) <= Cardinality(S) /\ Cardinality(T) \in Nat
    BY <1>1, <1>2, FS_Subset, FS_CardinalityType
  <2>. QED  BY <1>1, <2>1, BoundsAssumption DEF T
<1>3. ASSUME NEW c \in Calls, Cardinality(S) < MaxConns, T \subseteq S \cup {c}
      PROVE  IsFiniteSet(T) /\ Cardinality(T) <= MaxConns
  <2>1. IsFiniteSet(S \cup {c}) /\ Cardinality(S \cup {c}) <= Cardinality(S) + 1
    BY <1>1, FS_AddElement
  <2>2. Cardinality(S \cup {c}) \in Nat
    BY <2>1, FS_CardinalityType
  <2>3. IsFiniteSet(T) /\ Cardinality(T) <= Cardinality(S \cup {c})
        /\ Cardinality(T) \in Nat
    BY <1>3, <2>1, FS_Subset, FS_CardinalityType
  <2>. QED  BY <1>1, <1>3, <2>1, <2>2, <2>3, BoundsAssumption
<1>. QED  BY <1>2, <1>3, PlacesTaken DEF S, T, Free

\* The pool in whose queue a call waits for a connection.
Wanted(c) == IF pc[c] = "acquire" THEN txPool[c] ELSE stmtPool[c]

Waits(c) == pc[c] \in {"acquire", "stmt"} /\ live[c] /\ ~Free(Wanted(c))

\* It has a connection, and goes on without waiting for another call.
Works(c) == pc[c] \in {"fn", "commit", "sent", "rollback", "recover"}

\* Whoever waits for a connection has none, and each place of the pool belongs
\* to a call that works.
NobodyWaitsInCircles ==
  \A c \in Calls : Waits(c) =>
    /\ session[c] \notin Holding
    /\ Held(Wanted(c)) # {}
    /\ \A d \in Held(Wanted(c)) : Works(d)

\* A pool never has more than max_conns transactions under way; and requests
\* that wait for one of its connections wait for requests that work, never for
\* each other, however ExecTx calls are nested (db_postgres.go 56-66).
THEOREM WaitsEndInWork == Spec => [](PoolsBounded /\ NobodyWaitsInCircles)
<1>1. Init => PoolsBounded
  <2>. SUFFICES ASSUME Init, NEW p \in Pools
                PROVE  IsFiniteSet(Held(p)) /\ Cardinality(Held(p)) <= MaxConns
    BY DEF PoolsBounded
  <2>1. Held(p) = {}
    BY DEF Init, Held, Holding
  <2>. QED  BY <2>1, FS_EmptySet, BoundsAssumption
<1>2. IInv => NobodyWaitsInCircles
  <2>. SUFFICES ASSUME IInv, NEW c \in Calls, Waits(c)
                PROVE  /\ session[c] \notin Holding
                       /\ Held(Wanted(c)) # {}
                       /\ \A d \in Held(Wanted(c)) : Works(d)
    BY DEF NobodyWaitsInCircles
  <2>1. session[c] \notin Holding
    BY DEF Waits, IInv, Control, Holding
  <2>2. Held(Wanted(c)) # {}
    <3>1. Held(Wanted(c)) = {} => Cardinality(Held(Wanted(c))) = 0
      BY FS_EmptySet
    <3>. QED  BY <3>1, BoundsAssumption DEF Waits, Free
  <2>3. ASSUME NEW d \in Held(Wanted(c)) PROVE Works(d)
    BY <2>3 DEF Held, Works, IInv, TypeOK, Control, Holding, Locations
  <2>. QED  BY <2>1, <2>2, <2>3
<1>. QED  BY <1>1, <1>2, NextPoolsBounded, InductiveInvariant, PTL DEF Spec

\* How far a call is from its end.
Distance(c) ==
  IF pc[c] \in {"idle", "acquire", "fn"}
  THEN (IF pc[c] = "idle" THEN 7 ELSE IF pc[c] = "acquire" THEN 6 ELSE 4)
         + 2 * (MaxOps - used[c]) + depth[c]
  ELSE IF pc[c] \in {"commit", "rollback", "recover"} THEN 3
  ELSE IF pc[c] = "sent" THEN (IF session[c] = "committed" THEN 1 ELSE 2)
  ELSE IF pc[c] = "stmt" \/ session[c] = "limbo" THEN 1
  ELSE 0

\* What its goroutine and the server do brings it nearer, and nothing takes it
\* back.
Approaches(c) ==
  /\ Distance(c)' <= Distance(c)
  /\ Step(c) => Distance(c)' < Distance(c)

\* The distance is a number, and 0 only at the end.
LEMMA DistanceCounts ==
  ASSUME IInv, NEW c \in Calls
  PROVE  Distance(c) \in Nat /\ (Distance(c) = 0 => pc[c] = "done")
<1>1. used[c] \in 0..MaxOps /\ depth[c] \in Nat /\ MaxOps \in Nat /\ pc[c] \in Locations
  BY BoundsAssumption DEF IInv, TypeOK
<1>. QED  BY <1>1 DEF Distance, Locations

\* A step of another call does not touch this one.
LEMMA OthersStay ==
  ASSUME IInv, NEW c \in Calls, NEW d \in Calls, c # d,
         Step(d) \/ CommitAbandoned(d) \/ ServerAborts(d) \/ Cancel(d) \/ Cut(d)
  PROVE  /\ pc'[c] = pc[c] /\ session'[c] = session[c]
         /\ used'[c] = used[c] /\ depth'[c] = depth[c]
BY DEF IInv, TypeOK, Step, Reuse, LoadPool, Begin, BeginFails, StatementInTx, NestedReturn,
       FnReturns, FnPanics, Rollback, CommitNotSent, CommitSent, ServerCommits,
       CommitAnswered, CommitRefused, StatementOnPool, StatementEnds, CommitAbandoned,
       ServerAborts, Cancel, Cut, callVars, Goto, Return, Release, HandBack

\* Every step of a call brings it nearer to its end.
LEMMA StepApproaches ==
  ASSUME IInv, IInv', NEW c \in Calls, Step(c)
  PROVE  Distance(c)' < Distance(c)
<1>. USE DEF IInv, TypeOK, Distance
<1>1. /\ used[c] \in 0..MaxOps /\ used'[c] \in 0..MaxOps
      /\ depth[c] \in Nat /\ depth'[c] \in Nat /\ MaxOps \in Nat
  BY BoundsAssumption
<1>2. CASE Reuse(c)
  BY <1>1, <1>2 DEF Reuse, MayCall, Tx, Control
<1>3. CASE LoadPool(c)
  BY <1>1, <1>3 DEF LoadPool, MayCall, Tx, Control, Goto
<1>4. CASE Begin(c) \/ BeginFails(c)
  BY <1>1, <1>4 DEF Begin, BeginFails, Control, Goto, Return
<1>5. CASE StatementInTx(c)
  BY <1>1, <1>5 DEF StatementInTx, MayCall, DB, Tx, Control
<1>6. CASE NestedReturn(c) \/ FnReturns(c) \/ FnPanics(c)
  BY <1>1, <1>6 DEF NestedReturn, FnReturns, FnPanics, Goto
<1>7. CASE Rollback(c) \/ CommitNotSent(c) \/ CommitSent(c)
  BY <1>1, <1>7 DEF Rollback, CommitNotSent, CommitSent, Goto, Return, Release, Control
<1>8. CASE ServerCommits(c) \/ CommitAnswered(c) \/ CommitRefused(c)
  BY <1>1, <1>8 DEF ServerCommits, CommitAnswered, CommitRefused, Goto, Return, Release,
                    Control
<1>9. CASE StatementOnPool(c) \/ StatementEnds(c)
  BY <1>1, <1>9 DEF StatementOnPool, StatementEnds, HandBack, MayCall, DB, Tx, Goto,
                    Return, Control
<1>. QED  BY <1>2, <1>3, <1>4, <1>5, <1>6, <1>7, <1>8, <1>9 DEF Step

\* The code makes at most 2 * MaxOps + 7 steps for a call, whatever others do,
\* whatever fails and wherever the handle points: the distance to its end
\* falls with every step of its own and with no step rises.  That each call
\* returns then only takes that a call which can go on does
\* (db_postgres.go 56-94).
THEOREM CallsApproachTheirEnd ==
  Spec => /\ [](\A c \in Calls : Distance(c) \in Nat /\ (Distance(c) = 0 => pc[c] = "done"))
          /\ [][\A c \in Calls : Approaches(c)]_vars
<1>1. IInv => \A c \in Calls : Distance(c) \in Nat /\ (Distance(c) = 0 => pc[c] = "done")
  BY DistanceCounts
<1>2. IInv /\ IInv' /\ [Next]_vars => [\A c \in Calls : Approaches(c)]_vars
  <2>. SUFFICES ASSUME IInv, IInv', Next, NEW c \in Calls PROVE Approaches(c)
    OBVIOUS
  <2>1. Distance(c) \in Nat /\ Distance(c)' \in Nat
    <3>1. /\ used'[c] \in 0..MaxOps /\ depth'[c] \in Nat /\ MaxOps \in Nat
          /\ pc'[c] \in Locations
      BY BoundsAssumption DEF IInv, TypeOK
    <3>2. Distance(c)' \in Nat
      BY <3>1 DEF Distance, Locations
    <3>. QED  BY <3>2, DistanceCounts
  <2>2. CASE Step(c)
    BY <2>1, <2>2, StepApproaches DEF Approaches
  <2>3. CASE ~Step(c)
    <3>1. Distance(c)' <= Distance(c)
      <4>1. CASE pc'[c] = pc[c] /\ session'[c] = session[c] /\ used'[c] = used[c]
                 /\ depth'[c] = depth[c]
        BY <2>1, <4>1 DEF Distance
      <4>2. CASE CommitAbandoned(c)
        <5>1. /\ pc[c] = "sent" /\ session[c] \in {"open", "committed"} /\ pc'[c] = "done"
              /\ session'[c] = IF session[c] = "open" THEN "limbo" ELSE "discarded"
          BY <4>2 DEF CommitAbandoned, Return, Goto, IInv, TypeOK
        <5>. QED  BY <5>1 DEF Distance
      <4>3. CASE ServerAborts(c)
        <5>1. /\ pc[c] = "done" /\ session[c] = "limbo"
              /\ pc'[c] = "done" /\ session'[c] = "discarded"
          BY <4>3 DEF ServerAborts, Release, IInv, TypeOK, Control
        <5>. QED  BY <5>1 DEF Distance
      <4>4. CASE Cut(c)
        <5>1. /\ pc'[c] = pc[c] /\ used'[c] = used[c] /\ depth'[c] = depth[c]
              /\ pc[c] # "done" /\ pc[c] # "stmt" /\ pc[c] \in Locations
              /\ session[c] \in {"open", "failed"} /\ session'[c] = "broken"
          BY <4>4 DEF Cut, callVars, IInv, TypeOK
        <5>. QED  BY <2>1, <5>1 DEF Distance, Locations
      <4>5. CASE Cancel(c) \/ \E p \in Pools : Swap(p)
        BY <2>1, <4>5 DEF Cancel, Swap, Distance, callVars
      <4>. QED  BY <2>3, <4>1, <4>2, <4>3, <4>4, <4>5, OthersStay DEF Next
    <3>. QED  BY <2>3, <3>1 DEF Approaches
  <2>. QED  BY <2>2, <2>3
<1>. QED  BY <1>1, <1>2, InductiveInvariant, PTL DEF Spec
=============================================================================
