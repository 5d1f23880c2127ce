---------------------------- MODULE AtomicCalls ----------------------------
(***************************************************************************)
(* What a caller of the data layer is promised about one database call,    *)
(* whatever happens between the call and its answer: the statements of the *)
(* call take effect together or not at all, in one database, and the       *)
(* answer says which, except an "unknown" answer, which promises nothing.  *)
(*                                                                         *)
(* This is the contract of Data.ExecTx (internal/data/db_postgres.go) as   *)
(* its callers see it; module Transactions is the code.                    *)
(***************************************************************************)

CONSTANTS
  Calls,    \* the calls requests make, each one to ExecTx or to one statement
  Pools,    \* the databases a pool may lead to
  Writes    \* the statements a call may run, numbered

VARIABLES
  asked,    \* asked[c]: the statements call c has sent so far
  effect,   \* effect[c]: the <<pool, statement>> pairs other requests can see
  reply     \* reply[c]: what the caller of c was told

absVars == <<asked, effect, reply>>

Replies == {"none", "nil", "error", "unknown"}

\* Everything call c asked for, done in the database behind pool p.
Whole(c, p) == {p} \X asked[c]

AbsTypeOK ==
  /\ asked \in [Calls -> SUBSET Writes]
  /\ effect \in [Calls -> SUBSET (Pools \X Writes)]
  /\ reply \in [Calls -> Replies]

AbsInit ==
  /\ asked = [c \in Calls |-> {}]
  /\ effect = [c \in Calls |-> {}]
  /\ reply = [c \in Calls |-> "none"]

-----------------------------------------------------------------------------
\* A call that has had no effect yet adds a statement.
Ask(c, w) ==
  /\ reply[c] = "none"
  /\ effect[c] = {}
  /\ asked' = [asked EXCEPT ![c] = @ \cup {w}]
  /\ UNCHANGED <<effect, reply>>

\* The whole call takes effect: before its answer, or, when the answer was
\* "unknown", possibly after it.
Apply(c, p) ==
  /\ reply[c] \in {"none", "unknown"}
  /\ effect[c] = {}
  /\ effect' = [effect EXCEPT ![c] = Whole(c, p)]
  /\ UNCHANGED <<asked, reply>>

\* The answer, with the effect it may claim.
Answer(c, r, E) ==
  /\ reply[c] = "none"
  /\ \/ E = effect[c]
     \/ effect[c] = {} /\ \E p \in Pools : E = Whole(c, p)
  /\ r = "nil" => \E p \in Pools : E = Whole(c, p)
  /\ r = "error" => E = {}
  /\ effect' = [effect EXCEPT ![c] = E]
  /\ reply' = [reply EXCEPT ![c] = r]
  /\ UNCHANGED asked

AbsNext ==
  \E c \in Calls :
    \/ \E w \in Writes : Ask(c, w)
    \/ \E p \in Pools : Apply(c, p)
    \/ \E r \in Replies \ {"none"} :
         \E E \in {effect[c]} \cup {Whole(c, p) : p \in Pools} : Answer(c, r, E)

AbsSpec == AbsInit /\ [][AbsNext]_absVars
=============================================================================
