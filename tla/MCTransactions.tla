--------------------------- MODULE MCTransactions ---------------------------
(***************************************************************************)
(* Instances of Transactions for TLC: two requests on pools of one         *)
(* connection, so that they queue behind each other, and two pools for the *)
(* handle to move between.                                                 *)
(***************************************************************************)
EXTENDS Transactions
=============================================================================
