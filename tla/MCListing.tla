----------------------------- MODULE MCListing -----------------------------
(***************************************************************************)
(* Instances of Listing for TLC: one walk over a table of a few rows.  A   *)
(* page holds at most 2 rows where the code has 200, and 1 where it has 20.*)
(***************************************************************************)
EXTENDS Listing

SetSizes == 1..2
UnsetSize == {0}
=============================================================================
