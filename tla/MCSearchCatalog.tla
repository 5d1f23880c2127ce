-------------------------- MODULE MCSearchCatalog --------------------------
(***************************************************************************)
(* Instances of SearchCatalog for TLC: two callers that name their index   *)
(* or leave it out, two products, two indexes.                             *)
(***************************************************************************)
EXTENDS SearchCatalog
=============================================================================
