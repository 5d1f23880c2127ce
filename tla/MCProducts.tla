----------------------------- MODULE MCProducts -----------------------------
(***************************************************************************)
(* Instances of Products for TLC.  A price column that ends at 9.99, so    *)
(* that a price which does not fit is within reach, besides one that is    *)
(* rounded, a negative one, NaN and one that is not converted.             *)
(***************************************************************************)
EXTENDS Products, TLC

\* 0.125, -0.125, 10, a millionth and NaN.
MCPrices ==
  {Decimal(125, -3), Decimal(-125, -3), Decimal(1, 1), Decimal(1, -6), NaN}

Symmetry == Permutations(Requests) \cup Permutations(Codes) \cup Permutations(Names)
=============================================================================
