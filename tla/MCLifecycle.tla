---------------------------- MODULE MCLifecycle ----------------------------
(***************************************************************************)
(* Instances of Lifecycle for TLC: a few requests of both protocols.       *)
(***************************************************************************)
EXTENDS Lifecycle

BothKinds == {"http1", "h2c"}
HTTP1Only == {"http1"}
=============================================================================
