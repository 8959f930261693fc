---------------------------- MODULE MCLifecycle ----------------------------
(* Instances of Lifecycle for TLC; every bound is in the .cfg files.       *)
EXTENDS Lifecycle
=============================================================================
