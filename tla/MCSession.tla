----------------------------- MODULE MCSession -----------------------------
(* TLC instances of Session; every bound is in the .cfg files. *)
EXTENDS Session

CONSTANTS c1, m1, m2
=============================================================================
