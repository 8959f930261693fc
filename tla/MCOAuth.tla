------------------------------ MODULE MCOAuth ------------------------------
(* Instances of OAuth for TLC; the bounds are in the .cfg files.           *)
EXTENDS OAuth, TLC

CONSTANTS w1, w2, acct, docs

\* Two sessions of one account, two adapters of one server, one of each.
ServesPairs ==
  {[w \in {w1, w2} |-> IF w = w1 THEN p[1] ELSE p[2]] :
     p \in {<<acct, acct>>, <<docs, docs>>, <<acct, docs>>, <<docs, acct>>}}

Alike == Permutations(Workers)
=============================================================================
