----------------------------- MODULE Catalogue -----------------------------
(***************************************************************************)
(* What the daemon promises about the set of sessions, whatever threads    *)
(* run, exit, write their records late or die with the process: a session  *)
(* appears only when a CreateSession is served, and once deleted it never  *)
(* comes back by itself.                                                   *)
(***************************************************************************)
EXTENDS Naturals

CONSTANT Ids
VARIABLES
  present,  \* the sessions a restart would bring back
  created   \* CreateSession commands served so far

Init == present = {} /\ created = 0

Create ==
  /\ \E s \in Ids \ present : present' = present \cup {s}
  /\ created' = created + 1

\* One DeleteSession removes a session and the children it cascades to.
Delete ==
  /\ \E D \in SUBSET present : present' = present \ D
  /\ UNCHANGED created

Next == Create \/ Delete

Spec == Init /\ [][Next]_<<present, created>>
=============================================================================
