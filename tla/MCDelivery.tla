----------------------------- MODULE MCDelivery -----------------------------
\* A client, two sessions, the events of the first.
EXTENDS Delivery
CONSTANTS s1, s2, c1, e1, e2
OfTheFirst == [e \in Events |-> s1]
=============================================================================
