----------------------------- MODULE MCDelivery -----------------------------
EXTENDS Delivery, TLC

CONSTANTS p1, p2, p3

\* The second config block replaces a party.
Lists == (0 :> {p1, p2}) @@ (2 :> {p2, p3})
=============================================================================
