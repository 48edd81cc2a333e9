---------------------------- MODULE MCTopoEngine ----------------------------
(* Instances of TopoEngine for TLC: who calls whom. *)
EXTENDS TopoEngine

CONSTANTS e1, e2, front, cart, db

\* Two client spans of one service, whose parents are elsewhere, both calling the database.
NoneStored == [s \in Span |-> LostSpan]
OneService == [s \in Span |-> cart]
Clients == [s \in Span |-> "Client"]
AllToDb == [s \in Span |-> db]

\* e1, a root span of the front end, is the parent of e2, a client span of the cart that
\* names db.
E1ParentOfE2 == [s \in Span |-> IF s = e2 THEN e1 ELSE NoSpan]
TwoServices == [s \in Span |-> IF s = e1 THEN front ELSE cart]
ServerAndClient == [s \in Span |-> IF s = e1 THEN "Server" ELSE "Client"]
OnlyE2ToDb == [s \in Span |-> IF s = e2 THEN db ELSE NoPeer]
=============================================================================
