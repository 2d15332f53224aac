----------------------------- MODULE MCDelivery -----------------------------
(***************************************************************************)
(* Instances of Delivery for TLC.                                          *)
(***************************************************************************)
EXTENDS Delivery, TLC

CONSTANTS e1, e2, e3, e4, e5, d1, d2, i1, i2

\* e1 and e2 are two events of the first device about one item, the others are
\* events of the other device about another item.
MCOrigin == [e \in Event |-> IF e \in {e1, e2} THEN d1 ELSE d2]
MCSequence == [e \in Event |-> CASE e \in {e1, e3} -> 1 [] e \in {e2, e4} -> 2 [] OTHER -> 3]
MCItem == [e \in Event |-> IF e \in {e1, e2} THEN i1 ELSE i2]
=============================================================================
