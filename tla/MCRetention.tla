---------------------------- MODULE MCRetention -----------------------------
(* Two items that may be flagged; the first has an old event without an identity at the Hub, and   *)
(* so has another item that this device cannot read.                                               *)
EXTENDS Retention
MCKeyAt == [e \in OldEvent |-> IF e = 1 THEN "k" ELSE "l"]
=============================================================================
