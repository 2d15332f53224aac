----------------------------- MODULE MCHubStore -----------------------------
(***************************************************************************)
(* Instances of HubStore for TLC.                                          *)
(***************************************************************************)
EXTENDS HubStore, TLC

CONSTANTS e1, e2, e3, b1, b2, k1, k2, s1, s2, d1

\* e1 and e2 share the blob b1; e2 and e3 claim the same origin sequence;
\* e3 lists b2 as optional and was sent without an identity.
MCRequired == e1 :> {b1} @@ e2 :> {b1} @@ e3 :> {}
MCOptional == e1 :> {} @@ e2 :> {} @@ e3 :> {b2}
MCNoOptional == [e \in Event |-> {}]
MCKeyOf == e1 :> k1 @@ e2 :> k2 @@ e3 :> NoKey
MCIdentity == e1 :> k1 @@ e2 :> k2 @@ e3 :> k2
MCSlot == e1 :> 1 @@ e2 :> 2 @@ e3 :> 2
MCStreams == Permutations({s1, s2})
=============================================================================
