---------------------------- MODULE MCItemState ----------------------------
(* Two devices and one metadata field. *)
EXTENDS ItemState
Devices == {1, 2}
Fields == {"favorite"}
=============================================================================
