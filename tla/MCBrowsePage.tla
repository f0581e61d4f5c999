---------------------------- MODULE MCBrowsePage ----------------------------
(* Two polls that can overlap. *)
EXTENDS BrowsePage

MCPolls == {1, 2}
=============================================================================
