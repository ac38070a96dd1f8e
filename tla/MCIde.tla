------------------------------- MODULE MCIde -------------------------------
(* Three sectors, two of which share a slot of the cache. *)
EXTENDS Ide
=============================================================================
