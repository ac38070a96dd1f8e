----------------------------- MODULE MCConsole -----------------------------
(* Buffers small enough to fill: lines of up to three bytes, a ring of four. *)
EXTENDS Console
=============================================================================
