------------------------------ MODULE MCTimer ------------------------------
(* Three sleepers and enough nodes for all of them and one request to spare. *)
EXTENDS Timer
CONSTANTS p1, p2, p3

MCSecs == (-1)..3
=============================================================================
