------------------------------ MODULE MCServerLife ------------------------------
(* ServerLife for TLC: the constants are model values. *)
EXTENDS ServerLife
===============================================================================
