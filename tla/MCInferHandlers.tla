---------------------------- MODULE MCInferHandlers ----------------------------
(* Small instances of InferHandlers for TLC. *)
EXTENDS InferHandlers
===============================================================================
