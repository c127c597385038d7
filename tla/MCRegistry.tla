----------------------------- MODULE MCRegistry -----------------------------
(* Model-checking instance of Registry: agents and messages are model values. *)
EXTENDS Registry
=============================================================================
