----------------------------- MODULE MCMailbox -----------------------------
(* Model-checking instance of Mailbox: message ids and "no message" are    *)
(* model values; permuting valid messages is a symmetry of the safety runs.*)
EXTENDS Mailbox, TLC

Symmetry == Permutations(Msgs \ Refused)
=============================================================================
