---------------------------- MODULE MCOwnerNode ----------------------------
(* Model-checking instance of OwnerNode: tasks, runners and the two null   *)
(* values are model values. Runners are interchangeable, and so are tasks  *)
(* that agree on policy, kind and cancellation.                            *)
EXTENDS OwnerNode, TLC

Runners == Permutations(Slots)
=============================================================================
