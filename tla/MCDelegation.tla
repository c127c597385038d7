---------------------------- MODULE MCDelegation ----------------------------
(* Model-checking instance of Delegation: tasks, sessions and the null     *)
(* value are model values. Sessions are interchangeable, and so are tasks  *)
(* the policy treats alike.                                                *)
EXTENDS Delegation, TLC

Agents == Permutations(Sessions)
=============================================================================
