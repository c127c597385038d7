----------------------------- MODULE MCCodeTask -----------------------------
(* Model-checking instance of CodeTask: commits and null values are model  *)
(* values; the agents' commits are interchangeable.                        *)
EXTENDS CodeTask, TLC

Authors == Permutations(AgentCommits)
=============================================================================
