----------------------------- MODULE MCAgentRun -----------------------------
(* Model-checking instance of AgentRun: tasks are model values. *)
EXTENDS AgentRun
=============================================================================
