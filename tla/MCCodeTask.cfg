\* Two commits of agents, one of other people, any two kills, one checkout of something older, one rewrite
\* of the clone; other claims take the same path.
CONSTANTS
  AgentCommits = {a1, a2}
  OtherCommits = {o1}
  Claims = {"complete", "none"}
  MaxKills = 2
  MaxSwitches = 1
  MaxRewrites = 1
SPECIFICATION Spec
INVARIANTS TypeOK PatchIsOnBranch WorkIsDelivered OnlyNewCommits
SYMMETRY Authors
CHECK_DEADLOCK FALSE
