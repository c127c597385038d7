---------------------------- MODULE MCArtifacts -----------------------------
(* Model-checking instance of Artifacts: processes, nodes, directories,    *)
(* keys and pieces are model values, and interchangeable.                  *)
EXTENDS Artifacts, TLC

Symmetry == Permutations(Procs) \cup Permutations(Nodes) \cup Permutations(Dirs)
              \cup Permutations(Pieces)
=============================================================================
