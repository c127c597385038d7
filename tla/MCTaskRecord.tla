---------------------------- MODULE MCTaskRecord ----------------------------
(* Model-checking instance of TaskRecord: publishers are interchangeable   *)
(* model values.                                                           *)
EXTENDS TaskRecord, TLC

Processes == Permutations(Publishers)
=============================================================================
