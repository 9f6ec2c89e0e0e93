---------------------------- MODULE MCPushWorker ----------------------------
(* Small instances of PushWorker for TLC. *)
EXTENDS PushWorker, TLC

\* All member requests change one list.
OneList == {Writes \ Guarded}

Symmetry == Permutations(Replicas)
=============================================================================
