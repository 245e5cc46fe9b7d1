---------------------------- MODULE MCSyncService ----------------------------
(* SyncService for TLC: handler threads are interchangeable, and so are      *)
(* indexers and paths.                                                       *)
EXTENDS SyncService, TLC

Symmetry == Permutations(Request) \cup Permutations(Worker) \cup Permutations(Path)

==============================================================================
