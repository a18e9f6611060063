----------------------------- MODULE MCBatchRun -----------------------------
(* Groups of two: first a batch of one group and a half, or of two and a     *)
(* half; then one of a group and a half, and one of a group, any of the      *)
(* three a single run instead.                                               *)
EXTENDS BatchRun, TLC

MCSizes == <<{3, 5}, {3}, {2}>>
=============================================================================
