---------------------------- MODULE MCHeapTimer ----------------------------
(* HeapTimer for TLC.  Six nodes are the least for which del_ sifts up: the *)
(* last one then comes from another branch than the one deleted.           *)
EXTENDS HeapTimer, TLC

CONSTANTS f1, f2, f3, f4, f5, f6

SixIds == {f1, f2, f3, f4, f5, f6}
TwoIds == {f1, f2}

IdSymmetry == Permutations(SixIds)
=============================================================================
