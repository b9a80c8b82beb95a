---------------------------- MODULE MCStorageNode ----------------------------
(* Instances of StorageNode for TLC; the .cfg files choose the faults. *)
EXTENDS StorageNodeRefinement, TLC

CONSTANTS f1, f2, v1, v2

TwoFiles == {f1, f2}
OneFile == {f1}
TwoChunks == {0, 1}
OneContent == {v1}
TwoContents == {v1, v2}

FileSymmetry == Permutations(TwoFiles)
ContentSymmetry == Permutations(TwoContents)
==============================================================================
