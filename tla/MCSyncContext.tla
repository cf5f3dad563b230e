--------------------------- MODULE MCSyncContext ---------------------------
(* Instances of SyncContext small enough for TLC.                          *)
EXTENDS SyncContext, TLC

\* What a free inode last held is never read again.
LiveFiles == [i \in Inodes |-> IF i \in Free THEN None ELSE files[i]]

View == <<glossary, entry, spelled, LiveFiles, pc, run, temp, late>>

\* Free inodes are interchangeable.
InodeSymmetry == Permutations(Inodes \ {Elsewhere})
=============================================================================
