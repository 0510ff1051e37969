----------------------------- MODULE MCCopyQueue -----------------------------
(***************************************************************************)
(* Instances of CopyQueue for TLC: which files there are and how many      *)
(* chunks each has.                                                        *)
(***************************************************************************)
EXTENDS CopyQueue

CONSTANTS big, small, empty     \* files of two chunks, one chunk and no byte

ChunksOf == [f \in Files |-> CASE f = big -> 2 [] f = small -> 1 [] f = empty -> 0]
=============================================================================
