------------------------------- MODULE MCEta -------------------------------
(***************************************************************************)
(* Two big copies, two small ones of which one has exactly BIG_FILE_SIZE   *)
(* bytes, and an empty file.                                               *)
(***************************************************************************)
EXTENDS Eta

CONSTANTS big1, big2, small1, small2, empty1

MCSize == [c \in Copies |-> CASE c \in {big1, big2} -> 3
                              [] c = small1 -> BIG_FILE_SIZE
                              [] c = small2 -> 1
                              [] c = empty1 -> 0]
=============================================================================
