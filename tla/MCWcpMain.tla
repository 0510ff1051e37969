----------------------------- MODULE MCWcpMain -----------------------------
(***************************************************************************)
(* A source directory with a file, a directory that holds a file, a link   *)
(* back to the root, without and with a dangling link or a pipe.           *)
(***************************************************************************)
EXTENDS WcpMain

CONSTANTS file, sub, inner, loop, pipe, lost

MCParent == [n \in Nodes |-> IF n \in {inner, loop, pipe} THEN sub ELSE Root]
MCKind == (file :> "reg") @@ (sub :> "dir") @@ (inner :> "reg") @@ (loop :> "lnk") @@ (pipe :> "other") @@ (lost :> "lnk")
MCTrees == {{file, sub, inner, lost}, {file, sub, loop}, {sub, pipe}}
MCTarget == [n \in Nodes |-> IF n = loop THEN Root ELSE Nowhere]
=============================================================================
