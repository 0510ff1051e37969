--------------------------- MODULE RunnerService ---------------------------
(***************************************************************************)
(* What a CopyRunner promises to the queue that owns it, whatever happens  *)
(* to its bytes: how many requests it puts into the ring, in which order   *)
(* their completions change it, and when it is done.  CopyRunner           *)
(* implements it for one chunk, and every runner of CopyQueue behaves like *)
(* this.                                                                   *)
(***************************************************************************)
EXTENDS Naturals

VARIABLES
    phase,      \* "waiting" for its turn, "running", "finished" or "failed"
    readDone,   \* it will not read again
    left,       \* bytes not yet written
    jobs,       \* requests in flight
    broken      \* an error has been saved

vars == <<phase, readDone, left, jobs, broken>>

Init ==
    /\ phase = "waiting" /\ readDone = FALSE
    /\ left \in Nat \ {0}
    /\ jobs = 0 /\ broken = FALSE

\* addToBatch: a runner never takes its turn without a request, the last of which is the
\* write; there is a read before it unless the chunk has been read.
Submit ==
    /\ phase = "waiting"
    /\ phase' = "running"
    /\ jobs' = IF readDone THEN 1 ELSE 2
    /\ UNCHANGED <<readDone, left, broken>>

\* addToBatch, if a file cannot be opened.
GiveUp ==
    /\ phase = "waiting"
    /\ phase' = "failed"
    /\ UNCHANGED <<readDone, left, jobs, broken>>

\* The read is seen first and never ends the turn.
ReadSeen ==
    /\ phase = "running" /\ jobs = 2
    /\ jobs' = 1
    /\ \/ readDone' \in BOOLEAN /\ UNCHANGED broken
       \/ broken' = TRUE /\ UNCHANGED readDone
    /\ UNCHANGED <<phase, left>>

\* The write ends the turn: some bytes are written, unless there is or was an error.
WriteSeen ==
    /\ phase = "running" /\ jobs = 1
    /\ jobs' = 0
    /\ \/ /\ ~broken
          /\ \E written \in 0..left : left' = left - written
          /\ phase' = IF left' = 0 THEN "finished" ELSE "waiting"
          /\ UNCHANGED broken
       \/ broken' = TRUE /\ phase' = "failed" /\ UNCHANGED left
    /\ UNCHANGED readDone

Next == Submit \/ GiveUp \/ ReadSeen \/ WriteSeen

Spec == Init /\ [][Next]_vars
=============================================================================
