---------------------------- MODULE RingService ----------------------------
(***************************************************************************)
(* What an io_uring promises to its one user: requests are taken in the    *)
(* order they were prepared, run in any order, and each is reported once,  *)
(* in the order they finished.  Closing the ring drops them all.           *)
(***************************************************************************)
EXTENDS Naturals, Sequences, SequencesExt

CONSTANT Requests

VARIABLES
    queued,     \* prepared and not yet taken by the kernel
    running,    \* taken and not finished
    done,       \* finished and not yet marked as seen
    held        \* the completions at the head of done that the user looks at

vars == <<queued, running, done, held>>

Outstanding == ToSet(queued) \cup running \cup ToSet(done)

Init == queued = <<>> /\ running = {} /\ done = <<>> /\ held = <<>>

Prepare(r) ==
    /\ r \notin Outstanding
    /\ queued' = Append(queued, r)
    /\ UNCHANGED <<running, done, held>>

Take(n) ==
    /\ n \in 1..Len(queued)
    /\ queued' = SubSeq(queued, n + 1, Len(queued))
    /\ running' = running \cup ToSet(SubSeq(queued, 1, n))
    /\ UNCHANGED <<done, held>>

Finish(r) ==
    /\ r \in running
    /\ running' = running \ {r}
    /\ done' = Append(done, r)
    /\ UNCHANGED <<queued, held>>

Look(n) ==
    /\ held = <<>> /\ n \in 1..Len(done)
    /\ held' = SubSeq(done, 1, n)
    /\ UNCHANGED <<queued, running, done>>

See ==
    /\ held # <<>>
    /\ done' = SubSeq(done, Len(held) + 1, Len(done))
    /\ held' = <<>>
    /\ UNCHANGED <<queued, running>>

Close == queued' = <<>> /\ running' = {} /\ done' = <<>> /\ held' = <<>>

Next ==
    \/ \E r \in Requests : Prepare(r) \/ Finish(r)
    \/ \E n \in 1..Len(queued) : Take(n)
    \/ \E n \in 1..Len(done) : Look(n)
    \/ See \/ Close

Spec == Init /\ [][Next]_vars
=============================================================================
