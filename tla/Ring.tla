-------------------------------- MODULE Ring --------------------------------
(***************************************************************************)
(* The user's side of an io_uring (src/liburing/src/queue.c and setup.c,   *)
(* src/liburing/src/include/liburing.h) as the submit thread drives it:    *)
(* rounds of preparing entries, submitting them and looking at             *)
(* completions.  All indexes are unsigned integers that wrap.  The ring is *)
(* set up without flags, so the kernel takes entries only inside           *)
(* io_uring_enter; it finishes requests at any time.                       *)
(***************************************************************************)
EXTENDS Integers, Sequences, FiniteSetsExt, SequencesExt

CONSTANTS
    Requests,       \* what user_data can point to
    Entries,        \* sq_entries
    CqEntries,      \* cq_entries
    Modulus,        \* one more than the largest unsigned
    SingleMmap,     \* what kernels say about IORING_FEAT_SINGLE_MMAP
    MaxFailures     \* bound: failed system calls

ASSUME RingAssumption ==
    /\ Entries \in Nat \ {0} /\ CqEntries \in Nat /\ CqEntries >= Entries
    /\ Modulus \in Nat /\ Modulus > CqEntries + 1
    /\ Modulus % Entries = 0 /\ Modulus % CqEntries = 0
    /\ SingleMmap \subseteq BOOLEAN /\ MaxFailures \in Nat

Areas == {"sqRing", "cqRing", "sqes"}
NoRequest == "none"
U(x) == x % Modulus
Slot(i) == i % Entries
CqSlot(i) == i % CqEntries

VARIABLES
    pc,         \* what the thread does
    ringFd,     \* whether the ring's descriptor is open
    mapped,     \* how often each area is mapped
    ptr,        \* sq.ring_ptr, cq.ring_ptr and sq.sqes
    sq,         \* struct io_uring_sq, and the shared memory it points to
    cq,         \* struct io_uring_cq, and the shared memory it points to
    held,       \* what the completions given to the caller hold
    running,    \* requests in the kernel
    overflow,   \* completions the kernel found no room for
    failures    \* failed system calls so far

setupVars == <<ringFd, mapped, ptr>>
vars == <<pc, setupVars, sq, cq, held, running, overflow, failures>>

EmptySq == [khead |-> 0, ktail |-> 0, array |-> [i \in 0..Entries-1 |-> 0],
            sqes |-> [i \in 0..Entries-1 |-> NoRequest], sqe_head |-> 0, sqe_tail |-> 0]
EmptyCq == [khead |-> 0, ktail |-> 0, cqes |-> [i \in 0..CqEntries-1 |-> NoRequest]]
NullPtr == [a \in Areas |-> "null"]

Init ==
    /\ pc = "none" /\ ringFd = FALSE
    /\ mapped = [a \in Areas |-> 0] /\ ptr = NullPtr
    /\ sq = EmptySq /\ cq = EmptyCq /\ held = <<>>
    /\ running = {} /\ overflow = <<>> /\ failures = 0

\* A system call that fails.
Failure == failures < MaxFailures /\ failures' = failures + 1

-----------------------------------------------------------------------------
(* setup.c                                                                 *)

\* io_uring_unmap_rings: with one mapping for both rings it is unmapped once.
UnmapBoth(m, p) == [m EXCEPT !["sqRing"] = @ - 1, ![p["cqRing"]] = @ - 1]    \* mutant
UnmapRings(m, p) ==
    LET afterSq == [m EXCEPT !["sqRing"] = @ - 1]
    IN  IF p["cqRing"] # "null" /\ p["cqRing"] # p["sqRing"]
        THEN [afterSq EXCEPT ![p["cqRing"]] = @ - 1] ELSE afterSq

\* The new ring's shared memory is zero, and so is, after memset, the library's own half.
NoMemset == [EmptySq EXCEPT !.sqe_head = sq.sqe_head, !.sqe_tail = sq.sqe_tail]   \* mutant
NewSq == EmptySq

\* io_uring_queue_init_params begins: io_uring_setup and memset.
QueueInit ==
    /\ pc = "none"
    /\ \/ Failure /\ UNCHANGED <<pc, setupVars, sq, cq>>
       \/ /\ pc' = "mapSq" /\ ringFd' = TRUE /\ ptr' = NullPtr
          /\ sq' = NewSq /\ cq' = EmptyCq
          /\ UNCHANGED <<mapped, failures>>
    /\ UNCHANGED <<held, running, overflow>>

\* io_uring_mmap failed: io_uring_queue_init_params closes the descriptor.
InitFailed == pc' = "none" /\ ringFd' = FALSE

MmapSqRing ==
    /\ pc = "mapSq"
    /\ \/ Failure /\ InitFailed /\ UNCHANGED <<mapped, ptr>>
       \/ \E single \in SingleMmap :
            /\ mapped' = [mapped EXCEPT !["sqRing"] = @ + 1]
            /\ ptr' = [ptr EXCEPT !["sqRing"] = "sqRing", !["cqRing"] = IF single THEN "sqRing" ELSE @]
            /\ pc' = IF single THEN "mapSqes" ELSE "mapCq"
            /\ UNCHANGED <<ringFd, failures>>
    /\ UNCHANGED <<sq, cq, held, running, overflow>>

MmapCqRing ==
    /\ pc = "mapCq"
    /\ \/ Failure /\ InitFailed /\ mapped' = UnmapRings(mapped, ptr) /\ UNCHANGED ptr
       \/ /\ mapped' = [mapped EXCEPT !["cqRing"] = @ + 1]
          /\ ptr' = [ptr EXCEPT !["cqRing"] = "cqRing"]
          /\ pc' = "mapSqes"
          /\ UNCHANGED <<ringFd, failures>>
    /\ UNCHANGED <<sq, cq, held, running, overflow>>

MmapSqes ==
    /\ pc = "mapSqes"
    /\ \/ Failure /\ InitFailed /\ mapped' = UnmapRings(mapped, ptr) /\ UNCHANGED ptr
       \/ /\ mapped' = [mapped EXCEPT !["sqes"] = @ + 1]
          /\ ptr' = [ptr EXCEPT !["sqes"] = "sqes"]
          /\ pc' = "prepare"
          /\ UNCHANGED <<ringFd, failures>>
    /\ UNCHANGED <<sq, cq, held, running, overflow>>

\* io_uring_queue_exit; the kernel drops what is still running.
QueueExit ==
    /\ pc = "prepare"
    /\ mapped' = UnmapRings([mapped EXCEPT !["sqes"] = @ - 1], ptr)
    /\ ringFd' = FALSE /\ pc' = "none"
    /\ running' = {} /\ overflow' = <<>>
    /\ UNCHANGED <<ptr, sq, cq, held, failures>>

-----------------------------------------------------------------------------
(* Submission.                                                             *)

\* io_uring_sq_ready
SqReady == U(sq.sqe_tail - sq.khead)

CqReady == U(cq.ktail - cq.khead)
CqAt(i) == cq.cqes[CqSlot(U(cq.khead + i - 1))]

\* The entries not yet taken: first those the kernel can see, then those only prepared.
Flushed == U(sq.ktail - sq.khead)
QueuedAt(i) ==
    IF i <= Flushed THEN sq.sqes[sq.array[Slot(U(sq.khead + i - 1))]]
    ELSE sq.sqes[Slot(U(sq.sqe_head + i - 1 - Flushed))]

Open == pc \notin {"none", "mapSq", "mapCq", "mapSqes"}
Queued == IF Open THEN [i \in 1..SqReady |-> QueuedAt(i)] ELSE <<>>
Done == IF Open THEN [i \in 1..CqReady |-> CqAt(i)] \o overflow ELSE <<>>
Outstanding == ToSet(Queued) \cup running \cup ToSet(Done)

\* __io_uring_get_sqe finds a vacant entry unless __next - __head exceeds the ring.
HasRoom == U(sq.sqe_tail + 1 - sq.khead) <= Entries

\* io_uring_get_sqe, and io_uring_prep_rw or io_uring_prep_nop with the caller's user_data.
GetSqe(r) ==
    /\ pc = "prepare" /\ HasRoom
    /\ r \notin Outstanding
    /\ sq' = [sq EXCEPT !.sqes[Slot(sq.sqe_tail)] = r, !.sqe_tail = U(@ + 1)]
    /\ UNCHANGED <<pc, setupVars, cq, held, running, overflow, failures>>

\* The loop of __io_uring_flush_sq over the entries prepared since the last call.
ArrayEntry(i, n) ==
    LET k == Slot(U(i - sq.ktail))
    IN  IF k < n THEN Slot(U(sq.sqe_head + k)) ELSE sq.array[i]

\* submitLoop submits in a round in which it has prepared something (runnersAdded) ...
FlushSq ==
    LET n == U(sq.sqe_tail - sq.sqe_head)
    IN  /\ pc = "prepare" /\ n # 0
        /\ sq' = [sq EXCEPT !.array = [i \in 0..Entries-1 |-> ArrayEntry(i, n)],
                            !.ktail = U(@ + n), !.sqe_head = sq.sqe_tail]
        /\ pc' = "enter"
        /\ UNCHANGED <<setupVars, cq, held, running, overflow, failures>>

\* ... and goes on to the completions otherwise: what an earlier submission left over waits.
SkipSubmit ==
    /\ pc = "prepare" /\ sq.sqe_tail = sq.sqe_head
    /\ pc' = "peek"
    /\ UNCHANGED <<setupVars, sq, cq, held, running, overflow, failures>>

\* __io_uring_submit: the kernel takes the first entries it is told of, or the call fails
\* with -EAGAIN or -EINTR and io_uring_submit is called again.
Enter ==
    /\ pc = "enter"
    /\ \/ /\ Failure /\ UNCHANGED <<pc, sq, running>>
       \/ \E n \in 1..Flushed :
            /\ running' = running \cup {QueuedAt(i) : i \in 1..n}
            /\ sq' = [sq EXCEPT !.khead = U(@ + n)]
            /\ pc' = "peek"
            /\ UNCHANGED failures
    /\ UNCHANGED <<setupVars, cq, held, overflow>>

-----------------------------------------------------------------------------
(* Completion.                                                             *)

\* The kernel writes the completions of s into the slots behind the tail.
Posted(s) ==
    [cq EXCEPT !.ktail = U(@ + Len(s)),
               !.cqes = [i \in 0..CqEntries-1 |->
                            LET k == CqSlot(U(i - cq.ktail))
                            IN  IF k < Len(s) THEN s[k + 1] ELSE cq.cqes[i]]]

\* The kernel finishes a request; without room the completion waits in its overflow list.
Complete(r) ==
    /\ r \in running
    /\ running' = running \ {r}
    /\ IF overflow = <<>> /\ CqReady < CqEntries
       THEN cq' = Posted(<<r>>) /\ UNCHANGED overflow
       ELSE overflow' = Append(overflow, r) /\ UNCHANGED cq
    /\ UNCHANGED <<pc, setupVars, sq, held, failures>>

\* __io_uring_peek_cqe gives the oldest completion.  Nobody queues internal timeouts, so
\* none is skipped.
PeekCqe ==
    /\ pc = "peek"
    /\ \/ CqReady = 0 /\ pc' = "empty" /\ UNCHANGED held
       \/ CqReady > 0 /\ held' = <<CqAt(1)>> /\ pc' = "holding"
    /\ UNCHANGED <<setupVars, sq, cq, running, overflow, failures>>

\* io_uring_peek_batch_cqe, which the library offers as well, gives up to count of the oldest ones.
PeekBatchCqe(count) ==
    /\ pc = "peek" /\ CqReady > 0
    /\ held' = [i \in 1..Min({count, CqReady}) |-> CqAt(i)]
    /\ pc' = "holding"
    /\ UNCHANGED <<setupVars, sq, cq, running, overflow, failures>>

\* cq_ring_needs_flush, read after the tail
IgnoreOverflow == FALSE                                                     \* mutant
NeedsFlush == overflow # <<>>

\* Nothing there: io_uring_peek_cqe returns -EAGAIN ...
PeekAgain ==
    /\ pc = "empty" /\ ~NeedsFlush
    /\ pc' = "prepare"
    /\ UNCHANGED <<setupVars, sq, cq, held, running, overflow, failures>>

\* io_uring_enter with IORING_ENTER_GETEVENTS: the kernel moves what fits from its overflow
\* list into the ring.
GetEvents ==
    LET n == Min({Len(overflow), CqEntries - CqReady})
    IN  /\ cq' = Posted(SubSeq(overflow, 1, n))
        /\ overflow' = SubSeq(overflow, n + 1, Len(overflow))
        /\ UNCHANGED <<setupVars, sq, held, running, failures>>

\* ... or, when there is an overflow, fetches it and peeks again (_io_uring_get_cqe).  If that
\* fails, io_uring_peek_cqe does, and submitLoop goes into the next round.
FlushOverflow ==
    /\ pc = "empty" /\ NeedsFlush
    /\ \/ GetEvents /\ pc' = "peek"
       \/ Failure /\ pc' = "prepare" /\ UNCHANGED <<setupVars, sq, cq, held, running, overflow>>

\* io_uring_wait_cqe, which the library offers as well, sleeps in the kernel until something
\* is there, then peeks again.
WaitCqe == pc = "empty" /\ CqReady > 0 /\ GetEvents /\ pc' = "peek"

\* io_uring_cqe_seen and io_uring_cq_advance
Advanced == [cq EXCEPT !.khead = U(@ + Len(held))]

CqeSeen ==
    /\ pc = "holding"
    /\ cq' = Advanced
    /\ held' = <<>> /\ pc' = "peek"
    /\ UNCHANGED <<setupVars, sq, running, overflow, failures>>

SetupStep == QueueInit \/ MmapSqRing \/ MmapCqRing \/ MmapSqes
LoopStep ==
    \/ FlushSq \/ SkipSubmit \/ Enter \/ PeekCqe \/ PeekAgain \/ FlushOverflow \/ WaitCqe \/ CqeSeen
    \/ \E count \in 1..CqEntries : PeekBatchCqe(count)

Next ==
    \/ SetupStep \/ QueueExit \/ LoopStep
    \/ \E r \in Requests : GetSqe(r) \/ Complete(r)

\* The thread goes round its loop, whether it has something to submit or not, and the kernel
\* finishes every request.
Fairness ==
    /\ WF_vars(FlushSq \/ SkipSubmit) /\ WF_vars(Enter) /\ WF_vars(PeekCqe)
    /\ WF_vars(PeekAgain \/ FlushOverflow) /\ WF_vars(CqeSeen)
    /\ \A r \in Requests : WF_vars(Complete(r))

Spec == Init /\ [][Next]_vars /\ Fairness

-----------------------------------------------------------------------------
(* Properties.                                                             *)

\* Whatever fails while the ring is set up, and after it is closed, nothing stays mapped or
\* open and nothing is unmapped twice; a ring in use has all its areas.
NothingLeaked ==
    /\ pc = "none" => ~ringFd /\ \A a \in Areas : mapped[a] = 0
    /\ Open => ringFd /\ \A a \in Areas : mapped[ptr[a]] = 1

Service == INSTANCE RingService WITH queued <- Queued, done <- Done

\* The ring refines its service: no entry is lost, reordered, submitted twice or overwritten
\* before the kernel took it, each completion is reported once and in order and stays as it
\* is while the user looks at it, across wrapping indexes, partial submissions, overflow and
\* new rings.
RefinesService == Service!Spec

\* Every request the kernel took comes back, unless the ring is closed: no completion is
\* forgotten in the overflow list.  And what was prepared is taken as long as the thread
\* keeps submitting: the rest of a partial submission goes with the next ones.
EveryRequestReturns ==
    \A r \in Requests :
        /\ (r \in running \cup ToSet(Done)) ~> (r \notin running \cup ToSet(Done))
        /\ []<>(pc = "enter") => ((r \in ToSet(Queued)) ~> (r \notin ToSet(Queued)))
=============================================================================
