------------------------------ MODULE CopyQueue ------------------------------
(***************************************************************************)
(* The copy queue (src/src/CopyQueue.cpp) with the descriptors that the    *)
(* chunks of a file share (src/src/QueueFileDescriptor.cpp): the thread    *)
(* that adds files, starts and joins the queue, the submit thread, and the *)
(* kernel's side of the io_uring.                                          *)
(*                                                                         *)
(* What a runner does with its bytes is the business of module CopyRunner. *)
(* Here a runner knows whether its chunk has been read and how much of it  *)
(* is left to write, and a completion says how a request ended.            *)
(***************************************************************************)
EXTENDS Integers, Sequences, FiniteSets

CONSTANTS
    Files,          \* the files to copy
    Chunks,         \* number of chunks of each file; 0 for an empty file
    ChunkBytes,     \* bytes in a chunk
    Cap,            \* fileDescriptorCap
    RingSize,       \* ringSize, the entries of the submission queue
    Blocks,         \* blocks of the heap
    Faults,         \* what can fail: a subset of {"open", "read", "write", "close"}
    MaxSessions,    \* bound: calls of start()
    MaxFailures,    \* bound: failed system calls and requests
    MaxShortIO,     \* bound: requests that transfer less than they should
    MaxSplits       \* bound: io_uring_submit calls that do not take every entry

RESERVED_FD_COUNT == 2
RESERVED_HIGH_PRIORITY_FD_COUNT == 2
MAX_JOBS_PER_RUNNER == 2
Sides == {"src", "dst"}

\* The constructor's release_assert, and a ring that holds one runner's requests.
ASSUME QueueAssumption ==
    /\ Cap \in Nat /\ Cap >= RESERVED_FD_COUNT + RESERVED_HIGH_PRIORITY_FD_COUNT
    /\ RingSize \in Nat /\ RingSize >= MAX_JOBS_PER_RUNNER
    /\ Blocks \in Nat \ {0} /\ ChunkBytes \in Nat \ {0}
    /\ IsFiniteSet(Files) /\ Chunks \in [Files -> Nat] /\ MaxSessions \in Nat
    /\ Faults \subseteq {"open", "read", "write", "close"}

\* A runner copies one part of a file; an empty file has one part, of size 0.
PartCount(f) == IF Chunks[f] = 0 THEN 1 ELSE Chunks[f]
Runners == UNION {{<<f, i>> : i \in 1..PartCount(f)} : f \in Files}
FileOf(r) == r[1]
Size(r) == IF Chunks[FileOf(r)] = 0 THEN 0 ELSE ChunkBytes
NoFile == <<>>
NoRunner == <<>>
HeapBlocks == 1..Blocks
NoBlock == 0

VARIABLES
    \* the thread that adds files
    mpc, mfile, mside, mpart, mseen,
    added, joined, sessions,
    \* members of CopyQueue and of the QueueFileDescriptors
    state, fileDescriptorsUsed, fd, chunksRemaining,
    copiesPendingStart, totalBytesToCopy, totalBytesCopied, errored,
    usedList, submissionsRunning,
    \* the runners: which exist, and what they keep
    alive, buffer, readDone, left, jobsRunning, savedError,
    \* the submit thread
    spc, toAdd, sseen, nextBuffer, runnersAdded, copiesPendingContinue,
    \* the ring: entries not yet submitted, requests in the kernel, completions
    sq, kernel, cq,
    \* history, and what the bounds count
    batch, failuresNow, failures, shortIO, splits

mainVars == <<mpc, mfile, mside, mpart, mseen, added, joined, sessions>>
fdVars == <<fileDescriptorsUsed, fd>>
queueVars == <<state, copiesPendingStart, totalBytesToCopy, totalBytesCopied, errored>>
lifeVars == <<usedList, chunksRemaining, alive>>
runnerVars == <<buffer, readDone, left, jobsRunning, savedError>>
submitVars == <<spc, toAdd, sseen, nextBuffer, runnersAdded, copiesPendingContinue>>
ringVars == <<sq, kernel, cq, submissionsRunning>>
countVars == <<failuresNow, failures, shortIO, splits>>
vars == <<mainVars, fdVars, queueVars, lifeVars, runnerVars, submitVars, ringVars, batch, countVars>>

keepAliveCount == Cardinality(alive)
copiesPendingStartCount == Len(copiesPendingStart)

Init ==
    /\ mpc = "ready" /\ mfile = NoFile /\ mside = "src" /\ mpart = 0 /\ mseen = 0
    /\ added = {} /\ joined = "no" /\ sessions = 0
    /\ state = "Idle"
    /\ fileDescriptorsUsed = RESERVED_FD_COUNT
    /\ fd = [f \in Files |-> [s \in Sides |-> "never"]]
    /\ chunksRemaining = [f \in Files |-> 0]
    /\ copiesPendingStart = <<>> /\ copiesPendingContinue = <<>>
    /\ totalBytesToCopy = 0 /\ totalBytesCopied = 0 /\ errored = FALSE
    /\ usedList = [b \in HeapBlocks |-> FALSE] /\ submissionsRunning = 0
    /\ alive = {}
    /\ buffer = [r \in Runners |-> NoBlock]
    /\ readDone = [r \in Runners |-> FALSE]
    /\ left = [r \in Runners |-> Size(r)]
    /\ jobsRunning = [r \in Runners |-> 0]
    /\ savedError = [r \in Runners |-> FALSE]
    /\ spc = "off" /\ toAdd = NoRunner /\ sseen = 0
    /\ nextBuffer = NoBlock /\ runnersAdded = FALSE
    /\ sq = <<>> /\ kernel = {} /\ cq = <<>>
    /\ batch = {} /\ failuresNow = 0 /\ failures = 0 /\ shortIO = 0 /\ splits = 0

-----------------------------------------------------------------------------
(* Failures.                                                               *)

MayFail(call) == call \in Faults /\ failures < MaxFailures

\* Whether the call fails in this step; every failure is counted.
Fails(call) == IF MayFail(call) THEN BOOLEAN ELSE {FALSE}
CountFailure(failed) ==
    /\ failures' = IF failed THEN failures + 1 ELSE failures
    /\ failuresNow' = IF failed THEN failuresNow + 1 ELSE failuresNow

\* onError; how messages are shown is the business of module Completion.
OnError == errored' = TRUE

-----------------------------------------------------------------------------
(* Descriptors.                                                            *)

OpenSides(f) == {s \in Sides : fd[f][s] = "open"}

\* needsFileDescriptors
NeedsFileDescriptors(f) == OpenSides(f) # Sides

\* Only the last remaining chunk of a file closes its descriptors.
AnyChunk(f) == TRUE                             \* mutant: every chunk closes them
ChunkAfterLast(f) == chunksRemaining[f] = 0     \* mutant: no chunk closes them
LastChunk(f) == chunksRemaining[f] = 1

\* What handleFileClose closes, and the reservations notifyClosed gives back for it.
Closing(f) == IF LastChunk(f) THEN OpenSides(f) ELSE {}
ReleaseBoth(f) == IF LastChunk(f) THEN 2 ELSE 0 \* mutant: also for what was never opened
Released(f) == Cardinality(Closing(f))

Closed(f) == [fd EXCEPT ![f] = [s \in Sides |-> IF s \in Closing(f) THEN "closed" ELSE fd[f][s]]]

\* handleFileClose
HandleFileClose(f) ==
    /\ fd' = Closed(f)
    /\ fileDescriptorsUsed' = fileDescriptorsUsed - Released(f)

\* myClose: how the closing of a file's descriptors ends.
CloseResults(f) == IF Closing(f) # {} THEN Fails("close") ELSE {FALSE}

\* reserveFileDescriptor: up to where each priority may reserve, and the compare-and-swap.
NoReserve == Cap                                \* mutant: nothing kept for the submit thread
LowPriorityLimit == Cap - RESERVED_HIGH_PRIORITY_FD_COUNT
BlindIncrement(seen) == TRUE                    \* mutant: load, then store
CompareExchange(seen) == fileDescriptorsUsed = seen

\* A descriptor was reserved: doOpen.  A reservation whose open failed is not given back.
ReserveAndOpen(f, s, seen, failed) ==
    /\ fileDescriptorsUsed' = seen + 1
    /\ fd' = IF failed THEN fd ELSE [fd EXCEPT ![f][s] = "open"]

-----------------------------------------------------------------------------
(* Adding files.                                                           *)

\* addCopyJob begins: the two QueueFileDescriptors try to open at low priority.
AddCopyJob(f) ==
    /\ mpc = "ready" /\ state \in {"Idle", "Running"}
    /\ state = "Idle" => sessions < MaxSessions
    /\ f \notin added
    /\ added' = added \cup {f}
    /\ mpc' = "load" /\ mfile' = f /\ mside' = "src"
    /\ UNCHANGED <<mpart, mseen, joined, sessions, fdVars, queueVars, lifeVars, runnerVars, submitVars,
                   ringVars, batch, countVars>>

\* After a descriptor comes the other one, after both the parts.
NextDescriptor ==
    IF mside = "src"
    THEN mpc' = "load" /\ mside' = "dst" /\ UNCHANGED <<chunksRemaining, mpart>>
    ELSE /\ mpc' = "total" /\ mpart' = 1
         /\ chunksRemaining' = [chunksRemaining EXCEPT ![mfile] = PartCount(mfile)]
         /\ UNCHANGED mside

\* reserveFileDescriptor(Low): the load, and the comparison with the limit.
LowPriorityLoad ==
    /\ mpc = "load"
    /\ mseen' = fileDescriptorsUsed
    /\ IF fileDescriptorsUsed >= LowPriorityLimit
       THEN NextDescriptor
       ELSE mpc' = "cas" /\ UNCHANGED <<mside, mpart, chunksRemaining>>
    /\ UNCHANGED <<mfile, added, joined, sessions, fdVars, queueVars, usedList, alive, runnerVars,
                   submitVars, ringVars, batch, countVars>>

\* The compare-and-swap, tried once, and the open, whose failure is ignored.
LowPriorityOpen ==
    /\ mpc = "cas"
    /\ \/ /\ CompareExchange(mseen)
          /\ \E failed \in Fails("open") :
                /\ ReserveAndOpen(mfile, mside, mseen, failed)
                /\ failures' = IF failed THEN failures + 1 ELSE failures
       \/ /\ ~CompareExchange(mseen)
          /\ UNCHANGED <<fdVars, failures>>
    /\ NextDescriptor
    /\ UNCHANGED <<mfile, mseen, added, joined, sessions, queueVars, usedList, alive, runnerVars,
                   submitVars, ringVars, batch, failuresNow, shortIO, splits>>

\* addCopyJobPart counts the bytes before the part can be seen ...
CountFirstPart == IF mpart = 1 THEN totalBytesToCopy + Size(<<mfile, mpart>>) ELSE totalBytesToCopy \* mutant
CountPart == totalBytesToCopy + Size(<<mfile, mpart>>)

AddCopyJobPartTotal ==
    /\ mpc = "total"
    /\ totalBytesToCopy' = CountPart
    /\ mpc' = "push"
    /\ UNCHANGED <<mfile, mside, mpart, mseen, added, joined, sessions, fdVars, state,
                   copiesPendingStart, totalBytesCopied, errored, lifeVars, runnerVars,
                   submitVars, ringVars, batch, countVars>>

\* ... and appends it under the mutex.
AddCopyJobPartPush ==
    LET r == <<mfile, mpart>>
    IN  /\ mpc = "push"
        /\ copiesPendingStart' = Append(copiesPendingStart, r)
        /\ alive' = alive \cup {r}
        /\ batch' = batch \cup {r}
        /\ IF mpart = PartCount(mfile)
           THEN mpc' = "ready" /\ mfile' = NoFile /\ mpart' = 0 /\ mside' = "src"
           ELSE mpc' = "total" /\ mpart' = mpart + 1 /\ UNCHANGED <<mfile, mside>>
        /\ UNCHANGED <<mseen, added, joined, sessions, fdVars, state, totalBytesToCopy, totalBytesCopied,
                       errored, usedList, chunksRemaining, runnerVars, submitVars, ringVars,
                       countVars>>

Start ==
    /\ mpc = "ready" /\ state = "Idle" /\ sessions < MaxSessions
    /\ state' = "Running" /\ sessions' = sessions + 1
    /\ spc' = "check"
    /\ UNCHANGED <<mpc, mfile, mside, mpart, mseen, added, joined, fdVars, copiesPendingStart, totalBytesToCopy,
                   totalBytesCopied, errored, lifeVars, runnerVars, toAdd, sseen, nextBuffer,
                   runnersAdded, copiesPendingContinue, ringVars, batch, countVars>>

Join ==
    /\ mpc = "ready" /\ state = "Running"
    /\ state' = "AdditionComplete"
    /\ mpc' = "joining"
    /\ UNCHANGED <<mfile, mside, mpart, mseen, added, joined, sessions, fdVars, copiesPendingStart,
                   totalBytesToCopy, totalBytesCopied, errored, lifeVars, runnerVars, submitVars,
                   ringVars, batch, countVars>>

\* The counters and the error flag start again with the next session.
KeepError == totalBytesToCopy' = 0 /\ totalBytesCopied' = 0 /\ errored' = errored   \* mutant
ResetSession == totalBytesToCopy' = 0 /\ totalBytesCopied' = 0 /\ errored' = FALSE

\* pthread_join returned: the rest of join().
JoinReturn ==
    /\ mpc = "joining" /\ spc = "exited"
    /\ mpc' = "ready" /\ state' = "Idle" /\ spc' = "off"
    /\ ResetSession
    /\ joined' = IF errored THEN "failed" ELSE "ok"
    /\ batch' = {} /\ failuresNow' = 0
    /\ UNCHANGED <<mfile, mside, mpart, mseen, added, sessions, fdVars, copiesPendingStart, lifeVars,
                   runnerVars, toAdd, sseen, nextBuffer, runnersAdded, copiesPendingContinue,
                   ringVars, failures, shortIO, splits>>

-----------------------------------------------------------------------------
(* The submit thread: adding runners to the batch.                         *)

waitingForStart == copiesPendingStartCount + Len(copiesPendingContinue)
lateLimited == RingSize - submissionsRunning < MAX_JOBS_PER_RUNNER - 1      \* mutant
rateLimited == RingSize - submissionsRunning < MAX_JOBS_PER_RUNNER
waitForDirectoryIteration ==
    state = "Running" /\ totalBytesCopied >= totalBytesToCopy \div 8
outOfFds == Cap - fileDescriptorsUsed < RESERVED_HIGH_PRIORITY_FD_COUNT

\* Nothing more to add: submit what has been added.
StopAdding ==
    /\ spc = "check"
    /\ waitingForStart = 0 \/ rateLimited \/ waitForDirectoryIteration
    /\ spc' = "submit"
    /\ UNCHANGED <<mainVars, fdVars, queueVars, lifeVars, runnerVars, toAdd, sseen, nextBuffer,
                   runnersAdded, copiesPendingContinue, ringVars, batch, countVars>>

\* Heap::getBlock takes the first block that is not in use, if there is one.
FreeBlocks == {b \in HeapBlocks : ~usedList[b]}
getFreeBlocksCount == Cardinality(FreeBlocks)
FirstFree == CHOOSE b \in FreeBlocks : \A c \in FreeBlocks : b <= c

CopyBlock ==                                    \* mutant: the flag is not set
    nextBuffer' = (IF nextBuffer = NoBlock /\ FreeBlocks # {} THEN FirstFree ELSE nextBuffer) /\ UNCHANGED usedList
GetBlock ==
    IF nextBuffer = NoBlock /\ FreeBlocks # {}
    THEN nextBuffer' = FirstFree /\ usedList' = [usedList EXCEPT ![FirstFree] = TRUE]
    ELSE UNCHANGED <<nextBuffer, usedList>>

\* Something may be added: have a block at hand, if there is one.
TakeBlock ==
    /\ spc = "check"
    /\ ~(waitingForStart = 0 \/ rateLimited \/ waitForDirectoryIteration)
    /\ GetBlock
    /\ spc' = "pick"
    /\ UNCHANGED <<mainVars, fdVars, queueVars, chunksRemaining, alive, runnerVars, toAdd, sseen,
                   runnersAdded, copiesPendingContinue, ringVars, batch, countVars>>

\* A runner that already had its turn comes first.
PickContinue ==
    /\ spc = "pick" /\ copiesPendingContinue # <<>>
    /\ toAdd' = Head(copiesPendingContinue)
    /\ copiesPendingContinue' = Tail(copiesPendingContinue)
    /\ spc' = "open"
    /\ UNCHANGED <<mainVars, fdVars, queueVars, lifeVars, runnerVars, sseen, nextBuffer,
                   runnersAdded, ringVars, batch, countVars>>

CanPickStart ==
    /\ copiesPendingContinue = <<>> /\ nextBuffer # NoBlock /\ copiesPendingStartCount > 0
    /\ ~outOfFds \/ ~NeedsFileDescriptors(FileOf(Head(copiesPendingStart)))

\* A new runner gets the block, unless it copies an empty file.
PickStart ==
    LET r == Head(copiesPendingStart)
    IN  /\ spc = "pick" /\ CanPickStart
        /\ copiesPendingStart' = Tail(copiesPendingStart)
        /\ toAdd' = r
        /\ IF Size(r) > 0
           THEN buffer' = [buffer EXCEPT ![r] = nextBuffer] /\ nextBuffer' = NoBlock
           ELSE UNCHANGED <<buffer, nextBuffer>>
        /\ spc' = "open"
        /\ UNCHANGED <<mainVars, fdVars, state, totalBytesToCopy, totalBytesCopied, errored,
                       lifeVars, readDone, left, jobsRunning, savedError, sseen, runnersAdded,
                       copiesPendingContinue, ringVars, batch, countVars>>

\* No block, or no descriptors for the first runner.
PickNothing ==
    /\ spc = "pick" /\ copiesPendingContinue = <<>> /\ ~CanPickStart
    /\ spc' = "submit"
    /\ UNCHANGED <<mainVars, fdVars, queueVars, lifeVars, runnerVars, toAdd, sseen, nextBuffer,
                   runnersAdded, copiesPendingContinue, ringVars, batch, countVars>>

\* The descriptors ensureOpened still has to open for a runner, source first; an empty
\* file only has its destination opened.
ToOpen(r) == {s \in IF Size(r) = 0 THEN {"dst"} ELSE Sides : fd[FileOf(r)][s] = "never"}
FirstToOpen(r) == IF "src" \in ToOpen(r) THEN "src" ELSE "dst"

\* reserveFileDescriptor(High): the load; it is repeated while the cap is reached.
HighPriorityLoad ==
    /\ spc = "open" /\ ToOpen(toAdd) # {}
    /\ fileDescriptorsUsed < Cap
    /\ sseen' = fileDescriptorsUsed
    /\ spc' = "cas"
    /\ UNCHANGED <<mainVars, fdVars, queueVars, lifeVars, runnerVars, toAdd, nextBuffer,
                   runnersAdded, copiesPendingContinue, ringVars, batch, countVars>>

\* Heap::returnBlock, if there is a block.
KeepBlock(b) == UNCHANGED usedList              \* mutant
ReturnBlock(b) == usedList' = IF b = NoBlock THEN usedList ELSE [usedList EXCEPT ![b] = FALSE]

CountLastChunkOnly(r) ==                        \* mutant
    chunksRemaining' = IF LastChunk(FileOf(r)) THEN [chunksRemaining EXCEPT ![FileOf(r)] = 0]
                       ELSE chunksRemaining
CountTwice(r) == chunksRemaining' = [chunksRemaining EXCEPT ![FileOf(r)] = @ - 2]   \* mutant: also in handleFileClose
CountDown(r) == chunksRemaining' = [chunksRemaining EXCEPT ![FileOf(r)] = @ - 1]

\* The destructor of a runner.
Delete(r) ==
    /\ alive' = alive \ {r}
    /\ ReturnBlock(buffer[r])
    /\ buffer' = [buffer EXCEPT ![r] = NoBlock]
    /\ CountDown(r)

\* Another thread changed the counter between the load and the compare-and-swap.
HighPriorityRetry ==
    /\ spc = "cas" /\ ~CompareExchange(sseen)
    /\ spc' = "open"
    /\ UNCHANGED <<mainVars, fdVars, queueVars, lifeVars, runnerVars, toAdd, sseen, nextBuffer,
                   runnersAdded, copiesPendingContinue, ringVars, batch, countVars>>

HighPriorityOpen ==
    /\ spc = "cas" /\ CompareExchange(sseen)
    /\ ReserveAndOpen(FileOf(toAdd), FirstToOpen(toAdd), sseen, FALSE)
    /\ spc' = "open"
    /\ UNCHANGED <<mainVars, queueVars, lifeVars, runnerVars, toAdd, sseen, nextBuffer,
                   runnersAdded, copiesPendingContinue, ringVars, batch, countVars>>

\* The reservation is kept although the file could not be opened, and the runner gives
\* up: addToBatch closes what the last chunk of a file has open, the path for an empty
\* file does not.  After an error in addToBatch no further runner is added to the batch.
HighPriorityOpenError ==
    LET f == FileOf(toAdd)
    IN  /\ spc = "cas" /\ CompareExchange(sseen) /\ MayFail("open")
        /\ IF Size(toAdd) > 0
           THEN fd' = Closed(f) /\ fileDescriptorsUsed' = sseen + 1 - Released(f)
           ELSE fd' = fd /\ fileDescriptorsUsed' = sseen + 1
        /\ Delete(toAdd)
        /\ OnError
        /\ CountFailure(TRUE)
        /\ toAdd' = NoRunner
        /\ spc' = IF Size(toAdd) = 0 THEN "check" ELSE "submit"
        /\ UNCHANGED <<mainVars, state, copiesPendingStart, totalBytesToCopy, totalBytesCopied,
                       readDone, left, jobsRunning, savedError, sseen, nextBuffer, runnersAdded,
                       copiesPendingContinue, ringVars, batch, shortIO, splits>>

\* An empty file is done once it has been created.
FinishEmptyFile ==
    /\ spc = "open" /\ ToOpen(toAdd) = {} /\ Size(toAdd) = 0
    /\ HandleFileClose(FileOf(toAdd))
    /\ \E failed \in CloseResults(FileOf(toAdd)) :
        /\ errored' = (errored \/ failed)
        /\ CountFailure(failed)
    /\ Delete(toAdd)
    /\ toAdd' = NoRunner
    /\ spc' = "check"
    /\ UNCHANGED <<mainVars, state, copiesPendingStart, totalBytesToCopy, totalBytesCopied,
                   readDone, left, jobsRunning, savedError, sseen, nextBuffer, runnersAdded,
                   copiesPendingContinue, ringVars, batch, shortIO, splits>>

\* The requests of a runner: a read if something is left to read, and the write behind it.
Requests(r) == IF readDone[r] THEN <<<<r, "write">>>> ELSE <<<<r, "read">>, <<r, "write">>>>

\* getSqe for each of them; it spins while the submission queue is full.
GetSqe(r, new) ==
    /\ Len(sq) + Len(new) <= RingSize
    /\ sq' = sq \o new
    /\ jobsRunning' = [jobsRunning EXCEPT ![r] = @ + Len(new)]
    /\ submissionsRunning' = submissionsRunning + Len(new)

\* addToBatch, with the descriptors open.
AddToBatch ==
    /\ spc = "open" /\ ToOpen(toAdd) = {} /\ Size(toAdd) > 0
    /\ GetSqe(toAdd, Requests(toAdd))
    /\ runnersAdded' = TRUE
    /\ toAdd' = NoRunner
    /\ spc' = "check"
    /\ UNCHANGED <<mainVars, fdVars, queueVars, lifeVars, buffer, readDone, left, savedError,
                   sseen, nextBuffer, copiesPendingContinue, kernel, cq, batch, countVars>>

\* io_uring_submit, called only if a runner was added, hands over the entries, or the
\* first of them.  The kernel takes a chain, which ends with a write, as a whole.
Submit ==
    /\ spc = "submit" /\ runnersAdded
    /\ \E n \in {i \in 1..Len(sq) : sq[i][2] = "write"} :
        /\ n < Len(sq) => splits < MaxSplits
        /\ splits' = IF n < Len(sq) THEN splits + 1 ELSE splits
        /\ kernel' = kernel \cup {[r |-> sq[i][1], op |-> sq[i][2], cancelled |-> FALSE] : i \in 1..n}
        /\ sq' = SubSeq(sq, n + 1, Len(sq))
    /\ runnersAdded' = FALSE
    /\ spc' = "complete"
    /\ UNCHANGED <<mainVars, fdVars, queueVars, lifeVars, runnerVars, toAdd, sseen, nextBuffer,
                   copiesPendingContinue, cq, submissionsRunning, batch, failures, failuresNow, shortIO>>

SubmitNothing ==
    /\ spc = "submit" /\ ~runnersAdded
    /\ spc' = "complete"
    /\ UNCHANGED <<mainVars, fdVars, queueVars, lifeVars, runnerVars, toAdd, sseen, nextBuffer,
                   runnersAdded, copiesPendingContinue, ringVars, batch, countVars>>

-----------------------------------------------------------------------------
(* The kernel.  A read can reach the end of the chunk with its full length *)
(* ("full") or, at an unaligned end of the file, with less ("last"); where *)
(* the file has grown it passes the end ("over"), and the runner does not  *)
(* take the chunk for read.  If a read does not return its full length the *)
(* write behind it is cancelled.                                           *)

Cqe(q, result) == [r |-> q.r, op |-> q.op, res |-> result]

Completes(q, result, short, failed) ==
    /\ failed => MayFail(q.op)
    /\ short => shortIO < MaxShortIO
    /\ cq' = Append(cq, Cqe(q, result))
    /\ shortIO' = IF short THEN shortIO + 1 ELSE shortIO
    /\ CountFailure(failed)
    /\ UNCHANGED <<mainVars, fdVars, queueVars, lifeVars, runnerVars, submitVars, sq,
                   submissionsRunning, batch, splits>>

KernelRead(q) ==
    /\ q \in kernel /\ q.op = "read"
    /\ \E result \in {"full", "over", "last", "short", "fail"} :
        /\ kernel' = {IF k.r = q.r /\ result \notin {"full", "over"} THEN [k EXCEPT !.cancelled = TRUE] ELSE k :
                         k \in kernel \ {q}}
        /\ Completes(q, result, result \in {"last", "short"}, result = "fail")

KernelWrite(q) ==
    /\ q \in kernel /\ q.op = "write"
    /\ \A k \in kernel : ~(k.r = q.r /\ k.op = "read")
    /\ kernel' = kernel \ {q}
    /\ \E result \in IF q.cancelled THEN {"cancel"} ELSE {"all", "some", "fail"} :
        /\ result = "some" => left[q.r] > 1
        /\ Completes(q, result, result = "some", result = "fail")

-----------------------------------------------------------------------------
(* The submit thread: completions.                                         *)

isDone == state = "AdditionComplete" /\ keepAliveCount = 0

\* The completion at the head of the queue belongs to this step of the submit thread.
Peeked(op) == spc = "complete" /\ submissionsRunning > 0 /\ cq # <<>> /\ Head(cq).op = op

\* io_uring_cqe_seen, once the runner has dealt with the event.
Seen(r) ==
    /\ cq' = Tail(cq)
    /\ submissionsRunning' = submissionsRunning - 1
    /\ jobsRunning' = [jobsRunning EXCEPT ![r] = @ - 1]

\* saveError keeps the first error and closes the descriptors at once, if this is the last
\* chunk of its file; an error of close is dropped.
SaveError(r) ==
    /\ savedError' = [savedError EXCEPT ![r] = TRUE]
    /\ IF savedError[r] THEN UNCHANGED fdVars ELSE HandleFileClose(FileOf(r))

\* onCompletionEvent for a read.  After a failed read the runner lives until the write
\* behind it is seen.
OnReadEvent ==
    LET e == Head(cq)
    IN  /\ Peeked("read")
        /\ IF e.res = "fail"
           THEN SaveError(e.r)
           ELSE UNCHANGED <<savedError, fdVars>>
        /\ readDone' = [readDone EXCEPT ![e.r] = @ \/ e.res \in {"full", "last"}]
        /\ Seen(e.r)
        /\ UNCHANGED <<mainVars, queueVars, lifeVars, buffer, left, submitVars, sq, kernel,
                       batch, countVars>>

\* The write failed, or was cancelled because the read failed: report it and delete.
OnWriteEventError ==
    LET e == Head(cq)
    IN  /\ Peeked("write")
        /\ savedError[e.r] \/ e.res = "fail"
        /\ SaveError(e.r)
        /\ OnError
        /\ Delete(e.r)
        /\ Seen(e.r)
        /\ UNCHANGED <<mainVars, state, copiesPendingStart, totalBytesToCopy, totalBytesCopied,
                       readDone, left, submitVars, sq, kernel, batch, countVars>>

\* The chunk is written: close and delete.
OnWriteEventFinished ==
    LET e == Head(cq)
    IN  /\ Peeked("write")
        /\ ~savedError[e.r] /\ e.res = "all"
        /\ totalBytesCopied' = totalBytesCopied + left[e.r]
        /\ left' = [left EXCEPT ![e.r] = 0]
        /\ HandleFileClose(FileOf(e.r))
        /\ \E failed \in CloseResults(FileOf(e.r)) :
            /\ errored' = (errored \/ failed)
            /\ CountFailure(failed)
        /\ Delete(e.r)
        /\ Seen(e.r)
        /\ UNCHANGED <<mainVars, state, copiesPendingStart, totalBytesToCopy, readDone, savedError,
                       submitVars, sq, kernel, batch, shortIO, splits>>

\* Something is left to do: the runner waits for its next turn.
OnWriteEventReschedule ==
    LET e == Head(cq)
        written == IF e.res = "some" THEN left[e.r] \div 2 ELSE 0
    IN  /\ Peeked("write")
        /\ ~savedError[e.r] /\ e.res \in {"some", "cancel"}
        /\ totalBytesCopied' = totalBytesCopied + written
        /\ left' = [left EXCEPT ![e.r] = @ - written]
        /\ copiesPendingContinue' = Append(copiesPendingContinue, e.r)
        /\ Seen(e.r)
        /\ UNCHANGED <<mainVars, fdVars, state, copiesPendingStart, totalBytesToCopy, errored,
                       lifeVars, buffer, readDone, savedError, spc, toAdd, sseen, nextBuffer,
                       runnersAdded, sq, kernel, batch, countVars>>

NothingToComplete == spc = "complete" /\ (submissionsRunning = 0 \/ cq = <<>>)

NextRound ==
    /\ NothingToComplete /\ ~isDone
    /\ spc' = "check"
    /\ UNCHANGED <<mainVars, fdVars, queueVars, lifeVars, runnerVars, toAdd, sseen, nextBuffer,
                   runnersAdded, copiesPendingContinue, ringVars, batch, countVars>>

\* The thread gives back the block it had at hand and returns.
SubmitExit ==
    /\ NothingToComplete /\ isDone
    /\ ReturnBlock(nextBuffer) /\ nextBuffer' = NoBlock
    /\ spc' = "exited"
    /\ UNCHANGED <<mainVars, fdVars, queueVars, chunksRemaining, alive, runnerVars, toAdd, sseen,
                   runnersAdded, copiesPendingContinue, ringVars, batch, countVars>>

\* The program has joined its last session.
Terminated == mpc = "ready" /\ state = "Idle" /\ sessions = MaxSessions /\ UNCHANGED vars

AddStep ==
    LowPriorityLoad \/ LowPriorityOpen \/ AddCopyJobPartTotal \/ AddCopyJobPartPush
SubmitStep ==
    \/ StopAdding \/ TakeBlock \/ PickContinue \/ PickStart \/ PickNothing
    \/ HighPriorityLoad \/ HighPriorityRetry \/ HighPriorityOpen \/ HighPriorityOpenError
    \/ FinishEmptyFile \/ AddToBatch \/ Submit \/ SubmitNothing
    \/ OnReadEvent \/ OnWriteEventError \/ OnWriteEventFinished \/ OnWriteEventReschedule
    \/ NextRound \/ SubmitExit
KernelStep == \E q \in kernel : KernelRead(q) \/ KernelWrite(q)

Next ==
    \/ \E f \in Files : AddCopyJob(f)
    \/ AddStep \/ Start \/ Join \/ JoinReturn
    \/ SubmitStep
    \/ KernelStep
    \/ Terminated

\* Both threads keep running and the kernel completes every request.  Nobody has to add
\* another file or to call start() or join().
Fairness ==
    /\ WF_vars(AddStep) /\ WF_vars(JoinReturn)
    /\ WF_vars(SubmitStep)
    /\ WF_vars(KernelStep)

Spec == Init /\ [][Next]_vars
FairSpec == Spec /\ Fairness

-----------------------------------------------------------------------------
(* Properties.                                                             *)

\* Every variable has its type.
TypeOK ==
    /\ mpc \in {"ready", "load", "cas", "total", "push", "joining"}
    /\ mfile \in Files \cup {NoFile} /\ mside \in Sides /\ mpart \in Nat /\ mseen \in Nat
    /\ added \subseteq Files /\ joined \in {"no", "ok", "failed"} /\ sessions \in 0..MaxSessions
    /\ state \in {"Idle", "Running", "AdditionComplete"}
    /\ fileDescriptorsUsed \in Nat /\ fd \in [Files -> [Sides -> {"never", "open", "closed"}]]
    /\ chunksRemaining \in [Files -> Nat]
    /\ copiesPendingStart \in Seq(Runners) /\ copiesPendingContinue \in Seq(Runners)
    /\ totalBytesToCopy \in Nat /\ totalBytesCopied \in Nat /\ errored \in BOOLEAN
    /\ usedList \in [HeapBlocks -> BOOLEAN] /\ submissionsRunning \in Nat
    /\ alive \subseteq Runners /\ batch \subseteq Runners
    /\ buffer \in [Runners -> HeapBlocks \cup {NoBlock}] /\ readDone \in [Runners -> BOOLEAN]
    /\ left \in [Runners -> 0..ChunkBytes] /\ jobsRunning \in [Runners -> 0..MAX_JOBS_PER_RUNNER]
    /\ savedError \in [Runners -> BOOLEAN]
    /\ spc \in {"off", "check", "pick", "open", "cas", "submit", "complete", "exited"}
    /\ toAdd \in Runners \cup {NoRunner} /\ sseen \in Nat
    /\ nextBuffer \in HeapBlocks \cup {NoBlock} /\ runnersAdded \in BOOLEAN
    /\ sq \in Seq(Runners \X {"read", "write"})
    /\ kernel \subseteq [r: Runners, op: {"read", "write"}, cancelled: BOOLEAN]
    /\ cq \in Seq([r: Runners, op: {"read", "write"},
                   res: {"full", "over", "last", "short", "fail", "all", "some", "cancel"}])

OpenDescriptors == {d \in Files \X Sides : fd[d[1]][d[2]] = "open"}

\* The two threads together never have more files open than the cap allows, although
\* each checks the counter before it increments it.
FdBudget ==
    /\ fileDescriptorsUsed <= Cap
    /\ RESERVED_FD_COUNT + Cardinality(OpenDescriptors) <= fileDescriptorsUsed

\* Once the submit thread has picked a runner, the descriptors it still has to open are
\* available, whatever the adding thread opens in the meantime: ensureOpened never waits
\* for a descriptor that only the waiting thread itself could close.
SubmitNeverStarved ==
    spc \in {"open", "cas"} => Cap - fileDescriptorsUsed >= Cardinality(ToOpen(toAdd))

\* No request of a healthy runner is in flight on a descriptor that was closed: the chunks
\* of a file finish in any order, and only the last one closes.
FilesOpenWhileCopied ==
    \A r \in Runners :
        (jobsRunning[r] > 0 /\ ~savedError[r]) => OpenSides(FileOf(r)) = Sides

\* The shared counter of a file counts the runners that exist or are still to be added;
\* when it drops to 0 and the descriptors are deleted, no runner is left to use them.
ChunksCounted ==
    \A f \in Files :
        LET exist == Cardinality({r \in alive : FileOf(r) = f})
            tocome == IF mfile = f /\ mpc \in {"total", "push"} THEN PartCount(f) - mpart + 1 ELSE 0
        IN  chunksRemaining[f] = exist + tocome

\* debug_assert in ~QueueFileDescriptor: a descriptor object is not deleted while open.
NoDescriptorLeak ==
    \A f \in added : (chunksRemaining[f] = 0 /\ mfile # f) => OpenSides(f) = {}

\* What submissionsRunning counts is really on its way, never exceeds the ring, and leaves
\* room for the entries of the runner being added, so that getSqe never spins.
RingRoom ==
    /\ submissionsRunning = Len(sq) + Cardinality(kernel) + Len(cq)
    /\ submissionsRunning <= RingSize
    /\ spc \in {"open", "cas"} => Len(sq) + MAX_JOBS_PER_RUNNER <= RingSize

\* A block belongs to one runner, or to the submit thread that keeps it at hand, and is in
\* use as long as it does: no request in flight reads into memory that another chunk has.
BlocksNotShared ==
    /\ \A b \in HeapBlocks :
        Cardinality({r \in Runners : buffer[r] = b}) + (IF nextBuffer = b THEN 1 ELSE 0)
            = (IF usedList[b] THEN 1 ELSE 0)
    /\ \A r \in Runners : jobsRunning[r] > 0 => buffer[r] # NoBlock

\* The progress bar's "copied of total" never exceeds the total, also while files are added.
CopiedWithinTotal == totalBytesCopied <= totalBytesToCopy

\* The asserts in join(): when the submit thread has ended, nothing is in flight and every
\* block is back in the heap, whatever failed on the way.
CleanExit ==
    spc = "exited" =>
        /\ submissionsRunning = 0 /\ getFreeBlocksCount = Blocks
        /\ copiesPendingStart = <<>> /\ copiesPendingContinue = <<>>

\* join() returns true exactly if nothing failed since the last join(), and then every
\* file added since is complete and its destination closed.
JoinHonest ==
    [][JoinReturn =>
        /\ joined' = "ok" <=> failuresNow = 0
        /\ joined' = "ok" => \A r \in batch : left[r] = 0 /\ fd[FileOf(r)]["dst"] = "closed"]_vars

\* join() returns.
JoinReturns == (state = "AdditionComplete") ~> (state = "Idle")
=============================================================================
