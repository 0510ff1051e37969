----------------------------- MODULE CopyRunner -----------------------------
(***************************************************************************)
(* One CopyRunner: the object that copies one chunk, the half-open range   *)
(* [offset, offset + size) of a file, with a read and a write that are     *)
(* linked in the io_uring submission queue (src/src/CopyRunner.cpp).       *)
(*                                                                         *)
(* The byte at position p of the source file is represented by p itself,   *)
(* so that "the right byte at the right place" is dest[p] = p.  The kernel *)
(* and the processes that resize the source file while it is copied are    *)
(* the environment.  Opening and closing the descriptors, which chunks of  *)
(* one file share, is the business of module CopyQueue: here `opened' only *)
(* says whether ensureOpened has succeeded for both.                       *)
(***************************************************************************)
EXTENDS Integers

CONSTANTS
    StatSize,            \* stx_size, as the adding thread saw it
    Alignment,           \* stx_blksize, the O_DIRECT alignment of the runner
    BlockSize,           \* bytes in a heap block
    HeapAlignment,       \* alignment of the heap's memory
    BlockAddresses,      \* addresses Heap::getBlock can return
    UIntRange,           \* number of values of an `unsigned int' (2^32)
    FileSizes,           \* sizes other processes may give the source file
    ForcePartialReads,   \* Config::DEBUG_FORCE_PARTIAL_READS
    ForcePartialWrites,  \* Config::DEBUG_FORCE_PARTIAL_WRITES
    MaxResizes,          \* bound: resizes of the source file
    MaxShortIO           \* bound: transfers the kernel cuts short of what it could do

AlignDown(n) == (n \div Alignment) * Alignment

\* Mutant of ChunkSize: no room is left to align the data inside the block.
WholeBlock == BlockSize

\* addCopyJob: the largest aligned amount that fits a block wherever the block starts.
ChunkSize ==
    IF Alignment > HeapAlignment
    THEN ((BlockSize - (Alignment - 1)) \div Alignment) * Alignment
    ELSE BlockSize

\* The offsets addCopyJob gives to the parts of a file, and the size of each part.
ChunkOffsets == {k * ChunkSize : k \in 0..((StatSize - 1) \div ChunkSize)}
PartSize(o) == IF ChunkSize <= StatSize - o THEN ChunkSize ELSE StatSize - o

\* What the kernel, the heap and the command line guarantee about the parameters: block
\* addresses follow the heap's alignment, which a smaller alignment divides, and a chunk
\* (the code asserts that it is not empty) is a multiple of the alignment.
ASSUME SizesAssumption ==
    /\ StatSize \in Nat \ {0} /\ Alignment \in Nat \ {0} /\ HeapAlignment \in Nat \ {0}
    /\ BlockSize \in Nat /\ UIntRange \in Nat
    /\ BlockAddresses \subseteq Nat /\ FileSizes \subseteq Nat
    /\ MaxResizes \in Nat /\ MaxShortIO \in Nat
ASSUME LayoutAssumption ==
    /\ 0 < ChunkSize /\ ChunkSize < UIntRange
    /\ ChunkSize % Alignment = 0 /\ UIntRange % Alignment = 0
    /\ Alignment <= HeapAlignment => \A a \in BlockAddresses : a % Alignment = 0

\* The debug mode for partial reads is only safe on files that do not grow.
ASSUME ModesAssumption ==
    /\ ForcePartialReads \in BOOLEAN /\ ForcePartialWrites \in BOOLEAN
    /\ ForcePartialReads => \A n \in FileSizes : n <= StatSize

Junk == -1               \* a byte of a heap block that no read has filled
Hole == -2               \* a byte of the destination that no write has reached
EIO == -1                \* any failure of a request
ECANCELED == -2          \* the request was linked to one that fell short
NoOverride == UIntRange  \* the resultOverride that overrides nothing
NoBuffer == -1

VARIABLES
    offset, size,             \* the chunk
    readOffset, writeOffset,  \* how far the chunk is read and written
    buffer, bufferAligned,    \* address of the heap block, and of the aligned data in it
    jobsRunning,              \* requests in flight
    savedError,               \* why the copy failed, "none" if it has not
    readOverride,             \* eventDataBuffers[0].resultOverride
    writeOverride,            \* eventDataBuffers[1].resultOverride
    phase,                    \* where the runner is in the life the queue gives it
    opened,                   \* both descriptors have been opened
    rd, wr,                   \* the two requests of the runner, as the kernel sees them
    mem,                      \* contents of the heap block
    dest,                     \* contents of the destination file
    fileSize,                 \* the size of the source file now
    minFileSize,              \* the smallest size it has had
    resizes, shortIO          \* what the bounds count

chunkVars == <<offset, size>>
bufferVars == <<buffer, bufferAligned>>
overrideVars == <<readOverride, writeOverride>>
runnerVars == <<readOffset, writeOffset, jobsRunning, savedError, phase, opened>>
envVars == <<fileSize, minFileSize, resizes>>
vars == <<chunkVars, bufferVars, overrideVars, runnerVars, rd, wr, mem, dest, envVars, shortIO>>

End == offset + size

\* A submission queue entry and, once posted, the result in its completion.
Sqe(op, at, len, buf) ==
    [st |-> "submitted", op |-> op, at |-> at, len |-> len, buf |-> buf, res |-> 0]
NoSqe == [st |-> "idle", op |-> "none", at |-> 0, len |-> 0, buf |-> 0, res |-> 0]
Posted(sqe, result) == [sqe EXCEPT !.st = "posted", !.res = result]

Init ==
    /\ offset \in ChunkOffsets
    /\ size = PartSize(offset)
    /\ readOffset = offset /\ writeOffset = offset
    /\ buffer = NoBuffer /\ bufferAligned = NoBuffer
    /\ jobsRunning = 0
    /\ savedError = "none"
    /\ readOverride = NoOverride /\ writeOverride = NoOverride
    /\ phase = "pendingStart"
    /\ opened \in BOOLEAN         \* another chunk may have opened the files already
    /\ rd = NoSqe /\ wr = NoSqe
    /\ mem = [i \in 0..(BlockSize - 1) |-> Junk]
    /\ dest = [p \in 0..(StatSize - 1) |-> Hole]
    /\ fileSize = StatSize /\ minFileSize = StatSize
    /\ resizes = 0 /\ shortIO = 0

-----------------------------------------------------------------------------
(* Submission.                                                             *)

\* The submit thread hands over a block; the runner aligns its data inside it.
GiveBuffer(address) ==
    /\ phase = "pendingStart" /\ buffer = NoBuffer
    /\ buffer' = address
    /\ bufferAligned' = AlignDown(address - 1 + Alignment)
    /\ UNCHANGED <<chunkVars, overrideVars, runnerVars, rd, wr, mem, dest, envVars, shortIO>>

\* What is left to read.  The code keeps it in an `unsigned int'.
BytesUnread(at) == (End - at) % UIntRange

\* The byte counts submitReadWriteCommands may ask for; a debug mode asks for fewer.
ReadRequests ==
    IF ForcePartialReads /\ BytesUnread(readOffset) > 0
    THEN 1..BytesUnread(readOffset) ELSE {BytesUnread(readOffset)}
WriteRequests ==
    IF ForcePartialWrites THEN 0..(End - writeOffset) ELSE {End - writeOffset}

\* Mutant of AlignedLength: the tail of the file is read as it is.
ExactLength(n) == n

\* O_DIRECT wants whole blocks, also at the end of the file.
AlignedLength(n) ==
    IF n % Alignment # 0 THEN ((n \div Alignment + 1) * Alignment) % UIntRange ELSE n

BufferIndex(position) == bufferAligned - buffer + position - offset

Ready == phase \in {"pendingStart", "pendingContinue"} /\ buffer # NoBuffer

SubmitReadWriteCommands ==
    \E bytesToRead \in ReadRequests, bytesToWrite \in WriteRequests :
        LET readForcedPartial == bytesToRead < End - readOffset
            reads  == bytesToRead # 0
            writes == writeOffset < End
        IN  /\ rd' = IF reads
                     THEN Sqe("read", readOffset, AlignedLength(bytesToRead), BufferIndex(readOffset))
                     ELSE NoSqe
            /\ wr' = IF ~writes THEN NoSqe
                     ELSE IF readForcedPartial /\ ForcePartialReads THEN Sqe("nop", 0, 0, 0)
                     ELSE Sqe("write", writeOffset, bytesToWrite, BufferIndex(writeOffset))
            /\ jobsRunning' = jobsRunning + (IF reads THEN 1 ELSE 0) + (IF writes THEN 1 ELSE 0)
            /\ readOverride' = IF ForcePartialReads /\ reads /\ readForcedPartial
                               THEN bytesToRead ELSE readOverride
            /\ writeOverride' = IF ForcePartialReads /\ writes /\ readForcedPartial
                                THEN ECANCELED ELSE writeOverride

\* Both descriptors are, or get, opened and the requests go into the ring.
AddToBatch ==
    /\ Ready
    /\ SubmitReadWriteCommands
    /\ opened' = TRUE
    /\ phase' = "running"
    /\ UNCHANGED <<chunkVars, bufferVars, readOffset, writeOffset, savedError,
                   mem, dest, envVars, shortIO>>

\* A descriptor cannot be opened: the runner gives up without submitting anything.
AddToBatchOpenError ==
    /\ Ready /\ ~opened
    /\ phase' = "failed"
    /\ UNCHANGED <<chunkVars, bufferVars, overrideVars, readOffset, writeOffset, jobsRunning,
                   savedError, opened, rd, wr, mem, dest, envVars, shortIO>>

-----------------------------------------------------------------------------
(* The kernel.  A linked request is not started before its predecessor is  *)
(* complete, and is cancelled if that fell short of what was asked.        *)

Available(sqe) ==
    LET left == IF fileSize > sqe.at THEN fileSize - sqe.at ELSE 0
    IN  IF left < sqe.len THEN left ELSE sqe.len

KernelRead ==
    /\ rd.st = "submitted"
    /\ \E n \in {EIO} \cup (IF Available(rd) = 0 THEN {0} ELSE 1..Available(rd)) :
        /\ n \in 1..(Available(rd) - 1) => shortIO < MaxShortIO
        /\ shortIO' = IF n \in 1..(Available(rd) - 1) THEN shortIO + 1 ELSE shortIO
        /\ mem' = [i \in DOMAIN mem |-> IF i \in rd.buf..(rd.buf + n - 1)
                                        THEN rd.at + i - rd.buf ELSE mem[i]]
        /\ rd' = Posted(rd, n)
        /\ wr' = IF n # rd.len /\ wr.st = "submitted" THEN Posted(wr, ECANCELED) ELSE wr
    /\ UNCHANGED <<chunkVars, bufferVars, overrideVars, runnerVars, dest, envVars>>

KernelWrite ==
    /\ wr.st = "submitted" /\ rd.st # "submitted"
    /\ \E n \in IF wr.len = 0 THEN {0} ELSE {EIO} \cup 1..wr.len :
        /\ n \in 1..(wr.len - 1) => shortIO < MaxShortIO
        /\ shortIO' = IF n \in 1..(wr.len - 1) THEN shortIO + 1 ELSE shortIO
        /\ dest' = [p \in DOMAIN dest |-> IF p \in wr.at..(wr.at + n - 1)
                                          THEN mem[wr.buf + p - wr.at] ELSE dest[p]]
        /\ wr' = Posted(wr, n)
    /\ UNCHANGED <<chunkVars, bufferVars, overrideVars, runnerVars, rd, mem, envVars>>

\* Another process truncates or extends the source file.
ResizeSource(n) ==
    /\ phase \notin {"finished", "failed"}
    /\ resizes < MaxResizes /\ n # fileSize
    /\ fileSize' = n
    /\ minFileSize' = IF n < minFileSize THEN n ELSE minFileSize
    /\ resizes' = resizes + 1
    /\ UNCHANGED <<chunkVars, bufferVars, overrideVars, runnerVars, rd, wr, mem, dest, shortIO>>

-----------------------------------------------------------------------------
(* Completion.                                                             *)

\* Mutant of Spoofed: the override wins also over a shorter transfer.
AlwaysSpoofed(result, override) ==
    IF ForcePartialReads /\ override # NoOverride /\ result >= 0 THEN override ELSE result

\* A forced partial read spoofs an error or a shorter transfer, never a longer one.
Spoofed(result, override) ==
    IF /\ ForcePartialReads /\ override # NoOverride /\ result >= 0
       /\ override < 0 \/ override <= result
    THEN override ELSE result

\* Mutants of ReadOffsetAfter: resume at the next aligned offset instead of the last, or
\* step back also at the end.
AlwaysStepBack(result) == AlignDown(readOffset + result)
ResumeAfterGap(result) ==
    IF BytesUnread(readOffset + result) # 0
    THEN AlignDown(readOffset + result + Alignment - 1) ELSE readOffset + result

\* After a read that does not reach the end, go back to the last aligned offset.
ReadOffsetAfter(result) ==
    IF BytesUnread(readOffset + result) # 0
    THEN AlignDown(readOffset + result) ELSE readOffset + result

\* Mutant of RunnerResult: the runner does not wait for its other request.
Impatient(jobs, error, written) ==
    IF error # "none" THEN "failed"
    ELSE IF written = End THEN "finished" ELSE "pendingContinue"

\* What onCompletionEvent tells the queue once no request is in flight.
RunnerResult(jobs, error, written) ==
    IF jobs # 0 THEN "running"
    ELSE IF error # "none" THEN "failed"
    ELSE IF written = End THEN "finished" ELSE "pendingContinue"

OnReadEvent ==
    LET result == Spoofed(rd.res, readOverride)
        handled == savedError = "none"
    IN  /\ rd.st = "posted"
        /\ rd' = NoSqe
        /\ jobsRunning' = jobsRunning - 1
        /\ savedError' = IF ~handled THEN savedError
                         ELSE IF result = 0 THEN "shrank"
                         ELSE IF result < 0 THEN "read" ELSE "none"
        /\ readOffset' = IF handled /\ result >= 0 THEN ReadOffsetAfter(result) ELSE readOffset
        /\ readOverride' = IF handled THEN NoOverride ELSE readOverride
        /\ phase' = RunnerResult(jobsRunning', savedError', writeOffset)
        /\ UNCHANGED <<chunkVars, bufferVars, writeOffset, opened, writeOverride,
                       wr, mem, dest, envVars, shortIO>>

\* Completions are seen in the order they were posted, the linked write last.
OnWriteEvent ==
    LET result == Spoofed(wr.res, writeOverride)
        handled == savedError = "none"
    IN  /\ wr.st = "posted" /\ rd.st = "idle"
        /\ wr' = NoSqe
        /\ jobsRunning' = jobsRunning - 1
        /\ savedError' = IF handled /\ result < 0 /\ result # ECANCELED THEN "write" ELSE savedError
        /\ writeOffset' = IF handled /\ result >= 0 THEN writeOffset + result ELSE writeOffset
        /\ writeOverride' = IF handled THEN NoOverride ELSE writeOverride
        /\ phase' = RunnerResult(jobsRunning', savedError', writeOffset')
        /\ UNCHANGED <<chunkVars, bufferVars, readOffset, opened, readOverride,
                       rd, mem, dest, envVars, shortIO>>

\* The queue has deleted the runner.
Terminated == phase \in {"finished", "failed"} /\ UNCHANGED vars

Next ==
    \/ \E address \in BlockAddresses : GiveBuffer(address)
    \/ AddToBatch
    \/ AddToBatchOpenError
    \/ KernelRead
    \/ KernelWrite
    \/ \E n \in FileSizes : ResizeSource(n)
    \/ OnReadEvent
    \/ OnWriteEvent
    \/ Terminated

\* The submit thread never stops while a runner is alive and the kernel completes
\* what was submitted; nobody else has to resize the file.
Fairness ==
    /\ WF_vars(\E address \in BlockAddresses : GiveBuffer(address))
    /\ WF_vars(AddToBatch)
    /\ WF_vars(KernelRead) /\ WF_vars(KernelWrite)
    /\ WF_vars(OnReadEvent) /\ WF_vars(OnWriteEvent)

Spec == Init /\ [][Next]_vars
FairSpec == Spec /\ Fairness

-----------------------------------------------------------------------------
(* Properties.                                                             *)

Sqes(ops) ==
    [st: {"idle", "submitted", "posted"}, op: ops \cup {"none"},
     at: Nat, len: Nat, buf: Int, res: Int]

\* Every variable has its type.
TypeOK ==
    /\ offset \in Nat /\ size \in Nat
    /\ readOffset \in Nat /\ writeOffset \in Nat
    /\ buffer \in BlockAddresses \cup {NoBuffer} /\ bufferAligned \in Int
    /\ jobsRunning \in 0..2
    /\ savedError \in {"none", "shrank", "read", "write"}
    /\ readOverride \in Int /\ writeOverride \in Int
    /\ phase \in {"pendingStart", "running", "pendingContinue", "finished", "failed"}
    /\ opened \in BOOLEAN
    /\ rd \in Sqes({"read"}) /\ wr \in Sqes({"write", "nop"})
    /\ mem \in [0..(BlockSize - 1) -> Int]
    /\ dest \in [0..(StatSize - 1) -> Int]
    /\ fileSize \in Nat /\ minFileSize \in Nat
    /\ resizes \in Nat /\ shortIO \in Nat

\* Whatever was read short, written short, cancelled, retried or spoofed, every byte the
\* runner has counted as written (writeOffset, totalBytesCopied) is the source's byte.
CopiedBytesAreRight == \A p \in offset..(writeOffset - 1) : dest[p] = p

\* No write ever puts anything but the source's byte into the destination, and none
\* leaves the runner's own chunk: a write that was queued behind a read that fell short
\* never sends unread memory of the block to the file.
OnlyRightBytesWritten ==
    \A p \in DOMAIN dest : dest[p] # Hole => dest[p] = p /\ p \in offset..(End - 1)

\* The kernel is never given a range outside the heap block, although reads are rounded
\* up to whole blocks and the block itself may have to be aligned first.
BufferInBounds ==
    /\ rd.st = "submitted" => rd.buf >= 0 /\ rd.buf + rd.len <= BlockSize
    /\ wr.st = "submitted" => wr.buf >= 0 /\ wr.buf + wr.len <= BlockSize

\* O_DIRECT: file offset, length and memory address of every read are aligned, also when
\* a read resumes where an earlier one was cut short.
ReadsAligned ==
    rd.st = "submitted" =>
        /\ rd.at % Alignment = 0 /\ rd.len % Alignment = 0
        /\ (buffer + rd.buf) % Alignment = 0

\* A runner waits for its turn, or gives its block back to the heap, only when the kernel
\* holds no request that could still touch the block (release_assert(jobsRunning == 0)
\* in submitReadWriteCommands and in the destructor).
QuietOutsideBatch ==
    phase # "running" => jobsRunning = 0 /\ rd.st = "idle" /\ wr.st = "idle"

\* Every runner is eventually done, finished or failed.
RunnerTerminates == <>(phase \in {"finished", "failed"})

\* The comment on the result 0 of a read: "This will happen if the file is truncated by
\* another process."  A runner that reports a shrunken file saw one, unless the file grew:
\* then the rounded-up read passes the end and bytesToRead wraps.
ShrankOnlyIfTruncated == savedError = "shrank" => minFileSize < End

\* The runner as the queue sees it.
Service == INSTANCE RunnerService WITH
    phase <- IF phase \in {"pendingStart", "pendingContinue"} THEN "waiting" ELSE phase,
    readDone <- readOffset = End,
    left <- End - writeOffset,
    jobs <- jobsRunning,
    broken <- savedError # "none"

\* A runner keeps what the queue relies on, in whatever way its transfers fall short, fail, are
\* cancelled or spoofed, and the file is resized: it never takes a turn without a request and
\* never ends one before its last request is seen, it reads first and writes last, and it is
\* finished exactly when every byte of its chunk has been counted, and failed only by an error.
RefinesRunnerService == Service!Spec
=============================================================================
