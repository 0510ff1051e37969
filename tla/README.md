# A TLA+ model of wcp

`wcp` copies files and directory trees through io_uring. Everything that
decides whether a copy is right happens in a few hundred lines of C++ that run
on three threads against an asynchronous kernel interface: which requests are
queued, what is done with results that fall short, who opens and closes the
descriptors that the chunks of a file share, and who notices that nothing is
left to do. This directory models that part in TLA+, together with the directory
walk that feeds it, the estimate shown meanwhile and the rings of liburing that
carry it; it model-checks all of them with TLC and proves, with TLAPS, every
safety property of the passing runs for every size of every parameter.

Source lines are quoted as `file:line` relative to `src/src/`; `PROJECT.json`
maps every definition to the lines it stands for.

## 1. The system

| Component | State | Operations | Modelled in |
|---|---|---|---|
| `CopyRunner` (one chunk of one file) | chunk, `readOffset`, `writeOffset`, buffer, `jobsRunning`, `savedError`, two result overrides | `giveBuffer`, `addToBatch`, `onCompletionEvent`, `handleFileClose`, destructor | `CopyRunner`, `CopyQueue` |
| `CopyQueue` (adding, submit loop) | pending deques, counters, `errored`, `state`, ring | `addCopyJob`, `addCopyJobPart`, `start`, `submitLoop`, `join` | `CopyQueue`, `Completion` |
| Progress thread | error messages, end mutex | `showProgressLoop`, `exitProcess` | `Completion`, `Eta` |
| `QueueFileDescriptor` | the descriptor, the shared count of used descriptors | reserve at low or high priority, `ensureOpened`, `notifyClosed` | `CopyQueue` |
| `Heap` | used flags of the blocks | `getBlock`, `returnBlock` | `CopyQueue` |
| Directory walk | directory stack, buffer of entries, one descriptor | `addRecursiveCopy` | `Walk` |
| System call wrappers | `errno` | `retrySyscall`, `myOpen`, `myGetDents`, `recursiveMkdir`, ... | `Walk`, `CopyQueue` |
| `ETACalculator` | remaining counts, packed bitset, speed buckets | `onCopyAdded`, `onCopyCompleted`, `updateSpeedEstimate`, `getEta` | `Eta` |
| Command line | none | `wcpMain` | `WcpMain`, `Completion` |
| liburing | the user's half of the two rings, the mappings | set-up, exit, get, submit, peek, wait, seen | `Ring` |
| kernel, file system | external | | in `CopyRunner`, `CopyQueue`, `Ring` and `Walk`, as used |

How they interact. The main thread walks the source, creates for each file two
`QueueFileDescriptor`s (which try to open at once, at low priority) and one
`CopyRunner` per chunk, and appends the runners to `copiesPendingStart`. The
submit thread takes runners, gives each a heap block, opens what is not open
yet (at high priority), queues a read and a linked write for it, submits, and
handles completions: a runner is finished, failed, or rescheduled. The chunks of
a file share its descriptors and a counter, and the chunk that sees the counter
at 1 closes. The progress thread reads the counters, shows error messages
the other threads leave for it, and, like the submit thread, may end the process
when it finds that nothing is left.

What is hard here: a write that is queued before the read it depends on has
returned; transfers that fall short, with `O_DIRECT` demanding aligned retries;
source files that other processes resize; chunks of one file ending in any
order; two threads reserving descriptors from one counter without locks, one of
which would wait for itself if it ran out; errors on one path among several that
must each give back the same things; three threads that find out independently
that the work is done; counters that one thread reads twice while another
changes them; system calls that are repeated after they have had their effect;
ring indexes that wrap and a kernel that takes or returns only part of what it
should. `hazards` in `PROJECT.json` lists these at their lines.

## 2. Modules

* `CopyRunner` - one runner and its bytes; `RunnerService` - what a runner promises
  to the queue that owns it. `CopyRunner` is shown to implement `RunnerService`, and
  so is every runner of `CopyQueue`.
* `CopyQueue` - main thread, submit thread and kernel; descriptors, chunk
  counter, ring, heap, sessions.
* `MCCopyQueue` - the files for TLC: `big` (two chunks), `small` (one), `empty`.
* `Completion` - how three threads agree that a session is over.
* `Walk` - the directory walk over the system call wrappers.
* `WcpMain` - the program around it: `EXTENDS Walk`, adds the command line, and of
  the queue's two threads how they retire runners and end the process. `MCWcpMain` - the trees for TLC.
* `Eta` - the estimate, between three threads. `MCEta` - the copies for TLC.
* `Ring` - liburing's rings over the kernel; `RingService` - what a ring promises
  to its user. `Ring` is shown to implement `RingService`.
* `CopyRunnerProofs`, `CompletionProofs`, `WcpMainProofs`, `EtaProofs`,
  `RingProofs` - the theorems about these modules. Those about `CopyQueue` are in
  three modules, each extending the one before: `CopyQueueProofs` (types, places,
  ring, descriptor cap), `CopyQueueResourceProofs` (descriptors, chunk counter,
  heap) and `CopyQueueResultProofs` (what the caller is told).

The modules look at the same program at several levels of detail. `CopyRunner`
has bytes and one runner; `CopyQueue` has all runners, each reduced to "has its
chunk been read, how much is left to write"; `Completion` has runners that are
only pending or retired, but splits every step at each access to a member that
another thread uses, as `Eta` does for the counters behind the progress bar.
`WcpMain` has the main thread with the whole walk, and of the other two threads what
decides the exit code: in which order an error is recorded and a runner deleted. `CopyQueue` and `CopyRunner` see the ring as `RingService` describes it.
`RunnerService` joins the first two levels: the runner with bytes and the runners
of the queue implement the same small machine, so that nothing the queue assumes
of a runner is missing from the code of the runner.

Some definitions have a small neighbour marked as a mutant: the same definition
with a plausible bug. Nothing uses them; each property is known to fail when the
right one takes the place of its original.

### CopyRunner

A byte of the source is represented by its position, so correct means
`dest[p] = p`. `AddToBatch` is `addToBatch` with the whole of
`submitReadWriteCommands`: the size of the read in an `unsigned int` that wraps
(`% UIntRange`), rounded up to the alignment, the write behind it, and in the
debug modes the forced sizes, the no-op in place of the write and the result
overrides. `KernelRead` and `KernelWrite` are the external side: a read returns
any positive number of bytes up to what the file has, a write any positive
number up to what was asked; either can fail; a write linked to a read that did
not return its full length is cancelled (`io_uring_enter.2:779-793`).
`OnReadEvent` and `OnWriteEvent` are `onCompletionEvent` including what it
returns; `RunnerResult` is that return value. `ResizeSource` is another process.
`opened` in `Init` is arbitrary because another chunk may have opened the files.

`RunnerService` has five variables: the phase of the runner (the two pending
phases are one), whether it has read its chunk (`readOffset` at the end), the bytes
left to write, the requests in flight and whether an error is saved. A turn starts
with a read and a write, or only a write once the chunk is read; the read is seen
first; the write ends the turn.

### CopyQueue

Main thread: `AddCopyJob` starts a file, `LowPriorityLoad` and `LowPriorityOpen`
are the two halves of `reserveFileDescriptor` (the load and the
compare-and-swap, between which the submit thread may act) with `doOpen`,
`AddCopyJobPartTotal` and `AddCopyJobPartPush` the two steps of
`addCopyJobPart` another thread can tell apart. `Start`, `Join` and
`JoinReturn` are `start()` and the two ends of `join()`.

Submit thread: `spc` is where it is in `submitLoop`. `StopAdding`/`TakeBlock`
decide whether to go on adding (`CopyQueue.cpp:86-94`), `Pick*` choose a runner
(96-129), `HighPriority*` are `ensureOpened`, `FinishEmptyFile` is the path for
empty files (133-146), `AddToBatch` queues the requests, `Submit` is
`io_uring_submit`, which may take only the first chains, and the `On...Event...`
actions handle a completion to the end: `onCompletionEvent`, close, `onError`,
destructor, `io_uring_cqe_seen`. `NextRound` and `SubmitExit` close the loop.
Reading three members for `waitForDirectoryIteration` is one step: a stale
value only delays one round.

Kernel: a read can reach the end of the chunk with its full length (`"full"`) or,
where that was rounded up, with less (`"last"`), stop before it (`"short"`), fail, or,
in a file that has grown, pass it with its full length (`"over"`). The write behind
it runs after a full length only. After `"over"` the offset is not equal to the end,
so a runner whose write falls short then reads again.

Faithful details that matter: a failed open keeps its reservation
(`QueueFileDescriptor.cpp:65-69`); an error closes the descriptors when it is
saved, and only if the counter is 1 then; a failed `addToBatch` ends the adding
for this round; an empty file takes no block but needs one at hand to be picked.

The heap is the list of its flags (`usedList`): `GetBlock` takes the first free
block, `ReturnBlock` clears the flag of the block a runner holds.

Left out: `totalBytesFailed`, which is written and never read, and the calls of
the ETA calculator, which `Eta` has and nothing else depends on. `keepAliveCount` and
`copiesPendingStartCount` are the sizes of the sets they count: the deque and
its count change under one mutex.

### Completion

One action per access to a shared member. `Retirement` lists the orders in which
the submit thread reports an error and deletes the runner; they differ between
the paths. `IsDoneLoad` are the two loads of `isDone()`. The progress thread
waits for `progressEndMutex`, which `join()` holds from `start()` on and unlocks
to wake it; the wait can time out at any time. `_exit` (`SubmitEnd`,
`ProgressEnd`) stops all threads at once. Files can be added before `start()` as
well as after it (`CopyQueue.cpp:796`), and `start()` writes `showingProgress`, a plain
`bool`, after it has created the submit thread (`Start`, `StartProgress`): a runner
added early can be retired in between, when that thread still sees the old value.
Whether stderr is a terminal does not change while the process runs.

### Walk and WcpMain

A path is a sequence of names, and the destination of a path is the same path
below another root. `TrySyscall` is one turn of the loop in `retrySyscall` for
the call in hand: interrupted, failed, or done, `errno` being cleared only before
the first turn, so that an interrupted call is made again after it has succeeded,
with its effect (`Effect`: entries taken from the directory, a link made).
`TryOpen` is the loop of `myOpen`, which goes by the descriptor instead. The
`Return...` actions are what `addRecursiveCopy` does with the result, `Entry...`
the four kinds of entries, an entry of unknown type being looked up first
(`StatEntry`), with a `statx` that follows links. `NextBatch` is the condition of
the inner loop, which after a failed `getdents64` still sees the length of the
call before. `WcpMain` has one action per system call of `wcpMain` and one per
way on. `release_assert` is `Abort`.

Any of three threads can end the program. `JoinAction` is the choice of
`wcpMain.cpp:157`: with `ExitProcessNoCleanup` the submit thread (`SubmitEnd`) or, if
there is a progress bar, the progress thread (`ProgressEnd`) calls `_exit` with the
value of `errored` at that moment; otherwise `join()` waits for both and `wcpMain`
returns (`JoinReturn`). `Retire`, `DeleteRunner` and `OnError` are the submit
thread's end of a copy, in the order of `Retirement`: the error first, then the
deletion, but the other way round for a file that cannot be opened. `isDone()` is
one step here and two loads in `Completion`.

`EarlyReturn` runs the queue's destructor while its threads live. Until `main` has
returned (`Leave`) they use an object in a stack frame that is gone, which is
undefined: `UseDestroyedQueue` lets the process crash or exit with any code.

### Eta

`CountBytes`, `OnCopyAdded` and `PushCopy` are the main thread's three steps,
`FinishWrite`, `AddToBuff` and `OnCopyCompleted` the submit thread's;
`DeleteUnfinished` ends failed and empty copies, which the calculator is not told
of. `showProgress` loads the state, two totals, the bitset, and the counters of
remaining copies one by one (`Load...`, `Check...`, `Load`), the three of the
quotient in any order, as C++ allows. A speed is left out; a bucket is known by
its samples and an estimate by its buckets. Only the submit thread writes the
bitset, so its compare-and-swap never fails and is one step.

### Ring and RingService

The state is that of `struct io_uring`: the library's `sqe_head` and `sqe_tail`,
the indexes and arrays it shares with the kernel, the mappings. All indexes are
taken modulo `Modulus`. The set-up is one action per system call with its
failure path; then the thread goes round like `submitLoop`: it prepares entries
(`GetSqe`), submits if it has prepared any (`FlushSq` and `Enter`, which takes any
positive number of the entries, or fails and is called again) and otherwise does not
(`SkipSubmit`), and looks at completions (`PeekCqe`, `FlushOverflow`, `CqeSeen`).
`PeekBatchCqe` and `WaitCqe` are two more functions of the library, which the program
does not call; they are there because `RingService` is about any use of a ring.
`Complete` is the kernel, which posts a completion or, without room,
keeps it in its overflow list.

`RingService` has a queue of prepared requests, the running ones, a queue of
finished ones and those at its head that the user looks at. The mapping takes
`queued` from the two index ranges of the submission queue (told to the kernel,
and only prepared) and `done` from the completion ring followed by the overflow
list.

## 3. Runs

| Run | Result | States | What it shows |
|---|---|---|---|
| `CopyRunner` | pass | 10 300 | right bytes, block bounds, alignment, no request left behind; the runner implements `RunnerService` and ends |
| `CopyRunner_forced` | pass | 10 364 | right bytes with both debug modes and truncation to any size, and no false report of a shrunken file |
| `CopyRunner_truncated` | violation | | a source truncated to an unaligned size: the runner never ends |
| `CopyQueue` | pass | 3 226 815 | descriptors, counters, ring, heap and the result of `join()`, with every failure, over two sessions |
| `CopyQueue_live` | pass | 658 548 | `join()` returns, no descriptor leaks and no update of the counter is lost while writes and closes fail |
| `CopyQueue_starved` | violation | | with the smallest cap a failed open makes `join()` hang |
| `Completion` | pass | 22 534 | nothing lost, exit code, messages, and the session ends |
| `Completion_lateerror` | violation | | exit code 0 although a file could not be opened |
| `Ring` | pass | 107 141 | the rings implement `RingService`, leak nothing and return every request the kernel took |
| `WcpMain` | pass | 968 604 | every entry is added once or reported, in directories that exist; the program ends, and exit code 0 is right but in two named cases |
| `Eta` | pass | 3 615 633 | counters, bitset and estimate agree with the copies while three threads use them |
| `Eta_lastcopy` | violation | | the last copy completes while the estimate is made: the index of a bucket is 0/0 |

### Properties

`CopyRunner`: `CopiedBytesAreRight` (what is counted as written is right),
`OnlyRightBytesWritten` (nothing else is ever written), `BufferInBounds`,
`ReadsAligned` (`O_DIRECT`), `QuietOutsideBatch` (no request is in flight on a
block that is given back), `RefinesRunnerService` (a refinement), `RunnerTerminates`,
`ShrankOnlyIfTruncated` (only a
truncated file is reported as shrunken; this needs a source that does not grow,
as in `CopyRunner_forced`).

`CopyQueue`: `FdBudget` (never more files open than counted, never more counted
than the cap), `SubmitNeverStarved` (the spinning `ensureOpened` never waits for
itself), `FilesOpenWhileCopied`, `ChunksCounted`, `NoDescriptorLeak`,
`RingRoom`, `CopiedWithinTotal`, `BlocksNotShared` (a block has one owner),
`CleanExit` (the asserts in `join()` and in the heap's destructor),
`JoinHonest` (an action property of `JoinReturn`), `JoinReturns`.

`Completion`: `NothingLost`, `ExitHonest`, `AllErrorsShown`, `SessionEnds`.

`WcpMain`: `ExitZeroHonest` (with exit code 0, whichever thread set it, everything in
the source was found and copied), `AddedOnce`, `DirectoriesFirst`, `ProgramEnds`.
`ExitZeroHonest` names two exceptions, which are what the code does: after an early
return nothing is promised; and if the progress thread ends the process, the one copy
the submit thread is retiring may have failed to open without its error being
recorded (run `Completion_lateerror`).

`Eta`: `RemainingCovers` (the counters neither wrap nor miss a copy),
`BitsetExact` (the packed word against the history of copies),
`ShownConsistent` (the order of the loads keeps `toCopy - copied` from
wrapping), `ZeroMeansDone`, `NearestBuckets` (the search against its definition),
`IndexInBounds`.

`Ring`: `NothingLeaked`, `RefinesService` (a refinement, which includes that the
kernel never writes over a completion in use), `EveryRequestReturns` (what the kernel
took comes back, over the overflow list too; what a partial submission left over is
taken if the thread submits again and again).

`CopyQueue` and `Completion` check their `TypeOK`; that of `CopyRunner` is proved.

### Bounds

`CopyRunner`: an 11-byte file, alignment 4, blocks of 12 bytes at addresses 4
and 6, heap alignment 2. Since 4 > 2 the chunk shrinks to 8 bytes, so the file
has an aligned chunk and one of 3 bytes with an unaligned end, and one of the two
block addresses needs padding. `UIntRange` is 16: large enough for every honest
value, small enough that a wrapped one is rounded to something wrong. Sizes 4 and
8 are aligned truncations, 5 an unaligned one, 13 a growth. Two resizes and two
short transfers (one each in the forced mode, which makes its own) reach every
combination of a short read, a short write and a retry of each. The proofs
remove all of these bounds.

`CopyQueue`: two or three files, the largest with two chunks, because every
conflict over the shared counter is between "the last" and "not the last".
`Cap` is 4 to 6, the minimum and just above it, where descriptors are scarce;
with three files and `Cap = 5` the adding thread reserves while the submit
thread opens. `RingSize = 4` holds two runners and three blocks allow three, so
that the rate limit matters. `ChunkBytes = 8` makes a chunk count against the
threshold of an eighth in `waitForDirectoryIteration`. One failure, one short
transfer, one split submission and two sessions per behaviour.

`Completion`: two runners, so that one can be retired while the other is added,
and two sessions: `join()` resets the queue so that it can be started again, which
`wcpMain` itself does not do (`CopyQueue.cpp:40` speaks of a queue used for one
operation as one of the ways to use it).

`WcpMain`: three trees, each chosen for a case: a file, a directory with a file
of unknown type and a dangling link; a link of unknown type to the root, which the
walk follows until the path has too many links (`MaxSymlinks = 2` stands for the
kernel's 40); a pipe. Batches of two entries make every directory take several
calls. Two failures and two interruptions: the second one can hit the repetition
of the first call or the call after it.

`Eta`: two big copies, two small ones of which one has exactly `BIG_FILE_SIZE`
bytes, an empty one. Three bits in the set and two in the mask (the code has 56
and 8): with up to four completed copies bits are shifted out of both. Thresholds
of 1 and 0 samples instead of 20 and 1, so that three redraws reach both.

`Ring`: two entries, two completions and three requests, so that both queues fill
up and the second overflows; the kernel makes the completion queue twice as
large by default, which would need more requests for the same case. Indexes wrap
after 4, twice the size of the ring. One failing system call, at any place.

### Fairness

Every thread keeps running (weak fairness of its steps; both loops of the submit
thread spin and never block), and the kernel completes what it was given. Adding
files, calling `start()` or `join()`, resizing and failing is never required.
`CopyQueue` needs one weak fairness condition per actor. In `Completion` the
submit loop alternates between handling completions and asking `isDone()`;
retiring gets strong fairness because each question disables it for a moment.

In `WcpMain` the three threads keep running; system calls may fail or
be interrupted a bounded number of times. That bound is needed: a directory on
which `getdents64` fails for ever keeps the walk in its loop (`CopyQueue.cpp:618`).
In `Ring` the user goes round its loop, prepares nothing it does not want to and
never has to close, and the kernel finishes every request. A round submits only if it
has prepared something (`CopyQueue.cpp:165`), so the fairness is that of `FlushSq` or
`SkipSubmit`; entries left over by a partial submission are promised to be taken only
under the condition, part of `EveryRequestReturns`, that submitting goes on. `Eta` states no
fairness and has no liveness property.

Deadlock is checked in every run but those of `Eta`; `Terminated` and `Ended` are
the only places where a behaviour may stop. In `Eta` the threads stop when the
copies and the redraws are used up.

## 4. What is proved

Each theorem says that a property, most of them checked by a run of section 3 on
a small instance, holds in every behaviour for every value of the constants that
satisfies the `ASSUME`s of the module. The bounds (`MaxResizes`, `MaxFailures`,
`MaxSessions` and so on) are constants too, so "any number of failures" is
included. TLC evaluates the assumptions in every run.

| Module | Theorem | Property |
|---|---|---|
| `CopyRunnerProofs` | `CopyCorrect` | `CopiedBytesAreRight` |
| | `WritesCorrect` | `OnlyRightBytesWritten` |
| | `BufferSafe` | `BufferInBounds` |
| | `ReadsAreAligned` | `ReadsAligned` |
| | `QuietOutside` | `QuietOutsideBatch` |
| | `ShrankIsTrue` (if no file grows) | `ShrankOnlyIfTruncated` |
| | `RunnerRefinesService` | `RefinesRunnerService` (refinement) |
| | `TypeCorrect` | `TypeOK` |
| `CopyQueueProofs` | `CapRespected` | `FdBudget` |
| | `RingNeverFull` | `RingRoom` |
| `CopyQueueResourceProofs` | `ChunksCountedRight` | `ChunksCounted` |
| | `OpenWhileCopied` | `FilesOpenWhileCopied` |
| | `NeverStarved` | `SubmitNeverStarved` |
| | `BlocksExclusive` | `BlocksNotShared` |
| | `ExitIsClean` | `CleanExit` |
| `CopyQueueResultProofs` | `JoinReportsHonestly` | `JoinHonest` (action property) |
| | `NothingLeftOpen` (if `NoLeakingFault`) | `NoDescriptorLeak` |
| | `ProgressWithinTotal` | `CopiedWithinTotal` |
| | `RunnersKeepService` | each runner implements `RunnerService` (refinement) |
| | `TypeCorrect` | `TypeOK` |
| `CompletionProofs` | `NoRunnerLost` | `NothingLost` |
| | `ExitCodeHonest` (if `ErrorsInTime`) | `ExitHonest` |
| | `MessagesShown` (if `MessagesInTime`) | `AllErrorsShown` |
| | `TypeCorrect` | `TypeOK` |
| `RingProofs` | `SetupLeaksNothing` | `NothingLeaked` |
| | `RingRefinesService` | `RefinesService` (refinement) |
| `WcpMainProofs` | `ExitZeroMeansCopied` | `ExitZeroHonest` |
| | `FilesAddedOnce` | `AddedOnce` |
| | `MkdirComesFirst` | `DirectoriesFirst` |
| `EtaProofs` | `RemainingNeverWraps` | `RemainingCovers` |
| | `ShownNeverExceeds` | `ShownConsistent` |
| | `ZeroIsTheEnd` | `ZeroMeansDone` |
| | `BitsetStaysExact` | `BitsetExact` |
| | `EstimateIsNearest` | `NearestBuckets` |

None of the properties is inductive, apart from a few parts. What follows is, per
module, the assumptions, the inductive invariant and why it is needed. Each
action has a lemma, or a step of a lemma, per part of the invariant that it can
disturb.

### CopyRunner

Assumptions: the sizes are positive; block addresses follow the heap's alignment,
which a smaller required alignment divides; a chunk is not empty (the code
asserts it), is a multiple of the alignment and fits an `unsigned int`; in the
debug mode for partial reads files do not grow. The last one is there because
that mode picks the size of a read at random up to `bytesToRead`, which wraps once
a read has passed the end.

`IInv` adds to the properties:

* `ChunkInv`, `BufferInv`: chunks start aligned, and the padding plus a whole
  chunk fits the block (`BufferFits`: the arithmetic of `addCopyJob` and
  `giveBuffer` taken together);
* `OffsetInv`: both offsets stay in the chunk, the read offset up to less than
  one alignment behind it; the read offset is aligned unless it is at the end; and
  once a byte is written the whole chunk has been read. This last part is the
  link between the two requests: a write is only started by a complete read;
* `PhaseInv`: which requests exist in which phase, and when the overrides are
  clear;
* `ReadInv`, `WriteInv`: what the requests in flight say agrees with the offsets
  when their results come in, and a write that was not cancelled has its whole
  chunk in the block (`ReadDone`);
* `DataInv`: the block holds the bytes up to `readOffset`, also after it has
  stepped back to an aligned position.

The arithmetic of rounding and of the unsigned subtraction is in lemmas of its
own (`AlignedGap`, `AlignDownFacts`, `RoundUp`, `ReadLength`,
`ReadOffsetAfterFacts`). `Inductive` combines them.

`ShrankIsTrue` has the hypothesis `FilesNeverGrow`; section 5 says what happens
otherwise. `TruncInv` is its invariant: a read is submitted only before the end of
the chunk and never asks for nothing, so a result of 0 means that the file ends
before the chunk.

`RunnerRefinesService` uses `IInv` in three places. A turn without a read starts
only at the end of the chunk, so `readDone` says how many requests there are
(`SubmitRefines`). The service knows one order of completions, which `PhaseInv` and
`ReadInv` provide. And a write that is counted leaves between nothing and all of the
rest: that the write offset never passes the end is `OffsetInv` and `WriteInv`
together. Resizing the file and the kernel's own steps are invisible
(`HiddenSteps`).

### CopyQueue

Assumptions: finitely many files, at least one block, a ring for two requests, and
a cap of at least `minimumFileDescriptorCap()` (`CopyQueue.hpp:35`).

* `CapRespected` needs `BudgetInv`: both threads compare a value they loaded
  earlier with their limit, and the compare-and-swap makes that value current.
* `CoreInv` is where everything is. A runner is in exactly one of the two deques,
  the hands of the submit thread, or the ring (`PlacesInv`), its `jobsRunning`
  counts its requests, and what has been pushed is not pushed again. A request is
  in exactly one of submission queue, kernel and completion queue (`RingInv`), and
  a read always has its write behind it, which keeps a runner in the ring until
  both completions have been handled. `RoomInv` counts the requests with
  `submissionsRunning`: cardinalities of sets that each step changes by one.
* `ChunksCountedRight`: the counter of a file is a cardinality of runners alive
  and to come. With it `FilesInv` shows that a descriptor is closed only on behalf
  of the last runner.
* `NeverStarved`: a runner whose files are not open is picked only with two
  descriptors to spare; the limit for low priority leaves two to the submit thread,
  which opens for no other runner meanwhile. A runner that continues has both open
  (`OpenedInv`).
* `BlockInv`: a used block belongs to one runner or is the next one at hand, and
  a runner has one from its first turn on. `ExitInv`: the submit thread ends only
  with nothing alive, and a block at hand is returned.
* `JoinReportsHonestly` needs all of this and `HonestInv`: a failure is recorded in
  `errored`, or is with a runner or in a completion that will record it; without
  one, what is done is complete and closed with the last chunk.
* `NothingLeftOpen` has the hypothesis `NoLeakingFault`, no failing read and no
  empty file that fails to open: these two do leak (section 5). Writes and closes
  may fail at any time, and so may opens of files with something in them.
* `ProgressWithinTotal`: the two totals are sums over files; `BytesInv` states
  them as cardinalities of sets of bytes with a name each, one set in the other.
* `RunnersKeepService` maps one runner `r` of a file that is not empty (an empty file
  has a runner that is never submitted): it is `"running"` while it has requests,
  `"waiting"` while it is alive or still to be pushed, and after that finished or
  failed, depending on what is left. `UnfinishedInv` is the part this needs besides
  the invariants above: a live runner always has something left to write, so a runner
  is deleted as finished exactly when nothing is. The theorem is about all other
  actions too: what the two threads, the kernel and the other runners do is invisible
  to `r` (`SameRunner`).

### Completion

Assumption: finitely many runners. `LifeInv` has where the threads can be relative
to each other (`ControlInv`), that `keepAliveCount` counts the runners that are
not deleted (`CountInv`), and what a thread knows between and after the two loads
of `isDone()` (`DoneInv`): once the state is `AdditionComplete` the count only
falls, so the order of the loads is right. `NoRunnerLost` follows.

For the exit code an error must be recorded before the runner is deleted, which
the path of a failed open does not do. `ErrorsInTime` is exactly the complement of
that: no failed opens, or no `Exit`, or no progress thread. Run
`Completion_lateerror` is the counterexample without it. `MessagesInTime` is the
same for messages, where `Return` is affected as well.

### Ring

Assumptions: the sizes of both rings divide the number of index values, the
completion ring is not the smaller one, and there are more index values than
completions plus one. The kernel's rings have sizes that are powers of two and
32-bit indexes.

`SetupInv` follows the mappings through the set-up and its failures. For the
refinement, `RingInv` says that the two rings are well formed: for the submission
ring, the array entries the kernel can see point to the slots in their order, and
`sqe_head` equals `ktail`, so that the entries told to the kernel and
those only prepared form one range of slots (`SqOk`). The abstract queues are the
contents of these ranges (`WaitingOf`, `FinishedOf`). One lemma per ring operation
(`GetSqeFacts`, `FlushFacts`, `TakeFacts`, `PostedFacts`, `SeenFacts`) says what it
does to the abstract queue: append, nothing, drop the first, append, drop the
first. All of it rests on facts about remainders proved at the beginning: equal
remainders of numbers closer than the divisor (`ModWindow`), and remainders of
remainders (`ModMod`), which is where a ring size that does not divide the number
of index values would fail. `RefineStep` puts the operations together with the
overflow list, whose entries move behind those in the ring without changing order.

### WcpMain

Assumptions: a finite source tree (every set of entries has one whose parent is
outside, so there are no cycles), directories are what has entries, links have
targets that are no links.

`ProgramInv` has, besides types and control: every directory made has all its
ancestors (`DirsInv`); the stack of directories has no duplicates, and nothing has
been made below a directory on the stack or for an entry still to be read
(`OnceInv`), which gives `FilesAddedOnce` although calls are repeated after they
have had their effect; without an error, everything in a directory that has left
the stack has been made or is still to come in this batch or a later one
(`FoundInv`); and an empty batch, or a length of 0 left from the call before, means
the end of the directory (`BatchInv`). `ExitZeroMeansCopied` uses that the walk
ends with an empty stack, and goes down the tree: an entry without a counterpart
would have a topmost such ancestor. For the copies it uses `RetireInv`: a failed copy is
in `errored`, or it is the one whose retirement is under way (`Pending`), and whoever
ends the process finds every runner deleted. The submit thread itself is then done
with `Pending`; the progress thread need not be, which is the exception in
`ExitZeroHonest`.

### Eta

Assumptions: finitely many copies, fewer than the counters can hold; a mask of at
least one bit and a set at least as wide as the mask; the thresholds are natural
numbers, the one for the start of the search at least the other.

`EtaInv`: a copy is counted before it is pushed and pushed before it is finished
(`CopyInv`); each counter is between the number of unfinished copies and that of
all counted ones, as a failed copy is never taken off (`BigInv`, `SmallInv`); the
totals as sets of bytes (`BytesInv`); and what the progress thread can conclude
from its loads in their order (`ShowInv`).

`BitsetStaysExact` needs `BitInv`: bit `i` of the word tells whether the copy that
ended `i` copies before the last one was big, up to the width of the set, and the
count above the set is right. A shift moves each bit on to the next copy and drops
the one that would run into the count (`ShiftedWord`). `EstimateIsNearest` rests on
`BestIsNearest`: after each bucket the search holds the nearest of those seen that
have been measured often enough; and on `RoundBetween`: the rounded quotient is one
of its two neighbours, which therefore no other bucket comes nearer than.

Powers of two, the counting of bits and the search are defined by recursion. The
library's induction theorems take an operator as parameter, which the provers at
hand cannot instantiate. `EtaProofs` goes around this with sets and functions as
parameters: induction over a set of numbers, from the least number not in it
(`SetInduction`), and the existence of a function whose step is a function too
(`RecursionExists`).

### Only model-checked

Liveness: `RunnerTerminates`, `JoinReturns`, `SessionEnds`, `ProgramEnds`,
`EveryRequestReturns`. TLAPS has no rules for fairness that would reach them.

## 5. Where code and comments disagree

The violation runs show, each as a counterexample TLC prints:

1. `CopyRunner_truncated`: the comment at `CopyRunner.cpp:276` says a truncated
   file makes the runner bail out. Truncated to an unaligned size it never sees
   a read of 0 bytes: it steps back to the aligned offset and reads the same
   tail again, for ever.
2. `CopyQueue_starved`: a failed open keeps its reservation, although
   `CopyQueue.hpp:86` says two descriptors are always kept for the submit thread.
3. `Completion_lateerror`: after a failed open the runner is deleted before the
   error is recorded (`CopyQueue.cpp:153-154`); the progress thread can end the
   process with exit code 0 in between. `ExitZeroHonest` of `WcpMain` names this case.
4. `Eta_lastcopy`: the comment at `CopyQueue.cpp:364` wants consistent readings;
   `getEta` checks the counters (`ETACalculator.cpp:70`) and reads them again
   (line 35). When the last copy completes in between, 0/0 passes `std::clamp` and
   becomes an index.

Three more show with other constants of the passing runs:

* `ShrankOnlyIfTruncated` with the constants of `CopyRunner`: a source that grew is reported as shrunken after a short write, because the
  rounded-up read passes the end and `bytesToRead` wraps (`CopyRunner.cpp:118`);
* `"read"` in `Faults` of `CopyQueue_live`, with two blocks and `Cap = 6`: a read error closes nothing while
  another chunk exists; if that one ends before the failed runner is deleted,
  nobody closes (`QueueFileDescriptor.cpp:19` asserts otherwise);
* `MaxSplits = 1` in `CopyQueue_live`, with two blocks: entries that `io_uring_submit` did not take
  are submitted only if another runner is added (`CopyQueue.cpp:173`), otherwise
  `join()` hangs.

The passing runs that exclude these cases say so in their constants:
`CopyRunner` truncates to aligned sizes only, `CopyQueue_live` has no failing
opens or reads and no split submission, `Completion` has no fate `openError`.
The safety properties of run `CopyQueue` hold with all of them.

Read from the code, without a run: an empty file whose destination cannot be
opened leaves its source open (`CopyQueue.cpp:137-144`); the carry at
`CopyQueue.cpp:480` misses exactly one second; the last redraw divides by the 0
that `getEta` returns (`CopyQueue.cpp:418`) and converts the result to an integer;
the interpolation gives the nearer bucket the smaller weight
(`ETACalculator.cpp:42-44`); in a debug build a directory that cannot be opened
ends the program, because the destructor then closes descriptor -1 and asserts
that this works (`ScopedFileDescriptor.cpp:7`; constant `Debug` of `Walk`); the early
returns of `wcpMain` (lines 107 and 122) destroy the queue and unmap its ring while the
submit thread uses both, and no property can promise more than that the process ends.

## 6. How to run

    tlc -config CopyQueue.cfg MCCopyQueue      # any run: module and cfg of PROJECT.json
    tlapm CopyRunnerProofs.tla

Every run takes about two minutes or less, the proofs of one module between half a
minute and three minutes.

## 7. Not modelled, and why

* Formatting of the progress bar and of error messages: no property is about it.
* The speeds in `ETACalculator`, the queue of measuring points and
  `TEST_ETA_CALCULATION`: floating point and wall clock.
* `VALGRIND_MODE` and the debug output.
* A submit call that ends inside a chain of linked requests: the repository does
  not say whether the kernel does this; the model takes chains as a whole.
* Memory exhaustion, failing `pthread_create`, failing assertions: the process
  ends.
* Of liburing what the program does not use: timeouts (`io_uring_wait_cqes`), rings
  with a polling kernel thread, `io_uring_register`, probes, the other request
  types. What the kernel does with them is not in the repository.
* The tests with their framework, the scripts, the examples of liburing.

## 8. Possible further work

Done: all modules of section 2, and the proofs of section 4. What could follow:

`CopyQueue` over `RingService` itself, with an abstract session above it, so that the
rings, the queue and `Completion` form one chain of refinements like the one from
`CopyRunner` and `CopyQueue` to `RunnerService`; and a model of the interpolation in
`ETACalculator` over exact fractions.
