------------------------ MODULE CopyQueueResultProofs ------------------------
(***************************************************************************)
(* Proofs about what CopyQueue tells its caller: the result of join(), the *)
(* bytes on the progress bar, and descriptors left open.                   *)
(***************************************************************************)
EXTENDS CopyQueueResourceProofs

-----------------------------------------------------------------------------
(* The inductive invariants.                                               *)

\* What is left of a chunk.
LeftInv ==
    /\ \A r \in Runners : left[r] <= Size(r)
    /\ \A r \in Runners : Future(r) => left[r] = Size(r)

\* A failure is on record: reported, saved by its runner, or in a completion not yet seen.
CqFails == \E i \in 1..Len(cq) : cq[i].res = "fail"
AliveFails == \E r \in alive : savedError[r]
RecordedInv == failuresNow \in Nat /\ (failuresNow > 0 <=> errored \/ AliveFails \/ CqFails)

\* The runners pushed since the last join.
BatchInv == alive \subseteq batch /\ \A r \in batch : ~Future(r)

\* Without an error, what is done is complete, and closed with the last chunk.
CompleteInv == ~errored => \A r \in batch \ alive : left[r] = 0
ClosedDoneInv ==
    ~errored => \A r \in batch : chunksRemaining[FileOf(r)] = 0 => fd[FileOf(r)]["dst"] = "closed"

HonestInv == LeftInv /\ RecordedInv /\ BatchInv /\ CompleteInv /\ ClosedDoneInv

-----------------------------------------------------------------------------
(* What join() reports.                                                    *)

\* What is left of a chunk only shrinks, once the chunk has been pushed.
LEMMA LeftNext ==
    ASSUME CoreInv, LeftInv, [Next]_vars
    PROVE  LeftInv'
  <1> USE DEF mainVars, fdVars, queueVars, lifeVars, runnerVars, submitVars, ringVars, countVars
  <1>0. /\ TypeInv /\ RingInv /\ left \in [Runners -> 0..ChunkBytes] /\ ChunkBytes \in Nat
        /\ \A r \in Runners : Size(r) \in Nat /\ (Size(r))' = Size(r)
        /\ \A r \in Runners : Future(r)' => Future(r)
    BY QueueAssumption, RunnerFacts, FutureNext DEF CoreInv, TypeInv, DataTypes, Size, FileOf
  <1>1. ASSUME OnWriteEventFinished PROVE LeftInv'
    <2>1. PICK r \in Runners : r = Head(cq).r /\ r \in InRing
      BY <1>0, <1>1, EventPlaces DEF OnWriteEventFinished, InRing
    <2>2. ~Future(r)  BY <2>1 DEF CoreInv, PlacesInv, WhereInv, PushedInv
    <2>3. \A x \in Runners : left'[x] = IF x = r THEN 0 ELSE left[x]
      BY <1>0, <1>1, <2>1 DEF OnWriteEventFinished
    <2> QED  BY <1>0, <2>2, <2>3 DEF LeftInv
  <1>2. ASSUME OnWriteEventReschedule PROVE LeftInv'
    <2> DEFINE written == IF Head(cq).res = "some" THEN left[Head(cq).r] \div 2 ELSE 0
    <2>1. PICK r \in Runners : r = Head(cq).r /\ r \in InRing
      BY <1>0, <1>2, EventPlaces DEF OnWriteEventReschedule, InRing
    <2>2. ~Future(r)  BY <2>1 DEF CoreInv, PlacesInv, WhereInv, PushedInv
    <2>3. left' = [left EXCEPT ![r] = @ - written]  BY <1>2, <2>1 DEF OnWriteEventReschedule
    <2>4. written \in 0..left[r]  BY <1>0, <2>1
    <2> HIDE DEF written
    <2>5. \A x \in Runners : left'[x] = IF x = r THEN left[r] - written ELSE left[x]
      BY <1>0, <2>1, <2>3
    <2> QED  BY <1>0, <2>2, <2>4, <2>5 DEF LeftInv
  <1>3. CASE UNCHANGED <<left>>
    BY <1>0, <1>3 DEF LeftInv
  <1> QED
    BY <1>1, <1>2, <1>3
    DEF Next, AddStep, SubmitStep, KernelStep, vars, mainVars, fdVars, queueVars, lifeVars,
        runnerVars, submitVars, ringVars, countVars, AddCopyJob, LowPriorityLoad,
        LowPriorityOpen, AddCopyJobPartTotal, AddCopyJobPartPush, Start, Join, JoinReturn,
        StopAdding, TakeBlock, PickContinue, PickStart, PickNothing, HighPriorityLoad,
        HighPriorityRetry, HighPriorityOpen, HighPriorityOpenError, FinishEmptyFile, AddToBatch,
        Submit, SubmitNothing, KernelRead, KernelWrite, OnReadEvent, OnWriteEventError,
        NextRound, SubmitExit, Terminated, Completes

\* A failed completion is the next one or a later one.
LEMMA TailFails ==
    ASSUME TypeInv, NEW op, Peeked(op), cq' = Tail(cq)
    PROVE  CqFails <=> (Head(cq).res = "fail" \/ CqFails')
  <1>1. /\ Len(cq) \in Nat /\ Len(cq) > 0 /\ Head(cq) = cq[1] /\ Len(cq') = Len(cq) - 1
        /\ \A i \in 1..Len(cq') : cq'[i] = cq[i + 1]
    BY EventFacts DEF TypeInv, RingTypes
  <1>2. ASSUME NEW i \in 1..Len(cq), cq[i].res = "fail" PROVE Head(cq).res = "fail" \/ CqFails'
    <2>1. CASE i = 1  BY <1>1, <1>2, <2>1
    <2>2. CASE i # 1
      <3>1. i - 1 \in 1..Len(cq') /\ cq'[i - 1] = cq[i]  BY <1>1, <2>2
      <3> QED  BY <1>2, <3>1 DEF CqFails
    <2> QED  BY <2>1, <2>2
  <1>3. ASSUME NEW i \in 1..Len(cq'), cq'[i].res = "fail" PROVE CqFails
    <2>1. i + 1 \in 1..Len(cq) /\ cq[i + 1] = cq'[i]  BY <1>1
    <2> QED  BY <1>3, <2>1 DEF CqFails
  <1>4. Head(cq).res = "fail" => CqFails  BY <1>1 DEF CqFails
  <1> QED  BY <1>2, <1>3, <1>4 DEF CqFails

\* The kernel adds a failed completion exactly if it counts a failure.
LEMMA CompletionFails ==
    ASSUME TypeInv, NEW q, NEW result, cq' = Append(cq, Cqe(q, result))
    PROVE  CqFails' <=> (CqFails \/ result = "fail")
  <1>1. cq \in Seq(Cqes) /\ Len(cq) \in Nat  BY DEF TypeInv, RingTypes
  <1>2. /\ Len(cq') = Len(cq) + 1 /\ \A i \in 1..Len(cq) : cq'[i] = cq[i]
        /\ cq'[Len(cq) + 1] = Cqe(q, result)
    BY <1>1
  <1>3. cq'[Len(cq) + 1].res = result  BY <1>2 DEF Cqe
  <1>4. \A i \in 1..Len(cq') : i \in 1..Len(cq) \/ i = Len(cq) + 1  BY <1>1, <1>2
  <1>5. \A i \in 1..Len(cq) : i \in 1..Len(cq')  BY <1>1, <1>2
  <1>6. Len(cq) + 1 \in 1..Len(cq')  BY <1>1, <1>2
  <1> QED  BY <1>2, <1>3, <1>4, <1>5, <1>6 DEF CqFails

\* Whatever failed is on record until join() has reported it.
LEMMA RecordedNext ==
    ASSUME FileInv, HeapInv, RecordedInv, [Next]_vars
    PROVE  RecordedInv'
  <1> USE DEF mainVars, fdVars, queueVars, lifeVars, runnerVars, submitVars, ringVars, countVars
  <1>0. /\ TypeInv /\ ControlInv /\ RingInv /\ WhereInv /\ PushedInv /\ SavedInv /\ ExitInv
        /\ savedError \in [Runners -> BOOLEAN] /\ failuresNow \in Nat
        /\ alive \subseteq Runners
    BY DEF FileInv, CoreInv, PlacesInv, FilesInv, HeapInv, TypeInv, DataTypes, PlaceTypes, RecordedInv
  <1>1. ASSUME AddCopyJobPartPush PROVE RecordedInv'
    <2>1. mfile \in Files /\ mpart \in 1..PartCount(mfile) /\ mpart \in Nat /\ Splitting
      BY <1>0, <1>1 DEF AddCopyJobPartPush, ControlInv, TypeInv, MainTypes, Splitting
    <2>2. PICK r \in Runners : r = <<mfile, mpart>> /\ FileOf(r) = mfile /\ r[2] = mpart
      BY <2>1, RunnerFacts
    <2>3. ~savedError[r]  BY <1>0, <2>1, <2>2 DEF SavedInv, Future
    <2>4. alive' = alive \cup {r} /\ UNCHANGED <<errored, savedError, cq, failuresNow>>
      BY <1>1, <2>2 DEF AddCopyJobPartPush
    <2>5. CqFails' <=> CqFails  BY <2>4 DEF CqFails
    <2>6. AliveFails' <=> AliveFails  BY <2>3, <2>4 DEF AliveFails
    <2> QED  BY <2>4, <2>5, <2>6 DEF RecordedInv
  <1>2. ASSUME JoinReturn PROVE RecordedInv'
    <2>1. alive = {}  BY <1>0, <1>2 DEF JoinReturn, ExitInv
    <2>2. cq = <<>>  BY <2>1, NoRunnerNothing DEF HeapInv
    <2>3. alive' = alive /\ cq' = cq /\ failuresNow' = 0 /\ errored' = FALSE
      BY <1>2 DEF JoinReturn, ResetSession
    <2>4. ~AliveFails' /\ ~CqFails'  BY <2>1, <2>2, <2>3 DEF AliveFails, CqFails
    <2> QED  BY <2>3, <2>4 DEF RecordedInv
  <1>3. ASSUME HighPriorityOpenError PROVE RecordedInv'
    <2>1. failuresNow' = failuresNow + 1 /\ errored' = TRUE
      BY <1>3 DEF HighPriorityOpenError, CountFailure, OnError
    <2> QED  BY <1>0, <2>1 DEF RecordedInv
  <1>4. ASSUME FinishEmptyFile PROVE RecordedInv'
    <2>1. PICK failed \in BOOLEAN : errored' = (errored \/ failed) /\ CountFailure(failed)
      BY <1>4 DEF FinishEmptyFile, CloseResults, Fails
    <2>2. UNCHANGED <<savedError, cq>> /\ alive' = alive \ {toAdd}  BY <1>4 DEF FinishEmptyFile, Delete
    <2>3. ~savedError[toAdd]
      BY <1>0, <1>4, TurnFacts DEF FinishEmptyFile, SavedInv, Waiting, Adding
    <2>4. CqFails' <=> CqFails  BY <2>2 DEF CqFails
    <2>5. AliveFails' <=> AliveFails  BY <2>2, <2>3 DEF AliveFails
    <2>6. failuresNow' = IF failed THEN failuresNow + 1 ELSE failuresNow  BY <2>1 DEF CountFailure
    <2>7. CASE failed
      <3>1. errored'  BY <2>1, <2>7, Zenon
      <3>2. failuresNow' = failuresNow + 1  BY <2>6, <2>7
      <3> QED  BY <1>0, <3>1, <3>2 DEF RecordedInv
    <2>8. CASE ~failed  BY <1>0, <2>1, <2>4, <2>5, <2>6, <2>8 DEF RecordedInv
    <2> QED  BY <2>7, <2>8
  <1>5. ASSUME NEW q \in kernel, KernelRead(q) PROVE RecordedInv'
    <2>1. PICK result : cq' = Append(cq, Cqe(q, result)) /\ CountFailure(result = "fail")
                        /\ UNCHANGED <<errored, alive, savedError>>
      BY <1>5 DEF KernelRead, Completes
    <2>2. CqFails' <=> (CqFails \/ result = "fail")  BY <1>0, <2>1, CompletionFails
    <2>3. AliveFails' <=> AliveFails  BY <2>1 DEF AliveFails
    <2>4. failuresNow' = IF result = "fail" THEN failuresNow + 1 ELSE failuresNow
      BY <2>1 DEF CountFailure
    <2>5. CASE result = "fail"  BY <1>0, <2>2, <2>4, <2>5 DEF RecordedInv
    <2>6. CASE result # "fail"  BY <1>0, <2>1, <2>2, <2>3, <2>4, <2>6 DEF RecordedInv
    <2> QED  BY <2>5, <2>6
  <1>6. ASSUME NEW q \in kernel, KernelWrite(q) PROVE RecordedInv'
    <2>1. PICK result : cq' = Append(cq, Cqe(q, result)) /\ CountFailure(result = "fail")
                        /\ UNCHANGED <<errored, alive, savedError>>
      BY <1>6 DEF KernelWrite, Completes
    <2>2. CqFails' <=> (CqFails \/ result = "fail")  BY <1>0, <2>1, CompletionFails
    <2>3. AliveFails' <=> AliveFails  BY <2>1 DEF AliveFails
    <2>4. failuresNow' = IF result = "fail" THEN failuresNow + 1 ELSE failuresNow
      BY <2>1 DEF CountFailure
    <2>5. CASE result = "fail"  BY <1>0, <2>2, <2>4, <2>5 DEF RecordedInv
    <2>6. CASE result # "fail"  BY <1>0, <2>1, <2>2, <2>3, <2>4, <2>6 DEF RecordedInv
    <2> QED  BY <2>5, <2>6
  <1>7. ASSUME OnReadEvent PROVE RecordedInv'
    <2>1. PICK r \in Runners : r = Head(cq).r /\ r \in alive
      BY <1>0, <1>7, EventPlaces DEF OnReadEvent, InRing, WhereInv
    <2>2. CqFails <=> (Head(cq).res = "fail" \/ CqFails')
      BY <1>0, <1>7, TailFails DEF OnReadEvent, Seen
    <2>3. UNCHANGED <<errored, alive, failuresNow>>  BY <1>7 DEF OnReadEvent
    <2>4. CASE Head(cq).res = "fail"
      <3>1. savedError'[r]  BY <1>0, <1>7, <2>1, <2>4 DEF OnReadEvent, SaveError
      <3>2. AliveFails'  BY <2>1, <2>3, <3>1 DEF AliveFails
      <3> QED  BY <2>2, <2>3, <2>4, <3>2 DEF RecordedInv
    <2>5. CASE Head(cq).res # "fail"
      <3>1. AliveFails' <=> AliveFails  BY <1>7, <2>5 DEF OnReadEvent, AliveFails
      <3> QED  BY <2>2, <2>3, <2>5, <3>1 DEF RecordedInv
    <2> QED  BY <2>4, <2>5
  <1>8. ASSUME OnWriteEventError PROVE RecordedInv'
    <2>1. PICK r \in Runners : r = Head(cq).r /\ r \in alive
      BY <1>0, <1>8, EventPlaces DEF OnWriteEventError, InRing, WhereInv
    <2>2. CqFails <=> (Head(cq).res = "fail" \/ CqFails')
      BY <1>0, <1>8, TailFails DEF OnWriteEventError, Seen
    <2>3. AliveFails \/ CqFails  BY <1>8, <2>1, <2>2 DEF OnWriteEventError, AliveFails
    <2>4. errored' = TRUE /\ failuresNow' = failuresNow  BY <1>8 DEF OnWriteEventError, OnError
    <2> QED  BY <2>3, <2>4 DEF RecordedInv
  <1>9. ASSUME OnWriteEventFinished PROVE RecordedInv'
    <2>1. CqFails <=> (Head(cq).res = "fail" \/ CqFails')
      BY <1>0, <1>9, TailFails DEF OnWriteEventFinished, Seen
    <2>2. Head(cq).res # "fail" /\ ~savedError[Head(cq).r]  BY <1>9 DEF OnWriteEventFinished
    <2>3. PICK failed \in BOOLEAN : errored' = (errored \/ failed) /\ CountFailure(failed)
      BY <1>9 DEF OnWriteEventFinished, CloseResults, Fails
    <2>4. UNCHANGED savedError /\ alive' = alive \ {Head(cq).r}  BY <1>9 DEF OnWriteEventFinished, Delete
    <2>5. AliveFails' <=> AliveFails  BY <2>2, <2>4 DEF AliveFails
    <2>6. failuresNow' = IF failed THEN failuresNow + 1 ELSE failuresNow  BY <2>3 DEF CountFailure
    <2>7. CASE failed
      <3>1. errored'  BY <2>3, <2>7, Zenon
      <3>2. failuresNow' = failuresNow + 1  BY <2>6, <2>7
      <3> QED  BY <1>0, <3>1, <3>2 DEF RecordedInv
    <2>8. CASE ~failed  BY <1>0, <2>1, <2>2, <2>3, <2>5, <2>6, <2>8 DEF RecordedInv
    <2> QED  BY <2>7, <2>8
  <1>10. ASSUME OnWriteEventReschedule PROVE RecordedInv'
    <2>1. CqFails <=> (Head(cq).res = "fail" \/ CqFails')
      BY <1>0, <1>10, TailFails DEF OnWriteEventReschedule, Seen
    <2>2. Head(cq).res # "fail" /\ UNCHANGED <<errored, alive, savedError, failuresNow>>
      BY <1>10 DEF OnWriteEventReschedule
    <2>3. AliveFails' <=> AliveFails  BY <2>2 DEF AliveFails
    <2> QED  BY <2>1, <2>2, <2>3 DEF RecordedInv
  <1>11. CASE UNCHANGED <<errored, alive, savedError, cq, failuresNow>>
    BY <1>11 DEF RecordedInv, AliveFails, CqFails
  <1> QED
    BY <1>1, <1>2, <1>3, <1>4, <1>5, <1>6, <1>7, <1>8, <1>9, <1>10, <1>11
    DEF Next, AddStep, SubmitStep, KernelStep, vars, mainVars, fdVars, queueVars, lifeVars,
        runnerVars, submitVars, ringVars, countVars, AddCopyJob, LowPriorityLoad,
        LowPriorityOpen, AddCopyJobPartTotal, Start, Join, StopAdding, TakeBlock, PickContinue,
        PickStart, PickNothing, HighPriorityLoad, HighPriorityRetry, HighPriorityOpen,
        AddToBatch, Submit, SubmitNothing, NextRound, SubmitExit, Terminated

\* The batch holds what has been pushed since the last join.
LEMMA BatchNext ==
    ASSUME HeapInv, BatchInv, [Next]_vars
    PROVE  BatchInv'
  <1> USE DEF mainVars, fdVars, queueVars, lifeVars, runnerVars, submitVars, ringVars, countVars
  <1>0. /\ TypeInv /\ ControlInv /\ PushedInv /\ PushedInv' /\ batch \subseteq Runners
        /\ \A r \in Runners : Future(r)' => Future(r)
    BY PushedNext, FutureNext DEF HeapInv, CoreInv, PlacesInv, TypeInv, PlaceTypes
  <1>1. CASE AddCopyJobPartPush
    <2>1. PICK r : r = <<mfile, mpart>>  OBVIOUS
    <2>2. alive' = alive \cup {r} /\ batch' = batch \cup {r}  BY <1>1, <2>1 DEF AddCopyJobPartPush
    <2>3. ~Future(r)'  BY <1>0, <2>2 DEF PushedInv
    <2> QED  BY <1>0, <2>2, <2>3 DEF BatchInv
  <1>2. CASE JoinReturn
    BY <1>2 DEF JoinReturn, HeapInv, ExitInv, BatchInv
  <1>3. CASE alive' \subseteq alive /\ batch' = batch  BY <1>0, <1>3 DEF BatchInv
  <1> QED
    BY <1>1, <1>2, <1>3 DEF Next, AddStep, SubmitStep, KernelStep, Completes, Delete, vars,
        AddCopyJob, LowPriorityLoad, LowPriorityOpen, AddCopyJobPartTotal, Start, Join,
        StopAdding, TakeBlock, PickContinue, PickStart, PickNothing, HighPriorityLoad,
        HighPriorityRetry, HighPriorityOpen, HighPriorityOpenError, FinishEmptyFile, AddToBatch,
        Submit, SubmitNothing, KernelRead, KernelWrite, OnReadEvent, OnWriteEventError,
        OnWriteEventFinished, OnWriteEventReschedule, NextRound, SubmitExit, Terminated

\* Without an error, a runner that is gone has nothing left to copy.
LEMMA CompleteNext ==
    ASSUME HeapInv, LeftInv, BatchInv, CompleteInv, [Next]_vars
    PROVE  CompleteInv'
  <1> USE DEF mainVars, fdVars, queueVars, lifeVars, runnerVars, submitVars, ringVars, countVars
  <1>0. /\ TypeInv /\ ControlInv /\ RingInv /\ WhereInv /\ batch \subseteq Runners
        /\ left \in [Runners -> 0..ChunkBytes] /\ ChunkBytes \in Nat /\ errored \in BOOLEAN
    BY QueueAssumption DEF HeapInv, CoreInv, PlacesInv, TypeInv, PlaceTypes, DataTypes
  <1>1. ASSUME AddCopyJobPartPush PROVE CompleteInv'
    BY <1>1 DEF AddCopyJobPartPush, CompleteInv
  <1>2. ASSUME JoinReturn PROVE CompleteInv'
    BY <1>2 DEF JoinReturn, CompleteInv
  <1>3. ASSUME HighPriorityOpenError PROVE CompleteInv'
    BY <1>3 DEF HighPriorityOpenError, OnError, CompleteInv
  <1>4. ASSUME FinishEmptyFile PROVE CompleteInv'
    <2>1. toAdd \in Runners /\ Size(toAdd) = 0  BY <1>0, <1>4, TurnFacts DEF FinishEmptyFile
    <2>2. left[toAdd] = 0  BY <1>0, <2>1 DEF LeftInv
    <2>3. UNCHANGED <<batch, left>> /\ alive' = alive \ {toAdd} /\ (~errored' => ~errored)
      BY <1>4 DEF FinishEmptyFile, Delete
    <2> QED  BY <2>2, <2>3 DEF CompleteInv
  <1>5. ASSUME OnWriteEventError PROVE CompleteInv'
    BY <1>5 DEF OnWriteEventError, OnError, CompleteInv
  <1>6. ASSUME OnWriteEventFinished PROVE CompleteInv'
    <2>1. PICK r \in Runners : r = Head(cq).r  BY <1>0, <1>6, EventFacts DEF OnWriteEventFinished
    <2>2. \A x \in Runners : left'[x] = IF x = r THEN 0 ELSE left[x]
      BY <1>0, <1>6, <2>1 DEF OnWriteEventFinished
    <2>3. UNCHANGED batch /\ alive' = alive \ {r} /\ (~errored' => ~errored)
      BY <1>6, <2>1 DEF OnWriteEventFinished, Delete
    <2> QED  BY <1>0, <2>2, <2>3 DEF CompleteInv
  <1>7. ASSUME OnWriteEventReschedule PROVE CompleteInv'
    <2>1. PICK r \in Runners : r = Head(cq).r /\ r \in alive
      BY <1>0, <1>7, EventPlaces DEF OnWriteEventReschedule, InRing, WhereInv
    <2>2. \A x \in Runners : x # r => left'[x] = left[x]  BY <1>0, <1>7, <2>1 DEF OnWriteEventReschedule
    <2>3. UNCHANGED <<batch, alive, errored>>  BY <1>7 DEF OnWriteEventReschedule
    <2> QED  BY <1>0, <2>1, <2>2, <2>3 DEF CompleteInv
  <1>8. CASE UNCHANGED <<errored, batch, alive, left>>
    BY <1>8 DEF CompleteInv
  <1> QED
    BY <1>1, <1>2, <1>3, <1>4, <1>5, <1>6, <1>7, <1>8
    DEF Next, AddStep, SubmitStep, KernelStep, vars, mainVars, fdVars, queueVars, lifeVars,
        runnerVars, submitVars, ringVars, countVars, AddCopyJob, LowPriorityLoad,
        LowPriorityOpen, AddCopyJobPartTotal, Start, Join, StopAdding, TakeBlock, PickContinue,
        PickStart, PickNothing, HighPriorityLoad, HighPriorityRetry, HighPriorityOpen,
        AddToBatch, Submit, SubmitNothing, KernelRead, KernelWrite, OnReadEvent, NextRound,
        SubmitExit, Terminated, Completes

\* A file of which a runner exists has a chunk remaining.
LEMMA AliveCounted ==
    ASSUME CoreInv, ChunksCounted, NEW r \in alive
    PROVE  chunksRemaining[FileOf(r)] > 0
  <1>1. FileOf(r) \in Files /\ r \in Of(FileOf(r))
    BY RunnerFacts DEF CoreInv, TypeInv, PlaceTypes, Of
  <1>2. IsFiniteSet(Of(FileOf(r))) /\ Cardinality(Of(FileOf(r))) \in Nat
    BY <1>1, OfFinite DEF CoreInv
  <1>3. Cardinality(Of(FileOf(r))) # 0  BY <1>1, <1>2, FS_EmptySet
  <1>4. ToCome(FileOf(r)) \in Nat  BY <1>1, ToComeFacts DEF CoreInv
  <1>5. chunksRemaining[FileOf(r)] = Cardinality(Of(FileOf(r))) + ToCome(FileOf(r))
    BY <1>1, ChunksMeaning
  <1> QED  BY <1>2, <1>3, <1>4, <1>5

\* How a step changes the state of a file that is not being opened by the adding thread: a
\* file of which no chunk remains stays as it is, and the counter reaches 0 only when a
\* runner is deleted.
LEMMA DoneStep ==
    ASSUME FileInv, [Next]_vars, NEW f \in Files, f \in added, ~(f = mfile /\ Opening),
           chunksRemaining'[f] = 0
    PROVE  \/ /\ chunksRemaining[f] = 0
              /\ \A s \in Sides : /\ fd[f][s] = "closed" => fd'[f][s] = "closed"
                                  /\ fd'[f][s] = "open" => fd[f][s] = "open"
           \/ HighPriorityOpenError /\ LastChunk(f) /\ f = FileOf(toAdd)
           \/ FinishEmptyFile /\ LastChunk(f) /\ f = FileOf(toAdd)
           \/ OnWriteEventError /\ LastChunk(f) /\ f = FileOf(Head(cq).r)
           \/ OnWriteEventFinished /\ LastChunk(f) /\ f = FileOf(Head(cq).r)
  <1> USE DEF mainVars, fdVars, queueVars, lifeVars, runnerVars, submitVars, ringVars, countVars
  <1>0. /\ CoreInv /\ TypeInv /\ ControlInv /\ RingInv /\ WhereInv /\ ChunksCounted
        /\ fd \in [Files -> [Sides -> {"never", "open", "closed"}]]
        /\ chunksRemaining \in [Files -> Int]
    BY DEF FileInv, CoreInv, PlacesInv, TypeInv, FdTypes
  <1> DEFINE Same == /\ chunksRemaining[f] = 0
                     /\ \A s \in Sides : /\ fd[f][s] = "closed" => fd'[f][s] = "closed"
                                         /\ fd'[f][s] = "open" => fd[f][s] = "open"
             Goal == \/ Same
                     \/ HighPriorityOpenError /\ LastChunk(f) /\ f = FileOf(toAdd)
                     \/ FinishEmptyFile /\ LastChunk(f) /\ f = FileOf(toAdd)
                     \/ OnWriteEventError /\ LastChunk(f) /\ f = FileOf(Head(cq).r)
                     \/ OnWriteEventFinished /\ LastChunk(f) /\ f = FileOf(Head(cq).r)
  <1> SUFFICES Goal  OBVIOUS
  <1>1. ASSUME LowPriorityLoad PROVE Goal
    <2>1. Opening /\ f # mfile  BY <1>1 DEF LowPriorityLoad, Opening
    <2>2. chunksRemaining'[f] = chunksRemaining[f] /\ fd' = fd
      BY <1>0, <1>1, <2>1 DEF LowPriorityLoad, NextDescriptor
    <2> QED  BY <2>2
  <1>2. ASSUME LowPriorityOpen PROVE Goal
    <2>1. Opening /\ f # mfile  BY <1>2 DEF LowPriorityOpen, Opening
    <2>2. chunksRemaining'[f] = chunksRemaining[f]
      BY <1>0, <1>2, <2>1 DEF LowPriorityOpen, NextDescriptor
    <2>3. fd'[f] = fd[f]  BY <1>0, <1>2, <2>1 DEF LowPriorityOpen, ReserveAndOpen
    <2> QED  BY <2>2, <2>3
  <1>3. ASSUME HighPriorityOpen PROVE Goal
    <2>1. UNCHANGED chunksRemaining  BY <1>3 DEF HighPriorityOpen
    <2>2. toAdd \in alive  BY <1>0, <1>3, TurnFacts DEF HighPriorityOpen, WhereInv, Adding
    <2>3. f # FileOf(toAdd)
      <3>1. chunksRemaining[FileOf(toAdd)] > 0  BY <1>0, <2>2, AliveCounted
      <3> QED  BY <2>1, <3>1
    <2>4. fd'[f] = fd[f]  BY <1>0, <1>3, <2>3 DEF HighPriorityOpen, ReserveAndOpen
    <2> QED  BY <2>1, <2>4
  <1>4. ASSUME HighPriorityOpenError PROVE Goal
    <2>1. FileOf(toAdd) \in Files  BY <1>0, <1>4, TurnFacts DEF HighPriorityOpenError
    <2>2. chunksRemaining' = [chunksRemaining EXCEPT ![FileOf(toAdd)] = @ - 1]
      BY <1>4 DEF HighPriorityOpenError, Delete, CountDown
    <2>3. CASE f = FileOf(toAdd)  BY <1>0, <1>4, <2>1, <2>2, <2>3 DEF LastChunk
    <2>4. CASE f # FileOf(toAdd)
      <3>1. fd'[f] = fd[f]  BY <1>0, <1>4, <2>4 DEF HighPriorityOpenError, Closed
      <3> QED  BY <1>0, <2>1, <2>2, <2>4, <3>1
    <2> QED  BY <2>3, <2>4
  <1>5. ASSUME FinishEmptyFile PROVE Goal
    <2>1. FileOf(toAdd) \in Files  BY <1>0, <1>5, TurnFacts DEF FinishEmptyFile
    <2>2. chunksRemaining' = [chunksRemaining EXCEPT ![FileOf(toAdd)] = @ - 1]
      BY <1>5 DEF FinishEmptyFile, Delete, CountDown
    <2>3. CASE f = FileOf(toAdd)  BY <1>0, <1>5, <2>1, <2>2, <2>3 DEF LastChunk
    <2>4. CASE f # FileOf(toAdd)
      <3>1. fd'[f] = fd[f]  BY <1>0, <1>5, <2>4 DEF FinishEmptyFile, HandleFileClose, Closed
      <3> QED  BY <1>0, <2>1, <2>2, <2>4, <3>1
    <2> QED  BY <2>3, <2>4
  <1>6. ASSUME OnReadEvent PROVE Goal
    <2>1. UNCHANGED chunksRemaining /\ FileOf(Head(cq).r) \in Files
      BY <1>0, <1>6, EventFacts DEF OnReadEvent
    <2>2. fd' = fd \/ fd' = Closed(FileOf(Head(cq).r))
      BY <1>6 DEF OnReadEvent, SaveError, HandleFileClose
    <2>3. \A s \in Sides : /\ fd[f][s] = "closed" => fd'[f][s] = "closed"
                           /\ fd'[f][s] = "open" => fd[f][s] = "open"
      BY <1>0, <2>1, <2>2, CloseFacts
    <2> QED  BY <2>1, <2>3
  <1>7. ASSUME OnWriteEventError PROVE Goal
    <2> DEFINE g == FileOf(Head(cq).r)
    <2>1. g \in Files  BY <1>0, <1>7, EventFacts DEF OnWriteEventError
    <2>2. chunksRemaining' = [chunksRemaining EXCEPT ![g] = @ - 1]
      BY <1>7 DEF OnWriteEventError, Delete, CountDown
    <2>3. fd' = fd \/ fd' = Closed(g)  BY <1>7 DEF OnWriteEventError, SaveError, HandleFileClose
    <2> HIDE DEF g
    <2>4. CASE f = g
      <3>1. LastChunk(f)  BY <1>0, <2>1, <2>2, <2>4 DEF LastChunk
      <3> QED  BY <1>7, <2>4, <3>1 DEF g
    <2>5. CASE f # g
      <3>1. fd'[f] = fd[f]  BY <1>0, <2>3, <2>5 DEF Closed
      <3> QED  BY <1>0, <2>1, <2>2, <2>5, <3>1
    <2> QED  BY <2>4, <2>5
  <1>8. ASSUME OnWriteEventFinished PROVE Goal
    <2> DEFINE g == FileOf(Head(cq).r)
    <2>1. g \in Files  BY <1>0, <1>8, EventFacts DEF OnWriteEventFinished
    <2>2. chunksRemaining' = [chunksRemaining EXCEPT ![g] = @ - 1]
      BY <1>8 DEF OnWriteEventFinished, Delete, CountDown
    <2>3. fd' = fd \/ fd' = Closed(g)  BY <1>8 DEF OnWriteEventFinished, SaveError, HandleFileClose
    <2> HIDE DEF g
    <2>4. CASE f = g
      <3>1. LastChunk(f)  BY <1>0, <2>1, <2>2, <2>4 DEF LastChunk
      <3> QED  BY <1>8, <2>4, <3>1 DEF g
    <2>5. CASE f # g
      <3>1. fd'[f] = fd[f]  BY <1>0, <2>3, <2>5 DEF Closed
      <3> QED  BY <1>0, <2>1, <2>2, <2>5, <3>1
    <2> QED  BY <2>4, <2>5
  <1>9. CASE UNCHANGED <<chunksRemaining, fd>>
    BY <1>9 DEF Goal
  <1> QED
    BY <1>1, <1>2, <1>3, <1>4, <1>5, <1>6, <1>7, <1>8, <1>9
    DEF Next, AddStep, SubmitStep, KernelStep, vars, mainVars, fdVars, queueVars, lifeVars,
        runnerVars, submitVars, ringVars, countVars, AddCopyJob, AddCopyJobPartTotal,
        AddCopyJobPartPush, Start, Join, JoinReturn, StopAdding, TakeBlock, PickContinue,
        PickStart, PickNothing, HighPriorityLoad, HighPriorityRetry, AddToBatch, Submit,
        SubmitNothing, KernelRead, KernelWrite, OnWriteEventReschedule, NextRound, SubmitExit,
        Terminated, Completes

\* handleFileClose for the last chunk leaves nothing open, and closes what was open.
LEMMA LastCloses ==
    ASSUME TypeInv, NEW f \in Files, LastChunk(f), fd' = Closed(f)
    PROVE  OpenSides(f)' = {} /\ \A s \in Sides : fd[f][s] # "never" => fd'[f][s] = "closed"
  <1>1. \A s \in Sides : /\ fd'[f][s] = IF s \in OpenSides(f) THEN "closed" ELSE fd[f][s]
                         /\ fd[f][s] \in {"never", "open", "closed"}
    BY CloseFacts DEF Closing, TypeInv, FdTypes
  <1> QED  BY <1>1 DEF OpenSides

\* Without an error, a file of which no chunk remains has its destination closed.
LEMMA ClosedDoneNext ==
    ASSUME FileInv, BatchInv, ClosedDoneInv, [Next]_vars
    PROVE  ClosedDoneInv'
  <1> USE DEF mainVars, fdVars, queueVars, lifeVars, runnerVars, submitVars, ringVars, countVars
  <1>0. /\ CoreInv /\ TypeInv /\ ControlInv /\ RingInv /\ WhereInv /\ ChunksCounted
        /\ OpenedInv /\ SavedInv /\ batch \subseteq Runners /\ errored \in BOOLEAN /\ "dst" \in Sides
    BY DEF FileInv, CoreInv, PlacesInv, FilesInv, TypeInv, PlaceTypes, DataTypes, Sides
  <1>1. CASE JoinReturn  BY <1>1 DEF JoinReturn, ClosedDoneInv
  <1>2. CASE ~JoinReturn
    <2> SUFFICES ASSUME ~errored', NEW r \in batch', chunksRemaining'[FileOf(r)] = 0
                 PROVE  fd'[FileOf(r)]["dst"] = "closed"
      BY DEF ClosedDoneInv, FileOf
    <2>1. ~errored
      BY <1>2 DEF Next, AddStep, SubmitStep, KernelStep, Completes, OnError, vars, AddCopyJob,
          LowPriorityLoad, LowPriorityOpen, AddCopyJobPartTotal, AddCopyJobPartPush, Start,
          Join, StopAdding, TakeBlock, PickContinue, PickStart, PickNothing, HighPriorityLoad,
          HighPriorityRetry, HighPriorityOpen, HighPriorityOpenError, FinishEmptyFile,
          AddToBatch, Submit, SubmitNothing, KernelRead, KernelWrite, OnReadEvent,
          OnWriteEventError, OnWriteEventFinished, OnWriteEventReschedule, NextRound,
          SubmitExit, Terminated
    <2>2. r \in batch
      <3>1. CASE AddCopyJobPartPush /\ r = <<mfile, mpart>>
        <4>1. mfile \in Files /\ Splitting /\ FileOf(r) = mfile /\ UNCHANGED chunksRemaining
          BY <1>0, <3>1 DEF AddCopyJobPartPush, ControlInv, TypeInv, MainTypes, Splitting, FileOf
        <4>2. ToCome(mfile) \in Nat /\ ToCome(mfile) > 0  BY <1>0, <4>1, ToComeFacts
        <4>3. Cardinality(Of(mfile)) \in Nat  BY <1>0, <4>1, OfFinite
        <4>4. chunksRemaining[mfile] = Cardinality(Of(mfile)) + ToCome(mfile)
          BY <1>0, <4>1, ChunksMeaning
        <4> QED  BY <4>1, <4>2, <4>3, <4>4
      <3>2. CASE AddCopyJobPartPush /\ r # <<mfile, mpart>>  BY <3>2 DEF AddCopyJobPartPush
      <3>3. CASE ~AddCopyJobPartPush
        BY <1>2, <3>3 DEF Next, AddStep, SubmitStep, KernelStep, Completes, vars, AddCopyJob,
            LowPriorityLoad, LowPriorityOpen, AddCopyJobPartTotal, Start, Join, StopAdding,
            TakeBlock, PickContinue, PickStart, PickNothing, HighPriorityLoad,
            HighPriorityRetry, HighPriorityOpen, HighPriorityOpenError, FinishEmptyFile,
            AddToBatch, Submit, SubmitNothing, KernelRead, KernelWrite, OnReadEvent,
            OnWriteEventError, OnWriteEventFinished, OnWriteEventReschedule, NextRound,
            SubmitExit, Terminated
      <3> QED  BY <3>1, <3>2, <3>3
    <2>3. r \in Runners /\ FileOf(r) \in Files /\ ~Future(r)
      BY <1>0, <2>2, RunnerFacts DEF BatchInv
    <2>4. FileOf(r) \in added /\ ~(FileOf(r) = mfile /\ Opening)  BY <2>3 DEF Future
    <2>5. CASE /\ chunksRemaining[FileOf(r)] = 0
               /\ fd[FileOf(r)]["dst"] = "closed" => fd'[FileOf(r)]["dst"] = "closed"
      BY <2>1, <2>2, <2>5 DEF ClosedDoneInv
    <2>6. CASE FinishEmptyFile /\ LastChunk(FileOf(r)) /\ FileOf(r) = FileOf(toAdd)
      <3>1. fd[FileOf(r)]["dst"] # "never"  BY <2>6 DEF FinishEmptyFile, ToOpen
      <3>2. fd' = Closed(FileOf(r))  BY <2>6 DEF FinishEmptyFile, HandleFileClose
      <3> QED  BY <1>0, <2>3, <2>6, <3>1, <3>2, LastCloses
    <2>7. CASE OnWriteEventFinished /\ LastChunk(FileOf(r)) /\ FileOf(r) = FileOf(Head(cq).r)
      <3>1. Head(cq).r \in Begun  BY <1>0, <2>7, EventPlaces DEF OnWriteEventFinished, Begun
      <3>2. fd[FileOf(r)]["dst"] # "never"  BY <1>0, <2>7, <3>1 DEF OpenedInv
      <3>3. fd' = Closed(FileOf(r))  BY <2>7 DEF OnWriteEventFinished, HandleFileClose
      <3> QED  BY <1>0, <2>3, <2>7, <3>2, <3>3, LastCloses
    <2>8. CASE HighPriorityOpenError \/ OnWriteEventError
      <3>1. errored' = TRUE  BY <2>8 DEF HighPriorityOpenError, OnWriteEventError, OnError
      <3> QED  BY <3>1
    <2>9. \/ /\ chunksRemaining[FileOf(r)] = 0
             /\ \A s \in Sides : /\ fd[FileOf(r)][s] = "closed" => fd'[FileOf(r)][s] = "closed"
                                 /\ fd'[FileOf(r)][s] = "open" => fd[FileOf(r)][s] = "open"
          \/ HighPriorityOpenError \/ OnWriteEventError
          \/ FinishEmptyFile /\ LastChunk(FileOf(r)) /\ FileOf(r) = FileOf(toAdd)
          \/ OnWriteEventFinished /\ LastChunk(FileOf(r)) /\ FileOf(r) = FileOf(Head(cq).r)
      BY <2>3, <2>4, DoneStep
    <2> QED  BY <1>0, <2>5, <2>6, <2>7, <2>8, <2>9
  <1> QED  BY <1>1, <1>2

\* What join() reports rests on everything before.
JoinInv == FileInv /\ HeapInv /\ HonestInv

\* It holds, and goes on to hold.
LEMMA JoinHolds == Spec => []JoinInv
  <1>1. Init => HonestInv
    <2> SUFFICES ASSUME Init PROVE HonestInv  OBVIOUS
    <2>1. LeftInv  BY RunnerFacts DEF Init, LeftInv
    <2>2. RecordedInv
      <3>1. ~CqFails /\ ~AliveFails  BY DEF Init, CqFails, AliveFails
      <3> QED  BY <3>1 DEF Init, RecordedInv
    <2>3. BatchInv /\ CompleteInv /\ ClosedDoneInv
      BY DEF Init, BatchInv, CompleteInv, ClosedDoneInv
    <2> QED  BY <2>1, <2>2, <2>3 DEF HonestInv
  <1>2. FileInv /\ HeapInv /\ HonestInv /\ [Next]_vars => HonestInv'
    BY LeftNext, RecordedNext, BatchNext, CompleteNext, ClosedDoneNext DEF HonestInv, HeapInv
  <1> QED  BY <1>1, <1>2, FileHolds, HeapHolds, PTL DEF Spec, JoinInv

\* join() returns true exactly if nothing failed since the last join(), and then every file
\* added since is complete and its destination closed.
THEOREM JoinReportsHonestly == Spec => JoinHonest
  <1> DEFINE A == /\ joined' = "ok" <=> failuresNow = 0
                  /\ joined' = "ok" => \A r \in batch : left[r] = 0 /\ fd[FileOf(r)]["dst"] = "closed"
  <1>1. JoinInv /\ [Next]_vars => [JoinReturn => A]_vars
    <2> SUFFICES ASSUME JoinInv, JoinReturn PROVE A  OBVIOUS
    <2>1. /\ alive = {} /\ mpc = "joining" /\ joined' = IF errored THEN "failed" ELSE "ok"
          /\ errored \in BOOLEAN /\ batch \subseteq Runners
      BY DEF JoinInv, HeapInv, ExitInv, CoreInv, JoinReturn, TypeInv, DataTypes, PlaceTypes
    <2>2. cq = <<>>  BY <2>1, NoRunnerNothing DEF JoinInv, HeapInv
    <2>3. ~CqFails /\ ~AliveFails  BY <2>1, <2>2 DEF CqFails, AliveFails
    <2>4. failuresNow \in Nat /\ (failuresNow > 0 <=> errored)
      BY <2>3 DEF JoinInv, HonestInv, RecordedInv
    <2>5. joined' = "ok" <=> ~errored  BY <2>1
    <2>6. joined' = "ok" <=> failuresNow = 0  BY <2>4, <2>5
    <2>7. ASSUME ~errored, NEW r \in batch
          PROVE  left[r] = 0 /\ fd[FileOf(r)]["dst"] = "closed"
      <3>1. left[r] = 0  BY <2>1, <2>7 DEF JoinInv, HonestInv, CompleteInv
      <3>2. FileOf(r) \in Files  BY <2>1, RunnerFacts
      <3>3. Of(FileOf(r)) = {} /\ ToCome(FileOf(r)) = 0  BY <2>1 DEF Of, ToCome, Splitting
      <3>4. Cardinality(Of(FileOf(r))) = 0  BY <3>3, FS_EmptySet
      <3>5. chunksRemaining[FileOf(r)] = 0
        BY <3>2, <3>3, <3>4, ChunksMeaning DEF JoinInv, FileInv
      <3> QED  BY <2>7, <3>1, <3>5 DEF JoinInv, HonestInv, ClosedDoneInv
    <2> QED  BY <2>5, <2>6, <2>7
  <1> QED  BY <1>1, JoinHolds, PTL DEF Spec, JoinHonest

-----------------------------------------------------------------------------
(* Descriptors that are left open.                                         *)

\* A failed read, and the failed creation of an empty file, leave descriptors open.
NoLeakingFault == "read" \notin Faults /\ ("open" \notin Faults \/ \A f \in Files : Chunks[f] > 0)

\* No runner has saved the error of a read, nor will it.
ReadsInv ==
    /\ \A r \in alive : ~savedError[r]
    /\ \A i \in 1..Len(cq) : cq[i].op = "read" => cq[i].res # "fail"

\* A file of which no chunk remains, and that is not just being opened, has nothing open.
LeakInv ==
    \A f \in added : chunksRemaining[f] = 0 /\ ~(f = mfile /\ Opening) => OpenSides(f) = {}

\* Reads do not fail.
LEMMA ReadsNext ==
    ASSUME NoLeakingFault, FileInv, ReadsInv, [Next]_vars
    PROVE  ReadsInv'
  <1> USE DEF mainVars, fdVars, queueVars, lifeVars, runnerVars, submitVars, ringVars, countVars
  <1>0. /\ TypeInv /\ ControlInv /\ RingInv /\ WhereInv /\ SavedInv
        /\ savedError \in [Runners -> BOOLEAN] /\ cq \in Seq(Cqes) /\ Len(cq) \in Nat
        /\ alive \subseteq Runners
    BY DEF FileInv, CoreInv, PlacesInv, FilesInv, TypeInv, DataTypes, RingTypes, PlaceTypes
  <1>1. ASSUME AddCopyJobPartPush PROVE ReadsInv'
    <2>1. mfile \in Files /\ mpart \in 1..PartCount(mfile) /\ mpart \in Nat /\ Splitting
      BY <1>0, <1>1 DEF AddCopyJobPartPush, ControlInv, TypeInv, MainTypes, Splitting
    <2>2. PICK r \in Runners : r = <<mfile, mpart>> /\ FileOf(r) = mfile /\ r[2] = mpart
      BY <2>1, RunnerFacts
    <2>3. ~savedError[r]  BY <1>0, <2>1, <2>2 DEF SavedInv, Future
    <2>4. alive' = alive \cup {r} /\ UNCHANGED <<savedError, cq>>  BY <1>1, <2>2 DEF AddCopyJobPartPush
    <2> QED  BY <2>3, <2>4 DEF ReadsInv
  <1>2. ASSUME HighPriorityOpenError PROVE ReadsInv'
    BY <1>2 DEF HighPriorityOpenError, Delete, ReadsInv
  <1>3. ASSUME FinishEmptyFile PROVE ReadsInv'
    BY <1>3 DEF FinishEmptyFile, Delete, ReadsInv
  <1>4. ASSUME NEW q \in kernel, KernelRead(q) PROVE ReadsInv'
    <2>1. PICK result : /\ cq' = Append(cq, Cqe(q, result)) /\ (result = "fail" => MayFail(q.op))
                        /\ UNCHANGED <<alive, savedError>>
      BY <1>4 DEF KernelRead, Completes
    <2>2. /\ Len(cq') = Len(cq) + 1 /\ \A i \in 1..Len(cq) : cq'[i] = cq[i]
          /\ cq'[Len(cq) + 1] = Cqe(q, result)
      BY <1>0, <2>1
    <2>3. Cqe(q, result).op = "read" => Cqe(q, result).res # "fail"
      BY <2>1 DEF Cqe, MayFail, NoLeakingFault
    <2>4. \A i \in 1..Len(cq') : i \in 1..Len(cq) \/ i = Len(cq) + 1  BY <1>0, <2>2
    <2> QED  BY <2>1, <2>2, <2>3, <2>4 DEF ReadsInv
  <1>5. ASSUME NEW q \in kernel, KernelWrite(q) PROVE ReadsInv'
    <2>1. PICK result : /\ cq' = Append(cq, Cqe(q, result)) /\ (result = "fail" => MayFail(q.op))
                        /\ UNCHANGED <<alive, savedError>>
      BY <1>5 DEF KernelWrite, Completes
    <2>2. /\ Len(cq') = Len(cq) + 1 /\ \A i \in 1..Len(cq) : cq'[i] = cq[i]
          /\ cq'[Len(cq) + 1] = Cqe(q, result)
      BY <1>0, <2>1
    <2>3. Cqe(q, result).op = "read" => Cqe(q, result).res # "fail"
      BY <2>1 DEF Cqe, MayFail, NoLeakingFault
    <2>4. \A i \in 1..Len(cq') : i \in 1..Len(cq) \/ i = Len(cq) + 1  BY <1>0, <2>2
    <2> QED  BY <2>1, <2>2, <2>3, <2>4 DEF ReadsInv
  <1>6. ASSUME OnReadEvent PROVE ReadsInv'
    <2>1. /\ Len(cq) > 0 /\ Head(cq) = cq[1] /\ Head(cq).op = "read" /\ Len(Tail(cq)) = Len(cq) - 1
          /\ \A i \in 1..Len(Tail(cq)) : Tail(cq)[i] = cq[i + 1]
      BY <1>0, <1>6, EventFacts DEF OnReadEvent
    <2>2. Head(cq).res # "fail"  BY <1>0, <2>1 DEF ReadsInv
    <2>3. UNCHANGED <<alive, savedError>> /\ cq' = Tail(cq)  BY <1>6, <2>2 DEF OnReadEvent, Seen
    <2>4. \A i \in 1..Len(cq') : i + 1 \in 1..Len(cq) /\ cq'[i] = cq[i + 1]  BY <1>0, <2>1, <2>3
    <2> QED  BY <2>3, <2>4 DEF ReadsInv
  <1>7. ASSUME OnWriteEventError PROVE ReadsInv'
    <2>1. /\ Len(cq) > 0 /\ Len(Tail(cq)) = Len(cq) - 1
          /\ \A i \in 1..Len(Tail(cq)) : Tail(cq)[i] = cq[i + 1]
      BY <1>0, <1>7, EventFacts DEF OnWriteEventError
    <2>2. cq' = Tail(cq)  BY <1>7 DEF OnWriteEventError, Seen
    <2>3. \A i \in 1..Len(cq') : i + 1 \in 1..Len(cq) /\ cq'[i] = cq[i + 1]  BY <1>0, <2>1, <2>2
    <2>4. \A r \in alive' : ~savedError'[r]
      BY <1>0, <1>7 DEF OnWriteEventError, Delete, SaveError, ReadsInv
    <2> QED  BY <2>3, <2>4 DEF ReadsInv
  <1>8. ASSUME OnWriteEventFinished PROVE ReadsInv'
    <2>1. /\ Len(cq) > 0 /\ Len(Tail(cq)) = Len(cq) - 1
          /\ \A i \in 1..Len(Tail(cq)) : Tail(cq)[i] = cq[i + 1]
      BY <1>0, <1>8, EventFacts DEF OnWriteEventFinished
    <2>2. cq' = Tail(cq)  BY <1>8 DEF OnWriteEventFinished, Seen
    <2>3. \A i \in 1..Len(cq') : i + 1 \in 1..Len(cq) /\ cq'[i] = cq[i + 1]  BY <1>0, <2>1, <2>2
    <2>4. \A r \in alive' : ~savedError'[r]
      BY <1>0, <1>8 DEF OnWriteEventFinished, Delete, SaveError, ReadsInv
    <2> QED  BY <2>3, <2>4 DEF ReadsInv
  <1>9. ASSUME OnWriteEventReschedule PROVE ReadsInv'
    <2>1. /\ Len(cq) > 0 /\ Len(Tail(cq)) = Len(cq) - 1
          /\ \A i \in 1..Len(Tail(cq)) : Tail(cq)[i] = cq[i + 1]
      BY <1>0, <1>9, EventFacts DEF OnWriteEventReschedule
    <2>2. cq' = Tail(cq)  BY <1>9 DEF OnWriteEventReschedule, Seen
    <2>3. \A i \in 1..Len(cq') : i + 1 \in 1..Len(cq) /\ cq'[i] = cq[i + 1]  BY <1>0, <2>1, <2>2
    <2>4. \A r \in alive' : ~savedError'[r]
      BY <1>0, <1>9 DEF OnWriteEventReschedule, Delete, SaveError, ReadsInv
    <2> QED  BY <2>3, <2>4 DEF ReadsInv
  <1>10. CASE UNCHANGED <<alive, savedError, cq>>
    BY <1>10 DEF ReadsInv
  <1> QED
    BY <1>1, <1>2, <1>3, <1>4, <1>5, <1>6, <1>7, <1>8, <1>9, <1>10
    DEF Next, AddStep, SubmitStep, KernelStep, vars, mainVars, fdVars, queueVars, lifeVars,
        runnerVars, submitVars, ringVars, countVars, AddCopyJob, LowPriorityLoad,
        LowPriorityOpen, AddCopyJobPartTotal, Start, Join, JoinReturn, StopAdding, TakeBlock,
        PickContinue, PickStart, PickNothing, HighPriorityLoad, HighPriorityRetry,
        HighPriorityOpen, AddToBatch, Submit, SubmitNothing, NextRound, SubmitExit, Terminated

\* The last chunk of a file closes what is open.
LEMMA LeakNext ==
    ASSUME NoLeakingFault, FileInv, ReadsInv, LeakInv, [Next]_vars
    PROVE  LeakInv'
  <1> USE DEF mainVars, fdVars, queueVars, lifeVars, runnerVars, submitVars, ringVars, countVars
  <1>0. /\ CoreInv /\ TypeInv /\ ControlInv /\ RingInv /\ WhereInv /\ ChunksCounted
        /\ added \subseteq Files /\ fd \in [Files -> [Sides -> {"never", "open", "closed"}]]
    BY DEF FileInv, CoreInv, PlacesInv, TypeInv, MainTypes, FdTypes
  <1> SUFFICES ASSUME NEW f \in added', chunksRemaining'[f] = 0, ~(f = mfile /\ Opening)'
               PROVE  OpenSides(f)' = {}
    BY DEF LeakInv
  <1>1. f \in added
    <2>1. CASE f \notin added
      <3>1. PICK g \in Files : AddCopyJob(g)
        BY <2>1 DEF Next, AddStep, SubmitStep, KernelStep, Completes, vars, LowPriorityLoad,
            LowPriorityOpen, AddCopyJobPartTotal, AddCopyJobPartPush, Start, Join, JoinReturn,
            StopAdding, TakeBlock, PickContinue, PickStart, PickNothing, HighPriorityLoad,
            HighPriorityRetry, HighPriorityOpen, HighPriorityOpenError, FinishEmptyFile,
            AddToBatch, Submit, SubmitNothing, KernelRead, KernelWrite, OnReadEvent,
            OnWriteEventError, OnWriteEventFinished, OnWriteEventReschedule, NextRound,
            SubmitExit, Terminated
      <3>2. f = g /\ mfile' = g /\ mpc' = "load"  BY <2>1, <3>1 DEF AddCopyJob
      <3> QED  BY <3>2 DEF Opening
    <2> QED  BY <2>1
  <1>2. ~(f = mfile /\ Opening)
    <2>1. ASSUME f = mfile, Opening PROVE FALSE
      <3>1. mfile \in Files /\ PartCount(mfile) \in Nat \ {0} /\ chunksRemaining \in [Files -> Int]
        BY <1>0, <1>1, <2>1, RunnerFacts DEF TypeInv, FdTypes
      <3>2. CASE LowPriorityLoad \/ LowPriorityOpen
        <4>1. mfile' = mfile  BY <3>2 DEF LowPriorityLoad, LowPriorityOpen
        <4>2. mpc' \in {"load", "cas"} \/ chunksRemaining'[mfile] = PartCount(mfile)
          BY <3>1, <3>2 DEF LowPriorityLoad, LowPriorityOpen, NextDescriptor
        <4> QED  BY <2>1, <3>1, <4>1, <4>2 DEF Opening
      <3>3. CASE UNCHANGED <<mpc, mfile>>  BY <2>1, <3>3 DEF Opening
      <3> QED
        BY <2>1, <3>2, <3>3 DEF Opening, Next, AddStep, SubmitStep, KernelStep, Completes, vars,
            AddCopyJob, AddCopyJobPartTotal, AddCopyJobPartPush, Start, Join, JoinReturn,
            StopAdding, TakeBlock, PickContinue, PickStart, PickNothing, HighPriorityLoad,
            HighPriorityRetry, HighPriorityOpen, HighPriorityOpenError, FinishEmptyFile,
            AddToBatch, Submit, SubmitNothing, KernelRead, KernelWrite, OnReadEvent,
            OnWriteEventError, OnWriteEventFinished, OnWriteEventReschedule, NextRound,
            SubmitExit, Terminated
    <2> QED  BY <2>1
  <1>3. CASE /\ chunksRemaining[f] = 0
             /\ \A s \in Sides : fd'[f][s] = "open" => fd[f][s] = "open"
    <2>1. OpenSides(f) = {}  BY <1>1, <1>2, <1>3 DEF LeakInv
    <2> QED  BY <1>3, <2>1 DEF OpenSides
  <1>4. CASE HighPriorityOpenError /\ LastChunk(f) /\ f = FileOf(toAdd)
    <2>1. Size(toAdd) > 0
      <3>1. \A g \in Files : Chunks[g] > 0  BY <1>4 DEF HighPriorityOpenError, MayFail, NoLeakingFault
      <3> QED  BY <1>0, <1>1, <1>4, <3>1, QueueAssumption DEF Size
    <2>2. fd' = Closed(f)  BY <1>4, <2>1 DEF HighPriorityOpenError
    <2> QED  BY <1>0, <1>1, <1>4, <2>2, LastCloses
  <1>5. CASE FinishEmptyFile /\ LastChunk(f) /\ f = FileOf(toAdd)
    BY <1>0, <1>1, <1>5, LastCloses DEF FinishEmptyFile, HandleFileClose
  <1>6. CASE OnWriteEventError /\ LastChunk(f) /\ f = FileOf(Head(cq).r)
    <2>1. Head(cq).r \in alive  BY <1>0, <1>6, EventPlaces DEF OnWriteEventError, WhereInv
    <2>2. ~savedError[Head(cq).r]  BY <2>1 DEF ReadsInv
    <2>3. fd' = Closed(f)  BY <1>6, <2>2 DEF OnWriteEventError, SaveError, HandleFileClose
    <2> QED  BY <1>0, <1>1, <1>6, <2>3, LastCloses
  <1>7. CASE OnWriteEventFinished /\ LastChunk(f) /\ f = FileOf(Head(cq).r)
    BY <1>0, <1>1, <1>7, LastCloses DEF OnWriteEventFinished, HandleFileClose
  <1>8. \/ /\ chunksRemaining[f] = 0
           /\ \A s \in Sides : /\ fd[f][s] = "closed" => fd'[f][s] = "closed"
                               /\ fd'[f][s] = "open" => fd[f][s] = "open"
        \/ HighPriorityOpenError /\ LastChunk(f) /\ f = FileOf(toAdd)
        \/ FinishEmptyFile /\ LastChunk(f) /\ f = FileOf(toAdd)
        \/ OnWriteEventError /\ LastChunk(f) /\ f = FileOf(Head(cq).r)
        \/ OnWriteEventFinished /\ LastChunk(f) /\ f = FileOf(Head(cq).r)
    BY <1>0, <1>1, <1>2, DoneStep
  <1> QED  BY <1>3, <1>4, <1>5, <1>6, <1>7, <1>8

\* The debug_assert in ~QueueFileDescriptor: if no read fails, and every file that fails to
\* open has something to copy, a descriptor object is not deleted while its file is open,
\* whichever writes and closes fail.
THEOREM NothingLeftOpen ==
    ASSUME NoLeakingFault
    PROVE  Spec => []NoDescriptorLeak
  <1>1. Init => ReadsInv /\ LeakInv  BY DEF Init, ReadsInv, LeakInv
  <1>2. FileInv /\ ReadsInv /\ LeakInv /\ [Next]_vars => ReadsInv' /\ LeakInv'
    BY ReadsNext, LeakNext
  <1>3. LeakInv => NoDescriptorLeak  BY DEF LeakInv, NoDescriptorLeak
  <1> QED  BY <1>1, <1>2, <1>3, FileHolds, PTL DEF Spec

-----------------------------------------------------------------------------
(* The bytes the progress bar shows.                                       *)

\* A byte is named by its runner and its place in the chunk; a chunk is written from its
\* end, as what is left of it shrinks.
AllBytes == Runners \X (1..ChunkBytes)
Pushing(r) == mpc = "push" /\ r = <<mfile, mpart>>
CopiedBytes == {x \in AllBytes : x[1] \in batch /\ x[2] > left[x[1]] /\ x[2] <= Size(x[1])}
ToCopyBytes == {x \in AllBytes : (x[1] \in batch \/ Pushing(x[1])) /\ x[2] <= Size(x[1])}

\* The two counters count bytes, each once.
BytesInv ==
    /\ totalBytesCopied = Cardinality(CopiedBytes)
    /\ totalBytesToCopy = Cardinality(ToCopyBytes)

\* There are finitely many bytes.
LEMMA BytesFinite == IsFiniteSet(CopiedBytes) /\ IsFiniteSet(ToCopyBytes)
  <1>1. IsFiniteSet(AllBytes)
    <2>1. \A n \in Nat : IsFiniteSet(1..n)  BY FS_Interval
    <2>2. IsFiniteSet(1..ChunkBytes)  BY <2>1, QueueAssumption
    <2> QED  BY <2>2, RunnersFinite, FS_Product DEF AllBytes
  <1>2. CopiedBytes \subseteq AllBytes /\ ToCopyBytes \subseteq AllBytes
    BY DEF CopiedBytes, ToCopyBytes
  <1> QED  BY <1>1, <1>2, FS_Subset

\* Further bytes of one runner, and how many they are.
Slice(r, a, b) == {r} \X ((a + 1)..b)

LEMMA AddSlice ==
    ASSUME NEW S, IsFiniteSet(S), NEW r, NEW a \in Nat, NEW b \in Nat, a <= b,
           S \cap Slice(r, a, b) = {}
    PROVE  Cardinality(S \cup Slice(r, a, b)) = Cardinality(S) + (b - a)
  <1> DEFINE I == (a + 1)..b
             T == Slice(r, a, b)
  <1>1. IsFiniteSet(I) /\ Cardinality(I) = b - a
    <2>1. a + 1 \in Int /\ b \in Int  OBVIOUS
    <2>2. /\ IsFiniteSet((a + 1)..b)
          /\ Cardinality((a + 1)..b) = IF a + 1 > b THEN 0 ELSE b - (a + 1) + 1
      BY <2>1, FS_Interval
    <2> QED  BY <2>2
  <1>2. IsFiniteSet({r}) /\ Cardinality({r}) = 1  BY FS_Singleton
  <1>3. T = {r} \X I  BY DEF Slice
  <1> HIDE DEF I
  <1>4. IsFiniteSet(T) /\ Cardinality(T) = Cardinality({r}) * Cardinality(I)
    <2>1. IsFiniteSet({r} \X I) /\ Cardinality({r} \X I) = Cardinality({r}) * Cardinality(I)
      BY <1>1, <1>2, FS_Product
    <2> HIDE DEF T
    <2> QED  BY <1>3, <2>1
  <1>5. Cardinality(T) = b - a  BY <1>1, <1>2, <1>4
  <1>6. Cardinality(S \cup T) = Cardinality(S) + Cardinality(T) - Cardinality(S \cap T)
    BY <1>4, FS_Union
  <1>7. Cardinality(S) \in Nat  BY FS_CardinalityType
  <1>8. Cardinality(S \cap T) = 0  BY FS_EmptySet
  <1> QED  BY <1>5, <1>6, <1>7, <1>8

\* A write shrinks what is left of a runner's chunk, and adds as much to what is copied.
LEMMA CopySlice ==
    ASSUME JoinInv, BytesInv, NEW r \in batch, NEW n \in 0..left[r],
           left' = [left EXCEPT ![r] = n], totalBytesCopied' = totalBytesCopied + (left[r] - n),
           UNCHANGED <<batch, mpc, mfile, mpart, totalBytesToCopy>>
    PROVE  BytesInv'
  <1>0. /\ batch \subseteq Runners /\ left \in [Runners -> 0..ChunkBytes] /\ ChunkBytes \in Nat
        /\ \A x \in Runners : /\ Size(x) \in 0..ChunkBytes /\ left[x] <= Size(x)
                              /\ Size(x)' = Size(x)
    BY QueueAssumption, RunnerFacts
    DEF JoinInv, FileInv, CoreInv, TypeInv, PlaceTypes, DataTypes, HonestInv, LeftInv, Size, FileOf
  <1>1. r \in Runners /\ left[r] \in Nat /\ n \in Nat /\ n <= left[r] /\ left[r] <= Size(r)
    BY <1>0
  <1> DEFINE T == Slice(r, n, left[r])
  <1>2. \A x \in Runners : left'[x] = IF x = r THEN n ELSE left[x]  BY <1>0, <1>1
  <1>3. CopiedBytes' = CopiedBytes \cup T
    <2>1. ASSUME NEW x \in AllBytes
          PROVE  x \in CopiedBytes' <=> x \in CopiedBytes \/ x \in T
      <3>1. x = <<x[1], x[2]>> /\ x[1] \in Runners /\ x[2] \in Nat  BY <1>0 DEF AllBytes
      <3>2. x \in CopiedBytes <=> x[1] \in batch /\ x[2] > left[x[1]] /\ x[2] <= Size(x[1])
        BY DEF CopiedBytes
      <3>3. x \in CopiedBytes' <=> x[1] \in batch /\ x[2] > left'[x[1]] /\ x[2] <= Size(x[1])
        BY <1>0, <3>1 DEF CopiedBytes, AllBytes
      <3>4. x \in T <=> x[1] = r /\ x[2] > n /\ x[2] <= left[r]  BY <1>1, <3>1 DEF Slice
      <3>5. Size(r) \in Nat  BY <1>0, <1>1
      <3> HIDE DEF T
      <3> QED  BY <1>1, <1>2, <3>1, <3>2, <3>3, <3>4, <3>5
    <2>2. T \subseteq AllBytes  BY <1>0, <1>1 DEF AllBytes, Slice
    <2>3. CopiedBytes \subseteq AllBytes /\ CopiedBytes' \subseteq AllBytes
      BY DEF CopiedBytes, AllBytes
    <2> QED  BY <2>1, <2>2, <2>3
  <1>4. CopiedBytes \cap T = {}
    BY <1>1 DEF CopiedBytes, Slice
  <1>5. Cardinality(CopiedBytes \cup T) = Cardinality(CopiedBytes) + (left[r] - n)
    BY <1>1, <1>4, BytesFinite, AddSlice
  <1>6. ToCopyBytes' = ToCopyBytes  BY <1>0 DEF ToCopyBytes, AllBytes, Pushing
  <1> QED  BY <1>3, <1>5, <1>6 DEF BytesInv

\* Both counters stay right.
LEMMA BytesNext ==
    ASSUME JoinInv, BytesInv, [Next]_vars
    PROVE  BytesInv'
  <1> USE DEF mainVars, fdVars, queueVars, lifeVars, runnerVars, submitVars, ringVars, countVars
  <1>0. /\ CoreInv /\ TypeInv /\ ControlInv /\ RingInv /\ WhereInv
        /\ batch \subseteq Runners /\ left \in [Runners -> 0..ChunkBytes] /\ ChunkBytes \in Nat
        /\ \A x \in Runners : /\ Size(x) \in 0..ChunkBytes /\ left[x] <= Size(x)
                              /\ Size(x)' = Size(x)
                              /\ Future(x) => x \notin batch /\ left[x] = Size(x)
        /\ alive \subseteq batch
    BY QueueAssumption, RunnerFacts
    DEF JoinInv, FileInv, CoreInv, PlacesInv, TypeInv, PlaceTypes, DataTypes, HonestInv, LeftInv,
        BatchInv, Size, FileOf
  <1>1. ASSUME Splitting
        PROVE  <<mfile, mpart>> \in Runners /\ Future(<<mfile, mpart>>)
    <2>1. mfile \in Files /\ mpart \in 1..PartCount(mfile) /\ mpart \in Nat
      BY <1>0, <1>1 DEF ControlInv, TypeInv, MainTypes, Splitting
    <2>2. PICK r \in Runners : r = <<mfile, mpart>> /\ FileOf(r) = mfile /\ r[2] = mpart
      BY <2>1, RunnerFacts
    <2> QED  BY <1>1, <2>1, <2>2 DEF Future
  <1>2. ASSUME AddCopyJobPartTotal PROVE BytesInv'
    <2>1. PICK r \in Runners : r = <<mfile, mpart>> /\ Future(r)
      BY <1>1, <1>2 DEF AddCopyJobPartTotal, Splitting
    <2> DEFINE T == Slice(r, 0, Size(r))
    <2>2. /\ UNCHANGED <<batch, left, mfile, mpart, totalBytesCopied>> /\ mpc # "push" /\ mpc' = "push"
          /\ totalBytesToCopy' = totalBytesToCopy + Size(r)
      BY <1>2, <2>1 DEF AddCopyJobPartTotal, CountPart
    <2>3. r \notin batch /\ Size(r) \in Nat /\ Size(r) <= ChunkBytes  BY <1>0, <2>1
    <2>4. ToCopyBytes' = ToCopyBytes \cup T
      <3>1. ASSUME NEW x \in AllBytes PROVE x \in ToCopyBytes' <=> x \in ToCopyBytes \/ x \in T
        <4>1. x = <<x[1], x[2]>> /\ x[1] \in Runners /\ x[2] \in 1..ChunkBytes
          BY DEF AllBytes
        <4>2. x \in ToCopyBytes <=> x[1] \in batch /\ x[2] <= Size(x[1])
          BY <2>2 DEF ToCopyBytes, Pushing
        <4>3. x \in ToCopyBytes' <=> (x[1] \in batch \/ x[1] = r) /\ x[2] <= Size(x[1])
          BY <1>0, <2>1, <2>2, <4>1 DEF ToCopyBytes, AllBytes, Pushing
        <4>4. x \in T <=> x[1] = r /\ x[2] <= Size(r)  BY <1>0, <2>3, <4>1 DEF Slice
        <4> HIDE DEF T
        <4> QED  BY <4>2, <4>3, <4>4
      <3>2. T \subseteq AllBytes  BY <1>0, <2>3 DEF AllBytes, Slice
      <3>3. ToCopyBytes \subseteq AllBytes /\ ToCopyBytes' \subseteq AllBytes
        BY DEF ToCopyBytes, AllBytes
      <3> QED  BY <3>1, <3>2, <3>3
    <2>5. ToCopyBytes \cap T = {}  BY <2>2, <2>3 DEF ToCopyBytes, Pushing, Slice
    <2>6. 0 \in Nat /\ 0 <= Size(r)  BY <2>3
    <2>7. Cardinality(ToCopyBytes \cup T) = Cardinality(ToCopyBytes) + (Size(r) - 0)
      BY <2>3, <2>5, <2>6, BytesFinite, AddSlice
    <2>8. CopiedBytes' = CopiedBytes  BY <1>0, <2>2 DEF CopiedBytes, AllBytes
    <2>9. Size(r) - 0 = Size(r)  BY <2>3
    <2> QED  BY <2>2, <2>4, <2>7, <2>8, <2>9 DEF BytesInv
  <1>3. ASSUME AddCopyJobPartPush PROVE BytesInv'
    <2>1. PICK r \in Runners : r = <<mfile, mpart>> /\ Future(r)
      BY <1>1, <1>3 DEF AddCopyJobPartPush, Splitting
    <2>2. /\ UNCHANGED <<left, totalBytesCopied, totalBytesToCopy>> /\ mpc = "push" /\ mpc' # "push"
          /\ batch' = batch \cup {r}
      BY <1>3, <2>1 DEF AddCopyJobPartPush
    <2>3. ToCopyBytes' = ToCopyBytes
      BY <1>0, <2>1, <2>2 DEF ToCopyBytes, AllBytes, Pushing
    <2>4. CopiedBytes' = CopiedBytes
      <3>1. ASSUME NEW x \in AllBytes PROVE x \in CopiedBytes' <=> x \in CopiedBytes
        <4>1. x[1] \in Runners /\ x[2] \in Nat  BY <1>0 DEF AllBytes
        <4>2. x \in CopiedBytes <=> x[1] \in batch /\ x[2] > left[x[1]] /\ x[2] <= Size(x[1])
          BY DEF CopiedBytes
        <4>3. x \in CopiedBytes' <=>
                 (x[1] \in batch \/ x[1] = r) /\ x[2] > left[x[1]] /\ x[2] <= Size(x[1])
          BY <1>0, <2>2, <4>1 DEF CopiedBytes, AllBytes
        <4>4. x[1] = r => left[x[1]] = Size(x[1]) /\ Size(x[1]) \in Nat  BY <1>0, <2>1
        <4> QED  BY <4>1, <4>2, <4>3, <4>4
      <3>2. CopiedBytes \subseteq AllBytes /\ CopiedBytes' \subseteq AllBytes
        BY DEF CopiedBytes, AllBytes
      <3> QED  BY <3>1, <3>2
    <2> QED  BY <2>2, <2>3, <2>4 DEF BytesInv
  <1>4. ASSUME JoinReturn PROVE BytesInv'
    <2>1. batch' = {} /\ mpc' # "push" /\ totalBytesToCopy' = 0 /\ totalBytesCopied' = 0
      BY <1>4 DEF JoinReturn, ResetSession
    <2>2. CopiedBytes' = {} /\ ToCopyBytes' = {}
      BY <2>1 DEF CopiedBytes, ToCopyBytes, Pushing
    <2> QED  BY <2>1, <2>2, FS_EmptySet DEF BytesInv
  <1>5. ASSUME OnWriteEventFinished PROVE BytesInv'
    <2>1. PICK r \in Runners : r = Head(cq).r /\ r \in InRing
      BY <1>0, <1>5, EventPlaces DEF OnWriteEventFinished, InRing
    <2>2. r \in batch  BY <1>0, <2>1 DEF WhereInv
    <2>3. /\ left' = [left EXCEPT ![r] = 0] /\ totalBytesCopied' = totalBytesCopied + left[r]
          /\ UNCHANGED <<batch, mpc, mfile, mpart, totalBytesToCopy>>
      BY <1>5, <2>1 DEF OnWriteEventFinished
    <2>4. left[r] \in Nat /\ left[r] - 0 = left[r] /\ 0 \in 0..left[r]  BY <1>0, <2>1
    <2> QED  BY <2>2, <2>3, <2>4, CopySlice
  <1>6. ASSUME OnWriteEventReschedule PROVE BytesInv'
    <2> DEFINE written == IF Head(cq).res = "some" THEN left[Head(cq).r] \div 2 ELSE 0
    <2>1. PICK r \in Runners : r = Head(cq).r /\ r \in InRing
      BY <1>0, <1>6, EventPlaces DEF OnWriteEventReschedule, InRing
    <2>2. r \in batch  BY <1>0, <2>1 DEF WhereInv
    <2>3. /\ left' = [left EXCEPT ![r] = @ - written] /\ totalBytesCopied' = totalBytesCopied + written
          /\ UNCHANGED <<batch, mpc, mfile, mpart, totalBytesToCopy>>
      BY <1>6, <2>1 DEF OnWriteEventReschedule
    <2>4. written \in 0..left[r] /\ left[r] \in Nat  BY <1>0, <2>1
    <2> HIDE DEF written
    <2>5. left[r] - written \in 0..left[r] /\ left[r] - (left[r] - written) = written  BY <2>4
    <2>6. left' = [left EXCEPT ![r] = left[r] - written]  BY <1>0, <2>1, <2>3
    <2> QED  BY <2>2, <2>3, <2>5, <2>6, CopySlice
  <1>7. CASE /\ UNCHANGED <<batch, left, totalBytesToCopy, totalBytesCopied>>
             /\ mpc = "push" <=> mpc' = "push"
             /\ mpc = "push" => UNCHANGED <<mfile, mpart>>
    BY <1>0, <1>7 DEF BytesInv, CopiedBytes, ToCopyBytes, AllBytes, Pushing
  <1> QED
    BY <1>2, <1>3, <1>4, <1>5, <1>6, <1>7 DEF Next, AddStep, SubmitStep, KernelStep, Completes,
        NextDescriptor, vars, AddCopyJob, LowPriorityLoad, LowPriorityOpen, Start, Join,
        StopAdding, TakeBlock, PickContinue, PickStart, PickNothing, HighPriorityLoad,
        HighPriorityRetry, HighPriorityOpen, HighPriorityOpenError, FinishEmptyFile, AddToBatch,
        Submit, SubmitNothing, KernelRead, KernelWrite, OnReadEvent, OnWriteEventError,
        NextRound, SubmitExit, Terminated

\* The progress thread reads the two counters while the others change them: the bytes
\* copied never exceed the bytes to copy, because a part is counted before it can be seen.
THEOREM ProgressWithinTotal == Spec => []CopiedWithinTotal
  <1>1. Init => BytesInv
    <2> SUFFICES ASSUME Init PROVE BytesInv  OBVIOUS
    <2>1. CopiedBytes = {} /\ ToCopyBytes = {}
      BY DEF Init, CopiedBytes, ToCopyBytes, Pushing
    <2> QED  BY <2>1, FS_EmptySet DEF Init, BytesInv
  <1>2. JoinInv /\ BytesInv /\ [Next]_vars => BytesInv'  BY BytesNext
  <1>3. BytesInv => CopiedWithinTotal
    <2>1. CopiedBytes \subseteq ToCopyBytes  BY DEF CopiedBytes, ToCopyBytes
    <2>2. Cardinality(CopiedBytes) <= Cardinality(ToCopyBytes)  BY <2>1, BytesFinite, FS_Subset
    <2> QED  BY <2>2 DEF BytesInv, CopiedWithinTotal
  <1> QED  BY <1>1, <1>2, <1>3, JoinHolds, PTL DEF Spec

-----------------------------------------------------------------------------
(* Types.                                                                  *)

\* What the threads have seen of the counter is not negative.
SeenInv == mseen \in Nat /\ sseen \in Nat

\* Every counter is a natural number, and a runner has at most two requests in the ring.
THEOREM TypeCorrect == Spec => []TypeOK
  <1>1. Init => SeenInv  BY DEF Init, SeenInv
  <1>2. TypeInv /\ BudgetInv => fileDescriptorsUsed \in Nat
    <2> SUFFICES ASSUME TypeInv, BudgetInv PROVE fileDescriptorsUsed \in Nat  OBVIOUS
    <2>1. Cardinality(OpenDescriptors) \in Nat  BY OpenFinite
    <2> QED  BY <2>1 DEF TypeInv, FdTypes, BudgetInv, FdBudget, RESERVED_FD_COUNT
  <1>3. TypeInv /\ BudgetInv /\ SeenInv /\ [Next]_vars => SeenInv'
    <2> SUFFICES ASSUME TypeInv, BudgetInv, SeenInv, [Next]_vars PROVE SeenInv'  OBVIOUS
    <2> USE DEF mainVars, fdVars, queueVars, lifeVars, runnerVars, submitVars, ringVars, countVars
    <2>1. CASE LowPriorityLoad  BY <1>2, <2>1 DEF LowPriorityLoad, SeenInv
    <2>2. CASE HighPriorityLoad  BY <1>2, <2>2 DEF HighPriorityLoad, SeenInv
    <2>3. CASE UNCHANGED <<mseen, sseen>>  BY <2>3 DEF SeenInv
    <2> QED
      BY <2>1, <2>2, <2>3 DEF Next, AddStep, SubmitStep, KernelStep, Completes, vars,
          AddCopyJob, LowPriorityOpen, AddCopyJobPartTotal, AddCopyJobPartPush, Start, Join,
          JoinReturn, StopAdding, TakeBlock, PickContinue, PickStart, PickNothing,
          HighPriorityRetry, HighPriorityOpen, HighPriorityOpenError, FinishEmptyFile,
          AddToBatch, Submit, SubmitNothing, KernelRead, KernelWrite, OnReadEvent,
          OnWriteEventError, OnWriteEventFinished, OnWriteEventReschedule, NextRound,
          SubmitExit, Terminated
  <1>4. FileInv /\ BudgetInv /\ SeenInv => TypeOK
    <2> SUFFICES ASSUME FileInv, BudgetInv, SeenInv PROVE TypeOK  OBVIOUS
    <2>1. TypeInv /\ ControlInv /\ JobsInv /\ RoomInv /\ ChunksCounted
      BY DEF FileInv, CoreInv, PlacesInv
    <2>2. chunksRemaining \in [Files -> Nat]
      <3>1. ASSUME NEW f \in Files PROVE chunksRemaining[f] \in Nat
        <4>1. chunksRemaining[f] = Cardinality(Of(f)) + ToCome(f)  BY <2>1, ChunksMeaning
        <4>2. Cardinality(Of(f)) \in Nat /\ ToCome(f) \in Nat  BY <2>1, OfFinite, ToComeFacts
        <4> QED  BY <4>1, <4>2
      <3>2. chunksRemaining \in [Files -> Int]  BY <2>1 DEF TypeInv, FdTypes
      <3> QED  BY <3>1, <3>2
    <2>3. submissionsRunning \in Nat
      <3>1. Cardinality(kernel) \in Nat  BY <2>1, FS_CardinalityType DEF RoomInv
      <3>2. Len(sq) \in Nat /\ Len(cq) \in Nat  BY <2>1 DEF TypeInv, RingTypes
      <3> QED  BY <2>1, <3>1, <3>2 DEF RoomInv
    <2>4. jobsRunning \in [Runners -> 0..MAX_JOBS_PER_RUNNER]
      <3>1. ASSUME NEW r \in Runners PROVE jobsRunning[r] \in 0..2
        <4> DEFINE reads == IF <<r, "read">> \in Outstanding THEN 1 ELSE 0
                   writes == IF <<r, "write">> \in Outstanding THEN 1 ELSE 0
        <4>1. jobsRunning[r] = reads + writes  BY <2>1 DEF JobsInv
        <4>2. reads \in 0..1 /\ writes \in 0..1  OBVIOUS
        <4> HIDE DEF reads, writes
        <4> QED  BY <4>1, <4>2
      <3> QED  BY <2>1, <3>1 DEF TypeInv, RingTypes, MAX_JOBS_PER_RUNNER
    <2>5. fileDescriptorsUsed \in Nat  BY <1>2, <2>1
    <2> QED  BY <2>1, <2>2, <2>3, <2>4, <2>5 DEF TypeInv, MainTypes, FdTypes, PlaceTypes,
                 BlockTypes, DataTypes, RingTypes, Cqes, SeenInv, TypeOK
  <1>5. FileInv => TypeInv  BY DEF FileInv, CoreInv
  <1> QED  BY <1>1, <1>3, <1>4, <1>5, FileHolds, BudgetHolds, PTL DEF Spec

-----------------------------------------------------------------------------
(* The runners behave as RunnerService says, which CopyRunner implements.  *)

\* The runners that have something to copy, and what a runner is doing.
Copiers == {r \in Runners : Size(r) > 0}
Expected(r) == r \in alive \/ Future(r)
RunnerPhase(r) ==
    IF jobsRunning[r] > 0 THEN "running"
    ELSE IF Expected(r) THEN "waiting"
    ELSE IF left[r] = 0 THEN "finished" ELSE "failed"

\* A runner of the queue as one of the service.
Runner(r) == INSTANCE RunnerService WITH
    phase <- RunnerPhase(r),
    readDone <- readDone[r],
    left <- left[r],
    jobs <- jobsRunning[r],
    broken <- savedError[r]

\* A runner exists as long as something is left to write.
UnfinishedInv == \A r \in alive : Size(r) > 0 => left[r] > 0

\* It goes on to hold: a write that falls short leaves something.
LEMMA UnfinishedNext ==
    ASSUME JoinInv, UnfinishedInv, [Next]_vars
    PROVE  UnfinishedInv'
  <1> USE DEF mainVars, fdVars, queueVars, lifeVars, runnerVars, submitVars, ringVars, countVars
  <1>0. /\ TypeInv /\ ControlInv /\ left \in [Runners -> 0..ChunkBytes] /\ ChunkBytes \in Nat
        /\ alive \subseteq Runners /\ LeftInv
        /\ \A r \in Runners : Size(r) \in Nat /\ (Size(r))' = Size(r)
    BY QueueAssumption, RunnerFacts
    DEF JoinInv, HeapInv, CoreInv, HonestInv, TypeInv, DataTypes, PlaceTypes, Size, FileOf
  <1>1. ASSUME OnWriteEventFinished PROVE UnfinishedInv'
    <2>1. PICK r \in Runners : r = Head(cq).r  BY <1>0, <1>1, EventFacts DEF OnWriteEventFinished
    <2>2. /\ \A x \in Runners : x # r => left'[x] = left[x]
          /\ alive' = alive \ {r}
      BY <1>0, <1>1, <2>1 DEF OnWriteEventFinished, Delete
    <2> QED  BY <1>0, <2>2 DEF UnfinishedInv
  <1>2. ASSUME OnWriteEventReschedule PROVE UnfinishedInv'
    <2>1. PICK r \in Runners : r = Head(cq).r  BY <1>0, <1>2, EventFacts DEF OnWriteEventReschedule
    <2>2. PICK w \in Nat : /\ w = IF Head(cq).res = "some" THEN left[r] \div 2 ELSE 0
                           /\ left[r] > 0 => left[r] - w > 0
      BY <1>0
    <2>3. left' = [left EXCEPT ![r] = @ - w] /\ alive' = alive
      BY <1>2, <2>1, <2>2 DEF OnWriteEventReschedule
    <2>4. \A x \in Runners : left'[x] = IF x = r THEN left[r] - w ELSE left[x]  BY <1>0, <2>3
    <2> QED  BY <1>0, <2>2, <2>3, <2>4 DEF UnfinishedInv
  <1>3. ASSUME AddCopyJobPartPush PROVE UnfinishedInv'
    <2>1. mfile \in Files /\ mpart \in 1..PartCount(mfile) /\ mpart \in Nat /\ mpc = "push"
      BY <1>0, <1>3, RunnerFacts DEF AddCopyJobPartPush, ControlInv, TypeInv, MainTypes
    <2>2. PICK r \in Runners : r = <<mfile, mpart>> /\ FileOf(r) = mfile /\ r[2] = mpart
      BY <2>1, RunnerFacts
    <2>3. Future(r)  BY <2>1, <2>2 DEF Future, Splitting
    <2>4. left[r] = Size(r)  BY <1>0, <2>3 DEF LeftInv
    <2>5. alive' = alive \cup {r} /\ left' = left  BY <1>3, <2>2 DEF AddCopyJobPartPush
    <2> QED  BY <1>0, <2>4, <2>5 DEF UnfinishedInv
  <1>4. CASE alive' \subseteq alive /\ UNCHANGED left
    BY <1>0, <1>4 DEF UnfinishedInv
  <1> QED
    BY <1>1, <1>2, <1>3, <1>4
    DEF Next, AddStep, SubmitStep, KernelStep, vars, AddCopyJob, LowPriorityLoad,
        LowPriorityOpen, AddCopyJobPartTotal, Start, Join, JoinReturn, StopAdding, TakeBlock,
        PickContinue, PickStart, PickNothing, HighPriorityLoad, HighPriorityRetry,
        HighPriorityOpen, HighPriorityOpenError, FinishEmptyFile, AddToBatch, Submit,
        SubmitNothing, KernelRead, KernelWrite, OnReadEvent, OnWriteEventError, NextRound,
        SubmitExit, Terminated, Completes, Delete

\* A runner that is still to be pushed stays so until it is pushed.
LEMMA FuturePushed ==
    ASSUME TypeInv, ControlInv, [Next]_vars, NEW r \in Runners, Future(r), ~Future(r)'
    PROVE  AddCopyJobPartPush /\ r = <<mfile, mpart>>
  <1> USE DEF mainVars, fdVars, queueVars, lifeVars, runnerVars, submitVars, ringVars, countVars
  <1>0. /\ r[2] \in Nat /\ r[2] >= 1 /\ mpart \in Nat /\ FileOf(r) \in Files
        /\ r = <<FileOf(r), r[2]>> /\ r[2] <= PartCount(FileOf(r))
    <2>1. r[2] \in 1..PartCount(FileOf(r)) /\ PartCount(FileOf(r)) \in Nat  BY RunnerFacts
    <2> QED  BY <2>1, RunnerFacts DEF TypeInv, MainTypes
  <1>1. ASSUME NEW f \in Files, AddCopyJob(f) PROVE Future(r)'
    BY <1>1, <1>0 DEF AddCopyJob, Future, FileOf, Opening, Splitting
  <1>2. ASSUME LowPriorityLoad PROVE Future(r)'
    BY <1>2, <1>0 DEF LowPriorityLoad, NextDescriptor, Future, FileOf, Opening, Splitting
  <1>3. ASSUME LowPriorityOpen PROVE Future(r)'
    <2>1. /\ UNCHANGED <<mfile, added>> /\ Opening /\ ~Splitting
          /\ (Opening' \/ (Splitting' /\ mpart' = 1))
      BY <1>3 DEF LowPriorityOpen, NextDescriptor, Opening, Splitting
    <2> QED  BY <2>1, <1>0 DEF Future, FileOf
  <1>4. ASSUME AddCopyJobPartTotal PROVE Future(r)'
    BY <1>4, <1>0 DEF AddCopyJobPartTotal, Future, FileOf, Opening, Splitting
  <1>5. ASSUME AddCopyJobPartPush PROVE r = <<mfile, mpart>>
    <2>1. /\ mpc = "push" /\ UNCHANGED added /\ ~Opening /\ mfile \in added
          /\ mpart \in 1..PartCount(mfile)
      BY <1>5 DEF AddCopyJobPartPush, Opening, ControlInv
    <2>2. FileOf(r) \notin added => Future(r)'  BY <2>1 DEF Future, FileOf
    <2>3. FileOf(r) = mfile /\ r[2] >= mpart  BY <2>1, <2>2 DEF Future
    <2>4. CASE mpart = PartCount(mfile)  BY <1>0, <2>3, <2>4
    <2>5. CASE mpart # PartCount(mfile)
      <3>1. mpc' = "total" /\ mpart' = mpart + 1 /\ mfile' = mfile
        BY <1>5, <2>5 DEF AddCopyJobPartPush
      <3>2. ~(r[2] >= mpart + 1)  BY <2>3, <3>1 DEF Future, FileOf, Splitting
      <3> QED  BY <1>0, <2>3, <3>2
    <2> QED  BY <2>4, <2>5
  <1>6. ASSUME Join PROVE Future(r)'
    BY <1>6, <1>0 DEF Join, Future, FileOf, Opening, Splitting
  <1>7. ASSUME JoinReturn PROVE Future(r)'
    BY <1>7, <1>0 DEF JoinReturn, Future, FileOf, Opening, Splitting
  <1>8. CASE UNCHANGED <<mpc, mfile, mpart, added>>
    BY <1>8 DEF Future, FileOf, Opening, Splitting
  <1> QED
    BY <1>1, <1>2, <1>3, <1>4, <1>5, <1>6, <1>7, <1>8
    DEF Next, AddStep, SubmitStep, KernelStep, vars, Start, StopAdding, TakeBlock, PickContinue,
        PickStart, PickNothing, HighPriorityLoad, HighPriorityRetry, HighPriorityOpen,
        HighPriorityOpenError, FinishEmptyFile, AddToBatch, Submit, SubmitNothing, KernelRead,
        KernelWrite, OnReadEvent, OnWriteEventError, OnWriteEventFinished,
        OnWriteEventReschedule, NextRound, SubmitExit, Terminated, Completes

\* A step that changes nothing of a runner, and does not end it, is invisible in the service.
LEMMA SameRunner ==
    ASSUME NEW r \in Runners, jobsRunning'[r] = jobsRunning[r], left'[r] = left[r],
           readDone'[r] = readDone[r], savedError'[r] = savedError[r],
           Expected(r)' <=> Expected(r)
    PROVE  UNCHANGED Runner(r)!vars
  <1>1. RunnerPhase(r)' = RunnerPhase(r)  BY DEF RunnerPhase
  <1> QED  BY <1>1 DEF Runner!vars

\* What is known of a runner that has its turn.
LEMMA TurnOf ==
    ASSUME JoinInv, UnfinishedInv, spc \in {"open", "cas"}, Size(toAdd) > 0
    PROVE  /\ toAdd \in Runners /\ toAdd \in alive /\ ~Future(toAdd) /\ jobsRunning[toAdd] = 0
           /\ left[toAdd] > 0
  <1>0. TypeInv /\ ControlInv /\ RingInv /\ WhereInv /\ JobsInv /\ PushedInv
    BY DEF JoinInv, HeapInv, CoreInv, PlacesInv
  <1>1. toAdd \in Runners  BY <1>0, TurnFacts
  <1>2. toAdd \in Adding  BY <1>1 DEF Adding
  <1>3. toAdd \in alive /\ toAdd \notin InRing  BY <1>0, <1>2 DEF WhereInv
  <1>4. <<toAdd, "write">> \notin Outstanding  BY <1>1, <1>3 DEF InRing
  <1>5. <<toAdd, "read">> \notin Outstanding  BY <1>0, <1>1, <1>4, ReadHasWrite
  <1>6. jobsRunning[toAdd] = 0  BY <1>0, <1>1, <1>4, <1>5 DEF JobsInv
  <1> QED  BY <1>0, <1>1, <1>3, <1>6 DEF PushedInv, UnfinishedInv

\* What is known of a runner with a completion that is being seen.
LEMMA EventOf ==
    ASSUME JoinInv, UnfinishedInv, NEW op \in {"read", "write"}, Peeked(op), Seen(Head(cq).r),
           UNCHANGED <<sq, kernel>>
    PROVE  LET r == Head(cq).r
           IN  /\ r \in Runners /\ r \in alive /\ ~Future(r) /\ left[r] > 0 /\ Size(r) > 0
               /\ jobsRunning[r] = IF op = "read" THEN 2 ELSE 1
               /\ jobsRunning'[r] = jobsRunning[r] - 1
               /\ \A x \in Runners : x # r => jobsRunning'[x] = jobsRunning[x]
  <1> DEFINE r == Head(cq).r
  <1>0. /\ TypeInv /\ ControlInv /\ RingInv /\ WhereInv /\ JobsInv /\ PushedInv
        /\ jobsRunning \in [Runners -> Int]
    BY DEF JoinInv, HeapInv, CoreInv, PlacesInv, TypeInv, RingTypes
  <1>1. r \in Runners /\ r \in InRing /\ <<r, op>> \in Outstanding
    BY <1>0, EventFacts, EventPlaces
  <1>2. r \in alive /\ Size(r) > 0  BY <1>0, <1>1 DEF WhereInv, Begun
  <1>3. <<r, "write">> \in Outstanding  BY <1>1 DEF InRing
  <1>4. op = "write" => <<r, "read">> \notin Outstanding  BY <1>0, WriteIsLast
  <1>5. jobsRunning[r] = IF op = "read" THEN 2 ELSE 1
    BY <1>0, <1>1, <1>3, <1>4 DEF JobsInv
  <1>6. jobsRunning' = [jobsRunning EXCEPT ![r] = @ - 1]  BY DEF Seen
  <1> HIDE DEF r
  <1>7. \A x \in Runners : jobsRunning'[x] = IF x = r THEN jobsRunning[x] - 1 ELSE jobsRunning[x]
    BY <1>0, <1>6
  <1>8. ~Future(r) /\ left[r] > 0  BY <1>0, <1>1, <1>2 DEF PushedInv, UnfinishedInv
  <1> QED  BY <1>1, <1>2, <1>5, <1>7, <1>8 DEF r

\* Every step of the queue is, for each runner, a step of the service or invisible in it.
LEMMA RunnerStep ==
    ASSUME JoinInv, UnfinishedInv, [Next]_vars, NEW r \in Copiers
    PROVE  Runner(r)!Next \/ UNCHANGED Runner(r)!vars
  <1> USE DEF mainVars, fdVars, queueVars, lifeVars, runnerVars, submitVars, ringVars, countVars
  <1>0. /\ TypeInv /\ ControlInv /\ RingInv /\ WhereInv /\ JobsInv /\ PushedInv
        /\ r \in Runners /\ Size(r) > 0 /\ alive \subseteq Runners
        /\ left \in [Runners -> 0..ChunkBytes] /\ ChunkBytes \in Nat
        /\ readDone \in [Runners -> BOOLEAN] /\ savedError \in [Runners -> BOOLEAN]
        /\ jobsRunning \in [Runners -> Int]
    BY QueueAssumption
    DEF JoinInv, HeapInv, CoreInv, PlacesInv, TypeInv, DataTypes, PlaceTypes, RingTypes, Copiers
  <1>f. /\ Future(r)' => Future(r)
        /\ Future(r) /\ ~Future(r)' => AddCopyJobPartPush /\ r = <<mfile, mpart>>
    BY <1>0, FutureNext, FuturePushed
  <1>1. ASSUME AddCopyJobPartPush PROVE UNCHANGED Runner(r)!vars
    <2>1. /\ alive' = alive \cup {<<mfile, mpart>>} /\ mpc = "push"
          /\ UNCHANGED <<jobsRunning, left, readDone, savedError>>
      BY <1>1 DEF AddCopyJobPartPush
    <2>2. r = <<mfile, mpart>> => Future(r)
      <3>1. ASSUME r = <<mfile, mpart>> PROVE FileOf(r) = mfile /\ r[2] = mpart
        BY <3>1 DEF FileOf
      <3>2. mpart \in Nat  BY <1>0 DEF TypeInv, MainTypes
      <3> QED  BY <2>1, <3>1, <3>2 DEF Future, Splitting
    <2>3. Expected(r)' <=> Expected(r)  BY <1>f, <2>1, <2>2 DEF Expected
    <2> QED  BY <1>0, <2>1, <2>3, SameRunner
  <1>2. ASSUME HighPriorityOpenError PROVE Runner(r)!Next \/ UNCHANGED Runner(r)!vars
    <2>1. /\ spc = "cas" /\ alive' = alive \ {toAdd}
          /\ UNCHANGED <<jobsRunning, left, readDone, savedError>>
      BY <1>2 DEF HighPriorityOpenError, Delete
    <2>2. CASE r = toAdd
      <3>1. r \in alive /\ ~Future(r) /\ jobsRunning[r] = 0 /\ left[r] > 0
        BY <1>0, <2>1, <2>2, TurnOf
      <3>2. Expected(r) /\ ~Expected(r)'  BY <1>f, <2>1, <2>2, <3>1 DEF Expected
      <3>3. RunnerPhase(r) = "waiting" /\ RunnerPhase(r)' = "failed"
        BY <1>0, <2>1, <3>1, <3>2 DEF RunnerPhase
      <3> QED  BY <2>1, <3>3 DEF Runner!Next, Runner!GiveUp
    <2>3. CASE r # toAdd
      <3>1. Expected(r)' <=> Expected(r)
        <4>1. Future(r)' <=> Future(r)  BY <1>f, <1>2 DEF AddCopyJobPartPush, HighPriorityOpenError
        <4> QED  BY <2>1, <2>3, <4>1 DEF Expected
      <3> QED  BY <1>0, <2>1, <3>1, SameRunner
    <2> QED  BY <2>2, <2>3
  <1>3. ASSUME FinishEmptyFile PROVE UNCHANGED Runner(r)!vars
    <2>1. /\ Size(toAdd) = 0 /\ alive' = alive \ {toAdd}
          /\ UNCHANGED <<jobsRunning, left, readDone, savedError, mpc, mfile, mpart, added>>
      BY <1>3 DEF FinishEmptyFile, Delete
    <2>2. r # toAdd  BY <1>0, <2>1
    <2>3. Future(r)' <=> Future(r)  BY <2>1 DEF Future, FileOf, Opening, Splitting
    <2>4. Expected(r)' <=> Expected(r)  BY <2>1, <2>2, <2>3 DEF Expected
    <2> QED  BY <1>0, <2>1, <2>4, SameRunner
  <1>4. ASSUME AddToBatch PROVE Runner(r)!Next \/ UNCHANGED Runner(r)!vars
    <2>1. /\ spc = "open" /\ Size(toAdd) > 0
          /\ UNCHANGED <<alive, left, readDone, savedError, mpc, mfile, mpart, added>>
          /\ jobsRunning' = [jobsRunning EXCEPT ![toAdd] = @ + Len(Requests(toAdd))]
      BY <1>4 DEF AddToBatch, GetSqe
    <2>2. Future(r)' <=> Future(r)  BY <2>1 DEF Future, FileOf, Opening, Splitting
    <2>3. Expected(r)' <=> Expected(r)  BY <2>1, <2>2 DEF Expected
    <2>4. CASE r = toAdd
      <3>1. r \in alive /\ jobsRunning[r] = 0  BY <1>0, <2>1, <2>4, TurnOf
      <3>2. Len(Requests(toAdd)) = IF readDone[toAdd] THEN 1 ELSE 2  BY <1>0, <1>4, AddMoves
      <3>3. jobsRunning'[r] = IF readDone[r] THEN 1 ELSE 2
        BY <1>0, <2>1, <2>4, <3>1, <3>2
      <3>4. RunnerPhase(r) = "waiting" /\ RunnerPhase(r)' = "running"
        BY <3>1, <3>3 DEF RunnerPhase, Expected
      <3> QED  BY <2>1, <3>3, <3>4 DEF Runner!Next, Runner!Submit
    <2>5. CASE r # toAdd
      <3>1. jobsRunning'[r] = jobsRunning[r]  BY <1>0, <2>1, <2>5
      <3> QED  BY <1>0, <2>1, <2>3, <3>1, SameRunner
    <2> QED  BY <2>4, <2>5
  <1>5. ASSUME OnReadEvent PROVE Runner(r)!Next \/ UNCHANGED Runner(r)!vars
    <2> DEFINE e == Head(cq)
    <2>1. /\ Peeked("read") /\ Seen(e.r)
          /\ UNCHANGED <<sq, kernel, alive, left, mpc, mfile, mpart, added>>
          /\ readDone' = [readDone EXCEPT ![e.r] = @ \/ e.res \in {"full", "last"}]
          /\ savedError' = IF e.res = "fail" THEN [savedError EXCEPT ![e.r] = TRUE] ELSE savedError
      BY <1>5 DEF OnReadEvent, SaveError
    <2>2. /\ e.r \in Runners /\ e.r \in alive /\ jobsRunning[e.r] = 2
          /\ jobsRunning'[e.r] = jobsRunning[e.r] - 1
          /\ \A x \in Runners : x # e.r => jobsRunning'[x] = jobsRunning[x]
      BY <2>1, EventOf
    <2>3. Future(r)' <=> Future(r)  BY <2>1 DEF Future, FileOf, Opening, Splitting
    <2>4. Expected(r)' <=> Expected(r)  BY <2>1, <2>3 DEF Expected
    <2> HIDE DEF e
    <2>5. CASE r = e.r
      <3>1. jobsRunning[r] = 2 /\ jobsRunning'[r] = 1  BY <2>2, <2>5
      <3>2. RunnerPhase(r) = "running" /\ RunnerPhase(r)' = "running"  BY <3>1 DEF RunnerPhase
      <3>3. /\ readDone'[r] \in BOOLEAN
            /\ e.res = "fail" => readDone'[r] = readDone[r] /\ savedError'[r] = TRUE
            /\ e.res # "fail" => savedError'[r] = savedError[r]
        BY <1>0, <2>1, <2>5
      <3>4. left'[r] = left[r]  BY <2>1
      <3> QED  BY <3>1, <3>2, <3>3, <3>4 DEF Runner!Next, Runner!ReadSeen
    <2>6. CASE r # e.r
      <3>1. readDone'[r] = readDone[r] /\ savedError'[r] = savedError[r]  BY <1>0, <2>1, <2>6
      <3>2. left'[r] = left[r] /\ jobsRunning'[r] = jobsRunning[r]  BY <1>0, <2>1, <2>2, <2>6
      <3> QED  BY <1>0, <2>4, <3>1, <3>2, SameRunner
    <2> QED  BY <2>5, <2>6
  <1>6. ASSUME OnWriteEventError PROVE Runner(r)!Next \/ UNCHANGED Runner(r)!vars
    <2> DEFINE e == Head(cq)
    <2>1. /\ Peeked("write") /\ Seen(e.r) /\ alive' = alive \ {e.r}
          /\ UNCHANGED <<sq, kernel, left, readDone, mpc, mfile, mpart, added>>
          /\ savedError' = [savedError EXCEPT ![e.r] = TRUE]
      BY <1>6 DEF OnWriteEventError, SaveError, Delete
    <2>2. /\ e.r \in Runners /\ e.r \in alive /\ ~Future(e.r) /\ left[e.r] > 0
          /\ jobsRunning[e.r] = 1 /\ jobsRunning'[e.r] = jobsRunning[e.r] - 1
          /\ \A x \in Runners : x # e.r => jobsRunning'[x] = jobsRunning[x]
      BY <2>1, EventOf
    <2>3. Future(r)' <=> Future(r)  BY <2>1 DEF Future, FileOf, Opening, Splitting
    <2> HIDE DEF e
    <2>4. CASE r = e.r
      <3>1. jobsRunning[r] = 1 /\ jobsRunning'[r] = 0 /\ left'[r] = left[r] /\ left[r] > 0
        BY <2>1, <2>2, <2>4
      <3>2. ~Expected(r)'  BY <2>1, <2>2, <2>3, <2>4 DEF Expected
      <3>3. RunnerPhase(r) = "running" /\ RunnerPhase(r)' = "failed"
        BY <1>0, <3>1, <3>2 DEF RunnerPhase
      <3>4. savedError'[r] = TRUE /\ readDone'[r] = readDone[r]  BY <1>0, <2>1, <2>4
      <3> QED  BY <3>1, <3>3, <3>4 DEF Runner!Next, Runner!WriteSeen
    <2>5. CASE r # e.r
      <3>1. Expected(r)' <=> Expected(r)  BY <2>1, <2>3, <2>5 DEF Expected
      <3>2. /\ readDone'[r] = readDone[r] /\ savedError'[r] = savedError[r]
            /\ left'[r] = left[r] /\ jobsRunning'[r] = jobsRunning[r]
        BY <1>0, <2>1, <2>2, <2>5
      <3> QED  BY <1>0, <3>1, <3>2, SameRunner
    <2> QED  BY <2>4, <2>5
  <1>7. ASSUME OnWriteEventFinished PROVE Runner(r)!Next \/ UNCHANGED Runner(r)!vars
    <2> DEFINE e == Head(cq)
    <2>1. /\ Peeked("write") /\ Seen(e.r) /\ alive' = alive \ {e.r} /\ ~savedError[e.r]
          /\ UNCHANGED <<sq, kernel, savedError, readDone, mpc, mfile, mpart, added>>
          /\ left' = [left EXCEPT ![e.r] = 0]
      BY <1>7 DEF OnWriteEventFinished, Delete
    <2>2. /\ e.r \in Runners /\ e.r \in alive /\ ~Future(e.r) /\ left[e.r] > 0
          /\ jobsRunning[e.r] = 1 /\ jobsRunning'[e.r] = jobsRunning[e.r] - 1
          /\ \A x \in Runners : x # e.r => jobsRunning'[x] = jobsRunning[x]
      BY <2>1, EventOf
    <2>3. Future(r)' <=> Future(r)  BY <2>1 DEF Future, FileOf, Opening, Splitting
    <2> HIDE DEF e
    <2>4. CASE r = e.r
      <3>1. jobsRunning[r] = 1 /\ jobsRunning'[r] = 0 /\ left'[r] = 0
        BY <1>0, <2>1, <2>2, <2>4
      <3>2. ~Expected(r)'  BY <2>1, <2>2, <2>3, <2>4 DEF Expected
      <3>3. RunnerPhase(r) = "running" /\ RunnerPhase(r)' = "finished"
        BY <1>0, <3>1, <3>2 DEF RunnerPhase
      <3>4. savedError'[r] = savedError[r] /\ readDone'[r] = readDone[r] /\ ~savedError[r]
        BY <2>1, <2>4
      <3>5. left[r] \in 0..left[r] /\ left'[r] = left[r] - left[r]  BY <1>0, <3>1
      <3>6. \E w \in 0..left[r] : left'[r] = left[r] - w  BY <3>5
      <3> QED  BY <3>1, <3>3, <3>4, <3>6 DEF Runner!Next, Runner!WriteSeen
    <2>5. CASE r # e.r
      <3>1. Expected(r)' <=> Expected(r)  BY <2>1, <2>3, <2>5 DEF Expected
      <3>2. /\ readDone'[r] = readDone[r] /\ savedError'[r] = savedError[r]
            /\ left'[r] = left[r] /\ jobsRunning'[r] = jobsRunning[r]
        BY <1>0, <2>1, <2>2, <2>5
      <3> QED  BY <1>0, <3>1, <3>2, SameRunner
    <2> QED  BY <2>4, <2>5
  <1>8. ASSUME OnWriteEventReschedule PROVE Runner(r)!Next \/ UNCHANGED Runner(r)!vars
    <2> DEFINE e == Head(cq)
               written == IF e.res = "some" THEN left[e.r] \div 2 ELSE 0
    <2>1. /\ Peeked("write") /\ Seen(e.r) /\ ~savedError[e.r]
          /\ UNCHANGED <<sq, kernel, alive, savedError, readDone, mpc, mfile, mpart, added>>
          /\ left' = [left EXCEPT ![e.r] = @ - written]
      BY <1>8 DEF OnWriteEventReschedule
    <2>2. /\ e.r \in Runners /\ e.r \in alive /\ left[e.r] > 0
          /\ jobsRunning[e.r] = 1 /\ jobsRunning'[e.r] = jobsRunning[e.r] - 1
          /\ \A x \in Runners : x # e.r => jobsRunning'[x] = jobsRunning[x]
      BY <2>1, EventOf
    <2>3. Future(r)' <=> Future(r)  BY <2>1 DEF Future, FileOf, Opening, Splitting
    <2>4. Expected(r)' <=> Expected(r)  BY <2>1, <2>3 DEF Expected
    <2>5. left[e.r] \in Nat /\ written \in 0..left[e.r] /\ left[e.r] - written > 0  BY <1>0, <2>2
    <2> HIDE DEF e, written
    <2>6. CASE r = e.r
      <3>1. jobsRunning[r] = 1 /\ jobsRunning'[r] = 0 /\ left'[r] = left[r] - written
        BY <1>0, <2>1, <2>2, <2>6
      <3>2. RunnerPhase(r) = "running" /\ RunnerPhase(r)' = "waiting"
        BY <2>2, <2>4, <2>6, <3>1 DEF RunnerPhase, Expected
      <3>3. savedError'[r] = savedError[r] /\ readDone'[r] = readDone[r] /\ ~savedError[r]
        BY <2>1, <2>6
      <3>4. left'[r] # 0 /\ \E w \in 0..left[r] : left'[r] = left[r] - w  BY <2>5, <2>6, <3>1
      <3> QED  BY <3>1, <3>2, <3>3, <3>4 DEF Runner!Next, Runner!WriteSeen
    <2>7. CASE r # e.r
      <3>1. /\ readDone'[r] = readDone[r] /\ savedError'[r] = savedError[r]
            /\ left'[r] = left[r] /\ jobsRunning'[r] = jobsRunning[r]
        BY <1>0, <2>1, <2>2, <2>7
      <3> QED  BY <1>0, <2>4, <3>1, SameRunner
    <2> QED  BY <2>6, <2>7
  <1>9. CASE ~AddCopyJobPartPush /\ UNCHANGED <<alive, jobsRunning, left, readDone, savedError>>
    <2>1. Expected(r)' <=> Expected(r)  BY <1>f, <1>9 DEF Expected
    <2> QED  BY <1>0, <1>9, <2>1, SameRunner
  <1> QED
    BY <1>1, <1>2, <1>3, <1>4, <1>5, <1>6, <1>7, <1>8, <1>9
    DEF Next, AddStep, SubmitStep, KernelStep, vars, AddCopyJob, LowPriorityLoad,
        LowPriorityOpen, AddCopyJobPartTotal, Start, Join, JoinReturn, StopAdding, TakeBlock,
        PickContinue, PickStart, PickNothing, HighPriorityLoad, HighPriorityRetry,
        HighPriorityOpen, Submit, SubmitNothing, KernelRead, KernelWrite, NextRound, SubmitExit,
        Terminated, Completes

\* The queue treats every runner that has something to copy as RunnerService says: what
\* CopyRunner promises is what CopyQueue assumes of a runner.
THEOREM RunnersKeepService == ASSUME NEW r \in Copiers PROVE Spec => Runner(r)!Spec
  <1>0. r \in Runners /\ Size(r) > 0 /\ Size(r) \in Nat  BY RunnerFacts DEF Copiers
  <1>1. Init => Runner(r)!Init
    <2> SUFFICES ASSUME Init PROVE Runner(r)!Init  OBVIOUS
    <2>1. /\ jobsRunning[r] = 0 /\ left[r] = Size(r) /\ readDone[r] = FALSE /\ savedError[r] = FALSE
          /\ added = {}
      BY <1>0 DEF Init
    <2>2. RunnerPhase(r) = "waiting"  BY <2>1 DEF RunnerPhase, Expected, Future
    <2> QED  BY <1>0, <2>1, <2>2 DEF Runner!Init
  <1>2. Init => UnfinishedInv  BY DEF Init, UnfinishedInv
  <1>3. JoinInv /\ UnfinishedInv /\ [Next]_vars => UnfinishedInv'  BY UnfinishedNext
  <1>4. JoinInv /\ UnfinishedInv /\ [Next]_vars => [Runner(r)!Next]_(Runner(r)!vars)
    BY RunnerStep
  <1> QED  BY <1>1, <1>2, <1>3, <1>4, JoinHolds, PTL DEF Spec, Runner!Spec
==============================================================================
