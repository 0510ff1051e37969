----------------------- MODULE CopyQueueResourceProofs -----------------------
(***************************************************************************)
(* Proofs about what the runners of CopyQueue share, the descriptors of    *)
(* their files, the counter of chunks and the blocks of the heap: nothing  *)
(* is taken away from a runner that still needs it, and everything is      *)
(* given back.                                                             *)
(***************************************************************************)
EXTENDS CopyQueueProofs

-----------------------------------------------------------------------------
(* The inductive invariants.                                               *)

\* The descriptors of a file are opened before a runner's first request.
OpenedInv == \A r \in Begun, s \in Sides : fd[FileOf(r)][s] # "never"

\* They are closed only on behalf of the last runner of the file.
ClosedInv == \A r \in alive, s \in Sides : fd[FileOf(r)][s] = "closed" => savedError[r]
UnclosedInv == \A r \in Runners, s \in Sides : Future(r) => fd[FileOf(r)][s] # "closed"

\* A runner with an error has no further turn.
SavedInv ==
    \A r \in Runners : savedError[r] => r \notin Waiting /\ ~Future(r)

FilesInv == OpenedInv /\ ClosedInv /\ UnclosedInv /\ SavedInv

\* A block in use has one owner.
OwnersInv ==
    /\ \A b \in HeapBlocks : usedList[b] <=> (nextBuffer = b \/ \E r \in Runners : buffer[r] = b)
    /\ \A r \in Runners : buffer[r] # NoBlock => buffer[r] # nextBuffer
    /\ \A r, o \in Runners : buffer[r] = buffer[o] /\ buffer[r] # NoBlock => r = o

\* A runner has a block from its first turn to its end, unless there is nothing to copy.
HoldersInv ==
    \A r \in Runners :
        /\ buffer[r] # NoBlock => r \in alive \ Starting
        /\ r \in alive \ Starting /\ Size(r) > 0 => buffer[r] # NoBlock

BlockInv == OwnersInv /\ HoldersInv

\* When the submit thread has ended, no runner and no block at hand is left.
ExitInv ==
    spc = "exited" => alive = {} /\ nextBuffer = NoBlock

-----------------------------------------------------------------------------
(* The chunks of a file.                                                   *)

\* The runners of a file that exist, and the parts of it that are still to be pushed.
Of(f) == {r \in alive : FileOf(r) = f}
ToCome(f) == IF mfile = f /\ Splitting THEN PartCount(f) - mpart + 1 ELSE 0

\* There are finitely many runners of a file.
LEMMA OfFinite ==
    ASSUME TypeInv, NEW f \in Files
    PROVE  IsFiniteSet(Of(f)) /\ Cardinality(Of(f)) \in Nat
  <1>1. PartCount(f) \in Nat  BY RunnerFacts
  <1>2. IsFiniteSet(1..PartCount(f)) /\ IsFiniteSet({f})
    <2>1. \A n \in Nat : IsFiniteSet(1..n)  BY FS_Interval
    <2> QED  BY <1>1, <2>1, FS_Singleton
  <1>3. IsFiniteSet({f} \X (1..PartCount(f)))  BY <1>2, FS_Product
  <1>4. Of(f) \subseteq {f} \X (1..PartCount(f))
    <2>1. ASSUME NEW r \in Of(f) PROVE r \in {f} \X (1..PartCount(f))
      <3>1. r \in Runners /\ FileOf(r) = f  BY DEF Of, TypeInv, PlaceTypes
      <3>2. r[2] \in 1..PartCount(f) /\ r = <<f, r[2]>>  BY <3>1, RunnerFacts
      <3> QED  BY <3>2
    <2> QED  BY <2>1
  <1> QED  BY <1>3, <1>4, FS_Subset, FS_CardinalityType

\* What is still to be pushed is not negative.
LEMMA ToComeFacts ==
    ASSUME TypeInv, ControlInv, NEW f \in Files
    PROVE  ToCome(f) \in Nat /\ (mfile = f /\ Splitting => ToCome(f) > 0)
  <1>1. PartCount(f) \in Nat  BY RunnerFacts
  <1>2. Splitting => mpart \in 1..PartCount(mfile)  BY DEF ControlInv, Splitting
  <1> QED  BY <1>1, <1>2 DEF ToCome

\* ChunksCounted in these terms.
LEMMA ChunksMeaning == ChunksCounted <=> \A f \in Files : chunksRemaining[f] = Cardinality(Of(f)) + ToCome(f)
  BY DEF ChunksCounted, Of, ToCome, Splitting

\* The destructor of a runner counts down the chunks of its file.
LEMMA DeleteChunk ==
    ASSUME TypeInv, ControlInv, ChunksCounted, NEW r \in alive, Delete(r), UNCHANGED <<mpc, mfile, mpart>>
    PROVE  ChunksCounted'
  <1>1. r \in Runners /\ FileOf(r) \in Files  BY RunnerFacts DEF TypeInv, PlaceTypes
  <1>2. /\ alive' = alive \ {r}
        /\ chunksRemaining' = [chunksRemaining EXCEPT ![FileOf(r)] = @ - 1]
        /\ chunksRemaining \in [Files -> Int]
    BY DEF Delete, CountDown, TypeInv, FdTypes
  <1>3. ASSUME NEW f \in Files PROVE chunksRemaining'[f] = Cardinality(Of(f)') + ToCome(f)'
    <2>1. ToCome(f)' = ToCome(f) /\ ToCome(f) \in Nat
      BY ToComeFacts DEF ToCome, Splitting, PartCount
    <2>2. IsFiniteSet(Of(f)) /\ Cardinality(Of(f)) \in Nat  BY OfFinite
    <2>3. chunksRemaining[f] = Cardinality(Of(f)) + ToCome(f)  BY ChunksMeaning
    <2>4. CASE f = FileOf(r)
      <3>1. Of(f)' = Of(f) \ {r} /\ r \in Of(f)  BY <1>2, <2>4 DEF Of, FileOf
      <3>2. Cardinality(Of(f) \ {r}) = Cardinality(Of(f)) - 1  BY <2>2, <3>1, FS_RemoveElement
      <3>3. chunksRemaining'[f] = chunksRemaining[f] - 1  BY <1>1, <1>2, <2>4
      <3> QED  BY <2>1, <2>2, <2>3, <3>1, <3>2, <3>3
    <2>5. CASE f # FileOf(r)
      <3>1. Of(f)' = Of(f)  BY <1>2, <2>5 DEF Of, FileOf
      <3>2. chunksRemaining'[f] = chunksRemaining[f]  BY <1>1, <1>2, <2>5
      <3> QED  BY <2>1, <2>3, <3>1, <3>2
    <2> QED  BY <2>4, <2>5
  <1>4. ChunksCounted' <=> \A f \in Files : chunksRemaining'[f] = Cardinality(Of(f)') + ToCome(f)'
    BY DEF ChunksCounted, Of, ToCome, Splitting
  <1> QED  BY <1>3, <1>4

\* The parts of a file are counted before the first of them is pushed.
LEMMA CountChunks ==
    ASSUME CoreInv, ChunksCounted, Opening, NextDescriptor, UNCHANGED <<mfile, alive>>
    PROVE  ChunksCounted'
  <1>1. mfile \in Files /\ mfile \in added
    BY DEF CoreInv, TypeInv, MainTypes, ControlInv, Opening
  <1>2. chunksRemaining \in [Files -> Int]  BY DEF CoreInv, TypeInv, FdTypes
  <1>3. ASSUME NEW f \in Files PROVE chunksRemaining'[f] = Cardinality(Of(f)') + ToCome(f)'
    <2>1. Of(f)' = Of(f)  BY DEF Of, FileOf
    <2>2. ToCome(f) = 0  BY DEF ToCome, Opening, Splitting
    <2>3. chunksRemaining[f] = Cardinality(Of(f)) + ToCome(f)  BY ChunksMeaning
    <2>4. Cardinality(Of(f)) \in Nat  BY OfFinite DEF CoreInv
    <2>5. CASE mside = "dst" /\ f = mfile
      <3>1. Of(f) = {}
        BY <2>5 DEF Of, CoreInv, PlacesInv, PushedInv, Future
      <3>2. Cardinality(Of(f)) = 0  BY <3>1, FS_EmptySet
      <3>3. PartCount(f) \in Nat  BY RunnerFacts
      <3>4. chunksRemaining'[f] = PartCount(f) /\ mpc' = "total" /\ mpart' = 1 /\ mfile' = f
        BY <1>1, <1>2, <2>5 DEF NextDescriptor
      <3>5. ToCome(f)' = PartCount(f)  BY <3>3, <3>4 DEF ToCome, Splitting, PartCount
      <3> QED  BY <2>1, <3>2, <3>3, <3>4, <3>5
    <2>6. CASE ~(mside = "dst" /\ f = mfile)
      <3>1. chunksRemaining'[f] = chunksRemaining[f]
        BY <1>1, <1>2, <2>6 DEF NextDescriptor, CoreInv, TypeInv, MainTypes, Sides
      <3>2. ToCome(f)' = 0
        BY <2>6 DEF NextDescriptor, ToCome, Splitting, CoreInv, TypeInv, MainTypes, Sides
      <3> QED  BY <2>1, <2>2, <2>3, <3>1, <3>2
    <2> QED  BY <2>5, <2>6
  <1>4. ChunksCounted' <=> \A f \in Files : chunksRemaining'[f] = Cardinality(Of(f)') + ToCome(f)'
    BY DEF ChunksCounted, Of, ToCome, Splitting
  <1> QED  BY <1>3, <1>4

\* The counter that the chunks of a file share stays right.
LEMMA ChunksNext ==
    ASSUME CoreInv, ChunksCounted, [Next]_vars
    PROVE  ChunksCounted'
  <1> USE DEF mainVars, fdVars, queueVars, lifeVars, runnerVars, submitVars, ringVars, countVars
  <1>0. /\ TypeInv /\ ControlInv /\ RingInv /\ WhereInv /\ PushedInv
        /\ alive = Starting \cup Continuing \cup Adding \cup InRing
    BY DEF CoreInv, PlacesInv, WhereInv
  <1>1. ASSUME NEW f \in Files, AddCopyJob(f) PROVE ChunksCounted'
    BY <1>1 DEF AddCopyJob, ChunksCounted, FileOf, PartCount
  <1>2. ASSUME Join PROVE ChunksCounted'
    BY <1>2 DEF Join, ChunksCounted, FileOf, PartCount
  <1>3. ASSUME JoinReturn PROVE ChunksCounted'
    BY <1>3 DEF JoinReturn, ChunksCounted, FileOf, PartCount
  <1>4. ASSUME AddCopyJobPartTotal PROVE ChunksCounted'
    BY <1>4 DEF AddCopyJobPartTotal, ChunksCounted, FileOf, PartCount
  <1>5. ASSUME LowPriorityLoad PROVE ChunksCounted'
    <2>1. CASE UNCHANGED <<mpart, chunksRemaining>> /\ mpc' = "cas"
      BY <1>5, <2>1 DEF LowPriorityLoad, ChunksCounted, FileOf, PartCount
    <2>2. CASE NextDescriptor  BY <1>5, <2>2, CountChunks DEF LowPriorityLoad, Opening
    <2> QED  BY <1>5, <2>1, <2>2 DEF LowPriorityLoad
  <1>6. ASSUME LowPriorityOpen PROVE ChunksCounted'
    BY <1>6, CountChunks DEF LowPriorityOpen, Opening
  <1>7. ASSUME AddCopyJobPartPush PROVE ChunksCounted'
    <2>1. mfile \in Files /\ mpart \in 1..PartCount(mfile) /\ mpart \in Nat /\ Splitting
      BY <1>0, <1>7 DEF AddCopyJobPartPush, ControlInv, TypeInv, MainTypes, Splitting
    <2>2. PICK r \in Runners : r = <<mfile, mpart>> /\ FileOf(r) = mfile /\ r[2] = mpart
      BY <2>1, RunnerFacts
    <2>3. r \notin alive  BY <1>0, <2>1, <2>2 DEF PushedInv, Future
    <2>4. alive' = alive \cup {r} /\ chunksRemaining' = chunksRemaining  BY <1>7, <2>2 DEF AddCopyJobPartPush
    <2>5. ASSUME NEW f \in Files PROVE chunksRemaining'[f] = Cardinality(Of(f)') + ToCome(f)'
      <3>1. IsFiniteSet(Of(f)) /\ Cardinality(Of(f)) \in Nat  BY <1>0, OfFinite
      <3>2. chunksRemaining[f] = Cardinality(Of(f)) + ToCome(f)  BY ChunksMeaning
      <3>3. PartCount(f) \in Nat /\ PartCount(f)' = PartCount(f)  BY RunnerFacts DEF PartCount
      <3>4. CASE f = mfile
        <4>1. Of(f)' = Of(f) \cup {r} /\ r \notin Of(f)  BY <2>2, <2>3, <2>4, <3>4 DEF Of, FileOf
        <4>2. Cardinality(Of(f) \cup {r}) = Cardinality(Of(f)) + 1  BY <3>1, <4>1, FS_AddElement
        <4>3. ToCome(f) = PartCount(f) - mpart + 1  BY <2>1, <3>4 DEF ToCome
        <4>4. ToCome(f)' = PartCount(f) - mpart
          <5>1. CASE mpart = PartCount(mfile)
            <6>1. mpc' = "ready"  BY <1>7, <5>1 DEF AddCopyJobPartPush
            <6> QED  BY <2>1, <3>3, <3>4, <5>1, <6>1 DEF ToCome, Splitting
          <5>2. CASE mpart # PartCount(mfile)
            <6>1. mpc' = "total" /\ mpart' = mpart + 1 /\ mfile' = mfile  BY <1>7, <5>2 DEF AddCopyJobPartPush
            <6> QED  BY <2>1, <3>3, <3>4, <6>1 DEF ToCome, Splitting
          <5> QED  BY <5>1, <5>2
        <4> QED  BY <2>1, <2>4, <3>1, <3>2, <3>3, <4>1, <4>2, <4>3, <4>4
      <3>5. CASE f # mfile
        <4>1. Of(f)' = Of(f)  BY <2>2, <2>4, <3>5 DEF Of, FileOf
        <4>2. ToCome(f) = 0 /\ ToCome(f)' = 0
          BY <1>7, <3>5 DEF AddCopyJobPartPush, ToCome, Splitting
        <4> QED  BY <2>4, <3>2, <4>1, <4>2
      <3> QED  BY <3>4, <3>5
    <2>6. ChunksCounted' <=> \A f \in Files : chunksRemaining'[f] = Cardinality(Of(f)') + ToCome(f)'
      BY DEF ChunksCounted, Of, ToCome, Splitting
    <2> QED  BY <2>5, <2>6
  <1>8. ASSUME HighPriorityOpenError PROVE ChunksCounted'
    <2>1. toAdd \in alive
      BY <1>0, <1>8, TurnFacts DEF HighPriorityOpenError, Adding
    <2>2. Delete(toAdd) /\ UNCHANGED <<mpc, mfile, mpart>>  BY <1>8 DEF HighPriorityOpenError
    <2> QED  BY <1>0, <2>1, <2>2, DeleteChunk
  <1>9. ASSUME FinishEmptyFile PROVE ChunksCounted'
    <2>1. toAdd \in alive
      BY <1>0, <1>9, TurnFacts DEF FinishEmptyFile, Adding
    <2>2. Delete(toAdd) /\ UNCHANGED <<mpc, mfile, mpart>>  BY <1>9 DEF FinishEmptyFile
    <2> QED  BY <1>0, <2>1, <2>2, DeleteChunk
  <1>10. ASSUME OnWriteEventError PROVE ChunksCounted'
    <2>1. Head(cq).r \in alive
      BY <1>0, <1>10, EventPlaces DEF OnWriteEventError
    <2>2. Delete(Head(cq).r) /\ UNCHANGED <<mpc, mfile, mpart>>  BY <1>10 DEF OnWriteEventError
    <2> QED  BY <1>0, <2>1, <2>2, DeleteChunk
  <1>11. ASSUME OnWriteEventFinished PROVE ChunksCounted'
    <2>1. Head(cq).r \in alive
      BY <1>0, <1>11, EventPlaces DEF OnWriteEventFinished
    <2>2. Delete(Head(cq).r) /\ UNCHANGED <<mpc, mfile, mpart>>  BY <1>11 DEF OnWriteEventFinished
    <2> QED  BY <1>0, <2>1, <2>2, DeleteChunk
  <1>12. CASE UNCHANGED <<chunksRemaining, alive, mpc, mfile, mpart>>
    BY <1>12 DEF ChunksCounted, FileOf, PartCount
  <1> QED
    BY <1>1, <1>2, <1>3, <1>4, <1>5, <1>6, <1>7, <1>8, <1>9, <1>10, <1>11, <1>12
    DEF Next, AddStep, SubmitStep, KernelStep, vars, mainVars, fdVars, queueVars, lifeVars,
        runnerVars, submitVars, ringVars, countVars, Start, StopAdding, TakeBlock, PickContinue,
        PickStart, PickNothing, HighPriorityLoad, HighPriorityRetry, HighPriorityOpen,
        AddToBatch, Submit, SubmitNothing, KernelRead, KernelWrite, OnReadEvent,
        OnWriteEventReschedule, NextRound, SubmitExit, Terminated, Completes

\* The shared counter of a file is the number of its runners that exist or are still to be
\* added: it reaches 0 with the last of them, and no runner outlives its descriptors.
THEOREM ChunksCountedRight == Spec => []ChunksCounted
  <1>1. Init => ChunksCounted
    <2> SUFFICES ASSUME Init, NEW f \in Files PROVE chunksRemaining[f] = Cardinality(Of(f)) + ToCome(f)
      BY ChunksMeaning
    <2>1. Of(f) = {} /\ ToCome(f) = 0 /\ chunksRemaining[f] = 0
      BY DEF Init, Of, ToCome, Splitting
    <2>2. Cardinality(Of(f)) = 0  BY <2>1, FS_EmptySet
    <2> QED  BY <2>1, <2>2
  <1>2. CoreInv /\ ChunksCounted /\ [Next]_vars => ChunksCounted'  BY ChunksNext
  <1> QED  BY <1>1, <1>2, CoreHolds, PTL DEF Spec

-----------------------------------------------------------------------------
(* Open and closed files.                                                  *)

\* When one chunk of a file remains, its runner is the only one, and none is still to be added.
LEMMA LastAlone ==
    ASSUME CoreInv, ChunksCounted, NEW r \in alive, LastChunk(FileOf(r))
    PROVE  /\ \A x \in alive : FileOf(x) = FileOf(r) => x = r
           /\ \A x \in Runners : FileOf(x) = FileOf(r) => ~Future(x)
  <1> DEFINE f == FileOf(r)
  <1>1. f \in Files /\ ~Future(r) /\ r \in Of(f)
    BY RunnerFacts DEF CoreInv, TypeInv, PlaceTypes, PlacesInv, PushedInv, Of
  <1>2. chunksRemaining[f] = 1  BY DEF LastChunk
  <1>3. f \in added /\ ~(f = mfile /\ Opening)  BY <1>1 DEF Future
  <1> HIDE DEF f
  <1>4. 1 = Cardinality(Of(f)) + ToCome(f)  BY <1>1, <1>2, ChunksMeaning
  <1>5. IsFiniteSet(Of(f)) /\ Cardinality(Of(f)) \in Nat  BY <1>1, OfFinite DEF CoreInv
  <1>6. ToCome(f) \in Nat /\ (mfile = f /\ Splitting => ToCome(f) > 0)
    BY <1>1, ToComeFacts DEF CoreInv
  <1>7. Cardinality(Of(f)) # 0  BY <1>1, <1>5, FS_EmptySet
  <1>8. Cardinality(Of(f)) = 1 /\ ToCome(f) = 0  BY <1>4, <1>5, <1>6, <1>7
  <1>9. PICK y : Of(f) = {y}  BY <1>5, <1>8, FS_Singleton
  <1>10. \A x \in alive : FileOf(x) = f => x = r  BY <1>1, <1>9 DEF Of
  <1>11. \A x \in Runners : FileOf(x) = f => ~Future(x)  BY <1>3, <1>6, <1>8 DEF Future
  <1> QED  BY <1>10, <1>11 DEF f

\* A descriptor is newly closed for the last remaining runner, which is deleted or fails.
NewlyClosed(f) ==
    LastChunk(f) /\ \E r \in alive : FileOf(r) = f /\ (r \notin alive' \/ savedError'[r])

\* handleFileClose on behalf of a runner that is deleted or fails.
LEMMA CloseStep ==
    ASSUME TypeInv, NEW r \in alive, NEW f \in Files, NEW s \in Sides,
           fd' = fd \/ (fd' = Closed(FileOf(r)) /\ (r \notin alive' \/ savedError'[r]))
    PROVE  /\ fd'[f][s] = "never" => fd[f][s] = "never"
           /\ fd'[f][s] = "closed" => fd[f][s] = "closed" \/ NewlyClosed(f)
  <1>1. FileOf(r) \in Files  BY RunnerFacts DEF TypeInv, PlaceTypes
  <1>2. CASE fd' = fd  BY <1>2
  <1>3. CASE fd' = Closed(FileOf(r)) /\ (r \notin alive' \/ savedError'[r])
    <2>1. fd'[f][s] = IF f = FileOf(r) /\ s \in Closing(FileOf(r)) THEN "closed" ELSE fd[f][s]
      BY <1>1, <1>3, CloseFacts
    <2>2. f = FileOf(r) /\ s \in Closing(FileOf(r)) => NewlyClosed(f)
      BY <1>3 DEF Closing, NewlyClosed
    <2> QED  BY <2>1, <2>2
  <1> QED  BY <1>2, <1>3

\* How a step can change a descriptor: from not opened to open, and from open to closed.
LEMMA FdStep ==
    ASSUME CoreInv, [Next]_vars, NEW f \in Files, NEW s \in Sides
    PROVE  /\ fd'[f][s] = "never" => fd[f][s] = "never"
           /\ fd'[f][s] = "closed" => fd[f][s] = "closed" \/ NewlyClosed(f)
  <1> DEFINE Goal == /\ fd'[f][s] = "never" => fd[f][s] = "never"
                     /\ fd'[f][s] = "closed" => fd[f][s] = "closed" \/ NewlyClosed(f)
  <1> SUFFICES Goal  OBVIOUS
  <1> USE DEF mainVars, fdVars, queueVars, lifeVars, runnerVars, submitVars, ringVars, countVars
  <1>0. /\ TypeInv /\ ControlInv /\ RingInv
        /\ alive = Starting \cup Continuing \cup Adding \cup InRing
        /\ fd \in [Files -> [Sides -> {"never", "open", "closed"}]]
    BY DEF CoreInv, PlacesInv, WhereInv, TypeInv, FdTypes
  <1>1. ASSUME LowPriorityOpen PROVE Goal
    <2>1. fd' = fd \/ fd' = [fd EXCEPT ![mfile][mside] = "open"]
      BY <1>1 DEF LowPriorityOpen, ReserveAndOpen
    <2> QED  BY <1>0, <2>1
  <1>2. ASSUME HighPriorityOpen PROVE Goal
    BY <1>0, <1>2 DEF HighPriorityOpen, ReserveAndOpen
  <1>3. ASSUME HighPriorityOpenError PROVE Goal
    <2>1. toAdd \in alive  BY <1>0, <1>3, TurnFacts DEF HighPriorityOpenError, Adding
    <2>2. fd' = fd \/ (fd' = Closed(FileOf(toAdd)) /\ toAdd \notin alive')
      BY <1>3 DEF HighPriorityOpenError, HandleFileClose, Delete
    <2> QED  BY <1>0, <2>1, <2>2, CloseStep
  <1>4. ASSUME FinishEmptyFile PROVE Goal
    <2>1. toAdd \in alive  BY <1>0, <1>4, TurnFacts DEF FinishEmptyFile, Adding
    <2>2. fd' = fd \/ (fd' = Closed(FileOf(toAdd)) /\ toAdd \notin alive')
      BY <1>4 DEF FinishEmptyFile, HandleFileClose, Delete
    <2> QED  BY <1>0, <2>1, <2>2, CloseStep
  <1>5. ASSUME OnReadEvent PROVE Goal
    <2> DEFINE r == Head(cq).r
    <2>1. r \in alive /\ r \in Runners  BY <1>0, <1>5, EventPlaces DEF OnReadEvent, InRing
    <2>2. fd' = fd \/ (fd' = Closed(FileOf(r)) /\ savedError'[r])
      BY <1>0, <1>5, <2>1 DEF OnReadEvent, HandleFileClose, SaveError, Delete, TypeInv, DataTypes
    <2> HIDE DEF r
    <2> QED  BY <1>0, <2>1, <2>2, CloseStep
  <1>6. ASSUME OnWriteEventError PROVE Goal
    <2> DEFINE r == Head(cq).r
    <2>1. r \in alive /\ r \in Runners  BY <1>0, <1>6, EventPlaces DEF OnWriteEventError, InRing
    <2>2. fd' = fd \/ (fd' = Closed(FileOf(r)) /\ r \notin alive')
      BY <1>0, <1>6, <2>1 DEF OnWriteEventError, HandleFileClose, SaveError, Delete
    <2> HIDE DEF r
    <2> QED  BY <1>0, <2>1, <2>2, CloseStep
  <1>7. ASSUME OnWriteEventFinished PROVE Goal
    <2> DEFINE r == Head(cq).r
    <2>1. r \in alive /\ r \in Runners  BY <1>0, <1>7, EventPlaces DEF OnWriteEventFinished, InRing
    <2>2. fd' = fd \/ (fd' = Closed(FileOf(r)) /\ r \notin alive')
      BY <1>0, <1>7, <2>1 DEF OnWriteEventFinished, HandleFileClose, SaveError, Delete
    <2> HIDE DEF r
    <2> QED  BY <1>0, <2>1, <2>2, CloseStep
  <1>8. CASE UNCHANGED <<fd>>
    BY <1>8 DEF Goal
  <1> QED
    BY <1>1, <1>2, <1>3, <1>4, <1>5, <1>6, <1>7, <1>8
    DEF Next, AddStep, SubmitStep, KernelStep, vars, mainVars, fdVars, queueVars, lifeVars,
        runnerVars, submitVars, ringVars, countVars, AddCopyJob, LowPriorityLoad,
        AddCopyJobPartTotal, AddCopyJobPartPush, Start, Join, JoinReturn, StopAdding, TakeBlock,
        PickContinue, PickStart, PickNothing, HighPriorityLoad, HighPriorityRetry, AddToBatch,
        Submit, SubmitNothing, KernelRead, KernelWrite, OnWriteEventReschedule, NextRound,
        SubmitExit, Terminated, Completes

\* Once a runner has had its turn, its descriptors have been opened.
LEMMA OpenedNext ==
    ASSUME CoreInv, OpenedInv, [Next]_vars
    PROVE  OpenedInv'
  <1> USE DEF mainVars, fdVars, queueVars, lifeVars, runnerVars, submitVars, ringVars, countVars
  <1>0. TypeInv /\ ControlInv /\ RingInv /\ WhereInv /\ IsFiniteSet(kernel)
    BY DEF CoreInv, PlacesInv, RoomInv
  <1>1. \A f \in Files, s \in Sides : fd'[f][s] = "never" => fd[f][s] = "never"  BY FdStep
  <1>2. Begun \subseteq Runners
    BY <1>0 DEF Begun, InRing, Continuing, Elems, TypeInv, PlaceTypes
  <1>3. CASE Begun' \subseteq Begun
    BY <1>1, <1>2, <1>3, RunnerFacts DEF OpenedInv, FileOf
  <1>4. CASE AddToBatch
    <2>1. toAdd \in Runners /\ Continuing' = Continuing
      BY <1>0, <1>4, AddMoves, PlacesUnchanged DEF AddToBatch
    <2>2. \A r \in Runners : <<r, "write">> \in Outstanding' <=>
              <<r, "write">> \in Outstanding \/ r = toAdd
      BY <1>0, <1>4, AddMoves
    <2>3. Begun' = Begun \cup {toAdd}  BY <2>1, <2>2 DEF Begun, InRing
    <2>4. UNCHANGED fd /\ \A s \in Sides : fd[FileOf(toAdd)][s] # "never"
      BY <1>4 DEF AddToBatch, ToOpen
    <2> QED  BY <2>3, <2>4 DEF OpenedInv, FileOf
  <1>5. CASE UNCHANGED <<copiesPendingContinue, sq, kernel, cq>>
    <2>1. Begun' = Begun  BY <1>5, PlacesUnchanged, RingUnchanged DEF Begun
    <2> QED  BY <1>3, <2>1
  <1>6. ASSUME PickContinue PROVE OpenedInv'
    <2>1. copiesPendingContinue # <<>> /\ copiesPendingContinue' = Tail(copiesPendingContinue)
          /\ UNCHANGED <<sq, kernel, cq>>
      BY <1>6 DEF PickContinue
    <2>2. copiesPendingContinue \in Seq(Runners)  BY <1>0 DEF TypeInv, PlaceTypes
    <2>3. Continuing' = Elems(copiesPendingContinue')  BY DEF Continuing, Elems
    <2>4. Continuing' \subseteq Continuing
      BY <1>0, <2>1, <2>2, <2>3, TailFacts DEF WhereInv, Continuing
    <2>5. InRing' = InRing  BY <2>1, PlacesUnchanged, RingUnchanged
    <2> QED  BY <1>3, <2>4, <2>5 DEF Begun
  <1>7. ASSUME Submit PROVE OpenedInv'
    BY <1>0, <1>3, <1>7, SubmitMoves, PlacesUnchanged DEF Submit, Begun
  <1>8. ASSUME NEW q \in kernel, KernelRead(q) PROVE OpenedInv'
    BY <1>0, <1>3, <1>8, KernelReadMoves, PlacesUnchanged DEF KernelRead, Completes, Begun
  <1>9. ASSUME NEW q \in kernel, KernelWrite(q) PROVE OpenedInv'
    BY <1>0, <1>3, <1>9, KernelWriteMoves, PlacesUnchanged DEF KernelWrite, Completes, Begun
  <1>10. ASSUME OnReadEvent PROVE OpenedInv'
    BY <1>0, <1>3, <1>10, EventPlaces, PlacesUnchanged DEF OnReadEvent, Begun
  <1>11. ASSUME OnWriteEventError PROVE OpenedInv'
    BY <1>0, <1>3, <1>11, EventPlaces, PlacesUnchanged DEF OnWriteEventError, Begun
  <1>12. ASSUME OnWriteEventFinished PROVE OpenedInv'
    BY <1>0, <1>3, <1>12, EventPlaces, PlacesUnchanged DEF OnWriteEventFinished, Begun
  <1>13. ASSUME OnWriteEventReschedule PROVE OpenedInv'
    <2> DEFINE r == Head(cq).r
    <2>1. copiesPendingContinue' = Append(copiesPendingContinue, r)
      BY <1>13 DEF OnWriteEventReschedule
    <2>2. InRing' = InRing \ {r} /\ r \in InRing
      BY <1>0, <1>13, EventPlaces DEF OnWriteEventReschedule
    <2>3. r \in Runners /\ copiesPendingContinue \in Seq(Runners)
      BY <1>0, <2>2 DEF InRing, TypeInv, PlaceTypes
    <2>4. Continuing' = Elems(copiesPendingContinue')  BY DEF Continuing, Elems
    <2> HIDE DEF r
    <2>5. Continuing' = Continuing \cup {r}  BY <2>1, <2>3, <2>4, AppendFacts DEF Continuing
    <2> QED  BY <1>3, <2>2, <2>5 DEF Begun
  <1> QED
    BY <1>4, <1>5, <1>6, <1>7, <1>8, <1>9, <1>10, <1>11, <1>12, <1>13 DEF Next, AddStep,
        SubmitStep, KernelStep, vars, AddCopyJob, LowPriorityLoad, LowPriorityOpen,
        AddCopyJobPartTotal, AddCopyJobPartPush, Start, Join, JoinReturn, StopAdding, TakeBlock,
        PickStart, PickNothing, HighPriorityLoad, HighPriorityRetry, HighPriorityOpen,
        HighPriorityOpenError, FinishEmptyFile, SubmitNothing, NextRound, SubmitExit, Terminated

\* An error that has been saved is not forgotten.
LEMMA SavedStays ==
    ASSUME CoreInv, [Next]_vars, NEW r \in Runners, savedError[r]
    PROVE  savedError'[r]
  <1> USE DEF mainVars, fdVars, queueVars, lifeVars, runnerVars, submitVars, ringVars, countVars
  <1>0. TypeInv /\ savedError \in [Runners -> BOOLEAN]  BY DEF CoreInv, TypeInv, DataTypes
  <1>1. ASSUME OnReadEvent PROVE savedError'[r]
    BY <1>0, <1>1, EventFacts DEF OnReadEvent, SaveError
  <1>2. ASSUME OnWriteEventError PROVE savedError'[r]
    BY <1>0, <1>2, EventFacts DEF OnWriteEventError, SaveError
  <1>3. CASE UNCHANGED <<savedError>>
    BY <1>3 DEF vars
  <1> QED
    BY <1>1, <1>2, <1>3
    DEF Next, AddStep, SubmitStep, KernelStep, vars, mainVars, fdVars, queueVars, lifeVars,
        runnerVars, submitVars, ringVars, countVars, AddCopyJob, LowPriorityLoad,
        LowPriorityOpen, AddCopyJobPartTotal, AddCopyJobPartPush, Start, Join, JoinReturn,
        StopAdding, TakeBlock, PickContinue, PickStart, PickNothing, HighPriorityLoad,
        HighPriorityRetry, HighPriorityOpen, HighPriorityOpenError, FinishEmptyFile, AddToBatch,
        Submit, SubmitNothing, KernelRead, KernelWrite, OnWriteEventFinished,
        OnWriteEventReschedule, NextRound, SubmitExit, Terminated, Completes

\* Closed descriptors belong to runners that failed, or to none.
LEMMA ClosedNext ==
    ASSUME CoreInv, ChunksCounted, FilesInv, [Next]_vars
    PROVE  ClosedInv' /\ UnclosedInv'
  <1> USE DEF mainVars, fdVars, queueVars, lifeVars, runnerVars, submitVars, ringVars, countVars
  <1>0. /\ TypeInv /\ ControlInv /\ ClosedInv /\ UnclosedInv /\ alive \subseteq Runners
        /\ \A r \in Runners : FileOf(r) \in Files
    BY RunnerFacts DEF CoreInv, FilesInv, TypeInv, PlaceTypes
  <1>1. \A f \in Files, s \in Sides : fd'[f][s] = "closed" => fd[f][s] = "closed" \/ NewlyClosed(f)
    BY FdStep
  <1>2. ASSUME NEW r \in alive, r \in alive', NEW s \in Sides, fd'[FileOf(r)][s] = "closed"
        PROVE  savedError'[r]
    <2>1. CASE fd[FileOf(r)][s] = "closed"  BY <1>0, <2>1, SavedStays DEF ClosedInv
    <2>2. CASE NewlyClosed(FileOf(r))
      <3>1. LastChunk(FileOf(r)) /\ \E x \in alive : FileOf(x) = FileOf(r) /\ (x \notin alive' \/ savedError'[x])
        BY <2>2 DEF NewlyClosed
      <3>2. \A x \in alive : FileOf(x) = FileOf(r) => x = r  BY <3>1, LastAlone
      <3> QED  BY <1>2, <3>1, <3>2
    <2> QED  BY <1>0, <1>1, <1>2, <2>1, <2>2
  <1>3. UnclosedInv'
    <2> SUFFICES ASSUME NEW r \in Runners, NEW s \in Sides, Future(r)', fd'[FileOf(r)][s] = "closed"
                 PROVE  FALSE
      BY DEF UnclosedInv, FileOf
    <2>1. Future(r)  BY <1>0, FutureNext
    <2>2. CASE fd[FileOf(r)][s] = "closed"  BY <1>0, <2>1, <2>2 DEF UnclosedInv
    <2>3. CASE NewlyClosed(FileOf(r))
      <3>1. PICK x \in alive : FileOf(x) = FileOf(r) /\ LastChunk(FileOf(x))
        BY <2>3 DEF NewlyClosed
      <3> QED  BY <2>1, <3>1, LastAlone
    <2> QED  BY <1>0, <1>1, <2>2, <2>3
  <1>4. CASE alive' \subseteq alive  BY <1>2, <1>3, <1>4 DEF ClosedInv, FileOf
  <1>5. CASE AddCopyJobPartPush
    <2>1. mfile \in Files /\ mpart \in 1..PartCount(mfile) /\ mpart \in Nat /\ Splitting
      BY <1>0, <1>5 DEF AddCopyJobPartPush, ControlInv, TypeInv, MainTypes, Splitting
    <2>2. PICK r \in Runners : r = <<mfile, mpart>> /\ FileOf(r) = mfile /\ r[2] = mpart
      BY <2>1, RunnerFacts
    <2>3. Future(r)  BY <2>1, <2>2 DEF Future
    <2>4. alive' = alive \cup {r} /\ fd' = fd  BY <1>5, <2>2 DEF AddCopyJobPartPush
    <2>5. \A s \in Sides : fd'[FileOf(r)][s] # "closed"  BY <1>0, <2>3, <2>4 DEF UnclosedInv
    <2> QED  BY <1>2, <1>3, <2>4, <2>5 DEF ClosedInv, FileOf
  <1> QED
    BY <1>4, <1>5 DEF Next, AddStep, SubmitStep, KernelStep, Completes, Delete, vars,
        AddCopyJob, LowPriorityLoad, LowPriorityOpen, AddCopyJobPartTotal, Start, Join,
        JoinReturn, StopAdding, TakeBlock, PickContinue, PickStart, PickNothing,
        HighPriorityLoad, HighPriorityRetry, HighPriorityOpen, HighPriorityOpenError,
        FinishEmptyFile, AddToBatch, Submit, SubmitNothing, KernelRead, KernelWrite,
        OnReadEvent, OnWriteEventError, OnWriteEventFinished, OnWriteEventReschedule, NextRound,
        SubmitExit, Terminated

\* A runner that failed has no further turn.
LEMMA SavedNext ==
    ASSUME CoreInv, SavedInv, [Next]_vars
    PROVE  SavedInv'
  <1> USE DEF mainVars, fdVars, queueVars, lifeVars, runnerVars, submitVars, ringVars, countVars
  <1>0. /\ TypeInv /\ ControlInv /\ RingInv /\ WhereInv /\ PushedInv /\ WhereInv'
        /\ savedError \in [Runners -> BOOLEAN] /\ IsFiniteSet(kernel)
    BY WhereNext DEF CoreInv, PlacesInv, RoomInv, TypeInv, DataTypes
  <1>1. \A r \in Runners : Future(r)' => Future(r)  BY <1>0, FutureNext
  <1>2. CASE savedError' = savedError /\ Waiting' \subseteq Waiting
    BY <1>1, <1>2 DEF SavedInv
  <1>3. CASE UNCHANGED <<copiesPendingStart, copiesPendingContinue, toAdd, savedError>>
    BY <1>2, <1>3, PlacesUnchanged DEF Waiting
  <1>4. ASSUME AddCopyJobPartPush PROVE SavedInv'
    <2>1. mfile \in Files /\ mpart \in 1..PartCount(mfile) /\ mpart \in Nat /\ Splitting
      BY <1>0, <1>4 DEF AddCopyJobPartPush, ControlInv, TypeInv, MainTypes, Splitting
    <2>2. PICK r \in Runners : r = <<mfile, mpart>> /\ FileOf(r) = mfile /\ r[2] = mpart
      BY <2>1, RunnerFacts
    <2>3. ~savedError[r]  BY <2>1, <2>2 DEF Future, SavedInv
    <2>4. /\ copiesPendingStart' = Append(copiesPendingStart, r)
          /\ UNCHANGED <<copiesPendingContinue, toAdd, savedError>>
      BY <1>4, <2>2 DEF AddCopyJobPartPush
    <2>5. Starting' = Elems(copiesPendingStart')  BY DEF Starting, Elems
    <2>6. copiesPendingStart \in Seq(Runners)  BY <1>0 DEF TypeInv, PlaceTypes
    <2>7. Starting' = Starting \cup {r}  BY <2>2, <2>4, <2>5, <2>6, AppendFacts DEF Starting
    <2>8. Waiting' = Waiting \cup {r}  BY <2>4, <2>7, PlacesUnchanged DEF Waiting
    <2> QED  BY <1>1, <2>3, <2>4, <2>8 DEF SavedInv
  <1>5. ASSUME PickContinue \/ PickStart PROVE SavedInv'
    <2>1. alive' = alive /\ savedError' = savedError /\ UNCHANGED <<sq, kernel, cq>>
      BY <1>5 DEF PickContinue, PickStart
    <2>2. InRing' = InRing  BY <2>1, PlacesUnchanged, RingUnchanged
    <2>3. Waiting' = Waiting  BY <1>0, <2>1, <2>2 DEF WhereInv, Waiting
    <2> QED  BY <1>2, <2>1, <2>3
  <1>6. ASSUME toAdd' = NoRunner, UNCHANGED <<copiesPendingStart, copiesPendingContinue, savedError>>
        PROVE  SavedInv'
    <2>1. Adding' = {}  BY <1>6, RunnerFacts DEF Adding
    <2> QED  BY <1>2, <1>6, <2>1, PlacesUnchanged DEF Waiting
  <1>7. ASSUME OnReadEvent \/ OnWriteEventError PROVE SavedInv'
    <2> DEFINE r == Head(cq).r
    <2>1. r \in InRing /\ r \in Runners
      BY <1>0, <1>7, EventPlaces DEF OnReadEvent, OnWriteEventError, InRing
    <2>2. r \notin Waiting /\ ~Future(r)
      BY <1>0, <2>1 DEF WhereInv, Waiting, PushedInv
    <2>3. \A x \in Runners : savedError'[x] => savedError[x] \/ x = r
      BY <1>0, <1>7, <2>1 DEF OnReadEvent, OnWriteEventError, SaveError
    <2>4. Waiting' = Waiting
      BY <1>7, PlacesUnchanged DEF OnReadEvent, OnWriteEventError, Waiting
    <2> HIDE DEF r
    <2> QED  BY <1>1, <2>2, <2>3, <2>4 DEF SavedInv
  <1>8. ASSUME OnWriteEventReschedule PROVE SavedInv'
    <2>1. ~savedError[Head(cq).r] /\ Head(cq).r \in Runners
      BY <1>0, <1>8, EventFacts DEF OnWriteEventReschedule
    <2>2. PICK r \in Runners : r = Head(cq).r  BY <2>1
    <2>3. /\ copiesPendingContinue' = Append(copiesPendingContinue, r)
          /\ UNCHANGED <<copiesPendingStart, toAdd, savedError>>
      BY <1>8, <2>2 DEF OnWriteEventReschedule
    <2>4. Continuing' = Elems(copiesPendingContinue')  BY DEF Continuing, Elems
    <2>5. copiesPendingContinue \in Seq(Runners)  BY <1>0 DEF TypeInv, PlaceTypes
    <2>6. Continuing' = Continuing \cup {r}
      BY <2>2, <2>3, <2>4, <2>5, AppendFacts DEF Continuing
    <2>7. Waiting' = Waiting \cup {r}  BY <2>3, <2>6, PlacesUnchanged DEF Waiting
    <2> QED  BY <1>1, <2>1, <2>2, <2>3, <2>7 DEF SavedInv
  <1> QED
    BY <1>3, <1>4, <1>5, <1>6, <1>7, <1>8 DEF Next, AddStep, SubmitStep, KernelStep, Completes,
        vars, AddCopyJob, LowPriorityLoad, LowPriorityOpen, AddCopyJobPartTotal, Start, Join,
        JoinReturn, StopAdding, TakeBlock, PickNothing, HighPriorityLoad, HighPriorityRetry,
        HighPriorityOpen, HighPriorityOpenError, FinishEmptyFile, AddToBatch, Submit,
        SubmitNothing, KernelRead, KernelWrite, OnWriteEventFinished, NextRound, SubmitExit,
        Terminated

\* Types, places, chunks and descriptors together.
FileInv == CoreInv /\ ChunksCounted /\ FilesInv

\* They hold, and go on to hold.
LEMMA FileHolds == Spec => []FileInv
  <1>1. Init => FilesInv
    <2> SUFFICES ASSUME Init PROVE FilesInv  OBVIOUS
    <2>1. /\ sq = <<>> /\ kernel = {} /\ cq = <<>> /\ copiesPendingContinue = <<>> /\ alive = {}
          /\ savedError = [r \in Runners |-> FALSE]
          /\ fd = [f \in Files |-> [s \in Sides |-> "never"]]
      BY DEF Init
    <2>2. Begun = {}
      BY <2>1 DEF Begun, InRing, Continuing, Outstanding, SqReqs, KernelReqs, CqReqs, Elems
    <2> QED
      BY <2>1, <2>2, RunnerFacts DEF FilesInv, OpenedInv, ClosedInv, UnclosedInv, SavedInv
  <1>2. FilesInv /\ CoreInv /\ ChunksCounted /\ [Next]_vars => FilesInv'
    BY OpenedNext, ClosedNext, SavedNext DEF FilesInv
  <1> QED  BY <1>1, <1>2, CoreHolds, ChunksCountedRight, PTL DEF Spec, FileInv

\* A runner with a request of its own is in the ring.
LEMMA BusyInRing ==
    ASSUME CoreInv, NEW r \in Runners, jobsRunning[r] > 0
    PROVE  r \in InRing /\ r \in Begun /\ r \in alive
  <1>1. <<r, "read">> \in Outstanding \/ <<r, "write">> \in Outstanding
    BY DEF CoreInv, PlacesInv, JobsInv
  <1>2. r \in InRing  BY <1>1, ReadHasWrite DEF CoreInv, InRing
  <1> QED  BY <1>2 DEF CoreInv, PlacesInv, WhereInv, Begun

\* No request of a healthy runner is in flight on a closed descriptor, in whatever order the
\* chunks of a file finish and whichever of them fails.
THEOREM OpenWhileCopied == Spec => []FilesOpenWhileCopied
  <1>1. FileInv => FilesOpenWhileCopied
    <2> SUFFICES ASSUME FileInv, NEW r \in Runners, jobsRunning[r] > 0, ~savedError[r]
                 PROVE  OpenSides(FileOf(r)) = Sides
      BY DEF FilesOpenWhileCopied
    <2>1. r \in Begun /\ r \in alive /\ FileOf(r) \in Files  BY BusyInRing, RunnerFacts DEF FileInv
    <2>2. \A s \in Sides : fd[FileOf(r)][s] # "never" /\ fd[FileOf(r)][s] # "closed"
      BY <2>1 DEF FileInv, FilesInv, OpenedInv, ClosedInv
    <2>3. \A s \in Sides : fd[FileOf(r)][s] \in {"never", "open", "closed"}
      BY <2>1 DEF FileInv, CoreInv, TypeInv, FdTypes
    <2> QED  BY <2>2, <2>3 DEF OpenSides
  <1> QED  BY <1>1, FileHolds, PTL

-----------------------------------------------------------------------------
(* Descriptors for the submit thread.                                      *)

\* What is to be opened for the runner whose turn it is can be opened.
StarvedInv == SubmitNeverStarved /\ (spc = "cas" => ToOpen(toAdd) # {})

\* A runner has at most two descriptors to open.
LEMMA ToOpenFacts ==
    ASSUME NEW r
    PROVE  ToOpen(r) \subseteq Sides /\ IsFiniteSet(ToOpen(r)) /\ Cardinality(ToOpen(r)) \in 0..2
  <1>1. ToOpen(r) \subseteq Sides  BY DEF ToOpen, Sides
  <1>2. IsFiniteSet(Sides) /\ Cardinality(Sides) = 2
    <2>1. IsFiniteSet({"src"}) /\ Cardinality({"src"}) = 1  BY FS_Singleton
    <2>2. Sides = {"src"} \cup {"dst"}  BY DEF Sides
    <2> QED  BY <2>1, <2>2, FS_AddElement
  <1>3. IsFiniteSet(ToOpen(r)) /\ Cardinality(ToOpen(r)) <= 2  BY <1>1, <1>2, FS_Subset
  <1> QED  BY <1>1, <1>3, FS_CardinalityType

\* Whatever the adding thread opens, it leaves enough for the submit thread.
LEMMA StarvedNext ==
    ASSUME FileInv, BudgetInv, StarvedInv, [Next]_vars
    PROVE  StarvedInv'
  <1> USE DEF mainVars, fdVars, queueVars, lifeVars, runnerVars, submitVars, ringVars, countVars
  <1>0. /\ TypeInv /\ ControlInv /\ WhereInv /\ PushedInv /\ OpenedInv
        /\ Cap \in Nat /\ fileDescriptorsUsed \in Int
        /\ fd \in [Files -> [Sides -> {"never", "open", "closed"}]]
    BY QueueAssumption DEF FileInv, CoreInv, PlacesInv, FilesInv, TypeInv, FdTypes
  <1>1. ASSUME LowPriorityOpen PROVE StarvedInv'
    <2>1. UNCHANGED <<spc, toAdd>>  BY <1>1 DEF LowPriorityOpen
    <2>2. CASE spc \notin {"open", "cas"}  BY <2>1, <2>2 DEF StarvedInv, SubmitNeverStarved
    <2>3. CASE fdVars' = fdVars
      BY <2>1, <2>3 DEF StarvedInv, SubmitNeverStarved, ToOpen, Size, FileOf
    <2>4. CASE spc \in {"open", "cas"} /\ fdVars' # fdVars
      <3>1. toAdd \in Runners /\ toAdd \in Adding /\ FileOf(toAdd) \in Files
        BY <1>0, <2>4, TurnFacts DEF Adding
      <3>2. ~Future(toAdd)  BY <1>0, <3>1 DEF WhereInv, PushedInv
      <3>3. FileOf(toAdd) # mfile  BY <1>1, <3>2 DEF LowPriorityOpen, Future, Opening
      <3>4. /\ fileDescriptorsUsed = mseen /\ fileDescriptorsUsed' = mseen + 1
            /\ fd' = fd \/ fd' = [fd EXCEPT ![mfile][mside] = "open"]
        BY <1>1, <2>4 DEF LowPriorityOpen, CompareExchange, ReserveAndOpen
      <3>5. mseen < Cap - 2
        BY <1>1 DEF LowPriorityOpen, BudgetInv, LowPriorityLimit, RESERVED_HIGH_PRIORITY_FD_COUNT
      <3>6. Cap - fileDescriptorsUsed' >= 2  BY <1>0, <3>4, <3>5
      <3>7. fd'[FileOf(toAdd)] = fd[FileOf(toAdd)]  BY <1>0, <3>1, <3>3, <3>4
      <3>8. ToOpen(toAdd)' = ToOpen(toAdd)  BY <2>1, <3>7 DEF ToOpen, Size, FileOf
      <3>9. Cardinality(ToOpen(toAdd)) \in 0..2  BY ToOpenFacts
      <3>10. Cap - fileDescriptorsUsed' >= Cardinality(ToOpen(toAdd))
        BY <1>0, <3>4, <3>6, <3>9
      <3> QED  BY <2>1, <3>8, <3>10 DEF StarvedInv, SubmitNeverStarved
    <2> QED  BY <2>2, <2>3, <2>4
  <1>2. ASSUME PickContinue PROVE StarvedInv'
    <2> DEFINE r == Head(copiesPendingContinue)
    <2>1. r \in Continuing /\ r \in Runners
      BY <1>0, <1>2, TailFacts DEF PickContinue, TypeInv, PlaceTypes, Continuing
    <2>2. ToOpen(r) = {}  BY <1>0, <2>1 DEF OpenedInv, Begun, ToOpen, Sides
    <2>3. toAdd' = r /\ UNCHANGED fdVars /\ spc' = "open"  BY <1>2 DEF PickContinue
    <2> HIDE DEF r
    <2>4. ToOpen(toAdd)' = {}  BY <2>2, <2>3 DEF ToOpen, Size, FileOf
    <2>5. Cardinality(ToOpen(toAdd)') = 0  BY <2>4, FS_EmptySet
    <2>6. fileDescriptorsUsed <= Cap  BY DEF BudgetInv, FdBudget
    <2> QED  BY <1>0, <2>3, <2>5, <2>6 DEF StarvedInv, SubmitNeverStarved
  <1>3. ASSUME PickStart PROVE StarvedInv'
    <2> DEFINE r == Head(copiesPendingStart)
    <2>1. toAdd' = r /\ UNCHANGED fdVars /\ spc' = "open" /\ CanPickStart  BY <1>3 DEF PickStart
    <2>2. ~outOfFds \/ ~NeedsFileDescriptors(FileOf(r))  BY <2>1 DEF CanPickStart
    <2> HIDE DEF r
    <2>3. ToOpen(toAdd)' = ToOpen(r)  BY <2>1 DEF ToOpen, Size, FileOf
    <2>4. Cap - fileDescriptorsUsed >= Cardinality(ToOpen(r))
      <3>1. CASE ~outOfFds
        <4>1. Cap - fileDescriptorsUsed >= 2
          BY <1>0, <3>1 DEF outOfFds, RESERVED_HIGH_PRIORITY_FD_COUNT
        <4>2. Cardinality(ToOpen(r)) \in 0..2  BY ToOpenFacts
        <4> QED  BY <1>0, <4>1, <4>2
      <3>2. CASE ~NeedsFileDescriptors(FileOf(r))
        <4>1. ToOpen(r) = {}  BY <3>2 DEF NeedsFileDescriptors, OpenSides, ToOpen, Sides
        <4>2. Cardinality(ToOpen(r)) = 0  BY <4>1, FS_EmptySet
        <4>3. fileDescriptorsUsed <= Cap  BY DEF BudgetInv, FdBudget
        <4> QED  BY <1>0, <4>2, <4>3
      <3> QED  BY <2>2, <3>1, <3>2
    <2> QED  BY <2>1, <2>3, <2>4 DEF StarvedInv, SubmitNeverStarved
  <1>4. ASSUME HighPriorityLoad PROVE StarvedInv'
    <2>1. UNCHANGED <<toAdd, fdVars>> /\ spc = "open" /\ ToOpen(toAdd) # {}  BY <1>4 DEF HighPriorityLoad
    <2>2. ToOpen(toAdd)' = ToOpen(toAdd)  BY <2>1 DEF ToOpen, Size, FileOf
    <2> QED  BY <2>1, <2>2 DEF StarvedInv, SubmitNeverStarved
  <1>5. ASSUME HighPriorityRetry PROVE StarvedInv'
    <2>1. UNCHANGED <<toAdd, fdVars>> /\ spc = "cas" /\ spc' = "open"  BY <1>5 DEF HighPriorityRetry
    <2>2. ToOpen(toAdd)' = ToOpen(toAdd)  BY <2>1 DEF ToOpen, Size, FileOf
    <2> QED  BY <2>1, <2>2 DEF StarvedInv, SubmitNeverStarved
  <1>6. ASSUME HighPriorityOpen PROVE StarvedInv'
    <2> DEFINE s == FirstToOpen(toAdd)
    <2>1. FileOf(toAdd) \in Files  BY <1>0, <1>6, TurnFacts DEF HighPriorityOpen
    <2>2. /\ spc = "cas" /\ spc' = "open" /\ UNCHANGED toAdd
          /\ fd' = [fd EXCEPT ![FileOf(toAdd)][s] = "open"]
          /\ fileDescriptorsUsed' = fileDescriptorsUsed + 1
      BY <1>6 DEF HighPriorityOpen, CompareExchange, ReserveAndOpen
    <2>3. s \in ToOpen(toAdd) /\ s \in Sides
      BY <2>2, ToOpenFacts DEF StarvedInv, FirstToOpen, Sides
    <2> HIDE DEF s
    <2>4. \A x \in Sides : fd'[FileOf(toAdd)][x] = IF x = s THEN "open" ELSE fd[FileOf(toAdd)][x]
      BY <1>0, <2>1, <2>2, <2>3
    <2>5. ToOpen(toAdd)' = ToOpen(toAdd) \ {s}
      BY <2>2, <2>3, <2>4 DEF ToOpen, Size, FileOf, Sides
    <2>6. IsFiniteSet(ToOpen(toAdd)) /\ Cardinality(ToOpen(toAdd)) \in 0..2  BY ToOpenFacts
    <2>7. Cardinality(ToOpen(toAdd) \ {s}) = Cardinality(ToOpen(toAdd)) - 1
      BY <2>3, <2>6, FS_RemoveElement
    <2>8. Cap - fileDescriptorsUsed >= Cardinality(ToOpen(toAdd))
      BY <2>2 DEF StarvedInv, SubmitNeverStarved
    <2>9. Cap - fileDescriptorsUsed' >= Cardinality(ToOpen(toAdd)')
      BY <1>0, <2>2, <2>5, <2>6, <2>7, <2>8
    <2> QED  BY <2>2, <2>9 DEF StarvedInv, SubmitNeverStarved
  <1>7. ASSUME Start PROVE StarvedInv'
    BY <1>7 DEF Start, StarvedInv, SubmitNeverStarved
  <1>8. ASSUME JoinReturn PROVE StarvedInv'
    BY <1>8 DEF JoinReturn, StarvedInv, SubmitNeverStarved
  <1>9. ASSUME StopAdding PROVE StarvedInv'
    BY <1>9 DEF StopAdding, StarvedInv, SubmitNeverStarved
  <1>10. ASSUME TakeBlock PROVE StarvedInv'
    BY <1>10 DEF TakeBlock, StarvedInv, SubmitNeverStarved
  <1>11. ASSUME PickNothing PROVE StarvedInv'
    BY <1>11 DEF PickNothing, StarvedInv, SubmitNeverStarved
  <1>12. ASSUME HighPriorityOpenError PROVE StarvedInv'
    BY <1>12 DEF HighPriorityOpenError, StarvedInv, SubmitNeverStarved
  <1>13. ASSUME FinishEmptyFile PROVE StarvedInv'
    BY <1>13 DEF FinishEmptyFile, StarvedInv, SubmitNeverStarved
  <1>14. ASSUME AddToBatch PROVE StarvedInv'
    BY <1>14 DEF AddToBatch, StarvedInv, SubmitNeverStarved
  <1>15. ASSUME Submit PROVE StarvedInv'
    BY <1>15 DEF Submit, StarvedInv, SubmitNeverStarved
  <1>16. ASSUME SubmitNothing PROVE StarvedInv'
    BY <1>16 DEF SubmitNothing, StarvedInv, SubmitNeverStarved
  <1>17. ASSUME NextRound PROVE StarvedInv'
    BY <1>17 DEF NextRound, StarvedInv, SubmitNeverStarved
  <1>18. ASSUME SubmitExit PROVE StarvedInv'
    BY <1>18 DEF SubmitExit, StarvedInv, SubmitNeverStarved
  <1>19. ASSUME OnReadEvent PROVE StarvedInv'
    BY <1>19 DEF OnReadEvent, Peeked, StarvedInv, SubmitNeverStarved
  <1>20. ASSUME OnWriteEventError PROVE StarvedInv'
    BY <1>20 DEF OnWriteEventError, Peeked, StarvedInv, SubmitNeverStarved
  <1>21. ASSUME OnWriteEventFinished PROVE StarvedInv'
    BY <1>21 DEF OnWriteEventFinished, Peeked, StarvedInv, SubmitNeverStarved
  <1>22. CASE UNCHANGED <<fdVars, spc, toAdd>>
    BY <1>22 DEF StarvedInv, SubmitNeverStarved, ToOpen, Size, FileOf
  <1> QED
    BY <1>1, <1>2, <1>3, <1>4, <1>5, <1>6, <1>7, <1>8, <1>9, <1>10, <1>11, <1>12, <1>13, <1>14,
        <1>15, <1>16, <1>17, <1>18, <1>19, <1>20, <1>21, <1>22
    DEF Next, AddStep, SubmitStep, KernelStep, vars, mainVars, fdVars, queueVars, lifeVars,
        runnerVars, submitVars, ringVars, countVars, AddCopyJob, LowPriorityLoad,
        AddCopyJobPartTotal, AddCopyJobPartPush, Join, KernelRead, KernelWrite,
        OnWriteEventReschedule, Terminated, Completes

\* When the submit thread has picked a runner, the descriptors it has to open are available
\* and stay so, although the adding thread goes on opening files.
THEOREM NeverStarved == Spec => []SubmitNeverStarved
  <1>1. Init => StarvedInv  BY DEF Init, StarvedInv, SubmitNeverStarved
  <1>2. FileInv /\ BudgetInv /\ StarvedInv /\ [Next]_vars => StarvedInv'  BY StarvedNext
  <1>3. StarvedInv => SubmitNeverStarved  BY DEF StarvedInv
  <1> QED  BY <1>1, <1>2, <1>3, FileHolds, BudgetHolds, PTL DEF Spec

-----------------------------------------------------------------------------
(* The heap.                                                               *)

\* The destructor of a runner gives its block back.
LEMMA DeleteOwners ==
    ASSUME TypeInv, OwnersInv, NEW r \in Runners, Delete(r), UNCHANGED nextBuffer
    PROVE  OwnersInv'
  <1>0. /\ usedList \in [HeapBlocks -> BOOLEAN] /\ NoBlock \notin HeapBlocks
        /\ buffer \in [Runners -> HeapBlocks \cup {NoBlock}]
    BY QueueAssumption DEF TypeInv, BlockTypes, HeapBlocks, NoBlock
  <1>1. /\ usedList' = IF buffer[r] = NoBlock THEN usedList ELSE [usedList EXCEPT ![buffer[r]] = FALSE]
        /\ buffer' = [buffer EXCEPT ![r] = NoBlock]
    BY DEF Delete, ReturnBlock
  <1>2. \A x \in Runners : buffer'[x] = IF x = r THEN NoBlock ELSE buffer[x]  BY <1>0, <1>1
  <1>3. ASSUME NEW b \in HeapBlocks
        PROVE  usedList'[b] <=> (nextBuffer' = b \/ \E x \in Runners : buffer'[x] = b)
    <2>1. usedList[b] <=> (nextBuffer = b \/ \E x \in Runners : buffer[x] = b)  BY DEF OwnersInv
    <2>2. CASE buffer[r] = b
      <3>1. ~usedList'[b]  BY <1>0, <1>1, <2>2
      <3>2. nextBuffer # b /\ \A x \in Runners : x # r => buffer[x] # b
        BY <1>0, <2>2 DEF OwnersInv
      <3> QED  BY <1>0, <1>2, <3>1, <3>2
    <2>3. CASE buffer[r] # b
      <3>1. usedList'[b] = usedList[b]  BY <1>0, <1>1, <2>3
      <3>2. (\E x \in Runners : buffer'[x] = b) <=> (\E x \in Runners : buffer[x] = b)
        BY <1>0, <1>2, <2>3
      <3> QED  BY <2>1, <3>1, <3>2
    <2> QED  BY <2>2, <2>3
  <1>4. \A x \in Runners : buffer'[x] # NoBlock => buffer'[x] # nextBuffer'
    BY <1>2 DEF OwnersInv
  <1>5. \A x, o \in Runners : buffer'[x] = buffer'[o] /\ buffer'[x] # NoBlock => x = o
    BY <1>2 DEF OwnersInv
  <1> QED  BY <1>3, <1>4, <1>5 DEF OwnersInv

\* A block has one owner.
LEMMA OwnersNext ==
    ASSUME CoreInv, BlockInv, [Next]_vars
    PROVE  OwnersInv'
  <1> USE DEF mainVars, fdVars, queueVars, lifeVars, runnerVars, submitVars, ringVars, countVars
  <1>0. /\ usedList \in [HeapBlocks -> BOOLEAN] /\ NoBlock \notin HeapBlocks
        /\ buffer \in [Runners -> HeapBlocks \cup {NoBlock}] /\ nextBuffer \in HeapBlocks \cup {NoBlock}
        /\ TypeInv /\ ControlInv /\ WhereInv /\ OwnersInv
    BY QueueAssumption
    DEF CoreInv, TypeInv, BlockTypes, HeapBlocks, NoBlock, PlacesInv, BlockInv
  <1>1. ASSUME TakeBlock PROVE OwnersInv'
    <2>1. CASE UNCHANGED <<nextBuffer, usedList>>  BY <1>0, <1>1, <2>1 DEF TakeBlock, OwnersInv
    <2>2. CASE /\ nextBuffer = NoBlock /\ FreeBlocks # {}
               /\ nextBuffer' = FirstFree /\ usedList' = [usedList EXCEPT ![FirstFree] = TRUE]
      <3>1. FirstFree \in HeapBlocks /\ ~usedList[FirstFree] /\ buffer' = buffer
        BY <1>1, <2>2, FirstFreeFacts DEF TakeBlock, FreeBlocks
      <3>2. \A r \in Runners : buffer[r] # FirstFree  BY <1>0, <3>1 DEF OwnersInv
      <3>3. \A b \in HeapBlocks : usedList'[b] <=> (usedList[b] \/ b = FirstFree)
        BY <1>0, <2>2, <3>1
      <3> QED  BY <1>0, <2>2, <3>1, <3>2, <3>3 DEF OwnersInv
    <2> QED  BY <1>1, <2>1, <2>2 DEF TakeBlock, GetBlock
  <1>2. ASSUME PickStart PROVE OwnersInv'
    <2>1. PICK r : r = Head(copiesPendingStart)  OBVIOUS
    <2>2. copiesPendingStart # <<>> /\ nextBuffer # NoBlock
      BY <1>0, <1>2 DEF PickStart, CanPickStart, copiesPendingStartCount, TypeInv, PlaceTypes
    <2>3. r \in Runners /\ r \in Starting
      BY <1>0, <2>1, <2>2, TailFacts DEF TypeInv, PlaceTypes, Starting
    <2>4. buffer[r] = NoBlock  BY <1>0, <2>3 DEF BlockInv, HoldersInv
    <2>5. UNCHANGED usedList  BY <1>2 DEF PickStart
    <2>6. CASE UNCHANGED <<buffer, nextBuffer>>  BY <2>5, <2>6, <1>0 DEF OwnersInv
    <2>7. CASE buffer' = [buffer EXCEPT ![r] = nextBuffer] /\ nextBuffer' = NoBlock
      <3>1. \A x \in Runners : buffer'[x] = IF x = r THEN nextBuffer ELSE buffer[x]
        BY <1>0, <2>3, <2>7
      <3>2. \A b \in HeapBlocks : (\E x \in Runners : buffer'[x] = b) <=>
                (nextBuffer = b \/ \E x \in Runners : buffer[x] = b)
        BY <1>0, <2>3, <2>4, <3>1
      <3>3. \A b \in HeapBlocks : usedList'[b] <=> (nextBuffer' = b \/ \E x \in Runners : buffer'[x] = b)
        BY <1>0, <2>5, <2>7, <3>2 DEF OwnersInv
      <3>4. \A x \in Runners : buffer'[x] # NoBlock => buffer'[x] # nextBuffer'  BY <2>7
      <3>5. \A x, o \in Runners : buffer'[x] = buffer'[o] /\ buffer'[x] # NoBlock => x = o
        BY <1>0, <2>2, <3>1 DEF OwnersInv
      <3> QED  BY <3>3, <3>4, <3>5 DEF OwnersInv
    <2> QED  BY <1>2, <2>1, <2>6, <2>7 DEF PickStart
  <1>3. ASSUME HighPriorityOpenError PROVE OwnersInv'
    BY <1>0, <1>3, TurnFacts, DeleteOwners DEF HighPriorityOpenError
  <1>4. ASSUME FinishEmptyFile PROVE OwnersInv'
    BY <1>0, <1>4, TurnFacts, DeleteOwners DEF FinishEmptyFile
  <1>5. ASSUME OnWriteEventError PROVE OwnersInv'
    BY <1>0, <1>5, EventFacts, DeleteOwners DEF OnWriteEventError
  <1>6. ASSUME OnWriteEventFinished PROVE OwnersInv'
    BY <1>0, <1>6, EventFacts, DeleteOwners DEF OnWriteEventFinished
  <1>7. ASSUME SubmitExit PROVE OwnersInv'
    <2>1. /\ usedList' = IF nextBuffer = NoBlock THEN usedList ELSE [usedList EXCEPT ![nextBuffer] = FALSE]
          /\ nextBuffer' = NoBlock /\ buffer' = buffer
      BY <1>7 DEF SubmitExit, ReturnBlock
    <2>2. \A b \in HeapBlocks : usedList'[b] <=> (usedList[b] /\ b # nextBuffer)  BY <1>0, <2>1
    <2> QED  BY <1>0, <2>1, <2>2 DEF OwnersInv
  <1>8. CASE UNCHANGED <<usedList, buffer, nextBuffer>>
    BY <1>0, <1>8 DEF OwnersInv
  <1> QED
    BY <1>1, <1>2, <1>3, <1>4, <1>5, <1>6, <1>7, <1>8
    DEF Next, AddStep, SubmitStep, KernelStep, vars, mainVars, fdVars, queueVars, lifeVars,
        runnerVars, submitVars, ringVars, countVars, AddCopyJob, LowPriorityLoad,
        LowPriorityOpen, AddCopyJobPartTotal, AddCopyJobPartPush, Start, Join, JoinReturn,
        StopAdding, PickContinue, PickNothing, HighPriorityLoad, HighPriorityRetry,
        HighPriorityOpen, AddToBatch, Submit, SubmitNothing, KernelRead, KernelWrite,
        OnReadEvent, OnWriteEventReschedule, NextRound, Terminated, Completes

\* The destructor leaves no block with the runner that it deletes.
LEMMA DeleteHolders ==
    ASSUME TypeInv, HoldersInv, NEW r \in Runners, Delete(r), UNCHANGED copiesPendingStart
    PROVE  HoldersInv'
  <1>1. /\ alive' = alive \ {r} /\ Starting' = Starting
        /\ buffer' = [buffer EXCEPT ![r] = NoBlock] /\ buffer \in [Runners -> HeapBlocks \cup {NoBlock}]
    BY PlacesUnchanged DEF Delete, TypeInv, BlockTypes
  <1>2. \A x \in Runners : buffer'[x] = IF x = r THEN NoBlock ELSE buffer[x]  BY <1>1
  <1> QED  BY <1>1, <1>2 DEF HoldersInv, Size, FileOf

\* A runner has a block when it needs one.
LEMMA HoldersNext ==
    ASSUME CoreInv, BlockInv, [Next]_vars
    PROVE  HoldersInv'
  <1> USE DEF mainVars, fdVars, queueVars, lifeVars, runnerVars, submitVars, ringVars, countVars
  <1>0. /\ TypeInv /\ ControlInv /\ RingInv /\ WhereInv /\ PushedInv /\ HoldersInv /\ WhereInv'
        /\ buffer \in [Runners -> HeapBlocks \cup {NoBlock}]
    BY WhereNext DEF CoreInv, PlacesInv, RoomInv, BlockInv, TypeInv, BlockTypes
  <1>1. ASSUME AddCopyJobPartPush PROVE HoldersInv'
    <2>1. mfile \in Files /\ mpart \in 1..PartCount(mfile) /\ mpart \in Nat /\ Splitting
      BY <1>0, <1>1 DEF AddCopyJobPartPush, ControlInv, TypeInv, MainTypes, Splitting
    <2>2. PICK r \in Runners : r = <<mfile, mpart>> /\ FileOf(r) = mfile /\ r[2] = mpart
      BY <2>1, RunnerFacts
    <2>3. r \notin alive  BY <1>0, <2>1, <2>2 DEF PushedInv, Future
    <2>4. /\ alive' = alive \cup {r} /\ UNCHANGED buffer
          /\ copiesPendingStart' = Append(copiesPendingStart, r)
      BY <1>1, <2>2 DEF AddCopyJobPartPush
    <2>5. Starting' = Elems(copiesPendingStart')  BY DEF Starting, Elems
    <2>6. copiesPendingStart \in Seq(Runners)  BY <1>0 DEF TypeInv, PlaceTypes
    <2>7. Starting' = Starting \cup {r}  BY <2>2, <2>4, <2>5, <2>6, AppendFacts DEF Starting
    <2>8. alive' \ Starting' = alive \ Starting  BY <2>3, <2>4, <2>7
    <2> QED  BY <1>0, <2>4, <2>8 DEF HoldersInv, Size, FileOf
  <1>2. ASSUME PickStart PROVE HoldersInv'
    <2>1. copiesPendingStart # <<>> /\ nextBuffer # NoBlock
      BY <1>0, <1>2 DEF PickStart, CanPickStart, copiesPendingStartCount, TypeInv, PlaceTypes
    <2>2. PICK r \in Runners : r = Head(copiesPendingStart)
      BY <1>0, <2>1, TailFacts DEF TypeInv, PlaceTypes
    <2>3. copiesPendingStart' = Tail(copiesPendingStart) /\ alive' = alive  BY <1>2 DEF PickStart
    <2>4. Starting' = Elems(copiesPendingStart')  BY DEF Starting, Elems
    <2>5. copiesPendingStart \in Seq(Runners)  BY <1>0 DEF TypeInv, PlaceTypes
    <2>6. Starting' = Starting \ {r} /\ r \in Starting
      BY <1>0, <2>1, <2>2, <2>3, <2>4, <2>5, TailFacts DEF WhereInv, Starting
    <2>7. alive' \ Starting' = (alive \ Starting) \cup {r}  BY <1>0, <2>3, <2>6 DEF WhereInv
    <2>8. \A x \in Runners : buffer'[x] = IF x = r /\ Size(r) > 0 THEN nextBuffer ELSE buffer[x]
      BY <1>0, <1>2, <2>2 DEF PickStart
    <2> QED  BY <1>0, <2>1, <2>7, <2>8 DEF HoldersInv, Size, FileOf
  <1>3. ASSUME HighPriorityOpenError PROVE HoldersInv'
    BY <1>0, <1>3, TurnFacts, DeleteHolders DEF HighPriorityOpenError
  <1>4. ASSUME FinishEmptyFile PROVE HoldersInv'
    BY <1>0, <1>4, TurnFacts, DeleteHolders DEF FinishEmptyFile
  <1>5. ASSUME OnWriteEventError PROVE HoldersInv'
    BY <1>0, <1>5, EventFacts, DeleteHolders DEF OnWriteEventError
  <1>6. ASSUME OnWriteEventFinished PROVE HoldersInv'
    BY <1>0, <1>6, EventFacts, DeleteHolders DEF OnWriteEventFinished
  <1>7. CASE UNCHANGED <<buffer, copiesPendingStart, alive>>
    BY <1>0, <1>7, PlacesUnchanged DEF HoldersInv, Size, FileOf
  <1> QED
    BY <1>1, <1>2, <1>3, <1>4, <1>5, <1>6, <1>7
    DEF Next, AddStep, SubmitStep, KernelStep, vars, mainVars, fdVars, queueVars, lifeVars,
        runnerVars, submitVars, ringVars, countVars, AddCopyJob, LowPriorityLoad,
        LowPriorityOpen, AddCopyJobPartTotal, Start, Join, JoinReturn, StopAdding, TakeBlock,
        PickContinue, PickNothing, HighPriorityLoad, HighPriorityRetry, HighPriorityOpen,
        AddToBatch, Submit, SubmitNothing, KernelRead, KernelWrite, OnReadEvent,
        OnWriteEventReschedule, NextRound, SubmitExit, Terminated, Completes

\* There are finitely many runners.
LEMMA RunnersFinite == IsFiniteSet(Runners)
  <1> DEFINE parts(f) == {<<f, i>> : i \in 1..PartCount(f)}
             F == [f \in Files |-> parts(f)]
             T == {parts(f) : f \in Files}
  <1>1. IsFiniteSet(T)
    <2>1. F \in [Files -> T] /\ \A t \in T : \E f \in Files : F[f] = t  OBVIOUS
    <2> HIDE DEF F, T
    <2>2. F \in Surjection(Files, T)  BY <2>1 DEF Surjection
    <2> QED  BY <2>2, QueueAssumption, FS_Surjection
  <1>2. \A t \in T : IsFiniteSet(t)
    <2>1. ASSUME NEW f \in Files PROVE IsFiniteSet(parts(f))
      <3>1. PartCount(f) \in Nat  BY RunnerFacts
      <3>2. \A n \in Nat : IsFiniteSet(1..n)  BY FS_Interval
      <3>3. IsFiniteSet({f} \X (1..PartCount(f)))  BY <3>1, <3>2, FS_Singleton, FS_Product
      <3>4. parts(f) \subseteq {f} \X (1..PartCount(f))  OBVIOUS
      <3> QED  BY <3>3, <3>4, FS_Subset
    <2> QED  BY <2>1
  <1>3. Runners = UNION T  BY DEF Runners
  <1> HIDE DEF T
  <1> QED  BY <1>1, <1>2, <1>3, FS_UNION

\* The submit thread ends only when no runner is left, and none comes before the join.
LEMMA ExitNext ==
    ASSUME TypeInv, ControlInv, ExitInv, [Next]_vars
    PROVE  ExitInv'
  <1> USE DEF mainVars, fdVars, queueVars, lifeVars, runnerVars, submitVars, ringVars, countVars
  <1>1. ASSUME SubmitExit PROVE ExitInv'
    <2>1. Cardinality(alive) = 0 /\ alive' = alive /\ nextBuffer' = NoBlock
      BY <1>1 DEF SubmitExit, isDone, keepAliveCount
    <2>2. IsFiniteSet(alive)  BY RunnersFinite, FS_Subset DEF TypeInv, PlaceTypes
    <2>3. alive = {}  BY <2>1, <2>2, FS_EmptySet
    <2> QED  BY <2>1, <2>3 DEF ExitInv
  <1>2. ASSUME AddCopyJobPartPush PROVE ExitInv'
    BY <1>2 DEF AddCopyJobPartPush, ControlInv, ExitInv
  <1>3. ASSUME Start PROVE ExitInv'
    BY <1>3 DEF Start, ExitInv
  <1>4. ASSUME JoinReturn PROVE ExitInv'
    BY <1>4 DEF JoinReturn, ExitInv
  <1>5. ASSUME StopAdding PROVE ExitInv'
    BY <1>5 DEF StopAdding, ExitInv
  <1>6. ASSUME TakeBlock PROVE ExitInv'
    BY <1>6 DEF TakeBlock, ExitInv
  <1>7. ASSUME PickContinue PROVE ExitInv'
    BY <1>7 DEF PickContinue, ExitInv
  <1>8. ASSUME PickStart PROVE ExitInv'
    BY <1>8 DEF PickStart, ExitInv
  <1>9. ASSUME PickNothing PROVE ExitInv'
    BY <1>9 DEF PickNothing, ExitInv
  <1>10. ASSUME HighPriorityLoad PROVE ExitInv'
    BY <1>10 DEF HighPriorityLoad, ExitInv
  <1>11. ASSUME HighPriorityRetry PROVE ExitInv'
    BY <1>11 DEF HighPriorityRetry, ExitInv
  <1>12. ASSUME HighPriorityOpen PROVE ExitInv'
    BY <1>12 DEF HighPriorityOpen, ExitInv
  <1>13. ASSUME HighPriorityOpenError PROVE ExitInv'
    BY <1>13 DEF HighPriorityOpenError, ExitInv
  <1>14. ASSUME FinishEmptyFile PROVE ExitInv'
    BY <1>14 DEF FinishEmptyFile, ExitInv
  <1>15. ASSUME AddToBatch PROVE ExitInv'
    BY <1>15 DEF AddToBatch, ExitInv
  <1>16. ASSUME Submit PROVE ExitInv'
    BY <1>16 DEF Submit, ExitInv
  <1>17. ASSUME SubmitNothing PROVE ExitInv'
    BY <1>17 DEF SubmitNothing, ExitInv
  <1>18. ASSUME NextRound PROVE ExitInv'
    BY <1>18 DEF NextRound, ExitInv
  <1>19. ASSUME OnWriteEventError PROVE ExitInv'
    BY <1>19 DEF OnWriteEventError, Peeked, ExitInv
  <1>20. ASSUME OnWriteEventFinished PROVE ExitInv'
    BY <1>20 DEF OnWriteEventFinished, Peeked, ExitInv
  <1>21. CASE UNCHANGED <<spc, alive, nextBuffer>>
    BY <1>21 DEF ExitInv
  <1> QED
    BY <1>1, <1>2, <1>3, <1>4, <1>5, <1>6, <1>7, <1>8, <1>9, <1>10, <1>11, <1>12, <1>13, <1>14,
        <1>15, <1>16, <1>17, <1>18, <1>19, <1>20, <1>21
    DEF Next, AddStep, SubmitStep, KernelStep, vars, mainVars, fdVars, queueVars, lifeVars,
        runnerVars, submitVars, ringVars, countVars, AddCopyJob, LowPriorityLoad,
        LowPriorityOpen, AddCopyJobPartTotal, Join, KernelRead, KernelWrite, OnReadEvent,
        OnWriteEventReschedule, Terminated, Completes

\* The heap and the end of the submit thread together.
HeapInv == CoreInv /\ BlockInv /\ ExitInv

\* They hold, and go on to hold.
LEMMA HeapHolds == Spec => []HeapInv
  <1>1. Init => BlockInv /\ ExitInv
    <2> SUFFICES ASSUME Init PROVE BlockInv /\ ExitInv  OBVIOUS
    <2>1. NoBlock \notin HeapBlocks  BY QueueAssumption DEF HeapBlocks, NoBlock
    <2>2. OwnersInv  BY <2>1 DEF Init, OwnersInv
    <2>3. HoldersInv  BY DEF Init, HoldersInv
    <2>4. ExitInv  BY DEF Init, ExitInv
    <2> QED  BY <2>2, <2>3, <2>4 DEF BlockInv
  <1>2. CoreInv /\ BlockInv /\ ExitInv /\ [Next]_vars => BlockInv' /\ ExitInv'
    BY OwnersNext, HoldersNext, ExitNext DEF BlockInv, CoreInv
  <1> QED  BY <1>1, <1>2, CoreHolds, PTL DEF Spec, HeapInv

\* A block has one owner and is marked as in use while it has, and a runner with a request
\* in flight has a block: no request reads into memory that another chunk has.
THEOREM BlocksExclusive == Spec => []BlocksNotShared
  <1>1. HeapInv => BlocksNotShared
    <2> SUFFICES ASSUME HeapInv PROVE BlocksNotShared  OBVIOUS
    <2>0. /\ OwnersInv /\ HoldersInv /\ TypeInv /\ WhereInv /\ NoBlock \notin HeapBlocks
          /\ usedList \in [HeapBlocks -> BOOLEAN]
      BY QueueAssumption
      DEF HeapInv, BlockInv, CoreInv, PlacesInv, HeapBlocks, NoBlock, TypeInv, BlockTypes
    <2>1. ASSUME NEW b \in HeapBlocks
          PROVE  Cardinality({r \in Runners : buffer[r] = b}) + (IF nextBuffer = b THEN 1 ELSE 0)
                    = (IF usedList[b] THEN 1 ELSE 0)
      <3> DEFINE O == {r \in Runners : buffer[r] = b}
      <3>1. usedList[b] <=> (nextBuffer = b \/ O # {})  BY <2>0 DEF OwnersInv
      <3>2. nextBuffer = b => O = {}  BY <2>0 DEF OwnersInv
      <3>3. \A r, o \in O : r = o  BY <2>0 DEF OwnersInv
      <3> HIDE DEF O
      <3>4. CASE O = {}
        <4>1. Cardinality(O) = 0  BY <3>4, FS_EmptySet
        <4>2. CASE nextBuffer = b  BY <3>1, <4>1, <4>2 DEF O
        <4>3. CASE nextBuffer # b  BY <3>1, <3>4, <4>1, <4>3 DEF O
        <4> QED  BY <4>2, <4>3
      <3>5. CASE O # {}
        <4>1. PICK r : O = {r}  BY <3>3, <3>5
        <4>2. Cardinality(O) = 1  BY <4>1, FS_Singleton
        <4>3. nextBuffer # b /\ usedList[b]  BY <3>1, <3>2, <3>5
        <4> QED  BY <4>2, <4>3 DEF O
      <3> QED  BY <3>4, <3>5
    <2>2. ASSUME NEW r \in Runners, jobsRunning[r] > 0 PROVE buffer[r] # NoBlock
      <3>1. r \in InRing /\ r \in Begun /\ r \in alive  BY <2>2, BusyInRing DEF HeapInv
      <3>2. r \notin Starting /\ Size(r) > 0  BY <2>0, <3>1 DEF WhereInv
      <3> QED  BY <2>0, <3>1, <3>2 DEF HoldersInv
    <2> QED  BY <2>1, <2>2 DEF BlocksNotShared
  <1> QED  BY <1>1, HeapHolds, PTL

\* Without runners nothing is on its way.
LEMMA NoRunnerNothing ==
    ASSUME CoreInv, alive = {}
    PROVE  /\ copiesPendingStart = <<>> /\ copiesPendingContinue = <<>>
           /\ sq = <<>> /\ kernel = {} /\ cq = <<>> /\ submissionsRunning = 0
  <1>1. Starting = {} /\ Continuing = {} /\ InRing = {}  BY DEF CoreInv, PlacesInv, WhereInv
  <1>2. \A S : \A s \in Seq(S) : Elems(s) = {} => s = <<>>
    <2>1. ASSUME NEW S, NEW s \in Seq(S), s # <<>> PROVE Elems(s) # {}  BY <2>1, TailFacts
    <2> QED  BY <2>1
  <1>3. copiesPendingStart = <<>> /\ copiesPendingContinue = <<>>
    BY <1>1, <1>2 DEF CoreInv, TypeInv, PlaceTypes, Starting, Continuing
  <1>4. \A r \in Runners : <<r, "write">> \notin Outstanding /\ <<r, "read">> \notin Outstanding
    BY <1>1, ReadHasWrite DEF InRing, CoreInv
  <1>5. sq = <<>>
    <2>1. sq \in Seq(Runners \X {"read", "write"})  BY DEF CoreInv, TypeInv, RingTypes
    <2>2. ASSUME sq # <<>> PROVE FALSE
      <3>1. Head(sq) \in Runners \X {"read", "write"} /\ Head(sq) \in Elems(sq)
        BY <2>1, <2>2, TailFacts
      <3>2. PICK r \in Runners, op \in {"read", "write"} : Head(sq) = <<r, op>>  BY <3>1
      <3>3. <<r, op>> \in Outstanding  BY <3>1, <3>2 DEF Outstanding, SqReqs
      <3> QED  BY <1>4, <3>2, <3>3
    <2> QED  BY <2>2
  <1>6. kernel = {}
    BY <1>4 DEF CoreInv, TypeInv, RingTypes, Outstanding, KernelReqs, Request
  <1>7. cq = <<>>
    <2>1. cq \in Seq(Cqes)  BY DEF CoreInv, TypeInv, RingTypes
    <2>2. ASSUME cq # <<>> PROVE FALSE
      <3>1. Head(cq) \in Cqes /\ Head(cq) = cq[1] /\ 1 \in 1..Len(cq)  BY <2>1, <2>2, TailFacts
      <3>2. Request(Head(cq)) \in CqReqs  BY <3>1 DEF CqReqs
      <3> QED  BY <1>4, <3>1, <3>2 DEF Outstanding, Request, Cqes
    <2> QED  BY <2>2
  <1>8. submissionsRunning = 0
    BY <1>5, <1>6, <1>7, FS_EmptySet DEF CoreInv, RoomInv
  <1> QED  BY <1>3, <1>5, <1>6, <1>7, <1>8

\* The asserts in join() hold whatever failed: when the submit thread has ended, nothing is
\* in flight or waiting and every block is back in the heap.
THEOREM ExitIsClean == Spec => []CleanExit
  <1>1. HeapInv => CleanExit
    <2> SUFFICES ASSUME HeapInv, spc = "exited"
                 PROVE  /\ submissionsRunning = 0 /\ getFreeBlocksCount = Blocks
                        /\ copiesPendingStart = <<>> /\ copiesPendingContinue = <<>>
      BY DEF CleanExit
    <2>1. alive = {} /\ nextBuffer = NoBlock  BY DEF HeapInv, ExitInv
    <2>2. FreeBlocks = HeapBlocks
      <3>1. \A b \in HeapBlocks : b # NoBlock  BY QueueAssumption DEF HeapBlocks, NoBlock
      <3>2. \A r \in Runners : buffer[r] = NoBlock  BY <2>1 DEF HeapInv, BlockInv, HoldersInv
      <3> QED  BY <2>1, <3>1, <3>2 DEF HeapInv, BlockInv, OwnersInv, FreeBlocks
    <2>3. Cardinality(1..Blocks) = Blocks
      <3>1. \A n \in Nat \ {0} : Cardinality(1..n) = n  BY FS_Interval
      <3> QED  BY <3>1, QueueAssumption
    <2> QED  BY <2>1, <2>2, <2>3, NoRunnerNothing DEF HeapInv, getFreeBlocksCount, HeapBlocks
  <1> QED  BY <1>1, HeapHolds, PTL
==============================================================================
