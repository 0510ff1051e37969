--------------------------- MODULE CopyQueueProofs ---------------------------
(***************************************************************************)
(* Proofs about CopyQueue, for any files, chunks, cap of descriptors, ring *)
(* and heap that satisfy the assumptions of that module, and any number of *)
(* sessions, failures, short transfers and split submissions.              *)
(***************************************************************************)
EXTENDS CopyQueue, TLAPS, FiniteSetTheorems

-----------------------------------------------------------------------------
(* Where runners and requests are.                                         *)

Elems(s) == {s[i] : i \in 1..Len(s)}
Distinct(s) == \A i, j \in 1..Len(s) : s[i] = s[j] => i = j

\* The requests in each part of the ring, and all of them.
Request(e) == <<e.r, e.op>>
SqReqs == Elems(sq)
KernelReqs == {Request(k) : k \in kernel}
CqReqs == {Request(cq[i]) : i \in 1..Len(cq)}
Outstanding == SqReqs \cup KernelReqs \cup CqReqs

\* The runners that wait for their first turn, for a further one, have their turn, and
\* are in the ring; a chain in the ring ends with its write.
Starting == Elems(copiesPendingStart)
Continuing == Elems(copiesPendingContinue)
Adding == {r \in Runners : r = toAdd}
InRing == {r \in Runners : <<r, "write">> \in Outstanding}

\* The runners that have had a turn.
Begun == Continuing \cup InRing

\* The runners that exist and have nothing in the ring.
Waiting == Starting \cup Continuing \cup Adding

\* The adding thread is between the beginning and the end of a file.
Opening == mpc \in {"load", "cas"}
Splitting == mpc \in {"total", "push"}

\* A runner that has not been pushed yet.
Future(r) ==
    \/ FileOf(r) \notin added
    \/ FileOf(r) = mfile /\ Opening
    \/ FileOf(r) = mfile /\ Splitting /\ r[2] >= mpart

-----------------------------------------------------------------------------
(* The inductive invariant.                                                *)

\* Types.  That counters are not negative, and bounded, is proved from the rest.
MainTypes ==
    /\ mpc \in {"ready", "load", "cas", "total", "push", "joining"}
    /\ mfile \in Files \cup {NoFile} /\ mside \in Sides /\ mpart \in Nat /\ mseen \in Int
    /\ added \subseteq Files /\ joined \in {"no", "ok", "failed"} /\ sessions \in 0..MaxSessions
    /\ state \in {"Idle", "Running", "AdditionComplete"}

FdTypes ==
    /\ fileDescriptorsUsed \in Int /\ sseen \in Int
    /\ fd \in [Files -> [Sides -> {"never", "open", "closed"}]]
    /\ chunksRemaining \in [Files -> Int]

PlaceTypes ==
    /\ copiesPendingStart \in Seq(Runners) /\ copiesPendingContinue \in Seq(Runners)
    /\ alive \subseteq Runners /\ batch \subseteq Runners
    /\ toAdd \in Runners \cup {NoRunner}
    /\ spc \in {"off", "check", "pick", "open", "cas", "submit", "complete", "exited"}

BlockTypes ==
    /\ usedList \in [HeapBlocks -> BOOLEAN]
    /\ buffer \in [Runners -> HeapBlocks \cup {NoBlock}]
    /\ nextBuffer \in HeapBlocks \cup {NoBlock}

DataTypes ==
    /\ totalBytesToCopy \in Nat /\ totalBytesCopied \in Nat /\ errored \in BOOLEAN
    /\ left \in [Runners -> 0..ChunkBytes]
    /\ readDone \in [Runners -> BOOLEAN] /\ savedError \in [Runners -> BOOLEAN]

Cqes == [r: Runners, op: {"read", "write"},
         res: {"full", "over", "last", "short", "fail", "all", "some", "cancel"}]

RingTypes ==
    /\ submissionsRunning \in Int /\ jobsRunning \in [Runners -> Int] /\ runnersAdded \in BOOLEAN
    /\ sq \in Seq(Runners \X {"read", "write"})
    /\ kernel \subseteq [r: Runners, op: {"read", "write"}, cancelled: BOOLEAN]
    /\ cq \in Seq(Cqes)

TypeInv == MainTypes /\ FdTypes /\ PlaceTypes /\ BlockTypes /\ DataTypes /\ RingTypes

\* Where the two threads are.
ControlInv ==
    /\ toAdd # NoRunner <=> spc \in {"open", "cas"}
    /\ mpc \in {"load", "cas", "total", "push"} => mfile \in added
    /\ mpc \in {"total", "push"} => mpart \in 1..PartCount(mfile)
    /\ mpc \in {"ready", "joining"} => mfile = NoFile
    /\ state = "AdditionComplete" <=> mpc = "joining"
    /\ state = "Idle" <=> spc = "off"
    /\ spc = "exited" => mpc = "joining"

\* What has been checked before a reservation is made.
BudgetInv ==
    /\ FdBudget
    /\ mpc = "cas" => mseen < LowPriorityLimit
    /\ spc = "cas" => sseen < Cap

\* A request is in one place, and the read of a chain goes ahead of its write.
SqInv ==
    /\ Distinct(sq)
    /\ \A i \in 1..Len(sq) :
        sq[i][2] = "read" => i + 1 \in 1..Len(sq) /\ sq[i + 1] = <<sq[i][1], "write">>

KernelInv ==
    /\ \A k, l \in kernel : Request(k) = Request(l) => k = l
    /\ \A k \in kernel : k.op = "read" => <<k.r, "write">> \in KernelReqs

CqInv ==
    /\ \A i, j \in 1..Len(cq) : Request(cq[i]) = Request(cq[j]) => i = j
    /\ \A i \in 1..Len(cq) : cq[i].op = "read" =>
        \/ <<cq[i].r, "write">> \in KernelReqs
        \/ \E j \in (i + 1)..Len(cq) : Request(cq[j]) = <<cq[i].r, "write">>

ApartInv ==
    SqReqs \cap KernelReqs = {} /\ SqReqs \cap CqReqs = {} /\ KernelReqs \cap CqReqs = {}

RingInv == SqInv /\ KernelInv /\ CqInv /\ ApartInv

\* A runner is in one place, and only a runner with something to copy has a request.
WhereInv ==
    /\ Distinct(copiesPendingStart) /\ Distinct(copiesPendingContinue)
    /\ alive = Starting \cup Continuing \cup Adding \cup InRing
    /\ Starting \cap (Continuing \cup Adding \cup InRing) = {}
    /\ Continuing \cap (Adding \cup InRing) = {} /\ Adding \cap InRing = {}
    /\ \A r \in Begun : Size(r) > 0

\* A runner's own count of its requests is right.
JobsInv ==
    \A r \in Runners :
        jobsRunning[r] = (IF <<r, "read">> \in Outstanding THEN 1 ELSE 0)
                         + (IF <<r, "write">> \in Outstanding THEN 1 ELSE 0)

\* What has been pushed is not pushed again.
PushedInv == \A r \in alive : ~Future(r)

PlacesInv == WhereInv /\ JobsInv /\ PushedInv

\* submissionsRunning counts the requests and was compared with the ring in time.
RoomInv ==
    /\ IsFiniteSet(kernel)
    /\ submissionsRunning = Len(sq) + Cardinality(kernel) + Len(cq)
    /\ submissionsRunning <= RingSize
    /\ spc \in {"pick", "open", "cas"} => submissionsRunning + MAX_JOBS_PER_RUNNER <= RingSize

-----------------------------------------------------------------------------
(* Sequences, runners and counting.                                        *)

\* Appending to a sequence.
LEMMA AppendFacts ==
    ASSUME NEW S, NEW s \in Seq(S), NEW e \in S
    PROVE  /\ Append(s, e) \in Seq(S) /\ Len(Append(s, e)) = Len(s) + 1
           /\ Elems(Append(s, e)) = Elems(s) \cup {e}
           /\ Distinct(s) /\ e \notin Elems(s) => Distinct(Append(s, e))
  <1>1. /\ Append(s, e) \in Seq(S) /\ Len(s) \in Nat /\ Len(Append(s, e)) = Len(s) + 1
        /\ \A i \in 1..Len(s) : Append(s, e)[i] = s[i]
        /\ Append(s, e)[Len(s) + 1] = e
    OBVIOUS
  <1>2. Elems(Append(s, e)) = Elems(s) \cup {e}  BY <1>1 DEF Elems
  <1>3. ASSUME Distinct(s), e \notin Elems(s) PROVE Distinct(Append(s, e))
    BY <1>1, <1>3 DEF Distinct, Elems
  <1> QED  BY <1>1, <1>2, <1>3

\* Taking the first element off a sequence.
LEMMA TailFacts ==
    ASSUME NEW S, NEW s \in Seq(S), s # <<>>
    PROVE  /\ Head(s) \in S /\ Tail(s) \in Seq(S) /\ Len(s) > 0 /\ Len(Tail(s)) = Len(s) - 1
           /\ Head(s) = s[1] /\ \A i \in 1..Len(Tail(s)) : Tail(s)[i] = s[i + 1]
           /\ Head(s) \in Elems(s)
           /\ Distinct(s) => Distinct(Tail(s)) /\ Elems(Tail(s)) = Elems(s) \ {Head(s)}
  <1>1. /\ Head(s) \in S /\ Tail(s) \in Seq(S) /\ Len(s) \in Nat /\ Len(s) > 0
        /\ Len(Tail(s)) = Len(s) - 1 /\ Head(s) = s[1]
        /\ \A i \in 1..Len(Tail(s)) : Tail(s)[i] = s[i + 1]
    OBVIOUS
  <1>2. Head(s) \in Elems(s)  BY <1>1 DEF Elems
  <1>3. ASSUME Distinct(s) PROVE Distinct(Tail(s)) /\ Elems(Tail(s)) = Elems(s) \ {Head(s)}
    <2>1. Distinct(Tail(s))  BY <1>1, <1>3 DEF Distinct
    <2>2. Elems(Tail(s)) \subseteq Elems(s) \ {Head(s)}  BY <1>1, <1>3 DEF Distinct, Elems
    <2>3. ASSUME NEW x \in Elems(s) \ {Head(s)} PROVE x \in Elems(Tail(s))
      <3>1. PICK i \in 1..Len(s) : s[i] = x  BY DEF Elems
      <3>2. i # 1  BY <3>1, <1>1
      <3>3. i - 1 \in 1..Len(Tail(s)) /\ Tail(s)[i - 1] = x  BY <3>1, <3>2, <1>1
      <3> QED  BY <3>3 DEF Elems
    <2> QED  BY <2>1, <2>2, <2>3
  <1> QED  BY <1>1, <1>2, <1>3

\* Putting one sequence after another.
LEMMA ConcatFacts ==
    ASSUME NEW S, NEW s \in Seq(S), NEW t \in Seq(S)
    PROVE  /\ s \o t \in Seq(S) /\ Len(s \o t) = Len(s) + Len(t)
           /\ \A i \in 1..Len(s) : (s \o t)[i] = s[i]
           /\ \A i \in 1..Len(t) : (s \o t)[Len(s) + i] = t[i]
           /\ Elems(s \o t) = Elems(s) \cup Elems(t)
  <1>1. /\ s \o t \in Seq(S) /\ Len(s \o t) = Len(s) + Len(t)
        /\ Len(s) \in Nat /\ Len(t) \in Nat
        /\ \A i \in 1..Len(s) : (s \o t)[i] = s[i]
        /\ \A i \in 1..Len(t) : (s \o t)[Len(s) + i] = t[i]
    OBVIOUS
  <1>2. Elems(s) \subseteq Elems(s \o t)  BY <1>1 DEF Elems
  <1>3. Elems(t) \subseteq Elems(s \o t)
    <2>1. \A i \in 1..Len(t) : Len(s) + i \in 1..Len(s \o t)  BY <1>1
    <2> QED  BY <1>1, <2>1 DEF Elems
  <1>4. ASSUME NEW x \in Elems(s \o t) PROVE x \in Elems(s) \cup Elems(t)
    <2>1. PICK i \in 1..Len(s \o t) : (s \o t)[i] = x  BY DEF Elems
    <2>2. CASE i <= Len(s)  BY <1>1, <2>1, <2>2 DEF Elems
    <2>3. CASE i > Len(s)
      <3>1. i - Len(s) \in 1..Len(t) /\ t[i - Len(s)] = x  BY <1>1, <2>1, <2>3
      <3> QED  BY <3>1 DEF Elems
    <2> QED  BY <1>1, <2>1, <2>2, <2>3
  <1> QED  BY <1>1, <1>2, <1>3, <1>4

\* Taking the first n elements off a sequence.
LEMMA SuffixFacts ==
    ASSUME NEW S, NEW s \in Seq(S), NEW n \in 1..Len(s)
    PROVE  /\ SubSeq(s, n + 1, Len(s)) \in Seq(S)
           /\ Len(SubSeq(s, n + 1, Len(s))) = Len(s) - n
           /\ \A i \in 1..(Len(s) - n) : SubSeq(s, n + 1, Len(s))[i] = s[n + i]
  OBVIOUS

\* A runner is a file and the number of one of its parts.
LEMMA RunnerFacts ==
    /\ \A r \in Runners : /\ FileOf(r) \in Files /\ r[2] \in 1..PartCount(FileOf(r))
                          /\ r = <<FileOf(r), r[2]>> /\ r # NoRunner
                          /\ Size(r) \in 0..ChunkBytes
    /\ \A f \in Files, i \in Nat :
        i \in 1..PartCount(f) => <<f, i>> \in Runners /\ FileOf(<<f, i>>) = f /\ <<f, i>>[2] = i
    /\ \A f \in Files : PartCount(f) \in Nat \ {0}
  <1>1. \A f \in Files : PartCount(f) \in Nat \ {0}  BY QueueAssumption DEF PartCount
  <1>2. ASSUME NEW r \in Runners
        PROVE  /\ FileOf(r) \in Files /\ r[2] \in 1..PartCount(FileOf(r))
               /\ r = <<FileOf(r), r[2]>> /\ r # NoRunner
               /\ Size(r) \in 0..ChunkBytes
    <2>1. PICK f \in Files : r \in {<<f, i>> : i \in 1..PartCount(f)}  BY DEF Runners
    <2>2. PICK i \in 1..PartCount(f) : r = <<f, i>>  BY <2>1
    <2>3. FileOf(r) = f /\ r[2] = i  BY <2>2 DEF FileOf
    <2>4. r # NoRunner  BY <2>2 DEF NoRunner
    <2>5. Size(r) \in 0..ChunkBytes  BY QueueAssumption DEF Size
    <2> QED  BY <2>2, <2>3, <2>4, <2>5
  <1>3. ASSUME NEW f \in Files, NEW i \in 1..PartCount(f)
        PROVE  <<f, i>> \in Runners /\ FileOf(<<f, i>>) = f /\ <<f, i>>[2] = i
    BY DEF Runners, FileOf
  <1> QED  BY <1>1, <1>2, <1>3

-----------------------------------------------------------------------------
(* Types and control.                                                      *)

\* The first free block is one, if there is one.
LEMMA FirstFreeFacts ==
    ASSUME FreeBlocks # {}
    PROVE  FirstFree \in FreeBlocks /\ FirstFree \in HeapBlocks
  <1>1. FreeBlocks \subseteq Nat  BY QueueAssumption DEF FreeBlocks, HeapBlocks
  <1>2. \E b \in FreeBlocks : \A c \in FreeBlocks : b <= c
    <2>1. IsWellFoundedOn(OpToRel(<, Nat), Nat)  BY NatLessThanWellFounded
    <2>2. PICK b \in FreeBlocks : \A c \in FreeBlocks : ~(<<c, b>> \in OpToRel(<, Nat))
      BY <1>1, <2>1, WFMin
    <2>3. ASSUME NEW c \in FreeBlocks PROVE b <= c
      <3>1. c \in Nat /\ b \in Nat  BY <1>1
      <3>2. c < b => <<c, b>> \in OpToRel(<, Nat)  BY <3>1 DEF OpToRel
      <3>3. ~(c < b)  BY <2>2, <3>2, Zenon
      <3> QED  BY <3>1, <3>3
    <2> QED  BY <2>3
  <1> QED  BY <1>2 DEF FirstFree, FreeBlocks

\* The record at the head of the completion queue.
LEMMA EventFacts ==
    ASSUME TypeInv, NEW op, Peeked(op)
    PROVE  /\ cq # <<>> /\ Head(cq).r \in Runners /\ Head(cq).op = op
           /\ Head(cq).res \in {"full", "over", "last", "short", "fail", "all", "some", "cancel"}
           /\ FileOf(Head(cq).r) \in Files
           /\ Len(cq) > 0 /\ Head(cq) = cq[1] /\ Len(Tail(cq)) = Len(cq) - 1
           /\ \A i \in 1..Len(Tail(cq)) : Tail(cq)[i] = cq[i + 1]
           /\ Tail(cq) \in Seq(Cqes)
  <1>1. cq \in Seq(Cqes) /\ cq # <<>> /\ Head(cq).op = op  BY DEF TypeInv, RingTypes, Peeked
  <1>2. Head(cq) \in Cqes  BY <1>1, TailFacts
  <1>3. Head(cq).r \in Runners /\ FileOf(Head(cq).r) \in Files  BY <1>2, RunnerFacts DEF Cqes
  <1> QED  BY <1>1, <1>2, <1>3, TailFacts DEF Cqes

\* The runner whose turn it is.
LEMMA TurnFacts ==
    ASSUME TypeInv, ControlInv, spc \in {"open", "cas"}
    PROVE  toAdd \in Runners /\ FileOf(toAdd) \in Files /\ toAdd # NoRunner
  BY RunnerFacts DEF TypeInv, PlaceTypes, ControlInv

\* What handleFileClose can change.
LEMMA CloseFacts ==
    ASSUME TypeInv, NEW f \in Files
    PROVE  /\ Closing(f) \subseteq Sides /\ Closing(f) \subseteq OpenSides(f)
           /\ Released(f) \in 0..2
           /\ Closed(f) \in [Files -> [Sides -> {"never", "open", "closed"}]]
           /\ \A g \in Files, s \in Sides :
                Closed(f)[g][s] = IF g = f /\ s \in Closing(f) THEN "closed" ELSE fd[g][s]
  <1>1. Closing(f) \subseteq Sides /\ Closing(f) \subseteq OpenSides(f)
    BY DEF Closing, OpenSides
  <1>2. Released(f) \in 0..2
    <2>1. IsFiniteSet(Sides) /\ Cardinality(Sides) = 2
      <3>1. IsFiniteSet({"src"}) /\ Cardinality({"src"}) = 1  BY FS_Singleton
      <3>2. Sides = {"src"} \cup {"dst"}  BY DEF Sides
      <3> QED  BY <3>1, <3>2, FS_AddElement
    <2>2. IsFiniteSet(Closing(f)) /\ Cardinality(Closing(f)) <= 2  BY <1>1, <2>1, FS_Subset
    <2> QED  BY <2>2, FS_CardinalityType DEF Released
  <1>3. fd \in [Files -> [Sides -> {"never", "open", "closed"}]]  BY DEF TypeInv, FdTypes
  <1>4. Closed(f) \in [Files -> [Sides -> {"never", "open", "closed"}]]
    BY <1>3 DEF Closed
  <1>5. \A g \in Files, s \in Sides :
            Closed(f)[g][s] = IF g = f /\ s \in Closing(f) THEN "closed" ELSE fd[g][s]
    BY <1>3 DEF Closed
  <1> QED  BY <1>1, <1>2, <1>4, <1>5

\* The adding thread's variables keep their types.
LEMMA MainTypesNext == TypeInv /\ ControlInv /\ [Next]_vars => MainTypes'
  <1> SUFFICES ASSUME TypeInv, ControlInv, [Next]_vars PROVE MainTypes'  OBVIOUS
  <1> USE DEF TypeInv, mainVars, fdVars, queueVars, lifeVars, runnerVars, submitVars, ringVars, countVars
  <1>1. ASSUME NEW f \in Files, AddCopyJob(f) PROVE MainTypes'
    BY <1>1 DEF AddCopyJob, MainTypes, Sides
  <1>2. ASSUME LowPriorityLoad PROVE MainTypes'
    BY <1>2 DEF LowPriorityLoad, NextDescriptor, MainTypes, FdTypes, Sides
  <1>3. ASSUME LowPriorityOpen PROVE MainTypes'
    BY <1>3 DEF LowPriorityOpen, NextDescriptor, MainTypes, Sides
  <1>4. ASSUME AddCopyJobPartTotal PROVE MainTypes'
    BY <1>4 DEF AddCopyJobPartTotal, MainTypes
  <1>5. ASSUME AddCopyJobPartPush PROVE MainTypes'
    BY <1>5 DEF AddCopyJobPartPush, MainTypes, Sides
  <1>6. ASSUME Start PROVE MainTypes'
    BY <1>6, QueueAssumption DEF Start, MainTypes
  <1>7. ASSUME Join PROVE MainTypes'
    BY <1>7 DEF Join, MainTypes
  <1>8. ASSUME JoinReturn PROVE MainTypes'
    BY <1>8 DEF JoinReturn, MainTypes
  <1>9. CASE UNCHANGED <<mainVars, state>>
    BY <1>9 DEF MainTypes
  <1> QED
    BY <1>1, <1>2, <1>3, <1>4, <1>5, <1>6, <1>7, <1>8, <1>9
    DEF Next, AddStep, SubmitStep, KernelStep, vars, mainVars, fdVars, queueVars, lifeVars,
        runnerVars, submitVars, ringVars, countVars, StopAdding, TakeBlock, PickContinue,
        PickStart, PickNothing, HighPriorityLoad, HighPriorityRetry, HighPriorityOpen,
        HighPriorityOpenError, FinishEmptyFile, AddToBatch, Submit, SubmitNothing, KernelRead,
        KernelWrite, OnReadEvent, OnWriteEventError, OnWriteEventFinished,
        OnWriteEventReschedule, NextRound, SubmitExit, Terminated, Completes

\* So do the descriptors and the counters of the files.
LEMMA FdTypesNext == TypeInv /\ ControlInv /\ [Next]_vars => FdTypes'
  <1> SUFFICES ASSUME TypeInv, ControlInv, [Next]_vars PROVE FdTypes'  OBVIOUS
  <1> USE DEF TypeInv, mainVars, fdVars, queueVars, lifeVars, runnerVars, submitVars, ringVars, countVars
  <1>1. ASSUME LowPriorityLoad PROVE FdTypes'
    BY <1>1, RunnerFacts DEF LowPriorityLoad, NextDescriptor, FdTypes, MainTypes, ControlInv
  <1>2. ASSUME LowPriorityOpen PROVE FdTypes'
    BY <1>2, RunnerFacts DEF LowPriorityOpen, NextDescriptor, ReserveAndOpen, FdTypes, MainTypes, ControlInv
  <1>3. ASSUME HighPriorityLoad PROVE FdTypes'
    BY <1>3 DEF HighPriorityLoad, FdTypes
  <1>4. ASSUME HighPriorityOpen PROVE FdTypes'
    BY <1>4, TurnFacts DEF HighPriorityOpen, ReserveAndOpen, FirstToOpen, Sides, FdTypes
  <1>5. ASSUME HighPriorityOpenError PROVE FdTypes'
    <2>1. FileOf(toAdd) \in Files  BY <1>5, TurnFacts DEF HighPriorityOpenError
    <2>5. /\ Released(FileOf(toAdd)) \in Int
          /\ Closed(FileOf(toAdd)) \in [Files -> [Sides -> {"never", "open", "closed"}]]
      BY <2>1, CloseFacts
    <2>2. fd' \in [Files -> [Sides -> {"never", "open", "closed"}]]
      BY <1>5, <2>5 DEF HighPriorityOpenError, FdTypes
    <2>3. fileDescriptorsUsed' \in Int  BY <1>5, <2>5 DEF HighPriorityOpenError, FdTypes
    <2>4. chunksRemaining' \in [Files -> Int]
      BY <1>5, <2>1 DEF HighPriorityOpenError, Delete, CountDown, FdTypes
    <2> QED  BY <1>5, <2>2, <2>3, <2>4 DEF HighPriorityOpenError, FdTypes
  <1>6. ASSUME FinishEmptyFile PROVE FdTypes'
    <2>1. FileOf(toAdd) \in Files  BY <1>6, TurnFacts DEF FinishEmptyFile
    <2> QED  BY <1>6, <2>1, CloseFacts DEF FinishEmptyFile, Delete, CountDown, HandleFileClose, FdTypes
  <1>7. ASSUME OnReadEvent PROVE FdTypes'
    <2>1. FileOf(Head(cq).r) \in Files  BY <1>7, EventFacts DEF OnReadEvent
    <2>2. UNCHANGED fdVars \/ HandleFileClose(FileOf(Head(cq).r))
      BY <1>7 DEF OnReadEvent, SaveError
    <2>3. UNCHANGED <<sseen, chunksRemaining>>  BY <1>7 DEF OnReadEvent
    <2>5. /\ Released(FileOf(Head(cq).r)) \in Int
          /\ Closed(FileOf(Head(cq).r)) \in [Files -> [Sides -> {"never", "open", "closed"}]]
      BY <2>1, CloseFacts
    <2> QED  BY <2>2, <2>3, <2>5 DEF HandleFileClose, FdTypes
  <1>8. ASSUME OnWriteEventError PROVE FdTypes'
    <2>1. FileOf(Head(cq).r) \in Files  BY <1>8, EventFacts DEF OnWriteEventError
    <2>2. UNCHANGED fdVars \/ HandleFileClose(FileOf(Head(cq).r))
      BY <1>8 DEF OnWriteEventError, SaveError
    <2>3. sseen' = sseen /\ chunksRemaining' \in [Files -> Int]
      BY <1>8, <2>1 DEF OnWriteEventError, Delete, CountDown, FdTypes
    <2>5. /\ Released(FileOf(Head(cq).r)) \in Int
          /\ Closed(FileOf(Head(cq).r)) \in [Files -> [Sides -> {"never", "open", "closed"}]]
      BY <2>1, CloseFacts
    <2> QED  BY <2>2, <2>3, <2>5 DEF HandleFileClose, FdTypes
  <1>9. ASSUME OnWriteEventFinished PROVE FdTypes'
    <2>1. FileOf(Head(cq).r) \in Files  BY <1>9, EventFacts DEF OnWriteEventFinished
    <2> QED  BY <1>9, <2>1, CloseFacts DEF OnWriteEventFinished, Delete, CountDown, HandleFileClose, FdTypes
  <1>10. CASE UNCHANGED <<fdVars, sseen, chunksRemaining>>
    BY <1>10 DEF FdTypes
  <1> QED
    BY <1>1, <1>2, <1>3, <1>4, <1>5, <1>6, <1>7, <1>8, <1>9, <1>10
    DEF Next, AddStep, SubmitStep, KernelStep, vars, mainVars, fdVars, queueVars, lifeVars,
        runnerVars, submitVars, ringVars, countVars, AddCopyJob, AddCopyJobPartTotal,
        AddCopyJobPartPush, Start, Join, JoinReturn, StopAdding, TakeBlock, PickContinue,
        PickStart, PickNothing, HighPriorityRetry, AddToBatch, Submit, SubmitNothing,
        KernelRead, KernelWrite, OnWriteEventReschedule, NextRound, SubmitExit, Terminated,
        Completes

\* So do the lists of runners.
LEMMA PlaceTypesNext == TypeInv /\ ControlInv /\ [Next]_vars => PlaceTypes'
  <1> SUFFICES ASSUME TypeInv, ControlInv, [Next]_vars PROVE PlaceTypes'  OBVIOUS
  <1> USE DEF TypeInv, mainVars, fdVars, queueVars, lifeVars, runnerVars, submitVars, ringVars, countVars
  <1>1. ASSUME AddCopyJobPartPush PROVE PlaceTypes'
    <2>1. <<mfile, mpart>> \in Runners  BY <1>1, RunnerFacts DEF AddCopyJobPartPush, ControlInv, MainTypes
    <2> QED  BY <1>1, <2>1, AppendFacts DEF AddCopyJobPartPush, PlaceTypes
  <1>2. ASSUME Start PROVE PlaceTypes'
    BY <1>2 DEF Start, PlaceTypes
  <1>3. ASSUME JoinReturn PROVE PlaceTypes'
    BY <1>3 DEF JoinReturn, PlaceTypes
  <1>4. ASSUME StopAdding PROVE PlaceTypes'
    BY <1>4 DEF StopAdding, PlaceTypes
  <1>5. ASSUME TakeBlock PROVE PlaceTypes'
    BY <1>5 DEF TakeBlock, PlaceTypes
  <1>6. ASSUME PickContinue PROVE PlaceTypes'
    BY <1>6, TailFacts DEF PickContinue, PlaceTypes
  <1>7. ASSUME PickStart PROVE PlaceTypes'
    <2>1. copiesPendingStart # <<>>
      BY <1>7 DEF PickStart, CanPickStart, copiesPendingStartCount, PlaceTypes
    <2> QED  BY <1>7, <2>1, TailFacts DEF PickStart, PlaceTypes
  <1>8. ASSUME PickNothing PROVE PlaceTypes'
    BY <1>8 DEF PickNothing, PlaceTypes
  <1>9. ASSUME HighPriorityLoad PROVE PlaceTypes'
    BY <1>9 DEF HighPriorityLoad, PlaceTypes
  <1>10. ASSUME HighPriorityRetry PROVE PlaceTypes'
    BY <1>10 DEF HighPriorityRetry, PlaceTypes
  <1>11. ASSUME HighPriorityOpen PROVE PlaceTypes'
    BY <1>11 DEF HighPriorityOpen, PlaceTypes
  <1>12. ASSUME HighPriorityOpenError PROVE PlaceTypes'
    BY <1>12 DEF HighPriorityOpenError, Delete, PlaceTypes
  <1>13. ASSUME FinishEmptyFile PROVE PlaceTypes'
    BY <1>13 DEF FinishEmptyFile, Delete, PlaceTypes
  <1>14. ASSUME AddToBatch PROVE PlaceTypes'
    BY <1>14 DEF AddToBatch, PlaceTypes
  <1>15. ASSUME Submit PROVE PlaceTypes'
    BY <1>15 DEF Submit, PlaceTypes
  <1>16. ASSUME SubmitNothing PROVE PlaceTypes'
    BY <1>16 DEF SubmitNothing, PlaceTypes
  <1>17. ASSUME OnWriteEventError PROVE PlaceTypes'
    BY <1>17 DEF OnWriteEventError, Delete, PlaceTypes
  <1>18. ASSUME OnWriteEventFinished PROVE PlaceTypes'
    BY <1>18 DEF OnWriteEventFinished, Delete, PlaceTypes
  <1>19. ASSUME OnWriteEventReschedule PROVE PlaceTypes'
    <2>1. Head(cq).r \in Runners  BY <1>19, EventFacts DEF OnWriteEventReschedule
    <2> QED  BY <1>19, <2>1, AppendFacts DEF OnWriteEventReschedule, PlaceTypes
  <1>20. ASSUME NextRound PROVE PlaceTypes'
    BY <1>20 DEF NextRound, PlaceTypes
  <1>21. ASSUME SubmitExit PROVE PlaceTypes'
    BY <1>21 DEF SubmitExit, PlaceTypes
  <1>22. CASE UNCHANGED <<copiesPendingStart, copiesPendingContinue, alive, batch, toAdd, spc>>
    BY <1>22 DEF PlaceTypes
  <1> QED
    BY <1>1, <1>2, <1>3, <1>4, <1>5, <1>6, <1>7, <1>8, <1>9, <1>10, <1>11, <1>12, <1>13, <1>14,
        <1>15, <1>16, <1>17, <1>18, <1>19, <1>20, <1>21, <1>22
    DEF Next, AddStep, SubmitStep, KernelStep, vars, mainVars, fdVars, queueVars, lifeVars,
        runnerVars, submitVars, ringVars, countVars, AddCopyJob, LowPriorityLoad,
        LowPriorityOpen, AddCopyJobPartTotal, Join, KernelRead, KernelWrite, OnReadEvent,
        Terminated, Completes

\* So do the heap and the blocks of the runners.
LEMMA BlockTypesNext == TypeInv /\ ControlInv /\ [Next]_vars => BlockTypes'
  <1> SUFFICES ASSUME TypeInv, ControlInv, [Next]_vars PROVE BlockTypes'  OBVIOUS
  <1> USE DEF TypeInv, mainVars, fdVars, queueVars, lifeVars, runnerVars, submitVars, ringVars, countVars
  <1>1. ASSUME TakeBlock PROVE BlockTypes'
    BY <1>1, FirstFreeFacts DEF TakeBlock, GetBlock, BlockTypes
  <1>2. ASSUME PickStart PROVE BlockTypes'
    BY <1>2 DEF PickStart, BlockTypes
  <1>3. ASSUME HighPriorityOpenError PROVE BlockTypes'
    BY <1>3 DEF HighPriorityOpenError, Delete, ReturnBlock, BlockTypes
  <1>4. ASSUME FinishEmptyFile PROVE BlockTypes'
    BY <1>4 DEF FinishEmptyFile, Delete, ReturnBlock, BlockTypes
  <1>5. ASSUME OnWriteEventError PROVE BlockTypes'
    BY <1>5 DEF OnWriteEventError, Delete, ReturnBlock, BlockTypes
  <1>6. ASSUME OnWriteEventFinished PROVE BlockTypes'
    BY <1>6 DEF OnWriteEventFinished, Delete, ReturnBlock, BlockTypes
  <1>7. ASSUME SubmitExit PROVE BlockTypes'
    BY <1>7 DEF SubmitExit, ReturnBlock, BlockTypes
  <1>8. CASE UNCHANGED <<usedList, buffer, nextBuffer>>
    BY <1>8 DEF BlockTypes
  <1> QED
    BY <1>1, <1>2, <1>3, <1>4, <1>5, <1>6, <1>7, <1>8
    DEF Next, AddStep, SubmitStep, KernelStep, vars, mainVars, fdVars, queueVars, lifeVars,
        runnerVars, submitVars, ringVars, countVars, AddCopyJob, LowPriorityLoad,
        LowPriorityOpen, AddCopyJobPartTotal, AddCopyJobPartPush, Start, Join, JoinReturn,
        StopAdding, PickContinue, PickNothing, HighPriorityLoad, HighPriorityRetry,
        HighPriorityOpen, AddToBatch, Submit, SubmitNothing, KernelRead, KernelWrite,
        OnReadEvent, OnWriteEventReschedule, NextRound, Terminated, Completes

\* So do the progress of the runners and the sums of their bytes.
LEMMA DataTypesNext == TypeInv /\ ControlInv /\ [Next]_vars => DataTypes'
  <1> SUFFICES ASSUME TypeInv, ControlInv, [Next]_vars PROVE DataTypes'  OBVIOUS
  <1> USE DEF TypeInv, mainVars, fdVars, queueVars, lifeVars, runnerVars, submitVars, ringVars, countVars
  <1>1. ASSUME AddCopyJobPartTotal PROVE DataTypes'
    <2>1. <<mfile, mpart>> \in Runners  BY <1>1, RunnerFacts DEF AddCopyJobPartTotal, ControlInv, MainTypes
    <2> QED  BY <1>1, <2>1, RunnerFacts, QueueAssumption DEF AddCopyJobPartTotal, CountPart, DataTypes
  <1>2. ASSUME JoinReturn PROVE DataTypes'
    BY <1>2 DEF JoinReturn, ResetSession, DataTypes
  <1>3. ASSUME HighPriorityOpenError PROVE DataTypes'
    BY <1>3 DEF HighPriorityOpenError, OnError, DataTypes
  <1>4. ASSUME FinishEmptyFile PROVE DataTypes'
    BY <1>4 DEF FinishEmptyFile, DataTypes
  <1>5. ASSUME OnReadEvent PROVE DataTypes'
    <2>1. Head(cq).r \in Runners  BY <1>5, EventFacts DEF OnReadEvent
    <2>2. readDone' \in [Runners -> BOOLEAN]  BY <1>5, <2>1 DEF OnReadEvent, DataTypes
    <2>3. savedError' \in [Runners -> BOOLEAN]  BY <1>5, <2>1 DEF OnReadEvent, SaveError, DataTypes
    <2> QED  BY <1>5, <2>2, <2>3 DEF OnReadEvent, DataTypes
  <1>6. ASSUME OnWriteEventError PROVE DataTypes'
    BY <1>6 DEF OnWriteEventError, SaveError, OnError, DataTypes
  <1>7. ASSUME OnWriteEventFinished PROVE DataTypes'
    <2>1. Head(cq).r \in Runners  BY <1>7, EventFacts DEF OnWriteEventFinished
    <2>2. left' \in [Runners -> 0..ChunkBytes] /\ totalBytesCopied' \in Nat
      BY <1>7, <2>1, QueueAssumption DEF OnWriteEventFinished, DataTypes
    <2>3. errored' \in BOOLEAN  BY <1>7 DEF OnWriteEventFinished
    <2> QED  BY <1>7, <2>2, <2>3 DEF OnWriteEventFinished, DataTypes
  <1>8. ASSUME OnWriteEventReschedule PROVE DataTypes'
    <2> DEFINE r == Head(cq).r
               written == IF Head(cq).res = "some" THEN left[r] \div 2 ELSE 0
    <2>1. r \in Runners  BY <1>8, EventFacts DEF OnWriteEventReschedule
    <2>2. left[r] \in 0..ChunkBytes  BY <2>1 DEF DataTypes
    <2>3. written \in 0..left[r]  BY <2>2, QueueAssumption
    <2>4. left' = [left EXCEPT ![r] = @ - written] /\ totalBytesCopied' = totalBytesCopied + written
      BY <1>8 DEF OnWriteEventReschedule
    <2> HIDE DEF r, written
    <2>5. left[r] - written \in 0..ChunkBytes  BY <2>2, <2>3, QueueAssumption
    <2>6. left' \in [Runners -> 0..ChunkBytes] /\ totalBytesCopied' \in Nat
      BY <2>1, <2>2, <2>3, <2>4, <2>5, QueueAssumption DEF DataTypes
    <2> QED  BY <1>8, <2>6 DEF OnWriteEventReschedule, DataTypes
  <1>9. CASE UNCHANGED <<totalBytesToCopy, totalBytesCopied, errored, left, readDone, savedError>>
    BY <1>9 DEF DataTypes
  <1> QED
    BY <1>1, <1>2, <1>3, <1>4, <1>5, <1>6, <1>7, <1>8, <1>9
    DEF Next, AddStep, SubmitStep, KernelStep, vars, mainVars, fdVars, queueVars, lifeVars,
        runnerVars, submitVars, ringVars, countVars, AddCopyJob, LowPriorityLoad,
        LowPriorityOpen, AddCopyJobPartPush, Start, Join, StopAdding, TakeBlock, PickContinue,
        PickStart, PickNothing, HighPriorityLoad, HighPriorityRetry, HighPriorityOpen,
        AddToBatch, Submit, SubmitNothing, KernelRead, KernelWrite, NextRound, SubmitExit,
        Terminated, Completes

\* So does the ring.
LEMMA RingTypesNext == TypeInv /\ ControlInv /\ [Next]_vars => RingTypes'
  <1> SUFFICES ASSUME TypeInv, ControlInv, [Next]_vars PROVE RingTypes'  OBVIOUS
  <1> USE DEF TypeInv, mainVars, fdVars, queueVars, lifeVars, runnerVars, submitVars, ringVars, countVars
  <1>1. ASSUME AddToBatch PROVE RingTypes'
    <2>1. toAdd \in Runners  BY <1>1, TurnFacts DEF AddToBatch
    <2>2. Requests(toAdd) \in Seq(Runners \X {"read", "write"}) /\ Len(Requests(toAdd)) \in Nat
      <3>1. <<toAdd, "read">> \in Runners \X {"read", "write"}
            /\ <<toAdd, "write">> \in Runners \X {"read", "write"}
        BY <2>1
      <3>2. CASE readDone[toAdd]  BY <3>1, <3>2 DEF Requests
      <3>3. CASE ~readDone[toAdd]  BY <3>1, <3>3 DEF Requests
      <3> QED  BY <3>2, <3>3
    <2>3. sq \in Seq(Runners \X {"read", "write"})  BY DEF RingTypes
    <2>4. sq' \in Seq(Runners \X {"read", "write"})
      BY <1>1, <2>2, <2>3, ConcatFacts DEF AddToBatch, GetSqe
    <2> QED  BY <1>1, <2>1, <2>2, <2>4 DEF AddToBatch, GetSqe, RingTypes
  <1>2. ASSUME Submit PROVE RingTypes'
    <2>1. PICK n \in 1..Len(sq) :
            /\ kernel' = kernel \cup {[r |-> sq[i][1], op |-> sq[i][2], cancelled |-> FALSE] : i \in 1..n}
            /\ sq' = SubSeq(sq, n + 1, Len(sq))
      BY <1>2 DEF Submit
    <2>2. sq \in Seq(Runners \X {"read", "write"}) /\ Len(sq) \in Nat  BY DEF RingTypes
    <2>3. sq' \in Seq(Runners \X {"read", "write"})  BY <2>1, <2>2, SuffixFacts
    <2>4. \A i \in 1..n : sq[i] \in Runners \X {"read", "write"}  BY <2>2
    <2>5. kernel' \subseteq [r: Runners, op: {"read", "write"}, cancelled: BOOLEAN]
      <3>1. \A i \in 1..n : [r |-> sq[i][1], op |-> sq[i][2], cancelled |-> FALSE]
                            \in [r: Runners, op: {"read", "write"}, cancelled: BOOLEAN]
        BY <2>4
      <3> HIDE DEF TypeInv
      <3>2. ASSUME NEW k \in kernel'
            PROVE  k \in [r: Runners, op: {"read", "write"}, cancelled: BOOLEAN]
        BY <2>1, <3>1 DEF TypeInv, RingTypes
      <3> QED  BY <3>2
    <2> QED  BY <1>2, <2>3, <2>5 DEF Submit, RingTypes
  <1>3. ASSUME NEW q \in kernel, KernelRead(q) PROVE RingTypes'
    <2>1. kernel' \subseteq [r: Runners, op: {"read", "write"}, cancelled: BOOLEAN]
      BY <1>3 DEF KernelRead, RingTypes
    <2>2. PICK result \in {"full", "over", "last", "short", "fail"} : cq' = Append(cq, Cqe(q, result))
      BY <1>3 DEF KernelRead, Completes
    <2>3. Cqe(q, result) \in Cqes  BY <1>3 DEF KernelRead, Cqe, Cqes, RingTypes
    <2>4. cq' \in Seq(Cqes)  BY <2>2, <2>3, AppendFacts DEF RingTypes
    <2> QED  BY <1>3, <2>1, <2>4 DEF KernelRead, Completes, RingTypes
  <1>4. ASSUME NEW q \in kernel, KernelWrite(q) PROVE RingTypes'
    <2>1. kernel' \subseteq [r: Runners, op: {"read", "write"}, cancelled: BOOLEAN]
      BY <1>4 DEF KernelWrite, RingTypes
    <2>2. PICK result \in {"cancel", "all", "some", "fail"} : cq' = Append(cq, Cqe(q, result))
      BY <1>4 DEF KernelWrite, Completes
    <2>3. Cqe(q, result) \in Cqes  BY <1>4 DEF KernelWrite, Cqe, Cqes, RingTypes
    <2>4. cq' \in Seq(Cqes)  BY <2>2, <2>3, AppendFacts DEF RingTypes
    <2> QED  BY <1>4, <2>1, <2>4 DEF KernelWrite, Completes, RingTypes
  <1>5. ASSUME OnReadEvent PROVE RingTypes'
    BY <1>5, EventFacts DEF OnReadEvent, Seen, RingTypes
  <1>6. ASSUME OnWriteEventError PROVE RingTypes'
    BY <1>6, EventFacts DEF OnWriteEventError, Seen, RingTypes
  <1>7. ASSUME OnWriteEventFinished PROVE RingTypes'
    BY <1>7, EventFacts DEF OnWriteEventFinished, Seen, RingTypes
  <1>8. ASSUME OnWriteEventReschedule PROVE RingTypes'
    BY <1>8, EventFacts DEF OnWriteEventReschedule, Seen, RingTypes
  <1>9. CASE UNCHANGED <<submissionsRunning, jobsRunning, runnersAdded, sq, kernel, cq>>
    BY <1>9 DEF RingTypes
  <1> QED
    BY <1>1, <1>2, <1>3, <1>4, <1>5, <1>6, <1>7, <1>8, <1>9
    DEF Next, AddStep, SubmitStep, KernelStep, vars, mainVars, fdVars, queueVars, lifeVars,
        runnerVars, submitVars, ringVars, countVars, AddCopyJob, LowPriorityLoad,
        LowPriorityOpen, AddCopyJobPartTotal, AddCopyJobPartPush, Start, Join, JoinReturn,
        StopAdding, TakeBlock, PickContinue, PickStart, PickNothing, HighPriorityLoad,
        HighPriorityRetry, HighPriorityOpen, HighPriorityOpenError, FinishEmptyFile,
        SubmitNothing, NextRound, SubmitExit, Terminated

\* The threads stay where they can be relative to each other.
LEMMA ControlNext == TypeInv /\ ControlInv /\ [Next]_vars => ControlInv'
  <1> SUFFICES ASSUME TypeInv, ControlInv, [Next]_vars PROVE ControlInv'  OBVIOUS
  <1> USE DEF mainVars, fdVars, queueVars, lifeVars, runnerVars, submitVars, ringVars, countVars
  <1>1. ASSUME NEW f \in Files, AddCopyJob(f) PROVE ControlInv'
    BY <1>1 DEF AddCopyJob, ControlInv
  <1>2. ASSUME LowPriorityLoad PROVE ControlInv'
    <2>1. PartCount(mfile) \in Nat \ {0}
      BY <1>2, RunnerFacts DEF LowPriorityLoad, ControlInv, TypeInv, MainTypes
    <2> QED  BY <1>2, <2>1 DEF LowPriorityLoad, NextDescriptor, ControlInv
  <1>3. ASSUME LowPriorityOpen PROVE ControlInv'
    <2>1. PartCount(mfile) \in Nat \ {0}
      BY <1>3, RunnerFacts DEF LowPriorityOpen, ControlInv, TypeInv, MainTypes
    <2>2. UNCHANGED <<mfile, added, state, toAdd, spc>> /\ NextDescriptor  BY <1>3 DEF LowPriorityOpen
    <2> QED  BY <1>3, <2>1, <2>2 DEF LowPriorityOpen, NextDescriptor, ControlInv
  <1>4. ASSUME AddCopyJobPartTotal PROVE ControlInv'
    BY <1>4 DEF AddCopyJobPartTotal, ControlInv
  <1>5. ASSUME AddCopyJobPartPush PROVE ControlInv'
    <2>1. PartCount(mfile) \in Nat
      BY <1>5, RunnerFacts DEF AddCopyJobPartPush, ControlInv, TypeInv, MainTypes
    <2> QED  BY <1>5, <2>1 DEF AddCopyJobPartPush, ControlInv
  <1>6. ASSUME Start PROVE ControlInv'
    BY <1>6 DEF Start, ControlInv
  <1>7. ASSUME Join PROVE ControlInv'
    BY <1>7 DEF Join, ControlInv
  <1>8. ASSUME JoinReturn PROVE ControlInv'
    BY <1>8 DEF JoinReturn, ControlInv
  <1>9. ASSUME StopAdding PROVE ControlInv'
    BY <1>9 DEF StopAdding, ControlInv
  <1>10. ASSUME TakeBlock PROVE ControlInv'
    BY <1>10 DEF TakeBlock, ControlInv
  <1>11. ASSUME PickContinue PROVE ControlInv'
    <2>1. Head(copiesPendingContinue) # NoRunner
      BY <1>11, TailFacts, RunnerFacts DEF PickContinue, TypeInv, PlaceTypes
    <2> QED  BY <1>11, <2>1 DEF PickContinue, ControlInv
  <1>12. ASSUME PickStart PROVE ControlInv'
    <2>1. Head(copiesPendingStart) # NoRunner
      BY <1>12, TailFacts, RunnerFacts
      DEF PickStart, CanPickStart, copiesPendingStartCount, TypeInv, PlaceTypes
    <2> QED  BY <1>12, <2>1 DEF PickStart, ControlInv
  <1>13. ASSUME PickNothing PROVE ControlInv'
    BY <1>13 DEF PickNothing, ControlInv
  <1>14. ASSUME HighPriorityLoad PROVE ControlInv'
    BY <1>14 DEF HighPriorityLoad, ControlInv
  <1>15. ASSUME HighPriorityRetry PROVE ControlInv'
    BY <1>15 DEF HighPriorityRetry, ControlInv
  <1>16. ASSUME HighPriorityOpen PROVE ControlInv'
    BY <1>16 DEF HighPriorityOpen, ControlInv
  <1>17. ASSUME HighPriorityOpenError PROVE ControlInv'
    BY <1>17 DEF HighPriorityOpenError, ControlInv
  <1>18. ASSUME FinishEmptyFile PROVE ControlInv'
    BY <1>18 DEF FinishEmptyFile, ControlInv
  <1>19. ASSUME AddToBatch PROVE ControlInv'
    BY <1>19 DEF AddToBatch, ControlInv
  <1>20. ASSUME Submit PROVE ControlInv'
    BY <1>20 DEF Submit, ControlInv
  <1>21. ASSUME SubmitNothing PROVE ControlInv'
    BY <1>21 DEF SubmitNothing, ControlInv
  <1>22. ASSUME NextRound PROVE ControlInv'
    BY <1>22 DEF NextRound, NothingToComplete, ControlInv
  <1>23. ASSUME SubmitExit PROVE ControlInv'
    BY <1>23 DEF SubmitExit, NothingToComplete, isDone, ControlInv
  <1>24. CASE UNCHANGED <<mpc, mfile, mpart, added, state, toAdd, spc>>
    BY <1>24 DEF ControlInv
  <1> QED
    BY <1>1, <1>2, <1>3, <1>4, <1>5, <1>6, <1>7, <1>8, <1>9, <1>10, <1>11, <1>12, <1>13, <1>14,
        <1>15, <1>16, <1>17, <1>18, <1>19, <1>20, <1>21, <1>22, <1>23, <1>24
    DEF Next, AddStep, SubmitStep, KernelStep, vars, mainVars, fdVars, queueVars, lifeVars,
        runnerVars, submitVars, ringVars, countVars, KernelRead, KernelWrite, OnReadEvent,
        OnWriteEventError, OnWriteEventFinished, OnWriteEventReschedule, Terminated, Completes

\* The queue as it is created.
LEMMA BaseInit == Init => TypeInv /\ ControlInv
  <1> SUFFICES ASSUME Init PROVE TypeInv /\ ControlInv  OBVIOUS
  <1>1. MainTypes  BY QueueAssumption DEF Init, MainTypes, Sides
  <1>2. FdTypes  BY DEF Init, FdTypes, RESERVED_FD_COUNT
  <1>3. PlaceTypes  BY DEF Init, PlaceTypes
  <1>4. BlockTypes  BY DEF Init, BlockTypes
  <1>5. DataTypes  BY RunnerFacts DEF Init, DataTypes
  <1>6. RingTypes
    <2>1. \A S : <<>> \in Seq(S)  OBVIOUS
    <2>2. sq \in Seq(Runners \X {"read", "write"}) /\ cq \in Seq(Cqes)  BY <2>1 DEF Init
    <2>3. kernel \subseteq [r: Runners, op: {"read", "write"}, cancelled: BOOLEAN]  BY DEF Init
    <2>4. jobsRunning \in [Runners -> Int] /\ submissionsRunning \in Int  BY DEF Init
    <2>5. runnersAdded \in BOOLEAN  BY DEF Init
    <2> QED  BY <2>2, <2>3, <2>4, <2>5 DEF RingTypes
  <1>7. ControlInv  BY DEF Init, ControlInv
  <1> QED  BY <1>1, <1>2, <1>3, <1>4, <1>5, <1>6, <1>7 DEF TypeInv

\* Types and control are inductive by themselves.
LEMMA BaseHolds == Spec => [](TypeInv /\ ControlInv)
  <1>1. TypeInv /\ ControlInv /\ [Next]_vars => TypeInv'
    BY MainTypesNext, FdTypesNext, PlaceTypesNext, BlockTypesNext, DataTypesNext, RingTypesNext
    DEF TypeInv
  <1> QED  BY <1>1, BaseInit, ControlNext, PTL DEF Spec

-----------------------------------------------------------------------------
(* Descriptors.                                                            *)

\* There are finitely many descriptors.
LEMMA OpenFinite == IsFiniteSet(OpenDescriptors) /\ Cardinality(OpenDescriptors) \in Nat
  <1>1. IsFiniteSet(Sides)
    <2>1. Sides = {"src"} \cup {"dst"} /\ IsFiniteSet({"src"})  BY FS_Singleton DEF Sides
    <2> QED  BY <2>1, FS_AddElement
  <1>2. IsFiniteSet(Files \X Sides)  BY <1>1, QueueAssumption, FS_Product
  <1>3. OpenDescriptors \subseteq Files \X Sides  BY DEF OpenDescriptors
  <1> QED  BY <1>2, <1>3, FS_Subset, FS_CardinalityType

\* Opening a descriptor adds at most one to those that are open.
LEMMA OpenCount ==
    ASSUME TypeInv, NEW f \in Files, NEW s \in Sides, fd' = [fd EXCEPT ![f][s] = "open"]
    PROVE  Cardinality(OpenDescriptors') \in 0..(Cardinality(OpenDescriptors) + 1)
  <1>1. OpenDescriptors' = OpenDescriptors \cup {<<f, s>>}
    BY DEF OpenDescriptors, TypeInv, FdTypes
  <1>2. Cardinality(OpenDescriptors \cup {<<f, s>>}) =
          IF <<f, s>> \in OpenDescriptors THEN Cardinality(OpenDescriptors)
                                          ELSE Cardinality(OpenDescriptors) + 1
    BY OpenFinite, FS_AddElement
  <1> QED  BY <1>1, <1>2, OpenFinite

\* handleFileClose gives back one reservation for every descriptor it closes.
LEMMA CloseCount ==
    ASSUME TypeInv, NEW f \in Files, fd' = Closed(f)
    PROVE  Cardinality(OpenDescriptors') = Cardinality(OpenDescriptors) - Released(f)
  <1> DEFINE C == {f} \X Closing(f)
  <1>1. C \subseteq OpenDescriptors  BY CloseFacts DEF OpenDescriptors, OpenSides
  <1>2. OpenDescriptors' = OpenDescriptors \ C
    <2>1. \A g \in Files, s \in Sides :
            fd'[g][s] = IF g = f /\ s \in Closing(f) THEN "closed" ELSE fd[g][s]
      BY CloseFacts
    <2> QED  BY <2>1 DEF OpenDescriptors
  <1>3. Cardinality(C) = Released(f) /\ OpenDescriptors \cap C = C
    <2>1. IsFiniteSet(Closing(f))
      <3>1. Closing(f) \subseteq Sides /\ IsFiniteSet({"src"}) /\ Sides = {"src"} \cup {"dst"}
        BY CloseFacts, FS_Singleton DEF Sides
      <3> QED  BY <3>1, FS_AddElement, FS_Subset
    <2>2. IsFiniteSet({f}) /\ Cardinality({f}) = 1  BY FS_Singleton
    <2>3. Cardinality(C) = 1 * Cardinality(Closing(f))  BY <2>1, <2>2, FS_Product
    <2>4. Cardinality(Closing(f)) \in Nat  BY <2>1, FS_CardinalityType
    <2> QED  BY <1>1, <2>3, <2>4 DEF Released
  <1> HIDE DEF C
  <1>4. Cardinality(OpenDescriptors \ C) =
          Cardinality(OpenDescriptors) - Cardinality(OpenDescriptors \cap C)
    BY OpenFinite, FS_Difference
  <1> QED  BY <1>2, <1>3, <1>4

\* A step that closes keeps to the budget.
LEMMA CloseBudget ==
    ASSUME TypeInv, FdBudget, NEW f \in Files,
           fd' = Closed(f), fileDescriptorsUsed' = fileDescriptorsUsed - Released(f)
    PROVE  FdBudget'
  <1>1. Released(f) \in 0..2  BY CloseFacts
  <1>2. Cardinality(OpenDescriptors') = Cardinality(OpenDescriptors) - Released(f)
    BY CloseCount
  <1> QED  BY <1>1, <1>2, OpenFinite, QueueAssumption DEF FdBudget, RESERVED_FD_COUNT, TypeInv, FdTypes

\* The checks before a reservation still hold when it is made.
LEMMA BudgetNext ==
    ASSUME TypeInv, ControlInv, BudgetInv, [Next]_vars
    PROVE  BudgetInv'
  <1> USE DEF mainVars, fdVars, queueVars, lifeVars, runnerVars, submitVars, ringVars, countVars
  <1>0. LowPriorityLimit = Cap - 2 /\ Cap \in Nat
    BY QueueAssumption DEF LowPriorityLimit, RESERVED_HIGH_PRIORITY_FD_COUNT
  <1>1. ASSUME NEW f \in Files, AddCopyJob(f) PROVE BudgetInv'
    <2>1. FdBudget'  BY <1>1 DEF AddCopyJob, BudgetInv, FdBudget, OpenDescriptors
    <2> QED  BY <1>1, <2>1 DEF AddCopyJob, BudgetInv
  <1>2. ASSUME LowPriorityLoad PROVE BudgetInv'
    <2>1. FdBudget'  BY <1>2 DEF LowPriorityLoad, BudgetInv, FdBudget, OpenDescriptors
    <2>2. mpc' = "cas" => mseen' < LowPriorityLimit
      BY <1>2, <1>0 DEF LowPriorityLoad, NextDescriptor, TypeInv, FdTypes
    <2> QED  BY <1>2, <2>1, <2>2 DEF LowPriorityLoad, BudgetInv, LowPriorityLimit
  <1>3. ASSUME LowPriorityOpen PROVE BudgetInv'
    <2>1. mfile \in Files /\ mside \in Sides
      BY <1>3 DEF LowPriorityOpen, TypeInv, MainTypes, ControlInv
    <2>2. CASE CompareExchange(mseen)
      <3>1. PICK failed \in BOOLEAN : ReserveAndOpen(mfile, mside, mseen, failed)
        BY <1>3, <2>2 DEF LowPriorityOpen, Fails
      <3>2. fileDescriptorsUsed' = fileDescriptorsUsed + 1 /\ fileDescriptorsUsed + 1 <= Cap
        BY <1>3, <2>2, <3>1, <1>0
        DEF LowPriorityOpen, CompareExchange, ReserveAndOpen, BudgetInv, TypeInv, MainTypes, FdTypes
      <3>3. Cardinality(OpenDescriptors') \in 0..(Cardinality(OpenDescriptors) + 1)
        <4>1. CASE failed
          <5>1. fd' = fd  BY <3>1, <4>1 DEF ReserveAndOpen
          <5> QED  BY <5>1, OpenFinite DEF OpenDescriptors
        <4>2. CASE ~failed
          <5>1. fd' = [fd EXCEPT ![mfile][mside] = "open"]  BY <3>1, <4>2 DEF ReserveAndOpen
          <5> QED  BY <5>1, <2>1, OpenCount
        <4> QED  BY <4>1, <4>2
      <3>4. FdBudget'
        BY <3>2, <3>3, OpenFinite, QueueAssumption
        DEF BudgetInv, FdBudget, RESERVED_FD_COUNT, TypeInv, FdTypes
      <3> QED  BY <1>3, <3>4 DEF LowPriorityOpen, NextDescriptor, BudgetInv
    <2>3. CASE ~CompareExchange(mseen)
      <3>1. FdBudget'  BY <1>3, <2>3 DEF LowPriorityOpen, BudgetInv, FdBudget, OpenDescriptors
      <3> QED  BY <1>3, <3>1 DEF LowPriorityOpen, NextDescriptor, BudgetInv
    <2> QED  BY <2>2, <2>3
  <1>4. ASSUME AddCopyJobPartTotal PROVE BudgetInv'
    <2>1. FdBudget'  BY <1>4 DEF AddCopyJobPartTotal, BudgetInv, FdBudget, OpenDescriptors
    <2> QED  BY <1>4, <2>1 DEF AddCopyJobPartTotal, BudgetInv, LowPriorityLimit
  <1>5. ASSUME AddCopyJobPartPush PROVE BudgetInv'
    <2>1. FdBudget'  BY <1>5 DEF AddCopyJobPartPush, BudgetInv, FdBudget, OpenDescriptors
    <2> QED  BY <1>5, <2>1 DEF AddCopyJobPartPush, BudgetInv, LowPriorityLimit
  <1>6. ASSUME Start PROVE BudgetInv'
    <2>1. FdBudget'  BY <1>6 DEF Start, BudgetInv, FdBudget, OpenDescriptors
    <2> QED  BY <1>6, <2>1 DEF Start, BudgetInv, LowPriorityLimit
  <1>7. ASSUME Join PROVE BudgetInv'
    <2>1. FdBudget'  BY <1>7 DEF Join, BudgetInv, FdBudget, OpenDescriptors
    <2> QED  BY <1>7, <2>1 DEF Join, BudgetInv, LowPriorityLimit
  <1>8. ASSUME JoinReturn PROVE BudgetInv'
    <2>1. FdBudget'  BY <1>8 DEF JoinReturn, BudgetInv, FdBudget, OpenDescriptors
    <2> QED  BY <1>8, <2>1 DEF JoinReturn, BudgetInv, LowPriorityLimit
  <1>9. ASSUME StopAdding PROVE BudgetInv'
    <2>1. FdBudget'  BY <1>9 DEF StopAdding, BudgetInv, FdBudget, OpenDescriptors
    <2> QED  BY <1>9, <2>1 DEF StopAdding, BudgetInv, LowPriorityLimit
  <1>10. ASSUME TakeBlock PROVE BudgetInv'
    <2>1. FdBudget'  BY <1>10 DEF TakeBlock, BudgetInv, FdBudget, OpenDescriptors
    <2> QED  BY <1>10, <2>1 DEF TakeBlock, BudgetInv, LowPriorityLimit
  <1>11. ASSUME PickContinue PROVE BudgetInv'
    <2>1. FdBudget'  BY <1>11 DEF PickContinue, BudgetInv, FdBudget, OpenDescriptors
    <2> QED  BY <1>11, <2>1 DEF PickContinue, BudgetInv, LowPriorityLimit
  <1>12. ASSUME PickStart PROVE BudgetInv'
    <2>1. FdBudget'  BY <1>12 DEF PickStart, BudgetInv, FdBudget, OpenDescriptors
    <2> QED  BY <1>12, <2>1 DEF PickStart, BudgetInv, LowPriorityLimit
  <1>13. ASSUME PickNothing PROVE BudgetInv'
    <2>1. FdBudget'  BY <1>13 DEF PickNothing, BudgetInv, FdBudget, OpenDescriptors
    <2> QED  BY <1>13, <2>1 DEF PickNothing, BudgetInv, LowPriorityLimit
  <1>14. ASSUME HighPriorityLoad PROVE BudgetInv'
    <2>1. FdBudget'  BY <1>14 DEF HighPriorityLoad, BudgetInv, FdBudget, OpenDescriptors
    <2> QED  BY <1>14, <2>1 DEF HighPriorityLoad, BudgetInv, LowPriorityLimit, TypeInv, FdTypes
  <1>15. ASSUME HighPriorityRetry PROVE BudgetInv'
    <2>1. FdBudget'  BY <1>15 DEF HighPriorityRetry, BudgetInv, FdBudget, OpenDescriptors
    <2> QED  BY <1>15, <2>1 DEF HighPriorityRetry, BudgetInv, LowPriorityLimit
  <1>16. ASSUME AddToBatch PROVE BudgetInv'
    <2>1. FdBudget'  BY <1>16 DEF AddToBatch, BudgetInv, FdBudget, OpenDescriptors
    <2> QED  BY <1>16, <2>1 DEF AddToBatch, BudgetInv, LowPriorityLimit
  <1>17. ASSUME Submit PROVE BudgetInv'
    <2>1. FdBudget'  BY <1>17 DEF Submit, BudgetInv, FdBudget, OpenDescriptors
    <2> QED  BY <1>17, <2>1 DEF Submit, BudgetInv, LowPriorityLimit
  <1>18. ASSUME SubmitNothing PROVE BudgetInv'
    <2>1. FdBudget'  BY <1>18 DEF SubmitNothing, BudgetInv, FdBudget, OpenDescriptors
    <2> QED  BY <1>18, <2>1 DEF SubmitNothing, BudgetInv, LowPriorityLimit
  <1>19. ASSUME NextRound PROVE BudgetInv'
    <2>1. FdBudget'  BY <1>19 DEF NextRound, BudgetInv, FdBudget, OpenDescriptors
    <2> QED  BY <1>19, <2>1 DEF NextRound, BudgetInv, LowPriorityLimit
  <1>20. ASSUME SubmitExit PROVE BudgetInv'
    <2>1. FdBudget'  BY <1>20 DEF SubmitExit, BudgetInv, FdBudget, OpenDescriptors
    <2> QED  BY <1>20, <2>1 DEF SubmitExit, BudgetInv, LowPriorityLimit
  <1>21. ASSUME HighPriorityOpen PROVE BudgetInv'
    <2>1. FileOf(toAdd) \in Files /\ FirstToOpen(toAdd) \in Sides
      BY <1>21, TurnFacts DEF HighPriorityOpen, FirstToOpen, Sides
    <2>2. fd' = [fd EXCEPT ![FileOf(toAdd)][FirstToOpen(toAdd)] = "open"]
      BY <1>21 DEF HighPriorityOpen, ReserveAndOpen
    <2>3. Cardinality(OpenDescriptors') \in 0..(Cardinality(OpenDescriptors) + 1)
      BY <2>1, <2>2, OpenCount
    <2>4. fileDescriptorsUsed' = fileDescriptorsUsed + 1 /\ fileDescriptorsUsed + 1 <= Cap
      BY <1>21, <1>0 DEF HighPriorityOpen, CompareExchange, ReserveAndOpen, BudgetInv, TypeInv, FdTypes
    <2>5. FdBudget'
      BY <2>3, <2>4, OpenFinite, QueueAssumption
      DEF BudgetInv, FdBudget, RESERVED_FD_COUNT, TypeInv, FdTypes
    <2> QED  BY <1>21, <2>5 DEF HighPriorityOpen, BudgetInv, LowPriorityLimit
  <1>22. ASSUME HighPriorityOpenError PROVE BudgetInv'
    <2> DEFINE f == FileOf(toAdd)
    <2>1. f \in Files  BY <1>22, TurnFacts DEF HighPriorityOpenError
    <2>2. sseen = fileDescriptorsUsed /\ sseen + 1 <= Cap /\ sseen \in Int
      BY <1>22, <1>0 DEF HighPriorityOpenError, CompareExchange, BudgetInv, TypeInv, FdTypes
    <2>3. FdBudget'
      <3>1. CASE Size(toAdd) > 0
        <4>1. fd' = Closed(f) /\ fileDescriptorsUsed' = fileDescriptorsUsed + 1 - Released(f)
          BY <1>22, <2>2, <3>1 DEF HighPriorityOpenError
        <4>2. Released(f) \in 0..2  BY <2>1, CloseFacts
        <4>3. Cardinality(OpenDescriptors') = Cardinality(OpenDescriptors) - Released(f)
          BY <2>1, <4>1, CloseCount
        <4> HIDE DEF f
        <4> QED  BY <2>2, <4>1, <4>2, <4>3, OpenFinite, QueueAssumption
                 DEF BudgetInv, FdBudget, RESERVED_FD_COUNT
      <3>2. CASE ~(Size(toAdd) > 0)
        <4>1. fd' = fd /\ fileDescriptorsUsed' = fileDescriptorsUsed + 1
          BY <1>22, <2>2, <3>2 DEF HighPriorityOpenError
        <4>2. OpenDescriptors' = OpenDescriptors  BY <4>1 DEF OpenDescriptors
        <4> QED  BY <2>2, <4>1, <4>2, OpenFinite, QueueAssumption
                 DEF BudgetInv, FdBudget, RESERVED_FD_COUNT
      <3> QED  BY <3>1, <3>2
    <2> QED  BY <1>22, <2>3 DEF HighPriorityOpenError, BudgetInv, LowPriorityLimit
  <1>23. ASSUME FinishEmptyFile PROVE BudgetInv'
    <2>1. FileOf(toAdd) \in Files  BY <1>23, TurnFacts DEF FinishEmptyFile
    <2>2. FdBudget'  BY <1>23, <2>1, CloseBudget DEF FinishEmptyFile, HandleFileClose, BudgetInv
    <2> QED  BY <1>23, <2>2 DEF FinishEmptyFile, BudgetInv, LowPriorityLimit
  <1>24. ASSUME OnReadEvent PROVE BudgetInv'
    <2>1. FileOf(Head(cq).r) \in Files  BY <1>24, EventFacts DEF OnReadEvent
    <2>2. CASE UNCHANGED fdVars
      BY <1>24, <2>2 DEF OnReadEvent, BudgetInv, FdBudget, OpenDescriptors, LowPriorityLimit
    <2>3. CASE HandleFileClose(FileOf(Head(cq).r))
      <3>1. FdBudget'  BY <2>1, <2>3, CloseBudget DEF HandleFileClose, BudgetInv
      <3> QED  BY <1>24, <3>1 DEF OnReadEvent, BudgetInv, LowPriorityLimit
    <2> QED  BY <1>24, <2>2, <2>3 DEF OnReadEvent, SaveError
  <1>25. ASSUME OnWriteEventError PROVE BudgetInv'
    <2>1. FileOf(Head(cq).r) \in Files  BY <1>25, EventFacts DEF OnWriteEventError
    <2>2. CASE UNCHANGED fdVars
      BY <1>25, <2>2 DEF OnWriteEventError, BudgetInv, FdBudget, OpenDescriptors, LowPriorityLimit
    <2>3. CASE HandleFileClose(FileOf(Head(cq).r))
      <3>1. FdBudget'  BY <2>1, <2>3, CloseBudget DEF HandleFileClose, BudgetInv
      <3> QED  BY <1>25, <3>1 DEF OnWriteEventError, BudgetInv, LowPriorityLimit
    <2> QED  BY <1>25, <2>2, <2>3 DEF OnWriteEventError, SaveError
  <1>26. ASSUME OnWriteEventFinished PROVE BudgetInv'
    <2>1. FileOf(Head(cq).r) \in Files  BY <1>26, EventFacts DEF OnWriteEventFinished
    <2>2. FdBudget'  BY <1>26, <2>1, CloseBudget DEF OnWriteEventFinished, HandleFileClose, BudgetInv
    <2> QED  BY <1>26, <2>2 DEF OnWriteEventFinished, BudgetInv, LowPriorityLimit
  <1>27. CASE UNCHANGED <<fdVars, mpc, mseen, spc, sseen>>
    BY <1>27 DEF BudgetInv, FdBudget, OpenDescriptors, LowPriorityLimit
  <1> QED
    BY <1>1, <1>2, <1>3, <1>4, <1>5, <1>6, <1>7, <1>8, <1>9, <1>10, <1>11, <1>12, <1>13, <1>14,
        <1>15, <1>16, <1>17, <1>18, <1>19, <1>20, <1>21, <1>22, <1>23, <1>24, <1>25, <1>26,
        <1>27
    DEF Next, AddStep, SubmitStep, KernelStep, vars, mainVars, fdVars, queueVars, lifeVars,
        runnerVars, submitVars, ringVars, countVars, KernelRead, KernelWrite,
        OnWriteEventReschedule, Terminated, Completes

\* The checks hold from the beginning.
LEMMA BudgetHolds == Spec => []BudgetInv
  <1>1. Init => BudgetInv
    <2> SUFFICES ASSUME Init PROVE BudgetInv  OBVIOUS
    <2>1. OpenDescriptors = {}  BY DEF Init, OpenDescriptors
    <2>2. Cardinality(OpenDescriptors) = 0  BY <2>1, FS_EmptySet
    <2> QED  BY <2>2, QueueAssumption
             DEF Init, BudgetInv, FdBudget, RESERVED_FD_COUNT, RESERVED_HIGH_PRIORITY_FD_COUNT
  <1>2. TypeInv /\ ControlInv /\ BudgetInv /\ [Next]_vars => BudgetInv'  BY BudgetNext
  <1> QED  BY <1>1, <1>2, BaseHolds, PTL DEF Spec

\* Between the adding thread and the submit thread, which each check the counter of
\* reservations before they increment it, the number of open descriptors never exceeds the
\* cap, and no descriptor is open without a reservation.
THEOREM CapRespected == Spec => []FdBudget
  <1>1. BudgetInv => FdBudget  BY DEF BudgetInv
  <1> QED  BY <1>1, BudgetHolds, PTL

-----------------------------------------------------------------------------
(* The ring.                                                               *)

\* A chain of which the read is in the ring has its write in the ring, too.
LEMMA ReadHasWrite ==
    ASSUME TypeInv, RingInv, NEW r \in Runners, <<r, "read">> \in Outstanding
    PROVE  <<r, "write">> \in Outstanding
  <1>1. CASE <<r, "read">> \in SqReqs
    <2>1. PICK i \in 1..Len(sq) : sq[i] = <<r, "read">>  BY <1>1 DEF SqReqs, Elems
    <2>2. i + 1 \in 1..Len(sq) /\ sq[i + 1] = <<r, "write">>  BY <2>1 DEF RingInv, SqInv
    <2> QED  BY <2>2 DEF Outstanding, SqReqs, Elems
  <1>2. CASE <<r, "read">> \in KernelReqs
    BY <1>2 DEF KernelReqs, Request, RingInv, KernelInv, Outstanding
  <1>3. CASE <<r, "read">> \in CqReqs
    <2>1. PICK i \in 1..Len(cq) : cq[i].r = r /\ cq[i].op = "read"
      BY <1>3 DEF CqReqs, Request
    <2>2. Len(cq) \in Nat  BY DEF TypeInv, RingTypes
    <2>3. CASE <<r, "write">> \in KernelReqs  BY <2>3 DEF Outstanding
    <2>4. CASE \E j \in (i + 1)..Len(cq) : Request(cq[j]) = <<r, "write">>
      BY <2>2, <2>4 DEF Outstanding, CqReqs
    <2> QED  BY <2>1, <2>3, <2>4 DEF RingInv, CqInv
  <1> QED  BY <1>1, <1>2, <1>3 DEF Outstanding

\* When the completion of a write is seen, its read has been seen before.
LEMMA WriteIsLast ==
    ASSUME TypeInv, RingInv, Peeked("write")
    PROVE  /\ <<Head(cq).r, "write">> \in Outstanding
           /\ <<Head(cq).r, "read">> \notin Outstanding
  <1> DEFINE r == Head(cq).r
  <1>1. /\ r \in Runners /\ Len(cq) \in Nat /\ 1 \in 1..Len(cq)
        /\ Request(cq[1]) = <<r, "write">>
    BY EventFacts DEF Request, TypeInv, RingTypes
  <1>2. <<r, "write">> \in CqReqs  BY <1>1 DEF CqReqs
  <1> HIDE DEF r
  <1>3. ASSUME <<r, "read">> \in SqReqs PROVE FALSE
    <2>1. PICK i \in 1..Len(sq) : sq[i] = <<r, "read">>  BY <1>3 DEF SqReqs, Elems
    <2>2. i + 1 \in 1..Len(sq) /\ sq[i + 1] = <<r, "write">>  BY <2>1 DEF RingInv, SqInv
    <2>3. <<r, "write">> \in SqReqs  BY <2>2 DEF SqReqs, Elems
    <2> QED  BY <1>2, <2>3 DEF RingInv, ApartInv
  <1>4. ASSUME <<r, "read">> \in KernelReqs PROVE FALSE
    <2>1. <<r, "write">> \in KernelReqs
      BY <1>4 DEF KernelReqs, Request, RingInv, KernelInv
    <2> QED  BY <1>2, <2>1 DEF RingInv, ApartInv
  <1>5. ASSUME <<r, "read">> \in CqReqs PROVE FALSE
    <2>1. PICK i \in 1..Len(cq) : cq[i].r = r /\ cq[i].op = "read"
      BY <1>5 DEF CqReqs, Request
    <2>2. <<r, "write">> \notin KernelReqs  BY <1>2 DEF RingInv, ApartInv
    <2>3. PICK j \in (i + 1)..Len(cq) : Request(cq[j]) = <<r, "write">>
      BY <2>1, <2>2 DEF RingInv, CqInv
    <2>4. j \in 1..Len(cq) /\ j # 1  BY <1>1, <2>3
    <2> QED  BY <1>1, <2>3, <2>4 DEF RingInv, CqInv
  <1> QED  BY <1>2, <1>3, <1>4, <1>5 DEF Outstanding, r

\* io_uring_submit moves whole chains to the kernel.
LEMMA SubmitMoves ==
    ASSUME TypeInv, RingInv, IsFiniteSet(kernel), Submit
    PROVE  /\ RingInv' /\ Outstanding' = Outstanding
           /\ IsFiniteSet(kernel')
           /\ Len(sq') + Cardinality(kernel') = Len(sq) + Cardinality(kernel)
  <1> DEFINE rec(i) == [r |-> sq[i][1], op |-> sq[i][2], cancelled |-> FALSE]
  <1>1. PICK n \in 1..Len(sq) :
            /\ sq[n][2] = "write"
            /\ kernel' = kernel \cup {rec(i) : i \in 1..n}
            /\ sq' = SubSeq(sq, n + 1, Len(sq))
    BY DEF Submit
  <1>2. cq' = cq  BY DEF Submit
  <1>3. /\ sq \in Seq(Runners \X {"read", "write"}) /\ Len(sq) \in Nat /\ n \in Nat /\ n <= Len(sq)
        /\ \A i \in 1..Len(sq) : sq[i] \in Runners \X {"read", "write"}
    BY DEF TypeInv, RingTypes
  <1>4. \A i \in 1..n : i \in 1..Len(sq) /\ Request(rec(i)) = sq[i]
    BY <1>3 DEF Request
  <1>5. /\ Len(sq') = Len(sq) - n
        /\ \A i \in 1..(Len(sq) - n) : n + i \in 1..Len(sq) /\ sq'[i] = sq[n + i]
    BY <1>1, <1>3, SuffixFacts
  <1> DEFINE Moved == {rec(i) : i \in 1..n}
             MovedReqs == {sq[i] : i \in 1..n}
  <1>6. KernelReqs' = KernelReqs \cup MovedReqs
    <2>1. KernelReqs' = {Request(k) : k \in kernel \cup Moved}  BY <1>1 DEF KernelReqs, Request
    <2> QED  BY <2>1, <1>4 DEF KernelReqs
  <1>7. SqReqs' \cup MovedReqs = SqReqs
    <2>1. SqReqs' \subseteq SqReqs  BY <1>5 DEF SqReqs, Elems
    <2>2. MovedReqs \subseteq SqReqs  BY <1>4 DEF SqReqs, Elems
    <2>3. ASSUME NEW i \in 1..Len(sq) PROVE sq[i] \in SqReqs' \cup MovedReqs
      <3>1. CASE i <= n  BY <1>3, <3>1
      <3>2. CASE i > n
        <4>1. i - n \in 1..Len(sq') /\ sq'[i - n] = sq[i]  BY <1>3, <1>5, <3>2
        <4> QED  BY <4>1 DEF SqReqs, Elems
      <3>3. i <= n \/ i > n  BY <1>3
      <3> QED  BY <3>1, <3>2, <3>3
    <2> QED  BY <2>1, <2>2, <2>3 DEF SqReqs, Elems
  <1>8. SqReqs' \cap MovedReqs = {}
    <2> SUFFICES ASSUME NEW i \in 1..Len(sq'), NEW j \in 1..n, sq'[i] = sq[j] PROVE FALSE
      BY DEF SqReqs, Elems
    <2>1. n + i \in 1..Len(sq) /\ sq[n + i] = sq[j] /\ j \in 1..Len(sq) /\ n + i # j
      BY <1>3, <1>4, <1>5
    <2> QED  BY <2>1 DEF RingInv, SqInv, Distinct
  <1>9. CqReqs' = CqReqs  BY <1>2 DEF CqReqs, Request
  <1>10. Outstanding' = Outstanding  BY <1>6, <1>7, <1>9 DEF Outstanding
  <1>11. SqInv'
    <2>1. Distinct(sq')
      <3> SUFFICES ASSUME NEW i \in 1..Len(sq'), NEW j \in 1..Len(sq'), sq'[i] = sq'[j] PROVE i = j
        BY DEF Distinct
      <3>1. n + i \in 1..Len(sq) /\ n + j \in 1..Len(sq) /\ sq[n + i] = sq[n + j]  BY <1>5
      <3>2. n + i = n + j  BY <3>1 DEF RingInv, SqInv, Distinct
      <3> QED  BY <1>3, <1>5, <3>2
    <2>2. ASSUME NEW i \in 1..Len(sq'), sq'[i][2] = "read"
          PROVE  i + 1 \in 1..Len(sq') /\ sq'[i + 1] = <<sq'[i][1], "write">>
      <3>1. n + i \in 1..Len(sq) /\ sq[n + i] = sq'[i]  BY <1>5
      <3>2. n + i + 1 \in 1..Len(sq) /\ sq[n + i + 1] = <<sq'[i][1], "write">>
        BY <2>2, <3>1 DEF RingInv, SqInv
      <3>3. i + 1 \in 1..(Len(sq) - n)  BY <1>3, <3>2, <1>5
      <3>4. sq'[i + 1] = sq[n + (i + 1)] /\ n + (i + 1) = n + i + 1  BY <1>3, <1>5, <3>3
      <3> QED  BY <1>5, <3>2, <3>3, <3>4
    <2> QED  BY <2>1, <2>2 DEF SqInv
  <1>12. KernelInv'
    <2>1. ASSUME NEW k \in kernel', NEW l \in kernel', Request(k) = Request(l) PROVE k = l
      <3>1. CASE k \in kernel /\ l \in kernel  BY <2>1, <3>1 DEF RingInv, KernelInv
      <3>2. ASSUME NEW a \in kernel, NEW i \in 1..n, Request(a) = sq[i] PROVE FALSE
        BY <3>2, <1>4 DEF RingInv, ApartInv, KernelReqs, SqReqs, Elems
      <3>3. ASSUME NEW i \in 1..n, NEW j \in 1..n, sq[i] = sq[j] PROVE i = j
        BY <3>3, <1>4 DEF RingInv, SqInv, Distinct
      <3>4. \A x \in kernel' : x \in kernel \/ \E i \in 1..n : x = rec(i) /\ Request(x) = sq[i]
        BY <1>1, <1>4
      <3> QED  BY <2>1, <3>1, <3>2, <3>3, <3>4
    <2>2. ASSUME NEW k \in kernel', k.op = "read" PROVE <<k.r, "write">> \in KernelReqs'
      <3>1. CASE k \in kernel  BY <2>2, <3>1, <1>6 DEF RingInv, KernelInv
      <3>2. CASE \E i \in 1..n : k = rec(i)
        <4>1. PICK i \in 1..n : k = rec(i)  BY <3>2
        <4>2. i \in 1..Len(sq) /\ sq[i][2] = "read" /\ sq[i][1] = k.r  BY <2>2, <4>1, <1>4
        <4>3. i + 1 \in 1..Len(sq) /\ sq[i + 1] = <<k.r, "write">>  BY <4>2 DEF RingInv, SqInv
        <4>4. i # n  BY <4>2, <1>1
        <4>5. i + 1 \in 1..n  BY <4>4, <1>3
        <4> QED  BY <4>3, <4>5, <1>6
      <3> QED  BY <1>1, <3>1, <3>2
    <2> QED  BY <2>1, <2>2 DEF KernelInv
  <1>13. CqInv'
    <2>1. \A i \in 1..Len(cq) : <<cq[i].r, "write">> \in KernelReqs => <<cq[i].r, "write">> \in KernelReqs'
      BY <1>6
    <2> QED  BY <1>2, <2>1 DEF RingInv, CqInv, Request
  <1>14. ApartInv'
    BY <1>6, <1>7, <1>8, <1>9 DEF RingInv, ApartInv
  <1>15. IsFiniteSet(Moved) /\ Cardinality(Moved) = n /\ kernel \cap Moved = {}
    <2> DEFINE F == [i \in 1..n |-> rec(i)]
    <2>1. F \in Bijection(1..n, Moved)
      <3>1. ASSUME NEW i \in 1..n, NEW j \in 1..n, F[i] = F[j] PROVE i = j
        <4>1. sq[i] = sq[j]  BY <3>1, <1>4 DEF Request
        <4> QED  BY <4>1, <1>4 DEF RingInv, SqInv, Distinct
      <3>2. F \in [1..n -> Moved] /\ \A x \in Moved : \E i \in 1..n : F[i] = x  OBVIOUS
      <3> HIDE DEF F, Moved
      <3> QED  BY <3>1, <3>2 DEF Bijection, Injection, Surjection, IsInjective
    <2>2. IsFiniteSet(1..n) /\ Cardinality(1..n) = n  BY <1>3, FS_Interval
    <2>3. ExistsBijection(1..n, Moved)  BY <2>1 DEF ExistsBijection
    <2>4. IsFiniteSet(Moved) /\ Cardinality(Moved) = n  BY <2>2, <2>3, FS_Bijection
    <2>5. kernel \cap Moved = {}
      BY <1>4 DEF RingInv, ApartInv, KernelReqs, SqReqs, Elems
    <2> QED  BY <2>4, <2>5
  <1>16. IsFiniteSet(kernel') /\ Cardinality(kernel') = Cardinality(kernel) + n
    <2> HIDE DEF Moved
    <2>1. kernel' = kernel \cup Moved  BY <1>1 DEF Moved
    <2>2. IsFiniteSet(kernel \cup Moved) /\ Cardinality(kernel \cup Moved) =
             Cardinality(kernel) + Cardinality(Moved) - Cardinality(kernel \cap Moved)
      BY <1>15, FS_Union
    <2>3. Cardinality(kernel \cap Moved) = 0 /\ Cardinality(kernel) \in Nat
      BY <1>15, FS_EmptySet, FS_CardinalityType
    <2> QED  BY <1>3, <1>15, <2>1, <2>2, <2>3
  <1>17. Cardinality(kernel) \in Nat  BY FS_CardinalityType
  <1> QED  BY <1>3, <1>5, <1>10, <1>11, <1>12, <1>13, <1>14, <1>16, <1>17 DEF RingInv

\* A request that the kernel completes moves to the end of the completion queue.
LEMMA CompletionMoves ==
    ASSUME TypeInv, RingInv, NEW q \in kernel, NEW result, cq' = Append(cq, Cqe(q, result)), sq' = sq,
           result \in {"full", "over", "last", "short", "fail", "all", "some", "cancel"},
           KernelReqs' = KernelReqs \ {Request(q)}
    PROVE  /\ Len(cq') = Len(cq) + 1 /\ Len(cq) \in Nat
           /\ \A i \in 1..Len(cq) : cq'[i] = cq[i]
           /\ Request(cq'[Len(cq) + 1]) = Request(q)
           /\ cq'[Len(cq) + 1].r = q.r /\ cq'[Len(cq) + 1].op = q.op
           /\ CqReqs' = CqReqs \cup {Request(q)}
           /\ Outstanding' = Outstanding /\ SqInv' /\ ApartInv'
           /\ \A i, j \in 1..Len(cq') : Request(cq'[i]) = Request(cq'[j]) => i = j
  <1>1. Request(q) \in KernelReqs  BY DEF KernelReqs
  <1>2. cq \in Seq(Cqes) /\ Cqe(q, result) \in Cqes
    BY DEF TypeInv, RingTypes, Cqe, Cqes
  <1>3. /\ Len(cq') = Len(cq) + 1 /\ Len(cq) \in Nat
        /\ \A i \in 1..Len(cq) : cq'[i] = cq[i]
        /\ cq'[Len(cq) + 1] = Cqe(q, result)
    BY <1>2
  <1>4. /\ Request(cq'[Len(cq) + 1]) = Request(q)
        /\ cq'[Len(cq) + 1].r = q.r /\ cq'[Len(cq) + 1].op = q.op
    BY <1>3 DEF Request, Cqe
  <1>5. CqReqs' = CqReqs \cup {Request(q)}
    <2>1. CqReqs' = {Request(cq'[i]) : i \in 1..(Len(cq) + 1)}  BY <1>3 DEF CqReqs, Request
    <2>2. \A i \in 1..Len(cq) : Request(cq'[i]) = Request(cq[i])  BY <1>3
    <2> QED  BY <1>3, <1>4, <2>1, <2>2 DEF CqReqs
  <1>6. SqReqs' = SqReqs /\ SqInv'  BY DEF SqReqs, Elems, RingInv, SqInv, Distinct
  <1>7. Outstanding' = Outstanding  BY <1>1, <1>5, <1>6 DEF Outstanding
  <1>8. ApartInv'  BY <1>1, <1>5, <1>6 DEF RingInv, ApartInv
  <1>9. ASSUME NEW i \in 1..Len(cq'), NEW j \in 1..Len(cq'), Request(cq'[i]) = Request(cq'[j])
        PROVE  i = j
    <2>1. \A m \in 1..Len(cq) : Request(cq'[m]) = Request(cq[m]) /\ Request(cq[m]) # Request(q)
      BY <1>1, <1>3 DEF RingInv, ApartInv, CqReqs
    <2>2. CASE i \in 1..Len(cq) /\ j \in 1..Len(cq)
      BY <1>9, <2>1, <2>2 DEF RingInv, CqInv
    <2>3. CASE i = Len(cq) + 1 /\ j \in 1..Len(cq)  BY <1>4, <1>9, <2>1, <2>3
    <2>4. CASE j = Len(cq) + 1 /\ i \in 1..Len(cq)  BY <1>4, <1>9, <2>1, <2>4
    <2>5. CASE j = Len(cq) + 1 /\ i = Len(cq) + 1  BY <2>5
    <2> QED  BY <1>3, <2>2, <2>3, <2>4, <2>5
  <1> QED  BY <1>3, <1>4, <1>5, <1>6, <1>7, <1>8, <1>9

\* The kernel completes a read.
LEMMA KernelReadMoves ==
    ASSUME TypeInv, RingInv, IsFiniteSet(kernel), NEW q \in kernel, KernelRead(q)
    PROVE  /\ RingInv' /\ Outstanding' = Outstanding
           /\ IsFiniteSet(kernel')
           /\ Cardinality(kernel') + Len(cq') = Cardinality(kernel) + Len(cq)
  <1>1. PICK result \in {"full", "over", "last", "short", "fail"} :
            /\ kernel' = {IF k.r = q.r /\ result \notin {"full", "over"} THEN [k EXCEPT !.cancelled = TRUE] ELSE k :
                             k \in kernel \ {q}}
            /\ cq' = Append(cq, Cqe(q, result)) /\ sq' = sq
    BY DEF KernelRead, Completes
  <1> DEFINE g(k) == IF k.r = q.r /\ result \notin {"full", "over"} THEN [k EXCEPT !.cancelled = TRUE] ELSE k
             Rest == kernel \ {q}
  <1>2. kernel' = {g(k) : k \in Rest}  BY <1>1
  <1>3. \A k \in kernel : g(k).r = k.r /\ g(k).op = k.op /\ Request(g(k)) = Request(k)
    BY DEF TypeInv, RingTypes, Request
  <1>4. \A k \in Rest : Request(k) # Request(q)  BY DEF RingInv, KernelInv
  <1> HIDE DEF g
  <1>5. KernelReqs' = KernelReqs \ {Request(q)}
    <2>1. KernelReqs' = {Request(k) : k \in kernel'}  BY DEF KernelReqs, Request
    <2>2. KernelReqs' = {Request(k) : k \in Rest}  BY <1>2, <1>3, <2>1
    <2> QED  BY <1>4, <2>2 DEF KernelReqs
  <1>6. q.op = "read" /\ <<q.r, "write">> \in KernelReqs'
    <2>1. q.op = "read"  BY DEF KernelRead
    <2>2. <<q.r, "write">> \in KernelReqs  BY <2>1 DEF RingInv, KernelInv
    <2> QED  BY <2>1, <2>2, <1>5 DEF Request
  <1>7. /\ Len(cq') = Len(cq) + 1 /\ Len(cq) \in Nat
        /\ \A i \in 1..Len(cq) : cq'[i] = cq[i]
        /\ cq'[Len(cq) + 1].r = q.r
        /\ Outstanding' = Outstanding /\ SqInv' /\ ApartInv'
        /\ \A i, j \in 1..Len(cq') : Request(cq'[i]) = Request(cq'[j]) => i = j
    BY <1>1, <1>5, CompletionMoves
  <1>8. KernelInv'
    <2>1. ASSUME NEW k \in kernel', NEW l \in kernel', Request(k) = Request(l) PROVE k = l
      <3>1. PICK a \in Rest : k = g(a)  BY <1>2
      <3>2. PICK b \in Rest : l = g(b)  BY <1>2
      <3>3. Request(a) = Request(b)  BY <1>3, <2>1, <3>1, <3>2
      <3> QED  BY <3>1, <3>2, <3>3 DEF RingInv, KernelInv
    <2>2. ASSUME NEW k \in kernel', k.op = "read" PROVE <<k.r, "write">> \in KernelReqs'
      <3>1. PICK a \in Rest : k = g(a)  BY <1>2
      <3>2. a.op = "read" /\ a.r = k.r  BY <1>3, <2>2, <3>1
      <3>3. <<k.r, "write">> \in KernelReqs  BY <3>2 DEF RingInv, KernelInv
      <3> QED  BY <1>5, <1>6, <3>3 DEF Request
    <2> QED  BY <2>1, <2>2 DEF KernelInv
  <1>9. CqInv'
    <2>1. ASSUME NEW i \in 1..Len(cq'), cq'[i].op = "read"
          PROVE  \/ <<cq'[i].r, "write">> \in KernelReqs'
                 \/ \E j \in (i + 1)..Len(cq') : Request(cq'[j]) = <<cq'[i].r, "write">>
      <3>1. CASE i = Len(cq) + 1  BY <1>6, <1>7, <3>1
      <3>2. CASE i \in 1..Len(cq)
        <4>1. CASE <<cq[i].r, "write">> \in KernelReqs
          BY <1>5, <1>6, <1>7, <3>2, <4>1 DEF Request
        <4>2. CASE \E j \in (i + 1)..Len(cq) : Request(cq[j]) = <<cq[i].r, "write">>
          <5>1. PICK j \in (i + 1)..Len(cq) : Request(cq[j]) = <<cq[i].r, "write">>  BY <4>2
          <5>2. j \in (i + 1)..Len(cq') /\ cq'[j] = cq[j]  BY <1>7, <3>2, <5>1
          <5> QED  BY <1>7, <3>2, <5>1, <5>2
        <4> QED  BY <1>7, <2>1, <3>2, <4>1, <4>2 DEF RingInv, CqInv
      <3> QED  BY <1>7, <3>1, <3>2
    <2> QED  BY <1>7, <2>1 DEF CqInv
  <1>10. IsFiniteSet(kernel') /\ Cardinality(kernel') = Cardinality(kernel) - 1
    <2> DEFINE F == [k \in Rest |-> g(k)]
    <2>1. F \in Bijection(Rest, kernel')
      <3>1. ASSUME NEW k \in Rest, NEW l \in Rest, F[k] = F[l] PROVE k = l
        <4>1. Request(k) = Request(l)  BY <1>3, <3>1
        <4> QED  BY <4>1 DEF RingInv, KernelInv
      <3>2. F \in [Rest -> kernel'] /\ \A x \in kernel' : \E k \in Rest : F[k] = x  BY <1>2
      <3> HIDE DEF F, Rest
      <3> QED  BY <3>1, <3>2 DEF Bijection, Injection, Surjection, IsInjective
    <2>2. ExistsBijection(Rest, kernel')  BY <2>1 DEF ExistsBijection
    <2>3. IsFiniteSet(Rest) /\ Cardinality(Rest) = Cardinality(kernel) - 1  BY FS_RemoveElement
    <2> HIDE DEF Rest
    <2> QED  BY <2>2, <2>3, FS_Bijection
  <1>11. Cardinality(kernel) \in Nat  BY FS_CardinalityType
  <1> QED  BY <1>7, <1>8, <1>9, <1>10, <1>11 DEF RingInv

\* The kernel completes a write; its read is complete.
LEMMA KernelWriteMoves ==
    ASSUME TypeInv, RingInv, IsFiniteSet(kernel), NEW q \in kernel, KernelWrite(q)
    PROVE  /\ RingInv' /\ Outstanding' = Outstanding
           /\ IsFiniteSet(kernel')
           /\ Cardinality(kernel') + Len(cq') = Cardinality(kernel) + Len(cq)
  <1>1. PICK result \in {"cancel", "all", "some", "fail"} :
            kernel' = kernel \ {q} /\ cq' = Append(cq, Cqe(q, result)) /\ sq' = sq
    BY DEF KernelWrite, Completes
  <1>2. q.op = "write" /\ \A k \in kernel : ~(k.r = q.r /\ k.op = "read")  BY DEF KernelWrite
  <1>3. \A k \in kernel \ {q} : Request(k) # Request(q)  BY DEF RingInv, KernelInv
  <1>4. KernelReqs' = KernelReqs \ {Request(q)}
    <2>1. KernelReqs' = {Request(k) : k \in kernel \ {q}}  BY <1>1 DEF KernelReqs, Request
    <2> QED  BY <1>3, <2>1 DEF KernelReqs
  <1>5. /\ Len(cq') = Len(cq) + 1 /\ Len(cq) \in Nat
        /\ \A i \in 1..Len(cq) : cq'[i] = cq[i]
        /\ Request(cq'[Len(cq) + 1]) = <<q.r, "write">> /\ cq'[Len(cq) + 1].op = "write"
        /\ Outstanding' = Outstanding /\ SqInv' /\ ApartInv'
        /\ \A i, j \in 1..Len(cq') : Request(cq'[i]) = Request(cq'[j]) => i = j
    BY <1>1, <1>2, <1>4, CompletionMoves DEF Request
  <1>6. KernelInv'
    <2>1. \A k, l \in kernel' : Request(k) = Request(l) => k = l  BY <1>1 DEF RingInv, KernelInv
    <2>2. ASSUME NEW k \in kernel', k.op = "read" PROVE <<k.r, "write">> \in KernelReqs'
      <3>1. <<k.r, "write">> \in KernelReqs /\ k.r # q.r
        BY <1>1, <1>2, <2>2 DEF RingInv, KernelInv
      <3> QED  BY <1>4, <3>1 DEF Request
    <2> QED  BY <2>1, <2>2 DEF KernelInv
  <1>7. CqInv'
    <2>1. ASSUME NEW i \in 1..Len(cq'), cq'[i].op = "read"
          PROVE  \/ <<cq'[i].r, "write">> \in KernelReqs'
                 \/ \E j \in (i + 1)..Len(cq') : Request(cq'[j]) = <<cq'[i].r, "write">>
      <3>1. i \in 1..Len(cq) /\ cq'[i] = cq[i]  BY <1>5, <2>1
      <3>2. CASE cq[i].r = q.r
        <4>1. Len(cq) + 1 \in (i + 1)..Len(cq')  BY <1>5, <3>1
        <4> QED  BY <1>5, <3>1, <3>2, <4>1
      <3>3. CASE cq[i].r # q.r /\ <<cq[i].r, "write">> \in KernelReqs
        BY <1>4, <3>1, <3>3 DEF Request
      <3>4. CASE \E j \in (i + 1)..Len(cq) : Request(cq[j]) = <<cq[i].r, "write">>
        <4>1. PICK j \in (i + 1)..Len(cq) : Request(cq[j]) = <<cq[i].r, "write">>  BY <3>4
        <4>2. j \in (i + 1)..Len(cq') /\ cq'[j] = cq[j]  BY <1>5, <3>1, <4>1
        <4> QED  BY <3>1, <4>1, <4>2
      <3> QED  BY <2>1, <3>1, <3>2, <3>3, <3>4 DEF RingInv, CqInv
    <2> QED  BY <1>5, <2>1 DEF CqInv
  <1>8. IsFiniteSet(kernel') /\ Cardinality(kernel') = Cardinality(kernel) - 1
    BY <1>1, FS_RemoveElement
  <1>9. Cardinality(kernel) \in Nat  BY FS_CardinalityType
  <1> QED  BY <1>5, <1>6, <1>7, <1>8, <1>9 DEF RingInv

\* The submit thread has seen the completion at the head of the queue.
LEMMA EventMoves ==
    ASSUME TypeInv, RingInv, NEW op, Peeked(op), cq' = Tail(cq), UNCHANGED <<sq, kernel>>
    PROVE  /\ RingInv' /\ Outstanding' = Outstanding \ {<<Head(cq).r, op>>}
           /\ <<Head(cq).r, op>> \in Outstanding
           /\ Len(cq') = Len(cq) - 1
  <1> DEFINE e == <<Head(cq).r, op>>
  <1>1. /\ Len(cq') = Len(cq) - 1 /\ Len(cq) \in Nat /\ Len(cq) > 0
        /\ \A i \in 1..Len(cq') : i + 1 \in 1..Len(cq) /\ cq'[i] = cq[i + 1]
        /\ Request(cq[1]) = e
    BY EventFacts DEF Request, TypeInv, RingTypes
  <1> HIDE DEF e
  <1>2. e \in CqReqs  BY <1>1 DEF CqReqs
  <1>3. KernelReqs' = KernelReqs /\ SqReqs' = SqReqs /\ SqInv' /\ KernelInv'
    <2>1. KernelReqs' = KernelReqs  BY DEF KernelReqs, Request
    <2>2. SqReqs' = SqReqs /\ SqInv'  BY DEF SqReqs, Elems, RingInv, SqInv, Distinct
    <2> QED  BY <2>1, <2>2 DEF RingInv, KernelInv
  <1>4. CqReqs' = CqReqs \ {e}
    <2>1. CqReqs' \subseteq CqReqs  BY <1>1 DEF CqReqs, Request
    <2>2. e \notin CqReqs'
      <3> SUFFICES ASSUME NEW i \in 1..Len(cq'), Request(cq'[i]) = e PROVE FALSE
        BY DEF CqReqs, Request
      <3>1. i + 1 \in 1..Len(cq) /\ Request(cq[i + 1]) = Request(cq[1]) /\ i + 1 # 1
        BY <1>1
      <3> QED  BY <1>1, <3>1 DEF RingInv, CqInv
    <2>3. ASSUME NEW i \in 1..Len(cq), Request(cq[i]) # e PROVE Request(cq[i]) \in CqReqs'
      <3>1. i # 1  BY <1>1, <2>3
      <3>2. i - 1 \in 1..Len(cq') /\ cq'[i - 1] = cq[i]  BY <1>1, <3>1
      <3> QED  BY <3>2 DEF CqReqs, Request
    <2> QED  BY <2>1, <2>2, <2>3 DEF CqReqs
  <1>5. CqInv'
    <2>1. ASSUME NEW i \in 1..Len(cq'), NEW j \in 1..Len(cq'), Request(cq'[i]) = Request(cq'[j])
          PROVE  i = j
      <3>1. i + 1 = j + 1  BY <1>1, <2>1 DEF RingInv, CqInv
      <3> QED  BY <1>1, <3>1
    <2>2. ASSUME NEW i \in 1..Len(cq'), cq'[i].op = "read"
          PROVE  \/ <<cq'[i].r, "write">> \in KernelReqs'
                 \/ \E j \in (i + 1)..Len(cq') : Request(cq'[j]) = <<cq'[i].r, "write">>
      <3>1. i + 1 \in 1..Len(cq) /\ cq[i + 1] = cq'[i]  BY <1>1
      <3>2. CASE <<cq'[i].r, "write">> \in KernelReqs  BY <3>2, <1>3
      <3>3. CASE \E j \in (i + 1 + 1)..Len(cq) : Request(cq[j]) = <<cq'[i].r, "write">>
        <4>1. PICK j \in (i + 1 + 1)..Len(cq) : Request(cq[j]) = <<cq'[i].r, "write">>  BY <3>3
        <4>2. j - 1 \in (i + 1)..Len(cq') /\ cq'[j - 1] = cq[j]  BY <1>1, <4>1
        <4> QED  BY <4>1, <4>2
      <3> QED  BY <2>2, <3>1, <3>2, <3>3 DEF RingInv, CqInv
    <2> QED  BY <2>1, <2>2 DEF CqInv
  <1>6. ApartInv'  BY <1>3, <1>4 DEF RingInv, ApartInv
  <1>7. Outstanding' = Outstanding \ {e}
    BY <1>2, <1>3, <1>4 DEF Outstanding, RingInv, ApartInv
  <1> QED  BY <1>1, <1>2, <1>3, <1>5, <1>6, <1>7 DEF RingInv, Outstanding, e

\* addToBatch puts the chain of a runner that has no request in the ring behind the others.
LEMMA AddMoves ==
    ASSUME TypeInv, ControlInv, RingInv, WhereInv, AddToBatch
    PROVE  /\ RingInv' /\ toAdd \in Runners
           /\ <<toAdd, "write">> \notin Outstanding /\ <<toAdd, "read">> \notin Outstanding
           /\ Outstanding' = Outstanding \cup (IF readDone[toAdd] THEN {<<toAdd, "write">>}
                                               ELSE {<<toAdd, "read">>, <<toAdd, "write">>})
           /\ Len(Requests(toAdd)) = IF readDone[toAdd] THEN 1 ELSE 2
           /\ Len(sq') = Len(sq) + Len(Requests(toAdd))
  <1> DEFINE new == Requests(toAdd)
             added2 == IF readDone[toAdd] THEN {<<toAdd, "write">>}
                       ELSE {<<toAdd, "read">>, <<toAdd, "write">>}
  <1>1. toAdd \in Runners  BY TurnFacts DEF AddToBatch
  <1>2. <<toAdd, "write">> \notin Outstanding  BY <1>1 DEF WhereInv, Adding, InRing
  <1>3. <<toAdd, "read">> \notin Outstanding  BY <1>1, <1>2, ReadHasWrite
  <1>4. /\ new \in Seq(Runners \X {"read", "write"}) /\ Distinct(new) /\ Elems(new) = added2
        /\ Len(new) = IF readDone[toAdd] THEN 1 ELSE 2
        /\ \A i \in 1..Len(new) : new[i][2] = "read" =>
            i + 1 \in 1..Len(new) /\ new[i + 1] = <<new[i][1], "write">>
    <2>1. /\ <<toAdd, "read">> \in Runners \X {"read", "write"}
          /\ <<toAdd, "write">> \in Runners \X {"read", "write"}
      BY <1>1
    <2>2. CASE readDone[toAdd]
      <3>1. new = <<<<toAdd, "write">>>> /\ added2 = {<<toAdd, "write">>}  BY <2>2 DEF Requests
      <3> HIDE DEF new, added2
      <3>2. Len(new) = 1 /\ new[1] = <<toAdd, "write">> /\ new \in Seq(Runners \X {"read", "write"})
        BY <2>1, <3>1
      <3> QED  BY <2>2, <3>1, <3>2 DEF Distinct, Elems
    <2>3. CASE ~readDone[toAdd]
      <3>1. /\ new = <<<<toAdd, "read">>, <<toAdd, "write">>>>
            /\ added2 = {<<toAdd, "read">>, <<toAdd, "write">>}
        BY <2>3 DEF Requests
      <3> HIDE DEF new, added2
      <3>2. /\ Len(new) = 2 /\ new[1] = <<toAdd, "read">> /\ new[2] = <<toAdd, "write">>
            /\ new \in Seq(Runners \X {"read", "write"})
        BY <2>1, <3>1
      <3>3. \A i \in 1..2 : i = 1 \/ i = 2  OBVIOUS
      <3>4. Distinct(new)  BY <3>2, <3>3 DEF Distinct
      <3>5. Elems(new) = added2
        <4>1. 1 \in 1..2 /\ 2 \in 1..2  OBVIOUS
        <4> QED  BY <3>1, <3>2, <3>3, <4>1 DEF Elems
      <3> QED  BY <2>3, <3>2, <3>3, <3>4, <3>5
    <2> QED  BY <2>2, <2>3
  <1> HIDE DEF new, added2
  <1>5. sq' = sq \o new /\ kernel' = kernel /\ cq' = cq  BY DEF AddToBatch, GetSqe, new
  <1>6. sq \in Seq(Runners \X {"read", "write"})  BY DEF TypeInv, RingTypes
  <1>7. /\ Len(sq') = Len(sq) + Len(new) /\ Len(sq) \in Nat /\ Len(new) \in Nat
        /\ \A i \in 1..Len(sq) : sq'[i] = sq[i]
        /\ \A i \in 1..Len(new) : sq'[Len(sq) + i] = new[i]
        /\ SqReqs' = SqReqs \cup added2
    <2>1. Elems(sq') = Elems(sq) \cup Elems(new)  BY <1>4, <1>5, <1>6, ConcatFacts
    <2>2. SqReqs' = Elems(sq')  BY DEF SqReqs, Elems
    <2>3. SqReqs' = SqReqs \cup added2  BY <1>4, <2>1, <2>2 DEF SqReqs
    <2>4. /\ Len(sq \o new) = Len(sq) + Len(new) /\ Len(sq) \in Nat /\ Len(new) \in Nat
          /\ \A i \in 1..Len(sq) : (sq \o new)[i] = sq[i]
          /\ \A i \in 1..Len(new) : (sq \o new)[Len(sq) + i] = new[i]
      BY <1>4, <1>6, ConcatFacts
    <2> QED  BY <1>5, <2>3, <2>4
  <1>8. KernelReqs' = KernelReqs /\ CqReqs' = CqReqs
    BY <1>5 DEF KernelReqs, CqReqs, Request
  <1>9. added2 \cap Outstanding = {}  BY <1>2, <1>3 DEF added2
  <1>10. Outstanding' = Outstanding \cup added2  BY <1>7, <1>8 DEF Outstanding
  <1>11. \A i \in 1..Len(sq') : i \in 1..Len(sq) \/ i - Len(sq) \in 1..Len(new)  BY <1>7
  <1>12. SqInv'
    <2>1. ASSUME NEW i \in 1..Len(sq'), NEW j \in 1..Len(sq'), sq'[i] = sq'[j] PROVE i = j
      <3>1. \A m \in 1..Len(sq) : sq'[m] \in Outstanding
        BY <1>7 DEF Outstanding, SqReqs, Elems
      <3>2. \A m \in 1..Len(sq') : m - Len(sq) \in 1..Len(new) =>
              sq'[m] = new[m - Len(sq)] /\ sq'[m] \in added2
        <4>1. ASSUME NEW m \in 1..Len(sq'), m - Len(sq) \in 1..Len(new)
              PROVE  sq'[m] = new[m - Len(sq)]
          <5>1. Len(sq) + (m - Len(sq)) = m  BY <1>7
          <5> QED  BY <1>7, <4>1, <5>1
        <4>2. \A k \in 1..Len(new) : new[k] \in added2  BY <1>4 DEF Elems
        <4> QED  BY <4>1, <4>2
      <3>3. CASE i \in 1..Len(sq) /\ j \in 1..Len(sq)
        BY <1>7, <2>1, <3>3 DEF RingInv, SqInv, Distinct
      <3>4. CASE i - Len(sq) \in 1..Len(new) /\ j - Len(sq) \in 1..Len(new)
        <4>1. i - Len(sq) = j - Len(sq)  BY <1>4, <2>1, <3>2, <3>4 DEF Distinct
        <4> QED  BY <1>7, <4>1
      <3>5. CASE i \in 1..Len(sq) /\ j - Len(sq) \in 1..Len(new)  BY <1>9, <2>1, <3>1, <3>2, <3>5
      <3>6. CASE j \in 1..Len(sq) /\ i - Len(sq) \in 1..Len(new)  BY <1>9, <2>1, <3>1, <3>2, <3>6
      <3> QED  BY <1>11, <3>3, <3>4, <3>5, <3>6
    <2>2. ASSUME NEW i \in 1..Len(sq'), sq'[i][2] = "read"
          PROVE  i + 1 \in 1..Len(sq') /\ sq'[i + 1] = <<sq'[i][1], "write">>
      <3>1. CASE i \in 1..Len(sq)
        <4>1. i + 1 \in 1..Len(sq) /\ sq[i + 1] = <<sq[i][1], "write">>
          BY <1>7, <2>2, <3>1 DEF RingInv, SqInv
        <4> QED  BY <1>7, <3>1, <4>1
      <3>2. CASE i - Len(sq) \in 1..Len(new)
        <4> DEFINE k == i - Len(sq)
        <4>1. k \in 1..Len(new) /\ i = Len(sq) + k /\ i + 1 = Len(sq) + (k + 1)  BY <1>7, <3>2
        <4> HIDE DEF k
        <4>2. sq'[i] = new[k]  BY <1>7, <4>1
        <4>3. k + 1 \in 1..Len(new) /\ new[k + 1] = <<new[k][1], "write">>  BY <1>4, <2>2, <4>1, <4>2
        <4>4. sq'[i + 1] = new[k + 1]  BY <1>7, <4>1, <4>3
        <4> QED  BY <1>7, <4>1, <4>2, <4>3, <4>4
      <3> QED  BY <1>11, <3>1, <3>2
    <2> QED  BY <2>1, <2>2 DEF SqInv, Distinct
  <1>13. KernelInv' /\ CqInv'
    <2>1. KernelInv'  BY <1>5, <1>8 DEF RingInv, KernelInv, Request
    <2> QED  BY <1>5, <1>8, <2>1 DEF RingInv, CqInv, Request
  <1>14. ApartInv'  BY <1>7, <1>8, <1>9 DEF RingInv, ApartInv, Outstanding
  <1> QED  BY <1>1, <1>2, <1>3, <1>4, <1>7, <1>10, <1>12, <1>13, <1>14 DEF RingInv, new, added2

\* The ring changes only where it is used.
LEMMA RingUnchanged ==
    ASSUME UNCHANGED <<sq, kernel, cq>>
    PROVE  Outstanding' = Outstanding /\ (RingInv => RingInv')
  <1>1. SqReqs' = SqReqs /\ KernelReqs' = KernelReqs /\ CqReqs' = CqReqs
    BY DEF SqReqs, KernelReqs, CqReqs, Elems, Request
  <1>2. SqInv => SqInv'  BY DEF SqInv, Distinct
  <1>3. KernelInv => KernelInv'  BY <1>1 DEF KernelInv, Request
  <1>4. CqInv => CqInv'  BY <1>1 DEF CqInv, Request
  <1>5. ApartInv => ApartInv'  BY <1>1 DEF ApartInv
  <1> QED  BY <1>1, <1>2, <1>3, <1>4, <1>5 DEF RingInv, Outstanding

\* Every request stays in one place.
LEMMA RingNext ==
    ASSUME TypeInv, ControlInv, RingInv, WhereInv, IsFiniteSet(kernel), [Next]_vars
    PROVE  RingInv'
  <1> USE DEF mainVars, fdVars, queueVars, lifeVars, runnerVars, submitVars, ringVars, countVars
  <1>1. ASSUME AddToBatch PROVE RingInv'
    BY <1>1, AddMoves
  <1>2. ASSUME Submit PROVE RingInv'
    BY <1>2, SubmitMoves
  <1>3. ASSUME NEW q \in kernel, KernelRead(q) PROVE RingInv'
    BY <1>3, KernelReadMoves
  <1>4. ASSUME NEW q \in kernel, KernelWrite(q) PROVE RingInv'
    BY <1>4, KernelWriteMoves
  <1>5. ASSUME OnReadEvent PROVE RingInv'
    BY <1>5, EventMoves DEF OnReadEvent, Seen
  <1>6. ASSUME OnWriteEventError PROVE RingInv'
    BY <1>6, EventMoves DEF OnWriteEventError, Seen
  <1>7. ASSUME OnWriteEventFinished PROVE RingInv'
    BY <1>7, EventMoves DEF OnWriteEventFinished, Seen
  <1>8. ASSUME OnWriteEventReschedule PROVE RingInv'
    BY <1>8, EventMoves DEF OnWriteEventReschedule, Seen
  <1>9. CASE UNCHANGED <<sq, kernel, cq>>
    BY <1>9, RingUnchanged
  <1> QED
    BY <1>1, <1>2, <1>3, <1>4, <1>5, <1>6, <1>7, <1>8, <1>9
    DEF Next, AddStep, SubmitStep, KernelStep, vars, mainVars, fdVars, queueVars, lifeVars,
        runnerVars, submitVars, ringVars, countVars, AddCopyJob, LowPriorityLoad,
        LowPriorityOpen, AddCopyJobPartTotal, AddCopyJobPartPush, Start, Join, JoinReturn,
        StopAdding, TakeBlock, PickContinue, PickStart, PickNothing, HighPriorityLoad,
        HighPriorityRetry, HighPriorityOpen, HighPriorityOpenError, FinishEmptyFile,
        SubmitNothing, NextRound, SubmitExit, Terminated

-----------------------------------------------------------------------------
(* The places of the runners.                                              *)

\* Nobody has its turn while the submit thread is not busy with a runner.
LEMMA NoTurn == TypeInv /\ ControlInv /\ spc \notin {"open", "cas"} => Adding = {}
  BY RunnerFacts DEF ControlInv, Adding

\* The places are the same if nothing that tells them has changed.
LEMMA PlacesUnchanged ==
    /\ UNCHANGED copiesPendingStart => Starting' = Starting
    /\ UNCHANGED copiesPendingContinue => Continuing' = Continuing
    /\ UNCHANGED toAdd => Adding' = Adding
    /\ Outstanding' = Outstanding => InRing' = InRing
  BY DEF Starting, Continuing, Adding, InRing, Elems

\* Seeing the completion of a write takes its runner out of the ring; that of a read does not.
LEMMA EventPlaces ==
    ASSUME TypeInv, RingInv, NEW op \in {"read", "write"}, Peeked(op), Seen(Head(cq).r),
           UNCHANGED <<sq, kernel>>
    PROVE  /\ op = "read" => InRing' = InRing
           /\ op = "write" => InRing' = InRing \ {Head(cq).r}
           /\ Head(cq).r \in InRing
           /\ Outstanding' = Outstanding \ {<<Head(cq).r, op>>}
           /\ <<Head(cq).r, op>> \in Outstanding
  <1>1. Head(cq).r \in Runners  BY EventFacts
  <1>2. Outstanding' = Outstanding \ {<<Head(cq).r, op>>} /\ <<Head(cq).r, op>> \in Outstanding
    BY EventMoves DEF Seen
  <1>3. Head(cq).r \in InRing  BY <1>1, <1>2, ReadHasWrite DEF InRing
  <1> QED  BY <1>2, <1>3 DEF InRing

\* A runner is always in exactly one place.
LEMMA WhereNext ==
    ASSUME TypeInv, ControlInv, RingInv, PlacesInv, IsFiniteSet(kernel), [Next]_vars
    PROVE  WhereInv'
  <1> USE DEF mainVars, fdVars, queueVars, lifeVars, runnerVars, submitVars, ringVars, countVars
  <1>0. WhereInv /\ PushedInv  BY DEF PlacesInv
  <1>1. ASSUME AddCopyJobPartPush PROVE WhereInv'
    <2> DEFINE r == <<mfile, mpart>>
    <2>1. r \in Runners /\ Future(r)
      <3>1. mfile \in Files /\ mpart \in 1..PartCount(mfile) /\ mpart \in Nat
        BY <1>1 DEF AddCopyJobPartPush, ControlInv, TypeInv, MainTypes
      <3>2. r \in Runners /\ FileOf(r) = mfile /\ r[2] = mpart  BY <3>1, RunnerFacts
      <3> QED  BY <1>1, <3>1, <3>2 DEF AddCopyJobPartPush, Future, Splitting
    <2>2. r \notin alive  BY <1>0, <2>1 DEF PushedInv
    <2>3. /\ copiesPendingStart' = Append(copiesPendingStart, r) /\ alive' = alive \cup {r}
          /\ UNCHANGED <<copiesPendingContinue, toAdd, sq, kernel, cq>>
      BY <1>1 DEF AddCopyJobPartPush
    <2>4. Starting' = Elems(copiesPendingStart')  BY DEF Starting, Elems
    <2>5. copiesPendingStart \in Seq(Runners)  BY DEF TypeInv, PlaceTypes
    <2> HIDE DEF r
    <2>6. r \notin Elems(copiesPendingStart)  BY <1>0, <2>2 DEF WhereInv, Starting
    <2>7. Starting' = Starting \cup {r} /\ Distinct(copiesPendingStart')
      BY <1>0, <2>1, <2>3, <2>4, <2>5, <2>6, AppendFacts DEF Starting, WhereInv
    <2>8. Continuing' = Continuing /\ Adding' = Adding /\ InRing' = InRing
      BY <2>3, PlacesUnchanged, RingUnchanged
    <2> QED  BY <1>0, <2>2, <2>3, <2>7, <2>8 DEF WhereInv, Begun, Distinct
  <1>2. ASSUME PickContinue PROVE WhereInv'
    <2> DEFINE r == Head(copiesPendingContinue)
    <2>1. /\ copiesPendingContinue # <<>> /\ copiesPendingContinue' = Tail(copiesPendingContinue)
          /\ toAdd' = r /\ Adding = {}
          /\ UNCHANGED <<copiesPendingStart, alive, sq, kernel, cq>>
      BY <1>2, NoTurn DEF PickContinue
    <2>2. copiesPendingContinue \in Seq(Runners)  BY DEF TypeInv, PlaceTypes
    <2>3. Continuing' = Elems(copiesPendingContinue')  BY DEF Continuing, Elems
    <2>4. /\ r \in Runners /\ r \in Continuing /\ Continuing' = Continuing \ {r}
          /\ Distinct(copiesPendingContinue')
      BY <1>0, <2>1, <2>2, <2>3, TailFacts DEF WhereInv, Continuing
    <2> HIDE DEF r
    <2>5. Adding' = {r}  BY <2>1, <2>4 DEF Adding
    <2>6. Starting' = Starting /\ InRing' = InRing  BY <2>1, PlacesUnchanged, RingUnchanged
    <2> QED  BY <1>0, <2>1, <2>4, <2>5, <2>6 DEF WhereInv, Begun, Distinct
  <1>3. ASSUME PickStart PROVE WhereInv'
    <2> DEFINE r == Head(copiesPendingStart)
    <2>1. /\ copiesPendingStart' = Tail(copiesPendingStart) /\ toAdd' = r /\ Adding = {}
          /\ UNCHANGED <<copiesPendingContinue, alive, sq, kernel, cq>>
      BY <1>3, NoTurn DEF PickStart
    <2>2. copiesPendingStart \in Seq(Runners)  BY DEF TypeInv, PlaceTypes
    <2>3. copiesPendingStart # <<>>
      BY <1>3, <2>2 DEF PickStart, CanPickStart, copiesPendingStartCount
    <2>4. Starting' = Elems(copiesPendingStart')  BY DEF Starting, Elems
    <2>5. /\ r \in Runners /\ r \in Starting /\ Starting' = Starting \ {r}
          /\ Distinct(copiesPendingStart')
      BY <1>0, <2>1, <2>2, <2>3, <2>4, TailFacts DEF WhereInv, Starting
    <2> HIDE DEF r
    <2>6. Adding' = {r}  BY <2>1, <2>5 DEF Adding
    <2>7. Continuing' = Continuing /\ InRing' = InRing  BY <2>1, PlacesUnchanged, RingUnchanged
    <2> QED  BY <1>0, <2>1, <2>5, <2>6, <2>7 DEF WhereInv, Begun, Distinct
  <1>4. ASSUME HighPriorityOpenError PROVE WhereInv'
    <2>1. /\ toAdd' = NoRunner /\ alive' = alive \ {toAdd}
          /\ UNCHANGED <<copiesPendingStart, copiesPendingContinue, sq, kernel, cq>>
      BY <1>4 DEF HighPriorityOpenError, Delete
    <2>2. Adding = {toAdd} /\ Adding' = {}
      BY <1>4, <2>1, TurnFacts, RunnerFacts DEF HighPriorityOpenError, Adding
    <2>3. Starting' = Starting /\ Continuing' = Continuing /\ InRing' = InRing
      BY <2>1, PlacesUnchanged, RingUnchanged
    <2> QED  BY <1>0, <2>1, <2>2, <2>3 DEF WhereInv, Begun, Distinct
  <1>5. ASSUME FinishEmptyFile PROVE WhereInv'
    <2>1. /\ toAdd' = NoRunner /\ alive' = alive \ {toAdd}
          /\ UNCHANGED <<copiesPendingStart, copiesPendingContinue, sq, kernel, cq>>
      BY <1>5 DEF FinishEmptyFile, Delete
    <2>2. Adding = {toAdd} /\ Adding' = {}
      BY <1>5, <2>1, TurnFacts, RunnerFacts DEF FinishEmptyFile, Adding
    <2>3. Starting' = Starting /\ Continuing' = Continuing /\ InRing' = InRing
      BY <2>1, PlacesUnchanged, RingUnchanged
    <2> QED  BY <1>0, <2>1, <2>2, <2>3 DEF WhereInv, Begun, Distinct
  <1>6. ASSUME AddToBatch PROVE WhereInv'
    <2>1. toAdd' = NoRunner /\ UNCHANGED <<copiesPendingStart, copiesPendingContinue, alive>>
      BY <1>6 DEF AddToBatch
    <2>2. Adding = {toAdd} /\ Adding' = {}
      BY <1>6, <2>1, TurnFacts, RunnerFacts DEF AddToBatch, Adding
    <2>3. InRing' = InRing \cup {toAdd}
      <3>1. toAdd \in Runners  BY <1>0, <1>6, AddMoves
      <3>2. \A r \in Runners : <<r, "write">> \in Outstanding' <=>
                <<r, "write">> \in Outstanding \/ r = toAdd
        BY <1>0, <1>6, AddMoves
      <3> QED  BY <3>1, <3>2 DEF InRing
    <2>4. Starting' = Starting /\ Continuing' = Continuing  BY <2>1, PlacesUnchanged
    <2>5. Size(toAdd) > 0  BY <1>6 DEF AddToBatch
    <2> QED  BY <1>0, <2>1, <2>2, <2>3, <2>4, <2>5 DEF WhereInv, Begun, Distinct
  <1>7. ASSUME Submit PROVE WhereInv'
    <2>1. Outstanding' = Outstanding  BY <1>7, SubmitMoves
    <2>2. UNCHANGED <<copiesPendingStart, copiesPendingContinue, toAdd, alive>>  BY <1>7 DEF Submit
    <2> QED  BY <1>0, <2>1, <2>2, PlacesUnchanged DEF WhereInv, Begun, Distinct
  <1>8. ASSUME NEW q \in kernel, KernelRead(q) PROVE WhereInv'
    <2>1. Outstanding' = Outstanding  BY <1>8, KernelReadMoves
    <2>2. UNCHANGED <<copiesPendingStart, copiesPendingContinue, toAdd, alive>>  BY <1>8 DEF KernelRead, Completes
    <2> QED  BY <1>0, <2>1, <2>2, PlacesUnchanged DEF WhereInv, Begun, Distinct
  <1>9. ASSUME NEW q \in kernel, KernelWrite(q) PROVE WhereInv'
    <2>1. Outstanding' = Outstanding  BY <1>9, KernelWriteMoves
    <2>2. UNCHANGED <<copiesPendingStart, copiesPendingContinue, toAdd, alive>>  BY <1>9 DEF KernelWrite, Completes
    <2> QED  BY <1>0, <2>1, <2>2, PlacesUnchanged DEF WhereInv, Begun, Distinct
  <1>10. ASSUME OnReadEvent PROVE WhereInv'
    <2>1. UNCHANGED <<copiesPendingStart, copiesPendingContinue, toAdd, alive>>  BY <1>10 DEF OnReadEvent
    <2>2. InRing' = InRing  BY <1>10, EventPlaces DEF OnReadEvent
    <2> QED  BY <1>0, <2>1, <2>2, PlacesUnchanged DEF WhereInv, Begun, Distinct
  <1>11. ASSUME OnWriteEventError PROVE WhereInv'
    <2> DEFINE r == Head(cq).r
    <2>1. /\ UNCHANGED <<copiesPendingStart, copiesPendingContinue, toAdd>>
          /\ alive' = alive \ {r}
      BY <1>11 DEF OnWriteEventError, Delete
    <2>2. InRing' = InRing \ {r} /\ r \in InRing  BY <1>11, EventPlaces DEF OnWriteEventError
    <2> HIDE DEF r
    <2> QED  BY <1>0, <2>1, <2>2, PlacesUnchanged DEF WhereInv, Begun, Distinct
  <1>12. ASSUME OnWriteEventFinished PROVE WhereInv'
    <2> DEFINE r == Head(cq).r
    <2>1. /\ UNCHANGED <<copiesPendingStart, copiesPendingContinue, toAdd>>
          /\ alive' = alive \ {r}
      BY <1>12 DEF OnWriteEventFinished, Delete
    <2>2. InRing' = InRing \ {r} /\ r \in InRing  BY <1>12, EventPlaces DEF OnWriteEventFinished
    <2> HIDE DEF r
    <2> QED  BY <1>0, <2>1, <2>2, PlacesUnchanged DEF WhereInv, Begun, Distinct
  <1>13. ASSUME OnWriteEventReschedule PROVE WhereInv'
    <2> DEFINE r == Head(cq).r
    <2>1. /\ UNCHANGED <<copiesPendingStart, alive, toAdd>>
          /\ copiesPendingContinue' = Append(copiesPendingContinue, r)
      BY <1>13 DEF OnWriteEventReschedule
    <2>2. InRing' = InRing \ {r} /\ r \in InRing  BY <1>13, EventPlaces DEF OnWriteEventReschedule
    <2>3. r \in Runners /\ copiesPendingContinue \in Seq(Runners)
      BY <2>2 DEF InRing, TypeInv, PlaceTypes
    <2>4. Continuing' = Elems(copiesPendingContinue')  BY DEF Continuing, Elems
    <2> HIDE DEF r
    <2>5. Continuing' = Continuing \cup {r} /\ Distinct(copiesPendingContinue')
      BY <1>0, <2>1, <2>2, <2>3, <2>4, AppendFacts DEF Continuing, WhereInv
    <2>6. Starting' = Starting /\ Adding' = Adding  BY <2>1, PlacesUnchanged
    <2> QED  BY <1>0, <2>1, <2>2, <2>5, <2>6 DEF WhereInv, Begun, Distinct
  <1>14. CASE UNCHANGED <<copiesPendingStart, copiesPendingContinue, toAdd, alive, sq, kernel, cq>>
    BY <1>0, <1>14, RingUnchanged, PlacesUnchanged DEF WhereInv, Begun, Distinct
  <1> QED
    BY <1>1, <1>2, <1>3, <1>4, <1>5, <1>6, <1>7, <1>8, <1>9, <1>10, <1>11, <1>12, <1>13, <1>14
    DEF Next, AddStep, SubmitStep, KernelStep, vars, mainVars, fdVars, queueVars, lifeVars,
        runnerVars, submitVars, ringVars, countVars, AddCopyJob, LowPriorityLoad,
        LowPriorityOpen, AddCopyJobPartTotal, Start, Join, JoinReturn, StopAdding, TakeBlock,
        PickNothing, HighPriorityLoad, HighPriorityRetry, HighPriorityOpen, SubmitNothing,
        NextRound, SubmitExit, Terminated

\* A runner counts its own requests.
LEMMA JobsNext ==
    ASSUME TypeInv, ControlInv, RingInv, PlacesInv, IsFiniteSet(kernel), [Next]_vars
    PROVE  JobsInv'
  <1> USE DEF mainVars, fdVars, queueVars, lifeVars, runnerVars, submitVars, ringVars, countVars
  <1>0. WhereInv /\ JobsInv /\ jobsRunning \in [Runners -> Int]  BY DEF PlacesInv, TypeInv, RingTypes
  <1>1. ASSUME AddToBatch PROVE JobsInv'
    <2>1. jobsRunning' = [jobsRunning EXCEPT ![toAdd] = @ + Len(Requests(toAdd))]
      BY <1>1 DEF AddToBatch, GetSqe
    <2>2. /\ toAdd \in Runners
          /\ <<toAdd, "write">> \notin Outstanding /\ <<toAdd, "read">> \notin Outstanding
          /\ Outstanding' = Outstanding \cup (IF readDone[toAdd] THEN {<<toAdd, "write">>}
                                              ELSE {<<toAdd, "read">>, <<toAdd, "write">>})
          /\ Len(Requests(toAdd)) = IF readDone[toAdd] THEN 1 ELSE 2
      BY <1>0, <1>1, AddMoves
    <2> SUFFICES ASSUME NEW x \in Runners
                 PROVE  jobsRunning'[x] = (IF <<x, "read">> \in Outstanding' THEN 1 ELSE 0)
                                          + (IF <<x, "write">> \in Outstanding' THEN 1 ELSE 0)
      BY DEF JobsInv
    <2>3. CASE x # toAdd
      <3>1. jobsRunning'[x] = jobsRunning[x]  BY <1>0, <2>1, <2>3
      <3>2. /\ <<x, "read">> \in Outstanding' <=> <<x, "read">> \in Outstanding
            /\ <<x, "write">> \in Outstanding' <=> <<x, "write">> \in Outstanding
        BY <2>2, <2>3
      <3> QED  BY <1>0, <3>1, <3>2 DEF JobsInv
    <2>4. CASE x = toAdd
      <3>1. jobsRunning'[x] = jobsRunning[x] + Len(Requests(toAdd)) /\ jobsRunning[x] = 0
        BY <1>0, <2>1, <2>2, <2>4 DEF JobsInv
      <3>2. CASE readDone[toAdd]  BY <2>2, <2>4, <3>1, <3>2
      <3>3. CASE ~readDone[toAdd]  BY <2>2, <2>4, <3>1, <3>3
      <3> QED  BY <3>2, <3>3
    <2> QED  BY <2>3, <2>4
  <1>2. ASSUME Submit PROVE JobsInv'
    <2>1. Outstanding' = Outstanding  BY <1>2, SubmitMoves
    <2>2. UNCHANGED jobsRunning  BY <1>2 DEF Submit
    <2> QED  BY <1>0, <2>1, <2>2 DEF JobsInv
  <1>3. ASSUME NEW q \in kernel, KernelRead(q) PROVE JobsInv'
    <2>1. Outstanding' = Outstanding  BY <1>3, KernelReadMoves
    <2>2. UNCHANGED jobsRunning  BY <1>3 DEF KernelRead, Completes
    <2> QED  BY <1>0, <2>1, <2>2 DEF JobsInv
  <1>4. ASSUME NEW q \in kernel, KernelWrite(q) PROVE JobsInv'
    <2>1. Outstanding' = Outstanding  BY <1>4, KernelWriteMoves
    <2>2. UNCHANGED jobsRunning  BY <1>4 DEF KernelWrite, Completes
    <2> QED  BY <1>0, <2>1, <2>2 DEF JobsInv
  <1>5. ASSUME OnReadEvent PROVE JobsInv'
    <2> DEFINE r == Head(cq).r
    <2>1. jobsRunning' = [jobsRunning EXCEPT ![r] = @ - 1]  BY <1>5 DEF OnReadEvent, Seen
    <2>2. r \in Runners  BY <1>5, EventFacts DEF OnReadEvent
    <2>3. Outstanding' = Outstanding \ {<<r, "read">>} /\ <<r, "read">> \in Outstanding
      BY <1>5, EventPlaces DEF OnReadEvent
    <2> HIDE DEF r
    <2> SUFFICES ASSUME NEW x \in Runners
                 PROVE  jobsRunning'[x] = (IF <<x, "read">> \in Outstanding' THEN 1 ELSE 0)
                                          + (IF <<x, "write">> \in Outstanding' THEN 1 ELSE 0)
      BY DEF JobsInv
    <2>4. jobsRunning'[x] = jobsRunning[x] - (IF x = r THEN 1 ELSE 0)  BY <1>0, <2>1, <2>2
    <2>5. jobsRunning[x] = (IF <<x, "read">> \in Outstanding THEN 1 ELSE 0)
                           + (IF <<x, "write">> \in Outstanding THEN 1 ELSE 0)
      BY <1>0 DEF JobsInv
    <2>6. CASE x = r  BY <2>3, <2>4, <2>5, <2>6
    <2>7. CASE x # r
      <3>1. /\ <<x, "read">> \in Outstanding' <=> <<x, "read">> \in Outstanding
            /\ <<x, "write">> \in Outstanding' <=> <<x, "write">> \in Outstanding
        BY <2>3, <2>7
      <3> QED  BY <2>4, <2>5, <2>7, <3>1
    <2> QED  BY <2>6, <2>7
  <1>6. ASSUME OnWriteEventError PROVE JobsInv'
    <2> DEFINE r == Head(cq).r
    <2>1. jobsRunning' = [jobsRunning EXCEPT ![r] = @ - 1]  BY <1>6 DEF OnWriteEventError, Seen
    <2>2. r \in Runners  BY <1>6, EventFacts DEF OnWriteEventError
    <2>3. Outstanding' = Outstanding \ {<<r, "write">>} /\ <<r, "write">> \in Outstanding
      BY <1>6, EventPlaces DEF OnWriteEventError
    <2> HIDE DEF r
    <2> SUFFICES ASSUME NEW x \in Runners
                 PROVE  jobsRunning'[x] = (IF <<x, "read">> \in Outstanding' THEN 1 ELSE 0)
                                          + (IF <<x, "write">> \in Outstanding' THEN 1 ELSE 0)
      BY DEF JobsInv
    <2>4. jobsRunning'[x] = jobsRunning[x] - (IF x = r THEN 1 ELSE 0)  BY <1>0, <2>1, <2>2
    <2>5. jobsRunning[x] = (IF <<x, "read">> \in Outstanding THEN 1 ELSE 0)
                           + (IF <<x, "write">> \in Outstanding THEN 1 ELSE 0)
      BY <1>0 DEF JobsInv
    <2>6. CASE x = r  BY <2>3, <2>4, <2>5, <2>6
    <2>7. CASE x # r
      <3>1. /\ <<x, "read">> \in Outstanding' <=> <<x, "read">> \in Outstanding
            /\ <<x, "write">> \in Outstanding' <=> <<x, "write">> \in Outstanding
        BY <2>3, <2>7
      <3> QED  BY <2>4, <2>5, <2>7, <3>1
    <2> QED  BY <2>6, <2>7
  <1>7. ASSUME OnWriteEventFinished PROVE JobsInv'
    <2> DEFINE r == Head(cq).r
    <2>1. jobsRunning' = [jobsRunning EXCEPT ![r] = @ - 1]  BY <1>7 DEF OnWriteEventFinished, Seen
    <2>2. r \in Runners  BY <1>7, EventFacts DEF OnWriteEventFinished
    <2>3. Outstanding' = Outstanding \ {<<r, "write">>} /\ <<r, "write">> \in Outstanding
      BY <1>7, EventPlaces DEF OnWriteEventFinished
    <2> HIDE DEF r
    <2> SUFFICES ASSUME NEW x \in Runners
                 PROVE  jobsRunning'[x] = (IF <<x, "read">> \in Outstanding' THEN 1 ELSE 0)
                                          + (IF <<x, "write">> \in Outstanding' THEN 1 ELSE 0)
      BY DEF JobsInv
    <2>4. jobsRunning'[x] = jobsRunning[x] - (IF x = r THEN 1 ELSE 0)  BY <1>0, <2>1, <2>2
    <2>5. jobsRunning[x] = (IF <<x, "read">> \in Outstanding THEN 1 ELSE 0)
                           + (IF <<x, "write">> \in Outstanding THEN 1 ELSE 0)
      BY <1>0 DEF JobsInv
    <2>6. CASE x = r  BY <2>3, <2>4, <2>5, <2>6
    <2>7. CASE x # r
      <3>1. /\ <<x, "read">> \in Outstanding' <=> <<x, "read">> \in Outstanding
            /\ <<x, "write">> \in Outstanding' <=> <<x, "write">> \in Outstanding
        BY <2>3, <2>7
      <3> QED  BY <2>4, <2>5, <2>7, <3>1
    <2> QED  BY <2>6, <2>7
  <1>8. ASSUME OnWriteEventReschedule PROVE JobsInv'
    <2> DEFINE r == Head(cq).r
    <2>1. jobsRunning' = [jobsRunning EXCEPT ![r] = @ - 1]  BY <1>8 DEF OnWriteEventReschedule, Seen
    <2>2. r \in Runners  BY <1>8, EventFacts DEF OnWriteEventReschedule
    <2>3. Outstanding' = Outstanding \ {<<r, "write">>} /\ <<r, "write">> \in Outstanding
      BY <1>8, EventPlaces DEF OnWriteEventReschedule
    <2> HIDE DEF r
    <2> SUFFICES ASSUME NEW x \in Runners
                 PROVE  jobsRunning'[x] = (IF <<x, "read">> \in Outstanding' THEN 1 ELSE 0)
                                          + (IF <<x, "write">> \in Outstanding' THEN 1 ELSE 0)
      BY DEF JobsInv
    <2>4. jobsRunning'[x] = jobsRunning[x] - (IF x = r THEN 1 ELSE 0)  BY <1>0, <2>1, <2>2
    <2>5. jobsRunning[x] = (IF <<x, "read">> \in Outstanding THEN 1 ELSE 0)
                           + (IF <<x, "write">> \in Outstanding THEN 1 ELSE 0)
      BY <1>0 DEF JobsInv
    <2>6. CASE x = r  BY <2>3, <2>4, <2>5, <2>6
    <2>7. CASE x # r
      <3>1. /\ <<x, "read">> \in Outstanding' <=> <<x, "read">> \in Outstanding
            /\ <<x, "write">> \in Outstanding' <=> <<x, "write">> \in Outstanding
        BY <2>3, <2>7
      <3> QED  BY <2>4, <2>5, <2>7, <3>1
    <2> QED  BY <2>6, <2>7
  <1>9. CASE UNCHANGED <<jobsRunning, sq, kernel, cq>>
    BY <1>0, <1>9, RingUnchanged DEF JobsInv
  <1> QED
    BY <1>1, <1>2, <1>3, <1>4, <1>5, <1>6, <1>7, <1>8, <1>9
    DEF Next, AddStep, SubmitStep, KernelStep, vars, mainVars, fdVars, queueVars, lifeVars,
        runnerVars, submitVars, ringVars, countVars, AddCopyJob, LowPriorityLoad,
        LowPriorityOpen, AddCopyJobPartTotal, AddCopyJobPartPush, Start, Join, JoinReturn,
        StopAdding, TakeBlock, PickContinue, PickStart, PickNothing, HighPriorityLoad,
        HighPriorityRetry, HighPriorityOpen, HighPriorityOpenError, FinishEmptyFile,
        SubmitNothing, NextRound, SubmitExit, Terminated

\* No step makes a runner wait to be pushed that did not wait before.
LEMMA FutureNext ==
    ASSUME TypeInv, ControlInv, [Next]_vars, NEW r \in Runners, Future(r)'
    PROVE  Future(r)
  <1> USE DEF mainVars, fdVars, queueVars, lifeVars, runnerVars, submitVars, ringVars, countVars
  <1>0. r[2] \in Nat /\ r[2] >= 1 /\ (mpart \in Nat)
    <2>1. r[2] \in 1..PartCount(FileOf(r)) /\ PartCount(FileOf(r)) \in Nat  BY RunnerFacts
    <2> QED  BY <2>1 DEF TypeInv, MainTypes
  <1>1. ASSUME NEW f \in Files, AddCopyJob(f) PROVE Future(r)
    BY <1>1 DEF AddCopyJob, Future, FileOf, Opening, Splitting
  <1>2. ASSUME LowPriorityLoad PROVE Future(r)
    BY <1>2, <1>0 DEF LowPriorityLoad, NextDescriptor, Future, FileOf, Opening, Splitting
  <1>3. ASSUME LowPriorityOpen PROVE Future(r)
    <2>1. UNCHANGED <<mfile, added>> /\ Opening /\ (Opening' \/ Splitting')
      BY <1>3 DEF LowPriorityOpen, NextDescriptor, Opening, Splitting
    <2> QED  BY <2>1, <1>0 DEF Future, FileOf, Opening, Splitting
  <1>4. ASSUME AddCopyJobPartTotal PROVE Future(r)
    BY <1>4, <1>0 DEF AddCopyJobPartTotal, Future, FileOf, Opening, Splitting
  <1>5. ASSUME AddCopyJobPartPush PROVE Future(r)
    BY <1>5, <1>0 DEF AddCopyJobPartPush, Future, FileOf, Opening, Splitting
  <1>6. ASSUME Join PROVE Future(r)
    BY <1>6, <1>0 DEF Join, Future, FileOf, Opening, Splitting
  <1>7. ASSUME JoinReturn PROVE Future(r)
    BY <1>7, <1>0 DEF JoinReturn, Future, FileOf, Opening, Splitting
  <1>8. CASE UNCHANGED <<mpc, mfile, mpart, added>>
    BY <1>8 DEF Future, FileOf, Opening, Splitting
  <1> QED
    BY <1>1, <1>2, <1>3, <1>4, <1>5, <1>6, <1>7, <1>8
    DEF Next, AddStep, SubmitStep, KernelStep, vars, mainVars, fdVars, queueVars, lifeVars,
        runnerVars, submitVars, ringVars, countVars, Start, StopAdding, TakeBlock, PickContinue,
        PickStart, PickNothing, HighPriorityLoad, HighPriorityRetry, HighPriorityOpen,
        HighPriorityOpenError, FinishEmptyFile, AddToBatch, Submit, SubmitNothing, KernelRead,
        KernelWrite, OnReadEvent, OnWriteEventError, OnWriteEventFinished,
        OnWriteEventReschedule, NextRound, SubmitExit, Terminated, Completes

\* What exists has been pushed.
LEMMA PushedNext ==
    ASSUME TypeInv, ControlInv, PlacesInv, [Next]_vars
    PROVE  PushedInv'
  <1>1. \A r \in Runners : Future(r)' => Future(r)  BY FutureNext
  <1>2. alive \subseteq Runners  BY DEF TypeInv, PlaceTypes
  <1>3. CASE AddCopyJobPartPush
    <2>1. mfile \in Files /\ mpart \in 1..PartCount(mfile) /\ mpart \in Nat /\ mfile \in added
      BY <1>3 DEF AddCopyJobPartPush, ControlInv, TypeInv, MainTypes
    <2>2. PICK r \in Runners : r = <<mfile, mpart>> /\ FileOf(r) = mfile /\ r[2] = mpart
      BY <2>1, RunnerFacts
    <2>3. ~Future(r)'
      BY <1>3, <2>1, <2>2 DEF AddCopyJobPartPush, Future, FileOf, Opening, Splitting
    <2>4. alive' = alive \cup {r}  BY <1>3, <2>2 DEF AddCopyJobPartPush
    <2> QED  BY <1>1, <1>2, <2>3, <2>4 DEF PlacesInv, PushedInv
  <1>4. CASE alive' \subseteq alive  BY <1>1, <1>2, <1>4 DEF PlacesInv, PushedInv
  <1> QED
    BY <1>3, <1>4 DEF Next, AddStep, SubmitStep, KernelStep, Completes, Delete, vars, mainVars,
        fdVars, queueVars, lifeVars, runnerVars, submitVars, ringVars, countVars, AddCopyJob,
        LowPriorityLoad, LowPriorityOpen, AddCopyJobPartTotal, Start, Join, JoinReturn,
        StopAdding, TakeBlock, PickContinue, PickStart, PickNothing, HighPriorityLoad,
        HighPriorityRetry, HighPriorityOpen, HighPriorityOpenError, FinishEmptyFile, AddToBatch,
        Submit, SubmitNothing, KernelRead, KernelWrite, OnReadEvent, OnWriteEventError,
        OnWriteEventFinished, OnWriteEventReschedule, NextRound, SubmitExit, Terminated

\* submissionsRunning counts what is in the ring, and what fits is known in time.
LEMMA RoomNext ==
    ASSUME TypeInv, ControlInv, RingInv, WhereInv, RoomInv, [Next]_vars
    PROVE  RoomInv'
  <1> USE DEF mainVars, fdVars, queueVars, lifeVars, runnerVars, submitVars, ringVars, countVars, MAX_JOBS_PER_RUNNER
  <1>0. /\ Len(sq) \in Nat /\ Len(cq) \in Nat /\ Cardinality(kernel) \in Nat /\ IsFiniteSet(kernel)
        /\ submissionsRunning \in Int
    BY FS_CardinalityType DEF TypeInv, RingTypes, RoomInv
  <1>1. ASSUME Start PROVE RoomInv'
    BY <1>1 DEF Start, RoomInv
  <1>2. ASSUME JoinReturn PROVE RoomInv'
    BY <1>2 DEF JoinReturn, RoomInv
  <1>3. ASSUME StopAdding PROVE RoomInv'
    BY <1>3 DEF StopAdding, RoomInv
  <1>4. ASSUME PickContinue PROVE RoomInv'
    BY <1>4 DEF PickContinue, RoomInv
  <1>5. ASSUME PickStart PROVE RoomInv'
    BY <1>5 DEF PickStart, RoomInv
  <1>6. ASSUME PickNothing PROVE RoomInv'
    BY <1>6 DEF PickNothing, RoomInv
  <1>7. ASSUME HighPriorityLoad PROVE RoomInv'
    BY <1>7 DEF HighPriorityLoad, RoomInv
  <1>8. ASSUME HighPriorityRetry PROVE RoomInv'
    BY <1>8 DEF HighPriorityRetry, RoomInv
  <1>9. ASSUME HighPriorityOpen PROVE RoomInv'
    BY <1>9 DEF HighPriorityOpen, RoomInv
  <1>10. ASSUME HighPriorityOpenError PROVE RoomInv'
    BY <1>10 DEF HighPriorityOpenError, RoomInv
  <1>11. ASSUME FinishEmptyFile PROVE RoomInv'
    BY <1>11 DEF FinishEmptyFile, RoomInv
  <1>12. ASSUME SubmitNothing PROVE RoomInv'
    BY <1>12 DEF SubmitNothing, RoomInv
  <1>13. ASSUME NextRound PROVE RoomInv'
    BY <1>13 DEF NextRound, RoomInv
  <1>14. ASSUME SubmitExit PROVE RoomInv'
    BY <1>14 DEF SubmitExit, RoomInv
  <1>15. ASSUME TakeBlock PROVE RoomInv'
    BY <1>15, <1>0, QueueAssumption DEF TakeBlock, rateLimited, RoomInv
  <1>16. ASSUME AddToBatch PROVE RoomInv'
    <2> DEFINE n == Len(Requests(toAdd))
    <2>1. (n = 1 \/ n = 2) /\ Len(sq') = Len(sq) + n  BY <1>16, AddMoves
    <2>2. /\ submissionsRunning' = submissionsRunning + n
          /\ spc = "open" /\ spc' = "check" /\ kernel' = kernel /\ cq' = cq
      BY <1>16, <2>1 DEF AddToBatch, GetSqe
    <2> HIDE DEF n
    <2>3. submissionsRunning + 2 <= RingSize /\ RingSize \in Nat
      BY <2>2, QueueAssumption DEF RoomInv
    <2>4. submissionsRunning' <= RingSize  BY <1>0, <2>1, <2>2, <2>3
    <2> QED  BY <1>0, <2>1, <2>2, <2>4 DEF RoomInv
  <1>17. ASSUME Submit PROVE RoomInv'
    <2>1. IsFiniteSet(kernel') /\ Len(sq') + Cardinality(kernel') = Len(sq) + Cardinality(kernel)
      BY <1>0, <1>17, SubmitMoves
    <2>2. Len(sq') \in Nat /\ Cardinality(kernel') \in Nat
      <3>1. sq' \in Seq(Runners \X {"read", "write"})  BY RingTypesNext DEF RingTypes
      <3> QED  BY <2>1, <3>1, FS_CardinalityType
    <2>3. UNCHANGED <<cq, submissionsRunning>> /\ spc' = "complete"  BY <1>17 DEF Submit
    <2> QED  BY <1>0, <2>1, <2>2, <2>3 DEF RoomInv
  <1>18. ASSUME NEW q \in kernel, KernelRead(q) PROVE RoomInv'
    <2>1. IsFiniteSet(kernel') /\ Cardinality(kernel') + Len(cq') = Cardinality(kernel) + Len(cq)
      BY <1>0, <1>18, KernelReadMoves
    <2>2. Len(cq') \in Nat /\ Cardinality(kernel') \in Nat
      <3>1. cq' \in Seq(Cqes)  BY RingTypesNext DEF RingTypes
      <3> QED  BY <2>1, <3>1, FS_CardinalityType
    <2>3. UNCHANGED <<sq, submissionsRunning, spc>>  BY <1>18 DEF KernelRead, Completes
    <2> QED  BY <1>0, <2>1, <2>2, <2>3 DEF RoomInv
  <1>19. ASSUME NEW q \in kernel, KernelWrite(q) PROVE RoomInv'
    <2>1. IsFiniteSet(kernel') /\ Cardinality(kernel') + Len(cq') = Cardinality(kernel) + Len(cq)
      BY <1>0, <1>19, KernelWriteMoves
    <2>2. Len(cq') \in Nat /\ Cardinality(kernel') \in Nat
      <3>1. cq' \in Seq(Cqes)  BY RingTypesNext DEF RingTypes
      <3> QED  BY <2>1, <3>1, FS_CardinalityType
    <2>3. UNCHANGED <<sq, submissionsRunning, spc>>  BY <1>19 DEF KernelWrite, Completes
    <2> QED  BY <1>0, <2>1, <2>2, <2>3 DEF RoomInv
  <1>20. ASSUME OnReadEvent PROVE RoomInv'
    <2>1. Len(cq') = Len(cq) - 1 /\ sq' = sq /\ kernel' = kernel
      BY <1>20, EventMoves DEF OnReadEvent, Seen
    <2>2. submissionsRunning' = submissionsRunning - 1 /\ spc' = spc  BY <1>20 DEF OnReadEvent, Seen
    <2>3. spc = "complete"  BY <1>20 DEF OnReadEvent, Peeked
    <2> QED  BY <1>0, <2>1, <2>2, <2>3, QueueAssumption DEF RoomInv
  <1>21. ASSUME OnWriteEventError PROVE RoomInv'
    <2>1. Len(cq') = Len(cq) - 1 /\ sq' = sq /\ kernel' = kernel
      BY <1>21, EventMoves DEF OnWriteEventError, Seen
    <2>2. submissionsRunning' = submissionsRunning - 1 /\ spc' = spc  BY <1>21 DEF OnWriteEventError, Seen
    <2>3. spc = "complete"  BY <1>21 DEF OnWriteEventError, Peeked
    <2> QED  BY <1>0, <2>1, <2>2, <2>3, QueueAssumption DEF RoomInv
  <1>22. ASSUME OnWriteEventFinished PROVE RoomInv'
    <2>1. Len(cq') = Len(cq) - 1 /\ sq' = sq /\ kernel' = kernel
      BY <1>22, EventMoves DEF OnWriteEventFinished, Seen
    <2>2. submissionsRunning' = submissionsRunning - 1 /\ spc' = spc  BY <1>22 DEF OnWriteEventFinished, Seen
    <2>3. spc = "complete"  BY <1>22 DEF OnWriteEventFinished, Peeked
    <2> QED  BY <1>0, <2>1, <2>2, <2>3, QueueAssumption DEF RoomInv
  <1>23. ASSUME OnWriteEventReschedule PROVE RoomInv'
    <2>1. Len(cq') = Len(cq) - 1 /\ sq' = sq /\ kernel' = kernel
      BY <1>23, EventMoves DEF OnWriteEventReschedule, Seen
    <2>2. submissionsRunning' = submissionsRunning - 1 /\ spc' = spc  BY <1>23 DEF OnWriteEventReschedule, Seen
    <2>3. spc = "complete"  BY <1>23 DEF OnWriteEventReschedule, Peeked
    <2> QED  BY <1>0, <2>1, <2>2, <2>3, QueueAssumption DEF RoomInv
  <1>24. CASE UNCHANGED <<ringVars, spc>>
    BY <1>24 DEF RoomInv
  <1> QED
    BY <1>1, <1>2, <1>3, <1>4, <1>5, <1>6, <1>7, <1>8, <1>9, <1>10, <1>11, <1>12, <1>13, <1>14,
        <1>15, <1>16, <1>17, <1>18, <1>19, <1>20, <1>21, <1>22, <1>23, <1>24
    DEF Next, AddStep, SubmitStep, KernelStep, vars, mainVars, fdVars, queueVars, lifeVars,
        runnerVars, submitVars, ringVars, countVars, AddCopyJob, LowPriorityLoad,
        LowPriorityOpen, AddCopyJobPartTotal, AddCopyJobPartPush, Join, Terminated

\* The inductive invariant on which the others rest.
CoreInv == TypeInv /\ ControlInv /\ RingInv /\ PlacesInv /\ RoomInv

\* It holds, and goes on to hold.
LEMMA CoreHolds == Spec => []CoreInv
  <1>1. Init => CoreInv
    <2> SUFFICES ASSUME Init PROVE CoreInv  OBVIOUS
    <2>1. sq = <<>> /\ kernel = {} /\ cq = <<>> /\ Len(sq) = 0 /\ Len(cq) = 0  BY DEF Init
    <2>2. SqReqs = {} /\ KernelReqs = {} /\ CqReqs = {} /\ Outstanding = {}
      BY <2>1 DEF SqReqs, KernelReqs, CqReqs, Elems, Outstanding
    <2>3. RingInv
      BY <2>1, <2>2 DEF RingInv, SqInv, KernelInv, CqInv, ApartInv, Distinct
    <2>4. Starting = {} /\ Continuing = {} /\ InRing = {} /\ Adding = {} /\ alive = {}
      BY <2>2, RunnerFacts DEF Init, Starting, Continuing, InRing, Adding, Elems
    <2>5. WhereInv
      BY <2>4 DEF Init, WhereInv, Begun, Distinct
    <2>6. JobsInv  BY <2>2 DEF Init, JobsInv
    <2>7. PushedInv  BY <2>4 DEF PushedInv
    <2>8. IsFiniteSet(kernel) /\ Cardinality(kernel) = 0  BY <2>1, FS_EmptySet
    <2>9. RoomInv  BY <2>1, <2>8, QueueAssumption DEF Init, RoomInv
    <2> QED  BY <2>3, <2>5, <2>6, <2>7, <2>9, BaseInit DEF CoreInv, PlacesInv
  <1>2. CoreInv /\ [Next]_vars => CoreInv'
    <2> SUFFICES ASSUME CoreInv, [Next]_vars PROVE CoreInv'  OBVIOUS
    <2> USE DEF CoreInv
    <2>1. WhereInv /\ IsFiniteSet(kernel)  BY DEF PlacesInv, RoomInv
    <2>2. TypeInv'
      BY MainTypesNext, FdTypesNext, PlaceTypesNext, BlockTypesNext, DataTypesNext, RingTypesNext
      DEF TypeInv
    <2>3. ControlInv'  BY ControlNext
    <2>4. RingInv'  BY <2>1, RingNext
    <2>5. PlacesInv'  BY <2>1, WhereNext, JobsNext, PushedNext DEF PlacesInv
    <2>6. RoomInv'  BY <2>1, RoomNext
    <2> QED  BY <2>2, <2>3, <2>4, <2>5, <2>6
  <1> QED  BY <1>1, <1>2, PTL DEF Spec

\* submissionsRunning is what is really on its way, fits the ring, and leaves room for the
\* requests of the runner whose turn it is: getSqe never waits for an entry.
THEOREM RingNeverFull == Spec => []RingRoom
  <1>1. CoreInv => RingRoom
    <2> SUFFICES ASSUME CoreInv PROVE RingRoom  OBVIOUS
    <2>1. Len(sq) \in Nat /\ Len(cq) \in Nat /\ Cardinality(kernel) \in Nat
      BY FS_CardinalityType DEF CoreInv, TypeInv, RingTypes, RoomInv
    <2> QED  BY <2>1, QueueAssumption DEF CoreInv, RoomInv, RingRoom, MAX_JOBS_PER_RUNNER
  <1> QED  BY <1>1, CoreHolds, PTL
==============================================================================
