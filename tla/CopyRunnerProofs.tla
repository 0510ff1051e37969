-------------------------- MODULE CopyRunnerProofs --------------------------
(***************************************************************************)
(* Proofs about CopyRunner, for every chunk layout, alignment, heap and    *)
(* behaviour of the kernel that satisfy the assumptions of that module.    *)
(***************************************************************************)
EXTENDS CopyRunner, TLAPS

Aligned(n) == n % Alignment = 0

Pad == bufferAligned - buffer

\* The block holds the chunk's bytes up to, not including, file position n.
FilledTo(n) == \A p \in offset..(n - 1) : mem[BufferIndex(p)] = p

-----------------------------------------------------------------------------
(* The inductive invariant.                                                *)

ChunkInv ==
    /\ Aligned(offset) /\ 0 < size /\ size <= ChunkSize /\ End <= StatSize
    /\ size = ChunkSize \/ End = StatSize

BufferInv ==
    /\ buffer = NoBuffer => phase = "pendingStart"
    /\ buffer # NoBuffer =>
        /\ 0 <= Pad /\ Pad + ChunkSize <= BlockSize
        /\ Aligned(bufferAligned)

\* How far the two offsets can be, and that the write only follows a complete read.
OffsetInv ==
    /\ offset <= readOffset /\ readOffset <= offset + ChunkSize
    /\ offset <= writeOffset /\ writeOffset <= End
    /\ readOffset < End + Alignment
    /\ readOffset # End => Aligned(readOffset)
    /\ offset < writeOffset => End <= readOffset
    /\ ForcePartialReads => readOffset <= End /\ fileSize <= StatSize

PhaseInv ==
    /\ jobsRunning = (IF rd.st = "idle" THEN 0 ELSE 1) + (IF wr.st = "idle" THEN 0 ELSE 1)
    /\ phase = "running" <=> wr.st # "idle"
    /\ rd.st # "idle" => wr.st # "idle" /\ savedError = "none"
    /\ rd.st = "submitted" => wr.st = "submitted"
    /\ rd.st = "idle" => readOverride = NoOverride
    /\ phase = "pendingStart" => readOffset = offset /\ writeOffset = offset
    /\ phase \in {"pendingStart", "pendingContinue"} =>
        /\ savedError = "none" /\ writeOffset < End
        /\ readOverride = NoOverride /\ writeOverride = NoOverride

ReadInv ==
    rd.st # "idle" =>
        /\ rd.at = readOffset /\ rd.buf = BufferIndex(readOffset) /\ Aligned(readOffset)
        /\ Aligned(rd.len) /\ rd.at + rd.len <= offset + ChunkSize
        /\ rd.at + rd.len < End + Alignment
        /\ wr.op = "write" => End <= rd.at + rd.len /\ readOverride = NoOverride
        /\ readOverride > 0
        /\ rd.st = "posted" =>
            /\ rd.res <= rd.len
            /\ FilledTo(rd.at + rd.res)
            /\ ForcePartialReads => rd.at + rd.res <= StatSize

\* The whole chunk is in the block, or will be counted as read by the next event.
ReadDone ==
    \/ rd.st = "idle" /\ End <= readOffset
    \/ rd.st = "posted" /\ rd.res = rd.len

WriteInv ==
    /\ wr.op = "write" =>
        /\ wr.at = writeOffset /\ wr.buf = BufferIndex(writeOffset)
        /\ wr.len <= End - writeOffset
        /\ writeOverride = NoOverride
        /\ wr.st = "submitted" /\ rd.st # "submitted" => ReadDone
        /\ wr.st = "posted" /\ wr.res >= 0 => ReadDone
    /\ wr.op # "write" => wr.len = 0 /\ wr.res <= 0 /\ wr.buf = 0
    /\ wr.st = "posted" => wr.res <= wr.len
    /\ wr.st = "idle" <=> wr.op = "none"

DataInv ==
    /\ FilledTo(readOffset)
    /\ wr.st = "posted" =>
        \A p \in writeOffset..(writeOffset + wr.res - 1) : dest[p] = p

IInv ==
    /\ TypeOK /\ ChunkInv /\ BufferInv /\ OffsetInv /\ PhaseInv /\ ReadInv /\ WriteInv /\ DataInv
    /\ CopiedBytesAreRight /\ OnlyRightBytesWritten

-----------------------------------------------------------------------------
(* Division and alignment.                                                 *)

\* Quotient and remainder, for a divisor that is not a number.
LEMMA DivMod ==
    ASSUME NEW a \in Nat \ {0}, NEW x \in Int
    PROVE  /\ x \div a \in Int /\ x % a \in 0..(a - 1)
           /\ x = a * (x \div a) + (x % a)
  BY Z3

\* A multiple of a leaves no remainder.
LEMMA ModMultiple ==
    ASSUME NEW a \in Nat \ {0}, NEW k \in Int
    PROVE  (a * k) % a = 0
  BY Z3

\* Sums and differences of aligned numbers are aligned.
LEMMA AlignedSum ==
    ASSUME NEW x \in Int, NEW y \in Int, Aligned(x), Aligned(y)
    PROVE  Aligned(x + y) /\ Aligned(x - y)
  <1> DEFINE p == x \div Alignment
             q == y \div Alignment
  <1>1. p \in Int /\ q \in Int /\ x = Alignment * p /\ y = Alignment * q
    BY DivMod, SizesAssumption DEF Aligned
  <1> HIDE DEF p, q
  <1>2. x + y = Alignment * (p + q) /\ x - y = Alignment * (p - q)
    BY <1>1, SizesAssumption
  <1> QED  BY <1>1, <1>2, ModMultiple, SizesAssumption DEF Aligned

\* Two aligned numbers are equal or at least Alignment apart.
LEMMA AlignedGap ==
    ASSUME NEW x \in Int, NEW y \in Int, Aligned(x), Aligned(y), x < y
    PROVE  x + Alignment <= y
  <1> DEFINE p == x \div Alignment
             q == y \div Alignment
  <1>1. p \in Int /\ q \in Int /\ x = Alignment * p /\ y = Alignment * q
    BY DivMod, SizesAssumption DEF Aligned
  <1> HIDE DEF p, q
  <1>2. p < q  BY <1>1, SizesAssumption
  <1>3. Alignment * (p + 1) <= Alignment * q  BY <1>1, <1>2, SizesAssumption
  <1> QED  BY <1>1, <1>3, SizesAssumption

\* AlignDown returns the largest aligned number that is not larger.
LEMMA AlignDownFacts ==
    ASSUME NEW n \in Int
    PROVE  /\ AlignDown(n) \in Int /\ Aligned(AlignDown(n))
           /\ AlignDown(n) <= n /\ n < AlignDown(n) + Alignment
           /\ Aligned(n) => AlignDown(n) = n
  <1> DEFINE q == n \div Alignment
             r == n % Alignment
  <1>1. q \in Int /\ r \in 0..(Alignment - 1) /\ n = Alignment * q + r
    BY DivMod, SizesAssumption
  <1>2. AlignDown(n) = Alignment * q
    BY <1>1, SizesAssumption DEF AlignDown
  <1>3. Aligned(n) => r = 0  BY DEF Aligned
  <1> HIDE DEF q, r
  <1>4. Aligned(AlignDown(n))  BY <1>1, <1>2, ModMultiple, SizesAssumption DEF Aligned
  <1> QED  BY <1>1, <1>2, <1>3, <1>4, SizesAssumption

\* Offset 0 is aligned.
LEMMA ZeroAligned == Aligned(0)
  BY SizesAssumption DEF Aligned

\* The alignment itself is aligned.
LEMMA UnitAligned == Aligned(Alignment)
  <1>1. Alignment \in Nat \ {0} /\ Alignment = Alignment * 1 /\ 1 \in Int
    BY SizesAssumption
  <1> QED  BY <1>1, ModMultiple DEF Aligned

\* Layout facts the other proofs use.
LEMMA Layout ==
    /\ ChunkSize \in Nat \ {0} /\ ChunkSize < UIntRange /\ ChunkSize <= BlockSize
    /\ Aligned(ChunkSize) /\ Aligned(UIntRange)
    /\ Alignment \in Nat \ {0} /\ UIntRange \in Nat /\ StatSize \in Nat \ {0}
  <1>1. CASE Alignment > HeapAlignment
    <2>1. ChunkSize = AlignDown(BlockSize - (Alignment - 1))
      BY <1>1 DEF ChunkSize, AlignDown
    <2>2. BlockSize - (Alignment - 1) \in Int  BY SizesAssumption
    <2>3. /\ ChunkSize \in Int /\ Aligned(ChunkSize)
          /\ ChunkSize <= BlockSize - (Alignment - 1)
      BY <2>1, <2>2, AlignDownFacts
    <2>4. Aligned(UIntRange)  BY LayoutAssumption DEF Aligned
    <2>5. 0 < ChunkSize /\ ChunkSize < UIntRange  BY LayoutAssumption
    <2> QED  BY <2>3, <2>4, <2>5, SizesAssumption
  <1>2. CASE ~(Alignment > HeapAlignment)
    BY <1>2, SizesAssumption, LayoutAssumption DEF ChunkSize, Aligned
  <1> QED  BY <1>1, <1>2

-----------------------------------------------------------------------------
(* The invariant holds initially.                                          *)

\* The parts addCopyJob makes are aligned, not empty, and inside the file.
LEMMA Parts ==
    ASSUME NEW o \in ChunkOffsets
    PROVE  /\ o \in Nat /\ Aligned(o) /\ o < StatSize
           /\ PartSize(o) \in Nat /\ 0 < PartSize(o) /\ PartSize(o) <= ChunkSize
           /\ o + PartSize(o) <= StatSize
           /\ PartSize(o) = ChunkSize \/ o + PartSize(o) = StatSize
  <1> DEFINE last == (StatSize - 1) \div ChunkSize
             rem  == (StatSize - 1) % ChunkSize
             c    == ChunkSize \div Alignment
  <1>1. PICK k \in 0..last : o = k * ChunkSize  BY DEF ChunkOffsets
  <1>2. last \in Int /\ rem \in 0..(ChunkSize - 1) /\ StatSize - 1 = ChunkSize * last + rem
    <2>1. StatSize - 1 \in Int /\ ChunkSize \in Nat \ {0}  BY Layout
    <2> QED  BY <2>1, DivMod
  <1>3. c \in Int /\ ChunkSize = Alignment * c  BY Layout, DivMod DEF Aligned
  <1> HIDE DEF last, rem, c
  <1>4. k \in Nat /\ k <= last  BY <1>1, <1>2
  <1>5. ChunkSize * k <= ChunkSize * last  BY <1>2, <1>4, Layout
  <1>6. o \in Nat /\ o <= StatSize - 1  BY <1>1, <1>2, <1>4, <1>5, Layout
  <1>7. Aligned(o)
    <2>1. o = Alignment * (c * k)  BY <1>1, <1>3, <1>4, Layout
    <2>2. c * k \in Int  BY <1>3, <1>4
    <2> QED  BY <2>1, <2>2, ModMultiple, Layout DEF Aligned
  <1> QED  BY <1>6, <1>7, Layout DEF PartSize

\* A runner as addCopyJobPart constructs it satisfies the inductive invariant.
LEMMA InitInv == Init => IInv
  <1> SUFFICES ASSUME Init PROVE IInv  OBVIOUS
  <1>1. /\ offset \in Nat /\ Aligned(offset) /\ size \in Nat /\ 0 < size
        /\ size <= ChunkSize /\ End <= StatSize
        /\ size = ChunkSize \/ End = StatSize
    BY Parts DEF Init, End
  <1>2. TypeOK
    BY <1>1, SizesAssumption DEF Init, TypeOK, Sqes, NoSqe, NoOverride, NoBuffer, Junk, Hole
  <1>3. ChunkInv  BY <1>1 DEF ChunkInv
  <1>4. BufferInv  BY DEF Init, BufferInv
  <1>5. OffsetInv  BY <1>1, Layout, ModesAssumption DEF Init, OffsetInv, End
  <1>6. PhaseInv  BY <1>1 DEF Init, PhaseInv, NoSqe, End
  <1>7. ReadInv /\ WriteInv  BY DEF Init, ReadInv, WriteInv, NoSqe
  <1>8. DataInv  BY <1>1 DEF Init, DataInv, FilledTo, NoSqe
  <1>9. CopiedBytesAreRight /\ OnlyRightBytesWritten
    BY <1>1 DEF Init, CopiedBytesAreRight, OnlyRightBytesWritten, Hole
  <1> QED  BY <1>2, <1>3, <1>4, <1>5, <1>6, <1>7, <1>8, <1>9 DEF IInv

-----------------------------------------------------------------------------
(* Submission.                                                             *)

\* Wherever the block starts, the whole chunk fits behind the aligned address.
LEMMA BufferFits ==
    ASSUME NEW a \in BlockAddresses
    PROVE  LET d == AlignDown(a - 1 + Alignment)
           IN  /\ d \in Int /\ Aligned(d)
               /\ 0 <= d - a /\ (d - a) + ChunkSize <= BlockSize
  <1> DEFINE d == AlignDown(a - 1 + Alignment)
  <1>1. a \in Nat /\ a - 1 + Alignment \in Int  BY SizesAssumption
  <1>2. d \in Int /\ Aligned(d) /\ d <= a - 1 + Alignment /\ a - 1 + Alignment < d + Alignment
    BY <1>1, AlignDownFacts
  <1> HIDE DEF d
  <1>3. CASE Alignment > HeapAlignment
    <2>1. ChunkSize = AlignDown(BlockSize - (Alignment - 1))
      BY <1>3 DEF ChunkSize, AlignDown
    <2>2. BlockSize - (Alignment - 1) \in Int  BY SizesAssumption
    <2>3. ChunkSize \in Int /\ ChunkSize <= BlockSize - (Alignment - 1)
      BY <2>1, <2>2, AlignDownFacts
    <2> QED  BY <1>1, <1>2, <2>3, SizesAssumption DEF d
  <1>4. CASE ~(Alignment > HeapAlignment)
    <2>1. ChunkSize = BlockSize  BY <1>4 DEF ChunkSize
    <2>2. Aligned(a)  BY <1>4, SizesAssumption, LayoutAssumption DEF Aligned
    <2>3. ~(a < d)  BY <1>1, <1>2, <2>2, AlignedGap, SizesAssumption
    <2>4. d = a  BY <1>1, <1>2, <2>3, SizesAssumption
    <2> QED  BY <1>1, <1>2, <2>1, <2>4, SizesAssumption DEF d
  <1> QED  BY <1>3, <1>4

\* giveBuffer preserves it: the aligned chunk fits behind the padding.
LEMMA GiveBufferInv ==
    ASSUME IInv, NEW a \in BlockAddresses, GiveBuffer(a)
    PROVE  IInv'
  <1> DEFINE d == AlignDown(a - 1 + Alignment)
  <1>1. d \in Int /\ Aligned(d) /\ 0 <= d - a /\ (d - a) + ChunkSize <= BlockSize
    BY BufferFits
  <1>2. /\ buffer' = a /\ bufferAligned' = d /\ buffer = NoBuffer /\ phase = "pendingStart"
        /\ UNCHANGED <<offset, size, readOffset, writeOffset, jobsRunning, savedError, opened, phase,
                       readOverride, writeOverride, rd, wr, mem, dest, fileSize, minFileSize, resizes, shortIO>>
    BY DEF GiveBuffer, chunkVars, overrideVars, runnerVars, envVars
  <1> HIDE DEF d
  <1>3. rd.st = "idle" /\ wr.st = "idle"  BY <1>2 DEF IInv, PhaseInv
  <1>4. readOffset = offset /\ writeOffset = offset  BY <1>2 DEF IInv, PhaseInv
  <1>5. TypeOK'  BY <1>1, <1>2 DEF IInv, TypeOK
  <1>6. ChunkInv'  BY <1>2 DEF IInv, ChunkInv, End
  <1>7. BufferInv'  BY <1>1, <1>2, SizesAssumption DEF BufferInv, NoBuffer, Pad
  <1>8. OffsetInv'  BY <1>2 DEF IInv, OffsetInv, End
  <1>9. PhaseInv'  BY <1>2 DEF IInv, PhaseInv, End
  <1>10. ReadInv'  BY <1>2, <1>3 DEF ReadInv
  <1>11. WriteInv'
    <2>1. wr.op = "none" /\ wr.len = 0 /\ wr.res <= 0 /\ wr.buf = 0  BY <1>3 DEF IInv, WriteInv
    <2> QED  BY <1>2, <1>3, <2>1 DEF WriteInv
  <1>12. DataInv'
    <2>1. offset \in Nat  BY DEF IInv, TypeOK
    <2> QED  BY <1>2, <1>3, <1>4, <2>1 DEF DataInv, FilledTo
  <1>13. CopiedBytesAreRight' /\ OnlyRightBytesWritten'
    BY <1>2 DEF IInv, CopiedBytesAreRight, OnlyRightBytesWritten, End
  <1> QED
    BY <1>5, <1>6, <1>7, <1>8, <1>9, <1>10, <1>11, <1>12, <1>13 DEF IInv

\* Arithmetic of an unsigned integer: what fits stays, a small negative number wraps.
LEMMA Unsigned ==
    ASSUME NEW x \in Int
    PROVE  /\ 0 <= x /\ x < UIntRange => x % UIntRange = x
           /\ x < 0 /\ -UIntRange < x => x % UIntRange = UIntRange + x
           /\ UIntRange % UIntRange = 0
  <1>1. UIntRange \in Nat \ {0}  BY Layout
  <1> QED  BY <1>1, Z3

\* Rounding up: what AlignedLength returns for a count that is not aligned, before the
\* result is stored in an unsigned int.
LEMMA RoundUp ==
    ASSUME NEW n \in Nat, ~Aligned(n)
    PROVE  /\ AlignedLength(n) = (AlignDown(n) + Alignment) % UIntRange
           /\ AlignDown(n) < n
  <1> DEFINE q == n \div Alignment
  <1>1. q \in Int  BY DivMod, Layout
  <1>2. AlignedLength(n) = ((q + 1) * Alignment) % UIntRange  BY DEF AlignedLength, Aligned
  <1>3. AlignDown(n) = q * Alignment  BY DEF AlignDown
  <1>4. AlignDown(n) # n  BY AlignDownFacts
  <1> HIDE DEF q
  <1>5. (q + 1) * Alignment = q * Alignment + Alignment  BY <1>1, Layout
  <1> QED  BY <1>2, <1>3, <1>4, <1>5, AlignDownFacts

\* A read request is aligned and ends inside the chunk's share of the block, less than
\* one alignment unit behind the chunk's end; if it is not a forced partial one, it
\* reaches the end.  If the previous read went beyond the end because the file grew,
\* the unsigned byte count wraps twice and the request is empty.
LEMMA ReadLength ==
    ASSUME IInv, NEW n \in ReadRequests, n # 0
    PROVE  /\ n \in Nat
           /\ AlignedLength(n) \in Nat /\ Aligned(AlignedLength(n)) /\ Aligned(readOffset)
           /\ readOffset + AlignedLength(n) <= offset + ChunkSize
           /\ readOffset + AlignedLength(n) < End + Alignment
           /\ ForcePartialReads => n <= End - readOffset
           /\ ~(ForcePartialReads /\ n < End - readOffset) => End <= readOffset + AlignedLength(n)
           /\ readOffset # End /\ (readOffset < End => n <= AlignedLength(n))
  <1> DEFINE u == End - readOffset
  <1>1. /\ offset \in Nat /\ size \in Nat /\ End \in Nat /\ readOffset \in Nat /\ u \in Int
        /\ End <= offset + ChunkSize /\ Aligned(offset) /\ offset <= readOffset
        /\ readOffset <= offset + ChunkSize /\ readOffset < End + Alignment
        /\ u # 0 => Aligned(readOffset)
        /\ ForcePartialReads => readOffset <= End
    <2>1. offset \in Nat /\ size \in Nat /\ readOffset \in Nat  BY DEF IInv, TypeOK
    <2>2. size <= ChunkSize /\ Aligned(offset)  BY DEF IInv, ChunkInv
    <2>3. OffsetInv  BY DEF IInv
    <2> QED  BY <2>1, <2>2, <2>3, Layout DEF OffsetInv, End
  <1>2. Aligned(offset + ChunkSize)  BY <1>1, Layout, AlignedSum
  <1>3. Alignment <= UIntRange
    <2>1. 0 < UIntRange /\ 0 \in Int /\ UIntRange \in Int /\ 0 + Alignment = Alignment  BY Layout
    <2> QED  BY <2>1, ZeroAligned, Layout, AlignedGap
  <1>4. CASE 0 < u
    <2>1. BytesUnread(readOffset) = u
      BY <1>1, <1>4, Unsigned, Layout DEF BytesUnread
    <2>2. n \in 1..u /\ (~ForcePartialReads => n = u)  BY <1>1, <1>4, <2>1 DEF ReadRequests
    <2>3. CASE Aligned(n)
      <3>1. AlignedLength(n) = n  BY <2>3 DEF AlignedLength, Aligned
      <3> QED  BY <1>1, <1>4, <2>2, <2>3, <3>1, Layout
    <2>4. CASE ~Aligned(n)
      <3> DEFINE d == AlignDown(n)
      <3>1. d \in Int /\ Aligned(d) /\ d < n /\ n < d + Alignment
        BY <2>2, <2>4, AlignDownFacts, RoundUp
      <3>2. AlignedLength(n) = (d + Alignment) % UIntRange  BY <1>1, <2>2, <2>4, RoundUp
      <3> HIDE DEF d
      <3>3. Aligned(readOffset + d)  BY <1>1, <1>4, <3>1, AlignedSum
      <3>4. (readOffset + d) + Alignment <= offset + ChunkSize
        BY <1>1, <1>2, <2>2, <3>1, <3>3, AlignedGap, Layout
      <3>5. AlignedLength(n) = d + Alignment
        BY <1>1, <2>2, <3>1, <3>2, <3>4, Unsigned, Layout
      <3>6. Aligned(d + Alignment)  BY <3>1, UnitAligned, AlignedSum, Layout
      <3> QED  BY <1>1, <1>4, <2>2, <3>1, <3>4, <3>5, <3>6, Layout
    <2> QED  BY <2>3, <2>4
  <1>5. CASE u < 0
    <2>1. BytesUnread(readOffset) = UIntRange + u
      BY <1>1, <1>3, <1>5, Unsigned, Layout DEF BytesUnread
    <2>2. n = UIntRange + u /\ n \in Nat /\ ~ForcePartialReads
      BY <1>1, <1>3, <1>5, <2>1, Layout DEF ReadRequests
    <2>3. n < UIntRange /\ UIntRange < n + Alignment  BY <1>1, <1>5, <2>2, Layout
    <2>4. ~Aligned(n)  BY <2>2, <2>3, AlignedGap, Layout
    <2> DEFINE d == AlignDown(n)
    <2>5. d \in Int /\ Aligned(d) /\ d < n /\ n < d + Alignment
      BY <2>2, <2>4, AlignDownFacts, RoundUp
    <2>6. AlignedLength(n) = (d + Alignment) % UIntRange  BY <2>2, <2>4, RoundUp
    <2> HIDE DEF d
    <2>7. d + Alignment <= UIntRange  BY <2>2, <2>3, <2>5, AlignedGap, Layout
    <2>8. Aligned(d + Alignment)  BY <2>5, UnitAligned, AlignedSum, Layout
    <2>9. ~(d + Alignment < UIntRange)
      <3> SUFFICES ASSUME d + Alignment < UIntRange PROVE FALSE  OBVIOUS
      <3>1. (d + Alignment) + Alignment <= UIntRange  BY <2>5, <2>8, AlignedGap, Layout
      <3> QED  BY <2>2, <2>3, <2>5, <3>1, Layout
    <2>10. AlignedLength(n) = 0  BY <2>5, <2>6, <2>7, <2>9, Unsigned, Layout
    <2> QED  BY <1>1, <1>5, <2>2, <2>10, ZeroAligned, Layout
  <1>6. CASE u = 0
    <2>1. BytesUnread(readOffset) = 0  BY <1>1, <1>6, Unsigned, Layout DEF BytesUnread
    <2> QED  BY <2>1 DEF ReadRequests
  <1> QED  BY <1>1, <1>4, <1>5, <1>6

\* Nothing is left to read only when the read offset is exactly the end of the chunk.
LEMMA NothingToRead ==
    ASSUME IInv, 0 \in ReadRequests
    PROVE  readOffset = End
  <1>1. /\ offset \in Nat /\ size \in Nat /\ readOffset \in Nat /\ size <= ChunkSize
        /\ offset <= readOffset /\ readOffset < End + Alignment
    BY DEF IInv, TypeOK, ChunkInv, OffsetInv
  <1>2. Alignment <= UIntRange
    <2>1. 0 < UIntRange /\ 0 \in Int /\ UIntRange \in Int /\ 0 + Alignment = Alignment  BY Layout
    <2> QED  BY <2>1, ZeroAligned, Layout, AlignedGap
  <1>3. BytesUnread(readOffset) = 0  BY DEF ReadRequests
  <1> QED  BY <1>1, <1>2, <1>3, Unsigned, Layout DEF BytesUnread, End

\* A runner that is ready has no request in flight.
LEMMA ReadyIsQuiet ==
    ASSUME IInv, Ready
    PROVE  /\ rd.st = "idle" /\ wr.st = "idle" /\ jobsRunning = 0 /\ savedError = "none"
           /\ writeOffset < End /\ readOverride = NoOverride /\ writeOverride = NoOverride
           /\ buffer # NoBuffer
  BY DEF Ready, IInv, PhaseInv

\* addToBatch preserves it: the requests it makes match the two offsets.
LEMMA AddToBatchInv ==
    ASSUME IInv, AddToBatch
    PROVE  IInv'
  <1>1. PICK n \in ReadRequests, m \in WriteRequests :
            LET part == ForcePartialReads /\ n < End - readOffset
            IN  /\ rd' = IF n # 0 THEN Sqe("read", readOffset, AlignedLength(n), BufferIndex(readOffset))
                                  ELSE NoSqe
                /\ wr' = IF part THEN Sqe("nop", 0, 0, 0)
                                 ELSE Sqe("write", writeOffset, m, BufferIndex(writeOffset))
                /\ jobsRunning' = (IF n # 0 THEN 1 ELSE 0) + 1
                /\ readOverride' = IF part /\ n # 0 THEN n ELSE NoOverride
                /\ writeOverride' = IF part THEN ECANCELED ELSE NoOverride
    <2>1. Ready /\ SubmitReadWriteCommands  BY DEF AddToBatch
    <2>2. writeOffset < End /\ jobsRunning = 0 /\ readOverride = NoOverride /\ writeOverride = NoOverride
      BY <2>1, ReadyIsQuiet
    <2> QED  BY <2>1, <2>2 DEF SubmitReadWriteCommands
  <1>2. /\ phase' = "running" /\ opened' = TRUE
        /\ UNCHANGED <<offset, size, buffer, bufferAligned, readOffset, writeOffset, savedError,
                       mem, dest, fileSize, minFileSize, resizes, shortIO>>
    BY DEF AddToBatch, chunkVars, bufferVars, envVars
  <1>3. /\ writeOffset < End /\ buffer # NoBuffer /\ savedError = "none"
        /\ rd.st = "idle" /\ wr.st = "idle"
    BY ReadyIsQuiet DEF AddToBatch
  <1> DEFINE part == ForcePartialReads /\ n < End - readOffset
             L == AlignedLength(n)
  <1>4. /\ offset \in Nat /\ size \in Nat /\ End \in Nat
        /\ readOffset \in Nat /\ writeOffset \in Nat
        /\ buffer \in Int /\ bufferAligned \in Int
        /\ BufferIndex(readOffset) \in Int /\ BufferIndex(writeOffset) \in Int
    BY SizesAssumption DEF IInv, TypeOK, End, BufferIndex, NoBuffer
  <1>5. m \in Nat /\ m <= End - writeOffset  BY <1>3, <1>4 DEF WriteRequests
  <1>6. n # 0 => /\ n \in Nat /\ L \in Nat /\ Aligned(L) /\ Aligned(readOffset)
                 /\ readOffset + L <= offset + ChunkSize
                 /\ readOffset + L < End + Alignment
                 /\ ~part => End <= readOffset + L
    BY ReadLength
  <1>7. n = 0 => readOffset = End /\ ~part  BY <1>4, NothingToRead
  <1> HIDE DEF part, L
  <1>8. /\ rd' = IF n # 0 THEN Sqe("read", readOffset, L, BufferIndex(readOffset)) ELSE NoSqe
        /\ wr' = IF part THEN Sqe("nop", 0, 0, 0)
                         ELSE Sqe("write", writeOffset, m, BufferIndex(writeOffset))
        /\ jobsRunning' = (IF n # 0 THEN 1 ELSE 0) + 1
        /\ readOverride' = IF part THEN n ELSE NoOverride
        /\ writeOverride' = IF part THEN ECANCELED ELSE NoOverride
    BY <1>1, <1>7 DEF part, L
  <1>9. BufferIndex(readOffset)' = BufferIndex(readOffset) /\ End' = End
        /\ BufferIndex(writeOffset)' = BufferIndex(writeOffset)
    BY <1>2 DEF BufferIndex, End
  <1>10. TypeOK'
    <2>1. rd' \in Sqes({"read"}) /\ wr' \in Sqes({"write", "nop"})
      BY <1>4, <1>5, <1>6, <1>8 DEF Sqes, Sqe, NoSqe
    <2>2. readOverride' \in Int /\ writeOverride' \in Int /\ jobsRunning' \in 0..2
      BY <1>6, <1>7, <1>8, Layout DEF NoOverride, ECANCELED
    <2> QED  BY <1>2, <2>1, <2>2 DEF IInv, TypeOK
  <1>11. ChunkInv' /\ OffsetInv'  BY <1>2 DEF IInv, ChunkInv, OffsetInv, End
  <1>12. BufferInv'  BY <1>2, <1>3 DEF IInv, BufferInv, Pad
  <1>13. PhaseInv'  BY <1>2, <1>3, <1>7, <1>8 DEF PhaseInv, Sqe, NoSqe
  <1>14. ReadInv'
    BY <1>2, <1>6, <1>7, <1>8, <1>9, Layout DEF ReadInv, Sqe, NoSqe, NoOverride
  <1>15. WriteInv'
    BY <1>2, <1>4, <1>5, <1>7, <1>8, <1>9 DEF WriteInv, ReadDone, Sqe, NoSqe
  <1>16. DataInv'
    BY <1>2, <1>8 DEF IInv, DataInv, FilledTo, BufferIndex, End, Sqe, NoSqe
  <1>17. CopiedBytesAreRight' /\ OnlyRightBytesWritten'
    BY <1>2 DEF IInv, CopiedBytesAreRight, OnlyRightBytesWritten, End
  <1> QED
    BY <1>10, <1>11, <1>12, <1>13, <1>14, <1>15, <1>16, <1>17 DEF IInv

\* A failed open preserves it: nothing was submitted.
LEMMA AddToBatchOpenErrorInv ==
    ASSUME IInv, AddToBatchOpenError
    PROVE  IInv'
  <1>1. /\ phase' = "failed" /\ buffer # NoBuffer
        /\ rd.st = "idle" /\ wr.st = "idle"
        /\ UNCHANGED <<offset, size, buffer, bufferAligned, readOffset, writeOffset, jobsRunning,
                       savedError, opened, readOverride, writeOverride, rd, wr,
                       mem, dest, fileSize, minFileSize, resizes, shortIO>>
    BY ReadyIsQuiet DEF AddToBatchOpenError, chunkVars, bufferVars, overrideVars, envVars
  <1>2. TypeOK'  BY <1>1 DEF IInv, TypeOK
  <1>3. ChunkInv' /\ BufferInv' /\ OffsetInv'
    BY <1>1 DEF IInv, ChunkInv, BufferInv, OffsetInv, End, Pad
  <1>4. PhaseInv'  BY <1>1 DEF IInv, PhaseInv
  <1>5. ReadInv' /\ WriteInv'  BY <1>1 DEF IInv, ReadInv, WriteInv
  <1>6. DataInv'  BY <1>1 DEF IInv, DataInv, FilledTo, BufferIndex, End
  <1>7. CopiedBytesAreRight' /\ OnlyRightBytesWritten'
    BY <1>1 DEF IInv, CopiedBytesAreRight, OnlyRightBytesWritten, End
  <1> QED  BY <1>2, <1>3, <1>4, <1>5, <1>6, <1>7 DEF IInv

\* Another process resizing the source file preserves it.
LEMMA ResizeSourceInv ==
    ASSUME IInv, NEW n \in FileSizes, ResizeSource(n)
    PROVE  IInv'
  <1>1. /\ fileSize' = n /\ n \in Nat
        /\ minFileSize' = (IF n < minFileSize THEN n ELSE minFileSize) /\ resizes' = resizes + 1
        /\ UNCHANGED <<offset, size, buffer, bufferAligned, readOffset, writeOffset, jobsRunning,
                       savedError, phase, opened, readOverride, writeOverride, rd, wr,
                       mem, dest, shortIO>>
    BY SizesAssumption DEF ResizeSource, chunkVars, bufferVars, overrideVars, runnerVars
  <1>2. TypeOK'  BY <1>1 DEF IInv, TypeOK
  <1>3. ChunkInv' /\ BufferInv' /\ PhaseInv'
    BY <1>1 DEF IInv, ChunkInv, BufferInv, PhaseInv, End, Pad
  <1>4. OffsetInv'  BY <1>1, ModesAssumption DEF IInv, OffsetInv, End
  <1>5. ReadInv' /\ WriteInv'
    BY <1>1 DEF IInv, ReadInv, WriteInv, ReadDone, FilledTo, BufferIndex, End
  <1>6. DataInv'  BY <1>1 DEF IInv, DataInv, FilledTo, BufferIndex, End
  <1>7. CopiedBytesAreRight' /\ OnlyRightBytesWritten'
    BY <1>1 DEF IInv, CopiedBytesAreRight, OnlyRightBytesWritten, End
  <1> QED  BY <1>2, <1>3, <1>4, <1>5, <1>6, <1>7 DEF IInv

-----------------------------------------------------------------------------
(* The kernel.                                                             *)

\* The kernel's read preserves it: what it fills are the file's bytes.
LEMMA KernelReadInv ==
    ASSUME IInv, KernelRead
    PROVE  IInv'
  <1>1. PICK n \in {EIO} \cup (IF Available(rd) = 0 THEN {0} ELSE 1..Available(rd)) :
            /\ shortIO' = IF n \in 1..(Available(rd) - 1) THEN shortIO + 1 ELSE shortIO
            /\ mem' = [i \in DOMAIN mem |-> IF i \in rd.buf..(rd.buf + n - 1)
                                            THEN rd.at + i - rd.buf ELSE mem[i]]
            /\ rd' = Posted(rd, n)
            /\ wr' = IF n # rd.len /\ wr.st = "submitted" THEN Posted(wr, ECANCELED) ELSE wr
    BY DEF KernelRead
  <1>2. /\ rd.st = "submitted"
        /\ UNCHANGED <<offset, size, buffer, bufferAligned, readOffset, writeOffset, jobsRunning,
                       savedError, phase, opened, readOverride, writeOverride,
                       dest, fileSize, minFileSize, resizes>>
    BY DEF KernelRead, chunkVars, bufferVars, overrideVars, runnerVars, envVars
  <1>3. /\ TypeOK /\ wr.st = "submitted" /\ phase = "running"
        /\ wr.st # "idle" /\ rd.st # "idle"
    BY <1>2 DEF IInv, PhaseInv
  <1>4. /\ offset \in Nat /\ readOffset \in Nat /\ writeOffset \in Nat /\ size \in Nat /\ End \in Nat
        /\ fileSize \in Nat /\ rd.at \in Nat /\ rd.len \in Nat /\ rd.buf \in Int
        /\ rd \in Sqes({"read"}) /\ wr \in Sqes({"write", "nop"})
        /\ mem \in [0..(BlockSize - 1) -> Int]
        /\ bufferAligned \in Int /\ buffer \in Int /\ wr.len \in Nat
    BY <1>3, SizesAssumption DEF TypeOK, Sqes, End, NoBuffer
  <1>5. /\ rd.at = readOffset /\ rd.buf = BufferIndex(readOffset) /\ Aligned(readOffset)
        /\ Aligned(rd.len) /\ rd.at + rd.len <= offset + ChunkSize
        /\ rd.at + rd.len < End + Alignment
        /\ wr.op = "write" => End <= rd.at + rd.len /\ readOverride = NoOverride
        /\ readOverride > 0
    BY <1>2 DEF IInv, ReadInv
  <1>6. /\ n \in Int /\ -1 <= n /\ n <= rd.len
        /\ n > 0 => n <= fileSize - rd.at
    BY <1>4 DEF Available, EIO
  <1>7. rd' = [rd EXCEPT !.st = "posted", !.res = n]  BY <1>1 DEF Posted
  <1>8. wr' = IF n # rd.len THEN [wr EXCEPT !.st = "posted", !.res = ECANCELED] ELSE wr
    BY <1>1, <1>3 DEF Posted
  <1>9. /\ offset <= readOffset /\ readOffset <= offset + ChunkSize /\ End <= StatSize
        /\ ForcePartialReads => readOffset <= End /\ fileSize <= StatSize
        /\ 0 <= Pad /\ Pad + ChunkSize <= BlockSize
    BY <1>3 DEF IInv, ChunkInv, OffsetInv, BufferInv
  <1>10. \A p \in offset..(readOffset + n - 1) : mem'[BufferIndex(p)] = p
    <2> TAKE p \in offset..(readOffset + n - 1)
    <2>1. p \in Nat /\ p <= offset + ChunkSize - 1 /\ p <= readOffset + n - 1
      BY <1>4, <1>5, <1>6, <1>9, Layout
    <2>2. BufferIndex(p) \in DOMAIN mem
      BY <1>4, <1>9, <2>1, Layout, SizesAssumption DEF BufferIndex, Pad
    <2>3. CASE p < readOffset
      <3>1. mem[BufferIndex(p)] = p  BY <1>4, <2>1, <2>3 DEF IInv, DataInv, FilledTo
      <3>2. BufferIndex(p) < rd.buf  BY <1>4, <1>5, <2>1, <2>3 DEF BufferIndex
      <3> QED  BY <1>1, <1>4, <1>6, <2>2, <3>1, <3>2
    <2>4. CASE p >= readOffset
      <3>1. BufferIndex(p) - rd.buf = p - rd.at  BY <1>4, <1>5, <2>1 DEF BufferIndex
      <3>2. BufferIndex(p) \in rd.buf..(rd.buf + n - 1)
        BY <1>4, <1>5, <1>6, <2>1, <2>2, <2>4, <3>1
      <3>3. rd.at + BufferIndex(p) - rd.buf = p  BY <1>4, <2>1, <2>2, <3>1
      <3> QED  BY <1>1, <2>2, <3>2, <3>3
    <2> QED  BY <1>4, <2>1, <2>3, <2>4
  <1>11. \A p \in offset..(readOffset - 1) : mem'[BufferIndex(p)] = p
    <2> TAKE p \in offset..(readOffset - 1)
    <2>1. CASE n >= 0  BY <1>4, <1>6, <1>10, <2>1
    <2>2. CASE n < 0
      <3>1. mem' = mem  BY <1>1, <1>4, <1>6, <2>2
      <3> QED  BY <3>1 DEF IInv, DataInv, FilledTo
    <2> QED  BY <1>6, <2>1, <2>2
  <1>12. TypeOK'
    <2>1. mem' \in [0..(BlockSize - 1) -> Int]  BY <1>1, <1>4
    <2>2. rd' \in Sqes({"read"})  BY <1>4, <1>6, <1>7 DEF Sqes
    <2>4. wr' \in Sqes({"write", "nop"})
      <3>1. ECANCELED \in Int  BY DEF ECANCELED
      <3> QED  BY <1>4, <1>8, <3>1 DEF Sqes
    <2>3. shortIO' \in Nat  BY <1>1, <1>3 DEF TypeOK
    <2> QED  BY <1>2, <1>3, <2>1, <2>2, <2>3, <2>4 DEF TypeOK
  <1>13. ChunkInv' /\ BufferInv' /\ OffsetInv'
    BY <1>2 DEF IInv, ChunkInv, BufferInv, OffsetInv, End, Pad
  <1>14. /\ rd'.st = "posted" /\ rd'.res = n /\ rd'.at = rd.at /\ rd'.len = rd.len
         /\ rd'.buf = rd.buf /\ wr'.st # "idle" /\ wr'.op = wr.op /\ wr'.len = wr.len
         /\ wr'.at = wr.at /\ wr'.buf = wr.buf
         /\ n # rd.len => wr'.st = "posted" /\ wr'.res = ECANCELED
         /\ n = rd.len => wr'.st = "submitted" /\ wr'.res = wr.res
    BY <1>3, <1>4, <1>7, <1>8 DEF Sqes
  <1>15. PhaseInv'
    BY <1>2, <1>3, <1>14 DEF IInv, PhaseInv
  <1>16. ReadInv'
    <2>1. FilledTo(rd.at + rd.res)'
      <3>1. rd'.at = readOffset /\ rd'.res = n  BY <1>5, <1>14
      <3> QED  BY <1>2, <1>4, <1>6, <1>10, <3>1 DEF FilledTo, BufferIndex
    <2>2. ForcePartialReads => rd.at + n <= StatSize
      BY <1>4, <1>5, <1>6, <1>9, Layout
    <2>3. BufferIndex(readOffset)' = BufferIndex(readOffset) /\ End' = End
      BY <1>2 DEF BufferIndex, End
    <2> QED  BY <1>2, <1>5, <1>6, <1>14, <2>1, <2>2, <2>3 DEF ReadInv
  <1>17. WriteInv'
    <2>1. BufferIndex(writeOffset)' = BufferIndex(writeOffset) /\ End' = End
      BY <1>2 DEF BufferIndex, End
    <2> QED
      BY <1>2, <1>3, <1>4, <1>14, <2>1 DEF IInv, WriteInv, ReadDone, ECANCELED
  <1>18. DataInv'
    <2>1. FilledTo(readOffset)'  BY <1>2, <1>11 DEF FilledTo, BufferIndex
    <2>2. wr'.st = "posted" => wr'.res = -2  BY <1>14 DEF ECANCELED
    <2> QED  BY <1>2, <1>4, <2>1, <2>2 DEF DataInv
  <1>19. CopiedBytesAreRight' /\ OnlyRightBytesWritten'
    BY <1>2 DEF IInv, CopiedBytesAreRight, OnlyRightBytesWritten, End
  <1> QED
    BY <1>12, <1>13, <1>15, <1>16, <1>17, <1>18, <1>19 DEF IInv

\* The kernel's write preserves it: it only runs when the chunk is in the block.
LEMMA KernelWriteInv ==
    ASSUME IInv, KernelWrite
    PROVE  IInv'
  <1>1. PICK n \in IF wr.len = 0 THEN {0} ELSE {EIO} \cup 1..wr.len :
            /\ shortIO' = IF n \in 1..(wr.len - 1) THEN shortIO + 1 ELSE shortIO
            /\ dest' = [p \in DOMAIN dest |-> IF p \in wr.at..(wr.at + n - 1)
                                              THEN mem[wr.buf + p - wr.at] ELSE dest[p]]
            /\ wr' = Posted(wr, n)
    BY DEF KernelWrite
  <1>2. /\ wr.st = "submitted" /\ rd.st # "submitted"
        /\ UNCHANGED <<offset, size, buffer, bufferAligned, readOffset, writeOffset, jobsRunning,
                       savedError, phase, opened, readOverride, writeOverride,
                       rd, mem, fileSize, minFileSize, resizes>>
    BY DEF KernelWrite, chunkVars, bufferVars, overrideVars, runnerVars, envVars
  <1>3. TypeOK /\ phase = "running"  BY <1>2 DEF IInv, PhaseInv
  <1>4. /\ offset \in Nat /\ readOffset \in Nat /\ writeOffset \in Nat /\ size \in Nat /\ End \in Nat
        /\ wr \in Sqes({"write", "nop"}) /\ rd \in Sqes({"read"})
        /\ wr.at \in Nat /\ wr.len \in Nat /\ wr.buf \in Int
        /\ rd.len \in Nat /\ rd.at \in Nat
        /\ mem \in [0..(BlockSize - 1) -> Int] /\ dest \in [0..(StatSize - 1) -> Int]
        /\ bufferAligned \in Int /\ buffer \in Int
    BY <1>3, SizesAssumption DEF TypeOK, Sqes, End, NoBuffer
  <1>5. n \in Int /\ -1 <= n /\ n <= wr.len  BY <1>4 DEF EIO
  <1>6. /\ wr'.st = "posted" /\ wr'.res = n /\ wr'.op = wr.op /\ wr'.at = wr.at
        /\ wr'.len = wr.len /\ wr'.buf = wr.buf /\ wr' \in Sqes({"write", "nop"})
    BY <1>1, <1>4, <1>5 DEF Posted, Sqes
  <1>7. /\ offset <= writeOffset /\ writeOffset <= End /\ End <= offset + ChunkSize
        /\ End <= StatSize /\ 0 <= Pad /\ Pad + ChunkSize <= BlockSize
    BY <1>3, <1>4, Layout DEF IInv, ChunkInv, OffsetInv, BufferInv, End
  <1>8. /\ wr.op = "write" => /\ wr.at = writeOffset /\ wr.buf = BufferIndex(writeOffset)
                              /\ wr.len <= End - writeOffset /\ ReadDone
                              /\ writeOverride = NoOverride
        /\ wr.op # "write" => wr.len = 0 /\ n = 0 /\ wr.buf = 0
        /\ wr.op # "none"
    BY <1>1, <1>2 DEF IInv, WriteInv
  <1>9. /\ \A p \in writeOffset..(writeOffset + n - 1) : dest'[p] = p
        /\ dest' \in [0..(StatSize - 1) -> Int]
        /\ CopiedBytesAreRight' /\ OnlyRightBytesWritten'
    <2>1. CASE wr.op = "write"
      <3>1. /\ wr.at = writeOffset /\ wr.buf = BufferIndex(writeOffset)
            /\ wr.len <= End - writeOffset /\ ReadDone
        BY <1>2, <2>1 DEF IInv, WriteInv
      <3>2. FilledTo(End)
        <4>1. CASE rd.st = "idle" /\ End <= readOffset
          BY <1>4, <4>1 DEF IInv, DataInv, FilledTo
        <4>2. CASE rd.st = "posted" /\ rd.res = rd.len
          <5>1. FilledTo(rd.at + rd.len) /\ End <= rd.at + rd.len
            BY <2>1, <4>2 DEF IInv, ReadInv
          <5> QED  BY <1>4, <5>1 DEF FilledTo
        <4> QED  BY <3>1, <4>1, <4>2 DEF ReadDone
      <3>3. \A p \in DOMAIN dest : p \in wr.at..(wr.at + n - 1) =>
               dest'[p] = p /\ p \in offset..(End - 1)
        <4> SUFFICES ASSUME NEW p \in DOMAIN dest, p \in wr.at..(wr.at + n - 1)
                     PROVE  dest'[p] = p /\ p \in offset..(End - 1)
          OBVIOUS
        <4>1. p \in offset..(End - 1)  BY <1>4, <1>5, <1>7, <3>1
        <4>2. wr.buf + p - wr.at = BufferIndex(p)  BY <1>4, <3>1, <4>1 DEF BufferIndex
        <4>3. mem[BufferIndex(p)] = p  BY <3>2, <4>1 DEF FilledTo
        <4> QED  BY <1>1, <4>1, <4>2, <4>3
      <3>4. \A p \in DOMAIN dest : p \notin wr.at..(wr.at + n - 1) => dest'[p] = dest[p]
        BY <1>1
      <3>5. DOMAIN dest' = DOMAIN dest /\ DOMAIN dest = 0..(StatSize - 1)  BY <1>1, <1>4
      <3>6. \A p \in writeOffset..(writeOffset + n - 1) : dest'[p] = p
        BY <1>4, <1>5, <1>7, <3>1, <3>3, <3>5, Layout
      <3>7. dest' \in [0..(StatSize - 1) -> Int]
        <4>1. \A p \in 0..(StatSize - 1) : dest'[p] \in Int
          BY <1>4, <3>3, <3>4, <3>5, Layout
        <4>2. dest' = [p \in 0..(StatSize - 1) |-> dest'[p]]  BY <1>1, <3>5
        <4> QED  BY <4>1, <4>2
      <3>8. CopiedBytesAreRight'
        <4> SUFFICES ASSUME NEW p \in offset..(writeOffset - 1) PROVE dest'[p] = p
          BY <1>2 DEF CopiedBytesAreRight
        <4>1. p \in DOMAIN dest /\ p \notin wr.at..(wr.at + n - 1)
          BY <1>4, <1>7, <3>1, <3>5, Layout
        <4>2. dest[p] = p  BY DEF IInv, CopiedBytesAreRight
        <4> QED  BY <3>4, <4>1, <4>2
      <3>9. OnlyRightBytesWritten'
        BY <1>2, <3>3, <3>4, <3>5 DEF IInv, OnlyRightBytesWritten, End
      <3> QED  BY <3>6, <3>7, <3>8, <3>9
    <2>2. CASE wr.op # "write"
      <3>1. n = 0  BY <1>8, <2>2
      <3>2. dest' = dest  BY <1>1, <1>4, <3>1
      <3> QED
        BY <1>2, <1>4, <3>1, <3>2 DEF IInv, CopiedBytesAreRight, OnlyRightBytesWritten, End
    <2> QED  BY <2>1, <2>2
  <1>10. TypeOK'
    <2>1. shortIO' \in Nat  BY <1>1, <1>3 DEF TypeOK
    <2> QED  BY <1>2, <1>3, <1>6, <1>9, <2>1 DEF TypeOK
  <1>11. ChunkInv' /\ BufferInv' /\ OffsetInv'
    BY <1>2 DEF IInv, ChunkInv, BufferInv, OffsetInv, End, Pad
  <1>12. PhaseInv'  BY <1>2, <1>3, <1>6 DEF IInv, PhaseInv
  <1>13. ReadInv'
    BY <1>2, <1>6 DEF IInv, ReadInv, FilledTo, BufferIndex, End
  <1>14. WriteInv'
    <2>1. BufferIndex(writeOffset)' = BufferIndex(writeOffset) /\ End' = End
      BY <1>2 DEF BufferIndex, End
    <2>2. wr.op = "write" => ReadDone'
      BY <1>2, <1>8, <2>1 DEF ReadDone
    <2> QED  BY <1>2, <1>4, <1>5, <1>6, <1>8, <2>1, <2>2 DEF WriteInv
  <1>15. DataInv'
    BY <1>2, <1>6, <1>9 DEF IInv, DataInv, FilledTo, BufferIndex
  <1> QED
    BY <1>9, <1>10, <1>11, <1>12, <1>13, <1>14, <1>15 DEF IInv

-----------------------------------------------------------------------------
(* Completion.                                                             *)

\* Where a read that transferred r bytes leaves the read offset: not before the place it
\* started from, not after the last byte read, and at the last byte read if that was the
\* end of the request.
LEMMA ReadOffsetAfterFacts ==
    ASSUME IInv, rd.st # "idle", NEW r \in Nat, r <= rd.len
    PROVE  LET x == ReadOffsetAfter(r)
           IN  /\ x \in Nat /\ readOffset <= x /\ x <= readOffset + r
               /\ x # End => Aligned(x)
               /\ r = rd.len => x = readOffset + r
  <1> DEFINE y == readOffset + r
  <1>1. /\ offset \in Nat /\ size \in Nat /\ End \in Nat /\ readOffset \in Nat /\ rd.len \in Nat
        /\ y \in Nat /\ size <= ChunkSize /\ offset <= readOffset
    BY DEF IInv, TypeOK, Sqes, ChunkInv, OffsetInv, End
  <1>2. Aligned(readOffset) /\ Aligned(rd.len) /\ readOffset + rd.len < End + Alignment
    BY DEF IInv, ReadInv
  <1>3. Alignment <= UIntRange
    <2>1. 0 < UIntRange /\ 0 \in Int /\ UIntRange \in Int /\ 0 + Alignment = Alignment  BY Layout
    <2> QED  BY <2>1, ZeroAligned, Layout, AlignedGap
  <1>4. CASE BytesUnread(y) = 0
    <2>1. y = End  BY <1>1, <1>2, <1>3, <1>4, Unsigned, Layout DEF BytesUnread, End
    <2>2. ReadOffsetAfter(r) = y  BY <1>4 DEF ReadOffsetAfter
    <2> QED  BY <1>1, <2>1, <2>2
  <1>5. CASE BytesUnread(y) # 0
    <2> DEFINE d == AlignDown(y)
    <2>1. d \in Int /\ Aligned(d) /\ d <= y /\ y < d + Alignment /\ (Aligned(y) => d = y)
      BY <1>1, AlignDownFacts
    <2>2. ReadOffsetAfter(r) = d  BY <1>5 DEF ReadOffsetAfter
    <2> HIDE DEF d
    <2>3. ~(d < readOffset)
      <3> SUFFICES ASSUME d < readOffset PROVE FALSE  OBVIOUS
      <3>1. d + Alignment <= readOffset  BY <1>1, <1>2, <2>1, AlignedGap
      <3> QED  BY <1>1, <2>1, <3>1, Layout
    <2>4. r = rd.len => Aligned(y)
      <3>1. readOffset \in Int /\ rd.len \in Int  BY <1>1
      <3>2. Aligned(readOffset + rd.len)  BY <1>2, <3>1, AlignedSum
      <3> QED  BY <3>2
    <2> QED  BY <1>1, <2>1, <2>2, <2>3, <2>4
  <1> QED  BY <1>4, <1>5

\* onCompletionEvent for the read preserves it, also when it steps back to an aligned offset.
LEMMA OnReadEventInv ==
    ASSUME IInv, OnReadEvent
    PROVE  IInv'
  <1> DEFINE r == Spoofed(rd.res, readOverride)
  <1>1. rd.st = "posted" /\ rd.st # "idle"  BY DEF OnReadEvent
  <1>2. /\ savedError = "none" /\ wr.st # "idle" /\ phase = "running" /\ jobsRunning = 2
    BY <1>1 DEF IInv, PhaseInv
  <1>3. /\ rd' = NoSqe /\ jobsRunning' = 1 /\ phase' = "running"
        /\ savedError' = (IF r = 0 THEN "shrank" ELSE IF r < 0 THEN "read" ELSE "none")
        /\ readOffset' = IF r >= 0 THEN ReadOffsetAfter(r) ELSE readOffset
        /\ readOverride' = NoOverride
        /\ UNCHANGED <<offset, size, buffer, bufferAligned, writeOffset, opened, writeOverride,
                       wr, mem, dest, fileSize, minFileSize, resizes, shortIO>>
    BY <1>1, <1>2 DEF OnReadEvent, RunnerResult, chunkVars, bufferVars, envVars
  <1>4. /\ offset \in Nat /\ size \in Nat /\ End \in Nat /\ readOffset \in Nat /\ writeOffset \in Nat
        /\ rd.len \in Nat /\ rd.at \in Nat /\ rd.res \in Int /\ readOverride \in Int
    BY DEF IInv, TypeOK, Sqes, End
  <1>5. /\ rd.at = readOffset /\ rd.at + rd.len <= offset + ChunkSize
        /\ rd.at + rd.len < End + Alignment /\ readOverride > 0
        /\ wr.op = "write" => End <= rd.at + rd.len /\ readOverride = NoOverride
        /\ rd.res <= rd.len /\ FilledTo(rd.at + rd.res)
        /\ ForcePartialReads => rd.at + rd.res <= StatSize
    BY <1>1 DEF IInv, ReadInv
  <1>6. r \in Int /\ r <= rd.res /\ (wr.op = "write" => r = rd.res)
    BY <1>4, <1>5 DEF Spoofed
  <1> HIDE DEF r
  <1>7. r >= 0 => /\ readOffset' \in Nat /\ readOffset <= readOffset'
                  /\ readOffset' <= readOffset + r
                  /\ readOffset' # End => Aligned(readOffset')
                  /\ r = rd.len => readOffset' = readOffset + r
    BY <1>1, <1>3, <1>4, <1>5, <1>6, ReadOffsetAfterFacts
  <1>8. r < 0 => readOffset' = readOffset  BY <1>3, <1>6
  <1>9. /\ size <= ChunkSize /\ End <= StatSize /\ OffsetInv
        /\ size = ChunkSize \/ End = StatSize
    BY DEF IInv, ChunkInv
  <1>10. TypeOK'
    <2>1. readOffset' \in Nat  BY <1>4, <1>6, <1>7, <1>8
    <2>2. rd' \in Sqes({"read"})  BY <1>3 DEF Sqes, NoSqe
    <2>3. readOverride' \in Int  BY <1>3, Layout DEF NoOverride
    <2> QED  BY <1>3, <2>1, <2>2, <2>3 DEF IInv, TypeOK
  <1>11. ChunkInv' /\ BufferInv'
    BY <1>2, <1>3 DEF IInv, ChunkInv, BufferInv, End, Pad
  <1>12. OffsetInv'
    <2>1. CASE r >= 0
      <3>1. ForcePartialReads => readOffset' <= End
        BY <1>4, <1>5, <1>6, <1>7, <1>9, <2>1, Layout DEF End
      <3>2. readOffset' <= offset + ChunkSize /\ readOffset' < End + Alignment /\ offset <= readOffset'
        BY <1>4, <1>5, <1>6, <1>7, <1>9, <2>1, Layout DEF OffsetInv
      <3>3. offset < writeOffset => End <= readOffset'
        BY <1>4, <1>7, <1>9, <2>1 DEF OffsetInv
      <3> QED  BY <1>3, <1>7, <1>9, <2>1, <3>1, <3>2, <3>3 DEF OffsetInv, End
    <2>2. CASE r < 0  BY <1>3, <1>8, <1>9, <2>2 DEF OffsetInv, End
    <2> QED  BY <1>6, <2>1, <2>2
  <1>13. PhaseInv'  BY <1>2, <1>3 DEF PhaseInv, NoSqe
  <1>14. ReadInv'  BY <1>3 DEF ReadInv, NoSqe
  <1>15. WriteInv'
    <2>1. wr.op = "write" /\ ReadDone => ReadDone'
      <3> SUFFICES ASSUME wr.op = "write", ReadDone PROVE ReadDone'  OBVIOUS
      <3>1. rd.res = rd.len  BY <1>1 DEF ReadDone
      <3>2. readOffset' = readOffset + rd.len  BY <1>4, <1>6, <1>7, <3>1
      <3>3. End <= readOffset'  BY <1>5, <3>2
      <3> QED  BY <1>3, <3>3 DEF ReadDone, NoSqe, End
    <2>2. BufferIndex(writeOffset)' = BufferIndex(writeOffset) /\ End' = End
      BY <1>3 DEF BufferIndex, End
    <2> QED  BY <1>1, <1>3, <2>1, <2>2 DEF IInv, WriteInv
  <1>16. DataInv'
    <2>1. FilledTo(readOffset) /\ FilledTo(rd.at + rd.res)  BY <1>5 DEF IInv, DataInv
    <2>2. \A p \in offset..(readOffset' - 1) : mem[BufferIndex(p)] = p
      <3>1. CASE r >= 0  BY <1>4, <1>5, <1>6, <1>7, <2>1, <3>1 DEF FilledTo
      <3>2. CASE r < 0  BY <1>8, <2>1, <3>2 DEF FilledTo
      <3> QED  BY <1>6, <3>1, <3>2
    <2>3. FilledTo(readOffset)'  BY <1>3, <2>2 DEF FilledTo, BufferIndex
    <2> QED  BY <1>3, <2>3 DEF IInv, DataInv
  <1>17. CopiedBytesAreRight' /\ OnlyRightBytesWritten'
    BY <1>3 DEF IInv, CopiedBytesAreRight, OnlyRightBytesWritten, End
  <1> QED
    BY <1>10, <1>11, <1>12, <1>13, <1>14, <1>15, <1>16, <1>17 DEF IInv

\* onCompletionEvent for the write preserves it: it counts only bytes that were written.
LEMMA OnWriteEventInv ==
    ASSUME IInv, OnWriteEvent
    PROVE  IInv'
  <1> DEFINE r == Spoofed(wr.res, writeOverride)
             handled == savedError = "none"
  <1>1. wr.st = "posted" /\ rd.st = "idle"  BY DEF OnWriteEvent
  <1>2. phase = "running" /\ jobsRunning = 1 /\ readOverride = NoOverride
    BY <1>1 DEF IInv, PhaseInv
  <1>3. /\ wr' = NoSqe /\ jobsRunning' = 0
        /\ savedError' = (IF handled /\ r < 0 /\ r # ECANCELED THEN "write" ELSE savedError)
        /\ writeOffset' = (IF handled /\ r >= 0 THEN writeOffset + r ELSE writeOffset)
        /\ writeOverride' = (IF handled THEN NoOverride ELSE writeOverride)
        /\ phase' = (IF savedError' # "none" THEN "failed"
                     ELSE IF writeOffset' = End THEN "finished" ELSE "pendingContinue")
        /\ UNCHANGED <<offset, size, buffer, bufferAligned, readOffset, opened, readOverride,
                       rd, mem, dest, fileSize, minFileSize, resizes, shortIO>>
    BY <1>1, <1>2 DEF OnWriteEvent, RunnerResult, chunkVars, bufferVars, envVars
  <1>4. /\ offset \in Nat /\ size \in Nat /\ End \in Nat /\ readOffset \in Nat /\ writeOffset \in Nat
        /\ wr.len \in Nat /\ wr.res \in Int /\ writeOverride \in Int
    BY DEF IInv, TypeOK, Sqes, End
  <1>5. /\ wr.op = "write" => /\ wr.len <= End - writeOffset /\ writeOverride = NoOverride
                              /\ wr.res >= 0 => ReadDone
        /\ wr.op # "write" => wr.res <= 0
        /\ wr.res <= wr.len
    BY <1>1 DEF IInv, WriteInv
  <1>6. r > 0 => wr.op = "write" /\ r = wr.res
    BY <1>4, <1>5 DEF Spoofed
  <1>7. writeOffset <= End /\ offset <= writeOffset  BY DEF IInv, OffsetInv
  <1> HIDE DEF r
  <1>8. r \in Int  BY <1>4 DEF r, Spoofed
  <1>9. /\ writeOffset' \in Nat /\ writeOffset <= writeOffset' /\ writeOffset' <= End
        /\ writeOffset' # writeOffset => writeOffset' = writeOffset + wr.res /\ End <= readOffset
    <2>1. CASE handled /\ r > 0
      <3>1. End <= readOffset  BY <1>1, <1>4, <1>5, <1>6, <2>1 DEF ReadDone
      <3> QED  BY <1>3, <1>4, <1>5, <1>6, <1>7, <1>8, <2>1, <3>1
    <2>2. CASE ~(handled /\ r > 0)
      <3>1. writeOffset' = writeOffset  BY <1>3, <1>4, <1>8, <2>2
      <3> QED  BY <1>4, <1>7, <3>1
    <2> QED  BY <2>1, <2>2
  <1> HIDE DEF handled
  <1>10. /\ savedError' = "none" => savedError = "none" /\ handled
         /\ savedError' \in {"none", "shrank", "read", "write"}
    BY <1>3 DEF handled, IInv, TypeOK
  <1>11. TypeOK'
    <2>1. wr' \in Sqes({"write", "nop"})  BY <1>3 DEF Sqes, NoSqe
    <2>2. writeOverride' \in Int  BY <1>3, <1>4, Layout DEF NoOverride
    <2> QED  BY <1>3, <1>9, <1>10, <2>1, <2>2 DEF IInv, TypeOK
  <1>12. ChunkInv' /\ BufferInv'
    BY <1>2, <1>3 DEF IInv, ChunkInv, BufferInv, End, Pad
  <1>13. OffsetInv'
    <2>1. OffsetInv  BY DEF IInv
    <2>2. offset < writeOffset' => End <= readOffset
      BY <1>4, <1>9, <2>1 DEF OffsetInv
    <2> QED  BY <1>3, <1>4, <1>9, <2>1, <2>2 DEF OffsetInv, End
  <1>14. PhaseInv'
    <2>1. phase' = "pendingContinue" =>
            /\ savedError' = "none" /\ writeOffset' < End
            /\ readOverride' = NoOverride /\ writeOverride' = NoOverride
      BY <1>2, <1>3, <1>4, <1>9, <1>10
    <2> QED  BY <1>1, <1>2, <1>3, <2>1 DEF PhaseInv, NoSqe, End
  <1>15. ReadInv'  BY <1>1, <1>3 DEF ReadInv
  <1>16. WriteInv'  BY <1>3 DEF WriteInv, NoSqe
  <1>17. DataInv'
    BY <1>3 DEF IInv, DataInv, FilledTo, BufferIndex, NoSqe
  <1>18. CopiedBytesAreRight'
    <2>1. \A p \in writeOffset..(writeOffset + wr.res - 1) : dest[p] = p
      BY <1>1 DEF IInv, DataInv
    <2>2. \A p \in offset..(writeOffset - 1) : dest[p] = p
      BY DEF IInv, CopiedBytesAreRight
    <2>3. \A p \in offset..(writeOffset' - 1) : dest[p] = p
      <3>1. CASE writeOffset' = writeOffset  BY <2>2, <3>1
      <3>2. CASE writeOffset' = writeOffset + wr.res
        <4> TAKE p \in offset..(writeOffset' - 1)
        <4>1. \/ p \in offset..(writeOffset - 1)
              \/ p \in writeOffset..(writeOffset + wr.res - 1)
          BY <1>4, <1>7, <3>2
        <4> QED  BY <2>1, <2>2, <4>1
      <3> QED  BY <1>9, <3>1, <3>2
    <2> QED  BY <1>3, <2>3 DEF CopiedBytesAreRight
  <1>19. OnlyRightBytesWritten'
    BY <1>3 DEF IInv, OnlyRightBytesWritten, End
  <1> QED
    BY <1>11, <1>12, <1>13, <1>14, <1>15, <1>16, <1>17, <1>18, <1>19 DEF IInv

-----------------------------------------------------------------------------
(* The theorems.                                                           *)

\* A step that changes nothing preserves it.
LEMMA StutterInv ==
    ASSUME IInv, UNCHANGED vars
    PROVE  IInv'
  <1>1. UNCHANGED <<offset, size, buffer, bufferAligned, readOffset, writeOffset, jobsRunning,
                    savedError, phase, opened, readOverride, writeOverride, rd, wr,
                    mem, dest, fileSize, minFileSize, resizes, shortIO>>
    BY DEF vars, chunkVars, bufferVars, overrideVars, runnerVars, envVars
  <1>2. TypeOK'  BY <1>1 DEF IInv, TypeOK
  <1>3. ChunkInv' /\ BufferInv' /\ OffsetInv' /\ PhaseInv'
    BY <1>1 DEF IInv, ChunkInv, BufferInv, OffsetInv, PhaseInv, End, Pad
  <1>4. ReadInv' /\ WriteInv'
    BY <1>1 DEF IInv, ReadInv, WriteInv, ReadDone, FilledTo, BufferIndex, End
  <1>5. DataInv'  BY <1>1 DEF IInv, DataInv, FilledTo, BufferIndex
  <1>6. CopiedBytesAreRight' /\ OnlyRightBytesWritten'
    BY <1>1 DEF IInv, CopiedBytesAreRight, OnlyRightBytesWritten, End
  <1> QED  BY <1>2, <1>3, <1>4, <1>5, <1>6 DEF IInv

\* The invariant is inductive: every behaviour of the runner, the kernel and the processes
\* that resize the source file keeps it.
THEOREM Inductive == Spec => []IInv
  <1>1. Init => IInv  BY InitInv
  <1>2. IInv /\ [Next]_vars => IInv'
    <2> SUFFICES ASSUME IInv, [Next]_vars PROVE IInv'  OBVIOUS
    <2>1. CASE \E a \in BlockAddresses : GiveBuffer(a)  BY <2>1, GiveBufferInv
    <2>2. CASE AddToBatch  BY <2>2, AddToBatchInv
    <2>3. CASE AddToBatchOpenError  BY <2>3, AddToBatchOpenErrorInv
    <2>4. CASE KernelRead  BY <2>4, KernelReadInv
    <2>5. CASE KernelWrite  BY <2>5, KernelWriteInv
    <2>6. CASE \E n \in FileSizes : ResizeSource(n)  BY <2>6, ResizeSourceInv
    <2>7. CASE OnReadEvent  BY <2>7, OnReadEventInv
    <2>8. CASE OnWriteEvent  BY <2>8, OnWriteEventInv
    <2>9. CASE Terminated  BY <2>9, StutterInv DEF Terminated
    <2>10. CASE UNCHANGED vars  BY <2>10, StutterInv
    <2> QED
      BY <2>1, <2>2, <2>3, <2>4, <2>5, <2>6, <2>7, <2>8, <2>9, <2>10 DEF Next
  <1> QED  BY <1>1, <1>2, PTL DEF Spec

\* The variables of a runner always have their types.
THEOREM TypeCorrect == Spec => []TypeOK
  <1>1. IInv => TypeOK  BY DEF IInv
  <1> QED  BY <1>1, Inductive, PTL

\* Whatever the kernel does with the requests and whoever resizes the source file, the
\* bytes counted as copied are the source's bytes at their places.
THEOREM CopyCorrect == Spec => []CopiedBytesAreRight
  <1>1. IInv => CopiedBytesAreRight  BY DEF IInv
  <1> QED  BY <1>1, Inductive, PTL

\* No write sends unread memory to the destination or leaves the runner's chunk.
THEOREM WritesCorrect == Spec => []OnlyRightBytesWritten
  <1>1. IInv => OnlyRightBytesWritten  BY DEF IInv
  <1> QED  BY <1>1, Inductive, PTL

\* The kernel is only ever given memory inside the runner's heap block.
THEOREM BufferSafe == Spec => []BufferInBounds
  <1>1. IInv => BufferInBounds
    <2> SUFFICES ASSUME IInv PROVE BufferInBounds  OBVIOUS
    <2>1. /\ offset \in Nat /\ size \in Nat /\ readOffset \in Nat /\ writeOffset \in Nat
          /\ buffer \in Int /\ bufferAligned \in Int
          /\ rd.len \in Nat /\ wr.len \in Nat /\ wr.buf \in Int
      BY SizesAssumption DEF IInv, TypeOK, Sqes, NoBuffer
    <2>2. /\ offset <= readOffset /\ offset <= writeOffset /\ size <= ChunkSize
      BY DEF IInv, OffsetInv, ChunkInv
    <2>3. wr.st # "idle" => 0 <= Pad /\ Pad + ChunkSize <= BlockSize
      BY DEF IInv, PhaseInv, BufferInv
    <2>4. rd.st = "submitted" => rd.buf >= 0 /\ rd.buf + rd.len <= BlockSize
      <3> SUFFICES ASSUME rd.st = "submitted"
                   PROVE  rd.buf >= 0 /\ rd.buf + rd.len <= BlockSize
        OBVIOUS
      <3>1. wr.st # "idle"  BY DEF IInv, PhaseInv
      <3>2. rd.buf = BufferIndex(readOffset) /\ readOffset + rd.len <= offset + ChunkSize
        BY DEF IInv, ReadInv
      <3> QED  BY <2>1, <2>2, <2>3, <3>1, <3>2, Layout, SizesAssumption DEF BufferIndex, Pad
    <2>5. wr.st = "submitted" => wr.buf >= 0 /\ wr.buf + wr.len <= BlockSize
      <3> SUFFICES ASSUME wr.st = "submitted"
                   PROVE  wr.buf >= 0 /\ wr.buf + wr.len <= BlockSize
        OBVIOUS
      <3>1. CASE wr.op = "write"
        <4>1. wr.buf = BufferIndex(writeOffset) /\ wr.len <= End - writeOffset
          BY <3>1 DEF IInv, WriteInv
        <4> QED
          BY <2>1, <2>2, <2>3, <4>1, Layout, SizesAssumption DEF BufferIndex, Pad, End
      <3>2. CASE wr.op # "write"
        BY <3>2, SizesAssumption DEF IInv, WriteInv
      <3> QED  BY <3>1, <3>2
    <2> QED  BY <2>4, <2>5 DEF BufferInBounds
  <1> QED  BY <1>1, Inductive, PTL

\* Every read satisfies O_DIRECT's demands on its offset, its length and its address.
THEOREM ReadsAreAligned == Spec => []ReadsAligned
  <1>1. IInv => ReadsAligned
    <2> SUFFICES ASSUME IInv, rd.st = "submitted"
                 PROVE  /\ Aligned(rd.at) /\ Aligned(rd.len) /\ Aligned(buffer + rd.buf)
      BY DEF ReadsAligned, Aligned
    <2>1. /\ offset \in Int /\ readOffset \in Int /\ buffer \in Int /\ bufferAligned \in Int
      BY SizesAssumption DEF IInv, TypeOK, NoBuffer
    <2>2. /\ rd.at = readOffset /\ rd.buf = BufferIndex(readOffset)
          /\ Aligned(readOffset) /\ Aligned(rd.len) /\ Aligned(offset)
      BY DEF IInv, ReadInv, ChunkInv
    <2>3. Aligned(bufferAligned)  BY DEF IInv, PhaseInv, BufferInv
    <2>4. Aligned(readOffset - offset)  BY <2>1, <2>2, AlignedSum
    <2>5. Aligned(bufferAligned + (readOffset - offset))  BY <2>1, <2>3, <2>4, AlignedSum
    <2>6. buffer + rd.buf = bufferAligned + (readOffset - offset)
      BY <2>1, <2>2 DEF BufferIndex
    <2> QED  BY <2>2, <2>5, <2>6
  <1> QED  BY <1>1, Inductive, PTL

\* The kernel holds no request of a runner that waits, has finished or has failed.
THEOREM QuietOutside == Spec => []QuietOutsideBatch
  <1>1. IInv => QuietOutsideBatch  BY DEF IInv, PhaseInv, QuietOutsideBatch
  <1> QED  BY <1>1, Inductive, PTL

-----------------------------------------------------------------------------
(* Reports of a file that shrank.                                          *)

\* Nobody makes the source file larger than it was when it was added.
FilesNeverGrow == \A n \in FileSizes : n <= StatSize

\* A read is only submitted before the end of the chunk and asks for something, so that the
\* result 0 says that the file ends before the chunk does.
TruncInv ==
    /\ minFileSize <= fileSize /\ fileSize <= StatSize /\ readOffset <= End
    /\ rd.st # "idle" => readOffset < End /\ 0 < rd.len
    /\ rd.st = "posted" =>
        /\ rd.res > 0 => readOffset + rd.res <= StatSize
        /\ rd.res = 0 => minFileSize < End
    /\ ShrankOnlyIfTruncated

\* It is preserved while no file grows.
LEMMA TruncNext ==
    ASSUME FilesNeverGrow, IInv, TruncInv, [Next]_vars
    PROVE  TruncInv'
  <1>1. /\ offset \in Nat /\ size \in Nat /\ End \in Nat /\ readOffset \in Nat
        /\ fileSize \in Nat /\ minFileSize \in Nat /\ StatSize \in Nat
        /\ rd.len \in Nat /\ rd.at \in Nat /\ rd.res \in Int /\ readOverride \in Int
    BY SizesAssumption DEF IInv, TypeOK, Sqes, End
  <1>2. ASSUME UNCHANGED <<offset, size, readOffset, savedError, rd, fileSize, minFileSize>>
        PROVE  TruncInv'
    BY <1>2 DEF TruncInv, ShrankOnlyIfTruncated, End
  <1>3. CASE AddToBatch
    <2>1. /\ UNCHANGED <<offset, size, readOffset, savedError, fileSize, minFileSize>>
          /\ Ready /\ SubmitReadWriteCommands
      BY <1>3 DEF AddToBatch, chunkVars, envVars
    <2>2. PICK n \in ReadRequests :
              rd' = IF n # 0 THEN Sqe("read", readOffset, AlignedLength(n), BufferIndex(readOffset))
                             ELSE NoSqe
      BY <2>1 DEF SubmitReadWriteCommands
    <2>3. CASE n = 0
      BY <2>1, <2>2, <2>3 DEF TruncInv, ShrankOnlyIfTruncated, End, NoSqe
    <2>4. CASE n # 0
      <3>1. readOffset < End /\ n \in Nat /\ AlignedLength(n) \in Nat /\ n <= AlignedLength(n)
        BY <1>1, <2>4, ReadLength DEF TruncInv
      <3>2. rd'.st = "submitted" /\ rd'.len = AlignedLength(n) /\ 0 < rd'.len
        BY <2>2, <2>4, <3>1 DEF Sqe
      <3> QED  BY <2>1, <3>1, <3>2 DEF TruncInv, ShrankOnlyIfTruncated, End
    <2> QED  BY <2>3, <2>4
  <1>4. CASE KernelRead
    <2>1. PICK n \in {EIO} \cup (IF Available(rd) = 0 THEN {0} ELSE 1..Available(rd)) :
              rd' = Posted(rd, n)
      BY <1>4 DEF KernelRead
    <2>2. /\ rd.st = "submitted" /\ rd.st # "idle"
          /\ UNCHANGED <<offset, size, readOffset, savedError, fileSize, minFileSize>>
      BY <1>4 DEF KernelRead, chunkVars, runnerVars, envVars
    <2>3. rd.at = readOffset /\ readOffset < End /\ 0 < rd.len
      BY <2>2 DEF IInv, ReadInv, TruncInv
    <2>4. n > 0 => readOffset + n <= fileSize  BY <1>1, <2>3 DEF Available, EIO
    <2>5. n = 0 => fileSize <= readOffset  BY <1>1, <2>3 DEF Available, EIO
    <2>6. n \in Int  BY <1>1 DEF Available, EIO
    <2>7. rd'.st = "posted" /\ rd'.res = n /\ rd'.len = rd.len
      <3>1. rd \in Sqes({"read"})  BY DEF IInv, TypeOK
      <3> QED  BY <2>1, <3>1 DEF Posted, Sqes
    <2>8. /\ minFileSize <= fileSize /\ fileSize <= StatSize /\ readOffset <= End
          /\ ShrankOnlyIfTruncated
      BY DEF TruncInv
    <2>9. /\ n > 0 => readOffset + n <= StatSize
          /\ n = 0 => minFileSize < End
      BY <1>1, <2>3, <2>4, <2>5, <2>6, <2>8
    <2> QED  BY <2>2, <2>3, <2>7, <2>8, <2>9 DEF TruncInv, ShrankOnlyIfTruncated, End
  <1>5. ASSUME NEW n \in FileSizes, ResizeSource(n) PROVE TruncInv'
    <2>1. /\ UNCHANGED <<offset, size, readOffset, savedError, rd>> /\ fileSize' = n
          /\ minFileSize' = IF n < minFileSize THEN n ELSE minFileSize
      BY <1>5 DEF ResizeSource, chunkVars, runnerVars
    <2>2. n \in Nat /\ n <= StatSize  BY SizesAssumption DEF FilesNeverGrow
    <2>3. /\ minFileSize' <= minFileSize /\ minFileSize' <= fileSize' /\ minFileSize' \in Nat
      BY <1>1, <2>1, <2>2
    <2>4. End' = End  BY <2>1 DEF End
    <2>5. minFileSize < End => minFileSize' < End  BY <1>1, <2>3
    <2> QED  BY <2>1, <2>2, <2>3, <2>4, <2>5 DEF TruncInv, ShrankOnlyIfTruncated
  <1>6. CASE OnReadEvent
    <2> DEFINE r == Spoofed(rd.res, readOverride)
    <2>1. rd.st = "posted" /\ rd.st # "idle"  BY <1>6 DEF OnReadEvent
    <2>2. savedError = "none"  BY <2>1 DEF IInv, PhaseInv
    <2>3. /\ rd' = NoSqe /\ UNCHANGED <<offset, size, fileSize, minFileSize>>
          /\ savedError' = (IF r = 0 THEN "shrank" ELSE IF r < 0 THEN "read" ELSE "none")
          /\ readOffset' = IF r >= 0 THEN ReadOffsetAfter(r) ELSE readOffset
      BY <1>6, <2>2 DEF OnReadEvent, chunkVars, envVars
    <2>4. rd.at + rd.len <= offset + ChunkSize /\ readOverride > 0 /\ rd.res <= rd.len
          /\ rd.at = readOffset
      BY <2>1 DEF IInv, ReadInv
    <2>5. r \in Int /\ r <= rd.res /\ (r = 0 => rd.res = 0)  BY <1>1, <2>4 DEF Spoofed
    <2> HIDE DEF r
    <2>6. r >= 0 => readOffset' \in Nat /\ readOffset' <= readOffset + r
      BY <1>1, <2>1, <2>3, <2>4, <2>5, ReadOffsetAfterFacts
    <2>7. /\ size = ChunkSize \/ End = StatSize
          /\ readOffset < End /\ (rd.res > 0 => readOffset + rd.res <= StatSize)
          /\ rd.res = 0 => minFileSize < End
      BY <2>1 DEF IInv, ChunkInv, TruncInv
    <2>8. readOffset' <= End
      <3>1. CASE r > 0
        <4>1. readOffset' <= readOffset + rd.res /\ readOffset + rd.res <= offset + ChunkSize
          BY <1>1, <2>4, <2>5, <2>6, <3>1, Layout
        <4>2. readOffset + rd.res <= StatSize  BY <1>1, <2>5, <2>7, <3>1
        <4>3. End = offset + ChunkSize \/ End = StatSize  BY <2>7 DEF End
        <4>4. readOffset' \in Nat  BY <2>5, <2>6, <3>1
        <4> QED  BY <1>1, <4>1, <4>2, <4>3, <4>4, Layout
      <3>2. CASE r = 0  BY <1>1, <2>6, <2>7, <3>2
      <3>3. CASE r < 0  BY <1>1, <2>3, <2>5, <2>7, <3>3
      <3> QED  BY <2>5, <3>1, <3>2, <3>3
    <2>9. savedError' = "shrank" => minFileSize < End  BY <2>3, <2>5, <2>7
    <2>10. End' = End /\ rd'.st = "idle"  BY <2>3 DEF End, NoSqe
    <2> QED  BY <2>3, <2>8, <2>9, <2>10 DEF TruncInv, ShrankOnlyIfTruncated
  <1>7. CASE OnWriteEvent
    <2>1. /\ UNCHANGED <<offset, size, readOffset, rd, fileSize, minFileSize>>
          /\ savedError' \in {savedError, "write"}
      BY <1>7 DEF OnWriteEvent, chunkVars, envVars
    <2> QED  BY <2>1 DEF TruncInv, ShrankOnlyIfTruncated, End
  <1>8. CASE \/ \E address \in BlockAddresses : GiveBuffer(address)
             \/ AddToBatchOpenError \/ KernelWrite \/ Terminated \/ UNCHANGED vars
    <2>1. UNCHANGED <<offset, size, readOffset, savedError, rd, fileSize, minFileSize>>
      BY <1>8 DEF GiveBuffer, AddToBatchOpenError, KernelWrite, Terminated, vars,
                  chunkVars, runnerVars, envVars
    <2> QED  BY <1>2, <2>1
  <1> QED  BY <1>3, <1>4, <1>5, <1>6, <1>7, <1>8 DEF Next

\* Unless the source file grows, a runner reports that it shrank only if it did: no
\* alignment, short read, forced partial read or retry makes the kernel return 0 elsewhere.
THEOREM ShrankIsTrue ==
    ASSUME FilesNeverGrow
    PROVE  Spec => []ShrankOnlyIfTruncated
  <1>1. Init => TruncInv
    <2> SUFFICES ASSUME Init PROVE TruncInv
      OBVIOUS
    <2>1. offset \in Nat /\ size \in Nat /\ StatSize \in Nat
      BY InitInv, SizesAssumption DEF IInv, TypeOK
    <2>2. /\ readOffset = offset /\ rd.st = "idle" /\ savedError = "none"
          /\ fileSize = StatSize /\ minFileSize = StatSize
      BY DEF Init, NoSqe
    <2> QED  BY <2>1, <2>2 DEF TruncInv, ShrankOnlyIfTruncated, End
  <1>2. TruncInv /\ IInv /\ [Next]_vars => TruncInv'
    BY TruncNext
  <1>3. TruncInv => ShrankOnlyIfTruncated  BY DEF TruncInv
  <1> QED  BY <1>1, <1>2, <1>3, Inductive, PTL DEF Spec

-----------------------------------------------------------------------------
(* The runner as the queue sees it.                                        *)

\* A state of the runner as a state of the service.
waiting == phase \in {"pendingStart", "pendingContinue"}
seenPhase == IF waiting THEN "waiting" ELSE phase
bytesLeft == End - writeOffset
readToEnd == readOffset = End
hasError == savedError # "none"

\* The turn of a runner is one of the service: it asks for the write, and for a read before
\* it unless the read offset is exactly the end of the chunk.
LEMMA SubmitRefines ==
    ASSUME IInv, AddToBatch
    PROVE  Service!Submit
  <1>1. Ready /\ SubmitReadWriteCommands  BY DEF AddToBatch
  <1>2. writeOffset < End /\ jobsRunning = 0  BY <1>1, ReadyIsQuiet
  <1>3. PICK n \in ReadRequests : jobsRunning' = (IF n # 0 THEN 1 ELSE 0) + 1
    BY <1>1, <1>2 DEF SubmitReadWriteCommands
  <1>4. /\ phase' = "running" /\ waiting
        /\ UNCHANGED <<offset, size, readOffset, writeOffset, savedError>>
    BY <1>1 DEF AddToBatch, chunkVars, Ready, waiting
  <1>5. n = 0 <=> readOffset = End
    <2>1. n = 0 => readOffset = End  BY NothingToRead
    <2>2. readOffset = End => n = 0
      <3> SUFFICES ASSUME readOffset = End PROVE n = 0  OBVIOUS
      <3>1. End \in Nat /\ UIntRange \in Nat \ {0}  BY Layout DEF IInv, TypeOK, End
      <3>2. BytesUnread(readOffset) = 0  BY <3>1 DEF BytesUnread
      <3> QED  BY <3>2 DEF ReadRequests
    <2> QED  BY <2>1, <2>2
  <1>6. jobsRunning' = IF readToEnd THEN 1 ELSE 2  BY <1>3, <1>5 DEF readToEnd
  <1>7. seenPhase = "waiting" /\ seenPhase' = "running"  BY <1>4 DEF seenPhase, waiting
  <1>8. UNCHANGED <<readToEnd, bytesLeft, hasError>>  BY <1>4 DEF readToEnd, bytesLeft, hasError, End
  <1> QED  BY <1>6, <1>7, <1>8 DEF Service!Submit, seenPhase, waiting, readToEnd, bytesLeft, hasError

\* The event of the read is one of the service: the write is still to come.
LEMMA ReadEventRefines ==
    ASSUME IInv, OnReadEvent
    PROVE  Service!ReadSeen
  <1> DEFINE r == Spoofed(rd.res, readOverride)
  <1>1. rd.st = "posted"  BY DEF OnReadEvent
  <1>2. savedError = "none" /\ phase = "running" /\ jobsRunning = 2
    BY <1>1 DEF IInv, PhaseInv
  <1>3. /\ jobsRunning' = 1 /\ phase' = "running"
        /\ savedError' = (IF r = 0 THEN "shrank" ELSE IF r < 0 THEN "read" ELSE "none")
        /\ readOffset' = IF r >= 0 THEN ReadOffsetAfter(r) ELSE readOffset
        /\ UNCHANGED <<offset, size, writeOffset>>
    BY <1>1, <1>2 DEF OnReadEvent, RunnerResult, chunkVars
  <1>4. seenPhase = "running" /\ seenPhase' = "running"  BY <1>2, <1>3 DEF seenPhase, waiting
  <1>5. UNCHANGED bytesLeft  BY <1>3 DEF bytesLeft, End
  <1>6. \/ readToEnd' \in BOOLEAN /\ hasError' = hasError
        \/ hasError' = TRUE /\ readToEnd' = readToEnd
    <2>1. rd.len \in Nat /\ readOverride \in Int /\ rd.res \in Int /\ readOffset \in Nat
      BY DEF IInv, TypeOK, Sqes
    <2>2. r \in Int  BY <2>1 DEF Spoofed
    <2> HIDE DEF r
    <2>3. CASE r > 0
      <3>1. savedError' = "none"  BY <1>3, <2>2, <2>3
      <3>2. readToEnd' \in BOOLEAN  BY DEF readToEnd
      <3> QED  BY <1>2, <3>1, <3>2 DEF hasError
    <2>4. CASE r = 0
      <3>1. 0 \in Nat /\ 0 <= rd.len /\ rd.st # "idle"  BY <1>1, <2>1
      <3>2. readOffset <= ReadOffsetAfter(0) /\ ReadOffsetAfter(0) <= readOffset + 0 /\ ReadOffsetAfter(0) \in Nat
        BY <3>1, ReadOffsetAfterFacts
      <3>3. readOffset' = readOffset  BY <1>3, <2>1, <2>4, <3>2
      <3> QED  BY <1>3, <2>4, <3>3 DEF readToEnd, hasError, End
    <2>5. CASE r < 0  BY <1>3, <2>2, <2>5 DEF readToEnd, hasError, End
    <2>6. r > 0 \/ r = 0 \/ r < 0  BY <2>2
    <2> QED  BY <2>3, <2>4, <2>5, <2>6, Zenon
  <1> QED
    BY <1>2, <1>3, <1>4, <1>5, <1>6 DEF Service!ReadSeen, seenPhase, waiting, readToEnd, bytesLeft, hasError

\* The event of the write is one of the service: it ends the turn, and the runner.
LEMMA WriteEventRefines ==
    ASSUME IInv, OnWriteEvent
    PROVE  Service!WriteSeen
  <1> DEFINE r == Spoofed(wr.res, writeOverride)
             handled == savedError = "none"
  <1>1. wr.st = "posted" /\ rd.st = "idle"  BY DEF OnWriteEvent
  <1>2. phase = "running" /\ jobsRunning = 1  BY <1>1 DEF IInv, PhaseInv
  <1>3. /\ jobsRunning' = 0
        /\ savedError' = (IF handled /\ r < 0 /\ r # ECANCELED THEN "write" ELSE savedError)
        /\ writeOffset' = (IF handled /\ r >= 0 THEN writeOffset + r ELSE writeOffset)
        /\ phase' = (IF savedError' # "none" THEN "failed"
                     ELSE IF writeOffset' = End THEN "finished" ELSE "pendingContinue")
        /\ UNCHANGED <<offset, size, readOffset>>
    BY <1>1, <1>2 DEF OnWriteEvent, RunnerResult, chunkVars
  <1>4. IInv'  BY OnWriteEventInv
  <1>5. /\ End \in Nat /\ End' = End /\ writeOffset \in Nat /\ writeOffset' \in Nat
        /\ writeOffset <= End /\ writeOffset' <= End
    BY <1>3, <1>4 DEF IInv, TypeOK, OffsetInv, End
  <1>6. r \in Int
    <2>1. writeOverride \in Int /\ wr.res \in Int  BY DEF IInv, TypeOK, Sqes
    <2> QED  BY <2>1 DEF Spoofed
  <1> HIDE DEF r
  <1>7. seenPhase = "running"  BY <1>2 DEF seenPhase, waiting
  <1>8. UNCHANGED readToEnd  BY <1>3, <1>5 DEF readToEnd
  <1>9. CASE savedError' # "none"
    <2>1. writeOffset' = writeOffset  BY <1>3, <1>6, <1>9
    <2>2. seenPhase' = "failed"  BY <1>3, <1>9 DEF seenPhase, waiting
    <2>3. hasError' = TRUE /\ bytesLeft' = bytesLeft  BY <1>5, <1>9, <2>1 DEF hasError, bytesLeft
    <2> QED
      BY <1>2, <1>3, <1>7, <1>8, <2>2, <2>3
      DEF Service!WriteSeen, seenPhase, waiting, readToEnd, bytesLeft, hasError
  <1>10. CASE savedError' = "none"
    <2>1. savedError = "none"  BY <1>3, <1>10
    <2>2. ~hasError /\ hasError' = hasError  BY <1>10, <2>1 DEF hasError
    <2>3. writeOffset <= writeOffset'  BY <1>3, <1>5, <1>6
    <2>4. PICK next \in Nat : next = writeOffset'  BY <1>5
    <2>5. seenPhase' = IF bytesLeft' = 0 THEN "finished" ELSE "waiting"
      BY <1>3, <1>5, <1>10 DEF seenPhase, waiting, bytesLeft
    <2>6. \E w \in 0..bytesLeft : bytesLeft' = bytesLeft - w
      <3>1. bytesLeft = End - writeOffset /\ bytesLeft' = End - next  BY <1>5, <2>4 DEF bytesLeft
      <3>2. writeOffset \in Nat /\ End \in Nat /\ writeOffset <= next /\ next <= End
        BY <1>5, <2>3, <2>4
      <3>3. next - writeOffset \in Nat  BY <3>2
      <3>4. PICK w \in Nat : w = next - writeOffset  BY <3>3
      <3>5. w \in 0..(End - writeOffset) /\ End - next = (End - writeOffset) - w  BY <3>2, <3>4
      <3> QED  BY <3>1, <3>5
    <2>7. jobsRunning = 1 /\ jobsRunning' = 0  BY <1>2, <1>3
    <2> QED
      BY <1>7, <1>8, <2>2, <2>5, <2>6, <2>7
      DEF Service!WriteSeen, seenPhase, waiting, readToEnd, bytesLeft, hasError
  <1> QED  BY <1>9, <1>10

\* A failed open is the service's giving up.
LEMMA OpenErrorRefines ==
    ASSUME AddToBatchOpenError
    PROVE  Service!GiveUp
  <1>1. /\ waiting /\ phase' = "failed"
        /\ UNCHANGED <<offset, size, readOffset, writeOffset, jobsRunning, savedError>>
    BY DEF AddToBatchOpenError, Ready, chunkVars, waiting
  <1>2. seenPhase = "waiting" /\ seenPhase' = "failed"  BY <1>1 DEF seenPhase, waiting
  <1>3. UNCHANGED <<readToEnd, bytesLeft, jobsRunning, hasError>>
    BY <1>1 DEF readToEnd, bytesLeft, hasError, End
  <1> QED  BY <1>2, <1>3 DEF Service!GiveUp, seenPhase, waiting, readToEnd, bytesLeft, hasError

\* What the queue cannot see: the block, the kernel at work, and the file being resized.
LEMMA HiddenSteps ==
    ASSUME \/ \E a \in BlockAddresses : GiveBuffer(a)
           \/ KernelRead \/ KernelWrite
           \/ \E n \in FileSizes : ResizeSource(n)
           \/ Terminated \/ UNCHANGED vars
    PROVE  UNCHANGED Service!vars
  <1>1. UNCHANGED <<offset, size, readOffset, writeOffset, jobsRunning, savedError, phase>>
    BY DEF GiveBuffer, KernelRead, KernelWrite, ResizeSource, Terminated, vars, chunkVars, runnerVars
  <1> QED  BY <1>1 DEF Service!vars, End

\* Whatever happens to its bytes, the runner keeps the promise the queue relies on.
THEOREM RunnerRefinesService == Spec => RefinesRunnerService
  <1>1. Init => Service!Init
    <2> SUFFICES ASSUME Init PROVE Service!Init
      OBVIOUS
    <2>1. IInv  BY InitInv
    <2>2. /\ phase = "pendingStart" /\ jobsRunning = 0 /\ savedError = "none"
          /\ readOffset = offset /\ writeOffset = offset
      BY DEF Init
    <2>3. offset \in Nat /\ size \in Nat /\ 0 < size  BY <2>1 DEF IInv, TypeOK, ChunkInv
    <2>4. End - writeOffset \in Nat \ {0} /\ readOffset # End  BY <2>2, <2>3 DEF End
    <2> QED  BY <2>2, <2>4 DEF Service!Init
  <1>2. IInv /\ [Next]_vars => [Service!Next]_Service!vars
    <2> SUFFICES ASSUME IInv, [Next]_vars PROVE Service!Next \/ UNCHANGED Service!vars
      OBVIOUS
    <2>1. CASE AddToBatch  BY <2>1, SubmitRefines DEF Service!Next
    <2>2. CASE AddToBatchOpenError  BY <2>2, OpenErrorRefines DEF Service!Next
    <2>3. CASE OnReadEvent  BY <2>3, ReadEventRefines DEF Service!Next
    <2>4. CASE OnWriteEvent  BY <2>4, WriteEventRefines DEF Service!Next
    <2> QED  BY <2>1, <2>2, <2>3, <2>4, HiddenSteps DEF Next
  <1> QED  BY <1>1, <1>2, Inductive, PTL DEF Spec, RefinesRunnerService, Service!Spec
=============================================================================
