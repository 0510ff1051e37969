------------------------------ MODULE EtaProofs ------------------------------
(***************************************************************************)
(* Proofs about Eta, for any copies of any size and any interleaving of    *)
(* the three threads: the counters of the remaining copies, the bytes that *)
(* are shown, the end of the estimate, the packed bitset and the choice of *)
(* buckets.                                                                *)
(***************************************************************************)
EXTENDS Eta, TLAPS, FiniteSetTheorems, FunctionTheorems, WellFoundedInduction

-----------------------------------------------------------------------------
(* The inductive invariant.                                                *)

\* Where each thread is, and that a copy is counted before it is pushed, pushed before it
\* is finished, and each once.
CopyInv ==
    /\ apc \in {"idle", "note", "push"} /\ (apc # "idle" => adding \in Copies)
    /\ apc = "note" => adding \notin noted
    /\ apc = "push" => adding \in noted
    /\ state = "AdditionComplete" => apc = "idle"
    /\ noted \subseteq Copies /\ pending \subseteq noted /\ finished \subseteq pending
    /\ dpc \in {"idle", "buff", "count"}
    /\ dpc # "idle" => finishing \in pending \ finished

\* A counter is not less than the copies that are not finished, nor more than all those that
\* were counted: one that failed stays counted.
BigInv ==
    /\ bigCopiesRemaining \in Nat
    /\ Big(noted \ finished) <= bigCopiesRemaining /\ bigCopiesRemaining <= Big(noted)
SmallInv ==
    /\ smallCopiesRemaining \in Nat
    /\ Small(noted \ finished) <= smallCopiesRemaining /\ smallCopiesRemaining <= Small(noted)

\* The bytes of a set of copies; each is named by its copy and its place.
AllBytes == UNION {{c} \X (1..Size[c]) : c \in Copies}
BytesOf(S) == {x \in AllBytes : x[1] \in S}

\* The copies whose bytes are counted, and those that may have written theirs.
CountedCopies == IF apc = "note" THEN noted \cup {adding} ELSE noted
WrittenCopies == IF dpc = "idle" THEN finished ELSE finished \cup {finishing}

BytesInv ==
    /\ totalBytesToCopy = Cardinality(BytesOf(CountedCopies))
    /\ totalBytesCopied \in Nat /\ totalBytesCopied <= Cardinality(BytesOf(WrittenCopies))

\* What the progress thread knows: once it has seen that the addition is complete, the total
\* it loads is final, and so is that no big copy, or none at all, is left.
ShowInv ==
    /\ haveTotal \in BOOLEAN
    /\ haveTotal => state = "AdditionComplete"
    /\ ppc \notin {"idle", "total", "copied"} => haveTotal
    /\ haveTotal /\ ppc = "copied" => toCopy = totalBytesToCopy
    /\ ppc = "checkSmall" => \A c \in pending \ finished : ~IsBig(c)
    /\ ShownConsistent /\ ZeroMeansDone

\* Bit i of a word.
Bit(w, i) == (w \div TwoTo[i]) % 2

\* Bit i of the bitset tells of the copy that ended i copies before the last one.
BitInv ==
    /\ history \in Seq(BOOLEAN) /\ atomicBuffer \in Nat
    /\ GetCount(atomicBuffer) = Min({Len(history), SetBits})
    /\ \A i \in 0..SetBits-1 :
          Bit(atomicBuffer, i) = IF i < Len(history) /\ history[Len(history) - i] THEN 1 ELSE 0

\* f is defined by recursion: from c, by the step D[n] from n to n + 1.
Iterates(f, S, c, D) ==
    f \in [Nat -> S] /\ f[0] = c /\ \A n \in Nat : f[n + 1] = D[n][f[n]]

\* What getEta has loaded are numbers, and the buckets it shows are the nearest ones.
SearchInv ==
    /\ todo \subseteq {"num", "denBig", "denSmall"} /\ num \in Nat /\ den \in Nat
    /\ NearestBuckets

EtaInv == CopyInv /\ BigInv /\ SmallInv /\ BytesInv /\ ShowInv /\ BitInv /\ SearchInv

-----------------------------------------------------------------------------
(* Counting copies and bytes.                                              *)

\* The big and the small copies of a set are finitely many, and fewer in a subset.
LEMMA CountFacts ==
    ASSUME NEW S, S \subseteq Copies
    PROVE  /\ Big(S) \in Nat /\ Small(S) \in Nat
           /\ Big(S) <= Cardinality(Copies) /\ Small(S) <= Cardinality(Copies)
           /\ IsFiniteSet({c \in S : IsBig(c)}) /\ IsFiniteSet({c \in S : ~IsBig(c)})
  <1>1. {c \in S : IsBig(c)} \in SUBSET Copies /\ {c \in S : ~IsBig(c)} \in SUBSET Copies
    OBVIOUS
  <1>2. IsFiniteSet(Copies)  BY EtaAssumption
  <1> QED  BY <1>1, <1>2, FS_Subset, FS_CardinalityType DEF Big, Small

\* Fewer copies have fewer big ones and fewer small ones.
LEMMA CountMonotonic ==
    ASSUME NEW S, NEW T, S \subseteq T, T \subseteq Copies
    PROVE  Big(S) <= Big(T) /\ Small(S) <= Small(T)
  <1>1. /\ {c \in S : IsBig(c)} \in SUBSET {c \in T : IsBig(c)}
        /\ {c \in S : ~IsBig(c)} \in SUBSET {c \in T : ~IsBig(c)}
    OBVIOUS
  <1>2. IsFiniteSet({c \in T : IsBig(c)}) /\ IsFiniteSet({c \in T : ~IsBig(c)})  BY CountFacts
  <1> QED  BY <1>1, <1>2, FS_Subset DEF Big, Small

\* One more copy.
LEMMA CountOneMore ==
    ASSUME NEW S, S \subseteq Copies, NEW c \in Copies, c \notin S
    PROVE  /\ Big(S \cup {c}) = IF IsBig(c) THEN Big(S) + 1 ELSE Big(S)
           /\ Small(S \cup {c}) = IF IsBig(c) THEN Small(S) ELSE Small(S) + 1
  <1> DEFINE B == {x \in S : IsBig(x)}
             L == {x \in S : ~IsBig(x)}
             B1 == {x \in S \cup {c} : IsBig(x)}
             L1 == {x \in S \cup {c} : ~IsBig(x)}
  <1>1. IsFiniteSet(B) /\ IsFiniteSet(L)  BY CountFacts
  <1>2. c \notin B /\ c \notin L  OBVIOUS
  <1>3. /\ IsBig(c) => B1 = B \cup {c} /\ L1 = L
        /\ ~IsBig(c) => B1 = B /\ L1 = L \cup {c}
    OBVIOUS
  <1>4. Big(S) = Cardinality(B) /\ Small(S) = Cardinality(L)  BY DEF Big, Small
  <1>5. Big(S \cup {c}) = Cardinality(B1) /\ Small(S \cup {c}) = Cardinality(L1)
    BY DEF Big, Small
  <1> HIDE DEF B, L, B1, L1
  <1>6. /\ Cardinality(B \cup {c}) = Cardinality(B) + 1
        /\ Cardinality(L \cup {c}) = Cardinality(L) + 1
    BY <1>1, <1>2, FS_AddElement
  <1> QED  BY <1>3, <1>4, <1>5, <1>6

\* There are finitely many bytes, and one more copy has as many more as its size.
LEMMA BytesFinite == IsFiniteSet(AllBytes)
  <1> DEFINE bytes(c) == {c} \X (1..Size[c])
             F == [c \in Copies |-> bytes(c)]
             T == {bytes(c) : c \in Copies}
  <1>1. IsFiniteSet(T)
    <2>1. F \in [Copies -> T] /\ \A t \in T : \E c \in Copies : F[c] = t  OBVIOUS
    <2> HIDE DEF F, T
    <2>2. F \in Surjection(Copies, T)  BY <2>1 DEF Surjection
    <2>3. IsFiniteSet(Copies)  BY EtaAssumption
    <2> QED  BY <2>2, <2>3, FS_Surjection
  <1>2. \A t \in T : IsFiniteSet(t)
    <2>1. ASSUME NEW c \in Copies PROVE IsFiniteSet(bytes(c))
      <3>1. Size[c] \in Nat  BY EtaAssumption
      <3>2. \A n \in Nat : IsFiniteSet(1..n)  BY FS_Interval
      <3> QED  BY <3>1, <3>2, FS_Singleton, FS_Product
    <2> QED  BY <2>1
  <1>3. AllBytes = UNION T  BY DEF AllBytes
  <1> HIDE DEF T
  <1> QED  BY <1>1, <1>2, <1>3, FS_UNION

\* One more copy has as many more bytes as its size.
LEMMA BytesOneMore ==
    ASSUME NEW S, NEW c \in Copies, c \notin S
    PROVE  Cardinality(BytesOf(S \cup {c})) = Cardinality(BytesOf(S)) + Size[c]
  <1> DEFINE I == 1..Size[c]
             T == {c} \X I
  <1>0. Size[c] \in Nat  BY EtaAssumption
  <1>1. IsFiniteSet(BytesOf(S)) /\ Cardinality(BytesOf(S)) \in Nat
    BY BytesFinite, FS_Subset, FS_CardinalityType DEF BytesOf
  <1>2. IsFiniteSet(I) /\ Cardinality(I) = Size[c]
    <2>1. \A n \in Nat : IsFiniteSet(1..n) /\ Cardinality(1..n) = IF 1 > n THEN 0 ELSE n - 1 + 1
      BY FS_Interval
    <2> QED  BY <1>0, <2>1
  <1>3. BytesOf(S \cup {c}) = BytesOf(S) \cup T
    <2>1. \A x \in AllBytes : x[1] = c <=> x \in T  BY DEF AllBytes
    <2>2. T \subseteq AllBytes  BY DEF AllBytes
    <2> HIDE DEF T
    <2> QED  BY <2>1, <2>2 DEF BytesOf
  <1>4. BytesOf(S) \cap T = {}  BY DEF BytesOf
  <1>5. IsFiniteSet(T) /\ Cardinality(T) = Size[c]
    <2> HIDE DEF I
    <2>1. IsFiniteSet({c}) /\ Cardinality({c}) = 1  BY FS_Singleton
    <2>2. IsFiniteSet(T) /\ Cardinality(T) = Cardinality({c}) * Cardinality(I)
      BY <1>2, <2>1, FS_Product
    <2> QED  BY <1>0, <1>2, <2>1, <2>2
  <1> HIDE DEF T
  <1>6. Cardinality(BytesOf(S) \cup T)
          = Cardinality(BytesOf(S)) + Cardinality(T) - Cardinality(BytesOf(S) \cap T)
    BY <1>1, <1>5, FS_Union
  <1>7. Cardinality(BytesOf(S) \cap T) = 0  BY <1>4, FS_EmptySet
  <1>8. Cardinality(BytesOf(S) \cup T) = Cardinality(BytesOf(S)) + Size[c]
    BY <1>0, <1>1, <1>5, <1>6, <1>7
  <1> QED  BY <1>3, <1>8

\* Fewer copies have fewer bytes.
LEMMA BytesMonotonic ==
    ASSUME NEW S, NEW T, S \subseteq T
    PROVE  /\ Cardinality(BytesOf(S)) \in Nat /\ Cardinality(BytesOf(T)) \in Nat
           /\ Cardinality(BytesOf(S)) <= Cardinality(BytesOf(T))
  <1>1. IsFiniteSet(BytesOf(T)) /\ IsFiniteSet(BytesOf(S))
    BY BytesFinite, FS_Subset DEF BytesOf
  <1>2. BytesOf(S) \in SUBSET BytesOf(T)  BY DEF BytesOf
  <1> QED  BY <1>1, <1>2, FS_Subset, FS_CardinalityType
-----------------------------------------------------------------------------
(* The invariant is preserved.                                             *)

\* Copies move from noted to pending to finished.
LEMMA CopyNext ==
    ASSUME CopyInv, [Next]_vars
    PROVE  CopyInv'
  <1> USE DEF addVars, remaining, copyVars, submitVars, totals, quotient, showVars, otherThreads
  <1>1. ASSUME NEW c \in Copies, CountBytes(c) PROVE CopyInv'
    BY <1>1 DEF CountBytes, CopyInv
  <1>2. CASE OnCopyAdded  BY <1>2 DEF OnCopyAdded, CopyInv
  <1>3. CASE PushCopy  BY <1>3 DEF PushCopy, CopyInv
  <1>4. CASE AdditionComplete  BY <1>4 DEF AdditionComplete, CopyInv
  <1>5. ASSUME NEW c \in Copies, FinishWrite(c) PROVE CopyInv'
    BY <1>5 DEF FinishWrite, CopyInv
  <1>6. ASSUME NEW c \in Copies, DeleteUnfinished(c) PROVE CopyInv'
    BY <1>6 DEF DeleteUnfinished, CopyInv
  <1>7. CASE AddToBuff  BY <1>7 DEF AddToBuff, CopyInv
  <1>8. CASE OnCopyCompleted  BY <1>8 DEF OnCopyCompleted, CopyInv
  <1>9. CASE UNCHANGED <<apc, adding, state, noted, pending, finished, dpc, finishing>>
    BY <1>9 DEF CopyInv
  <1> QED
    BY <1>1, <1>2, <1>3, <1>4, <1>5, <1>6, <1>7, <1>8, <1>9 DEF Next, AddStep, SubmitStep,
        ShowStep, vars, LoadHaveTotal, LoadTotal, LoadCopied, UpdateSpeedEstimate, CheckBig,
        CheckSmall, Load, Calculate, ReadAnywhere, Show

\* The counters follow: neither wraps.
LEMMA RemainingNext ==
    ASSUME CopyInv, BigInv, SmallInv, [Next]_vars
    PROVE  BigInv' /\ SmallInv'
  <1> USE DEF addVars, remaining, copyVars, submitVars, totals, quotient, showVars, otherThreads
  <1>0. /\ noted \subseteq Copies /\ finished \subseteq noted /\ Modulus \in Nat
        /\ Cardinality(Copies) \in Nat /\ Cardinality(Copies) < Modulus
        /\ Big(noted) \in Nat /\ Small(noted) \in Nat
        /\ Big(noted) <= Cardinality(Copies) /\ Small(noted) <= Cardinality(Copies)
        /\ Big(noted \ finished) \in Nat /\ Small(noted \ finished) \in Nat
    <2>1. noted \subseteq Copies /\ finished \subseteq noted  BY DEF CopyInv
    <2>2. noted \ finished \subseteq Copies  BY <2>1
    <2>3. Cardinality(Copies) \in Nat  BY EtaAssumption, FS_CardinalityType
    <2> QED  BY <2>1, <2>2, <2>3, EtaAssumption, CountFacts
  <1>1. CASE OnCopyAdded
    <2>1. /\ adding \in Copies /\ adding \notin noted /\ adding \notin finished
          /\ noted' = noted \cup {adding} /\ finished' = finished
      BY <1>0, <1>1 DEF OnCopyAdded, CopyInv
    <2>2. /\ Big(noted') = IF IsBig(adding) THEN Big(noted) + 1 ELSE Big(noted)
          /\ Small(noted') = IF IsBig(adding) THEN Small(noted) ELSE Small(noted) + 1
      BY <1>0, <2>1, CountOneMore
    <2>3. noted' \ finished' = (noted \ finished) \cup {adding}  BY <2>1
    <2>4. /\ Big(noted' \ finished')
               = IF IsBig(adding) THEN Big(noted \ finished) + 1 ELSE Big(noted \ finished)
          /\ Small(noted' \ finished')
               = IF IsBig(adding) THEN Small(noted \ finished) ELSE Small(noted \ finished) + 1
      BY <1>0, <2>1, <2>3, CountOneMore
    <2>5. Big(noted') <= Cardinality(Copies) /\ Small(noted') <= Cardinality(Copies)
      <3>1. noted' \subseteq Copies  BY <1>0, <2>1
      <3> QED  BY <3>1, CountFacts
    <2>6. /\ bigCopiesRemaining' = IF IsBig(adding) THEN (bigCopiesRemaining + 1) % Modulus
                                   ELSE bigCopiesRemaining
          /\ smallCopiesRemaining' = IF IsBig(adding) THEN smallCopiesRemaining
                                     ELSE (smallCopiesRemaining + 1) % Modulus
      BY <1>1 DEF OnCopyAdded, Counted
    <2>7. \A n \in Nat : n < Modulus => n % Modulus = n  BY <1>0
    <2>8. CASE IsBig(adding)
      <3>1. bigCopiesRemaining + 1 \in Nat /\ bigCopiesRemaining + 1 <= Big(noted')
        BY <1>0, <2>2, <2>8 DEF BigInv
      <3>2. bigCopiesRemaining' = bigCopiesRemaining + 1  BY <1>0, <2>2, <2>5, <2>6, <2>7, <2>8, <3>1
      <3>3. smallCopiesRemaining' = smallCopiesRemaining  BY <2>6, <2>8
      <3> QED  BY <1>0, <2>2, <2>4, <2>8, <3>1, <3>2, <3>3 DEF BigInv, SmallInv, Big, Small
    <2>9. CASE ~IsBig(adding)
      <3>1. smallCopiesRemaining + 1 \in Nat /\ smallCopiesRemaining + 1 <= Small(noted')
        BY <1>0, <2>2, <2>9 DEF SmallInv
      <3>2. smallCopiesRemaining' = smallCopiesRemaining + 1
        BY <1>0, <2>2, <2>5, <2>6, <2>7, <2>9, <3>1
      <3>3. bigCopiesRemaining' = bigCopiesRemaining  BY <2>6, <2>9
      <3> QED  BY <1>0, <2>2, <2>4, <2>9, <3>1, <3>2, <3>3 DEF BigInv, SmallInv
    <2> QED  BY <2>8, <2>9
  <1>2. ASSUME NEW c \in Copies, DeleteUnfinished(c) PROVE BigInv' /\ SmallInv'
    <2>1. noted' = noted /\ noted' \ finished' \subseteq noted \ finished
          /\ UNCHANGED <<bigCopiesRemaining, smallCopiesRemaining>>
      BY <1>2 DEF DeleteUnfinished
    <2>2. noted \ finished \subseteq Copies  BY <1>0
    <2>3. /\ Big(noted' \ finished') <= Big(noted \ finished)
          /\ Small(noted' \ finished') <= Small(noted \ finished)
      BY <2>1, <2>2, CountMonotonic
    <2>4. Big(noted' \ finished') \in Nat /\ Small(noted' \ finished') \in Nat
      <3>1. noted' \ finished' \subseteq Copies  BY <1>0, <2>1
      <3> QED  BY <3>1, CountFacts
    <2> QED  BY <1>0, <2>1, <2>3, <2>4 DEF BigInv, SmallInv
  <1>3. CASE OnCopyCompleted
    <2>1. /\ finishing \in Copies /\ finishing \in noted \ finished
          /\ finished' = finished \cup {finishing} /\ noted' = noted
      BY <1>3 DEF OnCopyCompleted, CopyInv
    <2> DEFINE S == noted' \ finished'
    <2>2. noted \ finished = S \cup {finishing} /\ finishing \notin S /\ S \subseteq Copies
      BY <1>0, <2>1
    <2> HIDE DEF S
    <2>3. /\ Big(noted \ finished) = IF IsBig(finishing) THEN Big(S) + 1 ELSE Big(S)
          /\ Small(noted \ finished) = IF IsBig(finishing) THEN Small(S) ELSE Small(S) + 1
      BY <2>1, <2>2, CountOneMore
    <2>4. Big(S) \in Nat /\ Small(S) \in Nat  BY <2>2, CountFacts
    <2>5. /\ bigCopiesRemaining' = IF IsBig(finishing) THEN (bigCopiesRemaining + -1) % Modulus
                                   ELSE bigCopiesRemaining
          /\ smallCopiesRemaining' = IF IsBig(finishing) THEN smallCopiesRemaining
                                     ELSE (smallCopiesRemaining + -1) % Modulus
      BY <1>3 DEF OnCopyCompleted, Counted
    <2>6. \A n \in Nat : n < Modulus => n % Modulus = n  BY <1>0
    <2>7. CASE IsBig(finishing)
      <3>1. bigCopiesRemaining + -1 \in Nat /\ bigCopiesRemaining + -1 < Modulus
        BY <1>0, <2>3, <2>4, <2>7 DEF BigInv
      <3>2. bigCopiesRemaining' = bigCopiesRemaining + -1  BY <2>5, <2>6, <2>7, <3>1
      <3>3. smallCopiesRemaining' = smallCopiesRemaining  BY <2>5, <2>7
      <3>4. Big(S) <= bigCopiesRemaining' /\ bigCopiesRemaining' <= Big(noted)
        BY <1>0, <2>3, <2>4, <2>7, <3>2 DEF BigInv
      <3> QED  BY <1>0, <2>1, <2>3, <2>4, <2>7, <3>1, <3>2, <3>3, <3>4 DEF S, BigInv, SmallInv
    <2>8. CASE ~IsBig(finishing)
      <3>1. smallCopiesRemaining + -1 \in Nat /\ smallCopiesRemaining + -1 < Modulus
        BY <1>0, <2>3, <2>4, <2>8 DEF SmallInv
      <3>2. smallCopiesRemaining' = smallCopiesRemaining + -1  BY <2>5, <2>6, <2>8, <3>1
      <3>3. bigCopiesRemaining' = bigCopiesRemaining  BY <2>5, <2>8
      <3>4. Small(S) <= smallCopiesRemaining' /\ smallCopiesRemaining' <= Small(noted)
        BY <1>0, <2>3, <2>4, <2>8, <3>2 DEF SmallInv
      <3> QED  BY <1>0, <2>1, <2>3, <2>4, <2>8, <3>1, <3>2, <3>3, <3>4 DEF S, BigInv, SmallInv
    <2> QED  BY <2>7, <2>8
  <1>4. CASE UNCHANGED <<noted, finished, bigCopiesRemaining, smallCopiesRemaining>>
    BY <1>4 DEF BigInv, SmallInv
  <1> QED
    BY <1>1, <1>2, <1>3, <1>4 DEF Next, AddStep, SubmitStep, ShowStep, vars, CountBytes,
        PushCopy, AdditionComplete, FinishWrite, AddToBuff, LoadHaveTotal, LoadTotal,
        LoadCopied, UpdateSpeedEstimate, CheckBig, CheckSmall, Load, Calculate, ReadAnywhere,
        Show

\* No byte is counted as copied twice, or before it is counted as to be copied.
LEMMA BytesNext ==
    ASSUME CopyInv, BytesInv, [Next]_vars
    PROVE  BytesInv'
  <1> USE DEF addVars, remaining, copyVars, submitVars, totals, quotient, showVars, otherThreads
  <1>0. Size \in [Copies -> Nat] /\ \A S : Cardinality(BytesOf(S)) \in Nat
    BY EtaAssumption, BytesMonotonic
  <1>1. ASSUME NEW c \in Copies, CountBytes(c) PROVE BytesInv'
    <2>1. /\ CountedCopies = noted /\ c \notin noted /\ CountedCopies' = noted \cup {c}
          /\ WrittenCopies' = WrittenCopies /\ totalBytesCopied' = totalBytesCopied
          /\ totalBytesToCopy' = totalBytesToCopy + Size[c]
      BY <1>1 DEF CountBytes, CountedCopies, WrittenCopies
    <2>2. Cardinality(BytesOf(noted \cup {c})) = Cardinality(BytesOf(noted)) + Size[c]
      BY <2>1, BytesOneMore
    <2> QED  BY <2>1, <2>2 DEF BytesInv, BytesOf
  <1>2. CASE OnCopyAdded
    <2>1. CountedCopies' = CountedCopies /\ WrittenCopies' = WrittenCopies
      BY <1>2 DEF OnCopyAdded, CountedCopies, WrittenCopies
    <2> QED  BY <1>2, <2>1 DEF OnCopyAdded, BytesInv, BytesOf
  <1>3. CASE PushCopy
    <2>1. CountedCopies' = CountedCopies /\ WrittenCopies' = WrittenCopies
      BY <1>3 DEF PushCopy, CountedCopies, WrittenCopies
    <2> QED  BY <1>3, <2>1 DEF PushCopy, BytesInv, BytesOf
  <1>4. ASSUME NEW c \in Copies, FinishWrite(c) PROVE BytesInv'
    <2>1. /\ WrittenCopies = finished /\ c \notin finished /\ WrittenCopies' = finished \cup {c}
          /\ CountedCopies' = CountedCopies /\ totalBytesToCopy' = totalBytesToCopy
          /\ totalBytesCopied' = totalBytesCopied + Size[c]
      BY <1>4 DEF FinishWrite, CountedCopies, WrittenCopies
    <2>2. Cardinality(BytesOf(finished \cup {c})) = Cardinality(BytesOf(finished)) + Size[c]
      BY <2>1, BytesOneMore
    <2>3. /\ totalBytesCopied' \in Nat
          /\ totalBytesCopied' <= Cardinality(BytesOf(WrittenCopies'))
      BY <1>0, <2>1, <2>2 DEF BytesInv
    <2> QED  BY <2>1, <2>3 DEF BytesInv, BytesOf
  <1>5. ASSUME NEW c \in Copies, DeleteUnfinished(c) PROVE BytesInv'
    <2>1. /\ WrittenCopies = finished /\ c \notin finished /\ WrittenCopies' = finished \cup {c}
          /\ CountedCopies' = CountedCopies /\ totalBytesToCopy' = totalBytesToCopy
      BY <1>5 DEF DeleteUnfinished, CountedCopies, WrittenCopies
    <2>2. PICK written \in {0, Size[c] \div 2} : totalBytesCopied' = totalBytesCopied + written
      BY <1>5 DEF DeleteUnfinished
    <2>3. written \in Nat /\ written <= Size[c] /\ Size[c] \in Nat
      <3>1. Size[c] \in Nat  BY <1>0
      <3> QED  BY <2>2, <3>1
    <2>4. Cardinality(BytesOf(finished \cup {c})) = Cardinality(BytesOf(finished)) + Size[c]
      BY <2>1, BytesOneMore
    <2>5. /\ totalBytesCopied' \in Nat
          /\ totalBytesCopied' <= Cardinality(BytesOf(WrittenCopies'))
      BY <1>0, <2>1, <2>2, <2>3, <2>4 DEF BytesInv
    <2> QED  BY <2>1, <2>5 DEF BytesInv, BytesOf
  <1>6. CASE AddToBuff \/ OnCopyCompleted
    <2>1. CountedCopies' = CountedCopies /\ WrittenCopies' = WrittenCopies
      BY <1>6 DEF AddToBuff, OnCopyCompleted, CountedCopies, WrittenCopies, CopyInv
    <2>2. UNCHANGED <<totalBytesToCopy, totalBytesCopied>>
      BY <1>6 DEF AddToBuff, OnCopyCompleted
    <2> QED  BY <2>1, <2>2 DEF BytesInv, BytesOf
  <1>7. CASE UNCHANGED <<apc, adding, noted, dpc, finishing, finished, totalBytesToCopy, totalBytesCopied>>
    BY <1>7 DEF BytesInv, BytesOf, CountedCopies, WrittenCopies
  <1> QED
    BY <1>1, <1>2, <1>3, <1>4, <1>5, <1>6, <1>7 DEF Next, AddStep, SubmitStep, ShowStep, vars,
        AdditionComplete, LoadHaveTotal, LoadTotal, LoadCopied, UpdateSpeedEstimate, CheckBig,
        CheckSmall, Load, Calculate, ReadAnywhere, Show

\* What is copied is at most what is to be copied.
LEMMA CopiedBounded ==
    ASSUME CopyInv, BytesInv
    PROVE  totalBytesCopied \in Nat /\ totalBytesToCopy \in Nat /\ totalBytesCopied <= totalBytesToCopy
  <1>1. WrittenCopies \subseteq CountedCopies  BY DEF WrittenCopies, CountedCopies, CopyInv
  <1>2. /\ Cardinality(BytesOf(WrittenCopies)) \in Nat /\ Cardinality(BytesOf(CountedCopies)) \in Nat
        /\ Cardinality(BytesOf(WrittenCopies)) <= Cardinality(BytesOf(CountedCopies))
    BY <1>1, BytesMonotonic
  <1> QED  BY <1>2 DEF BytesInv

\* A counter that is 0 says that nothing is left to count.
LEMMA NothingRemains ==
    ASSUME CopyInv, BigInv, SmallInv
    PROVE  /\ bigCopiesRemaining = 0 => \A c \in pending \ finished : ~IsBig(c)
           /\ smallCopiesRemaining = 0 => \A c \in pending \ finished : IsBig(c)
  <1> DEFINE B == {c \in noted \ finished : IsBig(c)}
             L == {c \in noted \ finished : ~IsBig(c)}
  <1>1. noted \ finished \subseteq Copies /\ pending \subseteq noted  BY DEF CopyInv
  <1>2. IsFiniteSet(B) /\ IsFiniteSet(L)  BY <1>1, CountFacts
  <1>3. Big(noted \ finished) = Cardinality(B) /\ Small(noted \ finished) = Cardinality(L)
    BY DEF Big, Small
  <1>4. Big(noted \ finished) \in Nat /\ Small(noted \ finished) \in Nat  BY <1>1, CountFacts
  <1>5. /\ bigCopiesRemaining = 0 => Cardinality(B) = 0
        /\ smallCopiesRemaining = 0 => Cardinality(L) = 0
    <2> HIDE DEF B, L
    <2> QED  BY <1>3, <1>4 DEF BigInv, SmallInv
  <1>6. /\ bigCopiesRemaining = 0 => B = {}
        /\ smallCopiesRemaining = 0 => L = {}
    <2> HIDE DEF B, L
    <2> QED  BY <1>2, <1>5, FS_EmptySet
  <1> QED  BY <1>1, <1>6

\* The progress thread's view stays right while the others go on.
LEMMA ShowNext ==
    ASSUME CopyInv, BigInv, SmallInv, BytesInv, ShowInv, [Next]_vars
    PROVE  ShowInv'
  <1> USE DEF addVars, remaining, copyVars, submitVars, totals, quotient, showVars, otherThreads
  <1>1. ASSUME NEW c \in Copies, CountBytes(c) PROVE ShowInv'
    BY <1>1 DEF CountBytes, ShowInv, ShownConsistent, ZeroMeansDone
  <1>2. CASE OnCopyAdded
    BY <1>2 DEF OnCopyAdded, ShowInv, ShownConsistent, ZeroMeansDone
  <1>3. CASE PushCopy
    <2>1. state # "AdditionComplete"  BY <1>3 DEF PushCopy, CopyInv
    <2> QED  BY <1>3, <2>1 DEF PushCopy, ShowInv, ShownConsistent, ZeroMeansDone
  <1>4. CASE AdditionComplete
    BY <1>4 DEF AdditionComplete, ShowInv, ShownConsistent, ZeroMeansDone
  <1>5. CASE SubmitStep
    <2>1. /\ UNCHANGED <<state, totalBytesToCopy, pending, ppc, haveTotal, toCopy, copied>>
          /\ finished \subseteq finished'
      BY <1>5 DEF SubmitStep, FinishWrite, DeleteUnfinished, AddToBuff, OnCopyCompleted
    <2> QED  BY <2>1 DEF ShowInv, ShownConsistent, ZeroMeansDone, IsBig
  <1>6. CASE LoadHaveTotal
    BY <1>6 DEF LoadHaveTotal, ShowInv, ShownConsistent, ZeroMeansDone
  <1>7. CASE LoadTotal
    BY <1>7 DEF LoadTotal, ShowInv, ShownConsistent, ZeroMeansDone
  <1>8. CASE LoadCopied
    <2>1. totalBytesCopied <= totalBytesToCopy  BY CopiedBounded
    <2> QED  BY <1>8, <2>1 DEF LoadCopied, ShowInv, ShownConsistent, ZeroMeansDone
  <1>9. CASE CheckBig
    <2>1. ppc' = "checkSmall" => \A c \in pending \ finished : ~IsBig(c)
      BY <1>9, NothingRemains DEF CheckBig
    <2> QED  BY <1>9, <2>1 DEF CheckBig, ShowInv, ShownConsistent, ZeroMeansDone, IsBig
  <1>10. CASE CheckSmall
    <2>1. ppc' = "zero" => \A c \in pending \ finished : IsBig(c)
      BY <1>10, NothingRemains DEF CheckSmall, NothingSmall
    <2>2. \A c \in pending \ finished : ~IsBig(c)  BY <1>10 DEF CheckSmall, ShowInv
    <2>3. ppc' = "zero" => pending \subseteq finished  BY <2>1, <2>2
    <2> QED  BY <1>10, <2>3 DEF CheckSmall, ShowInv, ShownConsistent, ZeroMeansDone
  <1>11. CASE Show
    BY <1>11 DEF Show, ShowInv, ShownConsistent, ZeroMeansDone
  <1>12. CASE UpdateSpeedEstimate \/ (\E x \in todo : Load(x)) \/ Calculate \/ ReadAnywhere
    <2>1. /\ UNCHANGED <<state, totalBytesToCopy, pending, finished, haveTotal, toCopy, copied>>
          /\ ppc \notin {"idle", "total", "copied"}
          /\ ppc' \notin {"idle", "total", "copied", "checkSmall", "zero"}
      BY <1>12 DEF UpdateSpeedEstimate, Load, Calculate, ReadAnywhere
    <2> QED  BY <2>1 DEF ShowInv, ShownConsistent, ZeroMeansDone
  <1>13. CASE UNCHANGED vars
    BY <1>13 DEF vars, ShowInv, ShownConsistent, ZeroMeansDone, IsBig
  <1> QED
    BY <1>1, <1>2, <1>3, <1>4, <1>5, <1>6, <1>7, <1>8, <1>9, <1>10, <1>11, <1>12, <1>13
    DEF Next, AddStep, ShowStep

-----------------------------------------------------------------------------
(* Induction and recursion over the natural numbers.                       *)

\* A set of natural numbers that is not empty has a least element.
LEMMA Least ==
    ASSUME NEW T, T \subseteq Nat, T # {}
    PROVE  \E x \in T : \A y \in T : x <= y
  <1> DEFINE R == {p \in Nat \X Nat : p[1] < p[2]}
  <1>1. IsWellFoundedOn(R, Nat)  BY NatLessThanWellFounded DEF OpToRel
  <1>2. PICK x \in T : \A y \in T : ~(<<y, x>> \in R)
    <2> HIDE DEF R
    <2> QED  BY <1>1, WFMin
  <1>3. ASSUME NEW y \in T PROVE x <= y
    <2>1. x \in Nat /\ y \in Nat /\ ~(<<y, x>> \in R)  BY <1>2
    <2> QED  BY <2>1
  <1> QED  BY <1>3

\* Induction over the natural numbers, for a set of them.
LEMMA SetInduction ==
    ASSUME NEW T, 0 \in T, \A n \in Nat : n \in T => n + 1 \in T
    PROVE  Nat \subseteq T
  <1> SUFFICES ASSUME Nat \ T # {} PROVE FALSE  OBVIOUS
  <1>1. PICK m \in Nat \ T : \A y \in Nat \ T : m <= y  BY Least
  <1>2. m # 0 /\ m - 1 \in Nat  BY <1>1
  <1>3. m - 1 \in T  BY <1>1, <1>2
  <1> QED  BY <1>1, <1>2, <1>3

\* A function defined by recursion over the natural numbers exists. The step is itself
\* a function, so that the lemma can be used for any of them.
LEMMA RecursionExists ==
    ASSUME NEW S, NEW c \in S, NEW D \in [Nat -> [S -> S]]
    PROVE  \E f : Iterates(f, S, c, D)
  <1> DEFINE Upto(n, g) == g[0] = c /\ \A i \in 0..n-1 : g[i + 1] = D[i][g[i]]
             T == {n \in Nat : \E g \in [Nat -> S] : Upto(n, g)}
  <1>1. Nat \subseteq T
    <2>1. 0 \in T
      <3>1. [i \in Nat |-> c] \in [Nat -> S] /\ Upto(0, [i \in Nat |-> c])  OBVIOUS
      <3> QED  BY <3>1
    <2>2. ASSUME NEW n \in Nat, n \in T PROVE n + 1 \in T
      <3>1. PICK g \in [Nat -> S] : Upto(n, g)  BY <2>2
      <3> DEFINE h == [g EXCEPT ![n + 1] = D[n][g[n]]]
      <3>2. D[n] \in [S -> S] /\ g[n] \in S  OBVIOUS
      <3>3. h \in [Nat -> S]  BY <3>2
      <3>4. h[0] = c  BY <3>1
      <3>5. ASSUME NEW i \in 0..(n+1)-1 PROVE h[i + 1] = D[i][h[i]]
        <4>1. CASE i = n  BY <4>1
        <4>2. CASE i # n  BY <4>2, <3>1
        <4> QED  BY <4>1, <4>2
      <3> HIDE DEF h
      <3> QED  BY <3>3, <3>4, <3>5
    <2> HIDE DEF T
    <2> QED  BY <2>1, <2>2, SetInduction
  <1>2. ASSUME NEW n \in Nat, NEW m \in Nat, n <= m, NEW g \in [Nat -> S], NEW h \in [Nat -> S],
               Upto(n, g), Upto(m, h)
        PROVE  g[n] = h[n]
    <2> DEFINE U == {i \in Nat : i > n \/ g[i] = h[i]}
    <2>1. 0 \in U  BY <1>2
    <2>2. ASSUME NEW i \in Nat, i \in U PROVE i + 1 \in U
      <3>1. CASE i + 1 > n  BY <3>1
      <3>2. CASE i + 1 <= n
        <4>1. i \in 0..n-1 /\ i \in 0..m-1  BY <3>2, <1>2
        <4>2. g[i + 1] = D[i][g[i]] /\ h[i + 1] = D[i][h[i]]  BY <1>2, <4>1
        <4>3. g[i] = h[i]  BY <2>2, <3>2
        <4> QED  BY <4>2, <4>3
      <3> QED  BY <3>1, <3>2
    <2> HIDE DEF U
    <2>3. Nat \subseteq U  BY <2>1, <2>2, SetInduction
    <2> QED  BY <2>3 DEF U
  <1> DEFINE G(n) == CHOOSE g \in [Nat -> S] : Upto(n, g)
             f == [n \in Nat |-> G(n)[n]]
  <1>3. ASSUME NEW n \in Nat PROVE G(n) \in [Nat -> S] /\ Upto(n, G(n))
    <2>1. \E g \in [Nat -> S] : Upto(n, g)  BY <1>1
    <2> QED  BY <2>1
  <1>4. f \in [Nat -> S]
    <2>1. ASSUME NEW n \in Nat PROVE G(n)[n] \in S
      <3>1. G(n) \in [Nat -> S]  BY <1>3
      <3> HIDE DEF G
      <3> QED  BY <3>1
    <2> HIDE DEF G
    <2> QED  BY <2>1
  <1>5. f[0] = c
    <2>1. Upto(0, G(0))  BY <1>3
    <2> HIDE DEF G
    <2> QED  BY <2>1
  <1>6. ASSUME NEW n \in Nat PROVE f[n + 1] = D[n][f[n]]
    <2>1. n + 1 \in Nat /\ n <= n + 1 /\ n \in 0..(n+1)-1  OBVIOUS
    <2>2. G(n) \in [Nat -> S] /\ Upto(n, G(n))  BY <1>3
    <2>3. G(n + 1) \in [Nat -> S] /\ Upto(n + 1, G(n + 1))  BY <1>3, <2>1
    <2> HIDE DEF G
    <2>4. G(n)[n] = G(n + 1)[n]
      <3> HIDE DEF Upto
      <3> QED  BY <1>2, <2>1, <2>2, <2>3
    <2>5. G(n + 1)[n + 1] = D[n][G(n + 1)[n]]  BY <2>1, <2>3
    <2>6. f[n] = G(n)[n] /\ f[n + 1] = G(n + 1)[n + 1]  BY <2>1
    <2> HIDE DEF f, Upto
    <2> QED  BY <2>4, <2>5, <2>6
  <1> HIDE DEF f
  <1> QED  BY <1>4, <1>5, <1>6 DEF Iterates

\* The powers of two: the function that Eta defines by recursion satisfies its equation.
LEMMA TwoToLaw ==
    /\ TwoTo[0] = 1
    /\ \A n \in Nat : TwoTo[n] \in Nat \ {0} /\ TwoTo[n + 1] = 2 * TwoTo[n]
  <1> DEFINE D == [n \in Nat |-> [x \in Nat |-> 2 * x]]
  <1>1. PICK f : Iterates(f, Nat, 1, D)
    <2>1. D \in [Nat -> [Nat -> Nat]]  OBVIOUS
    <2> HIDE DEF D
    <2> QED  BY <2>1, RecursionExists
  <1>2. f \in [Nat -> Nat] /\ f[0] = 1 /\ \A n \in Nat : f[n + 1] = D[n][f[n]]
    BY <1>1 DEF Iterates
  <1>3. f = [n \in Nat |-> IF n = 0 THEN 1 ELSE 2 * f[n - 1]]
    <2>1. ASSUME NEW n \in Nat, n # 0 PROVE f[n] = 2 * f[n - 1]
      <3>1. n - 1 \in Nat /\ (n - 1) + 1 = n /\ f[n - 1] \in Nat  BY <1>2, <2>1
      <3> QED  BY <3>1, <1>2
    <2> QED  BY <2>1, <1>1, <1>2
  <1>4. TwoTo = [n \in Nat |-> IF n = 0 THEN 1 ELSE 2 * TwoTo[n - 1]]
    BY <1>3, Zenon DEF TwoTo
  <1>5. TwoTo[0] = 1  BY <1>4
  <1>6. ASSUME NEW n \in Nat PROVE TwoTo[n + 1] = 2 * TwoTo[n]
    <2>1. n + 1 \in Nat /\ n + 1 # 0 /\ (n + 1) - 1 = n  OBVIOUS
    <2> QED  BY <2>1, <1>4
  <1> DEFINE T == {n \in Nat : TwoTo[n] \in Nat \ {0}}
  <1>7. 0 \in T /\ \A n \in Nat : n \in T => n + 1 \in T  BY <1>5, <1>6
  <1> HIDE DEF T
  <1>8. Nat \subseteq T  BY <1>7, SetInduction
  <1> QED  BY <1>5, <1>6, <1>8 DEF T

-----------------------------------------------------------------------------
(* Division, and the bits of a number.                                     *)

\* The quotient and the remainder are what they are said to be.
LEMMA DivMod ==
    ASSUME NEW a \in Nat, NEW p \in Nat \ {0}
    PROVE  a \div p \in Nat /\ a % p \in Nat /\ a % p < p /\ a = (a \div p) * p + (a % p)
  OBVIOUS

\* A quotient and a remainder that fit are the only ones.
LEMMA DivModUnique ==
    ASSUME NEW p \in Nat \ {0}, NEW q \in Nat, NEW r \in Nat, r < p
    PROVE  (q * p + r) \div p = q /\ (q * p + r) % p = r
  OBVIOUS

\* A power of two is an even multiple of every smaller one.
LEMMA TwoToDivides ==
    ASSUME NEW i \in Nat, NEW m \in Nat, i < m
    PROVE  \E k \in Nat : TwoTo[m] = (2 * k) * TwoTo[i]
  <1> DEFINE T == {d \in Nat : \E k \in Nat : TwoTo[i + 1 + d] = (2 * k) * TwoTo[i]}
  <1>1. 0 \in T
    <2>1. TwoTo[i + 1] = (2 * 1) * TwoTo[i] /\ i + 1 + 0 = i + 1  BY TwoToLaw
    <2> QED  BY <2>1
  <1>2. ASSUME NEW d \in Nat, d \in T PROVE d + 1 \in T
    <2>1. PICK k \in Nat : TwoTo[i + 1 + d] = (2 * k) * TwoTo[i]  BY <1>2
    <2>2. i + 1 + d \in Nat /\ i + 1 + (d + 1) = (i + 1 + d) + 1  OBVIOUS
    <2>3. TwoTo[i + 1 + (d + 1)] = 2 * TwoTo[i + 1 + d]  BY <2>2, TwoToLaw
    <2>4. TwoTo[i] \in Nat  BY TwoToLaw
    <2>5. ASSUME NEW x \in Nat PROVE 2 * ((2 * k) * x) = (2 * (2 * k)) * x  OBVIOUS
    <2>6. TwoTo[i + 1 + (d + 1)] = (2 * (2 * k)) * TwoTo[i]  BY <2>1, <2>3, <2>4, <2>5
    <2>7. PICK j \in Nat : j = 2 * k  OBVIOUS
    <2>8. \E x \in Nat : TwoTo[i + 1 + (d + 1)] = (2 * x) * TwoTo[i]
      <3>1. TwoTo[i + 1 + (d + 1)] = (2 * j) * TwoTo[i]  BY <2>6, <2>7
      <3> QED  BY <3>1
    <2> QED  BY <2>8
  <1> HIDE DEF T
  <1>3. m - i - 1 \in T  BY <1>1, <1>2, SetInduction
  <1>4. i + 1 + (m - i - 1) = m  OBVIOUS
  <1> QED  BY <1>3, <1>4 DEF T

\* What is added above a bit leaves it as it is.
LEMMA BitBelow ==
    ASSUME NEW w \in Nat, NEW c \in Nat, NEW i \in Nat, NEW m \in Nat, i < m
    PROVE  Bit(c * TwoTo[m] + w, i) = Bit(w, i)
  <1>1. PICK k \in Nat : TwoTo[m] = (2 * k) * TwoTo[i]  BY TwoToDivides
  <1>2. PICK p \in Nat \ {0} : p = TwoTo[i]  BY TwoToLaw
  <1>3. PICK q \in Nat, r \in Nat : q = w \div p /\ r = w % p /\ r < p /\ w = q * p + r  BY DivMod
  <1>4. c * ((2 * k) * p) + (q * p + r) = (2 * (c * k) + q) * p + r
    <2>1. ASSUME NEW x \in Nat, NEW y \in Nat PROVE (x + y) * p = x * p + y * p  OBVIOUS
    <2>2. c * ((2 * k) * p) = (2 * (c * k)) * p  OBVIOUS
    <2>3. 2 * (c * k) \in Nat  OBVIOUS
    <2> QED  BY <2>1, <2>2, <2>3
  <1>5. 2 * (c * k) + q \in Nat  OBVIOUS
  <1>6. ((2 * (c * k) + q) * p + r) \div p = 2 * (c * k) + q
    <2>1. PICK x \in Nat : x = 2 * (c * k) + q  BY <1>5
    <2>2. (x * p + r) \div p = x  BY <1>3, DivModUnique
    <2> QED  BY <2>1, <2>2
  <1>8. c * TwoTo[m] + w = (2 * (c * k) + q) * p + r  BY <1>1, <1>2, <1>3, <1>4
  <1>7. (2 * (c * k) + q) % 2 = q % 2
    <2>1. PICK n \in Nat : n = c * k  OBVIOUS
    <2>2. (2 * n + q) % 2 = q % 2  OBVIOUS
    <2> QED  BY <2>1, <2>2
  <1> QED  BY <1>2, <1>3, <1>6, <1>7, <1>8 DEF Bit

\* Masking keeps the bits below the mask.
LEMMA BitMasked ==
    ASSUME NEW w \in Nat, NEW i \in Nat, NEW m \in Nat, i < m
    PROVE  Bit(w % TwoTo[m], i) = Bit(w, i)
  <1>1. TwoTo[m] \in Nat \ {0}  BY TwoToLaw
  <1>2. PICK q \in Nat, r \in Nat : q = w \div TwoTo[m] /\ r = w % TwoTo[m] /\ w = q * TwoTo[m] + r
    BY <1>1, DivMod
  <1>3. Bit(q * TwoTo[m] + r, i) = Bit(r, i)  BY BitBelow
  <1> QED  BY <1>2, <1>3

\* Shifting a bit in.
LEMMA BitShifted ==
    ASSUME NEW w \in Nat, NEW b \in {0, 1}
    PROVE  /\ Bit(w * 2 + b, 0) = b
           /\ \A i \in Nat : Bit(w * 2 + b, i + 1) = Bit(w, i)
  <1>1. Bit(w * 2 + b, 0) = b
    <2>1. (w * 2 + b) \div 1 = w * 2 + b /\ (w * 2 + b) % 2 = b  OBVIOUS
    <2> QED  BY <2>1, TwoToLaw DEF Bit
  <1>2. ASSUME NEW i \in Nat PROVE Bit(w * 2 + b, i + 1) = Bit(w, i)
    <2>1. PICK p \in Nat \ {0} : p = TwoTo[i]  BY TwoToLaw
    <2>2. PICK q \in Nat, r \in Nat : q = w \div p /\ r < p /\ w = q * p + r  BY DivMod
    <2>3. 2 * p \in Nat \ {0} /\ 2 * r + b \in Nat /\ 2 * r + b < 2 * p  BY <2>2
    <2>4. q * (2 * p) = 2 * (q * p)  OBVIOUS
    <2>5. w * 2 + b = q * (2 * p) + (2 * r + b)
      <3>1. PICK x \in Nat : x = q * p  OBVIOUS
      <3>2. w = x + r /\ q * (2 * p) = 2 * x  BY <2>2, <2>4, <3>1
      <3> HIDE DEF Bit
      <3> QED  BY <3>2
    <2>6. (w * 2 + b) \div (2 * p) = q  BY <2>3, <2>5, DivModUnique
    <2>7. TwoTo[i + 1] = 2 * p  BY <2>1, TwoToLaw
    <2> QED  BY <2>1, <2>2, <2>6, <2>7 DEF Bit
  <1> QED  BY <1>1, <1>2
\* The smaller of two numbers.
LEMMA MinOfTwo ==
    ASSUME NEW a \in Nat, NEW b \in Nat
    PROVE  Min({a, b}) = (IF a < b THEN a ELSE b) /\ Min({a, b}) \in Nat
  <1>1. \E x \in {a, b} : \A y \in {a, b} : x <= y  OBVIOUS
  <1>2. Min({a, b}) \in {a, b} /\ \A y \in {a, b} : Min({a, b}) <= y  BY <1>1 DEF Min
  <1> QED  BY <1>2

\* The word that addToBuff builds: the count above the set, and the set shifted by one bit.
LEMMA ShiftedWord ==
    ASSUME NEW w \in Nat, NEW b \in {0, 1}, GetCount(w) \in Nat
    PROVE  /\ Shifted(w, b) \in Nat
           /\ GetCount(Shifted(w, b)) = Min({GetCount(w) + 1, SetBits})
           /\ \A i \in 0..SetBits-1 :
                 Bit(Shifted(w, b), i) = IF i = 0 THEN b ELSE Bit(w, i - 1)
  <1> DEFINE P == TwoTo[SetBits]
             s == w % P
             c == Min({GetCount(w) + 1, SetBits})
             low == (s * 2 + b) % P
  <1>1. SetBits \in Nat  BY EtaAssumption
  <1>2. P \in Nat \ {0}  BY <1>1, TwoToLaw
  <1>3. s \in Nat  BY <1>2, DivMod
  <1>4. s * 2 + b \in Nat  BY <1>3
  <1>5. low \in Nat /\ low < P
    <2>1. PICK x \in Nat : x = s * 2 + b  BY <1>4
    <2>2. x % P \in Nat /\ x % P < P  BY <1>2, DivMod
    <2> QED  BY <2>1, <2>2
  <1>6. c \in Nat  BY <1>1, MinOfTwo
  <1>7. Shifted(w, b) = c * P + low  
    <2>1. Shifted(w, b) = low + c * P  BY DEF Shifted, GetSet
    <2> HIDE DEF c, low, P
    <2>2. c * P \in Nat  BY <1>2, <1>6
    <2> QED  BY <2>1, <2>2, <1>5
  <1> HIDE DEF P, s, c, low
  <1>8. c * P + low \in Nat  BY <1>2, <1>5, <1>6
  <1>9. GetCount(c * P + low) = c
    <2>1. (c * P + low) \div P = c  BY <1>2, <1>5, <1>6, DivModUnique
    <2> QED  BY <2>1 DEF GetCount, P
  <1>10. ASSUME NEW i \in 0..SetBits-1
         PROVE  Bit(c * P + low, i) = IF i = 0 THEN b ELSE Bit(w, i - 1)
    <2>1. i \in Nat /\ i < SetBits  BY <1>1
    <2>2. Bit(c * P + low, i) = Bit(low, i)  BY <1>1, <1>5, <1>6, <2>1, BitBelow DEF P
    <2>3. Bit(low, i) = Bit(s * 2 + b, i)
      <3>1. PICK x \in Nat : x = s * 2 + b  BY <1>4
      <3>2. Bit(x % TwoTo[SetBits], i) = Bit(x, i)  BY <1>1, <2>1, BitMasked
      <3> QED  BY <3>1, <3>2 DEF low, P
    <2>4. CASE i = 0  BY <1>3, <2>2, <2>3, <2>4, BitShifted
    <2>5. CASE i # 0
      <3>1. i - 1 \in Nat /\ i - 1 < SetBits /\ (i - 1) + 1 = i  BY <1>1, <2>1, <2>5
      <3>2. Bit(s * 2 + b, (i - 1) + 1) = Bit(s, i - 1)  BY <1>3, <3>1, BitShifted
      <3>3. Bit(s, i - 1) = Bit(w, i - 1)
        <4>1. PICK j \in Nat : j = i - 1  BY <3>1
        <4>2. Bit(w % TwoTo[SetBits], j) = Bit(w, j)  BY <1>1, <3>1, <4>1, BitMasked
        <4> QED  BY <4>1, <4>2 DEF s, P
      <3> QED  BY <2>2, <2>3, <2>5, <3>1, <3>2, <3>3
    <2> QED  BY <2>4, <2>5
  <1> QED  BY <1>7, <1>8, <1>9, <1>10 DEF c

\* addToBuff keeps the word in step with the copies that have ended.
LEMMA BitNext ==
    ASSUME BitInv, [Next]_vars
    PROVE  BitInv'
  <1>1. CASE AddToBuff
    <2> DEFINE n == Len(history)
               b == IF IsBig(finishing) THEN 1 ELSE 0
               w == atomicBuffer
    <2>1. /\ atomicBuffer' = Shifted(w, b)
          /\ history' = Append(history, IsBig(finishing))
      BY <1>1 DEF AddToBuff
    <2>2. history \in Seq(BOOLEAN) /\ w \in Nat /\ n \in Nat  BY DEF BitInv
    <2>3. IsBig(finishing) \in BOOLEAN  BY DEF IsBig
    <2>4. /\ history' \in Seq(BOOLEAN) /\ Len(history') = n + 1
          /\ history'[n + 1] = IsBig(finishing)
          /\ \A i \in 1..n : history'[i] = history[i]
      BY <2>1, <2>2, <2>3
    <2>5. SetBits \in Nat  BY EtaAssumption
    <2>6. GetCount(w) = Min({n, SetBits}) /\ GetCount(w) \in Nat
      BY <2>2, <2>5, MinOfTwo DEF BitInv
    <2>7. b \in {0, 1}  OBVIOUS
    <2> HIDE DEF b
    <2>8. /\ Shifted(w, b) \in Nat
          /\ GetCount(Shifted(w, b)) = Min({GetCount(w) + 1, SetBits})
          /\ \A i \in 0..SetBits-1 :
                Bit(Shifted(w, b), i) = IF i = 0 THEN b ELSE Bit(w, i - 1)
      BY <2>2, <2>6, <2>7, ShiftedWord
    <2>9. Min({GetCount(w) + 1, SetBits}) = Min({n + 1, SetBits})
      <3>1. /\ Min({n, SetBits}) = IF n < SetBits THEN n ELSE SetBits
            /\ Min({n + 1, SetBits}) = IF n + 1 < SetBits THEN n + 1 ELSE SetBits
            /\ Min({GetCount(w) + 1, SetBits}) = IF GetCount(w) + 1 < SetBits THEN GetCount(w) + 1 ELSE SetBits
        BY <2>2, <2>5, <2>6, MinOfTwo
      <3> QED  BY <3>1, <2>2, <2>5, <2>6
    <2>10. ASSUME NEW i \in 0..SetBits-1
           PROVE  Bit(atomicBuffer', i) = IF i < n + 1 /\ history'[n + 1 - i] THEN 1 ELSE 0
      <3>1. i \in Nat /\ i < SetBits  BY <2>5
      <3>2. CASE i = 0
        <4>1. n + 1 - i = n + 1 /\ i < n + 1  BY <2>2, <3>2
        <4>2. Bit(atomicBuffer', i) = b  BY <2>1, <2>8, <3>2
        <4> QED  BY <2>4, <4>1, <4>2 DEF b
      <3>3. CASE i # 0
        <4>1. i - 1 \in 0..SetBits-1 /\ n + 1 - i = n - (i - 1) /\ (i < n + 1 <=> i - 1 < n)
          BY <2>2, <3>1, <3>3, <2>5
        <4>2. Bit(atomicBuffer', i) = Bit(w, i - 1)  BY <2>1, <2>8, <3>3
        <4>3. Bit(w, i - 1) = IF i - 1 < n /\ history[n - (i - 1)] THEN 1 ELSE 0
          BY <4>1 DEF BitInv
        <4>4. i - 1 < n => n - (i - 1) \in 1..n  BY <2>2, <3>1, <3>3
        <4> QED  BY <2>4, <4>1, <4>2, <4>3, <4>4
      <3> QED  BY <3>2, <3>3
    <2>11. GetCount(atomicBuffer') = Min({Len(history'), SetBits})  BY <2>1, <2>4, <2>8, <2>9
    <2>12. atomicBuffer' \in Nat  BY <2>1, <2>8
    <2>13. \A i \in 0..SetBits-1 :
              Bit(atomicBuffer', i) = IF i < Len(history') /\ history'[Len(history') - i] THEN 1 ELSE 0
      BY <2>4, <2>10
    <2> QED  BY <2>4, <2>11, <2>12, <2>13 DEF BitInv, GetCount, Bit
  <1>2. CASE UNCHANGED <<atomicBuffer, history>>  BY <1>2 DEF BitInv, GetCount, Bit
  <1>3. AddToBuff \/ UNCHANGED <<atomicBuffer, history>>
    BY DEF Next, AddStep, SubmitStep, ShowStep, CountBytes, OnCopyAdded, PushCopy, AdditionComplete,
        FinishWrite, DeleteUnfinished, OnCopyCompleted, LoadHaveTotal, LoadTotal, LoadCopied,
        UpdateSpeedEstimate, CheckBig, CheckSmall, Load, Calculate, ReadAnywhere, Show,
        vars, submitVars, otherThreads
  <1> QED  BY <1>1, <1>2, <1>3

\* The bits that are on are as many as the big copies among the last ones.
LEMMA BitsOn ==
    ASSUME BitInv
    PROVE  BitsetExact
  <1> DEFINE n == Len(history)
             w == atomicBuffer
             On == {i \in 0..MaskBits-1 : (GetSet(w, MaskBits) \div TwoTo[i]) % 2 = 1}
             Recent == {i \in 1..n : i > n - MaskBits /\ history[i]}
             F == [i \in On |-> n - i]
  <1>1. n \in Nat /\ w \in Nat /\ MaskBits \in Nat /\ SetBits \in Nat /\ MaskBits <= SetBits
    BY EtaAssumption DEF BitInv
  <1>2. On = {i \in 0..MaskBits-1 : i < n /\ history[n - i]}
    <2>1. ASSUME NEW i \in 0..MaskBits-1
          PROVE  (GetSet(w, MaskBits) \div TwoTo[i]) % 2 = 1 <=> i < n /\ history[n - i]
      <3>1. i \in Nat /\ i < MaskBits /\ i \in 0..SetBits-1  BY <1>1
      <3>2. Bit(w % TwoTo[MaskBits], i) = Bit(w, i)  BY <1>1, <3>1, BitMasked
      <3>3. Bit(w, i) = IF i < n /\ history[n - i] THEN 1 ELSE 0  BY <3>1 DEF BitInv
      <3> QED  BY <3>2, <3>3 DEF Bit, GetSet
    <2> QED  BY <2>1
  <1>3. F \in Bijection(On, Recent)
    <2>1. \A i \in On : i \in Nat /\ i <= n /\ n - i \in Recent  BY <1>1, <1>2
    <2>2. \A j \in Recent : n - j \in On /\ n - (n - j) = j  BY <1>1, <1>2
    <2> HIDE DEF On, Recent
    <2>3. F \in [On -> Recent]  BY <2>1
    <2>4. \A i, j \in On : F[i] = F[j] => i = j  BY <1>1, <2>1
    <2>5. \A j \in Recent : \E i \in On : F[i] = j  BY <2>2
    <2> HIDE DEF F
    <2> QED  BY <2>3, <2>4, <2>5 DEF Bijection, Injection, IsInjective, Surjection
  <1>4. IsFiniteSet(On)
    <2>1. IsFiniteSet(0..MaskBits-1)  BY <1>1, FS_Interval
    <2> QED  BY <2>1, FS_Subset
  <1>5. Cardinality(On) = Cardinality(Recent)
    <2> HIDE DEF On, Recent, F
    <2>1. ExistsBijection(On, Recent)  BY <1>3 DEF ExistsBijection
    <2> QED  BY <1>4, <2>1, FS_Bijection
  <1>6. GetCount(w) = Min({n, SetBits})  BY DEF BitInv
  <1>7. GetBitsOnCount(w) = Cardinality(On)  BY DEF GetBitsOnCount
  <1> HIDE DEF On
  <1> QED  BY <1>5, <1>6, <1>7 DEF BitsetExact

-----------------------------------------------------------------------------
(* The buckets of an estimate.                                             *)

\* The quotient that is rounded lies between the one rounded down and the one rounded up,
\* which are neighbours at most.
LEMMA RoundBetween ==
    ASSUME num \in Nat, den \in Nat
    PROVE  /\ Floor \in Nat /\ Ceil \in Nat /\ Round \in Nat
           /\ Floor <= Round /\ Round <= Ceil /\ Ceil <= Floor + 1
  <1>1. Last \in Nat  BY EtaAssumption DEF Last, BUCKET_COUNT
  <1>2. CASE num >= den  BY <1>1, <1>2 DEF Floor, Ceil, Round
  <1>3. CASE num < den
    <2>1. PICK x \in Nat : x = num * Last  BY <1>1
    <2>2. den \in Nat \ {0} /\ 2 * den \in Nat \ {0}  BY <1>3
    <2>3. PICK q \in Nat, r \in Nat : q = x \div den /\ r < den /\ x = q * den + r
      BY <2>2, DivMod
    <2>4. 2 * num * Last = 2 * x
      <3>1. (2 * num) * Last = 2 * (num * Last)  BY <1>1
      <3> QED  BY <2>1, <3>1
    <2>5. Floor = q  BY <1>3, <2>1, <2>3 DEF Floor
    <2>6. PICK y \in Nat : y = q * den  OBVIOUS
    <2>7. (q + 1) * den = y + den /\ q * (2 * den) = 2 * y /\ (q + 1) * (2 * den) = 2 * y + 2 * den
      BY <2>6
    <2>8. Ceil = IF r = 0 THEN q ELSE q + 1
      <3>1. Ceil = (x + den - 1) \div den  BY <1>3, <2>1 DEF Ceil
      <3>2. CASE r = 0
        <4>1. x + den - 1 = q * den + (den - 1) /\ den - 1 \in Nat /\ den - 1 < den
          BY <2>2, <2>3, <2>6, <3>2
        <4>2. PICK e \in Nat : e = den - 1  BY <4>1
        <4>3. (q * den + e) \div den = q  BY <2>2, <4>1, <4>2, DivModUnique
        <4> QED  BY <3>1, <3>2, <4>1, <4>2, <4>3
      <3>3. CASE r # 0
        <4>1. x + den - 1 = (q + 1) * den + (r - 1) /\ r - 1 \in Nat /\ r - 1 < den
          BY <2>2, <2>3, <2>6, <2>7, <3>3
        <4>2. PICK e \in Nat, k \in Nat : e = r - 1 /\ k = q + 1  BY <4>1
        <4>3. (k * den + e) \div den = k  BY <2>2, <4>1, <4>2, DivModUnique
        <4> QED  BY <3>1, <3>3, <4>1, <4>2, <4>3
      <3> QED  BY <3>2, <3>3
    <2>9. Round = IF 2 * r < den THEN q ELSE q + 1
      <3>1. Round = (2 * x + den) \div (2 * den)  BY <1>3, <2>4 DEF Round
      <3>2. PICK d \in Nat \ {0} : d = 2 * den  BY <2>2
      <3>3. CASE 2 * r < den
        <4>1. PICK e \in Nat : e = 2 * r + den  OBVIOUS
        <4>2. 2 * x + den = q * d + e /\ e < d  BY <2>3, <2>6, <2>7, <3>2, <3>3, <4>1
        <4>3. (q * d + e) \div d = q  BY <4>2, DivModUnique
        <4> QED  BY <3>1, <3>2, <3>3, <4>2, <4>3
      <3>4. CASE ~(2 * r < den)
        <4>0. 2 * r - den \in Nat /\ q + 1 \in Nat  BY <2>2, <3>4
        <4>1. PICK e \in Nat, k \in Nat : e = 2 * r - den /\ k = q + 1  BY <4>0
        <4>2. 2 * x + den = k * d + e /\ e < d  BY <2>3, <2>6, <2>7, <3>2, <3>4, <4>1
        <4>3. (k * d + e) \div d = k  BY <4>2, DivModUnique
        <4> QED  BY <3>1, <3>2, <3>4, <4>1, <4>2, <4>3
      <3> QED  BY <3>3, <3>4
    <2> HIDE DEF Floor, Ceil, Round
    <2> QED  BY <2>2, <2>5, <2>8, <2>9
  <1> QED  BY <1>2, <1>3

\* The search ends at a bucket that has been measured and that no such bucket is nearer than;
\* at -1 only if there is none.
LEMMA BestIsNearest ==
    ASSUME num \in Nat, den \in Nat
    PROVE  \/ BestIndex = -1 /\ Measured = {}
           \/ /\ BestIndex \in Measured
              /\ \A c \in Measured : Distance(BestIndex, Round) <= Distance(c, Round)
  <1> DEFINE S == -1..Last
             D == [n \in Nat |-> [p \in S |-> IF n \in Measured /\ Nearer(n, p) THEN n ELSE p]]
             R == Round
  <1>1. Last \in Nat /\ R \in Nat  BY RoundBetween, EtaAssumption DEF Last, BUCKET_COUNT
  <1>2. Measured \subseteq 0..Last  BY DEF Measured, Buckets, Last
  <1>3. PICK h : Iterates(h, S, -1, D)
    <2>1. D \in [Nat -> [S -> S]] /\ -1 \in S  BY <1>1, <1>2
    <2> HIDE DEF D, S
    <2> QED  BY <2>1, RecursionExists
  <1>4. h \in [Nat -> S] /\ h[0] = -1 /\ \A n \in Nat : h[n + 1] = D[n][h[n]]
    BY <1>3 DEF Iterates
  <1>5. ASSUME NEW n \in Nat
        PROVE  h[n + 1] = IF n \in Measured /\ Nearer(n, h[n]) THEN n ELSE h[n]
    <2>1. h[n] \in S  BY <1>4
    <2> HIDE DEF S
    <2> QED  BY <1>4, <2>1
  <1> HIDE DEF D
  <1>6. BestIndex = h[Last + 1]
    <2> DEFINE Eqn(f) == f = [i \in -1..Last |->
                   IF i # -1 /\ i \in Measured /\ Nearer(i, f[i - 1]) THEN i
                   ELSE IF i = -1 THEN -1 ELSE f[i - 1]]
               g == [i \in -1..Last |-> h[i + 1]]
    <2>1. Eqn(g)
      <3>1. ASSUME NEW i \in -1..Last
            PROVE  h[i + 1] = IF i # -1 /\ i \in Measured /\ Nearer(i, g[i - 1]) THEN i
                              ELSE IF i = -1 THEN -1 ELSE g[i - 1]
        <4>1. CASE i = -1  BY <1>4, <4>1
        <4>2. CASE i # -1
          <5>1. i \in Nat /\ i - 1 \in -1..Last /\ (i - 1) + 1 = i  BY <1>1, <4>2
          <5>2. g[i - 1] = h[i]  BY <5>1
          <5> HIDE DEF g
          <5> QED  BY <1>5, <4>2, <5>1, <5>2
        <4> QED  BY <4>1, <4>2
      <3> QED  BY <3>1
    <2> DEFINE best == CHOOSE f : Eqn(f)
    <2>2. Eqn(best)
      <3> HIDE DEF g, Eqn
      <3> QED  BY <2>1
    <2>3. BestIndex = best[Last]  BY Zenon DEF BestIndex
    <2> HIDE DEF best
    <2> DEFINE T == {n \in Nat : n <= Last + 1 => best[n - 1] = h[n]}
    <2>4. 0 \in T
      <3>1. 0 - 1 = -1 /\ -1 \in -1..Last  BY <1>1
      <3> QED  BY <1>4, <2>2, <3>1
    <2>5. ASSUME NEW n \in Nat, n \in T PROVE n + 1 \in T
      <3> SUFFICES ASSUME n + 1 <= Last + 1 PROVE best[(n + 1) - 1] = h[n + 1]  OBVIOUS
      <3>1. (n + 1) - 1 = n /\ n # -1 /\ n \in -1..Last /\ best[n - 1] = h[n]  BY <1>1, <2>5
      <3>2. best[n] = IF n \in Measured /\ Nearer(n, best[n - 1]) THEN n ELSE best[n - 1]
        BY <2>2, <3>1
      <3> QED  BY <1>5, <3>1, <3>2
    <2> HIDE DEF T
    <2>6. Last + 1 \in T  BY <1>1, <2>4, <2>5, SetInduction
    <2>7. best[(Last + 1) - 1] = h[Last + 1]  BY <1>1, <2>6 DEF T
    <2> QED  BY <1>1, <2>3, <2>7
  <1> DEFINE Best(n, p) ==
                 \/ p = -1 /\ \A c \in Measured : ~(c < n)
                 \/ p \in Measured /\ \A c \in Measured : c < n => Distance(p, R) <= Distance(c, R)
             T == {n \in Nat : Best(n, h[n])}
  <1>7. 0 \in T  BY <1>2, <1>4
  <1>8. ASSUME NEW n \in Nat, n \in T PROVE n + 1 \in T
    <2>1. \A c \in Measured : c \in Int /\ c >= 0 /\ (c < n + 1 <=> c < n \/ c = n)  BY <1>1, <1>2
    <2>2. \A c \in Measured : Distance(c, R) \in Nat  BY <1>1, <2>1 DEF Distance
    <2>3. Best(n, h[n])  BY <1>8
    <2>4. h[n + 1] = IF n \in Measured /\ Nearer(n, h[n]) THEN n ELSE h[n]  BY <1>5
    <2>5. Nearer(n, h[n]) <=> (h[n] = -1 \/ Distance(n, R) < Distance(h[n], R))  BY DEF Nearer
    <2>6. Best(n + 1, h[n + 1])
      <3> HIDE DEF R
      <3>1. CASE n \notin Measured  BY <2>1, <2>3, <2>4, <3>1
      <3>2. CASE n \in Measured /\ h[n] = -1
        <4>1. h[n + 1] = n /\ n # -1  BY <2>4, <2>5, <3>2
        <4>2. \A c \in Measured : ~(c < n)  BY <2>3, <2>1, <3>2
        <4>3. \A c \in Measured : c < n + 1 => c = n  BY <2>1, <4>2
        <4>4. \A c \in Measured : c < n + 1 => Distance(n, R) <= Distance(c, R)  BY <2>2, <3>2, <4>3
        <4> QED  BY <3>2, <4>1, <4>4
      <3>3. CASE n \in Measured /\ h[n] # -1
        <4>1. h[n] \in Measured /\ \A c \in Measured : c < n => Distance(h[n], R) <= Distance(c, R)
          BY <2>3, <3>3
        <4>2. CASE Distance(n, R) < Distance(h[n], R)
          <5>1. h[n + 1] = n  BY <2>4, <2>5, <3>3, <4>2
          <5>2. ASSUME NEW c \in Measured, c < n + 1 PROVE Distance(n, R) <= Distance(c, R)
            <6>1. c = n \/ Distance(h[n], R) <= Distance(c, R)  BY <2>1, <4>1, <5>2
            <6>2. Distance(h[n], R) \in Nat /\ Distance(n, R) \in Nat /\ Distance(c, R) \in Nat
              BY <2>2, <3>3, <4>1
            <6> QED  BY <4>2, <6>1, <6>2
          <5> QED  BY <3>3, <5>1, <5>2
        <4>3. CASE ~(Distance(n, R) < Distance(h[n], R))
          <5>1. h[n + 1] = h[n]  BY <2>4, <2>5, <3>3, <4>3
          <5>2. ASSUME NEW c \in Measured, c < n + 1 PROVE Distance(h[n], R) <= Distance(c, R)
            <6>1. c = n \/ Distance(h[n], R) <= Distance(c, R)  BY <2>1, <4>1, <5>2
            <6>2. Distance(h[n], R) \in Nat /\ Distance(n, R) \in Nat  BY <2>2, <3>3, <4>1
            <6> QED  BY <4>3, <6>1, <6>2
          <5> QED  BY <4>1, <5>1, <5>2
        <4> QED  BY <4>2, <4>3
      <3> QED  BY <3>1, <3>2, <3>3
    <2> QED  BY <2>6
  <1> HIDE DEF T
  <1>9. Last + 1 \in T  BY <1>1, <1>7, <1>8, SetInduction
  <1>10. Best(Last + 1, h[Last + 1])  BY <1>9 DEF T
  <1>11. \A c \in Measured : c < Last + 1  BY <1>1, <1>2
  <1> QED  BY <1>6, <1>10, <1>11

\* The buckets that calculate() chooses have been measured, and no other is nearer.
LEMMA ChosenNearest ==
    ASSUME num \in Nat, den \in Nat
    PROVE  /\ Chosen \subseteq Measured
           /\ \A b \in Chosen, c \in Measured \ Chosen : Distance(b, Round) <= Distance(c, Round)
  <1>1. CASE {Floor, Ceil} \subseteq Measured
    <2>1. Chosen = {Floor, Ceil}  BY <1>1 DEF Chosen
    <2>2. /\ Floor \in Nat /\ Ceil \in Nat /\ Round \in Nat
          /\ Floor <= Round /\ Round <= Ceil /\ Ceil <= Floor + 1
      BY RoundBetween
    <2>3. ASSUME NEW b \in {Floor, Ceil}, NEW c \in Measured \ {Floor, Ceil}
          PROVE  Distance(b, Round) <= Distance(c, Round)
      <3>1. c \in Int  BY EtaAssumption DEF Measured, Buckets, BUCKET_COUNT
      <3> QED  BY <2>2, <2>3, <3>1 DEF Distance
    <2> QED  BY <1>1, <2>1, <2>3
  <1>2. CASE ~({Floor, Ceil} \subseteq Measured)
    <2>1. Chosen = {BestIndex} \ {-1}  BY <1>2 DEF Chosen
    <2> QED  BY <2>1, BestIsNearest
  <1> QED  BY <1>1, <1>2

\* A step of the progress thread keeps what it has loaded in range, and what it shows is what
\* it chose; no other thread changes either.
LEMMA SearchNext ==
    ASSUME BigInv, SmallInv, SearchInv, [Next]_vars
    PROVE  SearchInv'
  <1> USE DEF addVars, remaining, copyVars, submitVars, totals, quotient, showVars, otherThreads
  <1>0. Modulus \in Nat \ {0}
    <2>1. Cardinality(Copies) \in Nat  BY EtaAssumption, FS_CardinalityType
    <2> QED  BY <2>1, EtaAssumption
  <1>1. CASE AddStep \/ SubmitStep \/ UNCHANGED vars
    <2>1. UNCHANGED <<ppc, todo, num, den, threshold, sampleCount, estimate>>
      BY <1>1 DEF AddStep, CountBytes, OnCopyAdded, PushCopy, AdditionComplete,
          SubmitStep, FinishWrite, DeleteUnfinished, AddToBuff, OnCopyCompleted, vars
    <2> QED  BY <2>1 DEF SearchInv, NearestBuckets, Measured, Distance, Round
  <1>2. CASE LoadHaveTotal \/ LoadTotal \/ LoadCopied \/ UpdateSpeedEstimate \/ CheckSmall \/ ReadAnywhere
    BY <1>2 DEF LoadHaveTotal, LoadTotal, LoadCopied, UpdateSpeedEstimate, CheckSmall, ReadAnywhere,
        SearchInv, NearestBuckets
  <1>3. CASE CheckBig \/ Show
    BY <1>3 DEF CheckBig, Show, SearchInv, NearestBuckets
  <1>4. ASSUME NEW x \in todo, Load(x) PROVE SearchInv'
    <2>1. x \in {"num", "denBig", "denSmall"} /\ num \in Nat /\ den \in Nat  BY DEF SearchInv
    <2>2. bigCopiesRemaining \in Nat /\ smallCopiesRemaining \in Nat  BY DEF BigInv, SmallInv
    <2>3. \A a \in Nat : a % Modulus \in Nat  BY <1>0
    <2>4. num' \in Nat  BY <1>4, <2>1, <2>2 DEF Load
    <2>5. den' \in {den, (den + bigCopiesRemaining) % Modulus, (den + smallCopiesRemaining) % Modulus}
      BY <1>4, <2>1 DEF Load
    <2>6. den' \in Nat  BY <2>1, <2>2, <2>3, <2>5
    <2>7. ppc' # "show" /\ todo' \subseteq todo  BY <1>4 DEF Load
    <2> QED  BY <2>4, <2>6, <2>7 DEF SearchInv, NearestBuckets
  <1>5. CASE Calculate
    <2>1. num \in Nat /\ den \in Nat  BY DEF SearchInv
    <2>2. CASE ppc' = "load"
      BY <1>5, <2>2 DEF Calculate, SearchInv, NearestBuckets
    <2>3. CASE ppc' # "load"
      <3>1. UNCHANGED <<todo, num, den, threshold, sampleCount>> /\ estimate' = Chosen
        BY <1>5, <2>3 DEF Calculate
      <3>2. /\ Chosen \subseteq Measured
            /\ \A b \in Chosen, c \in Measured \ Chosen : Distance(b, Round) <= Distance(c, Round)
        BY <2>1, ChosenNearest
      <3>3. Measured' = Measured /\ Round' = Round  BY <3>1 DEF Measured, Round
      <3>4. NearestBuckets'
        <4> HIDE DEF Measured, Round, Chosen
        <4> QED  BY <3>1, <3>2, <3>3 DEF NearestBuckets, Distance
      <3> QED  BY <3>1, <3>4 DEF SearchInv
    <2> QED  BY <2>2, <2>3
  <1> QED  BY <1>1, <1>2, <1>3, <1>4, <1>5 DEF Next, ShowStep

-----------------------------------------------------------------------------
(* Theorems.                                                               *)

\* The invariant holds.
LEMMA EtaHolds == Spec => []EtaInv
  <1>1. Init => EtaInv
    <2> SUFFICES ASSUME Init PROVE EtaInv  OBVIOUS
    <2>1. CopyInv /\ ShowInv
      BY DEF Init, CopyInv, ShowInv, ShownConsistent, ZeroMeansDone
    <2>2. Big({}) = 0 /\ Small({}) = 0  BY FS_EmptySet DEF Big, Small
    <2>3. noted = {} /\ noted \ finished = {}  BY DEF Init
    <2>4. BigInv /\ SmallInv  BY <2>2, <2>3 DEF Init, BigInv, SmallInv
    <2>5. Cardinality(BytesOf({})) = 0
      <3>1. BytesOf({}) = {}  BY DEF BytesOf
      <3> QED  BY <3>1, FS_EmptySet
    <2>6. CountedCopies = {} /\ WrittenCopies = {}  BY DEF Init, CountedCopies, WrittenCopies
    <2>7. BytesInv  BY <2>5, <2>6 DEF Init, BytesInv
    <2>8. BitInv
      <3>1. SetBits \in Nat  BY EtaAssumption
      <3>2. \A n \in Nat : TwoTo[n] \in Nat \ {0}  BY TwoToLaw
      <3>3. \A a \in Nat \ {0} : 0 \div a = 0  OBVIOUS
      <3>4. atomicBuffer = 0 /\ history = <<>> /\ Len(history) = 0  BY DEF Init
      <3>5. GetCount(0) = 0 /\ \A i \in Nat : Bit(0, i) = 0  BY <3>1, <3>2, <3>3 DEF GetCount, Bit
      <3>6. Min({0, SetBits}) = 0  BY <3>1, MinOfTwo
      <3> QED  BY <3>1, <3>4, <3>5, <3>6 DEF BitInv
    <2>9. SearchInv  BY DEF Init, SearchInv, NearestBuckets
    <2> QED  BY <2>1, <2>4, <2>7, <2>8, <2>9 DEF EtaInv
  <1>2. EtaInv /\ [Next]_vars => EtaInv'
    BY CopyNext, RemainingNext, BytesNext, ShowNext, BitNext, SearchNext DEF EtaInv
  <1> QED  BY <1>1, <1>2, PTL DEF Spec

\* ETACalculator's two counters, incremented by the adding thread and decremented by the
\* submit thread, never wrap below zero and never count less than is left to copy.
THEOREM RemainingNeverWraps == Spec => []RemainingCovers
  <1>1. EtaInv => RemainingCovers
    <2> SUFFICES ASSUME EtaInv PROVE RemainingCovers  OBVIOUS
    <2>1. noted \subseteq Copies /\ noted \ finished \subseteq Copies
          /\ pending \ finished \subseteq noted \ finished /\ pending \ finished \subseteq Copies
      BY DEF EtaInv, CopyInv
    <2>2. /\ Big(pending \ finished) <= Big(noted \ finished)
          /\ Small(pending \ finished) <= Small(noted \ finished)
      BY <2>1, CountMonotonic
    <2>3. /\ Big(noted) \in Nat /\ Small(noted) \in Nat
          /\ Big(noted \ finished) \in Nat /\ Small(noted \ finished) \in Nat
          /\ Big(pending \ finished) \in Nat /\ Small(pending \ finished) \in Nat
          /\ Big(noted) <= Cardinality(Copies) /\ Small(noted) <= Cardinality(Copies)
      BY <2>1, CountFacts
    <2>4. Cardinality(Copies) \in Nat  BY EtaAssumption, FS_CardinalityType
    <2> QED  BY <2>2, <2>3, <2>4 DEF EtaInv, BigInv, SmallInv, RemainingCovers
  <1> QED  BY <1>1, EtaHolds, PTL

\* showProgress loads the state, the total and the bytes copied in this order: with the total
\* on display the bytes copied never exceed it, and the remaining bytes do not wrap.
THEOREM ShownNeverExceeds == Spec => []ShownConsistent
  <1>1. EtaInv => ShownConsistent  BY DEF EtaInv, ShowInv
  <1> QED  BY <1>1, EtaHolds, PTL

\* getEta loads its two counters one after the other, and still says that no time is left
\* only if every copy that was added has ended.
THEOREM ZeroIsTheEnd == Spec => []ZeroMeansDone
  <1>1. EtaInv => ZeroMeansDone  BY DEF EtaInv, ShowInv
  <1> QED  BY <1>1, EtaHolds, PTL

\* RollingBitset packs a count and a set into one word: after any number of addToBuff the count
\* is right and getBitsOnCount is the number of big copies among the last ones.
THEOREM BitsetStaysExact == Spec => []BitsetExact
  <1>1. EtaInv => BitsetExact  BY BitsOn DEF EtaInv
  <1> QED  BY <1>1, EtaHolds, PTL

\* getEta searches the buckets from the first to the last, with counters that other threads
\* change: the buckets it takes have been measured often enough and none such is nearer.
THEOREM EstimateIsNearest == Spec => []NearestBuckets
  <1>1. EtaInv => NearestBuckets  BY DEF EtaInv, SearchInv
  <1> QED  BY <1>1, EtaHolds, PTL
=============================================================================
