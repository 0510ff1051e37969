-------------------------------- MODULE Eta --------------------------------
(***************************************************************************)
(* The estimate of the remaining time (src/src/ETACalculator.cpp) between  *)
(* the three threads that use it: the main thread adds copies, the submit  *)
(* thread finishes them, and the progress thread (showProgress in          *)
(* src/src/CopyQueue.cpp) reads the counters of both, one load at a time.  *)
(*                                                                         *)
(* Speeds are floating-point numbers and left out: a bucket is known by    *)
(* its number and by how many samples it has had, and an estimate by the   *)
(* buckets it is made from.                                                *)
(***************************************************************************)
EXTENDS Integers, Sequences, FiniteSetsExt, Functions

CONSTANTS
    Copies,         \* the parts that are copied
    Size,           \* the bytes of each
    BIG_FILE_SIZE,
    SetBits,        \* bits in a RollingBitset (56)
    MaskBits,       \* bits of BITSET_MASK (8)
    HighThreshold,  \* samples that calculate(20) asks for
    LowThreshold,   \* samples that calculate(1) asks for
    Modulus,        \* one more than the largest size_t
    MaxShows,       \* bound: calls of showProgress
    MaxFailures     \* bound: copies that fail

ASSUME EtaAssumption ==
    /\ Size \in [Copies -> Nat] /\ BIG_FILE_SIZE \in Nat
    /\ MaskBits \in Nat \ {0} /\ SetBits \in Nat /\ SetBits >= MaskBits
    /\ HighThreshold \in Nat /\ LowThreshold \in 0..HighThreshold
    /\ IsFiniteSet(Copies) /\ Modulus \in Nat /\ Modulus > Cardinality(Copies)

BUCKET_COUNT == MaskBits + 1
Buckets == 0..BUCKET_COUNT-1
IsBig(c) == Size[c] > BIG_FILE_SIZE
NoCopy == "none"

VARIABLES
    apc, adding, state,                         \* the main thread
    totalBytesToCopy, totalBytesCopied,
    bigCopiesRemaining, smallCopiesRemaining, atomicBuffer,
    noted, pending, finished,                   \* copies: counted, in the queue, deleted
    dpc, finishing,                             \* the submit thread
    ppc, haveTotal, toCopy, copied,             \* the progress thread
    todo, num, den, threshold, sampleCount, estimate,
    history,                                    \* which of the copies done so far were big
    shows, failures

addVars == <<apc, adding, state, totalBytesToCopy>>
remaining == <<bigCopiesRemaining, smallCopiesRemaining>>
copyVars == <<noted, pending, finished>>
submitVars == <<dpc, finishing, totalBytesCopied, atomicBuffer, history, failures>>
totals == <<haveTotal, toCopy, copied>>
quotient == <<todo, num, den>>
showVars == <<ppc, totals, quotient, threshold, sampleCount, estimate, shows>>
otherThreads == <<addVars, remaining, copyVars, submitVars>>
vars == <<addVars, remaining, copyVars, submitVars, showVars>>

Init ==
    /\ apc = "idle" /\ adding = NoCopy /\ state = "Running"
    /\ totalBytesToCopy = 0 /\ totalBytesCopied = 0
    /\ bigCopiesRemaining = 0 /\ smallCopiesRemaining = 0 /\ atomicBuffer = 0
    /\ noted = {} /\ pending = {} /\ finished = {}
    /\ dpc = "idle" /\ finishing = NoCopy
    /\ ppc = "idle" /\ haveTotal = FALSE /\ toCopy = 0 /\ copied = 0
    /\ todo = {} /\ num = 0 /\ den = 0 /\ threshold = HighThreshold
    /\ sampleCount = [b \in Buckets |-> 0] /\ estimate = {}
    /\ history = <<>> /\ shows = 0 /\ failures = 0

-----------------------------------------------------------------------------
(* The main thread: addCopyJobPart and join().                             *)

\* The bytes are counted, then the copy, and only then can the submit thread see it.
CountBytes(c) ==
    /\ apc = "idle" /\ state = "Running" /\ c \notin noted
    /\ totalBytesToCopy' = totalBytesToCopy + Size[c]
    /\ apc' = "note" /\ adding' = c
    /\ UNCHANGED <<state, remaining, copyVars, submitVars, showVars>>

\* Both counters are a size_t: one below zero is the largest number.
CountedAtLeast(c, d) ==                                     \* mutant: completed with `>=', added with `>'
    LET big == IF d > 0 THEN Size[c] > BIG_FILE_SIZE ELSE Size[c] >= BIG_FILE_SIZE
    IN  /\ bigCopiesRemaining' = IF big THEN (bigCopiesRemaining + d) % Modulus ELSE bigCopiesRemaining
        /\ smallCopiesRemaining' = IF big THEN smallCopiesRemaining ELSE (smallCopiesRemaining + d) % Modulus
Counted(c, d) ==
    /\ bigCopiesRemaining' = IF IsBig(c) THEN (bigCopiesRemaining + d) % Modulus ELSE bigCopiesRemaining
    /\ smallCopiesRemaining' = IF IsBig(c) THEN smallCopiesRemaining ELSE (smallCopiesRemaining + d) % Modulus

OnCopyAdded ==
    /\ apc = "note"
    /\ Counted(adding, 1)
    /\ noted' = noted \cup {adding}
    /\ apc' = "push"
    /\ UNCHANGED <<adding, state, totalBytesToCopy, pending, finished, submitVars, showVars>>

PushCopy ==
    /\ apc = "push"
    /\ pending' = pending \cup {adding}
    /\ apc' = "idle" /\ adding' = NoCopy
    /\ UNCHANGED <<state, totalBytesToCopy, remaining, noted, finished, submitVars, showVars>>

AdditionComplete ==
    /\ apc = "idle" /\ state = "Running"
    /\ state' = "AdditionComplete"
    /\ UNCHANGED <<apc, adding, totalBytesToCopy, remaining, copyVars, submitVars, showVars>>

-----------------------------------------------------------------------------
(* The submit thread.                                                      *)

\* The last bytes of a copy are written.
FinishWrite(c) ==
    /\ dpc = "idle" /\ c \in pending \ finished /\ Size[c] > 0
    /\ totalBytesCopied' = totalBytesCopied + Size[c]
    /\ dpc' = "buff" /\ finishing' = c
    /\ UNCHANGED <<addVars, remaining, copyVars, atomicBuffer, history, failures, showVars>>

\* A copy that fails, after some of its bytes were written or none, is deleted without a word
\* to the ETACalculator, and so is an empty one.
DeleteUnfinished(c) ==
    /\ dpc = "idle" /\ c \in pending \ finished
    /\ Size[c] > 0 => failures < MaxFailures
    /\ failures' = IF Size[c] > 0 THEN failures + 1 ELSE failures
    /\ \E written \in {0, Size[c] \div 2} : totalBytesCopied' = totalBytesCopied + written
    /\ finished' = finished \cup {c}
    /\ UNCHANGED <<addVars, remaining, noted, pending, dpc, finishing, atomicBuffer, history, showVars>>

\* RollingBitset: the number of bits in the set, and the set. Shifts by n bits and masks of n
\* bits are written with the n-th power of two.
TwoTo[n \in Nat] == IF n = 0 THEN 1 ELSE 2 * TwoTo[n - 1]
GetCount(w) == w \div TwoTo[SetBits]
GetSet(w, bits) == w % TwoTo[bits]
GetBitsOnCount(w) == Cardinality({i \in 0..MaskBits-1 : (GetSet(w, MaskBits) \div TwoTo[i]) % 2 = 1})

\* addToBuff: one bit is shifted in, the count in the top byte goes up to the bits there are.
Unmasked(w, b) ==                                           \* mutant: the oldest bit runs into the count
    (GetSet(w, SetBits) * 2 + b) + Min({GetCount(w) + 1, SetBits}) * TwoTo[SetBits]
Shifted(w, b) ==
    ((GetSet(w, SetBits) * 2 + b) % TwoTo[SetBits]) + Min({GetCount(w) + 1, SetBits}) * TwoTo[SetBits]

AddToBuff ==
    /\ dpc = "buff"
    /\ atomicBuffer' = Shifted(atomicBuffer, IF IsBig(finishing) THEN 1 ELSE 0)
    /\ history' = Append(history, IsBig(finishing))
    /\ dpc' = "count"
    /\ UNCHANGED <<addVars, remaining, copyVars, finishing, totalBytesCopied, failures, showVars>>

\* The rest of onCopyCompleted, and the end of the copy.
OnCopyCompleted ==
    /\ dpc = "count"
    /\ Counted(finishing, -1)
    /\ finished' = finished \cup {finishing}
    /\ dpc' = "idle" /\ finishing' = NoCopy
    /\ UNCHANGED <<addVars, noted, pending, totalBytesCopied, atomicBuffer, history, failures, showVars>>

-----------------------------------------------------------------------------
(* The progress thread: showProgress.                                      *)

\* mutant: the state is compared with Running
AnyState ==
    /\ ppc = "idle" /\ shows < MaxShows
    /\ haveTotal' = TRUE
    /\ shows' = shows + 1
    /\ ppc' = "total"
    /\ UNCHANGED <<otherThreads, toCopy, copied, quotient, threshold, sampleCount, estimate>>

\* The state is read first, then the two totals.
LoadHaveTotal ==
    /\ ppc = "idle" /\ shows < MaxShows
    /\ haveTotal' = (state = "AdditionComplete")
    /\ shows' = shows + 1
    /\ ppc' = "total"
    /\ UNCHANGED <<otherThreads, toCopy, copied, quotient, threshold, sampleCount, estimate>>

LoadTotal ==
    /\ ppc = "total"
    /\ toCopy' = totalBytesToCopy
    /\ ppc' = "copied"
    /\ UNCHANGED <<otherThreads, haveTotal, copied, quotient, threshold, sampleCount, estimate, shows>>

\* Without the total there is no estimate.
LoadCopied ==
    /\ ppc = "copied"
    /\ copied' = totalBytesCopied
    /\ ppc' = IF haveTotal THEN "sample" ELSE "idle"
    /\ UNCHANGED <<otherThreads, haveTotal, toCopy, quotient, threshold, sampleCount, estimate, shows>>

\* updateSpeedEstimate: with enough copies behind it the speed is a sample for the bucket
\* that their mix of big and small ones selects.
UpdateSpeedEstimate ==
    /\ ppc = "sample"
    /\ sampleCount' = IF GetCount(atomicBuffer) >= BUCKET_COUNT - 1
                      THEN [sampleCount EXCEPT ![GetBitsOnCount(atomicBuffer)] = @ + 1]
                      ELSE sampleCount
    /\ ppc' = "checkBig"
    /\ UNCHANGED <<otherThreads, totals, quotient, threshold, estimate, shows>>

\* getEta: first whether anything remains ...
CheckBig ==
    /\ ppc = "checkBig"
    /\ ppc' = IF bigCopiesRemaining = 0 THEN "checkSmall" ELSE "load"
    /\ todo' = {"num", "denBig", "denSmall"} /\ num' = 0 /\ den' = 0
    /\ threshold' = HighThreshold
    /\ UNCHANGED <<otherThreads, totals, sampleCount, estimate, shows>>

SmallIgnored == TRUE                                        \* mutant: `||' in place of `&&'
NothingSmall == smallCopiesRemaining = 0

CheckSmall ==
    /\ ppc = "checkSmall"
    /\ ppc' = IF NothingSmall THEN "zero" ELSE "load"
    /\ UNCHANGED <<otherThreads, totals, quotient, threshold, sampleCount, estimate, shows>>

\* ... then calculate(), which reads the counters again.  C++ leaves the order of the three
\* loads in big / (big + small) open.
Load(x) ==
    /\ ppc = "load" /\ x \in todo
    /\ todo' = todo \ {x}
    /\ num' = IF x = "num" THEN bigCopiesRemaining ELSE num
    /\ den' = CASE x = "num" -> den
                 [] x = "denBig" -> (den + bigCopiesRemaining) % Modulus
                 [] x = "denSmall" -> (den + smallCopiesRemaining) % Modulus
    /\ ppc' = IF todo' = {} THEN "choose" ELSE "load"
    /\ UNCHANGED <<otherThreads, totals, threshold, sampleCount, estimate, shows>>

\* val is num / den, clamped to 0..1, times the last bucket; 0 / 0 stays what it is.
NotANumber == num = 0 /\ den = 0
Last == BUCKET_COUNT - 1
Floor == IF num >= den THEN Last ELSE (num * Last) \div den
Ceil == IF num >= den THEN Last ELSE (num * Last + den - 1) \div den
Round == IF num >= den THEN Last ELSE (2 * num * Last + den) \div (2 * den)

Measured == {b \in Buckets : sampleCount[b] > threshold}
Distance(a, b) == IF a > b THEN a - b ELSE b - a

\* The search from the first bucket to the last, best[i] after bucket i.
AnyNearer(i, p) == p = -1                                   \* mutant: the first measured bucket stays
Nearer(i, p) == p = -1 \/ Distance(i, Round) < Distance(p, Round)
BestIndex ==
    LET best[i \in -1..Last] ==
            IF i # -1 /\ i \in Measured /\ Nearer(i, best[i - 1]) THEN i
            ELSE IF i = -1 THEN -1 ELSE best[i - 1]
    IN  best[Last]

\* The buckets on both sides of val, else the best one; {} stands for -1.
Chosen == IF {Floor, Ceil} \subseteq Measured THEN {Floor, Ceil} ELSE {BestIndex} \ {-1}

\* The end of calculate(); after calculate(20) comes calculate(1) if there is no estimate.
Calculate ==
    /\ ppc = "choose" /\ ~NotANumber
    /\ estimate' = Chosen
    /\ IF Chosen = {} /\ threshold # LowThreshold
       THEN /\ ppc' = "load" /\ threshold' = LowThreshold
            /\ todo' = {"num", "denBig", "denSmall"} /\ num' = 0 /\ den' = 0
       ELSE /\ ppc' = "show" /\ UNCHANGED <<threshold, quotient>>
    /\ UNCHANGED <<otherThreads, totals, sampleCount, shows>>

\* The index is not a number: anything may be read, or the process crashes.
ReadAnywhere ==
    /\ ppc = "choose" /\ NotANumber
    /\ ppc' = "crashed"
    /\ UNCHANGED <<otherThreads, totals, quotient, threshold, sampleCount, estimate, shows>>

Show ==
    /\ ppc \in {"show", "zero"}
    /\ ppc' = "idle" /\ estimate' = {}
    /\ todo' = {} /\ num' = 0 /\ den' = 0 /\ threshold' = HighThreshold
    /\ haveTotal' = FALSE /\ toCopy' = 0 /\ copied' = 0        \* locals of the finished call
    /\ UNCHANGED <<otherThreads, sampleCount, shows>>

AddStep == (\E c \in Copies : CountBytes(c)) \/ OnCopyAdded \/ PushCopy \/ AdditionComplete
SubmitStep == (\E c \in Copies : FinishWrite(c) \/ DeleteUnfinished(c)) \/ AddToBuff \/ OnCopyCompleted
ShowStep ==
    \/ LoadHaveTotal \/ LoadTotal \/ LoadCopied \/ UpdateSpeedEstimate
    \/ CheckBig \/ CheckSmall \/ (\E x \in todo : Load(x))
    \/ Calculate \/ ReadAnywhere \/ Show

Next == AddStep \/ SubmitStep \/ ShowStep

Spec == Init /\ [][Next]_vars

-----------------------------------------------------------------------------
(* Properties.                                                             *)

Small(S) == Cardinality({c \in S : ~IsBig(c)})
Big(S) == Cardinality({c \in S : IsBig(c)})

\* The counters never wrap below zero and never count less than what is still to be copied,
\* although copies end on another thread while more are added.
RemainingCovers ==
    /\ bigCopiesRemaining \in Big(pending \ finished)..Cardinality(Copies)
    /\ smallCopiesRemaining \in Small(pending \ finished)..Cardinality(Copies)

\* The packed word always tells how many copies it knows of, and how many of the last ones
\* were big, also after old bits have been shifted out.
BitsetExact ==
    LET n == Len(history)
        Recent(k) == {i \in 1..n : i > n - k /\ history[i]}
    IN  /\ GetCount(atomicBuffer) = Min({n, SetBits})
        /\ GetBitsOnCount(atomicBuffer) = Cardinality(Recent(MaskBits))

\* With the total on display the bytes copied never exceed it, so that the remaining bytes
\* do not wrap and the bar ends at 100%: the three loads come in the right order.
ShownConsistent == (haveTotal /\ ppc \notin {"total", "copied", "idle"}) => copied <= toCopy

\* getEta says that no time is left only if no copy is left.
ZeroMeansDone == ppc = "zero" => pending \subseteq finished

\* An estimate is made from buckets that have been measured often enough, and no such bucket
\* is nearer to the mix of copies that remain.
NearestBuckets ==
    (ppc = "show" /\ estimate # {}) =>
        /\ estimate \subseteq Measured
        /\ \A b \in estimate, c \in Measured \ estimate : Distance(b, Round) <= Distance(c, Round)

\* The index into copySpeedBuckets is a bucket.
IndexInBounds == ppc # "crashed"
=============================================================================
