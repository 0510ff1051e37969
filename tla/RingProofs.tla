----------------------------- MODULE RingProofs -----------------------------
(***************************************************************************)
(* Proofs about Ring, for any sizes of the two rings and any width of      *)
(* their indexes, whatever fails: nothing stays mapped, and the ring       *)
(* refines RingService.                                                    *)
(***************************************************************************)
EXTENDS Ring, TLAPS

-----------------------------------------------------------------------------
(* Remainders.                                                             *)

\* Division with remainder.
LEMMA ModDiv ==
    ASSUME NEW m \in Nat \ {0}, NEW x \in Int
    PROVE  x % m \in 0..(m - 1) /\ \E q \in Int : x = (m * q) + (x % m)
  <1>1. x \div m \in Int /\ x = (m * (x \div m)) + (x % m)  OBVIOUS
  <1>2. x % m \in 0..(m - 1)  OBVIOUS
  <1> QED  BY <1>1, <1>2

\* A multiple that is not zero is at least as large as the number itself.
LEMMA Multiple ==
    ASSUME NEW m \in Nat \ {0}, NEW q \in Int
    PROVE  (q >= 1 => m * q >= m) /\ (q <= -1 => m * q <= -m)
  OBVIOUS

\* Two numbers with one remainder that are closer than the divisor are the same.
LEMMA ModWindow ==
    ASSUME NEW m \in Nat \ {0}, NEW x \in Int, NEW y \in Int,
           x % m = y % m, x - y < m, y - x < m
    PROVE  x = y
  <1>1. PICK p \in Int : x = (m * p) + (x % m)  BY ModDiv
  <1>2. PICK q \in Int : y = (m * q) + (y % m)  BY ModDiv
  <1>3. m * p - m * q = m * (p - q) /\ p - q \in Int /\ m * p \in Int /\ m * q \in Int
    OBVIOUS
  <1>4. (p - q >= 1 => m * (p - q) >= m) /\ (p - q <= -1 => m * (p - q) <= -m)
    BY <1>3, Multiple
  <1>5. x % m \in 0..(m - 1) /\ y % m \in 0..(m - 1)  BY ModDiv
  <1>6. x - y = m * (p - q)  BY <1>1, <1>2, <1>3, <1>5
  <1>7. p = q  BY <1>3, <1>4, <1>6
  <1> QED  BY <1>1, <1>2, <1>3, <1>5, <1>7

\* Adding a multiple does not change the remainder.
LEMMA ModShift ==
    ASSUME NEW m \in Nat \ {0}, NEW x \in Int, NEW k \in Int
    PROVE  (x + m * k) % m = x % m
  <1> DEFINE y == x + m * k
             r == x % m
             t == y % m
  <1>1. m * k \in Int /\ y \in Int  OBVIOUS
  <1>2. PICK p \in Int : x = (m * p) + r  BY ModDiv
  <1>3. PICK q \in Int : y = (m * q) + t  BY <1>1, ModDiv
  <1>4. r \in 0..(m - 1) /\ t \in 0..(m - 1)  BY <1>1, ModDiv
  <1>5. y = x + m * k  OBVIOUS
  <1> DEFINE d == p + k - q
  <1>6. m * p + m * k - m * q = m * d /\ d \in Int /\ m * p \in Int /\ m * q \in Int  OBVIOUS
  <1>7. (d >= 1 => m * d >= m) /\ (d <= -1 => m * d <= -m)  BY <1>6, Multiple
  <1> HIDE DEF y, r, t, d
  <1>8. t - r = m * d  BY <1>1, <1>2, <1>3, <1>4, <1>5, <1>6
  <1>9. d = 0  BY <1>4, <1>6, <1>7, <1>8
  <1>10. m * 0 = 0  OBVIOUS
  <1>11. t = r  BY <1>4, <1>8, <1>9, <1>10
  <1> QED  BY <1>11 DEF t, r, y

\* A remainder of a remainder, when one divisor divides the other.
LEMMA ModMod ==
    ASSUME NEW m \in Nat \ {0}, NEW e \in Nat \ {0}, m % e = 0, NEW x \in Int
    PROVE  (x % m) % e = x % e
  <1>1. PICK p \in Int : x = (m * p) + (x % m)  BY ModDiv
  <1>2. m \in Int  OBVIOUS
  <1>3. PICK c \in Int : m = (e * c) + (m % e)  BY <1>2, ModDiv
  <1> DEFINE y == x % m
             k == c * p
  <1>4. (e * c) * p = e * k /\ k \in Int  OBVIOUS
  <1>5. m = e * c  BY <1>3
  <1>6. m * p = e * k  BY <1>4, <1>5
  <1>7. y \in Int /\ x = m * p + y  BY <1>1, ModDiv
  <1> HIDE DEF y, k
  <1>8. (y + e * k) % e = y % e  BY <1>4, <1>7, ModShift
  <1>9. m * p \in Int /\ e * k \in Int  BY <1>4
  <1>10. x = y + e * k  BY <1>6, <1>7, <1>9
  <1> QED  BY <1>8, <1>10 DEF y

-----------------------------------------------------------------------------
(* Indexes that wrap.                                                      *)

Index == 0..(Modulus - 1)

\* Wrapped sums and differences of indexes.
LEMMA WrapFacts ==
    /\ \A x \in Int : U(x) \in Index
    /\ \A x \in Index : U(x) = x
    /\ \A x \in Int : -Modulus <= x /\ x < 0 => U(x) = x + Modulus
    /\ \A x \in Int : Modulus <= x /\ x < 2 * Modulus => U(x) = x - Modulus
  <1>1. Modulus \in Nat \ {0}  BY RingAssumption
  <1> DEFINE m == Modulus
  <1> HIDE DEF m
  <1>2. m \in Nat \ {0}  BY <1>1 DEF m
  <1>3. \A x \in Int : x % m \in 0..(m - 1)  BY <1>2
  <1>4. \A x \in 0..(m - 1) : x % m = x  BY <1>2
  <1>5. ASSUME NEW x \in Int, -m <= x, x < 0 PROVE x % m = x + m
    <2>1. PICK k \in Int : k = 1  OBVIOUS
    <2>2. (x + m * k) % m = x % m  BY <1>2, ModShift
    <2>3. x + m * k = x + m /\ x + m \in 0..(m - 1)  BY <1>2, <1>5, <2>1
    <2> QED  BY <1>4, <2>2, <2>3
  <1>6. ASSUME NEW x \in Int, m <= x, x < 2 * m PROVE x % m = x - m
    <2>1. PICK k \in Int : k = -1  OBVIOUS
    <2>2. (x + m * k) % m = x % m  BY <1>2, ModShift
    <2>3. x + m * k = x - m /\ x - m \in 0..(m - 1)  BY <1>2, <1>6, <2>1
    <2> QED  BY <1>4, <2>2, <2>3
  <1> QED  BY <1>3, <1>4, <1>5, <1>6 DEF m, U, Index

\* The distance of two indexes, when one of them moves.
LEMMA DistanceFacts ==
    ASSUME NEW t \in Index, NEW h \in Index
    PROVE  /\ U(t - h) \in Index /\ U(h + U(t - h)) = t
           /\ \A n \in Nat : U(t - h) + n < Modulus =>
                  U(t + n) \in Index /\ U(U(t + n) - h) = U(t - h) + n
           /\ \A n \in 0..U(t - h) : U(h + n) \in Index /\ U(t - U(h + n)) = U(t - h) - n
  <1> DEFINE m == Modulus
             d == U(t - h)
  <1>1. m \in Nat \ {0} /\ Index = 0..(m - 1)  BY RingAssumption DEF Index
  <1>2. t \in 0..(m - 1) /\ h \in 0..(m - 1)  BY <1>1
  <1>3. \A x \in 0..(m - 1) : U(x) = x  BY <1>1, WrapFacts
  <1>4. \A x \in Int : -m <= x /\ x < 0 => U(x) = x + m  BY WrapFacts
  <1>5. \A x \in Int : m <= x /\ x < 2 * m => U(x) = x - m  BY WrapFacts
  <1>6. d = IF t >= h THEN t - h ELSE t - h + m
    <2> HIDE DEF m
    <2>1. t - h \in Int  BY <1>1, <1>2
    <2>2. CASE t >= h
      <3>1. t - h \in 0..(m - 1)  BY <1>1, <1>2, <2>2
      <3> QED  BY <1>3, <2>2, <3>1
    <2>3. CASE ~(t >= h)
      <3>1. -m <= t - h /\ t - h < 0  BY <1>1, <1>2, <2>3
      <3> QED  BY <1>4, <2>1, <2>3, <3>1
    <2> QED  BY <2>2, <2>3
  <1> HIDE DEF m, d
  <1>7. d \in 0..(m - 1)  BY <1>1, <1>2, <1>6
  <1>8. \A a \in 0..(m - 1), n \in Nat : n < m => U(a + n) = IF a + n < m THEN a + n ELSE a + n - m
    <2> SUFFICES ASSUME NEW a \in 0..(m - 1), NEW n \in Nat, n < m
                 PROVE  U(a + n) = IF a + n < m THEN a + n ELSE a + n - m
      OBVIOUS
    <2>1. a + n \in Int  BY <1>1
    <2>2. CASE a + n < m
      <3>1. a + n \in 0..(m - 1)  BY <1>1, <2>2
      <3> QED  BY <1>3, <2>2, <3>1
    <2>3. CASE ~(a + n < m)
      <3>1. m <= a + n /\ a + n < 2 * m  BY <1>1, <2>3
      <3>2. U(a + n) = a + n - m  BY <1>1, <1>5, <2>1, <3>1
      <3> QED  BY <2>3, <3>2
    <2> QED  BY <2>2, <2>3
  <1>9. \A a, b \in 0..(m - 1) : U(a - b) = IF a >= b THEN a - b ELSE a - b + m
    <2> SUFFICES ASSUME NEW a \in 0..(m - 1), NEW b \in 0..(m - 1)
                 PROVE  U(a - b) = IF a >= b THEN a - b ELSE a - b + m
      OBVIOUS
    <2>1. a - b \in Int  BY <1>1
    <2>2. CASE a >= b
      <3>1. a - b \in 0..(m - 1)  BY <1>1, <2>2
      <3> QED  BY <1>3, <2>2, <3>1
    <2>3. CASE ~(a >= b)
      <3>1. -m <= a - b /\ a - b < 0  BY <1>1, <2>3
      <3> QED  BY <1>4, <2>1, <2>3, <3>1
    <2> QED  BY <2>2, <2>3
  <1>10. U(h + d) = t
    <2>1. d \in Nat /\ d < m  BY <1>1, <1>7
    <2>2. U(h + d) = IF h + d < m THEN h + d ELSE h + d - m  BY <1>2, <1>8, <2>1
    <2> QED  BY <1>1, <1>2, <1>6, <2>2
  <1>11. ASSUME NEW n \in Nat, d + n < m PROVE U(t + n) \in 0..(m - 1) /\ U(U(t + n) - h) = d + n
    <2> DEFINE u == U(t + n)
    <2>1. n < m  BY <1>1, <1>7, <1>11
    <2>2. u = IF t + n < m THEN t + n ELSE t + n - m  BY <1>2, <1>8, <2>1
    <2> HIDE DEF u
    <2>3. u \in 0..(m - 1)  BY <1>1, <1>2, <2>1, <2>2
    <2>4. U(u - h) = IF u >= h THEN u - h ELSE u - h + m  BY <1>2, <1>9, <2>3
    <2>5. U(u - h) = d + n  BY <1>1, <1>2, <1>6, <1>11, <2>2, <2>4
    <2> QED  BY <2>3, <2>5 DEF u
  <1>12. ASSUME NEW n \in 0..d PROVE U(h + n) \in 0..(m - 1) /\ U(t - U(h + n)) = d - n
    <2> DEFINE u == U(h + n)
    <2>1. n < m /\ n \in Nat /\ n <= d  BY <1>1, <1>7
    <2>2. u = IF h + n < m THEN h + n ELSE h + n - m  BY <1>2, <1>8, <2>1
    <2> HIDE DEF u
    <2>3. u \in 0..(m - 1)  BY <1>1, <1>2, <2>1, <2>2
    <2>4. U(t - u) = IF t >= u THEN t - u ELSE t - u + m  BY <1>2, <1>9, <2>3
    <2>5. U(t - u) = d - n  BY <1>1, <1>2, <1>6, <2>1, <2>2, <2>4
    <2> QED  BY <2>3, <2>5 DEF u
  <1> QED  BY <1>1, <1>7, <1>10, <1>11, <1>12 DEF m, d

-----------------------------------------------------------------------------
(* Slots.                                                                  *)

\* The slot of the i-th entry from index h on, in a ring of e slots.
Place(h, i, e) == U(h + i - 1) % e

\* A ring's size divides the number of indexes.
LEMMA PlaceFacts ==
    ASSUME NEW e \in Nat \ {0}, Modulus % e = 0, NEW h \in Index
    PROVE  /\ \A i \in Int : Place(h, i, e) \in 0..(e - 1) /\ Place(h, i, e) = (h + i - 1) % e
           /\ \A i, j \in Int : i - j < e /\ j - i < e /\ Place(h, i, e) = Place(h, j, e) => i = j
           /\ \A n, i \in Int : Place(U(h + n), i, e) = Place(h, n + i, e)
           /\ \A t \in Index : t % e = Place(h, U(t - h) + 1, e)
           /\ \A s \in 0..(e - 1) : LET k == U(s - h) % e
                                    IN  k \in 0..(e - 1) /\ Place(h, k + 1, e) = s
  <1>1. Modulus \in Nat \ {0} /\ Index \subseteq Int /\ h \in Int  BY RingAssumption DEF Index
  <1>2. \A x \in Int : U(x) \in Int /\ U(x) \in Index  BY <1>1, WrapFacts
  <1>3. \A x \in Int : U(x) % e = x % e  BY <1>1, ModMod DEF U
  <1>4. \A x \in Int : x % e \in 0..(e - 1)  BY ModDiv
  <1>5. \A g \in Index, i \in Int : Place(g, i, e) = (g + i - 1) % e /\ Place(g, i, e) \in 0..(e - 1)
    <2> SUFFICES ASSUME NEW g \in Index, NEW i \in Int
                 PROVE  Place(g, i, e) = (g + i - 1) % e /\ Place(g, i, e) \in 0..(e - 1)
      OBVIOUS
    <2>1. g + i - 1 \in Int  BY <1>1
    <2> QED  BY <1>3, <1>4, <2>1 DEF Place
  <1>6. ASSUME NEW i \in Int, NEW j \in Int, i - j < e, j - i < e, Place(h, i, e) = Place(h, j, e)
        PROVE  i = j
    <2> DEFINE x == h + i - 1
               y == h + j - 1
    <2>1. x \in Int /\ y \in Int /\ x - y < e /\ y - x < e  BY <1>1, <1>6
    <2>2. x % e = y % e  BY <1>5, <1>6
    <2> HIDE DEF x, y
    <2>3. x = y  BY <2>1, <2>2, ModWindow
    <2> QED  BY <1>1, <2>3 DEF x, y
  <1>7. ASSUME NEW n \in Int, NEW i \in Int PROVE Place(U(h + n), i, e) = Place(h, n + i, e)
    <2> DEFINE u == U(h + n)
               y == u + i - 1
               x == h + (n + i) - 1
    <2>1. h + n \in Int /\ n + i \in Int  BY <1>1
    <2>2. u \in Index /\ u \in Int  BY <1>2, <2>1
    <2>3. PICK q \in Int : h + n = (Modulus * q) + u  BY <1>1, <2>1, ModDiv DEF U
    <2>4. PICK c \in Int : Modulus = (e * c) + (Modulus % e)
      <3>1. Modulus \in Int  BY <1>1
      <3> QED  BY <3>1, ModDiv
    <2> DEFINE k == c * q
    <2>5. (e * c) * q = e * k /\ k \in Int  OBVIOUS
    <2>6. Modulus = e * c  BY <2>4
    <2>7. Modulus * q = e * k  BY <2>5, <2>6
    <2> HIDE DEF u, k
    <2>8. e * k \in Int /\ y \in Int /\ x \in Int  BY <1>1, <2>2, <2>5
    <2>9. x = y + e * k  BY <1>1, <2>2, <2>3, <2>7, <2>8
    <2> HIDE DEF x, y
    <2>10. x % e = y % e  BY <2>5, <2>8, <2>9, ModShift
    <2>11. Place(h, n + i, e) = x % e /\ Place(u, i, e) = y % e  BY <1>5, <2>1, <2>2 DEF x, y
    <2> QED  BY <2>10, <2>11 DEF u
  <1>8. ASSUME NEW t \in Index PROVE t % e = Place(h, U(t - h) + 1, e)
    <2>1. U(t - h) \in Index /\ U(h + U(t - h)) = t  BY DistanceFacts
    <2>2. U(t - h) \in Int  BY <1>1, <2>1
    <2>3. h + (U(t - h) + 1) - 1 = h + U(t - h)  BY <1>1, <2>2
    <2> QED  BY <2>1, <2>3 DEF Place
  <1>9. ASSUME NEW s \in 0..(e - 1)
        PROVE  U(s - h) % e \in 0..(e - 1) /\ Place(h, (U(s - h) % e) + 1, e) = s
    <2> DEFINE x == s - h
               k == x % e
    <2>1. x \in Int /\ U(s - h) % e = k /\ k \in 0..(e - 1)
      <3>1. x \in Int  BY <1>1
      <3> HIDE DEF x
      <3>2. U(x) % e = x % e /\ x % e \in 0..(e - 1)  BY <1>3, <1>4, <3>1
      <3> QED  BY <3>1, <3>2 DEF x
    <2>2. PICK q \in Int : x = (e * q) + k  BY <2>1, ModDiv
    <2> HIDE DEF k
    <2>3. e * q \in Int /\ e * q = x - k /\ k \in Int  BY <2>1, <2>2
    <2>4. h + (k + 1) - 1 \in Int /\ h + (k + 1) - 1 = s - e * q  BY <1>1, <2>3
    <2>5. s - e * q = s + e * (-q) /\ -q \in Int /\ s \in Int  OBVIOUS
    <2>6. (s + e * (-q)) % e = s % e  BY <2>5, ModShift
    <2>7. s % e = s  OBVIOUS
    <2>8. k + 1 \in Int  BY <2>3
    <2> QED  BY <1>5, <2>1, <2>4, <2>5, <2>6, <2>7, <2>8
  <1> QED  BY <1>5, <1>6, <1>7, <1>8, <1>9

-----------------------------------------------------------------------------
(* The two rings.                                                          *)

Things == Requests \cup {NoRequest}

SqType == [khead : Index, ktail : Index, array : [0..Entries-1 -> 0..Entries-1],
           sqes : [0..Entries-1 -> Things], sqe_head : Index, sqe_tail : Index]
CqType == [khead : Index, ktail : Index, cqes : [0..CqEntries-1 -> Things]]

\* Of a submission queue: the number of its entries, and of those the kernel can see.
ReadyOf(s) == U(s.sqe_tail - s.khead)
FlushedOf(s) == U(s.ktail - s.khead)
WaitingOf(s) == [i \in 1..ReadyOf(s) |-> s.sqes[Place(s.khead, i, Entries)]]

\* No more entries than slots, and the array the kernel goes by names each entry's own slot.
SqOk(s) ==
    /\ s \in SqType /\ s.sqe_head = s.ktail
    /\ ReadyOf(s) <= Entries /\ FlushedOf(s) <= ReadyOf(s)
    /\ \A j \in 1..FlushedOf(s) : s.array[Place(s.khead, j, Entries)] = Place(s.khead, j, Entries)

\* Of a completion queue, the same.
FinishedCount(c) == U(c.ktail - c.khead)
FinishedOf(c) == [i \in 1..FinishedCount(c) |-> c.cqes[Place(c.khead, i, CqEntries)]]
CqOk(c) == c \in CqType /\ FinishedCount(c) <= CqEntries

\* The sizes, and the distance of two indexes.
LEMMA SizeFacts ==
    /\ Entries \in Nat \ {0} /\ CqEntries \in Nat \ {0} /\ Modulus \in Nat
    /\ Entries + 1 < Modulus /\ CqEntries + 1 < Modulus
    /\ Modulus % Entries = 0 /\ Modulus % CqEntries = 0
    /\ Index \subseteq Nat /\ \A t, h \in Index : U(t - h) \in Nat
  <1>1. /\ Entries \in Nat \ {0} /\ CqEntries \in Nat \ {0} /\ Modulus \in Nat
        /\ Entries + 1 < Modulus /\ CqEntries + 1 < Modulus
        /\ Modulus % Entries = 0 /\ Modulus % CqEntries = 0 /\ CqEntries >= Entries
    BY RingAssumption
  <1>2. Index \subseteq Nat  BY <1>1 DEF Index
  <1>3. \A t, h \in Index : U(t - h) \in Index  BY DistanceFacts
  <1> QED  BY <1>1, <1>2, <1>3

\* Two sequences with the same elements are the same.
LEMMA SameSequence ==
    ASSUME NEW S, NEW a \in Seq(S), NEW b \in Seq(S), Len(a) = Len(b),
           \A i \in 1..Len(a) : a[i] = b[i]
    PROVE  a = b
  OBVIOUS

\* A submission queue as a sequence of entries.
LEMMA WaitingFacts ==
    ASSUME NEW s, SqOk(s)
    PROVE  /\ ReadyOf(s) \in Nat /\ FlushedOf(s) \in Nat
           /\ WaitingOf(s) \in Seq(Things) /\ Len(WaitingOf(s)) = ReadyOf(s)
           /\ \A i \in 1..Entries : Place(s.khead, i, Entries) \in 0..Entries-1
  <1>1. s.khead \in Index /\ s.ktail \in Index /\ s.sqe_tail \in Index /\ s.sqes \in [0..Entries-1 -> Things]
    BY DEF SqOk, SqType
  <1>2. ReadyOf(s) \in Nat /\ FlushedOf(s) \in Nat  BY <1>1, SizeFacts DEF ReadyOf, FlushedOf
  <1>3. \A i \in Int : Place(s.khead, i, Entries) \in 0..Entries-1  BY <1>1, SizeFacts, PlaceFacts
  <1>4. WaitingOf(s) \in [1..ReadyOf(s) -> Things]
    <2> DEFINE n == ReadyOf(s)
    <2>1. ASSUME NEW i \in 1..n PROVE s.sqes[Place(s.khead, i, Entries)] \in Things
      <3>1. Place(s.khead, i, Entries) \in 0..Entries-1  BY <1>2, <1>3
      <3> QED  BY <1>1, <3>1
    <2> QED  BY <2>1 DEF WaitingOf
  <1>5. WaitingOf(s) \in Seq(Things) /\ Len(WaitingOf(s)) = ReadyOf(s)
    BY <1>2, <1>4
  <1> QED  BY <1>2, <1>3, <1>5

\* What the kernel and the library find in the submission queue is that sequence.
LEMMA QueuedFacts ==
    ASSUME NEW s, SqOk(s), NEW i \in 1..ReadyOf(s)
    PROVE  (IF i <= FlushedOf(s) THEN s.sqes[s.array[Slot(U(s.khead + i - 1))]]
            ELSE s.sqes[Slot(U(s.sqe_head + i - 1 - FlushedOf(s)))])
           = WaitingOf(s)[i]
  <1>1. /\ s.khead \in Index /\ s.ktail \in Index /\ s.sqe_head = s.ktail
        /\ \A j \in 1..FlushedOf(s) : s.array[Place(s.khead, j, Entries)] = Place(s.khead, j, Entries)
    BY DEF SqOk, SqType
  <1>2. ReadyOf(s) \in Nat /\ FlushedOf(s) \in Nat  BY WaitingFacts
  <1>3. WaitingOf(s)[i] = s.sqes[Place(s.khead, i, Entries)]  BY DEF WaitingOf
  <1>4. CASE i <= FlushedOf(s)
    <2>1. i \in 1..FlushedOf(s)  BY <1>2, <1>4
    <2>2. Slot(U(s.khead + i - 1)) = Place(s.khead, i, Entries)  BY DEF Slot, Place
    <2> QED  BY <1>1, <1>3, <1>4, <2>1, <2>2
  <1>5. CASE ~(i <= FlushedOf(s))
    <2> DEFINE f == FlushedOf(s)
               h == s.khead
               t == s.ktail
    <2>1. t = U(h + f)  BY <1>1, DistanceFacts DEF FlushedOf
    <2>2. t \in Nat /\ f \in Nat /\ h \in Index  BY <1>1, <1>2, SizeFacts
    <2>3. \A n, j \in Int : Place(U(h + n), j, Entries) = Place(h, n + j, Entries)
      BY <2>2, SizeFacts, PlaceFacts
    <2> HIDE DEF f, t, h
    <2>4. i - f \in Int /\ f + (i - f) = i /\ f \in Int  BY <1>2, <2>2
    <2>5. Place(t, i - f, Entries) = Place(h, i, Entries)
      <3>1. Place(U(h + f), i - f, Entries) = Place(h, f + (i - f), Entries)  BY <2>3, <2>4
      <3> QED  BY <2>1, <2>4, <3>1
    <2>6. t + i - 1 - f = t + (i - f) - 1  BY <1>2, <2>2
    <2>7. Slot(U(t + i - 1 - f)) = Place(t, i - f, Entries)  BY <2>6 DEF Slot, Place
    <2> QED  BY <1>1, <1>3, <1>5, <2>5, <2>7 DEF f, t, h
  <1> QED  BY <1>4, <1>5

\* io_uring_get_sqe puts one more entry behind the others.
LEMMA GetSqeFacts ==
    ASSUME NEW s, SqOk(s), U(s.sqe_tail + 1 - s.khead) <= Entries, NEW r \in Things,
           NEW t, t = [s EXCEPT !.sqes[Slot(s.sqe_tail)] = r, !.sqe_tail = U(@ + 1)]
    PROVE  SqOk(t) /\ WaitingOf(t) = Append(WaitingOf(s), r)
  <1> DEFINE h == s.khead
             e == Entries
             n == ReadyOf(s)
             x == Place(h, n + 1, e)
  <1>1. /\ h \in Index /\ s.ktail \in Index /\ s.sqe_tail \in Index
        /\ s.sqes \in [0..e-1 -> Things] /\ s.array \in [0..e-1 -> 0..e-1] /\ s \in SqType
        /\ s.sqe_head = s.ktail /\ n <= e /\ FlushedOf(s) <= n
        /\ \A j \in 1..FlushedOf(s) : s.array[Place(h, j, e)] = Place(h, j, e)
    BY DEF SqOk, SqType
  <1>2. n \in Nat /\ FlushedOf(s) \in Nat /\ WaitingOf(s) \in Seq(Things) /\ Len(WaitingOf(s)) = n
    BY WaitingFacts
  <1>3. e \in Nat \ {0} /\ e + 1 < Modulus /\ Modulus \in Nat /\ h \in Nat /\ s.sqe_tail \in Nat
    BY <1>1, SizeFacts
  <1>4. n = U(s.sqe_tail - h)  BY DEF ReadyOf
  <1>5. x = Slot(s.sqe_tail)
    <2>1. \A u \in Index : u % e = Place(h, U(u - h) + 1, e)  BY <1>1, SizeFacts, PlaceFacts
    <2> QED  BY <1>1, <1>4, <2>1 DEF Slot
  <1>6. x \in 0..e-1 /\ \A i \in 1..e : Place(h, i, e) \in 0..e-1
    <2>1. \A i \in Int : Place(h, i, e) \in 0..e-1  BY <1>1, SizeFacts, PlaceFacts
    <2>2. n + 1 \in Int  BY <1>2
    <2> QED  BY <2>1, <2>2
  <1>7. /\ U(s.sqe_tail + 1) \in Index /\ U(U(s.sqe_tail + 1) - h) = n + 1
    <2>1. \A k \in Nat : U(s.sqe_tail - h) + k < Modulus =>
              U(s.sqe_tail + k) \in Index /\ U(U(s.sqe_tail + k) - h) = U(s.sqe_tail - h) + k
      BY <1>1, DistanceFacts
    <2>2. n + 1 < Modulus /\ 1 \in Nat  BY <1>1, <1>2, <1>3
    <2> QED  BY <1>4, <2>1, <2>2
  <1>8. n + 1 <= e
    <2>1. U(s.sqe_tail + 1 - h) = U(U(s.sqe_tail + 1) - h)
      <3> DEFINE a == s.sqe_tail + 1 - h
                 u == U(s.sqe_tail + 1)
      <3>1. u = s.sqe_tail + 1 \/ u = s.sqe_tail + 1 - Modulus
        <4>1. s.sqe_tail + 1 \in Int /\ s.sqe_tail < Modulus  BY <1>1, <1>3 DEF Index
        <4>2. CASE s.sqe_tail + 1 < Modulus
          <5>1. s.sqe_tail + 1 \in Index  BY <1>3, <4>1, <4>2 DEF Index
          <5> QED  BY <5>1, WrapFacts
        <4>3. CASE s.sqe_tail + 1 = Modulus
          <5>1. Modulus <= s.sqe_tail + 1 /\ s.sqe_tail + 1 < 2 * Modulus  BY <1>3, <4>3
          <5>2. U(s.sqe_tail + 1) = s.sqe_tail + 1 - Modulus  BY <1>3, <4>1, <5>1, WrapFacts
          <5> QED  BY <5>2
        <4> QED  BY <1>3, <4>1, <4>2, <4>3
      <3>2. CASE u = s.sqe_tail + 1
        <4>1. u - h = a  BY <1>3, <3>2
        <4> QED  BY <4>1
      <3>3. CASE u = s.sqe_tail + 1 - Modulus
        <4>1. PICK k \in Int : k = -1  OBVIOUS
        <4>2. a \in Int /\ Modulus \in Nat \ {0}  BY <1>3
        <4> HIDE DEF a
        <4>3. (a + Modulus * k) % Modulus = a % Modulus  BY <4>2, ModShift
        <4>4. a + Modulus * k = a - Modulus  BY <4>1, <4>2
        <4>5. u - h = a - Modulus  BY <1>3, <3>3 DEF a
        <4> QED  BY <4>3, <4>4, <4>5 DEF U, a
      <3> QED  BY <3>1, <3>2, <3>3
    <2> QED  BY <1>7, <2>1
  <1>9. /\ t \in SqType /\ t.khead = h /\ t.ktail = s.ktail /\ t.sqe_head = s.sqe_head
        /\ t.array = s.array /\ t.sqe_tail = U(s.sqe_tail + 1)
        /\ t.sqes = [s.sqes EXCEPT ![x] = r]
    <2>1. [s.sqes EXCEPT ![x] = r] \in [0..e-1 -> Things]  BY <1>1
    <2> HIDE DEF x
    <2> QED  BY <1>1, <1>5, <1>7, <2>1 DEF SqType
  <1> HIDE DEF n, x
  <1>10. ReadyOf(t) = n + 1 /\ FlushedOf(t) = FlushedOf(s)  BY <1>7, <1>9 DEF ReadyOf, FlushedOf
  <1>11. SqOk(t)
    BY <1>1, <1>2, <1>3, <1>8, <1>9, <1>10 DEF SqOk
  <1>12. WaitingOf(t) \in Seq(Things) /\ Len(WaitingOf(t)) = n + 1  BY <1>10, <1>11, WaitingFacts
  <1>13. ASSUME NEW i \in 1..(n + 1) PROVE WaitingOf(t)[i] = Append(WaitingOf(s), r)[i]
    <2>1. WaitingOf(t)[i] = t.sqes[Place(h, i, e)]  BY <1>9, <1>10 DEF WaitingOf
    <2>2. CASE i = n + 1
      <3>1. Append(WaitingOf(s), r)[n + 1] = r  BY <1>2
      <3>2. Place(h, i, e) = x  BY <2>2 DEF x
      <3>3. t.sqes[x] = r  BY <1>1, <1>6, <1>9
      <3> QED  BY <2>1, <2>2, <3>1, <3>2, <3>3
    <2>3. CASE i # n + 1
      <3>1. i \in 1..n  BY <1>2, <2>3
      <3>2. Append(WaitingOf(s), r)[i] = WaitingOf(s)[i]  BY <1>2, <3>1
      <3>3. WaitingOf(s)[i] = s.sqes[Place(h, i, e)]  BY <3>1 DEF WaitingOf, n
      <3>4. Place(h, i, e) # x
        <4>1. \A a, b \in Int : a - b < e /\ b - a < e /\ Place(h, a, e) = Place(h, b, e) => a = b
          BY <1>1, SizeFacts, PlaceFacts
        <4>2. i \in Int /\ n + 1 \in Int /\ i - (n + 1) < e /\ (n + 1) - i < e  BY <1>2, <1>3, <1>8, <3>1
        <4> QED  BY <2>3, <4>1, <4>2 DEF x
      <3>5. Place(h, i, e) \in 0..e-1  BY <1>2, <1>3, <1>6, <1>8, <3>1
      <3> QED  BY <1>1, <1>9, <2>1, <3>2, <3>3, <3>4, <3>5
    <2> QED  BY <2>2, <2>3
  <1>14. WaitingOf(t) = Append(WaitingOf(s), r)
    <2>1. Append(WaitingOf(s), r) \in Seq(Things) /\ Len(Append(WaitingOf(s), r)) = n + 1  BY <1>2
    <2> QED  BY <1>12, <1>13, <2>1
  <1> QED  BY <1>11, <1>14

\* __io_uring_flush_sq shows the kernel the entries it could not see yet.
LEMMA FlushFacts ==
    ASSUME SqOk(sq), FlushSq
    PROVE  SqOk(sq') /\ WaitingOf(sq') = WaitingOf(sq)
  <1> DEFINE h == sq.khead
             e == Entries
             f == FlushedOf(sq)
             n == U(sq.sqe_tail - sq.sqe_head)
             R == ReadyOf(sq)
  <1>1. /\ h \in Index /\ sq.ktail \in Index /\ sq.sqe_tail \in Index /\ sq \in SqType
        /\ sq.array \in [0..e-1 -> 0..e-1] /\ sq.sqe_head = sq.ktail /\ R <= e /\ f <= R
        /\ \A j \in 1..f : sq.array[Place(h, j, e)] = Place(h, j, e)
    BY DEF SqOk, SqType
  <1>2. R \in Nat /\ f \in Nat /\ e \in Nat \ {0}  BY WaitingFacts, SizeFacts
  <1>3. R = U(sq.sqe_tail - h) /\ f = U(sq.ktail - h)  BY DEF ReadyOf, FlushedOf
  <1>4. sq.ktail = U(h + f)  BY <1>1, <1>3, DistanceFacts
  <1>5. n = R - f
    <2>1. \A k \in 0..U(sq.sqe_tail - h) : U(sq.sqe_tail - U(h + k)) = U(sq.sqe_tail - h) - k
      BY <1>1, DistanceFacts
    <2>2. f \in 0..R  BY <1>1, <1>2
    <2> QED  BY <1>1, <1>3, <1>4, <2>1, <2>2
  <1>6. U(sq.ktail + n) = sq.sqe_tail  BY <1>1, DistanceFacts
  <1> DEFINE k(i) == Slot(U(i - sq.ktail))
  <1>7. \A i \in 0..e-1 : k(i) \in 0..e-1 /\ Place(sq.ktail, k(i) + 1, e) = i
    <2>1. \A i \in 0..(e - 1) : LET d == U(i - sq.ktail) % e
                                IN  d \in 0..(e - 1) /\ Place(sq.ktail, d + 1, e) = i
      BY <1>1, SizeFacts, PlaceFacts
    <2> QED  BY <2>1 DEF Slot
  <1>8. \A i \in 0..e-1 : Slot(U(sq.sqe_head + k(i))) = i
    <2> SUFFICES ASSUME NEW i \in 0..e-1 PROVE Slot(U(sq.ktail + k(i))) = i
      BY <1>1
    <2>1. k(i) \in 0..e-1 /\ Place(sq.ktail, k(i) + 1, e) = i  BY <1>7
    <2>2. sq.ktail \in Nat  BY <1>1, SizeFacts
    <2> HIDE DEF k
    <2>3. sq.ktail + (k(i) + 1) - 1 = sq.ktail + k(i)  BY <1>2, <2>1, <2>2
    <2> QED  BY <2>1, <2>3 DEF Place, Slot
  <1>9. \A i \in 0..e-1 : ArrayEntry(i, n) = IF k(i) < n THEN i ELSE sq.array[i]
    BY <1>8 DEF ArrayEntry
  <1>10. sq' = [sq EXCEPT !.array = [i \in 0..e-1 |-> ArrayEntry(i, n)],
                          !.ktail = U(@ + n), !.sqe_head = sq.sqe_tail]
    BY DEF FlushSq
  <1>11. /\ sq' \in SqType /\ sq'.khead = h /\ sq'.ktail = sq.sqe_tail /\ sq'.sqe_head = sq.sqe_tail
         /\ sq'.sqe_tail = sq.sqe_tail /\ sq'.sqes = sq.sqes
         /\ sq'.array = [i \in 0..e-1 |-> ArrayEntry(i, n)]
    <2>1. [i \in 0..e-1 |-> ArrayEntry(i, n)] \in [0..e-1 -> 0..e-1]  BY <1>1, <1>9
    <2> HIDE DEF n
    <2> QED  BY <1>1, <1>6, <1>10, <2>1 DEF SqType
  <1> HIDE DEF n, k
  <1>12. ReadyOf(sq') = R /\ FlushedOf(sq') = R  BY <1>3, <1>11 DEF ReadyOf, FlushedOf
  <1>13. ASSUME NEW j \in 1..R PROVE sq'.array[Place(h, j, e)] = Place(h, j, e)
    <2> DEFINE i == Place(h, j, e)
    <2>1. \A a \in Int : Place(h, a, e) \in 0..e-1  BY <1>1, SizeFacts, PlaceFacts
    <2>2. i \in 0..e-1  BY <1>2, <2>1
    <2>3. sq'.array[i] = IF k(i) < n THEN i ELSE sq.array[i]
      <3> HIDE DEF i
      <3> QED  BY <1>9, <1>11, <2>2
    <2>4. CASE j <= f
      <3>1. sq.array[i] = i  BY <1>1, <1>2, <2>4
      <3> QED  BY <2>3, <3>1
    <2>5. CASE ~(j <= f)
      <3>1. k(i) \in 0..e-1 /\ Place(sq.ktail, k(i) + 1, e) = i  BY <1>7, <2>2
      <3>2. Place(sq.ktail, j - f, e) = i
        <4>1. \A a, b \in Int : Place(U(h + a), b, e) = Place(h, a + b, e)
          BY <1>1, SizeFacts, PlaceFacts
        <4>2. f \in Int /\ j - f \in Int /\ f + (j - f) = j  BY <1>2
        <4> HIDE DEF f
        <4>3. Place(U(h + f), j - f, e) = Place(h, f + (j - f), e)  BY <4>1, <4>2
        <4> QED  BY <1>4, <4>2, <4>3
      <3>3. \A a, b \in Int : a - b < e /\ b - a < e
                              /\ Place(sq.ktail, a, e) = Place(sq.ktail, b, e) => a = b
        BY <1>1, SizeFacts, PlaceFacts
      <3> HIDE DEF i
      <3>4. /\ k(i) + 1 \in Int /\ j - f \in Int
            /\ (k(i) + 1) - (j - f) < e /\ (j - f) - (k(i) + 1) < e
        BY <1>1, <1>2, <2>5, <3>1
      <3>5. k(i) + 1 = j - f  BY <3>1, <3>2, <3>3, <3>4
      <3>6. k(i) < n  BY <1>1, <1>2, <1>5, <3>1, <3>5
      <3> QED  BY <2>3, <3>6 DEF i
    <2> QED  BY <2>4, <2>5
  <1>14. SqOk(sq')
    <2>1. R <= R  BY <1>2
    <2> QED  BY <1>1, <1>11, <1>12, <1>13, <2>1 DEF SqOk
  <1>15. WaitingOf(sq') = WaitingOf(sq)  BY <1>11, <1>12 DEF WaitingOf
  <1> QED  BY <1>14, <1>15

\* io_uring_enter takes entries from the front.
LEMMA TakeFacts ==
    ASSUME NEW s, SqOk(s), NEW n \in 0..FlushedOf(s), NEW t, t = [s EXCEPT !.khead = U(@ + n)]
    PROVE  SqOk(t) /\ WaitingOf(t) = SubSeq(WaitingOf(s), n + 1, ReadyOf(s))
  <1> DEFINE h == s.khead
             e == Entries
             f == FlushedOf(s)
             R == ReadyOf(s)
  <1>1. /\ h \in Index /\ s.ktail \in Index /\ s.sqe_tail \in Index /\ s \in SqType
        /\ s.sqe_head = s.ktail /\ R <= e /\ f <= R
        /\ \A j \in 1..f : s.array[Place(h, j, e)] = Place(h, j, e)
    BY DEF SqOk, SqType
  <1>2. R \in Nat /\ f \in Nat /\ e \in Nat \ {0} /\ WaitingOf(s) \in Seq(Things) /\ Len(WaitingOf(s)) = R
    BY WaitingFacts, SizeFacts
  <1>3. R = U(s.sqe_tail - h) /\ f = U(s.ktail - h) /\ n \in 0..f /\ n \in 0..R /\ n \in Nat
    BY <1>1, <1>2 DEF ReadyOf, FlushedOf
  <1>4. U(h + n) \in Index /\ U(s.sqe_tail - U(h + n)) = R - n /\ U(s.ktail - U(h + n)) = f - n
    BY <1>1, <1>3, DistanceFacts
  <1>5. /\ t \in SqType /\ t.khead = U(h + n) /\ t.ktail = s.ktail /\ t.sqe_head = s.sqe_head
        /\ t.sqe_tail = s.sqe_tail /\ t.sqes = s.sqes /\ t.array = s.array
    BY <1>1, <1>4 DEF SqType
  <1>6. ReadyOf(t) = R - n /\ FlushedOf(t) = f - n  BY <1>4, <1>5 DEF ReadyOf, FlushedOf
  <1>7. \A i \in Int : Place(U(h + n), i, e) = Place(h, n + i, e)
    <2>1. \A a, b \in Int : Place(U(h + a), b, e) = Place(h, a + b, e)
      BY <1>1, SizeFacts, PlaceFacts
    <2> QED  BY <1>3, <2>1
  <1> HIDE DEF f, R
  <1>8. SqOk(t)
    <2>1. R - n <= e /\ f - n <= R - n  BY <1>1, <1>2, <1>3
    <2>2. ASSUME NEW j \in 1..(f - n)
          PROVE  s.array[Place(U(h + n), j, e)] = Place(U(h + n), j, e)
      <3>1. n + j \in 1..f /\ j \in Int  BY <1>2, <1>3
      <3> QED  BY <1>1, <1>7, <3>1
    <2> QED  BY <1>1, <1>5, <1>6, <2>1, <2>2 DEF SqOk
  <1>9. WaitingOf(t) \in Seq(Things) /\ Len(WaitingOf(t)) = R - n  BY <1>6, <1>8, WaitingFacts
  <1> DEFINE W == WaitingOf(s)
             V == SubSeq(W, n + 1, R)
  <1>10. V \in Seq(Things) /\ Len(V) = R - n /\ \A i \in 1..(R - n) : V[i] = W[n + i]
    <2> HIDE DEF W
    <2>1. W \in Seq(Things) /\ Len(W) = R  BY <1>2 DEF W
    <2> QED  BY <1>2, <1>3, <2>1
  <1>11. ASSUME NEW i \in 1..(R - n) PROVE WaitingOf(t)[i] = V[i]
    <2>1. n + i \in 1..R /\ i \in Int  BY <1>2, <1>3
    <2>2. V[i] = s.sqes[Place(h, n + i, e)]  BY <1>10, <2>1 DEF WaitingOf, R
    <2>3. WaitingOf(t)[i] = s.sqes[Place(U(h + n), i, e)]  BY <1>5, <1>6 DEF WaitingOf
    <2> QED  BY <1>7, <2>1, <2>2, <2>3
  <1>12. WaitingOf(t) = V
    <2> HIDE DEF V
    <2>1. V \in Seq(Things) /\ Len(V) = Len(WaitingOf(t))  BY <1>9, <1>10
    <2>2. \A i \in 1..Len(WaitingOf(t)) : WaitingOf(t)[i] = V[i]  BY <1>9, <1>11
    <2> QED  BY <1>9, <2>1, <2>2, SameSequence
  <1> QED  BY <1>8, <1>12 DEF R

\* A completion queue as a sequence of completions.
LEMMA FinishedFacts ==
    ASSUME NEW c, CqOk(c)
    PROVE  /\ FinishedCount(c) \in Nat /\ FinishedOf(c) \in Seq(Things)
           /\ Len(FinishedOf(c)) = FinishedCount(c)
  <1>1. c.khead \in Index /\ c.ktail \in Index /\ c.cqes \in [0..CqEntries-1 -> Things]
    BY DEF CqOk, CqType
  <1>2. FinishedCount(c) \in Nat  BY <1>1, SizeFacts DEF FinishedCount
  <1>3. \A i \in Int : Place(c.khead, i, CqEntries) \in 0..CqEntries-1
    BY <1>1, SizeFacts, PlaceFacts
  <1>4. FinishedOf(c) \in [1..FinishedCount(c) -> Things]
    <2> DEFINE n == FinishedCount(c)
    <2>1. ASSUME NEW i \in 1..n PROVE c.cqes[Place(c.khead, i, CqEntries)] \in Things
      <3>1. Place(c.khead, i, CqEntries) \in 0..CqEntries-1  BY <1>2, <1>3
      <3> QED  BY <1>1, <3>1
    <2> QED  BY <2>1 DEF FinishedOf
  <1> QED  BY <1>2, <1>4

\* The kernel puts completions behind the others.
LEMMA PostedFacts ==
    ASSUME CqOk(cq), NEW s \in Seq(Things), FinishedCount(cq) + Len(s) <= CqEntries
    PROVE  CqOk(Posted(s)) /\ FinishedOf(Posted(s)) = FinishedOf(cq) \o s
  <1> DEFINE h == cq.khead
             e == CqEntries
             g == FinishedCount(cq)
             L == Len(s)
             c == Posted(s)
             k(i) == CqSlot(U(i - cq.ktail))
             F == FinishedOf(cq)
  <1>1. /\ h \in Index /\ cq.ktail \in Index /\ cq \in CqType
        /\ cq.cqes \in [0..e-1 -> Things] /\ g <= e
    BY DEF CqOk, CqType
  <1>2. g \in Nat /\ L \in Nat /\ e \in Nat \ {0} /\ e + 1 < Modulus /\ Modulus \in Nat /\ g + L <= e
        /\ F \in Seq(Things) /\ Len(F) = g
    BY FinishedFacts, SizeFacts
  <1>3. g = U(cq.ktail - h)  BY DEF FinishedCount
  <1>4. cq.ktail = U(h + g)  BY <1>1, <1>3, DistanceFacts
  <1>5. U(cq.ktail + L) \in Index /\ U(U(cq.ktail + L) - h) = g + L
    <2>1. g + L < Modulus  BY <1>2
    <2> HIDE DEF L
    <2> QED  BY <1>1, <1>2, <1>3, <2>1, DistanceFacts
  <1>6. ASSUME NEW i \in 0..e-1
        PROVE  /\ k(i) \in 0..e-1 /\ Place(cq.ktail, k(i) + 1, e) = i
    <2>1. \A j \in 0..(e - 1) : LET d == U(j - cq.ktail) % e
                                IN  d \in 0..(e - 1) /\ Place(cq.ktail, d + 1, e) = j
      BY <1>1, SizeFacts, PlaceFacts
    <2> QED  BY <2>1 DEF CqSlot
  <1>7. \A b \in Int : Place(cq.ktail, b, e) = Place(h, g + b, e)
    <2>1. \A a, b \in Int : Place(U(h + a), b, e) = Place(h, a + b, e)
      BY <1>1, SizeFacts, PlaceFacts
    <2>2. g \in Int  BY <1>2
    <2> HIDE DEF g
    <2> QED  BY <1>4, <2>1, <2>2
  <1>8. \A a, b \in Int : a - b < e /\ b - a < e /\ Place(h, a, e) = Place(h, b, e) => a = b
    BY <1>1, SizeFacts, PlaceFacts
  <1>9. \A a \in Int : Place(h, a, e) \in 0..e-1  BY <1>1, SizeFacts, PlaceFacts
  <1>10. c = [cq EXCEPT !.ktail = U(@ + L),
                        !.cqes = [i \in 0..e-1 |-> IF k(i) < L THEN s[k(i) + 1] ELSE cq.cqes[i]]]
    BY DEF Posted
  <1> HIDE DEF k, c, L
  <1>11. /\ c \in CqType /\ c.khead = h /\ c.ktail = U(cq.ktail + L)
         /\ \A i \in 0..e-1 : c.cqes[i] = IF k(i) < L THEN s[k(i) + 1] ELSE cq.cqes[i]
    <2> DEFINE q == [i \in 0..e-1 |-> IF k(i) < L THEN s[k(i) + 1] ELSE cq.cqes[i]]
    <2>1. q \in [0..e-1 -> Things]
      <3>1. ASSUME NEW i \in 0..e-1, k(i) < L PROVE s[k(i) + 1] \in Things
        <4>1. k(i) \in 0..e-1  BY <1>6
        <4>2. k(i) + 1 \in 1..Len(s)  BY <1>2, <3>1, <4>1 DEF L
        <4> QED  BY <4>2
      <3> QED  BY <1>1, <3>1
    <2>2. \A i \in 0..e-1 : q[i] = IF k(i) < L THEN s[k(i) + 1] ELSE cq.cqes[i]  OBVIOUS
    <2> HIDE DEF q
    <2>3. c = [cq EXCEPT !.ktail = U(@ + L), !.cqes = q]  BY <1>10 DEF q
    <2> QED  BY <1>1, <1>5, <2>1, <2>2, <2>3 DEF CqType
  <1>12. FinishedCount(c) = g + L  BY <1>5, <1>11 DEF FinishedCount
  <1>13. CqOk(c)  BY <1>2, <1>11, <1>12 DEF CqOk
  <1>14. FinishedOf(c) \in Seq(Things) /\ Len(FinishedOf(c)) = g + L
    BY <1>12, <1>13, FinishedFacts
  <1>15. /\ F \o s \in Seq(Things) /\ Len(F \o s) = g + L
         /\ \A i \in 1..g : (F \o s)[i] = F[i]
         /\ \A i \in 1..L : (F \o s)[g + i] = s[i]
    <2> HIDE DEF F, g
    <2> QED  BY <1>2 DEF L
  <1> HIDE DEF g
  <1>16. ASSUME NEW j \in 1..(g + L) PROVE FinishedOf(c)[j] = (F \o s)[j]
    <2> DEFINE i == Place(h, j, e)
    <2>1. i \in 0..e-1 /\ j \in Int
      <3>1. j \in Int  BY <1>2
      <3> QED  BY <1>9, <3>1
    <2>2. FinishedOf(c)[j] = c.cqes[i]  BY <1>11, <1>12 DEF FinishedOf
    <2>3. c.cqes[i] = IF k(i) < L THEN s[k(i) + 1] ELSE cq.cqes[i]
      <3> HIDE DEF i
      <3> QED  BY <1>11, <2>1
    <2>4. k(i) \in 0..e-1 /\ Place(cq.ktail, k(i) + 1, e) = i  BY <1>6, <2>1
    <2>5. k(i) \in Int /\ Place(h, g + (k(i) + 1), e) = Place(h, j, e)
      <3>1. k(i) \in Int /\ k(i) + 1 \in Int  BY <1>2, <2>4
      <3> QED  BY <1>7, <2>4, <3>1
    <2> DEFINE d == k(i)
    <2> HIDE DEF i, d
    <2>6. d \in 0..e-1 /\ Place(h, g + (d + 1), e) = Place(h, j, e)  BY <2>4, <2>5 DEF d
    <2>7. CASE j <= g
      <3>1. ~(d < L)
        <4> SUFFICES ASSUME d < L PROVE FALSE
          OBVIOUS
        <4> DEFINE a == g + (d + 1)
        <4>1. a \in Int /\ a - j < e /\ j - a < e /\ a # j  BY <1>2, <2>1, <2>6, <2>7
        <4>2. Place(h, a, e) = Place(h, j, e)  BY <2>6
        <4> HIDE DEF a
        <4> QED  BY <1>8, <2>1, <4>1, <4>2
      <3>2. j \in 1..g  BY <1>2, <2>7
      <3>3. F[j] = cq.cqes[i]  BY <3>2 DEF FinishedOf, i, g
      <3> QED  BY <1>15, <2>2, <2>3, <3>1, <3>2, <3>3 DEF d
    <2>8. CASE ~(j <= g)
      <3>1. j - g \in 1..L /\ g + (j - g) = j  BY <1>2, <2>8
      <3>2. Place(cq.ktail, j - g, e) = Place(h, j, e) /\ j - g \in Int  BY <1>2, <1>7, <3>1
      <3> DEFINE a == g + (d + 1)
      <3>3. a \in Int /\ a - j < e /\ j - a < e /\ Place(h, a, e) = Place(h, j, e)
        BY <1>2, <2>1, <2>6, <2>8, <3>1
      <3>4. a = j
        <4> HIDE DEF a
        <4> QED  BY <1>8, <2>1, <3>3
      <3>5. d < L /\ d + 1 = j - g  BY <1>2, <2>6, <3>1, <3>4
      <3>6. (F \o s)[g + (j - g)] = s[j - g]  BY <1>15, <3>1
      <3> QED  BY <2>2, <2>3, <3>1, <3>5, <3>6 DEF d
    <2> QED  BY <2>7, <2>8
  <1>17. FinishedOf(c) = F \o s
    <2>1. \A i \in 1..Len(FinishedOf(c)) : FinishedOf(c)[i] = (F \o s)[i]  BY <1>14, <1>16
    <2>2. Len(FinishedOf(c)) = Len(F \o s)  BY <1>14, <1>15
    <2> DEFINE G == F \o s
    <2>3. G \in Seq(Things)  BY <1>15
    <2> HIDE DEF G
    <2> QED  BY <1>14, <2>1, <2>2, <2>3, SameSequence DEF G
  <1> QED  BY <1>13, <1>17 DEF c

\* io_uring_cq_advance drops completions from the front.
LEMMA SeenFacts ==
    ASSUME NEW c, CqOk(c), NEW n \in 0..FinishedCount(c), NEW t, t = [c EXCEPT !.khead = U(@ + n)]
    PROVE  CqOk(t) /\ FinishedOf(t) = SubSeq(FinishedOf(c), n + 1, FinishedCount(c))
  <1> DEFINE h == c.khead
             e == CqEntries
             g == FinishedCount(c)
             W == FinishedOf(c)
             V == SubSeq(W, n + 1, g)
  <1>1. h \in Index /\ c.ktail \in Index /\ c \in CqType /\ g <= e  BY DEF CqOk, CqType
  <1>2. g \in Nat /\ e \in Nat \ {0} /\ W \in Seq(Things) /\ Len(W) = g /\ n \in Nat /\ n <= g
    BY FinishedFacts, SizeFacts
  <1>3. g = U(c.ktail - h)  BY DEF FinishedCount
  <1>4. U(h + n) \in Index /\ U(c.ktail - U(h + n)) = g - n  BY <1>1, <1>3, DistanceFacts
  <1>5. t \in CqType /\ t.khead = U(h + n) /\ t.ktail = c.ktail /\ t.cqes = c.cqes
    BY <1>1, <1>4 DEF CqType
  <1>6. FinishedCount(t) = g - n  BY <1>4, <1>5 DEF FinishedCount
  <1>7. \A i \in Int : Place(U(h + n), i, e) = Place(h, n + i, e)
    <2>1. \A a, b \in Int : Place(U(h + a), b, e) = Place(h, a + b, e)
      BY <1>1, SizeFacts, PlaceFacts
    <2> QED  BY <1>2, <2>1
  <1> HIDE DEF g
  <1>8. CqOk(t)
    <2>1. g - n <= e  BY <1>1, <1>2
    <2> QED  BY <1>5, <1>6, <2>1 DEF CqOk
  <1>9. FinishedOf(t) \in Seq(Things) /\ Len(FinishedOf(t)) = g - n  BY <1>6, <1>8, FinishedFacts
  <1>10. V \in Seq(Things) /\ Len(V) = g - n /\ \A i \in 1..(g - n) : V[i] = W[n + i]
    <2> HIDE DEF W
    <2> QED  BY <1>2
  <1>11. ASSUME NEW i \in 1..(g - n) PROVE FinishedOf(t)[i] = V[i]
    <2>1. n + i \in 1..g /\ i \in Int  BY <1>2
    <2>2. V[i] = c.cqes[Place(h, n + i, e)]  BY <1>10, <2>1 DEF FinishedOf, g
    <2>3. FinishedOf(t)[i] = c.cqes[Place(U(h + n), i, e)]  BY <1>5, <1>6 DEF FinishedOf
    <2> QED  BY <1>7, <2>1, <2>2, <2>3
  <1>12. FinishedOf(t) = V
    <2> HIDE DEF V
    <2>1. V \in Seq(Things) /\ Len(V) = Len(FinishedOf(t))  BY <1>9, <1>10
    <2>2. \A i \in 1..Len(FinishedOf(t)) : FinishedOf(t)[i] = V[i]  BY <1>9, <1>11
    <2> QED  BY <1>9, <2>1, <2>2, SameSequence
  <1> QED  BY <1>8, <1>12 DEF g

-----------------------------------------------------------------------------
(* The inductive invariant.                                                *)

MmapPcs == {"mapSq", "mapCq", "mapSqes"}
ClosedPcs == {"none"} \cup MmapPcs
OpenPcs == {"prepare", "enter", "peek", "empty", "holding"}

\* What is open and mapped, and which pointers are set.
SetupInv ==
    /\ pc \in ClosedPcs \cup OpenPcs
    /\ mapped \in [Areas -> Int] /\ ptr \in [Areas -> Areas \cup {"null"}]
    /\ ringFd \in BOOLEAN /\ (ringFd <=> pc # "none")
    /\ pc \in {"none", "mapSq"} => \A a \in Areas : mapped[a] = 0
    /\ pc = "mapSq" => ptr = NullPtr
    /\ pc \notin {"none", "mapSq"} => mapped["sqRing"] = 1 /\ ptr["sqRing"] = "sqRing"
    /\ pc = "mapCq" => mapped["cqRing"] = 0 /\ ptr["cqRing"] = "null"
    /\ pc \in OpenPcs \cup {"mapSqes"} =>
        \/ ptr["cqRing"] = "sqRing" /\ mapped["cqRing"] = 0
        \/ ptr["cqRing"] = "cqRing" /\ mapped["cqRing"] = 1
    /\ pc \in MmapPcs => mapped["sqes"] = 0
    /\ pc \in OpenPcs => mapped["sqes"] = 1 /\ ptr["sqes"] = "sqes"

\* The rings are well formed, a ring that is not open is empty, and what the user looks at
\* is still in the completion queue.
RingInv ==
    /\ pc \in ClosedPcs \cup OpenPcs
    /\ SqOk(sq) /\ CqOk(cq)
    /\ running \subseteq Things /\ overflow \in Seq(Things) /\ held \in Seq(Things)
    /\ pc \in ClosedPcs => running = {} /\ overflow = <<>>
    /\ pc \in MmapPcs => sq = EmptySq /\ cq = EmptyCq
    /\ pc # "holding" => held = <<>>
    /\ pc = "holding" => Len(held) \in 1..FinishedCount(cq)

\* A step of the ring.
LEMMA StepCases ==
    ASSUME [Next]_vars
    PROVE  \/ QueueInit \/ MmapSqRing \/ MmapCqRing \/ MmapSqes \/ QueueExit
           \/ FlushSq \/ SkipSubmit \/ Enter \/ PeekCqe \/ PeekAgain \/ FlushOverflow \/ WaitCqe \/ CqeSeen
           \/ \E count \in 1..CqEntries : PeekBatchCqe(count)
           \/ \E r \in Requests : GetSqe(r)
           \/ \E r \in Requests : Complete(r)
           \/ UNCHANGED vars
  BY DEF Next, SetupStep, LoopStep

\* io_uring_unmap_rings undoes the mappings of the rings.
LEMMA UnmapFacts ==
    ASSUME NEW m \in [Areas -> Int], NEW p, p["sqRing"] = "sqRing",
           p["cqRing"] \in {"null", "sqRing", "cqRing"}
    PROVE  /\ UnmapRings(m, p) \in [Areas -> Int]
           /\ UnmapRings(m, p)["sqRing"] = m["sqRing"] - 1
           /\ UnmapRings(m, p)["cqRing"] = IF p["cqRing"] = "cqRing" THEN m["cqRing"] - 1 ELSE m["cqRing"]
           /\ UnmapRings(m, p)["sqes"] = m["sqes"]
  <1>1. CASE p["cqRing"] = "cqRing"  BY <1>1 DEF UnmapRings, Areas
  <1>2. CASE p["cqRing"] # "cqRing"  BY <1>2 DEF UnmapRings, Areas
  <1> QED  BY <1>1, <1>2

\* What is mapped and open follows the steps of io_uring_queue_init and io_uring_queue_exit.
LEMMA SetupNext ==
    ASSUME SetupInv, [Next]_vars
    PROVE  SetupInv'
  <1> USE DEF ClosedPcs, OpenPcs, MmapPcs
  <1>a. Areas = {"sqRing", "cqRing", "sqes"}  BY DEF Areas
  <1>b. mapped \in [Areas -> Int] /\ ptr \in [Areas -> Areas \cup {"null"}]  BY DEF SetupInv
  <1>1. CASE QueueInit
    <2>1. NullPtr \in [Areas -> Areas \cup {"null"}]  BY DEF NullPtr
    <2>2. CASE UNCHANGED <<pc, setupVars>>  BY <2>2 DEF setupVars, SetupInv
    <2>3. CASE pc' = "mapSq" /\ ringFd' = TRUE /\ ptr' = NullPtr /\ UNCHANGED mapped
      <3>1. \A a \in Areas : mapped[a] = 0  BY <1>1 DEF QueueInit, SetupInv
      <3> QED  BY <1>a, <1>b, <2>1, <2>3, <3>1 DEF SetupInv
    <2> QED  BY <1>1, <2>2, <2>3 DEF QueueInit
  <1>2. CASE MmapSqRing
    <2>1. CASE Failure /\ InitFailed /\ UNCHANGED <<mapped, ptr>>
      BY <1>2, <2>1 DEF MmapSqRing, InitFailed, SetupInv
    <2>2. CASE \E single \in SingleMmap :
                   /\ mapped' = [mapped EXCEPT !["sqRing"] = @ + 1]
                   /\ ptr' = [ptr EXCEPT !["sqRing"] = "sqRing",
                                         !["cqRing"] = IF single THEN "sqRing" ELSE @]
                   /\ pc' = IF single THEN "mapSqes" ELSE "mapCq"
                   /\ UNCHANGED ringFd
      <3>1. PICK single \in SingleMmap :
                   /\ mapped' = [mapped EXCEPT !["sqRing"] = @ + 1]
                   /\ ptr' = [ptr EXCEPT !["sqRing"] = "sqRing",
                                         !["cqRing"] = IF single THEN "sqRing" ELSE @]
                   /\ pc' = IF single THEN "mapSqes" ELSE "mapCq"
                   /\ UNCHANGED ringFd
        BY <2>2
      <3>2. /\ mapped["sqRing"] = 0 /\ mapped["cqRing"] = 0 /\ mapped["sqes"] = 0
            /\ ptr["cqRing"] = "null" /\ ringFd \in BOOLEAN /\ ringFd
        BY <1>2, <1>a DEF MmapSqRing, SetupInv, NullPtr
      <3>3. /\ mapped' \in [Areas -> Int] /\ ptr' \in [Areas -> Areas \cup {"null"}]
            /\ mapped'["sqRing"] = 1 /\ mapped'["cqRing"] = 0 /\ mapped'["sqes"] = 0
            /\ ptr'["sqRing"] = "sqRing"
        BY <1>a, <1>b, <3>1, <3>2
      <3>4. CASE single
        <4>1. pc' = "mapSqes" /\ ptr'["cqRing"] = "sqRing"  BY <1>a, <1>b, <3>1, <3>4
        <4> QED  BY <3>1, <3>2, <3>3, <4>1 DEF SetupInv
      <3>5. CASE ~single
        <4>1. pc' = "mapCq" /\ ptr'["cqRing"] = "null"  BY <1>a, <1>b, <3>1, <3>2, <3>5
        <4> QED  BY <3>1, <3>2, <3>3, <4>1 DEF SetupInv
      <3> QED  BY <3>4, <3>5
    <2> QED  BY <1>2, <2>1, <2>2 DEF MmapSqRing
  <1>3. CASE MmapCqRing
    <2>1. /\ mapped["sqRing"] = 1 /\ mapped["cqRing"] = 0 /\ mapped["sqes"] = 0
          /\ ptr["sqRing"] = "sqRing" /\ ptr["cqRing"] = "null" /\ ringFd \in BOOLEAN /\ ringFd
      BY <1>3 DEF MmapCqRing, SetupInv
    <2>2. CASE InitFailed /\ mapped' = UnmapRings(mapped, ptr) /\ UNCHANGED ptr
      <3>1. /\ mapped' \in [Areas -> Int]
            /\ mapped'["sqRing"] = 0 /\ mapped'["cqRing"] = 0 /\ mapped'["sqes"] = 0
        BY <1>b, <2>1, <2>2, UnmapFacts
      <3> QED  BY <1>a, <1>b, <2>2, <3>1 DEF InitFailed, SetupInv
    <2>3. CASE /\ mapped' = [mapped EXCEPT !["cqRing"] = @ + 1]
               /\ ptr' = [ptr EXCEPT !["cqRing"] = "cqRing"]
               /\ pc' = "mapSqes" /\ UNCHANGED ringFd
      BY <1>a, <1>b, <2>1, <2>3 DEF SetupInv
    <2> QED  BY <1>3, <2>2, <2>3 DEF MmapCqRing
  <1>4. CASE MmapSqes
    <2>1. /\ mapped["sqRing"] = 1 /\ mapped["sqes"] = 0 /\ ptr["sqRing"] = "sqRing"
          /\ \/ ptr["cqRing"] = "sqRing" /\ mapped["cqRing"] = 0
             \/ ptr["cqRing"] = "cqRing" /\ mapped["cqRing"] = 1
          /\ ringFd \in BOOLEAN /\ ringFd
      BY <1>4 DEF MmapSqes, SetupInv
    <2>2. CASE InitFailed /\ mapped' = UnmapRings(mapped, ptr) /\ UNCHANGED ptr
      <3>1. /\ mapped' \in [Areas -> Int]
            /\ mapped'["sqRing"] = 0 /\ mapped'["cqRing"] = 0 /\ mapped'["sqes"] = 0
        BY <1>b, <2>1, <2>2, UnmapFacts
      <3> QED  BY <1>a, <1>b, <2>2, <3>1 DEF InitFailed, SetupInv
    <2>3. CASE /\ mapped' = [mapped EXCEPT !["sqes"] = @ + 1]
               /\ ptr' = [ptr EXCEPT !["sqes"] = "sqes"]
               /\ pc' = "prepare" /\ UNCHANGED ringFd
      BY <1>a, <1>b, <2>1, <2>3 DEF SetupInv
    <2> QED  BY <1>4, <2>2, <2>3 DEF MmapSqes
  <1>5. CASE QueueExit
    <2> DEFINE m == [mapped EXCEPT !["sqes"] = @ - 1]
    <2>1. /\ mapped["sqRing"] = 1 /\ mapped["sqes"] = 1 /\ ptr["sqRing"] = "sqRing"
          /\ \/ ptr["cqRing"] = "sqRing" /\ mapped["cqRing"] = 0
             \/ ptr["cqRing"] = "cqRing" /\ mapped["cqRing"] = 1
      BY <1>5 DEF QueueExit, SetupInv
    <2>2. /\ m \in [Areas -> Int] /\ m["sqRing"] = 1 /\ m["sqes"] = 0
          /\ m["cqRing"] = mapped["cqRing"]
      BY <1>a, <1>b, <2>1
    <2>3. mapped' = UnmapRings(m, ptr) /\ ringFd' = FALSE /\ pc' = "none" /\ UNCHANGED ptr
      BY <1>5 DEF QueueExit
    <2> HIDE DEF m
    <2>4. /\ mapped' \in [Areas -> Int]
          /\ mapped'["sqRing"] = 0 /\ mapped'["cqRing"] = 0 /\ mapped'["sqes"] = 0
      BY <2>1, <2>2, <2>3, UnmapFacts
    <2> QED  BY <1>a, <1>b, <2>3, <2>4 DEF SetupInv
  <1>6. CASE UNCHANGED setupVars /\ (pc' = pc \/ (pc \in OpenPcs /\ pc' \in OpenPcs))
    BY <1>6 DEF setupVars, SetupInv
  <1>7. FlushSq \/ SkipSubmit \/ Enter \/ PeekCqe \/ PeekAgain \/ FlushOverflow \/ WaitCqe \/ CqeSeen
        => UNCHANGED setupVars /\ pc \in OpenPcs /\ pc' \in OpenPcs
    BY DEF FlushSq, SkipSubmit, Enter, PeekCqe, PeekAgain, FlushOverflow, WaitCqe, GetEvents,
        CqeSeen
  <1>8. ASSUME NEW count, PeekBatchCqe(count)
        PROVE  UNCHANGED setupVars /\ pc \in OpenPcs /\ pc' \in OpenPcs
    BY <1>8 DEF PeekBatchCqe
  <1>9. ASSUME NEW r, GetSqe(r) \/ Complete(r) PROVE UNCHANGED setupVars /\ pc' = pc
    BY <1>9 DEF GetSqe, Complete
  <1>10. UNCHANGED vars => UNCHANGED setupVars /\ pc' = pc  BY DEF vars
  <1> HIDE DEF ClosedPcs, OpenPcs, MmapPcs
  <1> QED
    BY <1>1, <1>2, <1>3, <1>4, <1>5, <1>6, <1>7, <1>8, <1>9, <1>10, StepCases

\* The empty rings of a new io_uring.
LEMMA EmptyFacts ==
    /\ SqOk(EmptySq) /\ WaitingOf(EmptySq) = <<>>
    /\ CqOk(EmptyCq) /\ FinishedOf(EmptyCq) = <<>>
  <1>1. 0 \in Index /\ U(0 - 0) = 0
    <2>1. 0 \in Index  BY SizeFacts DEF Index
    <2> QED  BY <2>1, WrapFacts
  <1>2. ReadyOf(EmptySq) = 0 /\ FlushedOf(EmptySq) = 0 /\ FinishedCount(EmptyCq) = 0
    BY <1>1 DEF ReadyOf, FlushedOf, FinishedCount, EmptySq, EmptyCq
  <1>3. EmptySq \in SqType /\ EmptySq.sqe_head = EmptySq.ktail
    BY <1>1, SizeFacts DEF EmptySq, SqType, Things
  <1>4. EmptyCq \in CqType  BY <1>1, SizeFacts DEF EmptyCq, CqType, Things
  <1>5. SqOk(EmptySq) /\ CqOk(EmptyCq)  BY <1>2, <1>3, <1>4, SizeFacts DEF SqOk, CqOk
  <1>6. Len(WaitingOf(EmptySq)) = 0 /\ WaitingOf(EmptySq) \in Seq(Things)
    BY <1>2, <1>5, WaitingFacts
  <1>7. Len(FinishedOf(EmptyCq)) = 0 /\ FinishedOf(EmptyCq) \in Seq(Things)
    BY <1>2, <1>5, FinishedFacts
  <1>8. \A s \in Seq(Things) : Len(s) = 0 => s = <<>>  OBVIOUS
  <1> QED  BY <1>5, <1>6, <1>7, <1>8

\* The first entries, as Enter takes them.
LEMMA QueuedIsWaiting ==
    ASSUME RingInv
    PROVE  /\ Queued = IF pc \in OpenPcs THEN WaitingOf(sq) ELSE <<>>
           /\ Done = IF pc \in OpenPcs THEN FinishedOf(cq) \o overflow ELSE <<>>
           /\ SqReady = ReadyOf(sq) /\ Flushed = FlushedOf(sq) /\ CqReady = FinishedCount(cq)
           /\ \A i \in 1..ReadyOf(sq) : QueuedAt(i) = WaitingOf(sq)[i]
           /\ \A i \in 1..FinishedCount(cq) : CqAt(i) = FinishedOf(cq)[i]
  <1>1. SqReady = ReadyOf(sq) /\ Flushed = FlushedOf(sq) /\ CqReady = FinishedCount(cq)
    BY DEF SqReady, ReadyOf, Flushed, FlushedOf, CqReady, FinishedCount
  <1>2. SqOk(sq)  BY DEF RingInv
  <1>3. ASSUME NEW i \in 1..ReadyOf(sq) PROVE QueuedAt(i) = WaitingOf(sq)[i]
    BY <1>1, <1>2, QueuedFacts DEF QueuedAt
  <1>4. ASSUME NEW i \in 1..FinishedCount(cq)
        PROVE  CqAt(i) = FinishedOf(cq)[i] /\ CqAt(i) = cq.cqes[Place(cq.khead, i, CqEntries)]
    BY DEF CqAt, FinishedOf, CqSlot, Place
  <1>5. Open <=> pc \in OpenPcs
    BY DEF RingInv, Open, OpenPcs, ClosedPcs, MmapPcs
  <1>6. [i \in 1..SqReady |-> QueuedAt(i)] = WaitingOf(sq)
    <2>1. \A i \in 1..ReadyOf(sq) : WaitingOf(sq)[i] = sq.sqes[Place(sq.khead, i, Entries)]
      BY DEF WaitingOf
    <2> QED  BY <1>1, <1>3, <2>1 DEF WaitingOf
  <1>7. [i \in 1..CqReady |-> CqAt(i)] = FinishedOf(cq)  BY <1>1, <1>4 DEF FinishedOf
  <1> QED  BY <1>1, <1>3, <1>4, <1>5, <1>6, <1>7 DEF Queued, Done

\* Pieces of sequences, as the completion queue and the overflow list are put together.
LEMMA SequenceFacts ==
    ASSUME NEW S, NEW F \in Seq(S), NEW o \in Seq(S)
    PROVE  /\ F \o o \in Seq(S) /\ Len(F \o o) = Len(F) + Len(o)
           /\ \A n \in 0..Len(o) : (F \o SubSeq(o, 1, n)) \o SubSeq(o, n + 1, Len(o)) = F \o o
           /\ \A n \in 0..Len(F) : SubSeq(F \o o, n + 1, Len(F \o o)) = SubSeq(F, n + 1, Len(F)) \o o
           /\ \A n \in 0..Len(F) : SubSeq(F \o o, 1, n) = SubSeq(F, 1, n)
           /\ \A r \in S : F \o Append(o, r) = Append(F \o o, r)
           /\ \A r \in S : o = <<>> => (F \o <<r>>) \o o = Append(F \o o, r)
  <1>0. \A x, y \in Seq(S) :
            /\ x \o y \in Seq(S) /\ Len(x \o y) = Len(x) + Len(y)
            /\ \A i \in 1..Len(x) : (x \o y)[i] = x[i]
            /\ \A i \in (Len(x) + 1)..(Len(x) + Len(y)) : (x \o y)[i] = y[i - Len(x)]
    OBVIOUS
  <1>1. F \o o \in Seq(S) /\ Len(F \o o) = Len(F) + Len(o) /\ Len(F) \in Nat /\ Len(o) \in Nat
        /\ (\A i \in 1..Len(F) : (F \o o)[i] = F[i])
        /\ (\A i \in (Len(F) + 1)..(Len(F) + Len(o)) : (F \o o)[i] = o[i - Len(F)])
    OBVIOUS
  <1>2. ASSUME NEW n \in 0..Len(o)
        PROVE  (F \o SubSeq(o, 1, n)) \o SubSeq(o, n + 1, Len(o)) = F \o o
    <2> DEFINE a == SubSeq(o, 1, n)
               b == SubSeq(o, n + 1, Len(o))
               G == (F \o a) \o b
               H == F \o o
               f == Len(F)
               l == Len(o)
    <2>1. a \in Seq(S) /\ Len(a) = n /\ \A i \in 1..n : a[i] = o[i]  OBVIOUS
    <2>2. b \in Seq(S) /\ Len(b) = l - n /\ \A i \in 1..(l - n) : b[i] = o[n + i]  OBVIOUS
    <2> HIDE DEF a, b
    <2>3. /\ G \in Seq(S) /\ Len(G) = f + l
          /\ \A i \in 1..f : G[i] = F[i]
          /\ \A i \in (f + 1)..(f + n) : G[i] = a[i - f]
          /\ \A i \in (f + n + 1)..(f + l) : G[i] = b[i - (f + n)]
      <3> DEFINE A == F \o a
      <3>1. /\ A \in Seq(S) /\ Len(A) = f + n
            /\ \A i \in 1..f : A[i] = F[i]
            /\ \A i \in (f + 1)..(f + n) : A[i] = a[i - f]
        BY <1>0, <2>1
      <3> HIDE DEF A
      <3>2. /\ A \o b \in Seq(S) /\ Len(A \o b) = (f + n) + (l - n)
            /\ \A i \in 1..(f + n) : (A \o b)[i] = A[i]
            /\ \A i \in (f + n + 1)..((f + n) + (l - n)) : (A \o b)[i] = b[i - (f + n)]
        <4>1. /\ A \o b \in Seq(S) /\ Len(A \o b) = Len(A) + Len(b)
              /\ \A i \in 1..Len(A) : (A \o b)[i] = A[i]
              /\ \A i \in (Len(A) + 1)..(Len(A) + Len(b)) : (A \o b)[i] = b[i - Len(A)]
          BY <1>0, <2>2, <3>1
        <4> QED  BY <2>2, <3>1, <4>1, Zenon
      <3>3. G = A \o b  BY DEF A
      <3>4. f \in Nat /\ l \in Nat /\ n \in Nat  BY <1>1
      <3> HIDE DEF G, f, l
      <3>5. (f + n) + (l - n) = f + l /\ (\A i \in 1..f : i \in 1..(f + n))
            /\ \A i \in (f + 1)..(f + n) : i \in 1..(f + n)
        BY <3>4
      <3> QED  BY <3>1, <3>2, <3>3, <3>5
    <2>4. /\ H \in Seq(S) /\ Len(H) = f + l /\ f \in Nat /\ l \in Nat
          /\ \A i \in 1..f : H[i] = F[i]
          /\ \A i \in (f + 1)..(f + l) : H[i] = o[i - f]
      BY <1>1
    <2> HIDE DEF G, H, f, l
    <2>5. ASSUME NEW i \in 1..(f + l) PROVE G[i] = H[i]
      <3>1. CASE i <= f
        <4>1. i \in 1..f  BY <2>4, <3>1
        <4> QED  BY <2>3, <2>4, <4>1
      <3>2. CASE i > f /\ i <= f + n
        <4>1. i \in (f + 1)..(f + n) /\ i \in (f + 1)..(f + l) /\ i - f \in 1..n
          BY <2>4, <3>2 DEF l
        <4> QED  BY <2>1, <2>3, <2>4, <4>1
      <3>3. CASE i > f + n
        <4>1. /\ i \in (f + n + 1)..(f + l) /\ i \in (f + 1)..(f + l)
              /\ i - (f + n) \in 1..(l - n) /\ n + (i - (f + n)) = i - f
          BY <2>4, <3>3 DEF l
        <4> QED  BY <2>2, <2>3, <2>4, <4>1
      <3> QED  BY <2>4, <3>1, <3>2, <3>3
    <2>6. G = H
      <3>1. Len(G) = Len(H) /\ \A i \in 1..Len(G) : G[i] = H[i]  BY <2>3, <2>4, <2>5
      <3> QED  BY <2>3, <2>4, <3>1, SameSequence
    <2> QED  BY <2>6 DEF G, H, a, b
  <1>3. ASSUME NEW n \in 0..Len(F)
        PROVE  SubSeq(F \o o, n + 1, Len(F \o o)) = SubSeq(F, n + 1, Len(F)) \o o
    <2> DEFINE H == F \o o
               f == Len(F)
               l == Len(o)
               b == SubSeq(F, n + 1, f)
               G == SubSeq(H, n + 1, f + l)
               K == b \o o
    <2>1. b \in Seq(S) /\ Len(b) = f - n /\ \A i \in 1..(f - n) : b[i] = F[n + i]  OBVIOUS
    <2>2. H \in Seq(S) /\ Len(H) = f + l /\ f \in Nat /\ l \in Nat  BY <1>1
    <2>3. G \in Seq(S) /\ Len(G) = f + l - n /\ \A i \in 1..(f + l - n) : G[i] = H[n + i]
      <3> HIDE DEF H
      <3> QED  BY <2>2
    <2> HIDE DEF b
    <2>4. /\ K \in Seq(S) /\ Len(K) = f + l - n
          /\ \A i \in 1..(f - n) : K[i] = b[i]
          /\ \A i \in (f - n + 1)..(f + l - n) : K[i] = o[i - (f - n)]
      <3>1. /\ K \in Seq(S) /\ Len(K) = (f - n) + l
            /\ \A i \in 1..(f - n) : K[i] = b[i]
            /\ \A i \in (f - n + 1)..((f - n) + l) : K[i] = o[i - (f - n)]
        <4>1. /\ b \o o \in Seq(S) /\ Len(b \o o) = Len(b) + Len(o)
              /\ \A i \in 1..Len(b) : (b \o o)[i] = b[i]
              /\ \A i \in (Len(b) + 1)..(Len(b) + Len(o)) : (b \o o)[i] = o[i - Len(b)]
          BY <1>0, <2>1
        <4> QED  BY <2>1, <4>1, Zenon
      <3>2. (f - n) + l = f + l - n  BY <2>2
      <3> HIDE DEF K, f, l
      <3> QED  BY <3>1, <3>2
    <2>5. /\ \A i \in 1..f : H[i] = F[i]
          /\ \A i \in (f + 1)..(f + l) : H[i] = o[i - f]
      BY <1>1
    <2>6. n \in Nat /\ n <= f  BY <2>2
    <2> HIDE DEF G, H, K, f, l
    <2>7. ASSUME NEW i \in 1..(f + l - n) PROVE G[i] = K[i]
      <3>1. CASE i <= f - n
        <4>1. i \in 1..(f - n) /\ n + i \in 1..f  BY <2>2, <2>6, <3>1
        <4> QED  BY <2>1, <2>3, <2>4, <2>5, <4>1
      <3>2. CASE ~(i <= f - n)
        <4>1. /\ i \in (f - n + 1)..(f + l - n) /\ n + i \in (f + 1)..(f + l)
              /\ (n + i) - f = i - (f - n)
          BY <2>2, <2>6, <3>2
        <4> QED  BY <2>3, <2>4, <2>5, <4>1
      <3> QED  BY <3>1, <3>2
    <2>8. G = K
      <3>1. Len(G) = Len(K) /\ \A i \in 1..Len(G) : G[i] = K[i]  BY <2>3, <2>4, <2>7
      <3> QED  BY <2>3, <2>4, <3>1, SameSequence
    <2> QED  BY <2>2, <2>8 DEF G, H, K, b, f, l
  <1>4. ASSUME NEW n \in 0..Len(F) PROVE SubSeq(F \o o, 1, n) = SubSeq(F, 1, n)
    OBVIOUS
  <1>5. ASSUME NEW r \in S PROVE F \o Append(o, r) = Append(F \o o, r)
    OBVIOUS
  <1>6. ASSUME NEW r \in S, o = <<>> PROVE (F \o <<r>>) \o o = Append(F \o o, r)
    BY <1>6
  <1> QED  BY <1>1, <1>2, <1>3, <1>4, <1>5, <1>6

\* The smaller of two numbers.
LEMMA MinFacts ==
    ASSUME NEW a \in Nat, NEW b \in Nat
    PROVE  Min({a, b}) \in Nat /\ Min({a, b}) <= a /\ Min({a, b}) <= b /\ Min({a, b}) \in {a, b}
  <1>1. CASE a <= b
    <2>1. a \in {a, b} /\ \A y \in {a, b} : a <= y  BY <1>1
    <2>2. \A x \in {a, b} : (\A y \in {a, b} : x <= y) => x = a  BY <1>1
    <2>3. Min({a, b}) = a  BY <2>1, <2>2 DEF Min
    <2> QED  BY <1>1, <2>3
  <1>2. CASE ~(a <= b)
    <2>1. b \in {a, b} /\ \A y \in {a, b} : b <= y  BY <1>2
    <2>2. \A x \in {a, b} : (\A y \in {a, b} : x <= y) => x = b  BY <1>2
    <2>3. Min({a, b}) = b  BY <2>1, <2>2 DEF Min
    <2> QED  BY <1>2, <2>3
  <1> QED  BY <1>1, <1>2

\* The kernel moves completions from its overflow list into the ring, in order.
LEMMA GetEventsFacts ==
    ASSUME RingInv, GetEvents
    PROVE  /\ CqOk(cq') /\ overflow' \in Seq(Things)
           /\ FinishedOf(cq') \o overflow' = FinishedOf(cq) \o overflow
  <1> DEFINE a == Len(overflow)
             b == CqEntries - CqReady
             n == Min({a, b})
             s == SubSeq(overflow, 1, n)
  <1>1. CqOk(cq) /\ overflow \in Seq(Things) /\ CqReady = FinishedCount(cq)
    BY QueuedIsWaiting DEF RingInv
  <1>2. /\ FinishedCount(cq) \in Nat /\ FinishedOf(cq) \in Seq(Things)
        /\ FinishedCount(cq) <= CqEntries /\ CqEntries \in Nat
    BY <1>1, FinishedFacts, SizeFacts DEF CqOk
  <1>3. a \in Nat /\ b \in Nat  BY <1>1, <1>2
  <1> HIDE DEF b
  <1>4. n \in 0..a /\ n <= b  BY <1>3, MinFacts
  <1> HIDE DEF n
  <1>5. s \in Seq(Things) /\ Len(s) = n  BY <1>1, <1>4
  <1>6. FinishedCount(cq) + Len(s) <= CqEntries  BY <1>1, <1>2, <1>4, <1>5 DEF b
  <1>7. cq' = Posted(s) /\ overflow' = SubSeq(overflow, n + 1, a)  BY DEF GetEvents, n, b
  <1> HIDE DEF s
  <1>8. CqOk(cq') /\ FinishedOf(cq') = FinishedOf(cq) \o s  BY <1>1, <1>5, <1>6, <1>7, PostedFacts
  <1>9. overflow' \in Seq(Things)  BY <1>1, <1>4, <1>7
  <1>10. (FinishedOf(cq) \o SubSeq(overflow, 1, n)) \o SubSeq(overflow, n + 1, a) = FinishedOf(cq) \o overflow
    BY <1>1, <1>2, <1>4, SequenceFacts
  <1> QED  BY <1>7, <1>8, <1>9, <1>10 DEF s

\* A completion goes behind all others.
LEMMA CompleteFacts ==
    ASSUME RingInv, NEW r \in Requests, Complete(r)
    PROVE  /\ CqOk(cq') /\ overflow' \in Seq(Things) /\ FinishedCount(cq') >= FinishedCount(cq)
           /\ FinishedOf(cq') \o overflow' = Append(FinishedOf(cq) \o overflow, r)
  <1>1. CqOk(cq) /\ overflow \in Seq(Things) /\ CqReady = FinishedCount(cq) /\ r \in Things
    BY QueuedIsWaiting DEF RingInv, Things
  <1>2. /\ FinishedCount(cq) \in Nat /\ FinishedOf(cq) \in Seq(Things) /\ CqEntries \in Nat
        /\ Len(FinishedOf(cq)) = FinishedCount(cq)
    BY <1>1, FinishedFacts, SizeFacts
  <1>3. CASE overflow = <<>> /\ CqReady < CqEntries
    <2>1. cq' = Posted(<<r>>) /\ overflow' = overflow  BY <1>3 DEF Complete
    <2> DEFINE s == <<r>>
    <2>2. s \in Seq(Things) /\ Len(s) = 1  BY <1>1
    <2>3. FinishedCount(cq) + Len(s) <= CqEntries  BY <1>1, <1>2, <1>3, <2>2
    <2>4. CqOk(Posted(s)) /\ FinishedOf(Posted(s)) = FinishedOf(cq) \o s
      <3> HIDE DEF s
      <3> QED  BY <1>1, <2>2, <2>3, PostedFacts
    <2>5. FinishedCount(cq') = Len(FinishedOf(cq'))  BY <2>1, <2>4, FinishedFacts
    <2>6. Len(FinishedOf(cq) \o s) = Len(FinishedOf(cq)) + Len(s)  BY <1>2, <2>2, SequenceFacts
    <2>7. FinishedCount(cq') >= FinishedCount(cq)  BY <1>2, <2>1, <2>2, <2>4, <2>5, <2>6
    <2>8. (FinishedOf(cq) \o <<r>>) \o overflow = Append(FinishedOf(cq) \o overflow, r)
      BY <1>1, <1>2, <1>3, SequenceFacts
    <2> QED  BY <1>1, <2>1, <2>4, <2>7, <2>8
  <1>4. CASE ~(overflow = <<>> /\ CqReady < CqEntries)
    <2>1. cq' = cq /\ overflow' = Append(overflow, r)  BY <1>4 DEF Complete
    <2>2. FinishedOf(cq) \o Append(overflow, r) = Append(FinishedOf(cq) \o overflow, r)
      BY <1>1, <1>2, SequenceFacts
    <2>3. FinishedCount(cq) >= FinishedCount(cq)  BY <1>2
    <2> QED  BY <1>1, <2>1, <2>2, <2>3
  <1> QED  BY <1>3, <1>4

\* io_uring_enter takes the first n entries of the queue.
LEMMA EnterFacts ==
    ASSUME RingInv, NEW n \in 0..Flushed, sq' = [sq EXCEPT !.khead = U(@ + n)],
           running' = running \cup {QueuedAt(i) : i \in 1..n}
    PROVE  /\ SqOk(sq') /\ WaitingOf(sq') = SubSeq(WaitingOf(sq), n + 1, Len(WaitingOf(sq)))
           /\ running' = running \cup ToSet(SubSeq(WaitingOf(sq), 1, n))
           /\ running' \subseteq Things /\ n <= Len(WaitingOf(sq))
  <1> DEFINE W == WaitingOf(sq)
             R == ReadyOf(sq)
             V == SubSeq(W, 1, n)
  <1>1. SqOk(sq) /\ Flushed = FlushedOf(sq) /\ running \subseteq Things
    BY QueuedIsWaiting DEF RingInv
  <1>2. /\ R \in Nat /\ W \in Seq(Things) /\ Len(W) = R /\ FlushedOf(sq) \in Nat
        /\ FlushedOf(sq) <= R
    BY <1>1, WaitingFacts DEF SqOk
  <1>3. SqOk(sq') /\ WaitingOf(sq') = SubSeq(W, n + 1, R)  BY <1>1, TakeFacts
  <1>4. \A i \in 1..R : QueuedAt(i) = W[i]  BY QueuedIsWaiting
  <1>5. n \in 0..R  BY <1>1, <1>2
  <1> HIDE DEF W, R
  <1>6. V \in Seq(Things) /\ DOMAIN V = 1..n /\ \A i \in 1..n : V[i] = W[i] /\ i \in 1..R
    BY <1>2, <1>5
  <1>7. {QueuedAt(i) : i \in 1..n} = ToSet(V)
    <2> HIDE DEF V
    <2> QED  BY <1>4, <1>6 DEF ToSet
  <1>8. ToSet(V) \subseteq Things
    <2> HIDE DEF V
    <2> QED  BY <1>6 DEF ToSet
  <1>9. running' = running \cup ToSet(V) /\ running' \subseteq Things
    <2> HIDE DEF V
    <2> QED  BY <1>1, <1>7, <1>8
  <1>10. n <= Len(W)  BY <1>2, <1>5
  <1>11. WaitingOf(sq') = SubSeq(W, n + 1, Len(W))  BY <1>2, <1>3, Zenon
  <1> QED  BY <1>3, <1>9, <1>10, <1>11 DEF W, V

\* The user looks at the first completions.
LEMMA LookFacts ==
    ASSUME RingInv, NEW n \in 1..CqReady
    PROVE  /\ [i \in 1..n |-> CqAt(i)] = SubSeq(FinishedOf(cq) \o overflow, 1, n)
           /\ [i \in 1..n |-> CqAt(i)] \in Seq(Things) /\ Len([i \in 1..n |-> CqAt(i)]) = n
           /\ n \in 1..FinishedCount(cq) /\ n \in 1..Len(FinishedOf(cq) \o overflow)
  <1> DEFINE F == FinishedOf(cq)
             g == FinishedCount(cq)
             v == [i \in 1..n |-> CqAt(i)]
  <1>1. CqOk(cq) /\ overflow \in Seq(Things) /\ CqReady = g /\ \A i \in 1..g : CqAt(i) = F[i]
    BY QueuedIsWaiting DEF RingInv
  <1>2. F \in Seq(Things) /\ Len(F) = g /\ g \in Nat  BY <1>1, FinishedFacts
  <1> HIDE DEF F, g
  <1>3. n \in 1..g /\ n \in Nat /\ n \in 0..Len(F) /\ \A i \in 1..n : i \in 1..g  BY <1>1, <1>2
  <1>4. SubSeq(F \o overflow, 1, n) = SubSeq(F, 1, n) /\ Len(F \o overflow) = g + Len(overflow)
    BY <1>1, <1>2, <1>3, SequenceFacts
  <1>5. SubSeq(F, 1, n) \in Seq(Things) /\ Len(SubSeq(F, 1, n)) = n /\ \A i \in 1..n : SubSeq(F, 1, n)[i] = F[i]
    BY <1>2, <1>3
  <1>6. v \in Seq(Things) /\ Len(v) = n /\ \A i \in 1..n : v[i] = F[i]
    <2>1. \A i \in 1..n : CqAt(i) = F[i] /\ F[i] \in Things  BY <1>1, <1>2, <1>3
    <2>2. v \in [1..n -> Things] /\ \A i \in 1..n : v[i] = F[i]  BY <2>1
    <2> HIDE DEF v
    <2> QED  BY <1>3, <2>2
  <1>7. v = SubSeq(F, 1, n)
    <2> DEFINE w == SubSeq(F, 1, n)
    <2>1. w \in Seq(Things) /\ Len(v) = Len(w) /\ \A i \in 1..Len(v) : v[i] = w[i]  BY <1>5, <1>6
    <2> HIDE DEF v, w
    <2>2. v = w  BY <1>6, <2>1, SameSequence
    <2> QED  BY <2>2 DEF w
  <1>8. n \in 1..(g + Len(overflow))  BY <1>1, <1>2, <1>3
  <1> QED  BY <1>3, <1>4, <1>6, <1>7, <1>8 DEF F, g

\* The rings stay well formed.
LEMMA RingNext ==
    ASSUME RingInv, [Next]_vars
    PROVE  RingInv'
  <1> USE DEF ClosedPcs, OpenPcs, MmapPcs
  <1>0. /\ SqOk(sq) /\ CqOk(cq) /\ running \subseteq Things /\ overflow \in Seq(Things)
        /\ held \in Seq(Things)
    BY DEF RingInv
  <1>1. CASE QueueInit
    <2>1. CASE UNCHANGED <<pc, sq, cq, held, running, overflow>>  BY <2>1 DEF RingInv
    <2>2. CASE pc' = "mapSq" /\ sq' = EmptySq /\ cq' = EmptyCq /\ UNCHANGED <<held, running, overflow>>
      BY <1>1, <2>2, EmptyFacts DEF QueueInit, RingInv
    <2> QED  BY <1>1, <2>1, <2>2 DEF QueueInit, NewSq, setupVars
  <1>2. CASE MmapSqRing \/ MmapCqRing \/ MmapSqes
    <2>1. /\ UNCHANGED <<sq, cq, held, running, overflow>> /\ pc \in MmapPcs
          /\ pc' \in ClosedPcs \cup {"prepare"}
      BY <1>2 DEF MmapSqRing, MmapCqRing, MmapSqes, InitFailed
    <2> QED  BY <2>1 DEF RingInv
  <1>3. CASE QueueExit
    <2>1. <<>> \in Seq(Things)  OBVIOUS
    <2> QED  BY <1>3, <2>1 DEF QueueExit, RingInv
  <1>4. CASE FlushSq
    <2>1. SqOk(sq')  BY <1>0, <1>4, FlushFacts
    <2> QED  BY <1>4, <2>1 DEF FlushSq, RingInv
  <1>5. CASE Enter
    <2>1. CASE UNCHANGED <<pc, sq, running, cq, held, overflow>>
      BY <1>5, <2>1 DEF Enter, RingInv
    <2>2. CASE \E n \in 1..Flushed :
                   /\ running' = running \cup {QueuedAt(i) : i \in 1..n}
                   /\ sq' = [sq EXCEPT !.khead = U(@ + n)]
                   /\ pc' = "peek" /\ UNCHANGED <<cq, held, overflow>>
      <3>1. PICK n \in 1..Flushed :
                   /\ running' = running \cup {QueuedAt(i) : i \in 1..n}
                   /\ sq' = [sq EXCEPT !.khead = U(@ + n)]
                   /\ pc' = "peek" /\ UNCHANGED <<cq, held, overflow>>
        BY <2>2
      <3>2. n \in 0..Flushed
        <4>1. Flushed \in Nat  BY <1>0, QueuedIsWaiting, WaitingFacts
        <4> QED  BY <4>1
      <3>3. SqOk(sq') /\ running' \subseteq Things  BY <3>1, <3>2, EnterFacts
      <3> QED  BY <1>5, <3>1, <3>3 DEF Enter, RingInv
    <2> QED  BY <1>5, <2>1, <2>2 DEF Enter
  <1>6. CASE PeekCqe
    <2>1. CASE pc' = "empty" /\ UNCHANGED held  BY <1>6, <2>1 DEF PeekCqe, RingInv
    <2>2. CASE CqReady > 0 /\ held' = <<CqAt(1)>> /\ pc' = "holding"
      <3>1. CqReady \in Nat  BY <1>0, QueuedIsWaiting, FinishedFacts
      <3>2. 1 \in 1..CqReady  BY <2>2, <3>1
      <3>3. 1 \in 1..FinishedCount(cq)  BY <3>2, QueuedIsWaiting
      <3>4. CqAt(1) \in Things
        <4>1. CqAt(1) = FinishedOf(cq)[1]  BY <3>3, QueuedIsWaiting
        <4>2. FinishedOf(cq) \in Seq(Things) /\ 1 \in 1..Len(FinishedOf(cq))  BY <1>0, <3>3, FinishedFacts
        <4> QED  BY <4>1, <4>2
      <3>5. held' \in Seq(Things) /\ Len(held') = 1  BY <2>2, <3>4
      <3> QED  BY <1>6, <2>2, <3>3, <3>5 DEF PeekCqe, RingInv
    <2> QED  BY <1>6, <2>1, <2>2 DEF PeekCqe
  <1>7. ASSUME NEW count \in 1..CqEntries, PeekBatchCqe(count) PROVE RingInv'
    <2>1. CqReady \in Nat /\ CqReady > 0 /\ count \in Nat /\ count > 0
      BY <1>0, <1>7, QueuedIsWaiting, FinishedFacts, SizeFacts DEF PeekBatchCqe
    <2> DEFINE n == Min({count, CqReady})
    <2>2. n \in 1..CqReady  BY <2>1, MinFacts
    <2>3. held' = [i \in 1..n |-> CqAt(i)]  BY <1>7 DEF PeekBatchCqe
    <2> HIDE DEF n
    <2>4. held' \in Seq(Things) /\ Len(held') = n /\ n \in 1..FinishedCount(cq)
      BY <2>2, <2>3, LookFacts
    <2> QED  BY <1>7, <2>4 DEF PeekBatchCqe, RingInv
  <1>8. CASE SkipSubmit \/ PeekAgain  BY <1>8 DEF SkipSubmit, PeekAgain, RingInv
  <1>9. CASE FlushOverflow \/ WaitCqe
    <2>1. CASE GetEvents /\ pc' = "peek"
      <3>1. pc = "empty" /\ UNCHANGED <<sq, held, running>>
        BY <1>9, <2>1 DEF FlushOverflow, WaitCqe, GetEvents
      <3>2. CqOk(cq') /\ overflow' \in Seq(Things)  BY <2>1, GetEventsFacts
      <3> QED  BY <2>1, <3>1, <3>2 DEF RingInv
    <2>2. CASE pc = "empty" /\ pc' = "prepare" /\ UNCHANGED <<sq, cq, held, running, overflow>>
      BY <2>2 DEF RingInv
    <2> QED  BY <1>9, <2>1, <2>2 DEF FlushOverflow, WaitCqe
  <1>10. CASE CqeSeen
    <2>1. Len(held) \in 0..FinishedCount(cq)
      <3>1. FinishedCount(cq) \in Nat  BY <1>0, FinishedFacts
      <3> QED  BY <1>10, <3>1 DEF CqeSeen, RingInv
    <2>2. CqOk(cq')  BY <1>0, <1>10, <2>1, SeenFacts DEF CqeSeen, Advanced
    <2>3. <<>> \in Seq(Things)  OBVIOUS
    <2> QED  BY <1>10, <2>2, <2>3 DEF CqeSeen, RingInv
  <1>11. ASSUME NEW r \in Requests, GetSqe(r) PROVE RingInv'
    <2>1. r \in Things  BY DEF Things
    <2>2. SqOk(sq')  BY <1>0, <1>11, <2>1, GetSqeFacts DEF GetSqe, HasRoom
    <2> QED  BY <1>11, <2>2 DEF GetSqe, RingInv
  <1>12. ASSUME NEW r \in Requests, Complete(r) PROVE RingInv'
    <2>1. CqOk(cq') /\ overflow' \in Seq(Things) /\ FinishedCount(cq') >= FinishedCount(cq)
      BY <1>12, CompleteFacts
    <2>2. UNCHANGED <<pc, sq, held>> /\ running' \subseteq running /\ running # {}
      BY <1>12 DEF Complete
    <2>3. FinishedCount(cq') \in Nat /\ FinishedCount(cq) \in Nat  BY <1>0, <2>1, FinishedFacts
    <2>4. Len(held) \in 1..FinishedCount(cq) => Len(held) \in 1..FinishedCount(cq')
      BY <2>1, <2>3
    <2> QED  BY <2>1, <2>2, <2>4 DEF RingInv
  <1>13. CASE UNCHANGED vars  BY <1>13 DEF vars, RingInv
  <1> HIDE DEF ClosedPcs, OpenPcs, MmapPcs
  <1> QED
    BY <1>1, <1>2, <1>3, <1>4, <1>5, <1>6, <1>7, <1>8, <1>9, <1>10, <1>11, <1>12, <1>13, StepCases

-----------------------------------------------------------------------------
(* The refinement.                                                         *)

\* The state of the service, as the two rings hold it.
MapOk ==
    /\ pc \in OpenPcs => Queued = WaitingOf(sq) /\ Done = FinishedOf(cq) \o overflow
    /\ pc \notin OpenPcs => Queued = <<>> /\ Done = <<>>

\* The mapping in the state before a step.
LEMMA MapNow == RingInv => MapOk
  BY QueuedIsWaiting DEF MapOk

\* The mapping in the state after a step.
LEMMA MapLater == RingInv' => MapOk'
  BY MapNow, PTL

\* Every step of the ring is a step of the service, or invisible there.
LEMMA RefineStep ==
    ASSUME RingInv, RingInv', [Next]_vars
    PROVE  [Service!Next]_Service!vars
  <1> DEFINE stutter == UNCHANGED <<Queued, running, Done, held>>
  <1>s. stutter => UNCHANGED Service!vars  BY DEF Service!vars
  <1>0. MapOk /\ MapOk'  BY MapNow, MapLater
  <1>t. SqOk(sq) /\ CqOk(cq) /\ overflow \in Seq(Things)  BY DEF RingInv
  <1>1. CASE QueueInit \/ MmapSqRing \/ MmapCqRing
    <2>1. pc \notin OpenPcs /\ pc' \notin OpenPcs /\ UNCHANGED <<running, held>>
      BY <1>1 DEF QueueInit, MmapSqRing, MmapCqRing, InitFailed, OpenPcs
    <2> QED  BY <1>0, <1>s, <2>1 DEF MapOk
  <1>2. CASE MmapSqes
    <2>1. /\ pc = "mapSqes" /\ pc' \in {"none", "prepare"} /\ UNCHANGED <<sq, cq, overflow, running, held>>
          /\ sq = EmptySq /\ cq = EmptyCq /\ overflow = <<>>
      BY <1>2 DEF MmapSqes, InitFailed, RingInv, ClosedPcs, MmapPcs
    <2>2. WaitingOf(sq) = <<>> /\ FinishedOf(cq) \o overflow = <<>>
      <3>1. <<>> \o <<>> = <<>>  OBVIOUS
      <3> QED  BY <2>1, <3>1, EmptyFacts
    <2> QED  BY <1>0, <1>s, <2>1, <2>2 DEF MapOk, OpenPcs
  <1>3. CASE QueueExit
    <2>1. pc' \notin OpenPcs /\ running' = {} /\ held' = <<>>
      BY <1>3 DEF QueueExit, RingInv, OpenPcs
    <2>2. Service!Close  BY <1>0, <2>1 DEF MapOk, Service!Close
    <2> QED  BY <2>2 DEF Service!Next
  <1>4. CASE FlushSq
    <2>1. WaitingOf(sq') = WaitingOf(sq)  BY <1>4, <1>t, FlushFacts
    <2>2. pc \in OpenPcs /\ pc' \in OpenPcs /\ UNCHANGED <<cq, overflow, running, held>>
      BY <1>4 DEF FlushSq, OpenPcs
    <2> QED  BY <1>0, <1>s, <2>1, <2>2 DEF MapOk
  <1>5. CASE Enter
    <2>1. pc \in OpenPcs /\ pc' \in OpenPcs /\ UNCHANGED <<cq, held, overflow>>
      BY <1>5 DEF Enter, OpenPcs
    <2>2. CASE UNCHANGED <<sq, running>>  BY <1>0, <1>s, <2>1, <2>2 DEF MapOk
    <2>3. CASE \E n \in 1..Flushed :
                   /\ running' = running \cup {QueuedAt(i) : i \in 1..n}
                   /\ sq' = [sq EXCEPT !.khead = U(@ + n)]
      <3>1. PICK n \in 1..Flushed :
                   /\ running' = running \cup {QueuedAt(i) : i \in 1..n}
                   /\ sq' = [sq EXCEPT !.khead = U(@ + n)]
        BY <2>3
      <3>2. n \in 0..Flushed /\ n \in Nat
        <4>1. Flushed \in Nat  BY <1>t, QueuedIsWaiting, WaitingFacts
        <4> QED  BY <4>1
      <3>3. /\ WaitingOf(sq') = SubSeq(WaitingOf(sq), n + 1, Len(WaitingOf(sq)))
            /\ running' = running \cup ToSet(SubSeq(WaitingOf(sq), 1, n))
            /\ n <= Len(WaitingOf(sq))
        BY <3>1, <3>2, EnterFacts
      <3>4. WaitingOf(sq) \in Seq(Things)  BY <1>t, WaitingFacts
      <3>5. n \in 1..Len(Queued)  BY <1>0, <2>1, <3>2, <3>3, <3>4 DEF MapOk
      <3>6. Queued = WaitingOf(sq) /\ Queued' = WaitingOf(sq') /\ Done' = Done /\ held' = held
        BY <1>0, <2>1 DEF MapOk
      <3>7. /\ Queued' = SubSeq(Queued, n + 1, Len(Queued))
            /\ running' = running \cup ToSet(SubSeq(Queued, 1, n))
        BY <3>3, <3>6, Zenon
      <3>8. Service!Take(n)  BY <3>5, <3>6, <3>7, Zenon DEF Service!Take, Service!ToSet, ToSet
      <3> QED  BY <3>5, <3>8 DEF Service!Next
    <2> QED  BY <1>5, <2>2, <2>3 DEF Enter
  <1>6. ASSUME NEW n \in 1..CqReady, pc = "peek", held' = [i \in 1..n |-> CqAt(i)],
               pc' = "holding", UNCHANGED <<sq, cq, running, overflow>>
        PROVE  Service!Next
    <2>1. held' = SubSeq(FinishedOf(cq) \o overflow, 1, n) /\ n \in 1..Len(FinishedOf(cq) \o overflow)
      BY <1>6, LookFacts
    <2>2. /\ Queued' = Queued /\ Done' = Done /\ Done = FinishedOf(cq) \o overflow
      BY <1>0, <1>6 DEF MapOk, OpenPcs
    <2>3. held = <<>>  BY <1>6 DEF RingInv
    <2>4. n \in 1..Len(Done) /\ Service!Look(n)  BY <1>6, <2>1, <2>2, <2>3 DEF Service!Look
    <2> QED  BY <2>4 DEF Service!Next
  <1>7. CASE PeekCqe
    <2>1. CASE pc' = "empty" /\ UNCHANGED held
      <3>1. pc \in OpenPcs /\ pc' \in OpenPcs /\ UNCHANGED <<sq, cq, overflow, running, held>>
        BY <1>7, <2>1 DEF PeekCqe, OpenPcs
      <3> QED  BY <1>0, <1>s, <3>1 DEF MapOk
    <2>2. CASE CqReady > 0 /\ held' = <<CqAt(1)>> /\ pc' = "holding"
      <3>1. CqReady \in Nat  BY <1>t, QueuedIsWaiting, FinishedFacts
      <3>2. 1 \in 1..CqReady  BY <2>2, <3>1
      <3>3. <<CqAt(1)>> = [i \in 1..1 |-> CqAt(i)]
        <4>1. \A x : <<x>> = [i \in 1..1 |-> x]  OBVIOUS
        <4>2. [i \in 1..1 |-> CqAt(i)] = [i \in 1..1 |-> CqAt(1)]  OBVIOUS
        <4> QED  BY <4>1, <4>2
      <3> QED  BY <1>6, <1>7, <2>2, <3>2, <3>3 DEF PeekCqe
    <2> QED  BY <1>7, <2>1, <2>2 DEF PeekCqe
  <1>8. ASSUME NEW count \in 1..CqEntries, PeekBatchCqe(count) PROVE Service!Next
    <2>1. CqReady \in Nat /\ CqReady > 0 /\ count \in Nat /\ count > 0
      BY <1>t, <1>8, QueuedIsWaiting, FinishedFacts, SizeFacts DEF PeekBatchCqe
    <2> DEFINE n == Min({count, CqReady})
    <2>2. n \in 1..CqReady  BY <2>1, MinFacts
    <2>3. /\ held' = [i \in 1..n |-> CqAt(i)] /\ pc = "peek" /\ pc' = "holding"
          /\ UNCHANGED <<sq, cq, running, overflow>>
      BY <1>8 DEF PeekBatchCqe
    <2> HIDE DEF n
    <2> QED  BY <1>6, <2>2, <2>3
  <1>9. CASE SkipSubmit \/ PeekAgain
    <2>1. pc \in OpenPcs /\ pc' \in OpenPcs /\ UNCHANGED <<sq, cq, overflow, running, held>>
      BY <1>9 DEF SkipSubmit, PeekAgain, OpenPcs
    <2> QED  BY <1>0, <1>s, <2>1 DEF MapOk
  <1>10. CASE FlushOverflow \/ WaitCqe
    <2>1. pc \in OpenPcs /\ pc' \in OpenPcs /\ UNCHANGED <<sq, held, running>>
      BY <1>10 DEF FlushOverflow, WaitCqe, GetEvents, OpenPcs
    <2>2. FinishedOf(cq') \o overflow' = FinishedOf(cq) \o overflow
      <3>1. CASE GetEvents  BY <3>1, GetEventsFacts
      <3>2. CASE UNCHANGED <<cq, overflow>>  BY <3>2
      <3> QED  BY <1>10, <3>1, <3>2 DEF FlushOverflow, WaitCqe
    <2> QED  BY <1>0, <1>s, <2>1, <2>2 DEF MapOk
  <1>11. CASE CqeSeen
    <2>1. /\ pc = "holding" /\ pc \in OpenPcs /\ pc' \in OpenPcs /\ held' = <<>>
          /\ UNCHANGED <<sq, running, overflow>> /\ cq' = [cq EXCEPT !.khead = U(@ + Len(held))]
      BY <1>11 DEF CqeSeen, Advanced, OpenPcs
    <2>2. FinishedCount(cq) \in Nat /\ FinishedOf(cq) \in Seq(Things) /\ Len(FinishedOf(cq)) = FinishedCount(cq)
      BY <1>t, FinishedFacts
    <2>3. Len(held) \in 1..FinishedCount(cq)  BY <2>1 DEF RingInv
    <2>4. Len(held) \in 0..FinishedCount(cq) /\ held # <<>>  BY <2>2, <2>3
    <2> DEFINE n == Len(held)
               F == FinishedOf(cq)
    <2> HIDE DEF n
    <2>5. FinishedOf(cq') = SubSeq(F, n + 1, Len(F))  BY <1>t, <2>1, <2>2, <2>4, SeenFacts DEF n
    <2>6. SubSeq(F \o overflow, n + 1, Len(F \o overflow)) = SubSeq(F, n + 1, Len(F)) \o overflow
      <3>1. n \in 0..Len(F)  BY <2>2, <2>4 DEF n
      <3> HIDE DEF F
      <3>2. F \in Seq(Things)  BY <2>2 DEF F
      <3> QED  BY <1>t, <3>1, <3>2, SequenceFacts
    <2>7. Queued' = Queued /\ Done' = SubSeq(Done, n + 1, Len(Done))
      BY <1>0, <2>1, <2>5, <2>6 DEF MapOk
    <2>8. Service!See  BY <2>1, <2>4, <2>7 DEF Service!See, n
    <2> QED  BY <2>8 DEF Service!Next
  <1>12. ASSUME NEW r \in Requests, GetSqe(r) PROVE Service!Next
    <2>1. r \in Things  BY DEF Things
    <2>2. WaitingOf(sq') = Append(WaitingOf(sq), r)  BY <1>12, <1>t, <2>1, GetSqeFacts DEF GetSqe, HasRoom
    <2>3. pc \in OpenPcs /\ pc' = pc /\ UNCHANGED <<cq, overflow, running, held>> /\ r \notin Outstanding
      BY <1>12 DEF GetSqe, OpenPcs
    <2>4. Queued = WaitingOf(sq) /\ Queued' = WaitingOf(sq') /\ Done' = Done
      BY <1>0, <2>3 DEF MapOk
    <2>5. Queued' = Append(Queued, r)  BY <2>2, <2>4, Zenon
    <2>6. r \notin Service!Outstanding  BY <2>3, Zenon DEF Outstanding, Service!Outstanding, Service!ToSet, ToSet
    <2>7. Service!Prepare(r)  BY <2>3, <2>4, <2>5, <2>6, Zenon DEF Service!Prepare
    <2> QED  BY <2>7 DEF Service!Next
  <1>13. ASSUME NEW r \in Requests, Complete(r) PROVE Service!Next
    <2>1. FinishedOf(cq') \o overflow' = Append(FinishedOf(cq) \o overflow, r)
      BY <1>13, CompleteFacts
    <2>2. UNCHANGED <<pc, sq, held>> /\ r \in running /\ running' = running \ {r}
      BY <1>13 DEF Complete
    <2>3. pc \in OpenPcs  BY <2>2 DEF RingInv
    <2>4. Service!Finish(r)  BY <1>0, <2>1, <2>2, <2>3 DEF MapOk, Service!Finish
    <2> QED  BY <2>4 DEF Service!Next
  <1>14. CASE UNCHANGED vars
    <2>1. UNCHANGED <<pc, sq, cq, overflow, running, held>>  BY <1>14 DEF vars
    <2> QED  BY <1>0, <1>s, <2>1 DEF MapOk
  <1> QED
    BY <1>1, <1>2, <1>3, <1>4, <1>5, <1>7, <1>8, <1>9, <1>10, <1>11, <1>12, <1>13, <1>14, StepCases

-----------------------------------------------------------------------------
(* The theorems.                                                           *)

\* The rings are well formed, and what is mapped is accounted for, in every reachable state.
LEMMA RingInvariant == Spec => [](SetupInv /\ RingInv)
  <1>1. Init => SetupInv /\ RingInv
    <2> SUFFICES ASSUME Init PROVE SetupInv /\ RingInv
      OBVIOUS
    <2>0. /\ pc = "none" /\ ~ringFd /\ ringFd \in BOOLEAN
          /\ mapped \in [Areas -> Int] /\ \A a \in Areas : mapped[a] = 0
          /\ ptr \in [Areas -> Areas \cup {"null"}]
      <3>1. ringFd = FALSE  BY DEF Init
      <3>2. mapped = [a \in Areas |-> 0] /\ ptr = [a \in Areas |-> "null"] /\ pc = "none"
        BY DEF Init, NullPtr
      <3>3. mapped \in [Areas -> Int] /\ \A a \in Areas : mapped[a] = 0  BY <3>2
      <3>4. ptr \in [Areas -> Areas \cup {"null"}]  BY <3>2
      <3> QED  BY <3>1, <3>2, <3>3, <3>4
    <2>1. SetupInv  BY <2>0 DEF SetupInv, Areas, ClosedPcs, OpenPcs, MmapPcs
    <2>2. <<>> \in Seq(Things)  OBVIOUS
    <2>3. RingInv  BY <2>2, EmptyFacts DEF Init, RingInv, ClosedPcs, OpenPcs, MmapPcs
    <2> QED  BY <2>1, <2>3
  <1>2. SetupInv /\ RingInv /\ [Next]_vars => (SetupInv /\ RingInv)'
    BY SetupNext, RingNext
  <1> QED  BY <1>1, <1>2, PTL DEF Spec

\* Whatever fails in io_uring_queue_init, and after io_uring_queue_exit, nothing stays open
\* or mapped, and a ring in use has all its areas.
THEOREM SetupLeaksNothing == Spec => []NothingLeaked
  <1>1. SetupInv => NothingLeaked
    <2> SUFFICES ASSUME SetupInv PROVE NothingLeaked
      OBVIOUS
    <2> USE DEF Areas, ClosedPcs, OpenPcs, MmapPcs
    <2>1. pc = "none" => ~ringFd /\ \A a \in Areas : mapped[a] = 0  BY DEF SetupInv
    <2>2. Open => ringFd /\ \A a \in Areas : mapped[ptr[a]] = 1  BY DEF SetupInv, Open
    <2> QED  BY <2>1, <2>2 DEF NothingLeaked
  <1> QED  BY <1>1, RingInvariant, PTL

\* The ring with its wrapping indexes, shared arrays, partial submissions and overflow list
\* does what RingService says.
THEOREM RingRefinesService == Spec => RefinesService
  <1>1. Init => Service!Init
    <2> SUFFICES ASSUME Init PROVE Service!Init
      OBVIOUS
    <2>1. Queued = <<>> /\ Done = <<>>  BY DEF Init, Queued, Done, Open
    <2> QED  BY <2>1 DEF Init, Service!Init
  <1>2. RingInv /\ RingInv' /\ [Next]_vars => [Service!Next]_Service!vars
    BY RefineStep
  <1> QED  BY <1>1, <1>2, RingInvariant, PTL DEF Spec, RefinesService, Service!Spec
=============================================================================
