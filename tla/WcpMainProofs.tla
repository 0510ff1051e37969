---------------------------- MODULE WcpMainProofs ----------------------------
(***************************************************************************)
(* Proofs about WcpMain and the walk in it, for any source tree, any links *)
(* in it, any size of a batch of directory entries, and any number of      *)
(* failed and interrupted system calls.                                    *)
(***************************************************************************)
EXTENDS WcpMain, TLAPS, FiniteSetTheorems

-----------------------------------------------------------------------------
(* The inductive invariant.                                                *)

Names == Nodes \cup {Dot}

\* A directory is being read, an entry of it is at hand, and what of it is still to come.
Walking == wpc \in {"call", "return", "entry"}
Calling == wpc \in {"call", "return"}
InBatch == wpc = "entry" \/ (Calling /\ call \in {"statx", "readlink", "symlink"})
Here == Listing(NodeAt(current))
RestFrom(k) == {Here[i] : i \in (k + 1)..Len(Here)}
Rest == RestFrom(dirPos)
Remaining == ToSet(buffer) \cup Rest

\* The call will be reported as failed, whatever it does from now on.
Doomed == Calling /\ call # "open" /\ errno # "0"

Types ==
    /\ tree \in Trees /\ wpc \in {"off", "pop", "call", "return", "entry"}
    /\ directoryStack \in Seq(Seq(Names)) /\ current \in Seq(Names) /\ buffer \in Seq(Names)
    /\ written \in Nat /\ dirPos \in Nat
    /\ dirs \subseteq Seq(Names) /\ links \subseteq Seq(Names)
    /\ added \in Seq(Seq(Names \cup {Root})) /\ errored \in BOOLEAN /\ aborted \in BOOLEAN

\* Where the program and the walk are.
Before == {"args", "start", "statSrc", "statDest", "parent", "choose"}
MainInv ==
    /\ mpc \in Before \cup {"walk", "setAction", "join", "leaving", "exited"}
    /\ mpc \in Before \cup {"leaving"} => added = <<>> /\ dirs = {} /\ wpc = "off"
    /\ mpc = "walk" => src = "dir" /\ (wpc = "off" => added = <<>> /\ dirs = {<<>>})
    /\ wpc = "off" => directoryStack = <<>> /\ links = {} /\ dirs \subseteq {<<>>}
    /\ mpc \in {"setAction", "join"} \/ (exitCode = 0 /\ ~LeftEarly) =>
           /\ src = "dir" => WalkDone
           /\ src = "reg" => added # <<>>
    /\ mpc # "exited" => exitCode = NoExitCode
    /\ mpc \in {"statSrc", "statDest"} => submit = "running"
    /\ mpc = "leaving" => LeftEarly

\* The copy whose failure the submit thread still has to record.
Todos == {Retirement[fate] : fate \in DOMAIN Retirement} \cup {<<>>, <<"onError">>}
Pending == IF "onError" \in ToSet(todo) THEN {retiring} ELSE {}

\* A copy that failed is one whose error has been recorded, or the one the submit thread is
\* at; and the last copy is deleted before isDone() holds.
RetireInv ==
    /\ todo \in Todos /\ (todo # <<>> => submit = "running")
    /\ "delete" \in ToSet(todo) => retiring \in ToSet(added) \ finished
    /\ finished \subseteq ToSet(added)
    /\ ~errored => failed \subseteq Pending
    /\ submit = "ended" => finished = ToSet(added) /\ mpc \in {"setAction", "join", "exited"}
    /\ exitCode = 0 /\ ~LeftEarly =>
           /\ ~errored /\ finished = ToSet(added)
           /\ Pending # {} => progress = "running" /\ completionAction = "Exit"

CallInv ==
    /\ Calling => call \in {"open", "getdents", "statx", "readlink", "symlink"}
    /\ Calling /\ InBatch => buffer # <<>>
    /\ Calling /\ call = "open" => buffer = <<>>
    /\ wpc = "call" /\ call = "getdents" /\ errno = "0" => buffer = <<>>
    /\ type # "unread" => /\ wpc = "entry" \/ (Calling /\ call \in {"readlink", "symlink"})
                          /\ buffer # <<>> /\ type = KindOf(Followed(Head(buffer)))

\* A directory exists with all those above it, before something is put into it.
DirsInv ==
    /\ wpc # "off" => <<>> \in dirs
    /\ \A d \in dirs : Prefixes(d) \subseteq dirs
    /\ ToSet(directoryStack) \subseteq dirs /\ (Walking => current \in dirs)
    /\ \A p \in ToSet(added) \cup links : p # <<>> /\ Front(p) \in dirs

\* Nothing has been made below a directory on the stack, and nothing of what remains in the
\* directory that is being read.
OnceInv ==
    /\ IsInjective(directoryStack) /\ (Walking => current \notin ToSet(directoryStack))
    /\ Walking => IsInjective(buffer) /\ ToSet(buffer) \cap Rest = {}
    /\ \A p \in ToSet(added) \cup dirs : p # <<>> =>
        /\ Front(p) \notin ToSet(directoryStack)
        /\ Walking /\ Front(p) = current => Last(p) \notin Remaining

\* Unless something failed, an entry of a directory that is not on the stack has been made,
\* or remains.
DirNode(d) == IF d = <<>> THEN Root ELSE Last(d)
FoundInv ==
    ~errored /\ ~Doomed /\ wpc # "off" =>
        \A d \in dirs \ ToSet(directoryStack), n \in tree :
            InSource(d) /\ Parent[n] = DirNode(d) =>
                \/ Append(d, n) \in Made(Kind[n])
                \/ Walking /\ d = current /\ n \in Remaining

\* Unless something failed, an empty batch is the last, and a link has been made when the
\* call returns.
BatchInv ==
    ~errored /\ ~Doomed =>
        /\ wpc = "return" /\ call = "getdents" /\ buffer = <<>> => Rest = {}
        /\ InBatch /\ written = 0 => Rest = {}
        /\ Calling /\ call \in {"readlink", "symlink"} /\ Head(buffer) \in Nodes
              => Kind[Head(buffer)] = "lnk"
        /\ wpc = "return" /\ call = "symlink" => Append(current, Head(buffer)) \in links

Good == MainInv /\ RetireInv /\ CallInv /\ DirsInv /\ OnceInv /\ FoundInv /\ BatchInv

\* release_assert leaves everything as it is.
ProgramInv ==
    /\ Types /\ AddedOnce
    /\ aborted => exitCode = NoExitCode
    /\ ~aborted => Good
-----------------------------------------------------------------------------
(* Sequences and paths.                                                    *)

\* Appending to a sequence.
LEMMA AppendFacts ==
    ASSUME NEW S, NEW s \in Seq(S), NEW x \in S
    PROVE  /\ Append(s, x) \in Seq(S) /\ Append(s, x) # <<>> /\ Append(s, x) # s
           /\ Front(Append(s, x)) = s /\ Last(Append(s, x)) = x
           /\ ToSet(Append(s, x)) = ToSet(s) \cup {x}
           /\ IsInjective(s) /\ x \notin ToSet(s) => IsInjective(Append(s, x))
  <1> DEFINE t == Append(s, x)
  <1>1. /\ t \in Seq(S) /\ Len(t) = Len(s) + 1 /\ Len(s) \in Nat /\ t # <<>>
        /\ DOMAIN t = 1..Len(t) /\ DOMAIN s = 1..Len(s)
        /\ (\A i \in 1..Len(s) : t[i] = s[i]) /\ t[Len(s) + 1] = x
    OBVIOUS
  <1> HIDE DEF t
  <1>2. \A i \in 1..Len(t) : i \in 1..Len(s) \/ i = Len(s) + 1  BY <1>1
  <1>3. t # s  BY <1>1
  <1>4. Front(t) = s
    <2>1. /\ Front(t) \in Seq(S) /\ Len(Front(t)) = Len(s)
          /\ \A i \in 1..Len(s) : Front(t)[i] = t[i]
      BY <1>1 DEF Front
    <2> QED  BY <1>1, <2>1
  <1>5. Last(t) = x  BY <1>1 DEF Last
  <1>6. ToSet(t) = ToSet(s) \cup {x}
    <2>1. \A i \in DOMAIN t : t[i] \in ToSet(s) \cup {x}  BY <1>1, <1>2 DEF ToSet
    <2>2. \A i \in DOMAIN s : i \in DOMAIN t /\ t[i] = s[i]  BY <1>1
    <2>3. Len(s) + 1 \in DOMAIN t  BY <1>1
    <2> QED  BY <1>1, <2>1, <2>2, <2>3 DEF ToSet
  <1>7. ASSUME IsInjective(s), x \notin ToSet(s) PROVE IsInjective(t)
    <2>1. \A i \in 1..Len(s) : s[i] # x  BY <1>1, <1>7 DEF ToSet
    <2> QED  BY <1>1, <1>2, <1>7, <2>1 DEF IsInjective
  <1> QED  BY <1>1, <1>3, <1>4, <1>5, <1>6, <1>7 DEF t

\* The last element of a sequence and the others.
LEMMA FrontFacts ==
    ASSUME NEW S, NEW s \in Seq(S), s # <<>>
    PROVE  /\ Front(s) \in Seq(S) /\ Last(s) \in S
           /\ ToSet(s) = ToSet(Front(s)) \cup {Last(s)}
           /\ IsInjective(s) => IsInjective(Front(s)) /\ Last(s) \notin ToSet(Front(s))
  <1> DEFINE t == Front(s)
  <1>1. /\ Len(s) \in Nat /\ Len(s) > 0 /\ t \in Seq(S) /\ Len(t) = Len(s) - 1
        /\ DOMAIN t = 1..Len(t) /\ DOMAIN s = 1..Len(s)
        /\ \A i \in 1..Len(t) : t[i] = s[i]
    <2>1. Len(s) \in Nat /\ Len(s) > 0 /\ DOMAIN s = 1..Len(s) /\ Len(s) - 1 \in 0..Len(s)
      OBVIOUS
    <2>2. \A l \in 0..Len(s) : /\ SubSeq(s, 1, l) \in Seq(S) /\ Len(SubSeq(s, 1, l)) = l
                               /\ \A i \in 1..l : SubSeq(s, 1, l)[i] = s[i]
      OBVIOUS
    <2>3. t = SubSeq(s, 1, Len(s) - 1)  BY DEF Front
    <2> HIDE DEF t
    <2>4. t \in Seq(S) /\ Len(t) = Len(s) - 1 /\ \A i \in 1..Len(t) : t[i] = s[i]
      BY <2>1, <2>2, <2>3
    <2> QED  BY <2>1, <2>4
  <1> HIDE DEF t
  <1>2. Last(s) = s[Len(s)] /\ Last(s) \in S /\ Len(s) \in DOMAIN s  BY <1>1 DEF Last
  <1>3. \A i \in DOMAIN s : i \in DOMAIN t \/ i = Len(s)  BY <1>1
  <1>4. \A i \in DOMAIN t : i \in DOMAIN s /\ i # Len(s)  BY <1>1
  <1>5. ToSet(s) = ToSet(t) \cup {Last(s)}  BY <1>1, <1>2, <1>3, <1>4 DEF ToSet
  <1>6. ASSUME IsInjective(s) PROVE IsInjective(t) /\ Last(s) \notin ToSet(t)
    BY <1>1, <1>2, <1>4, <1>6 DEF IsInjective, ToSet
  <1> QED  BY <1>1, <1>2, <1>5, <1>6 DEF t

\* The first element of a sequence and the others.
LEMMA TailFacts ==
    ASSUME NEW S, NEW s \in Seq(S), s # <<>>
    PROVE  /\ Tail(s) \in Seq(S) /\ Head(s) \in S
           /\ ToSet(s) = {Head(s)} \cup ToSet(Tail(s))
           /\ IsInjective(s) => IsInjective(Tail(s)) /\ Head(s) \notin ToSet(Tail(s))
  <1> DEFINE t == Tail(s)
  <1>1. /\ Len(s) \in Nat /\ Len(s) > 0 /\ t \in Seq(S) /\ Len(t) = Len(s) - 1
        /\ DOMAIN t = 1..Len(t) /\ DOMAIN s = 1..Len(s)
        /\ (\A i \in 1..Len(t) : t[i] = s[i + 1]) /\ Head(s) = s[1] /\ Head(s) \in S
    OBVIOUS
  <1> HIDE DEF t
  <1>2. 1 \in DOMAIN s /\ \A i \in DOMAIN s : i = 1 \/ (i - 1 \in DOMAIN t /\ t[i - 1] = s[i])
    BY <1>1
  <1>3. \A i \in DOMAIN t : i + 1 \in DOMAIN s /\ i + 1 # 1 /\ t[i] = s[i + 1]  BY <1>1
  <1>4. ToSet(s) = {Head(s)} \cup ToSet(t)
    <2>1. \A i \in DOMAIN s : s[i] \in {Head(s)} \cup ToSet(t)  BY <1>1, <1>2 DEF ToSet
    <2>2. \A i \in DOMAIN t : t[i] \in ToSet(s)  BY <1>3 DEF ToSet
    <2>3. Head(s) \in ToSet(s)  BY <1>1, <1>2 DEF ToSet
    <2> QED  BY <2>1, <2>2, <2>3 DEF ToSet
  <1>5. ASSUME IsInjective(s) PROVE IsInjective(t) /\ Head(s) \notin ToSet(t)
    <2>1. ASSUME NEW i \in DOMAIN t, NEW j \in DOMAIN t, t[i] = t[j] PROVE i = j
      <3>1. i + 1 = j + 1  BY <1>3, <1>5, <2>1 DEF IsInjective
      <3> QED  BY <1>1, <3>1
    <2>2. \A i \in DOMAIN t : t[i] # Head(s)  BY <1>1, <1>2, <1>3, <1>5 DEF IsInjective
    <2> QED  BY <2>1, <2>2 DEF IsInjective, ToSet
  <1> QED  BY <1>1, <1>4, <1>5 DEF t

\* The directories above a path.
LEMMA PrefixFacts ==
    ASSUME NEW S, NEW p \in Seq(S)
    PROVE  /\ p \in Prefixes(p) /\ <<>> \in Prefixes(p) /\ Prefixes(p) \subseteq Seq(S)
           /\ p # <<>> => Front(p) \in Prefixes(p)
           /\ \A q \in Prefixes(p) : Prefixes(q) \subseteq Prefixes(p)
           /\ \A x \in S : Prefixes(Append(p, x)) = Prefixes(p) \cup {Append(p, x)}
  <1>1. Len(p) \in Nat /\ \A l \in 0..Len(p) :
            /\ SubSeq(p, 1, l) \in Seq(S) /\ Len(SubSeq(p, 1, l)) = l
            /\ \A i \in 1..l : SubSeq(p, 1, l)[i] = p[i]
    OBVIOUS
  <1>2. SubSeq(p, 1, Len(p)) = p /\ SubSeq(p, 1, 0) = <<>>  OBVIOUS
  <1>3. p \in Prefixes(p) /\ <<>> \in Prefixes(p)
    <2>1. Len(p) \in 0..Len(p) /\ 0 \in 0..Len(p)  BY <1>1
    <2> QED  BY <1>2, <2>1, Zenon DEF Prefixes
  <1>4. p # <<>> => Front(p) \in Prefixes(p)
    <2>1. p # <<>> => Len(p) - 1 \in 0..Len(p)  BY <1>1
    <2> QED  BY <2>1, Zenon DEF Prefixes, Front
  <1>5. ASSUME NEW q \in Prefixes(p) PROVE Prefixes(q) \subseteq Prefixes(p)
    <2>1. PICK l \in 0..Len(p) : q = SubSeq(p, 1, l)  BY Zenon DEF Prefixes
    <2>2. ASSUME NEW k \in 0..Len(q) PROVE SubSeq(q, 1, k) \in Prefixes(p)
      <3>1. Len(q) = l /\ k \in 0..Len(p) /\ k <= l  BY <1>1, <2>1
      <3>2. SubSeq(q, 1, k) = SubSeq(p, 1, k)
        <4>1. q \in Seq(S) /\ \A i \in 1..l : q[i] = p[i]  BY <1>1, <2>1
        <4> QED  BY <3>1, <4>1
      <3> QED  BY <3>1, <3>2, Zenon DEF Prefixes
    <2> QED  BY <2>2, Zenon DEF Prefixes
  <1>6. ASSUME NEW x \in S PROVE Prefixes(Append(p, x)) = Prefixes(p) \cup {Append(p, x)}
    <2> DEFINE t == Append(p, x)
    <2>1. t \in Seq(S) /\ Len(t) = Len(p) + 1 /\ \A i \in 1..Len(p) : t[i] = p[i]  OBVIOUS
    <2> HIDE DEF t
    <2>2. SubSeq(t, 1, Len(t)) = t  BY <2>1
    <2>3. \A l \in 0..Len(p) : SubSeq(t, 1, l) = SubSeq(p, 1, l)
      <3>1. ASSUME NEW l \in 0..Len(p) PROVE SubSeq(t, 1, l) = SubSeq(p, 1, l)
        BY <1>1, <2>1
      <3> QED  BY <3>1
    <2>4. \A l \in 0..Len(t) : l \in 0..Len(p) \/ l = Len(t)  BY <1>1, <2>1
    <2>5. \A l \in 0..Len(p) : l \in 0..Len(t)  BY <1>1, <2>1
    <2>6. Len(t) \in 0..Len(t)  BY <1>1, <2>1
    <2>7. Prefixes(t) = Prefixes(p) \cup {t}
      <3>1. \A l \in 0..Len(t) : SubSeq(t, 1, l) \in Prefixes(p) \cup {t}
        BY <2>2, <2>3, <2>4, Zenon DEF Prefixes
      <3>2. \A l \in 0..Len(p) : SubSeq(p, 1, l) \in Prefixes(t)
        BY <2>3, <2>5, Zenon DEF Prefixes
      <3>3. t \in Prefixes(t)  BY <2>2, <2>6, Zenon DEF Prefixes
      <3> QED  BY <3>1, <3>2, <3>3, Zenon DEF Prefixes
    <2> QED  BY <2>7 DEF t
  <1>7. Prefixes(p) \subseteq Seq(S)  BY <1>1 DEF Prefixes
  <1> QED  BY <1>3, <1>4, <1>5, <1>6, <1>7

\* The kernel lists each entry of a directory once.
LEMMA ListingFacts ==
    ASSUME Types, NEW dir
    PROVE  /\ Listing(dir) \in Seq(Names) /\ IsInjective(Listing(dir))
           /\ \A n \in tree : Parent[n] = dir => n \in ToSet(Listing(dir))
  <1> DEFINE S == {n \in tree : Parent[n] = dir}
             s == SetToSeq(S)
  <1>1. S \subseteq Nodes /\ Dot \notin Nodes /\ IsFiniteSet(S)
    <2>1. S \subseteq Nodes  BY WalkAssumption DEF Types
    <2> QED  BY <2>1, WalkAssumption, FS_Subset
  <1>2. Cardinality(S) \in Nat /\ ExistsBijection(1..Cardinality(S), S)
    BY <1>1, FS_CardinalityType
  <1>3. PICK f : f \in Bijection(1..Cardinality(S), S)  BY <1>2 DEF ExistsBijection
  <1>4. f \in [1..Cardinality(S) -> S] /\ IsInjective(f)
    BY <1>3 DEF Bijection, Injection, IsInjective
  <1>5. s \in [1..Cardinality(S) -> S] /\ IsInjective(s)
    <2> HIDE DEF S
    <2> QED  BY <1>4 DEF SetToSeq
  <1>6. \A n \in S : \E i \in 1..Cardinality(S) : s[i] = n
    <2> DEFINE C == Cardinality(S)
               I == 1..C
    <2> HIDE DEF S, s
    <2>1. s \in Injection(I, S)  BY <1>5 DEF Injection
    <2>2. Cardinality(I) = Cardinality(S)
      <3>1. \A k \in Nat : Cardinality(1..k) = IF 1 > k THEN 0 ELSE k - 1 + 1  BY FS_Interval
      <3>2. C \in Nat  BY <1>2
      <3> HIDE DEF C
      <3>3. Cardinality(I) = C  BY <3>1, <3>2
      <3> QED  BY <3>3 DEF C
    <2>3. s \in Surjection(I, S)  BY <1>1, <2>1, <2>2, FS_Injection
    <2> QED  BY <2>3 DEF Surjection
  <1>7. Listing(dir) = <<Dot>> \o s  BY DEF Listing
  <1> DEFINE C == Cardinality(S)
             h == <<Dot>> \o s
  <1>8. C \in Nat /\ s \in Seq(Nodes) /\ Len(s) = C /\ DOMAIN s = 1..C
    <2> HIDE DEF S, s
    <2> QED  BY <1>1, <1>2, <1>5
  <1>9. \A i \in 1..C : s[i] \in Nodes /\ s[i] # Dot
    BY <1>1, <1>5
  <1> HIDE DEF S, C, s
  <1>10. /\ h \in Seq(Names) /\ Len(h) = C + 1 /\ DOMAIN h = 1..(C + 1) /\ h[1] = Dot
         /\ \A i \in 1..C : h[i + 1] = s[i]
    BY <1>8 DEF Names
  <1>11. \A i \in 1..(C + 1) : i = 1 \/ (i - 1 \in 1..C /\ h[i] = s[i - 1])
    BY <1>8, <1>10
  <1> HIDE DEF h
  <1>12. IsInjective(h)
    <2>1. ASSUME NEW i \in DOMAIN h, NEW j \in DOMAIN h, h[i] = h[j] PROVE i = j
      <3>1. CASE i = 1 \/ j = 1  BY <1>9, <1>10, <1>11, <2>1, <3>1
      <3>2. CASE i # 1 /\ j # 1
        <4>1. i - 1 = j - 1  BY <1>5, <1>8, <1>10, <1>11, <2>1, <3>2 DEF IsInjective
        <4> QED  BY <1>8, <1>10, <4>1
      <3> QED  BY <3>1, <3>2
    <2> QED  BY <2>1 DEF IsInjective
  <1>13. ASSUME NEW n \in tree, Parent[n] = dir PROVE n \in ToSet(h)
    <2>1. n \in S  BY <1>13 DEF S
    <2>2. PICK i \in 1..C : s[i] = n  BY <1>6, <2>1 DEF C
    <2>3. i + 1 \in DOMAIN h /\ h[i + 1] = n  BY <1>8, <1>10, <2>2
    <2> QED  BY <2>3 DEF ToSet
  <1> QED  BY <1>7, <1>10, <1>12, <1>13 DEF h

\* The entry at hand.
LEMMA EntryFacts ==
    ASSUME Types, buffer # <<>>
    PROVE  /\ Entry \in Names /\ Tail(buffer) \in Seq(Names) /\ EntryPath \in Seq(Names)
           /\ EntryPath # <<>> /\ Front(EntryPath) = current /\ Last(EntryPath) = Entry
           /\ EntryPath # current /\ Prefixes(EntryPath) = Prefixes(current) \cup {EntryPath}
  <1>1. buffer \in Seq(Names) /\ current \in Seq(Names)  BY DEF Types
  <1>2. Entry \in Names /\ Tail(buffer) \in Seq(Names)  BY <1>1, TailFacts DEF Entry
  <1>3. /\ EntryPath \in Seq(Names) /\ EntryPath # <<>> /\ Front(EntryPath) = current
        /\ Last(EntryPath) = Entry /\ EntryPath # current
    BY <1>1, <1>2, AppendFacts DEF EntryPath
  <1>4. Prefixes(EntryPath) = Prefixes(current) \cup {EntryPath}
    BY <1>1, <1>2, PrefixFacts DEF EntryPath
  <1> QED  BY <1>2, <1>3, <1>4

\* The batch that getdents64 returns next, and what remains behind it.
LEMMA NextEntriesFacts ==
    ASSUME Types
    PROVE  /\ NextEntries \in Seq(Names) /\ Len(NextEntries) \in Nat /\ IsInjective(NextEntries)
           /\ ToSet(NextEntries) \cap RestFrom(dirPos + Len(NextEntries)) = {}
           /\ Rest = ToSet(NextEntries) \cup RestFrom(dirPos + Len(NextEntries))
           /\ NextEntries = <<>> => Rest = {}
  <1> DEFINE h == Here
             N == Len(h)
             m == Min({dirPos + BatchSize, N})
             s == NextEntries
  <1>1. h \in Seq(Names) /\ IsInjective(h) /\ dirPos \in Nat /\ BatchSize \in Nat \ {0}
    BY ListingFacts, WalkAssumption DEF Types, Here
  <1>2. N \in Nat /\ DOMAIN h = 1..N  BY <1>1
  <1>3. m \in Nat /\ m <= N /\ (m = N \/ m = dirPos + BatchSize) /\ (dirPos < N => m > dirPos)
        /\ (m = N \/ m <= N) /\ m <= dirPos + BatchSize
    <2>1. \A a, b \in Nat : Min({a, b}) = IF a <= b THEN a ELSE b
      <3> SUFFICES ASSUME NEW a \in Nat, NEW b \in Nat
                   PROVE  Min({a, b}) = IF a <= b THEN a ELSE b
        OBVIOUS
      <3>1. CASE a <= b
        <4>1. a \in {a, b} /\ \A y \in {a, b} : a <= y  BY <3>1
        <4>2. \A x \in {a, b} : (\A y \in {a, b} : x <= y) => x = a  BY <3>1
        <4> QED  BY <3>1, <4>1, <4>2 DEF Min
      <3>2. CASE ~(a <= b)
        <4>1. b \in {a, b} /\ \A y \in {a, b} : b <= y  BY <3>2
        <4>2. \A x \in {a, b} : (\A y \in {a, b} : x <= y) => x = b  BY <3>2
        <4> QED  BY <3>2, <4>1, <4>2 DEF Min
      <3> QED  BY <3>1, <3>2
    <2>2. dirPos + BatchSize \in Nat  BY <1>1
    <2> HIDE DEF N
    <2> QED  BY <1>1, <1>2, <2>1, <2>2
  <1>4. s = SubSeq(h, dirPos + 1, m)  BY DEF NextEntries, Here
  <1> HIDE DEF h, m, s, N
  <1>5. CASE dirPos >= N
    <2>1. s = <<>>
      <3>1. dirPos + 1 > m  BY <1>1, <1>2, <1>3, <1>5
      <3> QED  BY <1>1, <1>3, <1>4, <3>1
    <2>2. RestFrom(dirPos) = {} /\ Len(s) = 0 /\ dirPos + Len(s) = dirPos
      BY <1>1, <1>2, <1>5, <2>1 DEF RestFrom, h, N
    <2>3. ToSet(s) = {} /\ IsInjective(s) /\ s \in Seq(Names)  BY <2>1 DEF ToSet, IsInjective
    <2> QED  BY <2>1, <2>2, <2>3 DEF s, Rest
  <1>6. CASE dirPos < N
    <2>1. /\ s \in Seq(Names) /\ Len(s) = m - dirPos /\ Len(s) > 0 /\ DOMAIN s = 1..Len(s)
          /\ \A i \in 1..Len(s) : s[i] = h[dirPos + i]
      <3>1. \A a, b \in Nat : 1 <= a /\ a <= b /\ b <= Len(h) =>
                /\ SubSeq(h, a, b) \in Seq(Names) /\ Len(SubSeq(h, a, b)) = b - a + 1
                /\ \A i \in 1..(b - a + 1) : SubSeq(h, a, b)[i] = h[a + i - 1]
        BY <1>1
      <3>2. /\ dirPos + 1 \in Nat /\ 1 <= dirPos + 1 /\ dirPos + 1 <= m /\ m <= Len(h)
            /\ m - (dirPos + 1) + 1 = m - dirPos
        <4>1. m <= Len(h)  BY <1>3 DEF N
        <4> QED  BY <1>1, <1>2, <1>3, <1>6, <4>1
      <3>3. /\ s \in Seq(Names) /\ Len(s) = m - dirPos
            /\ \A i \in 1..(m - dirPos) : s[i] = h[(dirPos + 1) + i - 1]
        BY <1>3, <1>4, <3>1, <3>2
      <3>4. \A i \in 1..(m - dirPos) : (dirPos + 1) + i - 1 = dirPos + i  BY <1>1, <1>3
      <3> QED  BY <1>1, <1>3, <3>2, <3>3, <3>4
    <2>2. dirPos + Len(s) = m /\ s # <<>>  BY <1>1, <1>3, <2>1
    <2>3. \A i \in 1..Len(s) : dirPos + i \in 1..N /\ dirPos + i <= m  BY <1>1, <1>2, <1>3, <2>1
    <2>4. IsInjective(s)
      <3>1. ASSUME NEW i \in DOMAIN s, NEW j \in DOMAIN s, s[i] = s[j] PROVE i = j
        <4>0. /\ dirPos + i \in 1..N /\ dirPos + j \in 1..N
              /\ h[dirPos + i] = h[dirPos + j]
          BY <2>1, <2>3, <3>1
        <4>1. DOMAIN h = 1..N /\ IsInjective(h)  BY <1>1, <1>2
        <4>2. dirPos + i = dirPos + j
          <5>1. \A a, b \in 1..N : h[a] = h[b] => a = b  BY <4>1, Zenon DEF IsInjective
          <5> QED  BY <4>0, <5>1, Zenon
        <4> QED  BY <1>1, <2>1, <4>2
      <3> QED  BY <3>1 DEF IsInjective
    <2>5. RestFrom(m) = {h[i] : i \in (m + 1)..N} /\ RestFrom(dirPos) = {h[i] : i \in (dirPos + 1)..N}
      BY DEF RestFrom, h, N
    <2>6. ToSet(s) = {h[i] : i \in (dirPos + 1)..m}
      <3>1. \A i \in DOMAIN s : dirPos + i \in (dirPos + 1)..m /\ s[i] = h[dirPos + i]
        BY <1>1, <1>3, <2>1, <2>3
      <3>2. \A i \in (dirPos + 1)..m : i - dirPos \in DOMAIN s /\ s[i - dirPos] = h[i]
        BY <1>1, <1>3, <2>1
      <3> QED  BY <3>1, <3>2 DEF ToSet
    <2>7. \A i \in (dirPos + 1)..N : i \in (dirPos + 1)..m \/ i \in (m + 1)..N
      BY <1>1, <1>2, <1>3
    <2>8. \A i \in (dirPos + 1)..m : i \in (dirPos + 1)..N  BY <1>1, <1>2, <1>3
    <2>9. \A i \in (m + 1)..N : i \in (dirPos + 1)..N  BY <1>1, <1>2, <1>3, <1>6
    <2>10. RestFrom(dirPos) = ToSet(s) \cup RestFrom(m)  BY <2>5, <2>6, <2>7, <2>8, <2>9
    <2>11. ToSet(s) \cap RestFrom(m) = {}
      <3>1. \A i \in (dirPos + 1)..m, j \in (m + 1)..N :
                i \in DOMAIN h /\ j \in DOMAIN h /\ i # j
        BY <1>1, <1>2, <1>3, <1>6
      <3>2. \A i \in (dirPos + 1)..m, j \in (m + 1)..N : h[i] # h[j]
        BY <1>1, <3>1 DEF IsInjective
      <3> QED  BY <2>5, <2>6, <3>2
    <2> QED  BY <2>1, <2>2, <2>4, <2>10, <2>11 DEF s, Rest
  <1> QED  BY <1>1, <1>2, <1>5, <1>6

\* What remains depends only on the directory and the position in it.
LEMMA SameRest ==
    ASSUME UNCHANGED <<tree, current>>
    PROVE  Here' = Here /\ (UNCHANGED dirPos => Rest' = Rest)
  <1>1. Here' = Here  BY DEF Here, Listing, NodeAt, Followed
  <1> QED  BY <1>1 DEF Rest, RestFrom

-----------------------------------------------------------------------------
(* Types and control.                                                      *)

\* The steps that do not concern the walk: those of the threads of the queue, those of a
\* program that returned early, and join() setting the completion action.
QueueStep ==
    \/ \E p \in ToSet(added), fate \in DOMAIN Retirement : Retire(p, fate)
    \/ DeleteRunner \/ OnError \/ SubmitEnd \/ ProgressEnd \/ UseDestroyedQueue \/ Leave
    \/ JoinAction

\* They leave the walk alone.
LEMMA QueueFrame ==
    ASSUME QueueStep
    PROVE  /\ UNCHANGED <<tree, walkVars, callVars, madeVars, aborted>>
           /\ errored' = errored \/ errored' = TRUE
  BY DEF QueueStep, Retire, DeleteRunner, OnError, SubmitEnd, ProgressEnd, UseDestroyedQueue,
      Leave, JoinAction, vars

\* And so do the steps of the main thread before and after the walk, but for those that make
\* the destination.
OutsideStep ==
    \/ CheckArgs \/ StartQueue \/ StatSrc \/ StatDest \/ CheckParent \/ CopyOther \/ CallJoin
    \/ JoinReturn \/ UNCHANGED allVars

\* They leave the walk alone as well, and no error is recorded.
LEMMA OutsideFrame ==
    ASSUME OutsideStep
    PROVE  /\ UNCHANGED <<tree, walkVars, callVars, madeVars, errored>>
           /\ aborted' = aborted \/ aborted' = TRUE
  BY DEF OutsideStep, CheckArgs, StartQueue, StatSrc, StatDest, CheckParent, CopyOther, CallJoin,
      JoinReturn, Abort, EarlyReturn, vars, allVars

\* The steps of a program that has not aborted.
LEMMA StepCases ==
    ASSUME [Next]_allVars, ~aborted
    PROVE  \/ /\ \/ AddRecursiveCopy \/ OpenDirectory \/ TryOpen \/ ReturnOpen \/ TrySyscall
                 \/ ReturnGetDents \/ NextBatch \/ CloseDirectory \/ StatEntry \/ ReturnStatx
                 \/ SkipDot \/ EntryDirectory \/ EntryRegular \/ EntryLink \/ ReturnReadlink
                 \/ ReturnSymlink \/ EntryUnhandled
              /\ mpc = "walk" /\ UNCHANGED <<tree, mainVars>>
           \/ CopyDirectory \/ CopyFile \/ OutsideStep \/ (QueueStep /\ mpc # "exited")
  <1>1. AddRecursiveCopy => UNCHANGED tree  BY DEF AddRecursiveCopy
  <1> QED  BY <1>1 DEF Next, Running, MainStep, SubmitStep, OutsideStep, QueueStep, WalkFiles, WalkStep, Terminated,
              Ended

\* Every variable keeps its type.
LEMMA TypesNext ==
    ASSUME Types, ~aborted, CallInv, [Next]_allVars
    PROVE  Types'
  <1> USE DEF vars, walkVars, callVars, madeVars, boundVars, threadVars, retireVars,
      mainVars, allVars
  <1>1. ASSUME AddRecursiveCopy, mpc = "walk", UNCHANGED <<tree, mainVars>> PROVE Types'
    <2>0. <<>> \in Seq(Names)  OBVIOUS
    <2>1. <<>> \in Seq(Names) /\ Prefixes(<<>>) \subseteq Seq(Names)  BY <2>0, PrefixFacts
    <2>2. <<(<<>>)>> \in Seq(Seq(Names))  BY <2>1
    <2> QED  BY <1>1, <2>1, <2>2 DEF AddRecursiveCopy, RecursiveMkdir, Types
  <1>2. ASSUME OpenDirectory, mpc = "walk", UNCHANGED <<tree, mainVars>> PROVE Types'
    <2>1. Front(directoryStack) \in Seq(Seq(Names)) /\ Last(directoryStack) \in Seq(Names)
      BY <1>2, FrontFacts DEF OpenDirectory, Types
    <2>2. <<>> \in Seq(Names) /\ 0 \in Nat  OBVIOUS
    <2> QED  BY <1>2, <2>1, <2>2 DEF OpenDirectory, Popped, Types
  <1>3. ASSUME TrySyscall, mpc = "walk", UNCHANGED <<tree, mainVars>> PROVE Types'
    <2>1. NextEntries \in Seq(Names) /\ Len(NextEntries) \in Nat  BY NextEntriesFacts
    <2>2. call = "symlink" => EntryPath \in Seq(Names)
      BY <1>3, EntryFacts DEF TrySyscall, CallInv, Calling, InBatch
    <2>3. /\ UNCHANGED <<directoryStack, current, written, dirs, added, errored, aborted>>
          /\ wpc' \in {"call", "return"}
          /\ buffer' \in {buffer, NextEntries} /\ dirPos' \in {dirPos, dirPos + Len(NextEntries)}
          /\ links' = links \/ (call = "symlink" /\ links' = links \cup {EntryPath})
      BY <1>3 DEF TrySyscall, Effect, EntryPath, Entry
    <2>4. dirPos + Len(NextEntries) \in Nat  BY <2>1 DEF Types
    <2> QED  BY <1>3, <2>1, <2>2, <2>3, <2>4 DEF Types
  <1>4. ASSUME ReturnGetDents, mpc = "walk", UNCHANGED <<tree, mainVars>> PROVE Types'
    <2>1. Len(buffer) \in Nat /\ <<>> \in Seq(Names)  BY DEF Types
    <2> QED  BY <1>4, <2>1 DEF ReturnGetDents, Types
  <1>5. ASSUME ReturnOpen, mpc = "walk", UNCHANGED <<tree, mainVars>> PROVE Types'
    BY <1>5, WalkAssumption DEF ReturnOpen, BeginCall, Types
  <1>6. ASSUME \/ ReturnStatx \/ ReturnReadlink \/ ReturnSymlink,
               mpc = "walk", UNCHANGED <<tree, mainVars>>
        PROVE Types'
    <2>1. Tail(buffer) \in Seq(Names)
      BY <1>6, EntryFacts DEF ReturnStatx, ReturnReadlink, ReturnSymlink, CallInv, Calling,
          InBatch
    <2> QED
      BY <1>6, <2>1 DEF ReturnStatx, ReturnReadlink, ReturnSymlink, BeginCall, NextEntry, Types
  <1>7. ASSUME \/ SkipDot \/ EntryUnhandled,
               mpc = "walk", UNCHANGED <<tree, mainVars>>
        PROVE Types'
    <2>1. Tail(buffer) \in Seq(Names)  BY <1>7, EntryFacts DEF SkipDot, EntryUnhandled, AtEntry
    <2> QED  BY <1>7, <2>1 DEF SkipDot, EntryUnhandled, NextEntry, Types
  <1>8. ASSUME EntryDirectory, mpc = "walk", UNCHANGED <<tree, mainVars>> PROVE Types'
    <2>1. Tail(buffer) \in Seq(Names) /\ EntryPath \in Seq(Names)
      BY <1>8, EntryFacts DEF EntryDirectory, RecursiveMkdir, AtEntry
    <2>2. Prefixes(EntryPath) \subseteq Seq(Names)  BY <2>1, PrefixFacts
    <2>3. Append(directoryStack, EntryPath) \in Seq(Seq(Names))  BY <2>1 DEF Types
    <2> QED  BY <1>8, <2>1, <2>2, <2>3 DEF EntryDirectory, RecursiveMkdir, NextEntry, Types
  <1>9. ASSUME EntryRegular, mpc = "walk", UNCHANGED <<tree, mainVars>> PROVE Types'
    <2>1. Tail(buffer) \in Seq(Names) /\ EntryPath \in Seq(Names)
      BY <1>9, EntryFacts DEF EntryRegular, AtEntry
    <2>2. Append(added, EntryPath) \in Seq(Seq(Names \cup {Root}))
      <3>1. EntryPath \in Seq(Names \cup {Root})  BY <2>1
      <3> QED  BY <3>1 DEF Types
    <2> QED  BY <1>9, <2>1, <2>2 DEF EntryRegular, NextEntry, Types
  <1>10. ASSUME CopyDirectory PROVE Types'
    <2>0. <<>> \in Seq(Names)  OBVIOUS
    <2>1. <<>> \in Seq(Names) /\ Prefixes(<<>>) \subseteq Seq(Names)  BY <2>0, PrefixFacts
    <2> QED  BY <1>10, <2>1 DEF CopyDirectory, Abort, RecursiveMkdir, Types
  <1>11. ASSUME CopyFile PROVE Types'
    <2>1. <<>> \in Seq(Names) /\ <<(<<Root>>)>> \in Seq(Seq(Names \cup {Root}))
      <3>1. <<Root>> \in Seq(Names \cup {Root})  OBVIOUS
      <3> QED  BY <3>1
    <2> QED  BY <1>11, <2>1 DEF CopyFile, Types
  <1>12. ASSUME QueueStep, mpc # "exited" PROVE Types'
    BY <1>12, QueueFrame DEF Types
  <1>13. ASSUME \/ TryOpen \/ NextBatch \/ CloseDirectory \/ StatEntry \/ EntryLink,
                mpc = "walk", UNCHANGED <<tree, mainVars>>
         PROVE Types'
    BY <1>13 DEF TryOpen, NextBatch, CloseDirectory, StatEntry, EntryLink, Types
  <1>14. CASE UNCHANGED <<tree, wpc, directoryStack, current, buffer, written, dirPos, dirs, links, added, errored>>
               /\ (aborted' = aborted \/ aborted' = TRUE)
    BY <1>14 DEF Types
  <1>15. ASSUME OutsideStep PROVE Types'  BY <1>14, <1>15, OutsideFrame
  <1> HIDE DEF vars, walkVars, callVars, madeVars, boundVars, threadVars, retireVars,
      mainVars, allVars
  <1> QED
    BY <1>1, <1>2, <1>3, <1>4, <1>5, <1>6, <1>7, <1>8, <1>9, <1>10, <1>11, <1>12, <1>13, <1>15,
        StepCases

\* The calls of the walk.
LEMMA CallNext ==
    ASSUME Types, ~aborted, CallInv, [Next]_allVars
    PROVE  CallInv'
  <1> USE DEF vars, walkVars, callVars, madeVars, boundVars, threadVars, retireVars,
      mainVars, allVars
  <1>1. ASSUME \/ AddRecursiveCopy \/ OpenDirectory \/ CloseDirectory,
               mpc = "walk", UNCHANGED <<tree, mainVars>>
        PROVE CallInv'
    BY <1>1 DEF AddRecursiveCopy, RecursiveMkdir, OpenDirectory, CloseDirectory, BeginCall,
        CallInv, Calling, InBatch
  <1>2. ASSUME TryOpen, mpc = "walk", UNCHANGED <<tree, mainVars>> PROVE CallInv'
    BY <1>2 DEF TryOpen, CallInv, Calling, InBatch
  <1>3. ASSUME \/ ReturnOpen \/ ReturnGetDents \/ NextBatch,
               mpc = "walk", UNCHANGED <<tree, mainVars>>
        PROVE CallInv'
    BY <1>3 DEF ReturnOpen, ReturnGetDents, NextBatch, BeginCall, CallInv, Calling, InBatch
  <1>4. ASSUME TrySyscall, mpc = "walk", UNCHANGED <<tree, mainVars>> PROVE CallInv'
    <2>1. /\ UNCHANGED <<call, type>> /\ wpc = "call" /\ wpc' \in {"call", "return"}
          /\ call # "getdents" => buffer' = buffer
          /\ wpc' = "call" => errno' # "0"
      BY <1>4 DEF TrySyscall, Effect
    <2> QED  BY <2>1 DEF CallInv, Calling, InBatch
  <1>5. ASSUME StatEntry \/ EntryLink, mpc = "walk", UNCHANGED <<tree, mainVars>> PROVE CallInv'
    BY <1>5 DEF StatEntry, EntryLink, AtEntry, BeginCall, CallInv, Calling, InBatch
  <1>6. ASSUME ReturnStatx, mpc = "walk", UNCHANGED <<tree, mainVars>> PROVE CallInv'
    BY <1>6 DEF ReturnStatx, NextEntry, Entry, CallInv, Calling, InBatch
  <1>7. ASSUME \/ ReturnReadlink \/ ReturnSymlink,
               mpc = "walk", UNCHANGED <<tree, mainVars>>
        PROVE CallInv'
    BY <1>7 DEF ReturnReadlink, ReturnSymlink, NextEntry, BeginCall, CallInv, Calling, InBatch
  <1>8. ASSUME \/ SkipDot \/ EntryUnhandled \/ EntryDirectory \/ EntryRegular,
               mpc = "walk", UNCHANGED <<tree, mainVars>>
        PROVE CallInv'
    BY <1>8 DEF SkipDot, EntryUnhandled, EntryDirectory, RecursiveMkdir, EntryRegular,
        NextEntry, CallInv, Calling, InBatch
  <1>9. CASE UNCHANGED <<wpc, call, errno, buffer, type>>
    BY <1>9 DEF CallInv, Calling, InBatch, KindOf, Followed
  <1> QED
    BY <1>1, <1>2, <1>3, <1>4, <1>5, <1>6, <1>7, <1>8, <1>9, StepCases, QueueFrame,
        OutsideFrame DEF CopyDirectory, CopyFile, Abort, RecursiveMkdir

\* Where the program is.
LEMMA MainNext ==
    ASSUME Types, ~aborted, ~aborted', MainInv, DirsInv, CallInv, [Next]_allVars
    PROVE  MainInv'
  <1> USE DEF vars, walkVars, callVars, madeVars, boundVars, threadVars, retireVars,
      mainVars, allVars
  <1>1. ASSUME \/ AddRecursiveCopy \/ OpenDirectory \/ TryOpen \/ ReturnOpen \/ ReturnGetDents
               \/ NextBatch \/ CloseDirectory,
               mpc = "walk", UNCHANGED <<tree, mainVars>>
        PROVE MainInv'
    <2>1. wpc' # "off" /\ UNCHANGED <<added, mainVars>>
      BY <1>1 DEF AddRecursiveCopy, RecursiveMkdir, OpenDirectory, TryOpen, ReturnOpen,
          ReturnGetDents, NextBatch, CloseDirectory
    <2> QED  BY <1>1, <2>1 DEF MainInv, Before, NoExitCode
  <1>2. ASSUME \/ StatEntry \/ ReturnStatx \/ SkipDot \/ EntryDirectory \/ EntryRegular
               \/ EntryLink \/ ReturnReadlink \/ ReturnSymlink \/ EntryUnhandled \/ TrySyscall,
               mpc = "walk", UNCHANGED <<tree, mainVars>>
        PROVE MainInv'
    <2>1. wpc' # "off" /\ UNCHANGED mainVars
      BY <1>2 DEF StatEntry, ReturnStatx, SkipDot, EntryDirectory, RecursiveMkdir, EntryRegular,
          EntryLink, ReturnReadlink, ReturnSymlink, EntryUnhandled, TrySyscall, NextEntry
    <2> QED  BY <1>2, <2>1 DEF MainInv, Before, NoExitCode
  <1>3. ASSUME CheckArgs \/ StartQueue \/ StatSrc \/ StatDest \/ CheckParent PROVE MainInv'
    BY <1>3 DEF CheckArgs, StartQueue, Abort, StatSrc, EarlyReturn, StatFails, StatDest,
        CheckParent, MainInv, LeftEarly, Before, NoExitCode
  <1>4. ASSUME CopyDirectory PROVE MainInv'
    <2>1. Prefixes(<<>>) = {<<>>}
      <3>1. Len(<<>>) = 0 /\ SubSeq(<<>>, 1, 0) = <<>> /\ 0..0 = {0}  OBVIOUS
      <3> QED  BY <3>1, Zenon DEF Prefixes
    <2> QED  BY <1>4, <2>1 DEF CopyDirectory, Abort, RecursiveMkdir, MainInv, Before, NoExitCode
  <1>5. ASSUME CopyFile \/ CopyOther \/ CallJoin PROVE MainInv'
    BY <1>5 DEF CopyFile, CopyOther, Abort, CallJoin, MainInv, Before, WalkDone, NoExitCode
  <1>6. ASSUME QueueStep, mpc # "exited" PROVE MainInv'
    <2>1. /\ UNCHANGED <<src, dirs, added, links, wpc, directoryStack>>
          /\ exitCode = NoExitCode
      BY <1>6, QueueFrame DEF QueueStep, Retire, DeleteRunner, OnError, SubmitEnd, ProgressEnd,
          UseDestroyedQueue, Leave, JoinAction, MainInv
    <2>2. CASE UNCHANGED <<mpc, exitCode, queue>> /\ (submit' = submit \/ mpc \in {"setAction", "join"})
      BY <2>1, <2>2 DEF MainInv, Before, WalkDone, LeftEarly, NoExitCode
    <2>3. CASE mpc \in {"setAction", "join"} /\ mpc' = "exited"
      BY <2>1, <2>3 DEF MainInv, Before, WalkDone
    <2>4. CASE JoinAction
      BY <2>1, <2>4 DEF JoinAction, MainInv, Before, WalkDone, NoExitCode
    <2>5. CASE UseDestroyedQueue \/ Leave
      BY <2>1, <2>5 DEF UseDestroyedQueue, Leave, LeftEarly, MainInv, Before, WalkDone
    <2> QED
      BY <1>6, <2>2, <2>3, <2>4, <2>5 DEF QueueStep, Retire, DeleteRunner, OnError, SubmitEnd,
          ProgressEnd, Exit, IsDone
  <1>7. ASSUME JoinReturn PROVE MainInv'
    BY <1>7 DEF JoinReturn, Exit, MainInv, Before, WalkDone, LeftEarly
  <1>8. CASE UNCHANGED <<mpc, wpc, src, directoryStack, dirs, links, added, exitCode, queue, submit>>
    BY <1>8 DEF MainInv, Before, WalkDone, LeftEarly
  <1> QED
    BY <1>1, <1>2, <1>3, <1>4, <1>5, <1>6, <1>7, <1>8, StepCases DEF OutsideStep

\* What a list of things to do holds.
LEMMA TodoFacts ==
    ASSUME todo \in Todos
    PROVE  /\ todo \in {<<>>, <<"onError">>, <<"delete">>, <<"onError", "delete">>, <<"delete", "onError">>}
           /\ ToSet(<<>>) = {} /\ ToSet(<<"onError">>) = {"onError"} /\ ToSet(<<"delete">>) = {"delete"}
           /\ ToSet(<<"onError", "delete">>) = {"onError", "delete"}
           /\ ToSet(<<"delete", "onError">>) = {"onError", "delete"}
  <1>1. DOMAIN Retirement = {"ok", "error", "openError"}  BY DEF Retirement
  <1>2. Todos = {<<>>, <<"onError">>, <<"delete">>, <<"onError", "delete">>, <<"delete", "onError">>}
    BY <1>1 DEF Todos, Retirement
  <1>3. ToSet(<<>>) = {}  BY DEF ToSet
  <1>4. \A x : ToSet(<<x>>) = {x}
    <2> SUFFICES ASSUME NEW x PROVE ToSet(<<x>>) = {x}
      OBVIOUS
    <2>1. DOMAIN <<x>> = {1} /\ <<x>>[1] = x  OBVIOUS
    <2> QED  BY <2>1 DEF ToSet
  <1>5. \A x, y : ToSet(<<x, y>>) = {x, y}
    <2> SUFFICES ASSUME NEW x, NEW y PROVE ToSet(<<x, y>>) = {x, y}
      OBVIOUS
    <2>1. DOMAIN <<x, y>> = {1, 2} /\ <<x, y>>[1] = x /\ <<x, y>>[2] = y  OBVIOUS
    <2> QED  BY <2>1 DEF ToSet
  <1> QED  BY <1>2, <1>3, <1>4, <1>5

\* A step of the walk or of the main thread adds files at most.
LEMMA RetireFrame ==
    ASSUME RetireInv, UNCHANGED <<submit, retiring, todo, finished, failed, exitCode>>,
           ToSet(added) \subseteq ToSet(added'), errored => errored',
           exitCode = NoExitCode, submit = "ended" => UNCHANGED added,
           mpc' = mpc \/ submit # "ended"
    PROVE  RetireInv'
  BY DEF RetireInv, Pending, Todos, NoExitCode

\* An error is recorded, or its copy is at hand.
LEMMA RetireNext ==
    ASSUME Types, ~aborted, MainInv, RetireInv, [Next]_allVars
    PROVE  RetireInv'
  <1> USE DEF vars, walkVars, callVars, madeVars, boundVars, threadVars, retireVars,
      mainVars, allVars
  <1> USE DEF LeftEarly
  <1>0. mpc \in Before \cup {"walk", "leaving"} => exitCode = NoExitCode /\ submit # "ended"
    BY DEF MainInv, RetireInv, Before
  <1>1. ASSUME \/ AddRecursiveCopy \/ OpenDirectory \/ TryOpen \/ ReturnOpen \/ TrySyscall
               \/ ReturnGetDents \/ NextBatch \/ CloseDirectory \/ StatEntry \/ ReturnStatx
               \/ SkipDot \/ EntryDirectory \/ EntryRegular \/ EntryLink \/ ReturnReadlink
               \/ ReturnSymlink \/ EntryUnhandled,
               mpc = "walk", UNCHANGED <<tree, mainVars>>
        PROVE  RetireInv'
    <2>1. errored => errored'
      BY <1>1 DEF AddRecursiveCopy, OpenDirectory, TryOpen, ReturnOpen,
          TrySyscall, ReturnGetDents, NextBatch, CloseDirectory, StatEntry, ReturnStatx, SkipDot,
          EntryDirectory, EntryRegular, EntryLink, ReturnReadlink, ReturnSymlink, EntryUnhandled
    <2>2. added' = added \/ EntryRegular
      BY <1>1 DEF AddRecursiveCopy, OpenDirectory, TryOpen, ReturnOpen,
          TrySyscall, ReturnGetDents, NextBatch, CloseDirectory, StatEntry, ReturnStatx, SkipDot,
          EntryDirectory, EntryLink, ReturnReadlink, ReturnSymlink, EntryUnhandled
    <2>3. ToSet(added) \subseteq ToSet(added')
      <3>1. CASE EntryRegular
        <4>1. AtEntry /\ added' = Append(added, EntryPath)  BY <3>1 DEF EntryRegular
        <4>2. EntryPath \in Seq(Names)  BY <4>1, EntryFacts DEF AtEntry
        <4>3. EntryPath \in Seq(Names \cup {Root})  BY <4>2
        <4> QED  BY <4>1, <4>3, AppendFacts DEF Types
      <3> QED  BY <2>2, <3>1
    <2> QED  BY <1>0, <1>1, <2>1, <2>3, RetireFrame
  <1>2. ASSUME \/ CheckArgs \/ StartQueue \/ StatSrc \/ StatDest \/ CheckParent
               \/ CopyDirectory \/ CopyOther \/ CallJoin
        PROVE  RetireInv'
    <2>1. /\ UNCHANGED <<retiring, todo, finished, failed, added, errored>>
          /\ mpc \in Before \cup {"walk"} /\ submit' \in {submit, "running"}
          /\ exitCode' \in {exitCode, 1}
      BY <1>2 DEF CheckArgs, StartQueue, StatSrc, StatDest, CheckParent, CopyDirectory, CopyOther,
          CallJoin, Before
    <2> QED  BY <1>0, <2>1 DEF RetireInv, Pending, NoExitCode
  <1>3. ASSUME CopyFile PROVE RetireInv'
    <2>1. mpc = "choose" /\ added = <<>>  BY <1>3 DEF CopyFile, MainInv, Before
    <2>2. ToSet(added) = {}  BY <2>1 DEF ToSet
    <2> QED  BY <1>0, <1>3, <2>1, <2>2, RetireFrame DEF CopyFile, Before
  <1>4. ASSUME JoinReturn PROVE RetireInv'
    <2>1. todo = <<>> /\ submit = "ended" /\ finished = ToSet(added)  BY <1>4 DEF JoinReturn, RetireInv
    <2>2. Pending = {}  BY <2>1 DEF Pending, ToSet
    <2> QED  BY <1>4, <2>1, <2>2 DEF JoinReturn, Exit, ExitCode, RetireInv, Pending
  <1>5. ASSUME NEW p \in ToSet(added), NEW fate \in DOMAIN Retirement, Retire(p, fate), mpc # "exited"
        PROVE  RetireInv'
    <2>1. /\ UNCHANGED <<added, finished, errored, submit, mpc, exitCode>> /\ submit = "running"
          /\ todo = <<>> /\ retiring' = p /\ p \notin finished
          /\ todo' = Retirement[fate]
          /\ (fate = "ok" /\ failed' = failed) \/ (fate # "ok" /\ failed' = failed \cup {p})
      BY <1>5 DEF Retire
    <2>2. exitCode = NoExitCode  BY <1>5 DEF MainInv
    <2>3. ~errored => failed = {}  BY <2>1 DEF RetireInv, Pending, ToSet
    <2>4. todo' \in Todos'  BY <2>1 DEF Todos
    <2>5. fate # "ok" => "onError" \in ToSet(todo')
      <3>1. fate # "ok" => todo' \in {<<"onError", "delete">>, <<"delete", "onError">>}
        BY <2>1 DEF Retirement
      <3> QED  BY <3>1, TodoFacts DEF RetireInv
    <2>6. ~errored' => failed' \subseteq Pending'  BY <2>1, <2>3, <2>5 DEF Pending
    <2> QED  BY <2>1, <2>2, <2>4, <2>6 DEF RetireInv, NoExitCode
  <1>6. ASSUME DeleteRunner \/ OnError, mpc # "exited" PROVE RetireInv'
    <2>1. /\ UNCHANGED <<added, failed, retiring, submit, mpc, exitCode>>
          /\ todo # <<>> /\ todo' = Tail(todo)
      BY <1>6 DEF DeleteRunner, OnError
    <2>2. exitCode = NoExitCode /\ submit = "running"  BY <1>6, <2>1 DEF MainInv, RetireInv
    <2>3. /\ todo \in {<<"onError">>, <<"delete">>, <<"onError", "delete">>, <<"delete", "onError">>}
          /\ ToSet(<<>>) = {} /\ ToSet(<<"onError">>) = {"onError"} /\ ToSet(<<"delete">>) = {"delete"}
          /\ ToSet(<<"onError", "delete">>) = {"onError", "delete"}
          /\ ToSet(<<"delete", "onError">>) = {"onError", "delete"}
      BY <2>1, TodoFacts DEF RetireInv
    <2>4. /\ Head(<<"onError">>) = "onError" /\ Tail(<<"onError">>) = <<>>
          /\ Head(<<"delete">>) = "delete" /\ Tail(<<"delete">>) = <<>>
          /\ Head(<<"onError", "delete">>) = "onError" /\ Tail(<<"onError", "delete">>) = <<"delete">>
          /\ Head(<<"delete", "onError">>) = "delete" /\ Tail(<<"delete", "onError">>) = <<"onError">>
      OBVIOUS
    <2>5. todo' \in {<<>>, <<"onError">>, <<"delete">>}  BY <2>1, <2>3, <2>4
    <2>6. todo' \in Todos'
      <3>1. <<"delete">> = Retirement["ok"] /\ "ok" \in DOMAIN Retirement  BY DEF Retirement
      <3>2. \A t \in {<<>>, <<"onError">>, <<"delete">>} : t \in Todos'  BY <3>1 DEF Todos
      <3> QED  BY <2>5, <3>2
    <2>7. CASE DeleteRunner
      <3>1. /\ UNCHANGED errored /\ finished' = finished \cup {retiring} /\ Head(todo) = "delete"
        BY <2>7 DEF DeleteRunner
      <3>2. "delete" \in ToSet(todo) /\ "delete" \notin ToSet(todo')
        BY <2>1, <2>3, <2>4, <3>1
      <3>3. "onError" \in ToSet(todo) => "onError" \in ToSet(todo')
        BY <2>1, <2>3, <2>4, <3>1
      <3> QED  BY <2>1, <2>2, <2>6, <3>1, <3>2, <3>3 DEF RetireInv, Pending, NoExitCode
    <2>8. CASE OnError
      <3>1. errored' /\ UNCHANGED finished /\ Head(todo) = "onError"  BY <2>8 DEF OnError
      <3>2. "delete" \in ToSet(todo') => "delete" \in ToSet(todo)
        BY <2>1, <2>3, <2>4, <3>1
      <3> QED  BY <2>1, <2>2, <2>6, <3>1, <3>2 DEF RetireInv, NoExitCode
    <2> QED  BY <1>6, <2>7, <2>8
  <1>7. ASSUME SubmitEnd, mpc # "exited" PROVE RetireInv'
    <2>1. /\ UNCHANGED <<added, finished, failed, retiring, todo, errored, queue, progress, completionAction>>
          /\ todo = <<>> /\ IsDone
          /\ \/ Exit /\ UNCHANGED submit
             \/ submit' = "ended" /\ UNCHANGED <<mpc, exitCode>>
      BY <1>7 DEF SubmitEnd
    <2>2. Pending = {} /\ Pending' = {} /\ exitCode = NoExitCode
      BY <1>7, <2>1 DEF Pending, ToSet, MainInv
    <2> QED  BY <2>1, <2>2 DEF RetireInv, IsDone, Exit, ExitCode, NoExitCode
  <1>8. ASSUME ProgressEnd, mpc # "exited" PROVE RetireInv'
    <2>1. /\ UNCHANGED <<added, finished, failed, retiring, todo, errored, queue, submit, completionAction>>
          /\ progress = "running" /\ IsDone
          /\ \/ Exit /\ UNCHANGED progress /\ completionAction = "Exit"
             \/ UNCHANGED <<mpc, exitCode>>
      BY <1>8 DEF ProgressEnd
    <2>2. exitCode = NoExitCode /\ UNCHANGED Pending  BY <1>8, <2>1 DEF Pending, MainInv
    <2> QED  BY <2>1, <2>2 DEF RetireInv, IsDone, Exit, ExitCode, NoExitCode
  <1>9. ASSUME UseDestroyedQueue \/ Leave \/ JoinAction, mpc # "exited" PROVE RetireInv'
    <2>1. /\ UNCHANGED <<added, finished, failed, retiring, todo, errored, queue, submit>>
          /\ \/ mpc = "leaving"
             \/ mpc = "setAction" /\ mpc' = "join" /\ UNCHANGED exitCode
      BY <1>9 DEF UseDestroyedQueue, Leave, JoinAction
    <2>2. exitCode = NoExitCode /\ UNCHANGED Pending  BY <1>9, <2>1 DEF Pending, MainInv
    <2> QED  BY <1>0, <2>1, <2>2 DEF RetireInv, MainInv, NoExitCode
  <1>10. CASE UNCHANGED allVars
    <2>1. UNCHANGED Pending  BY <1>10 DEF Pending
    <2> QED  BY <1>10, <2>1 DEF RetireInv
  <1> QED
    BY <1>1, <1>2, <1>3, <1>4, <1>5, <1>6, <1>7, <1>8, <1>9, <1>10, StepCases DEF OutsideStep, QueueStep

-----------------------------------------------------------------------------
(* Directories.                                                            *)

\* The root of the copy is the directory above everything.
LEMMA EmptyPath ==
    /\ Prefixes(<<>>) = {<<>>} /\ <<>> \in Seq(Names)
    /\ \A x : ToSet(<<x>>) = {x} /\ IsInjective(<<x>>)
  <1>1. Len(<<>>) = 0 /\ SubSeq(<<>>, 1, 0) = <<>> /\ 0..0 = {0}  OBVIOUS
  <1>2. Prefixes(<<>>) = {<<>>}  BY <1>1, Zenon DEF Prefixes
  <1>3. ASSUME NEW x PROVE ToSet(<<x>>) = {x} /\ IsInjective(<<x>>)
    <2>1. DOMAIN <<x>> = {1} /\ <<x>>[1] = x  OBVIOUS
    <2> QED  BY <2>1 DEF ToSet, IsInjective
  <1>4. <<>> \in Seq(Names)  OBVIOUS
  <1> QED  BY <1>2, <1>3, <1>4

\* A directory is made in one that exists.
LEMMA MkdirFacts ==
    ASSUME Types, DirsInv, ~aborted', EntryDirectory
    PROVE  dirs' = dirs \cup {EntryPath} /\ Prefixes(EntryPath) \subseteq dirs'
  <1>1. Prefixes(EntryPath) = Prefixes(current) \cup {EntryPath}
    BY EntryFacts DEF EntryDirectory, AtEntry
  <1>2. Prefixes(current) \subseteq dirs  BY DEF EntryDirectory, AtEntry, DirsInv, Walking
  <1> QED  BY <1>1, <1>2 DEF EntryDirectory, RecursiveMkdir

\* Directories are made before what they hold.
LEMMA DirsNext ==
    ASSUME Types, ~aborted, ~aborted', MainInv, CallInv, DirsInv, [Next]_allVars
    PROVE  DirsInv'
  <1> USE DEF vars, walkVars, callVars, madeVars, boundVars, threadVars, retireVars,
      mainVars, allVars
  <1>1. ASSUME AddRecursiveCopy, mpc = "walk", UNCHANGED <<tree, mainVars>> PROVE DirsInv'
    BY <1>1, EmptyPath DEF AddRecursiveCopy, RecursiveMkdir, DirsInv, Walking
  <1>2. ASSUME OpenDirectory, mpc = "walk", UNCHANGED <<tree, mainVars>> PROVE DirsInv'
    <2>1. ToSet(directoryStack) = ToSet(Front(directoryStack)) \cup {Last(directoryStack)}
      BY <1>2, FrontFacts DEF OpenDirectory, Types
    <2> QED  BY <1>2, <2>1 DEF OpenDirectory, Popped, DirsInv, Walking
  <1>3. ASSUME TrySyscall, mpc = "walk", UNCHANGED <<tree, mainVars>> PROVE DirsInv'
    <2>1. /\ UNCHANGED <<directoryStack, current, dirs, added>> /\ Walking /\ wpc = "call"
          /\ links' = links \/ (call = "symlink" /\ links' = links \cup {EntryPath})
      BY <1>3 DEF TrySyscall, Effect, EntryPath, Entry, Walking
    <2>2. call = "symlink" => EntryPath # <<>> /\ Front(EntryPath) = current
      BY <2>1, EntryFacts DEF CallInv, Calling, InBatch
    <2> QED  BY <2>1, <2>2 DEF DirsInv
  <1>4. ASSUME EntryDirectory, mpc = "walk", UNCHANGED <<tree, mainVars>> PROVE DirsInv'
    <2>1. /\ UNCHANGED <<current, added, links>> /\ wpc = "entry"
          /\ directoryStack' = Append(directoryStack, EntryPath)
      BY <1>4 DEF EntryDirectory, RecursiveMkdir, AtEntry
    <2>2. dirs' = dirs \cup {EntryPath} /\ Prefixes(EntryPath) \subseteq dirs'
      BY <1>4, MkdirFacts
    <2>3. EntryPath \in Seq(Names)
      BY <1>4, EntryFacts DEF EntryDirectory, RecursiveMkdir, AtEntry
    <2>4. ToSet(directoryStack') = ToSet(directoryStack) \cup {EntryPath}
      BY <2>1, <2>3, AppendFacts DEF Types
    <2> QED  BY <2>1, <2>2, <2>4 DEF DirsInv, Walking
  <1>5. ASSUME EntryRegular, mpc = "walk", UNCHANGED <<tree, mainVars>> PROVE DirsInv'
    <2>1. /\ UNCHANGED <<directoryStack, current, dirs, links>> /\ wpc = "entry" /\ wpc' = "entry"
          /\ added' = Append(added, EntryPath)
      BY <1>5 DEF EntryRegular, AtEntry, NextEntry
    <2>2. EntryPath \in Seq(Names) /\ EntryPath # <<>> /\ Front(EntryPath) = current
      BY <1>5, EntryFacts DEF EntryRegular, AtEntry
    <2>3. ToSet(added') = ToSet(added) \cup {EntryPath}
      <3>1. EntryPath \in Seq(Names \cup {Root})  BY <2>2
      <3> QED  BY <2>1, <3>1, AppendFacts DEF Types
    <2> QED  BY <2>1, <2>2, <2>3 DEF DirsInv, Walking
  <1>6. ASSUME CopyDirectory PROVE DirsInv'
    BY <1>6, EmptyPath DEF CopyDirectory, Abort, RecursiveMkdir, MainInv, Before, DirsInv,
        Walking
  <1>7. ASSUME CopyFile PROVE DirsInv'
    <2>1. <<Root>> # <<>> /\ Front(<<Root>>) = <<>>  BY DEF Front
    <2> QED  BY <1>7, <2>1, EmptyPath DEF CopyFile, MainInv, Before, DirsInv, Walking
  <1>8. CASE UNCHANGED <<directoryStack, current, dirs, added, links>>
               /\ (Walking' => Walking) /\ (wpc' # "off" => wpc # "off")
    BY <1>8 DEF DirsInv
  <1> QED
    BY <1>1, <1>2, <1>3, <1>4, <1>5, <1>6, <1>7, <1>8, StepCases, QueueFrame, OutsideFrame DEF
        TryOpen, ReturnOpen, ReturnGetDents, NextBatch, CloseDirectory, StatEntry,
        ReturnStatx, SkipDot, EntryLink, ReturnReadlink, ReturnSymlink, EntryUnhandled,
        NextEntry, AtEntry, Walking

-----------------------------------------------------------------------------
(* Nothing is found twice.                                                 *)

\* A step within a directory keeps the batch, drops it or its first entry, or reads the next.
Reading ==
    /\ Walking /\ UNCHANGED <<tree, current>>
    /\ \/ UNCHANGED <<buffer, dirPos>>
       \/ UNCHANGED dirPos /\ buffer' = <<>>
       \/ UNCHANGED dirPos /\ buffer # <<>> /\ buffer' = Tail(buffer)
       \/ buffer' = NextEntries /\ dirPos' = dirPos + Len(NextEntries)

\* Every step of the walk but taking a directory from the stack is one.
LEMMA ReadingSteps ==
    ASSUME Types, CallInv, UNCHANGED <<tree, mainVars>>,
           TryOpen \/ ReturnOpen \/ TrySyscall \/ ReturnGetDents \/ NextBatch \/ CloseDirectory
               \/ StatEntry \/ ReturnStatx \/ SkipDot \/ EntryDirectory \/ EntryRegular \/
               EntryLink \/ ReturnReadlink \/ ReturnSymlink \/ EntryUnhandled
    PROVE  Reading
  <1> USE DEF vars, walkVars, callVars, madeVars, boundVars, threadVars, retireVars,
      mainVars, allVars
  <1>1. CASE TryOpen \/ ReturnOpen \/ NextBatch \/ CloseDirectory \/ StatEntry \/ EntryLink
    BY <1>1 DEF TryOpen, ReturnOpen, NextBatch, CloseDirectory, StatEntry, EntryLink, AtEntry,
        Reading, Walking
  <1>2. CASE TrySyscall
    BY <1>2 DEF TrySyscall, Effect, Reading, Walking
  <1>3. CASE ReturnGetDents
    BY <1>3 DEF ReturnGetDents, Reading, Walking
  <1>4. CASE ReturnStatx \/ ReturnReadlink \/ ReturnSymlink
    BY <1>4 DEF ReturnStatx, ReturnReadlink, ReturnSymlink, NextEntry, CallInv, Calling,
        InBatch, Reading, Walking
  <1>5. CASE SkipDot \/ EntryDirectory \/ EntryRegular \/ EntryUnhandled
    BY <1>5 DEF SkipDot, EntryDirectory, EntryRegular, EntryUnhandled, AtEntry, NextEntry,
        Reading, Walking
  <1> QED  BY <1>1, <1>2, <1>3, <1>4, <1>5

\* What a step within a directory leaves to come.
LEMMA RemainingFacts ==
    ASSUME Types, OnceInv, Reading
    PROVE  /\ IsInjective(buffer') /\ ToSet(buffer') \cap Rest' = {} /\ Remaining' \subseteq Remaining
           /\ UNCHANGED dirPos /\ buffer # <<>> /\ buffer' = Tail(buffer) =>
                Remaining = {Entry} \cup Remaining' /\ Entry \notin Remaining'
           /\ UNCHANGED <<buffer, dirPos>> => UNCHANGED Remaining
           /\ buffer = <<>> => Remaining' = Remaining
  <1>1. /\ IsInjective(buffer) /\ ToSet(buffer) \cap Rest = {} /\ UNCHANGED <<tree, current>>
        /\ buffer \in Seq(Names)
    BY DEF OnceInv, Reading, Types
  <1>2. Here' = Here /\ (UNCHANGED dirPos => Rest' = Rest)  BY <1>1, SameRest
  <1>3. ToSet(<<>>) = {} /\ IsInjective(<<>>)  BY DEF ToSet, IsInjective
  <1>4. CASE UNCHANGED <<buffer, dirPos>>
    <2>1. UNCHANGED Remaining /\ UNCHANGED ToSet(buffer) /\ UNCHANGED Rest
      BY <1>2, <1>4 DEF Remaining
    <2>2. buffer # <<>> => ToSet(buffer) = {Entry} \cup ToSet(Tail(buffer)) /\ Entry \notin ToSet(Tail(buffer))
      BY <1>1, TailFacts DEF Entry
    <2> QED  BY <1>1, <1>4, <2>1, <2>2
  <1>5. CASE UNCHANGED dirPos /\ buffer' = <<>>
    <2>1. buffer # <<>> =>
              ToSet(buffer) = {Entry} \cup ToSet(Tail(buffer)) /\ Entry \notin ToSet(Tail(buffer)) /\ Entry \in ToSet(buffer)
      BY <1>1, TailFacts DEF Entry
    <2>2. ToSet(buffer') = {} /\ Remaining' = Rest /\ Rest' = Rest
      BY <1>2, <1>3, <1>5 DEF Remaining
    <2> QED  BY <1>1, <1>3, <1>5, <2>1, <2>2 DEF Remaining
  <1>6. CASE UNCHANGED dirPos /\ buffer # <<>> /\ buffer' = Tail(buffer)
    <2>1. /\ ToSet(buffer) = {Entry} \cup ToSet(Tail(buffer)) /\ Entry \notin ToSet(Tail(buffer))
          /\ IsInjective(Tail(buffer))
      BY <1>1, <1>6, TailFacts DEF Entry
    <2>2. Remaining' = ToSet(Tail(buffer)) \cup Rest /\ Rest' = Rest
      BY <1>2, <1>6 DEF Remaining
    <2> QED  BY <1>1, <1>6, <2>1, <2>2 DEF Remaining
  <1>7. CASE buffer' = NextEntries /\ dirPos' = dirPos + Len(NextEntries)
    <2>1. /\ IsInjective(NextEntries)
          /\ ToSet(NextEntries) \cap RestFrom(dirPos + Len(NextEntries)) = {}
          /\ Rest = ToSet(NextEntries) \cup RestFrom(dirPos + Len(NextEntries))
          /\ Len(NextEntries) \in Nat
      BY NextEntriesFacts
    <2>2. Rest' = RestFrom(dirPos + Len(NextEntries))  BY <1>2, <1>7 DEF Rest, RestFrom
    <2>3. Remaining' = Rest  BY <1>7, <2>1, <2>2 DEF Remaining
    <2>4. UNCHANGED dirPos => Len(NextEntries) = 0  BY <1>7, <2>1 DEF Types
    <2>5. UNCHANGED dirPos => buffer' = <<>>  BY <1>7, <2>4, NextEntriesFacts
    <2>6. CASE UNCHANGED dirPos  BY <1>5, <2>5, <2>6
    <2>7. CASE ~UNCHANGED dirPos
      BY <1>3, <1>7, <2>1, <2>2, <2>3, <2>7 DEF Remaining
    <2> QED  BY <2>6, <2>7
  <1> QED  BY <1>4, <1>5, <1>6, <1>7 DEF Reading

\* A step within a directory that makes no directory and adds no file.
LEMMA OnceReading ==
    ASSUME Types, OnceInv, Reading, UNCHANGED <<directoryStack, dirs, added>>
    PROVE  OnceInv'
  <1>1. IsInjective(buffer') /\ ToSet(buffer') \cap Rest' = {} /\ Remaining' \subseteq Remaining
    BY RemainingFacts
  <1>2. Walking /\ current' = current  BY DEF Reading
  <1> QED  BY <1>1, <1>2 DEF OnceInv

\* The entry at hand has not been made before.
LEMMA EntryIsNew ==
    ASSUME Types, DirsInv, OnceInv, AtEntry
    PROVE  EntryPath \notin ToSet(added) \cup dirs \cup ToSet(directoryStack)
  <1>1. EntryPath # <<>> /\ Front(EntryPath) = current /\ Last(EntryPath) = Entry
    BY EntryFacts DEF AtEntry
  <1>2. Entry \in Remaining  BY TailFacts DEF AtEntry, Types, Entry, Remaining
  <1> QED  BY <1>1, <1>2 DEF AtEntry, Walking, OnceInv, DirsInv

\* What is made is in a directory.
LEMMA FrontInDirs ==
    ASSUME Types, DirsInv, NEW p \in ToSet(added) \cup dirs, p # <<>>
    PROVE  Front(p) \in dirs
  <1>1. CASE p \in dirs
    <2>1. p \in Seq(Names)  BY <1>1 DEF Types
    <2>2. Front(p) \in Prefixes(p)  BY <2>1, PrefixFacts
    <2> QED  BY <1>1, <2>2 DEF DirsInv
  <1> QED  BY <1>1 DEF DirsInv

\* Each directory and file is met once.
LEMMA OnceNext ==
    ASSUME Types, ~aborted, ~aborted', MainInv, CallInv, DirsInv, OnceInv, [Next]_allVars
    PROVE  OnceInv'
  <1> USE DEF vars, walkVars, callVars, madeVars, boundVars, threadVars, retireVars,
      mainVars, allVars
  <1>1. ASSUME AddRecursiveCopy, mpc = "walk", UNCHANGED <<tree, mainVars>> PROVE OnceInv'
    <2>1. dirs' = {<<>>} /\ added' = <<>> /\ directoryStack' = <<(<<>>)>> /\ wpc' = "pop"
      BY <1>1, EmptyPath DEF AddRecursiveCopy, RecursiveMkdir, MainInv
    <2>2. ToSet(added') = {}  BY <2>1 DEF ToSet
    <2> QED  BY <2>1, <2>2, EmptyPath DEF OnceInv, Walking
  <1>2. ASSUME OpenDirectory, mpc = "walk", UNCHANGED <<tree, mainVars>> PROVE OnceInv'
    <2>1. /\ UNCHANGED <<dirs, added>> /\ buffer' = <<>> /\ directoryStack # <<>>
          /\ directoryStack' = Front(directoryStack) /\ current' = Last(directoryStack)
      BY <1>2 DEF OpenDirectory, Popped
    <2>2. /\ ToSet(directoryStack) = ToSet(directoryStack') \cup {current'}
          /\ IsInjective(directoryStack') /\ current' \notin ToSet(directoryStack')
      BY <2>1, FrontFacts DEF Types, OnceInv
    <2>3. IsInjective(buffer') /\ ToSet(buffer') = {}  BY <2>1 DEF IsInjective, ToSet
    <2> QED  BY <2>1, <2>2, <2>3 DEF OnceInv
  <1>3. ASSUME \/ TryOpen \/ ReturnOpen \/ TrySyscall \/ ReturnGetDents \/ NextBatch
               \/ CloseDirectory \/ StatEntry \/ ReturnStatx \/ SkipDot \/ EntryLink
               \/ ReturnReadlink \/ ReturnSymlink \/ EntryUnhandled,
               mpc = "walk", UNCHANGED <<tree, mainVars>>
        PROVE OnceInv'
    <2>1. UNCHANGED <<directoryStack, dirs, added>>
      BY <1>3 DEF TryOpen, ReturnOpen, TrySyscall, ReturnGetDents, NextBatch, CloseDirectory,
          StatEntry, ReturnStatx, SkipDot, EntryLink, ReturnReadlink, ReturnSymlink,
          EntryUnhandled
    <2>2. Reading  BY <1>3, ReadingSteps
    <2> QED  BY <2>1, <2>2, OnceReading
  <1>4. ASSUME EntryDirectory, mpc = "walk", UNCHANGED <<tree, mainVars>> PROVE OnceInv'
    <2>1. /\ UNCHANGED <<current, added, dirPos>> /\ AtEntry /\ buffer' = Tail(buffer) /\ buffer # <<>>
          /\ directoryStack' = Append(directoryStack, EntryPath)
      BY <1>4 DEF EntryDirectory, RecursiveMkdir, AtEntry, NextEntry
    <2>2. dirs' = dirs \cup {EntryPath}  BY <1>4, MkdirFacts
    <2>3. EntryPath \notin ToSet(added) \cup dirs \cup ToSet(directoryStack)
      BY <2>1, EntryIsNew
    <2>4. /\ EntryPath \in Seq(Names) /\ Front(EntryPath) = current /\ Last(EntryPath) = Entry
          /\ EntryPath # current
      BY <2>1, EntryFacts
    <2>5. /\ IsInjective(directoryStack')
          /\ ToSet(directoryStack') = ToSet(directoryStack) \cup {EntryPath}
      BY <2>1, <2>3, <2>4, AppendFacts DEF Types, OnceInv
    <2>6. /\ IsInjective(buffer') /\ ToSet(buffer') \cap Rest' = {} /\ Remaining' \subseteq Remaining
          /\ Entry \notin Remaining'
      <3>1. Reading  BY <1>4, ReadingSteps
      <3> QED  BY <2>1, <3>1, RemainingFacts
    <2>7. current \notin ToSet(directoryStack)  BY <2>1 DEF OnceInv, AtEntry, Walking
    <2>8. ASSUME NEW p \in (ToSet(added) \cup dirs)', p # <<>>
          PROVE  /\ Front(p) \notin ToSet(directoryStack')
                 /\ Front(p) = current => Last(p) \notin Remaining'
      <3>1. CASE p = EntryPath  BY <2>4, <2>5, <2>6, <2>7, <3>1
      <3>2. CASE p # EntryPath
        <4>1. p \in ToSet(added) \cup dirs  BY <2>1, <2>2, <2>8, <3>2
        <4>2. Front(p) \in dirs  BY <2>8, <4>1, FrontInDirs
        <4> QED  BY <2>1, <2>3, <2>5, <2>6, <2>8, <4>1, <4>2 DEF OnceInv, AtEntry, Walking
      <3> QED  BY <3>1, <3>2
    <2> QED  BY <2>1, <2>4, <2>5, <2>6, <2>7, <2>8 DEF OnceInv
  <1>5. ASSUME EntryRegular, mpc = "walk", UNCHANGED <<tree, mainVars>> PROVE OnceInv'
    <2>1. /\ UNCHANGED <<current, dirs, directoryStack, dirPos>> /\ AtEntry
          /\ buffer' = Tail(buffer) /\ buffer # <<>> /\ added' = Append(added, EntryPath)
      BY <1>5 DEF EntryRegular, AtEntry, NextEntry
    <2>2. EntryPath \in Seq(Names) /\ Front(EntryPath) = current /\ Last(EntryPath) = Entry
      BY <2>1, EntryFacts
    <2>3. ToSet(added') = ToSet(added) \cup {EntryPath}
      <3>1. EntryPath \in Seq(Names \cup {Root})  BY <2>2
      <3> QED  BY <2>1, <3>1, AppendFacts DEF Types
    <2>4. /\ IsInjective(buffer') /\ ToSet(buffer') \cap Rest' = {} /\ Remaining' \subseteq Remaining
          /\ Entry \notin Remaining'
      <3>1. Reading  BY <1>5, ReadingSteps
      <3> QED  BY <2>1, <3>1, RemainingFacts
    <2>5. Walking  BY <2>1 DEF AtEntry, Walking
    <2> QED  BY <2>1, <2>2, <2>3, <2>4, <2>5 DEF OnceInv
  <1>6. ASSUME CopyDirectory \/ CopyFile PROVE OnceInv'
    <2>1. /\ dirs' = {<<>>} /\ added' \in {<<>>, <<(<<Root>>)>>} /\ directoryStack' = <<>>
          /\ wpc' = "off"
      BY <1>6, EmptyPath DEF CopyDirectory, Abort, RecursiveMkdir, CopyFile, MainInv, Before
    <2>2. ToSet(directoryStack') = {} /\ IsInjective(directoryStack')
      BY <2>1 DEF ToSet, IsInjective
    <2> QED  BY <2>1, <2>2 DEF OnceInv, Walking
  <1>7. CASE UNCHANGED <<tree, wpc, current, buffer, dirPos, directoryStack, dirs, added>>
    <2>1. UNCHANGED Rest /\ UNCHANGED Walking /\ UNCHANGED Remaining
      BY <1>7, SameRest DEF Walking, Remaining
    <2> QED  BY <1>7, <2>1 DEF OnceInv
  <1> QED
    BY <1>1, <1>2, <1>3, <1>4, <1>5, <1>6, <1>7, StepCases, QueueFrame, OutsideFrame

\* No file is added twice.
LEMMA AddedOnceNext ==
    ASSUME Types, ~aborted, MainInv, DirsInv, OnceInv, AddedOnce, [Next]_allVars
    PROVE  AddedOnce'
  <1> USE DEF vars, walkVars, callVars, madeVars, boundVars, threadVars, retireVars,
      mainVars, allVars
  <1>1. ASSUME EntryRegular, mpc = "walk", UNCHANGED <<tree, mainVars>> PROVE AddedOnce'
    <2>1. AtEntry /\ added' = Append(added, EntryPath)  BY <1>1 DEF EntryRegular
    <2>2. EntryPath \in Seq(Names)  BY <2>1, EntryFacts DEF AtEntry
    <2>3. EntryPath \in Seq(Names \cup {Root})  BY <2>2
    <2>4. EntryPath \notin ToSet(added)  BY <2>1, EntryIsNew
    <2> QED  BY <2>1, <2>3, <2>4, AppendFacts DEF AddedOnce, Types
  <1>2. ASSUME CopyFile PROVE AddedOnce'
    BY <1>2, EmptyPath DEF CopyFile, AddedOnce
  <1>3. CASE UNCHANGED added
    BY <1>3 DEF AddedOnce
  <1> QED
    BY <1>1, <1>2, <1>3, StepCases, QueueFrame, OutsideFrame DEF AddRecursiveCopy,
        OpenDirectory, TryOpen, ReturnOpen, TrySyscall, ReturnGetDents, NextBatch,
        CloseDirectory, StatEntry, ReturnStatx, SkipDot, EntryDirectory, EntryLink,
        ReturnReadlink, ReturnSymlink, EntryUnhandled, CopyDirectory, RecursiveMkdir, Abort

-----------------------------------------------------------------------------
(* Nothing is left out.                                                    *)

\* An error stays, and a call that has failed once is reported.
LEMMA NoFailure ==
    ASSUME ~aborted, ~errored', ~Doomed', [Next]_allVars
    PROVE  ~errored /\ ~Doomed
  <1> USE DEF vars, walkVars, callVars, madeVars, boundVars, threadVars, retireVars,
      mainVars, allVars
  <1>1. ASSUME \/ AddRecursiveCopy \/ OpenDirectory \/ TryOpen \/ NextBatch \/ CloseDirectory
               \/ StatEntry \/ SkipDot \/ EntryDirectory \/ EntryRegular \/ EntryLink
               \/ EntryUnhandled,
               mpc = "walk", UNCHANGED <<tree, mainVars>>
        PROVE ~errored /\ ~Doomed
    BY <1>1 DEF AddRecursiveCopy, RecursiveMkdir, OpenDirectory, TryOpen, NextBatch,
        CloseDirectory, StatEntry, SkipDot, EntryDirectory, EntryRegular, EntryLink,
        EntryUnhandled, AtEntry, Doomed, Calling
  <1>2. ASSUME \/ ReturnOpen \/ ReturnGetDents \/ ReturnStatx \/ ReturnReadlink
               \/ ReturnSymlink,
               mpc = "walk", UNCHANGED <<tree, mainVars>>
        PROVE ~errored /\ ~Doomed
    BY <1>2 DEF ReturnOpen, ReturnGetDents, ReturnStatx, ReturnReadlink, ReturnSymlink, CallOk,
        Doomed, Calling
  <1>3. ASSUME TrySyscall, mpc = "walk", UNCHANGED <<tree, mainVars>> PROVE ~errored /\ ~Doomed
    BY <1>3 DEF TrySyscall, Doomed, Calling
  <1>4. CASE UNCHANGED <<wpc, call, errno>> /\ (errored' = errored \/ errored' = TRUE)
    BY <1>4 DEF Doomed, Calling
  <1> QED
    BY <1>1, <1>2, <1>3, <1>4, StepCases, QueueFrame, OutsideFrame DEF CopyDirectory,
        CopyFile, Abort, RecursiveMkdir

\* What has been made stays.
LEMMA MadeGrows ==
    ASSUME dirs \subseteq dirs', ToSet(added) \subseteq ToSet(added'), links \subseteq links',
           NEW n \in Nodes
    PROVE  Made(Kind[n]) \subseteq Made(Kind[n])'
  <1>1. Kind[n] \in {"dir", "reg", "lnk", "other"}  BY WalkAssumption
  <1> QED  BY <1>1 DEF Made

\* The type the walk goes by is that of the entry, or of what the entry, a link, points to.
LEMMA TypeFacts ==
    ASSUME CallInv, Entry \in Nodes, NEW t \in {"dir", "reg", "lnk", "other"}, TypeIs(t)
    PROVE  Kind[Entry] = t \/ Kind[Entry] = "lnk"
  <1>1. Entry \notin {Root, Dot}  BY WalkAssumption
  <1>2. CASE type = "unread"  BY <1>1, <1>2 DEF TypeIs, DType, KindOf
  <1>3. CASE type # "unread"
    <2>1. t = KindOf(Followed(Entry))  BY <1>3 DEF TypeIs, CallInv, Entry
    <2> QED  BY <1>1, <2>1 DEF KindOf, Followed
  <1> QED  BY <1>2, <1>3

\* A directory of the source that has entries is opened as itself.
LEMMA NodeFacts ==
    ASSUME NEW d \in Seq(Names), InSource(d), NEW n \in Nodes, Parent[n] = DirNode(d)
    PROVE  NodeAt(d) = DirNode(d)
  <1>1. CASE d = <<>>  BY <1>1 DEF NodeAt, DirNode
  <1>2. CASE d # <<>>
    <2>1. Len(d) \in 1..Len(d) /\ Last(d) = d[Len(d)]  BY <1>2 DEF Last
    <2>2. Last(d) \in Nodes  BY <2>1 DEF InSource
    <2>3. Kind[Last(d)] = "dir"  BY <1>2, <2>2, WalkAssumption DEF DirNode
    <2> QED  BY <1>2, <2>2, <2>3 DEF NodeAt, DirNode, Followed
  <1> QED  BY <1>1, <1>2

\* A step within a directory that keeps what remains, finds that nothing does, or makes an
\* entry of it.
LEMMA FoundReading ==
    ASSUME Types, FoundInv, ~errored, ~Doomed, Walking, UNCHANGED <<tree, current>>,
           (dirs \ ToSet(directoryStack))' \subseteq dirs \ ToSet(directoryStack),
           dirs \subseteq dirs', ToSet(added) \subseteq ToSet(added'), links \subseteq links',
           \/ Remaining' = Remaining /\ Walking'
           \/ Remaining = {}
           \/ /\ Walking' /\ Remaining = {Entry} \cup Remaining'
              /\ \A n \in tree : n = Entry => Append(current, n) \in Made(Kind[n])'
    PROVE  FoundInv'
  <1> SUFFICES ASSUME NEW d \in (dirs \ ToSet(directoryStack))', NEW n \in tree,
                      InSource(d), Parent[n] = DirNode(d)
               PROVE  \/ Append(d, n) \in Made(Kind[n])'
                      \/ Walking' /\ d = current' /\ n \in Remaining'
    BY DEF FoundInv, InSource, DirNode
  <1>1. n \in Nodes  BY WalkAssumption DEF Types
  <1>2. Made(Kind[n]) \subseteq Made(Kind[n])'  BY <1>1, MadeGrows
  <1>3. Append(d, n) \in Made(Kind[n]) \/ (d = current /\ n \in Remaining)
    BY DEF FoundInv, Walking
  <1>4. CASE Append(d, n) \in Made(Kind[n])  BY <1>2, <1>4
  <1>5. CASE d = current /\ n \in Remaining  BY <1>5
  <1> QED  BY <1>3, <1>4, <1>5

\* What a directory holds has been made, or is still to come.
LEMMA FoundNext ==
    ASSUME Types, ~aborted, ~aborted', MainInv, CallInv, DirsInv, OnceInv, FoundInv, BatchInv,
           [Next]_allVars
    PROVE  FoundInv'
  <1> SUFFICES ASSUME ~errored', ~Doomed', wpc' # "off" PROVE FoundInv'
    BY DEF FoundInv
  <1>0. ~errored /\ ~Doomed  BY NoFailure
  <1> USE DEF vars, walkVars, callVars, madeVars, boundVars, threadVars, retireVars,
      mainVars, allVars
  <1>1. ASSUME AddRecursiveCopy, mpc = "walk", UNCHANGED <<tree, mainVars>> PROVE FoundInv'
    <2>1. dirs' = {<<>>} /\ ToSet(directoryStack') = {<<>>}
      BY <1>1, EmptyPath DEF AddRecursiveCopy, RecursiveMkdir, MainInv
    <2> QED  BY <2>1 DEF FoundInv
  <1>2. ASSUME OpenDirectory, mpc = "walk", UNCHANGED <<tree, mainVars>> PROVE FoundInv'
    <2>1. /\ UNCHANGED <<tree, dirs, added, links>> /\ dirPos' = 0 /\ directoryStack # <<>>
          /\ directoryStack' = Front(directoryStack) /\ current' = Last(directoryStack)
          /\ wpc = "pop" /\ wpc' = "call"
      BY <1>2 DEF OpenDirectory, Popped
    <2>2. /\ ToSet(directoryStack) = ToSet(directoryStack') \cup {current'}
          /\ Last(directoryStack) \in Seq(Names)
      BY <2>1, FrontFacts DEF Types
    <2> SUFFICES ASSUME NEW d \in (dirs \ ToSet(directoryStack))', NEW n \in tree,
                        InSource(d), Parent[n] = DirNode(d)
                 PROVE  Append(d, n) \in Made(Kind[n])' \/ (d = current' /\ n \in Rest')
      BY <2>1 DEF FoundInv, InSource, DirNode, Remaining, Walking
    <2>3. n \in Nodes  BY WalkAssumption DEF Types
    <2>4. CASE d # current'
      <3>1. Append(d, n) \in Made(Kind[n])  BY <1>0, <2>1, <2>2, <2>4 DEF FoundInv, Walking
      <3> QED  BY <2>1, <2>3, <3>1, MadeGrows
    <2>5. CASE d = current'
      <3>1. NodeAt(d) = Parent[n]  BY <2>1, <2>2, <2>3, <2>5, NodeFacts
      <3>2. Here' = Listing(Parent[n])
        BY <2>1, <2>5, <3>1 DEF Here, Listing, NodeAt, Followed
      <3>3. Listing(Parent[n]) \in Seq(Names) /\ n \in ToSet(Listing(Parent[n]))
        BY ListingFacts
      <3>4. Rest' = {Here'[i] : i \in 1..Len(Here')}
        BY <2>1 DEF Rest, RestFrom
      <3>5. ToSet(Listing(Parent[n])) = Rest'  BY <3>2, <3>3, <3>4 DEF ToSet
      <3> QED  BY <2>5, <3>3, <3>5
    <2> QED  BY <2>4, <2>5
  <1>3. ASSUME \/ TryOpen \/ ReturnOpen \/ NextBatch \/ StatEntry \/ EntryLink
               \/ ReturnGetDents,
               mpc = "walk", UNCHANGED <<tree, mainVars>>
        PROVE FoundInv'
    <2>1. /\ UNCHANGED <<current, buffer, dirPos, directoryStack, dirs, added, links>>
          /\ Walking /\ Walking'
      BY <1>3 DEF TryOpen, ReturnOpen, NextBatch, StatEntry, EntryLink, ReturnGetDents, CallOk,
          AtEntry, Walking
    <2>2. Reading  BY <1>3, ReadingSteps
    <2>3. Remaining' = Remaining  BY <2>1, <2>2, RemainingFacts
    <2> QED  BY <1>0, <1>3, <2>1, <2>3, FoundReading
  <1>4. ASSUME TrySyscall, mpc = "walk", UNCHANGED <<tree, mainVars>> PROVE FoundInv'
    <2>1. /\ UNCHANGED <<current, directoryStack, dirs, added>> /\ links \subseteq links'
          /\ Walking /\ Walking' /\ wpc = "call" /\ call # "open"
          /\ call # "getdents" => UNCHANGED <<buffer, dirPos>>
      BY <1>4 DEF TrySyscall, Effect, Walking
    <2>2. Reading  BY <1>4, ReadingSteps
    <2>3. call = "getdents" => buffer = <<>>  BY <1>0, <2>1 DEF CallInv, Doomed, Calling
    <2>4. Remaining' = Remaining  BY <2>1, <2>2, <2>3, RemainingFacts
    <2> QED  BY <1>0, <1>4, <2>1, <2>4, FoundReading
  <1>5. ASSUME CloseDirectory, mpc = "walk", UNCHANGED <<tree, mainVars>> PROVE FoundInv'
    <2>1. /\ UNCHANGED <<current, directoryStack, dirs, added, links>> /\ wpc = "entry"
          /\ buffer = <<>> /\ written = 0
      BY <1>5 DEF CloseDirectory, LastBatch
    <2>2. Rest = {} /\ ToSet(buffer) = {}  BY <1>0, <2>1 DEF BatchInv, InBatch, ToSet
    <2> QED  BY <1>0, <1>5, <2>1, <2>2, FoundReading DEF Remaining, Walking
  <1>6. ASSUME \/ ReturnStatx \/ ReturnReadlink,
               mpc = "walk", UNCHANGED <<tree, mainVars>>
        PROVE FoundInv'
    <2>1. /\ UNCHANGED <<current, buffer, dirPos, directoryStack, dirs, added, links>>
          /\ Walking /\ Walking'
      BY <1>6 DEF ReturnStatx, ReturnReadlink, CallOk, Walking
    <2>2. Reading  BY <1>6, ReadingSteps
    <2>3. Remaining' = Remaining  BY <2>1, <2>2, RemainingFacts
    <2> QED  BY <1>0, <1>6, <2>1, <2>3, FoundReading
  <1>7. ASSUME \/ SkipDot \/ ReturnSymlink \/ EntryUnhandled,
               mpc = "walk", UNCHANGED <<tree, mainVars>>
        PROVE FoundInv'
    <2>1. /\ UNCHANGED <<current, dirPos, directoryStack, dirs, added, links>>
          /\ Walking /\ Walking' /\ buffer # <<>> /\ buffer' = Tail(buffer)
      BY <1>7 DEF SkipDot, ReturnSymlink, EntryUnhandled, AtEntry, NextEntry, CallInv, Calling,
          InBatch, Walking
    <2>2. Reading  BY <1>7, ReadingSteps
    <2>3. Remaining = {Entry} \cup Remaining'  BY <2>1, <2>2, RemainingFacts
    <2>4. ASSUME NEW n \in tree, n = Entry PROVE Append(current, n) \in Made(Kind[n])'
      <3>1. n \in Nodes /\ n # Dot  BY WalkAssumption DEF Types
      <3>2. CASE SkipDot  BY <2>4, <3>1, <3>2 DEF SkipDot
      <3>3. CASE ReturnSymlink
        <4>1. Kind[n] = "lnk" /\ Append(current, n) \in links
          BY <1>0, <2>4, <3>1, <3>3 DEF ReturnSymlink, BatchInv, Calling, Entry
        <4> QED  BY <2>1, <4>1 DEF Made
      <3>4. CASE EntryUnhandled  BY <3>4 DEF EntryUnhandled
      <3> QED  BY <1>7, <3>2, <3>3, <3>4
    <2> QED  BY <1>0, <1>7, <2>1, <2>3, <2>4, FoundReading
  <1>8. ASSUME EntryDirectory, mpc = "walk", UNCHANGED <<tree, mainVars>> PROVE FoundInv'
    <2>1. /\ UNCHANGED <<current, dirPos, added, links>> /\ AtEntry /\ TypeIs("dir")
          /\ Walking /\ Walking' /\ buffer # <<>> /\ buffer' = Tail(buffer)
          /\ directoryStack' = Append(directoryStack, EntryPath)
      BY <1>8 DEF EntryDirectory, RecursiveMkdir, AtEntry, NextEntry, Walking
    <2>2. Reading  BY <1>8, ReadingSteps
    <2>3. Remaining = {Entry} \cup Remaining'  BY <2>1, <2>2, RemainingFacts
    <2>4. dirs' = dirs \cup {EntryPath}  BY <1>8, MkdirFacts
    <2>5. ASSUME NEW n \in tree, n = Entry PROVE Append(current, n) \in Made(Kind[n])'
      <3>1. n \in Nodes  BY WalkAssumption DEF Types
      <3>2. Kind[n] = "dir" \/ Kind[n] = "lnk"  BY <2>1, <2>5, <3>1, TypeFacts
      <3> QED  BY <2>4, <2>5, <3>2 DEF Made, EntryPath
    <2>6. ToSet(directoryStack') = ToSet(directoryStack) \cup {EntryPath}
      <3>1. EntryPath \in Seq(Names)  BY <2>1, EntryFacts
      <3> QED  BY <2>1, <3>1, AppendFacts DEF Types
    <2> QED  BY <1>0, <1>8, <2>1, <2>3, <2>4, <2>5, <2>6, FoundReading
  <1>9. ASSUME EntryRegular, mpc = "walk", UNCHANGED <<tree, mainVars>> PROVE FoundInv'
    <2>1. /\ UNCHANGED <<current, dirPos, directoryStack, dirs, links>> /\ AtEntry /\ TypeIs("reg")
          /\ Walking /\ Walking' /\ buffer # <<>> /\ buffer' = Tail(buffer)
          /\ added' = Append(added, EntryPath)
      BY <1>9 DEF EntryRegular, AtEntry, NextEntry, Walking, TypeIs
    <2>2. Reading  BY <1>9, ReadingSteps
    <2>3. Remaining = {Entry} \cup Remaining'  BY <2>1, <2>2, RemainingFacts
    <2>4. ToSet(added') = ToSet(added) \cup {EntryPath}
      <3>1. EntryPath \in Seq(Names)  BY <2>1, EntryFacts
      <3>2. EntryPath \in Seq(Names \cup {Root})  BY <3>1
      <3> QED  BY <2>1, <3>2, AppendFacts DEF Types
    <2>5. ASSUME NEW n \in tree, n = Entry PROVE Append(current, n) \in Made(Kind[n])'
      <3>1. n \in Nodes  BY WalkAssumption DEF Types
      <3>2. Kind[n] = "reg" \/ Kind[n] = "lnk"  BY <2>1, <2>5, <3>1, TypeFacts
      <3> QED  BY <2>4, <2>5, <3>2 DEF Made, EntryPath
    <2> QED  BY <1>0, <1>9, <2>1, <2>3, <2>4, <2>5, FoundReading
  <1>10. ASSUME CopyDirectory \/ CopyFile PROVE FoundInv'
    BY <1>10 DEF CopyDirectory, Abort, RecursiveMkdir, CopyFile, MainInv, Before
  <1>11. CASE UNCHANGED <<tree, wpc, current, buffer, dirPos, directoryStack, dirs, added, links>>
    <2>1. UNCHANGED Remaining /\ UNCHANGED Walking
      BY <1>11, SameRest DEF Walking, Remaining
    <2> SUFFICES ASSUME NEW d \in dirs \ ToSet(directoryStack), NEW n \in tree,
                        InSource(d), Parent[n] = DirNode(d)
                 PROVE  \/ Append(d, n) \in Made(Kind[n])'
                        \/ Walking' /\ d = current' /\ n \in Remaining'
      BY <1>11 DEF FoundInv, InSource, DirNode
    <2>2. n \in Nodes  BY WalkAssumption DEF Types
    <2>3. Made(Kind[n]) \subseteq Made(Kind[n])'  BY <1>11, <2>2, MadeGrows
    <2>4. \/ Append(d, n) \in Made(Kind[n])
          \/ Walking /\ d = current /\ n \in Remaining
      BY <1>0, <1>11 DEF FoundInv
    <2> QED  BY <1>11, <2>1, <2>3, <2>4
  <1> QED
    BY <1>1, <1>2, <1>3, <1>4, <1>5, <1>6, <1>7, <1>8, <1>9, <1>10, <1>11, StepCases, QueueFrame,
        OutsideFrame

\* The batches end when the directory does.
LEMMA BatchNext ==
    ASSUME Types, ~aborted, CallInv, BatchInv, [Next]_allVars
    PROVE  BatchInv'
  <1> SUFFICES ASSUME ~errored', ~Doomed' PROVE BatchInv'
    BY DEF BatchInv
  <1>0. ~errored /\ ~Doomed  BY NoFailure
  <1> USE DEF vars, walkVars, callVars, madeVars, boundVars, threadVars, retireVars,
      mainVars, allVars
  <1>1. ASSUME \/ AddRecursiveCopy \/ OpenDirectory \/ TryOpen \/ ReturnOpen \/ NextBatch
               \/ CloseDirectory,
               mpc = "walk", UNCHANGED <<tree, mainVars>>
        PROVE BatchInv'
    BY <1>1 DEF AddRecursiveCopy, RecursiveMkdir, OpenDirectory, TryOpen, ReturnOpen, NextBatch,
        CloseDirectory, BeginCall, BatchInv, InBatch, Calling
  <1>2. ASSUME TrySyscall, mpc = "walk", UNCHANGED <<tree, mainVars>> PROVE BatchInv'
    <2>1. /\ UNCHANGED <<tree, current, written, call>> /\ wpc = "call" /\ call # "open"
          /\ wpc' \in {"call", "return"} /\ errno' = "0" /\ Effect
      BY <1>2 DEF TrySyscall, Doomed, Calling
    <2>2. call # "getdents" => UNCHANGED <<buffer, Rest>>  BY <2>1, SameRest DEF Effect
    <2>3. ASSUME call = "getdents", buffer' = <<>> PROVE Rest' = {}
      <3>1. /\ NextEntries = <<>> /\ dirPos' = dirPos + Len(NextEntries)
        BY <2>1, <2>3 DEF Effect
      <3>2. Rest = {} /\ dirPos' = dirPos  BY <3>1, NextEntriesFacts DEF Types
      <3> QED  BY <2>1, <3>2, SameRest
    <2>4. call = "symlink" => Append(current, Head(buffer)) \in links'  BY <2>1 DEF Effect
    <2> QED  BY <1>0, <2>1, <2>2, <2>3, <2>4 DEF BatchInv, InBatch, Calling
  <1>3. ASSUME ReturnGetDents, mpc = "walk", UNCHANGED <<tree, mainVars>> PROVE BatchInv'
    <2>1. /\ UNCHANGED <<tree, current, dirPos, buffer>> /\ written' = Len(buffer)
          /\ wpc = "return" /\ call = "getdents" /\ wpc' = "entry"
      BY <1>3 DEF ReturnGetDents
    <2>2. written' = 0 => buffer = <<>>
      <3>1. \A s \in Seq(Names) : Len(s) = 0 => s = <<>>  OBVIOUS
      <3> QED  BY <2>1, <3>1 DEF Types
    <2>3. UNCHANGED Rest  BY <2>1, SameRest
    <2> QED  BY <1>0, <2>1, <2>2, <2>3 DEF BatchInv, Calling
  <1>4. ASSUME \/ StatEntry \/ SkipDot \/ EntryDirectory \/ EntryRegular \/ EntryUnhandled
               \/ ReturnStatx \/ ReturnSymlink,
               mpc = "walk", UNCHANGED <<tree, mainVars>>
        PROVE BatchInv'
    <2>1. /\ UNCHANGED <<tree, current, dirPos, written>> /\ InBatch
          /\ wpc' = "entry" \/ (wpc' = "call" /\ call' = "statx")
      BY <1>4 DEF StatEntry, SkipDot, EntryDirectory, RecursiveMkdir, EntryRegular,
          EntryUnhandled, ReturnStatx, ReturnSymlink, AtEntry, NextEntry, BeginCall, InBatch,
          Calling
    <2>2. UNCHANGED Rest  BY <2>1, SameRest
    <2> QED  BY <1>0, <2>1, <2>2 DEF BatchInv, Calling
  <1>5. ASSUME EntryLink, mpc = "walk", UNCHANGED <<tree, mainVars>> PROVE BatchInv'
    <2>1. /\ UNCHANGED <<tree, current, dirPos, written, buffer>> /\ InBatch /\ TypeIs("lnk")
          /\ wpc' = "call" /\ call' = "readlink"
      BY <1>5 DEF EntryLink, AtEntry, BeginCall, InBatch
    <2>2. UNCHANGED Rest  BY <2>1, SameRest
    <2>3. Entry \in Nodes => Kind[Entry] = "lnk"  BY <2>1, TypeFacts
    <2> QED  BY <1>0, <2>1, <2>2, <2>3 DEF BatchInv, Calling, Entry
  <1>6. ASSUME ReturnReadlink, mpc = "walk", UNCHANGED <<tree, mainVars>> PROVE BatchInv'
    <2>1. /\ UNCHANGED <<tree, current, dirPos, written, buffer>> /\ InBatch /\ Calling
          /\ call = "readlink" /\ wpc' = "call" /\ call' = "symlink"
      BY <1>6 DEF ReturnReadlink, BeginCall, InBatch, Calling
    <2>2. UNCHANGED Rest  BY <2>1, SameRest
    <2> QED  BY <1>0, <2>1, <2>2 DEF BatchInv, Calling
  <1>7. CASE UNCHANGED <<tree, wpc, call, current, buffer, dirPos, written, links>>
    <2>1. UNCHANGED Rest  BY <1>7, SameRest
    <2> QED  BY <1>0, <1>7, <2>1 DEF BatchInv, InBatch, Calling
  <1> QED
    BY <1>1, <1>2, <1>3, <1>4, <1>5, <1>6, <1>7, StepCases, QueueFrame, OutsideFrame DEF
        CopyDirectory, CopyFile, Abort, RecursiveMkdir

-----------------------------------------------------------------------------
(* The theorems.                                                           *)

\* The invariant holds in every reachable state.
THEOREM ProgramInvariant == Spec => []ProgramInv
  <1>1. Init => ProgramInv
    <2> SUFFICES ASSUME Init PROVE ProgramInv
      OBVIOUS
    <2> USE DEF Init, WalkInit
    <2>1. ToSet(<<>>) = {} /\ IsInjective(<<>>)  BY DEF ToSet, IsInjective
    <2>2. <<>> \in Seq(Seq(Names)) /\ <<>> \in Seq(Names) /\ <<>> \in Seq(Seq(Names \cup {Root}))
      OBVIOUS
    <2>3. Types /\ AddedOnce  BY <2>1, <2>2 DEF Types, AddedOnce
    <2>4. MainInv /\ CallInv
      BY DEF MainInv, LeftEarly, Before, NoExitCode, CallInv, Calling, InBatch
    <2>7. RetireInv  BY <2>1 DEF RetireInv, Todos, Pending, NoExitCode
    <2>5. DirsInv /\ OnceInv  BY <2>1 DEF DirsInv, OnceInv, Walking
    <2>6. FoundInv /\ BatchInv  BY DEF FoundInv, BatchInv, InBatch, Calling
    <2> QED  BY <2>3, <2>4, <2>5, <2>6, <2>7 DEF ProgramInv, Good
  <1>2. ProgramInv /\ [Next]_allVars => ProgramInv'
    <2> SUFFICES ASSUME ProgramInv, [Next]_allVars PROVE ProgramInv'
      OBVIOUS
    <2>1. CASE aborted
      <3>1. UNCHANGED allVars  BY <2>1 DEF Next, Running, Ended, Terminated
      <3>2. UNCHANGED Types /\ UNCHANGED AddedOnce /\ UNCHANGED <<aborted, exitCode>>
        BY <3>1 DEF allVars, vars, walkVars, madeVars, mainVars, Types, AddedOnce
      <3> QED  BY <2>1, <3>2 DEF ProgramInv
    <2>2. CASE ~aborted
      <3>1. /\ Types /\ AddedOnce /\ MainInv /\ RetireInv /\ CallInv /\ DirsInv /\ OnceInv
            /\ FoundInv /\ BatchInv
        BY <2>2 DEF ProgramInv, Good
      <3>2. Types' /\ AddedOnce' /\ RetireInv' /\ CallInv' /\ BatchInv'
        BY <2>2, <3>1, TypesNext, AddedOnceNext, RetireNext, CallNext, BatchNext
      <3>3. ASSUME ~aborted' PROVE Good'
        <4>1. MainInv'  BY <2>2, <3>1, <3>3, MainNext
        <4>2. DirsInv'  BY <2>2, <3>1, <3>3, DirsNext
        <4>3. OnceInv'  BY <2>2, <3>1, <3>3, OnceNext
        <4>4. FoundInv'  BY <2>2, <3>1, <3>3, FoundNext
        <4> QED  BY <3>2, <4>1, <4>2, <4>3, <4>4 DEF Good
      <3>4. ASSUME aborted' PROVE exitCode' = NoExitCode
        <4> USE DEF vars, walkVars, callVars, madeVars, boundVars, threadVars, retireVars,
      mainVars, allVars
        <4>1. mpc # "exited" /\ UNCHANGED exitCode
          BY <2>2, <3>1, <3>4, StepCases, QueueFrame DEF AddRecursiveCopy, RecursiveMkdir, OpenDirectory,
              TryOpen, ReturnOpen, TrySyscall, ReturnGetDents, NextBatch, CloseDirectory,
              StatEntry, ReturnStatx, SkipDot, EntryDirectory, EntryRegular, EntryLink,
              ReturnReadlink, ReturnSymlink, EntryUnhandled, OutsideStep, CheckArgs, StartQueue, Abort,
              StatSrc, EarlyReturn, StatFails, StatDest, CheckParent, CopyDirectory, CopyFile,
              CopyOther, CallJoin, JoinReturn
        <4> QED  BY <3>1, <4>1 DEF MainInv
      <3> QED  BY <3>2, <3>3, <3>4 DEF ProgramInv
    <2> QED  BY <2>1, <2>2
  <1> QED  BY <1>1, <1>2, PTL DEF Spec

\* addRecursiveCopy gives no file to the queue twice.
THEOREM FilesAddedOnce == Spec => []AddedOnce
  <1>1. ProgramInv => AddedOnce  BY DEF ProgramInv
  <1> QED  BY <1>1, ProgramInvariant, PTL

\* The directory of a file or link exists when the queue may open the file.
THEOREM MkdirComesFirst == Spec => []DirectoriesFirst
  <1>1. ProgramInv => DirectoriesFirst
    <2> SUFFICES ASSUME ProgramInv, ~aborted, NEW p \in ToSet(added) \cup links \cup (dirs \ {<<>>})
                 PROVE  Front(p) \in dirs
      BY DEF DirectoriesFirst
    <2>1. Types /\ DirsInv  BY DEF ProgramInv, Good
    <2>2. CASE p \in links  BY <2>1, <2>2 DEF DirsInv
    <2>3. CASE p \in ToSet(added) \cup (dirs \ {<<>>})
      <3>1. p # <<>>  BY <2>1, <2>3 DEF DirsInv
      <3> QED  BY <2>1, <2>3, <3>1, FrontInDirs
    <2> QED  BY <2>2, <2>3
  <1> QED  BY <1>1, ProgramInvariant, PTL

\* The exit code 0 of wcpMain, from whichever thread, means that the whole source has been
\* found and copied, but for the two cases ExitZeroHonest names: the threads of a queue that
\* an early return destroyed end the process, or the progress thread does between the
\* deletion of the last runner, whose file could not be opened, and onError.
THEOREM ExitZeroMeansCopied == Spec => []ExitZeroHonest
  <1>1. ProgramInv => ExitZeroHonest
    <2> SUFFICES ASSUME ProgramInv, exitCode = 0, ~LeftEarly PROVE ExitZeroHonest
      BY DEF ExitZeroHonest
    <2>1. ~aborted  BY DEF ProgramInv, NoExitCode
    <2>2. Types /\ MainInv /\ RetireInv /\ DirsInv /\ FoundInv  BY <2>1 DEF ProgramInv, Good
    <2>3. /\ ~errored /\ finished = ToSet(added) /\ (src = "reg" => added # <<>>)
          /\ failed \subseteq Pending
          /\ Pending # {} => progress = "running" /\ completionAction = "Exit"
      BY <2>2 DEF MainInv, RetireInv
    <2>5. Unrecorded = Pending
      <3>1. todo \in {<<>>, <<"onError">>}
        BY <2>2, <2>3, TodoFacts DEF RetireInv
      <3>2. Last(<<"onError">>) = "onError"  BY DEF Last
      <3> QED  BY <2>2, <3>1, <3>2, TodoFacts DEF Unrecorded, Pending, RetireInv
    <2>4. ASSUME src = "dir" PROVE \A n \in tree : Arrived(n)
      <3>1. wpc = "pop" /\ directoryStack = <<>>  BY <2>2, <2>4 DEF MainInv, WalkDone
      <3>2. <<>> \in dirs /\ ToSet(directoryStack) = {}  BY <2>2, <3>1 DEF DirsInv, ToSet
      <3>3. ASSUME NEW d \in dirs, NEW n \in tree, InSource(d), Parent[n] = DirNode(d)
            PROVE  Arrived(n)
        <4>1. Append(d, n) \in Made(Kind[n])
          BY <2>2, <2>3, <3>1, <3>2, <3>3 DEF FoundInv, Doomed, Calling, Walking
        <4>2. d \in Seq(Names) /\ n \in Nodes /\ n \in Names
          BY <2>2, WalkAssumption DEF Types, Names
        <4>3. Append(d, n) # <<>> /\ Last(Append(d, n)) = n  BY <4>2, AppendFacts
        <4>4. InSource(Append(d, n))
          <5> DEFINE q == Append(d, n)
          <5>1. /\ Len(d) \in Nat /\ Len(q) = Len(d) + 1 /\ q[Len(d) + 1] = n
                /\ \A i \in 1..Len(d) : q[i] = d[i]
            BY <4>2
          <5>2. DirNode(d) = IF Len(d) = 0 THEN Root ELSE d[Len(d)]
            BY <4>2 DEF DirNode, Last
          <5> HIDE DEF q
          <5>3. ASSUME NEW i \in 1..Len(q)
                PROVE  q[i] \in Nodes /\ Parent[q[i]] = IF i = 1 THEN Root ELSE q[i - 1]
            <6>1. CASE i = Len(d) + 1
              <7>1. i = 1 <=> Len(d) = 0  BY <5>1, <6>1
              <7>2. i # 1 => i - 1 = Len(d) /\ Len(d) \in 1..Len(d)  BY <5>1, <6>1
              <7> QED  BY <3>3, <4>2, <5>1, <5>2, <6>1, <7>1, <7>2
            <6>2. CASE i # Len(d) + 1
              <7>1. i \in 1..Len(d) /\ (i # 1 => i - 1 \in 1..Len(d))  BY <5>1, <5>3, <6>2
              <7> QED  BY <3>3, <5>1, <7>1 DEF InSource
            <6> QED  BY <6>1, <6>2
          <5>4. InSource(q)  BY <5>3 DEF InSource
          <5> QED  BY <5>4 DEF q
        <4> QED  BY <4>1, <4>3, <4>4 DEF Arrived, IsPathOf
      <3> DEFINE U == {n \in tree : ~Arrived(n)}
      <3>4. U \in SUBSET Nodes  BY <2>2, WalkAssumption DEF Types
      <3>5. ASSUME NEW n \in U PROVE Parent[n] \in U
        <4>1. n \in tree /\ ~Arrived(n) /\ n \in Nodes  BY <3>4
        <4>2. Parent[n] # Root
          <5>1. InSource(<<>>) /\ DirNode(<<>>) = Root  BY DEF InSource, DirNode
          <5> QED  BY <3>2, <3>3, <4>1, <5>1
        <4>3. Parent[n] \in tree /\ Parent[n] \in Nodes /\ Kind[Parent[n]] = "dir"
          BY <2>2, <4>1, <4>2, WalkAssumption DEF Types
        <4>4. ~Arrived(Parent[n])
          <5> SUFFICES ASSUME Arrived(Parent[n]) PROVE FALSE
            OBVIOUS
          <5>1. PICK d \in dirs : IsPathOf(d, Parent[n])  BY <4>3 DEF Arrived, Made
          <5>2. InSource(d) /\ DirNode(d) = Parent[n]  BY <5>1 DEF IsPathOf, DirNode
          <5> QED  BY <3>3, <4>1, <5>2
        <4> QED  BY <4>3, <4>4
      <3>6. U = {}
        <4> HIDE DEF U
        <4> QED  BY <3>4, <3>5, WalkAssumption
      <3> QED  BY <3>6
    <2> QED  BY <2>3, <2>4, <2>5 DEF ExitZeroHonest
  <1> QED  BY <1>1, ProgramInvariant, PTL
=============================================================================
