-------------------------------- MODULE Walk --------------------------------
(***************************************************************************)
(* The directory walk CopyQueue::addRecursiveCopy (src/src/CopyQueue.cpp)  *)
(* with the system call wrappers of src/src/Util.cpp and Util.hpp and the  *)
(* descriptor of src/src/ScopedFileDescriptor.cpp.  Module WcpMain runs it *)
(* as part of the program.                                                 *)
(*                                                                         *)
(* A path is the sequence of names below the root of the copy.  Names are  *)
(* unique in the source tree.  What a symbolic link points to is in the    *)
(* tree or does not exist.                                                 *)
(***************************************************************************)
EXTENDS Integers, Sequences, FiniteSetsExt, Functions, SequencesExt

CONSTANTS
    Nodes,          \* the names in source trees
    Trees,          \* the source trees: sets of nodes
    Root,           \* the root of the source tree
    Dot,            \* "." or ".."
    Parent,         \* the directory of each node
    Kind,           \* "dir", "reg", "lnk" or "other"
    Target,         \* what each link points to; Nowhere for a dangling one
    Nowhere,
    Unknown,        \* nodes for which the file system says DT_UNKNOWN
    BatchSize,      \* entries that fit into dirBuffer
    MaxSymlinks,    \* links the kernel follows in one path
    MaxFailures,    \* bound: failed system calls
    MaxInterrupts,  \* bound: system calls that end with EINTR or EAGAIN
    Debug           \* whether debug_assert is compiled in

\* The source is a tree: every set of nodes has one that lies outside of the others.
ASSUME WalkAssumption ==
    /\ IsFiniteSet(Nodes) /\ Trees \subseteq SUBSET Nodes /\ {Root, Dot} \cap Nodes = {}
    /\ \A S \in SUBSET Nodes : S # {} => \E n \in S : Parent[n] \notin S
    /\ Parent \in [Nodes -> Nodes \cup {Root}]
    /\ Kind \in [Nodes -> {"dir", "reg", "lnk", "other"}]
    /\ \A n \in Nodes : Parent[n] # Root => Kind[Parent[n]] = "dir"
    /\ \A n \in Nodes : Target[n] = Nowhere \/ Target[n] = Root \/ Kind[Target[n]] # "lnk"
    /\ \A t \in Trees, n \in Nodes : n \in t => Parent[n] \in t \cup {Root}
    /\ BatchSize \in Nat \ {0} /\ MaxFailures \in Nat /\ MaxInterrupts \in Nat /\ Debug \in BOOLEAN

MAX_TRIES == 5

VARIABLES
    tree,           \* the source, which does not change
    wpc,            \* where the walk is
    directoryStack, current, buffer, written, type,
    dirPos,         \* the kernel's position in the open directory
    call, tries, errno, \* the system call under retrySyscall
    dirs, added, links, \* what the walk made of the source: paths
    errored, aborted,
    failures, interrupts

callVars == <<call, tries, errno>>
madeVars == <<dirs, added, links>>
boundVars == <<failures, interrupts>>
walkVars == <<wpc, directoryStack, current, buffer, written, type, dirPos>>
vars == <<tree, walkVars, callVars, madeVars, errored, aborted, boundVars>>

WalkInit ==
    /\ tree \in Trees
    /\ wpc = "off" /\ directoryStack = <<>> /\ current = <<>>
    /\ buffer = <<>> /\ written = 0 /\ type = "unread"
    /\ dirPos = 0
    /\ call = "none" /\ tries = 0 /\ errno = "0"
    /\ dirs = {} /\ added = <<>> /\ links = {}
    /\ errored = FALSE /\ aborted = FALSE
    /\ failures = 0 /\ interrupts = 0

-----------------------------------------------------------------------------
(* The source tree, as the kernel resolves paths.                          *)

Links(path) == Cardinality({i \in 1..Len(path) : path[i] \in Nodes /\ Kind[path[i]] = "lnk"})
Followed(n) == IF n \in Nodes /\ Kind[n] = "lnk" THEN Target[n] ELSE n
NodeAt(path) == IF path = <<>> THEN Root ELSE Followed(Last(path))
KindOf(n) == IF n \in {Root, Dot} THEN "dir" ELSE Kind[n]
Resolves(path) == Links(path) <= MaxSymlinks /\ NodeAt(path) \in tree \cup {Root, Dot}
Listing(dir) == <<Dot>> \o SetToSeq({n \in tree : Parent[n] = dir})

-----------------------------------------------------------------------------
(* System calls.                                                           *)

Fails == failures < MaxFailures /\ failures' = failures + 1

BeginCall(c) == call' = c /\ tries' = 0 /\ errno' = "0"

\* What getdents64 puts into the buffer.
NextEntries ==
    LET listing == Listing(NodeAt(current))
    IN  SubSeq(listing, dirPos + 1, Min({dirPos + BatchSize, Len(listing)}))

\* The effect of a system call that succeeds.
Effect ==
    /\ IF call = "getdents"
       THEN buffer' = NextEntries /\ dirPos' = dirPos + Len(NextEntries)
       ELSE UNCHANGED <<buffer, dirPos>>
    /\ links' = IF call = "symlink" THEN links \cup {Append(current, Head(buffer))} ELSE links

\* What stands in the way of the call, whatever happens: statx follows links, symlink does
\* not overwrite.
Impossible ==
    \/ call = "statx" /\ ~Resolves(Append(current, Head(buffer)))
    \/ call = "symlink" /\ Append(current, Head(buffer)) \in links

\* One turn of the loop in retrySyscall.  A call that succeeds leaves errno alone: after an
\* interrupted try the loop goes on although the call has had its effect.
TrySyscall ==
    /\ wpc = "call" /\ call # "open"
    /\ \/ /\ interrupts < MaxInterrupts
          /\ errno' = "EINTR" /\ interrupts' = interrupts + 1
          /\ UNCHANGED <<buffer, dirPos, links, failures>>
       \/ /\ errno' = "error"
          /\ Fails \/ (Impossible /\ UNCHANGED failures)
          /\ UNCHANGED <<buffer, dirPos, links, interrupts>>
       \/ /\ ~Impossible /\ Effect
          /\ UNCHANGED <<errno, boundVars>>
    /\ tries' = tries + 1
    /\ wpc' = IF errno' = "EINTR" /\ tries' < MAX_TRIES THEN "call" ELSE "return"
    /\ UNCHANGED <<directoryStack, current, written, type, call, dirs, added, errored, aborted>>

\* One turn of the loop in myOpen, which goes by the descriptor and not by errno.  A
\* directory is opened without O_DIRECT, so the try without that flag does not come up.
TryOpen ==
    /\ wpc = "call" /\ call = "open"
    /\ \/ /\ interrupts < MaxInterrupts
          /\ errno' = "EINTR" /\ interrupts' = interrupts + 1 /\ UNCHANGED failures
       \/ /\ errno' = "error"
          /\ Fails \/ (~Resolves(current) /\ UNCHANGED failures)
          /\ UNCHANGED interrupts
       \/ Resolves(current) /\ errno' = "0" /\ UNCHANGED boundVars
    /\ tries' = tries + 1
    /\ wpc' = IF errno' = "EINTR" /\ tries' < MAX_TRIES THEN "call" ELSE "return"
    /\ UNCHANGED <<directoryStack, current, buffer, written, type, dirPos, call, madeVars, errored, aborted>>

\* retrySyscall returns errno; myOpen fails with errno if it has no descriptor.
LastCallDecides == errno # "error"                                      \* mutant
CallOk == errno = "0"

-----------------------------------------------------------------------------
(* The walk.                                                               *)

\* recursiveMkdir: all directories on the way are made, or an assertion ends the program.
MakeNothing(path) == UNCHANGED <<dirs, aborted, failures>>              \* mutant
RecursiveMkdir(path) ==
    \/ dirs' = dirs \cup Prefixes(path) /\ UNCHANGED <<aborted, failures>>
    \/ Fails /\ aborted' = TRUE /\ UNCHANGED dirs

\* addRecursiveCopy begins.
AddRecursiveCopy ==
    /\ wpc = "off" /\ ~aborted /\ UNCHANGED tree
    /\ RecursiveMkdir(<<>>)
    /\ directoryStack' = <<(<<>>)>>
    /\ wpc' = "pop"
    /\ UNCHANGED <<current, buffer, written, type, dirPos, callVars, added, links, errored, interrupts>>

KeepTop == directoryStack                                               \* mutant
Popped == Front(directoryStack)

\* The next directory is taken from the stack ...
OpenDirectory ==
    /\ wpc = "pop" /\ directoryStack # <<>>
    /\ directoryStack' = Popped
    /\ current' = Last(directoryStack)
    /\ dirPos' = 0 /\ written' = 0 /\ buffer' = <<>>
    /\ wpc' = "call" /\ BeginCall("open")
    /\ UNCHANGED <<type, madeVars, errored, aborted, boundVars>>

\* ... and opened; one that cannot be is reported and left out, after the destructor of
\* ScopedFileDescriptor has tried to close descriptor -1.
ReturnOpen ==
    /\ wpc = "return" /\ call = "open"
    /\ IF CallOk
       THEN wpc' = "call" /\ BeginCall("getdents") /\ UNCHANGED <<errored, aborted>>
       ELSE wpc' = "pop" /\ errored' = TRUE /\ aborted' = Debug /\ UNCHANGED callVars
    /\ UNCHANGED <<directoryStack, current, buffer, written, type, dirPos, madeVars, boundVars>>

\* myGetDents returned.  After an error `continue' tests the length of an earlier batch.
ReturnGetDents ==
    /\ wpc = "return" /\ call = "getdents"
    /\ IF CallOk
       THEN written' = Len(buffer) /\ UNCHANGED <<buffer, errored>>
       ELSE buffer' = <<>> /\ errored' = TRUE /\ UNCHANGED written
    /\ wpc' = "entry" /\ type' = "unread"
    /\ UNCHANGED <<directoryStack, current, dirPos, callVars, madeVars, aborted, boundVars>>

\* The batch is done: the next one, until a batch is empty; then the descriptor is closed.
UntilError == written < 0                                               \* mutant
LastBatch == written = 0

NextBatch ==
    /\ wpc = "entry" /\ buffer = <<>> /\ ~LastBatch
    /\ wpc' = "call" /\ BeginCall("getdents")
    /\ UNCHANGED <<directoryStack, current, buffer, written, type, dirPos, madeVars, errored,
                   aborted, boundVars>>

CloseDirectory ==
    /\ wpc = "entry" /\ buffer = <<>> /\ LastBatch
    /\ wpc' = "pop"
    /\ UNCHANGED <<directoryStack, current, buffer, written, type, dirPos, callVars, madeVars, errored,
                   aborted, boundVars>>

\* The entry at hand, where it is, and d_type; statx replaces an unknown type by the type of
\* what a link points to.
Entry == Head(buffer)
EntryPath == Append(current, Entry)
DType == IF Entry \in Unknown THEN "unknown" ELSE KindOf(Entry)
AtEntry == wpc = "entry" /\ buffer # <<>>
TypeIs(t) == type = t \/ (type = "unread" /\ DType = t)

\* On to the next entry of the batch.
NextEntry == wpc' = "entry" /\ buffer' = Tail(buffer) /\ type' = "unread"

StatEntry ==
    /\ AtEntry /\ type = "unread" /\ DType \in {"unknown", "reg"}
    /\ wpc' = "call" /\ BeginCall("statx")
    /\ UNCHANGED <<directoryStack, current, buffer, written, type, dirPos, madeVars, errored,
                   aborted, boundVars>>

ReturnStatx ==
    /\ wpc = "return" /\ call = "statx"
    /\ IF CallOk
       THEN type' = KindOf(Followed(Entry)) /\ wpc' = "entry" /\ UNCHANGED <<buffer, errored>>
       ELSE NextEntry /\ errored' = TRUE
    /\ UNCHANGED <<directoryStack, current, written, dirPos, callVars, madeVars, aborted, boundVars>>

SkipDot ==
    /\ AtEntry /\ Entry = Dot /\ TypeIs("dir")
    /\ NextEntry
    /\ UNCHANGED <<directoryStack, current, written, dirPos, callVars, madeVars, errored, aborted,
                   boundVars>>

\* A directory is made at once and walked later.
EntryDirectory ==
    /\ AtEntry /\ Entry # Dot /\ TypeIs("dir")
    /\ RecursiveMkdir(EntryPath)
    /\ directoryStack' = Append(directoryStack, EntryPath)
    /\ NextEntry
    /\ UNCHANGED <<current, written, dirPos, callVars, added, links, errored, interrupts>>

\* A regular file whose size is known becomes a copy job.
EntryRegular ==
    /\ AtEntry /\ type = "reg"
    /\ added' = Append(added, EntryPath)
    /\ NextEntry
    /\ UNCHANGED <<directoryStack, current, written, dirPos, callVars, dirs, links, errored, aborted,
                   boundVars>>

\* A link is read, and made anew.
EntryLink ==
    /\ AtEntry /\ TypeIs("lnk")
    /\ wpc' = "call" /\ BeginCall("readlink")
    /\ UNCHANGED <<directoryStack, current, buffer, written, type, dirPos, madeVars, errored, aborted,
                   boundVars>>

ReturnReadlink ==
    /\ wpc = "return" /\ call = "readlink"
    /\ IF CallOk
       THEN wpc' = "call" /\ BeginCall("symlink") /\ UNCHANGED <<buffer, type, errored>>
       ELSE NextEntry /\ errored' = TRUE /\ UNCHANGED callVars
    /\ UNCHANGED <<directoryStack, current, written, dirPos, madeVars, aborted, boundVars>>

ReturnSymlink ==
    /\ wpc = "return" /\ call = "symlink"
    /\ errored' = (errored \/ ~CallOk)
    /\ NextEntry
    /\ UNCHANGED <<directoryStack, current, written, dirPos, callVars, madeVars, aborted, boundVars>>

EntryUnhandled ==
    /\ AtEntry /\ TypeIs("other")
    /\ errored' = TRUE
    /\ NextEntry
    /\ UNCHANGED <<directoryStack, current, written, dirPos, callVars, madeVars, aborted, boundVars>>

WalkDone == wpc = "pop" /\ directoryStack = <<>>

WalkStep ==
    /\ ~aborted /\ UNCHANGED tree
    /\ \/ OpenDirectory \/ TryOpen \/ ReturnOpen \/ TrySyscall \/ ReturnGetDents \/ NextBatch \/ CloseDirectory
       \/ StatEntry \/ ReturnStatx \/ SkipDot \/ EntryDirectory \/ EntryRegular
       \/ EntryLink \/ ReturnReadlink \/ ReturnSymlink \/ EntryUnhandled

-----------------------------------------------------------------------------
(* Properties, checked in module WcpMain.                                  *)

\* A path in the source through no link, and the one of a node.
InSource(path) ==
    \A i \in 1..Len(path) :
        path[i] \in Nodes /\ Parent[path[i]] = IF i = 1 THEN Root ELSE path[i - 1]
IsPathOf(path, n) == path # <<>> /\ Last(path) = n /\ InSource(path)

\* What the source holds at a node is at the same place in the destination.
Made(kind) ==
    CASE kind = "dir" -> dirs
      [] kind = "reg" -> ToSet(added)
      [] kind = "lnk" -> links \cup dirs \cup ToSet(added)
      [] kind = "other" -> {}
Arrived(n) == \E path \in Made(Kind[n]) : IsPathOf(path, n)

\* A file is added at most once, so that no two runners ever write the same destination.
AddedOnce == IsInjective(added)

\* The directory a file or link goes to exists when it is added: the submit thread may open
\* the destination at any time from then on.
DirectoriesFirst ==
    ~aborted => \A p \in ToSet(added) \cup links \cup (dirs \ {<<>>}) : Front(p) \in dirs
=============================================================================
