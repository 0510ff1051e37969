------------------------------ MODULE WcpMain ------------------------------
(***************************************************************************)
(* The command line program (src/src/wcpMain.cpp): its checks, the life of *)
(* the copy queue, the choice between copying a file and walking a         *)
(* directory (module Walk), and the exit code, which any of three threads  *)
(* can set.  Of the queue there is what that depends on: in which order    *)
(* the submit thread records an error and deletes a runner, and who ends   *)
(* the process.  A file has one runner here; modules CopyQueue and         *)
(* Completion have the rest.                                               *)
(***************************************************************************)
EXTENDS Walk

CONSTANTS
    Sources,    \* what SRC can be: a subset of {"dir", "reg", "other", "missing"}
    Dests,      \* what DEST can be: a subset of {"dir", "reg", "missing"}
    Actions     \* what NO_CLEANUP makes of join(): a subset of {"Exit", "Return"}

VARIABLES
    mpc,        \* where wcpMain is
    src, dest,  \* what the two arguments name
    queue,      \* the CopyQueue: "none", "alive" or "destroyed"
    showingProgress, completionAction,
    submit, progress,   \* the threads of the queue: "none", "running" or "ended"
    retiring, todo,     \* the runner the submit thread is done with, and what it still does
    finished,   \* the copies whose runner is deleted
    failed,     \* the copies that failed
    exitCode

threadVars == <<showingProgress, completionAction, submit, progress>>
retireVars == <<retiring, todo, finished, failed>>
mainVars == <<mpc, src, dest, queue, threadVars, retireVars, exitCode>>
allVars == <<vars, mainVars>>

NoExitCode == -1
Crashed == 139
NoCopy == <<>>

Init ==
    /\ WalkInit
    /\ mpc = "args" /\ src \in Sources /\ dest \in Dests
    /\ queue = "none" /\ showingProgress = FALSE /\ completionAction = "Return"
    /\ submit = "none" /\ progress = "none"
    /\ retiring = NoCopy /\ todo = <<>> /\ finished = {} /\ failed = {}
    /\ exitCode = NoExitCode

\* release_assert ends the program where it stands.
Abort == aborted' = TRUE

\* The operating system, its version and the number of arguments are checked first; an empty
\* argument ends the program.
CheckArgs ==
    /\ mpc = "args"
    /\ \/ mpc' = "exited" /\ exitCode' = 1 /\ UNCHANGED aborted
       \/ Abort /\ UNCHANGED <<mpc, exitCode>>
       \/ mpc' = "start" /\ UNCHANGED <<exitCode, aborted>>
    /\ UNCHANGED <<tree, walkVars, callVars, madeVars, errored, boundVars, src, dest, queue,
                   threadVars, retireVars>>

\* The constructor of CopyQueue, and start().
StartQueue ==
    /\ mpc = "start"
    /\ \/ Fails /\ Abort /\ UNCHANGED <<mpc, queue, showingProgress, submit, progress>>
       \/ /\ mpc' = "statSrc" /\ queue' = "alive" /\ submit' = "running"
          /\ showingProgress' \in BOOLEAN
          /\ progress' = IF showingProgress' THEN "running" ELSE "none"
          /\ UNCHANGED <<aborted, failures>>
    /\ UNCHANGED <<tree, walkVars, callVars, madeVars, errored, interrupts, src, dest,
                   completionAction, retireVars, exitCode>>

\* `return 1' runs the destructor of the queue while its threads are running ...
EarlyReturn == mpc' = "leaving" /\ queue' = "destroyed"

\* ... until main has returned as well and the process is gone.
Leave ==
    /\ mpc = "leaving"
    /\ mpc' = "exited" /\ exitCode' = 1
    /\ UNCHANGED <<vars, src, dest, queue, threadVars, retireVars>>

\* Until then they use an object that does not exist any more, in a part of the stack that is
\* used for something else: they may crash, or find there that the queue is done and call
\* _exit with whatever stands in place of errored.
UseDestroyedQueue ==
    /\ mpc = "leaving"
    /\ mpc' = "exited" /\ exitCode' \in {0, 1, Crashed}
    /\ UNCHANGED <<vars, src, dest, queue, threadVars, retireVars>>

\* A call that was interrupted counts as failed, even if it succeeded in the end.
StatFails ==
    \/ Fails /\ UNCHANGED interrupts
    \/ interrupts < MaxInterrupts /\ interrupts' = interrupts + 1 /\ UNCHANGED failures

StatSrc ==
    /\ mpc = "statSrc"
    /\ \/ src # "missing" /\ mpc' = "statDest" /\ UNCHANGED <<queue, boundVars>>
       \/ EarlyReturn /\ (StatFails \/ (src = "missing" /\ UNCHANGED boundVars))
    /\ UNCHANGED <<tree, walkVars, callVars, madeVars, errored, aborted, src, dest, threadVars,
                   retireVars, exitCode>>

\* ENOENT is fine here.
StatDest ==
    /\ mpc = "statDest"
    /\ \/ mpc' = "parent" /\ UNCHANGED <<queue, boundVars>>
       \/ EarlyReturn /\ StatFails
    /\ UNCHANGED <<tree, walkVars, callVars, madeVars, errored, aborted, src, dest, threadVars,
                   retireVars, exitCode>>

\* The directory that holds DEST has to exist.
CheckParent ==
    /\ mpc = "parent"
    /\ \/ Fails /\ Abort /\ UNCHANGED mpc
       \/ mpc' = "choose" /\ UNCHANGED <<aborted, failures>>
    /\ UNCHANGED <<tree, walkVars, callVars, madeVars, errored, interrupts, src, dest, queue,
                   threadVars, retireVars, exitCode>>

\* A directory goes below DEST: recursiveMkdir ends the program if DEST is a file.
CopyDirectory ==
    /\ mpc = "choose" /\ src = "dir"
    /\ IF dest = "reg"
       THEN Abort /\ UNCHANGED <<mpc, dirs, failures>>
       ELSE RecursiveMkdir(<<>>) /\ mpc' = "walk"
    /\ UNCHANGED <<tree, walkVars, callVars, added, links, errored, interrupts, src, dest, queue,
                   threadVars, retireVars, exitCode>>

\* addFileCopy, into DEST if that is a directory and as DEST otherwise.
CopyFile ==
    /\ mpc = "choose" /\ src = "reg"
    /\ dirs' = dirs \cup {<<>>} /\ added' = <<(<<Root>>)>>
    /\ mpc' = "setAction"
    /\ UNCHANGED <<tree, walkVars, callVars, links, errored, aborted, boundVars, src, dest, queue,
                   threadVars, retireVars, exitCode>>

CopyOther ==
    /\ mpc = "choose" /\ src = "other"
    /\ Abort
    /\ UNCHANGED <<tree, walkVars, callVars, madeVars, errored, boundVars, mainVars>>

WalkFiles ==
    /\ mpc = "walk" /\ (AddRecursiveCopy \/ WalkStep)
    /\ UNCHANGED mainVars

\* join(): the state is AdditionComplete from here on; the completion action is set next.
CallJoin ==
    /\ mpc = "walk" /\ WalkDone
    /\ mpc' = "setAction"
    /\ UNCHANGED <<vars, src, dest, queue, threadVars, retireVars, exitCode>>

JoinAction ==
    /\ mpc = "setAction"
    /\ completionAction' \in Actions
    /\ mpc' = "join"
    /\ UNCHANGED <<vars, src, dest, queue, showingProgress, submit, progress, retireVars, exitCode>>

-----------------------------------------------------------------------------
(* The threads of the queue.                                               *)

\* What is left to do with a runner that has ended: its error is recorded before it is
\* deleted, but for a file that could not be opened.
Retirement ==
    [ok        |-> <<"delete">>,
     error     |-> <<"onError", "delete">>,
     openError |-> <<"delete", "onError">>]

Retire(p, fate) ==
    /\ submit = "running" /\ todo = <<>> /\ p \in ToSet(added) \ finished
    /\ retiring' = p /\ todo' = Retirement[fate]
    /\ IF fate = "ok" THEN UNCHANGED <<failed, failures>> ELSE Fails /\ failed' = failed \cup {p}
    /\ UNCHANGED <<tree, walkVars, callVars, madeVars, errored, aborted, interrupts, mpc, src, dest,
                   queue, threadVars, finished, exitCode>>

DeleteRunner ==
    /\ todo # <<>> /\ Head(todo) = "delete"
    /\ todo' = Tail(todo) /\ finished' = finished \cup {retiring}
    /\ UNCHANGED <<vars, mpc, src, dest, queue, threadVars, retiring, failed, exitCode>>

OnError ==
    /\ todo # <<>> /\ Head(todo) = "onError"
    /\ todo' = Tail(todo) /\ errored' = TRUE
    /\ UNCHANGED <<tree, walkVars, callVars, madeVars, aborted, boundVars, mpc, src, dest, queue,
                   threadVars, retiring, finished, failed, exitCode>>

\* isDone(); module Completion has its two loads.
IsDone == mpc \in {"setAction", "join"} /\ finished = ToSet(added)

\* exitProcess(), and the result of join() where wcpMain returns it
ExitCode == IF errored THEN 1 ELSE 0
Exit == exitCode' = ExitCode /\ mpc' = "exited"

SubmitEnd ==
    /\ submit = "running" /\ todo = <<>> /\ IsDone
    /\ IF completionAction = "Exit" /\ ~showingProgress
       THEN Exit /\ UNCHANGED submit
       ELSE submit' = "ended" /\ UNCHANGED <<mpc, exitCode>>
    /\ UNCHANGED <<vars, src, dest, queue, showingProgress, completionAction, progress, retireVars>>

ProgressEnd ==
    /\ progress = "running" /\ IsDone
    /\ IF completionAction = "Exit"
       THEN Exit /\ UNCHANGED progress
       ELSE progress' = "ended" /\ UNCHANGED <<mpc, exitCode>>
    /\ UNCHANGED <<vars, src, dest, queue, showingProgress, completionAction, submit, retireVars>>

\* join() returns when both threads have ended, and wcpMain with its result.
JoinReturn ==
    /\ mpc = "join" /\ submit = "ended" /\ progress # "running"
    /\ queue' = "destroyed" /\ Exit
    /\ UNCHANGED <<vars, src, dest, threadVars, retireVars>>

-----------------------------------------------------------------------------
Ended == mpc = "exited" \/ aborted
Terminated == Ended /\ UNCHANGED allVars

MainStep ==
    \/ CheckArgs \/ StartQueue \/ StatSrc \/ StatDest \/ CheckParent \/ CopyDirectory
    \/ CopyFile \/ CopyOther \/ WalkFiles \/ CallJoin \/ JoinAction \/ JoinReturn \/ Leave
SubmitStep ==
    \/ \E p \in ToSet(added), fate \in DOMAIN Retirement : Retire(p, fate)
    \/ DeleteRunner \/ OnError \/ SubmitEnd
Running(Step) == ~Ended /\ Step

Next ==
    \/ Running(MainStep) \/ Running(SubmitStep) \/ Running(ProgressEnd)
    \/ Running(UseDestroyedQueue)
    \/ Terminated

\* The three threads keep running.
Spec ==
    /\ Init /\ [][Next]_allVars
    /\ WF_allVars(Running(MainStep)) /\ WF_allVars(Running(SubmitStep)) /\ WF_allVars(Running(ProgressEnd))

-----------------------------------------------------------------------------
(* Properties.                                                             *)

\* An early return: the threads of the queue have outlived it.
LeftEarly == queue = "destroyed" /\ submit = "running"

\* The copy whose error has not been recorded although its end has been noticed.
Unrecorded == IF todo # <<>> /\ Last(todo) = "onError" THEN {retiring} ELSE {}

\* The exit code is 0 only if all of the source has been copied: every entry the walk found
\* in however many batches, and every copy it gave to the queue, well finished, whichever
\* thread ends the process.  There are two exceptions.  After an early return the threads
\* may end the process with any code.  And where the progress thread ends it, a file that
\* could not be opened may have been counted as finished and its error not yet recorded.
ExitZeroHonest ==
    (exitCode = 0 /\ ~LeftEarly) =>
        /\ ~errored /\ finished = ToSet(added)
        /\ failed \subseteq Unrecorded
        /\ Unrecorded # {} => progress = "running" /\ completionAction = "Exit"
        /\ src = "dir" => \A n \in tree : Arrived(n)
        /\ src = "reg" => added # <<>>

\* The program ends, also if directories vanish or cannot be read, links form cycles and
\* calls are interrupted, as long as calls do not fail for ever.
ProgramEnds == <>Ended
=============================================================================
