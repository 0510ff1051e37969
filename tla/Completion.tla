----------------------------- MODULE Completion -----------------------------
(***************************************************************************)
(* How a session of the copy queue ends (src/src/CopyQueue.cpp): join(),   *)
(* the submit thread and the progress thread each find out on their own    *)
(* that nothing is left to do, report errors to each other through shared  *)
(* members, and one of them may end the process.                           *)
(*                                                                         *)
(* How a runner copies is left to modules CopyQueue and CopyRunner: here a *)
(* runner is retired by the submit thread in one of the orders in which    *)
(* the code reports its error and deletes it.  Every step is one access to *)
(* a member that another thread uses.                                      *)
(***************************************************************************)
EXTENDS Integers, Sequences, FiniteSets

CONSTANTS
    Runners,        \* what can be added
    Fates,          \* how a runner can end: a subset of DOMAIN Retirement
    Actions,        \* what join() can be called with: a subset of {"Exit", "Return"}
    Terminals,      \* whether stderr can be a terminal, so that a progress bar is shown
    MaxSessions     \* bound: calls of start()

\* mutants: a runner never deleted, one deleted twice
NoRetirement ==
    [ok |-> <<>>, closeError |-> <<"errored", "message">>,
     ioError |-> <<"errored", "message">>, openError |-> <<"errored", "message">>]
DoubleRetirement ==
    [ok |-> <<"delete", "delete">>, closeError |-> <<"errored", "message", "delete">>,
     ioError |-> <<"errored", "message", "delete">>, openError |-> <<"delete", "errored", "message">>]

\* In which order the submit thread retires a runner.
\* "ok" and "closeError": FinishedTag; "ioError": the runner's saved error, and also the
\* failure of an empty file; "openError": the error of addToBatch.
Retirement ==
    [ok         |-> <<"delete">>,
     closeError |-> <<"errored", "message", "delete">>,
     ioError    |-> <<"errored", "message", "delete">>,
     openError  |-> <<"delete", "errored", "message">>]

ASSUME CompletionAssumption ==
    /\ Fates \subseteq DOMAIN Retirement
    /\ Actions \subseteq {"Exit", "Return"} /\ Terminals \subseteq BOOLEAN
    /\ IsFiniteSet(Runners) /\ MaxSessions \in Nat

NoRunner == "none"

VARIABLES
    state, keepAliveCount, completionAction, errored,
    showingProgress,
    errorMessages,      \* of which runners a message waits for the progress thread
    progressEndMutex,   \* who holds it
    pending,            \* runners added and not yet taken by the submit thread
    mpc, retval, adding,    \* the thread that calls start(), adds and calls join()
    spc, current, todo, sloaded,    \* the submit thread
    ppc, ploaded,                   \* the progress thread
    exitCode,           \* how the process ended, -1 while it runs
    unadded, failed, shown, sessions

mainVars == <<mpc, retval, adding, unadded, sessions>>
submitVars == <<spc, current, todo, sloaded>>
progressVars == <<ppc, ploaded>>
errorVars == <<errored, errorMessages, shown>>
vars == <<state, keepAliveCount, completionAction, errorVars, showingProgress, progressEndMutex,
          pending, mainVars, submitVars, progressVars, exitCode, failed>>

Init ==
    /\ state = "Idle" /\ keepAliveCount = 0 /\ completionAction = "Return"
    /\ errored = FALSE /\ showingProgress = FALSE
    /\ errorMessages = {} /\ shown = {}
    /\ progressEndMutex = "free"
    /\ pending = {} /\ unadded = Runners
    /\ mpc = "idle" /\ retval = "no" /\ adding = NoRunner
    /\ spc = "off" /\ current = NoRunner /\ todo = <<>> /\ sloaded = FALSE
    /\ ppc = "off" /\ ploaded = FALSE
    /\ exitCode = -1 /\ failed = {} /\ sessions = 0

Running == exitCode = -1

\* onError, first half; join() makes it undone.
SetErrored == errored' = TRUE
KeepErrored == UNCHANGED errored                \* mutant
ResetErrored == errored' = FALSE

\* onError, second half: with a progress bar, its thread shows the message.
Message(r) ==
    IF showingProgress
    THEN errorMessages' = errorMessages \cup {r} /\ UNCHANGED shown
    ELSE shown' = shown \cup {r} /\ UNCHANGED errorMessages

-----------------------------------------------------------------------------
(* The thread that owns the queue.                                         *)

\* start(): the submit thread runs, and may retire what was added before, when
\* showingProgress has the value of the last session.
Start ==
    /\ Running /\ mpc = "idle" /\ sessions < MaxSessions
    /\ state' = "Running" /\ sessions' = sessions + 1
    /\ spc' = "loop"
    /\ mpc' = "starting"
    /\ UNCHANGED <<keepAliveCount, completionAction, errorVars, showingProgress, progressEndMutex,
                   pending, retval, adding, unadded, current, todo, sloaded, progressVars, exitCode, failed>>

\* What stderr is does not change while the process runs.
StartProgress ==
    /\ Running /\ mpc = "starting"
    /\ showingProgress' \in Terminals /\ (sessions > 1 => UNCHANGED showingProgress)
    /\ IF showingProgress'
       THEN progressEndMutex = "free" /\ progressEndMutex' = "main" /\ ppc' = "loadState"
       ELSE UNCHANGED <<progressEndMutex, ppc>>
    /\ mpc' = "adding"
    /\ UNCHANGED <<state, keepAliveCount, completionAction, errorVars, pending, retval, adding,
                   unadded, sessions, submitVars, ploaded, exitCode, failed>>

\* addCopyJobPart, before start() or after it: the runner's constructor counts the runner
\* before it can be taken.
Add(r) ==
    /\ Running /\ mpc \in {"idle", "adding"} /\ r \in unadded
    /\ unadded' = unadded \ {r}
    /\ pending' = pending \cup {r}
    /\ keepAliveCount' = keepAliveCount + 1
    /\ UNCHANGED <<state, completionAction, errorVars, showingProgress, progressEndMutex, mpc,
                   retval, adding, sessions, submitVars, progressVars, exitCode, failed>>

\* What cannot be added, because it cannot be opened or inspected, is reported at once.
AddErrorSet(r) ==
    /\ Running /\ mpc \in {"idle", "adding"} /\ r \in unadded
    /\ unadded' = unadded \ {r} /\ failed' = failed \cup {r}
    /\ SetErrored
    /\ adding' = r /\ mpc' = IF mpc = "idle" THEN "idleMessage" ELSE "addMessage"
    /\ UNCHANGED <<state, keepAliveCount, completionAction, errorMessages, shown, showingProgress,
                   progressEndMutex, pending, retval, sessions, submitVars, progressVars, exitCode>>

AddErrorMessage ==
    /\ Running /\ mpc \in {"idleMessage", "addMessage"}
    /\ Message(adding)
    /\ adding' = NoRunner /\ mpc' = IF mpc = "idleMessage" THEN "idle" ELSE "adding"
    /\ UNCHANGED <<state, keepAliveCount, completionAction, errored, showingProgress,
                   progressEndMutex, pending, retval, unadded, sessions, submitVars, progressVars,
                   exitCode, failed>>

\* join(): the state changes before the completion action is set.
JoinState ==
    /\ Running /\ mpc = "adding"
    /\ state' = "AdditionComplete"
    /\ mpc' = "setAction"
    /\ UNCHANGED <<keepAliveCount, completionAction, errorVars, showingProgress, progressEndMutex,
                   pending, retval, adding, unadded, sessions, submitVars, progressVars, exitCode, failed>>

JoinAction ==
    /\ Running /\ mpc = "setAction"
    /\ completionAction' \in Actions
    /\ mpc' = "joinSubmit"
    /\ UNCHANGED <<state, keepAliveCount, errorVars, showingProgress, progressEndMutex, pending,
                   retval, adding, unadded, sessions, submitVars, progressVars, exitCode, failed>>

\* The submit thread has returned; unlocking the mutex wakes the progress thread.
JoinSubmit ==
    /\ Running /\ mpc = "joinSubmit" /\ spc = "exited"
    /\ spc' = "off"
    /\ progressEndMutex' = IF showingProgress THEN "free" ELSE progressEndMutex
    /\ mpc' = "joinProgress"
    /\ UNCHANGED <<state, keepAliveCount, completionAction, errorVars, showingProgress, pending,
                   retval, adding, unadded, sessions, current, todo, sloaded, progressVars, exitCode, failed>>

JoinReturn ==
    /\ Running /\ mpc = "joinProgress" /\ (showingProgress => ppc = "exited")
    /\ ppc' = "off"
    /\ state' = "Idle"
    /\ retval' = IF errored THEN "failed" ELSE "ok"
    /\ ResetErrored
    /\ mpc' = "returned"
    /\ UNCHANGED <<keepAliveCount, completionAction, errorMessages, shown, showingProgress,
                   progressEndMutex, pending, adding, unadded, sessions, submitVars, ploaded, exitCode, failed>>

\* wcpMain ends with the result of join().
ReturnFromMain ==
    /\ Running /\ mpc = "returned"
    /\ exitCode' = IF retval = "ok" THEN 0 ELSE 1
    /\ UNCHANGED <<state, keepAliveCount, completionAction, errorVars, showingProgress,
                   progressEndMutex, pending, mainVars, submitVars, progressVars, failed>>

\* join() leaves the queue Idle and its counters reset, so that it can be started again.
Reuse ==
    /\ Running /\ mpc = "returned" /\ sessions < MaxSessions
    /\ mpc' = "idle" /\ failed' = {}
    /\ UNCHANGED <<state, keepAliveCount, completionAction, errorVars, showingProgress,
                   progressEndMutex, pending, retval, adding, unadded, sessions, submitVars, progressVars,
                   exitCode>>

-----------------------------------------------------------------------------
(* The submit thread.                                                      *)

\* A runner comes to its end in one of the possible ways.
Retire(r, fate) ==
    /\ Running /\ spc = "loop" /\ todo = <<>> /\ r \in pending
    /\ pending' = pending \ {r}
    /\ current' = r
    /\ todo' = Retirement[fate]
    /\ failed' = IF fate = "ok" THEN failed ELSE failed \cup {r}
    /\ UNCHANGED <<state, keepAliveCount, completionAction, errorVars, showingProgress,
                   progressEndMutex, mainVars, spc, sloaded, progressVars, exitCode>>

\* The steps of a retirement: the destructor, and the two halves of onError().
DeleteRunner ==
    /\ Running /\ todo # <<>> /\ Head(todo) = "delete"
    /\ keepAliveCount' = keepAliveCount - 1
    /\ todo' = Tail(todo)
    /\ UNCHANGED <<state, completionAction, errorVars, showingProgress, progressEndMutex, pending,
                   mainVars, spc, current, sloaded, progressVars, exitCode, failed>>

OnErrorSet ==
    /\ Running /\ todo # <<>> /\ Head(todo) = "errored"
    /\ SetErrored
    /\ todo' = Tail(todo)
    /\ UNCHANGED <<state, keepAliveCount, completionAction, errorMessages, shown, showingProgress,
                   progressEndMutex, pending, mainVars, spc, current, sloaded, progressVars,
                   exitCode, failed>>

OnErrorMessage ==
    /\ Running /\ todo # <<>> /\ Head(todo) = "message"
    /\ Message(current)
    /\ todo' = Tail(todo)
    /\ UNCHANGED <<state, keepAliveCount, completionAction, errored, showingProgress,
                   progressEndMutex, pending, mainVars, spc, current, sloaded, progressVars,
                   exitCode, failed>>

\* isDone() loads the state, then, if it is AdditionComplete, the count.
CountLoadedFirst(i) == IF i = 2 THEN state = "AdditionComplete" ELSE keepAliveCount = 0 \* mutant
IsDoneLoad(i) == IF i = 1 THEN state = "AdditionComplete" ELSE keepAliveCount = 0

SubmitLoadFirst ==
    /\ Running /\ spc = "loop" /\ todo = <<>>
    /\ sloaded' = IsDoneLoad(1)
    /\ spc' = "isDone"
    /\ UNCHANGED <<state, keepAliveCount, completionAction, errorVars, showingProgress,
                   progressEndMutex, pending, mainVars, current, todo, progressVars, exitCode, failed>>

SubmitLoadSecond ==
    /\ Running /\ spc = "isDone"
    /\ spc' = IF sloaded /\ IsDoneLoad(2) THEN "done" ELSE "loop"
    /\ sloaded' = FALSE
    /\ UNCHANGED <<state, keepAliveCount, completionAction, errorVars, showingProgress,
                   progressEndMutex, pending, mainVars, current, todo, progressVars, exitCode, failed>>

\* exitProcess(): _exit with the value of errored, before any other thread moves again.
SubmitEnd ==
    /\ Running /\ spc = "done"
    /\ IF completionAction = "Exit" /\ ~showingProgress
       THEN exitCode' = (IF errored THEN 1 ELSE 0) /\ UNCHANGED spc
       ELSE spc' = "exited" /\ UNCHANGED exitCode
    /\ UNCHANGED <<state, keepAliveCount, completionAction, errorVars, showingProgress,
                   progressEndMutex, pending, mainVars, current, todo, sloaded, progressVars, failed>>

-----------------------------------------------------------------------------
(* The progress thread.                                                    *)

ProgressLoadFirst ==
    /\ Running /\ ppc = "loadState"
    /\ ploaded' = IsDoneLoad(1)
    /\ ppc' = "isDone"
    /\ UNCHANGED <<state, keepAliveCount, completionAction, errorVars, showingProgress,
                   progressEndMutex, pending, mainVars, submitVars, exitCode, failed>>

ProgressLoadSecond ==
    /\ Running /\ ppc = "isDone"
    /\ ppc' = IF ploaded /\ IsDoneLoad(2) THEN "final" ELSE "show"
    /\ ploaded' = FALSE
    /\ UNCHANGED <<state, keepAliveCount, completionAction, errorVars, showingProgress,
                   progressEndMutex, pending, mainVars, submitVars, exitCode, failed>>

DropMessages == errorMessages' = {} /\ UNCHANGED shown      \* mutant

\* showProgress swaps the messages out under their mutex and prints them.
ShowMessages ==
    /\ shown' = shown \cup errorMessages
    /\ errorMessages' = {}

ShowProgress ==
    /\ Running /\ ppc = "show"
    /\ ShowMessages
    /\ ppc' = "wait"
    /\ UNCHANGED <<state, keepAliveCount, completionAction, errored, showingProgress,
                   progressEndMutex, pending, mainVars, submitVars, ploaded, exitCode, failed>>

\* pthread_mutex_timedlock returns ETIMEDOUT: another round.
WaitTimeout ==
    /\ Running /\ ppc = "wait" /\ progressEndMutex # "free"
    /\ ppc' = "loadState"
    /\ UNCHANGED <<state, keepAliveCount, completionAction, errorVars, showingProgress,
                   progressEndMutex, pending, mainVars, submitVars, ploaded, exitCode, failed>>

\* It returns 0: the mutex is unlocked again and the loop left.
WaitLocked ==
    /\ Running /\ ppc = "wait" /\ progressEndMutex = "free"
    /\ ppc' = "final"
    /\ UNCHANGED <<state, keepAliveCount, completionAction, errorVars, showingProgress,
                   progressEndMutex, pending, mainVars, submitVars, ploaded, exitCode, failed>>

FinalShow ==
    /\ Running /\ ppc = "final"
    /\ ShowMessages
    /\ ppc' = "end"
    /\ UNCHANGED <<state, keepAliveCount, completionAction, errored, showingProgress,
                   progressEndMutex, pending, mainVars, submitVars, ploaded, exitCode, failed>>

ProgressEnd ==
    /\ Running /\ ppc = "end"
    /\ IF completionAction = "Exit"
       THEN exitCode' = (IF errored THEN 1 ELSE 0) /\ UNCHANGED ppc
       ELSE ppc' = "exited" /\ UNCHANGED exitCode
    /\ UNCHANGED <<state, keepAliveCount, completionAction, errorVars, showingProgress,
                   progressEndMutex, pending, mainVars, submitVars, ploaded, failed>>

Ended == ~Running /\ UNCHANGED vars

MainStep == AddErrorMessage \/ JoinAction \/ JoinSubmit \/ JoinReturn \/ StartProgress
RetireStep ==
    \/ \E r \in Runners, fate \in Fates : Retire(r, fate)
    \/ DeleteRunner \/ OnErrorSet \/ OnErrorMessage
DoneStep == SubmitLoadFirst \/ SubmitLoadSecond \/ SubmitEnd
ProgressStep ==
    \/ ProgressLoadFirst \/ ProgressLoadSecond \/ ShowProgress
    \/ WaitTimeout \/ WaitLocked \/ FinalShow \/ ProgressEnd

Next ==
    \/ Start \/ MainStep \/ JoinState \/ ReturnFromMain \/ Reuse
    \/ \E r \in Runners : Add(r) \/ AddErrorSet(r)
    \/ RetireStep \/ DoneStep \/ ProgressStep
    \/ Ended

\* All three threads keep running.  The submit loop alternates between retiring runners
\* and asking isDone(), so each half gets its turn again and again.
Fairness ==
    /\ WF_vars(MainStep) /\ WF_vars(ProgressStep)
    /\ SF_vars(RetireStep) /\ WF_vars(DoneStep)

Spec == Init /\ [][Next]_vars
FairSpec == Spec /\ Fairness

-----------------------------------------------------------------------------
(* Properties.                                                             *)

\* Every variable has its type.
TypeOK ==
    /\ state \in {"Idle", "Running", "AdditionComplete"}
    /\ keepAliveCount \in 0..Cardinality(Runners)
    /\ completionAction \in {"Return", "Exit"} /\ errored \in BOOLEAN /\ showingProgress \in BOOLEAN
    /\ errorMessages \subseteq Runners /\ shown \subseteq Runners /\ failed \subseteq Runners
    /\ progressEndMutex \in {"free", "main"}
    /\ pending \subseteq Runners /\ unadded \subseteq Runners
    /\ mpc \in {"idle", "idleMessage", "starting", "adding", "addMessage", "setAction",
                "joinSubmit", "joinProgress", "returned"}
    /\ adding \in Runners \cup {NoRunner}
    /\ retval \in {"no", "ok", "failed"}
    /\ spc \in {"off", "loop", "isDone", "done", "exited"}
    /\ current \in Runners \cup {NoRunner} /\ sloaded \in BOOLEAN
    /\ todo \in Seq({"delete", "errored", "message"})
    /\ ppc \in {"off", "loadState", "isDone", "show", "wait", "final", "end", "exited"}
    /\ ploaded \in BOOLEAN
    /\ exitCode \in {-1, 0, 1} /\ sessions \in 0..MaxSessions

\* The queue is done with everything that was added and has no session running.
Over == ~Running \/ mpc = "returned"

\* No thread ends the session or the process while a runner waits or is being retired.
NothingLost == Over => pending = {} /\ keepAliveCount = 0

\* The exit code of the process, and the result of join(), say whether anything failed:
\* whichever thread calls _exit, it does so after every error has been recorded.
ExitHonest ==
    /\ exitCode # -1 => (exitCode = 0 <=> failed = {})
    /\ mpc = "returned" => (retval = "ok" <=> failed = {})

\* Every error message has been shown when the session is over, although the progress
\* thread prints the last ones after it has found out on its own that it may stop.
AllErrorsShown == Over => failed \subseteq shown

\* After join() was called the process ends or join() returns.
SessionEnds == (mpc = "setAction") ~> Over
=============================================================================
