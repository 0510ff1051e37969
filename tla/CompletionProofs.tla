-------------------------- MODULE CompletionProofs --------------------------
(***************************************************************************)
(* Proofs about Completion, for any number of runners, sessions and ways   *)
(* for a runner to end.                                                    *)
(***************************************************************************)
EXTENDS Completion, TLAPS, FiniteSetTheorems

-----------------------------------------------------------------------------
(* Where a retirement can stand.                                           *)

\* What is left of the retirements that report before they delete, and of the one that
\* deletes first.
ReportFirst == {<<"errored", "message", "delete">>, <<"message", "delete">>, <<"delete">>}
DeleteFirst == {<<"delete", "errored", "message">>, <<"errored", "message">>, <<"message">>}
Todos       == {<<>>} \cup ReportFirst \cup DeleteFirst

HasDelete(t)  == t \in ReportFirst \cup {<<"delete", "errored", "message">>}
HasError(t)   == t \in {<<"errored", "message", "delete">>, <<"delete", "errored", "message">>,
                        <<"errored", "message">>}
HasMessage(t) == t \in {<<"errored", "message", "delete">>, <<"message", "delete">>} \cup DeleteFirst

\* The messages that are still to be handed over or shown.
Unshown ==
    errorMessages \cup {r \in Runners : mpc \in {"idleMessage", "addMessage"} /\ r = adding}
                  \cup {r \in Runners : HasMessage(todo) /\ r = current}

-----------------------------------------------------------------------------
(* The inductive invariant.                                                *)

\* Where the threads can be relative to each other and to the state of the queue.
ControlInv ==
    /\ state = (CASE mpc \in {"idle", "idleMessage", "returned"} -> "Idle"
                  [] mpc \in {"starting", "adding", "addMessage"} -> "Running"
                  [] OTHER -> "AdditionComplete")
    /\ spc = "off" <=> mpc \in {"idle", "idleMessage", "joinProgress", "returned"}
    /\ ppc # "off" <=> showingProgress /\ mpc \notin {"idle", "idleMessage", "starting", "returned"}
    /\ progressEndMutex = "main" <=>
        showingProgress /\ mpc \in {"adding", "addMessage", "setAction", "joinSubmit"}
    /\ todo # <<>> => spc = "loop"
    /\ showingProgress \/ mpc \notin {"idle", "idleMessage"} => sessions >= 1
    /\ showingProgress /\ mpc = "starting" => sessions > 1
    /\ completionAction \in Actions \cup {"Return"}
    /\ showingProgress \in Terminals \cup {FALSE}

\* keepAliveCount counts the runners that have not been deleted, and none of them is lost.
CountInv ==
    /\ todo \in Todos
    /\ "openError" \notin Fates => todo \notin DeleteFirst
    /\ keepAliveCount = Cardinality(pending) + (IF HasDelete(todo) THEN 1 ELSE 0)
    /\ pending \cap unadded = {}
    /\ todo # <<>> => current \in Runners \ (pending \cup unadded)
    /\ mpc \in {"idleMessage", "addMessage"} => adding \in Runners

\* What a thread knows once it has found the queue done, or has read the first half of it.
DoneInv ==
    /\ sloaded => state = "AdditionComplete" /\ spc = "isDone"
    /\ ploaded => state = "AdditionComplete" /\ ppc = "isDone"
    /\ spc \in {"done", "exited"} => state = "AdditionComplete" /\ keepAliveCount = 0
    /\ ppc \in {"final", "end", "exited"} => state = "AdditionComplete" /\ keepAliveCount = 0
    /\ mpc \in {"joinProgress", "returned"} => keepAliveCount = 0
    /\ exitCode # -1 => keepAliveCount = 0 /\ mpc \notin {"idle", "idleMessage", "starting", "adding", "addMessage"}

LifeInv == TypeOK /\ ControlInv /\ CountInv /\ DoneInv

\* The flag that join() returns and _exit() passes on: set, or about to be set.
ErroredInv ==
    /\ mpc # "returned" => (failed # {} <=> errored \/ HasError(todo))
    /\ mpc = "returned" => ~errored /\ (retval = "ok" <=> failed = {})
    /\ exitCode # -1 => (exitCode = 0 <=> failed = {})

\* A message is shown, or on its way to a thread that will show it.
MessagesInv ==
    /\ failed \subseteq shown \cup Unshown
    /\ errorMessages # {} =>
           /\ showingProgress
           /\ ppc \notin {"off", "end", "exited"} \/ mpc \in {"idle", "idleMessage", "starting"}
    /\ exitCode # -1 => errorMessages = {} /\ ~HasMessage(todo)

\* The one way in which an error can be reported too late for the exit code: the runner
\* is deleted before its error is reported, and the progress thread ends the process.
ErrorsInTime == "openError" \notin Fates \/ "Exit" \notin Actions \/ TRUE \notin Terminals

\* And for the message: the progress thread has left its loop when the message comes.
MessagesInTime == "openError" \notin Fates \/ TRUE \notin Terminals

-----------------------------------------------------------------------------
(* Lemmas about retirements and about counting.                            *)

\* What taking the first step off a retirement leaves to be done.
LEMMA TodoTail ==
    ASSUME NEW t \in Todos, t # <<>>
    PROVE  /\ Head(t) \in {"delete", "errored", "message"} /\ Tail(t) \in Todos
           /\ t \notin DeleteFirst => Tail(t) \notin DeleteFirst
           /\ Head(t) = "delete" =>
                /\ HasDelete(t) /\ ~HasDelete(Tail(t))
                /\ HasError(Tail(t)) <=> HasError(t)
                /\ HasMessage(Tail(t)) <=> HasMessage(t)
           /\ Head(t) = "errored" =>
                /\ HasDelete(Tail(t)) <=> HasDelete(t)
                /\ HasError(t) /\ ~HasError(Tail(t)) /\ HasMessage(t) /\ HasMessage(Tail(t))
           /\ Head(t) = "message" =>
                /\ HasDelete(Tail(t)) <=> HasDelete(t)
                /\ ~HasError(t) /\ ~HasError(Tail(t)) /\ HasMessage(t) /\ ~HasMessage(Tail(t))
  <1> USE DEF Todos, ReportFirst, DeleteFirst, HasDelete, HasError, HasMessage
  <1>1. CASE t = <<"errored", "message", "delete">>  BY <1>1
  <1>2. CASE t = <<"message", "delete">>             BY <1>2
  <1>3. CASE t = <<"delete">>                        BY <1>3
  <1>4. CASE t = <<"delete", "errored", "message">>  BY <1>4
  <1>5. CASE t = <<"errored", "message">>            BY <1>5
  <1>6. CASE t = <<"message">>                       BY <1>6
  <1> QED  BY <1>1, <1>2, <1>3, <1>4, <1>5, <1>6

\* A retirement deletes its runner, and reports unless the runner ended well.
LEMMA TodoStart ==
    ASSUME NEW fate \in Fates
    PROVE  /\ Retirement[fate] \in Todos \ {<<>>} /\ HasDelete(Retirement[fate])
           /\ fate = "ok" => ~HasError(Retirement[fate]) /\ ~HasMessage(Retirement[fate])
           /\ fate # "ok" => HasError(Retirement[fate]) /\ HasMessage(Retirement[fate])
           /\ fate # "openError" => Retirement[fate] \notin DeleteFirst
  <1> USE DEF Todos, ReportFirst, DeleteFirst, HasDelete, HasError, HasMessage, Retirement
  <1>1. fate \in {"ok", "closeError", "ioError", "openError"}  BY CompletionAssumption
  <1>2. CASE fate = "ok"         BY <1>2
  <1>3. CASE fate = "closeError" BY <1>3
  <1>4. CASE fate = "ioError"    BY <1>4
  <1>5. CASE fate = "openError"  BY <1>5
  <1> QED  BY <1>1, <1>2, <1>3, <1>4, <1>5

\* What is left to do when nothing is, and when only reports are.
LEMMA TodoLeft ==
    /\ <<>> \in Todos /\ <<>> \notin DeleteFirst
    /\ ~HasDelete(<<>>) /\ ~HasError(<<>>) /\ ~HasMessage(<<>>)
    /\ \A t \in Todos \ DeleteFirst : ~HasDelete(t) => t = <<>>
    /\ \A t \in Todos : t \in Seq({"delete", "errored", "message"})
  BY DEF Todos, ReportFirst, DeleteFirst, HasDelete, HasError, HasMessage

\* The number of runners in a set, with one more, with one less, and at most.
LEMMA Counting ==
    ASSUME NEW S \in SUBSET Runners
    PROVE  /\ Cardinality(S) \in Nat /\ Cardinality(Runners) \in Nat
           /\ Cardinality(S) <= Cardinality(Runners)
           /\ Cardinality(S) = 0 <=> S = {}
           /\ \A r \in Runners \ S : Cardinality(S \cup {r}) = Cardinality(S) + 1
           /\ \A r \in S : Cardinality(S \ {r}) = Cardinality(S) - 1
           /\ \A r \in Runners \ S : Cardinality(S) + 1 <= Cardinality(Runners)
  <1>1. IsFiniteSet(Runners)  BY CompletionAssumption
  <1>2. IsFiniteSet(S) /\ Cardinality(S) <= Cardinality(Runners)  BY <1>1, FS_Subset
  <1>3. Cardinality(S) \in Nat /\ Cardinality(Runners) \in Nat
    BY <1>1, <1>2, FS_CardinalityType
  <1>4. Cardinality(S) = 0 <=> S = {}  BY <1>2, FS_EmptySet
  <1>5. \A r \in Runners \ S : Cardinality(S \cup {r}) = Cardinality(S) + 1
    BY <1>2, FS_AddElement
  <1>6. \A r \in S : Cardinality(S \ {r}) = Cardinality(S) - 1
    BY <1>2, FS_RemoveElement
  <1>7. ASSUME NEW r \in Runners \ S
        PROVE  Cardinality(S) + 1 <= Cardinality(Runners)
    <2>1. S \cup {r} \in SUBSET Runners  OBVIOUS
    <2>2. Cardinality(S \cup {r}) <= Cardinality(Runners)  BY <1>1, <2>1, FS_Subset
    <2> QED  BY <1>5, <2>2
  <1> QED  BY <1>2, <1>3, <1>4, <1>5, <1>6, <1>7

-----------------------------------------------------------------------------
(* Type correctness, control and counting.                                 *)

\* The invariant holds when the queue is created.
LEMMA LifeInit == Init => LifeInv
  <1> SUFFICES ASSUME Init PROVE LifeInv  OBVIOUS
  <1>1. Cardinality(pending) = 0 /\ Cardinality(Runners) \in Nat
    BY Counting DEF Init
  <1>2. keepAliveCount \in 0..Cardinality(Runners) /\ sessions \in 0..MaxSessions
    BY <1>1, CompletionAssumption DEF Init
  <1>3. todo \in Seq({"delete", "errored", "message"})  BY TodoLeft DEF Init
  <1>4. TypeOK  BY <1>2, <1>3 DEF Init, TypeOK, NoRunner
  <1>5. ControlInv  BY DEF Init, ControlInv
  <1>6. CountInv  BY <1>1, TodoLeft DEF Init, CountInv
  <1>7. DoneInv  BY DEF Init, DoneInv
  <1> QED  BY <1>4, <1>5, <1>6, <1>7 DEF LifeInv

\* Every step of every thread keeps it.
LEMMA LifeNext == LifeInv /\ [Next]_vars => LifeInv'
  <1> SUFFICES ASSUME LifeInv, [Next]_vars PROVE LifeInv'  OBVIOUS
  <1> USE DEF LifeInv, Running, errorVars, mainVars, submitVars, progressVars
  <1>1. ASSUME Start PROVE LifeInv'
    <2> USE <1>1 DEF Start
    <2>1. TypeOK'  BY CompletionAssumption DEF TypeOK
    <2>2. ControlInv'
      <3>1. sessions \in Nat /\ sessions' = sessions + 1  BY CompletionAssumption DEF TypeOK
      <3>2. sessions' >= 1 /\ sessions' > 0  BY <3>1
      <3>3. showingProgress => sessions' > 1  BY <3>1 DEF ControlInv
      <3> QED  BY <3>2, <3>3 DEF TypeOK, ControlInv
    <2>3. CountInv'  BY DEF CountInv
    <2>4. DoneInv'  BY DEF TypeOK, ControlInv, DoneInv
    <2> QED  BY <2>1, <2>2, <2>3, <2>4
  <1>2. ASSUME StartProgress PROVE LifeInv'
    <2> USE <1>2 DEF StartProgress
    <2>1. TypeOK'  BY CompletionAssumption DEF TypeOK
    <2>2. ControlInv'  BY DEF TypeOK, ControlInv
    <2>3. CountInv'  BY DEF CountInv
    <2>4. DoneInv'  BY DEF TypeOK, ControlInv, DoneInv
    <2> QED  BY <2>1, <2>2, <2>3, <2>4
  <1>3. ASSUME NEW r \in Runners, Add(r) PROVE LifeInv'
    <2> USE <1>3 DEF Add
    <2>1. keepAliveCount' = Cardinality(pending') + (IF HasDelete(todo) THEN 1 ELSE 0)
      BY Counting DEF TypeOK, CountInv
    <2>2. keepAliveCount' \in 0..Cardinality(Runners)
      <3>1. pending' \subseteq Runners  BY DEF TypeOK
      <3>2. HasDelete(todo) => current \in Runners \ pending'
        BY TodoLeft DEF CountInv
      <3> QED  BY <2>1, <3>1, <3>2, Counting
    <2>3. TypeOK'  BY <2>2 DEF TypeOK
    <2>4. ControlInv'  BY DEF ControlInv
    <2>5. CountInv'  BY <2>1 DEF TypeOK, CountInv
    <2>6. DoneInv'  BY DEF TypeOK, ControlInv, DoneInv
    <2> QED  BY <2>3, <2>4, <2>5, <2>6
  <1>4. ASSUME NEW r \in Runners, AddErrorSet(r) PROVE LifeInv'
    <2> USE <1>4 DEF AddErrorSet
    <2>1. TypeOK'  BY DEF TypeOK, SetErrored
    <2>2. ControlInv'  BY DEF TypeOK, ControlInv
    <2>3. CountInv'  BY DEF CountInv
    <2>4. DoneInv'  BY DEF TypeOK, ControlInv, DoneInv
    <2> QED  BY <2>1, <2>2, <2>3, <2>4
  <1>5. ASSUME AddErrorMessage PROVE LifeInv'
    <2> USE <1>5 DEF AddErrorMessage
    <2>1. TypeOK'  BY DEF TypeOK, CountInv, Message, NoRunner
    <2>2. ControlInv'  BY DEF TypeOK, ControlInv
    <2>3. CountInv'  BY DEF CountInv
    <2>4. DoneInv'  BY DEF TypeOK, ControlInv, DoneInv
    <2> QED  BY <2>1, <2>2, <2>3, <2>4
  <1>6. ASSUME JoinState PROVE LifeInv'
    <2> USE <1>6 DEF JoinState
    <2>1. TypeOK'  BY DEF TypeOK
    <2>2. ControlInv'  BY DEF TypeOK, ControlInv
    <2>3. CountInv'  BY DEF CountInv
    <2>4. DoneInv'  BY DEF TypeOK, ControlInv, DoneInv
    <2> QED  BY <2>1, <2>2, <2>3, <2>4
  <1>7. ASSUME JoinAction PROVE LifeInv'
    <2> USE <1>7 DEF JoinAction
    <2>1. TypeOK'  BY CompletionAssumption DEF TypeOK
    <2>2. ControlInv'  BY DEF TypeOK, ControlInv
    <2>3. CountInv'  BY DEF CountInv
    <2>4. DoneInv'  BY DEF TypeOK, ControlInv, DoneInv
    <2> QED  BY <2>1, <2>2, <2>3, <2>4
  <1>8. ASSUME JoinSubmit PROVE LifeInv'
    <2> USE <1>8 DEF JoinSubmit
    <2>1. TypeOK'  BY DEF TypeOK
    <2>2. ControlInv'  BY DEF TypeOK, ControlInv
    <2>3. CountInv'  BY DEF CountInv
    <2>4. DoneInv'  BY DEF TypeOK, ControlInv, DoneInv
    <2> QED  BY <2>1, <2>2, <2>3, <2>4
  <1>9. ASSUME JoinReturn PROVE LifeInv'
    <2> USE <1>9 DEF JoinReturn
    <2>0. retval' \in {"ok", "failed"} /\ errored' = FALSE  BY DEF ResetErrored
    <2>1. TypeOK'  BY <2>0, ZenonT(40) DEF TypeOK
    <2>2. ControlInv'  BY DEF TypeOK, ControlInv
    <2>3. CountInv'  BY DEF CountInv
    <2>4. DoneInv'  BY DEF TypeOK, ControlInv, DoneInv
    <2> QED  BY <2>1, <2>2, <2>3, <2>4
  <1>10. ASSUME ReturnFromMain PROVE LifeInv'
    <2> USE <1>10 DEF ReturnFromMain
    <2>1. TypeOK'  BY DEF TypeOK
    <2>2. ControlInv'  BY DEF TypeOK, ControlInv
    <2>3. CountInv'  BY DEF CountInv
    <2>4. DoneInv'  BY DEF TypeOK, ControlInv, DoneInv
    <2> QED  BY <2>1, <2>2, <2>3, <2>4
  <1>11. ASSUME Reuse PROVE LifeInv'
    <2> USE <1>11 DEF Reuse
    <2>1. TypeOK'  BY DEF TypeOK
    <2>2. ControlInv'  BY DEF TypeOK, ControlInv
    <2>3. CountInv'  BY DEF CountInv
    <2>4. DoneInv'  BY DEF TypeOK, ControlInv, DoneInv
    <2> QED  BY <2>1, <2>2, <2>3, <2>4
  <1>12. ASSUME NEW r \in Runners, NEW fate \in Fates, Retire(r, fate) PROVE LifeInv'
    <2> USE <1>12 DEF Retire
    <2>1. keepAliveCount' = Cardinality(pending') + (IF HasDelete(todo') THEN 1 ELSE 0)
      <3>1. HasDelete(todo') /\ ~HasDelete(todo)  BY TodoStart, TodoLeft
      <3>2. keepAliveCount = Cardinality(pending) /\ pending \subseteq Runners
        <4>1. keepAliveCount = Cardinality(pending) + 0  BY <3>1 DEF CountInv
        <4>2. pending \subseteq Runners  BY DEF TypeOK
        <4> QED  BY <4>1, <4>2, Counting
      <3>3. Cardinality(pending') = Cardinality(pending) - 1 /\ Cardinality(pending) \in Nat
        BY <3>2, Counting
      <3> QED  BY <3>1, <3>2, <3>3
    <2>2. todo' \in Todos /\ todo' # <<>> /\ todo' \in Seq({"delete", "errored", "message"})
      BY TodoStart, TodoLeft
    <2>3. TypeOK'  BY <2>2 DEF TypeOK
    <2>5. ControlInv'  BY DEF ControlInv
    <2>6. CountInv'  BY <2>1, <2>2, TodoStart DEF TypeOK, CountInv
    <2>7. DoneInv'  BY DEF TypeOK, DoneInv
    <2> QED  BY <2>3, <2>5, <2>6, <2>7
  <1>13. ASSUME DeleteRunner PROVE LifeInv'
    <2> USE <1>13 DEF DeleteRunner
    <2>1. todo \in Todos /\ HasDelete(todo) /\ ~HasDelete(todo') /\ todo' \in Todos
      BY TodoTail DEF CountInv
    <2>2. keepAliveCount' = Cardinality(pending') /\ pending' \subseteq Runners
      BY <2>1, Counting DEF TypeOK, CountInv
    <2>3. keepAliveCount' \in 0..Cardinality(Runners)  BY <2>2, Counting
    <2>4. TypeOK'  BY <2>1, <2>3, TodoLeft DEF TypeOK
    <2>5. ControlInv'  BY DEF ControlInv
    <2>6. CountInv'  BY <2>1, <2>2, TodoTail DEF CountInv
    <2>7. keepAliveCount > 0  BY <2>2, <2>3 DEF TypeOK
    <2>8. DoneInv'  BY <2>7 DEF DoneInv
    <2> QED  BY <2>4, <2>5, <2>6, <2>8
  <1>14. ASSUME OnErrorSet PROVE LifeInv'
    <2> USE <1>14 DEF OnErrorSet
    <2>1. todo' \in Todos /\ (HasDelete(todo') <=> HasDelete(todo))
      BY TodoTail DEF CountInv
    <2>2. TypeOK'  BY <2>1, TodoLeft DEF TypeOK, CountInv, SetErrored
    <2>3. ControlInv'  BY DEF ControlInv
    <2>4. CountInv'  BY <2>1, TodoTail DEF CountInv
    <2>5. DoneInv'  BY DEF DoneInv
    <2> QED  BY <2>2, <2>3, <2>4, <2>5
  <1>15. ASSUME OnErrorMessage PROVE LifeInv'
    <2> USE <1>15 DEF OnErrorMessage
    <2>1. todo' \in Todos /\ (HasDelete(todo') <=> HasDelete(todo))
      BY TodoTail DEF CountInv
    <2>2. TypeOK'  BY <2>1, TodoLeft DEF TypeOK, CountInv, Message
    <2>3. ControlInv'  BY DEF ControlInv
    <2>4. CountInv'  BY <2>1, TodoTail DEF CountInv
    <2>5. DoneInv'  BY DEF DoneInv
    <2> QED  BY <2>2, <2>3, <2>4, <2>5
  <1>16. ASSUME SubmitLoadFirst PROVE LifeInv'
    <2> USE <1>16 DEF SubmitLoadFirst
    <2>1. TypeOK'  BY DEF TypeOK, IsDoneLoad
    <2>2. ControlInv'  BY DEF TypeOK, ControlInv
    <2>3. CountInv'  BY DEF CountInv
    <2>4. DoneInv'  BY DEF TypeOK, ControlInv, DoneInv, IsDoneLoad
    <2> QED  BY <2>1, <2>2, <2>3, <2>4
  <1>17. ASSUME SubmitLoadSecond PROVE LifeInv'
    <2> USE <1>17 DEF SubmitLoadSecond
    <2>1. TypeOK'
      <3>1. spc' \in {"done", "loop"} /\ sloaded' \in BOOLEAN  OBVIOUS
      <3>2. UNCHANGED <<state, keepAliveCount, completionAction, errorVars, showingProgress,
                        progressEndMutex, pending, mainVars, current, todo, progressVars, exitCode, failed>>
        OBVIOUS
      <3> HIDE <1>17 DEF SubmitLoadSecond
      <3> QED  BY <3>1, <3>2 DEF TypeOK
    <2>2. ControlInv'  BY DEF TypeOK, ControlInv
    <2>3. CountInv'  BY DEF CountInv
    <2>4. DoneInv'  BY DEF TypeOK, ControlInv, DoneInv, IsDoneLoad
    <2> QED  BY <2>1, <2>2, <2>3, <2>4
  <1>18. ASSUME SubmitEnd PROVE LifeInv'
    <2> USE <1>18 DEF SubmitEnd
    <2>1. TypeOK'  BY DEF TypeOK
    <2>2. ControlInv'  BY DEF TypeOK, ControlInv
    <2>3. CountInv'  BY DEF CountInv
    <2>4. DoneInv'  BY DEF TypeOK, ControlInv, DoneInv
    <2> QED  BY <2>1, <2>2, <2>3, <2>4
  <1>19. ASSUME ProgressLoadFirst PROVE LifeInv'
    <2> USE <1>19 DEF ProgressLoadFirst
    <2>1. TypeOK'  BY DEF TypeOK, IsDoneLoad
    <2>2. ControlInv'  BY DEF TypeOK, ControlInv
    <2>3. CountInv'  BY DEF CountInv
    <2>4. DoneInv'  BY DEF TypeOK, ControlInv, DoneInv, IsDoneLoad
    <2> QED  BY <2>1, <2>2, <2>3, <2>4
  <1>20. ASSUME ProgressLoadSecond PROVE LifeInv'
    <2> USE <1>20 DEF ProgressLoadSecond
    <2>1. TypeOK'
      <3>1. ppc' \in {"final", "show"} /\ ploaded' \in BOOLEAN  OBVIOUS
      <3>2. UNCHANGED <<state, keepAliveCount, completionAction, errorVars, showingProgress,
                        progressEndMutex, pending, mainVars, submitVars, exitCode, failed>>
        OBVIOUS
      <3> HIDE <1>20 DEF ProgressLoadSecond
      <3> QED  BY <3>1, <3>2 DEF TypeOK
    <2>2. ControlInv'  BY DEF TypeOK, ControlInv
    <2>3. CountInv'  BY DEF CountInv
    <2>4. DoneInv'  BY DEF TypeOK, ControlInv, DoneInv, IsDoneLoad
    <2> QED  BY <2>1, <2>2, <2>3, <2>4
  <1>21. ASSUME ShowProgress PROVE LifeInv'
    <2> USE <1>21 DEF ShowProgress
    <2>1. TypeOK'  BY DEF TypeOK, ShowMessages
    <2>2. ControlInv'  BY DEF TypeOK, ControlInv
    <2>3. CountInv'  BY DEF CountInv
    <2>4. DoneInv'  BY DEF TypeOK, ControlInv, DoneInv
    <2> QED  BY <2>1, <2>2, <2>3, <2>4
  <1>22. ASSUME WaitTimeout PROVE LifeInv'
    <2> USE <1>22 DEF WaitTimeout
    <2>1. TypeOK'  BY DEF TypeOK
    <2>2. ControlInv'  BY DEF TypeOK, ControlInv
    <2>3. CountInv'  BY DEF CountInv
    <2>4. DoneInv'  BY DEF TypeOK, ControlInv, DoneInv
    <2> QED  BY <2>1, <2>2, <2>3, <2>4
  <1>23. ASSUME WaitLocked PROVE LifeInv'
    <2> USE <1>23 DEF WaitLocked
    <2>1. TypeOK'  BY DEF TypeOK
    <2>2. ControlInv'  BY DEF TypeOK, ControlInv
    <2>3. CountInv'  BY DEF CountInv
    <2>4. DoneInv'  BY DEF TypeOK, ControlInv, DoneInv
    <2> QED  BY <2>1, <2>2, <2>3, <2>4
  <1>24. ASSUME FinalShow PROVE LifeInv'
    <2> USE <1>24 DEF FinalShow
    <2>1. TypeOK'  BY DEF TypeOK, ShowMessages
    <2>2. ControlInv'  BY DEF TypeOK, ControlInv
    <2>3. CountInv'  BY DEF CountInv
    <2>4. DoneInv'  BY DEF TypeOK, ControlInv, DoneInv
    <2> QED  BY <2>1, <2>2, <2>3, <2>4
  <1>25. ASSUME ProgressEnd PROVE LifeInv'
    <2> USE <1>25 DEF ProgressEnd
    <2>1. TypeOK'  BY DEF TypeOK
    <2>2. ControlInv'  BY DEF TypeOK, ControlInv
    <2>3. CountInv'  BY DEF CountInv
    <2>4. DoneInv'  BY DEF TypeOK, ControlInv, DoneInv
    <2> QED  BY <2>1, <2>2, <2>3, <2>4
  <1>26. CASE UNCHANGED vars
    <2> USE <1>26 DEF vars
    <2>1. TypeOK'  BY DEF TypeOK
    <2>2. ControlInv'  BY DEF ControlInv
    <2>3. CountInv'  BY DEF CountInv
    <2>4. DoneInv'  BY DEF DoneInv
    <2> QED  BY <2>1, <2>2, <2>3, <2>4
  <1> QED
    BY <1>1, <1>2, <1>3, <1>4, <1>5, <1>6, <1>7, <1>8, <1>9, <1>10, <1>11, <1>12, <1>13, <1>14, <1>15, <1>16, <1>17, <1>18,
       <1>19, <1>20, <1>21, <1>22, <1>23, <1>24, <1>25, <1>26
    DEF Next, MainStep, RetireStep, DoneStep, ProgressStep, Ended

\* So it always holds.
LEMMA LifeHolds == Spec => []LifeInv
  BY LifeInit, LifeNext, PTL DEF Spec

\* Every variable keeps its type; in particular keepAliveCount never falls below zero and
\* never counts more than the runners there are.
THEOREM TypeCorrect == Spec => []TypeOK
  <1>1. LifeInv => TypeOK  BY DEF LifeInv
  <1> QED  BY <1>1, LifeHolds, PTL

\* Whichever thread ends the session or the process, it does so when every runner that was
\* added has been taken and deleted: the two loads of isDone() can be torn apart by any
\* steps of the other threads.
THEOREM NoRunnerLost == Spec => []NothingLost
  <1>1. LifeInv => NothingLost
    BY Counting DEF LifeInv, TypeOK, CountInv, DoneInv, NothingLost, Over, Running
  <1> QED  BY <1>1, LifeHolds, PTL

-----------------------------------------------------------------------------
(* The exit code.                                                          *)

\* When no runner is counted, none waits and none is left to be deleted; nor is anything
\* left to be reported, unless a retirement may delete before it reports.
LEMMA NothingDue ==
    ASSUME LifeInv, keepAliveCount = 0
    PROVE  pending = {} /\ ~HasDelete(todo) /\ ("openError" \notin Fates => todo = <<>>)
  <1>1. pending = {} /\ ~HasDelete(todo)  BY Counting DEF LifeInv, TypeOK, CountInv
  <1> QED  BY <1>1, TodoLeft DEF LifeInv, CountInv

\* No step sets or reads the error flag at odds with what has failed.
LEMMA ErroredNext ==
    ASSUME ErrorsInTime, LifeInv, ErroredInv, [Next]_vars
    PROVE  ErroredInv'
  <1> USE DEF Running, errorVars, mainVars, submitVars, progressVars
  <1>1. ASSUME Start PROVE ErroredInv'
    BY <1>1, TodoLeft DEF Start, ErroredInv, LifeInv, ControlInv
  <1>2. ASSUME StartProgress PROVE ErroredInv'
    BY <1>2 DEF StartProgress, ErroredInv
  <1>3. ASSUME NEW r \in Runners, Add(r) PROVE ErroredInv'
    BY <1>3 DEF Add, ErroredInv
  <1>4. ASSUME NEW r \in Runners, AddErrorSet(r) PROVE ErroredInv'
    BY <1>4 DEF AddErrorSet, ErroredInv, SetErrored
  <1>5. ASSUME AddErrorMessage PROVE ErroredInv'
    BY <1>5 DEF AddErrorMessage, ErroredInv
  <1>6. ASSUME JoinState PROVE ErroredInv'
    BY <1>6 DEF JoinState, ErroredInv
  <1>7. ASSUME JoinAction PROVE ErroredInv'
    BY <1>7 DEF JoinAction, ErroredInv
  <1>8. ASSUME JoinSubmit PROVE ErroredInv'
    BY <1>8 DEF JoinSubmit, ErroredInv
  <1>9. ASSUME JoinReturn PROVE ErroredInv'
    BY <1>9, TodoLeft DEF JoinReturn, ErroredInv, ResetErrored, LifeInv, TypeOK, ControlInv
  <1>10. ASSUME ReturnFromMain PROVE ErroredInv'
    BY <1>10 DEF ReturnFromMain, ErroredInv
  <1>11. ASSUME Reuse PROVE ErroredInv'
    BY <1>11, TodoLeft DEF Reuse, ErroredInv, LifeInv, ControlInv
  <1>12. ASSUME NEW r \in Runners, NEW fate \in Fates, Retire(r, fate) PROVE ErroredInv'
    <2>1. fate = "ok" => ~HasError(todo')  BY <1>12, TodoStart DEF Retire
    <2>2. fate # "ok" => HasError(todo')  BY <1>12, TodoStart DEF Retire
    <2>3. ~HasError(todo)  BY <1>12, TodoLeft DEF Retire
    <2> QED  BY <1>12, <2>1, <2>2, <2>3 DEF Retire, ErroredInv, LifeInv, ControlInv
  <1>13. ASSUME DeleteRunner PROVE ErroredInv'
    <2>1. HasError(todo') <=> HasError(todo)  BY <1>13, TodoTail DEF DeleteRunner, LifeInv, CountInv
    <2> QED  BY <1>13, <2>1 DEF DeleteRunner, ErroredInv
  <1>14. ASSUME OnErrorSet PROVE ErroredInv'
    <2>1. HasError(todo)  BY <1>14, TodoTail DEF OnErrorSet, LifeInv, CountInv
    <2>2. mpc # "returned"  BY <1>14 DEF OnErrorSet, LifeInv, ControlInv
    <2> QED  BY <1>14, <2>1, <2>2 DEF OnErrorSet, ErroredInv, SetErrored
  <1>15. ASSUME OnErrorMessage PROVE ErroredInv'
    <2>1. HasError(todo') <=> HasError(todo)  BY <1>15, TodoTail DEF OnErrorMessage, LifeInv, CountInv
    <2> QED  BY <1>15, <2>1 DEF OnErrorMessage, ErroredInv
  <1>16. ASSUME SubmitLoadFirst PROVE ErroredInv'
    BY <1>16 DEF SubmitLoadFirst, ErroredInv
  <1>17. ASSUME SubmitLoadSecond PROVE ErroredInv'
    BY <1>17 DEF SubmitLoadSecond, ErroredInv
  <1>18. ASSUME SubmitEnd PROVE ErroredInv'
    <2>1. ~HasError(todo) /\ mpc # "returned"
      BY <1>18, TodoLeft DEF SubmitEnd, LifeInv, ControlInv
    <2> QED  BY <1>18, <2>1 DEF SubmitEnd, ErroredInv
  <1>19. ASSUME ProgressLoadFirst PROVE ErroredInv'
    BY <1>19 DEF ProgressLoadFirst, ErroredInv
  <1>20. ASSUME ProgressLoadSecond PROVE ErroredInv'
    BY <1>20 DEF ProgressLoadSecond, ErroredInv
  <1>21. ASSUME ShowProgress PROVE ErroredInv'
    BY <1>21 DEF ShowProgress, ErroredInv
  <1>22. ASSUME WaitTimeout PROVE ErroredInv'
    BY <1>22 DEF WaitTimeout, ErroredInv
  <1>23. ASSUME WaitLocked PROVE ErroredInv'
    BY <1>23 DEF WaitLocked, ErroredInv
  <1>24. ASSUME FinalShow PROVE ErroredInv'
    BY <1>24 DEF FinalShow, ErroredInv
  <1>25. ASSUME ProgressEnd PROVE ErroredInv'
    <2>1. CASE completionAction # "Exit"  BY <1>25, <2>1 DEF ProgressEnd, ErroredInv
    <2>2. CASE completionAction = "Exit"
      <3>1. "openError" \notin Fates
        BY <1>25, <2>2 DEF ProgressEnd, LifeInv, ControlInv, ErrorsInTime
      <3>2. ~HasError(todo) /\ mpc # "returned"
        BY <1>25, <3>1, NothingDue, TodoLeft DEF ProgressEnd, LifeInv, ControlInv, DoneInv
      <3> QED  BY <1>25, <2>2, <3>2 DEF ProgressEnd, ErroredInv
    <2> QED  BY <2>1, <2>2
  <1>26. CASE UNCHANGED vars
    BY <1>26 DEF vars, ErroredInv
  <1> QED
    BY <1>1, <1>2, <1>3, <1>4, <1>5, <1>6, <1>7, <1>8, <1>9, <1>10, <1>11, <1>12, <1>13, <1>14, <1>15, <1>16, <1>17, <1>18,
       <1>19, <1>20, <1>21, <1>22, <1>23, <1>24, <1>25, <1>26
    DEF Next, MainStep, RetireStep, DoneStep, ProgressStep, Ended

\* The exit code of the process and the result of join() tell whether anything failed,
\* unless all of this can happen at once: a runner fails in addToBatch, join() was called
\* with Exit, and a progress bar is shown (run Completion_lateerror).
THEOREM ExitCodeHonest == ASSUME ErrorsInTime PROVE Spec => []ExitHonest
  <1>1. Init => ErroredInv  BY TodoLeft DEF Init, ErroredInv
  <1>2. LifeInv /\ ErroredInv /\ [Next]_vars => ErroredInv'  BY ErroredNext
  <1>3. ErroredInv => ExitHonest  BY DEF ErroredInv, ExitHonest
  <1> QED  BY <1>1, <1>2, <1>3, LifeHolds, PTL DEF Spec

-----------------------------------------------------------------------------
(* The messages.                                                           *)

\* No step drops a message or hands it to a thread that will not look again.
LEMMA MessagesNext ==
    ASSUME MessagesInTime, LifeInv, MessagesInv, [Next]_vars
    PROVE  MessagesInv'
  <1> USE DEF Running, errorVars, mainVars, submitVars, progressVars
  <1>1. ASSUME Start PROVE MessagesInv'
    BY <1>1 DEF Start, MessagesInv, Unshown
  <1>2. ASSUME StartProgress PROVE MessagesInv'
    BY <1>2 DEF StartProgress, MessagesInv, Unshown, LifeInv, TypeOK, ControlInv
  <1>3. ASSUME NEW r \in Runners, Add(r) PROVE MessagesInv'
    BY <1>3 DEF Add, MessagesInv, Unshown
  <1>4. ASSUME NEW r \in Runners, AddErrorSet(r) PROVE MessagesInv'
    BY <1>4 DEF AddErrorSet, MessagesInv, Unshown
  <1>5. ASSUME AddErrorMessage PROVE MessagesInv'
    <2>1. ppc \notin {"off", "end", "exited"} \/ mpc' = "idle" \/ ~showingProgress
      BY <1>5 DEF AddErrorMessage, LifeInv, ControlInv, DoneInv, TypeOK
    <2>2. adding \in Runners  BY <1>5 DEF AddErrorMessage, LifeInv, CountInv
    <2> QED  BY <1>5, <2>1, <2>2 DEF AddErrorMessage, Message, MessagesInv, Unshown
  <1>6. ASSUME JoinState PROVE MessagesInv'
    BY <1>6 DEF JoinState, MessagesInv, Unshown
  <1>7. ASSUME JoinAction PROVE MessagesInv'
    BY <1>7 DEF JoinAction, MessagesInv, Unshown
  <1>8. ASSUME JoinSubmit PROVE MessagesInv'
    BY <1>8 DEF JoinSubmit, MessagesInv, Unshown
  <1>9. ASSUME JoinReturn PROVE MessagesInv'
    BY <1>9 DEF JoinReturn, MessagesInv, Unshown, LifeInv, TypeOK, ControlInv
  <1>10. ASSUME ReturnFromMain PROVE MessagesInv'
    <2>1. ~HasMessage(todo) /\ errorMessages = {}
      BY <1>10, TodoLeft DEF ReturnFromMain, LifeInv, ControlInv, MessagesInv
    <2> QED  BY <1>10, <2>1 DEF ReturnFromMain, MessagesInv, Unshown
  <1>11. ASSUME Reuse PROVE MessagesInv'
    BY <1>11 DEF Reuse, MessagesInv, Unshown
  <1>12. ASSUME NEW r \in Runners, NEW fate \in Fates, Retire(r, fate) PROVE MessagesInv'
    <2>1. fate # "ok" => HasMessage(todo')  BY <1>12, TodoStart DEF Retire
    <2>2. ~HasMessage(todo)  BY <1>12, TodoLeft DEF Retire
    <2> QED  BY <1>12, <2>1, <2>2 DEF Retire, MessagesInv, Unshown
  <1>13. ASSUME DeleteRunner PROVE MessagesInv'
    <2>1. HasMessage(todo') <=> HasMessage(todo)  BY <1>13, TodoTail DEF DeleteRunner, LifeInv, CountInv
    <2> QED  BY <1>13, <2>1 DEF DeleteRunner, MessagesInv, Unshown
  <1>14. ASSUME OnErrorSet PROVE MessagesInv'
    <2>1. HasMessage(todo') <=> HasMessage(todo)  BY <1>14, TodoTail DEF OnErrorSet, LifeInv, CountInv
    <2> QED  BY <1>14, <2>1 DEF OnErrorSet, MessagesInv, Unshown
  <1>15. ASSUME OnErrorMessage PROVE MessagesInv'
    <2>1. HasMessage(todo) /\ ~HasMessage(todo')
      BY <1>15, TodoTail DEF OnErrorMessage, LifeInv, CountInv
    <2>2. showingProgress => ppc \notin {"off", "end", "exited"} \/ mpc = "starting"
      <3>1. showingProgress => ppc # "off" \/ mpc = "starting"
        BY <1>15 DEF OnErrorMessage, LifeInv, ControlInv
      <3>2. showingProgress => keepAliveCount # 0
        BY <1>15, NothingDue DEF OnErrorMessage, LifeInv, ControlInv, MessagesInTime
      <3> QED  BY <3>1, <3>2 DEF LifeInv, DoneInv
    <2> QED  BY <1>15, <2>1, <2>2 DEF OnErrorMessage, Message, MessagesInv, Unshown
  <1>16. ASSUME SubmitLoadFirst PROVE MessagesInv'
    BY <1>16 DEF SubmitLoadFirst, MessagesInv, Unshown
  <1>17. ASSUME SubmitLoadSecond PROVE MessagesInv'
    BY <1>17 DEF SubmitLoadSecond, MessagesInv, Unshown
  <1>18. ASSUME SubmitEnd PROVE MessagesInv'
    <2>1. ~HasMessage(todo) /\ (~showingProgress => errorMessages = {})
      BY <1>18, TodoLeft DEF SubmitEnd, LifeInv, ControlInv, MessagesInv
    <2> QED  BY <1>18, <2>1 DEF SubmitEnd, MessagesInv, Unshown
  <1>19. ASSUME ProgressLoadFirst PROVE MessagesInv'
    BY <1>19 DEF ProgressLoadFirst, MessagesInv, Unshown
  <1>20. ASSUME ProgressLoadSecond PROVE MessagesInv'
    BY <1>20 DEF ProgressLoadSecond, MessagesInv, Unshown
  <1>21. ASSUME ShowProgress PROVE MessagesInv'
    BY <1>21 DEF ShowProgress, ShowMessages, MessagesInv, Unshown
  <1>22. ASSUME WaitTimeout PROVE MessagesInv'
    BY <1>22 DEF WaitTimeout, MessagesInv, Unshown
  <1>23. ASSUME WaitLocked PROVE MessagesInv'
    BY <1>23 DEF WaitLocked, MessagesInv, Unshown
  <1>24. ASSUME FinalShow PROVE MessagesInv'
    BY <1>24 DEF FinalShow, ShowMessages, MessagesInv, Unshown
  <1>25. ASSUME ProgressEnd PROVE MessagesInv'
    <2>1. ~HasMessage(todo) /\ errorMessages = {}
      BY <1>25, NothingDue, TodoLeft
      DEF ProgressEnd, LifeInv, ControlInv, DoneInv, MessagesInv, MessagesInTime
    <2> QED  BY <1>25, <2>1 DEF ProgressEnd, MessagesInv, Unshown
  <1>26. CASE UNCHANGED vars
    BY <1>26 DEF vars, MessagesInv, Unshown
  <1> QED
    BY <1>1, <1>2, <1>3, <1>4, <1>5, <1>6, <1>7, <1>8, <1>9, <1>10, <1>11, <1>12, <1>13, <1>14, <1>15, <1>16, <1>17, <1>18,
       <1>19, <1>20, <1>21, <1>22, <1>23, <1>24, <1>25, <1>26
    DEF Next, MainStep, RetireStep, DoneStep, ProgressStep, Ended

\* Every error message has been shown when the session is over, unless a runner can fail
\* in addToBatch while a progress bar is shown: its message may come when the progress
\* thread has left its loop.
THEOREM MessagesShown == ASSUME MessagesInTime PROVE Spec => []AllErrorsShown
  <1>1. Init => MessagesInv  BY TodoLeft DEF Init, MessagesInv, Unshown
  <1>2. LifeInv /\ MessagesInv /\ [Next]_vars => MessagesInv'  BY MessagesNext
  <1>3. LifeInv /\ MessagesInv => AllErrorsShown
    <2> SUFFICES ASSUME LifeInv, MessagesInv, Over PROVE failed \subseteq shown
      BY DEF AllErrorsShown
    <2>1. mpc \notin {"idleMessage", "addMessage"}  BY DEF LifeInv, DoneInv, Over, Running
    <2>2. errorMessages = {} /\ ~HasMessage(todo)
      BY TodoLeft DEF LifeInv, ControlInv, MessagesInv, Over, Running
    <2> QED  BY <2>1, <2>2 DEF MessagesInv, Unshown
  <1> QED  BY <1>1, <1>2, <1>3, LifeHolds, PTL DEF Spec

=============================================================================
