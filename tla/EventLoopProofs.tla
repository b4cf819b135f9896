--------------------------- MODULE EventLoopProofs ---------------------------
(***************************************************************************)
(* The safety of EventLoop for every set of threads and tasks: types, the  *)
(* queue's order, and that neither a queued task nor a quit request can be *)
(* slept over in poll().  And of EventLoopThread: the hand-over of the     *)
(* loop between ThreadFunc, startLoop and the destructor, and that what    *)
(* the two threads do to the loop is a behaviour of EventLoop, so that the *)
(* theorems about the loop hold there as well.                             *)
(***************************************************************************)
EXTENDS EventLoopThread, SequenceTheorems, TLAPS

\* With the inverted owner test nothing gets past the constructor, so the wrong
\* wakeup decisions it would cause are never taken.
FaultsAbort == "ownerTest" \in Faults => pc \in {"new", "aborted"}

\* Where the loop thread is fixes what it has seen and what it is doing.
LoopShape ==
    /\ pc \in {"new", "idle"} => ~polled
    /\ pc = "tasks" => m_executingAsyncTask

\* NoStrandedTask from the swap of the list to the end of the next poll().
WakePending ==
    pc \in {"tasks", "test", "poll"} /\ polled /\ m_asyncTaskList # <<>>
        => asyncTaskFd > 0 \/ \E t \in Others : held[t] = "queued"

IInv == TypeOK /\ FaultsAbort /\ LoopShape /\ WakePending /\ QuitWakesPoll

-----------------------------------------------------------------------------
\* What a push does to the lists' types.
LEMMA PushType ==
    ASSUME TypeOK, NEW task \in Tasks, pushTask(task)
    PROVE  m_asyncTaskList' \in Seq(Tasks) /\ posted' \in Seq(Tasks)
  BY DEF TypeOK, pushTask

\* Taking the head off the local list and appending it to the executed ones.
LEMMA RunType ==
    ASSUME TypeOK, RunTask
    PROVE  taskList' \in Seq(Tasks) /\ executed' \in Seq(Tasks)
  BY DEF TypeOK, RunTask

\* The invariant holds before the constructor.
LEMMA InitIInv == Init => IInv
  <1> SUFFICES ASSUME Init PROVE IInv
    OBVIOUS
  <1>1. TypeOK
    <2>1. <<>> \in Seq(Tasks)
      OBVIOUS
    <2>2. held \in [Others -> {"none", "queued", "quit"}]
      BY DEF Init
    <2> QED BY <2>1, <2>2 DEF Init, TypeOK, Channels
  <1>2. FaultsAbort /\ LoopShape /\ WakePending /\ QuitWakesPoll
    BY DEF Init, FaultsAbort, LoopShape, WakePending, QuitWakesPoll
  <1> QED BY <1>1, <1>2 DEF IInv

\* Steps of the loop thread that touch neither list nor event.
LEMMA ControlStep ==
    ASSUME IInv, Construct \/ EnterLoop \/ TestQuit \/ EndTasks \/ PollEvents
                 \/ PollTimeout \/ HandleIo \/ Destroy
    PROVE  IInv'
  <1> USE EventLoopAssumption
  <1>1. CASE Construct
    BY <1>1 DEF IInv, TypeOK, FaultsAbort, LoopShape, WakePending, QuitWakesPoll,
       Construct, assertInCurrentThread, isInLoopThread, flags, queues
  <1>2. CASE EnterLoop
    BY <1>2 DEF IInv, TypeOK, FaultsAbort, LoopShape, WakePending, QuitWakesPoll,
       EnterLoop, queues
  <1>3. CASE TestQuit
    BY <1>3 DEF IInv, TypeOK, FaultsAbort, LoopShape, WakePending, QuitWakesPoll,
       TestQuit, queues, Channels
  <1>4. CASE EndTasks
    BY <1>4 DEF IInv, TypeOK, FaultsAbort, LoopShape, WakePending, QuitWakesPoll,
       EndTasks, queues
  <1>5. CASE PollEvents \/ PollTimeout
    <2>1. PICK ready \in SUBSET Channels : PollReturn(ready)
      BY <1>5 DEF PollEvents, PollTimeout
    <2> QED
      BY <2>1 DEF IInv, TypeOK, FaultsAbort, LoopShape, WakePending, QuitWakesPoll,
         PollReturn, flags, queues
  <1>6. CASE HandleIo
    BY <1>6 DEF IInv, TypeOK, FaultsAbort, LoopShape, WakePending, QuitWakesPoll,
       HandleIo, flags, queues
  <1>7. CASE Destroy
    BY <1>7 DEF IInv, TypeOK, FaultsAbort, LoopShape, WakePending, QuitWakesPoll,
       Destroy, flags, queues
  <1> QED BY <1>1, <1>2, <1>3, <1>4, <1>5, <1>6, <1>7

\* Steps of the loop thread on the task lists, the event or the quit flag.
LEMMA LoopDataStep ==
    ASSUME IInv, QueueTaskInLoop \/ QuitInLoop \/ HandleWakeup \/ BeginTasks \/ RunTask
    PROVE  IInv'
  <1>1. CASE QueueTaskInLoop
    <2>1. PICK task \in Tasks : pushTask(task)
      BY <1>1 DEF QueueTaskInLoop
    <2>2. m_asyncTaskList' \in Seq(Tasks) /\ posted' \in Seq(Tasks)
      BY <2>1, PushType DEF IInv
    <2>3. pc \in {"tasks", "test", "poll"} => asyncTaskFd' > 0
      BY <1>1 DEF QueueTaskInLoop, InClientCode, wakeNeeded, IInv, LoopShape,
         setAsyncTaskEvent, TypeOK
    <2>4. asyncTaskFd' \in Nat
      BY <1>1 DEF QueueTaskInLoop, IInv, TypeOK, setAsyncTaskEvent
    <2> QED
      BY <1>1, <2>2, <2>3, <2>4 DEF IInv, TypeOK, FaultsAbort, LoopShape, WakePending,
         QuitWakesPoll, QueueTaskInLoop, InClientCode, flags
  <1>2. CASE QuitInLoop
    BY <1>2 DEF IInv, TypeOK, FaultsAbort, LoopShape, WakePending, QuitWakesPoll,
       QuitInLoop, InClientCode, setAsyncTaskEvent, queues
  <1>3. CASE HandleWakeup
    BY <1>3 DEF IInv, TypeOK, FaultsAbort, LoopShape, WakePending, QuitWakesPoll,
       HandleWakeup, resetAsyncTaskEvent, flags, queues
  <1>4. CASE BeginTasks
    BY <1>4 DEF IInv, TypeOK, FaultsAbort, LoopShape, WakePending, QuitWakesPoll,
       BeginTasks
  <1>5. CASE RunTask
    BY <1>5, RunType DEF IInv, TypeOK, FaultsAbort, LoopShape, WakePending, QuitWakesPoll,
       RunTask, flags
  <1> QED BY <1>1, <1>2, <1>3, <1>4, <1>5

\* Steps of the other threads.
LEMMA OtherThreadStep ==
    ASSUME IInv, NEW t \in Others, OtherStep(t)
    PROVE  IInv'
  <1>1. HandedOut /\ touch(t)
    BY DEF OtherStep, PostTask, FinishQueue, QuitMt, FinishQuit
  <1>2. ~isInLoopThread(t) /\ misused' \subseteq Others
    BY <1>1, EventLoopAssumption DEF IInv, TypeOK, FaultsAbort, HandedOut, touch,
       isInLoopThread
  <1>3. CASE PostTask(t)
    <2>1. PICK task \in Tasks : pushTask(task)
      BY <1>3 DEF PostTask
    <2>2. m_asyncTaskList' \in Seq(Tasks) /\ posted' \in Seq(Tasks)
      BY <2>1, PushType DEF IInv
    <2>3. held' = [held EXCEPT ![t] = "queued"] /\ held[t] = "none"
      BY <1>3 DEF PostTask
    <2>4. /\ held' \in [Others -> {"none", "queued", "quit"}]
          /\ held'[t] = "queued"
          /\ \A u \in Others \ {t} : held'[u] = held[u]
      BY <2>3 DEF IInv, TypeOK
    <2> QED
      BY <1>2, <1>3, <2>2, <2>3, <2>4 DEF IInv, TypeOK, FaultsAbort, LoopShape, WakePending,
         QuitWakesPoll, PostTask, flags
  <1>4. CASE FinishQueue(t) \/ FinishQuit(t)
    <2>1. asyncTaskFd' = asyncTaskFd + 1
      BY <1>2, <1>4 DEF FinishQueue, FinishQuit, wakeNeeded, setAsyncTaskEvent
    <2> QED
      BY <1>2, <1>4, <2>1 DEF IInv, TypeOK, FaultsAbort, LoopShape, WakePending,
         QuitWakesPoll, FinishQueue, FinishQuit, flags, queues
  <1>5. CASE QuitMt(t)
    BY <1>2, <1>5 DEF IInv, TypeOK, FaultsAbort, LoopShape, WakePending, QuitWakesPoll,
       QuitMt, queues
  <1> QED BY <1>3, <1>4, <1>5 DEF OtherStep

\* Every step of every thread preserves the invariant.
LEMMA StepIInv == IInv /\ [Next]_vars => IInv'
  <1> SUFFICES ASSUME IInv, [Next]_vars PROVE IInv'
    OBVIOUS
  <1>1. CASE UNCHANGED vars
    BY <1>1 DEF vars, flags, queues, IInv, TypeOK, FaultsAbort, LoopShape, WakePending,
       QuitWakesPoll
  <1>2. CASE Next
    BY <1>2, ControlStep, LoopDataStep, OtherThreadStep DEF Next, LoopStep
  <1> QED BY <1>1, <1>2

\* IInv holds in every reachable state, whatever the threads, tasks and faults.
THEOREM Invariance == Spec => []IInv
  BY InitIInv, StepIInv, PTL DEF Spec

\* TypeOK, for every set of threads and tasks.
THEOREM TypeCorrect == Spec => []TypeOK
  <1>1. IInv => TypeOK BY DEF IInv
  <1> QED BY <1>1, Invariance, PTL

\* queueTask never leaves the loop asleep over a task (NoStrandedTask).
THEOREM NoTaskStranded == Spec => []NoStrandedTask
  <1>1. IInv => NoStrandedTask BY DEF IInv, WakePending, NoStrandedTask
  <1> QED BY <1>1, Invariance, PTL

\* quit_mt never leaves the loop asleep over the request (QuitWakesPoll).
THEOREM QuitIsSeen == Spec => []QuitWakesPoll
  <1>1. IInv => QuitWakesPoll BY DEF IInv
  <1> QED BY <1>1, Invariance, PTL

\* The loop sleeps over neither work nor a quit request (NeverSleepsOver).
THEOREM LoopNeverSleepsOver == Spec => []NeverSleepsOver
  <1>1. IInv => NeverSleepsOver BY DEF IInv, WakePending, NoStrandedTask, NeverSleepsOver
  <1> QED BY <1>1, Invariance, PTL

-----------------------------------------------------------------------------
(* The order of execution.                                                 *)

\* Appending to the second of two concatenated lists.
LEMMA ConcatAppend ==
    ASSUME NEW S, NEW p \in Seq(S), NEW q \in Seq(S), NEW e \in S
    PROVE  p \o Append(q, e) = Append(p \o q, e)
  OBVIOUS

\* Moving the head of the middle list to the end of the first one.
LEMMA ShiftHead ==
    ASSUME NEW S, NEW p \in Seq(S), NEW q \in Seq(S), NEW r \in Seq(S), q # <<>>
    PROVE  p \o (q \o r) = Append(p, Head(q)) \o (Tail(q) \o r)
  <1>1. Head(q) \in S /\ Tail(q) \in Seq(S)
    BY HeadTailProperties
  <1>2. q = <<Head(q)>> \o Tail(q)
    BY <1>1, HeadTailProperties
  <1>3. Append(p, Head(q)) = p \o <<Head(q)>>
    BY <1>1
  <1>4. Tail(q) \o r \in Seq(S) /\ <<Head(q)>> \in Seq(S)
    BY <1>1
  <1>5. (<<Head(q)>> \o Tail(q)) \o r = <<Head(q)>> \o (Tail(q) \o r)
    BY <1>1, <1>4, ConcatAssociative, Z3
  <1>6. (p \o <<Head(q)>>) \o (Tail(q) \o r) = p \o (<<Head(q)>> \o (Tail(q) \o r))
    BY <1>4
  <1> QED BY <1>2, <1>3, <1>5, <1>6

FifoInv == FifoExactlyOnce /\ (pc # "tasks" => taskList = <<>>)

\* Every step keeps the history of queued tasks equal to what ran and what waits.
LEMMA FifoStep ==
    ASSUME TypeOK, FifoInv, [Next]_vars
    PROVE  FifoInv'
  <1>1. ASSUME NEW task \in Tasks, pushTask(task), UNCHANGED <<taskList, executed>>
        PROVE  FifoExactlyOnce'
    <2>1. taskList \o Append(m_asyncTaskList, task) = Append(taskList \o m_asyncTaskList, task)
      BY ConcatAppend DEF TypeOK
    <2>2. taskList \o m_asyncTaskList \in Seq(Tasks)
      BY DEF TypeOK
    <2>3. executed \o Append(taskList \o m_asyncTaskList, task)
            = Append(executed \o (taskList \o m_asyncTaskList), task)
      BY <2>2, ConcatAppend DEF TypeOK
    <2> QED BY <1>1, <2>1, <2>3 DEF pushTask, FifoInv, FifoExactlyOnce
  <1>2. CASE QueueTaskInLoop
    BY <1>1, <1>2 DEF QueueTaskInLoop, FifoInv
  <1>3. CASE \E t \in Others : PostTask(t)
    BY <1>1, <1>3 DEF PostTask, FifoInv
  <1>4. CASE BeginTasks
    <2>1. taskList = <<>> BY <1>4 DEF BeginTasks, FifoInv
    <2>2. taskList \o m_asyncTaskList = m_asyncTaskList \o <<>>
      BY <2>1 DEF TypeOK
    <2> QED BY <1>4, <2>2 DEF BeginTasks, FifoInv, FifoExactlyOnce
  <1>5. CASE RunTask
    <2>1. /\ executed \in Seq(Tasks) /\ taskList \in Seq(Tasks)
          /\ m_asyncTaskList \in Seq(Tasks) /\ taskList # <<>>
      BY <1>5 DEF RunTask, TypeOK
    <2>2. executed \o (taskList \o m_asyncTaskList)
            = Append(executed, Head(taskList)) \o (Tail(taskList) \o m_asyncTaskList)
      BY <2>1, ShiftHead, Z3
    <2> QED BY <1>5, <2>2 DEF RunTask, FifoInv, FifoExactlyOnce
  <1>6. CASE /\ UNCHANGED queues
             /\ pc' = "tasks" => pc = "tasks"
             /\ pc # "tasks" \/ pc' = "tasks" \/ taskList = <<>>
    BY <1>6 DEF queues, FifoInv, FifoExactlyOnce
  <1>7. CASE UNCHANGED vars
    BY <1>6, <1>7 DEF vars
  <1>8. CASE Construct \/ QuitInLoop \/ EnterLoop \/ TestQuit \/ HandleWakeup
             \/ HandleIo \/ EndTasks \/ Destroy
    BY <1>6, <1>8 DEF Construct, QuitInLoop, EnterLoop, TestQuit, HandleWakeup,
       HandleIo, EndTasks, Destroy
  <1>9. CASE PollEvents \/ PollTimeout
    BY <1>6, <1>9 DEF PollEvents, PollTimeout, PollReturn
  <1>10. CASE \E t \in Others : FinishQueue(t) \/ QuitMt(t) \/ FinishQuit(t)
    BY <1>6, <1>10 DEF FinishQueue, QuitMt, FinishQuit
  <1> QED
    BY <1>2, <1>3, <1>4, <1>5, <1>7, <1>8, <1>9, <1>10 DEF Next, LoopStep, OtherStep

\* Tasks run in queueing order, at most once, and none is lost.
THEOREM TasksInOrder == Spec => []FifoExactlyOnce
  <1>1. Init => FifoInv BY DEF Init, FifoInv, FifoExactlyOnce
  <1>2. TypeOK /\ FifoInv /\ [Next]_vars => FifoInv' BY FifoStep
  <1>3. FifoInv => FifoExactlyOnce BY DEF FifoInv
  <1> QED BY <1>1, <1>2, <1>3, TypeCorrect, PTL DEF Spec
-----------------------------------------------------------------------------
(* EventLoopThread, for code without the two construction faults.          *)

Leaving == {"returned", "destroyed"}
Quitted == {"waking", "joining", "gone"}

OwnerPcs == {"new", "started", "check", "waiting", "returning", "using",
             "empty", "reading", "quitting", "waking", "joining", "gone",
             "crashed"}
ThreadPcs == {"none", "running", "published", "unpublished", "exited"}

\* Where ThreadFunc is, where the loop is and whether it is published agree.
Lifetime ==
    /\ pc # "aborted"
    /\ pc \in {"new", "idle", "returned"} => ~m_looping
    /\ ownerPc = "new" <=> threadPc = "none"
    /\ m_loop => threadPc = "published"
    /\ threadPc = "published" => Constructed
    /\ pc = "destroyed" => threadPc = "exited"
    /\ threadPc = "unpublished" => pc = "returned"
    /\ threadPc = "exited" => pc = "destroyed"

\* A loop nobody has asked to quit has not returned.
QuitFirst == pc \in Leaving => m_quit

\* When only the destructor quits, the loop stays until the destructor does.
SoleOwner ==
    ~clientQuit =>
        /\ m_quit => ownerPc \in Quitted
        /\ ownerPc \in {"returning", "using", "reading", "quitting"} => m_loop

ThreadIInv ==
    /\ m_loop \in BOOLEAN /\ clientQuit \in BOOLEAN
    /\ ownerPc \in OwnerPcs /\ threadPc \in ThreadPcs
    /\ Lifetime /\ QuitFirst /\ SoleOwner /\ NoMissedNotify /\ ThreadOutlived

-----------------------------------------------------------------------------
\* A step of the loop that starts in a live loop ends in one: it neither aborts
\* nor destroys it, and it leaves only when m_quit was set.
LEMMA LoopRuns ==
    ASSUME Faults = {}, ThreadIInv, EnterLoop \/ LoopStep
    PROVE  /\ Constructed' /\ pc' # "idle"
           /\ pc' = "returned" => ~m_looping' /\ m_quit'
           /\ m_quit' => m_quit
  <1>1. CASE EnterLoop
    BY <1>1 DEF ThreadIInv, Lifetime, EnterLoop, assertInCurrentThread,
       isInLoopThread, Constructed
  <1>2. CASE LoopStep
    <2>1. CASE TestQuit
      BY <2>1 DEF TestQuit, Constructed
    <2>2. CASE PollEvents \/ PollTimeout
      BY <2>2 DEF PollEvents, PollTimeout, PollReturn, Constructed, flags
    <2>3. CASE HandleWakeup \/ HandleIo
      BY <2>3 DEF HandleWakeup, HandleIo, Constructed, flags
    <2>4. CASE BeginTasks \/ RunTask \/ EndTasks
      BY <2>4 DEF BeginTasks, RunTask, EndTasks, Constructed, flags
    <2> QED BY <1>2, <2>1, <2>2, <2>3, <2>4 DEF LoopStep
  <1> QED BY <1>1, <1>2

\* Steps of ThreadFunc and of the client code it calls.
LEMMA ThreadFuncStep ==
    ASSUME Faults = {}, ThreadIInv, ThreadStep \/ ClientCode
    PROVE  ThreadIInv'
  <1> USE DEF threadVars, ThreadIInv, Lifetime, QuitFirst, SoleOwner, NoMissedNotify,
              ThreadOutlived, OwnerPcs, ThreadPcs, Leaving, Quitted
  <1>1. CASE ConstructLoop
    BY <1>1 DEF ConstructLoop, Construct, flags, assertInCurrentThread,
       isInLoopThread, Constructed
  <1>2. CASE Publish
    BY <1>2 DEF Publish, vars, flags, queues, Constructed
  <1>3. CASE RunLoop
    BY <1>3, LoopRuns DEF RunLoop, Constructed
  <1>4. CASE Unpublish
    BY <1>4 DEF Unpublish, vars, flags, queues, Constructed
  <1>5. CASE ExitThread
    BY <1>5 DEF ExitThread, Destroy, flags, Constructed
  <1>6. CASE ClientCode
    <2>1. CASE QueueTaskInLoop /\ UNCHANGED clientQuit
      BY <1>6, <2>1 DEF ClientCode, QueueTaskInLoop, flags, Constructed
    <2>2. CASE QuitInLoop /\ clientQuit' = TRUE
      BY <1>6, <2>2 DEF ClientCode, QuitInLoop, Constructed
    <2> QED BY <1>6, <2>1, <2>2 DEF ClientCode
  <1> QED BY <1>1, <1>2, <1>3, <1>4, <1>5, <1>6 DEF ThreadStep

\* Steps of startLoop and of the destructor.
LEMMA OwnerKeeps ==
    ASSUME ThreadIInv, OwnerStep
    PROVE  ThreadIInv'
  <1> USE DEF threadVars, ThreadIInv, Lifetime, QuitFirst, SoleOwner, NoMissedNotify,
              ThreadOutlived, OwnerPcs, ThreadPcs, Leaving, Quitted
  <1>1. CASE StartThread
    BY <1>1 DEF StartThread, vars, flags, queues, Constructed
  <1>2. CASE ClearLoop
    BY <1>2 DEF ClearLoop, vars, flags, queues, Constructed
  <1>3. CASE CheckLoop \/ SpuriousWakeup
    BY <1>3 DEF CheckLoop, SpuriousWakeup, vars, flags, queues, Constructed
  <1>4. CASE ReturnLoop
    BY <1>4 DEF ReturnLoop, vars, flags, queues, Constructed
  <1>5. CASE BeginDestroy
    BY <1>5 DEF BeginDestroy, vars, flags, queues, Constructed
  <1>6. CASE QuitLoop
    BY <1>6 DEF QuitLoop, QuitMt, Constructed
  <1>7. CASE WakeLoop
    BY <1>7 DEF WakeLoop, FinishQuit, flags, Constructed
  <1>8. CASE Join
    BY <1>8 DEF Join, vars, flags, queues, Constructed
  <1>9. CASE ReadLoop
    BY <1>9 DEF ReadLoop, vars, flags, queues, Constructed
  <1> QED BY <1>1, <1>2, <1>3, <1>4, <1>5, <1>6, <1>7, <1>8, <1>9 DEF OwnerStep

\* Calls on the loop from the owner and the threads it gave the pointer to.
LEMMA CallKeeps ==
    ASSUME ThreadIInv, NEW t \in Others, UseLoop(t) \/ FinishUse(t)
    PROVE  ThreadIInv'
  <1> USE DEF threadVars, ThreadIInv, Lifetime, QuitFirst, SoleOwner, NoMissedNotify,
              ThreadOutlived, OwnerPcs, ThreadPcs, Leaving, Quitted
  <1>1. CASE UseLoop(t) /\ PostTask(t) /\ UNCHANGED clientQuit
    BY <1>1 DEF UseLoop, PostTask, flags, Constructed
  <1>2. CASE UseLoop(t) /\ QuitMt(t) /\ clientQuit' = TRUE
    BY <1>2 DEF UseLoop, QuitMt, Constructed
  <1>3. CASE FinishUse(t)
    BY <1>3 DEF FinishUse, FinishQueue, FinishQuit, flags, Constructed
  <1> QED BY <1>1, <1>2, <1>3 DEF UseLoop

\* The invariant behind the theorems of this module.
THEOREM ThreadInvariance ==
    ASSUME Faults = {}
    PROVE  ThreadSpec => []ThreadIInv
  <1>1. ThreadInit => ThreadIInv
    BY DEF ThreadInit, Init, ThreadIInv, Lifetime, QuitFirst, SoleOwner, NoMissedNotify,
       ThreadOutlived, OwnerPcs, ThreadPcs, Leaving, Quitted, Constructed
  <1>2. ThreadIInv /\ [ThreadNext]_allVars => ThreadIInv'
    <2> SUFFICES ASSUME ThreadIInv, [ThreadNext]_allVars PROVE ThreadIInv'
      OBVIOUS
    <2>1. CASE UNCHANGED allVars
      BY <2>1 DEF allVars, vars, flags, queues, threadVars, ThreadIInv, Lifetime,
         QuitFirst, SoleOwner, NoMissedNotify, ThreadOutlived, OwnerPcs, ThreadPcs,
         Leaving, Quitted, Constructed
    <2>2. CASE ThreadNext
      BY <2>2, ThreadFuncStep, OwnerKeeps, CallKeeps DEF ThreadNext
    <2> QED BY <2>1, <2>2
  <1> QED BY <1>1, <1>2, PTL DEF ThreadSpec

\* startLoop/ThreadFunc: whatever clients do, m_loop is set only while the loop
\* it points to is alive.
THEOREM PublishedLoopLives ==
    ASSUME Faults = {}
    PROVE  ThreadSpec => []PublishedIsAlive
  <1>1. ThreadIInv => PublishedIsAlive
    BY DEF ThreadIInv, Lifetime, PublishedIsAlive
  <1> QED BY <1>1, ThreadInvariance, PTL

\* startLoop never sleeps over a notification: it waits only with m_loop null.
THEOREM NoNotifyMissed ==
    ASSUME Faults = {}
    PROVE  ThreadSpec => []NoMissedNotify
  <1>1. ThreadIInv => NoMissedNotify
    BY DEF ThreadIInv
  <1> QED BY <1>1, ThreadInvariance, PTL

\* ~EventLoopThread: if only it quits the loop, startLoop never returned null,
\* neither of the two reads of m_loop crashes and the thread has ended before
\* the members it uses do.
THEOREM ThreadIsOutlived ==
    ASSUME Faults = {}
    PROVE  ThreadSpec => []ThreadOutlived
  <1>1. ThreadIInv => ThreadOutlived
    BY DEF ThreadIInv
  <1> QED BY <1>1, ThreadInvariance, PTL

\* What m_loop points to, the loop, the thread and the object end in this order,
\* the thread and the object if only ~EventLoopThread quits the loop; copies of
\* m_loop, the destructor's too, may outlive the loop (startLoop, ThreadFunc).
THEOREM LifetimesStayNested ==
    ASSUME Faults = {}
    PROVE  ThreadSpec => []LifetimesNest
  <1>1. PublishedIsAlive /\ ThreadOutlived => LifetimesNest
    BY DEF LifetimesNest
  <1> QED BY <1>1, PublishedLoopLives, ThreadIsOutlived, PTL

\* Everything the owner, the thread and the clients do to the loop is a
\* behaviour of EventLoop, so its theorems apply to the composed system.
THEOREM LoopIsEventLoop == ThreadSpec => Spec
  <1>1. ThreadInit => Init
    BY DEF ThreadInit
  <1>2. [ThreadNext]_allVars => [Next]_vars
    <2> SUFFICES ASSUME [ThreadNext]_allVars PROVE [Next]_vars
      OBVIOUS
    <2> USE DEF vars, flags, queues
    <2>1. CASE UNCHANGED allVars
      BY <2>1 DEF allVars
    <2>2. CASE ThreadStep \/ ClientCode
      BY <2>2 DEF ThreadStep, ConstructLoop, Publish, RunLoop, Unpublish,
         ExitThread, ClientCode, Next
    <2>3. CASE OwnerStep
      BY <2>3, EventLoopThreadAssumption DEF OwnerStep, StartThread, ClearLoop,
         CheckLoop, SpuriousWakeup, ReturnLoop, BeginDestroy, ReadLoop, QuitLoop,
         WakeLoop, Join, Next, OtherStep
    <2>4. CASE \E t \in Others : UseLoop(t) \/ FinishUse(t)
      BY <2>4 DEF UseLoop, FinishUse, Next, OtherStep
    <2> QED BY <2>1, <2>2, <2>3, <2>4 DEF ThreadNext
  <1> QED BY <1>1, <1>2, PTL DEF ThreadSpec, Spec

\* Inside an EventLoopThread as well, no queued task and no quit request is slept
\* over in poll(), and tasks run once and in order.
THEOREM LoopStaysSafe ==
    ThreadSpec => [](NoStrandedTask /\ QuitWakesPoll /\ FifoExactlyOnce)
  BY LoopIsEventLoop, NoTaskStranded, QuitIsSeen, TasksInOrder, PTL

\* The variables of the composition keep their types.
THEOREM ThreadTypeCorrect ==
    ASSUME Faults = {}
    PROVE  ThreadSpec => []ThreadTypeOK
  <1>1. TypeOK /\ ThreadIInv => ThreadTypeOK
    BY DEF ThreadIInv, OwnerPcs, ThreadPcs, ThreadTypeOK
  <1> QED BY <1>1, ThreadInvariance, LoopIsEventLoop, TypeCorrect, PTL
=============================================================================
