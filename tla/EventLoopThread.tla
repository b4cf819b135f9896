---------------------------- MODULE EventLoopThread ----------------------------
(***************************************************************************)
(* ynet::EventLoopThread: the owner that starts a thread, waits for the    *)
(* loop the thread builds on its stack, uses it and destroys the object.   *)
(* The loop is that of EventLoop, which this module extends: each step     *)
(* here does a step of the loop, or leaves it alone.  m_loop is read and   *)
(* written without the lock at three places, each a step of its own.       *)
(***************************************************************************)
EXTENDS EventLoop

CONSTANT
    Owner           \* the thread that owns the EventLoopThread object

ASSUME EventLoopThreadAssumption == Owner \in Others

VARIABLES
    m_loop,         \* m_loop is not null
    ownerPc,        \* where the owner is
    threadPc,       \* where ThreadFunc is
    clientQuit      \* history: somebody but the destructor called quit_mt

threadVars == <<m_loop, ownerPc, threadPc>>
allVars == <<vars, threadVars, clientQuit>>

\* The process has not died of a null pointer.
Running == ownerPc # "crashed"

ThreadInit ==
    /\ Init
    /\ m_loop = FALSE /\ ownerPc = "new" /\ threadPc = "none"
    /\ clientQuit = FALSE

-----------------------------------------------------------------------------
(* ThreadFunc.                                                             *)

ConstructLoop ==
    /\ threadPc = "running"
    /\ Construct
    /\ UNCHANGED <<threadVars, clientQuit>>

\* The init callback, and what handlers and tasks do once the loop runs.
ClientCode ==
    /\ Running
    /\ pc = "idle" => threadPc = "running"
    /\ \/ QueueTaskInLoop /\ UNCHANGED clientQuit
       \/ QuitInLoop /\ clientQuit' = TRUE
    /\ UNCHANGED threadVars

\* Mutant: the loop is published without a notification.
PublishSilent ==
    /\ threadPc = "running" /\ pc = "idle"
    /\ m_loop' = TRUE
    /\ threadPc' = "published"
    /\ UNCHANGED <<ownerPc, vars, clientQuit>>

Publish ==
    /\ threadPc = "running" /\ pc = "idle"
    /\ m_loop' = TRUE
    /\ threadPc' = "published"
    /\ ownerPc' = IF ownerPc = "waiting" THEN "check" ELSE ownerPc
    /\ UNCHANGED <<vars, clientQuit>>

RunLoop ==
    /\ threadPc = "published"
    /\ EnterLoop \/ LoopStep
    /\ UNCHANGED <<threadVars, clientQuit>>

\* Mutant: m_loop keeps its value when the loop goes out of scope.
UnpublishNot ==
    /\ threadPc = "published" /\ pc = "returned"
    /\ threadPc' = "unpublished"
    /\ UNCHANGED <<m_loop, ownerPc, vars, clientQuit>>

\* loop() has returned; the lock taken here is held until ExitThread.
Unpublish ==
    /\ threadPc = "published" /\ pc = "returned"
    /\ m_loop' = FALSE
    /\ threadPc' = "unpublished"
    /\ UNCHANGED <<ownerPc, vars, clientQuit>>

\* The lock is released, the loop is destroyed and the thread ends.
ExitThread ==
    /\ threadPc = "unpublished"
    /\ Destroy
    /\ threadPc' = "exited"
    /\ UNCHANGED <<m_loop, ownerPc, clientQuit>>

-----------------------------------------------------------------------------
(* startLoop.                                                              *)

StartThread ==
    /\ ownerPc = "new"
    /\ ownerPc' = "started"
    /\ threadPc' = "running"
    /\ UNCHANGED <<m_loop, vars, clientQuit>>

\* m_loop is cleared after the thread has been started.
ClearLoop ==
    /\ ownerPc = "started"
    /\ ownerPc' = "check"
    /\ m_loop' = FALSE
    /\ UNCHANGED <<threadPc, vars, clientQuit>>

\* One turn of the waiting loop, under the lock.
CheckLoop ==
    /\ ownerPc = "check" /\ threadPc # "unpublished"
    /\ ownerPc' = IF m_loop THEN "returning" ELSE "waiting"
    /\ UNCHANGED <<m_loop, threadPc, vars, clientQuit>>

SpuriousWakeup ==
    /\ ownerPc = "waiting"
    /\ ownerPc' = "check"
    /\ UNCHANGED <<m_loop, threadPc, vars, clientQuit>>

\* The value returned is read again, after the lock was released.
ReturnLoop ==
    /\ ownerPc = "returning"
    /\ ownerPc' = IF m_loop THEN "using" ELSE "empty"
    /\ UNCHANGED <<m_loop, threadPc, vars, clientQuit>>

-----------------------------------------------------------------------------
(* The pointer in use, by the owner and by those it gave it to.            *)

UseLoop(t) ==
    /\ ownerPc = "using"
    /\ \/ PostTask(t) /\ UNCHANGED clientQuit
       \/ QuitMt(t) /\ clientQuit' = TRUE
    /\ UNCHANGED threadVars

FinishUse(t) ==
    /\ Running /\ (t = Owner => ownerPc = "using")
    /\ FinishQueue(t) \/ FinishQuit(t)
    /\ UNCHANGED <<threadVars, clientQuit>>

-----------------------------------------------------------------------------
(* The destructor.                                                         *)

\* Mutant: the destructor never quits or joins.
BeginDestroyDetached ==
    /\ ownerPc \in {"using", "empty"} /\ held[Owner] = "none"
    /\ ownerPc' = "gone"
    /\ UNCHANGED <<m_loop, threadPc, vars, clientQuit>>

\* m_loop is tested without the lock; null means the thread is left detached.
BeginDestroy ==
    /\ ownerPc \in {"using", "empty"} /\ held[Owner] = "none"
    /\ ownerPc' = IF m_loop THEN "reading" ELSE "gone"
    /\ UNCHANGED <<m_loop, threadPc, vars, clientQuit>>

\* m_loop is read again for the call, still without the lock: quit_mt through
\* a null pointer ends the process.
ReadLoop ==
    /\ ownerPc = "reading"
    /\ ownerPc' = IF m_loop THEN "quitting" ELSE "crashed"
    /\ UNCHANGED <<m_loop, threadPc, vars, clientQuit>>

\* The two steps of quit_mt, on a loop that may have ended before either.
QuitLoop ==
    /\ ownerPc = "quitting"
    /\ QuitMt(Owner)
    /\ ownerPc' = "waking"
    /\ UNCHANGED <<m_loop, threadPc, clientQuit>>

WakeLoop ==
    /\ ownerPc = "waking"
    /\ FinishQuit(Owner)
    /\ ownerPc' = "joining"
    /\ UNCHANGED <<m_loop, threadPc, clientQuit>>

Join ==
    /\ ownerPc = "joining" /\ threadPc = "exited"
    /\ ownerPc' = "gone"
    /\ UNCHANGED <<m_loop, threadPc, vars, clientQuit>>

-----------------------------------------------------------------------------
ThreadStep ==
    Running /\ (ConstructLoop \/ Publish \/ RunLoop \/ Unpublish \/ ExitThread)

OwnerStep ==
    \/ StartThread \/ ClearLoop \/ CheckLoop \/ SpuriousWakeup \/ ReturnLoop
    \/ BeginDestroy \/ ReadLoop \/ QuitLoop \/ WakeLoop \/ Join

ThreadNext ==
    \/ ThreadStep \/ OwnerStep \/ ClientCode
    \/ \E t \in Others : UseLoop(t) \/ FinishUse(t)

ThreadSpec == ThreadInit /\ [][ThreadNext]_allVars

\* Both threads proceed once started, startLoop and the destructor proceed
\* once called, poll() is not promised to time out, nobody wakes spuriously.
ThreadProgress == ThreadStep /\ (pc = "poll" => asyncTaskFd > 0)

ThreadFairness ==
    /\ WF_allVars(ThreadProgress)
    /\ WF_allVars(ClearLoop \/ CheckLoop \/ ReturnLoop)
    /\ WF_allVars(ReadLoop \/ QuitLoop \/ WakeLoop \/ Join)
    /\ \A t \in Others : WF_allVars(FinishUse(t))

FairThreadSpec == ThreadSpec /\ ThreadFairness

-----------------------------------------------------------------------------
(* Properties.                                                             *)

ThreadTypeOK ==
    /\ TypeOK
    /\ m_loop \in BOOLEAN
    /\ ownerPc \in {"new", "started", "check", "waiting", "returning", "using",
                    "empty", "reading", "quitting", "waking", "joining",
                    "gone", "crashed"}
    /\ threadPc \in {"none", "running", "published", "unpublished", "exited"}
    /\ clientQuit \in BOOLEAN

\* startLoop/ThreadFunc: m_loop is set only while the loop it points to is
\* alive, constructed and not yet destroyed.
PublishedIsAlive == m_loop => Constructed

\* startLoop/ThreadFunc: the owner never sleeps on m_cond with m_loop set; no
\* notification falls between its test and its wait.
NoMissedNotify == ownerPc = "waiting" => ~m_loop

\* When nobody else quits the loop, startLoop returns a loop, the destructor's
\* second read of m_loop finds it, and the thread is joined before the members
\* die, so ThreadFunc never locks a mutex that is gone.
ThreadOutlived ==
    ~clientQuit => /\ ownerPc \notin {"empty", "crashed"}
                   /\ ownerPc = "gone" => threadPc = "exited"

\* The lifetimes nest: that of m_loop's value in the loop's, and the thread's in
\* the object's if only the destructor quits (ThreadFunc, ~EventLoopThread).
\* Copies of m_loop are another matter: the destructor may quit a loop that is gone.
LifetimesNest == PublishedIsAlive /\ ThreadOutlived

\* The wait of startLoop ends when the thread publishes after it began, unless
\* a client of the loop quits it first: then the loop may have come and gone
\* before the owner looks.
StartLoopWakes ==
    (ownerPc = "waiting" /\ threadPc = "running")
        ~> (ownerPc \in {"using", "empty"} \/ m_quit)

\* The destructor returns once its quit_mt has reached a loop that is looping.
JoinReturns == (ownerPc = "joining" /\ m_quit /\ m_looping) ~> (ownerPc = "gone")

\* "must wait for loop created, so that the thread could be used by client":
\* startLoop waits for the loop and then returns, if nobody quits the loop.
StartLoopReturns == (ownerPc = "started") ~> (ownerPc \in {"using", "empty"} \/ clientQuit)
=============================================================================
