------------------------------ MODULE EventLoop ------------------------------
(***************************************************************************)
(* One ynet::EventLoop: the thread that runs loop(), the queue of tasks    *)
(* other threads hand it, the eventfd that wakes it out of poll(), and     *)
(* quit_mt().  Critical sections under m_mtx are one step; an operation of *)
(* another thread that does two things in a row (push then wake, set       *)
(* m_quit then wake) is two steps.                                         *)
(*                                                                         *)
(* Faults names the two mistakes of the source that stop every EventLoop   *)
(* inside its constructor.  With Faults = {"ownerTest", "nullPoller"} the  *)
(* module is the code to the letter; leaving a fault out gives the         *)
(* documented meaning to that one expression and nothing else.             *)
(***************************************************************************)
EXTENDS Naturals, Sequences

CONSTANTS
    LoopThread,     \* the thread that constructs the loop and runs loop()
    Others,         \* the other threads that hold a pointer to the loop
    Tasks,          \* the AsyncTasks clients queue, each queued once
    Faults,         \* the construction faults present (see above)
    MaxEvents       \* bound: quit_mt starts only while the eventfd is below

ASSUME EventLoopAssumption ==
    /\ LoopThread \notin Others
    /\ Faults \subseteq {"ownerTest", "nullPoller"}
    /\ MaxEvents \in Nat

VARIABLES
    pc,                     \* where the loop thread is
    m_looping, m_quit,
    m_executingAsyncTask,
    asyncTaskFd,            \* counter of the eventfd (EFD_SEMAPHORE)
    m_asyncTaskList,
    taskList,               \* the local list of executeAsyncTasks
    active,                 \* channels of m_activeIOChannels still to handle
    held,                   \* per other thread: the call it is inside
    posted,                 \* history: tasks in the order they were queued
    executed,               \* history: tasks in the order they were run
    polled,                 \* history: poll() has returned at least once
    misused                 \* history: threads that used the loop after its end

flags  == <<m_looping, m_quit, m_executingAsyncTask>>
queues == <<m_asyncTaskList, taskList, posted, executed>>
vars   == <<pc, flags, asyncTaskFd, queues, active, held, polled, misused>>

Channels == {"wakeup", "io"}    \* m_asyncTaskChannel, any client channel

Init ==
    /\ pc = "new"
    /\ m_looping = FALSE /\ m_quit = FALSE /\ m_executingAsyncTask = FALSE
    /\ asyncTaskFd = 0
    /\ m_asyncTaskList = <<>> /\ taskList = <<>>
    /\ active = {}
    /\ held = [t \in Others |-> "none"]
    /\ posted = <<>> /\ executed = <<>>
    /\ polled = FALSE
    /\ misused = {}

-----------------------------------------------------------------------------
(* Helpers.                                                                *)

\* The source compares with != where its name and its callers mean ==.
isInLoopThread(t) ==
    IF "ownerTest" \in Faults THEN t # LoopThread ELSE t = LoopThread

\* LOG_FATAL aborts the process when the check fails.
assertInCurrentThread(t) == isInLoopThread(t)

setAsyncTaskEvent == asyncTaskFd' = asyncTaskFd + 1

\* A semaphore eventfd hands out one unit per read, not the whole count; a
\* read of an empty one fails and is only logged.
resetAsyncTaskEvent == asyncTaskFd' = IF asyncTaskFd > 0 THEN asyncTaskFd - 1 ELSE 0

\* Mutant: queueTask forgets that a running task may queue another one.
wakeNeededNotFromTask(t) == ~isInLoopThread(t)

wakeNeeded(t) == ~isInLoopThread(t) \/ m_executingAsyncTask

pushTask(task) ==
    /\ \A i \in DOMAIN posted : posted[i] # task
    /\ m_asyncTaskList' = Append(m_asyncTaskList, task)
    /\ posted' = Append(posted, task)

\* The object exists and the process lives.
Constructed == pc \notin {"new", "aborted", "destroyed"}

\* Other threads have been given the pointer; the object may be gone since.
HandedOut == pc \notin {"new", "aborted"}

\* A call touches the object.  ~EventLoop closes no descriptor, so what the
\* call writes still arrives; the memory it reads it from is another matter.
touch(t) == misused' = IF pc = "destroyed" THEN misused \cup {t} ELSE misused

\* The loop thread is inside client code: an init callback before loop(), the
\* callback of a channel, or a queued task.
InClientCode ==
    \/ pc = "idle"
    \/ pc = "dispatch" /\ "io" \in active
    \/ pc = "tasks" /\ taskList # <<>>

-----------------------------------------------------------------------------
(* The loop thread.                                                        *)

\* Both enableRead() calls of the constructor go through updateChannel, which
\* checks the thread and then calls through m_poller, which nothing ever sets.
Construct ==
    /\ pc = "new"
    /\ pc' = IF assertInCurrentThread(LoopThread) /\ "nullPoller" \notin Faults
             THEN "idle" ELSE "aborted"
    /\ UNCHANGED <<flags, asyncTaskFd, queues, active, held, polled, misused>>

\* Client code on the loop thread queues a task.
QueueTaskInLoop ==
    /\ InClientCode
    /\ \E task \in Tasks : pushTask(task)
    /\ IF wakeNeeded(LoopThread) THEN setAsyncTaskEvent ELSE UNCHANGED asyncTaskFd
    /\ UNCHANGED <<pc, flags, taskList, executed, active, held, polled, misused>>

\* Client code on the loop thread calls quit_mt.
QuitInLoop ==
    /\ InClientCode
    /\ m_quit' = TRUE
    /\ IF isInLoopThread(LoopThread) THEN UNCHANGED asyncTaskFd ELSE setAsyncTaskEvent
    /\ UNCHANGED <<pc, m_looping, m_executingAsyncTask, queues, active, held,
                   polled, misused>>

EnterLoop ==
    /\ pc = "idle"
    /\ IF assertInCurrentThread(LoopThread) /\ ~m_looping
       THEN pc' = "test" /\ m_looping' = TRUE /\ m_quit' = FALSE
       ELSE pc' = "aborted" /\ UNCHANGED <<m_looping, m_quit>>
    /\ UNCHANGED <<m_executingAsyncTask, asyncTaskFd, queues, active, held,
                   polled, misused>>

TestQuit ==
    /\ pc = "test"
    /\ IF m_quit
       THEN pc' = "returned" /\ m_looping' = FALSE
       ELSE pc' = "poll" /\ UNCHANGED m_looping
    /\ active' = {}
    /\ UNCHANGED <<m_quit, m_executingAsyncTask, asyncTaskFd, queues, held,
                   polled, misused>>

\* poll() returns the ready channels: the eventfd exactly when it is not zero.
PollReturn(ready) ==
    /\ pc = "poll"
    /\ ("wakeup" \in ready) = (asyncTaskFd > 0)
    /\ active' = ready
    /\ pc' = "dispatch"
    /\ polled' = TRUE
    /\ UNCHANGED <<flags, asyncTaskFd, queues, held, misused>>

PollEvents  == \E ready \in SUBSET Channels : ready # {} /\ PollReturn(ready)
PollTimeout == PollReturn({})

HandleWakeup ==
    /\ pc = "dispatch" /\ "wakeup" \in active
    /\ resetAsyncTaskEvent
    /\ active' = active \ {"wakeup"}
    /\ UNCHANGED <<pc, flags, queues, held, polled, misused>>

\* The callback of a client channel returns; what it called are QueueTaskInLoop
\* and QuitInLoop steps before this one.
HandleIo ==
    /\ pc = "dispatch" /\ "io" \in active
    /\ active' = active \ {"io"}
    /\ UNCHANGED <<pc, flags, asyncTaskFd, queues, held, polled, misused>>

\* Mutant: the shared list is copied, not swapped out.
BeginTasksCopy ==
    /\ pc = "dispatch" /\ active = {}
    /\ pc' = "tasks"
    /\ m_executingAsyncTask' = TRUE
    /\ taskList' = m_asyncTaskList
    /\ UNCHANGED <<m_looping, m_quit, asyncTaskFd, m_asyncTaskList, posted,
                   executed, active, held, polled, misused>>

\* The end of the dispatch loop and the swap of executeAsyncTasks.
BeginTasks ==
    /\ pc = "dispatch" /\ active = {}
    /\ pc' = "tasks"
    /\ m_executingAsyncTask' = TRUE
    /\ taskList' = m_asyncTaskList
    /\ m_asyncTaskList' = <<>>
    /\ UNCHANGED <<m_looping, m_quit, asyncTaskFd, posted, executed, active,
                   held, polled, misused>>

RunTask ==
    /\ pc = "tasks" /\ taskList # <<>>
    /\ executed' = Append(executed, Head(taskList))
    /\ taskList' = Tail(taskList)
    /\ UNCHANGED <<pc, flags, asyncTaskFd, m_asyncTaskList, posted, active,
                   held, polled, misused>>

EndTasks ==
    /\ pc = "tasks" /\ taskList = <<>>
    /\ pc' = "test"
    /\ m_executingAsyncTask' = FALSE
    /\ UNCHANGED <<m_looping, m_quit, asyncTaskFd, queues, active, held,
                   polled, misused>>

\* The loop object lives on the stack of the function that ran it.
Destroy ==
    /\ pc = "returned"
    /\ pc' = IF m_looping THEN "aborted" ELSE "destroyed"
    /\ UNCHANGED <<flags, asyncTaskFd, queues, active, held, polled, misused>>

-----------------------------------------------------------------------------
(* The other threads.                                                      *)

\* queueTask, or postTask_mt from a thread that is not the loop's: the push.
PostTask(t) ==
    /\ HandedOut /\ touch(t) /\ held[t] = "none"
    /\ \E task \in Tasks : pushTask(task)
    /\ held' = [held EXCEPT ![t] = "queued"]
    /\ UNCHANGED <<pc, flags, asyncTaskFd, taskList, executed, active, polled>>

FinishQueue(t) ==
    /\ HandedOut /\ touch(t) /\ held[t] = "queued"
    /\ held' = [held EXCEPT ![t] = "none"]
    /\ IF wakeNeeded(t) THEN setAsyncTaskEvent ELSE UNCHANGED asyncTaskFd
    /\ UNCHANGED <<pc, flags, queues, active, polled>>

QuitMt(t) ==
    /\ HandedOut /\ touch(t) /\ held[t] = "none"
    /\ asyncTaskFd < MaxEvents
    /\ m_quit' = TRUE
    /\ held' = [held EXCEPT ![t] = "quit"]
    /\ UNCHANGED <<pc, m_looping, m_executingAsyncTask, asyncTaskFd, queues,
                   active, polled>>

\* Mutant: quit_mt sets the flag and never writes the event.
FinishQuitSilent(t) ==
    /\ HandedOut /\ touch(t) /\ held[t] = "quit"
    /\ held' = [held EXCEPT ![t] = "none"]
    /\ UNCHANGED <<pc, flags, asyncTaskFd, queues, active, polled>>

FinishQuit(t) ==
    /\ HandedOut /\ touch(t) /\ held[t] = "quit"
    /\ held' = [held EXCEPT ![t] = "none"]
    /\ IF isInLoopThread(t) THEN UNCHANGED asyncTaskFd ELSE setAsyncTaskEvent
    /\ UNCHANGED <<pc, flags, queues, active, polled>>

-----------------------------------------------------------------------------
LoopStep ==
    \/ TestQuit \/ PollEvents \/ PollTimeout
    \/ HandleWakeup \/ HandleIo
    \/ BeginTasks \/ RunTask \/ EndTasks

OtherStep(t) == PostTask(t) \/ FinishQueue(t) \/ QuitMt(t) \/ FinishQuit(t)

Next ==
    \/ Construct \/ QueueTaskInLoop \/ QuitInLoop \/ EnterLoop \/ LoopStep
    \/ Destroy
    \/ \E t \in Others : OtherStep(t)

Spec == Init /\ [][Next]_vars

-----------------------------------------------------------------------------
(* Properties.                                                             *)

\* Every variable has the shape its declaration in eventLoop.h gives it.
TypeOK ==
    /\ pc \in {"new", "idle", "test", "poll", "dispatch", "tasks",
               "returned", "aborted", "destroyed"}
    /\ m_looping \in BOOLEAN /\ m_quit \in BOOLEAN /\ m_executingAsyncTask \in BOOLEAN
    /\ asyncTaskFd \in Nat
    /\ m_asyncTaskList \in Seq(Tasks) /\ taskList \in Seq(Tasks)
    /\ posted \in Seq(Tasks) /\ executed \in Seq(Tasks)
    /\ active \subseteq Channels
    /\ held \in [Others -> {"none", "queued", "quit"}]
    /\ polled \in BOOLEAN
    /\ misused \subseteq Others

\* queueTask/executeAsyncTasks: once the loop has polled, it never blocks in
\* poll() over a waiting task without a wakeup delivered or about to be.  The
\* first poll is the exception: a task the init callback queued on the loop
\* thread writes no event and waits for the timeout of 1000 ms.
NoStrandedTask ==
    pc = "poll" /\ polled /\ m_asyncTaskList # <<>>
        => asyncTaskFd > 0 \/ \E t \in Others : held[t] = "queued"

\* quit_mt/loop: the loop never blocks in poll() over a quit request it has
\* not seen without a wakeup delivered or about to be.
QuitWakesPoll ==
    pc = "poll" /\ m_quit
        => asyncTaskFd > 0 \/ \E t \in Others : held[t] = "quit"

\* A loop that has polled once never sleeps over work or over a quit request
\* that nobody is about to wake it for.
NeverSleepsOver == NoStrandedTask /\ QuitWakesPoll

\* queueTask/executeAsyncTasks: tasks run in the order they were queued, each
\* at most once, and none is lost between the shared list and the local one.
FifoExactlyOnce == posted = executed \o (taskList \o m_asyncTaskList)

\* postTask_mt, "other thread: adding to queue and wake up loop": a task queued
\* after the first poll is executed unless somebody asks the loop to quit,
\* even if poll() never times out.
QueuedTaskRuns ==
    \A task \in Tasks :
        (polled /\ \E i \in DOMAIN m_asyncTaskList : m_asyncTaskList[i] = task)
            ~> (m_quit \/ \E i \in DOMAIN executed : executed[i] = task)

\* quit_mt on a loop that is looping makes loop() return, even if poll() never
\* times out.
QuitStopsLoop == (m_quit /\ m_looping) ~> (pc = "returned")
=============================================================================
