------------------------------ MODULE ThreadPool ------------------------------
(***************************************************************************)
(* ybase::ThreadPool: workers that take tasks from a queue of limited      *)
(* size, callers of run() that put them there, and the owner that starts   *)
(* and stops the pool.  A section under m_mtx is one step; waiting on a    *)
(* condition variable ends it, and being notified (or waking for no        *)
(* reason) leads back to the test of the waiting loop.  A task may itself  *)
(* call run().                                                             *)
(***************************************************************************)
EXTENDS Naturals, Sequences, FiniteSets

CONSTANTS
    Workers,        \* the threads start() creates
    Producers,      \* client threads that call run()
    Tasks,          \* the tasks handed to run(), each once
    Spawning,       \* the tasks that call run() themselves
    NoTask,         \* a default-constructed Task
    MaxQueueSize    \* m_maxQueueSize; 0 means no limit

ASSUME ThreadPoolAssumption ==
    /\ IsFiniteSet(Workers) /\ IsFiniteSet(Producers)
    /\ Workers \cap Producers = {}
    /\ Spawning \subseteq Tasks /\ NoTask \notin Tasks
    /\ MaxQueueSize \in Nat

Threads == Workers \cup Producers

VARIABLES
    m_running,
    m_threads,      \* the workers emplaced so far
    m_taskQueue,
    owner,          \* where the owner of the pool is
    pc,             \* where each thread is
    arg,            \* the task a thread is passing to run()
    cur,            \* the task a worker is executing
    submitted,      \* tasks already handed to run()
    accepted,       \* history: tasks in the order run() queued them
    taken,          \* history: tasks in the order workers took them
    stopMark        \* history: Len(taken) when stop() cleared m_running

poolVars    == <<m_running, m_threads, owner, stopMark>>
historyVars == <<accepted, taken>>
vars == <<poolVars, m_taskQueue, pc, arg, cur, submitted, historyVars>>

Init ==
    /\ m_running = FALSE /\ m_threads = {} /\ m_taskQueue = <<>>
    /\ owner = "new"
    /\ pc = [t \in Threads |-> IF t \in Workers THEN "none" ELSE "out"]
    /\ arg = [t \in Threads |-> NoTask]
    /\ cur = [t \in Threads |-> NoTask]
    /\ submitted = {}
    /\ accepted = <<>> /\ taken = <<>>
    /\ stopMark = 0

-----------------------------------------------------------------------------
(* Helpers.                                                                *)

isFull == MaxQueueSize > 0 /\ Len(m_taskQueue) >= MaxQueueSize

At(loc) == {t \in Threads : pc[t] = loc}

\* notify_one: some thread sleeping at `from` goes to `to`; none if none sleeps.
notifyOne(f, from, to) ==
    IF At(from) = {} THEN pc' = f
    ELSE \E s \in At(from) : pc' = [f EXCEPT ![s] = to]

\* Where run() returns to: a worker is inside a task, a producer is not.
callSite(t) == IF t \in Workers THEN "exec" ELSE "out"

-----------------------------------------------------------------------------
(* The owner.                                                              *)

StartBegin ==
    /\ owner = "new"
    /\ owner' = "starting"
    /\ m_running' = TRUE
    /\ UNCHANGED <<m_threads, stopMark, m_taskQueue, pc, arg, cur, submitted, historyVars>>

SpawnWorker(w) ==
    /\ owner = "starting" /\ pc[w] = "none"
    /\ pc' = [pc EXCEPT ![w] = "test"]
    /\ m_threads' = m_threads \cup {w}
    /\ UNCHANGED <<m_running, owner, stopMark, m_taskQueue, arg, cur, submitted, historyVars>>

StartEnd ==
    /\ owner = "starting" /\ m_threads = Workers
    /\ owner' = "running"
    /\ UNCHANGED <<m_running, m_threads, stopMark, m_taskQueue, pc, arg, cur,
                   submitted, historyVars>>

\* Mutant: stop() wakes one worker and leaves the others asleep.
StopBeginWakesOne ==
    /\ owner = "running"
    /\ owner' = "joining"
    /\ m_running' = FALSE
    /\ notifyOne(pc, "waitEmpty", "take")
    /\ stopMark' = Len(taken)
    /\ UNCHANGED <<m_threads, m_taskQueue, arg, cur, submitted, historyVars>>

\* stop(), from the owner or from the destructor: clear the flag, wake everyone
\* waiting for a task (and nobody waiting for room).
StopBegin ==
    /\ owner = "running"
    /\ owner' = "joining"
    /\ m_running' = FALSE
    /\ pc' = [t \in Threads |-> IF pc[t] = "waitEmpty" THEN "take" ELSE pc[t]]
    /\ stopMark' = Len(taken)
    /\ UNCHANGED <<m_threads, m_taskQueue, arg, cur, submitted, historyVars>>

\* join() has returned for every thread.
StopEnd ==
    /\ owner = "joining" /\ \A w \in m_threads : pc[w] = "done"
    /\ owner' = "stopped"
    /\ UNCHANGED <<m_running, m_threads, stopMark, m_taskQueue, pc, arg, cur,
                   submitted, historyVars>>

-----------------------------------------------------------------------------
(* run(), by a producer or by the task a worker executes.                  *)

InClientCode(t) ==
    \/ t \in Producers /\ pc[t] = "out"
    \/ t \in Workers /\ pc[t] = "exec" /\ cur[t] \in Spawning

\* The call, up to taking the lock.  With no threads the caller executes the
\* task itself and the pool's state is untouched.
CallRun(t) ==
    /\ InClientCode(t) /\ owner # "starting"
    /\ \E task \in Tasks \ submitted :
        /\ submitted' = submitted \cup {task}
        /\ IF m_threads = {}
           THEN UNCHANGED <<pc, arg>>
           ELSE /\ pc' = [pc EXCEPT ![t] = "put"]
                /\ arg' = [arg EXCEPT ![t] = task]
    /\ UNCHANGED <<poolVars, m_taskQueue, cur, historyVars>>

\* Mutant: the new task goes to the front of the queue.
pushFront(t) ==
    /\ m_taskQueue' = <<arg[t]>> \o m_taskQueue
    /\ accepted' = Append(accepted, arg[t])
    /\ arg' = [arg EXCEPT ![t] = NoTask]

push(t) ==
    /\ m_taskQueue' = Append(m_taskQueue, arg[t])
    /\ accepted' = Append(accepted, arg[t])
    /\ arg' = [arg EXCEPT ![t] = NoTask]

\* Mutant: the notification is written for an empty queue only.
PutNotifiesWhenEmpty(t) ==
    /\ pc[t] = "put"
    /\ IF isFull
       THEN /\ pc' = [pc EXCEPT ![t] = "waitFull"]
            /\ UNCHANGED <<m_taskQueue, accepted, arg>>
       ELSE /\ push(t)
            /\ LET back == [pc EXCEPT ![t] = callSite(t)]
               IN IF m_taskQueue = <<>> THEN notifyOne(back, "waitEmpty", "take")
                                        ELSE pc' = back
    /\ UNCHANGED <<poolVars, cur, submitted, taken>>

\* Mutant: run() notifies the condition variable of the callers, not of the
\* workers.
PutNotifiesCallers(t) ==
    /\ pc[t] = "put"
    /\ IF isFull
       THEN /\ pc' = [pc EXCEPT ![t] = "waitFull"]
            /\ UNCHANGED <<m_taskQueue, accepted, arg>>
       ELSE /\ push(t)
            /\ notifyOne([pc EXCEPT ![t] = callSite(t)], "waitFull", "put")
    /\ UNCHANGED <<poolVars, cur, submitted, taken>>

\* One turn of the waiting loop of run(), under the lock.
Put(t) ==
    /\ pc[t] = "put"
    /\ IF isFull
       THEN /\ pc' = [pc EXCEPT ![t] = "waitFull"]
            /\ UNCHANGED <<m_taskQueue, accepted, arg>>
       ELSE /\ push(t)
            /\ notifyOne([pc EXCEPT ![t] = callSite(t)], "waitEmpty", "take")
    /\ UNCHANGED <<poolVars, cur, submitted, taken>>

-----------------------------------------------------------------------------
(* runInThread() and take().                                               *)

\* The read of m_running in the loop head, which holds no lock.
TestRunning(w) ==
    /\ pc[w] = "test"
    /\ pc' = [pc EXCEPT ![w] = IF m_running THEN "take" ELSE "done"]
    /\ UNCHANGED <<poolVars, m_taskQueue, arg, cur, submitted, historyVars>>

pop(w) ==
    /\ m_taskQueue' = Tail(m_taskQueue)
    /\ taken' = Append(taken, Head(m_taskQueue))
    /\ cur' = [cur EXCEPT ![w] = Head(m_taskQueue)]

\* Mutant: room is announced only by the take that finds the queue full.
TakeNotifiesWhenFull(w) ==
    /\ pc[w] = "take"
    /\ IF m_taskQueue = <<>>
       THEN /\ pc' = [pc EXCEPT ![w] = IF m_running THEN "waitEmpty" ELSE "test"]
            /\ UNCHANGED <<m_taskQueue, taken, cur>>
       ELSE /\ pop(w)
            /\ LET back == [pc EXCEPT ![w] = "exec"]
               IN IF isFull THEN notifyOne(back, "waitFull", "put") ELSE pc' = back
    /\ UNCHANGED <<poolVars, arg, submitted, accepted>>

\* One turn of the waiting loop of take(), under the lock.  After stop() an
\* empty queue yields the empty Task, which the loop head skips.
Take(w) ==
    /\ pc[w] = "take"
    /\ IF m_taskQueue = <<>>
       THEN /\ pc' = [pc EXCEPT ![w] = IF m_running THEN "waitEmpty" ELSE "test"]
            /\ UNCHANGED <<m_taskQueue, taken, cur>>
       ELSE /\ pop(w)
            /\ LET back == [pc EXCEPT ![w] = "exec"]
               IN IF MaxQueueSize > 0 THEN notifyOne(back, "waitFull", "put") ELSE pc' = back
    /\ UNCHANGED <<poolVars, arg, submitted, accepted>>

\* Mutant: after a task the worker takes the next one without reading m_running.
FinishTaskGreedy(w) ==
    /\ pc[w] = "exec"
    /\ pc' = [pc EXCEPT ![w] = "take"]
    /\ cur' = [cur EXCEPT ![w] = NoTask]
    /\ UNCHANGED <<poolVars, m_taskQueue, arg, submitted, historyVars>>

FinishTask(w) ==
    /\ pc[w] = "exec"
    /\ pc' = [pc EXCEPT ![w] = "test"]
    /\ cur' = [cur EXCEPT ![w] = NoTask]
    /\ UNCHANGED <<poolVars, m_taskQueue, arg, submitted, historyVars>>

\* A condition variable may wake a sleeper that nobody notified.
SpuriousWakeup(t) ==
    /\ \/ pc[t] = "waitFull" /\ pc' = [pc EXCEPT ![t] = "put"]
       \/ pc[t] = "waitEmpty" /\ pc' = [pc EXCEPT ![t] = "take"]
    /\ UNCHANGED <<poolVars, m_taskQueue, arg, cur, submitted, historyVars>>

-----------------------------------------------------------------------------
OwnerStep == StartBegin \/ (\E w \in Workers : SpawnWorker(w)) \/ StartEnd
             \/ StopBegin \/ StopEnd

WorkerStep(w) == TestRunning(w) \/ Take(w) \/ FinishTask(w)

Next ==
    \/ OwnerStep
    \/ \E w \in Workers : WorkerStep(w)
    \/ \E t \in Threads : CallRun(t) \/ Put(t) \/ SpuriousWakeup(t)

Spec == Init /\ [][Next]_vars

\* Every thread that can run does, tasks end, start() and stop() proceed once
\* called; nobody is obliged to call run() or stop(), or to wake spuriously.
Fairness ==
    /\ WF_vars(\E w \in Workers : SpawnWorker(w)) /\ WF_vars(StartEnd) /\ WF_vars(StopEnd)
    /\ \A w \in Workers : WF_vars(WorkerStep(w))
    /\ \A t \in Threads : WF_vars(Put(t))

FairSpec == Spec /\ Fairness

-----------------------------------------------------------------------------
(* Properties.                                                             *)

TypeOK ==
    /\ m_running \in BOOLEAN
    /\ m_threads \subseteq Workers
    /\ m_taskQueue \in Seq(Tasks) /\ accepted \in Seq(Tasks) /\ taken \in Seq(Tasks)
    /\ owner \in {"new", "starting", "running", "joining", "stopped"}
    /\ pc \in [Threads -> {"none", "test", "take", "waitEmpty", "exec", "done",
                           "out", "put", "waitFull"}]
    /\ \A w \in Workers : pc[w] # "out"
    /\ \A p \in Producers : pc[p] \in {"out", "put", "waitFull"}
    /\ \A t \in Threads : IF pc[t] \in {"put", "waitFull"} THEN arg[t] \in Tasks
                                                          ELSE arg[t] = NoTask
    /\ arg \in [Threads -> Tasks \cup {NoTask}]
    /\ cur \in [Threads -> Tasks \cup {NoTask}]
    /\ submitted \subseteq Tasks
    /\ stopMark \in Nat

\* run() never overfills the queue, however the waiters for room are woken.
QueueBounded == MaxQueueSize > 0 => Len(m_taskQueue) <= MaxQueueSize

\* run/take: while a worker sleeps, every queued task has a worker already on
\* its way to it; no notification of m_notEmpty is lost.
NoLostNotEmpty ==
    At("waitEmpty") # {} => Len(m_taskQueue) <= Cardinality(At("take"))

\* take/run: while a caller of run() sleeps, every free place has a caller
\* already on its way to it; no notification of m_notFull is lost.
NoLostNotFull ==
    At("waitFull") # {} => MaxQueueSize <= Len(m_taskQueue) + Cardinality(At("put"))

\* No thread of the pool sleeps through the notification it waits for: with n
\* tasks or n free places, n sleepers are spared or on their way.
NoLostNotify == NoLostNotEmpty /\ NoLostNotFull

\* Tasks are taken in the order run() accepted them, each at most once.
TakenInOrder == accepted = taken \o m_taskQueue

\* stop(): a worker takes at most the one task it was already reaching for, so
\* what is left in the queue is never executed.
StopTakesOneMoreEach ==
    owner \in {"joining", "stopped"}
        => Len(taken) + Cardinality(At("take")) <= stopMark + Cardinality(Workers)

\* stop() returns: no worker sleeps on after m_running is cleared, unless its
\* task called run() on a full queue.
StopReturns ==
    (owner = "joining") ~> (owner = "stopped" \/ Workers \cap At("waitFull") # {})

\* An accepted task is taken by some worker unless the pool is stopped or the
\* tasks of all its workers wait in run() for room that only they could make.
AcceptedIsTaken ==
    \A task \in Tasks :
        (\E i \in DOMAIN accepted : accepted[i] = task)
            ~> \/ ~m_running \/ m_threads \subseteq At("waitFull")
               \/ \E i \in DOMAIN taken : taken[i] = task
=============================================================================
