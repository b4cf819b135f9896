--------------------------------- MODULE Thread ---------------------------------
(***************************************************************************)
(* ybase::Thread with its CountdownLatch, and the two queues threads hand  *)
(* items on with: ConsumerProducerQueue, of limited size, with one         *)
(* condition variable for both ends and its notification after the lock,   *)
(* and BlockingQueue.  An owner constructs Threads, starts, joins and      *)
(* destroys them; their functions add items, move them from one queue to   *)
(* the other, and take them.  A section under a lock is one step; a wait   *)
(* may end without a notification.                                         *)
(***************************************************************************)
EXTENDS Integers, Sequences, FiniteSets

CONSTANTS
    Adders, Movers, Takers,     \* Threads, by what their functions do
    Share,                      \* bound: items each of them handles
    m_maxSize,                  \* of the ConsumerProducerQueue
    MaxClears                   \* bound: calls of clear()

Threads == Adders \cup Movers \cup Takers

ASSUME ThreadAssumption ==
    /\ IsFiniteSet(Threads)
    /\ Adders \cap Movers = {} /\ Movers \cap Takers = {} /\ Adders \cap Takers = {}
    /\ Share \in [Threads -> Nat \ {0}] /\ m_maxSize \in Nat \ {0} /\ MaxClears \in Nat

VARIABLES
    object,             \* "none", "alive" or "destroyed", of each Thread
    m_started, m_joined, m_tid,
    m_count,            \* of its CountdownLatch
    owner,              \* <<"idle">>, or what the owner does to which Thread
    pc,                 \* where the new thread is
    left,               \* items its function has still to handle
    held,               \* the item a mover has in hand
    queue,              \* ConsumerProducerQueue
    waiting,            \* threads asleep on its m_cond
    results,            \* BlockingQueue
    waitingResults,     \* threads asleep on its m_notEmptyCond
    added, taken,       \* history: the items, in the order of the locks
    clears,             \* how often clear() was called
    aborted             \* "no", or why the process ended

objectVars == <<object, m_started, m_joined, m_tid, m_count>>
queueVars == <<queue, waiting, added, clears>>
resultVars == <<results, waitingResults, taken>>
runVars == <<pc, left, held>>
vars == <<objectVars, queueVars, resultVars, runVars, owner, aborted>>

idle == <<"idle">>
none == <<>>

Init ==
    /\ object = [t \in Threads |-> "none"]
    /\ m_started = [t \in Threads |-> FALSE] /\ m_joined = m_started
    /\ m_tid = [t \in Threads |-> 0] /\ m_count = m_tid
    /\ owner = idle
    /\ pc = [t \in Threads |-> "none"]
    /\ left = Share /\ held = [t \in Threads |-> none]
    /\ queue = <<>> /\ waiting = {} /\ added = <<>> /\ clears = 0
    /\ results = <<>> /\ waitingResults = {} /\ taken = <<>>
    /\ aborted = "no"

-----------------------------------------------------------------------------
(* The owner.                                                              *)

\* The latch is made with a count of one.
Construct(t) ==
    /\ aborted = "no" /\ owner = idle /\ object[t] = "none"
    /\ object' = [object EXCEPT ![t] = "alive"]
    /\ m_count' = [m_count EXCEPT ![t] = 1]
    /\ UNCHANGED <<m_started, m_joined, m_tid, queueVars, resultVars, runVars, owner, aborted>>

\* pthread_create makes a thread, or fails, and the Thread can be started anew.
Start(t) ==
    /\ aborted = "no" /\ owner = idle /\ object[t] = "alive" /\ ~m_started[t]
    /\ \/ /\ m_started' = [m_started EXCEPT ![t] = TRUE]
          /\ pc' = [pc EXCEPT ![t] = "tid"]
          /\ owner' = <<"start", t>>
       \/ UNCHANGED <<m_started, pc, owner>>
    /\ UNCHANGED <<object, m_joined, m_tid, m_count, left, held,
                   queueVars, resultVars, aborted>>

\* The wait for the latch is over, and the tid is asserted to be there.
Started(t) ==
    /\ aborted = "no" /\ owner = <<"start", t>> /\ m_count[t] = 0
    /\ owner' = idle
    /\ aborted' = IF m_tid[t] > 0 THEN "no" ELSE "start"
    /\ UNCHANGED <<objectVars, queueVars, resultVars, runVars>>

\* Mutant: join notes that it was called and does not wait.
JoinUnwaited(t) ==
    /\ aborted = "no" /\ owner = idle /\ object[t] = "alive" /\ m_started[t] /\ ~m_joined[t]
    /\ m_joined' = [m_joined EXCEPT ![t] = TRUE]
    /\ UNCHANGED <<object, m_started, m_tid, m_count,
                   queueVars, resultVars, runVars, owner, aborted>>

Join(t) ==
    /\ aborted = "no" /\ owner = idle /\ object[t] = "alive" /\ m_started[t] /\ ~m_joined[t]
    /\ m_joined' = [m_joined EXCEPT ![t] = TRUE]
    /\ owner' = <<"join", t>>
    /\ UNCHANGED <<object, m_started, m_tid, m_count,
                   queueVars, resultVars, runVars, aborted>>

joinable(t) == pc[t] = "ended"

Joined(t) ==
    /\ aborted = "no" /\ owner = <<"join", t>> /\ joinable(t)
    /\ owner' = idle
    /\ UNCHANGED <<objectVars, queueVars, resultVars, runVars, aborted>>

\* ~Thread detaches a thread that was not joined; that thread runs on.  The test
\* of this class destroys ten Threads so, ThreadPool and main only joined ones.
Destroy(t) ==
    /\ aborted = "no" /\ owner = idle /\ object[t] = "alive"
    /\ object' = [object EXCEPT ![t] = "destroyed"]
    /\ UNCHANGED <<m_started, m_joined, m_tid, m_count,
                   queueVars, resultVars, runVars, owner, aborted>>

-----------------------------------------------------------------------------
(* Thread::run.                                                            *)

goes(t, from, to) == aborted = "no" /\ pc[t] = from /\ pc' = [pc EXCEPT ![t] = to]

\* The tid the kernel gave, which is kept for the thread; all are one here.
getTid == 1

\* Mutant: the latch is counted down before the tid is there.
RunTidLast(t) ==
    \/ /\ goes(t, "tid", "latch")
       /\ m_count' = [m_count EXCEPT ![t] = @ - 1] /\ UNCHANGED m_tid
    \/ /\ goes(t, "latch", "name")
       /\ m_tid' = [m_tid EXCEPT ![t] = getTid] /\ UNCHANGED m_count

RunTid(t) ==
    \/ /\ goes(t, "tid", "latch")
       /\ m_tid' = [m_tid EXCEPT ![t] = getTid] /\ UNCHANGED m_count
    \/ /\ goes(t, "latch", "name")
       /\ m_count' = [m_count EXCEPT ![t] = @ - 1] /\ UNCHANGED m_tid

Run(t) ==
    /\ \/ RunTid(t)
       \/ /\ goes(t, "name", "work") /\ UNCHANGED <<m_tid, m_count>>
    /\ UNCHANGED <<object, m_started, m_joined, left, held,
                   queueVars, resultVars, owner, aborted>>

\* m_func throws: run tells the name of the Thread, and the process ends.
Throws(t) ==
    /\ aborted = "no" /\ pc[t] = "work" /\ t \notin waiting \cup waitingResults
    /\ aborted' = "exception"
    /\ UNCHANGED <<objectVars, queueVars, resultVars, runVars, owner>>

\* The name, the function or what it captured is read in a Thread that is gone.
\* The process may end of it; it may also go on, by the other steps.
ReadsDead(t) ==
    /\ aborted = "no" /\ object[t] = "destroyed" /\ pc[t] \notin {"none", "ended"}
    /\ aborted' = "freed"
    /\ UNCHANGED <<objectVars, queueVars, resultVars, runVars, owner>>

\* One item is done, or the last, and m_func and run return.
done(t) ==
    /\ left' = [left EXCEPT ![t] = @ - 1]
    /\ pc' = [pc EXCEPT ![t] = IF left[t] = 1 THEN "ended" ELSE "work"]

-----------------------------------------------------------------------------
(* ConsumerProducerQueue.                                                  *)

\* Mutant: full one item too soon.
isFullTooSoon == Len(queue) + 1 >= m_maxSize

isFull == Len(queue) >= m_maxSize
isEmpty == queue = <<>>

\* A wait ends by a notification, and may by itself; the condition is looked at again.
Wakes(t) ==
    /\ aborted = "no"
    /\ \/ t \in waiting /\ waiting' = waiting \ {t} /\ UNCHANGED waitingResults
       \/ t \in waitingResults /\ waitingResults' = waitingResults \ {t} /\ UNCHANGED waiting
    /\ UNCHANGED <<objectVars, queue, added, clears, results, taken, runVars, owner, aborted>>

\* The two ends of the queue, under the lock; the notification is yet to come.
Add(t) ==
    /\ t \in Adders /\ t \notin waiting /\ aborted = "no" /\ pc[t] = "work"
    /\ \/ /\ isFull /\ waiting' = waiting \cup {t} /\ UNCHANGED <<queue, added, pc>>
       \/ /\ ~isFull /\ goes(t, "work", "notify")
          /\ queue' = Append(queue, <<t, left[t]>>) /\ added' = Append(added, <<t, left[t]>>)
          /\ UNCHANGED waiting
    /\ UNCHANGED <<objectVars, resultVars, left, held, clears, owner, aborted>>

Consume(t) ==
    /\ t \in Movers /\ t \notin waiting /\ aborted = "no" /\ pc[t] = "work"
    /\ \/ /\ isEmpty /\ waiting' = waiting \cup {t} /\ UNCHANGED <<queue, held, pc>>
       \/ /\ ~isEmpty /\ goes(t, "work", "notify")
          /\ queue' = Tail(queue) /\ held' = [held EXCEPT ![t] = Head(queue)]
          /\ UNCHANGED waiting
    /\ UNCHANGED <<objectVars, resultVars, left, added, clears, owner, aborted>>

\* Mutant: only one of the threads that wait is woken.
notifyOne == \E t \in waiting : waiting' = waiting \ {t}

notifyAll == waiting' = {}

Notify(t) ==
    /\ aborted = "no" /\ pc[t] = "notify"
    /\ notifyAll \/ (waiting = {} /\ UNCHANGED waiting)
    /\ IF t \in Adders THEN done(t) ELSE pc' = [pc EXCEPT ![t] = "put"] /\ UNCHANGED left
    /\ UNCHANGED <<objectVars, resultVars, queue, added, clears, held, owner, aborted>>

\* clear() by the owner: what waited to be consumed is lost.
Clear ==
    /\ aborted = "no" /\ owner = idle /\ clears < MaxClears
    /\ clears' = clears + 1
    /\ queue' = <<>> /\ owner' = <<"notify">>
    /\ UNCHANGED <<objectVars, resultVars, waiting, added, runVars, aborted>>

ClearNotifies ==
    /\ aborted = "no" /\ owner = <<"notify">>
    /\ owner' = idle
    /\ notifyAll \/ (waiting = {} /\ UNCHANGED waiting)
    /\ UNCHANGED <<objectVars, resultVars, queue, added, clears, runVars, aborted>>

-----------------------------------------------------------------------------
(* BlockingQueue.                                                          *)

notifyOneTaker ==
    IF waitingResults = {} THEN UNCHANGED waitingResults
    ELSE \E u \in waitingResults : waitingResults' = waitingResults \ {u}

\* notify_one under the lock.
Put(t) ==
    /\ aborted = "no" /\ t \in Movers /\ pc[t] = "put"
    /\ results' = Append(results, held[t])
    /\ held' = [held EXCEPT ![t] = none]
    /\ notifyOneTaker
    /\ done(t)
    /\ UNCHANGED <<objectVars, queueVars, taken, owner, aborted>>

\* Mutant: the newest item is given, and the oldest removed.
newest == results[Len(results)]

front == Head(results)

Take(t) ==
    /\ aborted = "no" /\ t \in Takers /\ t \notin waitingResults /\ pc[t] = "work"
    /\ \/ /\ results = <<>> /\ waitingResults' = waitingResults \cup {t}
          /\ UNCHANGED <<results, taken, pc, left>>
       \/ /\ results # <<>>
          /\ results' = Tail(results) /\ taken' = Append(taken, front)
          /\ done(t) /\ UNCHANGED waitingResults
    /\ UNCHANGED <<objectVars, queueVars, held, owner, aborted>>

-----------------------------------------------------------------------------
Owner ==
    \/ \E t \in Threads : Construct(t) \/ Start(t) \/ Started(t) \/ Join(t) \/ Joined(t) \/ Destroy(t)
    \/ Clear \/ ClearNotifies

Step(t) ==
    Run(t) \/ Add(t) \/ Consume(t) \/ Notify(t) \/ Put(t) \/ Take(t)

Next == Owner \/ \E t \in Threads : Step(t) \/ Throws(t) \/ ReadsDead(t) \/ Wakes(t)

Spec == Init /\ [][Next]_vars

\* The scheduler runs every thread that can run; a notification is needed to
\* end a wait, and pthread_create fails only so often.
Fairness ==
    /\ \A t \in Threads : WF_vars(Step(t))
    /\ WF_vars(ClearNotifies \/ \E t \in Threads : Started(t) \/ Joined(t))

FairSpec == Spec /\ Fairness

-----------------------------------------------------------------------------
(* Properties.                                                             *)

TypeOK ==
    /\ object \in [Threads -> {"none", "alive", "destroyed"}]
    /\ m_started \in [Threads -> BOOLEAN] /\ m_joined \in [Threads -> BOOLEAN]
    /\ m_tid \in [Threads -> Nat] /\ m_count \in [Threads -> 0..1]
    /\ clears \in 0..MaxClears
    /\ owner \in {idle, <<"notify">>} \cup ({"start", "join"} \X Threads)
    /\ pc \in [Threads -> {"none", "tid", "latch", "name", "work", "notify", "put", "ended"}]
    /\ \A t \in Threads : left[t] \in 0..Share[t]
    /\ held \in [Threads -> {none} \cup (Adders \X Nat)]
    /\ queue \in Seq(Adders \X Nat) /\ Len(queue) <= m_maxSize
    /\ results \in Seq(Adders \X Nat)
    /\ waiting \subseteq Adders \cup Movers /\ waitingResults \subseteq Takers
    /\ aborted \in {"no", "start", "exception", "freed"}

\* start() waits until its thread has stored the tid, so it returns with the tid
\* known and the Thread cannot go before that; join() waits for the end, so the
\* thread of a joined Thread never reads one that is gone.
ObjectOutlives ==
    /\ TypeOK
    /\ aborted # "start"
    /\ \A t \in Threads : (object[t] = "destroyed" /\ pc[t] \notin {"none", "ended"}) =>
            m_tid[t] > 0 /\ m_count[t] = 0 /\ ~m_joined[t]
    /\ aborted = "freed" => \E t \in Threads : object[t] = "destroyed" /\ ~m_joined[t]

\* With both ends on one condition variable and the notification after the
\* lock, whoever sleeps has a reason to, or is about to be woken.
NoLostWakeup ==
    (aborted = "no" /\ owner # <<"notify">> /\ \A t \in Threads : pc[t] # "notify") =>
        \A t \in waiting : (t \in Adders => isFull) /\ (t \in Movers => isEmpty)

\* Items are not lost but by clear(), nor handled twice, and those of one adder
\* come in the order of their being added.
EachItemOnce ==
    LET inHand == {held[t] : t \in Movers} \ {none}
        seen == {taken[i] : i \in DOMAIN taken} \cup {results[i] : i \in DOMAIN results}
                \cup inHand \cup {queue[i] : i \in DOMAIN queue}
    IN  /\ Len(taken) + Len(results) + Cardinality(inHand) + Len(queue) = Cardinality(seen)
        /\ seen \subseteq {added[i] : i \in DOMAIN added}
        /\ clears = 0 => Cardinality(seen) = Len(added)
        /\ Cardinality(Movers) = 1 =>
              \A i, j \in DOMAIN taken : (i < j /\ taken[i][1] = taken[j][1]) => taken[i][2] > taken[j][2]

\* A join that waits for a thread whose partners run returns.
JoinReturns ==
    (owner[1] = "join" /\ \A u \in Threads : m_started[u]) ~>
        (owner = idle \/ aborted # "no" \/ clears > 0)
=============================================================================
