------------------------------ MODULE ThreadProofs ------------------------------
(***************************************************************************)
(* Thread and its queues for every set of threads, every share of items    *)
(* and every size of the queue: a joined Thread outlives the thread that   *)
(* runs it, no notification is lost, every item is handled once, in order. *)
(***************************************************************************)
EXTENDS Thread, SequenceTheorems, FiniteSetTheorems, TLAPS

Item == Adders \X Nat

Held == {held[t] : t \in Movers} \ {none}

\* Where the threads are, what the latch and the tid say, and whom the owner awaits.
Life ==
    /\ left \in [Threads -> Nat]
    /\ \A t \in Threads :
        /\ pc[t] # "none" <=> m_started[t]
        /\ m_started[t] => object[t] # "none"
        /\ m_joined[t] => m_started[t]
        /\ pc[t] \in {"tid", "latch"} => m_count[t] = 1
        /\ pc[t] = "none" /\ object[t] = "alive" => m_count[t] = 1
        /\ pc[t] \notin {"none", "tid"} => m_tid[t] > 0
        /\ owner = <<"start", t>> => m_started[t]
        /\ m_joined[t] /\ owner # <<"join", t>> => pc[t] = "ended"
        /\ pc[t] # "ended" => left[t] > 0
    /\ aborted # "start"

\* Only the threads whose functions do so notify or put, and a mover has an
\* item in hand in between.
InHand ==
    /\ \A t \in Threads :
        /\ pc[t] = "notify" => t \in Adders \cup Movers
        /\ pc[t] = "put" => t \in Movers
    /\ \A t \in Movers : held[t] # none <=> pc[t] \in {"notify", "put"}

TypeInv == TypeOK /\ Life /\ InHand

\* Until the latch is down the owner is in start(); a joined thread has ended or
\* the owner waits for its end.
Owned ==
    /\ \A t \in Threads :
        /\ pc[t] \in {"tid", "latch"} => object[t] = "alive" /\ owner = <<"start", t>>
        /\ pc[t] \notin {"none", "tid", "latch"} => m_count[t] = 0
        /\ object[t] = "destroyed" /\ pc[t] \notin {"none", "ended"} => ~m_joined[t]
    /\ aborted = "freed" => \E t \in Threads : object[t] = "destroyed" /\ ~m_joined[t]

\* A notification is on its way while a thread sleeps without a reason.
Awaited ==
    \/ owner = <<"notify">> \/ \E t \in Threads : pc[t] = "notify"
    \/ \A t \in waiting : (t \in Adders => isFull) /\ (t \in Movers => isEmpty)

\* What was added is numbered downwards, so the next item is a new one.
Numbered ==
    /\ added \in Seq(Item) /\ taken \in Seq(Item)
    /\ \A x \in Range(added) :
        /\ x[2] >= left[x[1]]
        /\ pc[x[1]] # "notify" => x[2] > left[x[1]]

\* Every item is in one place.
Placed ==
    /\ IsInjective(added) /\ IsInjective(queue) /\ IsInjective(results) /\ IsInjective(taken)
    /\ \A u, v \in Movers : held[u] = held[v] /\ held[u] # none => u = v
    /\ Range(queue) \cap Held = {} /\ Range(queue) \cap Range(results) = {}
    /\ Range(queue) \cap Range(taken) = {} /\ Held \cap Range(results) = {}
    /\ Held \cap Range(taken) = {} /\ Range(results) \cap Range(taken) = {}

Seen == Range(taken) \cup Range(results) \cup Held \cup Range(queue)

\* Nothing comes from nowhere, and nothing is lost but by clear().
Kept == Seen \subseteq Range(added) /\ (clears = 0 => Range(added) \subseteq Seen)

\* Of one adder, x was added before y.
Before(x, y) == x[1] = y[1] => x[2] > y[2]
AllBefore(A, B) == \A x \in A, y \in B : Before(x, y)
Ordered(s) == \A i, j \in DOMAIN s : i < j => Before(s[i], s[j])

\* From the taken items back to the queue the numbers of an adder grow smaller.
InOrder ==
    /\ Ordered(queue)
    /\ (\A u, v \in Movers : u = v) =>
        /\ Ordered(results) /\ Ordered(taken)
        /\ AllBefore(Held, Range(queue)) /\ AllBefore(Range(results), Range(queue))
        /\ AllBefore(Range(taken), Range(queue)) /\ AllBefore(Range(results), Held)
        /\ AllBefore(Range(taken), Held) /\ AllBefore(Range(taken), Range(results))

-----------------------------------------------------------------------------
\* An item is a pair, and not the empty hand.
LEMMA ItemIsThere ==
    ASSUME NEW x \in Item
    PROVE  x # none /\ x[1] \in Adders /\ x[2] \in Nat
  <1>1. PICK a \in Adders, n \in Nat : x = <<a, n>>
    BY DEF Item
  <1>2. Len(<<a, n>>) = 2 /\ Len(<<>>) = 0
    OBVIOUS
  <1> QED BY <1>1, <1>2 DEF none

(* Types, and the life of a Thread.                                        *)

\* The invariant holds before the first Thread is made.
LEMMA InitType == Init => TypeInv
  <1> SUFFICES ASSUME Init PROVE TypeInv
    OBVIOUS
  <1>1. \A t \in Threads : Share[t] \in Nat \ {0}
    BY ThreadAssumption
  <1>2. left \in [Threads -> Nat]
    BY ThreadAssumption DEF Init
  <1>3. queue \in Seq(Item) /\ results \in Seq(Item) /\ Len(queue) = 0
    BY DEF Init
  <1>4. m_maxSize \in Nat \ {0} /\ MaxClears \in Nat
    BY ThreadAssumption
  <1>5. TypeOK
    BY <1>1, <1>3, <1>4 DEF Init, TypeOK, Item
  <1>6. Life
    BY <1>1, <1>2 DEF Init, Life, idle
  <1>7. InHand
    BY DEF Init, InHand, Threads, none
  <1> QED BY <1>5, <1>6, <1>7 DEF TypeInv

\* The owner's operations, except those on the queue.
LEMMA OwnerTypeOK ==
    ASSUME TypeInv, NEW t \in Threads,
           Construct(t) \/ Start(t) \/ Started(t) \/ Join(t) \/ Joined(t) \/ Destroy(t)
    PROVE  TypeOK'
  <1> USE DEF TypeInv, TypeOK, queueVars, resultVars, runVars, objectVars, idle
  <1>1. CASE Construct(t)
    BY <1>1 DEF Construct
  <1>2. CASE Start(t)
    <2>1. CASE UNCHANGED <<m_started, pc, owner>>
      BY <1>2, <2>1 DEF Start
    <2>2. CASE ~UNCHANGED <<m_started, pc, owner>>
      <3>1. /\ m_started' = [m_started EXCEPT ![t] = TRUE]
            /\ pc' = [pc EXCEPT ![t] = "tid"] /\ owner' = <<"start", t>>
        BY <1>2, <2>2 DEF Start
      <3> QED BY <1>2, <3>1 DEF Start
    <2> QED BY <2>1, <2>2
  <1>3. CASE Started(t)
    BY <1>3 DEF Started
  <1>4. CASE Join(t)
    BY <1>4 DEF Join
  <1>5. CASE Joined(t)
    BY <1>5 DEF Joined
  <1>6. CASE Destroy(t)
    BY <1>6 DEF Destroy
  <1> QED BY <1>1, <1>2, <1>3, <1>4, <1>5, <1>6

\* They keep the order of a Thread's life.
LEMMA OwnerLife ==
    ASSUME TypeInv, NEW t \in Threads,
           Construct(t) \/ Start(t) \/ Started(t) \/ Join(t) \/ Joined(t) \/ Destroy(t)
    PROVE  Life' /\ InHand'
  <1> USE DEF TypeInv, TypeOK, Life, InHand, queueVars, resultVars, runVars, objectVars, idle
  <1>1. CASE Construct(t)
    BY <1>1 DEF Construct
  <1>2. CASE Start(t)
    <2>1. CASE UNCHANGED <<m_started, pc, owner>>
      BY <1>2, <2>1 DEF Start
    <2>2. CASE ~UNCHANGED <<m_started, pc, owner>>
      <3>1. /\ m_started' = [m_started EXCEPT ![t] = TRUE]
            /\ pc' = [pc EXCEPT ![t] = "tid"] /\ owner' = <<"start", t>>
            /\ pc[t] = "none" /\ ~m_joined[t] /\ object[t] = "alive"
            /\ UNCHANGED <<object, m_joined, m_tid, m_count, left, held, aborted>>
        BY <1>2, <2>2 DEF Start
      <3>2. /\ pc'[t] = "tid" /\ m_started'[t] /\ m_count[t] = 1
            /\ \A u \in Threads \ {t} : pc'[u] = pc[u] /\ m_started'[u] = m_started[u]
        BY <3>1
      <3>5. \A u \in Threads : m_joined[u] => pc[u] = "ended"
        BY <1>2 DEF Start
      <3>6. \A u \in Threads : owner' = <<"start", u>> => u = t
        BY <3>1
      <3>3. Life'
        <4>1. ASSUME NEW u \in Threads, u # t
              PROVE  (owner' = <<"start", u>> => m_started'[u])
                     /\ (m_joined'[u] /\ owner' # <<"join", u>> => pc'[u] = "ended")
          BY <4>1, <3>1, <3>2, <3>5, <3>6
        <4> QED BY <4>1, <3>1, <3>2
      <3>4. InHand'
        BY <3>1, <3>2 DEF Threads
      <3> QED BY <3>3, <3>4
    <2> QED BY <2>1, <2>2
  <1>3. CASE Started(t)
    BY <1>3 DEF Started
  <1>4. CASE Join(t)
    BY <1>4 DEF Join
  <1>5. CASE Joined(t)
    BY <1>5 DEF Joined, joinable
  <1>6. CASE Destroy(t)
    BY <1>6 DEF Destroy
  <1> QED BY <1>1, <1>2, <1>3, <1>4, <1>5, <1>6

\* Thread::run up to the function, a function that throws, and a wait that ends.
LEMMA RunType ==
    ASSUME TypeInv, NEW t \in Threads, Run(t) \/ Throws(t) \/ ReadsDead(t) \/ Wakes(t)
    PROVE  TypeInv'
  <1> USE DEF TypeInv, TypeOK, Life, InHand, queueVars, resultVars, runVars, objectVars, idle
  <1>1. CASE Run(t)
    <2>1. CASE RunTid(t) /\ pc[t] = "tid"
      <3>1. m_tid' = [m_tid EXCEPT ![t] = 1] /\ m_count' = m_count
        BY <2>1 DEF RunTid, goes, getTid
      <3>2. pc' = [pc EXCEPT ![t] = "latch"]
        BY <2>1 DEF RunTid, goes
      <3> QED BY <1>1, <3>1, <3>2, <2>1 DEF Run
    <2>2. CASE RunTid(t) /\ pc[t] = "latch"
      <3>1. m_count[t] = 1 /\ m_count' = [m_count EXCEPT ![t] = 0]
        BY <2>2 DEF RunTid, goes
      <3>2. pc' = [pc EXCEPT ![t] = "name"] /\ m_tid' = m_tid
        BY <2>2 DEF RunTid, goes
      <3> QED BY <1>1, <3>1, <3>2, <2>2 DEF Run
    <2>3. CASE goes(t, "name", "work") /\ UNCHANGED <<m_tid, m_count>>
      BY <1>1, <2>3 DEF Run, goes
    <2> QED BY <1>1, <2>1, <2>2, <2>3 DEF Run, RunTid, goes
  <1>2. CASE Throws(t) \/ ReadsDead(t)
    BY <1>2 DEF Throws, ReadsDead
  <1>3. CASE Wakes(t)
    BY <1>3 DEF Wakes
  <1> QED BY <1>1, <1>2, <1>3

\* Only a thread that runs its function comes to one of these steps; and it moves on
\* without touching what the owner knows of it.
LEMMA WorkerLife ==
    ASSUME TypeInv, NEW t \in Threads, pc[t] \in {"work", "notify", "put"},
           UNCHANGED <<objectVars, owner, aborted>>,
           \/ pc' = pc /\ left' = left
           \/ pc' = [pc EXCEPT ![t] = "notify"] /\ left' = left
           \/ pc' = [pc EXCEPT ![t] = "put"] /\ left' = left
           \/ done(t)
    PROVE  /\ Life' /\ pc' \in [Threads -> {"none", "tid", "latch", "name", "work", "notify", "put", "ended"}]
           /\ \A u \in Threads : left'[u] \in 0..Share[u]
  <1>1. left[t] \in Nat \ {0} /\ \A u \in Threads : Share[u] \in Nat
    <2>1. left \in [Threads -> Nat] /\ left[t] > 0
      BY DEF TypeInv, Life
    <2> QED BY <2>1, ThreadAssumption
  <1> USE DEF TypeInv, TypeOK, Life, objectVars
  <1>2. CASE pc' = pc /\ left' = left
    BY <1>2
  <1>4. ASSUME NEW p \in {"notify", "put"}, pc' = [pc EXCEPT ![t] = p], left' = left
        PROVE  /\ Life' /\ \A u \in Threads : left'[u] \in 0..Share[u]
               /\ pc' \in [Threads -> {"none", "tid", "latch", "name", "work", "notify", "put", "ended"}]
    <2>1. pc'[t] = p /\ \A u \in Threads \ {t} : pc'[u] = pc[u]
      BY <1>4
    <2>2. m_started[t] /\ m_tid[t] > 0 /\ left[t] > 0 /\ ~(m_joined[t] /\ owner # <<"join", t>>)
      OBVIOUS
    <2>3. Life'
      BY <1>4, <2>1, <2>2
    <2> QED BY <1>4, <2>3
  <1>3. CASE done(t)
    <2>1. left' = [left EXCEPT ![t] = left[t] - 1]
      BY <1>3 DEF done
    <2>2. /\ left' \in [Threads -> Nat] /\ left'[t] = left[t] - 1
          /\ \A u \in Threads \ {t} : left'[u] = left[u]
      BY <1>1, <2>1
    <2>3. pc' = [pc EXCEPT ![t] = IF left[t] = 1 THEN "ended" ELSE "work"]
      BY <1>3 DEF done
    <2>4. /\ pc'[t] \in {"ended", "work"} /\ (pc'[t] # "ended" => left[t] > 1)
          /\ \A u \in Threads \ {t} : pc'[u] = pc[u]
      BY <1>1, <2>3
    <2>5. \A u \in Threads : left'[u] \in 0..Share[u]
      BY <1>1, <2>2
    <2>6. Life'
      <3>1. ASSUME NEW u \in Threads, u # t
            PROVE  pc'[u] = pc[u] /\ left'[u] = left[u]
        BY <3>1, <2>2, <2>4
      <3>2. \A u \in Threads : pc'[u] # "ended" => left'[u] > 0
        BY <1>1, <2>2, <2>4
      <3>3. m_started[t] /\ m_tid[t] > 0 /\ ~(m_joined[t] /\ owner # <<"join", t>>)
        OBVIOUS
      <3> QED BY <2>2, <2>4, <3>1, <3>2, <3>3
    <2> QED BY <2>3, <2>5, <2>6
  <1> QED BY <1>2, <1>3, <1>4

\* The two ends of the ConsumerProducerQueue, and what they tell the sleepers.
LEMMA QueueType ==
    ASSUME TypeInv, NEW t \in Threads, Add(t) \/ Consume(t) \/ Notify(t)
    PROVE  TypeInv'
  <1> USE DEF queueVars, resultVars, runVars
  <1>1. /\ m_maxSize \in Nat \ {0} /\ Adders \cap Movers = {}
        /\ queue \in Seq(Item) /\ Len(queue) \in Nat /\ Len(queue) <= m_maxSize
        /\ t \in Adders => <<t, left[t]>> \in Item
    BY ThreadAssumption DEF TypeInv, TypeOK, Item, Life
  <1>2. CASE Add(t)
    <2>1. pc[t] = "work" /\ t \in Adders /\ UNCHANGED <<objectVars, resultVars, left, held, clears, owner, aborted>>
      BY <1>2 DEF Add
    <2>2. CASE isFull /\ waiting' = waiting \cup {t} /\ UNCHANGED <<queue, added, pc>>
      <3>1. Life'
        BY <2>1, <2>2, WorkerLife
      <3>2. TypeOK' /\ InHand'
        BY <2>1, <2>2 DEF TypeInv, TypeOK, InHand, objectVars
      <3> QED BY <3>1, <3>2 DEF TypeInv
    <2>3. CASE ~isFull /\ queue' = Append(queue, <<t, left[t]>>) /\ UNCHANGED waiting
               /\ pc' = [pc EXCEPT ![t] = "notify"]
      <3>1. Life' /\ pc' \in [Threads -> {"none", "tid", "latch", "name", "work", "notify", "put", "ended"}]
        BY <2>1, <2>3, WorkerLife
      <3>2. queue' \in Seq(Item) /\ Len(queue') <= m_maxSize
        BY <1>1, <2>1, <2>3 DEF isFull
      <3>3. TypeOK'
        BY <2>1, <2>3, <3>1, <3>2 DEF TypeInv, TypeOK, Item, objectVars
      <3>4. InHand'
        BY <1>1, <2>1, <2>3 DEF TypeInv, TypeOK, InHand
      <3> QED BY <3>1, <3>3, <3>4 DEF TypeInv
    <2> QED BY <1>2, <2>2, <2>3 DEF Add, goes
  <1>3. CASE Consume(t)
    <2>1. pc[t] = "work" /\ t \in Movers
          /\ UNCHANGED <<objectVars, resultVars, left, added, clears, owner, aborted>>
      BY <1>3 DEF Consume
    <2>2. CASE isEmpty /\ waiting' = waiting \cup {t} /\ UNCHANGED <<queue, held, pc>>
      <3>1. Life'
        BY <2>1, <2>2, WorkerLife
      <3>2. TypeOK' /\ InHand'
        BY <2>1, <2>2 DEF TypeInv, TypeOK, InHand, objectVars
      <3> QED BY <3>1, <3>2 DEF TypeInv
    <2>3. CASE ~isEmpty /\ queue' = Tail(queue) /\ held' = [held EXCEPT ![t] = Head(queue)]
               /\ UNCHANGED waiting /\ pc' = [pc EXCEPT ![t] = "notify"]
      <3>1. Life' /\ pc' \in [Threads -> {"none", "tid", "latch", "name", "work", "notify", "put", "ended"}]
        BY <2>1, <2>3, WorkerLife
      <3>2. Head(queue) \in Item /\ queue' \in Seq(Item) /\ Len(queue') <= m_maxSize
        BY <1>1, <2>3, HeadTailProperties DEF isEmpty
      <3>3. TypeOK'
        BY <2>1, <2>3, <3>1, <3>2 DEF TypeInv, TypeOK, Item, objectVars
      <3>4. held'[t] # none
        BY <2>3, <3>2, ItemIsThere DEF TypeInv, TypeOK
      <3>5. InHand'
        BY <2>1, <2>3, <3>4 DEF TypeInv, TypeOK, InHand
      <3> QED BY <3>1, <3>3, <3>5 DEF TypeInv
    <2> QED BY <1>3, <2>2, <2>3 DEF Consume, goes
  <1>4. CASE Notify(t)
    <2>1. pc[t] = "notify" /\ waiting' = {}
          /\ UNCHANGED <<objectVars, resultVars, queue, added, clears, held, owner, aborted>>
      BY <1>4 DEF Notify, notifyAll
    <2>2. CASE t \in Adders
      <3>1. done(t)
        BY <1>4, <2>2 DEF Notify
      <3>2. Life' /\ pc' \in [Threads -> {"none", "tid", "latch", "name", "work", "notify", "put", "ended"}]
            /\ \A u \in Threads : left'[u] \in 0..Share[u]
        BY <2>1, <3>1, WorkerLife
      <3>3. TypeOK'
        BY <2>1, <3>2 DEF TypeInv, TypeOK, objectVars
      <3>4. pc'[t] \in {"ended", "work"} /\ \A u \in Threads \ {t} : pc'[u] = pc[u]
        BY <3>1 DEF done, TypeInv, TypeOK
      <3>5. InHand'
        BY <1>1, <2>1, <2>2, <3>4 DEF TypeInv, InHand, Threads
      <3> QED BY <3>2, <3>3, <3>5 DEF TypeInv
    <2>3. CASE t \notin Adders
      <3>1. pc' = [pc EXCEPT ![t] = "put"] /\ left' = left
        BY <1>4, <2>3 DEF Notify
      <3>2. Life' /\ pc' \in [Threads -> {"none", "tid", "latch", "name", "work", "notify", "put", "ended"}]
        BY <2>1, <3>1, WorkerLife
      <3>3. TypeOK'
        BY <2>1, <3>1, <3>2 DEF TypeInv, TypeOK, objectVars
      <3>4. InHand'
        BY <2>1, <2>3, <3>1 DEF TypeInv, TypeOK, InHand
      <3> QED BY <3>2, <3>3, <3>4 DEF TypeInv
    <2> QED BY <2>2, <2>3
  <1> QED BY <1>2, <1>3, <1>4

\* clear(), its notification, and the two ends of the BlockingQueue.
LEMMA ResultType ==
    ASSUME TypeInv
    PROVE  /\ Clear \/ ClearNotifies => TypeInv'
           /\ \A t \in Threads : Put(t) \/ Take(t) => TypeInv'
  <1> USE DEF resultVars, runVars, queueVars
  <1>1. /\ m_maxSize \in Nat \ {0} /\ MaxClears \in Nat /\ Movers \cap Takers = {}
        /\ results \in Seq(Item) /\ waitingResults \subseteq Takers
    BY ThreadAssumption DEF TypeInv, TypeOK, Item
  <1>2. ASSUME Clear PROVE TypeInv'
    <2>1. queue' = <<>> /\ owner' = <<"notify">> /\ clears' \in 0..MaxClears /\ owner = idle
      BY <1>1, <1>2 DEF Clear, TypeInv, TypeOK
    <2>2. queue' \in Seq(Item) /\ Len(queue') = 0
      BY <2>1
    <2>3. TypeOK'
      BY <1>1, <1>2, <2>1, <2>2 DEF Clear, TypeInv, TypeOK, Item, objectVars
    <2>4. Life' /\ InHand'
      BY <1>2, <2>1 DEF Clear, TypeInv, Life, InHand, objectVars, idle
    <2> QED BY <2>3, <2>4 DEF TypeInv
  <1>3. ASSUME ClearNotifies PROVE TypeInv'
    <2>1. waiting' = {}
      BY <1>3 DEF ClearNotifies, notifyAll
    <2> QED BY <1>3, <2>1 DEF ClearNotifies, TypeInv, TypeOK, Life, InHand, objectVars, idle
  <1>4. ASSUME NEW t \in Threads, Put(t) PROVE TypeInv'
    <2>1. pc[t] = "put" /\ t \in Movers /\ done(t) /\ results' = Append(results, held[t])
          /\ held' = [held EXCEPT ![t] = none]
          /\ UNCHANGED <<objectVars, queue, waiting, added, clears, taken, owner, aborted>>
      BY <1>4 DEF Put
    <2>2. Life' /\ pc' \in [Threads -> {"none", "tid", "latch", "name", "work", "notify", "put", "ended"}]
          /\ \A u \in Threads : left'[u] \in 0..Share[u]
      BY <2>1, WorkerLife
    <2>3. held[t] \in Item
      BY <2>1 DEF TypeInv, TypeOK, InHand, Item
    <2>4. results' \in Seq(Item)
      BY <1>1, <2>1, <2>3
    <2>5. waitingResults' \subseteq Takers
      BY <1>1, <1>4 DEF Put, notifyOneTaker
    <2>6. TypeOK'
      BY <2>1, <2>2, <2>4, <2>5 DEF TypeInv, TypeOK, Item, objectVars
    <2>7. pc'[t] \in {"ended", "work"} /\ \A u \in Threads \ {t} : pc'[u] = pc[u]
      BY <2>1 DEF done, TypeInv, TypeOK
    <2>8. held'[t] = none /\ \A u \in Threads \ {t} : held'[u] = held[u]
      BY <2>1 DEF TypeInv, TypeOK
    <2>9. InHand'
      BY <2>1, <2>7, <2>8 DEF TypeInv, InHand, Threads
    <2> QED BY <2>2, <2>6, <2>9 DEF TypeInv
  <1>5. ASSUME NEW t \in Threads, Take(t) PROVE TypeInv'
    <2>1. pc[t] = "work" /\ t \in Takers
          /\ UNCHANGED <<objectVars, queue, waiting, added, clears, held, owner, aborted>>
      BY <1>5 DEF Take
    <2>2. CASE waitingResults' = waitingResults \cup {t} /\ UNCHANGED <<results, taken, pc, left>>
      <3>1. Life'
        BY <2>1, <2>2, WorkerLife
      <3> QED BY <2>1, <2>2, <3>1 DEF TypeInv, TypeOK, InHand, objectVars
    <2>3. CASE results # <<>> /\ results' = Tail(results) /\ done(t) /\ UNCHANGED waitingResults
      <3>1. Life' /\ pc' \in [Threads -> {"none", "tid", "latch", "name", "work", "notify", "put", "ended"}]
            /\ \A u \in Threads : left'[u] \in 0..Share[u]
        BY <2>1, <2>3, WorkerLife
      <3>2. results' \in Seq(Item)
        BY <1>1, <2>3, HeadTailProperties
      <3>3. TypeOK'
        BY <2>1, <2>3, <3>1, <3>2 DEF TypeInv, TypeOK, Item, objectVars
      <3>4. pc'[t] \in {"ended", "work"} /\ \A u \in Threads \ {t} : pc'[u] = pc[u]
        BY <2>3 DEF done, TypeInv, TypeOK
      <3>5. InHand'
        BY <1>1, <2>1, <3>4 DEF TypeInv, InHand, Threads
      <3> QED BY <3>1, <3>3, <3>5 DEF TypeInv
    <2> QED BY <1>5, <2>2, <2>3 DEF Take
  <1> QED BY <1>2, <1>3, <1>4, <1>5

\* Every step keeps types and lives.
LEMMA StepType == TypeInv /\ [Next]_vars => TypeInv'
  <1> SUFFICES ASSUME TypeInv, [Next]_vars PROVE TypeInv'
    OBVIOUS
  <1>1. CASE UNCHANGED vars
    BY <1>1 DEF vars, objectVars, queueVars, resultVars, runVars, TypeInv, TypeOK, Life, InHand
  <1>2. CASE Owner
    BY <1>2, OwnerTypeOK, OwnerLife, ResultType DEF Owner, TypeInv
  <1>3. ASSUME NEW t \in Threads, Step(t) \/ Throws(t) \/ ReadsDead(t) \/ Wakes(t)
        PROVE  TypeInv'
    BY <1>3, RunType, QueueType, ResultType DEF Step
  <1> QED BY <1>1, <1>2, <1>3 DEF Next

\* TypeInv holds in every reachable state, whatever the threads and the faults.
THEOREM Lives == Spec => []TypeInv
  BY InitType, StepType, PTL DEF Spec

\* The variables of Thread and of the two queues keep their types, and the
\* ConsumerProducerQueue its limit.
THEOREM TypeCorrect == Spec => []TypeOK
  <1>1. TypeInv => TypeOK
    BY DEF TypeInv
  <1> QED BY <1>1, Lives, PTL

-----------------------------------------------------------------------------
(* The object and its thread.                                              *)

\* Every step of owner and threads keeps Thread and thread together so.
LEMMA StepOwned ==
    ASSUME TypeInv, Owned, [Next]_vars
    PROVE  Owned'
  <1> USE DEF objectVars, queueVars, resultVars, runVars
  <1>1. CASE UNCHANGED vars
    BY <1>1 DEF vars, Owned
  <1>2. ASSUME NEW t \in Threads,
               Construct(t) \/ Start(t) \/ Started(t) \/ Join(t) \/ Joined(t) \/ Destroy(t)
        PROVE  Owned'
    <2>1. CASE Construct(t)
      <3>1. pc[t] = "none"
        BY <2>1 DEF Construct, TypeInv, Life
      <3> QED BY <2>1, <3>1 DEF Construct, Owned, TypeInv, TypeOK, idle
    <2>2. CASE Start(t)
      <3>1. \A u \in Threads : pc[u] \notin {"tid", "latch"}
        BY <2>2 DEF Start, Owned, idle
      <3> QED BY <2>2, <3>1 DEF Start, Owned, TypeInv, TypeOK, Life
    <2>3. CASE Started(t)
      <3>1. \A u \in Threads : pc[u] \notin {"tid", "latch"}
        BY <2>3 DEF Started, Owned, TypeInv, Life
      <3> QED BY <2>3, <3>1 DEF Started, Owned
    <2>4. CASE Join(t)
      BY <2>4 DEF Join, Owned, TypeInv, TypeOK, idle
    <2>5. CASE Joined(t)
      BY <2>5 DEF Joined, Owned
    <2>6. CASE Destroy(t)
      <3>1. m_joined[t] => pc[t] = "ended"
        BY <2>6 DEF Destroy, TypeInv, Life, idle
      <3> QED BY <2>6, <3>1 DEF Destroy, Owned, TypeInv, TypeOK, idle
    <2> QED BY <1>2, <2>1, <2>2, <2>3, <2>4, <2>5, <2>6
  <1>3. CASE Clear \/ ClearNotifies
    BY <1>3 DEF Clear, ClearNotifies, Owned, idle
  <1>4. ASSUME NEW t \in Threads, Throws(t) \/ ReadsDead(t) \/ Wakes(t)
        PROVE  Owned'
    <2>1. ReadsDead(t) => object[t] = "destroyed" /\ ~m_joined[t]
      BY DEF ReadsDead, Owned
    <2> QED BY <1>4, <2>1 DEF Throws, ReadsDead, Wakes, Owned
  <1>5. ASSUME NEW t \in Threads, Run(t) PROVE Owned'
    <2>1. CASE pc[t] = "tid"
      BY <1>5, <2>1 DEF Run, RunTid, goes, Owned, TypeInv, TypeOK
    <2>2. CASE pc[t] = "latch"
      <3>1. m_count[t] = 1 /\ m_count' = [m_count EXCEPT ![t] = m_count[t] - 1]
            /\ pc' = [pc EXCEPT ![t] = "name"]
        BY <1>5, <2>2 DEF Run, RunTid, goes, TypeInv, Life
      <3> QED BY <1>5, <2>2, <3>1 DEF Run, Owned, TypeInv, TypeOK
    <2>3. CASE pc[t] = "name"
      BY <1>5, <2>3 DEF Run, RunTid, goes, Owned, TypeInv, TypeOK
    <2> QED BY <1>5, <2>1, <2>2, <2>3 DEF Run, RunTid, goes
  <1>6. ASSUME NEW t \in Threads, Add(t) \/ Consume(t) \/ Notify(t) \/ Put(t) \/ Take(t)
        PROVE  Owned'
    <2>1. UNCHANGED <<objectVars, owner, aborted>>
      BY <1>6 DEF Add, Consume, Notify, Put, Take
    <2>2. pc[t] \in {"work", "notify", "put"}
      BY <1>6 DEF Add, Consume, Notify, Put, Take, goes
    <2>3. \E p \in {"work", "notify", "put", "ended"} :
              pc' = [pc EXCEPT ![t] = p] \/ pc' = pc
      BY <1>6 DEF Add, Consume, Notify, Put, Take, goes, done
    <2>4. /\ pc'[t] \in {"work", "notify", "put", "ended"}
          /\ \A u \in Threads \ {t} : pc'[u] = pc[u]
      BY <2>2, <2>3 DEF TypeInv, TypeOK
    <2> QED BY <2>1, <2>2, <2>4 DEF Owned
  <1> QED BY <1>1, <1>2, <1>3, <1>4, <1>5, <1>6 DEF Next, Owner, Step

\* Whether its owner joins or detaches it: start() returns with the tid known and
\* the Thread does not go before, and no thread of a joined Thread reads one that
\* is gone.
THEOREM ObjectsOutlive == Spec => []ObjectOutlives
  <1>1. Init => Owned
    BY DEF Init, Owned
  <1>2. TypeInv /\ Owned /\ [Next]_vars => Owned'
    BY StepOwned
  <1>3. TypeInv /\ Owned => ObjectOutlives
    BY DEF TypeInv, Life, Owned, ObjectOutlives
  <1> QED BY <1>1, <1>2, <1>3, Lives, PTL DEF Spec

-----------------------------------------------------------------------------
(* The notifications.                                                      *)

\* A step that lets a thread sleep without a reason leaves a notification to come.
LEMMA StepAwaited ==
    ASSUME TypeInv, Awaited, [Next]_vars
    PROVE  Awaited'
  <1> USE DEF queueVars, resultVars, runVars
  <1>1. Adders \cap Movers = {} /\ waiting \subseteq Adders \cup Movers
        /\ Adders \subseteq Threads /\ Movers \subseteq Threads
        /\ pc \in [Threads -> {"none", "tid", "latch", "name", "work", "notify", "put", "ended"}]
    BY ThreadAssumption DEF TypeInv, TypeOK, Threads
  <1>2. CASE /\ waiting' \subseteq waiting /\ queue' = queue
             /\ owner = <<"notify">> => owner' = owner
             /\ \A u \in Threads : pc[u] = "notify" => pc'[u] = "notify"
    BY <1>2 DEF Awaited, isFull, isEmpty
  <1>3. CASE waiting' = {}
    BY <1>3 DEF Awaited
  <1>4. CASE UNCHANGED vars
    BY <1>2, <1>4 DEF vars
  <1>5. CASE Clear
    BY <1>5 DEF Clear, Awaited
  <1>6. CASE ClearNotifies
    BY <1>3, <1>6 DEF ClearNotifies, notifyAll
  <1>7. ASSUME NEW t \in Threads,
               Construct(t) \/ Start(t) \/ Started(t) \/ Join(t) \/ Joined(t) \/ Destroy(t)
        PROVE  Awaited'
    <2>1. owner # <<"notify">>
      BY <1>7 DEF Construct, Start, Started, Join, Joined, Destroy, idle
    <2>2. waiting' = waiting /\ queue' = queue
      BY <1>7 DEF Construct, Start, Started, Join, Joined, Destroy
    <2>3. \A u \in Threads : pc[u] = "notify" => pc'[u] = "notify"
      BY <1>1, <1>7 DEF Construct, Start, Started, Join, Joined, Destroy, TypeInv, Life
    <2> QED BY <1>2, <2>1, <2>2, <2>3
  <1>8. ASSUME NEW t \in Threads, Run(t) \/ Throws(t) \/ ReadsDead(t) \/ Wakes(t) \/ Put(t) \/ Take(t)
        PROVE  Awaited'
    <2>1. waiting' \subseteq waiting /\ queue' = queue /\ owner' = owner
      BY <1>8 DEF Run, Throws, ReadsDead, Wakes, Put, Take
    <2>2. pc' = pc \/ (pc[t] # "notify" /\ \E p : pc' = [pc EXCEPT ![t] = p])
      BY <1>8 DEF Run, RunTid, goes, Throws, ReadsDead, Wakes, Put, Take, done
    <2>3. \A u \in Threads : pc[u] = "notify" => pc'[u] = "notify"
      BY <1>1, <2>2
    <2> QED BY <1>2, <2>1, <2>3
  <1>9. ASSUME NEW t \in Threads, Add(t) \/ Consume(t) PROVE Awaited'
    <2>1. CASE pc' = [pc EXCEPT ![t] = "notify"]
      <3>1. pc'[t] = "notify"
        BY <1>1, <2>1
      <3> QED BY <3>1 DEF Awaited
    <2>2. CASE waiting' = waiting \cup {t} /\ UNCHANGED <<queue, pc, owner>>
               /\ (t \in Adders => isFull) /\ (t \in Movers => isEmpty)
      BY <1>1, <2>2 DEF Awaited, isFull, isEmpty
    <2> QED BY <1>1, <1>9, <2>1, <2>2 DEF Add, Consume, goes
  <1>10. ASSUME NEW t \in Threads, Notify(t) PROVE Awaited'
    BY <1>3, <1>10 DEF Notify, notifyAll
  <1> QED BY <1>4, <1>5, <1>6, <1>7, <1>8, <1>9, <1>10 DEF Next, Owner, Step

\* Whoever sleeps on the ConsumerProducerQueue has a reason to, or is about to be
\* woken, for any number of adders and movers.
THEOREM NoWakeupLost == Spec => []NoLostWakeup
  <1>1. Init => Awaited
    BY DEF Init, Awaited
  <1>2. TypeInv /\ Awaited /\ [Next]_vars => Awaited'
    BY StepAwaited
  <1>3. Awaited => NoLostWakeup
    BY DEF Awaited, NoLostWakeup
  <1> QED BY <1>1, <1>2, <1>3, Lives, PTL DEF Spec

-----------------------------------------------------------------------------
(* The items.                                                              *)

\* What a sequence holds after an Append.
LEMMA AppendRange ==
    ASSUME NEW S, NEW s \in Seq(S), NEW e \in S
    PROVE  Range(Append(s, e)) = Range(s) \cup {e}
  <1> DEFINE n == Len(s)
             a == Append(s, e)
  <1>1. n \in Nat /\ DOMAIN s = 1..n /\ \A i \in 1..n : s[i] \in Range(s)
    BY DEF Range
  <1>2. a \in Seq(S) /\ Len(a) = n + 1 /\ DOMAIN a = 1..n + 1
    BY AppendProperties
  <1>3. (\A i \in 1..n : a[i] = s[i]) /\ a[n + 1] = e
    BY AppendProperties
  <1> HIDE DEF n, a
  <1>4. Range(a) = Range(s) \cup {e}
    <2>1. Range(a) = {a[i] : i \in 1..n + 1} /\ Range(s) = {s[i] : i \in 1..n}
      BY <1>1, <1>2 DEF Range
    <2>2. ASSUME NEW x \in Range(a) PROVE x \in Range(s) \cup {e}
      <3>1. PICK i \in 1..n + 1 : x = a[i]
        BY <2>1
      <3>2. i \in 1..n \/ i = n + 1
        BY <1>1
      <3> QED BY <1>1, <1>3, <3>1, <3>2
    <2>3. ASSUME NEW x \in Range(s) PROVE x \in Range(a)
      <3>1. PICK i \in 1..n : x = s[i]
        BY <2>1
      <3>2. i \in 1..n + 1
        BY <1>1
      <3> QED BY <1>3, <2>1, <3>1, <3>2
    <2>4. e \in Range(a)
      <3>1. n + 1 \in 1..n + 1
        BY <1>1
      <3> QED BY <1>3, <2>1, <3>1
    <2> QED BY <2>2, <2>3, <2>4
  <1> QED BY <1>4 DEF a

\* A new element keeps the elements different.
LEMMA AppendKeepsInjective ==
    ASSUME NEW S, NEW s \in Seq(S), NEW e \in S, IsInjective(s), e \notin Range(s)
    PROVE  IsInjective(Append(s, e))
  <1> DEFINE n == Len(s)
             a == Append(s, e)
  <1>1. n \in Nat /\ DOMAIN s = 1..n /\ \A i \in 1..n : s[i] \in Range(s)
    BY DEF Range
  <1>2. a \in Seq(S) /\ Len(a) = n + 1 /\ DOMAIN a = 1..n + 1
    BY AppendProperties
  <1>3. (\A i \in 1..n : a[i] = s[i]) /\ a[n + 1] = e
    BY AppendProperties
  <1> HIDE DEF n, a
  <1>4. IsInjective(a)
    <2> SUFFICES ASSUME NEW i \in 1..n + 1, NEW j \in 1..n + 1, a[i] = a[j] PROVE i = j
      BY <1>2 DEF IsInjective
    <2>1. CASE i \in 1..n /\ j \in 1..n
      BY <1>1, <1>3, <2>1 DEF IsInjective
    <2>2. CASE i = n + 1 \/ j = n + 1
      BY <1>1, <1>3, <2>2
    <2> QED BY <1>1, <2>1, <2>2
  <1> QED BY <1>4 DEF a

\* An element that comes after all others keeps the order.
LEMMA AppendOrdered ==
    ASSUME NEW S, NEW s \in Seq(S), NEW e \in S, Ordered(s), AllBefore(Range(s), {e})
    PROVE  Ordered(Append(s, e))
  <1> DEFINE n == Len(s)
             a == Append(s, e)
  <1>1. n \in Nat /\ DOMAIN s = 1..n /\ \A i \in 1..n : s[i] \in Range(s)
    BY DEF Range
  <1>2. a \in Seq(S) /\ Len(a) = n + 1 /\ DOMAIN a = 1..n + 1
    BY AppendProperties
  <1>3. (\A i \in 1..n : a[i] = s[i]) /\ a[n + 1] = e
    BY AppendProperties
  <1> HIDE DEF n, a
  <1>4. Ordered(a)
    <2> SUFFICES ASSUME NEW i \in 1..n + 1, NEW j \in 1..n + 1, i < j PROVE Before(a[i], a[j])
      BY <1>2 DEF Ordered
    <2>1. CASE j \in 1..n
      BY <1>1, <1>3, <2>1 DEF Ordered
    <2>2. CASE j = n + 1
      BY <1>1, <1>3, <2>2 DEF AllBefore
    <2> QED BY <1>1, <2>1, <2>2
  <1> QED BY <1>4 DEF a

\* What a sequence holds is its head and what its tail holds.
LEMMA TailRange ==
    ASSUME NEW S, NEW s \in Seq(S), s # <<>>
    PROVE  Range(s) = Range(Tail(s)) \cup {Head(s)}
  <1> DEFINE n == Len(s)
             a == Tail(s)
  <1>1. n \in Nat \ {0} /\ DOMAIN s = 1..n /\ Head(s) = s[1]
    BY EmptySeq
  <1>2. a \in Seq(S) /\ Len(a) = n - 1 /\ DOMAIN a = 1..n - 1 /\ Head(s) \in S
    BY HeadTailProperties, <1>1
  <1>3. \A i \in 1..n - 1 : a[i] = s[i + 1]
    BY HeadTailProperties, <1>2
  <1> HIDE DEF n, a
  <1>5. Range(a) = {a[i] : i \in 1..n - 1} /\ Range(s) = {s[i] : i \in 1..n}
    BY <1>1, <1>2 DEF Range
  <1>4. Range(s) = Range(a) \cup {Head(s)}
    <2>1. \A i \in 1..n : i = 1 \/ (i - 1 \in 1..n - 1 /\ s[i] = a[i - 1])
      BY <1>1, <1>3
    <2>2. \A i \in 1..n - 1 : i + 1 \in 1..n
      BY <1>1
    <2>3. ASSUME NEW x \in Range(s) PROVE x \in Range(a) \cup {Head(s)}
      <3>1. PICK i \in 1..n : x = s[i]
        BY <1>5
      <3> QED BY <1>1, <1>5, <2>1, <3>1
    <2>4. ASSUME NEW x \in Range(a) PROVE x \in Range(s)
      <3>1. PICK i \in 1..n - 1 : x = a[i]
        BY <1>5
      <3> QED BY <1>3, <1>5, <2>2, <3>1
    <2>5. Head(s) \in Range(s)
      BY <1>1, <1>5
    <2> QED BY <2>3, <2>4, <2>5
  <1> QED BY <1>4 DEF a

\* The tail's elements differ from each other and from the head.
LEMMA TailInjective ==
    ASSUME NEW S, NEW s \in Seq(S), s # <<>>, IsInjective(s)
    PROVE  IsInjective(Tail(s)) /\ Head(s) \notin Range(Tail(s))
  <1> DEFINE n == Len(s)
             a == Tail(s)
  <1>1. n \in Nat \ {0} /\ DOMAIN s = 1..n /\ Head(s) = s[1]
    BY EmptySeq
  <1>2. a \in Seq(S) /\ Len(a) = n - 1 /\ DOMAIN a = 1..n - 1 /\ Head(s) \in S
    BY HeadTailProperties, <1>1
  <1>3. \A i \in 1..n - 1 : a[i] = s[i + 1]
    BY HeadTailProperties, <1>2
  <1> HIDE DEF n, a
  <1>5. Range(a) = {a[i] : i \in 1..n - 1} /\ Range(s) = {s[i] : i \in 1..n}
    BY <1>1, <1>2 DEF Range
  <1>4. IsInjective(a) /\ Head(s) \notin Range(a)
    <2>1. ASSUME NEW i \in 1..n - 1, NEW j \in 1..n - 1, a[i] = a[j] PROVE i = j
      <3>1. i + 1 \in 1..n /\ j + 1 \in 1..n /\ s[i + 1] = s[j + 1]
        BY <1>1, <1>3, <2>1
      <3>2. i + 1 = j + 1
        BY <1>1, <3>1 DEF IsInjective
      <3> QED BY <3>2
    <2>2. \A i \in 1..n - 1 : a[i] # s[1]
      BY <1>1, <1>3 DEF IsInjective
    <2> QED BY <1>1, <1>2, <1>5, <2>1, <2>2 DEF IsInjective
  <1> QED BY <1>4 DEF a

\* The tail keeps the order, and comes after the head.
LEMMA TailOrdered ==
    ASSUME NEW S, NEW s \in Seq(S), s # <<>>, Ordered(s)
    PROVE  Ordered(Tail(s)) /\ AllBefore({Head(s)}, Range(Tail(s)))
  <1> DEFINE n == Len(s)
             a == Tail(s)
  <1>1. n \in Nat \ {0} /\ DOMAIN s = 1..n /\ Head(s) = s[1]
    BY EmptySeq
  <1>2. a \in Seq(S) /\ Len(a) = n - 1 /\ DOMAIN a = 1..n - 1 /\ Head(s) \in S
    BY HeadTailProperties, <1>1
  <1>3. \A i \in 1..n - 1 : a[i] = s[i + 1]
    BY HeadTailProperties, <1>2
  <1> HIDE DEF n, a
  <1>5. Range(a) = {a[i] : i \in 1..n - 1} /\ Range(s) = {s[i] : i \in 1..n}
    BY <1>1, <1>2 DEF Range
  <1>4. Ordered(a) /\ AllBefore({Head(s)}, Range(a))
    <2>1. ASSUME NEW i \in 1..n - 1, NEW j \in 1..n - 1, i < j PROVE Before(a[i], a[j])
      <3>1. i + 1 \in 1..n /\ j + 1 \in 1..n /\ i + 1 < j + 1
        BY <1>1, <2>1
      <3>2. Before(s[i + 1], s[j + 1])
        BY <1>1, <3>1 DEF Ordered
      <3> QED BY <1>3, <3>2
    <2>2. \A i \in 1..n - 1 : Before(s[1], a[i])
      BY <1>1, <1>3 DEF Ordered
    <2> QED BY <1>1, <1>2, <1>5, <2>1, <2>2 DEF Ordered, AllBefore
  <1> QED BY <1>4 DEF a

\* The empty sequence.
LEMMA NoItems == Range(<<>>) = {} /\ IsInjective(<<>>) /\ Ordered(<<>>)
  BY DEF Range, IsInjective, Ordered

\* A sequence of different elements has as many as its length.
LEMMA CountItems ==
    ASSUME NEW S, NEW s \in Seq(S), IsInjective(s)
    PROVE  IsFiniteSet(Range(s)) /\ Cardinality(Range(s)) = Len(s)
  <1>1. Len(s) \in Nat /\ s \in [1..Len(s) -> Range(s)] /\ DOMAIN s = 1..Len(s)
    BY DEF Range
  <1>2. s \in Bijection(1..Len(s), Range(s))
    BY <1>1 DEF Bijection, Injection, Surjection, IsInjective, Range
  <1>3. IsFiniteSet(1..Len(s)) /\ Cardinality(1..Len(s)) = Len(s)
    BY <1>1, FS_Interval
  <1> QED BY <1>2, <1>3, FS_Bijection DEF ExistsBijection

\* The number of the next item of an adder goes down only after the notification,
\* and what others do leaves it alone.
LEMMA StepNumbered ==
    ASSUME TypeInv, Numbered, Placed, Kept, [Next]_vars
    PROVE  Numbered'
  <1> USE DEF queueVars, resultVars, runVars, objectVars
  <1>1. /\ Adders \cap Movers = {} /\ Adders \cap Takers = {} /\ Adders \subseteq Threads
        /\ left \in [Threads -> Nat] /\ results \in Seq(Item) /\ DOMAIN pc = Threads
        /\ \A x \in Range(added) : x[1] \in Adders /\ x[2] \in Nat
    <2>1. \A x \in Range(added) : x \in Item
      BY RangeOfSeq DEF Numbered
    <2> QED BY <2>1, ItemIsThere, ThreadAssumption DEF Threads, TypeInv, TypeOK, Life, Item
  <1>2. CASE /\ added' = added /\ taken' = taken
             /\ \A u \in Adders : left'[u] = left[u] /\ (pc[u] = "notify" => pc'[u] = "notify")
    BY <1>1, <1>2 DEF Numbered
  <1>3. CASE UNCHANGED vars
    BY <1>2, <1>3 DEF vars
  <1>4. CASE Clear \/ ClearNotifies
    BY <1>2, <1>4 DEF Clear, ClearNotifies
  <1>5. ASSUME NEW t \in Threads,
               Construct(t) \/ Start(t) \/ Started(t) \/ Join(t) \/ Joined(t) \/ Destroy(t)
        PROVE  Numbered'
    <2>1. added' = added /\ taken' = taken /\ left' = left
      BY <1>5 DEF Construct, Start, Started, Join, Joined, Destroy
    <2>2. \A u \in Threads : pc[u] = "notify" => pc'[u] = "notify"
      BY <1>1, <1>5 DEF Construct, Start, Started, Join, Joined, Destroy, TypeInv, Life
    <2> QED BY <1>1, <1>2, <2>1, <2>2
  <1>6. ASSUME NEW t \in Threads, Run(t) \/ Throws(t) \/ ReadsDead(t) \/ Wakes(t) \/ Consume(t)
        PROVE  Numbered'
    <2>1. added' = added /\ taken' = taken /\ left' = left
      BY <1>6 DEF Run, Throws, ReadsDead, Wakes, Consume
    <2>2. pc' = pc \/ (pc[t] # "notify" /\ \E p : pc' = [pc EXCEPT ![t] = p])
      BY <1>6 DEF Run, RunTid, goes, Throws, ReadsDead, Wakes, Consume
    <2>3. \A u \in Threads : pc[u] = "notify" => pc'[u] = "notify"
      BY <1>1, <2>2
    <2> QED BY <1>1, <1>2, <2>1, <2>3
  <1>7. ASSUME NEW t \in Threads, Add(t) PROVE Numbered'
    <2>1. t \in Adders /\ pc[t] = "work" /\ taken' = taken /\ left' = left
      BY <1>7 DEF Add
    <2>2. CASE added' = added /\ pc' = pc
      BY <1>2, <2>1, <2>2
    <2>3. CASE added' = Append(added, <<t, left[t]>>) /\ pc' = [pc EXCEPT ![t] = "notify"]
      <3>1. <<t, left[t]>> \in Item
        BY <1>1, <2>1 DEF Item
      <3>2. Range(added') = Range(added) \cup {<<t, left[t]>>}
        <4>1. added \in Seq(Item)
          BY DEF Numbered
        <4> QED BY <2>3, <3>1, <4>1, AppendRange
      <3>3. added' \in Seq(Item)
        BY <2>3, <3>1 DEF Numbered
      <3>4. pc'[t] = "notify" /\ \A u \in Threads \ {t} : pc'[u] = pc[u]
        BY <1>1, <2>3
      <3>5. ASSUME NEW x \in Range(added')
            PROVE  x[2] >= left'[x[1]] /\ (pc'[x[1]] # "notify" => x[2] > left'[x[1]])
        <4>1. CASE x \in Range(added)
          BY <1>1, <2>1, <3>4, <4>1 DEF Numbered
        <4>2. CASE x = <<t, left[t]>>
          BY <1>1, <2>1, <3>4, <4>2
        <4> QED BY <3>2, <4>1, <4>2
      <3> QED BY <2>1, <3>3, <3>5 DEF Numbered
    <2> QED BY <1>7, <2>2, <2>3 DEF Add, goes
  <1>8. ASSUME NEW t \in Threads, Notify(t) PROVE Numbered'
    <2>1. added' = added /\ taken' = taken /\ pc[t] = "notify"
      BY <1>8 DEF Notify
    <2>2. CASE t \notin Adders
      <3>1. left' = left /\ \A u \in Threads \ {t} : pc'[u] = pc[u]
        BY <1>1, <1>8, <2>2 DEF Notify
      <3> QED BY <1>1, <1>2, <2>1, <2>2, <3>1
    <2>3. CASE t \in Adders
      <3>1. left' = [left EXCEPT ![t] = left[t] - 1] /\ left[t] \in Nat \ {0}
        BY <1>1, <1>8, <2>1, <2>3 DEF Notify, done, TypeInv, Life
      <3>2. pc' = [pc EXCEPT ![t] = IF left[t] = 1 THEN "ended" ELSE "work"]
        BY <1>8, <2>3 DEF Notify, done
      <3>3. left'[t] = left[t] - 1 /\ \A u \in Threads \ {t} : left'[u] = left[u] /\ pc'[u] = pc[u]
        BY <1>1, <3>1, <3>2
      <3>4. ASSUME NEW x \in Range(added)
            PROVE  x[2] >= left'[x[1]] /\ (pc'[x[1]] # "notify" => x[2] > left'[x[1]])
        <4>1. x[1] \in Adders /\ x[2] \in Nat /\ x[2] >= left[x[1]]
          BY <1>1 DEF Numbered
        <4>2. CASE x[1] = t
          BY <3>1, <3>3, <4>1, <4>2
        <4>3. CASE x[1] # t
          BY <1>1, <3>3, <4>1, <4>3 DEF Numbered
        <4> QED BY <4>2, <4>3
      <3> QED BY <2>1, <3>4 DEF Numbered
    <2> QED BY <2>2, <2>3
  <1>9. ASSUME NEW t \in Threads, Put(t) \/ Take(t) PROVE Numbered'
    <2>1. added' = added /\ t \notin Adders
      BY <1>1, <1>9 DEF Put, Take
    <2>2. UNCHANGED <<pc, left>> \/ done(t)
      BY <1>9 DEF Put, Take
    <2>3. \A u \in Threads \ {t} : left'[u] = left[u] /\ pc'[u] = pc[u]
      BY <1>1, <2>2 DEF done
    <2>4. taken' \in Seq(Item)
      <3>1. CASE Put(t)
        BY <3>1 DEF Put, Numbered
      <3>2. CASE Take(t)
        <4>1. CASE results # <<>> /\ taken' = Append(taken, Head(results))
          <5>1. Head(results) \in Item
            BY <1>1, <4>1, HeadTailProperties
          <5> QED BY <4>1, <5>1 DEF Numbered
        <4> QED BY <3>2, <4>1 DEF Take, front, Numbered
      <3> QED BY <1>9, <3>1, <3>2
    <2> QED BY <1>1, <2>1, <2>3, <2>4 DEF Numbered
  <1> QED BY <1>3, <1>4, <1>5, <1>6, <1>7, <1>8, <1>9 DEF Next, Owner, Step

-----------------------------------------------------------------------------
(* Where the items are.                                                    *)

\* Steps that touch no item, and leave the history alone.
LEMMA ItemsStay ==
    ASSUME Placed, Kept, InOrder, UNCHANGED <<held, queue, results, taken, added, clears>>
    PROVE  Placed' /\ Kept' /\ InOrder'
  <1>1. Held' = Held
    BY DEF Held
  <1>2. Placed'
    BY <1>1 DEF Placed
  <1>3. Kept'
    BY <1>1 DEF Kept, Seen
  <1>4. InOrder'
    BY <1>1 DEF InOrder
  <1> QED BY <1>2, <1>3, <1>4

\* add(): a new item, with a smaller number than all of its adder's before it,
\* is at the end of the queue.
LEMMA ItemAdded ==
    ASSUME NEW e \in Item, queue \in Seq(Item), added \in Seq(Item),
           e \notin Range(added), AllBefore(Range(added), {e}),
           Placed, Kept, InOrder,
           queue' = Append(queue, e), added' = Append(added, e),
           UNCHANGED <<held, results, taken, clears>>
    PROVE  Placed' /\ Kept' /\ InOrder'
  <1>1. Range(queue') = Range(queue) \cup {e}
    BY AppendRange
  <1>2. Range(added') = Range(added) \cup {e}
    BY AppendRange
  <1>3. Held' = Held
    BY DEF Held
  <1>4. Seen \subseteq Range(added)
    BY DEF Kept
  <1>5. e \notin Range(queue) /\ e \notin Held /\ e \notin Range(results) /\ e \notin Range(taken)
    BY <1>4 DEF Seen
  <1>6. IsInjective(queue')
    BY <1>5, AppendKeepsInjective DEF Placed
  <1>7. IsInjective(added')
    BY AppendKeepsInjective DEF Placed
  <1>8. \A A : A \subseteq Range(added) => AllBefore(A, {e})
    BY DEF AllBefore
  <1>9. Ordered(queue')
    <2>1. AllBefore(Range(queue), {e})
      BY <1>4, <1>8 DEF Seen
    <2> QED BY <2>1, AppendOrdered DEF InOrder
  <1>10. Placed'
    BY <1>1, <1>3, <1>5, <1>6, <1>7 DEF Placed
  <1>11. Kept'
    BY <1>1, <1>2, <1>3 DEF Kept, Seen
  <1>12. InOrder'
    <2>1. AllBefore(Held, {e}) /\ AllBefore(Range(results), {e}) /\ AllBefore(Range(taken), {e})
      BY <1>4, <1>8 DEF Seen
    <2>2. \A A : AllBefore(A, Range(queue)) /\ AllBefore(A, {e}) => AllBefore(A, Range(queue'))
      BY <1>1 DEF AllBefore
    <2> QED BY <1>3, <1>9, <2>1, <2>2 DEF InOrder
  <1> QED BY <1>10, <1>11, <1>12

\* consume(): the head of the queue is in the hand of a mover that had none.
LEMMA ItemConsumed ==
    ASSUME NEW t \in Movers, held[t] = none, held' = [held EXCEPT ![t] = Head(queue)],
           DOMAIN held = Threads, queue \in Seq(Item), queue # <<>>, queue' = Tail(queue),
           Placed, Kept, InOrder, UNCHANGED <<results, taken, added, clears>>
    PROVE  Placed' /\ Kept' /\ InOrder'
  <1> DEFINE h == Head(queue)
  <1>1. h \in Item /\ h # none
    BY HeadTailProperties, ItemIsThere
  <1>2. held'[t] = h /\ \A u \in Movers \ {t} : held'[u] = held[u]
    BY DEF Threads
  <1>3. Range(queue) = Range(queue') \cup {h}
    BY TailRange
  <1>4. IsInjective(queue') /\ h \notin Range(queue')
    BY TailInjective DEF Placed
  <1>5. Ordered(queue') /\ AllBefore({h}, Range(queue'))
    BY TailOrdered DEF InOrder
  <1> HIDE DEF h
  <1>6. Held' = Held \cup {h}
    BY <1>1, <1>2 DEF Held
  <1>7. h \notin Held /\ h \notin Range(results) /\ h \notin Range(taken)
    BY <1>3 DEF Placed
  <1>8. \A u, v \in Movers : held'[u] = held'[v] /\ held'[u] # none => u = v
    <2>1. \A u \in Movers : held[u] # h
      BY <1>1, <1>7 DEF Held
    <2> QED BY <1>2, <2>1 DEF Placed
  <1>9. Placed'
    BY <1>3, <1>4, <1>6, <1>7, <1>8 DEF Placed
  <1>10. Kept'
    BY <1>3, <1>6 DEF Kept, Seen
  <1>11. InOrder'
    <2>1. ASSUME \A u, v \in Movers : u = v
          PROVE  Held' = {h}
      BY <1>6, <2>1 DEF Held
    <2>2. \A A : AllBefore(A, Range(queue)) => AllBefore(A, Range(queue')) /\ AllBefore(A, {h})
      BY <1>3 DEF AllBefore
    <2> QED BY <1>5, <2>1, <2>2 DEF InOrder
  <1> QED BY <1>9, <1>10, <1>11

\* put(): what a mover had in hand is at the end of the results.
LEMMA ItemPut ==
    ASSUME NEW t \in Movers, held[t] \in Item, held' = [held EXCEPT ![t] = none],
           DOMAIN held = Threads, results \in Seq(Item), results' = Append(results, held[t]),
           Placed, Kept, InOrder, UNCHANGED <<queue, taken, added, clears>>
    PROVE  Placed' /\ Kept' /\ InOrder'
  <1> DEFINE h == held[t]
  <1>1. h # none /\ h \in Held
    BY ItemIsThere DEF Held
  <1>2. held'[t] = none /\ \A u \in Movers \ {t} : held'[u] = held[u]
    BY DEF Threads
  <1>3. Range(results') = Range(results) \cup {h}
    BY AppendRange
  <1>4. h \notin Range(results) /\ h \notin Range(queue) /\ h \notin Range(taken)
    BY <1>1 DEF Placed
  <1>5. IsInjective(results')
    BY <1>4, AppendKeepsInjective DEF Placed
  <1>6. \A u \in Movers : held[u] = h => u = t
    BY <1>1 DEF Placed
  <1>7. Ordered(results) /\ AllBefore(Range(results), {h}) => Ordered(results')
    BY AppendOrdered
  <1>13. held[t] = h
    OBVIOUS
  <1> HIDE DEF h
  <1>8. Held' = Held \ {h}
    BY <1>1, <1>2, <1>6, <1>13 DEF Held
  <1>9. \A u, v \in Movers : held'[u] = held'[v] /\ held'[u] # none => u = v
    BY <1>2 DEF Placed
  <1>10. Placed'
    BY <1>3, <1>4, <1>5, <1>8, <1>9 DEF Placed
  <1>11. Kept'
    BY <1>1, <1>3, <1>8 DEF Kept, Seen
  <1>12. InOrder'
    <2>1. ASSUME \A u, v \in Movers : u = v
          PROVE  Held' = {}
      BY <1>1, <1>2, <2>1 DEF Held
    <2>2. \A A : AllBefore(A, {}) /\ AllBefore({}, A)
      BY DEF AllBefore
    <2>3. \A A : AllBefore(Held, A) => AllBefore({h}, A)
      BY <1>1 DEF AllBefore
    <2>4. \A A : AllBefore(A, Held) => AllBefore(A, {h})
      BY <1>1 DEF AllBefore
    <2>5. \A A : /\ AllBefore(Range(results), A) /\ AllBefore({h}, A) => AllBefore(Range(results'), A)
                 /\ AllBefore(A, Range(results)) /\ AllBefore(A, {h}) => AllBefore(A, Range(results'))
      BY <1>3 DEF AllBefore
    <2> QED BY <1>7, <2>1, <2>2, <2>3, <2>4, <2>5 DEF InOrder
  <1> QED BY <1>10, <1>11, <1>12

\* take(): the head of the results is the last of those taken.
LEMMA ItemTaken ==
    ASSUME results \in Seq(Item), taken \in Seq(Item), results # <<>>,
           results' = Tail(results), taken' = Append(taken, Head(results)),
           Placed, Kept, InOrder, UNCHANGED <<held, queue, added, clears>>
    PROVE  Placed' /\ Kept' /\ InOrder'
  <1> DEFINE h == Head(results)
  <1>1. h \in Item
    BY HeadTailProperties
  <1>2. Range(results) = Range(results') \cup {h}
    BY TailRange
  <1>3. IsInjective(results') /\ h \notin Range(results')
    BY TailInjective DEF Placed
  <1>4. Ordered(results) => Ordered(results') /\ AllBefore({h}, Range(results'))
    BY TailOrdered
  <1>5. Range(taken') = Range(taken) \cup {h}
    BY <1>1, AppendRange
  <1>6. h \notin Range(queue) /\ h \notin Held /\ h \notin Range(taken)
    BY <1>2 DEF Placed
  <1>7. IsInjective(taken')
    BY <1>1, <1>6, AppendKeepsInjective DEF Placed
  <1>8. Ordered(taken) /\ AllBefore(Range(taken), {h}) => Ordered(taken')
    BY <1>1, AppendOrdered
  <1> HIDE DEF h
  <1>9. Held' = Held
    BY DEF Held
  <1>10. Placed'
    BY <1>2, <1>3, <1>5, <1>6, <1>7, <1>9 DEF Placed
  <1>11. Kept'
    BY <1>2, <1>5, <1>9 DEF Kept, Seen
  <1>12. InOrder'
    <2>1. \A A : AllBefore(Range(results), A) => AllBefore(Range(results'), A) /\ AllBefore({h}, A)
      BY <1>2 DEF AllBefore
    <2>2. \A A : AllBefore(A, Range(results)) => AllBefore(A, Range(results')) /\ AllBefore(A, {h})
      BY <1>2 DEF AllBefore
    <2>3. \A A : AllBefore(Range(taken), A) /\ AllBefore({h}, A) => AllBefore(Range(taken'), A)
      BY <1>5 DEF AllBefore
    <2> QED BY <1>4, <1>8, <1>9, <2>1, <2>2, <2>3 DEF InOrder
  <1> QED BY <1>10, <1>11, <1>12

\* clear(): what was in the queue is gone, and clears tells so.
LEMMA ItemsCleared ==
    ASSUME queue' = <<>>, clears \in Nat, clears' = clears + 1,
           Placed, Kept, InOrder, UNCHANGED <<held, results, taken, added>>
    PROVE  Placed' /\ Kept' /\ InOrder'
  <1>1. Range(queue') = {} /\ IsInjective(queue') /\ Ordered(queue')
    BY NoItems
  <1>2. Held' = Held /\ clears' # 0
    BY DEF Held
  <1>3. Placed'
    BY <1>1, <1>2 DEF Placed
  <1>4. Kept'
    BY <1>1, <1>2 DEF Kept, Seen
  <1>5. InOrder'
    <2>1. \A A : AllBefore(A, {})
      BY DEF AllBefore
    <2> QED BY <1>1, <1>2, <2>1 DEF InOrder
  <1> QED BY <1>3, <1>4, <1>5

\* Every step is one of those.
LEMMA StepItems ==
    ASSUME TypeInv, Numbered, Placed, Kept, InOrder, [Next]_vars
    PROVE  Placed' /\ Kept' /\ InOrder'
  <1> USE DEF queueVars, resultVars, runVars, objectVars
  <1>1. /\ queue \in Seq(Item) /\ results \in Seq(Item) /\ DOMAIN held = Threads
        /\ clears \in Nat /\ added \in Seq(Item) /\ taken \in Seq(Item)
        /\ \A u \in Movers : held[u] = none \/ held[u] \in Item
    BY ThreadAssumption DEF TypeInv, TypeOK, Item, Numbered, Threads
  <1>2. UNCHANGED <<held, queue, results, taken, added, clears>> => Placed' /\ Kept' /\ InOrder'
    BY ItemsStay
  <1>3. CASE UNCHANGED vars
    BY <1>2, <1>3 DEF vars
  <1>4. CASE Clear
    BY <1>1, <1>4, ItemsCleared DEF Clear
  <1>5. CASE ClearNotifies
    BY <1>2, <1>5 DEF ClearNotifies
  <1>6. ASSUME NEW t \in Threads,
               Construct(t) \/ Start(t) \/ Started(t) \/ Join(t) \/ Joined(t) \/ Destroy(t)
        PROVE  Placed' /\ Kept' /\ InOrder'
    BY <1>2, <1>6 DEF Construct, Start, Started, Join, Joined, Destroy
  <1>7. ASSUME NEW t \in Threads, Run(t) \/ Throws(t) \/ ReadsDead(t) \/ Wakes(t) \/ Notify(t)
        PROVE  Placed' /\ Kept' /\ InOrder'
    BY <1>2, <1>7 DEF Run, Throws, ReadsDead, Wakes, Notify
  <1>8. ASSUME NEW t \in Threads, Add(t) PROVE Placed' /\ Kept' /\ InOrder'
    <2>1. CASE UNCHANGED <<queue, added>>
      BY <1>2, <1>8, <2>1 DEF Add
    <2>2. CASE queue' = Append(queue, <<t, left[t]>>) /\ added' = Append(added, <<t, left[t]>>)
      <3>1. t \in Adders /\ pc[t] = "work" /\ left[t] \in Nat
        BY <1>8 DEF Add, TypeInv, Life
      <3>2. <<t, left[t]>> \in Item
        BY <3>1 DEF Item
      <3>3. \A x \in Range(added) : x[1] = t => x[2] > left[t]
        BY <3>1 DEF Numbered
      <3>4. AllBefore(Range(added), {<<t, left[t]>>})
        BY <3>3 DEF AllBefore, Before
      <3>5. <<t, left[t]>> \notin Range(added)
        BY <3>1, <3>3
      <3>6. UNCHANGED <<held, results, taken, clears>>
        BY <1>8 DEF Add
      <3> QED BY <1>1, <2>2, <3>2, <3>4, <3>5, <3>6, ItemAdded
    <2> QED BY <1>8, <2>1, <2>2 DEF Add
  <1>9. ASSUME NEW t \in Threads, Consume(t) PROVE Placed' /\ Kept' /\ InOrder'
    <2>1. CASE UNCHANGED <<queue, held>>
      BY <1>2, <1>9, <2>1 DEF Consume
    <2>2. CASE ~isEmpty /\ queue' = Tail(queue) /\ held' = [held EXCEPT ![t] = Head(queue)]
      <3>1. t \in Movers /\ held[t] = none /\ queue # <<>>
        BY <1>9, <2>2 DEF Consume, TypeInv, InHand, isEmpty
      <3>2. UNCHANGED <<results, taken, added, clears>>
        BY <1>9 DEF Consume
      <3> QED BY <1>1, <2>2, <3>1, <3>2, ItemConsumed
    <2> QED BY <1>9, <2>1, <2>2 DEF Consume
  <1>10. ASSUME NEW t \in Threads, Put(t) PROVE Placed' /\ Kept' /\ InOrder'
    <2>1. t \in Movers /\ held[t] # none
      BY <1>10 DEF Put, TypeInv, InHand
    <2>2. held' = [held EXCEPT ![t] = none] /\ results' = Append(results, held[t])
      BY <1>10 DEF Put
    <2>3. UNCHANGED <<queue, taken, added, clears>>
      BY <1>10 DEF Put
    <2> QED BY <1>1, <2>1, <2>2, <2>3, ItemPut
  <1>11. ASSUME NEW t \in Threads, Take(t) PROVE Placed' /\ Kept' /\ InOrder'
    <2>1. CASE UNCHANGED <<results, taken>>
      BY <1>2, <1>11, <2>1 DEF Take
    <2>2. CASE results # <<>> /\ results' = Tail(results) /\ taken' = Append(taken, Head(results))
      <3>1. UNCHANGED <<held, queue, added, clears>>
        BY <1>11 DEF Take
      <3> QED BY <1>1, <2>2, <3>1, ItemTaken
    <2> QED BY <1>11, <2>1, <2>2 DEF Take, front
  <1> QED BY <1>3, <1>4, <1>5, <1>6, <1>7, <1>8, <1>9, <1>10, <1>11 DEF Next, Owner, Step

\* At first there are no items.
LEMMA InitItems == Init => Numbered /\ Placed /\ Kept /\ InOrder
  <1> SUFFICES ASSUME Init PROVE Numbered /\ Placed /\ Kept /\ InOrder
    OBVIOUS
  <1>1. Range(queue) = {} /\ Range(results) = {} /\ Range(taken) = {} /\ Range(added) = {}
    BY NoItems DEF Init
  <1>2. /\ IsInjective(queue) /\ IsInjective(results) /\ IsInjective(taken) /\ IsInjective(added)
        /\ Ordered(queue) /\ Ordered(results) /\ Ordered(taken)
    BY NoItems DEF Init
  <1>3. \A t \in Movers : held[t] = none
    BY DEF Init, Threads
  <1>4. Held = {}
    BY <1>3 DEF Held
  <1>5. Numbered
    BY <1>1 DEF Init, Numbered
  <1>6. Placed
    BY <1>1, <1>2, <1>3, <1>4 DEF Placed
  <1>7. Kept
    BY <1>1, <1>4 DEF Kept, Seen
  <1>8. InOrder
    BY <1>1, <1>2, <1>4 DEF InOrder, AllBefore
  <1> QED BY <1>5, <1>6, <1>7, <1>8

\* Four places without a common item hold as many as they hold together.
LEMMA CountPlaces ==
    ASSUME NEW A, NEW B, NEW C, NEW D,
           IsFiniteSet(A), IsFiniteSet(B), IsFiniteSet(C), IsFiniteSet(D),
           A \cap B = {}, (A \cup B) \cap C = {}, (A \cup B \cup C) \cap D = {}
    PROVE  Cardinality(A \cup B \cup C \cup D)
               = Cardinality(A) + Cardinality(B) + Cardinality(C) + Cardinality(D)
  <1>1. \A S, T : IsFiniteSet(S) /\ IsFiniteSet(T) /\ S \cap T = {} =>
            IsFiniteSet(S \cup T) /\ Cardinality(S \cup T) = Cardinality(S) + Cardinality(T)
    <2> SUFFICES ASSUME NEW S, NEW T, IsFiniteSet(S), IsFiniteSet(T), S \cap T = {}
                 PROVE  IsFiniteSet(S \cup T) /\ Cardinality(S \cup T) = Cardinality(S) + Cardinality(T)
      OBVIOUS
    <2>1. /\ IsFiniteSet(S \cup T)
          /\ Cardinality(S \cup T) = Cardinality(S) + Cardinality(T) - Cardinality(S \cap T)
      BY FS_Union
    <2>2. Cardinality(S \cap T) = 0 /\ Cardinality(S) \in Nat /\ Cardinality(T) \in Nat
      BY FS_EmptySet, FS_CardinalityType
    <2> QED BY <2>1, <2>2
  <1>2. IsFiniteSet(A \cup B) /\ Cardinality(A \cup B) = Cardinality(A) + Cardinality(B)
    BY <1>1
  <1>3. /\ IsFiniteSet(A \cup B \cup C)
        /\ Cardinality(A \cup B \cup C) = Cardinality(A \cup B) + Cardinality(C)
    BY <1>1, <1>2
  <1>4. Cardinality(A \cup B \cup C \cup D) = Cardinality(A \cup B \cup C) + Cardinality(D)
    BY <1>1, <1>3
  <1> QED BY <1>2, <1>3, <1>4

\* What a run checks follows from where the items are.
LEMMA PlacedOnce == TypeInv /\ Numbered /\ Placed /\ Kept /\ InOrder => EachItemOnce
  <1> SUFFICES ASSUME TypeInv, Numbered, Placed, Kept, InOrder PROVE EachItemOnce
    OBVIOUS
  <1>1. queue \in Seq(Item) /\ results \in Seq(Item) /\ added \in Seq(Item) /\ taken \in Seq(Item)
    BY DEF TypeInv, TypeOK, Item, Numbered
  <1>2. \A s \in Seq(Item) : IsInjective(s) => IsFiniteSet(Range(s))
    BY CountItems
  <1>3. \A s \in Seq(Item) : IsInjective(s) => Cardinality(Range(s)) = Len(s)
    BY CountItems
  <1>4. IsFiniteSet(Held)
    <2>1. IsFiniteSet(Movers)
      BY ThreadAssumption, FS_Subset DEF Threads
    <2>2. IsFiniteSet({held[t] : t \in Movers})
      <3> DEFINE f == [t \in Movers |-> held[t]]
                 T == {held[t] : t \in Movers}
      <3>1. f \in Surjection(Movers, T)
        BY DEF Surjection
      <3> HIDE DEF f, T
      <3>2. IsFiniteSet(T)
        BY <2>1, <3>1, FS_Surjection
      <3> QED BY <3>2 DEF T
    <2> QED BY <2>2, FS_Subset DEF Held
  <1>5. Cardinality(Seen) = Len(taken) + Len(results) + Cardinality(Held) + Len(queue)
    <2>1. /\ IsFiniteSet(Range(taken)) /\ IsFiniteSet(Range(results)) /\ IsFiniteSet(Range(queue))
          /\ Cardinality(Range(taken)) = Len(taken) /\ Cardinality(Range(results)) = Len(results)
          /\ Cardinality(Range(queue)) = Len(queue)
      BY <1>1, <1>2, <1>3 DEF Placed
    <2>2. /\ Range(taken) \cap Range(results) = {}
          /\ (Range(taken) \cup Range(results)) \cap Held = {}
          /\ (Range(taken) \cup Range(results) \cup Held) \cap Range(queue) = {}
      BY DEF Placed
    <2> DEFINE A == Range(taken)
               B == Range(results)
               D == Range(queue)
    <2>3. /\ IsFiniteSet(A) /\ IsFiniteSet(B) /\ IsFiniteSet(Held) /\ IsFiniteSet(D)
          /\ A \cap B = {} /\ (A \cup B) \cap Held = {} /\ (A \cup B \cup Held) \cap D = {}
      BY <1>4, <2>1, <2>2
    <2>4. Seen = A \cup B \cup Held \cup D
      BY DEF Seen
    <2>5. Cardinality(A) = Len(taken) /\ Cardinality(B) = Len(results) /\ Cardinality(D) = Len(queue)
      BY <2>1
    <2> HIDE DEF A, B, D
    <2>6. Cardinality(Seen) = Cardinality(A) + Cardinality(B) + Cardinality(Held) + Cardinality(D)
      BY <2>3, <2>4, CountPlaces
    <2> QED BY <2>5, <2>6
  <1>6. clears = 0 => Cardinality(Seen) = Len(added)
    <2>1. clears = 0 => Seen = Range(added)
      BY DEF Kept
    <2> QED BY <1>1, <1>3, <2>1 DEF Placed
  <1>7. Cardinality(Movers) = 1 =>
            \A i, j \in DOMAIN taken : (i < j /\ taken[i][1] = taken[j][1]) => taken[i][2] > taken[j][2]
    <2> SUFFICES ASSUME Cardinality(Movers) = 1
                 PROVE  \A i, j \in DOMAIN taken :
                            (i < j /\ taken[i][1] = taken[j][1]) => taken[i][2] > taken[j][2]
      OBVIOUS
    <2>1. IsFiniteSet(Movers)
      BY ThreadAssumption, FS_Subset DEF Threads
    <2>2. PICK m : Movers = {m}
      BY <2>1, FS_Singleton
    <2>3. Ordered(taken)
      BY <2>2 DEF InOrder
    <2> QED BY <2>3 DEF Ordered, Before
  <1>8. Seen = {taken[i] : i \in DOMAIN taken} \cup {results[i] : i \in DOMAIN results}
               \cup ({held[t] : t \in Movers} \ {none}) \cup {queue[i] : i \in DOMAIN queue}
    BY DEF Seen, Held, Range
  <1>9. Seen \subseteq {added[i] : i \in DOMAIN added}
    BY DEF Kept, Range
  <1> QED BY <1>5, <1>6, <1>7, <1>8, <1>9 DEF EachItemOnce, Held

\* Every item that was added is in one place, whichever threads move it when: in
\* the queue, in the hand of a mover, in the results or taken, or clear() lost
\* it; and with one mover those of an adder are taken in the order of their adding.
THEOREM ItemsOnce == Spec => []EachItemOnce
  <1> DEFINE Inv == TypeInv /\ Numbered /\ Placed /\ Kept /\ InOrder
  <1>1. Init => Inv
    BY InitType, InitItems
  <1>2. Inv /\ [Next]_vars => Inv'
    BY StepType, StepNumbered, StepItems
  <1>3. Inv => EachItemOnce
    BY PlacedOnce
  <1> QED BY <1>1, <1>2, <1>3, PTL DEF Spec
=============================================================================
