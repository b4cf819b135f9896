------------------------------ MODULE BaseProofs ------------------------------
(***************************************************************************)
(* The safety of base/.  ThreadPool, for every number of workers and       *)
(* producers and every queue limit: types, the bound, the order, no lost   *)
(* notification on either condition variable, and what stop() leaves       *)
(* undone.  Logging, for every number of writers and every size of buffer  *)
(* that a heading fits: what a line tells.  Date and TimeZone: the day     *)
(* numbers are those of the calendar, from 4800 BC on, and come back.      *)
(***************************************************************************)
EXTENDS ThreadPool, Logging, FiniteSetTheorems, SequenceTheorems, NaturalsInduction, WellFoundedInduction, TLAPS

-----------------------------------------------------------------------------
(* Counting threads.                                                       *)

\* There are finitely many threads, so those at one place can be counted.
LEMMA ThreadsFinite == IsFiniteSet(Threads)
  BY ThreadPoolAssumption, FS_Union DEF Threads

\* A set of threads has a natural number as its cardinality.
LEMMA CountType ==
    ASSUME NEW S \in SUBSET Threads
    PROVE  IsFiniteSet(S) /\ Cardinality(S) \in Nat
  BY ThreadsFinite, FS_Subset, FS_CardinalityType

\* A thread that arrives at a place is one more there.
LEMMA CountAdd ==
    ASSUME NEW S \in SUBSET Threads, NEW t \in Threads, t \notin S
    PROVE  Cardinality(S \cup {t}) = Cardinality(S) + 1
  BY CountType, FS_AddElement

\* A thread that leaves a place is one fewer there.
LEMMA CountRemove ==
    ASSUME NEW S \in SUBSET Threads, NEW t \in S
    PROVE  Cardinality(S \ {t}) = Cardinality(S) - 1
  BY CountType, FS_RemoveElement

\* The threads at a place are threads.
LEMMA AtSubset == \A loc : At(loc) \in SUBSET Threads
  BY DEF At

-----------------------------------------------------------------------------
(* Types.                                                                  *)

Locs == {"none", "test", "take", "waitEmpty", "exec", "done", "out", "put", "waitFull"}

\* What TypeOK says of one thread.
ThreadOK(t, loc, argument) ==
    /\ loc \in Locs
    /\ t \in Workers => loc # "out"
    /\ t \in Producers => loc \in {"out", "put", "waitFull"}
    /\ IF loc \in {"put", "waitFull"} THEN argument \in Tasks ELSE argument = NoTask

PoolTypes ==
    /\ m_running \in BOOLEAN
    /\ m_threads \subseteq Workers
    /\ m_taskQueue \in Seq(Tasks) /\ accepted \in Seq(Tasks) /\ taken \in Seq(Tasks)
    /\ owner \in {"new", "starting", "running", "joining", "stopped"}
    /\ pc \in [Threads -> Locs]
    /\ arg \in [Threads -> Tasks \cup {NoTask}]
    /\ cur \in [Threads -> Tasks \cup {NoTask}]
    /\ submitted \subseteq Tasks
    /\ stopMark \in Nat

\* TypeOK from the facts about each thread.
LEMMA TypeByThread ==
    TypeOK <=> PoolTypes /\ \A t \in Threads : ThreadOK(t, pc[t], arg[t])
  BY DEF TypeOK, PoolTypes, ThreadOK, Locs, Threads

\* A notification leaves every thread's location right and moves one sleeper.
LEMMA NotifyType ==
    ASSUME NEW f \in [Threads -> Locs], NEW from \in Locs, NEW to \in Locs,
           notifyOne(f, from, to)
    PROVE  /\ pc' \in [Threads -> Locs]
           /\ \A t \in Threads : pc'[t] = f[t] \/ (t \in At(from) /\ pc'[t] = to)
  BY DEF notifyOne, At

\* The initial state has the right types.
LEMMA InitType == Init => TypeOK
  <1> SUFFICES ASSUME Init PROVE TypeOK
    OBVIOUS
  <1>1. <<>> \in Seq(Tasks)
    OBVIOUS
  <1>2. PoolTypes
    BY <1>1 DEF Init, PoolTypes, Locs
  <1>3. \A t \in Threads : ThreadOK(t, pc[t], arg[t])
    BY ThreadPoolAssumption DEF Init, ThreadOK, Locs, Threads
  <1> QED BY <1>2, <1>3, TypeByThread

\* Every step preserves the types.
LEMMA TypeStep ==
    ASSUME TypeOK, [Next]_vars
    PROVE  TypeOK'
  <1> DEFINE Typed == PoolTypes /\ \A t \in Threads : ThreadOK(t, pc[t], arg[t])
  <1>1. Typed
    BY TypeByThread
  <1>2. Typed'
    <2> USE DEF PoolTypes
    <2>1. CASE UNCHANGED vars
      BY <1>1, <2>1 DEF vars, poolVars, historyVars
    <2>2. CASE StartBegin \/ StartEnd \/ StopEnd
      BY <1>1, <2>2 DEF StartBegin, StartEnd, StopEnd, historyVars
    <2>3. ASSUME NEW w \in Workers, SpawnWorker(w)
          PROVE  Typed'
      BY <1>1, <2>3, ThreadPoolAssumption
         DEF SpawnWorker, historyVars, Locs, ThreadOK, Threads
    <2>4. CASE StopBegin
      <3>1. Len(taken) \in Nat
        BY <1>1, LenProperties
      <3> QED BY <1>1, <2>4, <3>1 DEF StopBegin, historyVars, Locs, ThreadOK
    <2>5. ASSUME NEW t \in Threads, CallRun(t)
          PROVE  Typed'
      BY <1>1, <2>5, ThreadPoolAssumption
         DEF CallRun, poolVars, historyVars, Locs, ThreadOK, Threads
    <2>6. ASSUME NEW t \in Threads, Put(t)
          PROVE  Typed'
      <3>1. CASE isFull
        BY <1>1, <2>6, <3>1 DEF Put, poolVars, Locs, ThreadOK
      <3>2. CASE ~isFull
        <4> DEFINE back == [pc EXCEPT ![t] = callSite(t)]
        <4>1. back \in [Threads -> Locs] /\ back[t] = callSite(t)
              /\ \A u \in Threads \ {t} : back[u] = pc[u]
          BY <1>1 DEF callSite, Locs
        <4>2. push(t) /\ notifyOne(back, "waitEmpty", "take")
          BY <2>6, <3>2 DEF Put
        <4>3. arg[t] \in Tasks /\ pc[t] = "put"
          BY <1>1, <2>6 DEF Put, ThreadOK
        <4> HIDE DEF back
        <4>4. /\ pc' \in [Threads -> Locs]
              /\ \A u \in Threads : pc'[u] = back[u]
                     \/ (pc[u] = "waitEmpty" /\ pc'[u] = "take")
          BY <4>1, <4>2, NotifyType DEF Locs, At
        <4>5. PoolTypes'
          <5>1. /\ m_taskQueue' \in Seq(Tasks) /\ accepted' \in Seq(Tasks)
                /\ arg' \in [Threads -> Tasks \cup {NoTask}]
            BY <1>1, <4>2, <4>3 DEF push
          <5> QED BY <1>1, <2>6, <4>4, <5>1 DEF Put, poolVars
        <4>6. /\ arg'[t] = NoTask
              /\ \A u \in Threads \ {t} : arg'[u] = arg[u]
          BY <1>1, <4>2 DEF push
        <4>7. ASSUME NEW u \in Threads
              PROVE  ThreadOK(u, pc'[u], arg'[u])
          <5>1. CASE u = t
            BY <1>1, <4>1, <4>3, <4>4, <4>6, <5>1, ThreadPoolAssumption
               DEF ThreadOK, callSite, Locs, Threads
          <5>2. CASE u # t
            <6>1. ThreadOK(u, pc[u], arg[u]) /\ arg'[u] = arg[u] /\ back[u] = pc[u]
              BY <1>1, <4>1, <4>6, <5>2
            <6> QED BY <4>4, <6>1 DEF ThreadOK, Locs
          <5> QED BY <5>1, <5>2
        <4> QED BY <4>5, <4>7
      <3> QED BY <3>1, <3>2
    <2>7. ASSUME NEW w \in Workers, TestRunning(w) \/ FinishTask(w)
          PROVE  Typed'
      BY <1>1, <2>7, ThreadPoolAssumption
         DEF TestRunning, FinishTask, poolVars, historyVars, Locs, ThreadOK, Threads
    <2>8. ASSUME NEW w \in Workers, Take(w)
          PROVE  Typed'
      <3>1. CASE m_taskQueue = <<>>
        BY <1>1, <2>8, <3>1, ThreadPoolAssumption
           DEF Take, poolVars, Locs, ThreadOK, Threads
      <3>2. CASE m_taskQueue # <<>>
        <4> DEFINE back == [pc EXCEPT ![w] = "exec"]
        <4>1. w \in Threads /\ back \in [Threads -> Locs] /\ back[w] = "exec"
              /\ \A u \in Threads \ {w} : back[u] = pc[u]
          BY <1>1 DEF Locs, Threads
        <4>2. pop(w) /\ (pc' = back \/ notifyOne(back, "waitFull", "put"))
          BY <2>8, <3>2 DEF Take
        <4> HIDE DEF back
        <4>3. /\ pc' \in [Threads -> Locs]
              /\ \A u \in Threads : pc'[u] = back[u]
                     \/ (pc[u] = "waitFull" /\ pc'[u] = "put")
          BY <4>1, <4>2, NotifyType DEF Locs, At
        <4>4. Head(m_taskQueue) \in Tasks /\ Tail(m_taskQueue) \in Seq(Tasks)
          BY <1>1, <3>2, HeadTailProperties
        <4>5. PoolTypes'
          <5>1. /\ m_taskQueue' \in Seq(Tasks) /\ taken' \in Seq(Tasks)
                /\ cur' \in [Threads -> Tasks \cup {NoTask}]
            <6>1. taken' = Append(taken, Head(m_taskQueue)) /\ m_taskQueue' = Tail(m_taskQueue)
                  /\ cur' = [cur EXCEPT ![w] = Head(m_taskQueue)]
              BY <4>2 DEF pop
            <6>2. taken' \in Seq(Tasks)
              BY <1>1, <4>4, <6>1
            <6>3. cur' \in [Threads -> Tasks \cup {NoTask}]
              BY <1>1, <4>4, <6>1
            <6> QED BY <4>4, <6>1, <6>2, <6>3
          <5> QED BY <1>1, <2>8, <4>3, <5>1 DEF Take, poolVars
        <4>6. ASSUME NEW u \in Threads
              PROVE  ThreadOK(u, pc'[u], arg'[u])
          <5>1. ThreadOK(u, pc[u], arg[u]) /\ arg' = arg /\ pc[w] = "take"
            BY <1>1, <2>8 DEF Take
          <5>2. CASE u = w
            BY <4>1, <4>3, <5>1, <5>2, ThreadPoolAssumption DEF ThreadOK, Locs
          <5>3. CASE u # w
            BY <4>1, <4>3, <5>1, <5>3 DEF ThreadOK, Locs
          <5> QED BY <5>2, <5>3
        <4> QED BY <4>5, <4>6
      <3> QED BY <3>1, <3>2
    <2>9. ASSUME NEW t \in Threads, SpuriousWakeup(t)
          PROVE  Typed'
      BY <1>1, <2>9 DEF SpuriousWakeup, poolVars, historyVars, Locs, ThreadOK
    <2> QED
      BY <2>1, <2>2, <2>3, <2>4, <2>5, <2>6, <2>7, <2>8, <2>9
         DEF Next, OwnerStep, WorkerStep
  <1>3. TypeOK' <=> Typed'
    BY DEF TypeOK, PoolTypes, ThreadOK, Locs, Threads
  <1> QED BY <1>2, <1>3

\* TypeOK, for every pool.
THEOREM TypeCorrect == Spec => []TypeOK
  BY InitType, TypeStep, PTL DEF Spec

-----------------------------------------------------------------------------
(* Notifications, the bound and stop().                                    *)

\* After stop() nobody waits for a task any more.
Stopping ==
    owner \in {"joining", "stopped"} => ~m_running /\ At("waitEmpty") = {}

Waiting == NoLostNotEmpty /\ NoLostNotFull /\ Stopping /\ StopTakesOneMoreEach /\ QueueBounded

\* The number of threads at a place is a natural number.
LEMMA AtCount == \A loc : Cardinality(At(loc)) \in Nat
  BY AtSubset, CountType

\* So is it after a step.
LEMMA NextCount == \A loc : Cardinality(At(loc)') \in Nat
  <1>1. \A loc : At(loc)' \in SUBSET Threads
    BY DEF At
  <1> QED BY <1>1, CountType

\* The workers are finitely many.
LEMMA WorkersCount == IsFiniteSet(Workers) /\ Cardinality(Workers) \in Nat
  BY ThreadPoolAssumption, FS_CardinalityType

\* Only workers take, so at most all of them do.
LEMMA TakersAreWorkers ==
    ASSUME TypeOK
    PROVE  Cardinality(At("take") \cup At("waitEmpty")) <= Cardinality(Workers)
  <1>1. At("take") \cup At("waitEmpty") \in SUBSET Workers
    BY DEF TypeOK, At, Threads
  <1> QED BY <1>1, WorkersCount, FS_Subset

\* A step that moves one thread and neither queues nor takes a task.
LEMMA MoveKeepsWaiting ==
    ASSUME TypeOK, Waiting, NEW t \in Threads, NEW a \in Locs,
           pc' = [pc EXCEPT ![t] = a],
           UNCHANGED <<m_taskQueue, taken, m_running, owner, stopMark>>,
           a \in {"waitEmpty", "waitFull"} => pc[t] \in {"take", "put"},
           a = "waitEmpty" => pc[t] = "take" /\ m_taskQueue = <<>> /\ m_running,
           a = "waitFull" => pc[t] = "put" /\ isFull,
           pc[t] = "take" => a = "waitEmpty" \/ m_taskQueue = <<>>,
           pc[t] = "put" => a = "waitFull",
           a = "take" => m_running \/ pc[t] = "waitEmpty"
    PROVE  Waiting'
  <1> DEFINE moved == [pc EXCEPT ![t] = a]
  <1>1. moved[t] = a /\ \A u \in Threads \ {t} : moved[u] = pc[u]
    BY DEF TypeOK
  <1>2. pc' = moved
    OBVIOUS
  <1> HIDE DEF moved
  <1>3. \A loc : At(loc)' = IF a = loc THEN At(loc) \cup {t} ELSE At(loc) \ {t}
    BY <1>1, <1>2 DEF At
  <1>4. \A loc : Cardinality(At(loc)) \in Nat
    BY AtCount
  <1>5. ASSUME NEW loc
        PROVE  /\ a = loc /\ pc[t] # loc => Cardinality(At(loc)') = Cardinality(At(loc)) + 1
               /\ a = loc /\ pc[t] = loc => At(loc)' = At(loc)
               /\ a # loc /\ pc[t] = loc => Cardinality(At(loc)') = Cardinality(At(loc)) - 1
               /\ a # loc /\ pc[t] # loc => At(loc)' = At(loc)
    <2>1. t \in At(loc) <=> pc[t] = loc
      BY DEF At
    <2> QED BY <1>3, <2>1, AtSubset, CountAdd, CountRemove
  <1>6. Len(m_taskQueue) \in Nat /\ Len(taken) \in Nat /\ Cardinality(Workers) \in Nat
        /\ stopMark \in Nat /\ MaxQueueSize \in Nat
    BY LenProperties, WorkersCount, ThreadPoolAssumption DEF TypeOK
  <1>7. m_taskQueue = <<>> => Len(m_taskQueue) = 0
    BY EmptySeq
  <1>8. NoLostNotEmpty'
    <2>1. Cardinality(At("take")') \in Nat
      BY NextCount
    <2>2. CASE m_taskQueue = <<>>
      BY <1>7, <2>1, <2>2 DEF NoLostNotEmpty
    <2>3. CASE m_taskQueue # <<>>
      <3>1. a # "waitEmpty" /\ pc[t] # "take"
        BY <2>3
      <3>2. At("waitEmpty")' \subseteq At("waitEmpty")
        BY <1>3, <3>1
      <3>3. Cardinality(At("take")') >= Cardinality(At("take"))
        BY <1>4, <1>5, <3>1
      <3> QED BY <1>4, <1>6, <2>1, <3>2, <3>3 DEF Waiting, NoLostNotEmpty
    <2> QED BY <2>2, <2>3
  <1>9. NoLostNotFull'
    <2>1. Cardinality(At("put")') \in Nat
      BY NextCount
    <2>2. CASE a = "waitFull"
      BY <1>6, <2>1, <2>2 DEF NoLostNotFull, isFull
    <2>3. CASE a # "waitFull"
      <3>1. At("waitFull")' \subseteq At("waitFull")
        BY <1>3, <2>3
      <3>2. Cardinality(At("put")') >= Cardinality(At("put"))
        BY <1>4, <1>5, <2>3
      <3> QED BY <1>4, <1>6, <2>1, <3>1, <3>2 DEF Waiting, NoLostNotFull
    <2> QED BY <2>2, <2>3
  <1>10. Stopping'
    BY <1>3, <1>5 DEF Waiting, Stopping
  <1>11. StopTakesOneMoreEach'
    <2>1. CASE a = "take" /\ pc[t] # "take"
      BY <2>1 DEF Waiting, Stopping, StopTakesOneMoreEach, At
    <2>2. CASE ~(a = "take" /\ pc[t] # "take")
      BY <1>4, <1>5, <1>6, <2>2 DEF Waiting, StopTakesOneMoreEach
    <2> QED BY <2>1, <2>2
  <1>12. QueueBounded'
    BY DEF Waiting, QueueBounded
  <1> QED BY <1>8, <1>9, <1>10, <1>11, <1>12 DEF Waiting

\* The numbers the invariant speaks of are natural numbers.
LEMMA NumbersType ==
    ASSUME TypeOK
    PROVE  /\ Len(m_taskQueue) \in Nat /\ Len(taken) \in Nat /\ stopMark \in Nat
           /\ MaxQueueSize \in Nat /\ Cardinality(Workers) \in Nat
           /\ \A loc : Cardinality(At(loc)) \in Nat /\ Cardinality(At(loc)') \in Nat
  BY LenProperties, WorkersCount, ThreadPoolAssumption, AtCount, NextCount DEF TypeOK

\* What a push and its notification must do to the counts.
LEMMA PushCounts ==
    ASSUME TypeOK, Waiting, UNCHANGED <<poolVars, taken>>,
           MaxQueueSize > 0 => Len(m_taskQueue) < MaxQueueSize,
           Len(m_taskQueue') = Len(m_taskQueue) + 1,
           Cardinality(At("put")') = Cardinality(At("put")) - 1,
           At("waitFull")' = At("waitFull"),
           \/ /\ At("waitEmpty") = {} /\ At("waitEmpty")' = {}
              /\ Cardinality(At("take")') = Cardinality(At("take"))
           \/ /\ At("waitEmpty") # {}
              /\ Cardinality(At("take")') = Cardinality(At("take")) + 1
    PROVE  Waiting'
  <1>1. /\ Len(m_taskQueue) \in Nat /\ MaxQueueSize \in Nat
        /\ Cardinality(At("put")) \in Nat /\ Cardinality(At("take")) \in Nat
    BY NumbersType
  <1>2. NoLostNotEmpty'
    BY <1>1 DEF Waiting, NoLostNotEmpty
  <1>3. NoLostNotFull'
    <2>1. At("waitFull")' # {} =>
            MaxQueueSize <= Len(m_taskQueue) + Cardinality(At("put"))
      BY DEF Waiting, NoLostNotFull
    <2>2. Len(m_taskQueue') + Cardinality(At("put")')
            = Len(m_taskQueue) + Cardinality(At("put"))
      BY <1>1
    <2> QED BY <2>1, <2>2 DEF NoLostNotFull
  <1>4. Stopping' /\ StopTakesOneMoreEach'
    <2>1. CASE At("waitEmpty") = {}
      BY <2>1 DEF Waiting, Stopping, StopTakesOneMoreEach, poolVars
    <2>2. CASE At("waitEmpty") # {}
      BY <2>2 DEF Waiting, Stopping, StopTakesOneMoreEach, poolVars
    <2> QED BY <2>1, <2>2
  <1>5. QueueBounded'
    BY <1>1 DEF QueueBounded
  <1> QED BY <1>2, <1>3, <1>4, <1>5 DEF Waiting

\* What a pop and its notification must do to the counts.
LEMMA PopCounts ==
    ASSUME TypeOK, Waiting, UNCHANGED poolVars, Len(m_taskQueue) # 0,
           Len(m_taskQueue') = Len(m_taskQueue) - 1, Len(taken') = Len(taken) + 1,
           Cardinality(At("take")') = Cardinality(At("take")) - 1,
           At("waitEmpty")' = At("waitEmpty"),
           \/ MaxQueueSize = 0
           \/ At("waitFull") = {} /\ At("waitFull")' = {}
           \/ /\ At("waitFull") # {}
              /\ Cardinality(At("put")') = Cardinality(At("put")) + 1
    PROVE  Waiting'
  <1>1. /\ Len(m_taskQueue) \in Nat /\ MaxQueueSize \in Nat /\ Len(taken) \in Nat
        /\ Cardinality(At("put")) \in Nat /\ Cardinality(At("take")) \in Nat
        /\ stopMark \in Nat /\ Cardinality(Workers) \in Nat
        /\ Cardinality(At("put")') \in Nat
    BY NumbersType
  <1>2. NoLostNotEmpty'
    BY <1>1 DEF Waiting, NoLostNotEmpty
  <1>3. NoLostNotFull'
    <2>1. CASE MaxQueueSize = 0
      <3>1. Len(m_taskQueue') + Cardinality(At("put")') \in Nat
        BY <1>1
      <3> QED BY <2>1, <3>1 DEF NoLostNotFull
    <2>2. CASE At("waitFull") = {} /\ At("waitFull")' = {}
      BY <2>2 DEF NoLostNotFull
    <2>3. CASE At("waitFull") # {} /\ Cardinality(At("put")') = Cardinality(At("put")) + 1
      <3>1. MaxQueueSize <= Len(m_taskQueue) + Cardinality(At("put"))
        BY <2>3 DEF Waiting, NoLostNotFull
      <3>2. Len(m_taskQueue') + Cardinality(At("put")')
              = Len(m_taskQueue) + Cardinality(At("put"))
        BY <1>1, <2>3
      <3> QED BY <3>1, <3>2 DEF NoLostNotFull
    <2> QED BY <2>1, <2>2, <2>3
  <1>4. Stopping'
    BY DEF Waiting, Stopping, poolVars
  <1>5. StopTakesOneMoreEach'
    <2>1. Len(taken') + Cardinality(At("take")') = Len(taken) + Cardinality(At("take"))
      BY <1>1
    <2> QED BY <2>1 DEF Waiting, StopTakesOneMoreEach, poolVars
  <1>6. QueueBounded'
    BY <1>1 DEF Waiting, QueueBounded
  <1> QED BY <1>2, <1>3, <1>4, <1>5, <1>6 DEF Waiting

\* run() that finds room: the caller leaves, a worker may be notified.
LEMMA PutKeepsWaiting ==
    ASSUME TypeOK, Waiting, NEW t \in Threads, Put(t), ~isFull
    PROVE  Waiting'
  <1> DEFINE back == [pc EXCEPT ![t] = callSite(t)]
  <1>1. /\ back[t] \in {"exec", "out"} /\ \A u \in Threads \ {t} : back[u] = pc[u]
        /\ DOMAIN back = Threads
    BY DEF TypeOK, callSite
  <1>2. /\ notifyOne(back, "waitEmpty", "take") /\ push(t) /\ pc[t] = "put"
        /\ UNCHANGED <<poolVars, taken>>
    BY DEF Put
  <1> HIDE DEF back
  <1>3. arg[t] \in Tasks
    BY <1>2, TypeByThread DEF ThreadOK
  <1>4. Len(m_taskQueue') = Len(m_taskQueue) + 1
    BY <1>2, <1>3 DEF push, TypeOK
  <1>5. MaxQueueSize > 0 => Len(m_taskQueue) < MaxQueueSize
    BY NumbersType DEF isFull
  <1>6. \/ At("waitEmpty") = {} /\ pc' = back
        \/ \E s \in At("waitEmpty") : pc' = [back EXCEPT ![s] = "take"]
    BY <1>2 DEF notifyOne
  <1>7. Cardinality(At("put") \ {t}) = Cardinality(At("put")) - 1
    BY <1>2, AtSubset, CountRemove DEF At
  <1>8. CASE At("waitEmpty") = {} /\ pc' = back
    <2>1. /\ At("put")' = At("put") \ {t} /\ At("waitFull")' = At("waitFull")
          /\ At("take")' = At("take") /\ At("waitEmpty")' = {}
      BY <1>1, <1>2, <1>8 DEF At
    <2> QED BY <1>2, <1>4, <1>5, <1>7, <1>8, <2>1, PushCounts
  <1>9. CASE \E s \in At("waitEmpty") : pc' = [back EXCEPT ![s] = "take"]
    <2>1. PICK s \in At("waitEmpty") : pc' = [back EXCEPT ![s] = "take"]
      BY <1>9
    <2>2. s \in Threads /\ pc[s] = "waitEmpty" /\ s # t
      BY <1>2, <2>1 DEF At
    <2>3. /\ pc'[s] = "take" /\ \A u \in Threads \ {s} : pc'[u] = back[u]
      BY <1>1, <2>1, <2>2
    <2>4. /\ At("put")' = At("put") \ {t} /\ At("waitFull")' = At("waitFull")
          /\ At("take")' = At("take") \cup {s} /\ s \notin At("take")
      BY <1>1, <1>2, <2>2, <2>3 DEF At
    <2>5. Cardinality(At("take")') = Cardinality(At("take")) + 1
      BY <2>2, <2>4, AtSubset, CountAdd
    <2> QED BY <1>2, <1>4, <1>5, <1>7, <2>1, <2>4, <2>5, PushCounts
  <1> QED BY <1>6, <1>8, <1>9

\* take() that finds a task: the worker leaves, a caller of run() may be notified.
LEMMA TakeKeepsWaiting ==
    ASSUME TypeOK, Waiting, NEW w \in Workers, Take(w), m_taskQueue # <<>>
    PROVE  Waiting'
  <1> DEFINE back == [pc EXCEPT ![w] = "exec"]
  <1>1. /\ back[w] = "exec" /\ \A u \in Threads \ {w} : back[u] = pc[u]
        /\ DOMAIN back = Threads /\ w \in Threads
    BY DEF TypeOK, Threads
  <1>2. /\ IF MaxQueueSize > 0 THEN notifyOne(back, "waitFull", "put") ELSE pc' = back
        /\ pop(w) /\ pc[w] = "take" /\ UNCHANGED poolVars
    BY DEF Take
  <1> HIDE DEF back
  <1>3. Len(m_taskQueue') = Len(m_taskQueue) - 1 /\ Len(m_taskQueue) # 0
    BY <1>2, HeadTailProperties, EmptySeq DEF pop, TypeOK
  <1>4. Len(taken') = Len(taken) + 1
    BY <1>2, HeadTailProperties DEF pop, TypeOK
  <1>5. Cardinality(At("take") \ {w}) = Cardinality(At("take")) - 1
    BY <1>1, <1>2, AtSubset, CountRemove DEF At
  <1>6. CASE pc' = back /\ (MaxQueueSize = 0 \/ At("waitFull") = {})
    <2>1. /\ At("take")' = At("take") \ {w} /\ At("waitEmpty")' = At("waitEmpty")
          /\ At("waitFull")' = At("waitFull")
      BY <1>1, <1>2, <1>6 DEF At
    <2> QED BY <1>2, <1>3, <1>4, <1>5, <1>6, <2>1, PopCounts
  <1>7. CASE \E s \in At("waitFull") : pc' = [back EXCEPT ![s] = "put"]
    <2>1. PICK s \in At("waitFull") : pc' = [back EXCEPT ![s] = "put"]
      BY <1>7
    <2>2. s \in Threads /\ pc[s] = "waitFull" /\ s # w
      BY <1>2, <2>1 DEF At
    <2>3. /\ pc'[s] = "put" /\ \A u \in Threads \ {s} : pc'[u] = back[u]
      BY <1>1, <2>1, <2>2
    <2>4. /\ At("take")' = At("take") \ {w} /\ At("waitEmpty")' = At("waitEmpty")
          /\ At("put")' = At("put") \cup {s} /\ s \notin At("put")
      BY <1>1, <1>2, <2>2, <2>3 DEF At
    <2>5. Cardinality(At("put")') = Cardinality(At("put")) + 1
      BY <2>2, <2>4, AtSubset, CountAdd
    <2> QED BY <1>2, <1>3, <1>4, <1>5, <2>1, <2>4, <2>5, PopCounts
  <1>8. CASE MaxQueueSize = 0
    BY <1>2, <1>6, <1>8
  <1>9. CASE MaxQueueSize # 0
    <2>1. notifyOne(back, "waitFull", "put")
      BY <1>2, <1>9, NumbersType
    <2> QED BY <1>6, <1>7, <2>1 DEF notifyOne
  <1> QED BY <1>8, <1>9

\* stop(): everybody waiting for a task is woken.
LEMMA StopKeepsWaiting ==
    ASSUME TypeOK, Waiting, StopBegin
    PROVE  Waiting'
  <1>1. /\ At("take")' = At("take") \cup At("waitEmpty") /\ At("waitEmpty")' = {}
        /\ At("put")' = At("put") /\ At("waitFull")' = At("waitFull")
    BY DEF StopBegin, At
  <1>2. Len(taken) \in Nat /\ Cardinality(Workers) \in Nat
        /\ Cardinality(At("take")') \in Nat
    BY LenProperties, WorkersCount, NextCount DEF TypeOK
  <1>3. Len(taken) + Cardinality(At("take")') <= stopMark' + Cardinality(Workers)
    <2>1. Cardinality(At("take")') <= Cardinality(Workers)
      BY <1>1, TakersAreWorkers
    <2>2. stopMark' = Len(taken)
      BY DEF StopBegin
    <2> QED BY <1>2, <2>1, <2>2
  <1> QED
    BY <1>1, <1>3 DEF StopBegin, historyVars, Waiting, NoLostNotEmpty, NoLostNotFull,
       Stopping, StopTakesOneMoreEach, QueueBounded

\* Every step preserves the two counting invariants of the condition variables.
LEMMA WaitingStep ==
    ASSUME TypeOK, Waiting, [Next]_vars
    PROVE  Waiting'
  <1>1. CASE UNCHANGED <<m_taskQueue, taken, m_running, stopMark, pc>>
             /\ (owner' \in {"joining", "stopped"} => owner \in {"joining", "stopped"})
    BY <1>1 DEF Waiting, NoLostNotEmpty, NoLostNotFull, Stopping, StopTakesOneMoreEach,
       QueueBounded, At
  <1>2. CASE UNCHANGED vars \/ StartEnd \/ StopEnd
    BY <1>1, <1>2 DEF vars, poolVars, historyVars, StartEnd, StopEnd
  <1>3. CASE StartBegin
    BY <1>3 DEF StartBegin, historyVars, Waiting, NoLostNotEmpty, NoLostNotFull, Stopping,
       StopTakesOneMoreEach, QueueBounded, At
  <1>4. ASSUME NEW w \in Workers, SpawnWorker(w)
        PROVE  Waiting'
    BY <1>4, MoveKeepsWaiting DEF SpawnWorker, historyVars, Locs, Threads
  <1>5. CASE StopBegin
    BY <1>5, StopKeepsWaiting
  <1>6. ASSUME NEW t \in Threads, CallRun(t)
        PROVE  Waiting'
    <2>1. CASE m_threads = {}
      BY <1>1, <1>6, <2>1 DEF CallRun, poolVars, historyVars
    <2>2. CASE m_threads # {}
      <3>1. pc' = [pc EXCEPT ![t] = "put"] /\ pc[t] \in {"out", "exec"}
            /\ UNCHANGED <<m_taskQueue, taken, m_running, owner, stopMark>>
        BY <1>6, <2>2 DEF CallRun, InClientCode, poolVars, historyVars
      <3> QED BY <3>1, MoveKeepsWaiting DEF Locs
    <2> QED BY <2>1, <2>2
  <1>7. ASSUME NEW t \in Threads, Put(t)
        PROVE  Waiting'
    <2>1. CASE isFull
      BY <1>7, <2>1, MoveKeepsWaiting DEF Put, poolVars, Locs
    <2> QED BY <1>7, <2>1, PutKeepsWaiting
  <1>8. ASSUME NEW w \in Workers, TestRunning(w) \/ FinishTask(w)
        PROVE  Waiting'
    BY <1>8, MoveKeepsWaiting DEF TestRunning, FinishTask, poolVars, historyVars, Locs, Threads
  <1>9. ASSUME NEW w \in Workers, Take(w)
        PROVE  Waiting'
    <2>1. CASE m_taskQueue = <<>>
      BY <1>9, <2>1, MoveKeepsWaiting DEF Take, poolVars, Locs, Threads
    <2> QED BY <1>9, <2>1, TakeKeepsWaiting
  <1>10. ASSUME NEW t \in Threads, SpuriousWakeup(t)
         PROVE  Waiting'
    BY <1>10, MoveKeepsWaiting DEF SpuriousWakeup, poolVars, historyVars, Locs
  <1> QED
    BY <1>2, <1>3, <1>4, <1>5, <1>6, <1>7, <1>8, <1>9, <1>10
       DEF Next, OwnerStep, WorkerStep

\* They hold initially.
LEMMA InitWaiting == Init => Waiting
  <1> SUFFICES ASSUME Init PROVE Waiting
    OBVIOUS
  <1>1. At("waitEmpty") = {} /\ At("waitFull") = {} /\ Len(m_taskQueue) = 0
    BY DEF Init, At
  <1> QED
    BY <1>1, ThreadPoolAssumption DEF Init, Waiting, NoLostNotEmpty, NoLostNotFull, Stopping,
       StopTakesOneMoreEach, QueueBounded

\* The invariant behind the theorems of this module.
THEOREM Invariance == Spec => []Waiting
  BY InitWaiting, WaitingStep, TypeCorrect, PTL DEF Spec

\* No notification of m_notEmpty is lost (NoLostNotEmpty).
THEOREM WorkersAreNotified == Spec => []NoLostNotEmpty
  <1>1. Waiting => NoLostNotEmpty BY DEF Waiting
  <1> QED BY <1>1, Invariance, PTL

\* No notification of m_notFull is lost (NoLostNotFull).
THEOREM CallersAreNotified == Spec => []NoLostNotFull
  <1>1. Waiting => NoLostNotFull BY DEF Waiting
  <1> QED BY <1>1, Invariance, PTL

\* Neither workers nor callers sleep through their notification (NoLostNotify).
THEOREM NobodyOversleeps == Spec => []NoLostNotify
  <1>1. Waiting => NoLostNotify BY DEF Waiting, NoLostNotify
  <1> QED BY <1>1, Invariance, PTL

\* The queue never exceeds m_maxQueueSize.
THEOREM QueueIsBounded == Spec => []QueueBounded
  <1>1. Waiting => QueueBounded BY DEF Waiting
  <1> QED BY <1>1, Invariance, PTL

\* After stop() at most one more task per worker is taken.
THEOREM StopLeavesTheRest == Spec => []StopTakesOneMoreEach
  <1>1. Waiting => StopTakesOneMoreEach BY DEF Waiting
  <1> QED BY <1>1, Invariance, PTL

-----------------------------------------------------------------------------
(* The order in which tasks are taken.                                     *)

\* Every step keeps the queue in the order of acceptance.
LEMMA OrderStep ==
    ASSUME TypeOK, TakenInOrder, [Next]_vars
    PROVE  TakenInOrder'
  <1>1. CASE UNCHANGED <<m_taskQueue, accepted, taken>>
    BY <1>1 DEF TakenInOrder
  <1>2. ASSUME NEW t \in Threads, Put(t), ~isFull
        PROVE  TakenInOrder'
    <2>1. arg[t] \in Tasks /\ push(t) /\ taken' = taken
      BY <1>2, TypeByThread DEF Put, ThreadOK
    <2>2. taken \o Append(m_taskQueue, arg[t]) = Append(taken \o m_taskQueue, arg[t])
      BY <2>1 DEF TypeOK
    <2> QED BY <2>1, <2>2 DEF push, TakenInOrder
  <1>3. ASSUME NEW w \in Workers, Take(w), m_taskQueue # <<>>
        PROVE  TakenInOrder'
    <2> DEFINE h == Head(m_taskQueue)
               r == Tail(m_taskQueue)
    <2>1. pop(w) /\ accepted' = accepted
      BY <1>3 DEF Take
    <2>2. h \in Tasks /\ r \in Seq(Tasks) /\ m_taskQueue = <<h>> \o r
      BY <1>3, HeadTailProperties DEF TypeOK
    <2>3. taken \in Seq(Tasks) /\ <<h>> \in Seq(Tasks) /\ Append(taken, h) = taken \o <<h>>
      BY <2>2 DEF TypeOK
    <2>4. (taken \o <<h>>) \o r = taken \o (<<h>> \o r)
      BY <2>2, <2>3, ConcatAssociative
    <2> QED BY <2>1, <2>2, <2>3, <2>4 DEF pop, TakenInOrder
  <1>4. ASSUME NEW t \in Threads, Put(t) /\ isFull
        PROVE  TakenInOrder'
    BY <1>1, <1>4 DEF Put
  <1>5. ASSUME NEW w \in Workers, Take(w) /\ m_taskQueue = <<>>
        PROVE  TakenInOrder'
    BY <1>1, <1>5 DEF Take
  <1>6. CASE UNCHANGED vars \/ StartBegin \/ StartEnd \/ StopBegin \/ StopEnd
             \/ (\E w \in Workers : SpawnWorker(w) \/ TestRunning(w) \/ FinishTask(w))
             \/ (\E t \in Threads : CallRun(t) \/ SpuriousWakeup(t))
    BY <1>1, <1>6 DEF vars, historyVars, StartBegin, StartEnd, StopBegin, StopEnd,
       SpawnWorker, TestRunning, FinishTask, CallRun, SpuriousWakeup
  <1> QED
    BY <1>2, <1>3, <1>4, <1>5, <1>6 DEF Next, OwnerStep, WorkerStep

\* Tasks are taken in the order they were accepted, at most once, none lost.
THEOREM OrderIsKept == Spec => []TakenInOrder
  <1>1. Init => TakenInOrder BY DEF Init, TakenInOrder
  <1>2. TypeOK /\ TakenInOrder /\ [Next]_vars => TakenInOrder' BY OrderStep
  <1> QED BY <1>1, <1>2, TypeCorrect, PTL DEF Spec
-----------------------------------------------------------------------------
(* Numbers.                                                                *)

\* Every set of numbers but the empty one has a least member.
LEMMA LeastMember ==
    ASSUME NEW T, T \subseteq Nat, T # {}
    PROVE  \E x \in T : \A y \in T : x <= y
  <1> DEFINE R == OpToRel(<, Nat)
  <1>1. IsWellFoundedOn(R, Nat)
    BY NatLessThanWellFounded
  <1>2. \A u, v \in Nat : u < v => <<u, v>> \in R
    BY DEF OpToRel
  <1> HIDE DEF R
  <1>3. \E x \in T : \A y \in T : ~ (<<y, x>> \in R)
    BY <1>1, WFMin
  <1>4. PICK x \in T : \A y \in T : ~ (<<y, x>> \in R)
    BY <1>3
  <1>5. \A y \in T : x <= y
    <2> TAKE y \in T
    <2>1. x \in Nat /\ y \in Nat /\ ~(y < x)
      BY <1>2, <1>4
    <2> QED BY <2>1
  <1> QED BY <1>5

-----------------------------------------------------------------------------
(* The day numbers of Date.                                                 *)

\* The days before a year that begins in March, as the code counts them, and the
\* same by its century and its year in that.
yearDays(y) == y * 365 + y \div 4 - y \div 100 + y \div 400
centuryDays(b, d) == 36524 * b + b \div 4 + 365 * d + d \div 4

\* Days to March of the years that begin in March, to which the code counts
\* January and February of the next.
LEMMA DaysOfJulian ==
    ASSUME NEW j \in Int, j >= -32044
    PROVE  LET a == j + 32044
               b == (4 * a + 3) \div 146097
               c == a - (b * 146097) \div 4
               d == (4 * c + 3) \div 1461
               e == c - (1461 * d) \div 4
               m == (5 * e + 2) \div 153
           IN  /\ b \in Nat /\ d \in 0..99 /\ m \in 0..11
               /\ e + 1 - (153 * m + 2) \div 5 \in 1..31
               /\ a = e + 365 * d + d \div 4 + 36524 * b + b \div 4
  <1> DEFINE a == j + 32044
             b == (4 * a + 3) \div 146097
             c == a - (b * 146097) \div 4
             d == (4 * c + 3) \div 1461
             e == c - (1461 * d) \div 4
             m == (5 * e + 2) \div 153
  <1>1. a \in Nat
    OBVIOUS
  <1>2. b \in Nat /\ 146097 * b <= 4 * a + 3 /\ 4 * a + 3 < 146097 * b + 146097
    BY <1>1
  <1> HIDE DEF a, b
  <1>3. (b * 146097) \div 4 = 36524 * b + b \div 4
    BY <1>2
  <1>4. c \in 0..36524
    <2> DEFINE w == (b * 146097) \div 4
    <2>1. w \in Int /\ 4 * w <= 146097 * b /\ 146097 * b < 4 * w + 4
      BY <1>2
    <2>2. c = a - w
      OBVIOUS
    <2> HIDE DEF w, c
    <2> QED BY <1>1, <1>2, <2>1, <2>2
  <1>5. c = a - 36524 * b - b \div 4
    BY <1>1, <1>2, <1>3
  <1> HIDE DEF c
  <1>6. d \in 0..99 /\ 1461 * d <= 4 * c + 3 /\ 4 * c + 3 < 1461 * d + 1461
    BY <1>4
  <1> HIDE DEF d
  <1>7. (1461 * d) \div 4 = 365 * d + d \div 4
    BY <1>6
  <1>8. e \in 0..365 /\ e = c - 365 * d - d \div 4
    BY <1>4, <1>6, <1>7
  <1> HIDE DEF e
  <1>9. m \in 0..11 /\ 153 * m <= 5 * e + 2 /\ 5 * e + 2 < 153 * m + 153
    BY <1>8
  <1> HIDE DEF m
  <1>10. e + 1 - (153 * m + 2) \div 5 \in 1..31
    <2> DEFINE u == (153 * m + 2) \div 5
    <2>1. u \in Int /\ 5 * u <= 153 * m + 2 /\ 153 * m + 2 < 5 * u + 5
      BY <1>9
    <2> HIDE DEF u
    <2>2. e + 1 - u \in 1..31
      BY <1>8, <1>9, <2>1
    <2> QED BY <2>2 DEF u
  <1>11. a = e + 365 * d + d \div 4 + 36524 * b + b \div 4
    <2> DEFINE p == d \div 4
               q == b \div 4
    <2>1. p \in Int /\ q \in Int
      BY <1>2, <1>6
    <2>2. c \in Int
      BY <1>4
    <2>3. c = a - 36524 * b - q
      BY <1>5
    <2>4. e = c - 365 * d - p
      BY <1>8
    <2> HIDE DEF p, q
    <2>5. a = e + 365 * d + p + 36524 * b + q
      BY <1>1, <1>2, <1>6, <1>8, <2>1, <2>2, <2>3, <2>4
    <2> QED BY <2>5 DEF p, q
  <1> QED BY <1>2, <1>6, <1>9, <1>10, <1>11 DEF a, b, c, d, e, m

\* Both counts agree.
LEMMA DaysOfCentury ==
    \A b \in Nat, d \in 0..99 : yearDays(100 * b + d) = centuryDays(b, d)
  <1> SUFFICES ASSUME NEW b \in Nat, NEW d \in 0..99
               PROVE  yearDays(100 * b + d) = centuryDays(b, d)
    OBVIOUS
  <1> DEFINE y == 100 * b + d
  <1>1. y \div 4 = 25 * b + d \div 4
    OBVIOUS
  <1>2. y \div 100 = b
    OBVIOUS
  <1>3. y \div 400 = b \div 4
    OBVIOUS
  <1>4. b \div 4 \in Int /\ d \div 4 \in Int /\ y * 365 = 36500 * b + 365 * d
    OBVIOUS
  <1> QED BY <1>1, <1>2, <1>3, <1>4 DEF yearDays, centuryDays

\* A day number is turned into a date of that number (Date::Date, getYearMonthDay).
LEMMA JulianOfDate ==
    ASSUME NEW j \in Int, j >= -32044
    PROVE  LET ymd == getYearMonthDay(j)
           IN  /\ ymd.year \in Int /\ ymd.year >= -4800 /\ ymd.month \in 1..12 /\ ymd.day \in 1..31
               /\ getJulianDayNumber(ymd.year, ymd.month, ymd.day) = j
  <1> DEFINE a == j + 32044
             b == (4 * a + 3) \div 146097
             c == a - (b * 146097) \div 4
             d == (4 * c + 3) \div 1461
             e == c - (1461 * d) \div 4
             m == (5 * e + 2) \div 153
             ymd == getYearMonthDay(j)
  <1>1. /\ b \in Nat /\ d \in 0..99 /\ m \in 0..11
        /\ e + 1 - (153 * m + 2) \div 5 \in 1..31
        /\ a = e + 365 * d + d \div 4 + 36524 * b + b \div 4
    BY DaysOfJulian
  <1>2. /\ ymd.year = b * 100 + d - 4800 + m \div 10
        /\ ymd.month = m + 3 - 12 * (m \div 10)
        /\ ymd.day = e - (153 * m + 2) \div 5 + 1
    BY DEF getYearMonthDay
  <1>3. e \in Int
    OBVIOUS
  <1> HIDE DEF a, b, c, d, e, m, ymd
  <1>4. m \div 10 \in {0, 1} /\ (m \div 10 = 1 <=> m >= 10)
    BY <1>1
  <1>5. ymd.year \in Int /\ ymd.year >= -4800 /\ ymd.month \in 1..12 /\ ymd.day \in 1..31
    <2>1. (153 * m + 2) \div 5 \in Int
      BY <1>1
    <2> QED BY <1>1, <1>2, <1>3, <1>4, <2>1
  <1>6. (14 - ymd.month) \div 12 = m \div 10
    BY <1>1, <1>2, <1>4
  <1>7. ymd.year + 4800 - m \div 10 = 100 * b + d /\ ymd.month + 12 * (m \div 10) - 3 = m
    BY <1>1, <1>2, <1>4
  <1> DEFINE y == 100 * b + d
  <1>8. getJulianDayNumber(ymd.year, ymd.month, ymd.day) =
            ymd.day + (153 * m + 2) \div 5 + y * 365 + y \div 4 - y \div 100 + y \div 400 - 32045
    BY <1>6, <1>7 DEF getJulianDayNumber
  <1>9. yearDays(y) = centuryDays(b, d)
    <2>1. b \in Nat /\ d \in 0..99
      BY <1>1
    <2>3. \A s \in Nat, t \in 0..99 : yearDays(100 * s + t) = centuryDays(s, t)
      BY ONLY DaysOfCentury, Zenon
    <2>2. yearDays(100 * b + d) = centuryDays(b, d)
      BY ONLY <2>1, <2>3, Zenon
    <2> QED BY ONLY <2>2
  <1>10. a = j + 32044
    BY DEF a
  <1> DEFINE u == (153 * m + 2) \div 5
             v == yearDays(y)
             w == centuryDays(b, d)
  <1>11. u \in Int /\ v \in Int /\ w \in Int
    <2>1. y \in Nat /\ y \div 4 \in Int /\ y \div 100 \in Int /\ y \div 400 \in Int
      BY <1>1
    <2>2. b \div 4 \in Int /\ d \div 4 \in Int /\ b \in Int /\ d \in Int
      BY <1>1
    <2> HIDE DEF y
    <2> QED BY <1>1, <2>1, <2>2 DEF yearDays, centuryDays
  <1>12. ymd.day = e - u + 1 /\ a = e + w /\ v = w
    <2>1. b \div 4 \in Int /\ d \div 4 \in Int /\ b \in Int /\ d \in Int
      BY <1>1
    <2>2. a = e + w
      BY <1>1, <1>3, <2>1 DEF centuryDays
    <2> QED BY <1>2, <1>9, <2>2
  <1>13. getJulianDayNumber(ymd.year, ymd.month, ymd.day) = ymd.day + u + v - 32045
    <2>1. y \in Nat /\ y \div 4 \in Int /\ y \div 100 \in Int /\ y \div 400 \in Int
      BY <1>1
    <2> HIDE DEF y
    <2> QED BY <1>5, <1>8, <1>11, <2>1 DEF yearDays
  <1>14. getJulianDayNumber(ymd.year, ymd.month, ymd.day) = j
    <2> HIDE DEF u, v, w
    <2> QED BY <1>3, <1>10, <1>11, <1>12, <1>13
  <1> QED BY <1>5, <1>14 DEF ymd
-----------------------------------------------------------------------------
(* Logger: what its streams hold, and what a line tells.                    *)

\* A stream of pieces: their lengths and places are numbers.
Held(s) ==
    /\ StreamOK(s) /\ s.length \in Nat
    /\ s.pieces \in Seq({s.pieces[i] : i \in 1..Len(s.pieces)}) /\ s.start \in Seq(Nat)
    /\ \A i \in 1..Len(s.pieces) : s.pieces[i].len \in Nat

\* Whatever was streamed before is still there.
Continues(r, s) ==
    /\ Len(s.pieces) <= Len(r.pieces)
    /\ \A i \in 1..Len(s.pieces) : r.pieces[i] = s.pieces[i]

\* A Logger has its five members.
Whole(x) == x = [level |-> x.level, writer |-> x.writer, made |-> x.made, zones |-> x.zones,
                 stream |-> x.stream]

\* A string that is kept from this second is that of a zone in force within it.
Kept ==
    /\ g_logTimeZone \in recentZones
    /\ tls_lastSecond \in [Writers -> Nat] /\ DOMAIN tls_timeString = Writers
    /\ \A t \in Writers :
          /\ tls_lastSecond[t] <= secondsSinceEpoch(now)
          /\ tls_lastSecond[t] = secondsSinceEpoch(now) /\ tls_lastSecond[t] # 0 =>
                \E zone \in recentZones : tls_timeString[t] = timeIn(zone, tls_lastSecond[t])

LogInv ==
    /\ LogTypeOK /\ Kept
    /\ DOMAIN logger = Writers
    /\ \A t \in Writers : /\ Whole(logger[t]) /\ Held(logger[t].stream)
                          /\ logger[t] # noLogger => Headed(logger[t])
    /\ StreamOK(line.stream) /\ (line.level # "none" => Headed(line))

\* Appending to a sequence keeps what it holds.
LEMMA AppendHolds ==
    ASSUME NEW S, NEW s \in Seq(S), NEW x
    PROVE  LET r == Append(s, x)
           IN  /\ r \in Seq(S \cup {x}) /\ Len(s) \in Nat /\ Len(r) = Len(s) + 1 /\ r # <<>>
               /\ \A i \in 1..Len(s) : r[i] = s[i]
               /\ r[Len(s) + 1] = x
  <1>1. s \in Seq(S \cup {x}) /\ x \in S \cup {x}
    <2>1. Len(s) \in Nat /\ s \in [1..Len(s) -> S]
      BY LenProperties
    <2> QED BY <2>1, SeqDef
  <1>2. Append(s, x) \in Seq(S \cup {x}) /\ Len(Append(s, x)) = Len(s) + 1
    BY <1>1, AppendProperties
  <1>3. Append(s, x) # <<>>
    BY <1>1, AppendProperties
  <1>4. Append(s, x)[Len(s) + 1] = x
    BY <1>1, AppendProperties
  <1>5. \A i \in 1..Len(s) : Append(s, x)[i] = s[i]
    BY <1>1, AppendProperties
  <1>6. Len(s) \in Nat
    BY LenProperties
  <1> QED BY <1>2, <1>3, <1>4, <1>5, <1>6

\* A sequence is one of what it holds.
LEMMA HoldsItsOwn ==
    ASSUME NEW S, NEW s \in Seq(S)
    PROVE  s \in Seq({s[i] : i \in 1..Len(s)})
  <1>1. Len(s) \in Nat /\ s \in [1..Len(s) -> S]
    BY LenProperties
  <1>2. s \in [1..Len(s) -> {s[i] : i \in 1..Len(s)}]
    BY <1>1
  <1> QED BY <1>1, <1>2, SeqDef

\* A piece that leaves a byte behind it is put behind the others (FixedBuffer::append).
LEMMA PutHolds ==
    ASSUME NEW s, Held(s), NEW piece, piece.len \in Nat, avail(s) > piece.len
    PROVE  LET r == put(s, piece)
           IN  /\ Held(r) /\ Continues(r, s)
               /\ r.length = s.length + piece.len /\ Len(r.pieces) = Len(s.pieces) + 1
               /\ r.pieces[Len(s.pieces) + 1] = piece
  <1> DEFINE r == put(s, piece)
             S == {s.pieces[i] : i \in 1..Len(s.pieces)}
             n == Len(s.pieces)
  <1>1. /\ r.pieces = Append(s.pieces, piece) /\ r.start = Append(s.start, s.length)
        /\ r.length = s.length + piece.len
    BY DEF put
  <1>2. /\ s.length \in Nat /\ s.pieces \in Seq(S) /\ s.start \in Seq(Nat)
        /\ \A i \in 1..n : s.pieces[i].len \in Nat
    BY DEF Held
  <1>3. /\ s.length < kSmallBuffer /\ Len(s.start) = n
        /\ IF s.pieces = <<>> THEN s.length = 0 ELSE s.start[1] = 0
        /\ \A i \in DOMAIN s.pieces :
              s.start[i] + s.pieces[i].len = IF i = n THEN s.length ELSE s.start[i + 1]
    BY DEF Held, StreamOK
  <1>4. /\ r.pieces \in Seq(S \cup {piece}) /\ n \in Nat /\ Len(r.pieces) = n + 1 /\ r.pieces # <<>>
        /\ \A i \in 1..n : r.pieces[i] = s.pieces[i]
        /\ r.pieces[n + 1] = piece
    BY <1>1, <1>2, AppendHolds
  <1>5. /\ r.start \in Seq(Nat \cup {s.length}) /\ Len(r.start) = n + 1
        /\ \A i \in 1..n : r.start[i] = s.start[i]
        /\ r.start[n + 1] = s.length
    <2>1. Len(s.start) = n
      BY <1>3
    <2> DEFINE w == Append(s.start, s.length)
    <2>2. /\ w \in Seq(Nat \cup {s.length}) /\ Len(w) = Len(s.start) + 1
          /\ \A i \in 1..Len(s.start) : w[i] = s.start[i]
          /\ w[Len(s.start) + 1] = s.length
      <3>1. s.start \in Seq(Nat)
        BY <1>2
      <3> HIDE DEF S, r, n
      <3> QED BY ONLY <3>1, AppendHolds
    <2> HIDE DEF w, n, r
    <2>3. r.start = w
      BY <1>1 DEF w
    <2> QED BY <2>1, <2>2, <2>3
  <1>6. Nat \cup {s.length} = Nat
    BY <1>2
  <1>7. r.length < kSmallBuffer /\ r.length \in Nat
    BY <1>1, <1>2, LoggingAssumption DEF avail
  <1>8. DOMAIN s.pieces = 1..n /\ DOMAIN r.pieces = 1..n + 1
    BY <1>2, <1>4, LenProperties
  <1>9. r.pieces \in Seq({r.pieces[i] : i \in 1..Len(r.pieces)})
    BY <1>4, HoldsItsOwn
  <1> HIDE DEF r, S, n
  <1>10. s.pieces = <<>> <=> n = 0
    BY <1>2, EmptySeq DEF n
  <1>11. r.start[1] = 0
    <2>1. CASE n = 0
      BY <2>1, <1>3, <1>5, <1>10
    <2>2. CASE n # 0
      <3>1. 1 \in 1..n
        BY <2>2, <1>4
      <3> QED BY <3>1, <2>2, <1>3, <1>5, <1>10
    <2> QED BY <2>1, <2>2
  <1>12. ASSUME NEW i \in 1..n + 1
         PROVE  r.start[i] + r.pieces[i].len = IF i = n + 1 THEN r.length ELSE r.start[i + 1]
    <2>1. CASE i = n + 1
      BY <2>1, <1>1, <1>4, <1>5
    <2>2. CASE i = n /\ i # n + 1
      <3>1. i \in 1..n
        BY <2>2, <1>4
      <3>2. r.start[i] + r.pieces[i].len = s.length
        BY <3>1, <2>2, <1>3, <1>4, <1>5, <1>8
      <3> QED BY <3>2, <2>2, <1>5
    <2>3. CASE i # n /\ i # n + 1
      <3>1. i \in 1..n /\ i + 1 \in 1..n
        BY <2>3, <1>4
      <3>2. r.start[i] + r.pieces[i].len = s.start[i + 1]
        BY <3>1, <2>3, <1>3, <1>4, <1>5, <1>8
      <3> QED BY <3>1, <3>2, <2>3, <1>5
    <2> QED BY <2>1, <2>2, <2>3
  <1>13. StreamOK(r)
    BY <1>4, <1>5, <1>7, <1>8, <1>11, <1>12 DEF StreamOK
  <1>14. \A i \in 1..n + 1 : r.pieces[i].len \in Nat
    <2> TAKE i \in 1..n + 1
    <2>1. CASE i = n + 1
      BY <2>1, <1>4
    <2>2. CASE i \in 1..n
      BY <2>2, <1>2, <1>4
    <2> QED BY <2>1, <2>2, <1>4
  <1>15. Held(r)
    BY <1>4, <1>5, <1>6, <1>7, <1>9, <1>13, <1>14 DEF Held
  <1>16. Continues(r, s)
    BY <1>4 DEF Continues, n
  <1> QED BY <1>1, <1>4, <1>15, <1>16 DEF r, n

\* What continues what continued a stream continues it.
LEMMA ContinuesOn ==
    ASSUME NEW q, NEW r, NEW s, Held(s), Held(r), Held(q), Continues(r, s), Continues(q, r)
    PROVE  Continues(q, s)
  <1>1. Len(s.pieces) \in Nat /\ Len(r.pieces) \in Nat /\ Len(q.pieces) \in Nat
    BY LenProperties DEF Held
  <1>2. \A i \in 1..Len(s.pieces) : i \in 1..Len(r.pieces)
    BY <1>1 DEF Continues
  <1> QED BY <1>1, <1>2 DEF Continues

LEMMA ContinuesItself ==
    ASSUME NEW s, Held(s)
    PROVE  Continues(s, s)
  <1>1. Len(s.pieces) \in Nat
    BY LenProperties DEF Held
  <1> QED BY <1>1 DEF Continues

\* A piece that does not fit is dropped, and so is the number.
LEMMA AppendContinues ==
    ASSUME NEW s, Held(s), NEW piece, piece.len \in Nat
    PROVE  Held(append(s, piece)) /\ Continues(append(s, piece), s)
  <1>1. CASE avail(s) > piece.len
    BY <1>1, PutHolds DEF append
  <1>2. CASE ~(avail(s) > piece.len)
    BY <1>2, ContinuesItself DEF append
  <1> QED BY <1>1, <1>2

LEMMA NumberContinues ==
    ASSUME NEW s, Held(s), NEW piece, piece.len \in Nat, piece.len < kMaxNumericSize
    PROVE  Held(formatInteger(s, piece)) /\ Continues(formatInteger(s, piece), s)
  <1>1. CASE avail(s) >= kMaxNumericSize
    <2>1. avail(s) > piece.len
      BY <1>1, LoggingAssumption DEF Held, avail
    <2> QED BY <1>1, <2>1, PutHolds DEF formatInteger
  <1>2. CASE ~(avail(s) >= kMaxNumericSize)
    BY <1>2, ContinuesItself DEF formatInteger
  <1> QED BY <1>1, <1>2

\* An item is streamed either way (LogStream::operator<<).
LEMMA ItemContinues ==
    ASSUME NEW s, Held(s), NEW item \in Items \cup {lineNumber, errnoNumber(11)}
    PROVE  Held(stream(s, item)) /\ Continues(stream(s, item), s)
  <1>1. item.len \in Nat /\ (item.kind \in {"int", "hex"} => item.len < kMaxNumericSize)
    BY NumbersFit
  <1>2. CASE item.kind \in {"int", "hex"}
    BY <1>1, <1>2, NumberContinues DEF stream
  <1>3. CASE item.kind \notin {"int", "hex"}
    BY <1>1, <1>3, AppendContinues DEF stream
  <1> QED BY <1>2, <1>3

-----------------------------------------------------------------------------
(* The search for the local time type of an instant.                        *)

\* std::lower_bound finds the first of ascending times that is not before an instant.
LEMMA LowerBoundFinds ==
    ASSUME NEW times \in Seq(Int), NEW t \in Int,
           \A i, j \in DOMAIN times : i < j => times[i] < times[j]
    PROVE  LET i == lower_bound(times, t)
           IN  /\ i \in 1..Len(times) + 1
               /\ \A j \in 1..i - 1 : times[j] < t
               /\ \A j \in i..Len(times) : times[j] >= t
  <1> DEFINE n == Len(times)
             T == {i \in 1..n + 1 : \A j \in i..n : times[j] >= t}
  <1>1. n \in Nat /\ DOMAIN times = 1..n /\ \A i \in 1..n : times[i] \in Int
    BY LenProperties
  <1> HIDE DEF n
  <1>2. n + 1 \in T
    BY <1>1
  <1>3. PICK i \in T : \A k \in T : i <= k
    <2>1. T \subseteq Nat
      BY <1>1
    <2> HIDE DEF T
    <2> QED BY <1>2, <2>1, LeastMember
  <1>4. \A j \in 1..i - 1 : times[j] < t
    <2> SUFFICES ASSUME NEW j \in 1..i - 1
                 PROVE  times[j] < t
      OBVIOUS
    <2>1. j \in 1..n /\ j \notin T
      <3>1. i \in 1..n + 1
        BY <1>3
      <3>2. j \in 1..n /\ ~(i <= j)
        BY <1>1, <3>1
      <3> HIDE DEF T
      <3> QED BY <1>3, <3>2
    <2>2. PICK k \in j..n : ~(times[k] >= t)
      BY <1>1, <2>1
    <2>3. k \in 1..n /\ times[k] < t /\ (j < k \/ j = k)
      BY <1>1, <2>1, <2>2
    <2>4. times[j] \in Int /\ times[k] \in Int
      BY <1>1, <2>1, <2>3
    <2>5. CASE j < k
      <3>1. times[j] < times[k]
        BY <1>1, <2>1, <2>3, <2>5
      <3> QED BY ONLY <2>3, <2>4, <3>1, t \in Int
    <2> QED BY <2>3, <2>5
  <1>5. \E k \in 1..n + 1 : /\ \A j \in 1..k - 1 : times[j] < t
                            /\ \A j \in k..n : times[j] >= t
    BY <1>3, <1>4
  <1> QED BY <1>5 DEF lower_bound, n

\* Max is the member that no other exceeds.
LEMMA MaxIsGreatest ==
    ASSUME NEW S, S \subseteq Int, NEW x \in S, \A y \in S : y <= x
    PROVE  Max(S) = x
  <1>1. \A y \in S : x >= y
    OBVIOUS
  <1>2. \E z \in S : \A y \in S : z >= y
    BY <1>1
  <1>3. Max(S) \in S /\ \A y \in S : Max(S) >= y
    BY ONLY <1>2, Zenon DEF Max
  <1>4. Max(S) >= x /\ x >= Max(S) /\ Max(S) \in Int
    BY <1>1, <1>3
  <1> HIDE DEF Max
  <1> QED BY <1>4

\* findLocalTime of a zone whose transitions ascend finds the type in effect.
LEMMA LocaltimeIsInEffect ==
    ASSUME NEW zone, ascending(zone), NEW t \in Int
    PROVE  findLocaltime(zone, gmttimes(zone), t) = offsetAt(zone, t)
  <1> DEFINE times == gmttimes(zone)
             n == Len(times)
             i == lower_bound(times, t)
             before == {k \in DOMAIN zone.transitions : zone.transitions[k].gmttime <= t}
             last == IF i <= n /\ times[i] = t THEN i ELSE i - 1
  <1>1. /\ times \in Seq(Int) /\ DOMAIN times = DOMAIN zone.transitions
        /\ \A k \in DOMAIN zone.transitions : times[k] = zone.transitions[k].gmttime
    BY DEF ascending, gmttimes
  <1>2. \A k, j \in DOMAIN times : k < j => times[k] < times[j]
    BY DEF ascending
  <1> HIDE DEF times
  <1>3. n \in Nat /\ DOMAIN times = 1..n /\ \A k \in 1..n : times[k] \in Int
    BY <1>1, LenProperties
  <1>4. /\ i \in 1..n + 1
        /\ \A j \in 1..i - 1 : times[j] < t
        /\ \A j \in i..n : times[j] >= t
    BY <1>1, <1>2, LowerBoundFinds
  <1>5. before = {k \in 1..n : times[k] <= t}
    BY <1>1, <1>3
  <1>6. times = <<>> <=> n = 0
    BY <1>1, EmptySeq
  <1> HIDE DEF n, i, before
  <1>7. CASE times = <<>> \/ t < times[1]
    <2>1. before = {}
      <3> SUFFICES ASSUME NEW k \in 1..n, times[k] <= t
                   PROVE  FALSE
        BY <1>5
      <3>1. 1 \in 1..n /\ (1 < k \/ 1 = k)
        BY <1>3
      <3> QED BY <3>1, <1>2, <1>3, <1>6, <1>7
    <2> QED BY <1>7, <2>1 DEF findLocaltime, offsetAt, times, before
  <1>8. CASE ~(times = <<>> \/ t < times[1])
    <2>1. 1 \in 1..n /\ times[1] <= t
      BY <1>3, <1>6, <1>8
    <2>2. last \in before
      <3>1. CASE i <= n /\ times[i] = t
        BY <3>1, <1>3, <1>4, <1>5
      <3>2. CASE ~(i <= n /\ times[i] = t)
        <4>1. i # 1
          BY <2>1, <3>2, <1>3, <1>4
        <4>2. i - 1 \in 1..n /\ times[i - 1] < t
          BY <4>1, <1>3, <1>4
        <4> QED BY <3>2, <4>2, <1>3, <1>5
      <3> QED BY <3>1, <3>2
    <2>3. ASSUME NEW k \in before PROVE k <= last
      <3>1. k \in 1..n /\ times[k] <= t /\ times[k] \in Int
        BY <1>3, <1>5
      <3>2. CASE k < i
        BY <3>1, <3>2, <1>3, <1>4
      <3>3. CASE k >= i
        <4>1. times[k] = t /\ i \in 1..n
          BY <3>1, <3>3, <1>3, <1>4
        <4>2. i = k
          <5>1. CASE i < k
            <6>1. times[i] < times[k] /\ times[i] >= t
              BY <5>1, <3>1, <4>1, <1>2, <1>3, <1>4
            <6> QED BY <6>1, <4>1, <1>3
          <5> QED BY <5>1, <3>1, <3>3, <4>1
        <4> QED BY <4>1, <4>2, <1>3
      <3> QED BY <3>1, <3>2, <3>3, <1>4
    <2>4. last \in Int /\ \A k \in before : k \in Int
      BY <1>3, <1>4, <1>5
    <2> HIDE DEF last
    <2>5. Max(before) = last
      <3>1. before \subseteq Int
        BY <2>4
      <3> QED BY <2>2, <2>3, <3>1, MaxIsGreatest
    <2>6. before # {}
      BY <2>2
    <2>7. findLocaltime(zone, times, t) = zone.localtimes[zone.transitions[last].localtimeIdx]
      BY <1>8 DEF findLocaltime, last, i, n
    <2>8. offsetAt(zone, t) = zone.localtimes[zone.transitions[Max(before)].localtimeIdx]
      BY <2>6 DEF offsetAt, before
    <2> QED BY <2>5, <2>7, <2>8 DEF times
  <1> QED BY <1>7, <1>8

-----------------------------------------------------------------------------
(* The steps of the writers.                                                *)

\* Seconds do not go back when the clock does not.
LEMMA SecondsGoOn ==
    ASSUME NEW m \in Nat, NEW n \in Nat, m <= n
    PROVE  /\ secondsSinceEpoch(m) \in Nat /\ secondsSinceEpoch(n) \in Nat
           /\ secondsSinceEpoch(m) <= secondsSinceEpoch(n)
  <1> DEFINE k == kMicroSecondsPerSecond
             q == m \div k
             r == n \div k
  <1>1. k \in Nat /\ k > 0
    BY LoggingAssumption
  <1> HIDE DEF k
  <1>2. q \in Int /\ k * q <= m /\ m < k * (q + 1)
    BY <1>1
  <1>3. r \in Int /\ k * r <= n /\ n < k * (r + 1)
    BY <1>1
  <1> HIDE DEF q, r
  <1>4. q >= 0
    <2>1. CASE q + 1 <= 0
      <3>1. k * (q + 1) <= 0
        BY <1>1, <1>2, <2>1
      <3> QED BY <1>1, <1>2, <3>1
    <2> QED BY <1>2, <2>1
  <1>5. q <= r
    <2>1. CASE q >= r + 1
      <3>1. k * q >= k * (r + 1)
        BY <1>1, <1>2, <1>3, <2>1
      <3>2. k * q \in Int /\ k * (r + 1) \in Int
        BY <1>1, <1>2, <1>3
      <3> QED BY <1>2, <1>3, <3>1, <3>2
    <2> QED BY <1>2, <1>3, <2>1
  <1> QED BY <1>2, <1>3, <1>4, <1>5 DEF secondsSinceEpoch, q, r, k

\* The local time is that of the type in effect, or UTC in no zone.
LEMMA LocalTmIsInEffect ==
    ASSUME LogTypeOK, NEW seconds \in Nat
    PROVE  localTm(seconds) = timeIn(g_logTimeZone, seconds)
  <1> USE DEF timeIn
  <1>1. CASE valid(g_logTimeZone)
    <2>1. g_logTimeZone \in Zones
      BY <1>1 DEF LogTypeOK, valid, noData
    <2>2. ascending(g_logTimeZone)
      BY <1>1, <2>1, LoggingAssumption
    <2>3. findLocaltime(g_logTimeZone, gmttimes(g_logTimeZone), seconds) = offsetAt(g_logTimeZone, seconds)
      BY <2>2, LocaltimeIsInEffect
    <2>4. localTm(seconds) = toLocalTime(g_logTimeZone, seconds).tm
      BY <1>1 DEF localTm
    <2>5. toLocalTime(g_logTimeZone, seconds).tm = gmtime(seconds + offsetAt(g_logTimeZone, seconds).gmtOffset)
      BY <2>3 DEF toLocalTime
    <2> QED BY <1>1, <2>4, <2>5
  <1>2. CASE ~valid(g_logTimeZone)
    <2>1. localTm(seconds) = gmtime(seconds)
      BY <1>2 DEF localTm
    <2>2. seconds + 0 = seconds
      OBVIOUS
    <2> QED BY <1>2, <2>1, <2>2
  <1> QED BY <1>1, <1>2

\* The stream of a new Logger holds nothing.
LEMMA NothingHeld ==
    Held(noLogger.stream) /\ Whole(noLogger) /\ noLogger.level = "none" /\ noLogger.stream.length = 0
    /\ noLogger.stream.pieces = <<>>
  <1>1. /\ noLogger.stream.pieces = <<>> /\ noLogger.stream.start = <<>> /\ noLogger.stream.length = 0
        /\ noLogger.level = "none"
    BY DEF noLogger
  <1>2. Whole(noLogger)
    BY DEF Whole, noLogger
  <1>3. <<>> \in Seq(Nat) /\ Len(<<>>) = 0
    BY EmptySeq
  <1>4. <<>> \in Seq({<<>>[i] : i \in 1..0})
    BY EmptySeq
  <1>5. kSmallBuffer > 0
    BY HeadingFits, LoggingAssumption
  <1>6. 1..0 = {} /\ DOMAIN <<>> = {}
    OBVIOUS
  <1>7. StreamOK(noLogger.stream)
    BY <1>1, <1>3, <1>5, <1>6 DEF StreamOK
  <1> QED BY <1>1, <1>2, <1>3, <1>4, <1>6, <1>7 DEF Held

\* The empty history satisfies the invariant.
LEMMA LogStarts == LogInit => LogInv
  <1> SUFFICES ASSUME LogInit
               PROVE  LogInv
    OBVIOUS
  <1> USE DEF LogInit
  <1>1. now \in Instants /\ now \in Nat
    <2>1. \E x \in Instants : \A y \in Instants : x <= y
      BY LoggingAssumption, LeastMember
    <2>2. Min(Instants) \in Instants
      BY ONLY <2>1, Zenon DEF Min
    <2> QED BY <2>2, LoggingAssumption
  <1>2. LogTypeOK
    <2>1. \A t \in Writers : logger[t].level \in Levels \cup {"none"} /\ StreamOK(logger[t].stream)
      BY NothingHeld DEF Held
    <2>2. MaxLines \in Nat /\ statements = 0
      BY LoggingAssumption
    <2>3. statements \in 0..MaxLines
      BY ONLY <2>2
    <2> QED BY <1>1, <2>1, <2>3 DEF LogTypeOK
  <1>3. Kept
    <2>1. secondsSinceEpoch(now) \in Nat /\ 0 <= secondsSinceEpoch(now)
      BY <1>1, SecondsGoOn
    <2> QED BY <2>1 DEF Kept
  <1> QED BY <1>2, <1>3, NothingHeld DEF LogInv, Held

\* Nothing the invariant speaks of changes in a step of the others.
LEMMA SettingKeeps ==
    ASSUME LogInv, UNCHANGED <<now, tls, logger, line>>, LogTypeOK',
           recentZones \subseteq recentZones', g_logTimeZone' \in recentZones'
    PROVE  LogInv'
  <1> USE DEF tls
  <1>1. Kept'
    <2>1. secondsSinceEpoch(now)' = secondsSinceEpoch(now)
      BY DEF secondsSinceEpoch
    <2>2. \A zone, v : timeIn(zone, v)' = timeIn(zone, v)
      BY DEF timeIn
    <2>3. ASSUME NEW t \in Writers
          PROVE  /\ tls_lastSecond'[t] <= secondsSinceEpoch(now)
                 /\ tls_lastSecond'[t] = secondsSinceEpoch(now) /\ tls_lastSecond'[t] # 0 =>
                       \E zone \in recentZones' : tls_timeString'[t] = timeIn(zone, tls_lastSecond'[t])
      BY DEF LogInv, Kept
    <2> QED BY <2>1, <2>2, <2>3 DEF LogInv, Kept
  <1>2. \A t \in Writers : /\ Whole(logger[t])' /\ Held(logger[t].stream)'
                           /\ (logger[t] # noLogger)' => Headed(logger[t])'
    <2> TAKE t \in Writers
    <2>1. logger'[t] = logger[t] /\ Whole(logger[t]) /\ Held(logger[t].stream)
      BY DEF LogInv
    <2>2. Whole(logger[t])'
      BY <2>1 DEF Whole
    <2>3. Held(logger[t].stream)'
      BY <2>1 DEF Held, StreamOK
    <2>4. logger[t] # noLogger => Headed(logger[t])
      BY DEF LogInv
    <2>5. Headed(logger[t])' = Headed(logger[t])
      BY <2>1 DEF Headed, secondsSinceEpoch
    <2>6. (logger[t] # noLogger)' = (logger[t] # noLogger)
      BY <2>1 DEF noLogger
    <2> QED BY <2>2, <2>3, <2>4, <2>5, <2>6
  <1>3. (DOMAIN logger = Writers)' /\ StreamOK(line.stream)' /\ (line.level # "none" => Headed(line))'
    BY DEF LogInv, StreamOK, Headed, secondsSinceEpoch
  <1> QED BY <1>1, <1>2, <1>3 DEF LogInv

\* The first four pieces of a line always fit (Logger::Logger, formatTime).
LEMMA HeadingIsWritten ==
    ASSUME NEW tm, NEW t, NEW level
    PROVE  LET s == append(append(formatTime(tm), tidString(t)), text(level, 6))
           IN  /\ Held(s) /\ Len(s.pieces) = 4
               /\ s.pieces[1].what = tm /\ s.pieces[2].what = now % kMicroSecondsPerSecond
               /\ s.pieces[3] = text(t, 6) /\ s.pieces[4] = text(level, 6)
  <1> DEFINE p1 == stampOf(tm)
             p2 == microsOf(now % kMicroSecondsPerSecond)
             p3 == tidString(t)
             p4 == text(level, 6)
             s0 == noLogger.stream
             s1 == append(s0, p1)
             s2 == append(s1, p2)
             s3 == append(s2, p3)
             s4 == append(s3, p4)
  <1>1. p1.len = 17 /\ p2.len \in {8, 9} /\ p3.len = 6 /\ p4.len = 6
    BY DEF stampOf, microsOf, text, tidString
  <1>2. p1.what = tm /\ p2.what = now % kMicroSecondsPerSecond
    BY DEF stampOf, microsOf
  <1>3. kSmallBuffer \in Nat /\ kSmallBuffer > 38
    BY HeadingFits, LoggingAssumption
  <1>4. Held(s0) /\ s0.length = 0 /\ Len(s0.pieces) = 0
    BY NothingHeld, EmptySeq
  <1>5. append(append(formatTime(tm), tidString(t)), text(level, 6)) = s4
    BY DEF formatTime
  <1> HIDE DEF p1, p2, p3, p4, s0, s1, s2, s3, s4
  <1>6. s1.length = 17 /\ Held(s1) /\ Len(s1.pieces) = 1 /\ s1.pieces[1] = p1
    <2>1. p1.len \in Nat /\ avail(s0) > p1.len
      BY <1>1, <1>3, <1>4 DEF avail
    <2>2. s1 = put(s0, p1)
      BY <2>1 DEF append, s1
    <2>3. s1.length = s0.length + p1.len /\ Held(s1)
          /\ Len(s1.pieces) = Len(s0.pieces) + 1 /\ s1.pieces[Len(s0.pieces) + 1] = p1
      BY ONLY <1>4, <2>1, <2>2, PutHolds
    <2> QED BY <1>1, <1>4, <2>3
  <1>7. /\ s2.length \in {25, 26} /\ Held(s2) /\ Len(s2.pieces) = 2
        /\ s2.pieces[1] = p1 /\ s2.pieces[2] = p2
    <2>1. p2.len \in Nat /\ avail(s1) > p2.len
      BY <1>1, <1>3, <1>6 DEF avail
    <2>2. s2 = put(s1, p2)
      BY <2>1 DEF append, s2
    <2>3. Continues(s2, s1) /\ s2.length = s1.length + p2.len /\ Held(s2)
          /\ Len(s2.pieces) = Len(s1.pieces) + 1 /\ s2.pieces[Len(s1.pieces) + 1] = p2
      BY ONLY <1>6, <2>1, <2>2, PutHolds
    <2> QED BY <1>1, <1>6, <2>3 DEF Continues
  <1>8. /\ s3.length \in {31, 32} /\ Held(s3) /\ Len(s3.pieces) = 3
        /\ s3.pieces[1] = p1 /\ s3.pieces[2] = p2 /\ s3.pieces[3] = p3
    <2>1. p3.len \in Nat /\ avail(s2) > p3.len
      BY <1>1, <1>3, <1>7 DEF avail
    <2>2. s3 = put(s2, p3)
      BY <2>1 DEF append, s3
    <2>3. Continues(s3, s2) /\ s3.length = s2.length + p3.len /\ Held(s3)
          /\ Len(s3.pieces) = Len(s2.pieces) + 1 /\ s3.pieces[Len(s2.pieces) + 1] = p3
      <3>1. Held(s2)
        BY <1>7
      <3> QED BY ONLY <3>1, <2>1, <2>2, PutHolds
    <2> QED BY <1>1, <1>7, <2>3 DEF Continues
  <1>9. /\ Held(s4) /\ Len(s4.pieces) = 4
        /\ s4.pieces[1] = p1 /\ s4.pieces[2] = p2 /\ s4.pieces[3] = p3 /\ s4.pieces[4] = p4
    <2>1. p4.len \in Nat /\ avail(s3) > p4.len
      BY <1>1, <1>3, <1>8 DEF avail
    <2>2. s4 = put(s3, p4)
      BY <2>1 DEF append, s4
    <2>3. Continues(s4, s3) /\ Held(s4)
          /\ Len(s4.pieces) = Len(s3.pieces) + 1 /\ s4.pieces[Len(s3.pieces) + 1] = p4
      BY ONLY <1>8, <2>1, <2>2, PutHolds
    <2> QED BY <1>8, <2>3 DEF Continues
  <1> QED BY <1>2, <1>5, <1>9 DEF p3, p4, tidString

\* What follows leaves the heading as it is.
LEMMA HeadingStays ==
    ASSUME NEW tm, NEW t, NEW level, NEW savedErrno \in {0, 11}
    PROVE  LET s == header(formatTime(tm), t, level, savedErrno)
           IN  /\ Held(s) /\ Len(s.pieces) >= 4
               /\ s.pieces[1].what = tm /\ s.pieces[2].what = now % kMicroSecondsPerSecond
               /\ s.pieces[3] = text(t, 6) /\ s.pieces[4] = text(level, 6)
  <1> DEFINE known == append(append(formatTime(tm), tidString(t)), text(level, 6))
             a == append(known, text("strerror", 5))
             b == append(a, text("errno=", 8))
             c == stream(b, errnoNumber(11))
             d == append(c, text("parenthesis", 2))
             s == header(formatTime(tm), t, level, savedErrno)
  <1>1. /\ Held(known) /\ Len(known.pieces) = 4
        /\ known.pieces[1].what = tm /\ known.pieces[2].what = now % kMicroSecondsPerSecond
        /\ known.pieces[3] = text(t, 6) /\ known.pieces[4] = text(level, 6)
    BY HeadingIsWritten
  <1>2. s = known \/ s = d
    BY DEF header
  <1>3. \A what, n : text(what, n).len = n
    BY DEF text
  <1> HIDE DEF known, a, b, c, d, s
  <1>4. Held(a) /\ Continues(a, known)
    BY <1>1, <1>3, AppendContinues DEF a
  <1>5. Held(b) /\ Continues(b, a)
    BY <1>3, <1>4, AppendContinues DEF b
  <1>6. Held(c) /\ Continues(c, b)
    BY <1>5, ItemContinues DEF c
  <1>7. Held(d) /\ Continues(d, c)
    BY <1>3, <1>6, AppendContinues DEF d
  <1>8. Continues(d, known)
    BY <1>1, <1>4, <1>5, <1>6, <1>7, ContinuesOn
  <1>9. Held(s) /\ Continues(s, known)
    BY <1>1, <1>2, <1>7, <1>8, ContinuesItself
  <1>10. Len(s.pieces) >= 4 /\ s.pieces[1] = known.pieces[1] /\ s.pieces[2] = known.pieces[2]
         /\ s.pieces[3] = known.pieces[3] /\ s.pieces[4] = known.pieces[4]
    BY <1>1, <1>9 DEF Continues
  <1> QED BY <1>1, <1>9, <1>10 DEF s

\* A heading stays that of what its line continues.
LEMMA HeadedOn ==
    ASSUME NEW x, NEW y, Headed(x), Held(x.stream), Held(y.stream), Continues(y.stream, x.stream),
           y.level = x.level, y.writer = x.writer, y.made = x.made, y.zones = x.zones
    PROVE  Headed(y)
  <1>1. Len(x.stream.pieces) \in Nat /\ Len(y.stream.pieces) \in Nat
    BY LenProperties DEF Held
  <1>2. Len(x.stream.pieces) >= 4
    BY DEF Headed
  <1>3. /\ Len(y.stream.pieces) >= 4
        /\ \A i \in {1, 2, 3, 4} : y.stream.pieces[i] = x.stream.pieces[i]
    BY <1>1, <1>2 DEF Continues
  <1> QED BY <1>3 DEF Headed

\* The clock goes on.
LEMMA TickKeeps == LogInv /\ Tick => LogInv'
  <1> SUFFICES ASSUME LogInv, Tick
               PROVE  LogInv'
    OBVIOUS
  <1>1. /\ now' \in Instants /\ now < now' /\ UNCHANGED <<g_logLevel, g_logTimeZone, settings, tls, logger, sink>>
        /\ recentZones' = IF secondsSinceEpoch(now') = secondsSinceEpoch(now) THEN recentZones ELSE {g_logTimeZone}
        /\ now \in Instants /\ now \in Nat /\ now' \in Nat
    BY LoggingAssumption DEF Tick, LogInv, LogTypeOK
  <1> DEFINE s == secondsSinceEpoch(now)
             r == secondsSinceEpoch(now')
  <1>2. s \in Nat /\ r \in Nat /\ s <= r
    BY <1>1, SecondsGoOn
  <1>3. secondsSinceEpoch(now)' = r
    BY DEF secondsSinceEpoch
  <1>4. /\ g_logTimeZone \in recentZones
        /\ tls_lastSecond \in [Writers -> Nat] /\ DOMAIN tls_timeString = Writers
        /\ \A t \in Writers :
              /\ tls_lastSecond[t] <= s
              /\ tls_lastSecond[t] = s /\ tls_lastSecond[t] # 0 =>
                    \E zone \in recentZones : tls_timeString[t] = timeIn(zone, tls_lastSecond[t])
    BY DEF LogInv, Kept
  <1>5. \A zone, v : timeIn(zone, v)' = timeIn(zone, v)
    BY DEF timeIn
  <1>6. Kept'
    <2>1. /\ g_logTimeZone' = g_logTimeZone /\ g_logTimeZone' \in recentZones'
          /\ tls_lastSecond' = tls_lastSecond /\ tls_timeString' = tls_timeString
      BY <1>1, <1>4 DEF tls
    <2>2. ASSUME NEW t \in Writers
          PROVE  /\ tls_lastSecond'[t] <= r
                 /\ tls_lastSecond'[t] = r /\ tls_lastSecond'[t] # 0 =>
                       \E zone \in recentZones' : tls_timeString'[t] = timeIn(zone, tls_lastSecond'[t])
      <3>1. tls_lastSecond[t] \in Nat /\ tls_lastSecond[t] <= s
        BY <1>4
      <3>2. tls_lastSecond'[t] <= r
        BY <1>2, <2>1, <3>1
      <3> SUFFICES ASSUME tls_lastSecond'[t] = r, tls_lastSecond'[t] # 0
                   PROVE  \E zone \in recentZones' : tls_timeString'[t] = timeIn(zone, tls_lastSecond'[t])
        BY <3>2
      <3>3. r = s
        BY <1>2, <2>1, <3>1
      <3>4. recentZones' = recentZones
        BY <1>1, <3>3
      <3> HIDE DEF r, s
      <3> QED BY <1>4, <2>1, <3>3, <3>4
    <2> HIDE DEF r
    <2> QED BY <1>3, <1>4, <1>5, <2>1, <2>2 DEF Kept
  <1> HIDE DEF s, r
  <1>7. LogTypeOK'
    BY <1>1 DEF LogInv, LogTypeOK, StreamOK, sink
  <1>8. \A t \in Writers : /\ Whole(logger[t])' /\ Held(logger[t].stream)'
                           /\ (logger[t] # noLogger)' => Headed(logger[t])'
    <2> TAKE t \in Writers
    <2>1. logger'[t] = logger[t] /\ Whole(logger[t]) /\ Held(logger[t].stream)
      BY <1>1 DEF LogInv
    <2>2. Whole(logger[t])'
      BY <2>1 DEF Whole
    <2>3. Held(logger[t].stream)'
      BY <2>1 DEF Held, StreamOK
    <2>4. logger[t] # noLogger => Headed(logger[t])
      BY DEF LogInv
    <2>5. Headed(logger[t])' = Headed(logger[t])
      BY <2>1 DEF Headed, secondsSinceEpoch
    <2>6. (logger[t] # noLogger)' = (logger[t] # noLogger)
      BY <2>1 DEF noLogger
    <2> QED BY <2>2, <2>3, <2>4, <2>5, <2>6
  <1>9. (DOMAIN logger = Writers)' /\ StreamOK(line.stream)' /\ (line.level # "none" => Headed(line))'
    BY <1>1 DEF LogInv, StreamOK, Headed, secondsSinceEpoch, sink
  <1> QED BY <1>6, <1>7, <1>8, <1>9 DEF LogInv

\* The loggers and the line say the same in the next state as in this.
LEMMA LoggersKeep ==
    ASSUME LogInv, NEW t \in Writers, NEW x, logger' = [logger EXCEPT ![t] = x],
           Whole(x), Held(x.stream), x # noLogger => Headed(x), x.level \in Levels \cup {"none"}
    PROVE  /\ (DOMAIN logger = Writers)'
           /\ \A u \in Writers : /\ Whole(logger[u])' /\ Held(logger[u].stream)'
                                 /\ (logger[u] # noLogger => Headed(logger[u]))'
                                 /\ (logger[u].level \in Levels \cup {"none"} /\ StreamOK(logger[u].stream))'
  <1>1. DOMAIN logger = Writers
    BY DEF LogInv
  <1>2. ASSUME NEW u \in Writers
        PROVE  /\ Whole(logger[u])' /\ Held(logger[u].stream)'
               /\ (logger[u] # noLogger => Headed(logger[u]))'
               /\ (logger[u].level \in Levels \cup {"none"} /\ StreamOK(logger[u].stream))'
    <2>1. /\ Whole(logger'[u]) /\ Held(logger'[u].stream) /\ (logger'[u] # noLogger => Headed(logger'[u]))
          /\ logger'[u].level \in Levels \cup {"none"}
      <3>1. CASE u = t
        BY <1>1, <3>1
      <3>2. CASE u # t
        BY <1>1, <3>2 DEF LogInv, LogTypeOK
      <3> QED BY <3>1, <3>2
    <2>2. Whole(logger[u])'
      BY <2>1 DEF Whole
    <2>3. Held(logger[u].stream)' /\ StreamOK(logger[u].stream)'
      BY <2>1 DEF Held, StreamOK
    <2>4. (logger[u] # noLogger => Headed(logger[u]))'
      BY <2>1 DEF Headed, secondsSinceEpoch, noLogger
    <2> QED BY <2>1, <2>2, <2>3, <2>4
  <1> QED BY <1>1, <1>2

\* A statement's Logger starts with the time of the zone in force (Logger::Logger).
LEMMA StatementKeeps ==
    ASSUME LogInv, NEW t \in Writers, NEW level \in Levels, NEW savedErrno \in {0, 11},
           Statement(t, level, savedErrno)
    PROVE  LogInv'
  <1> DEFINE seconds == secondsSinceEpoch(now)
             tm == timeString(t, seconds)
             known == header(formatTime(tm), t, level, savedErrno)
             traced == append(append(known, text("func", 4)), text("space", 1))
             s == IF level \in {"TRACE", "DEBUG"} THEN traced ELSE known
             x == [level |-> level, writer |-> t, made |-> now, zones |-> recentZones, stream |-> s]
  <1>1. /\ statements < MaxLines /\ statements' = statements + 1
        /\ tls_lastSecond' = [tls_lastSecond EXCEPT ![t] = seconds]
        /\ tls_timeString' = [tls_timeString EXCEPT ![t] = tm]
        /\ logger' = [logger EXCEPT ![t] = x]
        /\ UNCHANGED <<now, globals, line, aborted>>
    BY Zenon DEF Statement
  <1>2. /\ Held(known) /\ Len(known.pieces) >= 4
        /\ known.pieces[1].what = tm /\ known.pieces[2].what = now % kMicroSecondsPerSecond
        /\ known.pieces[3] = text(t, 6) /\ known.pieces[4] = text(level, 6)
    BY HeadingStays
  <1>3. seconds \in Nat
    BY SecondsGoOn, LoggingAssumption DEF LogInv, LogTypeOK
  <1>4. /\ g_logTimeZone \in recentZones
        /\ tls_lastSecond \in [Writers -> Nat] /\ DOMAIN tls_timeString = Writers
        /\ \A u \in Writers :
              /\ tls_lastSecond[u] <= seconds
              /\ tls_lastSecond[u] = seconds /\ tls_lastSecond[u] # 0 =>
                    \E zone \in recentZones : tls_timeString[u] = timeIn(zone, tls_lastSecond[u])
    BY DEF LogInv, Kept
  <1>5. seconds # 0 => \E zone \in recentZones : tm = timeIn(zone, seconds)
    <2>1. CASE seconds = tls_lastSecond[t]
      BY <2>1, <1>4 DEF timeString
    <2>2. CASE seconds # tls_lastSecond[t]
      <3>1. tm = localTm(seconds)
        BY <2>2 DEF timeString
      <3>2. localTm(seconds) = timeIn(g_logTimeZone, seconds)
        BY <1>3, LocalTmIsInEffect DEF LogInv
      <3> QED BY <3>1, <3>2, <1>4
    <2> QED BY <2>1, <2>2
  <1>6. /\ x.level = level /\ x.writer = t /\ x.made = now /\ x.zones = recentZones /\ x.stream = s
        /\ Whole(x) /\ secondsSinceEpoch(x.made) = seconds
    BY DEF Whole
  <1> HIDE DEF tm, known, x, seconds
  <1>7. Held(s) /\ Continues(s, known)
    <2> DEFINE f == append(known, text("func", 4))
    <2>1. \A what, n : text(what, n).len = n
      BY DEF text
    <2>2. Held(f) /\ Continues(f, known)
      BY <1>2, <2>1, AppendContinues
    <2> HIDE DEF f
    <2>3. Held(append(f, text("space", 1))) /\ Continues(append(f, text("space", 1)), f)
      BY <2>1, <2>2, AppendContinues
    <2>4. Held(traced) /\ Continues(traced, known)
      BY <1>2, <2>2, <2>3, ContinuesOn DEF f
    <2> HIDE DEF traced
    <2> QED BY <1>2, <2>4, ContinuesItself
  <1>8. Headed(x)
    <2>1. /\ Len(s.pieces) >= 4 /\ s.pieces[1] = known.pieces[1] /\ s.pieces[2] = known.pieces[2]
          /\ s.pieces[3] = known.pieces[3] /\ s.pieces[4] = known.pieces[4]
      <3>1. Len(s.pieces) \in Nat /\ Len(known.pieces) \in Nat
        BY <1>2, <1>7, LenProperties DEF Held
      <3> HIDE DEF s
      <3> QED BY <1>2, <1>7, <3>1 DEF Continues
    <2> HIDE DEF s
    <2> QED BY <1>2, <1>5, <1>6, <2>1 DEF Headed
  <1> HIDE DEF s
  <1>9. /\ (DOMAIN logger = Writers)'
        /\ \A u \in Writers : /\ Whole(logger[u])' /\ Held(logger[u].stream)'
                              /\ (logger[u] # noLogger => Headed(logger[u]))'
                              /\ (logger[u].level \in Levels \cup {"none"} /\ StreamOK(logger[u].stream))'
    BY <1>1, <1>6, <1>7, <1>8, LoggersKeep
  <1>10. LogTypeOK'
    <2>1. statements \in 0..MaxLines /\ statements' \in 0..MaxLines
      BY <1>1, LoggingAssumption DEF LogInv, LogTypeOK
    <2> QED BY <1>1, <1>9, <2>1 DEF LogInv, LogTypeOK, globals
  <1>11. Kept'
    <2>1. secondsSinceEpoch(now)' = seconds
      BY <1>1 DEF seconds, secondsSinceEpoch
    <2>2. /\ tls_lastSecond' \in [Writers -> Nat] /\ DOMAIN tls_timeString' = Writers
          /\ recentZones' = recentZones /\ g_logTimeZone' = g_logTimeZone
      BY <1>1, <1>3, <1>4 DEF globals
    <2>3. \A zone, v : timeIn(zone, v)' = timeIn(zone, v)
      BY DEF timeIn
    <2>4. ASSUME NEW u \in Writers
          PROVE  /\ tls_lastSecond'[u] <= seconds
                 /\ tls_lastSecond'[u] = seconds /\ tls_lastSecond'[u] # 0 =>
                       \E zone \in recentZones : tls_timeString'[u] = timeIn(zone, tls_lastSecond'[u])
      <3>1. CASE u = t
        BY <3>1, <1>1, <1>3, <1>4, <1>5
      <3>2. CASE u # t
        BY <3>2, <1>1, <1>4
      <3> QED BY <3>1, <3>2
    <2> QED BY <1>4, <2>1, <2>2, <2>3, <2>4 DEF Kept
  <1>12. StreamOK(line.stream)' /\ (line.level # "none" => Headed(line))'
    BY <1>1 DEF LogInv, StreamOK, Headed, secondsSinceEpoch
  <1> QED BY <1>9, <1>10, <1>11, <1>12 DEF LogInv

\* Nothing but the loggers and what is written changes.
LEMMA WritingKeeps ==
    ASSUME LogInv, UNCHANGED <<now, globals, tls>>
    PROVE  Kept'
  <1>1. \A zone, v : timeIn(zone, v)' = timeIn(zone, v)
    BY DEF timeIn
  <1> QED BY <1>1 DEF LogInv, Kept, globals, tls, secondsSinceEpoch

\* An item follows the heading (LogStream::operator<<).
LEMMA StreamKeeps ==
    ASSUME LogInv, NEW t \in Writers, NEW item \in Items, Stream(t, item)
    PROVE  LogInv'
  <1> DEFINE y == logger[t]
             s == stream(y.stream, item)
             x == [y EXCEPT !.stream = s]
  <1>1. y # noLogger /\ logger' = [logger EXCEPT ![t] = x] /\ UNCHANGED <<now, globals, tls, sink>>
    BY DEF Stream
  <1>2. Whole(y) /\ Held(y.stream) /\ Headed(y) /\ y.level \in Levels \cup {"none"}
    BY <1>1 DEF LogInv, LogTypeOK
  <1>3. Held(s) /\ Continues(s, y.stream)
    BY <1>2, ItemContinues
  <1>4. /\ x.level = y.level /\ x.writer = y.writer /\ x.made = y.made /\ x.zones = y.zones /\ x.stream = s
        /\ Whole(x)
    BY <1>2 DEF Whole
  <1> HIDE DEF x, y, s
  <1>5. Headed(x)
    BY <1>2, <1>3, <1>4, HeadedOn
  <1>6. /\ (DOMAIN logger = Writers)'
        /\ \A u \in Writers : /\ Whole(logger[u])' /\ Held(logger[u].stream)'
                              /\ (logger[u] # noLogger => Headed(logger[u]))'
                              /\ (logger[u].level \in Levels \cup {"none"} /\ StreamOK(logger[u].stream))'
    BY <1>1, <1>2, <1>3, <1>4, <1>5, LoggersKeep
  <1>7. LogTypeOK'
    BY <1>1, <1>6 DEF LogInv, LogTypeOK, globals, sink
  <1>8. Kept'
    BY <1>1, WritingKeeps
  <1>9. StreamOK(line.stream)' /\ (line.level # "none" => Headed(line))'
    BY <1>1 DEF LogInv, StreamOK, Headed, secondsSinceEpoch, sink
  <1> QED BY <1>6, <1>7, <1>8, <1>9 DEF LogInv

\* The line that is written tells what its Logger began with (Logger::~Logger).
LEMMA DestroyKeeps ==
    ASSUME LogInv, NEW t \in Writers, Destroy(t)
    PROVE  LogInv'
  <1> DEFINE y == logger[t]
             s == finish(y.stream)
             x == [y EXCEPT !.stream = s]
  <1>1. /\ y # noLogger /\ line' = x /\ aborted' = (y.level = "FATAL")
        /\ logger' = [logger EXCEPT ![t] = noLogger]
        /\ UNCHANGED <<now, globals, tls, statements>>
    BY DEF Destroy
  <1>2. Whole(y) /\ Held(y.stream) /\ Headed(y) /\ y.level \in Levels \cup {"none"}
    BY <1>1 DEF LogInv, LogTypeOK
  <1>3. Held(s) /\ Continues(s, y.stream)
    <2> DEFINE a == append(y.stream, text("dash", 3))
               b == append(a, text("basename", 9))
               c == append(b, text("colon", 1))
               d == formatInteger(c, lineNumber)
               e == append(d, text("newline", 1))
    <2>1. \A what, n : text(what, n).len = n
      BY DEF text
    <2>2. s = e
      BY DEF finish
    <2>3. lineNumber.len \in Nat /\ lineNumber.len < kMaxNumericSize
      BY NumbersFit DEF lineNumber, integer
    <2> HIDE DEF a, b, c, d, e, s, y
    <2>4. Held(a) /\ Continues(a, y.stream)
      BY <1>2, <2>1, AppendContinues DEF a
    <2>5. Held(b) /\ Continues(b, a)
      BY <2>1, <2>4, AppendContinues DEF b
    <2>6. Held(c) /\ Continues(c, b)
      BY <2>1, <2>5, AppendContinues DEF c
    <2>7. Held(d) /\ Continues(d, c)
      BY <2>3, <2>6, NumberContinues DEF d
    <2>8. Held(e) /\ Continues(e, d)
      BY <2>1, <2>7, AppendContinues DEF e
    <2> QED BY <1>2, <2>2, <2>4, <2>5, <2>6, <2>7, <2>8, ContinuesOn
  <1>4. /\ x.level = y.level /\ x.writer = y.writer /\ x.made = y.made /\ x.zones = y.zones /\ x.stream = s
    BY <1>2 DEF Whole
  <1> HIDE DEF x, y, s
  <1>5. Headed(x)
    BY <1>2, <1>3, <1>4, HeadedOn
  <1>6. /\ (DOMAIN logger = Writers)'
        /\ \A u \in Writers : /\ Whole(logger[u])' /\ Held(logger[u].stream)'
                              /\ (logger[u] # noLogger => Headed(logger[u]))'
                              /\ (logger[u].level \in Levels \cup {"none"} /\ StreamOK(logger[u].stream))'
    BY <1>1, NothingHeld, LoggersKeep
  <1>7. LogTypeOK'
    <2>1. aborted' \in BOOLEAN
      BY <1>1, Zenon
    <2> QED BY <1>1, <1>6, <2>1 DEF LogInv, LogTypeOK, globals
  <1>8. Kept'
    BY <1>1, WritingKeeps
  <1>9. StreamOK(line.stream)' /\ (line.level # "none" => Headed(line))'
    <2>1. StreamOK(x.stream)
      BY <1>3, <1>4 DEF Held
    <2>2. StreamOK(line.stream)'
      BY <1>1, <2>1 DEF StreamOK
    <2>3. Headed(line)'
      BY <1>1, <1>5 DEF Headed, secondsSinceEpoch
    <2> QED BY <2>2, <2>3
  <1> QED BY <1>6, <1>7, <1>8, <1>9 DEF LogInv

\* LogInv is kept by every step.
LEMMA LogKeeps == LogInv /\ [LogNext]_logVars => LogInv'
  <1> SUFFICES ASSUME LogInv, [LogNext]_logVars
               PROVE  LogInv'
    OBVIOUS
  <1>1. CASE Tick
    BY <1>1, TickKeeps
  <1>2. ASSUME NEW level \in Levels, SetLogLevel(level)
        PROVE  LogInv'
    <2>1. LogTypeOK'
      BY <1>2 DEF SetLogLevel, LogInv, LogTypeOK, StreamOK, sink
    <2> QED BY <1>2, <2>1, SettingKeeps DEF SetLogLevel, sink, LogInv, Kept
  <1>3. ASSUME NEW tz \in Zones, SetTimeZone(tz)
        PROVE  LogInv'
    <2>1. LogTypeOK'
      BY <1>3 DEF SetTimeZone, LogInv, LogTypeOK, StreamOK, sink
    <2> QED BY <1>3, <2>1, SettingKeeps DEF SetTimeZone, sink
  <1>4. ASSUME NEW t \in Writers, NEW level \in Levels, NEW savedErrno \in {0, 11},
               Statement(t, level, savedErrno)
        PROVE  LogInv'
    BY <1>4, StatementKeeps
  <1>5. ASSUME NEW t \in Writers, NEW item \in Items, Stream(t, item)
        PROVE  LogInv'
    BY <1>5, StreamKeeps
  <1>6. ASSUME NEW t \in Writers, Destroy(t)
        PROVE  LogInv'
    BY <1>6, DestroyKeeps
  <1>7. CASE UNCHANGED logVars
    <2>1. LogTypeOK'
      BY <1>7 DEF logVars, LogInv, LogTypeOK, StreamOK, globals, sink
    <2> QED BY <1>7, <2>1, SettingKeeps DEF logVars, globals, sink, LogInv, Kept
  <1> QED BY <1>1, <1>2, <1>3, <1>4, <1>5, <1>6, <1>7 DEF LogNext

\* A line starts with its time, its own thread and its level, whatever was streamed
\* and whoever else logs, in the time of a zone in force within the second its
\* Logger was made, although the string is kept from line to line
\* (Logger::formatTime, tls_timeString, tls_tidString).
THEOREM LinesToldWhen == LogSpec => []LinesTellWhen
  <1>1. LogInit => LogInv
    BY LogStarts
  <1>2. LogInv /\ [LogNext]_logVars => LogInv'
    BY LogKeeps
  <1>3. LogInv => LinesTellWhen
    BY DEF LogInv, LinesTellWhen, Headed
  <1> QED BY <1>1, <1>2, <1>3, PTL DEF LogSpec

-----------------------------------------------------------------------------
(* Dates of the calendar.                                                   *)

\* The months of a year that begins in March, to their last day.
LEMMA MonthsFit ==
    ASSUME NEW y \in Int, NEW month \in 1..12, NEW day \in 1..daysIn(y, month)
    PROVE  LET a == (14 - month) \div 12
               m == month + 12 * a - 3
               e == day - 1 + (153 * m + 2) \div 5
           IN  /\ a \in {0, 1} /\ m \in 0..11 /\ m \div 10 = a /\ day \in Nat
               /\ e \in 0..365 /\ (e = 365 => a = 1 /\ leap(y))
               /\ (5 * e + 2) \div 153 = m
  <1> DEFINE a == (14 - month) \div 12
             m == month + 12 * a - 3
             e == day - 1 + (153 * m + 2) \div 5
  <1>1. day \in Int /\ day >= 1 /\ day <= daysIn(y, month)
    <2>1. daysIn(y, month) \in Int
      BY DEF daysIn
    <2> QED BY <2>1
  <1> HIDE DEF a, m, e
  <1>2. \/ month \in {1, 3, 5, 7, 8, 10, 12} /\ m \in {0, 2, 4, 5, 7, 9, 10} /\ day <= 31
        \/ month \in {4, 6, 9, 11} /\ m \in {1, 3, 6, 8} /\ day <= 30
        \/ month = 2 /\ m = 11 /\ day <= 29 /\ (day = 29 => leap(y))
    <2>1. CASE month \in {1, 3, 5, 7, 8, 10, 12}
      <3>1. m \in {0, 2, 4, 5, 7, 9, 10}
        BY <2>1 DEF m, a
      <3>2. daysIn(y, month) = 31
        BY <2>1 DEF daysIn
      <3> QED BY <1>1, <2>1, <3>1, <3>2
    <2>2. CASE month \in {4, 6, 9, 11}
      <3>1. m \in {1, 3, 6, 8}
        BY <2>2 DEF m, a
      <3>2. daysIn(y, month) = 30
        BY <2>2 DEF daysIn
      <3> QED BY <1>1, <2>2, <3>1, <3>2
    <2>3. CASE month = 2
      <3>1. m = 11
        BY <2>3 DEF m, a
      <3>2. daysIn(y, month) = IF leap(y) THEN 29 ELSE 28
        BY <2>3 DEF daysIn
      <3> QED BY <1>1, <2>3, <3>1, <3>2
    <2> QED BY <2>1, <2>2, <2>3
  <1>3. a \in {0, 1} /\ m \in 0..11 /\ (a = 1 <=> m \in {10, 11})
    <2>1. a = IF month <= 2 THEN 1 ELSE 0
      BY DEF a
    <2>2. m = month + 12 * a - 3
      BY DEF m
    <2> QED BY <2>1, <2>2
  <1>4. m \div 10 = a /\ day \in Nat
    BY <1>1, <1>3
  <1> DEFINE u == (153 * m + 2) \div 5
  <1>5. e = day - 1 + u
    BY DEF e
  <1>6. u \in Int /\ 5 * u <= 153 * m + 2 /\ 153 * m + 2 < 5 * u + 5
    BY <1>3
  <1> HIDE DEF u
  <1>7. e \in Int /\ 0 <= e /\ 153 * m <= 5 * e + 2
    BY <1>1, <1>3, <1>5, <1>6
  <1>8. 5 * e + 2 < 153 * m + 153 /\ e <= 365 /\ (e = 365 => a = 1 /\ leap(y))
    <2>1. CASE m \in {0, 2, 4, 5, 7, 9, 10} /\ day <= 31
      BY <1>1, <1>5, <1>6, <2>1
    <2>2. CASE m \in {1, 3, 6, 8} /\ day <= 30
      BY <1>1, <1>5, <1>6, <2>2
    <2>3. CASE m = 11 /\ day <= 29 /\ (day = 29 => leap(y))
      BY <1>1, <1>3, <1>5, <1>6, <2>3
    <2> QED BY <1>2, <2>1, <2>2, <2>3
  <1>9. (5 * e + 2) \div 153 = m
    BY <1>3, <1>7, <1>8
  <1> QED BY <1>3, <1>4, <1>7, <1>8, <1>9 DEF a, m, e

\* A day number, from March of the year 0, as the day e of the year d of the
\* century b; what getYearMonthDay takes off it to find these; and what it answers.
DayOf(a, b, d, e) ==
    /\ b \in Nat /\ d \in 0..99 /\ e \in 0..365
    /\ e = 365 => d % 4 = 3 /\ (d = 99 => b % 4 = 3)
    /\ a = e + centuryDays(b, d)
ComesOff(a, b, d, e) ==
    LET c == a - (b * 146097) \div 4
    IN  /\ a \in Nat /\ (4 * a + 3) \div 146097 = b
        /\ (4 * c + 3) \div 1461 = d
        /\ c - (1461 * d) \div 4 = e
DateOf(ymd, b, d, e, m) ==
    /\ ymd = [year |-> ymd.year, month |-> ymd.month, day |-> ymd.day]
    /\ ymd.year = b * 100 + d - 4800 + m \div 10
    /\ ymd.month = m + 3 - 12 * (m \div 10)
    /\ ymd.day = e - (153 * m + 2) \div 5 + 1

\* The days of whole centuries and years are taken off a day number as they were
\* put on it, but for the leap day that ends a year (getYearMonthDay).
LEMMA CenturiesComeOff ==
    ASSUME NEW a, NEW b, NEW d, NEW e, DayOf(a, b, d, e)
    PROVE  ComesOff(a, b, d, e)
  <1> DEFINE q == b \div 4
             r == b % 4
             p == d \div 4
             s == d % 4
             c0 == e + 365 * d + p
  <1> USE DEF DayOf
  <1>1. q \in Nat /\ r \in 0..3 /\ b = 4 * q + r
    OBVIOUS
  <1>2. p \in Nat /\ s \in 0..3 /\ d = 4 * p + s
    OBVIOUS
  <1>3. e = 365 => s = 3 /\ (d = 99 => r = 3)
    OBVIOUS
  <1>4. a = e + 36524 * b + q + 365 * d + p
    <2>1. centuryDays(b, d) = 36524 * b + q + 365 * d + p
      BY DEF centuryDays
    <2>2. 36524 * b \in Int /\ 365 * d \in Int
      OBVIOUS
    <2> HIDE DEF q, p
    <2> QED BY <1>1, <1>2, <2>1, <2>2
  <1> HIDE DEF q, r, p, s
  <1>5. c0 \in Nat /\ 4 * c0 = 1461 * d - s + 4 * e
    BY <1>2
  <1>6. c0 <= 36524 /\ (c0 = 36524 => r = 3)
    BY <1>2, <1>3
  <1>7. a = c0 + 36524 * b + q
    BY <1>1, <1>2, <1>4
  <1> HIDE DEF c0
  <1>8. a \in Nat /\ 4 * a + 3 = 146097 * b - r + 4 * c0 + 3
    BY <1>1, <1>5, <1>7
  <1>9. (4 * a + 3) \div 146097 = b
    <2>1. 146097 * b <= 4 * a + 3 /\ 4 * a + 3 < 146097 * b + 146097
      BY <1>1, <1>5, <1>6, <1>8
    <2> QED BY <1>8, <2>1
  <1>10. (b * 146097) \div 4 = 36524 * b + q
    BY <1>1
  <1>11. a - (b * 146097) \div 4 = c0
    BY <1>1, <1>5, <1>7, <1>10
  <1>12. (4 * c0 + 3) \div 1461 = d
    <2>1. 1461 * d <= 4 * c0 + 3 /\ 4 * c0 + 3 < 1461 * d + 1461
      BY <1>2, <1>3, <1>5
    <2> QED BY <1>5, <2>1
  <1>13. c0 - (1461 * d) \div 4 = e
    <2>1. (1461 * d) \div 4 = 365 * d + p
      BY <1>2
    <2> QED BY <1>2, <2>1 DEF c0
  <1> QED BY <1>8, <1>9, <1>11, <1>12, <1>13 DEF ComesOff

\* What getYearMonthDay answers, by the century, the year, the day and the month
\* of the day that is numbered.
LEMMA DateByParts ==
    ASSUME NEW j, NEW b, NEW d, NEW e, NEW m, DayOf(j + 32044, b, d, e), (5 * e + 2) \div 153 = m
    PROVE  DateOf(getYearMonthDay(j), b, d, e, m)
  <1> DEFINE a == j + 32044
             b2 == (4 * a + 3) \div 146097
             c2 == a - (b2 * 146097) \div 4
             d2 == (4 * c2 + 3) \div 1461
             e2 == c2 - (1461 * d2) \div 4
             m2 == (5 * e2 + 2) \div 153
             ymd == getYearMonthDay(j)
             c == a - (b * 146097) \div 4
  <1>1. /\ ymd.year = b2 * 100 + d2 - 4800 + m2 \div 10
        /\ ymd.month = m2 + 3 - 12 * (m2 \div 10)
        /\ ymd.day = e2 - (153 * m2 + 2) \div 5 + 1
    BY DEF getYearMonthDay
  <1>2. ymd = [year |-> ymd.year, month |-> ymd.month, day |-> ymd.day]
    BY DEF getYearMonthDay
  <1>3. ComesOff(a, b, d, e)
    BY CenturiesComeOff
  <1> HIDE DEF a, ymd
  <1>4. b2 = b /\ (4 * c + 3) \div 1461 = d /\ c - (1461 * d) \div 4 = e
    BY <1>3 DEF ComesOff
  <1> HIDE DEF b2
  <1>5. c2 = c
    BY <1>4
  <1> HIDE DEF c2, c
  <1>6. d2 = d
    BY <1>4, <1>5
  <1> HIDE DEF d2
  <1>7. e2 = e
    BY <1>4, <1>5, <1>6
  <1> HIDE DEF e2
  <1>8. m2 = m
    BY <1>7
  <1> HIDE DEF m2
  <1> QED BY <1>1, <1>2, <1>4, <1>6, <1>7, <1>8 DEF ymd, DateOf

\* The number of a date is turned into that date (getJulianDayNumber, getYearMonthDay).
LEMMA DateOfJulian ==
    ASSUME NEW year \in Int, year >= -4799, NEW month \in 1..12, NEW day \in 1..daysIn(year, month)
    PROVE  getYearMonthDay(getJulianDayNumber(year, month, day)) = [year |-> year, month |-> month, day |-> day]
  <1> DEFINE a1 == (14 - month) \div 12
             m == month + 12 * a1 - 3
             u == (153 * m + 2) \div 5
             e == day - 1 + u
             y == year + 4800 - a1
             b == y \div 100
             d == y % 100
             j == getJulianDayNumber(year, month, day)
             a == e + centuryDays(b, d)
  <1>1. /\ a1 \in {0, 1} /\ m \in 0..11 /\ m \div 10 = a1 /\ day \in Nat
        /\ e \in 0..365 /\ (e = 365 => a1 = 1 /\ leap(year))
        /\ (5 * e + 2) \div 153 = m
    BY MonthsFit
  <1>2. u \in Int
    BY <1>1
  <1> HIDE DEF a1, m, u, e
  <1>3. y \in Nat
    BY <1>1
  <1>4. b \in Nat /\ d \in 0..99 /\ y = 100 * b + d
    BY <1>3
  <1>5. e = 365 => d % 4 = 3 /\ (d = 99 => b % 4 = 3)
    <2> SUFFICES ASSUME e = 365
                 PROVE  d % 4 = 3 /\ (d = 99 => b % 4 = 3)
      OBVIOUS
    <2>1. year = y - 4799 /\ year % 4 = 0 /\ (year % 100 # 0 \/ year % 400 = 0)
      BY <1>1 DEF leap
    <2>2. year = 100 * b + d - 4799
      BY <1>4, <2>1
    <2> HIDE DEF y, b, d
    <2>3. d % 4 = 3
      BY <1>4, <2>1, <2>2
    <2>4. ASSUME d = 99
          PROVE  b % 4 = 3
      <3>1. year = 100 * b - 4700 /\ year % 100 = 0
        BY <1>4, <2>2, <2>4
      <3>2. year % 400 = 0
        BY <2>1, <3>1
      <3> QED BY <1>4, <3>1, <3>2
    <2> QED BY <2>3, <2>4
  <1>6. yearDays(y) = centuryDays(b, d)
    <2>1. \A s \in Nat, t \in 0..99 : yearDays(100 * s + t) = centuryDays(s, t)
      BY ONLY DaysOfCentury, Zenon
    <2> HIDE DEF y, b, d
    <2>2. yearDays(100 * b + d) = centuryDays(b, d)
      BY ONLY <1>4, <2>1, Zenon
    <2> QED BY <1>4, <2>2
  <1>7. j + 32044 = a
    <2> DEFINE v == yearDays(y)
    <2>1. v \in Int
      <3> HIDE DEF y
      <3> QED BY <1>3 DEF yearDays
    <2>2. j = day + u + v - 32045
      <3>1. j = day + u + y * 365 + y \div 4 - y \div 100 + y \div 400 - 32045
        BY DEF getJulianDayNumber, a1, m, u
      <3>2. y * 365 \in Int /\ y \div 4 \in Int /\ y \div 100 \in Int /\ y \div 400 \in Int
        BY <1>3
      <3> HIDE DEF y, j
      <3> QED BY <1>1, <1>2, <3>1, <3>2 DEF yearDays
    <2>3. e = day - 1 + u
      BY DEF e
    <2>4. a = e + v
      BY <1>6
    <2> HIDE DEF v, j, a
    <2> QED BY <1>1, <1>2, <2>1, <2>2, <2>3, <2>4
  <1> HIDE DEF y, b, d, j
  <1>8. DayOf(j + 32044, b, d, e)
    BY <1>1, <1>4, <1>5, <1>7 DEF DayOf
  <1> DEFINE ymd == getYearMonthDay(j)
  <1>9. DateOf(ymd, b, d, e, m)
    BY <1>1, <1>8, DateByParts
  <1> HIDE DEF ymd, a
  <1>10. b * 100 + d - 4800 + m \div 10 = year
    BY <1>1, <1>4 DEF y
  <1>11. m + 3 - 12 * (m \div 10) = month
    BY <1>1 DEF m
  <1>12. e - (153 * m + 2) \div 5 + 1 = day
    BY <1>1, <1>2 DEF e, u
  <1> QED BY <1>9, <1>10, <1>11, <1>12 DEF j, ymd, DateOf

\* Days of a year before its month, one month after the other.
LEMMA MonthsAddUp ==
    ASSUME NEW y
    PROVE  LET l == IF leap(y) THEN 1 ELSE 0
           IN  /\ daysBefore(y, 1) = 0          /\ daysBefore(y, 2) = 31
               /\ daysBefore(y, 3) = 59 + l     /\ daysBefore(y, 4) = 90 + l
               /\ daysBefore(y, 5) = 120 + l    /\ daysBefore(y, 6) = 151 + l
               /\ daysBefore(y, 7) = 181 + l    /\ daysBefore(y, 8) = 212 + l
               /\ daysBefore(y, 9) = 243 + l    /\ daysBefore(y, 10) = 273 + l
               /\ daysBefore(y, 11) = 304 + l   /\ daysBefore(y, 12) = 334 + l
  <1> DEFINE l == IF leap(y) THEN 1 ELSE 0
             table == <<0, 31, 59 + l, 90 + l, 120 + l, 151 + l, 181 + l, 212 + l, 243 + l, 273 + l, 304 + l, 334 + l>>
             known == [n \in 1..12 |-> table[n]]
             R(f) == f = [n \in 1..12 |-> IF n = 1 THEN 0 ELSE f[n - 1] + daysIn(y, n - 1)]
             before == CHOOSE f : R(f)
  <1>1. l \in Int
    OBVIOUS
  <1> HIDE DEF l
  <1>2. R(known)
    <2>1. \A n \in 1..12 : known[n] = IF n = 1 THEN 0 ELSE known[n - 1] + daysIn(y, n - 1)
      BY <1>1 DEF daysIn, l
    <2> QED BY <2>1
  <1>3. R(before)
    BY <1>2
  <1>4. \A m \in 1..12 : daysBefore(y, m) = before[m]
    BY DEF daysBefore
  <1>5. \A n \in 1..12 : before[n] = IF n = 1 THEN 0 ELSE before[n - 1] + daysIn(y, n - 1)
    BY <1>3
  <1> HIDE DEF before, known, R, table
  <1>6. daysIn(y, 2) = 28 + l /\ \A n \in {1, 3, 5, 7, 8, 10, 12} : daysIn(y, n) = 31
    BY DEF daysIn, l
  <1>7. \A n \in {4, 6, 9, 11} : daysIn(y, n) = 30
    BY DEF daysIn
  <1>8. before[1] = 0
    BY <1>1, <1>5, <1>6, <1>7
  <1>9. before[2] = 31
    BY <1>1, <1>5, <1>6, <1>7, <1>8
  <1>10. before[3] = 59 + l
    BY <1>1, <1>5, <1>6, <1>7, <1>9
  <1>11. before[4] = 90 + l
    BY <1>1, <1>5, <1>6, <1>7, <1>10
  <1>12. before[5] = 120 + l
    BY <1>1, <1>5, <1>6, <1>7, <1>11
  <1>13. before[6] = 151 + l
    BY <1>1, <1>5, <1>6, <1>7, <1>12
  <1>14. before[7] = 181 + l
    BY <1>1, <1>5, <1>6, <1>7, <1>13
  <1>15. before[8] = 212 + l
    BY <1>1, <1>5, <1>6, <1>7, <1>14
  <1>16. before[9] = 243 + l
    BY <1>1, <1>5, <1>6, <1>7, <1>15
  <1>17. before[10] = 273 + l
    BY <1>1, <1>5, <1>6, <1>7, <1>16
  <1>18. before[11] = 304 + l
    BY <1>1, <1>5, <1>6, <1>7, <1>17
  <1>19. before[12] = 334 + l
    BY <1>1, <1>5, <1>6, <1>7, <1>18
  <1> QED BY <1>4, <1>8, <1>9, <1>10, <1>11, <1>12, <1>13, <1>14, <1>15, <1>16, <1>17, <1>18, <1>19 DEF l

\* The leap years up to a year, as the code counts them.
leapsTo(y) == y \div 4 - y \div 100 + y \div 400
leapsOf(years) == {n \in years : leap(n)}

\* A leap year is one more than there were the year before.
LEMMA LeapYearCounts ==
    ASSUME NEW y \in Int
    PROVE  /\ leapsTo(y) \in Int /\ leapsTo(y - 1) \in Int
           /\ leapsTo(y) = leapsTo(y - 1) + (IF leap(y) THEN 1 ELSE 0)
  <1> DEFINE q == y \div 400
             r == y % 400
             a == y \div 4
             b == y \div 100
             x == y - 1
             a1 == x \div 4
             b1 == x \div 100
             c1 == x \div 400
  <1>1. a \in Int /\ b \in Int /\ q \in Int /\ a1 \in Int /\ b1 \in Int /\ c1 \in Int
    OBVIOUS
  <1>2. a = a1 + (IF y % 4 = 0 THEN 1 ELSE 0)
    OBVIOUS
  <1>3. b = b1 + (IF y % 100 = 0 THEN 1 ELSE 0)
    OBVIOUS
  <1>4. q = c1 + (IF y % 400 = 0 THEN 1 ELSE 0)
    OBVIOUS
  <1>5. (y % 400 = 0 => y % 100 = 0) /\ (y % 100 = 0 => y % 4 = 0)
    OBVIOUS
  <1>6. leapsTo(y) = a - b + q /\ leapsTo(y - 1) = a1 - b1 + c1
    BY DEF leapsTo
  <1> HIDE DEF a, b, q, a1, b1, c1
  <1> QED BY <1>1, <1>2, <1>3, <1>4, <1>5, <1>6 DEF leap

\* A year more of an interval.
LEMMA LeapsOfOneMore ==
    ASSUME NEW I, IsFiniteSet(I), NEW y, y \notin I
    PROVE  /\ IsFiniteSet(leapsOf(I))
           /\ Cardinality(leapsOf(I)) \in Nat
           /\ Cardinality(leapsOf(I \cup {y})) = Cardinality(leapsOf(I)) + (IF leap(y) THEN 1 ELSE 0)
  <1>1. IsFiniteSet(leapsOf(I))
    BY FS_Subset DEF leapsOf
  <1>2. Cardinality(leapsOf(I)) \in Nat
    BY <1>1, FS_CardinalityType
  <1>3. CASE leap(y)
    <2>1. leapsOf(I \cup {y}) = leapsOf(I) \cup {y} /\ y \notin leapsOf(I)
      BY <1>3 DEF leapsOf
    <2>2. Cardinality(leapsOf(I) \cup {y}) = Cardinality(leapsOf(I)) + 1
      BY <1>1, <2>1, FS_AddElement
    <2> QED BY <1>1, <1>2, <1>3, <2>1, <2>2
  <1>4. CASE ~leap(y)
    <2>1. leapsOf(I \cup {y}) = leapsOf(I)
      BY <1>4 DEF leapsOf
    <2> QED BY <1>1, <1>2, <1>4, <2>1
  <1> QED BY <1>3, <1>4

\* The leap years from 1970 on, and those before, are counted one by one.
Counted(k) ==
    /\ Cardinality(leapsOf(1970..1969 + k)) = leapsTo(1969 + k) - 477
    /\ Cardinality(leapsOf(1970 - k..1969)) = 477 - leapsTo(1969 - k)

LEMMA LeapsAreCounted ==
    ASSUME NEW k \in Nat
    PROVE  Counted(k)
  <1> DEFINE T == {n \in Nat : ~Counted(n)}
  <1>1. Counted(0)
    <2>1. 1970..1969 + 0 = {} /\ 1970 - 0..1969 = {}
      OBVIOUS
    <2>2. leapsOf({}) = {}
      BY DEF leapsOf
    <2>3. leapsTo(1969) = 477 /\ 1969 + 0 = 1969 /\ 1969 - 0 = 1969
      BY DEF leapsTo
    <2>4. Cardinality({}) = 0
      BY FS_EmptySet
    <2> QED BY <2>1, <2>2, <2>3, <2>4 DEF Counted
  <1>2. ASSUME NEW n \in Nat, Counted(n)
        PROVE  Counted(n + 1)
    <2> DEFINE up == 1970..1969 + n
               down == 1970 - n..1969
    <2>1. /\ 1970..1969 + (n + 1) = up \cup {1970 + n} /\ 1970 + n \notin up
          /\ 1970 - (n + 1)..1969 = down \cup {1969 - n} /\ 1969 - n \notin down
      OBVIOUS
    <2>2. IsFiniteSet(up) /\ IsFiniteSet(down)
      BY FS_Interval
    <2>3. Cardinality(leapsOf(up)) = leapsTo(1969 + n) - 477 /\ Cardinality(leapsOf(down)) = 477 - leapsTo(1969 - n)
      BY <1>2 DEF Counted
    <2>4. 1970 + n \in Int /\ 1969 - n \in Int /\ 1970 + n - 1 = 1969 + n /\ 1969 - n - 1 = 1969 - (n + 1)
          /\ 1969 + (n + 1) = 1970 + n
      OBVIOUS
    <2>5. /\ leapsTo(1970 + n) \in Int /\ leapsTo(1969 + n) \in Int
          /\ leapsTo(1970 + n) = leapsTo(1969 + n) + (IF leap(1970 + n) THEN 1 ELSE 0)
      BY <2>4, LeapYearCounts
    <2>6. /\ leapsTo(1969 - n) \in Int /\ leapsTo(1969 - (n + 1)) \in Int
          /\ leapsTo(1969 - n) = leapsTo(1969 - (n + 1)) + (IF leap(1969 - n) THEN 1 ELSE 0)
      BY <2>4, LeapYearCounts
    <2> HIDE DEF up, down
    <2>7. Cardinality(leapsOf(up \cup {1970 + n})) = Cardinality(leapsOf(up)) + (IF leap(1970 + n) THEN 1 ELSE 0)
      BY <2>1, <2>2, LeapsOfOneMore
    <2>8. Cardinality(leapsOf(down \cup {1969 - n})) = Cardinality(leapsOf(down)) + (IF leap(1969 - n) THEN 1 ELSE 0)
      BY <2>1, <2>2, LeapsOfOneMore
    <2>9. Cardinality(leapsOf(1970..1969 + (n + 1))) = leapsTo(1969 + (n + 1)) - 477
      <3> DEFINE A == 1970..1969 + (n + 1)
                 X == leapsTo(1969 + (n + 1))
                 c == Cardinality(leapsOf(up))
                 q == leapsTo(1970 + n)
                 r == leapsTo(1969 + n)
                 l == IF leap(1970 + n) THEN 1 ELSE 0
      <3>1. A = up \cup {1970 + n} /\ X = q
        BY <2>1, <2>4
      <3> HIDE DEF A, X
      <3>2. Cardinality(leapsOf(A)) = c + l
        BY <2>7, <3>1
      <3>3. c = r - 477 /\ q = r + l /\ r \in Int /\ l \in Int
        BY <2>3, <2>5
      <3> HIDE DEF A, X, c, q, r, l
      <3>4. Cardinality(leapsOf(A)) = X - 477
        BY <3>1, <3>2, <3>3
      <3> QED BY <3>4 DEF A, X
    <2>10. Cardinality(leapsOf(1970 - (n + 1)..1969)) = 477 - leapsTo(1969 - (n + 1))
      <3> DEFINE A == 1970 - (n + 1)..1969
                 q == leapsTo(1969 - (n + 1))
                 c == Cardinality(leapsOf(down))
                 r == leapsTo(1969 - n)
                 l == IF leap(1969 - n) THEN 1 ELSE 0
      <3>1. A = down \cup {1969 - n}
        BY <2>1
      <3> HIDE DEF A
      <3>2. Cardinality(leapsOf(A)) = c + l
        BY <2>8, <3>1
      <3>3. c = 477 - r /\ r = q + l /\ r \in Int /\ q \in Int /\ l \in Int
        BY <2>3, <2>6
      <3> HIDE DEF A, c, q, r, l
      <3>4. Cardinality(leapsOf(A)) = 477 - q
        BY <3>1, <3>2, <3>3
      <3> QED BY <3>4 DEF A, q
    <2> QED BY <2>9, <2>10 DEF Counted
  <1>3. T = {}
    <2> SUFFICES ASSUME T # {}
                 PROVE  FALSE
      OBVIOUS
    <2>1. T \subseteq Nat
      OBVIOUS
    <2>2. PICK n \in T : \A m \in T : n <= m
      <3> HIDE DEF T
      <3> QED BY <2>1, LeastMember
    <2>3. n \in Nat /\ ~Counted(n) /\ n # 0
      BY <1>1
    <2>4. n - 1 \in Nat /\ n - 1 \notin T /\ (n - 1) + 1 = n
      <3>1. n - 1 \in Nat /\ (n - 1) + 1 = n /\ ~(n <= n - 1)
        BY <2>3
      <3> HIDE DEF T
      <3> QED BY <2>2, <3>1
    <2>5. Counted(n - 1)
      BY <2>4
    <2>6. Counted((n - 1) + 1)
      BY <1>2, <2>4, <2>5
    <2> QED BY <2>3, <2>4, <2>6
  <1> QED BY <1>3

\* 1970 began on this day.
LEMMA Epoch == kJulianDayOf1970_01_01 = 2440588
  BY SMT DEF kJulianDayOf1970_01_01, getJulianDayNumber

\* A date has the number the calendar gives it (getJulianDayNumber).
LEMMA DayIsNumbered ==
    ASSUME NEW year \in Int, NEW month \in 1..12, NEW day \in Int
    PROVE  /\ dayNumber(year, month, day) \in Int
           /\ getJulianDayNumber(year, month, day) = dayNumber(year, month, day) + kJulianDayOf1970_01_01
  <1> DEFINE from1970 == 1970..year - 1
             to1969 == year..1969
             up == Cardinality(leapsOf(from1970))
             down == Cardinality(leapsOf(to1969))
             before == daysBefore(year, month)
             l == IF leap(year) THEN 1 ELSE 0
             L == leapsTo(year)
             K == leapsTo(year - 1)
  <1>1. L \in Int /\ K \in Int /\ L = K + l
    BY LeapYearCounts
  <1>2. up - down = K - 477 /\ up \in Int /\ down \in Int
    <2>0. Cardinality({}) = 0 /\ leapsOf({}) = {}
      BY FS_EmptySet DEF leapsOf
    <2>1. CASE year >= 1970
      <3> DEFINE k == year - 1970
      <3>1. k \in Nat /\ 1969 + k = year - 1 /\ year..1969 = {}
        BY <2>1
      <3> HIDE DEF k
      <3> DEFINE A == 1970..1969 + k
                 B == leapsTo(1969 + k)
      <3>2. Cardinality(leapsOf(A)) = B - 477
        BY <3>1, LeapsAreCounted DEF Counted
      <3>3. from1970 = A /\ K = B /\ to1969 = {}
        BY <3>1
      <3> HIDE DEF A, B, K, from1970, to1969
      <3>4. up = K - 477 /\ down = 0
        BY <3>2, <3>3, <2>0
      <3> HIDE DEF up, down
      <3> QED BY <3>4, <1>1
    <2>2. CASE year <= 1969
      <3> DEFINE k == 1970 - year
      <3>1. k \in Nat /\ 1969 - k = year - 1 /\ 1970 - k = year /\ 1970..year - 1 = {}
        BY <2>2
      <3> HIDE DEF k
      <3> DEFINE A == 1970 - k..1969
                 B == leapsTo(1969 - k)
      <3>2. Cardinality(leapsOf(A)) = 477 - B
        BY <3>1, LeapsAreCounted DEF Counted
      <3>3. to1969 = A /\ K = B /\ from1970 = {}
        BY <3>1
      <3> HIDE DEF A, B, K, from1970, to1969
      <3>4. down = 477 - K /\ up = 0
        BY <3>2, <3>3, <2>0
      <3> HIDE DEF up, down
      <3> QED BY <3>4, <1>1
    <2> QED BY <2>1, <2>2
  <1>3. dayNumber(year, month, day) = 365 * (year - 1970) + up - down + before + day - 1
    BY DEF dayNumber, leapsOf
  <1> DEFINE a == (14 - month) \div 12
             m == month + 12 * a - 3
             u == (153 * m + 2) \div 5
             y == year + 4800 - a
  <1>4. getJulianDayNumber(year, month, day) = day + u + y * 365 + y \div 4 - y \div 100 + y \div 400 - 32045
    BY DEF getJulianDayNumber
  <1>5. y \div 4 - y \div 100 + y \div 400 = 1164 + (IF a = 0 THEN L ELSE K) /\ y = year + 4800 - a
    <2>1. a \in {0, 1}
      OBVIOUS
    <2>2. \A w \in Int : /\ (w + 4800) \div 4 = w \div 4 + 1200
                         /\ (w + 4800) \div 100 = w \div 100 + 48
                         /\ (w + 4800) \div 400 = w \div 400 + 12
      OBVIOUS
    <2>3. y = (IF a = 0 THEN year ELSE year - 1) + 4800
      BY <2>1
    <2> HIDE DEF a
    <2>4. ASSUME NEW w \in Int, y = w + 4800
          PROVE  y \div 4 - y \div 100 + y \div 400 = 1164 + leapsTo(w)
      <3>1. w \div 4 \in Int /\ w \div 100 \in Int /\ w \div 400 \in Int
        OBVIOUS
      <3>2. y \div 4 = w \div 4 + 1200 /\ y \div 100 = w \div 100 + 48 /\ y \div 400 = w \div 400 + 12
        BY <2>2, <2>4
      <3> HIDE DEF y
      <3> QED BY <3>1, <3>2 DEF leapsTo
    <2>5. CASE a = 0
      <3>1. y = year + 4800
        BY <2>3, <2>5
      <3> QED BY <2>4, <2>5, <3>1
    <2>6. CASE a = 1
      <3>1. y = (year - 1) + 4800 /\ year - 1 \in Int
        BY <2>3, <2>6
      <3> QED BY <2>4, <2>6, <3>1
    <2> QED BY <2>1, <2>5, <2>6
  <1>6. /\ before \in Int /\ a \in {0, 1} /\ u \in Int
        /\ u + 365 * (1 - a) + (IF a = 0 THEN l ELSE 0) = before + 306
    <2>1. /\ daysBefore(year, 1) = 0          /\ daysBefore(year, 2) = 31
          /\ daysBefore(year, 3) = 59 + l     /\ daysBefore(year, 4) = 90 + l
          /\ daysBefore(year, 5) = 120 + l    /\ daysBefore(year, 6) = 151 + l
          /\ daysBefore(year, 7) = 181 + l    /\ daysBefore(year, 8) = 212 + l
          /\ daysBefore(year, 9) = 243 + l    /\ daysBefore(year, 10) = 273 + l
          /\ daysBefore(year, 11) = 304 + l   /\ daysBefore(year, 12) = 334 + l
      BY MonthsAddUp
    <2>2. l \in Int
      OBVIOUS
    <2> HIDE DEF l
    <2>3. CASE month <= 2
      <3>1. a = 1
        BY <2>3
      <3>2. (month = 1 \/ month = 2)
        BY <2>3
      <3> QED BY <2>1, <2>2, <3>1, <3>2
    <2>4. CASE month > 2
      <3>1. a = 0
        BY <2>4
      <3>2. month = 3 \/ month = 4 \/ month = 5 \/ month = 6 \/ month = 7 \/ month = 8 \/ month = 9
            \/ month = 10 \/ month = 11 \/ month = 12
        BY <2>4
      <3> QED BY <2>1, <2>2, <3>1, <3>2
    <2> QED BY <2>3, <2>4
  <1> DEFINE Y == y \div 4 - y \div 100 + y \div 400
  <1>7. getJulianDayNumber(year, month, day) = day + u + 365 * y + Y - 32045
    <2>1. y \in Int /\ y \div 4 \in Int /\ y \div 100 \in Int /\ y \div 400 \in Int
      BY <1>6
    <2> HIDE DEF y, u
    <2> QED BY <1>4, <1>6, <2>1
  <1> HIDE DEF from1970, to1969, up, down, before, l, L, K, a, m, u, y, Y
  <1>8. Y = 1164 + (IF a = 0 THEN L ELSE K) /\ y = year + 4800 - a
    BY <1>5 DEF Y
  <1>9. l \in Int
    BY DEF l
  <1> QED BY <1>1, <1>2, <1>3, <1>6, <1>7, <1>8, <1>9, Epoch, SMT

\* Every date from 4800 BC on has the number and the day of the week that the
\* calendar gives it, and is what its number is turned into (Date).
THEOREM DatesAreTheCalendars ==
    \A y \in Int, m \in 1..12 : y >= -4799 => \A d \in 1..daysIn(y, m) : DateAgrees(y, m, d)
  <1> SUFFICES ASSUME NEW y \in Int, NEW m \in 1..12, y >= -4799, NEW d \in 1..daysIn(y, m)
               PROVE  DateAgrees(y, m, d)
    OBVIOUS
  <1> DEFINE j == getJulianDayNumber(y, m, d)
             n == dayNumber(y, m, d)
  <1>1. daysIn(y, m) \in {28, 29, 30, 31}
    BY DEF daysIn
  <1>2. d \in Int
    BY <1>1
  <1>3. n \in Int /\ j = n + kJulianDayOf1970_01_01
    BY ONLY <1>2, m \in 1..12, y \in Int, DayIsNumbered, Zenon
  <1>4. getYearMonthDay(j) = [year |-> y, month |-> m, day |-> d]
    BY DateOfJulian
  <1> HIDE DEF j, n
  <1>5. j - kJulianDayOf1970_01_01 = n
    BY <1>3, Epoch, SMT
  <1>6. weekDay(j) = (n + 4) % 7
    BY <1>3, Epoch, SMT DEF weekDay
  <1> QED BY <1>4, <1>5, <1>6 DEF DateAgrees, j, n

\* A time since 4800 BC comes back from the UTC it is turned into (toUtcTime, fromUtcTime).
THEOREM UtcTimesReturn ==
    \A s \in Int : s >= -2472632 * 86400 => fromUtcTime(toUtcTime(s)) = s
  <1> SUFFICES ASSUME NEW s \in Int, s >= -2472632 * 86400
               PROVE  fromUtcTime(toUtcTime(s)) = s
    BY SMT
  <1> DEFINE left == crem(s, kSecondsPerDay)
             seconds == IF left < 0 THEN left + kSecondsPerDay ELSE left
             days == cdiv(s, kSecondsPerDay) - (IF left < 0 THEN 1 ELSE 0)
             date == days + kJulianDayOf1970_01_01
             ymd == getYearMonthDay(date)
             hms == fillHMS(seconds)
             tm == toUtcTime(s)
  <1>1. kSecondsPerDay = 86400
    BY SMT DEF kSecondsPerDay
  <1>2. days \in Int /\ seconds \in Int /\ 0 <= seconds /\ seconds <= 86399 /\ s = days * 86400 + seconds
    <2> DEFINE q == cdiv(s, kSecondsPerDay)
    <2>1. q \in Int /\ IF s >= 0 THEN q * 86400 <= s /\ s < q * 86400 + 86400
                                 ELSE s <= q * 86400 /\ q * 86400 - 86400 < s
      BY <1>1, SMT DEF cdiv
    <2>2. left = s - 86400 * q
      BY <1>1, SMT DEF crem
    <2>3. days = q - (IF left < 0 THEN 1 ELSE 0)
      BY SMT
    <2>4. seconds = IF left < 0 THEN left + 86400 ELSE left
      BY <1>1, SMT
    <2> HIDE DEF q, left, days, seconds
    <2>5. left \in Int /\ -86400 < left /\ left < 86400
      BY <2>1, <2>2, SMT
    <2>6. CASE left < 0
      <3>1. days = q - 1 /\ seconds = left + 86400
        BY <2>3, <2>4, <2>6, SMT
      <3> QED BY <2>1, <2>2, <2>5, <2>6, <3>1, SMT
    <2>7. CASE ~(left < 0)
      <3>1. days = q /\ seconds = left
        BY <2>1, <2>3, <2>4, <2>7, SMT
      <3> QED BY <2>1, <2>2, <2>5, <2>7, <3>1, SMT
    <2> QED BY <2>6, <2>7, SMT
  <1> HIDE DEF seconds, days, left
  <1>3. date \in Int /\ date >= -32044 /\ date = days + 2440588
    BY <1>2, Epoch, SMT
  <1> HIDE DEF date
  <1>4. getJulianDayNumber(ymd.year, ymd.month, ymd.day) = date
    BY <1>3, JulianOfDate, SMT
  <1>5. /\ tm.year = ymd.year /\ tm.mon = ymd.month /\ tm.mday = ymd.day
        /\ tm.hour = hms.hour /\ tm.min = hms.min /\ tm.sec = hms.sec
    BY SMT DEF toUtcTime, date, days, seconds, left
  <1>6. /\ hms.hour \in Int /\ hms.min \in Int /\ hms.sec \in Int
        /\ hms.hour * 3600 + hms.min * 60 + hms.sec = seconds
    BY <1>2, SMT DEF fillHMS
  <1> HIDE DEF ymd, hms, tm
  <1>7. fromUtcTime(tm) =
            (date - kJulianDayOf1970_01_01) * kSecondsPerDay + tm.hour * 3600 + tm.min * 60 + tm.sec
    BY <1>4, <1>5, SMT DEF fromUtcTime
  <1> QED BY <1>1, <1>2, <1>3, <1>5, <1>6, <1>7, Epoch, SMT DEF tm
=============================================================================
