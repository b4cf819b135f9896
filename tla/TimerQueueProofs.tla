--------------------------- MODULE TimerQueueProofs ---------------------------
(***************************************************************************)
(* Proofs about TimerQueue, for any addresses, bounds and Faults.  The     *)
(* invariant adds to the properties when a batch is under way and which    *)
(* sequence numbers have been given out.                                   *)
(***************************************************************************)
EXTENDS TimerQueue, TLAPS, WellFoundedInduction

\* The batch, and its poll() timestamp, belong to one call of handleRead.
BatchShape ==
    /\ m_callingExpiredTimers => timestamp # 0
    /\ expired # {} => m_callingExpiredTimers

\* A sequence number that has not been given out has not been cancelled.
NumbersGiven == \A id \in given : id[2] \in 1..s_numCreated

IInv ==
    /\ TypeOK /\ ListsAgree /\ (stopped = "assert" => aliased)
    /\ BatchShape /\ NumbersGiven /\ CancelledIsGone

-----------------------------------------------------------------------------
(* Consequences of ListsAgree.                                             *)

\* An entry of a list is determined by its address.
LEMMA OneEntryEach ==
    ASSUME TypeOK, ListsAgree,
           NEW x \in m_timerList \cup expired, NEW y \in m_timerList \cup expired,
           x[2] = y[2]
    PROVE  x = y
  BY DEF TypeOK, ListsAgree, LiveAt

\* A TimerId in the list of ids is that of the entry at its address.
LEMMA IdHasEntry ==
    ASSUME TypeOK, ListsAgree, NEW id \in m_timerIdList
    PROVE  /\ id[1] \in Addrs /\ id = idOf(id[1]) /\ heap[id[1]].seq # 0
           /\ <<heap[id[1]].expiration, id[1]>> \in m_timerList
  <1>1. PICK x \in m_timerList : id = idOf(x[2])
    BY DEF ListsAgree
  <1>2. x = <<x[1], x[2]>> /\ x[2] \in Addrs /\ LiveAt(x)
    BY DEF TypeOK, ListsAgree
  <1>3. id[1] = x[2]
    BY <1>1 DEF idOf
  <1> QED BY <1>1, <1>2, <1>3 DEF LiveAt

\* Posted tasks keep their Timers, if no address of theirs is touched or listed.
LEMMA PlacesKept ==
    ASSUME ListsAgree, aliased => aliased',
           \A id \in pending' : ~aliased /\ ~aliased' =>
               /\ id \in pending /\ heap'[id[1]] = heap[id[1]]
               /\ \A x \in m_timerList' \cup expired' : x[2] # id[1]
    PROVE  ~aliased' => InOnePlace'
  BY DEF ListsAgree, InOnePlace, idOf

\* Ids of Timers at different addresses differ.
LEMMA IdsDiffer ==
    ASSUME NEW a, NEW b, idOf(a) = idOf(b) PROVE a = b
  BY DEF idOf

-----------------------------------------------------------------------------
THEOREM InitIInv == Init => IInv
  <1> SUFFICES ASSUME Init PROVE IInv
    OBVIOUS
  <1>1. heap \in [Addrs -> Timers]
    BY DEF Init, none, Timers
  <1>2. TypeOK
    BY <1>1 DEF Init, TypeOK
  <1> QED
    BY <1>2
    DEF Init, IInv, ListsAgree, InOnePlace, LiveAt, BatchShape, NumbersGiven, CancelledIsGone, idOf

-----------------------------------------------------------------------------
(* Adding.                                                                 *)

\* What runAt, runAfter and runEvery pass on.
LEMMA RequestType ==
    ASSUME TypeOK, NEW r \in requests
    PROVE  r.when \in Nat /\ r.interval \in Nat
  BY TimerQueueAssumption DEF requests, runAt, runAfter, runEvery, TypeOK

\* A new Timer has an address and an id that nothing else has.
LEMMA NewTimerIsNew ==
    ASSUME IInv, NEW a \in Addrs, NEW r \in requests, newTimer(a, r)
    PROVE  /\ heap' \in [Addrs -> Timers] /\ s_numCreated' \in Nat
           /\ \A b \in Addrs \ {a} : heap'[b] = heap[b]
           /\ heap'[a].seq = s_numCreated + 1 /\ heap'[a].expiration = r.when
           /\ given' \subseteq Ids /\ NumbersGiven'
           /\ <<a, s_numCreated + 1>> \notin cancelled
           /\ ~aliased => \A id \in pending : id[1] # a
           /\ \A x \in m_timerList \cup expired : x[2] # a
           /\ \A id \in m_timerIdList : id[1] # a
  <1> USE DEF IInv
  <1>1. r.when \in Nat /\ r.interval \in Nat /\ s_numCreated \in Nat /\ heap[a].seq = 0
    BY RequestType DEF newTimer, TypeOK
  <1>2. heap' \in [Addrs -> Timers]
    <2>1. [seq |-> s_numCreated + 1, expiration |-> r.when, interval |-> r.interval] \in Timers
      BY <1>1 DEF Timers
    <2> QED BY <2>1 DEF newTimer, TypeOK
  <1>3. /\ \A b \in Addrs \ {a} : heap'[b] = heap[b]
        /\ heap'[a].seq = s_numCreated + 1 /\ heap'[a].expiration = r.when
    BY DEF newTimer, TypeOK
  <1>4. given' \subseteq Ids /\ NumbersGiven' /\ <<a, s_numCreated + 1>> \notin cancelled
    <2>1. given' = given \cup {<<a, s_numCreated + 1>>} /\ s_numCreated' = s_numCreated + 1
      BY DEF newTimer
    <2>2. \A id \in given : id[2] \in 1..s_numCreated
      BY DEF NumbersGiven
    <2> QED BY <1>1, <2>1, <2>2 DEF TypeOK, NumbersGiven, Ids
  <1>5. \A x \in m_timerList \cup expired : x[2] # a
    BY <1>1 DEF ListsAgree, LiveAt
  <1>7. ~aliased => \A id \in pending : id[1] # a
    <2> SUFFICES ASSUME ~aliased, NEW id \in pending, id[1] = a PROVE FALSE
      OBVIOUS
    <2>1. id = <<a, 0>>
      BY <1>1 DEF ListsAgree, InOnePlace, idOf
    <2>2. id[2] # 0
      BY DEF ListsAgree, InOnePlace
    <2> QED BY <2>1, <2>2
  <1>6. \A id \in m_timerIdList : id[1] # a
    BY <1>1, IdHasEntry
  <1> QED BY <1>1, <1>2, <1>3, <1>4, <1>5, <1>6, <1>7 DEF newTimer

\* Entering a Timer of its own address into both lists keeps them in agreement.
LEMMA AddKeepsLists ==
    ASSUME IInv, TypeOK', NEW a \in Addrs, NEW expire \in Nat,
           m_timerList' = m_timerList \cup {<<expire, a>>},
           m_timerIdList' = m_timerIdList \cup {idOf(a)'},
           heap'[a].seq # 0, heap'[a].expiration = expire,
           \A b \in Addrs \ {a} : heap'[b] = heap[b],
           \A x \in m_timerList \cup expired : x[2] # a,
           expired' = expired, ~aliased' => InOnePlace'
    PROVE  ListsAgree'
  <1> USE DEF IInv
  <1>1. \A x \in m_timerList \cup expired : x[2] \in Addrs \ {a} /\ idOf(x[2])' = idOf(x[2])
    BY DEF TypeOK, idOf
  <1>2. \A x \in m_timerList' \cup expired' : LiveAt(x)'
    BY <1>1 DEF ListsAgree, LiveAt
  <1>3. m_timerIdList' = {idOf(x[2])' : x \in m_timerList'}
    <2>1. m_timerIdList = {idOf(x[2]) : x \in m_timerList}
      BY DEF ListsAgree
    <2>2. {idOf(x[2])' : x \in m_timerList} = {idOf(x[2]) : x \in m_timerList}
      BY <1>1
    <2>3. {idOf(x[2])' : x \in m_timerList'}
            = {idOf(x[2])' : x \in m_timerList} \cup {idOf(a)'}
      <3>1. idOf(<<expire, a>>[2])' = idOf(a)'
        BY DEF idOf
      <3> QED BY <3>1
    <2> QED BY <2>1, <2>2, <2>3
  <1>4. m_timerList' \cap expired' = {}
    BY DEF ListsAgree
  <1> QED BY <1>2, <1>3, <1>4 DEF ListsAgree

\* resetTimerfd arms for a time, or not at all.
LEMMA ResetType ==
    ASSUME TypeOK, NEW when \in Nat PROVE resetTimerfd(when) \in Nat
  BY DEF TypeOK, resetTimerfd, howMuchTimeFromNow

LEMMA AddTimerStep ==
    ASSUME IInv, NEW a \in Addrs, NEW r \in requests, AddTimer(a, r)
    PROVE  IInv'
  <1> DEFINE id == <<a, s_numCreated + 1>>
  <1>1. newTimer(a, r) /\ inClientCode /\ UNCHANGED <<clock, timestamp, batchVars, cancelled, aliased, pending>>
    BY DEF AddTimer
  <1>2. /\ heap' \in [Addrs -> Timers] /\ s_numCreated' \in Nat
        /\ \A b \in Addrs \ {a} : heap'[b] = heap[b]
        /\ heap'[a].seq = s_numCreated + 1 /\ heap'[a].expiration = r.when
        /\ given' \subseteq Ids /\ NumbersGiven'
        /\ id \notin cancelled /\ (~aliased => \A i \in pending : i[1] # a)
        /\ \A x \in m_timerList \cup expired : x[2] # a
        /\ \A i \in m_timerIdList : i[1] # a
    BY <1>1, NewTimerIsNew
  <1>3. r.when \in Nat /\ s_numCreated \in Nat
    BY RequestType DEF IInv, TypeOK
  <1>4. insertAsserts(r.when, id)
    BY <1>2 DEF insertAsserts
  <1>5. addTimerInLoop(r.when, id)
    BY <1>4 DEF AddTimer
  <1>6. TypeOK'
    <2>1. armed' \in Nat
      BY <1>3, <1>5, ResetType DEF IInv, TypeOK, addTimerInLoop
    <2>2. m_timerList' \subseteq Nat \X Addrs /\ m_timerIdList' \subseteq Ids
      BY <1>3, <1>5 DEF IInv, TypeOK, addTimerInLoop, Ids
    <2>3. cancelled' \subseteq given'
      BY <1>1 DEF newTimer, IInv, TypeOK
    <2> QED BY <1>1, <1>2, <1>5, <2>1, <2>2, <2>3 DEF IInv, TypeOK, batchVars, addTimerInLoop
  <1>7. idOf(a)' = id
    BY <1>2 DEF idOf
  <1>8. ListsAgree'
    <2>1. m_timerList' = m_timerList \cup {<<r.when, a>>} /\ m_timerIdList' = m_timerIdList \cup {id}
      BY <1>5 DEF addTimerInLoop
    <2>2. expired' = expired
      BY <1>1 DEF batchVars
    <2>4. ~aliased' => InOnePlace'
      <3>1. \A i \in pending' : ~aliased /\ ~aliased' =>
                /\ i \in pending /\ heap'[i[1]] = heap[i[1]]
                /\ \A x \in m_timerList' \cup expired' : x[2] # i[1]
        <4> SUFFICES ASSUME NEW i \in pending, ~aliased
                     PROVE  /\ heap'[i[1]] = heap[i[1]]
                            /\ \A x \in m_timerList' \cup expired' : x[2] # i[1]
          BY <1>1
        <4>1. i[1] \in Addrs \ {a} /\ \A x \in m_timerList \cup expired : x[2] # i[1]
          BY <1>2 DEF IInv, TypeOK, ListsAgree, InOnePlace, Ids
        <4>2. <<r.when, a>>[2] # i[1]
          BY <4>1
        <4> QED BY <1>2, <2>1, <2>2, <4>1, <4>2
      <3> QED BY <1>1, <3>1, PlacesKept DEF IInv
    <2>3. heap'[a].seq # 0
      BY <1>2, <1>3
    <2> QED BY <1>2, <1>3, <1>6, <1>7, <2>1, <2>2, <2>3, <2>4, AddKeepsLists
  <1>9. CancelledIsGone'
    <2> SUFFICES ASSUME NEW b \in Addrs, idOf(b)' \in cancelled'
                 PROVE  (m_callingExpiredTimers /\ idOf(b) \in m_cancelingTimers
                            /\ \E x \in expired : x[2] = b)'
      BY DEF CancelledIsGone
    <2>1. b # a /\ idOf(b)' = idOf(b)
      BY <1>1, <1>2, <1>7 DEF idOf
    <2> QED BY <1>1, <2>1 DEF IInv, CancelledIsGone, batchVars
  <1> QED
    BY <1>1, <1>2, <1>5, <1>6, <1>8, <1>9 DEF IInv, BatchShape, batchVars, addTimerInLoop

LEMMA AddTimerMtStep ==
    ASSUME IInv, NEW a \in Addrs, NEW r \in requests, AddTimerMt(a, r)
    PROVE  IInv'
  <1>1. /\ newTimer(a, r) /\ pending' = pending \cup {<<a, s_numCreated + 1>>}
        /\ UNCHANGED <<clock, armed, timestamp, m_timerList, m_timerIdList, batchVars,
                       cancelled, aliased, stopped>>
    BY DEF AddTimerMt
  <1>2. /\ heap' \in [Addrs -> Timers] /\ s_numCreated' \in Nat
        /\ \A b \in Addrs \ {a} : heap'[b] = heap[b]
        /\ heap'[a].seq = s_numCreated + 1
        /\ given' \subseteq Ids /\ NumbersGiven'
        /\ <<a, s_numCreated + 1>> \notin cancelled
        /\ ~aliased => \A id \in pending : id[1] # a
        /\ \A x \in m_timerList \cup expired : x[2] # a
    BY <1>1, NewTimerIsNew
  <1>3. TypeOK'
    <2>1. cancelled' \subseteq given'
      BY <1>1 DEF newTimer, IInv, TypeOK
    <2>2. pending' \subseteq Ids
      BY <1>1 DEF IInv, TypeOK, Ids
    <2> QED BY <1>1, <1>2, <2>1, <2>2 DEF IInv, TypeOK, batchVars
  <1>4. ListsAgree'
    <2>1. \A x \in m_timerList \cup expired :
              x[2] \in Addrs \ {a} /\ idOf(x[2])' = idOf(x[2]) /\ LiveAt(x)'
      BY <1>1, <1>2 DEF IInv, TypeOK, ListsAgree, LiveAt, idOf
    <2>2. {idOf(x[2])' : x \in m_timerList} = {idOf(x[2]) : x \in m_timerList}
      BY <2>1
    <2>3. ~aliased' => InOnePlace'
      <3> SUFFICES ASSUME ~aliased, NEW id \in pending'
                   PROVE  /\ id = idOf(id[1])' /\ id[2] # 0
                          /\ \A x \in m_timerList' \cup expired' : x[2] # id[1]
        BY <1>1 DEF InOnePlace
      <3>1. CASE id = <<a, s_numCreated + 1>>
        <4>1. s_numCreated + 1 # 0
          BY DEF IInv, TypeOK
        <4> QED BY <1>1, <1>2, <3>1, <4>1 DEF idOf, batchVars
      <3>2. CASE id \in pending
        <4>1. id[1] \in Addrs \ {a} /\ heap'[id[1]] = heap[id[1]]
          BY <1>2, <3>2 DEF IInv, TypeOK, Ids
        <4>2. /\ id = idOf(id[1]) /\ id[2] # 0
              /\ \A x \in m_timerList \cup expired : x[2] # id[1]
          BY <3>2 DEF IInv, ListsAgree, InOnePlace
        <4>3. idOf(id[1])' = idOf(id[1])
          BY <4>1 DEF idOf
        <4> QED BY <1>1, <4>2, <4>3 DEF batchVars
      <3> QED BY <1>1, <3>1, <3>2
    <2> QED BY <1>1, <2>1, <2>2, <2>3 DEF IInv, ListsAgree, batchVars
  <1>5. CancelledIsGone'
    <2> SUFFICES ASSUME NEW b \in Addrs, idOf(b)' \in cancelled'
                 PROVE  (m_callingExpiredTimers /\ idOf(b) \in m_cancelingTimers
                            /\ \E x \in expired : x[2] = b)'
      BY DEF CancelledIsGone
    <2>1. b # a /\ idOf(b)' = idOf(b)
      BY <1>1, <1>2 DEF idOf
    <2> QED BY <1>1, <2>1 DEF IInv, CancelledIsGone, batchVars
  <1> QED BY <1>1, <1>2, <1>3, <1>4, <1>5 DEF IInv, BatchShape, batchVars

LEMMA RunTaskStep ==
    ASSUME IInv, NEW id \in pending, RunTask(id), stopped' # "junkTimer"
    PROVE  IInv'
  <1> USE DEF IInv
  <1>1. PICK a \in finds(id) :
            /\ heap[a].seq # 0
            /\ stopped = "no" /\ timestamp = 0
            /\ pending' = pending \ {id} /\ aliased' = (aliased \/ idOf(a) # id)
            /\ IF insertAsserts(heap[a].expiration, idOf(a))
               THEN addTimerInLoop(heap[a].expiration, idOf(a))
               ELSE stopped' = "assert" /\ UNCHANGED <<m_timerList, m_timerIdList, armed>>
            /\ UNCHANGED <<clock, timestamp, heap, batchVars, s_numCreated, given, cancelled>>
    BY DEF RunTask, stop
  <1>2. a \in Addrs /\ expired = {} /\ expired' = expired
    BY <1>1 DEF finds, TypeOK, Ids, BatchShape, batchVars
  <1>3. heap[a].seq \in Nat \ {0} /\ heap[a].expiration \in Nat
    BY <1>1, <1>2 DEF TypeOK, Timers
  <1>4. CASE insertAsserts(heap[a].expiration, idOf(a))
    <2>1. addTimerInLoop(heap[a].expiration, idOf(a))
      BY <1>1, <1>4
    <2>2. \A x \in m_timerList \cup expired : x[2] # a
      BY <1>2, <1>4 DEF insertAsserts, ListsAgree
    <2>3. TypeOK'
      <3>1. armed' \in Nat
        BY <1>3, <2>1, ResetType DEF TypeOK, addTimerInLoop
      <3>2. m_timerList' \subseteq Nat \X Addrs /\ m_timerIdList' \subseteq Ids
        BY <1>2, <1>3, <2>1 DEF TypeOK, addTimerInLoop, Ids, idOf
      <3> QED BY <1>1, <2>1, <3>1, <3>2 DEF TypeOK, batchVars, addTimerInLoop
    <2>4. ListsAgree'
      <3>1. /\ m_timerList' = m_timerList \cup {<<heap[a].expiration, a>>}
            /\ m_timerIdList' = m_timerIdList \cup {idOf(a)'}
        BY <1>1, <2>1 DEF addTimerInLoop, idOf
      <3>2. ~aliased' => InOnePlace'
        <4> SUFFICES ASSUME NEW i \in pending', ~aliased, ~aliased'
                     PROVE  \A x \in m_timerList' \cup expired' : x[2] # i[1]
          BY <1>1, PlacesKept
        <4>1. idOf(a) = id /\ i # id /\ i = idOf(i[1]) /\ i \in pending
          BY <1>1 DEF ListsAgree, InOnePlace
        <4>2. i[1] # a
          BY <4>1
        <4>3. \A x \in m_timerList \cup expired : x[2] # i[1]
          BY <4>1 DEF ListsAgree, InOnePlace
        <4>4. <<heap[a].expiration, a>>[2] # i[1]
          BY <4>2
        <4> QED BY <1>2, <3>1, <4>3, <4>4
      <3> QED BY <1>1, <1>2, <1>3, <2>2, <2>3, <3>1, <3>2, AddKeepsLists
    <2> QED
      BY <1>1, <2>1, <2>3, <2>4
      DEF BatchShape, NumbersGiven, CancelledIsGone, batchVars, addTimerInLoop, idOf
  <1>5. CASE ~insertAsserts(heap[a].expiration, idOf(a))
    <2>1. stopped' = "assert" /\ UNCHANGED <<m_timerList, m_timerIdList, armed>>
      BY <1>1, <1>5
    <2>2. aliased'
      <3> SUFFICES ASSUME ~aliased, idOf(a) = id PROVE FALSE
        BY <1>1
      <3>1. a = id[1] /\ \A x \in m_timerList : x[2] # a
        BY DEF ListsAgree, InOnePlace, idOf
      <3>2. \A x \in m_timerList : idOf(x[2]) # id
        BY <3>1, IdsDiffer
      <3>3. <<heap[a].expiration, a>>[2] = a
        OBVIOUS
      <3> QED BY <1>5, <3>1, <3>2, <3>3 DEF insertAsserts, ListsAgree, idOf
    <2>3. TypeOK' /\ ListsAgree'
      BY <1>1, <2>1, <2>2 DEF TypeOK, ListsAgree, LiveAt, batchVars, idOf
    <2> QED
      BY <1>1, <2>1, <2>2, <2>3 DEF BatchShape, NumbersGiven, CancelledIsGone, batchVars, idOf
  <1> QED BY <1>4, <1>5

-----------------------------------------------------------------------------
(* Cancelling.                                                             *)

\* Taking a Timer out of both lists, or cancelling one of the batch.
LEMMA CancelStep ==
    ASSUME IInv, NEW id \in given, CancelInLoop(id)
    PROVE  IInv'
  <1> USE DEF IInv
  <1>1. /\ cancelled' = IF id \in m_timerIdList \/ inBatch(id)
                        THEN cancelled \cup {id} ELSE cancelled
        /\ UNCHANGED <<clock, armed, timestamp, m_callingExpiredTimers, expired, toRun,
                       s_numCreated, given, aliased, pending, stopped>>
    BY DEF CancelInLoop
  <1>2. id \in Ids /\ id = <<id[1], id[2]>> /\ id[1] \in Addrs /\ id[2] # 0
    BY DEF TypeOK, Ids, NumbersGiven
  <1>3. CASE id \in m_timerIdList
    <2>1. /\ m_timerList' = m_timerList \ {<<heap[id[1]].expiration, id[1]>>}
          /\ m_timerIdList' = m_timerIdList \ {id}
          /\ heap' = [heap EXCEPT ![id[1]] = none]
          /\ UNCHANGED m_cancelingTimers
      BY <1>3 DEF CancelInLoop, eraseTimer
    <2>2. /\ id = idOf(id[1])
          /\ <<heap[id[1]].expiration, id[1]>> \in m_timerList
      BY <1>3, IdHasEntry
    <2> DEFINE e == <<heap[id[1]].expiration, id[1]>>
    <2>3. \A x \in (m_timerList \cup expired) \ {e} : x[2] \in Addrs \ {id[1]}
      <3>1. \A x \in m_timerList \cup expired : x[2] = id[1] => x = e
        BY <2>2, OneEntryEach
      <3> QED BY <3>1 DEF TypeOK
    <2>4. e \notin expired
      BY <2>2 DEF ListsAgree
    <2>5. \A b \in Addrs \ {id[1]} : heap'[b] = heap[b] /\ idOf(b)' = idOf(b)
      BY <2>1 DEF TypeOK, idOf
    <2>6. heap'[id[1]] = none /\ heap' \in [Addrs -> Timers]
      BY <1>2, <2>1 DEF TypeOK, none, Timers
    <2>7. TypeOK'
      BY <1>1, <2>1, <2>6 DEF TypeOK
    <2>8. ListsAgree'
      <3>1. \A x \in m_timerList' \cup expired' : x[2] \in Addrs \ {id[1]}
        BY <1>1, <2>1, <2>3, <2>4
      <3>2. \A x \in m_timerList' \cup expired' : LiveAt(x)'
        BY <1>1, <2>1, <2>5, <3>1 DEF ListsAgree, LiveAt
      <3>3. m_timerIdList' = {idOf(x[2])' : x \in m_timerList'}
        <4>1. {idOf(x[2])' : x \in m_timerList'} = {idOf(x[2]) : x \in m_timerList'}
          BY <2>5, <3>1
        <4>2. \A x \in m_timerList' : idOf(x[2]) # id
          BY <1>2, <3>1 DEF idOf
        <4>3. m_timerIdList = {idOf(x[2]) : x \in m_timerList' \cup {e}}
          BY <2>1, <2>2 DEF ListsAgree
        <4>4. idOf(e[2]) = id
          BY <2>2
        <4> QED BY <2>1, <4>1, <4>2, <4>3, <4>4
      <3>4. ~aliased' => InOnePlace'
        <4> SUFFICES ASSUME NEW i \in pending', ~aliased
                     PROVE  /\ i \in pending /\ heap'[i[1]] = heap[i[1]]
                            /\ \A x \in m_timerList' \cup expired' : x[2] # i[1]
          BY <1>1, PlacesKept
        <4>1. i \in pending /\ i[1] \in Addrs
          BY <1>1 DEF TypeOK, Ids
        <4>2. \A x \in m_timerList \cup expired : x[2] # i[1]
          BY <4>1 DEF ListsAgree, InOnePlace
        <4>3. i[1] # id[1]
          BY <2>2, <4>2
        <4> QED BY <1>1, <2>1, <2>5, <4>1, <4>2, <4>3
      <3>5. m_timerList' \cap expired' = {}
        BY <1>1, <2>1 DEF ListsAgree
      <3> QED BY <3>2, <3>3, <3>4, <3>5 DEF ListsAgree
    <2>9. CancelledIsGone'
      <3> SUFFICES ASSUME NEW b \in Addrs, idOf(b)' \in cancelled'
                   PROVE  (m_callingExpiredTimers /\ idOf(b) \in m_cancelingTimers
                              /\ \E x \in expired : x[2] = b)'
        BY DEF CancelledIsGone
      <3>1. b # id[1]
        <4>1. idOf(id[1])' = <<id[1], 0>>
          BY <2>6 DEF idOf, none
        <4>2. \A i \in cancelled' : i[2] # 0
          BY <1>1, <1>2 DEF TypeOK, NumbersGiven
        <4>3. <<id[1], 0>>[2] = 0
          OBVIOUS
        <4> QED BY <4>1, <4>2, <4>3
      <3>2. idOf(b)' = idOf(b) /\ idOf(b) # id
        BY <1>2, <2>5, <3>1 DEF idOf
      <3> QED BY <1>1, <2>1, <3>2 DEF CancelledIsGone
    <2> QED BY <1>1, <2>7, <2>8, <2>9 DEF BatchShape, NumbersGiven
  <1>4. CASE id \notin m_timerIdList
    <2>1. /\ m_cancelingTimers' = IF m_callingExpiredTimers
                                  THEN m_cancelingTimers \cup {id} ELSE m_cancelingTimers
          /\ UNCHANGED queueVars
      BY <1>4 DEF CancelInLoop
    <2>2. TypeOK' /\ ListsAgree' /\ BatchShape' /\ NumbersGiven'
      BY <1>1, <2>1 DEF TypeOK, ListsAgree, InOnePlace, LiveAt, BatchShape, NumbersGiven, queueVars, idOf
    <2>3. CancelledIsGone'
      <3> SUFFICES ASSUME NEW b \in Addrs, idOf(b) \in cancelled'
                   PROVE  m_callingExpiredTimers /\ idOf(b) \in m_cancelingTimers'
                              /\ \E x \in expired : x[2] = b
        BY <1>1, <2>1 DEF CancelledIsGone, queueVars, idOf
      <3>1. CASE idOf(b) \in cancelled
        BY <2>1, <3>1 DEF CancelledIsGone
      <3>2. CASE idOf(b) \notin cancelled
        <4>1. idOf(b) = id /\ inBatch(id)
          BY <1>1, <1>4, <3>2
        <4>2. PICK x \in expired : idOf(x[2]) = id
          BY <4>1 DEF inBatch
        <4>3. x[2] = b
          BY <4>1, <4>2, IdsDiffer
        <4> QED BY <2>1, <4>1, <4>2, <4>3 DEF BatchShape
      <3> QED BY <3>1, <3>2
    <2> QED BY <1>1, <2>2, <2>3
  <1> QED BY <1>3, <1>4

-----------------------------------------------------------------------------
(* Expiry.                                                                 *)

\* handleRead takes whole entries out of both lists: its asserts hold.
LEMMA BeginStep ==
    ASSUME IInv, BeginHandleRead, stopped' # "expiresNow"
    PROVE  IInv'
  <1> USE DEF IInv
  <1>1. getExpiredAsserts
    BY DEF getExpiredAsserts, getExpired, ListsAgree
  <1>2. /\ ~m_callingExpiredTimers /\ timestamp # 0
        /\ readTimerfd
        /\ m_timerList' = m_timerList \ getExpired
        /\ m_timerIdList' = m_timerIdList \ {idOf(x[2]) : x \in getExpired}
        /\ expired' = getExpired /\ toRun' = getExpired
        /\ m_callingExpiredTimers' = TRUE /\ m_cancelingTimers' = {}
        /\ UNCHANGED <<clock, timestamp, heap, clientVars, stopped>>
    BY <1>1 DEF BeginHandleRead, stop
  <1>3. getExpired \subseteq m_timerList
    BY DEF getExpired
  <1>4. TypeOK'
    BY <1>2, <1>3 DEF TypeOK, readTimerfd, clientVars
  <1>5. ListsAgree'
    <2>1. \A x \in m_timerList, y \in getExpired : idOf(x[2]) = idOf(y[2]) => x = y
      BY <1>3, OneEntryEach, IdsDiffer
    <2>2. m_timerIdList' = {idOf(x[2]) : x \in m_timerList'}
      BY <1>2, <1>3, <2>1 DEF ListsAgree
    <2>3. ~aliased' => InOnePlace'
      <3>1. m_timerList' \cup expired' \subseteq m_timerList
        BY <1>2, <1>3
      <3> QED BY <1>2, <3>1 DEF ListsAgree, InOnePlace, clientVars, idOf
    <2> QED BY <1>2, <1>3, <2>2, <2>3 DEF ListsAgree, LiveAt, clientVars, idOf
  <1>6. \A a \in Addrs : idOf(a) \notin cancelled
    BY <1>2 DEF CancelledIsGone
  <1> QED
    BY <1>2, <1>4, <1>5, <1>6 DEF BatchShape, NumbersGiven, CancelledIsGone, clientVars, idOf

\* The asserts of reset() hold: what is restarted is in neither list.
LEMMA ResetAssertsHold ==
    ASSUME IInv PROVE resetAsserts
  <1> USE DEF IInv
  <1> SUFFICES ASSUME NEW x \in expired
               PROVE  /\ idOf(x[2]) \notin m_timerIdList
                      /\ <<next(x[2]), x[2]>> \notin m_timerList
    BY DEF resetAsserts, again
  <1>1. \A y \in m_timerList : y[2] # x[2]
    BY OneEntryEach DEF ListsAgree
  <1>2. <<next(x[2]), x[2]>>[2] = x[2]
    OBVIOUS
  <1>3. \A y \in m_timerList : idOf(y[2]) # idOf(x[2])
    BY <1>1, IdsDiffer
  <1> QED BY <1>1, <1>2, <1>3 DEF ListsAgree

LEMMA EndStep ==
    ASSUME IInv, EndHandleRead
    PROVE  IInv'
  <1> USE DEF IInv
  <1>1. /\ m_callingExpiredTimers
        /\ heap' = [a \in Addrs |->
                    IF a \in again THEN [heap[a] EXCEPT !.expiration = next(a)]
                    ELSE IF \E x \in expired : x[2] = a THEN none ELSE heap[a]]
        /\ m_timerIdList' = m_timerIdList \cup {idOf(a) : a \in again}
        /\ m_timerList' = m_timerList \cup {<<next(a), a>> : a \in again}
        /\ rearm(m_timerList')
        /\ m_callingExpiredTimers' = FALSE
        /\ timestamp' = 0 /\ expired' = {}
        /\ toRun = {}
        /\ UNCHANGED <<clock, toRun, m_cancelingTimers, clientVars, stopped>>
    BY ResetAssertsHold DEF EndHandleRead
  <1>2. \A a \in again : a \in Addrs /\ (\E x \in expired : x[2] = a) /\ next(a) \in Nat
    BY DEF again, next, TypeOK, Timers
  <1>3. \A a \in again : idOf(a) \notin m_cancelingTimers
    BY DEF again, restarts
  <1>4. \A a \in again : heap'[a].seq = heap[a].seq /\ heap'[a].expiration = next(a) /\ heap'[a] \in Timers
    <2> SUFFICES ASSUME NEW a \in again
                 PROVE  heap'[a].seq = heap[a].seq /\ heap'[a].expiration = next(a) /\ heap'[a] \in Timers
      OBVIOUS
    <2>1. heap'[a] = [heap[a] EXCEPT !.expiration = next(a)] /\ heap[a] \in Timers
      BY <1>1, <1>2 DEF TypeOK
    <2> QED BY <1>2, <2>1 DEF Timers
  <1>5. \A a \in Addrs : (\A x \in expired : x[2] # a) => heap'[a] = heap[a] /\ idOf(a)' = idOf(a)
    BY <1>1, <1>2 DEF idOf
  <1>6. \A a \in Addrs : a \notin again /\ (\E x \in expired : x[2] = a) => heap'[a] = none
    BY <1>1
  <1>7. TypeOK'
    <2>1. heap' \in [Addrs -> Timers]
      <3>1. \A a \in Addrs : heap'[a] \in Timers
        BY <1>4, <1>5, <1>6 DEF TypeOK, none, Timers
      <3> QED BY <1>1, <3>1
    <2>2. m_timerList' \subseteq Nat \X Addrs
      BY <1>1, <1>2 DEF TypeOK
    <2>3. m_timerIdList' \subseteq Ids
      BY <1>1, <1>2 DEF TypeOK, Ids, idOf, Timers
    <2>4. armed' \in Nat
      <3>1. armed' = armed \/ \E x \in m_timerList' : armed' = resetTimerfd(x[1])
        BY <1>1 DEF rearm
      <3> QED BY <2>2, <3>1, ResetType DEF TypeOK
    <2> QED BY <1>1, <2>1, <2>2, <2>3, <2>4 DEF TypeOK, clientVars
  <1>8. ListsAgree'
    <2>1. \A x \in m_timerList, y \in expired : x[2] # y[2]
      BY OneEntryEach DEF ListsAgree
    <2>2. \A x \in m_timerList : x[2] \in Addrs /\ heap'[x[2]] = heap[x[2]] /\ idOf(x[2])' = idOf(x[2])
      BY <1>5, <2>1 DEF TypeOK
    <2>3. \A a \in again : heap[a].seq # 0 /\ idOf(a)' = idOf(a)
      BY <1>2, <1>4 DEF ListsAgree, LiveAt, idOf
    <2>4. \A x \in m_timerList' : LiveAt(x)'
      <3>1. \A x \in m_timerList : LiveAt(x)'
        BY <2>2 DEF ListsAgree, LiveAt
      <3>2. \A x \in {<<next(a), a>> : a \in again} : LiveAt(x)'
        <4> SUFFICES ASSUME NEW x \in {<<next(a), a>> : a \in again} PROVE LiveAt(x)'
          OBVIOUS
        <4>1. x[2] \in again /\ x[1] = next(x[2])
          OBVIOUS
        <4> QED BY <1>4, <2>3, <4>1 DEF LiveAt
      <3> QED BY <1>1, <3>1, <3>2
    <2>5. m_timerIdList' = {idOf(x[2])' : x \in m_timerList'}
      <3>1. {idOf(x[2])' : x \in m_timerList} = m_timerIdList
        BY <2>2 DEF ListsAgree
      <3>2. {idOf(x[2])' : x \in {<<next(a), a>> : a \in again}} = {idOf(a) : a \in again}
        <4>1. \A x \in {<<next(a), a>> : a \in again} : x[2] \in again /\ idOf(x[2])' = idOf(x[2])
          BY <2>3 DEF idOf
        <4>2. \A a \in again : \E x \in {<<next(b), b>> : b \in again} : x[2] = a
          <5> SUFFICES ASSUME NEW a \in again
                       PROVE  \E x \in {<<next(b), b>> : b \in again} : x[2] = a
            OBVIOUS
          <5> WITNESS <<next(a), a>> \in {<<next(b), b>> : b \in again}
          <5> QED OBVIOUS
        <4> QED BY <4>1, <4>2
      <3> QED BY <1>1, <3>1, <3>2
    <2>6. ~aliased' => InOnePlace'
      <3> SUFFICES ASSUME NEW i \in pending, ~aliased
                   PROVE  /\ heap'[i[1]] = heap[i[1]]
                          /\ \A x \in m_timerList' \cup expired' : x[2] # i[1]
        BY <1>1, PlacesKept DEF clientVars
      <3>1. i[1] \in Addrs /\ \A x \in m_timerList \cup expired : x[2] # i[1]
        BY DEF ListsAgree, InOnePlace, TypeOK, Ids
      <3>2. i[1] \notin again
        BY <1>2, <3>1
      <3>3. \A x \in {<<next(a), a>> : a \in again} : x[2] # i[1]
        BY <3>2
      <3> QED BY <1>1, <1>5, <3>1, <3>3
    <2>7. m_timerList' \cap expired' = {}
      BY <1>1
    <2> QED BY <1>1, <2>4, <2>5, <2>6, <2>7 DEF ListsAgree
  <1>9. \A a \in Addrs : idOf(a)' \notin cancelled'
    <2> SUFFICES ASSUME NEW a \in Addrs, idOf(a)' \in cancelled PROVE FALSE
      BY <1>1 DEF clientVars
    <2>1. \A i \in cancelled : i[2] # 0
      BY DEF TypeOK, NumbersGiven
    <2>2. heap'[a].seq # 0
      BY <2>1 DEF idOf
    <2>3. idOf(a)' = idOf(a)
      BY <1>4, <1>5, <1>6, <2>2 DEF idOf, none
    <2>4. idOf(a) \in m_cancelingTimers /\ \E x \in expired : x[2] = a
      BY <2>3 DEF CancelledIsGone
    <2> QED BY <1>3, <1>6, <2>2, <2>4 DEF none
  <1> QED
    BY <1>1, <1>7, <1>8, <1>9 DEF BatchShape, NumbersGiven, CancelledIsGone, clientVars

\* Deleting the Timers of the list leaves nothing dangling.
LEMMA DestroyStep ==
    ASSUME IInv, Destroy
    PROVE  IInv'
  <1> USE DEF IInv
  <1>1. expired = {} /\ ~m_callingExpiredTimers
    BY DEF Destroy, BatchShape
  <1>2. \A a \in Addrs : heap'[a] = heap[a] \/ heap'[a] = none
    BY DEF Destroy
  <1>3. ~aliased' => InOnePlace'
    <2> SUFFICES ASSUME NEW i \in pending, ~aliased
                 PROVE  /\ heap'[i[1]] = heap[i[1]]
                        /\ \A x \in m_timerList' \cup expired' : x[2] # i[1]
      BY PlacesKept DEF Destroy, clientVars
    <2>1. i[1] \in Addrs /\ \A x \in m_timerList : x[2] # i[1]
      BY DEF ListsAgree, InOnePlace, TypeOK, Ids
    <2> QED BY <1>1, <2>1 DEF Destroy, batchVars
  <1>4. heap' \in [Addrs -> Timers]
    <2>1. \A a \in Addrs : heap'[a] \in Timers
      BY <1>2 DEF TypeOK, none, Timers
    <2> QED BY <2>1 DEF Destroy
  <1>5. \A a \in Addrs : idOf(a)' \notin cancelled
    <2> SUFFICES ASSUME NEW a \in Addrs PROVE idOf(a)' \notin cancelled
      OBVIOUS
    <2>1. CASE heap'[a] = heap[a]
      BY <1>1, <2>1 DEF CancelledIsGone, idOf
    <2>2. CASE heap'[a] = none
      <3>1. idOf(a)' = <<a, 0>> /\ <<a, 0>>[2] = 0
        BY <2>2 DEF idOf, none
      <3> QED BY <3>1 DEF TypeOK, NumbersGiven
    <2> QED BY <1>2, <2>1, <2>2
  <1>6. TypeOK' /\ ListsAgree'
    BY <1>1, <1>3, <1>4 DEF Destroy, TypeOK, ListsAgree, batchVars, clientVars
  <1> QED
    BY <1>1, <1>5, <1>6 DEF Destroy, BatchShape, NumbersGiven, CancelledIsGone, batchVars, clientVars

-----------------------------------------------------------------------------
(* The invariant and its theorems.                                         *)

\* Steps that touch neither the lists nor the Timers.
LEMMA OtherStep ==
    ASSUME IInv,
           UNCHANGED <<heap, m_timerList, m_timerIdList, m_cancelingTimers,
                       m_callingExpiredTimers, expired, clientVars, armed>>,
           clock' \in Nat, timestamp' \in Nat, timestamp # 0 => timestamp' # 0,
           toRun' \subseteq expired, stopped' \in {"no", "expiresNow", "junkTimer"}
    PROVE  IInv'
  <1>1. TypeOK'
    BY DEF IInv, TypeOK, clientVars
  <1>2. ListsAgree' /\ CancelledIsGone'
    BY DEF IInv, ListsAgree, InOnePlace, LiveAt, CancelledIsGone, clientVars, idOf
  <1> QED BY <1>1, <1>2 DEF IInv, BatchShape, NumbersGiven, clientVars

\* Every step preserves the invariant.
LEMMA StepIInv == IInv /\ [Next]_vars => IInv'
  <1> SUFFICES ASSUME IInv, [Next]_vars PROVE IInv'
    OBVIOUS
  <1>1. ASSUME NEW a \in Addrs, NEW r \in requests, AddTimer(a, r) \/ AddTimerMt(a, r)
        PROVE  IInv'
    BY <1>1, AddTimerStep, AddTimerMtStep
  <1>2. ASSUME stopped' \in {"expiresNow", "junkTimer"},
               UNCHANGED <<clock, armed, timestamp, queueVars, batchVars, clientVars>>
        PROVE  IInv'
    BY <1>2, OtherStep DEF IInv, TypeOK, queueVars, batchVars
  <1>3. ASSUME NEW id \in pending, RunTask(id) PROVE IInv'
    <2>1. CASE stopped' = "junkTimer"
      <3>1. stopped # "junkTimer"
        BY <1>3 DEF RunTask
      <3>2. UNCHANGED <<clock, armed, timestamp, queueVars, batchVars, clientVars>>
        BY <1>3, <2>1, <3>1 DEF RunTask, stop, addTimerInLoop
      <3> QED BY <1>2, <2>1, <3>2
    <2> QED BY <1>3, <2>1, RunTaskStep
  <1>4. ASSUME NEW id \in given, CancelInLoop(id) PROVE IInv'
    BY <1>4, CancelStep
  <1>5. CASE PollReturns
    BY <1>5, OtherStep DEF PollReturns, IInv, TypeOK, queueVars, batchVars
  <1>6. CASE BeginHandleRead
    <2>1. CASE stopped' = "expiresNow"
      <3>1. UNCHANGED <<clock, armed, timestamp, queueVars, batchVars, clientVars>>
        BY <1>6, <2>1 DEF BeginHandleRead, stop
      <3> QED BY <1>2, <2>1, <3>1
    <2> QED BY <1>6, <2>1, BeginStep
  <1>7. CASE EndHandleRead
    BY <1>7, EndStep
  <1>8. CASE Destroy
    BY <1>8, DestroyStep
  <1>9. CASE Tick
    BY <1>9, OtherStep DEF Tick, IInv, TypeOK, queueVars, batchVars
  <1>10. ASSUME NEW x \in toRun, RunCallback(x) PROVE IInv'
    BY <1>10, OtherStep DEF RunCallback, IInv, TypeOK, queueVars
  <1>11. CASE UNCHANGED vars
    BY <1>11 DEF vars, queueVars, batchVars, clientVars, IInv, TypeOK, ListsAgree, InOnePlace,
                 LiveAt, BatchShape, NumbersGiven, CancelledIsGone, idOf
  <1> QED
    BY <1>1, <1>3, <1>4, <1>5, <1>6, <1>7, <1>8, <1>9, <1>10, <1>11 DEF Next

\* IInv holds in every reachable state, whatever clients add and cancel, and
\* whichever addresses are used again.
THEOREM Invariance == Spec => []IInv
  BY InitIInv, StepIInv, PTL DEF Spec

\* The two lists agree and every pointer in them leads to a live Timer; no assert
\* but the one on the present time fails before a task has found another Timer
\* than its own (Consistent).
THEOREM ListsStayConsistent == Spec => []Consistent
  <1>1. IInv => Consistent BY DEF IInv, Consistent
  <1> QED BY <1>1, Invariance, PTL

\* A cancelled timer never comes back, even one that cancelled itself
\* (CancelledIsGone).
THEOREM CancelledStaysGone == Spec => []CancelledIsGone
  <1>1. IInv => CancelledIsGone BY DEF IInv
  <1> QED BY <1>1, Invariance, PTL

-----------------------------------------------------------------------------
(* The timerfd.                                                            *)

\* What EarliestIsArmed needs while callbacks run: a timer for the time 0,
\* which reset() would not look at, has been armed for when it was added.
Watched ==
    (stopped = "no" /\ "settime" \notin Faults) =>
        /\ timestamp = 0 =>
            \A x \in m_timerList : armed # 0 /\ (armed <= x[1] \/ armed <= clock + 1)
        /\ m_callingExpiredTimers =>
            \A x \in m_timerList : x[1] = 0 => armed # 0 /\ armed <= clock + 1

\* Every set of numbers but the empty one has a least member.
LEMMA LeastMember ==
    ASSUME NEW T, T \subseteq Nat, T # {}
    PROVE  \E x \in T : \A y \in T : x <= y
  <1> DEFINE R == OpToRel(<, Nat)
  <1>1. IsWellFoundedOn(R, Nat)
    BY NatLessThanWellFounded
  <1>2. \A u, v \in Nat : u < v => <<u, v>> \in R
    BY DEF OpToRel
  <1> HIDE DEF R
  <1>3. \E x \in T : \A y \in T : ~ (<<y, x>> \in R)
    BY <1>1, WFMin
  <1>4. PICK x \in T : \A y \in T : ~ (<<y, x>> \in R)
    BY <1>3
  <1>5. \A y \in T : x <= y
    <2> TAKE y \in T
    <2>1. x \in Nat /\ y \in Nat /\ ~(y < x)
      BY <1>2, <1>4
    <2> QED BY <2>1
  <1> QED BY <1>5

\* A list that is not empty has a first entry: begin() is an entry.
LEMMA FirstEntry ==
    ASSUME NEW L, L \subseteq Nat \X Addrs, L # {}
    PROVE  \E x \in L : isFirst(x, L)
  <1>1. \A x \in L : x[1] \in Nat /\ x[2] \in Nat /\ x = <<x[1], x[2]>>
    <2>1. \A x \in Nat \X Addrs : x[1] \in Nat /\ x[2] \in Addrs /\ x = <<x[1], x[2]>>
      OBVIOUS
    <2>2. Addrs \subseteq Nat
      BY TimerQueueAssumption
    <2> QED BY <2>1, <2>2
  <1> DEFINE Times == {x[1] : x \in L}
  <1>2. Times \subseteq Nat /\ Times # {}
    BY <1>1
  <1>3. PICK t \in Times : \A u \in Times : t <= u
    <2> HIDE DEF Times
    <2> QED BY <1>2, LeastMember
  <1> DEFINE Places == {a \in Nat : <<t, a>> \in L}
  <1>4. Places \subseteq Nat /\ Places # {}
    <2>1. PICK x \in L : x[1] = t
      BY <1>3
    <2>2. x = <<t, x[2]>> /\ x[2] \in Nat
      BY <1>1, <2>1
    <2> QED BY <2>2
  <1>5. PICK a \in Places : \A b \in Places : a <= b
    <2> HIDE DEF Places
    <2> QED BY <1>4, LeastMember
  <1>6. <<t, a>> \in L /\ t \in Nat /\ a \in Nat
    BY <1>2, <1>3, <1>5
  <1>7. isFirst(<<t, a>>, L)
    <2> SUFFICES ASSUME NEW y \in L \ {<<t, a>>} PROVE before(<<t, a>>, y)
      BY <1>6 DEF isFirst
    <2>1. t <= y[1] /\ y[1] \in Nat /\ y[2] \in Nat /\ y = <<y[1], y[2]>>
      BY <1>1, <1>3
    <2>2. CASE y[1] = t
      <3>1. y[2] \in Places /\ y[2] # a
        BY <2>1, <2>2
      <3>2. a <= y[2]
        BY <1>5, <3>1
      <3> QED BY <1>6, <2>1, <2>2, <3>1, <3>2 DEF before
    <2>3. CASE y[1] # t
      BY <1>6, <2>1, <2>3 DEF before
    <2> QED BY <2>2, <2>3
  <1> QED BY <1>6, <1>7

\* As meant, resetTimerfd arms for the time given, or for the shortest delay.
LEMMA ResetArms ==
    ASSUME "settime" \notin Faults, clock \in Nat, NEW when \in Nat
    PROVE  /\ resetTimerfd(when) \in Nat /\ resetTimerfd(when) # 0
           /\ resetTimerfd(when) <= when \/ resetTimerfd(when) <= clock + 1
  BY DEF resetTimerfd, howMuchTimeFromNow

LEMMA AddWatches ==
    ASSUME TypeOK, Watched, NEW expire \in Nat, NEW id \in Ids, addTimerInLoop(expire, id),
           UNCHANGED <<clock, timestamp, m_callingExpiredTimers>>
    PROVE  Watched'
  <1> SUFFICES ASSUME stopped = "no", "settime" \notin Faults
               PROVE  /\ timestamp = 0 =>
                          \A x \in m_timerList' : armed' # 0 /\ (armed' <= x[1] \/ armed' <= clock + 1)
                      /\ m_callingExpiredTimers =>
                          \A x \in m_timerList' : x[1] = 0 => armed' # 0 /\ armed' <= clock + 1
    BY DEF Watched, addTimerInLoop
  <1>1. \A x \in m_timerList : x[1] \in Nat
    BY DEF TypeOK
  <1>2. clock \in Nat /\ armed \in Nat
    BY DEF TypeOK
  <1>3. m_timerList' = m_timerList \cup {<<expire, id[1]>>} /\ <<expire, id[1]>>[1] = expire
    BY DEF addTimerInLoop
  <1>4. CASE earliestExpire(expire)
    <2>1. armed' = resetTimerfd(expire) /\ \A x \in m_timerList : expire < x[1]
      BY <1>4 DEF addTimerInLoop, earliestExpire
    <2>2. armed' \in Nat /\ armed' # 0 /\ (armed' <= expire \/ armed' <= clock + 1)
      BY <1>2, <2>1, ResetArms
    <2> QED BY <1>1, <1>2, <1>3, <2>1, <2>2
  <1>5. CASE ~earliestExpire(expire)
    <2>1. PICK y \in m_timerList : ~(expire < y[1])
      BY <1>5 DEF earliestExpire
    <2>2. y[1] \in Nat /\ y[1] <= expire
      BY <1>1, <2>1
    <2>3. armed' = armed
      BY <1>5 DEF addTimerInLoop
    <2> QED BY <1>1, <1>2, <1>3, <2>2, <2>3 DEF Watched
  <1> QED BY <1>4, <1>5

\* Every step preserves Watched.
LEMMA StepWatched == IInv /\ IInv' /\ Watched /\ [Next]_vars => Watched'
  <1> SUFFICES ASSUME IInv, IInv', Watched, [Next]_vars PROVE Watched'
    OBVIOUS
  <1>0. TypeOK
    BY DEF IInv
  <1>1. ASSUME NEW a \in Addrs, NEW r \in requests, AddTimer(a, r) PROVE Watched'
    <2>1. CASE stopped' # "no"
      BY <2>1 DEF Watched
    <2>2. CASE stopped' = "no"
      <3>1. addTimerInLoop(r.when, <<a, s_numCreated + 1>>)
        BY <1>1, <2>2 DEF AddTimer
      <3>2. r.when \in Nat /\ <<a, s_numCreated + 1>> \in Ids
        BY <1>0, RequestType DEF TypeOK, Ids
      <3>3. UNCHANGED <<clock, timestamp, m_callingExpiredTimers>>
        BY <1>1 DEF AddTimer, batchVars
      <3> QED BY <1>0, <3>1, <3>2, <3>3, AddWatches
    <2> QED BY <2>1, <2>2
  <1>2. ASSUME NEW id \in pending, RunTask(id) PROVE Watched'
    <2>1. CASE stopped' # "no"
      BY <2>1 DEF Watched
    <2>2. CASE stopped' = "no"
      <3>1. PICK a \in finds(id) : addTimerInLoop(heap[a].expiration, idOf(a))
        BY <1>2, <2>2 DEF RunTask, stop
      <3>2. a \in Addrs /\ heap[a] \in Timers
        BY <1>0 DEF TypeOK, finds, Ids
      <3>3. heap[a].expiration \in Nat /\ idOf(a) \in Ids
        BY <3>2 DEF Timers, Ids, idOf
      <3>4. UNCHANGED <<clock, timestamp, m_callingExpiredTimers>>
        BY <1>2 DEF RunTask, stop, batchVars
      <3> QED BY <1>0, <3>1, <3>3, <3>4, AddWatches
    <2> QED BY <2>1, <2>2
  <1>3. ASSUME NEW id \in given, CancelInLoop(id) PROVE Watched'
    <2>1. m_timerList' \subseteq m_timerList
      BY <1>3 DEF CancelInLoop, eraseTimer, queueVars
    <2> QED BY <1>3, <2>1 DEF CancelInLoop, Watched
  <1>4. CASE BeginHandleRead
    <2>1. CASE stopped' # "no"
      BY <2>1 DEF Watched
    <2>2. CASE stopped' = "no"
      <3>1. m_timerList' = m_timerList \ getExpired /\ timestamp' = timestamp /\ timestamp # 0
        BY <1>4, <2>2 DEF BeginHandleRead, stop
      <3>2. \A x \in m_timerList' : x[1] # 0
        <4>1. timestamp \in Nat /\ \A x \in m_timerList : x[1] \in Nat
          BY <1>0 DEF TypeOK
        <4>2. \A x \in m_timerList' : x \in m_timerList /\ ~(x[1] < timestamp)
          BY <3>1 DEF getExpired
        <4> QED BY <3>1, <4>1, <4>2
      <3> QED BY <3>1, <3>2 DEF Watched
    <2> QED BY <2>1, <2>2
  <1>5. CASE EndHandleRead
    <2> SUFFICES ASSUME stopped' = "no", "settime" \notin Faults,
                        NEW x \in m_timerList'
                 PROVE  armed' # 0 /\ (armed' <= x[1] \/ armed' <= clock + 1)
      BY <1>5 DEF EndHandleRead, stop, Watched
    <2>1. /\ m_callingExpiredTimers /\ stopped = "no"
          /\ m_timerList' = m_timerList \cup {<<next(a), a>> : a \in again}
          /\ rearm(m_timerList') /\ clock' = clock
      BY <1>5, ResetAssertsHold DEF EndHandleRead
    <2>2. m_timerList' \subseteq Nat \X Addrs
      BY DEF IInv, TypeOK
    <2>3. PICK f \in m_timerList' : isFirst(f, m_timerList')
      BY <2>2, FirstEntry
    <2>4. \A g \in m_timerList' : isFirst(g, m_timerList') => g = f
      <3> SUFFICES ASSUME NEW g \in m_timerList', isFirst(g, m_timerList'), g # f PROVE FALSE
        OBVIOUS
      <3>1. before(f, g) /\ before(g, f)
        BY <2>3 DEF isFirst
      <3>2. f[1] \in Nat /\ f[2] \in Nat /\ g[1] \in Nat /\ g[2] \in Nat
        BY <2>2, TimerQueueAssumption
      <3> QED BY <3>1, <3>2 DEF before
    <2>5. f[1] \in Nat /\ x[1] \in Nat /\ f[1] <= x[1] /\ clock \in Nat /\ armed \in Nat
      <3>1. f[1] \in Nat /\ x[1] \in Nat
        BY <2>2
      <3>2. x = f \/ before(f, x)
        BY <2>3 DEF isFirst
      <3> QED BY <1>0, <3>1, <3>2 DEF before, TypeOK
    <2>6. CASE f[1] > 0
      <3>1. armed' = resetTimerfd((CHOOSE y \in m_timerList' : isFirst(y, m_timerList'))[1])
        BY <2>1, <2>3, <2>6 DEF rearm
      <3>2. (CHOOSE y \in m_timerList' : isFirst(y, m_timerList')) = f
        BY <2>3, <2>4
      <3>3. armed' = resetTimerfd(f[1])
        BY <3>1, <3>2
      <3>4. armed' \in Nat /\ armed' # 0 /\ (armed' <= f[1] \/ armed' <= clock + 1)
        BY <2>5, <3>3, ResetArms
      <3> QED BY <2>5, <3>4
    <2>7. CASE ~(f[1] > 0)
      <3>1. armed' = armed
        BY <2>1, <2>3, <2>4, <2>7 DEF rearm
      <3>2. f[1] = 0
        BY <2>5, <2>7
      <3>3. f \in m_timerList
        <4> SUFFICES ASSUME f \in {<<next(a), a>> : a \in again} PROVE FALSE
          BY <2>1
        <4>1. PICK a \in again : f = <<next(a), a>>
          OBVIOUS
        <4>2. heap[a] \in Timers /\ heap[a].interval > 0 /\ timestamp \in Nat
          BY <1>0 DEF again, restarts, getRepeat, TypeOK
        <4>3. next(a) > 0 /\ f[1] = next(a)
          BY <4>1, <4>2 DEF next, Timers
        <4> QED BY <3>2, <4>3
      <3>4. armed # 0 /\ armed <= clock + 1
        BY <2>1, <3>2, <3>3 DEF Watched
      <3> QED BY <3>1, <3>4
    <2> QED BY <2>6, <2>7
  <1>6. CASE Tick
    <2>1. clock \in Nat /\ clock' = clock + 1 /\ armed \in Nat
      BY <1>0, <1>6 DEF Tick, TypeOK
    <2>2. UNCHANGED <<armed, timestamp, m_timerList, m_callingExpiredTimers, stopped>>
      BY <1>6 DEF Tick, queueVars, batchVars
    <2> QED BY <2>1, <2>2 DEF Watched
  <1>7. ASSUME PollReturns \/ Destroy \/ UNCHANGED vars
               \/ (\E x \in toRun : RunCallback(x))
               \/ (\E a \in Addrs, r \in requests : AddTimerMt(a, r))
        PROVE  Watched'
    <2>1. CASE PollReturns
      <3>1. timestamp' # 0
        BY <1>0, <2>1 DEF PollReturns, readable, TypeOK
      <3> QED BY <2>1, <3>1 DEF PollReturns, Watched, queueVars, batchVars
    <2>2. CASE Destroy
      BY <2>2 DEF Destroy, Watched
    <2>3. CASE UNCHANGED vars
      BY <2>3 DEF vars, queueVars, batchVars, Watched
    <2>4. CASE \E x \in toRun : RunCallback(x)
      BY <2>4 DEF RunCallback, Watched, queueVars
    <2>5. CASE \E a \in Addrs, r \in requests : AddTimerMt(a, r)
      BY <2>5 DEF AddTimerMt, Watched, batchVars
    <2> QED BY <1>7, <2>1, <2>2, <2>3, <2>4, <2>5
  <1> QED
    BY <1>1, <1>2, <1>3, <1>4, <1>5, <1>6, <1>7 DEF Next

\* Line 81 is all that stands in the way: where resetTimerfd passes the time it
\* computed, the timerfd watches the earliest timer (EarliestIsArmed).
THEOREM EarliestStaysArmed ==
    ASSUME "settime" \notin Faults
    PROVE  Spec => []EarliestIsArmed
  <1>1. Init => Watched
    BY DEF Init, Watched
  <1>2. Watched => EarliestIsArmed
    BY DEF Watched, EarliestIsArmed
  <1> QED BY <1>1, <1>2, StepWatched, Invariance, PTL DEF Spec

\* As written (line 81 passes zero) the timerfd is never armed, so that poll()
\* never reports it, handleRead never runs and no timer's callback is called.
NeverFires == armed = 0 /\ timestamp = 0 /\ toRun = {}

THEOREM NoTimerFires ==
    ASSUME "settime" \in Faults
    PROVE  Spec => []NeverFires
  <1>1. Init => NeverFires
    BY DEF Init, NeverFires
  <1>2. NeverFires /\ [Next]_vars => NeverFires'
    <2> SUFFICES ASSUME NeverFires, [Next]_vars PROVE NeverFires'
      OBVIOUS
    <2> USE DEF NeverFires
    <2>1. \A when : resetTimerfd(when) = 0
      BY DEF resetTimerfd
    <2>2. \A expire, id : addTimerInLoop(expire, id) => armed' = 0
      BY <2>1 DEF addTimerInLoop
    <2>3. ASSUME NEW a \in Addrs, NEW r \in requests, AddTimer(a, r) \/ AddTimerMt(a, r)
          PROVE  NeverFires'
      BY <2>2, <2>3 DEF AddTimer, AddTimerMt, batchVars
    <2>4. ASSUME NEW id \in pending, RunTask(id) PROVE NeverFires'
      BY <2>2, <2>4 DEF RunTask, stop, batchVars
    <2>5. ASSUME NEW id \in given, CancelInLoop(id) PROVE NeverFires'
      BY <2>5 DEF CancelInLoop
    <2>6. CASE PollReturns \/ BeginHandleRead
      BY <2>6 DEF PollReturns, readable, BeginHandleRead
    <2>7. CASE EndHandleRead
      BY <2>1, <2>7 DEF EndHandleRead, rearm, stop, batchVars
    <2>8. CASE Destroy \/ Tick \/ UNCHANGED vars
      BY <2>8 DEF Destroy, Tick, vars, batchVars
    <2>9. ASSUME NEW x \in toRun, RunCallback(x) PROVE NeverFires'
      BY <2>9
    <2> QED BY <2>3, <2>4, <2>5, <2>6, <2>7, <2>8, <2>9 DEF Next
  <1> QED BY <1>1, <1>2, PTL DEF Spec
=============================================================================
