----------------------------- MODULE PollerProofs -----------------------------
(***************************************************************************)
(* The two pollers, for every set of descriptors and every habit of        *)
(* clients.  PollPoller: the slots and the channels stay in bijection, and *)
(* PollPoller implements Poller; for clients whose first operation asks    *)
(* for something, poll(2) watches exactly the interested channels.         *)
(* EpollPoller: the kernel's list agrees with the channels, nothing        *)
(* aborts, and EpollPoller implements Poller.                              *)
(***************************************************************************)
EXTENDS PollPoller, EpollPoller, SequenceTheorems, TLAPS

\* A Channel's operations stay within the two events.
LEMMA ChannelOpsType ==
    ASSUME NEW old \in SUBSET Event, NEW e \in P!channelOps(old)
    PROVE  e \in SUBSET Event
  BY DEF P!channelOps, Event

LEMMA EpollChannelOpsType ==
    ASSUME NEW old \in SUBSET Event, NEW e \in E!channelOps(old)
    PROVE  e \in SUBSET Event
  BY DEF E!channelOps, Event

-----------------------------------------------------------------------------
(* PollPoller.                                                             *)

Slot == [fd : Int, events : SUBSET Event]

\* A channel of the map has the slot its index names.
HasSlot(c) ==
    /\ m_index[c] \in 0 .. Len(m_pollFdList) - 1
    /\ slot(c).fd \in {c, ignored(c), -1}
    /\ slot(c).events = m_events[c]

IInv == TypeOK /\ SlotsInBijection

\* A step that moves slots moves each with its channel, c's apart.
KeepsOthers(c) ==
    \A d \in m_channelMap' \ {c} :
        d \in m_channelMap /\ slot(d)' = slot(d) /\ m_events'[d] = m_events[d]

\* The invariant holds of the empty poller.
LEMMA InitIInv == Init => IInv
  <1> SUFFICES ASSUME Init PROVE IInv
    OBVIOUS
  <1>1. m_pollFdList \in Seq(Slot) /\ Len(m_pollFdList) = 0
    BY DEF Init, NoChannels
  <1>2. DOMAIN m_pollFdList = {}
    BY <1>1
  <1> QED BY <1>1, <1>2 DEF Init, NoChannels, IInv, TypeOK, SlotsInBijection, Slot, Event

\* The invariant, spelled out over 1 .. Len(m_pollFdList).
LEMMA Facts ==
    ASSUME IInv
    PROVE  /\ m_pollFdList \in Seq(Slot) /\ Len(m_pollFdList) \in Nat
           /\ DOMAIN m_pollFdList = 1 .. Len(m_pollFdList)
           /\ m_channelMap \subseteq Fds /\ Fds \subseteq Nat \ {0}
           /\ \A c \in m_channelMap : HasSlot(c)
           /\ \A c, d \in m_channelMap : m_index[c] = m_index[d] => c = d
           /\ \A i \in 1 .. Len(m_pollFdList) : \E c \in m_channelMap : m_index[c] = i - 1
  <1>1. m_pollFdList \in Seq(Slot)
    BY DEF IInv, TypeOK, Slot
  <1>2. DOMAIN m_pollFdList = 1 .. Len(m_pollFdList) /\ Len(m_pollFdList) \in Nat
    BY <1>1
  <1>3. m_channelMap \subseteq Fds /\ Fds \subseteq Nat \ {0}
    BY PollPollerAssumption DEF IInv, TypeOK
  <1>4. /\ \A c \in m_channelMap : HasSlot(c)
        /\ \A c, d \in m_channelMap : m_index[c] = m_index[d] => c = d
    BY DEF IInv, SlotsInBijection, HasSlot
  <1>5. \A i \in DOMAIN m_pollFdList : \E c \in m_channelMap : m_index[c] = i - 1
    BY DEF IInv, SlotsInBijection
  <1> QED BY <1>1, <1>2, <1>3, <1>4, <1>5

\* updateChannel of a new channel appends a slot.
LEMMA AddStep ==
    ASSUME IInv, NEW c \in Fds, NEW e \in SUBSET Event, AddSlot(c, e)
    PROVE  /\ IInv' /\ KeepsOthers(c)
           /\ slot(c)'.fd = IF e = {} THEN -1 ELSE c
  <1> USE PollPollerAssumption
  <1> DEFINE n == Len(m_pollFdList)
             new == [fd |-> IF e = {} THEN -1 ELSE c, events |-> e]
  <1>1. n \in Nat /\ m_pollFdList \in Seq(Slot)
    BY DEF IInv, TypeOK, Slot
  <1>2. new \in Slot
    BY DEF Slot
  <1>3. m_pollFdList' = Append(m_pollFdList, new)
    BY DEF AddSlot
  <1>4. /\ m_pollFdList' \in Seq(Slot) /\ Len(m_pollFdList') = n + 1
        /\ DOMAIN m_pollFdList' = 1 .. n + 1
        /\ \A i \in 1 .. n : m_pollFdList'[i] = m_pollFdList[i]
        /\ m_pollFdList'[n + 1] = new
    BY <1>1, <1>2, <1>3
  <1>5. /\ m_channelMap' = m_channelMap \cup {c} /\ c \notin m_channelMap
        /\ m_index'[c] = n /\ m_events'[c] = e
        /\ \A d \in Fds \ {c} : m_index'[d] = m_index[d] /\ m_events'[d] = m_events[d]
        /\ m_index' \in [Fds -> Int] /\ m_events' \in [Fds -> SUBSET Event]
    BY <1>1 DEF AddSlot, IInv, TypeOK
  <1>6. TypeOK'
    <2>1. m_index' \in [Fds -> Int]
      BY <1>1, <1>5
    <2>2. m_channelMap' \in SUBSET Fds /\ UNCHANGED <<alive, activeChannels>>
      BY <1>5 DEF AddSlot, IInv, TypeOK
    <2> QED BY <1>4, <1>5, <2>1, <2>2 DEF IInv, TypeOK, Slot
  <1>7. \A d \in m_channelMap' : HasSlot(d)'
    <2>1. HasSlot(c)'
      BY <1>1, <1>4, <1>5 DEF HasSlot, slot, ignored
    <2>2. ASSUME NEW d \in m_channelMap PROVE HasSlot(d)'
      <3>1. d \in Fds \ {c}
        BY <1>5 DEF IInv, TypeOK
      <3>2. m_index[d] \in 0 .. n - 1 /\ m_index[d] + 1 \in 1 .. n
        BY <1>1 DEF IInv, SlotsInBijection
      <3> QED BY <1>1, <1>4, <1>5, <3>1, <3>2 DEF HasSlot, slot, ignored, IInv, SlotsInBijection
    <2> QED BY <1>5, <2>1, <2>2
  <1>8. \A a, b \in m_channelMap' : m_index'[a] = m_index'[b] => a = b
    <2>1. \A d \in m_channelMap : d # c /\ m_index'[d] = m_index[d] /\ m_index[d] \in 0 .. n - 1
      BY <1>5 DEF IInv, TypeOK, SlotsInBijection
    <2>2. \A a, b \in m_channelMap : m_index[a] = m_index[b] => a = b
      BY DEF IInv, SlotsInBijection
    <2> QED BY <1>1, <1>5, <2>1, <2>2
  <1>9. \A i \in DOMAIN m_pollFdList' : \E d \in m_channelMap' : m_index'[d] = i - 1
    <2>1. ASSUME NEW i \in 1 .. n PROVE \E d \in m_channelMap' : m_index'[d] = i - 1
      <3>1. PICK d \in m_channelMap : m_index[d] = i - 1
        BY Facts
      <3> QED BY <1>5, <3>1 DEF IInv, TypeOK
    <2> QED BY <1>1, <1>4, <1>5, <2>1
  <1>11. KeepsOthers(c)
    <2> SUFFICES ASSUME NEW d \in m_channelMap
                 PROVE  slot(d)' = slot(d) /\ m_events'[d] = m_events[d]
      BY <1>5 DEF KeepsOthers
    <2>1. d \in Fds \ {c} /\ m_index[d] + 1 \in 1 .. n
      BY <1>1, <1>5, Facts DEF HasSlot
    <2> QED BY <1>4, <1>5, <2>1 DEF slot
  <1>12. slot(c)'.fd = IF e = {} THEN -1 ELSE c
    BY <1>4, <1>5 DEF slot
  <1> QED BY <1>6, <1>7, <1>8, <1>9, <1>11, <1>12 DEF IInv, SlotsInBijection, HasSlot

\* updateChannel of a known channel changes its own slot only.
LEMMA ModifyStep ==
    ASSUME IInv, NEW c \in Fds, NEW e \in SUBSET Event, ModifySlot(c, e)
    PROVE  /\ IInv' /\ KeepsOthers(c)
           /\ slot(c)'.fd = IF e = {} THEN ignored(c) ELSE slot(c).fd
  <1> USE PollPollerAssumption
  <1> DEFINE n == Len(m_pollFdList)
             k == m_index[c] + 1
             new == [fd |-> IF e = {} THEN ignored(c) ELSE slot(c).fd, events |-> e]
  <1>1. n \in Nat /\ m_pollFdList \in Seq(Slot) /\ k \in 1 .. n /\ c \in m_channelMap
    BY DEF IInv, TypeOK, Slot, ModifySlot
  <1>2. new \in Slot /\ new.fd \in {c, ignored(c), -1} /\ new.events = e
    BY <1>1 DEF Slot, slot, ignored, ModifySlot
  <1>3. m_pollFdList' = [m_pollFdList EXCEPT ![k] = new]
    BY DEF ModifySlot, slot
  <1>4. /\ m_pollFdList' \in Seq(Slot) /\ Len(m_pollFdList') = n
        /\ DOMAIN m_pollFdList' = DOMAIN m_pollFdList
        /\ \A i \in 1 .. n : i # k => m_pollFdList'[i] = m_pollFdList[i]
        /\ m_pollFdList'[k] = new
    BY <1>1, <1>2, <1>3
  <1>5. /\ m_channelMap' = m_channelMap /\ m_index' = m_index /\ m_events'[c] = e
        /\ \A d \in Fds \ {c} : m_events'[d] = m_events[d]
        /\ m_events' \in [Fds -> SUBSET Event]
    BY DEF ModifySlot, IInv, TypeOK
  <1>6. TypeOK'
    BY <1>4, <1>5 DEF ModifySlot, IInv, TypeOK, Slot
  <1>7. \A d \in m_channelMap' : HasSlot(d)'
    <2>1. HasSlot(c)'
      BY <1>1, <1>2, <1>4, <1>5 DEF HasSlot, slot, IInv, SlotsInBijection
    <2>2. ASSUME NEW d \in m_channelMap \ {c} PROVE HasSlot(d)'
      <3>1. HasSlot(d) /\ d \in Fds \ {c} /\ m_index[d] # m_index[c]
        BY <1>1, Facts
      <3>2. m_index[d] + 1 \in 1 .. n /\ m_index[d] + 1 # k
        <4>1. m_index[d] \in 0 .. n - 1
          BY <3>1 DEF HasSlot
        <4>2. m_index[c] \in Int
          BY DEF IInv, TypeOK
        <4> QED BY <1>1, <3>1, <4>1, <4>2
      <3>3. m_pollFdList'[m_index[d] + 1] = m_pollFdList[m_index[d] + 1]
        BY <1>4, <3>2
      <3> QED BY <1>4, <1>5, <3>1, <3>3 DEF HasSlot, slot, ignored
    <2> QED BY <1>5, <2>1, <2>2
  <1>8. KeepsOthers(c)
    <2> SUFFICES ASSUME NEW d \in m_channelMap \ {c}
                 PROVE  slot(d)' = slot(d) /\ m_events'[d] = m_events[d]
      BY <1>5 DEF KeepsOthers
    <2>1. d \in Fds \ {c} /\ m_index[d] \in 0 .. n - 1 /\ m_index[d] # m_index[c]
      BY <1>1, Facts DEF HasSlot
    <2>2. m_index[d] + 1 \in 1 .. n /\ m_index[d] + 1 # k
      <3>1. m_index[c] \in Int
        BY DEF IInv, TypeOK
      <3> QED BY <1>1, <2>1, <3>1
    <2>3. m_pollFdList'[m_index[d] + 1] = m_pollFdList[m_index[d] + 1]
      BY <1>4, <2>2
    <2> QED BY <1>5, <2>1, <2>3 DEF slot
  <1>9. slot(c)'.fd = IF e = {} THEN ignored(c) ELSE slot(c).fd
    BY <1>4, <1>5 DEF slot
  <1> QED BY <1>4, <1>5, <1>6, <1>7, <1>8, <1>9 DEF IInv, SlotsInBijection, HasSlot

\* The last slot names the channel whose index is the last one.
LEMMA LastOwner ==
    ASSUME IInv, Len(m_pollFdList) > 0, ownerOf(lastFd) \in m_channelMap
    PROVE  m_index[ownerOf(lastFd)] = Len(m_pollFdList) - 1
  <1> USE PollPollerAssumption
  <1>1. Len(m_pollFdList) \in 1 .. Len(m_pollFdList)
    BY Facts
  <1>2. PICK d \in m_channelMap : m_index[d] = Len(m_pollFdList) - 1
    BY <1>1, Facts
  <1>3. lastFd \in {d, -d - 1, -1} /\ d \in Nat \ {0}
    <2>1. HasSlot(d) /\ d \in Nat \ {0}
      BY Facts
    <2>2. slot(d).fd = lastFd
      BY <1>1, <1>2 DEF slot, lastFd
    <2> QED BY <2>1, <2>2 DEF HasSlot, ignored
  <1>4. 0 \notin m_channelMap
    BY Facts
  <1>5. ownerOf(lastFd) = d
    BY <1>3, <1>4 DEF ownerOf
  <1> QED BY <1>2, <1>5

\* What pop_back leaves.
LEMMA DropLast ==
    ASSUME NEW S, NEW s \in Seq(S), Len(s) \in Nat \ {0}
    PROVE  LET r == SubSeq(s, 1, Len(s) - 1)
           IN  /\ r \in Seq(S) /\ Len(r) = Len(s) - 1
               /\ DOMAIN r = 1 .. Len(s) - 1
               /\ \A i \in 1 .. Len(s) - 1 : r[i] = s[i]
  <1> DEFINE n == Len(s) - 1
             r == SubSeq(s, 1, n)
  <1>1. n \in Nat /\ \A i \in 1 .. n : s[i] \in S
    OBVIOUS
  <1>2. /\ r \in Seq(S) /\ Len(r) = IF 1 <= n THEN n - 1 + 1 ELSE 0
        /\ \A i \in 1 .. n - 1 + 1 : r[i] = s[1 + i - 1]
    BY <1>1, SubSeqProperties
  <1> HIDE DEF n, r
  <1>3. /\ r \in Seq(S) /\ Len(r) = n /\ DOMAIN r = 1 .. n
        /\ \A i \in 1 .. n : r[i] = s[i]
    BY <1>1, <1>2
  <1> QED BY <1>3 DEF n, r

\* removeChannel of the channel that owns the last slot.
LEMMA RemoveLastStep ==
    ASSUME IInv, NEW c \in m_channelMap, RemoveLast(c)
    PROVE  IInv' /\ KeepsOthers(c)
  <1> USE PollPollerAssumption
  <1> DEFINE n == Len(m_pollFdList)
  <1>1. c \in Fds /\ n \in Nat \ {0} /\ m_index[c] = n - 1 /\ m_pollFdList \in Seq(Slot)
    BY DEF IInv, TypeOK, SlotsInBijection, RemoveLast, Slot
  <1>2. /\ m_pollFdList' \in Seq(Slot) /\ Len(m_pollFdList') = n - 1
        /\ DOMAIN m_pollFdList' = 1 .. n - 1
        /\ \A i \in 1 .. n - 1 : m_pollFdList'[i] = m_pollFdList[i]
    <2>1. m_pollFdList' = SubSeq(m_pollFdList, 1, n - 1)
      BY DEF RemoveLast
    <2> QED BY <1>1, <2>1, DropLast
  <1>3. /\ m_channelMap' = m_channelMap \ {c}
        /\ \A d \in Fds \ {c} : m_index'[d] = m_index[d]
        /\ m_index' \in [Fds -> Int]
    BY <1>1 DEF RemoveLast, IInv, TypeOK
  <1>4. \A d \in m_channelMap' : m_index'[d] \in 0 .. n - 2 /\ m_index'[d] = m_index[d]
    BY <1>1, <1>3 DEF IInv, TypeOK, SlotsInBijection
  <1>6. TypeOK'
    BY <1>2, <1>3 DEF RemoveLast, IInv, TypeOK, Slot
  <1>7. \A d \in m_channelMap' : HasSlot(d)'
    <2> SUFFICES ASSUME NEW d \in m_channelMap' PROVE HasSlot(d)'
      OBVIOUS
    <2>1. m_index'[d] + 1 \in 1 .. n - 1 /\ d \in m_channelMap
      BY <1>1, <1>3, <1>4
    <2> QED
      <3>1. HasSlot(d) /\ m_index'[d] = m_index[d] /\ UNCHANGED m_events
        BY <1>4, <2>1, Facts DEF RemoveLast
      <3>2. m_pollFdList'[m_index[d] + 1] = m_pollFdList[m_index[d] + 1]
        BY <1>2, <2>1, <3>1
      <3> QED BY <1>2, <1>4, <3>1, <3>2 DEF HasSlot, slot, ignored
  <1>8. \A a, b \in m_channelMap' : m_index'[a] = m_index'[b] => a = b
    BY <1>3, <1>4 DEF IInv, SlotsInBijection
  <1>9. \A i \in DOMAIN m_pollFdList' : \E d \in m_channelMap' : m_index'[d] = i - 1
    <2> SUFFICES ASSUME NEW i \in 1 .. n - 1
                 PROVE  \E d \in m_channelMap' : m_index'[d] = i - 1
      BY <1>2
    <2>1. PICK d \in m_channelMap : m_index[d] = i - 1
      BY <1>1, Facts
    <2> QED BY <1>1, <1>3, <1>4, <2>1
  <1>10. KeepsOthers(c)
    <2> SUFFICES ASSUME NEW d \in m_channelMap'
                 PROVE  d \in m_channelMap /\ slot(d)' = slot(d)
      BY DEF KeepsOthers, RemoveLast
    <2>1. m_index'[d] + 1 \in 1 .. n - 1 /\ d \in m_channelMap
      BY <1>1, <1>3, <1>4
    <2> QED BY <1>2, <1>4, <2>1 DEF slot
  <1> QED BY <1>6, <1>7, <1>8, <1>9, <1>10 DEF IInv, SlotsInBijection, HasSlot

\* removeChannel of any other channel: the last slot moves into the gap.
LEMMA RemoveBySwapStep ==
    ASSUME IInv, NEW c \in m_channelMap, RemoveBySwap(c)
    PROVE  IInv' /\ KeepsOthers(c)
  <1> USE PollPollerAssumption
  <1> DEFINE n == Len(m_pollFdList)
             o == ownerOf(lastFd)
             k == m_index[c] + 1
  <1>1. c \in Fds /\ n \in Nat /\ k \in 1 .. n - 1 /\ m_pollFdList \in Seq(Slot)
    BY DEF IInv, TypeOK, SlotsInBijection, RemoveBySwap, Slot
  <1>0. m_index[c] \in Int
    BY DEF IInv, TypeOK
  <1>2. o \in m_channelMap \ {c} /\ o \in Fds /\ m_index[o] = n - 1
    <2>1. o \in m_channelMap \ {c} /\ n > 0
      BY <1>1 DEF RemoveBySwap
    <2> QED BY <2>1, LastOwner, Facts
  <1>3. /\ m_pollFdList' \in Seq(Slot) /\ Len(m_pollFdList') = n - 1
        /\ DOMAIN m_pollFdList' = 1 .. n - 1
        /\ m_pollFdList'[k] = m_pollFdList[n]
        /\ \A i \in 1 .. n - 1 : i # k => m_pollFdList'[i] = m_pollFdList[i]
    <2> DEFINE moved == [m_pollFdList EXCEPT ![k] = m_pollFdList[n]]
    <2>1. moved \in Seq(Slot) /\ Len(moved) = n
      BY <1>1
    <2>2. m_pollFdList' = SubSeq(moved, 1, n - 1)
      BY DEF RemoveBySwap
    <2>3. moved[k] = m_pollFdList[n] /\ \A i \in 1 .. n : i # k => moved[i] = m_pollFdList[i]
      BY <1>1
    <2> HIDE DEF moved
    <2> QED BY <1>1, <2>1, <2>2, <2>3
  <1>4. /\ m_channelMap' = m_channelMap \ {c} /\ m_index'[o] = m_index[c]
        /\ \A d \in Fds \ {c, o} : m_index'[d] = m_index[d]
        /\ m_index' \in [Fds -> Int]
    BY <1>1, <1>2 DEF RemoveBySwap, IInv, TypeOK
  <1> HIDE DEF o
  <1>5. \A d \in m_channelMap' : m_index'[d] \in 0 .. n - 2
    <2> SUFFICES ASSUME NEW d \in m_channelMap', d # o PROVE m_index'[d] \in 0 .. n - 2
      <3>1. m_index[c] \in Int
        BY <1>1 DEF IInv, TypeOK
      <3>2. m_index'[o] \in 0 .. n - 2
        BY <1>1, <1>4, <3>1
      <3> QED BY <3>2
    <2>1. d \in m_channelMap /\ d \in Fds \ {c, o} /\ m_index[d] # m_index[o]
      BY <1>2, <1>4 DEF IInv, TypeOK, SlotsInBijection
    <2>2. m_index[d] \in 0 .. n - 1 /\ m_index'[d] = m_index[d]
      BY <1>4, <2>1 DEF IInv, SlotsInBijection
    <2> QED BY <1>1, <1>2, <2>1, <2>2
  <1>7. TypeOK'
    BY <1>3, <1>4 DEF RemoveBySwap, IInv, TypeOK, Slot
  <1>8. \A d \in m_channelMap' : HasSlot(d)'
    <2> SUFFICES ASSUME NEW d \in m_channelMap' PROVE HasSlot(d)'
      OBVIOUS
    <2>1. UNCHANGED m_events
      BY DEF RemoveBySwap
    <2>2. CASE d = o
      <3>1. m_pollFdList[n].fd \in {o, ignored(o), -1} /\ m_pollFdList[n].events = m_events[o]
        BY <1>1, <1>2 DEF IInv, SlotsInBijection, slot
      <3> QED BY <1>1, <1>3, <1>4, <1>5, <2>1, <2>2, <3>1 DEF HasSlot, slot, ignored
    <2>3. CASE d # o
      <3>1. d \in m_channelMap /\ d \in Fds \ {c, o} /\ m_index'[d] = m_index[d]
        BY <1>4, <2>3 DEF IInv, TypeOK
      <3>2. m_index[d] + 1 \in 1 .. n - 1 /\ m_index[d] + 1 # k
        <4>1. m_index[d] # m_index[c] /\ m_index[d] \in 0 .. n - 2
          BY <1>5, <3>1, Facts
        <4> QED BY <1>0, <1>1, <4>1
      <3>3. HasSlot(d)
        BY <3>1, Facts
      <3>4. m_pollFdList'[m_index[d] + 1] = m_pollFdList[m_index[d] + 1]
        BY <1>3, <3>2
      <3> QED BY <1>3, <1>5, <2>1, <3>1, <3>3, <3>4 DEF HasSlot, slot, ignored
    <2> QED BY <2>2, <2>3
  <1>9. \A a, b \in m_channelMap' : m_index'[a] = m_index'[b] => a = b
    <2> SUFFICES ASSUME NEW a \in m_channelMap', NEW b \in m_channelMap',
                        m_index'[a] = m_index'[b]
                 PROVE  a = b
      OBVIOUS
    <2>1. /\ a \in m_channelMap \ {c} /\ b \in m_channelMap \ {c}
          /\ m_channelMap \subseteq Fds
      BY <1>4, Facts
    <2>2. \A d \in m_channelMap \ {c} : m_index'[d] = m_index[IF d = o THEN c ELSE d]
      BY <1>4, <2>1
    <2>3. c \in m_channelMap
      OBVIOUS
    <2> QED BY <2>1, <2>2, <2>3, Facts
  <1>10. \A i \in DOMAIN m_pollFdList' : \E d \in m_channelMap' : m_index'[d] = i - 1
    <2> SUFFICES ASSUME NEW i \in 1 .. n - 1
                 PROVE  \E d \in m_channelMap' : m_index'[d] = i - 1
      BY <1>3
    <2>1. CASE i = k
      BY <1>1, <1>2, <1>4, <2>1 DEF IInv, TypeOK
    <2>2. CASE i # k
      <3>1. PICK d \in m_channelMap : m_index[d] = i - 1
        BY <1>1, Facts
      <3>2. d \in Fds \ {c, o}
        BY <1>1, <1>2, <2>2, <3>1, Facts
      <3> QED BY <1>4, <3>1, <3>2
    <2> QED BY <2>1, <2>2
  <1>11. KeepsOthers(c)
    <2> SUFFICES ASSUME NEW d \in m_channelMap'
                 PROVE  d \in m_channelMap /\ slot(d)' = slot(d)
      BY DEF KeepsOthers, RemoveBySwap
    <2>1. CASE d = o
      <3>1. slot(d)' = m_pollFdList[n]
        BY <1>3, <1>4, <2>1 DEF slot
      <3>2. slot(d) = m_pollFdList[n]
        BY <1>1, <1>2, <2>1 DEF slot
      <3> QED BY <1>2, <2>1, <3>1, <3>2
    <2>2. CASE d # o
      <3>1. d \in m_channelMap /\ d \in Fds \ {c, o} /\ m_index'[d] = m_index[d]
        BY <1>4, <2>2 DEF IInv, TypeOK
      <3>2. m_index[d] # m_index[c] /\ m_index[d] \in 0 .. n - 2
        BY <1>5, <3>1, Facts
      <3>3. m_index[d] + 1 \in 1 .. n - 1 /\ m_index[d] + 1 # k
        BY <1>0, <1>1, <3>2
      <3>4. m_pollFdList'[m_index[d] + 1] = m_pollFdList[m_index[d] + 1]
        BY <1>3, <3>3
      <3> QED BY <3>1, <3>4 DEF slot
    <2> QED BY <2>1, <2>2
  <1> QED BY <1>7, <1>8, <1>9, <1>10, <1>11 DEF IInv, SlotsInBijection, HasSlot

\* Steps that leave the array alone: poll, a failed assert, a stutter.
LEMMA IdleStep ==
    ASSUME IInv, Poll \/ abort \/ UNCHANGED vars
    PROVE  IInv'
  <1>1. UNCHANGED <<channelVars, m_pollFdList>>
    BY DEF Poll, abort, vars
  <1>2. TypeOK'
    BY <1>1 DEF Poll, abort, vars, channelVars, polled, IInv, TypeOK
  <1> QED BY <1>1, <1>2 DEF channelVars, IInv, SlotsInBijection, slot, ignored

\* A new Channel takes the index of one the poller does not know.
LEMMA NewChannelStep ==
    ASSUME IInv, NEW c \in Fds, NewChannel(c)
    PROVE  IInv' /\ KeepsOthers(c)
  <1>1. /\ m_index' = [m_index EXCEPT ![c] = -1] /\ c \notin m_channelMap
        /\ UNCHANGED <<alive, m_channelMap, m_events, m_pollFdList, activeChannels>>
    BY DEF NewChannel
  <1>2. m_index' \in [Fds -> Int] /\ \A d \in Fds \ {c} : m_index'[d] = m_index[d]
    BY <1>1 DEF IInv, TypeOK
  <1>3. TypeOK'
    BY <1>1, <1>2 DEF IInv, TypeOK
  <1>4. \A d \in m_channelMap : d \in Fds \ {c} /\ m_index'[d] = m_index[d] /\ slot(d)' = slot(d)
    BY <1>1, <1>2, Facts DEF slot
  <1>5. SlotsInBijection'
    <2>1. \A d \in m_channelMap : ignored(d)' = ignored(d)
      BY DEF ignored
    <2> QED BY <1>1, <1>4, <2>1 DEF IInv, SlotsInBijection
  <1> QED BY <1>1, <1>3, <1>4, <1>5 DEF IInv, KeepsOthers

\* Every step preserves the invariant.
LEMMA StepIInv == IInv /\ [Next]_vars => IInv'
  <1> SUFFICES ASSUME IInv, [Next]_vars PROVE IInv'
    OBVIOUS
  <1>1. ASSUME NEW c \in Fds, Update(c) PROVE IInv'
    <2>1. PICK e \in P!channelOps(m_events[c]) : AddSlot(c, e) \/ ModifySlot(c, e) \/ abort
      BY <1>1 DEF Update
    <2>2. e \in SUBSET Event
      BY ChannelOpsType DEF IInv, TypeOK
    <2> QED BY <2>1, <2>2, AddStep, ModifyStep, IdleStep
  <1>2. ASSUME NEW c \in Fds, Remove(c) PROVE IInv'
    BY <1>2, RemoveLastStep, RemoveBySwapStep, IdleStep DEF Remove
  <1> QED BY <1>1, <1>2, NewChannelStep, IdleStep DEF Next

\* The invariant behind the theorems of this module.
THEOREM Invariance == Spec => []IInv
  BY InitIInv, StepIInv, PTL DEF Spec

\* TypeOK, for every set of descriptors and every habit of clients.
THEOREM TypeCorrect == Spec => []TypeOK
  <1>1. IInv => TypeOK BY DEF IInv
  <1> QED BY <1>1, Invariance, PTL

\* Every known channel has exactly one slot, whatever is added and removed.
THEOREM SlotsAgree == Spec => []SlotsInBijection
  <1>1. IInv => SlotsInBijection BY DEF IInv
  <1> QED BY <1>1, Invariance, PTL
-----------------------------------------------------------------------------
(* Clients whose first operation asks for something.                       *)

\* Every slot holds its channel's descriptor, or the code for silence.
Exact ==
    \A c \in m_channelMap : slot(c).fd = IF m_events[c] = {} THEN ignored(c) ELSE c

\* Every step of clients that do not start silent preserves the stronger invariant.
LEMMA StepExact ==
    ASSUME "silentFirst" \notin Clients, IInv, Exact, [Next]_vars
    PROVE  Exact'
  <1>1. CASE Poll \/ abort \/ UNCHANGED vars
    BY <1>1 DEF Poll, abort, vars, channelVars, Exact, slot, ignored
  <1>2. ASSUME NEW c \in Fds, Update(c) PROVE Exact'
    <2>1. PICK e \in P!channelOps(m_events[c]) :
              allowed(c, e) /\ (AddSlot(c, e) \/ ModifySlot(c, e) \/ abort)
      BY <1>2 DEF Update
    <2>2. e \in SUBSET Event
      BY ChannelOpsType DEF IInv, TypeOK
    <2>3. CASE AddSlot(c, e)
      <3>1. e # {} /\ m_events'[c] = e
        BY <2>1, <2>3 DEF AddSlot, allowed, IInv, TypeOK
      <3>2. KeepsOthers(c) /\ slot(c)'.fd = c
        BY <2>2, <2>3, <3>1, AddStep
      <3> QED BY <3>1, <3>2 DEF Exact, KeepsOthers, ignored
    <2>4. CASE ModifySlot(c, e)
      <3>1. m_events'[c] = e
        BY <2>4 DEF ModifySlot, IInv, TypeOK
      <3>2. slot(c).fd = c
        <4>1. c \in m_channelMap /\ slot(c).fd \in {c, -1}
          BY <2>4 DEF ModifySlot
        <4>2. slot(c).fd \in {-c - 1, c}
          BY <4>1 DEF Exact, ignored
        <4>3. -c - 1 \notin {c, -1} /\ c \in Nat
          BY <1>2, Facts
        <4> QED BY <4>1, <4>2, <4>3
      <3>3. KeepsOthers(c) /\ slot(c)'.fd = IF e = {} THEN ignored(c) ELSE c
        BY <2>2, <2>4, <3>2, ModifyStep
      <3>4. m_channelMap' = m_channelMap
        BY <2>4 DEF ModifySlot
      <3>5. \A d \in m_channelMap' \ {c} :
               slot(d)'.fd = IF m_events'[d] = {} THEN ignored(d) ELSE d
        BY <3>3 DEF Exact, KeepsOthers
      <3> QED BY <3>1, <3>3, <3>5 DEF Exact, ignored
    <2> QED BY <1>1, <2>1, <2>3, <2>4
  <1>3. ASSUME NEW c \in Fds, Remove(c) PROVE Exact'
    <2>1. CASE RemoveLast(c) \/ RemoveBySwap(c)
      <3>1. KeepsOthers(c) /\ c \notin m_channelMap'
        BY <1>3, <2>1, RemoveLastStep, RemoveBySwapStep DEF Remove, RemoveLast, RemoveBySwap
      <3> QED BY <3>1 DEF Exact, KeepsOthers, ignored
    <2> QED BY <1>1, <1>3, <2>1 DEF Remove
  <1>4. ASSUME NEW c \in Fds, NewChannel(c) PROVE Exact'
    <2>1. KeepsOthers(c) /\ m_channelMap' = m_channelMap /\ c \notin m_channelMap
      BY <1>4, NewChannelStep DEF NewChannel
    <2> QED BY <2>1 DEF Exact, KeepsOthers, ignored
  <1> QED BY <1>1, <1>2, <1>3, <1>4 DEF Next

\* A slot that holds c belongs to c, and c is not silent.
LEMMA ExactPolled == IInv /\ Exact => PolledIffInterested
  <1> SUFFICES ASSUME IInv, Exact, NEW c \in m_channelMap
               PROVE  (\E i \in DOMAIN m_pollFdList : m_pollFdList[i].fd = c)
                         <=> m_events[c] # {}
    BY DEF PolledIffInterested, polled
  <1>1. ASSUME m_events[c] # {}
        PROVE  \E i \in DOMAIN m_pollFdList : m_pollFdList[i].fd = c
    <2>1. m_index[c] + 1 \in DOMAIN m_pollFdList
      BY Facts DEF HasSlot
    <2> QED BY <1>1, <2>1 DEF Exact, slot
  <1>2. ASSUME NEW i \in DOMAIN m_pollFdList, m_pollFdList[i].fd = c
        PROVE  m_events[c] # {}
    <2>1. i \in Nat
      BY Facts
    <2>2. PICK d \in m_channelMap : m_index[d] = i - 1
      BY Facts
    <2>3. slot(d).fd = c
      BY <1>2, <2>1, <2>2 DEF slot
    <2>4. c \in Nat \ {0} /\ d \in Nat \ {0}
      BY Facts
    <2> QED BY <2>3, <2>4 DEF Exact, ignored
  <1> QED BY <1>1, <1>2

\* The invariant of the polite runs.
LEMMA ExactAlways ==
    ASSUME "silentFirst" \notin Clients
    PROVE  Spec => [](IInv /\ Exact)
  <1>1. Init => Exact
    BY DEF Init, NoChannels, Exact
  <1>2. IInv /\ Exact /\ [Next]_vars => Exact'
    BY StepExact
  <1> QED BY <1>1, <1>2, Invariance, PTL DEF Spec

\* poll(2) watches exactly the channels that ask for something, as long as no
\* channel starts silent.
THEOREM InterestedArePolled ==
    ASSUME "silentFirst" \notin Clients
    PROVE  Spec => []PolledIffInterested
  BY ExactAlways, ExactPolled, PTL

-----------------------------------------------------------------------------
(* The refinement, for any clients.                                        *)

\* A slot with its channel's descriptor is that of one that asks for something.
Asking == \A c \in m_channelMap : slot(c).fd = c => m_events[c] # {}

\* Every step keeps it: going silent clears the descriptor, nothing else writes it.
LEMMA StepAsking ==
    ASSUME IInv, Asking, [Next]_vars
    PROVE  Asking'
  <1>1. CASE Poll \/ abort \/ UNCHANGED vars
    BY <1>1 DEF Poll, abort, vars, channelVars, Asking, slot
  <1>2. ASSUME NEW c \in Fds, Update(c) PROVE Asking'
    <2>1. PICK e \in P!channelOps(m_events[c]) : AddSlot(c, e) \/ ModifySlot(c, e) \/ abort
      BY <1>2 DEF Update
    <2>2. e \in SUBSET Event
      BY ChannelOpsType DEF IInv, TypeOK
    <2>3. c \in Nat \ {0}
      BY Facts
    <2>4. CASE AddSlot(c, e)
      <3>1. m_events'[c] = e
        BY <2>4 DEF AddSlot, IInv, TypeOK
      <3>2. KeepsOthers(c) /\ slot(c)'.fd = IF e = {} THEN -1 ELSE c
        BY <2>2, <2>4, AddStep
      <3> QED BY <2>3, <3>1, <3>2 DEF Asking, KeepsOthers
    <2>5. CASE ModifySlot(c, e)
      <3>1. m_events'[c] = e
        BY <2>5 DEF ModifySlot, IInv, TypeOK
      <3>2. KeepsOthers(c) /\ slot(c)'.fd = IF e = {} THEN ignored(c) ELSE slot(c).fd
        BY <2>2, <2>5, ModifyStep
      <3>3. slot(c)'.fd = c => m_events'[c] # {}
        BY <2>3, <3>1, <3>2 DEF ignored
      <3> QED BY <3>2, <3>3 DEF Asking, KeepsOthers
    <2> QED BY <1>1, <2>1, <2>4, <2>5
  <1>3. ASSUME NEW c \in Fds, Remove(c) PROVE Asking'
    <2>1. CASE RemoveLast(c) \/ RemoveBySwap(c)
      <3>1. KeepsOthers(c) /\ c \notin m_channelMap'
        BY <1>3, <2>1, RemoveLastStep, RemoveBySwapStep DEF Remove, RemoveLast, RemoveBySwap
      <3> QED BY <3>1 DEF Asking, KeepsOthers
    <2> QED BY <1>1, <1>3, <2>1 DEF Remove
  <1>4. ASSUME NEW c \in Fds, NewChannel(c) PROVE Asking'
    <2>1. KeepsOthers(c) /\ m_channelMap' = m_channelMap /\ c \notin m_channelMap
      BY <1>4, NewChannelStep DEF NewChannel
    <2> QED BY <2>1 DEF Asking, KeepsOthers
  <1> QED BY <1>1, <1>2, <1>3, <1>4 DEF Next

\* Nothing silent is polled.
LEMMA PolledAsk == IInv /\ Asking => polled \subseteq {c \in m_channelMap : m_events[c] # {}}
  <1> SUFFICES ASSUME IInv, Asking, NEW c \in m_channelMap,
                      NEW i \in DOMAIN m_pollFdList, m_pollFdList[i].fd = c
               PROVE  m_events[c] # {}
    BY DEF polled
  <1>1. i \in Nat
    BY Facts
  <1>2. PICK d \in m_channelMap : m_index[d] = i - 1
    BY Facts
  <1>3. slot(d).fd = c
    BY <1>1, <1>2 DEF slot
  <1>4. c \in Nat \ {0} /\ d \in Nat \ {0} /\ HasSlot(d)
    BY Facts
  <1>5. c = d
    BY <1>3, <1>4 DEF HasSlot, ignored
  <1> QED BY <1>3, <1>5 DEF Asking

\* Every step is a step of Poller or leaves its variables alone.
LEMMA StepRefines ==
    ASSUME IInv, Asking, [Next]_vars
    PROVE  [P!Next]_P!vars
  <1>1. CASE abort \/ UNCHANGED vars
    BY <1>1 DEF abort, vars, channelVars, P!vars
  <1>2. CASE Poll
    <2>1. polled \subseteq {c \in m_channelMap : m_events[c] # {}}
      BY PolledAsk
    <2> QED BY <1>2, <2>1 DEF Poll, channelVars, P!Next, P!Poll
  <1>3. ASSUME NEW c \in Fds, Update(c) PROVE abort \/ P!Next
    <2>1. PICK e \in P!channelOps(m_events[c]) : AddSlot(c, e) \/ ModifySlot(c, e) \/ abort
      BY <1>3 DEF Update
    <2>2. e \in P!channelOps(m_events[c])
      BY DEF P!channelOps
    <2>3. CASE AddSlot(c, e) \/ ModifySlot(c, e)
      <3>1. /\ m_events' = [m_events EXCEPT ![c] = e]
            /\ m_channelMap' = m_channelMap \cup {c}
            /\ UNCHANGED activeChannels
        BY <2>3 DEF AddSlot, ModifySlot
      <3>2. {} \in P!watchedAfter(c, e)
        BY DEF P!watchedAfter
      <3> QED BY <2>2, <3>1, <3>2 DEF P!Next, P!Update
    <2> QED BY <2>1, <2>3
  <1>4. ASSUME NEW c \in Fds, Remove(c) PROVE abort \/ P!Next
    BY <1>4 DEF Remove, RemoveLast, RemoveBySwap, P!Next, P!Remove
  <1>5. ASSUME NEW c \in Fds, NewChannel(c) PROVE UNCHANGED P!vars
    BY <1>5 DEF NewChannel, P!vars
  <1> QED BY <1>1, <1>2, <1>3, <1>4, <1>5 DEF Next

\* PollPoller implements Poller for every set of descriptors and every habit of
\* clients, as long as no assert fails, and never reports a silent channel
\* (ImplementsPoller).
THEOREM Refinement == Spec => ImplementsPoller
  <1>1. Init => P!Init /\ Asking
    BY DEF Init, NoChannels, P!Init, Asking
  <1>2. IInv /\ Asking /\ [Next]_vars => Asking' /\ [P!Next]_P!vars
    BY StepAsking, StepRefines
  <1> QED BY <1>1, <1>2, Invariance, PTL DEF Spec, ImplementsPoller, P!Spec

-----------------------------------------------------------------------------
(* EpollPoller.                                                            *)

EpollIInv == EpollTypeOK /\ KernelMatches /\ NeverAborts

\* The invariant holds of the empty poller.
LEMMA EpollInitIInv == EpollInit => EpollIInv
  BY EpollPollerAssumption DEF EpollInit, NoChannels, EpollIInv, EpollTypeOK, KernelMatches, NeverAborts, Event

\* In a good state the asserts of updateChannel hold, so an update is an add
\* or a modification.
LEMMA UpdateCases ==
    ASSUME EpollIInv, NEW c \in Fds, EpollUpdate(c)
    PROVE  \E e \in SUBSET Event :
              /\ allowed(c, e)
              /\ m_events' = [m_events EXCEPT ![c] = e]
              /\ AddChannel(c, e) \/ ModifyChannel(c, e)
              /\ UNCHANGED <<m_EpollEventList, activeChannels>>
  <1>1. PICK e \in E!channelOps(m_events[c]) :
            /\ allowed(c, e)
            /\ m_events' = [m_events EXCEPT ![c] = e]
            /\ AddChannel(c, e) \/ ModifyChannel(c, e) \/ UpdateAborts(c)
    BY DEF EpollUpdate
  <1>2. e \in SUBSET Event
    BY EpollChannelOpsType DEF EpollIInv, EpollTypeOK
  <1>3. ~UpdateAborts(c)
    BY DEF UpdateAborts, epollUpdateAsserts, EpollIInv, KernelMatches
  <1> QED BY <1>1, <1>2, <1>3 DEF EpollUpdate

\* updateChannel of a channel the kernel does not watch.
LEMMA EpollAddStep ==
    ASSUME EpollIInv, NEW c \in Fds, NEW e \in SUBSET Event,
           m_events' = [m_events EXCEPT ![c] = e], AddChannel(c, e),
           UNCHANGED <<m_EpollEventList, activeChannels>>
    PROVE  EpollIInv'
  <1>1. c \notin epollSet
    BY DEF EpollIInv, KernelMatches, AddChannel
  <1>2. alive' /\ epollSet' = epollSet \cup {c} /\ epollEvents' = [epollEvents EXCEPT ![c] = e]
    BY <1>1 DEF AddChannel, epollCtl
  <1>3. m_index' = [m_index EXCEPT ![c] = "Added"] /\ m_channelMap' = m_channelMap \cup {c}
    BY DEF AddChannel
  <1>4. EpollTypeOK' /\ NeverAborts'
    BY <1>2, <1>3 DEF EpollIInv, EpollTypeOK, NeverAborts
  <1>5. KernelMatches'
    BY <1>2, <1>3 DEF EpollIInv, EpollTypeOK, KernelMatches
  <1> QED BY <1>4, <1>5 DEF EpollIInv

\* updateChannel of a channel the kernel watches.
LEMMA EpollModifyStep ==
    ASSUME EpollIInv, NEW c \in Fds, NEW e \in SUBSET Event,
           m_events' = [m_events EXCEPT ![c] = e], ModifyChannel(c, e),
           UNCHANGED <<m_EpollEventList, activeChannels>>
    PROVE  EpollIInv'
  <1>1. c \in epollSet
    BY DEF EpollIInv, KernelMatches, ModifyChannel
  <1>2. CASE e = {}
    <2>1. /\ alive' /\ epollSet' = epollSet \ {c}
          /\ epollEvents' = [epollEvents EXCEPT ![c] = {}]
          /\ m_index' = [m_index EXCEPT ![c] = "Deleted"]
          /\ m_channelMap' = m_channelMap
      BY <1>1, <1>2 DEF ModifyChannel, epollCtl
    <2>2. EpollTypeOK' /\ NeverAborts'
      BY <2>1 DEF EpollIInv, EpollTypeOK, NeverAborts
    <2>3. KernelMatches'
      BY <1>1, <1>2, <2>1 DEF EpollIInv, EpollTypeOK, KernelMatches
    <2> QED BY <2>2, <2>3 DEF EpollIInv
  <1>3. CASE e # {}
    <2>1. /\ alive' /\ epollSet' = epollSet \cup {c}
          /\ epollEvents' = [epollEvents EXCEPT ![c] = e]
          /\ m_index' = m_index /\ m_channelMap' = m_channelMap
      BY <1>1, <1>3 DEF ModifyChannel, epollCtl
    <2>2. EpollTypeOK' /\ NeverAborts'
      BY <2>1 DEF EpollIInv, EpollTypeOK, NeverAborts
    <2>3. KernelMatches'
      BY <1>1, <2>1 DEF EpollIInv, EpollTypeOK, KernelMatches
    <2> QED BY <2>2, <2>3 DEF EpollIInv
  <1> QED BY <1>2, <1>3

\* removeChannel, for both values of the index it accepts.
LEMMA EpollRemoveStep ==
    ASSUME EpollIInv, NEW c \in Fds, EpollRemove(c)
    PROVE  EpollIInv'
  <1>1. m_index[c] \in {"Added", "Deleted"}
    BY DEF EpollRemove, EpollIInv, EpollTypeOK, KernelMatches
  <1>2. /\ m_channelMap' = m_channelMap \ {c}
        /\ m_index' = [m_index EXCEPT ![c] = "New"]
        /\ m_events[c] = {}
        /\ UNCHANGED <<m_events, m_EpollEventList, activeChannels>>
    BY DEF EpollRemove
  <1>3. /\ alive' /\ epollSet' = epollSet \ {c}
        /\ epollEvents' \in [Fds -> SUBSET Event]
        /\ \A d \in Fds \ {c} : epollEvents'[d] = epollEvents[d]
    BY <1>1 DEF EpollRemove, epollCtl, kernelVars, EpollIInv, EpollTypeOK, KernelMatches
  <1>4. EpollTypeOK' /\ NeverAborts'
    BY <1>2, <1>3 DEF EpollIInv, EpollTypeOK, NeverAborts
  <1>5. KernelMatches'
    BY <1>2, <1>3 DEF EpollIInv, EpollTypeOK, KernelMatches
  <1> QED BY <1>4, <1>5 DEF EpollIInv

\* poll() changes the size of the event buffer and nothing else.
LEMMA EpollPollStep ==
    ASSUME EpollIInv, EpollPoll
    PROVE  EpollIInv'
  BY DEF EpollPoll, EpollIInv, EpollTypeOK, KernelMatches, NeverAborts, channelVars, kernelVars

\* Every step preserves the invariant.
LEMMA EpollStepIInv == EpollIInv /\ [EpollNext]_epollVars => EpollIInv'
  <1> SUFFICES ASSUME EpollIInv, [EpollNext]_epollVars PROVE EpollIInv'
    OBVIOUS
  <1>1. CASE UNCHANGED epollVars
    BY <1>1 DEF epollVars, channelVars, kernelVars, EpollIInv, EpollTypeOK, KernelMatches, NeverAborts
  <1>2. ASSUME NEW c \in Fds, EpollUpdate(c) PROVE EpollIInv'
    BY <1>2, UpdateCases, EpollAddStep, EpollModifyStep
  <1> QED BY <1>1, <1>2, EpollRemoveStep, EpollPollStep DEF EpollNext

\* The invariant behind the theorems of this module.
THEOREM EpollInvariance == EpollSpec => []EpollIInv
  BY EpollInitIInv, EpollStepIInv, PTL DEF EpollSpec

\* EpollTypeOK, for every set of descriptors and every initial buffer size.
THEOREM EpollTypeCorrect == EpollSpec => []EpollTypeOK
  <1>1. EpollIInv => EpollTypeOK BY DEF EpollIInv
  <1> QED BY <1>1, EpollInvariance, PTL

\* The channels' index, the map and the kernel's list always agree.
THEOREM KernelAgrees == EpollSpec => []KernelMatches
  <1>1. EpollIInv => KernelMatches BY DEF EpollIInv
  <1> QED BY <1>1, EpollInvariance, PTL

\* No sequence of legal calls fails an assert or a fatal epoll_ctl.
THEOREM NothingAborts == EpollSpec => []NeverAborts
  <1>1. EpollIInv => NeverAborts BY DEF EpollIInv
  <1> QED BY <1>1, EpollInvariance, PTL

-----------------------------------------------------------------------------
(* The refinement.                                                         *)

\* The silent channels in the kernel's list.
silentlyWatched == {c \in m_channelMap : m_index[c] = "Added" /\ m_events[c] = {}}

\* Every step of EpollPoller is a step of Poller.
LEMMA EpollStepRefines ==
    ASSUME EpollIInv, [EpollNext]_epollVars
    PROVE  [E!Next]_E!vars
  <1>1. CASE UNCHANGED epollVars
    BY <1>1 DEF epollVars, channelVars, E!vars
  <1>2. CASE EpollPoll
    <2>1. activeChannels' \in SUBSET epollSet /\ UNCHANGED <<m_channelMap, m_events, m_index>>
      BY <1>2 DEF EpollPoll, channelVars
    <2>2. epollSet \subseteq {c \in m_channelMap : m_events[c] # {} \/ c \in silentlyWatched}
      BY DEF silentlyWatched, EpollIInv, KernelMatches, EpollTypeOK
    <2>3. UNCHANGED silentlyWatched
      BY <2>1 DEF silentlyWatched
    <2> QED BY <2>1, <2>2, <2>3 DEF silentlyWatched, E!Next, E!Poll
  <1>3. ASSUME NEW c \in Fds, EpollUpdate(c) PROVE E!Next
    <2>1. PICK e \in E!channelOps(m_events[c]) :
            /\ m_events' = [m_events EXCEPT ![c] = e]
            /\ AddChannel(c, e) \/ ModifyChannel(c, e) \/ UpdateAborts(c)
      BY <1>3 DEF EpollUpdate
    <2>2. ~UpdateAborts(c)
      BY DEF UpdateAborts, epollUpdateAsserts, EpollIInv, KernelMatches
    <2>3. m_channelMap' = m_channelMap \cup {c}
      BY <2>1, <2>2 DEF AddChannel, ModifyChannel
    <2>4. e \in E!channelOps(m_events[c])
      BY <2>1 DEF E!channelOps
    <2>5. /\ m_events'[c] = e /\ \A d \in Fds \ {c} : m_events'[d] = m_events[d]
          /\ \A d \in Fds \ {c} : m_index'[d] = m_index[d]
          /\ m_channelMap \subseteq Fds
      BY <2>1, <2>2 DEF AddChannel, ModifyChannel, EpollIInv, EpollTypeOK
    <2>6. silentlyWatched' \in
            IF m_events[c] = {} /\ e = {}
            THEN {silentlyWatched \cup {c}, silentlyWatched \ {c}} ELSE {silentlyWatched \ {c}}
      <3>1. silentlyWatched' \ {c} = silentlyWatched \ {c}
        BY <2>3, <2>5 DEF silentlyWatched
      <3>2. CASE c \notin silentlyWatched'
        BY <3>1, <3>2
      <3>3. CASE c \in silentlyWatched'
        <4>1. e = {} /\ m_index'[c] = "Added"
          BY <2>5, <3>3 DEF silentlyWatched
        <4>2. AddChannel(c, e)
          BY <2>1, <2>2, <4>1 DEF ModifyChannel, EpollIInv, EpollTypeOK
        <4>3. m_events[c] = {}
          BY <4>2 DEF AddChannel, EpollIInv, KernelMatches
        <4> QED BY <3>1, <3>3, <4>1, <4>3
      <3> QED BY <3>2, <3>3
    <2>7. silentlyWatched' \in E!watchedAfter(c, e)
      BY <2>6 DEF E!watchedAfter, silentlyWatched
    <2> QED BY <1>3, <2>1, <2>3, <2>4, <2>7 DEF EpollUpdate, E!Next, E!Update, silentlyWatched
  <1>4. ASSUME NEW c \in Fds, EpollRemove(c) PROVE E!Next
    <2>1. /\ m_channelMap' = m_channelMap \ {c} /\ m_index' = [m_index EXCEPT ![c] = "New"]
          /\ m_events' = m_events /\ activeChannels' = activeChannels
          /\ c \in m_channelMap /\ m_events[c] = {}
      BY <1>4 DEF EpollRemove
    <2>2. silentlyWatched' = silentlyWatched \ {c}
      BY <2>1 DEF silentlyWatched, EpollIInv, EpollTypeOK
    <2> QED BY <1>4, <2>1, <2>2 DEF E!Next, E!Remove, silentlyWatched
  <1> QED BY <1>1, <1>2, <1>3, <1>4 DEF EpollNext

\* EpollPoller implements Poller for every set of descriptors and every habit of
\* clients: a silent channel is reported only if it was silenced twice
\* (EpollImplementsPoller).
THEOREM EpollRefinement == EpollSpec => EpollImplementsPoller
  <1>1. EpollInit => E!Init
    BY DEF EpollInit, NoChannels, E!Init
  <1>2. EpollIInv /\ [EpollNext]_epollVars => [E!Next]_E!vars
    BY EpollStepRefines
  <1> QED BY <1>1, <1>2, EpollInvariance, PTL DEF EpollSpec, EpollImplementsPoller, E!Spec
=============================================================================
