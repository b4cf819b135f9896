----------------------------- MODULE TcpServerProofs -----------------------------
(***************************************************************************)
(* TcpServer for any number of loops, connections and descriptors: the     *)
(* map, the tasks of the loops, the pollers and the descriptors agree, and *)
(* connections are dealt to the loops in turn (Consistent).                *)
(***************************************************************************)
EXTENDS TcpServer, FiniteSetTheorems, SequenceTheorems, WellFoundedInduction, TLAPS

-----------------------------------------------------------------------------
(* Counting in a sequence.                                                 *)

places(s, t) == {i \in DOMAIN s : s[i] = t}
count(s, t) == Cardinality(places(s, t))

\* Few places hold t: a finite set.
LEMMA CountType ==
    ASSUME NEW S, NEW s \in Seq(S), NEW t
    PROVE  IsFiniteSet(places(s, t)) /\ count(s, t) \in Nat
  <1>1. Len(s) \in Nat /\ DOMAIN s = 1 .. Len(s)
    OBVIOUS
  <1>2. IsFiniteSet(1 .. Len(s))
    BY <1>1, FS_Interval
  <1>3. places(s, t) \in SUBSET (1 .. Len(s))
    BY <1>1 DEF places
  <1>4. IsFiniteSet(places(s, t))
    BY <1>2, <1>3, FS_Subset
  <1> QED BY <1>4, FS_CardinalityType DEF count

\* The empty sequence holds nothing.
LEMMA CountEmpty ==
    ASSUME NEW t
    PROVE  count(<<>>, t) = 0
  <1>1. places(<<>>, t) = {}
    BY DEF places
  <1> QED BY <1>1, FS_EmptySet DEF count

\* Appending t adds one t.
LEMMA CountAppend ==
    ASSUME NEW S, NEW s \in Seq(S), NEW e \in S, NEW t
    PROVE  count(Append(s, e), t) = IF e = t THEN count(s, t) + 1 ELSE count(s, t)
  <1> DEFINE n == Len(s)
  <1>1. n \in Nat /\ DOMAIN s = 1 .. n /\ DOMAIN Append(s, e) = 1 .. n + 1
    OBVIOUS
  <1>2. /\ \A i \in 1 .. n : Append(s, e)[i] = s[i]
        /\ Append(s, e)[n + 1] = e
    BY AppendProperties
  <1>3. IsFiniteSet(places(s, t))
    BY CountType
  <1>6. n + 1 \notin places(s, t)
    BY <1>1 DEF places
  <1>4. CASE e = t
    <2>1. places(Append(s, e), t) = places(s, t) \cup {n + 1}
      BY <1>1, <1>2, <1>4 DEF places
    <2> QED BY <1>3, <1>4, <1>6, <2>1, FS_AddElement DEF count
  <1>5. CASE e # t
    <2>1. places(Append(s, e), t) = places(s, t)
      BY <1>1, <1>2, <1>5 DEF places
    <2> QED BY <1>5, <2>1 DEF count
  <1> QED BY <1>4, <1>5

\* Without its first element a sequence has one fewer of it.
LEMMA CountTail ==
    ASSUME NEW S, NEW s \in Seq(S), s # <<>>, NEW t
    PROVE  count(Tail(s), t) = IF Head(s) = t THEN count(s, t) - 1 ELSE count(s, t)
  <1> DEFINE n == Len(s)
             rest == places(s, t) \ {1}
             shift == [i \in places(Tail(s), t) |-> i + 1]
  <1>1. n \in Nat \ {0} /\ DOMAIN s = 1 .. n /\ Head(s) = s[1]
    OBVIOUS
  <1>2. Tail(s) \in Seq(S) /\ DOMAIN Tail(s) = 1 .. n - 1
    BY <1>1
  <1>3. \A i \in 1 .. n - 1 : Tail(s)[i] = s[i + 1]
    BY <1>1
  <1>4. \A i \in places(Tail(s), t) : i \in 1 .. n - 1 /\ i + 1 \in rest
    BY <1>1, <1>2, <1>3 DEF places
  <1>5. \A j \in rest : j \in Nat /\ j - 1 \in places(Tail(s), t)
    <2> SUFFICES ASSUME NEW j \in rest PROVE j \in Nat /\ j - 1 \in places(Tail(s), t)
      OBVIOUS
    <2>1. j \in 2 .. n /\ s[j] = t
      BY <1>1 DEF places
    <2>2. j - 1 \in 1 .. n - 1 /\ j - 1 + 1 = j
      BY <1>1, <2>1
    <2> QED BY <1>2, <1>3, <2>1, <2>2 DEF places
  <1> HIDE DEF rest
  <1>6. shift \in Bijection(places(Tail(s), t), rest)
    <2>1. shift \in [places(Tail(s), t) -> rest]
      BY <1>4
    <2>2. \A a, b \in places(Tail(s), t) : shift[a] = shift[b] => a = b
      BY <1>4
    <2>3. \A j \in rest : \E i \in places(Tail(s), t) : shift[i] = j
      <3> SUFFICES ASSUME NEW j \in rest PROVE \E i \in places(Tail(s), t) : shift[i] = j
        OBVIOUS
      <3>1. j - 1 \in places(Tail(s), t) /\ j \in Nat
        BY <1>5
      <3>2. shift[j - 1] = j
        BY <3>1
      <3> QED BY <3>1, <3>2
    <2> HIDE DEF shift
    <2> QED BY <2>1, <2>2, <2>3 DEF Bijection, Injection, Surjection, IsInjective
  <1>7. IsFiniteSet(places(Tail(s), t)) /\ IsFiniteSet(places(s, t))
    BY <1>2, CountType
  <1>8. count(Tail(s), t) = Cardinality(rest)
    BY <1>6, <1>7, FS_Bijection DEF count, ExistsBijection
  <1>9. Cardinality(rest) = IF 1 \in places(s, t) THEN count(s, t) - 1 ELSE count(s, t)
    BY <1>7, FS_RemoveElement DEF count, rest
  <1>10. 1 \in places(s, t) <=> Head(s) = t
    BY <1>1 DEF places
  <1> QED BY <1>8, <1>9, <1>10

\* The first element is there at least once.
LEMMA CountHead ==
    ASSUME NEW S, NEW s \in Seq(S), s # <<>>
    PROVE  count(s, Head(s)) > 0
  <1>1. 1 \in places(s, Head(s))
    BY DEF places
  <1>2. IsFiniteSet(places(s, Head(s))) /\ count(s, Head(s)) \in Nat
    BY CountType
  <1> QED BY <1>1, <1>2, FS_EmptySet DEF count

-----------------------------------------------------------------------------
(* The tasks of a connection.                                              *)

Task == [what : {"remove", "destroy"}, conn : Conns]

\* The tasks of different kinds or connections are different.
LEMMA TaskParts ==
    ASSUME NEW v, NEW c, NEW w, NEW d
    PROVE  task(v, c) = task(w, d) <=> v = w /\ c = d
  BY DEF task

-----------------------------------------------------------------------------
(* The loops' queues.                                                      *)

Queues == [Loops -> Seq(Task)]
pushed(ts, l, t) == [ts EXCEPT ![l] = Append(@, t)]
popped(ts, l) == [ts EXCEPT ![l] = Tail(@)]

\* Queueing a task on one loop.
LEMMA Push ==
    ASSUME NEW ts \in Queues, NEW l \in Loops, NEW t \in Task
    PROVE  /\ pushed(ts, l, t) \in Queues
           /\ \A k \in Loops : \A u : count(pushed(ts, l, t)[k], u) =
                IF k = l /\ t = u THEN count(ts[k], u) + 1 ELSE count(ts[k], u)
  <1> DEFINE new == pushed(ts, l, t)
  <1>1. ts[l] \in Seq(Task)
    BY DEF Queues
  <1>2. Append(ts[l], t) \in Seq(Task)
    BY <1>1, AppendProperties
  <1>3. new \in Queues
    BY <1>2 DEF Queues, pushed
  <1>4. new[l] = Append(ts[l], t)
    BY DEF Queues, pushed
  <1>5. \A k \in Loops \ {l} : new[k] = ts[k]
    BY DEF Queues, pushed
  <1>6. ASSUME NEW k \in Loops, NEW u
        PROVE  count(new[k], u) = IF k = l /\ t = u THEN count(ts[k], u) + 1 ELSE count(ts[k], u)
    <2>1. CASE k = l
      <3>1. count(Append(ts[l], t), u) = IF t = u THEN count(ts[l], u) + 1 ELSE count(ts[l], u)
        BY <1>1, CountAppend
      <3> QED BY <1>4, <2>1, <3>1
    <2>2. CASE k # l
      BY <1>5, <2>2
    <2> QED BY <2>1, <2>2
  <1> QED BY <1>3, <1>6

\* Taking the first task of one loop.
LEMMA Pop ==
    ASSUME NEW ts \in Queues, NEW l \in Loops, ts[l] # <<>>
    PROVE  /\ popped(ts, l) \in Queues
           /\ \A k \in Loops : \A u : count(popped(ts, l)[k], u) =
                IF k = l /\ Head(ts[l]) = u THEN count(ts[k], u) - 1 ELSE count(ts[k], u)
  <1> DEFINE new == popped(ts, l)
  <1>1. ts[l] \in Seq(Task)
    BY DEF Queues
  <1>2. Tail(ts[l]) \in Seq(Task)
    BY <1>1
  <1>3. new \in Queues
    BY <1>2 DEF Queues, popped
  <1>4. new[l] = Tail(ts[l])
    BY DEF Queues, popped
  <1>5. \A k \in Loops \ {l} : new[k] = ts[k]
    BY DEF Queues, popped
  <1>6. ASSUME NEW k \in Loops, NEW u
        PROVE  count(new[k], u) =
                 IF k = l /\ Head(ts[l]) = u THEN count(ts[k], u) - 1 ELSE count(ts[k], u)
    <2>1. CASE k = l
      BY <1>1, <1>4, <2>1, CountTail
    <2>2. CASE k # l
      BY <1>5, <2>2
    <2> QED BY <2>1, <2>2
  <1> QED BY <1>3, <1>6

-----------------------------------------------------------------------------
(* The invariant.                                                          *)

Conn == [state : States, loop : Loops, fd : 0..FdLimit]

\* The pool: where m_next stands, and how many turns each loop has had.
turns(l) == IF l <= m_next THEN dealt(l) - 1 ELSE dealt(l)
Pool ==
    /\ m_listening => m_started
    /\ ~m_started => m_next = 0 /\ m_nextConnId = 1
    /\ m_next = 0 \/ m_next < m_numThreads
    /\ \A c \in Conns : conn[c].state # "none" => conn[c].loop <= m_numThreads
    /\ \A l, k \in 1..m_numThreads : turns(l) = turns(k)

\* The phases of the server's life, and the connections not born yet.
Phases ==
    /\ serverAlive # "yes" => shedding = "no" /\ ~m_listening
    /\ serverAlive = "no" => m_connectionMap = {}
    /\ m_nextConnId >= 1 /\ backlog + m_nextConnId <= MaxConns + 1
    /\ \A c \in Conns : conn[c].state = "none" <=> c >= m_nextConnId

\* Descriptors of connections are open and differ from each other and from those
\* of the acceptor, but for the listening one where it is handed out (listeningFd);
\* a poller knows those of established connections only.
Owned ==
    \A c \in live : /\ conn[c].fd = listenFd <=> "listeningFd" \in Faults
                   /\ conn[c].fd \in fds \cup {listenFd}
Distinct == \A c, d \in live : conn[c].fd = conn[d].fd => c = d \/ conn[c].fd = listenFd
Acceptors ==
    /\ serverAlive = "yes" => listenFd \in fds
    /\ serverAlive # "no" /\ shedding = "no" =>
        /\ m_idleFd \in (fds \cup {-1}) \ {listenFd}
        /\ \A c \in live : conn[c].fd # m_idleFd
polls(l, f, c) == conn[c].state \in {"up", "closed"} /\ conn[c].loop = l /\ conn[c].fd = f
Watched ==
    \A l \in Loops : \A f \in registered[l] \ {listenFd} : \E c \in Conns : polls(l, f, c)
Spare ==
    /\ m_idleFd = -1 => stolen
    /\ shedding # "no" => stolen \/ fds # FdNums
Descriptors == Owned /\ Distinct /\ Acceptors /\ Watched /\ Spare

\* OneTaskEach of one connection, over all loops.
due(l, what, c) == count(tasks[l], task(what, c))
one(b) == IF b THEN 1 ELSE 0
Books(c) ==
    /\ c \in m_connectionMap => c \in live
    /\ \A l \in Loops : due(l, "destroy", c) =
            one(c \in live /\ c \notin m_connectionMap /\ l = conn[c].loop)
    /\ serverAlive = "yes" =>
            due(base, "remove", c) = one(conn[c].state = "closed" /\ c \in m_connectionMap)
    /\ \A l \in Loops \ {base} : due(l, "remove", c) = 0

\* A connection leaves the map of a living server only after it closed, which one
\* that watches the listening socket never does.
Mapped(c) ==
    /\ conn[c].state = "up" /\ serverAlive = "yes" => c \in m_connectionMap
    /\ conn[c].state = "closed" => conn[c].fd # listenFd
Lives ==
    /\ \A c \in Conns : Books(c)
    /\ \A c \in Conns : Mapped(c)

Running == Pool /\ Phases /\ Descriptors /\ Lives

IInv ==
    /\ TypeOK
    /\ running => Running
    /\ aborted # "eraseAssert"
    /\ aborted = "fdKnown" => "listeningFd" \in Faults

\* The type invariant, as the steps use it.
LEMMA Types ==
    ASSUME TypeOK
    PROVE  /\ conn \in [Conns -> Conn] /\ tasks \in Queues
           /\ registered \in [Loops -> SUBSET FdNums] /\ fds \subseteq FdNums
           /\ m_numThreads \in 0..MaxThreads /\ m_next \in 0..MaxThreads
           /\ m_connectionMap \subseteq Conns /\ m_nextConnId \in Nat
  BY DEF TypeOK, Conn, Queues, Task

\* Loops, connections and the listening socket among the numbers.
LEMMA Numbers ==
    /\ base \in Loops /\ listenFd \in FdNums /\ -1 \notin FdNums
    /\ Conns \subseteq Nat /\ FdNums \subseteq Nat /\ Loops \subseteq Nat
    /\ IsFiniteSet(Conns) /\ IsFiniteSet(FdNums)
  <1>1. MaxThreads \in Nat /\ MaxConns \in Nat /\ FdLimit \in Nat /\ FdLimit >= 2
    BY TcpServerAssumption
  <1>2. IsFiniteSet(1..MaxConns) /\ IsFiniteSet(1..FdLimit)
    BY <1>1, FS_Interval
  <1> QED BY <1>1, <1>2 DEF base, listenFd, Conns, FdNums, Loops

\* The process has no descriptor left when each number is in use.
LEMMA Full ==
    ASSUME fds \subseteq FdNums
    PROVE  full <=> fds = FdNums
  <1>1. FdLimit \in Nat
    BY TcpServerAssumption
  <1>2. IsFiniteSet(FdNums) /\ Cardinality(FdNums) = FdLimit
    <2>1. IsFiniteSet(1..FdLimit) /\ Cardinality(1..FdLimit) = IF 1 > FdLimit THEN 0 ELSE FdLimit - 1 + 1
      BY <1>1, FS_Interval
    <2> QED BY <1>1, <2>1 DEF FdNums
  <1>3. Cardinality(FdNums) = Cardinality(fds) => FdNums = fds
    BY <1>2, FS_Subset
  <1> QED BY <1>2, <1>3 DEF full

\* The kernel's answer is a number not in use.
LEMMA LowestFree ==
    ASSUME fds \subseteq FdNums, ~full
    PROVE  lowestFree \in FdNums \ fds
  <1> DEFINE T == FdNums \ fds
             R == OpToRel(<, Nat)
  <1>1. T # {} /\ T \subseteq Nat
    BY Full, Numbers
  <1>2. IsWellFoundedOn(R, Nat)
    BY NatLessThanWellFounded
  <1>3. \A u, v \in Nat : u < v => <<u, v>> \in R
    BY DEF OpToRel
  <1> HIDE DEF R, T
  <1>4. PICK f \in T : \A g \in T : ~(<<g, f>> \in R)
    BY <1>1, <1>2, WFMin
  <1>5. \A g \in T : f <= g
    <2> TAKE g \in T
    <2>1. f \in Nat /\ g \in Nat /\ ~(g < f)
      BY <1>1, <1>3, <1>4
    <2> QED BY <2>1
  <1> QED BY <1>4, <1>5 DEF lowestFree, T

\* The invariant says what Consistent does.
LEMMA IInvConsistent == IInv => Consistent
  <1> SUFFICES ASSUME IInv, running PROVE OneTaskEach /\ OneOwnerPerFd /\ DealtInTurn
    BY DEF IInv, Consistent
  <1>1. TypeOK /\ Running /\ base \in Loops
    BY Numbers DEF IInv
  <1>2. OneTaskEach
    <2> SUFFICES ASSUME NEW c \in Conns
                 PROVE  /\ due(conn[c].loop, "destroy", c) =
                             (IF c \in live /\ c \notin m_connectionMap THEN 1 ELSE 0)
                        /\ (serverAlive = "yes" => due(base, "remove", c) =
                                IF conn[c].state = "closed" /\ c \in m_connectionMap THEN 1 ELSE 0)
                        /\ \A l \in Loops \ {conn[c].loop} : due(l, "destroy", c) = 0
                        /\ c \in m_connectionMap => c \in live
      BY DEF OneTaskEach, due, waiting, count, places
    <2>1. Books(c)
      BY <1>1 DEF Running, Lives
    <2>2. conn[c].loop \in Loops
      BY <1>1, Types DEF Conn
    <2> QED BY <2>1, <2>2 DEF Books, one
  <1>3. OneOwnerPerFd
    <2>1. ownFds \ {listenFd} \subseteq fds \cup {-1}
      BY <1>1 DEF ownFds, Running, Descriptors, Owned, Acceptors
    <2>2. \A l \in Loops : registered[l] \ {listenFd} \subseteq
            {conn[c].fd : c \in {d \in live : conn[d].loop = l}}
      <3> SUFFICES ASSUME NEW l \in Loops, NEW f \in registered[l] \ {listenFd}
                   PROVE  \E c \in live : conn[c].loop = l /\ conn[c].fd = f
        OBVIOUS
      <3>1. PICK c \in Conns : polls(l, f, c)
        BY <1>1 DEF Running, Descriptors, Watched
      <3> QED BY <3>1 DEF polls, live
    <2>3. serverAlive # "no" =>
            \A c \in live : conn[c].fd # m_idleFd \/ shedding # "no"
      BY <1>1 DEF Running, Descriptors, Owned, Acceptors
    <2> QED BY <1>1, <2>1, <2>2, <2>3
          DEF OneOwnerPerFd, Running, Descriptors, Distinct, Owned, Spare
  <1>4. \A l \in Loops : IsFiniteSet({c \in Conns : conn[c].state # "none" /\ conn[c].loop = l})
    BY Numbers, FS_Subset
  <1>5. \A l \in Loops : dealt(l) \in Nat
    BY <1>4, FS_CardinalityType DEF dealt
  <1>6. DealtInTurn
    <2>1. ASSUME NEW l \in Loops, dealt(l) > 0 PROVE l \in 0..m_numThreads
      <3>1. {c \in Conns : conn[c].state # "none" /\ conn[c].loop = l} # {}
        BY <2>1, FS_EmptySet DEF dealt
      <3>2. PICK c \in Conns : conn[c].state # "none" /\ conn[c].loop = l
        BY <3>1
      <3>3. l <= m_numThreads /\ l \in Nat
        BY <1>1, <3>2, Numbers DEF Running, Pool
      <3> QED BY <1>1, <3>3, Types
    <2>2. ASSUME NEW l \in 1..m_numThreads, NEW k \in 1..m_numThreads
          PROVE  dealt(l) <= dealt(k) + 1
      <3>1. m_numThreads \in Nat /\ m_numThreads <= MaxThreads /\ m_next \in Nat /\ MaxThreads \in Nat
        BY <1>1, Types, TcpServerAssumption
      <3>2. l \in Loops /\ k \in Loops
        BY <3>1 DEF Loops
      <3>3. dealt(l) \in Nat /\ dealt(k) \in Nat
        BY <1>5, <3>2
      <3>4. turns(l) = turns(k)
        BY <1>1 DEF Running, Pool
      <3> QED BY <3>1, <3>3, <3>4 DEF turns
    <2> QED BY <2>1, <2>2 DEF DealtInTurn
  <1> QED BY <1>2, <1>3, <1>6

-----------------------------------------------------------------------------
(* What steps leave alone.                                                 *)

\* Connections that neither appear nor change loops leave the turns alone.
LEMMA PoolFrame ==
    ASSUME Pool, UNCHANGED <<poolVars, m_nextConnId>>, m_listening' => m_listening,
           \A c \in Conns : (conn'[c].state = "none" <=> conn[c].state = "none")
                            /\ conn'[c].loop = conn[c].loop
    PROVE  Pool'
  <1>1. \A l : dealt(l)' = dealt(l)
    BY DEF dealt
  <1>2. \A l : turns(l)' = turns(l)
    BY <1>1 DEF turns, poolVars
  <1>3. UNCHANGED <<m_started, m_next, m_numThreads>>
    BY DEF poolVars
  <1>4. \A l, k \in 1..m_numThreads : turns(l)' = turns(k)'
    BY <1>2 DEF Pool
  <1> QED BY <1>3, <1>4 DEF Pool

\* The phases depend on births only.
LEMMA PhasesFrame ==
    ASSUME Phases, UNCHANGED <<acceptVars, m_nextConnId, serverAlive>>,
           m_connectionMap' \subseteq m_connectionMap,
           \A c \in Conns : conn'[c].state = "none" <=> conn[c].state = "none"
    PROVE  Phases'
  BY DEF Phases, acceptVars

\* Descriptors and who knows them.
LEMMA DescriptorsFrame ==
    ASSUME Descriptors, UNCHANGED <<fds, conn, registered, m_idleFd, shedding, serverAlive, stolen>>
    PROVE  Descriptors'
  <1>1. live' = live
    BY DEF live
  <1> QED BY <1>1 DEF Descriptors, Owned, Distinct, Acceptors, Watched, polls, Spare

\* Connections and their tasks.
LEMMA LivesFrame ==
    ASSUME Lives, UNCHANGED <<conn, tasks, m_connectionMap>>,
           serverAlive' = "yes" => serverAlive = "yes"
    PROVE  Lives'
  <1>1. live' = live
    BY DEF live
  <1>2. \A l, w, c : due(l, w, c)' = due(l, w, c)
    BY DEF due
  <1>3. \A c \in Conns : Books(c)'
    BY <1>1, <1>2 DEF Lives, Books, one
  <1>4. \A c \in Conns : Mapped(c)'
    BY DEF Lives, Mapped
  <1> QED BY <1>3, <1>4 DEF Lives

\* Nothing is disturbed by an end that names another reason.
LEMMA AbortStep ==
    ASSUME IInv, NEW why, Abort(why),
           why \in {"startedTwice", "accept", "noCallback", "deadServer", "deadRef",
                    "remove", "dtor"}
    PROVE  IInv'
  <1>1. aborted' = why /\ UNCHANGED <<poolVars, acceptVars, connVars, fds, lifeVars>>
    BY DEF Abort
  <1>2. TypeOK'
    BY <1>1 DEF IInv, TypeOK, poolVars, acceptVars, connVars, lifeVars
  <1> QED BY <1>1, <1>2 DEF IInv, running

\* What a step of the invariant's proof has to show when the process goes on.
LEMMA RunningStep ==
    ASSUME TypeOK', Running', aborted' = "no"
    PROVE  IInv'
  BY DEF IInv, running

-----------------------------------------------------------------------------
(* Starting, the backlog and the spare descriptor.                         *)

\* Before the start there are no connections.
LEMMA SetThreadNumStep ==
    ASSUME IInv, NEW n \in 0..MaxThreads, SetThreadNum(n)
    PROVE  IInv'
  <1>1. TypeOK /\ Running /\ aborted = "no" /\ aborted' = "no"
    BY DEF SetThreadNum, IInv, running
  <1>2. /\ m_numThreads' = n /\ ~m_started
        /\ UNCHANGED <<m_started, m_next, acceptVars, connVars, fds, lifeVars>>
    BY DEF SetThreadNum
  <1>3. TypeOK'
    BY <1>1, <1>2 DEF TypeOK, acceptVars, connVars, lifeVars, SetThreadNum
  <1>4. Pool'
    <2>1. m_next = 0 /\ \A c \in Conns : conn[c].state = "none"
      <3>1. m_next = 0 /\ m_nextConnId = 1
        BY <1>1, <1>2 DEF Running, Pool
      <3>2. \A c \in Conns : c >= 1
        BY DEF Conns
      <3> QED BY <1>1, <3>1, <3>2 DEF Running, Phases
    <2>2. \A l : dealt(l)' = Cardinality({})
      BY <1>2, <2>1 DEF dealt, connVars
    <2>3. \A l \in 1..n : turns(l)' = Cardinality({})
      BY <1>2, <2>1, <2>2 DEF turns
    <2> QED BY <1>1, <1>2, <2>1, <2>3 DEF Running, Pool, acceptVars, connVars
  <1>5. Phases' /\ Descriptors' /\ Lives'
    <2>1. UNCHANGED <<acceptVars, connVars, fds, lifeVars>>
      BY <1>2
    <2>2. Phases'
      BY <1>1, <2>1 DEF Running, Phases, acceptVars, connVars, lifeVars
    <2>3. Descriptors'
      BY <1>1, <2>1, DescriptorsFrame DEF Running, acceptVars, connVars, lifeVars
    <2>4. Lives'
      BY <1>1, <2>1, LivesFrame DEF Running, connVars, lifeVars
    <2> QED BY <2>2, <2>3, <2>4
  <1> QED BY <1>1, <1>3, <1>4, <1>5, RunningStep DEF Running

\* start() registers the listening socket.
LEMMA StartStep ==
    ASSUME IInv, Start
    PROVE  IInv'
  <1>1. CASE m_started
    BY <1>1, AbortStep DEF Start
  <1>2. CASE ~m_started
    <2>1. TypeOK /\ Running /\ aborted = "no" /\ aborted' = "no" /\ serverAlive = "yes"
      BY <1>2 DEF Start, IInv, running
    <2>2. /\ m_started' = TRUE /\ m_listening' = TRUE
          /\ registered' = [registered EXCEPT ![base] = @ \cup {listenFd}]
          /\ UNCHANGED <<m_numThreads, m_next, m_idleFd, shedding, backlog, m_nextConnId,
                         m_connectionMap, conn, tasks, fds, lifeVars>>
      BY <1>2 DEF Start
    <2>3. TypeOK'
      <3>1. registered' \in [Loops -> SUBSET FdNums]
        BY <2>1, <2>2, Types, Numbers
      <3> QED BY <2>1, <2>2, <3>1 DEF TypeOK, lifeVars
    <2>4. Pool'
      <3>1. \A l : dealt(l)' = dealt(l)
        BY <2>2 DEF dealt
      <3>2. \A l : turns(l)' = turns(l)
        BY <2>2, <3>1 DEF turns
      <3>3. \A l, k \in 1..m_numThreads : turns(l)' = turns(k)'
        BY <2>1, <3>2 DEF Running, Pool
      <3> QED BY <2>1, <2>2, <3>3 DEF Running, Pool
    <2>5. Phases'
      BY <2>1, <2>2 DEF Running, Phases, lifeVars
    <2>6. Descriptors'
      <3>1. live' = live
        BY <2>2 DEF live
      <3>2. \A l \in Loops : registered'[l] \ {listenFd} = registered[l] \ {listenFd}
        BY <2>1, <2>2, Types
      <3>3. Watched'
        BY <2>1, <2>2, <3>2 DEF Running, Descriptors, Watched, polls
      <3> QED BY <2>1, <2>2, <3>1, <3>3
            DEF Running, Descriptors, Owned, Distinct, Acceptors, Spare, lifeVars
    <2>7. Lives'
      BY <2>1, <2>2, LivesFrame DEF Running, lifeVars
    <2> QED BY <2>1, <2>3, <2>4, <2>5, <2>6, <2>7, RunningStep DEF Running
  <1> QED BY <1>1, <1>2

\* Steps that change the backlog alone: a peer connects, or what it asked for is
\* gone when it is accepted.
LEMMA BacklogStep ==
    ASSUME IInv, Connect \/ HandleReadTransient
    PROVE  IInv'
  <1>1. TypeOK /\ Running /\ aborted = "no" /\ aborted' = "no"
    BY DEF Connect, HandleReadTransient, accepting, IInv, running
  <1>2. UNCHANGED <<poolVars, m_listening, m_idleFd, shedding, connVars, fds, lifeVars>>
    BY DEF Connect, HandleReadTransient
  <1>3. backlog' \in Nat /\ backlog' + m_nextConnId <= MaxConns + 1
    BY <1>1, TcpServerAssumption
      DEF Connect, HandleReadTransient, Running, Phases, TypeOK
  <1>4. TypeOK'
    BY <1>1, <1>2, <1>3 DEF TypeOK, poolVars, connVars, lifeVars
  <1>5. Pool'
    BY <1>1, <1>2, PoolFrame DEF Running, connVars
  <1>6. Phases'
    BY <1>1, <1>2, <1>3 DEF Running, Phases, connVars, lifeVars
  <1>7. Descriptors'
    BY <1>1, <1>2, DescriptorsFrame DEF Running, connVars, lifeVars
  <1>8. Lives'
    BY <1>1, <1>2, LivesFrame DEF Running, connVars, lifeVars
  <1> QED BY <1>1, <1>4, <1>5, <1>6, <1>7, <1>8, RunningStep DEF Running

\* The spare descriptor is given up.
LEMMA EmfileStep ==
    ASSUME IInv, HandleReadEmfile
    PROVE  IInv'
  <1>1. /\ TypeOK /\ Running /\ aborted = "no" /\ aborted' = "no"
        /\ serverAlive = "yes" /\ shedding = "no"
    BY DEF HandleReadEmfile, accepting, IInv, running
  <1>2. /\ fds' = fds \ {m_idleFd} /\ shedding' = "closed"
        /\ UNCHANGED <<poolVars, m_listening, m_idleFd, backlog, connVars, lifeVars>>
    BY DEF HandleReadEmfile, closeFd
  <1>3. TypeOK'
    BY <1>1, <1>2 DEF TypeOK, poolVars, connVars, lifeVars
  <1>4. Pool'
    BY <1>1, <1>2, PoolFrame DEF Running, connVars
  <1>5. Phases'
    BY <1>1, <1>2 DEF Running, Phases, connVars, lifeVars
  <1>6. Descriptors'
    <2>1. UNCHANGED <<m_idleFd, conn, registered, serverAlive, stolen>> /\ live' = live
      BY <1>2 DEF connVars, lifeVars, live
    <2>2. /\ m_idleFd \in (fds \cup {-1}) \ {listenFd} /\ listenFd \in fds
          /\ \A c \in live : conn[c].fd # m_idleFd
      BY <1>1 DEF Running, Descriptors, Acceptors
    <2>3. Owned' /\ Distinct' /\ Watched'
      BY <1>1, <1>2, <2>1, <2>2 DEF Running, Descriptors, Owned, Distinct, Watched, polls
    <2>4. Acceptors'
      BY <1>2, <2>1, <2>2 DEF Acceptors
    <2>5. stolen \/ fds' # FdNums
      BY <1>1, <1>2, <2>2, Types DEF Running, Descriptors, Spare
    <2>6. Spare'
      BY <1>1, <2>1, <2>5 DEF Running, Descriptors, Spare
    <2> QED BY <2>3, <2>4, <2>6 DEF Descriptors
  <1>7. Lives'
    BY <1>1, <1>2, LivesFrame DEF Running, connVars, lifeVars
  <1> QED BY <1>1, <1>3, <1>4, <1>5, <1>6, <1>7, RunningStep DEF Running

\* A shorter backlog leaves the bound standing.
LEMMA Fewer ==
    ASSUME NEW a \in Nat, NEW b \in Nat, NEW n \in Nat, NEW m \in Nat, a <= b, b + n <= m + 1
    PROVE  a + n <= m + 1
  OBVIOUS

\* One connection is accepted with it and dropped.
LEMMA ShedStep ==
    ASSUME IInv, ShedOne
    PROVE  IInv'
  <1>1. /\ TypeOK /\ Running /\ aborted = "no" /\ aborted' = "no"
        /\ serverAlive = "yes" /\ shedding = "closed" /\ shedding' = "shed"
    BY DEF ShedOne, accepting, IInv, running
  <1>2. UNCHANGED <<poolVars, m_listening, m_idleFd, connVars, fds, lifeVars>>
    BY DEF ShedOne
  <1>3. backlog' \in Nat /\ backlog' <= backlog
    BY <1>1 DEF ShedOne, TypeOK
  <1>4. TypeOK'
    BY <1>1, <1>2, <1>3 DEF TypeOK, poolVars, connVars, lifeVars
  <1>5. Pool'
    BY <1>1, <1>2, PoolFrame DEF Running, connVars
  <1>6. Phases'
    <2>1. backlog' + m_nextConnId' <= MaxConns + 1
      <3>1. m_nextConnId' = m_nextConnId
        BY <1>2 DEF connVars
      <3>2. m_nextConnId \in Nat /\ backlog \in Nat
        BY <1>1 DEF TypeOK
      <3>3. backlog + m_nextConnId <= MaxConns + 1
        BY <1>1 DEF Running, Phases
      <3>4. MaxConns \in Nat
        BY TcpServerAssumption
      <3>5. backlog' + m_nextConnId <= MaxConns + 1
        BY <1>3, <3>2, <3>3, <3>4, Fewer
      <3> QED BY <3>1, <3>5
    <2> QED BY <1>1, <1>2, <2>1 DEF Running, Phases, connVars, lifeVars
  <1>7. Descriptors'
    <2>1. UNCHANGED <<m_idleFd, conn, registered, serverAlive, stolen, fds>> /\ live' = live
      BY <1>2 DEF connVars, lifeVars, live
    <2> QED BY <1>1, <2>1 DEF Running, Descriptors, Owned, Distinct, Acceptors, Watched, polls, Spare
  <1>8. Lives'
    BY <1>1, <1>2, LivesFrame DEF Running, connVars, lifeVars
  <1> QED BY <1>1, <1>4, <1>5, <1>6, <1>7, <1>8, RunningStep DEF Running

\* The spare descriptor is opened again, unless somebody took its place.
LEMMA ReopenStep ==
    ASSUME IInv, ReopenSpare
    PROVE  IInv'
  <1>1. /\ TypeOK /\ Running /\ aborted = "no" /\ aborted' = "no"
        /\ serverAlive = "yes" /\ shedding = "shed" /\ shedding' = "no" /\ reopen
    BY DEF ReopenSpare, accepting, IInv, running
  <1>2. UNCHANGED <<poolVars, m_listening, backlog, connVars, lifeVars>>
    BY DEF ReopenSpare
  <1>3. fds \subseteq FdNums
    BY <1>1, Types
  <1>4. \/ m_idleFd' = -1 /\ fds' = fds /\ stolen
        \/ m_idleFd' \in FdNums \ fds /\ fds' = fds \cup {m_idleFd'}
    <2>1. CASE full
      BY <1>1, <1>3, <2>1, Full DEF reopen, Running, Descriptors, Spare
    <2>2. CASE ~full
      BY <1>1, <1>3, <2>2, LowestFree DEF reopen
    <2> QED BY <2>1, <2>2
  <1>5. TypeOK'
    BY <1>1, <1>2, <1>4 DEF TypeOK, poolVars, connVars, lifeVars
  <1>6. Pool'
    BY <1>1, <1>2, PoolFrame DEF Running, connVars
  <1>7. Phases'
    BY <1>1, <1>2 DEF Running, Phases, connVars, lifeVars
  <1>8. Descriptors'
    <2>1. UNCHANGED <<conn, registered, serverAlive, stolen>> /\ live' = live
      BY <1>2 DEF connVars, lifeVars, live
    <2>2. listenFd \in fds /\ \A c \in live : conn[c].fd \in fds
      BY <1>1 DEF Running, Descriptors, Owned, Acceptors
    <2>3. Owned' /\ Distinct' /\ Watched'
      BY <1>1, <1>4, <2>1, <2>2 DEF Running, Descriptors, Owned, Distinct, Watched, polls
    <2>4. Acceptors'
      <3>1. -1 \notin FdNums /\ listenFd # -1
        BY Numbers
      <3>2. m_idleFd' \notin fds
        BY <1>3, <1>4, <3>1
      <3> QED BY <1>4, <2>1, <2>2, <3>1, <3>2 DEF Acceptors
    <2>5. Spare'
      BY <1>1, <1>4, <2>1, Numbers DEF Spare
    <2> QED BY <2>3, <2>4, <2>5 DEF Descriptors
  <1>9. Lives'
    BY <1>1, <1>2, LivesFrame DEF Running, connVars, lifeVars
  <1> QED BY <1>1, <1>5, <1>6, <1>7, <1>8, <1>9, RunningStep DEF Running

\* Other code opens a descriptor.
LEMMA OtherOpensStep ==
    ASSUME IInv, OtherOpens
    PROVE  IInv'
  <1>1. TypeOK /\ Running /\ aborted = "no" /\ aborted' = "no" /\ ~full
    BY DEF OtherOpens, IInv, running
  <1>2. /\ fds' = fds \cup {lowestFree} /\ stolen' = (stolen \/ shedding # "no")
        /\ UNCHANGED <<poolVars, acceptVars, connVars, serverAlive>>
    BY DEF OtherOpens
  <1>3. lowestFree \in FdNums
    BY <1>1, Types, LowestFree
  <1>4. TypeOK'
    BY <1>1, <1>2, <1>3 DEF TypeOK, poolVars, connVars, acceptVars
  <1>5. Pool'
    BY <1>1, <1>2, PoolFrame DEF Running, connVars, acceptVars
  <1>6. Phases'
    BY <1>1, <1>2, PhasesFrame DEF Running, connVars
  <1>7. Descriptors'
    <2>1. UNCHANGED <<conn, registered, serverAlive, m_idleFd, shedding>> /\ live' = live
      BY <1>2 DEF connVars, acceptVars, live
    <2>2. Owned' /\ Distinct' /\ Watched'
      BY <1>1, <1>2, <2>1 DEF Running, Descriptors, Owned, Distinct, Watched, polls
    <2>3. Acceptors' /\ Spare'
      BY <1>1, <1>2, <2>1 DEF Running, Descriptors, Acceptors, Spare
    <2> QED BY <2>2, <2>3 DEF Descriptors
  <1>8. Lives'
    BY <1>1, <1>2, LivesFrame DEF Running, connVars
  <1> QED BY <1>1, <1>4, <1>5, <1>6, <1>7, <1>8, RunningStep DEF Running

\* Other code closes one of its own.
LEMMA OtherClosesStep ==
    ASSUME IInv, NEW f, OtherCloses(f)
    PROVE  IInv'
  <1>1. TypeOK /\ Running /\ aborted = "no" /\ aborted' = "no" /\ f \in fds \ ownFds
    BY DEF OtherCloses, IInv, running
  <1>2. /\ fds' = fds \ {f}
        /\ UNCHANGED <<poolVars, acceptVars, connVars, lifeVars>>
    BY DEF OtherCloses, closeFd
  <1>3. fds' \subseteq fds /\ fds \subseteq FdNums
    BY <1>1, <1>2, Types
  <1>4. TypeOK'
    BY <1>1, <1>2 DEF TypeOK, poolVars, connVars, acceptVars, lifeVars
  <1>5. Pool'
    BY <1>1, <1>2, PoolFrame DEF Running, connVars, acceptVars
  <1>6. Phases'
    BY <1>1, <1>2, PhasesFrame DEF Running, connVars, lifeVars
  <1>7. Descriptors'
    <2>1. UNCHANGED <<conn, registered, serverAlive, m_idleFd, shedding, stolen>> /\ live' = live
      BY <1>2 DEF connVars, acceptVars, lifeVars, live
    <2>2. /\ \A c \in live : conn[c].fd # f
          /\ serverAlive # "no" => f # listenFd /\ (shedding = "no" => f # m_idleFd)
      BY <1>1 DEF ownFds
    <2>3. Owned' /\ Distinct' /\ Watched'
      BY <1>1, <1>2, <2>1, <2>2 DEF Running, Descriptors, Owned, Distinct, Watched, polls
    <2>4. Acceptors'
      BY <1>1, <1>2, <2>1, <2>2 DEF Running, Descriptors, Acceptors
    <2>5. Spare'
      BY <1>1, <1>3, <2>1 DEF Running, Descriptors, Spare
    <2> QED BY <2>3, <2>4, <2>5 DEF Descriptors
  <1>8. Lives'
    BY <1>1, <1>2, LivesFrame DEF Running, connVars, lifeVars
  <1> QED BY <1>1, <1>4, <1>5, <1>6, <1>7, <1>8, RunningStep DEF Running

-----------------------------------------------------------------------------
(* The end of the server.                                                  *)

\* The destructor begins: nothing is accepted any more.
LEMMA BeginDestructStep ==
    ASSUME IInv, BeginDestruct
    PROVE  IInv'
  <1>1. /\ TypeOK /\ Running /\ aborted = "no" /\ aborted' = "no"
        /\ serverAlive = "yes" /\ shedding = "no" /\ serverAlive' = "destructing"
        /\ m_listening' = FALSE
    BY DEF BeginDestruct, IInv, running
  <1>2. UNCHANGED <<poolVars, m_idleFd, shedding, backlog, connVars, fds, stolen>>
    BY DEF BeginDestruct
  <1>3. TypeOK'
    BY <1>1, <1>2 DEF TypeOK, poolVars, connVars
  <1>4. Pool'
    BY <1>1, <1>2, PoolFrame DEF Running, connVars
  <1>5. Phases'
    BY <1>1, <1>2 DEF Running, Phases, connVars
  <1>6. Descriptors'
    <2>1. UNCHANGED <<conn, registered, m_idleFd, shedding, stolen, fds>> /\ live' = live
      BY <1>2 DEF connVars, live
    <2> QED BY <1>1, <2>1 DEF Running, Descriptors, Owned, Distinct, Acceptors, Watched, polls, Spare
  <1>7. Lives'
    BY <1>1, <1>2, LivesFrame DEF Running, connVars
  <1> QED BY <1>1, <1>3, <1>4, <1>5, <1>6, <1>7, RunningStep DEF Running

\* The acceptor's descriptors are closed with the server.
LEMMA EndDestructStep ==
    ASSUME IInv, EndDestruct
      PROVE  IInv'
  <1>1. CASE Poller = "poll" /\ listenFd \notin registered[base]
    BY <1>1, AbortStep DEF EndDestruct
  <1>2. CASE ~(Poller = "poll" /\ listenFd \notin registered[base])
    <2>1. /\ TypeOK /\ Running /\ aborted = "no" /\ aborted' = "no"
          /\ serverAlive = "destructing" /\ serverAlive' = "no"
          /\ m_connectionMap = {} /\ backlog' = 0
          /\ fds' = fds \ {listenFd, m_idleFd}
          /\ registered' = [registered EXCEPT ![base] = @ \ {listenFd}]
      BY <1>2 DEF EndDestruct, IInv, running
    <2>2. UNCHANGED <<poolVars, m_listening, m_idleFd, shedding, m_nextConnId,
                     m_connectionMap, conn, tasks, stolen>>
      BY <1>2 DEF EndDestruct
    <2>3. /\ registered' \in [Loops -> SUBSET FdNums] /\ fds \subseteq FdNums
          /\ \A l \in Loops : registered'[l] \ {listenFd} = registered[l] \ {listenFd}
      BY <2>1, Types, Numbers
    <2>4. TypeOK'
      BY <2>1, <2>2, <2>3 DEF TypeOK, poolVars
    <2>5. Pool'
      BY <2>1, <2>2, PoolFrame DEF Running
    <2>6. Phases'
      <3>1. shedding = "no" /\ ~m_listening /\ m_nextConnId >= 1
            /\ backlog + m_nextConnId <= MaxConns + 1
        BY <2>1 DEF Running, Phases
      <3>2. 0 + m_nextConnId <= MaxConns + 1
        BY <2>1, <3>1, TcpServerAssumption DEF TypeOK
      <3> QED BY <2>1, <2>2, <3>1, <3>2 DEF Running, Phases
    <2>7. Descriptors'
      <3>1. shedding = "no" /\ live' = live
        BY <2>1, <2>2 DEF Running, Phases, live
      <3>2. Owned' /\ Distinct' /\ Watched'
        BY <2>1, <2>2, <2>3, <3>1
          DEF Running, Descriptors, Owned, Distinct, Acceptors, Watched, polls
      <3>3. Acceptors' /\ Spare'
        BY <2>1, <2>2, <2>3, <3>1 DEF Running, Descriptors, Acceptors, Spare
      <3> QED BY <3>2, <3>3 DEF Descriptors
    <2>8. Lives'
      BY <2>1, <2>2, LivesFrame DEF Running
    <2> QED BY <2>1, <2>4, <2>5, <2>6, <2>7, <2>8, RunningStep DEF Running
  <1> QED BY <1>1, <1>2

-----------------------------------------------------------------------------
(* Steps of one connection.                                                *)

\* A connection goes on to another state.
LEMMA Moves ==
    ASSUME conn \in [Conns -> Conn], NEW c \in Conns, NEW s \in States,
           conn' = [conn EXCEPT ![c].state = s]
    PROVE  /\ conn' \in [Conns -> Conn]
           /\ conn'[c].state = s /\ conn'[c].loop = conn[c].loop /\ conn'[c].fd = conn[c].fd
           /\ \A d \in Conns \ {c} : conn'[d] = conn[d]
  BY DEF Conn

\* Connections that are neither born nor dying leave the descriptors alone.
LEMMA DescriptorsMove ==
    ASSUME Descriptors, UNCHANGED <<fds, registered, m_idleFd, shedding, serverAlive, stolen>>,
           \A c \in Conns : conn'[c].fd = conn[c].fd /\ conn'[c].loop = conn[c].loop
                /\ (conn'[c].state \in {"up", "closed"} <=> conn[c].state \in {"up", "closed"})
    PROVE  Descriptors' /\ live' = live
  <1>1. live' = live
    BY DEF live
  <1>2. Owned' /\ Distinct' /\ Acceptors' /\ Spare'
    <2>1. \A c \in live : c \in Conns
      BY DEF live
    <2> QED BY <1>1, <2>1 DEF Descriptors, Owned, Distinct, Acceptors, Spare
  <1>3. Watched'
    BY DEF Descriptors, Watched, polls
  <1> QED BY <1>1, <1>2, <1>3 DEF Descriptors

\* Connections that die give up their descriptors, which their poller has
\* forgotten.
LEMMA DescriptorsDie ==
    ASSUME Descriptors, fds \subseteq FdNums, NEW D, D \subseteq live,
           UNCHANGED <<m_idleFd, shedding, serverAlive, stolen>>,
           live' = live \ D,
           \A c \in Conns \ D : conn'[c] = conn[c],
           fds' = fds \ {conn[c].fd : c \in D},
           \A l \in Loops : registered'[l] \subseteq registered[l],
           \A c \in D : /\ conn[c].fd \notin registered'[conn[c].loop]
                        /\ serverAlive = "yes" => conn[c].fd # listenFd
    PROVE  Descriptors'
  <1>1. live \subseteq Conns /\ \A c \in live' : c \in live \ D /\ conn'[c] = conn[c]
    BY DEF live
  <1>2. \A c \in live', d \in D : conn[c].fd # conn[d].fd \/ conn[c].fd = listenFd
    BY <1>1 DEF Descriptors, Distinct
  <1>3. Owned'
    BY <1>1, <1>2 DEF Descriptors, Owned
  <1>4. Distinct'
    BY <1>1 DEF Descriptors, Distinct
  <1>5. Acceptors'
    <2>1. ASSUME serverAlive = "yes" PROVE listenFd \in fds'
      BY <2>1 DEF Descriptors, Owned, Acceptors
    <2>2. ASSUME serverAlive # "no", shedding = "no"
          PROVE  /\ m_idleFd \in (fds' \cup {-1}) \ {listenFd}
                 /\ \A c \in live' : conn'[c].fd # m_idleFd
      BY <1>1, <2>2 DEF Descriptors, Acceptors
    <2> QED BY <2>1, <2>2 DEF Acceptors
  <1>6. Watched'
    <2> SUFFICES ASSUME NEW l \in Loops, NEW f \in registered'[l] \ {listenFd}
                 PROVE  \E c \in Conns : polls(l, f, c)'
      BY DEF Watched
    <2>1. PICK c \in Conns : polls(l, f, c)
      BY DEF Descriptors, Watched
    <2>2. c \notin D
      BY <2>1 DEF polls
    <2> QED BY <2>1, <2>2 DEF polls
  <1>7. Spare'
    BY DEF Descriptors, Spare
  <1> QED BY <1>3, <1>4, <1>5, <1>6, <1>7 DEF Descriptors

\* The books of a connection that nothing happens to.
LEMMA BooksFrame ==
    ASSUME NEW c \in Conns, Books(c), conn'[c] = conn[c],
           c \in m_connectionMap' <=> c \in m_connectionMap,
           serverAlive' = "yes" => serverAlive = "yes",
           \A k \in Loops : \A w : due(k, w, c)' = due(k, w, c)
    PROVE  Books(c)'
  <1>1. c \in live' <=> c \in live
    BY DEF live
  <1> QED BY <1>1, Numbers DEF Books, one

\* The connection whose task comes first in a loop.
LEMMA FirstTask ==
    ASSUME TypeOK, NEW l \in Loops, tasks[l] # <<>>
    PROVE  LET t == Head(tasks[l])
           IN  /\ t \in Task /\ t.conn \in Conns /\ t = task(t.what, t.conn)
               /\ due(l, t.what, t.conn) \in Nat \ {0}
  <1> DEFINE t == Head(tasks[l])
  <1>1. tasks[l] \in Seq(Task)
    BY Types DEF Queues
  <1>2. t \in Task
    BY <1>1
  <1>3. t.conn \in Conns /\ t = task(t.what, t.conn)
    BY <1>2 DEF Task, task
  <1>4. count(tasks[l], t) > 0
    BY <1>1, CountHead
  <1>5. count(tasks[l], t) \in Nat
    BY <1>1, CountType
  <1> HIDE DEF t
  <1>6. due(l, t.what, t.conn) = count(tasks[l], t)
    BY <1>3 DEF due
  <1> QED BY <1>2, <1>3, <1>4, <1>5, <1>6 DEF t

\* Tasks by kind and connection, once more.
LEMMA IsTask ==
    ASSUME NEW c \in Conns
    PROVE  /\ task("remove", c) \in Task
           /\ task("destroy", c) \in Task
  BY DEF Task, task

-----------------------------------------------------------------------------
(* A connection closes.                                                    *)

\* The task that a close leaves behind, for either place of the connection.
LEMMA CloseQueues ==
    ASSUME TypeOK, Running, running, NEW c \in Conns, CloseEvent(c), aborted' = "no"
    PROVE  /\ serverAlive # "no" /\ conn' = [conn EXCEPT ![c].state = "closed"]
           /\ \/ /\ conn[c].loop = base /\ c \in m_connectionMap /\ serverAlive = "yes"
                 /\ m_connectionMap' = m_connectionMap \ {c}
                 /\ tasks' = pushed(tasks, base, task("destroy", c))
              \/ /\ conn[c].loop # base /\ m_connectionMap' = m_connectionMap
                 /\ tasks' = pushed(tasks, base, task("remove", c))
           /\ UNCHANGED <<poolVars, acceptVars, m_nextConnId, registered, fds, lifeVars>>
  <1>1. serverAlive # "no" /\ "noCloseCallback" \notin Faults
    BY DEF CloseEvent, Abort
  <1>2. conn[c].state = "up" /\ (conn[c].loop = base => baseIsFree)
    BY DEF CloseEvent
  <1>3. /\ conn' = [conn EXCEPT ![c].state = "closed"]
        /\ UNCHANGED <<poolVars, acceptVars, m_nextConnId, registered, fds, lifeVars>>
        /\ IF conn[c].loop = base THEN removeConnectionInLoop(c, tasks)
           ELSE queueTask(base, task("remove", c)) /\ UNCHANGED m_connectionMap
    BY <1>1 DEF CloseEvent
  <1>4. CASE conn[c].loop = base
    <2>1. serverAlive = "yes"
      BY <1>1, <1>2, <1>4 DEF baseIsFree, TypeOK
    <2>2. c \in m_connectionMap
      BY <1>2, <2>1 DEF Running, Lives, Mapped
    <2> QED BY <1>1, <1>3, <1>4, <2>1, <2>2 DEF removeConnectionInLoop, pushed
  <1>5. CASE conn[c].loop # base
    BY <1>1, <1>3, <1>5 DEF queueTask, pushed
  <1> QED BY <1>4, <1>5

\* No close finds the map without its connection.
LEMMA CloseFinds ==
    ASSUME TypeOK, Running, running, NEW c \in Conns, CloseEvent(c), aborted' # "no"
    PROVE  Abort("noCallback") \/ Abort("deadServer")
  <1>1. CASE "noCloseCallback" \in Faults \/ serverAlive = "no"
    BY <1>1 DEF CloseEvent
  <1>2. CASE "noCloseCallback" \notin Faults /\ serverAlive # "no"
    <2>1. conn[c].state = "up" /\ (conn[c].loop = base => baseIsFree) /\ conn[c].loop = base
          /\ removeConnectionInLoop(c, tasks)
      BY <1>2 DEF CloseEvent, running
    <2>2. serverAlive = "yes"
      BY <1>2, <2>1 DEF baseIsFree, TypeOK
    <2>3. c \in m_connectionMap
      BY <2>1, <2>2 DEF Running, Lives, Mapped
    <2> QED BY <2>1, <2>3 DEF removeConnectionInLoop, running
  <1> QED BY <1>1, <1>2

\* handleClose hands the connection over to its removal.
LEMMA CloseStep ==
    ASSUME IInv, NEW c \in Conns, CloseEvent(c)
    PROVE  IInv'
  <1>1. TypeOK /\ Running /\ aborted = "no" /\ running /\ conn[c].state = "up"
    BY DEF CloseEvent, IInv, running
  <1>2. CASE aborted' # "no"
    BY <1>1, <1>2, CloseFinds, AbortStep
  <1>3. CASE aborted' = "no"
    <2>1. /\ serverAlive # "no" /\ conn' = [conn EXCEPT ![c].state = "closed"]
          /\ UNCHANGED <<poolVars, acceptVars, m_nextConnId, registered, fds, lifeVars>>
      BY <1>1, <1>3, CloseQueues
    <2>2. /\ conn' \in [Conns -> Conn]
          /\ conn'[c].state = "closed" /\ conn'[c].loop = conn[c].loop /\ conn'[c].fd = conn[c].fd
          /\ \A d \in Conns \ {c} : conn'[d] = conn[d]
      BY <1>1, <2>1, Types, Moves DEF States
    <2>3. base \in Loops /\ tasks \in Queues /\ m_connectionMap' \subseteq m_connectionMap
      BY <1>1, <1>3, CloseQueues, Types, Numbers
    <2>4. PICK t \in {task("destroy", c), task("remove", c)} :
            /\ tasks' = pushed(tasks, base, t)
            /\ t = task("destroy", c) => /\ conn[c].loop = base /\ c \in m_connectionMap
                                         /\ serverAlive = "yes"
                                         /\ m_connectionMap' = m_connectionMap \ {c}
            /\ t = task("remove", c) => conn[c].loop # base /\ m_connectionMap' = m_connectionMap
      BY <1>1, <1>3, CloseQueues, TaskParts
    <2>5. t \in Task
      BY <2>4, IsTask
    <2>6. tasks' \in Queues
      BY <2>3, <2>4, <2>5, Push
    <2>7. \A k \in Loops : \A u :
            count(tasks'[k], u) = IF k = base /\ t = u THEN count(tasks[k], u) + 1
                                  ELSE count(tasks[k], u)
      <3>1. \A k \in Loops : \A u : count(pushed(tasks, base, t)[k], u) =
              IF k = base /\ t = u THEN count(tasks[k], u) + 1 ELSE count(tasks[k], u)
        BY <2>3, <2>5, Push
      <3> QED BY <2>4, <3>1
    <2>8. TypeOK'
      BY <1>1, <1>3, <2>1, <2>2, <2>3, <2>6
        DEF TypeOK, Conn, Queues, Task, poolVars, acceptVars, lifeVars
    <2>9. Pool'
      BY <1>1, <2>1, <2>2, PoolFrame DEF Running, acceptVars
    <2>10. Phases'
      BY <1>1, <2>1, <2>2, <2>3, PhasesFrame DEF Running, lifeVars
    <2>11. Descriptors' /\ live' = live
      BY <1>1, <2>1, <2>2, DescriptorsMove DEF Running, acceptVars, lifeVars
    <2>12. \A d \in Conns : Books(d) /\ Mapped(d)
      BY <1>1 DEF Running, Lives
    <2>13. ASSUME NEW d \in Conns \ {c} PROVE Books(d)'
      <3>1. \A k \in Loops : \A w : due(k, w, d)' = due(k, w, d)
        <4>1. \A w : t # task(w, d)
          BY <2>4, TaskParts
        <4> QED BY <2>7, <4>1 DEF due
      <3>2. d \in m_connectionMap' <=> d \in m_connectionMap
        BY <2>4
      <3> QED BY <2>1, <2>2, <2>12, <3>1, <3>2, BooksFrame DEF lifeVars
    <2>14. Books(c)'
      <3>1. c \in live
        BY <1>1 DEF live
      <3>2. CASE t = task("destroy", c)
        <4>1. \A k \in Loops : \A w : due(k, w, c)' =
                IF k = base /\ w = "destroy" THEN due(k, w, c) + 1 ELSE due(k, w, c)
          BY <2>7, <3>2, TaskParts DEF due
        <4> QED BY <1>1, <2>1, <2>2, <2>3, <2>4, <2>11, <2>12, <3>1, <3>2, <4>1
              DEF Books, one, lifeVars
      <3>3. CASE t = task("remove", c)
        <4>1. \A k \in Loops : \A w : due(k, w, c)' =
                IF k = base /\ w = "remove" THEN due(k, w, c) + 1 ELSE due(k, w, c)
          BY <2>7, <3>3, TaskParts DEF due
        <4>2. m_connectionMap' = m_connectionMap
          BY <2>4, <3>3
        <4>3. serverAlive' = serverAlive
          BY <2>1 DEF lifeVars
        <4>4. serverAlive = "yes" => c \in m_connectionMap
          BY <1>1, <2>12 DEF Mapped
        <4> QED BY <1>1, <2>2, <2>3, <2>11, <2>12, <3>1, <4>1, <4>2, <4>3, <4>4 DEF Books, one
      <3> QED BY <2>4, <3>2, <3>3
    <2>15. \A d \in Conns : Mapped(d)'
      <3>1. serverAlive' = serverAlive /\ conn[c].fd # listenFd
        BY <2>1 DEF lifeVars, CloseEvent
      <3> QED BY <2>2, <2>4, <2>12, <3>1 DEF Mapped
    <2>17. Lives'
      BY <2>13, <2>14, <2>15 DEF Lives
    <2> QED BY <1>3, <2>8, <2>9, <2>10, <2>11, <2>17, RunningStep DEF Running
  <1> QED BY <1>2, <1>3

-----------------------------------------------------------------------------
(* A loop runs a task.                                                     *)

\* A step that touches the books of one connection only.
LEMMA LivesStep ==
    ASSUME Lives, NEW c \in Conns, serverAlive' = serverAlive,
           \A d \in Conns \ {c} : conn'[d] = conn[d],
           \A d \in Conns \ {c} : d \in m_connectionMap' <=> d \in m_connectionMap,
           \A d \in Conns \ {c} : \A k \in Loops : \A w : due(k, w, d)' = due(k, w, d),
           Books(c)', Mapped(c)'
    PROVE  Lives'
  <1>1. ASSUME NEW d \in Conns \ {c} PROVE Books(d)' /\ Mapped(d)'
    <2>1. Books(d) /\ Mapped(d)
      BY DEF Lives
    <2>2. Books(d)'
      BY <2>1, BooksFrame
    <2>3. Mapped(d)'
      BY <2>1 DEF Mapped
    <2> QED BY <2>2, <2>3
  <1> QED BY <1>1 DEF Lives

\* The queues after the first task of loop l, which is about c, has been taken.
LEMMA Taken ==
    ASSUME TypeOK, NEW l \in Loops, tasks[l] # <<>>, NEW v, NEW c \in Conns,
           Head(tasks[l]) = task(v, c), Lives
    PROVE  /\ popped(tasks, l) \in Queues
           /\ \A k \in Loops : \A w : \A d : count(popped(tasks, l)[k], task(w, d)) =
                IF k = l /\ w = v /\ d = c THEN due(k, w, d) - 1 ELSE due(k, w, d)
           /\ due(l, v, c) \in Nat \ {0}
  <1>1. tasks \in Queues /\ tasks[l] \in Seq(Task)
    BY Types DEF Queues
  <1>2. popped(tasks, l) \in Queues
    BY <1>1, Pop
  <1>3. \A k \in Loops : \A u :
          count(popped(tasks, l)[k], u) =
            IF k = l /\ Head(tasks[l]) = u THEN count(tasks[k], u) - 1 ELSE count(tasks[k], u)
    BY <1>1, Pop
  <1>4. ASSUME NEW k \in Loops, NEW w, NEW d
        PROVE  count(popped(tasks, l)[k], task(w, d)) =
                 IF k = l /\ w = v /\ d = c THEN due(k, w, d) - 1 ELSE due(k, w, d)
    BY <1>3, TaskParts DEF due
  <1>6. due(l, v, c) \in Nat \ {0}
    <2>1. count(tasks[l], task(v, c)) > 0
      BY <1>1, CountHead
    <2>2. count(tasks[l], task(v, c)) \in Nat
      BY <1>1, CountType
    <2> QED BY <2>1, <2>2 DEF due
  <1> QED BY <1>2, <1>4, <1>6

\* A removal that has come to its turn finds its connection in the map.
LEMMA RemoveFinds ==
    ASSUME TypeOK, Running, NEW l \in Loops, tasks[l] # <<>>, NEW c \in Conns,
           Head(tasks[l]) = task("remove", c), serverAlive = "yes"
    PROVE  l = base /\ conn[c].state = "closed" /\ c \in m_connectionMap
  <1>1. Books(c)
    BY DEF Running, Lives
  <1>2. due(l, "remove", c) \in Nat \ {0}
    BY Taken DEF Running
  <1>3. l = base
    BY <1>1, <1>2 DEF Books
  <1> QED BY <1>1, <1>2, <1>3 DEF Books, one

\* removeConnectionInLoop as a task of the base loop.
LEMMA RemoveStep ==
    ASSUME TypeOK, Running, aborted = "no", NEW l \in Loops, tasks[l] # <<>>, NEW c \in Conns,
           Head(tasks[l]) = task("remove", c), serverAlive = "yes",
           NEW rest, rest = popped(tasks, l),
           removeConnectionInLoop(c, rest),
           UNCHANGED <<conn, registered, fds, poolVars, acceptVars, m_nextConnId, lifeVars>>
    PROVE  IInv'
  <1>1. l = base /\ conn[c].state = "closed" /\ c \in m_connectionMap /\ c \in live
    BY RemoveFinds DEF live
  <1> DEFINE m == conn[c].loop
  <1>2. /\ m_connectionMap' = m_connectionMap \ {c} /\ aborted' = "no"
        /\ tasks' = pushed(rest, m, task("destroy", c))
    BY <1>1 DEF removeConnectionInLoop, pushed
  <1>3. m \in Loops /\ task("destroy", c) \in Task
    BY Types, IsTask DEF Conn
  <1>4. rest \in Queues
    BY Taken DEF Running
  <1>5. \A k \in Loops : \A w : \A d : count(rest[k], task(w, d)) =
          IF k = l /\ w = "remove" /\ d = c THEN due(k, w, d) - 1 ELSE due(k, w, d)
    BY Taken DEF Running
  <1> HIDE DEF m
  <1>6. tasks' \in Queues
    BY <1>2, <1>3, <1>4, Push
  <1>7. \A k \in Loops : \A u : count(tasks'[k], u) =
          IF k = m /\ task("destroy", c) = u THEN count(rest[k], u) + 1 ELSE count(rest[k], u)
    <2> DEFINE t == task("destroy", c)
    <2>1. tasks' = pushed(rest, m, t) /\ t \in Task /\ m \in Loops /\ rest \in Queues
      BY <1>2, <1>3, <1>4
    <2> HIDE DEF t
    <2>2. \A k \in Loops : \A u : count(pushed(rest, m, t)[k], u) =
            IF k = m /\ t = u THEN count(rest[k], u) + 1 ELSE count(rest[k], u)
      BY <2>1, Push
    <2>3. \A k \in Loops : \A u : count(tasks'[k], u) =
            IF k = m /\ t = u THEN count(rest[k], u) + 1 ELSE count(rest[k], u)
      BY <2>1, <2>2
    <2> QED BY <2>3 DEF t
  <1>8. \A k \in Loops : \A w : \A d : due(k, w, d)' =
          IF k = m /\ w = "destroy" /\ d = c THEN count(rest[k], task(w, d)) + 1
          ELSE count(rest[k], task(w, d))
    BY <1>7, TaskParts DEF due
  <1>9. serverAlive' = "yes" /\ UNCHANGED <<m_idleFd, shedding, stolen, serverAlive, m_listening>>
    BY DEF lifeVars, acceptVars
  <1>10. TypeOK'
    BY <1>2, <1>6 DEF TypeOK, Queues, Task, poolVars, acceptVars, lifeVars
  <1>11. Pool'
    BY <1>9, PoolFrame DEF Running
  <1>12. Phases'
    BY <1>2, <1>9, PhasesFrame DEF Running
  <1>13. Descriptors'
    BY <1>9, DescriptorsFrame DEF Running
  <1>14. live' = live
    BY DEF live
  <1>15. Books(c) /\ Mapped(c)
    BY DEF Running, Lives
  <1>16. Books(c)'
    <2>2. \A k \in Loops : due(k, "destroy", c)' = one(k = m)
      BY <1>1, <1>5, <1>8, <1>15 DEF Books, one
    <2>3. \A k \in Loops : due(k, "remove", c)' = 0
      BY <1>1, <1>5, <1>8, <1>9, <1>15 DEF Books, one
    <2> QED BY <1>1, <1>2, <1>14, <1>15, <2>2, <2>3, Numbers DEF Books, one, m
  <1>17. Mapped(c)'
    BY <1>1, <1>15 DEF Mapped
  <1>19. Lives'
    <2>1. \A d \in Conns \ {c} : \A k \in Loops : \A w : due(k, w, d)' = due(k, w, d)
      BY <1>5, <1>8
    <2> QED BY <1>2, <1>9, <1>16, <1>17, <2>1, LivesStep DEF Running
  <1> QED BY <1>2, <1>10, <1>11, <1>12, <1>13, <1>19, RunningStep DEF Running

-----------------------------------------------------------------------------
(* Connections end.                                                        *)

\* connectionDestroyed: the poller forgets the descriptor, and it is closed.
LEMMA Dies ==
    ASSUME TypeOK, Running, NEW c \in live, connectionDestroyed(c),
           UNCHANGED <<acceptVars, lifeVars>>, c \in m_connectionMap => serverAlive # "yes"
    PROVE  /\ conn' \in [Conns -> Conn]
           /\ conn'[c].state = "dead" /\ conn'[c].loop = conn[c].loop /\ conn'[c].fd = conn[c].fd
           /\ \A d \in Conns \ {c} : conn'[d] = conn[d]
           /\ registered' \in [Loops -> SUBSET FdNums] /\ fds' \subseteq FdNums
           /\ live' = live \ {c} /\ Descriptors'
  <1>1. c \in Conns /\ conn[c].loop \in Loops
    BY Types DEF live, Conn
  <1>2. /\ conn' \in [Conns -> Conn]
        /\ conn'[c].state = "dead" /\ conn'[c].loop = conn[c].loop /\ conn'[c].fd = conn[c].fd
        /\ \A d \in Conns \ {c} : conn'[d] = conn[d]
    BY <1>1, Types, Moves DEF connectionDestroyed, States
  <1>3. /\ registered' \in [Loops -> SUBSET FdNums]
        /\ \A k \in Loops : registered'[k] \subseteq registered[k]
        /\ conn[c].fd \notin registered'[conn[c].loop]
    BY <1>1, Types DEF connectionDestroyed
  <1>4. live' = live \ {c}
    BY <1>1, <1>2 DEF live
  <1>5. fds' = fds \ {conn[d].fd : d \in {c}} /\ fds \subseteq FdNums
    BY Types DEF connectionDestroyed, closeFd
  <1>6. UNCHANGED <<m_idleFd, shedding, serverAlive, stolen>>
    BY DEF acceptVars, lifeVars
  <1>7. Descriptors'
    <2> DEFINE D == {c}
    <2>1. \A d \in D : /\ conn[d].fd \notin registered'[conn[d].loop]
                       /\ serverAlive = "yes" => conn[d].fd # listenFd
      <3>1. Mapped(c)
        BY <1>1 DEF Running, Lives
      <3>2. serverAlive = "yes" => conn[c].state = "closed"
        BY <3>1 DEF Mapped, live
      <3> QED BY <1>3, <3>1, <3>2 DEF Mapped
    <2>2. Descriptors /\ D \subseteq live /\ live' = live \ D
      BY <1>4 DEF Running
    <2>3. fds' = fds \ {conn[d].fd : d \in D}
      BY <1>5
    <2>4. \A d \in Conns \ D : conn'[d] = conn[d]
      BY <1>2
    <2> HIDE DEF D
    <2> QED BY <1>3, <1>5, <1>6, <2>1, <2>2, <2>3, <2>4, DescriptorsDie
  <1> QED BY <1>2, <1>3, <1>4, <1>5, <1>7

\* A destruction that has come to its turn finds its connection alive and out of the
\* map.
LEMMA DestroyFinds ==
    ASSUME TypeOK, Running, NEW l \in Loops, tasks[l] # <<>>, NEW c \in Conns,
           Head(tasks[l]) = task("destroy", c)
    PROVE  c \in live /\ c \notin m_connectionMap /\ conn[c].loop = l
  <1>1. Books(c)
    BY DEF Running, Lives
  <1>2. due(l, "destroy", c) \in Nat \ {0}
    BY Taken DEF Running
  <1>3. c \in live /\ c \notin m_connectionMap /\ conn[c].loop = l
    BY <1>1, <1>2 DEF Books, one
  <1> QED BY <1>3

\* connectionDestroyed as a task of the connection's loop.
LEMMA DestroyStep ==
    ASSUME TypeOK, Running, aborted = "no", NEW l \in Loops, tasks[l] # <<>>, NEW c \in Conns,
           Head(tasks[l]) = task("destroy", c), connectionDestroyed(c),
           tasks' = popped(tasks, l),
           UNCHANGED <<m_connectionMap, aborted, poolVars, acceptVars, m_nextConnId, lifeVars>>
    PROVE  IInv'
  <1>1. c \in live /\ c \notin m_connectionMap /\ conn[c].loop = l
    BY DestroyFinds
  <1>2. /\ conn' \in [Conns -> Conn]
        /\ conn'[c].state = "dead" /\ conn'[c].loop = conn[c].loop
        /\ \A d \in Conns \ {c} : conn'[d] = conn[d]
        /\ registered' \in [Loops -> SUBSET FdNums] /\ fds' \subseteq FdNums
        /\ live' = live \ {c} /\ Descriptors'
    BY <1>1, Dies
  <1>3. tasks' \in Queues
    BY Taken DEF Running
  <1>4. \A k \in Loops : \A w : \A d : due(k, w, d)' =
          IF k = l /\ w = "destroy" /\ d = c THEN due(k, w, d) - 1 ELSE due(k, w, d)
    <2>1. \A k \in Loops : \A w : \A d : count(tasks'[k], task(w, d)) =
            IF k = l /\ w = "destroy" /\ d = c THEN due(k, w, d) - 1 ELSE due(k, w, d)
      BY Taken DEF Running
    <2> QED BY <2>1 DEF due
  <1>5. UNCHANGED <<m_idleFd, shedding, serverAlive, stolen, m_listening>>
    BY DEF acceptVars, lifeVars
  <1>6. TypeOK'
    BY <1>2, <1>3 DEF TypeOK, Conn, Queues, Task, poolVars, acceptVars, lifeVars
  <1>7. \A d \in Conns : conn'[d].state = "none" <=> conn[d].state = "none"
    BY <1>1, <1>2 DEF live
  <1>8. Pool'
    BY <1>2, <1>5, <1>7, PoolFrame DEF Running
  <1>9. Phases'
    BY <1>5, <1>7, PhasesFrame DEF Running
  <1>10. Books(c) /\ Mapped(c)
    BY DEF Running, Lives
  <1>11. Books(c)'
    <2>2. \A k \in Loops : due(k, "destroy", c)' = 0
      BY <1>1, <1>4, <1>10 DEF Books, one
    <2>3. \A k \in Loops : due(k, "remove", c)' = due(k, "remove", c)
      BY <1>4
    <2> QED BY <1>1, <1>2, <1>5, <1>10, <2>2, <2>3, Numbers DEF Books, one
  <1>12. Mapped(c)'
    BY <1>2 DEF Mapped
  <1>13. Lives'
    <2>1. \A d \in Conns \ {c} : \A k \in Loops : \A w : due(k, w, d)' = due(k, w, d)
      BY <1>4
    <2>2. c \in Conns
      BY <1>1 DEF live
    <2> QED BY <1>2, <1>3, <1>5, <1>11, <1>12, <2>1, <2>2, LivesStep DEF Running
  <1> QED BY <1>2, <1>6, <1>8, <1>9, <1>13, RunningStep DEF Running

\* Each task of a loop finds what it needs; so does the loop's next step.
LEMMA RunTaskStep ==
    ASSUME IInv, NEW l \in Loops, RunTask(l)
    PROVE  IInv'
  <1> DEFINE t == Head(tasks[l])
             c == t.conn
             rest == popped(tasks, l)
  <1>1. TypeOK /\ Running /\ aborted = "no" /\ running /\ tasks[l] # <<>>
    BY DEF RunTask, IInv, running
  <1>2. c \in Conns /\ t = task(t.what, c)
    BY <1>1, FirstTask
  <1>3. UNCHANGED <<poolVars, acceptVars, m_nextConnId, lifeVars>>
    BY DEF RunTask
  <1>4. \/ Abort("deadRef")
        \/ Abort("deadServer")
        \/ /\ t.what = "remove" /\ serverAlive = "yes"
           /\ removeConnectionInLoop(c, rest)
           /\ UNCHANGED <<conn, registered, fds>>
        \/ /\ t.what = "destroy"
           /\ connectionDestroyed(c) /\ tasks' = rest
           /\ UNCHANGED <<m_connectionMap, aborted>>
    BY DEF RunTask, popped
  <1> HIDE DEF t, c, rest
  <1>5. Head(tasks[l]) = task(t.what, c)
    BY <1>2 DEF t
  <1>6. CASE Abort("deadRef") \/ Abort("deadServer")
    BY <1>6, AbortStep
  <1>9. CASE /\ t.what = "remove" /\ serverAlive = "yes"
             /\ removeConnectionInLoop(c, rest)
             /\ UNCHANGED <<conn, registered, fds>>
    BY <1>1, <1>2, <1>3, <1>5, <1>9, RemoveStep DEF rest
  <1>10. CASE /\ t.what = "destroy"
              /\ connectionDestroyed(c) /\ tasks' = rest
              /\ UNCHANGED <<m_connectionMap, aborted>>
    BY <1>1, <1>2, <1>3, <1>5, <1>10, DestroyStep DEF rest
  <1> QED BY <1>4, <1>6, <1>9, <1>10

\* The destructor takes a connection of the base loop out of the map and ends it.
LEMMA DestroyHereStep ==
    ASSUME IInv, NEW c \in Conns, DestroyConnection(c), conn[c].loop = base
    PROVE  IInv'
  <1>1. /\ TypeOK /\ Running /\ aborted = "no" /\ aborted' = "no"
        /\ serverAlive = "destructing" /\ c \in m_connectionMap
        /\ m_connectionMap' = m_connectionMap \ {c}
        /\ connectionDestroyed(c) /\ UNCHANGED tasks
        /\ UNCHANGED <<poolVars, acceptVars, m_nextConnId, lifeVars>>
    BY DEF DestroyConnection, IInv, running
  <1>2. Books(c) /\ Mapped(c)
    BY <1>1 DEF Running, Lives
  <1>3. c \in live
    BY <1>1, <1>2 DEF Books
  <1>4. /\ conn' \in [Conns -> Conn]
        /\ conn'[c].state = "dead" /\ conn'[c].loop = conn[c].loop
        /\ \A d \in Conns \ {c} : conn'[d] = conn[d]
        /\ registered' \in [Loops -> SUBSET FdNums] /\ fds' \subseteq FdNums
        /\ live' = live \ {c} /\ Descriptors'
    BY <1>1, <1>3, Dies
  <1>5. UNCHANGED <<m_idleFd, shedding, serverAlive, stolen, m_listening>>
    BY <1>1 DEF acceptVars, lifeVars
  <1>6. TypeOK'
    BY <1>1, <1>4 DEF TypeOK, Conn, poolVars, acceptVars, lifeVars
  <1>7. \A d \in Conns : conn'[d].state = "none" <=> conn[d].state = "none"
    BY <1>3, <1>4 DEF live
  <1>8. Pool'
    BY <1>1, <1>4, <1>5, <1>7, PoolFrame DEF Running
  <1>9. Phases'
    BY <1>1, <1>5, <1>7, PhasesFrame DEF Running
  <1>10. \A k \in Loops : \A w, d : due(k, w, d)' = due(k, w, d)
    BY <1>1 DEF due
  <1>11. Books(c)'
    <2>2. \A k \in Loops : due(k, "destroy", c)' = 0
      BY <1>1, <1>2, <1>10 DEF Books, one
    <2>3. \A k \in Loops \ {base} : due(k, "remove", c)' = 0
      BY <1>2, <1>10 DEF Books
    <2> QED BY <1>1, <1>4, <1>5, <2>2, <2>3 DEF Books, one
  <1>12. Mapped(c)'
    BY <1>4 DEF Mapped
  <1>13. Lives'
    BY <1>1, <1>4, <1>5, <1>10, <1>11, <1>12, LivesStep DEF Running
  <1> QED BY <1>1, <1>4, <1>6, <1>8, <1>9, <1>13, RunningStep DEF Running

\* A connection of another loop gets its destruction queued there.
LEMMA DestroyThereStep ==
    ASSUME IInv, NEW c \in Conns, DestroyConnection(c), conn[c].loop # base
    PROVE  IInv'
  <1> DEFINE m == conn[c].loop
             t == task("destroy", c)
  <1>1. /\ TypeOK /\ Running /\ aborted = "no" /\ aborted' = "no"
        /\ serverAlive = "destructing" /\ c \in m_connectionMap
        /\ m_connectionMap' = m_connectionMap \ {c}
        /\ tasks' = pushed(tasks, m, t) /\ UNCHANGED <<conn, registered, fds>>
        /\ UNCHANGED <<poolVars, acceptVars, m_nextConnId, lifeVars>>
    BY DEF DestroyConnection, IInv, running, queueTask, pushed
  <1>2. Books(c) /\ Mapped(c)
    BY <1>1 DEF Running, Lives
  <1>3. c \in live /\ m \in Loops /\ t \in Task /\ tasks \in Queues
    BY <1>1, <1>2, Types, IsTask DEF Books, Conn
  <1> HIDE DEF m, t
  <1>4. tasks' \in Queues
    BY <1>1, <1>3, Push
  <1>5. \A k \in Loops : \A u : count(pushed(tasks, m, t)[k], u) =
          IF k = m /\ t = u THEN count(tasks[k], u) + 1 ELSE count(tasks[k], u)
    BY <1>3, Push
  <1>6. \A k \in Loops : \A w : \A d : due(k, w, d)' =
          IF k = m /\ w = "destroy" /\ d = c THEN due(k, w, d) + 1 ELSE due(k, w, d)
    BY <1>1, <1>5, TaskParts DEF due, t
  <1>7. UNCHANGED <<m_idleFd, shedding, serverAlive, stolen, m_listening>>
    BY <1>1 DEF acceptVars, lifeVars
  <1>8. TypeOK'
    BY <1>1, <1>4 DEF TypeOK, Queues, Task, poolVars, acceptVars, lifeVars
  <1>9. Pool'
    BY <1>1, <1>7, PoolFrame DEF Running
  <1>10. Phases'
    BY <1>1, <1>7, PhasesFrame DEF Running
  <1>11. Descriptors' /\ live' = live
    BY <1>1, <1>7, DescriptorsFrame DEF Running, live
  <1>12. Books(c)'
    <2>1. \A k \in Loops : due(k, "destroy", c)' = one(k = m)
      BY <1>1, <1>2, <1>6 DEF Books, one
    <2>3. \A k \in Loops \ {base} : due(k, "remove", c)' = due(k, "remove", c)
      BY <1>6
    <2> QED BY <1>1, <1>2, <1>3, <1>7, <1>11, <2>1, <2>3 DEF Books, one, m
  <1>13. Mapped(c)'
    BY <1>1, <1>2, <1>7 DEF Mapped
  <1>15. Lives'
    <2>1. \A d \in Conns \ {c} : \A k \in Loops : \A w : due(k, w, d)' = due(k, w, d)
      BY <1>6
    <2> QED BY <1>1, <1>7, <1>12, <1>13, <2>1, LivesStep DEF Running
  <1> QED BY <1>1, <1>8, <1>9, <1>10, <1>11, <1>15, RunningStep DEF Running

\* What a loop has not run when it ends is dropped, and its connections with it if
\* all of them closed.
LEMMA DropStep ==
    ASSUME IInv, NEW l \in Loops, LoopEnds(l),
           ~ \E c \in live : conn[c].loop = l /\ conn[c].state = "up"
    PROVE  IInv'
  <1> DEFINE D == {c \in live : conn[c].loop = l}
  <1>1. /\ TypeOK /\ Running /\ aborted = "no" /\ aborted' = "no"
        /\ serverAlive = "no" /\ l \in 1..m_numThreads
        /\ tasks' = [tasks EXCEPT ![l] = <<>>]
        /\ conn' = [c \in Conns |-> IF c \in D THEN [conn[c] EXCEPT !.state = "dropped"]
                                    ELSE conn[c]]
        /\ registered' = [registered EXCEPT ![l] = {}]
        /\ fds' = fds \ {conn[c].fd : c \in D}
        /\ UNCHANGED <<poolVars, acceptVars, m_nextConnId, m_connectionMap, lifeVars>>
    BY DEF LoopEnds, IInv, running
  <1>2. D \subseteq live /\ live \subseteq Conns /\ \A c \in live : c \in D <=> conn[c].loop = l
    BY DEF live
  <1>3. l # base
    BY <1>1, Types DEF base
  <1> HIDE DEF D
  <1>4. \A c \in Conns : conn[c] \in Conn
    BY <1>1, Types
  <1>5. /\ \A c \in D : /\ conn'[c].state = "dropped" /\ conn'[c].loop = conn[c].loop
                        /\ conn'[c] \in Conn
        /\ \A c \in Conns \ D : conn'[c] = conn[c]
        /\ conn' \in [Conns -> Conn]
    <2>1. \A c \in D : /\ conn'[c] = [conn[c] EXCEPT !.state = "dropped"]
                       /\ conn[c] \in Conn
      BY <1>1, <1>2, <1>4
    <2>2. \A c \in D : /\ conn'[c].state = "dropped" /\ conn'[c].loop = conn[c].loop
                       /\ conn'[c] \in Conn
      BY <2>1 DEF Conn, States
    <2>3. \A c \in Conns \ D : conn'[c] = conn[c]
      BY <1>1
    <2> QED BY <1>1, <1>4, <2>2, <2>3
  <1>6. live' = live \ D
    BY <1>2, <1>5 DEF live
  <1>7. \A c \in Conns : /\ conn'[c].state = "none" <=> conn[c].state = "none"
                         /\ conn'[c].loop = conn[c].loop
    BY <1>2, <1>5 DEF live
  <1>8. UNCHANGED <<m_idleFd, shedding, serverAlive, stolen, m_listening>>
    BY <1>1 DEF acceptVars, lifeVars
  <1>9. /\ registered' \in [Loops -> SUBSET FdNums] /\ registered'[l] = {}
        /\ \A k \in Loops : registered'[k] \subseteq registered[k]
    BY <1>1, Types
  <1>10. /\ tasks' \in Queues /\ tasks'[l] = <<>>
         /\ \A k \in Loops \ {l} : tasks'[k] = tasks[k]
    <2>1. tasks \in Queues /\ <<>> \in Seq(Task)
      BY <1>1, Types
    <2> QED BY <1>1, <2>1 DEF Queues
  <1>11. TypeOK'
    <2>1. fds' \subseteq FdNums
      BY <1>1, Types
    <2> QED BY <1>1, <1>5, <1>9, <1>10, <2>1
          DEF TypeOK, Conn, Queues, Task, poolVars, acceptVars, lifeVars
  <1>12. Pool'
    BY <1>1, <1>7, <1>8, PoolFrame DEF Running
  <1>13. Phases'
    BY <1>1, <1>7, <1>8, PhasesFrame DEF Running
  <1>14. Descriptors'
    <2>1. \A c \in D : conn[c].fd \notin registered'[conn[c].loop]
      BY <1>2, <1>9
    <2>3. serverAlive # "yes"
      BY <1>1
    <2>2. Descriptors /\ fds \subseteq FdNums
      BY <1>1, Types DEF Running
    <2> QED BY <1>1, <1>2, <1>5, <1>6, <1>8, <1>9, <2>1, <2>2, <2>3, DescriptorsDie
  <1>15. \A w, c : due(l, w, c)' = 0
    BY <1>10, CountEmpty DEF due
  <1>16. \A k \in Loops \ {l} : \A w, c : due(k, w, c)' = due(k, w, c)
    BY <1>10 DEF due
  <1>17. \A c \in Conns : Books(c) /\ Mapped(c)
    BY <1>1 DEF Running, Lives
  <1>18. m_connectionMap = {} /\ m_connectionMap' = {}
    BY <1>1 DEF Running, Phases
  <1>19. ASSUME NEW c \in Conns PROVE Books(c)'
    <2>1. Books(c)
      BY <1>17
    <2>3. \A k \in Loops : due(k, "destroy", c)' =
            one(c \in live' /\ c \notin m_connectionMap' /\ k = conn'[c].loop)
      <3>1. ASSUME NEW k \in Loops \ {l}
            PROVE  due(k, "destroy", c)' =
                     one(c \in live' /\ c \notin m_connectionMap' /\ k = conn'[c].loop)
        <4>1. due(k, "destroy", c)' =
                one(c \in live /\ c \notin m_connectionMap /\ k = conn[c].loop)
          BY <1>16, <2>1, <3>1 DEF Books
        <4>2. CASE c \in D
          BY <1>2, <1>5, <1>6, <3>1, <4>1, <4>2 DEF one
        <4>3. CASE c \notin D
          BY <1>5, <1>6, <1>18, <4>1, <4>3
        <4> QED BY <4>2, <4>3
      <3>2. ~(c \in live' /\ l = conn'[c].loop)
        BY <1>2, <1>5, <1>6
      <3> QED BY <1>15, <3>1, <3>2 DEF one
    <2>4. \A k \in Loops \ {base} : due(k, "remove", c)' = 0
      BY <1>15, <1>16, <2>1 DEF Books
    <2>5. serverAlive' # "yes" /\ c \notin m_connectionMap'
      BY <1>1, <1>8, <1>18
    <2> QED BY <2>3, <2>4, <2>5 DEF Books
  <1>20. \A c \in Conns : Mapped(c)'
    BY <1>1, <1>5, <1>8, <1>17 DEF Mapped
  <1>22. Lives'
    BY <1>19, <1>20 DEF Lives
  <1> QED BY <1>1, <1>11, <1>12, <1>13, <1>14, <1>22, RunningStep DEF Running

\* A connection that is up stops the process instead, in its destructor.
LEMMA LoopEndsStep ==
    ASSUME IInv, NEW l \in Loops, LoopEnds(l)
    PROVE  IInv'
  <1>1. CASE \E c \in live : conn[c].loop = l /\ conn[c].state = "up"
    <2>1. Abort("dtor")
      BY <1>1 DEF LoopEnds
    <2> QED BY <2>1, AbortStep
  <1>2. CASE ~ \E c \in live : conn[c].loop = l /\ conn[c].state = "up"
    BY <1>2, DropStep
  <1> QED BY <1>1, <1>2

-----------------------------------------------------------------------------
(* Accepting.                                                              *)

\* The next loop is one of the pool's.
LEMMA NextLoop ==
    ASSUME TypeOK, Pool
    PROVE  /\ nextLoop \in Loops /\ nextLoop <= m_numThreads
           /\ advance \in 0..MaxThreads /\ (advance = 0 \/ advance < m_numThreads)
  <1>1. /\ m_numThreads \in Nat /\ m_numThreads <= MaxThreads /\ MaxThreads \in Nat
        /\ m_next \in Nat /\ m_next <= MaxThreads
    BY Types, TcpServerAssumption
  <1>2. m_next = 0 \/ m_next < m_numThreads
    BY DEF Pool
  <1>3. nextLoop \in 0..m_numThreads
    BY <1>1, <1>2 DEF nextLoop, base
  <1>4. advance \in 0..MaxThreads /\ (advance = 0 \/ advance < m_numThreads)
    BY <1>1, <1>2 DEF advance
  <1> QED BY <1>1, <1>3, <1>4 DEF Loops

\* After a connection was dealt to the next loop the turns are even again.
LEMMA Dealt ==
    ASSUME TypeOK, Pool, NEW c \in Conns, conn[c].state = "none",
           conn'[c].state # "none", conn'[c].loop = nextLoop,
           \A d \in Conns \ {c} : conn'[d] = conn[d],
           m_next' = advance, m_numThreads' = m_numThreads
    PROVE  \A l, k \in 1..m_numThreads : turns(l)' = turns(k)'
  <1> DEFINE of(l) == {d \in Conns : conn[d].state # "none" /\ conn[d].loop = l}
  <1>1. /\ m_numThreads \in Nat /\ m_numThreads <= MaxThreads /\ MaxThreads \in Nat /\ m_next \in Nat
    BY Types, TcpServerAssumption
  <1>2. m_next = 0 \/ m_next < m_numThreads
    BY DEF Pool
  <1>3. \A l : IsFiniteSet(of(l)) /\ c \notin of(l)
    BY Numbers, FS_Subset
  <1>4. \A l : dealt(l) \in Nat
    BY <1>3, FS_CardinalityType DEF dealt
  <1>5. \A l : dealt(l)' = IF l = nextLoop THEN dealt(l) + 1 ELSE dealt(l)
    <2>1. \A l : dealt(l)' = Cardinality({d \in Conns : conn'[d].state # "none" /\ conn'[d].loop = l})
      BY DEF dealt
    <2>2. \A l : {d \in Conns : conn'[d].state # "none" /\ conn'[d].loop = l} =
            IF l = nextLoop THEN of(l) \cup {c} ELSE of(l)
      OBVIOUS
    <2>3. \A l : Cardinality(of(l)) = dealt(l)
      BY DEF dealt
    <2> HIDE DEF of
    <2>4. ASSUME NEW l PROVE Cardinality(of(l) \cup {c}) = dealt(l) + 1
      <3>1. IsFiniteSet(of(l)) /\ c \notin of(l)
        BY <1>3
      <3>2. Cardinality(of(l) \cup {c}) = Cardinality(of(l)) + 1
        BY <3>1, FS_AddElement
      <3> QED BY <2>3, <3>2
    <2> QED BY <2>1, <2>2, <2>3, <2>4
  <1>6. SUFFICES ASSUME NEW l \in 1..m_numThreads, NEW k \in 1..m_numThreads
                 PROVE  turns(l)' = turns(k)'
    OBVIOUS
  <1>7. /\ turns(l) = IF l <= m_next THEN dealt(l) - 1 ELSE dealt(l)
        /\ turns(k) = IF k <= m_next THEN dealt(k) - 1 ELSE dealt(k)
        /\ turns(l)' = IF l <= m_next' THEN dealt(l)' - 1 ELSE dealt(l)'
        /\ turns(k)' = IF k <= m_next' THEN dealt(k)' - 1 ELSE dealt(k)'
    BY DEF turns
  <1>8. turns(l) = turns(k)
    BY DEF Pool
  <1>9. nextLoop = m_next + 1 /\ m_next' = IF m_next + 1 >= m_numThreads THEN 0 ELSE m_next + 1
    BY <1>1 DEF nextLoop, advance
  <1>10. dealt(l) \in Nat /\ dealt(k) \in Nat
    BY <1>4
  <1>11. /\ dealt(l)' = IF l = nextLoop THEN dealt(l) + 1 ELSE dealt(l)
         /\ dealt(k)' = IF k = nextLoop THEN dealt(k) + 1 ELSE dealt(k)
    BY <1>5
  <1> HIDE DEF of
  <1>12. CASE m_next + 1 >= m_numThreads
    <2>1. m_next' = 0 /\ (m_next = m_numThreads - 1)
      BY <1>1, <1>2, <1>6, <1>9, <1>12
    <2>2. turns(l)' = turns(l) + 1
      BY <1>1, <1>7, <1>9, <1>10, <1>11, <2>1
    <2>3. turns(k)' = turns(k) + 1
      BY <1>1, <1>7, <1>9, <1>10, <1>11, <2>1
    <2> QED BY <1>8, <2>2, <2>3
  <1>13. CASE ~(m_next + 1 >= m_numThreads)
    <2>1. m_next' = m_next + 1
      BY <1>9, <1>13
    <2>2. turns(l)' = turns(l)
      BY <1>1, <1>7, <1>9, <1>10, <1>11, <2>1
    <2>3. turns(k)' = turns(k)
      BY <1>1, <1>7, <1>9, <1>10, <1>11, <2>1
    <2> QED BY <1>8, <2>2, <2>3
  <1> QED BY <1>12, <1>13

\* What newConnection is given.
handed == IF "listeningFd" \in Faults THEN listenFd ELSE lowestFree

\* What the kernel hands out was nobody's, and the new connection is the first of
\* its number.
LEMMA Accepted ==
    ASSUME TypeOK, Running, HandleReadAccepts
    PROVE  /\ m_nextConnId \in Conns /\ conn[m_nextConnId].state = "none"
           /\ m_nextConnId \notin m_connectionMap
           /\ lowestFree \in FdNums \ fds /\ fds' = fds \cup {lowestFree}
           /\ lowestFree # listenFd /\ \A l \in Loops : lowestFree \notin registered[l]
           /\ serverAlive = "yes" /\ m_listening /\ shedding = "no"
           /\ backlog' \in Nat /\ backlog' + 1 = backlog
           /\ newConnection(handed)
           /\ UNCHANGED <<m_numThreads, m_started, m_listening, m_idleFd, shedding, lifeVars>>
  <1>1. /\ accepting /\ shedding = "no" /\ backlog > 0 /\ ~full
        /\ fds' = fds \cup {lowestFree} /\ backlog' = backlog - 1
        /\ newConnection(handed)
        /\ UNCHANGED <<m_numThreads, m_started, m_listening, m_idleFd, shedding, lifeVars>>
    BY DEF HandleReadAccepts, handed
  <1>2. backlog \in Nat /\ m_nextConnId \in Nat /\ MaxConns \in Nat
    BY TcpServerAssumption DEF TypeOK
  <1>3. m_nextConnId >= 1 /\ backlog + m_nextConnId <= MaxConns + 1
    BY DEF Running, Phases
  <1>4. m_nextConnId \in Conns
    BY <1>1, <1>2, <1>3 DEF Conns
  <1>5. conn[m_nextConnId].state = "none"
    BY <1>2, <1>4 DEF Running, Phases
  <1>6. m_nextConnId \notin m_connectionMap
    <2>1. Books(m_nextConnId)
      BY <1>4 DEF Running, Lives
    <2> QED BY <1>5, <2>1 DEF Books, live
  <1>7. lowestFree \in FdNums \ fds
    BY <1>1, Types, LowestFree
  <1>8. serverAlive = "yes" /\ m_listening
    BY <1>1 DEF accepting
  <1>11. lowestFree # listenFd
    BY <1>7, <1>8 DEF Running, Descriptors, Acceptors
  <1>9. ASSUME NEW l \in Loops, lowestFree \in registered[l] PROVE FALSE
    <2>2. PICK d \in Conns : polls(l, lowestFree, d)
      BY <1>9, <1>11 DEF Running, Descriptors, Watched
    <2>3. d \in live /\ conn[d].fd = lowestFree
      BY <2>2 DEF polls, live
    <2> QED BY <1>7, <1>11, <2>3 DEF Running, Descriptors, Owned
  <1>10. backlog' \in Nat /\ backlog' + 1 = backlog
    BY <1>1, <1>2
  <1> QED BY <1>1, <1>4, <1>5, <1>6, <1>7, <1>8, <1>9, <1>10, <1>11

\* The three outcomes of newConnection: the connection is established, called for by
\* the wrong thread, or brings a descriptor its poller knows (as written).
LEMMA NewConnection ==
    ASSUME TypeOK, Running, running, HandleReadAccepts
    PROVE  LET c == m_nextConnId
               l == nextLoop
           IN  /\ m_next' = advance /\ m_nextConnId' = c + 1
               /\ m_connectionMap' = m_connectionMap \cup {c} /\ tasks' = tasks
               /\ \A d \in Conns \ {c} : conn'[d] = conn[d]
               /\ conn' \in [Conns -> Conn]
               /\ conn'[c].loop = l /\ conn'[c].fd = handed
               /\ \/ /\ conn'[c].state = "up" /\ aborted' = "no"
                     /\ registered' = [registered EXCEPT ![l] = @ \cup {handed}]
                  \/ conn'[c].state = "made" /\ registered' = registered /\ aborted' = "notOwner"
                  \/ /\ conn'[c].state = "made" /\ registered' = registered
                     /\ aborted' = "fdKnown" /\ "listeningFd" \in Faults
  <1> DEFINE c == m_nextConnId
             l == nextLoop
             f == handed
             new(s) == [state |-> s, loop |-> l, fd |-> f]
             is(s) == [conn EXCEPT ![c] = new(s)]
  <1>1. /\ c \in Conns /\ f \in FdNums /\ newConnection(f) /\ l \in Loops
        /\ "listeningFd" \notin Faults => f \notin registered[l]
    BY Accepted, Numbers, NextLoop DEF Running, handed
  <1>3. conn \in [Conns -> Conn] /\ f \in 0..FdLimit
    BY <1>1, Types DEF FdNums
  <1>4. new("made") \in Conn /\ new("up") \in Conn
    BY <1>1, <1>3 DEF Conn, States
  <1>5. /\ m_next' = advance /\ m_nextConnId' = c + 1
        /\ m_connectionMap' = m_connectionMap \cup {c} /\ tasks' = tasks
        /\ \/ /\ conn' = is("up") /\ aborted' = aborted
              /\ registered' = [registered EXCEPT ![l] = @ \cup {f}]
           \/ conn' = is("made") /\ registered' = registered /\ aborted' = "notOwner"
           \/ /\ conn' = is("made") /\ registered' = registered
              /\ aborted' = "fdKnown" /\ f \in registered[l]
    BY <1>1 DEF newConnection, connectionEstablished
  <1>6. ASSUME NEW s \in {"made", "up"}, conn' = is(s)
        PROVE  /\ conn' \in [Conns -> Conn] /\ conn'[c] = new(s)
               /\ \A d \in Conns \ {c} : conn'[d] = conn[d]
    BY <1>1, <1>3, <1>4, <1>6
  <1>11. aborted = "no"
    BY DEF running
  <1> HIDE DEF is
  <1>7. CASE conn' = is("up")
    <2>1. conn' \in [Conns -> Conn] /\ conn'[c] = new("up") /\ \A d \in Conns \ {c} : conn'[d] = conn[d]
      BY <1>6, <1>7
    <2>3. is("up") # is("made")
      <3>1. is("made")[c] = new("made") /\ is("up")[c] = new("up")
        BY <1>1, <1>3 DEF is
      <3>2. new("made").state = "made" /\ new("up").state = "up"
        OBVIOUS
      <3> QED BY <3>1, <3>2
    <2> QED BY <1>5, <1>7, <1>11, <2>1, <2>3
  <1>8. CASE conn' = is("made")
    <2>1. conn' \in [Conns -> Conn] /\ conn'[c] = new("made") /\ \A d \in Conns \ {c} : conn'[d] = conn[d]
      BY <1>6, <1>8
    <2>3. is("up") # is("made")
      <3>1. is("made")[c] = new("made") /\ is("up")[c] = new("up")
        BY <1>1, <1>3 DEF is
      <3>2. new("made").state = "made" /\ new("up").state = "up"
        OBVIOUS
      <3> QED BY <3>1, <3>2
    <2> QED BY <1>1, <1>5, <1>8, <2>1, <2>3
  <1> QED BY <1>5, <1>7, <1>8

\* What leaves the backlog is numbered.
LEMMA Shifted ==
    ASSUME NEW a \in Nat, NEW b \in Nat, NEW n \in Nat, NEW m \in Nat, a + 1 = b, b + n <= m + 1
    PROVE  a + (n + 1) <= m + 1
  OBVIOUS

\* A connection is accepted: it is in the map and established, or that ends the
\* process.
LEMMA AcceptStep ==
    ASSUME IInv, HandleReadAccepts
    PROVE  IInv'
  <1> DEFINE l == nextLoop
             f == lowestFree
             h == handed
  <1>0. PICK c : c = m_nextConnId
    OBVIOUS
  <1>1. TypeOK /\ Running /\ aborted = "no" /\ running
    BY DEF HandleReadAccepts, accepting, IInv, running
  <1>2. /\ c \in Conns /\ conn[c].state = "none" /\ c \notin m_connectionMap
        /\ f \in FdNums \ fds /\ fds' = fds \cup {f} /\ f # listenFd
        /\ serverAlive = "yes" /\ m_listening /\ shedding = "no"
        /\ backlog' \in Nat /\ backlog' + 1 = backlog
        /\ UNCHANGED <<m_numThreads, m_started, m_listening, m_idleFd, shedding, lifeVars>>
    BY <1>0, <1>1, Accepted
  <1>3. /\ l \in Loops /\ l <= m_numThreads
        /\ advance \in 0..MaxThreads /\ (advance = 0 \/ advance < m_numThreads)
    BY <1>1, NextLoop DEF Running
  <1>4. /\ m_next' = advance /\ m_nextConnId' = c + 1
        /\ m_connectionMap' = m_connectionMap \cup {c} /\ tasks' = tasks
        /\ \A d \in Conns \ {c} : conn'[d] = conn[d]
        /\ conn' \in [Conns -> Conn]
        /\ conn'[c].loop = l /\ conn'[c].fd = h
    BY <1>0, <1>1, NewConnection
  <1>5. \/ /\ conn'[c].state = "up" /\ aborted' = "no"
           /\ registered' = [registered EXCEPT ![l] = @ \cup {h}]
        \/ registered' = registered /\ aborted' = "notOwner"
        \/ registered' = registered /\ aborted' = "fdKnown" /\ "listeningFd" \in Faults
    BY <1>0, <1>1, NewConnection
  <1>6. h = IF "listeningFd" \in Faults THEN listenFd ELSE f
    BY DEF handed
  <1>7. (conn'[c].state # "none") => \A j, k \in 1..m_numThreads : turns(j)' = turns(k)'
    BY <1>1, <1>2, <1>4, Dealt DEF Running
  <1>8. c \in Nat
    BY <1>0, <1>1, Types
  <1> HIDE DEF l, f, h
  <1>9. TypeOK'
    <2>1. registered' \in [Loops -> SUBSET FdNums]
      BY <1>1, <1>2, <1>5, <1>6, Types, Numbers
    <2>2. tasks' \in Queues
      BY <1>1, <1>4, Types
    <2>3. fds' \subseteq FdNums /\ m_connectionMap' \subseteq Conns /\ m_nextConnId' \in Nat
      BY <1>1, <1>2, <1>4, <1>8, Types
    <2>4. aborted' \in {"no", "notOwner", "fdKnown"}
      BY <1>5
    <2> QED BY <1>1, <1>2, <1>3, <1>4, <2>1, <2>2, <2>3, <2>4
          DEF TypeOK, Conn, Queues, Task, lifeVars
  <1>10. CASE aborted' # "no"
    BY <1>5, <1>9, <1>10 DEF IInv, running
  <1>11. CASE aborted' = "no"
    <2>1. registered' = [registered EXCEPT ![l] = @ \cup {h}]
      BY <1>5, <1>11
    <2>2. conn'[c].state = "up"
      BY <1>5, <1>11
    <2>3. UNCHANGED <<m_numThreads, m_started, m_listening, m_idleFd, shedding, serverAlive, stolen>>
      BY <1>2 DEF lifeVars
    <2>4. Pool'
      <3>1. \A j, k \in 1..m_numThreads : turns(j)' = turns(k)'
        BY <1>7, <2>2
      <3>2. m_started
        BY <1>1, <1>2 DEF Running, Pool
      <3>3. \A d \in Conns : conn'[d].state # "none" => conn'[d].loop <= m_numThreads
        BY <1>1, <1>3, <1>4 DEF Running, Pool
      <3>4. m_next' = 0 \/ m_next' < m_numThreads
        BY <1>3, <1>4
      <3> QED BY <2>3, <3>1, <3>2, <3>3, <3>4 DEF Pool
    <2>5. Phases'
      <3>1. m_nextConnId' >= 1 /\ backlog' + m_nextConnId' <= MaxConns + 1
        <4>1. c >= 1 /\ backlog + c <= MaxConns + 1
          BY <1>0, <1>1 DEF Running, Phases
        <4>2. backlog \in Nat /\ MaxConns \in Nat /\ backlog' \in Nat /\ backlog' + 1 = backlog
          BY <1>1, <1>2, TcpServerAssumption DEF TypeOK
        <4>3. backlog' + (c + 1) <= MaxConns + 1
          BY <1>8, <4>1, <4>2, Shifted
        <4>4. m_nextConnId' = c + 1
          BY <1>4
        <4> QED BY <1>8, <4>3, <4>4
      <3>2. \A d \in Conns : conn'[d].state = "none" <=> d >= m_nextConnId'
        <4> TAKE d \in Conns
        <4>1. conn[d].state = "none" <=> d >= c
          BY <1>0, <1>1 DEF Running, Phases
        <4>2. d \in Nat
          BY Numbers
        <4>3. CASE d = c
          BY <1>4, <1>8, <2>2, <4>3
        <4>4. CASE d # c
          BY <1>4, <1>8, <4>1, <4>2, <4>4
        <4> QED BY <4>3, <4>4
      <3> QED BY <1>2, <2>3, <3>1, <3>2 DEF Phases
    <2>6. live' = live \cup {c} /\ c \notin live /\ live \subseteq Conns
      BY <1>2, <1>4, <2>2 DEF live
    <2>7. \A d \in live : d # c /\ conn'[d] = conn[d]
                          /\ (conn[d].fd = listenFd <=> "listeningFd" \in Faults)
                          /\ conn[d].fd \in fds \cup {listenFd}
      BY <1>1, <1>4, <2>6 DEF Running, Descriptors, Owned
    <2>8. listenFd \in fds /\ m_idleFd \in (fds \cup {-1}) \ {listenFd}
          /\ \A d \in live : conn[d].fd # m_idleFd
      BY <1>1, <1>2 DEF Running, Descriptors, Acceptors
    <2>9. Descriptors'
      <3>1. Owned'
        BY <1>2, <1>4, <1>6, <2>6, <2>7, <2>8 DEF Owned
      <3>2. Distinct'
        <4>1. \A d \in live : conn[d].fd # h \/ h = listenFd
          BY <1>2, <1>6, <2>7
        <4>2. \A d, e \in live : conn[d].fd = conn[e].fd => d = e \/ conn[d].fd = listenFd
          BY <1>1 DEF Running, Descriptors, Distinct
        <4> QED BY <1>4, <2>6, <2>7, <4>1, <4>2 DEF Distinct
      <3>3. Acceptors'
        <4>1. h # m_idleFd
          BY <1>2, <1>6, <2>8, Numbers
        <4> QED BY <1>2, <1>4, <2>3, <2>6, <2>7, <2>8, <4>1 DEF Acceptors
      <3>4. Watched'
        <4> SUFFICES ASSUME NEW k \in Loops, NEW g \in registered'[k] \ {listenFd}
                     PROVE  \E d \in Conns : polls(k, g, d)'
          BY DEF Watched
        <4>1. CASE g \in registered[k]
          <5>1. PICK d \in Conns : polls(k, g, d)
            BY <1>1, <4>1 DEF Running, Descriptors, Watched
          <5>2. d # c
            BY <1>2, <5>1 DEF polls
          <5> QED BY <1>4, <5>1, <5>2 DEF polls
        <4>2. CASE g \notin registered[k]
          <5>1. k = l /\ g = h
            BY <1>1, <1>3, <2>1, <4>2, Types
          <5> QED BY <1>2, <1>4, <2>2, <5>1 DEF polls
        <4> QED BY <4>1, <4>2
      <3>5. Spare'
        BY <1>1, <1>2, <2>3 DEF Running, Descriptors, Spare
      <3> QED BY <3>1, <3>2, <3>3, <3>4, <3>5 DEF Descriptors
    <2>10. \A k \in Loops : \A w : \A d : due(k, w, d)' = due(k, w, d)
      BY <1>4 DEF due
    <2>11. Books(c) /\ Mapped(c)
      BY <1>1, <1>2 DEF Running, Lives
    <2>12. /\ \A k \in Loops : due(k, "destroy", c) = 0
           /\ due(base, "remove", c) = 0 /\ \A k \in Loops \ {base} : due(k, "remove", c) = 0
      BY <1>2, <2>6, <2>11 DEF Books, one
    <2>13. Books(c)'
      <3>2. \A k \in Loops : due(k, "destroy", c)' = 0 /\ due(k, "remove", c)' = 0
        BY <2>10, <2>12
      <3>3. c \in m_connectionMap' /\ c \in live'
        BY <1>4, <2>6
      <3> QED BY <1>4, <2>2, <3>2, <3>3, Numbers DEF Books, one
    <2>14. Mapped(c)'
      BY <1>4, <2>2 DEF Mapped
    <2>16. Lives'
      <3>1. \A d \in Conns \ {c} : \A k \in Loops : \A w : due(k, w, d)' = due(k, w, d)
        BY <2>10
      <3>2. \A d \in Conns \ {c} : d \in m_connectionMap' <=> d \in m_connectionMap
        BY <1>4
      <3> QED BY <1>1, <1>2, <1>4, <2>3, <2>13, <2>14, <3>1, <3>2, LivesStep DEF Running
    <2> QED BY <1>9, <1>11, <2>4, <2>5, <2>9, <2>16, RunningStep DEF Running
  <1> QED BY <1>5, <1>10, <1>11

-----------------------------------------------------------------------------
(* The theorem.                                                            *)

\* At first nobody is connected and nothing is queued.
LEMMA InitIInv == Init => IInv
  <1> SUFFICES ASSUME Init PROVE IInv
    OBVIOUS
  <1>1. MaxThreads \in Nat /\ MaxConns \in Nat /\ FdLimit \in Nat /\ FdLimit >= 2
    BY TcpServerAssumption
  <1>2. /\ \A c \in Conns : conn[c] = unborn /\ conn[c].state = "none" /\ conn[c].loop = base
        /\ \A l \in Loops : tasks[l] = <<>> /\ registered[l] = {}
        /\ live = {}
    BY DEF Init, unborn, live
  <1>3. TypeOK
    <2>1. unborn \in Conn
      BY <1>1 DEF unborn, Conn, States, Loops, base
    <2>2. conn \in [Conns -> Conn] /\ tasks \in Queues /\ registered \in [Loops -> SUBSET FdNums]
      BY <2>1 DEF Init, Queues
    <2>3. fds \subseteq FdNums /\ m_idleFd \in FdNums
      BY <1>1 DEF Init, FdNums, listenFd
    <2>4. m_numThreads \in 0..MaxThreads /\ m_next \in 0..MaxThreads /\ backlog \in Nat
          /\ m_nextConnId \in Nat
      BY <1>1 DEF Init
    <2> QED BY <2>2, <2>3, <2>4 DEF TypeOK, Init, Conn, Queues, Task
  <1>4. Pool
    <2>1. \A l : dealt(l) = Cardinality({})
      BY <1>2 DEF dealt
    <2>2. 1..m_numThreads = {}
      BY DEF Init
    <2> QED BY <1>2, <2>2 DEF Pool, Init
  <1>5. Phases
    BY <1>1, <1>2 DEF Phases, Init, Conns
  <1>6. Descriptors
    BY <1>1, <1>2 DEF Init, Descriptors, Owned, Distinct, Acceptors, Watched, Spare, listenFd
  <1>7. Lives
    <2>1. \A l \in Loops : \A w, c : due(l, w, c) = 0
      BY <1>2, CountEmpty DEF due
    <2>2. \A c \in Conns : Books(c)
      BY <1>2, <2>1, Numbers DEF Books, one, Init
    <2>3. \A c \in Conns : Mapped(c)
      BY <1>2 DEF Mapped
    <2> QED BY <2>2, <2>3 DEF Lives
  <1> QED BY <1>3, <1>4, <1>5, <1>6, <1>7 DEF IInv, Running, Init

\* Every step keeps the invariant.
LEMMA StepIInv ==
    ASSUME IInv, [Next]_vars
    PROVE  IInv'
  <1>1. CASE UNCHANGED vars
    <2>1. TypeOK'
      BY <1>1 DEF IInv, TypeOK, vars, poolVars, acceptVars, connVars, lifeVars
    <2>2. ASSUME running PROVE Running'
      <3>1. Running
        BY <2>2 DEF IInv
      <3>2. UNCHANGED <<poolVars, acceptVars, connVars, fds, lifeVars>>
        BY <1>1 DEF vars
      <3>3. Pool'
        BY <3>1, <3>2, PoolFrame DEF Running, connVars, acceptVars
      <3>4. Phases'
        BY <3>1, <3>2, PhasesFrame DEF Running, connVars, lifeVars
      <3>5. Descriptors'
        BY <3>1, <3>2, DescriptorsFrame DEF Running, connVars, acceptVars, lifeVars
      <3>6. Lives'
        BY <3>1, <3>2, LivesFrame DEF Running, connVars, lifeVars
      <3> QED BY <3>3, <3>4, <3>5, <3>6 DEF Running
    <2> QED BY <1>1, <2>1, <2>2 DEF IInv, running, vars
  <1>2. CASE \E n \in 0..MaxThreads : SetThreadNum(n)
    BY <1>2, SetThreadNumStep
  <1>3. CASE Start
    BY <1>3, StartStep
  <1>4. CASE Connect \/ HandleReadTransient
    BY <1>4, BacklogStep
  <1>5. CASE HandleReadAccepts
    BY <1>5, AcceptStep
  <1>6. CASE HandleReadFatal
    BY <1>6, AbortStep DEF HandleReadFatal
  <1>7. CASE HandleReadEmfile
    BY <1>7, EmfileStep
  <1>8. CASE ShedOne
    BY <1>8, ShedStep
  <1>9. CASE ReopenSpare
    BY <1>9, ReopenStep
  <1>10. CASE OtherOpens
    BY <1>10, OtherOpensStep
  <1>11. CASE \E f \in FdNums : OtherCloses(f)
    BY <1>11, OtherClosesStep
  <1>12. CASE \E c \in Conns : CloseEvent(c)
    BY <1>12, CloseStep
  <1>13. CASE \E c \in Conns : DestroyConnection(c)
    BY <1>13, DestroyHereStep, DestroyThereStep
  <1>14. CASE \E l \in Loops : RunTask(l)
    BY <1>14, RunTaskStep
  <1>15. CASE \E l \in Loops : LoopEnds(l)
    BY <1>15, LoopEndsStep
  <1>16. CASE BeginDestruct
    BY <1>16, BeginDestructStep
  <1>17. CASE EndDestruct
    BY <1>17, EndDestructStep
  <1> QED BY <1>1, <1>2, <1>3, <1>4, <1>5, <1>6, <1>7, <1>8, <1>9, <1>10, <1>11, <1>12,
             <1>13, <1>14, <1>15, <1>16, <1>17 DEF Next, HandleRead

\* The map, the tasks of the loops, the pollers and the descriptors agree whatever
\* closes, dies or is accepted when, and connections are dealt to the loops in turn:
\* for any number of loops, connections and descriptors, and also where the callback
\* of a new connection gets the listening descriptor, as acceptor.cpp:48 has it.
THEOREM ServerIsConsistent == Spec => []Consistent
  <1>1. Init => IInv
    BY InitIInv
  <1>2. IInv /\ [Next]_vars => IInv'
    BY StepIInv
  <1>3. IInv => Consistent
    BY IInvConsistent
  <1> QED BY <1>1, <1>2, <1>3, PTL DEF Spec

-----------------------------------------------------------------------------
(* What a loop was promised: TcpServer implements Connection for each of its *)
(* connections.                                                              *)

Kept(c) == [Promised(c)!Next]_(Promised(c)!vars)

\* A step that leaves a connection alone.
LEMMA KeptStill ==
    ASSUME NEW c, conn'[c].state = conn[c].state, c \in m_connectionMap' <=> c \in m_connectionMap
    PROVE  Kept(c)
  <1>1. holds(c)' = holds(c)
    BY DEF holds
  <1>2. lifeOf(c)' = lifeOf(c)
    BY DEF lifeOf
  <1> QED BY <1>1, <1>2 DEF Kept, Promised!vars

\* A connection that has come to be: what its state and the map say of it.
LEMMA KeptMoves ==
    ASSUME NEW c, NEW from, NEW to, from \notin {"none", "made"}, to # "none",
           conn[c].state = from, conn'[c].state = to,
           c \in m_connectionMap' => c \in m_connectionMap,
           \/ from = to
           \/ from = "up" /\ to = "closed"
           \/ from \in {"up", "closed"} /\ to = "dead" /\ c \notin m_connectionMap'
           \/ from = "closed" /\ to = "dropped" /\ c \notin m_connectionMap
    PROVE  Kept(c)
  <1>1. lifeOf(c) = from /\ lifeOf(c)' = to
    BY DEF lifeOf
  <1>2. holds(c) <=> c \in m_connectionMap
    BY DEF holds
  <1>3. holds(c)' <=> c \in m_connectionMap'
    BY DEF holds
  <1>4. CASE from = to
    <2>1. CASE holds(c) /\ ~holds(c)'
      BY <1>1, <1>4, <2>1 DEF Kept, Promised!Next, Promised!LetGo
    <2>2. CASE holds(c) <=> holds(c)'
      <3>1. holds(c)' = holds(c)
        BY <2>2 DEF holds
      <3> QED BY <1>1, <1>4, <3>1 DEF Kept, Promised!vars
    <2> QED BY <1>2, <1>3, <2>1, <2>2
  <1>6. CASE from = "up" /\ to = "closed"
    <2>1. Promised(c)!Close
      BY <1>1, <1>2, <1>3, <1>6 DEF Promised!Close, Promised!Step, Promised!MayLetGo
    <2> QED BY <2>1 DEF Kept, Promised!Next
  <1>7. CASE from \in {"up", "closed"} /\ to = "dead" /\ c \notin m_connectionMap'
    <2>1. Promised(c)!Destroy
      BY <1>1, <1>3, <1>7 DEF Promised!Destroy, Promised!Step
    <2> QED BY <2>1 DEF Kept, Promised!Next
  <1>8. CASE from = "closed" /\ to = "dropped" /\ c \notin m_connectionMap
    <2>1. Promised(c)!LoopEnds
      BY <1>1, <1>2, <1>3, <1>8 DEF Promised!LoopEnds, Promised!Step
    <2> QED BY <2>1 DEF Kept, Promised!Next
  <1> QED BY <1>4, <1>6, <1>7, <1>8

AllKept == \A c \in Conns : Kept(c)

\* A step that moves one connection c, and perhaps takes it from the map, keeps
\* the promise made for all the others.
LEMMA KeptButOne ==
    ASSUME NEW c, Kept(c), \A d \in Conns \ {c} : conn'[d] = conn[d],
           m_connectionMap' \in {m_connectionMap, m_connectionMap \cup {c}, m_connectionMap \ {c}}
    PROVE  AllKept
  <1>1. ASSUME NEW d \in Conns, d # c PROVE Kept(d)
    <2>1. conn'[d].state = conn[d].state
      BY <1>1
    <2>2. d \in m_connectionMap' <=> d \in m_connectionMap
      BY <1>1
    <2> QED BY <2>1, <2>2, KeptStill
  <1> QED BY <1>1 DEF AllKept

\* A step that leaves all of them alone.
LEMMA KeptAll ==
    ASSUME UNCHANGED <<conn, m_connectionMap>>
    PROVE  AllKept
  BY KeptStill DEF AllKept

\* The connection that is accepted is in the map, made or up.
LEMMA AcceptKeeps ==
    ASSUME IInv, HandleReadAccepts
    PROVE  AllKept
  <1>0. PICK c : c = m_nextConnId
    OBVIOUS
  <1>1. TypeOK /\ Running /\ running
    BY DEF HandleReadAccepts, accepting, IInv, running
  <1>2. conn[c].state = "none"
    BY <1>0, <1>1, Accepted
  <1>3. /\ m_connectionMap' = m_connectionMap \cup {c}
        /\ \A d \in Conns \ {c} : conn'[d] = conn[d]
        /\ conn'[c].state \in {"made", "up"}
    BY <1>0, <1>1, NewConnection
  <1>4. Kept(c)
    <2>1. lifeOf(c) = "made" /\ lifeOf(c)' \in {"made", "up"}
      BY <1>2, <1>3 DEF lifeOf
    <2>2. holds(c)' = holds(c)
      BY <1>2, <1>3 DEF holds
    <2>3. CASE lifeOf(c)' = "made"
      BY <2>1, <2>2, <2>3 DEF Kept, Promised!vars
    <2>4. CASE lifeOf(c)' = "up"
      <3>1. Promised(c)!Establish
        BY <2>1, <2>2, <2>4 DEF Promised!Establish, Promised!Step
      <3> QED BY <3>1 DEF Kept, Promised!Next
    <2> QED BY <2>1, <2>3, <2>4
  <1> QED BY <1>3, <1>4, KeptButOne

\* A close is one, and takes the connection from the map where that is at hand.
LEMMA CloseKeeps ==
    ASSUME IInv, NEW c \in Conns, CloseEvent(c)
    PROVE  AllKept
  <1>1. TypeOK /\ Running /\ running /\ conn[c].state = "up"
    BY DEF CloseEvent, IInv, running
  <1>2. CASE aborted' = "no"
    <2>1. /\ conn' = [conn EXCEPT ![c].state = "closed"]
          /\ m_connectionMap' \in {m_connectionMap, m_connectionMap \ {c}}
      BY <1>1, <1>2, CloseQueues
    <2>2. conn \in [Conns -> Conn] /\ conn[c] \in Conn
      BY <1>1, Types
    <2>3. conn'[c].state = "closed" /\ \A d \in Conns \ {c} : conn'[d] = conn[d]
      BY <2>1, <2>2 DEF Conn
    <2>4. Kept(c)
      BY <1>1, <2>1, <2>3, KeptMoves
    <2> QED BY <2>1, <2>3, <2>4, KeptButOne
  <1>3. CASE aborted' # "no"
    <2>1. UNCHANGED <<conn, m_connectionMap>>
      BY <1>1, <1>3, CloseFinds DEF Abort, connVars
    <2> QED BY <2>1, KeptAll
  <1> QED BY <1>2, <1>3

\* A connection that was established and let go is destroyed.
LEMMA DestroyedKeeps ==
    ASSUME TypeOK, NEW c \in Conns, connectionDestroyed(c), conn[c].state \in {"up", "closed"},
           m_connectionMap' \in {m_connectionMap, m_connectionMap \ {c}}, c \notin m_connectionMap'
    PROVE  AllKept
  <1>1. conn \in [Conns -> Conn] /\ conn[c] \in Conn
    BY Types
  <1>2. conn'[c].state = "dead" /\ \A d \in Conns \ {c} : conn'[d] = conn[d]
    BY <1>1 DEF connectionDestroyed, Conn
  <1>3. Kept(c)
    BY <1>2, KeptMoves
  <1> QED BY <1>2, <1>3, KeptButOne

\* The tasks of a loop do what was promised.
LEMMA RunTaskKeeps ==
    ASSUME IInv, NEW l \in Loops, RunTask(l)
    PROVE  AllKept
  <1> DEFINE t == Head(tasks[l])
             c == t.conn
             rest == popped(tasks, l)
  <1>1. TypeOK /\ Running /\ running /\ tasks[l] # <<>>
    BY DEF RunTask, IInv, running
  <1>2. c \in Conns /\ t = task(t.what, c)
    BY <1>1, FirstTask
  <1>3. \/ Abort("deadRef") \/ Abort("deadServer")
        \/ /\ t.what = "remove" /\ serverAlive = "yes"
           /\ removeConnectionInLoop(c, rest)
           /\ UNCHANGED conn
        \/ /\ t.what = "destroy"
           /\ connectionDestroyed(c)
           /\ UNCHANGED m_connectionMap
    BY DEF RunTask, popped
  <1> HIDE DEF t, c, rest
  <1>4. Head(tasks[l]) = task(t.what, c)
    BY <1>2 DEF t
  <1>5. conn \in [Conns -> Conn] /\ conn[c] \in Conn
    BY <1>1, <1>2, Types
  <1>6. CASE Abort("deadRef") \/ Abort("deadServer")
    <2>1. UNCHANGED <<conn, m_connectionMap>>
      BY <1>6 DEF Abort, connVars
    <2> QED BY <2>1, KeptAll
  <1>8. CASE /\ t.what = "remove" /\ serverAlive = "yes"
             /\ removeConnectionInLoop(c, rest)
             /\ UNCHANGED conn
    <2>1. conn[c].state = "closed" /\ c \in m_connectionMap
      BY <1>1, <1>2, <1>4, <1>8, RemoveFinds
    <2>2. m_connectionMap' = m_connectionMap \ {c}
      BY <1>8, <2>1 DEF removeConnectionInLoop
    <2>3. Kept(c)
      BY <1>8, <2>1, <2>2, KeptMoves
    <2> QED BY <1>8, <2>2, <2>3, KeptButOne
  <1>9. CASE /\ t.what = "destroy"
             /\ connectionDestroyed(c)
             /\ UNCHANGED m_connectionMap
    <2>1. c \in live /\ c \notin m_connectionMap
      BY <1>1, <1>2, <1>4, <1>9, DestroyFinds
    <2>2. conn[c].state \in {"up", "closed"}
      BY <2>1 DEF live
    <2> QED BY <1>1, <1>2, <1>9, <2>1, <2>2, DestroyedKeeps
  <1> QED BY <1>3, <1>6, <1>8, <1>9

\* The destructor lets go of a connection; on its own loop it destroys it as well.
LEMMA DestructKeeps ==
    ASSUME IInv, NEW c \in Conns, DestroyConnection(c)
    PROVE  AllKept
  <1>1. /\ TypeOK /\ Running /\ c \in m_connectionMap
        /\ m_connectionMap' = m_connectionMap \ {c}
    BY DEF DestroyConnection, IInv, running
  <1>2. Books(c) /\ Mapped(c)
    BY <1>1 DEF Running, Lives
  <1>3. c \in live
    BY <1>1, <1>2 DEF Books
  <1>4. CASE conn[c].loop = base
    <2>1. conn[c].state \in {"up", "closed"}
      BY <1>3 DEF live
    <2>2. connectionDestroyed(c)
      BY <1>4 DEF DestroyConnection
    <2> QED BY <1>1, <2>1, <2>2, DestroyedKeeps
  <1>5. CASE conn[c].loop # base
    <2>1. conn' = conn /\ conn[c].state \notin {"none", "made"}
      BY <1>3, <1>5 DEF DestroyConnection, live
    <2>2. Kept(c)
      BY <1>1, <2>1, KeptMoves
    <2> QED BY <1>1, <2>1, <2>2, KeptButOne
  <1> QED BY <1>4, <1>5

\* What a loop drops when it ends, nobody holds, and it has closed.
LEMMA LoopEndsKeeps ==
    ASSUME IInv, NEW l \in Loops, LoopEnds(l)
    PROVE  AllKept
  <1> DEFINE mine == {d \in live : conn[d].loop = l}
  <1>1. TypeOK /\ Running /\ m_connectionMap = {}
    BY DEF LoopEnds, IInv, running, Running, Phases
  <1>2. CASE \E d \in mine : conn[d].state = "up"
    <2>1. Abort("dtor")
      BY <1>2 DEF LoopEnds
    <2> QED BY <2>1, KeptAll DEF Abort, connVars
  <1>3. CASE ~ \E d \in mine : conn[d].state = "up"
    <2>1. /\ conn' = [d \in Conns |-> IF d \in mine THEN [conn[d] EXCEPT !.state = "dropped"]
                                     ELSE conn[d]]
          /\ m_connectionMap' = m_connectionMap
      BY <1>3 DEF LoopEnds
    <2> SUFFICES ASSUME NEW c \in Conns PROVE Kept(c)
      BY DEF AllKept
    <2>2. conn[c] \in Conn
      BY <1>1, Types
    <2>3. CASE c \in mine
      <3>1. conn'[c].state = "dropped"
        BY <2>1, <2>2, <2>3 DEF Conn
      <3>2. conn[c].state = "closed"
        BY <1>3, <2>3 DEF live
      <3> QED BY <1>1, <2>1, <3>1, <3>2, KeptMoves
    <2>4. CASE c \notin mine
      <3>1. conn'[c] = conn[c]
        BY <2>1, <2>4
      <3> QED BY <2>1, <3>1, KeptStill
    <2> QED BY <2>3, <2>4
  <1> QED BY <1>2, <1>3

\* Every connection lives as its loop was promised, for any number of loops and
\* connections: it is destroyed once, after the map has let go of it, whether it
\* closed or the server went first, and what goes with its loop had closed
\* (newConnection, removeConnectionInLoop and ~TcpServer, TcpServer implements
\* Connection).
THEOREM ServerKeepsPromise == Spec => ImplementsConnection
  <1>1. Init => IInv
    BY InitIInv
  <1>2. IInv /\ [Next]_vars => IInv'
    BY StepIInv
  <1>3. Init => \A c \in Conns : Promised(c)!Init
    BY DEF Init, Promised!Init, lifeOf, holds, unborn
  <1>4. IInv /\ [Next]_vars => AllKept
    <2> SUFFICES ASSUME IInv, [Next]_vars PROVE AllKept
      OBVIOUS
    <2>1. CASE \/ UNCHANGED vars \/ Start \/ Connect \/ HandleReadTransient \/ HandleReadFatal
               \/ HandleReadEmfile \/ ShedOne \/ ReopenSpare \/ OtherOpens
               \/ BeginDestruct \/ EndDestruct
               \/ \E n \in 0..MaxThreads : SetThreadNum(n)
               \/ \E f \in FdNums : OtherCloses(f)
      <3>1. UNCHANGED <<conn, m_connectionMap>>
        BY <2>1 DEF vars, Start, Connect, HandleReadTransient, HandleReadFatal,
                    HandleReadEmfile, ShedOne, ReopenSpare, OtherOpens, BeginDestruct, EndDestruct,
                    SetThreadNum, OtherCloses, Abort, connVars
      <3> QED BY <3>1, KeptAll
    <2>2. CASE HandleReadAccepts
      BY <2>2, AcceptKeeps
    <2>3. CASE \E c \in Conns : CloseEvent(c) \/ DestroyConnection(c)
      BY <2>3, CloseKeeps, DestructKeeps
    <2>4. CASE \E l \in Loops : RunTask(l) \/ LoopEnds(l)
      BY <2>4, RunTaskKeeps, LoopEndsKeeps
    <2> QED BY <2>1, <2>2, <2>3, <2>4 DEF Next, HandleRead
  <1>5. AllKept => [\A c \in Conns : [Promised(c)!Next]_(Promised(c)!vars)]_vars
    BY DEF AllKept, Kept
  <1> QED BY <1>1, <1>2, <1>3, <1>4, <1>5, PTL DEF Spec, ImplementsConnection
================================================================================
