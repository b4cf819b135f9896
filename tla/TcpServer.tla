------------------------------- MODULE TcpServer -------------------------------
(***************************************************************************)
(* ynet::TcpServer with its Acceptor and its EventLoopThreadPool: accepting*)
(* on the base loop, handing connections to the loops in turn, removing    *)
(* them across loops, and the descriptors all this takes.  A loop is the   *)
(* queue of its tasks (module EventLoop), a connection the few states the  *)
(* server can tell apart (module TcpConnection).                           *)
(***************************************************************************)
EXTENDS Integers, Sequences, FiniteSets

CONSTANTS
    MaxThreads,     \* bound: loops of the pool
    MaxConns,       \* bound: how many connections are accepted
    FdLimit,        \* descriptors the process may have
    Poller,         \* which poller the loops have, "poll" or "epoll"
    Faults          \* what is as written, not as meant:
                    \*   "listeningFd"    the callback gets the listening socket
                    \*   "noCloseCallback"  nobody installs removeConnection
                    \*   "connRef"        tasks capture the pointer by reference
                    \* and what is as meant, not as written:
                    \*   "threadCheck"    connectionEstablished insists on its
                    \*                    connection's thread (assertInCurrentThread)

ASSUME TcpServerAssumption ==
    /\ MaxThreads \in Nat
    /\ MaxConns \in Nat
    /\ FdLimit \in Nat /\ FdLimit >= 2
    /\ Poller \in {"poll", "epoll"}
    /\ Faults \subseteq {"listeningFd", "threadCheck", "noCloseCallback", "connRef"}

base == 0
Conns == 1..MaxConns
Loops == 0..MaxThreads
FdNums == 1..FdLimit
listenFd == 1

VARIABLES
    m_numThreads, m_started, m_next,    \* of the pool
    m_listening, m_idleFd, shedding,    \* of the acceptor; handleRead's place
    backlog,                            \* connections the kernel holds
    m_nextConnId,
    m_connectionMap,                    \* ids of the connections in the map
    conn,                               \* per id: [state, loop, fd]
    tasks,                              \* per loop: m_asyncTaskList
    registered,                         \* per loop: fds its poller knows
    fds,                                \* open descriptors
    serverAlive,                        \* "yes", "destructing" or "no"
    stolen,                             \* history: a descriptor was opened elsewhere
                                        \* while the spare one was given up
    aborted                             \* "no", or what stopped the process

poolVars == <<m_numThreads, m_started, m_next>>
acceptVars == <<m_listening, m_idleFd, shedding, backlog>>
connVars == <<m_nextConnId, m_connectionMap, conn, tasks, registered>>
lifeVars == <<serverAlive, stolen>>
vars == <<poolVars, acceptVars, connVars, fds, lifeVars, aborted>>

unborn == [state |-> "none", loop |-> base, fd |-> 0]

\* TcpServer's and Acceptor's constructors: socket and spare descriptor.
Init ==
    /\ m_numThreads = 0 /\ m_started = FALSE /\ m_next = 0
    /\ m_listening = FALSE /\ m_idleFd = 2 /\ shedding = "no" /\ backlog = 0
    /\ m_nextConnId = 1 /\ m_connectionMap = {}
    /\ conn = [c \in Conns |-> unborn]
    /\ tasks = [l \in Loops |-> <<>>]
    /\ registered = [l \in Loops |-> {}]
    /\ fds = {listenFd, 2}
    /\ serverAlive = "yes" /\ stolen = FALSE /\ aborted = "no"

-----------------------------------------------------------------------------
(* Helpers.                                                                *)

Abort(why) ==
    /\ aborted' = why
    /\ UNCHANGED <<poolVars, acceptVars, connVars, fds, lifeVars>>

running == aborted = "no"
accepting == running /\ serverAlive = "yes" /\ m_listening

\* The base loop's thread is also the one that accepts and destructs.
baseIsFree == shedding = "no" /\ serverAlive # "destructing"

full == Cardinality(fds) = FdLimit
lowestFree == CHOOSE f \in FdNums \ fds : \A g \in FdNums \ fds : f <= g

task(what, c) == [what |-> what, conn |-> c]

queueTask(l, t) == tasks' = [tasks EXCEPT ![l] = Append(@, t)]

-----------------------------------------------------------------------------
(* Starting.                                                               *)

SetThreadNum(n) ==
    /\ running /\ serverAlive = "yes" /\ ~m_started
    /\ m_numThreads' = n
    /\ UNCHANGED <<m_started, m_next, acceptVars, connVars, fds, lifeVars, aborted>>

\* start() never sets TcpServer::m_started: a second call reaches the pool's
\* assert.  On the base loop's thread the task that listens runs at once.
Start ==
    /\ running /\ serverAlive = "yes"
    /\ IF m_started THEN Abort("startedTwice")
       ELSE /\ m_started' = TRUE /\ m_listening' = TRUE
            /\ registered' = [registered EXCEPT ![base] = @ \cup {listenFd}]
            /\ UNCHANGED <<m_numThreads, m_next, m_idleFd, shedding, backlog, m_nextConnId,
                           m_connectionMap, conn, tasks, fds, lifeVars, aborted>>

-----------------------------------------------------------------------------
(* The pool.                                                               *)

\* The loops a pool of n threads deals out are 1..n; m_next indexes them from 0.
nextLoop == IF m_numThreads = 0 THEN base ELSE m_next + 1

\* Mutant: compares after one turn too many.
advanceLate == IF m_numThreads = 0 THEN m_next
               ELSE IF m_next + 1 > m_numThreads THEN 0 ELSE m_next + 1

advance == IF m_numThreads = 0 THEN m_next
           ELSE IF m_next + 1 >= m_numThreads THEN 0 ELSE m_next + 1

-----------------------------------------------------------------------------
(* Accepting.                                                              *)

Connect ==
    /\ accepting /\ backlog + m_nextConnId <= MaxConns
    /\ backlog' = backlog + 1
    /\ UNCHANGED <<poolVars, m_listening, m_idleFd, shedding, connVars, fds, lifeVars, aborted>>

\* connectionEstablished, on whatever thread it is called: the channel's fd must
\* be new to the poller of the connection's loop.
connectionEstablished(c, l, fd) ==
    LET is(state) == conn' = [conn EXCEPT ![c] = [state |-> state, loop |-> l, fd |-> fd]]
    IN  \/ /\ "threadCheck" \in Faults /\ l # base
           /\ is("made") /\ aborted' = "notOwner" /\ UNCHANGED registered
        \/ /\ ~("threadCheck" \in Faults /\ l # base) /\ fd \in registered[l]
           /\ is("made") /\ aborted' = "fdKnown" /\ UNCHANGED registered
        \/ /\ ~("threadCheck" \in Faults /\ l # base) /\ fd \notin registered[l]
           /\ is("up") /\ registered' = [registered EXCEPT ![l] = @ \cup {fd}]
           /\ UNCHANGED aborted

newConnection(sockfd) ==
    /\ m_next' = advance
    /\ m_nextConnId' = m_nextConnId + 1
    /\ m_connectionMap' = m_connectionMap \cup {m_nextConnId}
    /\ connectionEstablished(m_nextConnId, nextLoop, sockfd)
    /\ UNCHANGED tasks

\* Acceptor::handleRead when accept4 answers a descriptor.
HandleReadAccepts ==
    /\ accepting /\ shedding = "no" /\ backlog > 0 /\ ~full
    /\ fds' = fds \cup {lowestFree}
    /\ backlog' = backlog - 1
    /\ newConnection(IF "listeningFd" \in Faults THEN listenFd ELSE lowestFree)
    /\ UNCHANGED <<m_numThreads, m_started, m_listening, m_idleFd, shedding, lifeVars>>

\* SocketUtils::accept lets these pass: the peer is gone (ECONNABORTED, EPROTO,
\* EPERM), or there is nothing to accept after all (EAGAIN, EINTR).
HandleReadTransient ==
    /\ accepting /\ shedding = "no" /\ backlog > 0
    /\ backlog' = backlog - 1
    /\ UNCHANGED <<poolVars, m_listening, m_idleFd, shedding, connVars, fds, lifeVars, aborted>>

\* ENFILE, ENOBUFS, ENOMEM and the like are fatal.
HandleReadFatal == accepting /\ shedding = "no" /\ backlog > 0 /\ Abort("accept")

closeFd(f) == fds' = fds \ {f}

\* EMFILE: the spare descriptor is given up,
HandleReadEmfile ==
    /\ accepting /\ shedding = "no" /\ backlog > 0 /\ full
    /\ closeFd(m_idleFd) /\ shedding' = "closed"
    /\ UNCHANGED <<poolVars, m_listening, m_idleFd, backlog, connVars, lifeVars, aborted>>

\* used to accept and drop one connection (unless another thread has taken the
\* place, and then nothing is accepted),
ShedOne ==
    /\ accepting /\ shedding = "closed"
    /\ backlog' = IF full \/ backlog = 0 THEN backlog ELSE backlog - 1
    /\ shedding' = "shed"
    /\ UNCHANGED <<poolVars, m_listening, m_idleFd, connVars, fds, lifeVars, aborted>>

\* Mutant: the spare descriptor is not opened again.
reopenNot == m_idleFd' = -1 /\ UNCHANGED fds

reopen == IF full THEN m_idleFd' = -1 /\ UNCHANGED fds
          ELSE m_idleFd' = lowestFree /\ fds' = fds \cup {lowestFree}

\* and opened again if it can be.
ReopenSpare ==
    /\ accepting /\ shedding = "shed"
    /\ reopen /\ shedding' = "no"
    /\ UNCHANGED <<poolVars, m_listening, backlog, connVars, lifeVars, aborted>>

\* Other code of the process opens and closes descriptors of its own.
live == {c \in Conns : conn[c].state \in {"up", "closed"}}
ownFds == {conn[c].fd : c \in live} \cup
    (IF serverAlive = "no" THEN {} ELSE {listenFd} \cup IF shedding = "no" THEN {m_idleFd} ELSE {})

OtherOpens ==
    /\ running /\ ~full
    /\ fds' = fds \cup {lowestFree}
    /\ stolen' = (stolen \/ shedding # "no")
    /\ UNCHANGED <<poolVars, acceptVars, connVars, serverAlive, aborted>>

OtherCloses(f) ==
    /\ running /\ f \in fds \ ownFds
    /\ closeFd(f)
    /\ UNCHANGED <<poolVars, acceptVars, connVars, lifeVars, aborted>>

-----------------------------------------------------------------------------
(* Removing.                                                               *)

\* Mutant: the connection stays in the map.
removeConnectionInLoopKeeps(c, ts) ==
    /\ tasks' = [ts EXCEPT ![conn[c].loop] = Append(@, task("destroy", c))]
    /\ UNCHANGED <<m_connectionMap, aborted>>

\* Mutant: nothing is queued on the connection's loop.
removeConnectionInLoopForgets(c, ts) ==
    /\ m_connectionMap' = m_connectionMap \ {c} /\ tasks' = ts
    /\ UNCHANGED aborted

removeConnectionInLoop(c, ts) ==
    IF c \in m_connectionMap
    THEN /\ m_connectionMap' = m_connectionMap \ {c}
         /\ tasks' = [ts EXCEPT ![conn[c].loop] = Append(@, task("destroy", c))]
         /\ UNCHANGED aborted
    ELSE aborted' = "eraseAssert" /\ tasks' = ts /\ UNCHANGED m_connectionMap

\* A connection's handleClose calls removeConnection, which reaches the base loop
\* as a task unless the connection lives there.  A listening socket has no peer to
\* close it.
CloseEvent(c) ==
    /\ running /\ conn[c].state = "up" /\ (conn[c].loop = base => baseIsFree)
    /\ conn[c].fd # listenFd
    /\ IF "noCloseCallback" \in Faults THEN Abort("noCallback")
       ELSE IF serverAlive = "no" THEN Abort("deadServer")
       ELSE /\ conn' = [conn EXCEPT ![c].state = "closed"]
            /\ IF conn[c].loop = base THEN removeConnectionInLoop(c, tasks)
               ELSE queueTask(base, task("remove", c)) /\ UNCHANGED <<m_connectionMap, aborted>>
            /\ UNCHANGED <<poolVars, acceptVars, m_nextConnId, registered, fds, lifeVars>>

\* Mutant: the channel stays in the poller.
connectionDestroyedUnremoved(c) ==
    /\ conn' = [conn EXCEPT ![c].state = "dead"]
    /\ closeFd(conn[c].fd) /\ UNCHANGED registered

\* TcpConnection::connectionDestroyed, and the last reference goes: the channel
\* leaves the poller before the Socket closes the descriptor.
connectionDestroyed(c) ==
    /\ conn' = [conn EXCEPT ![c].state = "dead"]
    /\ registered' = [registered EXCEPT ![conn[c].loop] = @ \ {conn[c].fd}]
    /\ closeFd(conn[c].fd)

-----------------------------------------------------------------------------
(* The loops.                                                              *)

RunTask(l) ==
    /\ running /\ tasks[l] # <<>> /\ (l = base => baseIsFree)
    /\ LET t == Head(tasks[l])
           c == t.conn
           rest == [tasks EXCEPT ![l] = Tail(@)]
       IN  \/ "connRef" \in Faults /\ Abort("deadRef")
           \/ /\ t.what = "remove" /\ serverAlive = "no"
              /\ Abort("deadServer")
           \/ /\ t.what = "remove" /\ serverAlive = "yes"
              /\ removeConnectionInLoop(c, rest)
              /\ UNCHANGED <<conn, registered, fds>>
           \/ /\ t.what = "destroy"
              /\ connectionDestroyed(c) /\ tasks' = rest
              /\ UNCHANGED <<m_connectionMap, aborted>>
    /\ UNCHANGED <<poolVars, acceptVars, m_nextConnId, lifeVars>>

-----------------------------------------------------------------------------
(* The end of the server.                                                  *)

BeginDestruct ==
    /\ running /\ serverAlive = "yes" /\ shedding = "no"
    /\ serverAlive' = "destructing" /\ m_listening' = FALSE
    /\ UNCHANGED <<poolVars, m_idleFd, shedding, backlog, connVars, fds, stolen, aborted>>

\* One turn of the destructor's loop over the map.
DestroyConnection(c) ==
    /\ running /\ serverAlive = "destructing" /\ c \in m_connectionMap
    /\ m_connectionMap' = m_connectionMap \ {c}
    /\ IF conn[c].loop = base THEN connectionDestroyed(c) /\ UNCHANGED tasks
       ELSE queueTask(conn[c].loop, task("destroy", c)) /\ UNCHANGED <<conn, registered, fds>>
    /\ UNCHANGED <<poolVars, acceptVars, m_nextConnId, lifeVars, aborted>>

\* The members go: the acceptor, its socket and its spare descriptor.  The channel
\* of a server never started is new to its poller when it is disabled, and a
\* PollPoller, which then has it at descriptor -1, fails its assert on removing it.
EndDestruct ==
    /\ running /\ serverAlive = "destructing" /\ m_connectionMap = {}
    /\ IF Poller = "poll" /\ listenFd \notin registered[base] THEN Abort("remove")
       ELSE /\ serverAlive' = "no"
            /\ fds' = fds \ {listenFd, m_idleFd}
            /\ registered' = [registered EXCEPT ![base] = @ \ {listenFd}]
            /\ backlog' = 0
            /\ UNCHANGED <<poolVars, m_listening, m_idleFd, shedding, m_nextConnId,
                           m_connectionMap, conn, tasks, stolen, aborted>>

\* The pool's loops are told to quit; what a loop has not run by then is dropped
\* and with it the last reference to its connections.  One that did not close
\* before fails the assert of its destructor.
LoopEnds(l) ==
    LET mine == {c \in live : conn[c].loop = l} IN
    /\ running /\ serverAlive = "no" /\ l \in 1..m_numThreads /\ mine # {}
    /\ IF \E c \in mine : conn[c].state = "up" THEN Abort("dtor")
       ELSE /\ tasks' = [tasks EXCEPT ![l] = <<>>]
            /\ conn' = [c \in Conns |-> IF c \in mine THEN [conn[c] EXCEPT !.state = "dropped"]
                                       ELSE conn[c]]
            /\ registered' = [registered EXCEPT ![l] = {}]
            /\ fds' = fds \ {conn[c].fd : c \in mine}
            /\ UNCHANGED <<poolVars, acceptVars, m_nextConnId, m_connectionMap, lifeVars, aborted>>

-----------------------------------------------------------------------------

HandleRead ==
    \/ HandleReadAccepts \/ HandleReadTransient \/ HandleReadFatal
    \/ HandleReadEmfile \/ ShedOne \/ ReopenSpare

Next ==
    \/ \E n \in 0..MaxThreads : SetThreadNum(n)
    \/ Start \/ Connect \/ HandleRead
    \/ OtherOpens \/ \E f \in FdNums : OtherCloses(f)
    \/ \E c \in Conns : CloseEvent(c) \/ DestroyConnection(c)
    \/ \E l \in Loops : RunTask(l) \/ LoopEnds(l)
    \/ BeginDestruct \/ EndDestruct

Spec == Init /\ [][Next]_vars

\* Loops that run keep running their tasks, and the base loop's poller keeps
\* reporting a listening socket on which connections wait.
Fairness ==
    /\ WF_vars(HandleRead)
    /\ \A l \in Loops : SF_vars(RunTask(l))

FairSpec == Spec /\ Fairness

-----------------------------------------------------------------------------
(* Properties.                                                             *)

States == {"none", "made", "up", "closed", "dead", "dropped"}

TypeOK ==
    /\ m_numThreads \in 0..MaxThreads /\ m_next \in 0..MaxThreads
    /\ m_started \in BOOLEAN /\ m_listening \in BOOLEAN /\ stolen \in BOOLEAN
    /\ m_idleFd \in FdNums \cup {-1} /\ shedding \in {"no", "closed", "shed"}
    /\ backlog \in Nat /\ m_nextConnId \in Nat
    /\ m_connectionMap \subseteq Conns
    /\ conn \in [Conns -> [state : States, loop : Loops, fd : 0..FdLimit]]
    /\ tasks \in [Loops -> Seq([what : {"remove", "destroy"}, conn : Conns])]
    /\ registered \in [Loops -> SUBSET FdNums] /\ fds \subseteq FdNums
    /\ serverAlive \in {"yes", "destructing", "no"}
    /\ aborted \in {"no", "startedTwice", "accept", "fdKnown", "notOwner", "noCallback",
                    "deadServer", "deadRef", "eraseAssert", "remove", "dtor"}

\* How many tasks of a kind wait for a connection in a loop.
waiting(l, t) == Cardinality({i \in DOMAIN tasks[l] : tasks[l][i] = t})

\* While the server lives, a connection is in the map until its removal, and its
\* life goes on by exactly one task at a time, in the right loop: it is removed and
\* destroyed once each.
OneTaskEach ==
    \A c \in Conns :
        LET due(l, what) == waiting(l, task(what, c)) IN
        /\ due(conn[c].loop, "destroy") =
            (IF c \in live /\ c \notin m_connectionMap THEN 1 ELSE 0)
        /\ (serverAlive = "yes" =>
                due(base, "remove") = IF conn[c].state = "closed" /\ c \in m_connectionMap
                                      THEN 1 ELSE 0)
        /\ \A l \in Loops \ {conn[c].loop} : due(l, "destroy") = 0
        /\ c \in m_connectionMap => c \in live

\* A descriptor has one owner, and it is closed, so that it may be given out
\* again, only after its channel has left the poller.  The listening one is every
\* connection's that acceptor.cpp:48 makes, and no other's.
OneOwnerPerFd ==
    /\ \A c, d \in live : conn[c].fd = conn[d].fd => c = d \/ conn[c].fd = listenFd
    /\ \A c \in live : conn[c].fd = listenFd <=> "listeningFd" \in Faults
    /\ ownFds \ {listenFd} \subseteq fds \cup {-1}
    /\ \A l \in Loops : registered[l] \ {listenFd} \subseteq
            {conn[c].fd : c \in {d \in live : conn[d].loop = l}}
    /\ serverAlive # "no" => \A c \in live : conn[c].fd # m_idleFd \/ shedding # "no"
    /\ m_idleFd = -1 => stolen

\* The pool's loops, and no others, are dealt connections in turn.
dealt(l) == Cardinality({c \in Conns : conn[c].state # "none" /\ conn[c].loop = l})
DealtInTurn ==
    /\ \A l \in Loops : dealt(l) > 0 => l \in 0..m_numThreads
    /\ \A l, k \in 1..m_numThreads : dealt(l) <= dealt(k) + 1

\* The server's books agree while it runs: types, tasks, descriptors and turns; no
\* removal finds the map without it, and a poller knows the descriptor of a new
\* connection only where it is the listening one.
Consistent ==
    /\ TypeOK
    /\ running => OneTaskEach /\ OneOwnerPerFd /\ DealtInTurn
    /\ aborted # "eraseAssert"
    /\ aborted = "fdKnown" => "listeningFd" \in Faults

\* One connection as the server holds it; those to come count as made.
lifeOf(c) == IF conn[c].state = "none" THEN "made" ELSE conn[c].state
holds(c) == conn[c].state = "none" \/ c \in m_connectionMap

Promised(c) == INSTANCE Connection WITH state <- lifeOf(c), held <- holds(c)

\* Every connection lives as its loop was promised, although its life is the work
\* of two threads and the server may go at any time: it is established and destroyed
\* once, never while the map has it, and only a closed one goes with its loop.
ImplementsConnection ==
    /\ \A c \in Conns : Promised(c)!Init
    /\ [][\A c \in Conns : [Promised(c)!Next]_(Promised(c)!vars)]_vars

\* A connection that closed is destroyed, through two loops and back, unless the
\* server or the process comes to an end first.
ClosedIsDestroyed ==
    \A c \in Conns : conn[c].state = "closed" ~>
        (conn[c].state \in {"dead", "dropped"} \/ ~running \/ serverAlive # "yes")

\* The kernel's backlog never stands still, not even when no descriptor is left:
\* the spare one accepts and drops a connection (Acceptor::handleRead), unless
\* another thread stole its place.
BacklogMoves ==
    <>[](accepting /\ backlog > 0 /\ ~stolen) => []<><<backlog' < backlog>>_vars
=============================================================================
