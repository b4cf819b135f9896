---------------------------- MODULE TcpConnection ----------------------------
(***************************************************************************)
(* One ynet::TcpConnection and its Channel: the state machine, the output  *)
(* buffer, the callbacks poll() sets off, the tasks and timers that carry  *)
(* a bare `this`, and the references that keep the object alive.           *)
(*                                                                         *)
(* The loop is reduced to what the connection sees of it: its queue of     *)
(* tasks, first in first out (module EventLoop), and the callbacks of one  *)
(* poll() that are still to be made.  Another thread's call is two steps,  *)
(* the test of m_state and the posting; on the loop thread it is one.      *)
(*                                                                         *)
(* The holder of the connection, whoever installed m_closeCb, is external: *)
(* it owns one reference and queues connectionDestroyed() with a copy of   *)
(* the shared_ptr when it lets go.                                         *)
(***************************************************************************)
EXTENDS Naturals, Sequences

CONSTANTS
    LoopThread,     \* the thread of m_loop
    Others,         \* the other threads that were given the connection
    Poller,         \* which poller the loop has, "poll" or "epoll"
    Faults,         \* {"readv"}: SocketUtils::readv as written; {}: as named
    HighWaterMark,  \* s_highWaterMark, in units of data
    MaxCalls,       \* bound: calls users make in one behaviour
    Patient         \* users keep their reference until their tasks have run

ASSUME TcpConnectionAssumption ==
    /\ LoopThread \notin Others
    /\ {"owner", "dispatch"} \cap (Others \cup {LoopThread}) = {}
    /\ Poller \in {"poll", "epoll"}
    /\ Faults \subseteq {"readv"}
    /\ HighWaterMark \in Nat /\ MaxCalls \in Nat
    /\ Patient \in BOOLEAN

VARIABLES
    m_state, m_reading,
    m_events,       \* interest of the channel
    registered,     \* the poller knows the channel
    watched,        \* and has it in the list it waits on
    m_sendBuf,
    wire,           \* units the kernel has taken
    shut,           \* the write side is shut
    tasks,          \* tasks of this connection in the loop's queue
    timers,         \* users whose forceCloseWithDelay timer is armed
    calls,          \* callbacks of the current handleEvents still to make
    refs,           \* shared_ptrs outside the queue
    busy,           \* per other thread: the call it is inside
    peer,
    aborted,        \* "no", or what stopped the process
    freed,          \* the destructor has run
    accepted,       \* history: units sendInLoop did not give up
    notes,          \* history: what m_connectionChangeCb was told
    called,         \* history: operations users have begun
    made            \* history: how many

Users == Others \cup {LoopThread}
conn  == <<m_state, m_reading, m_events, registered, watched>>
out   == <<m_sendBuf, wire, shut, accepted>>
env   == <<timers, busy, peer, freed, called, made>>
vars  == <<conn, out, tasks, calls, refs, aborted, notes, env>>

Operations == {"send", "sendRef", "shutdown", "forceClose",
               "forceCloseWithDelay", "startRead", "stopRead"}

Init ==
    /\ m_state = "CONNECTING" /\ m_reading = TRUE
    /\ m_events = {} /\ registered = FALSE /\ watched = FALSE
    /\ m_sendBuf = <<>> /\ wire = <<>> /\ accepted = <<>> /\ shut = FALSE
    /\ tasks = <<>> /\ timers = {} /\ calls = <<>>
    /\ refs = {"owner"}
    /\ busy = [t \in Others |-> "no"]
    /\ peer = "open"
    /\ aborted = "no" /\ freed = FALSE
    /\ notes = <<>> /\ called = {} /\ made = 0

-----------------------------------------------------------------------------
(* Helpers.                                                                *)

Running  == aborted = "no"
LoopFree == Running /\ "dispatch" \notin refs   \* between two callbacks or tasks

isWriting == "write" \in m_events
isReading == "read" \in m_events

\* Somebody holds a shared_ptr; a queued connectionDestroyed holds one too.
Alive == refs # {} \/ \E i \in DOMAIN tasks : tasks[i].op = "destroyed"

\* Every change of interest goes through the poller.  PollPoller asserts that the
\* channel's slot is not silent (pollPoller.cpp:53) nor gone (48): a channel keeps
\* its index.  EpollPoller takes it in again, with whatever interest it has
\* (epollPoller.cpp:49-60), so one that is silenced twice is waited on for nothing.
canUpdate == Poller = "epoll" \/ watched

setEvents(events) ==
    m_events' = events /\ registered' = TRUE /\ watched' = (events # {} \/ ~watched)

\* Mutant: the closed channel keeps its interest.
disableAllForgets == registered' = TRUE /\ UNCHANGED <<m_events, watched>>

disableAll == setEvents({})

Abort(why) == aborted' = why /\ UNCHANGED <<conn, out, tasks, refs, notes>>

\* A message is two units, told from all others by its number.
nextMessage == <<Len(accepted) + 1, Len(accepted) + 2>>
junk        == <<0, 0>>

\* What a user must see in m_state for the call to go on.
mayCall(op) ==
    CASE op \in {"send", "sendRef", "shutdown"} -> m_state = "CONNECTED"
      [] op \in {"forceClose", "forceCloseWithDelay"} ->
            m_state \in {"CONNECTED", "DISCONNECTING"}
      [] OTHER -> TRUE

begin(op) ==
    /\ mayCall(op)
    /\ made < MaxCalls
    /\ made' = made + 1
    /\ called' = called \cup {op}

-----------------------------------------------------------------------------
(* Parts of handlers.  Each decides conn, out, refs, notes, aborted and the *)
(* queue, whose tasks but the running one are passed in as q.               *)

\* Mutant: nobody is told, and the holder keeps its entry.
holderStaysUntold(q) == tasks' = q /\ UNCHANGED refs

\* Mutant: the holder does not mind having let go before.
holderLetsGoAgain(q) ==
    /\ refs' = refs \ {"owner"}
    /\ tasks' = Append(q, [op |-> "destroyed", by |-> LoopThread])

\* m_closeCb of the holder: let go of the connection once.
holderLetsGo(q) ==
    /\ refs' = refs \ {"owner"}
    /\ tasks' = IF "owner" \in refs
                THEN Append(q, [op |-> "destroyed", by |-> LoopThread]) ELSE q

handleClose(q) ==
    IF m_state \notin {"CONNECTED", "DISCONNECTED"} THEN Abort("handleClose")
    ELSE IF ~canUpdate THEN Abort("update")
    ELSE /\ m_state' = "DISCONNECTED"
         /\ disableAll
         /\ notes' = Append(notes, "DOWN")
         /\ holderLetsGo(q)
         /\ UNCHANGED <<m_reading, out, aborted>>

\* Nothing happens beyond taking the task off the queue.
nothing(q) == tasks' = q /\ UNCHANGED <<conn, out, refs, notes, aborted>>

\* Mutant: the write side is shut over data still in the buffer.
shutdownInLoopEarly(q) ==
    /\ shut' = TRUE
    /\ tasks' = q
    /\ UNCHANGED <<conn, m_sendBuf, wire, accepted, refs, notes, aborted>>

shutdownInLoop(q) ==
    /\ shut' = (shut \/ ~isWriting)
    /\ tasks' = q
    /\ UNCHANGED <<conn, m_sendBuf, wire, accepted, refs, notes, aborted>>

\* write(2) on a shut socket fails; on an open one it may fail for want of room.
writeResults(n) == IF shut THEN {0} ELSE 0..n

\* Mutant: the buffer gets the whole message, not what write(2) left of it.
unsentAll(text, n) == text

unsent(text, n) == SubSeq(text, n + 1, Len(text))

\* Mutant: what is left waits in the buffer but nobody polls for room.
pollForRoomNever == UNCHANGED <<m_events, registered, watched>>

pollForRoom ==
    IF isWriting THEN UNCHANGED <<m_events, registered, watched>>
    ELSE setEvents(m_events \cup {"write"})

\* m_highWaterMarkCb, which nothing in the repository installs, is called
\* when the buffer comes to reach the mark.
crossesMark(n) ==
    Len(m_sendBuf) + n >= HighWaterMark /\ Len(m_sendBuf) < HighWaterMark

append(text) ==
    IF text = <<>> THEN UNCHANGED <<m_sendBuf, m_events, registered, watched>>
    ELSE m_sendBuf' = m_sendBuf \o text /\ pollForRoom

\* The assert on `sent` comes after the write: 0 stands for its -1.
sendInLoop(text, msg, q) ==
    IF m_state = "DISCONNECTED" THEN nothing(q)
    ELSE LET direct == ~isWriting /\ m_sendBuf = <<>>
         IN  \E n \in IF direct THEN writeResults(Len(text)) ELSE {0} :
               IF direct /\ n = 0 THEN Abort("sendInLoop")
               ELSE IF n < Len(text) /\ crossesMark(Len(text) - n) THEN Abort("highWaterMark")
               ELSE IF n < Len(text) /\ ~isWriting /\ ~canUpdate THEN Abort("update")
               ELSE /\ wire' = wire \o SubSeq(text, 1, n)
                    /\ append(unsent(text, n))
                    /\ accepted' = accepted \o msg
                    /\ tasks' = q
                    /\ UNCHANGED <<m_state, m_reading, shut, refs, notes, aborted>>

startReadInLoop(q) ==
    IF m_reading /\ isReading THEN nothing(q)
    ELSE IF ~canUpdate THEN Abort("update")
    ELSE /\ setEvents(m_events \cup {"read"})
         /\ m_reading' = TRUE
         /\ tasks' = q
         /\ UNCHANGED <<m_state, out, refs, notes, aborted>>

stopReadInLoop(q) ==
    IF ~m_reading /\ ~isReading THEN nothing(q)
    ELSE IF ~canUpdate THEN Abort("update")
    ELSE /\ setEvents(m_events \ {"read"})
         /\ m_reading' = FALSE
         /\ tasks' = q
         /\ UNCHANGED <<m_state, out, refs, notes, aborted>>

forceCloseInLoop(q) ==
    IF m_state \in {"CONNECTED", "DISCONNECTING"} THEN handleClose(q) ELSE nothing(q)

\* Mutant: a connection that has closed already is not taken out of the poller.
channelRemoveUnlessClosed ==
    /\ m_events' = {} /\ watched' = FALSE
    /\ registered' = (m_state = "DISCONNECTED" /\ registered)

channelRemove == m_events' = {} /\ registered' = FALSE /\ watched' = FALSE

\* Mutant: a connection that has closed is told so again.
connectionDestroyedAgain(q) ==
    IF m_state = "CONNECTED" /\ ~canUpdate THEN Abort("update")
    ELSE IF m_state # "CONNECTED" /\ m_events # {} THEN Abort("remove")
    ELSE /\ channelRemove
         /\ m_state' = IF m_state = "CONNECTED" THEN "DISCONNECTED" ELSE m_state
         /\ notes' = Append(notes, "DOWN")
         /\ tasks' = q
         /\ UNCHANGED <<m_reading, out, refs, aborted>>

connectionDestroyed(q) ==
    IF m_state = "CONNECTED" /\ ~canUpdate THEN Abort("update")
    ELSE IF m_state # "CONNECTED" /\ m_events # {} THEN Abort("remove")
    ELSE /\ channelRemove
         /\ m_state' = IF m_state = "CONNECTED" THEN "DISCONNECTED" ELSE m_state
         /\ notes' = IF m_state = "CONNECTED" THEN Append(notes, "DOWN") ELSE notes
         /\ tasks' = q
         /\ UNCHANGED <<m_reading, out, refs, aborted>>

-----------------------------------------------------------------------------
(* The loop thread: establishing, poll and its callbacks.                  *)

\* The users learn of the connection from m_connectionChangeCb; the channel is new
\* to the poller.
ConnectionEstablished ==
    /\ Running /\ m_state = "CONNECTING" /\ notes = <<>>
    /\ m_state' = "CONNECTED"
    /\ setEvents(m_events \cup {"read"})
    /\ notes' = <<"UP">>
    /\ refs' = refs \cup Users
    /\ UNCHANGED <<m_reading, out, tasks, calls, aborted, env>>

\* What handleEvents will call.  With POLLIN wanted a hangup comes with it, so
\* the close callback is for a channel that does not read.
callbackLists ==
    {l \in {<<"read">>, <<"write">>, <<"read", "write">>, <<"close">>, <<"close", "write">>} :
        \A i \in DOMAIN l :
            \/ l[i] = "read"  /\ isReading
            \/ l[i] = "write" /\ isWriting
            \/ l[i] = "close" /\ ~isReading /\ peer = "gone"}

\* The tie is locked before the first callback.  A hangup is reported whatever was
\* asked for, to EpollPoller's channels of no interest too.
PollReturns ==
    /\ LoopFree /\ Alive /\ watched
    /\ calls' \in callbackLists
    /\ refs' = refs \cup {"dispatch"}
    /\ UNCHANGED <<conn, out, tasks, aborted, notes, env>>

\* After the last callback the lock on the tie goes.
DispatchEnds ==
    /\ Running /\ calls = <<>> /\ "dispatch" \in refs
    /\ refs' = refs \ {"dispatch"}
    /\ UNCHANGED <<conn, out, tasks, calls, aborted, notes, env>>

callback(cb) == Running /\ calls # <<>> /\ Head(calls) = cb /\ calls' = Tail(calls)

\* readv(2): the stub of SocketUtils answers 0 whatever there is to read.
readResults ==
    IF "readv" \in Faults THEN {"eof"}
    ELSE {"data", "error"} \cup (IF peer = "gone" THEN {"eof"} ELSE {})

HandleClose == callback("close") /\ handleClose(tasks) /\ UNCHANGED env

\* write(2) takes n units; none taken stands for an error, which is logged.  What
\* a user does in m_writeCompleteCb is a LoopCall.
HandleWrite ==
    /\ callback("write")
    /\ IF ~isWriting THEN UNCHANGED <<conn, out>>
       ELSE \E n \in writeResults(Len(m_sendBuf)) :
              /\ wire' = wire \o SubSeq(m_sendBuf, 1, n)
              /\ m_sendBuf' = unsent(m_sendBuf, n)
              /\ IF n = Len(m_sendBuf) THEN setEvents(m_events \ {"write"})
                 ELSE UNCHANGED <<m_events, registered, watched>>
              /\ shut' = (shut \/ (n = Len(m_sendBuf) /\ m_state = "DISCONNECTING"))
              /\ UNCHANGED <<m_state, m_reading, accepted>>
    /\ UNCHANGED <<tasks, refs, aborted, notes, env>>

-----------------------------------------------------------------------------
(* Calls of user code on the loop thread take effect at once, but for       *)
(* forceClose, which always queues.                                         *)

inLoopTask(op) == [op |-> op, by |-> LoopThread]

sendNow == begin("send") /\ sendInLoop(nextMessage, nextMessage, tasks) /\ UNCHANGED timers

shutdownNow ==
    /\ begin("shutdown")
    /\ m_state' = "CONNECTING"
    /\ shut' = (shut \/ ~isWriting)
    /\ UNCHANGED <<m_reading, m_events, registered, watched, m_sendBuf, wire, accepted,
                   tasks, refs, notes, aborted, timers>>

forceCloseNow ==
    /\ begin("forceClose")
    /\ m_state' = "DISCONNECTING"
    /\ tasks' = Append(tasks, inLoopTask("forceClose"))
    /\ UNCHANGED <<m_reading, m_events, registered, watched, out, refs, notes, aborted, timers>>

forceCloseLater ==
    /\ begin("forceCloseWithDelay")
    /\ timers' = timers \cup {LoopThread}
    /\ nothing(tasks)

readingNow ==
    /\ \/ begin("startRead") /\ startReadInLoop(tasks)
       \/ begin("stopRead") /\ stopReadInLoop(tasks)
    /\ UNCHANGED timers

callNow == sendNow \/ shutdownNow \/ forceCloseNow \/ forceCloseLater \/ readingNow

LoopCall ==
    /\ LoopFree /\ LoopThread \in refs
    /\ callNow
    /\ UNCHANGED <<calls, busy, peer, freed>>

\* The message callback is lent a reference and may make one call before it
\* returns; a patient user calls only through a reference it goes on holding.
HandleRead ==
    /\ callback("read")
    /\ \/ /\ "data" \in readResults
          /\ Patient => LoopThread \in refs
          /\ callNow
          /\ UNCHANGED <<busy, peer, freed>>
       \/ readResults \cap {"data", "error"} # {} /\ nothing(tasks) /\ UNCHANGED env
       \/ "eof" \in readResults /\ handleClose(tasks) /\ UNCHANGED env

\* One task.  Only connectionDestroyed carries a reference; the others carry
\* `this`, and so does a timer.
taskEffect(task, q) ==
    CASE task.op = "send" ->
            IF mayCall("send") THEN sendInLoop(nextMessage, nextMessage, q) ELSE nothing(q)
      [] task.op = "sendRef" ->      \* reads a variable of a call long returned
            \E text \in {nextMessage, junk} : sendInLoop(text, nextMessage, q)
      [] task.op = "shutdown"   -> shutdownInLoop(q)
      [] task.op = "forceClose" -> forceCloseInLoop(q)
      [] task.op = "startRead"  -> startReadInLoop(q)
      [] task.op = "stopRead"   -> stopReadInLoop(q)
      [] task.op = "destroyed"  -> connectionDestroyed(q)
      [] task.op = "forceCloseWithDelay" -> nothing(q)

RunTask ==
    /\ LoopFree /\ tasks # <<>>
    /\ IF Alive \/ Head(tasks).op = "forceCloseWithDelay"
       THEN taskEffect(Head(tasks), Tail(tasks)) ELSE Abort("freed")
    /\ timers' = IF Head(tasks).op = "forceCloseWithDelay"
                 THEN timers \cup {Head(tasks).by} ELSE timers
    /\ UNCHANGED <<calls, busy, peer, freed, called, made>>

TimerFires(t) ==
    /\ LoopFree /\ t \in timers
    /\ timers' = timers \ {t}
    /\ IF Alive THEN forceCloseInLoop(tasks) ELSE Abort("freed")
    /\ UNCHANGED <<calls, busy, peer, freed, called, made>>

-----------------------------------------------------------------------------
(* Other threads, the holder, the peer and the destructor.                 *)

\* The test of m_state, without any lock.
CallBegins(t, op) ==
    /\ Running /\ t \in refs /\ busy[t] = "no"
    /\ begin(op)
    /\ busy' = [busy EXCEPT ![t] = op]
    /\ UNCHANGED <<conn, out, tasks, calls, refs, aborted, notes, timers, peer, freed>>

\* setState, where there is one, and the posting.
CallPosts(t) ==
    /\ Running /\ busy[t] # "no"
    /\ m_state' = CASE busy[t] = "shutdown"   -> "CONNECTING"
                    [] busy[t] = "forceClose" -> "DISCONNECTING"
                    [] OTHER                  -> m_state
    /\ tasks' = Append(tasks, [op |-> busy[t], by |-> t])
    /\ busy' = [busy EXCEPT ![t] = "no"]
    /\ UNCHANGED <<m_reading, m_events, registered, watched, out, calls, refs, aborted, notes,
                   timers, peer, freed, called, made>>

stillCarried(t) == t \in timers \/ \E i \in DOMAIN tasks : tasks[i].by = t /\ tasks[i].op # "destroyed"

\* A user drops its shared_ptr.
Release(t) ==
    /\ Running /\ t \in refs
    /\ t \in Others => busy[t] = "no"
    /\ Patient => ~stillCarried(t)
    /\ refs' = refs \ {t}
    /\ UNCHANGED <<conn, out, tasks, calls, aborted, notes, env>>

\* The holder establishes the connection at once (tcpServer.cpp:83) and lets go later.
HolderDrops ==
    /\ Running /\ notes # <<>> /\ "owner" \in refs
    /\ holderLetsGo(tasks)
    /\ UNCHANGED <<conn, out, calls, aborted, notes, env>>

PeerGone ==
    /\ Running /\ peer = "open"
    /\ peer' = "gone"
    /\ UNCHANGED <<conn, out, tasks, calls, refs, aborted, notes, timers, busy, freed, called, made>>

\* The destructor runs where the last reference was dropped.
Destruct ==
    /\ Running /\ ~Alive /\ ~freed
    /\ freed' = TRUE
    /\ aborted' = IF m_state = "DISCONNECTED" THEN "no" ELSE "dtor"
    /\ UNCHANGED <<conn, out, tasks, calls, refs, notes, timers, busy, peer, called, made>>

Next ==
    \/ ConnectionEstablished \/ PollReturns \/ DispatchEnds
    \/ HandleClose \/ HandleRead \/ HandleWrite
    \/ LoopCall \/ RunTask
    \/ \E t \in Users : TimerFires(t) \/ Release(t)
    \/ \E t \in Others : CallPosts(t) \/ \E op \in Operations : CallBegins(t, op)
    \/ HolderDrops \/ PeerGone \/ Destruct

Spec == Init /\ [][Next]_vars

PollWritable == PollReturns /\ \E i \in DOMAIN calls' : calls'[i] = "write"
WriteSome    == HandleWrite /\ wire' # wire

\* The loop thread makes the callbacks of a poll and takes its tasks and timers
\* in turn with polls (module EventLoop); poll is level triggered, so a socket
\* with room is reported whenever it is asked about, and the peer keeps
\* reading.  Users finish the calls they begin and let go in the end.
Fairness ==
    /\ WF_vars(HandleClose \/ HandleRead \/ HandleWrite \/ DispatchEnds)
    /\ SF_vars(RunTask)
    /\ SF_vars(PollWritable) /\ SF_vars(WriteSome)
    /\ \A t \in Users  : WF_vars(Release(t))
    /\ \A t \in Others : WF_vars(CallPosts(t))
    /\ WF_vars(Destruct)

FairSpec == Spec /\ Fairness

-----------------------------------------------------------------------------
(* Properties.                                                             *)

States  == {"CONNECTING", "CONNECTED", "DISCONNECTING", "DISCONNECTED"}
Reasons == {"handleClose", "update", "sendInLoop", "highWaterMark", "remove", "dtor", "freed"}
Task    == [op : Operations \cup {"destroyed"}, by : Users]

\* The variables have the types of the members they stand for, and callbacks
\* are only made under the lock on the tie.
TypeOK ==
    /\ m_state \in States
    /\ m_reading \in BOOLEAN /\ registered \in BOOLEAN /\ watched \in BOOLEAN
    /\ m_events \subseteq {"read", "write"}
    /\ m_sendBuf \in Seq(Nat) /\ wire \in Seq(Nat) /\ accepted \in Seq(Nat)
    /\ shut \in BOOLEAN /\ freed \in BOOLEAN
    /\ tasks \in Seq(Task)
    /\ timers \subseteq Users
    /\ calls \in Seq({"read", "write", "close"})
    /\ refs \subseteq Users \cup {"owner", "dispatch"}
    /\ calls # <<>> => "dispatch" \in refs
    /\ busy \in [Others -> Operations \cup {"no"}]
    /\ peer \in {"open", "gone"}
    /\ aborted \in Reasons \cup {"no"}
    /\ notes \in Seq({"UP", "DOWN"})
    /\ called \subseteq Operations
    /\ made \in 0..MaxCalls

\* What the kernel took and what waits in m_sendBuf are together everything
\* sendInLoop accepted, in order: partial writes, buffered sends and direct
\* writes never lose, repeat or reorder a unit.  Sends that other threads make
\* through the overloads that capture their argument by reference are outside.
StreamIntact == "sendRef" \notin called => wire \o m_sendBuf = accepted

\* While the connection is up, poll() watches for room exactly when data waits:
\* no data waits unwatched, and no empty buffer makes the loop spin.
BufferedIsPolled == notes = <<"UP">> => (isWriting <=> m_sendBuf # <<>>)

\* While the connection is up its write side is not shut over data a user was
\* told is on its way (shutdownInLoop, and handleWrite after it).
ShutAfterData == notes = <<"UP">> /\ shut => m_sendBuf = <<>>

\* Whoever buffers data, drains it or shuts the socket minds the other two
\* (sendInLoop, handleWrite, shutdownInLoop): neither claim is kept by the steps without the other.
WriteSideMinded == BufferedIsPolled /\ ShutAfterData

\* With EpollPoller startRead and stopRead, run on a closed connection, give its
\* channel to the kernel again.
stirred == Poller = "epoll" /\ called \cap {"startRead", "stopRead"} # {}

\* m_connectionChangeCb is told UP once and then DOWN once, whichever of peer,
\* timer and holder ends the connection; only a channel that was stirred can
\* bring another close (handleClose, connectionDestroyed).
ToldOnce == ~stirred => notes \in {<<>>, <<"UP">>, <<"UP", "DOWN">>}

\* A freed connection is not left in the poller, unless its channel was stirred
\* after connectionDestroyed had taken it out.
FreedIsForgotten == freed /\ Running /\ ~stirred => ~registered

\* Which of the user's calls are to blame when the process stops, of all the asserts
\* and of the empty callback the handlers can meet: shutdown_mt and forceClose leave the
\* states the life cycle knows; PollPoller does not let a silent channel speak again;
\* startRead revives a closed channel of EpollPoller; a send fails only if it writes
\* at once, or reaches the mark.  No task or timer of patient users finds the
\* object gone.
OnlyTheseCallsAbort ==
    LET ends  == called \cap {"shutdown", "forceClose"} # {}
        reads == called \cap {"startRead", "stopRead"} # {}
        sends == called \cap {"send", "sendRef"} # {}
    IN  /\ aborted \in {"handleClose", "dtor"} => ends
        /\ aborted = "remove" => ends \/ (Poller = "epoll" /\ "startRead" \in called)
        /\ aborted = "update" => Poller = "poll" /\ (reads \/ (ends /\ "sendRef" \in called))
        /\ aborted = "sendInLoop" => sends /\ m_sendBuf = <<>>
        /\ aborted = "highWaterMark" => sends /\ Len(m_sendBuf) + 2 >= HighWaterMark
        /\ Patient => aborted # "freed"

\* What the holder sees of the connection: it is destroyed once its last task of
\* that name has run.
toDestroy == \E i \in DOMAIN tasks : tasks[i].op = "destroyed"
lifeOf ==
    IF notes = <<>> THEN "made"
    ELSE IF "owner" \notin refs /\ ~toDestroy THEN "dead"
    ELSE IF notes = <<"UP">> THEN "up" ELSE "closed"

Promised == INSTANCE Connection WITH state <- lifeOf, held <- "owner" \in refs

\* Whatever users, peer and timers do, the connection lives as its holder was
\* promised: established once, closed at most once, destroyed once and not
\* before it was established and let go (handleClose, connectionDestroyed).
ImplementsConnection == Promised!Spec

\* Data in the buffer of a connection that stays up reaches the kernel.
BufferDrains ==
    (notes = <<"UP">> /\ m_sendBuf # <<>>)
        ~> (m_sendBuf = <<>> \/ notes # <<"UP">> \/ ~Running)

\* A connection that went down is destroyed, unless a forceCloseWithDelay timer
\* never fires: no task and no reference of its own keeps it.
ClosedIsFreed ==
    (\E i \in DOMAIN notes : notes[i] = "DOWN") ~> (freed \/ ~Running \/ timers # {})
=============================================================================
