------------------------ MODULE TcpConnectionProofs ------------------------
(* Theorems about TcpConnection, for every set of users, high water mark    *)
(* and bound: types, the byte stream, the watch kept on the buffer and the  *)
(* life of the connection.                                                  *)
EXTENDS TcpConnection, SequenceTheorems, TLAPS

\* What the parts of handlers decide, and what they leave to the actions.
PartsOK ==
    /\ m_state \in States
    /\ m_reading \in BOOLEAN /\ registered \in BOOLEAN /\ watched \in BOOLEAN
    /\ m_events \subseteq {"read", "write"}
    /\ m_sendBuf \in Seq(Nat) /\ wire \in Seq(Nat) /\ accepted \in Seq(Nat)
    /\ shut \in BOOLEAN
    /\ tasks \in Seq(Task)
    /\ refs \subseteq Users \cup {"owner", "dispatch"}
    /\ aborted \in Reasons \cup {"no"}
    /\ notes \in Seq({"UP", "DOWN"})

RestOK ==
    /\ freed \in BOOLEAN
    /\ timers \subseteq Users
    /\ calls \in Seq({"read", "write", "close"})
    /\ calls # <<>> => "dispatch" \in refs
    /\ busy \in [Others -> Operations \cup {"no"}]
    /\ peer \in {"open", "gone"}
    /\ called \subseteq Operations
    /\ made \in 0..MaxCalls

\* The two halves are the type invariant.
LEMMA TypeSplits == TypeOK <=> PartsOK /\ RestOK
  BY DEF TypeOK, PartsOK, RestOK

\* A step made of handler parts keeps their types and the lock on the tie.
Good == PartsOK' /\ ("dispatch" \in refs => "dispatch" \in refs')

-----------------------------------------------------------------------------
(* The parts of handlers.                                                   *)

\* A failed assert changes nothing else.
LEMMA AbortGood ==
    ASSUME PartsOK, NEW why \in Reasons, Abort(why)
    PROVE  Good
  BY DEF PartsOK, Good, Abort, conn, out

\* Taking a task off the queue.
LEMMA NothingGood ==
    ASSUME PartsOK, NEW q \in Seq(Task), nothing(q)
    PROVE  Good
  BY DEF PartsOK, Good, nothing, conn, out

\* Letting go of the connection.
LEMMA HolderGood ==
    ASSUME PartsOK, NEW q \in Seq(Task), holderLetsGo(q)
    PROVE  /\ tasks' \in Seq(Task)
           /\ refs' \subseteq Users \cup {"owner", "dispatch"}
           /\ "dispatch" \in refs => "dispatch" \in refs'
  <1>1. [op |-> "destroyed", by |-> LoopThread] \in Task
    BY DEF Task, Users
  <1>2. Append(q, [op |-> "destroyed", by |-> LoopThread]) \in Seq(Task)
    BY <1>1
  <1>3. QED
    BY <1>2 DEF holderLetsGo, PartsOK

\* The close handler.
LEMMA HandleCloseGood ==
    ASSUME PartsOK, NEW q \in Seq(Task), handleClose(q)
    PROVE  Good
  <1>1. CASE m_state \notin {"CONNECTED", "DISCONNECTED"}
    BY <1>1, AbortGood DEF handleClose, Reasons
  <1>2. CASE m_state \in {"CONNECTED", "DISCONNECTED"} /\ ~canUpdate
    BY <1>2, AbortGood DEF handleClose, Reasons
  <1>3. CASE m_state \in {"CONNECTED", "DISCONNECTED"} /\ canUpdate
    <2>1. holderLetsGo(q)
      BY <1>3 DEF handleClose
    <2>2. Append(notes, "DOWN") \in Seq({"UP", "DOWN"})
      BY DEF PartsOK
    <2>3. QED
      BY <1>3, <2>1, <2>2, HolderGood
      DEF handleClose, PartsOK, Good, disableAll, setEvents, States, out
  <1>4. QED
    BY <1>1, <1>2, <1>3

\* Shutting the write side.
LEMMA ShutdownGood ==
    ASSUME PartsOK, NEW q \in Seq(Task), shutdownInLoop(q)
    PROVE  Good
  BY DEF PartsOK, Good, shutdownInLoop, conn, isWriting

\* What write(2) leaves of a text is a text.
LEMMA PiecesAreTexts ==
    ASSUME NEW text \in Seq(Nat), NEW n \in 0..Len(text)
    PROVE  /\ SubSeq(text, 1, n) \in Seq(Nat)
           /\ unsent(text, n) \in Seq(Nat)
           /\ SubSeq(text, 1, n) \o unsent(text, n) = text
  <1>1. Len(text) \in Nat
    OBVIOUS
  <1>2. SubSeq(text, 1, n) \in Seq(Nat) /\ unsent(text, n) \in Seq(Nat)
    <2>1. \A i \in 1..Len(text) : text[i] \in Nat
      OBVIOUS
    <2>2. \A i \in 1..n : text[i] \in Nat
      BY <1>1, <2>1
    <2>3. \A i \in (n + 1)..Len(text) : text[i] \in Nat
      BY <1>1, <2>1
    <2>4. SubSeq(text, 1, n) \in Seq(Nat)
      BY <1>1, <2>2, SubSeqProperties
    <2>5. SubSeq(text, n + 1, Len(text)) \in Seq(Nat)
      BY <1>1, <2>3, SubSeqProperties
    <2>6. QED
      BY <2>4, <2>5 DEF unsent
  <1>3. SubSeq(text, 1, n) \o SubSeq(text, n + 1, Len(text)) = SubSeq(text, 1, Len(text))
    <2>1. 1 \in 1..Len(text) + 1 /\ n \in 1 - 1..Len(text) /\ Len(text) \in n..Len(text)
      BY <1>1
    <2>2. QED
      BY <2>1, ConcatAdjacentSubSeq
  <1>4. SubSeq(text, 1, Len(text)) = text
    BY SubSeqFull
  <1>5. QED
    BY <1>2, <1>3, <1>4 DEF unsent

\* The results of write(2) are counts of units.
LEMMA ResultsAreCounts ==
    ASSUME NEW k \in Nat, NEW n \in writeResults(k)
    PROVE  n \in 0..k
  BY DEF writeResults

\* The ways a send can end: given up, aborted, or n units written and the rest
\* appended.
LEMMA SendCases ==
    ASSUME PartsOK, NEW text \in Seq(Nat), NEW msg, NEW q, sendInLoop(text, msg, q)
    PROVE  \/ nothing(q)
           \/ Abort("sendInLoop") /\ m_sendBuf = <<>>
           \/ Abort("highWaterMark") /\ Len(m_sendBuf) + Len(text) >= HighWaterMark
           \/ Abort("update") /\ ~canUpdate /\ m_state # "DISCONNECTED"
           \/ \E n \in 0..Len(text) :
                 /\ m_sendBuf # <<>> => n = 0
                 /\ wire' = wire \o SubSeq(text, 1, n)
                 /\ append(unsent(text, n))
                 /\ accepted' = accepted \o msg
                 /\ tasks' = q
                 /\ UNCHANGED <<m_state, m_reading, shut, refs, notes, aborted>>
  <1> DEFINE direct == ~isWriting /\ m_sendBuf = <<>>
  <1>1. CASE m_state = "DISCONNECTED"
    BY <1>1 DEF sendInLoop
  <1>2. CASE m_state # "DISCONNECTED"
    <2>1. PICK n \in IF direct THEN writeResults(Len(text)) ELSE {0} :
            IF direct /\ n = 0 THEN Abort("sendInLoop")
            ELSE IF n < Len(text) /\ crossesMark(Len(text) - n) THEN Abort("highWaterMark")
            ELSE IF n < Len(text) /\ ~isWriting /\ ~canUpdate THEN Abort("update")
            ELSE /\ wire' = wire \o SubSeq(text, 1, n)
                 /\ append(unsent(text, n))
                 /\ accepted' = accepted \o msg
                 /\ tasks' = q
                 /\ UNCHANGED <<m_state, m_reading, shut, refs, notes, aborted>>
      BY <1>2 DEF sendInLoop
    <2>2. Len(text) \in Nat
      OBVIOUS
    <2>3. n \in 0..Len(text) /\ (m_sendBuf # <<>> => n = 0)
      <3>1. CASE direct
        BY <2>1, <2>2, <3>1, ResultsAreCounts
      <3>2. CASE ~direct
        BY <2>1, <2>2, <3>2
      <3>3. QED
        BY <3>1, <3>2
    <2>4. n < Len(text) /\ crossesMark(Len(text) - n) => Len(m_sendBuf) + Len(text) >= HighWaterMark
      <3>1. Len(m_sendBuf) \in Nat /\ HighWaterMark \in Nat
        BY TcpConnectionAssumption DEF PartsOK
      <3>2. QED
        BY <2>2, <2>3, <3>1 DEF crossesMark
    <2>5. QED
      BY <1>2, <2>1, <2>3, <2>4
  <1>3. QED
    BY <1>1, <1>2

\* Sending.
LEMMA SendGood ==
    ASSUME PartsOK, NEW text \in Seq(Nat), NEW msg \in Seq(Nat), NEW q \in Seq(Task),
           sendInLoop(text, msg, q)
    PROVE  Good
  <1>1. CASE nothing(q)
    BY <1>1, NothingGood
  <1>2. CASE Abort("sendInLoop") \/ Abort("highWaterMark") \/ Abort("update")
    BY <1>2, AbortGood DEF Reasons
  <1>3. CASE \E n \in 0..Len(text) :
                 /\ m_sendBuf # <<>> => n = 0
                 /\ wire' = wire \o SubSeq(text, 1, n)
                 /\ append(unsent(text, n))
                 /\ accepted' = accepted \o msg
                 /\ tasks' = q
                 /\ UNCHANGED <<m_state, m_reading, shut, refs, notes, aborted>>
    <2>1. PICK n \in 0..Len(text) :
                 /\ wire' = wire \o SubSeq(text, 1, n)
                 /\ append(unsent(text, n))
                 /\ accepted' = accepted \o msg
                 /\ tasks' = q
                 /\ UNCHANGED <<m_state, m_reading, shut, refs, notes, aborted>>
      BY <1>3
    <2>a. SubSeq(text, 1, n) \in Seq(Nat) /\ unsent(text, n) \in Seq(Nat)
      BY PiecesAreTexts
    <2>b. wire \in Seq(Nat) /\ m_sendBuf \in Seq(Nat) /\ accepted \in Seq(Nat)
      BY DEF PartsOK
    <2>2. wire' \in Seq(Nat) /\ accepted' \in Seq(Nat)
      BY <2>1, <2>a, <2>b
    <2>3. m_sendBuf' \in Seq(Nat)
      <3>1. m_sendBuf' = m_sendBuf \/ m_sendBuf' = m_sendBuf \o unsent(text, n)
        BY <2>1 DEF append
      <3>2. m_sendBuf \o unsent(text, n) \in Seq(Nat)
        BY <2>a, <2>b, ConcatProperties
      <3>3. QED
        BY <2>b, <3>1, <3>2
    <2>4. m_events' \subseteq {"read", "write"} /\ registered' \in BOOLEAN /\ watched' \in BOOLEAN
      BY <2>1 DEF PartsOK, append, pollForRoom, setEvents
    <2>5. QED
      BY <2>1, <2>2, <2>3, <2>4 DEF PartsOK, Good
  <1>4. QED
    BY <1>1, <1>2, <1>3, SendCases

\* Starting and stopping to read.
LEMMA ReadingGood ==
    ASSUME PartsOK, NEW q \in Seq(Task), startReadInLoop(q) \/ stopReadInLoop(q)
    PROVE  Good
  <1>1. CASE nothing(q) \/ Abort("update")
    BY <1>1, NothingGood, AbortGood DEF Reasons
  <1>2. CASE ~nothing(q) /\ ~Abort("update")
    BY <1>2 DEF PartsOK, Good, startReadInLoop, stopReadInLoop, setEvents, conn, out
  <1>3. QED
    BY <1>1, <1>2

\* Closing on a user's demand.
LEMMA ForceCloseGood ==
    ASSUME PartsOK, NEW q \in Seq(Task), forceCloseInLoop(q)
    PROVE  Good
  BY HandleCloseGood, NothingGood DEF forceCloseInLoop

\* The end of the channel.
LEMMA DestroyedGood ==
    ASSUME PartsOK, NEW q \in Seq(Task), connectionDestroyed(q)
    PROVE  Good
  <1>1. CASE m_state # "CONNECTED" /\ m_events # {}
    BY <1>1, AbortGood DEF connectionDestroyed, Reasons
  <1>3. CASE m_state = "CONNECTED" /\ ~canUpdate
    BY <1>3, AbortGood DEF connectionDestroyed, Reasons
  <1>2. CASE ~(m_state # "CONNECTED" /\ m_events # {}) /\ ~(m_state = "CONNECTED" /\ ~canUpdate)
    <2>1. Append(notes, "DOWN") \in Seq({"UP", "DOWN"})
      BY DEF PartsOK
    <2>2. QED
      BY <1>2, <2>1 DEF connectionDestroyed, channelRemove, PartsOK, Good, States, out
  <1>4. QED
    BY <1>1, <1>2, <1>3
-----------------------------------------------------------------------------
(* Type correctness.                                                        *)

\* Messages are texts.
LEMMA MessagesAreTexts ==
    ASSUME PartsOK
    PROVE  nextMessage \in Seq(Nat) /\ junk \in Seq(Nat)
  <1>1. Len(accepted) \in Nat
    BY DEF PartsOK
  <1>2. Len(accepted) + 1 \in Nat /\ Len(accepted) + 2 \in Nat
    BY <1>1
  <1>3. QED
    BY <1>2 DEF nextMessage, junk

\* A call is recorded.
LEMMA BeginTyped ==
    ASSUME RestOK, NEW op \in Operations, begin(op)
    PROVE  called' \subseteq Operations /\ made' \in 0..MaxCalls
  BY TcpConnectionAssumption DEF RestOK, begin

\* A call on the loop thread.
LEMMA CallNowTyped ==
    ASSUME TypeOK, callNow
    PROVE  Good /\ timers' \subseteq Users /\ called' \subseteq Operations /\ made' \in 0..MaxCalls
  <1> USE TypeSplits
  <1>0. tasks \in Seq(Task) /\ timers \subseteq Users
    BY DEF PartsOK, RestOK
  <1>1. CASE sendNow
    BY <1>0, <1>1, SendGood, MessagesAreTexts, BeginTyped DEF sendNow, Operations
  <1>2. CASE shutdownNow
    BY <1>0, <1>2, BeginTyped DEF shutdownNow, Operations, PartsOK, Good, States, isWriting
  <1>3. CASE forceCloseNow
    <2>1. inLoopTask("forceClose") \in Task
      BY DEF inLoopTask, Task, Operations, Users
    <2>2. Append(tasks, inLoopTask("forceClose")) \in Seq(Task)
      BY <1>0, <2>1
    <2>3. QED
      BY <1>0, <1>3, <2>2, BeginTyped DEF forceCloseNow, Operations, PartsOK, Good, States, out
  <1>4. CASE forceCloseLater
    BY <1>0, <1>4, NothingGood, BeginTyped DEF forceCloseLater, Operations, Users
  <1>5. CASE readingNow
    BY <1>0, <1>5, ReadingGood, BeginTyped DEF readingNow, Operations
  <1>6. QED
    BY <1>1, <1>2, <1>3, <1>4, <1>5 DEF callNow

\* The parts of the type invariant an action that makes a handler's step keeps.
LEMMA GoodStep ==
    ASSUME TypeOK, Good, calls' = calls \/ (calls # <<>> /\ calls' = Tail(calls)),
           timers' \subseteq Users, called' \subseteq Operations, made' \in 0..MaxCalls,
           UNCHANGED <<busy, peer, freed>>
    PROVE  TypeOK'
  <1>1. calls' \in Seq({"read", "write", "close"})
    <2>1. calls \in Seq({"read", "write", "close"})
      BY DEF TypeOK
    <2>2. calls # <<>> => Tail(calls) \in Seq({"read", "write", "close"})
      BY <2>1
    <2>3. QED
      BY <2>1, <2>2
  <1>2. calls' # <<>> => calls # <<>>
    OBVIOUS
  <1>3. calls' # <<>> => "dispatch" \in refs'
    BY <1>2 DEF TypeOK, Good
  <1>4. RestOK'
    BY <1>1, <1>3 DEF TypeOK, RestOK
  <1>5. QED
    BY <1>4 DEF Good, TypeOK, PartsOK, RestOK

\* What one queued task does.
LEMMA TaskGood ==
    ASSUME PartsOK, tasks # <<>>, taskEffect(Head(tasks), Tail(tasks))
    PROVE  Good
  <1> DEFINE q == Tail(tasks)
             task == Head(tasks)
  <1>1. q \in Seq(Task) /\ task \in Task
    BY DEF PartsOK
  <1>2. task.op \in {"send", "sendRef", "shutdown", "forceClose", "startRead", "stopRead",
                     "destroyed", "forceCloseWithDelay"}
    BY <1>1 DEF Task, Operations
  <1> HIDE DEF q, task
  <1>3. taskEffect(task, q)
    BY DEF q, task
  <1>4. CASE task.op = "send"
    BY <1>1, <1>3, <1>4, SendGood, NothingGood, MessagesAreTexts DEF taskEffect
  <1>5. CASE task.op = "sendRef"
    <2>1. PICK text \in {nextMessage, junk} : sendInLoop(text, nextMessage, q)
      BY <1>3, <1>5 DEF taskEffect
    <2>2. QED
      BY <1>1, <2>1, SendGood, MessagesAreTexts
  <1>6. CASE task.op = "shutdown"
    BY <1>1, <1>3, <1>6, ShutdownGood DEF taskEffect
  <1>7. CASE task.op = "forceClose"
    BY <1>1, <1>3, <1>7, ForceCloseGood DEF taskEffect
  <1>8. CASE task.op \in {"startRead", "stopRead"}
    BY <1>1, <1>3, <1>8, ReadingGood DEF taskEffect
  <1>9. CASE task.op = "destroyed"
    BY <1>1, <1>3, <1>9, DestroyedGood DEF taskEffect
  <1>10. CASE task.op = "forceCloseWithDelay"
    BY <1>1, <1>3, <1>10, NothingGood DEF taskEffect
  <1>11. QED
    BY <1>2, <1>4, <1>5, <1>6, <1>7, <1>8, <1>9, <1>10
\* Every action keeps the types.
LEMMA TypeInductive ==
    ASSUME TypeOK, [Next]_vars
    PROVE  TypeOK'
  <1> USE TypeSplits
  <1>0. /\ tasks \in Seq(Task) /\ timers \subseteq Users
        /\ called \subseteq Operations /\ made \in 0..MaxCalls
    BY DEF PartsOK, RestOK
  <1>1. CASE ConnectionEstablished
    <2>1. <<"UP">> \in Seq({"UP", "DOWN"})
      OBVIOUS
    <2>2. Good
      BY <1>1, <2>1 DEF ConnectionEstablished, setEvents, PartsOK, Good, States, out
    <2>3. QED
      BY <1>0, <1>1, <2>2, GoodStep DEF ConnectionEstablished, env
  <1>2. CASE PollReturns
    <2>1. calls' \in Seq({"read", "write", "close"})
      BY <1>2 DEF PollReturns, callbackLists
    <2>2. PartsOK'
      BY <1>2 DEF PollReturns, PartsOK, conn, out
    <2>3. RestOK'
      BY <1>2, <2>1 DEF PollReturns, RestOK, env
    <2>4. QED
      BY <2>2, <2>3 DEF PartsOK, RestOK, TypeOK
  <1>3. CASE DispatchEnds
    <2>1. PartsOK'
      BY <1>3 DEF DispatchEnds, PartsOK, conn, out
    <2>2. RestOK'
      BY <1>3 DEF DispatchEnds, RestOK, env
    <2>3. QED
      BY <2>1, <2>2 DEF PartsOK, RestOK, TypeOK
  <1>4. CASE HandleClose
    BY <1>0, <1>4, HandleCloseGood, GoodStep DEF HandleClose, callback, env
  <1>5. CASE HandleRead
    <2>1. calls # <<>> /\ calls' = Tail(calls)
      BY <1>5 DEF HandleRead, callback
    <2>2. CASE callNow /\ UNCHANGED <<busy, peer, freed>>
      BY <2>1, <2>2, CallNowTyped, GoodStep
    <2>3. CASE nothing(tasks) /\ UNCHANGED env
      BY <1>0, <2>1, <2>3, NothingGood, GoodStep DEF env
    <2>4. CASE handleClose(tasks) /\ UNCHANGED env
      BY <1>0, <2>1, <2>4, HandleCloseGood, GoodStep DEF env
    <2>5. QED
      BY <1>5, <2>2, <2>3, <2>4 DEF HandleRead
  <1>6. CASE HandleWrite
    <2>1. Good
      <3>1. CASE ~isWriting
        BY <1>6, <3>1 DEF HandleWrite, PartsOK, Good, conn, out
      <3>2. CASE isWriting
        <4>1. PICK n \in writeResults(Len(m_sendBuf)) :
                /\ wire' = wire \o SubSeq(m_sendBuf, 1, n)
                /\ m_sendBuf' = unsent(m_sendBuf, n)
                /\ IF n = Len(m_sendBuf) THEN setEvents(m_events \ {"write"})
                   ELSE UNCHANGED <<m_events, registered, watched>>
                /\ shut' = (shut \/ (n = Len(m_sendBuf) /\ m_state = "DISCONNECTING"))
                /\ UNCHANGED <<m_state, m_reading, accepted>>
          BY <1>6, <3>2 DEF HandleWrite
        <4>2. m_sendBuf \in Seq(Nat) /\ wire \in Seq(Nat) /\ Len(m_sendBuf) \in Nat
          BY DEF PartsOK
        <4>3. n \in 0..Len(m_sendBuf)
          BY <4>2, ResultsAreCounts
        <4>4. SubSeq(m_sendBuf, 1, n) \in Seq(Nat) /\ unsent(m_sendBuf, n) \in Seq(Nat)
          BY <4>2, <4>3, PiecesAreTexts
        <4>5. wire' \in Seq(Nat) /\ m_sendBuf' \in Seq(Nat)
          BY <4>1, <4>2, <4>4, ConcatProperties
        <4>6. QED
          BY <1>6, <4>1, <4>5 DEF HandleWrite, PartsOK, Good, setEvents
      <3>3. QED
        BY <3>1, <3>2
    <2>2. QED
      BY <1>0, <1>6, <2>1, GoodStep DEF HandleWrite, callback, env
  <1>7. CASE LoopCall
    BY <1>7, CallNowTyped, GoodStep DEF LoopCall
  <1>8. CASE RunTask
    <2>1. Good
      BY <1>8, TaskGood, AbortGood DEF RunTask, Reasons
    <2>2. Head(tasks) \in Task
      BY <1>0, <1>8 DEF RunTask
    <2>3. timers' \subseteq Users
      BY <1>0, <1>8, <2>2 DEF RunTask, Task
    <2>4. QED
      BY <1>0, <1>8, <2>1, <2>3, GoodStep DEF RunTask
  <1>9. CASE \E t \in Users : TimerFires(t)
    BY <1>0, <1>9, ForceCloseGood, AbortGood, GoodStep DEF TimerFires, Reasons
  <1>10. CASE \E t \in Users : Release(t)
    <2>1. Good
      BY <1>10, TcpConnectionAssumption DEF Release, PartsOK, Good, Users, conn, out
    <2>2. QED
      BY <1>0, <1>10, <2>1, GoodStep DEF Release, env
  <1>11. CASE \E t \in Others : CallPosts(t)
    <2>1. PICK t \in Others : CallPosts(t)
      BY <1>11
    <2>2. busy[t] \in Operations
      BY <2>1 DEF CallPosts, RestOK
    <2>3. [op |-> busy[t], by |-> t] \in Task
      BY <2>2 DEF Task, Users
    <2>4. tasks' \in Seq(Task)
      BY <1>0, <2>1, <2>3 DEF CallPosts
    <2>5. PartsOK'
      BY <2>1, <2>4 DEF CallPosts, PartsOK, States, out
    <2>6. RestOK'
      BY <2>1 DEF CallPosts, RestOK
    <2>7. QED
      BY <2>5, <2>6 DEF PartsOK, RestOK, TypeOK
  <1>12. CASE \E t \in Others : \E op \in Operations : CallBegins(t, op)
    <2>1. PICK t \in Others, op \in Operations : CallBegins(t, op)
      BY <1>12
    <2>2. PartsOK'
      BY <2>1 DEF CallBegins, PartsOK, conn, out
    <2>3. RestOK'
      BY <2>1, BeginTyped DEF CallBegins, RestOK
    <2>4. QED
      BY <2>2, <2>3 DEF PartsOK, RestOK, TypeOK
  <1>13. CASE HolderDrops
    <2>1. Good
      BY <1>0, <1>13, HolderGood DEF HolderDrops, PartsOK, Good, conn, out
    <2>2. QED
      BY <1>0, <1>13, <2>1, GoodStep DEF HolderDrops, env
  <1>14. CASE PeerGone
    <2>1. PartsOK'
      BY <1>14 DEF PeerGone, PartsOK, conn, out
    <2>2. RestOK'
      BY <1>14 DEF PeerGone, RestOK
    <2>3. QED
      BY <2>1, <2>2 DEF PartsOK, RestOK, TypeOK
  <1>15. CASE Destruct
    <2>1. PartsOK'
      BY <1>15 DEF Destruct, PartsOK, Reasons, conn, out
    <2>2. RestOK'
      BY <1>15 DEF Destruct, RestOK
    <2>3. QED
      BY <2>1, <2>2 DEF PartsOK, RestOK, TypeOK
  <1>16. CASE UNCHANGED vars
    BY <1>16 DEF vars, conn, out, env, TypeOK
  <1>17. QED
    BY <1>1, <1>2, <1>3, <1>4, <1>5, <1>6, <1>7, <1>8, <1>9, <1>10, <1>11, <1>12, <1>13,
       <1>14, <1>15, <1>16 DEF Next

\* The connection's variables keep their types, and callbacks are only made
\* under the lock on the tie.
THEOREM TypeCorrect == Spec => []TypeOK
  <1>1. Init => TypeOK
    <2> SUFFICES ASSUME Init PROVE TypeOK
      OBVIOUS
    <2>1. PartsOK
      <3>1. <<>> \in Seq(Nat) /\ <<>> \in Seq(Task) /\ <<>> \in Seq({"UP", "DOWN"})
        OBVIOUS
      <3>2. m_state \in States /\ aborted \in Reasons \cup {"no"}
        BY DEF Init, States, Reasons
      <3>3. QED
        BY <3>1, <3>2 DEF Init, PartsOK
    <2>2. RestOK
      <3>1. made \in 0..MaxCalls
        BY TcpConnectionAssumption DEF Init
      <3>2. busy \in [Others -> Operations \cup {"no"}]
        BY DEF Init
      <3>3. calls = <<>> /\ calls \in Seq({"read", "write", "close"})
        BY DEF Init
      <3>4. QED
        BY <3>1, <3>2, <3>3 DEF Init, RestOK
    <2>3. QED
      BY <2>1, <2>2, TypeSplits
  <1>2. TypeOK /\ [Next]_vars => TypeOK'
    BY TypeInductive
  <1>3. QED
    BY <1>1, <1>2, PTL DEF Spec
-----------------------------------------------------------------------------
(* The byte stream.                                                         *)

\* No send through a reference is on its way.
NoRef ==
    /\ \A i \in DOMAIN tasks : tasks[i].op # "sendRef"
    /\ \A t \in Others : busy[t] # "sendRef"

StreamInv == "sendRef" \notin called => (wire \o m_sendBuf = accepted) /\ NoRef

\* A handler's step that leaves the stream alone and queues no such send.
Keeps(q) ==
    /\ UNCHANGED <<wire, m_sendBuf, accepted>>
    /\ \/ tasks' = tasks \/ tasks' = q
       \/ \E x \in Task : x.op # "sendRef" /\ tasks' = Append(q, x)

\* A handler's step, on the whole: the stream stays whole.
Whole(q) ==
    /\ (wire \o m_sendBuf = accepted) => (wire' \o m_sendBuf' = accepted')
    /\ \/ tasks' = tasks \/ tasks' = q
       \/ \E x \in Task : x.op # "sendRef" /\ tasks' = Append(q, x)

\* Leaving the stream alone keeps it whole.
LEMMA KeepsWhole ==
    ASSUME NEW q, Keeps(q)
    PROVE  Whole(q)
  BY DEF Keeps, Whole

\* Closing does not touch the stream.
LEMMA CloseKeeps ==
    ASSUME PartsOK, NEW q \in Seq(Task), handleClose(q)
    PROVE  Keeps(q)
  <1> DEFINE x == [op |-> "destroyed", by |-> LoopThread]
  <1>1. x \in Task /\ x.op # "sendRef"
    BY DEF Task, Users
  <1> HIDE DEF x
  <1>2. CASE m_state \notin {"CONNECTED", "DISCONNECTED"}
    BY <1>2 DEF handleClose, Abort, Keeps, out
  <1>5. CASE m_state \in {"CONNECTED", "DISCONNECTED"} /\ ~canUpdate
    BY <1>5 DEF handleClose, Abort, Keeps, out
  <1>3. CASE m_state \in {"CONNECTED", "DISCONNECTED"} /\ canUpdate
    <2>1. tasks' = q \/ tasks' = Append(q, x)
      BY <1>3 DEF handleClose, holderLetsGo, x
    <2>2. UNCHANGED <<wire, m_sendBuf, accepted>>
      BY <1>3 DEF handleClose, out
    <2>3. QED
      BY <1>1, <2>1, <2>2 DEF Keeps
  <1>4. QED
    BY <1>2, <1>3, <1>5

\* Nor do the other handlers that send nothing.
LEMMA OthersKeep ==
    ASSUME NEW q,
           \/ nothing(q) \/ shutdownInLoop(q) \/ startReadInLoop(q) \/ stopReadInLoop(q)
           \/ connectionDestroyed(q) \/ \E why \in Reasons : Abort(why)
    PROVE  Keeps(q)
  BY DEF nothing, shutdownInLoop, startReadInLoop, stopReadInLoop, connectionDestroyed,
         Abort, Keeps, out

\* Texts may be bracketed at will.
LEMMA TextsAssociate ==
    \A a, b, c \in Seq(Nat) : (a \o b) \o c = a \o (b \o c)
  <1> DEFINE T == Nat
  <1> SUFFICES ASSUME NEW a \in Seq(T), NEW b \in Seq(T), NEW c \in Seq(T)
               PROVE  (a \o b) \o c = a \o (b \o c)
    OBVIOUS
  <1> HIDE DEF T
  <1>1. QED
    BY ConcatAssociative, Z3

\* A send adds its message behind what waits, whatever part write(2) takes.
LEMMA SendWhole ==
    ASSUME PartsOK, NEW text \in Seq(Nat), NEW q, sendInLoop(text, text, q)
    PROVE  Whole(q)
  <1>1. CASE nothing(q) \/ Abort("sendInLoop") \/ Abort("highWaterMark") \/ Abort("update")
    BY <1>1, OthersKeep, KeepsWhole DEF Reasons
  <1>2. CASE \E n \in 0..Len(text) :
                 /\ m_sendBuf # <<>> => n = 0
                 /\ wire' = wire \o SubSeq(text, 1, n)
                 /\ append(unsent(text, n))
                 /\ accepted' = accepted \o text
                 /\ tasks' = q
                 /\ UNCHANGED <<m_state, m_reading, shut, refs, notes, aborted>>
    <2>1. PICK n \in 0..Len(text) :
                 /\ m_sendBuf # <<>> => n = 0
                 /\ wire' = wire \o SubSeq(text, 1, n)
                 /\ append(unsent(text, n))
                 /\ accepted' = accepted \o text
                 /\ tasks' = q
      BY <1>2
    <2> DEFINE s == SubSeq(text, 1, n)
               u == unsent(text, n)
    <2>2. /\ s \in Seq(Nat) /\ u \in Seq(Nat) /\ s \o u = text
          /\ wire \in Seq(Nat) /\ m_sendBuf \in Seq(Nat) /\ accepted \in Seq(Nat)
      BY PiecesAreTexts DEF PartsOK
    <2>3. m_sendBuf' = m_sendBuf \o u
      <3>1. m_sendBuf \o <<>> = m_sendBuf
        BY <2>2, ConcatEmptySeq
      <3>2. QED
        BY <2>1, <3>1 DEF append
    <2>4. wire' = wire \o s /\ accepted' = accepted \o text /\ s \o u = text
      BY <2>1, <2>2
    <2>5. m_sendBuf # <<>> => s = <<>>
      BY <2>1, SubSeqEmpty
    <2> HIDE DEF s, u
    <2>6. ASSUME wire \o m_sendBuf = accepted
          PROVE  wire' \o m_sendBuf' = accepted'
      <3>1. CASE m_sendBuf = <<>>
        <4>1. wire = accepted /\ m_sendBuf' = u
          BY <2>2, <2>3, <2>6, <3>1, ConcatEmptySeq
        <4>2. (wire \o s) \o u = wire \o (s \o u)
          <5>1. wire \in Seq(Nat) /\ s \in Seq(Nat) /\ u \in Seq(Nat)
            BY <2>2
          <5>2. QED
            BY <5>1, TextsAssociate, ZenonT(40)
        <4>3. wire' \o m_sendBuf' = wire \o text
          BY <2>4, <4>1, <4>2, Zenon
        <4>4. QED
          BY <2>4, <4>1, <4>3, Zenon
      <3>2. CASE m_sendBuf # <<>>
        <4>1. s = <<>>
          BY <2>5, <3>2
        <4>2. wire' = wire /\ u = text
          BY <2>2, <2>4, <4>1, ConcatEmptySeq
        <4>3. wire \o (m_sendBuf \o u) = (wire \o m_sendBuf) \o u
          <5>1. wire \in Seq(Nat) /\ m_sendBuf \in Seq(Nat) /\ u \in Seq(Nat)
            BY <2>2
          <5>2. QED
            BY <5>1, TextsAssociate, ZenonT(40)
        <4>4. wire' \o m_sendBuf' = (wire \o m_sendBuf) \o text
          BY <2>3, <4>2, <4>3, Zenon
        <4>5. QED
          BY <2>4, <2>6, <4>4, Zenon
      <3>3. QED
        BY <3>1, <3>2
    <2>7. QED
      BY <2>1, <2>6 DEF Whole
  <1>3. QED
    BY <1>1, <1>2, SendCases
\* A user's call on the loop thread keeps the stream whole.
LEMMA CallWhole ==
    ASSUME PartsOK, callNow
    PROVE  Whole(tasks) /\ called \subseteq called'
  <1>0. tasks \in Seq(Task)
    BY DEF PartsOK
  <1>1. CASE sendNow
    BY <1>1, SendWhole, MessagesAreTexts DEF sendNow, begin
  <1>2. CASE shutdownNow
    BY <1>2 DEF shutdownNow, begin, Whole
  <1>3. CASE forceCloseNow
    <2> DEFINE x == inLoopTask("forceClose")
    <2>1. x \in Task /\ x.op # "sendRef"
      BY DEF inLoopTask, Task, Operations, Users
    <2>2. tasks' = Append(tasks, x)
      BY <1>3 DEF forceCloseNow
    <2> HIDE DEF x
    <2>3. QED
      BY <1>3, <2>1, <2>2 DEF forceCloseNow, begin, Whole, out
  <1>4. CASE forceCloseLater \/ readingNow
    <2>1. nothing(tasks) \/ startReadInLoop(tasks) \/ stopReadInLoop(tasks)
      BY <1>4 DEF forceCloseLater, readingNow
    <2>2. called \subseteq called'
      BY <1>4 DEF forceCloseLater, readingNow, begin
    <2>3. QED
      BY <2>1, <2>2, OthersKeep, KeepsWhole
  <1>5. QED
    BY <1>1, <1>2, <1>3, <1>4 DEF callNow

\* A queued task keeps the stream whole, if it is not a send by reference.
LEMMA TaskWhole ==
    ASSUME PartsOK, tasks # <<>>, Head(tasks).op # "sendRef",
           taskEffect(Head(tasks), Tail(tasks))
    PROVE  Whole(Tail(tasks))
  <1> DEFINE q == Tail(tasks)
             task == Head(tasks)
  <1>1. q \in Seq(Task) /\ task \in Task
    BY DEF PartsOK
  <1>2. task.op \in {"send", "shutdown", "forceClose", "startRead", "stopRead",
                     "destroyed", "forceCloseWithDelay"}
    BY <1>1 DEF Task, Operations
  <1>3. taskEffect(task, q)
    OBVIOUS
  <1> HIDE DEF q, task
  <1>4. CASE task.op = "send"
    <2>1. sendInLoop(nextMessage, nextMessage, q) \/ nothing(q)
      BY <1>3, <1>4 DEF taskEffect
    <2>2. QED
      BY <2>1, SendWhole, MessagesAreTexts, OthersKeep, KeepsWhole DEF q
  <1>5. CASE task.op = "forceClose"
    <2>1. handleClose(q) \/ nothing(q)
      BY <1>3, <1>5 DEF taskEffect, forceCloseInLoop
    <2>2. QED
      BY <1>1, <2>1, CloseKeeps, OthersKeep, KeepsWhole DEF q
  <1>6. CASE task.op \in {"shutdown", "startRead", "stopRead", "destroyed", "forceCloseWithDelay"}
    <2>1. \/ shutdownInLoop(q) \/ startReadInLoop(q) \/ stopReadInLoop(q)
          \/ connectionDestroyed(q) \/ nothing(q)
      BY <1>3, <1>6 DEF taskEffect
    <2>2. QED
      BY <2>1, OthersKeep, KeepsWhole DEF q
  <1>7. QED
    BY <1>2, <1>4, <1>5, <1>6

\* What handlers do to the queue brings no send by reference into it.
LEMMA WholeStep ==
    ASSUME PartsOK, StreamInv, NEW q, Whole(q), called \subseteq called', busy' = busy,
           q = tasks \/ (tasks # <<>> /\ q = Tail(tasks))
    PROVE  StreamInv'
  <1> SUFFICES ASSUME "sendRef" \notin called'
               PROVE  (wire' \o m_sendBuf' = accepted') /\ NoRef'
    BY DEF StreamInv
  <1>1. (wire \o m_sendBuf = accepted) /\ NoRef
    BY DEF StreamInv
  <1>2. tasks \in Seq(Task)
    BY DEF PartsOK
  <1>3. q \in Seq(Task) /\ \A i \in 1..Len(q) : q[i].op # "sendRef"
    <2>1. \A i \in 1..Len(tasks) : tasks[i].op # "sendRef"
      BY <1>1, <1>2 DEF NoRef
    <2>2. CASE q = tasks
      BY <1>2, <2>1, <2>2
    <2>3. CASE tasks # <<>> /\ q = Tail(tasks)
      <3>1. q \in Seq(Task) /\ Len(q) = Len(tasks) - 1 /\ \A i \in 1..Len(q) : q[i] = tasks[i + 1]
        BY <1>2, <2>3, HeadTailProperties
      <3>2. Len(tasks) \in Nat
        BY <1>2
      <3>3. \A i \in 1..Len(q) : i + 1 \in 1..Len(tasks)
        BY <3>1, <3>2
      <3>4. QED
        BY <2>1, <3>1, <3>3
    <2>4. QED
      BY <2>2, <2>3
  <1>4. \A i \in DOMAIN tasks' : tasks'[i].op # "sendRef"
    <2>1. CASE tasks' = tasks
      BY <1>1, <2>1 DEF NoRef
    <2>2. CASE tasks' = q
      BY <1>3, <2>2
    <2>3. CASE \E x \in Task : x.op # "sendRef" /\ tasks' = Append(q, x)
      <3>1. PICK x \in Task : x.op # "sendRef" /\ tasks' = Append(q, x)
        BY <2>3
      <3>2. /\ Len(q) \in Nat
            /\ DOMAIN Append(q, x) = 1..Len(q) + 1
            /\ \A i \in 1..Len(q) : Append(q, x)[i] = q[i]
            /\ Append(q, x)[Len(q) + 1] = x
        BY <1>3
      <3>3. QED
        BY <1>3, <3>1, <3>2
    <2>4. QED
      BY <2>1, <2>2, <2>3 DEF Whole
  <1>5. QED
    BY <1>1, <1>4 DEF NoRef, Whole
\* Every action keeps the stream.
LEMMA StreamInductive ==
    ASSUME TypeOK, StreamInv, [Next]_vars
    PROVE  StreamInv'
  <1>0. PartsOK /\ tasks \in Seq(Task)
    BY TypeSplits DEF PartsOK
  <1>1. CASE ConnectionEstablished \/ PollReturns \/ DispatchEnds \/ PeerGone \/ Destruct
             \/ UNCHANGED vars \/ \E t \in Users : Release(t)
    <2>1. UNCHANGED <<wire, m_sendBuf, accepted, tasks, busy, called>>
      BY <1>1 DEF ConnectionEstablished, PollReturns, DispatchEnds, PeerGone, Destruct,
                  Release, vars, out, env
    <2>2. QED
      BY <2>1 DEF StreamInv, NoRef
  <1>2. CASE HandleClose
    BY <1>0, <1>2, CloseKeeps, KeepsWhole, WholeStep DEF HandleClose, env
  <1>3. CASE HandleRead
    <2>1. CASE callNow /\ UNCHANGED <<busy, peer, freed>>
      BY <1>0, <2>1, CallWhole, WholeStep
    <2>2. CASE nothing(tasks) /\ UNCHANGED env
      BY <1>0, <2>2, OthersKeep, KeepsWhole, WholeStep DEF env
    <2>3. CASE handleClose(tasks) /\ UNCHANGED env
      BY <1>0, <2>3, CloseKeeps, KeepsWhole, WholeStep DEF env
    <2>4. QED
      BY <1>3, <2>1, <2>2, <2>3 DEF HandleRead
  <1>4. CASE HandleWrite
    <2>1. Whole(tasks)
      <3>1. CASE ~isWriting
        BY <1>4, <3>1 DEF HandleWrite, Whole, out
      <3>2. CASE isWriting
        <4>1. PICK n \in writeResults(Len(m_sendBuf)) :
                /\ wire' = wire \o SubSeq(m_sendBuf, 1, n)
                /\ m_sendBuf' = unsent(m_sendBuf, n)
                /\ accepted' = accepted
          BY <1>4, <3>2 DEF HandleWrite
        <4> DEFINE s == SubSeq(m_sendBuf, 1, n)
                   u == unsent(m_sendBuf, n)
        <4>2. n \in 0..Len(m_sendBuf)
          BY <1>0, ResultsAreCounts DEF PartsOK
        <4>3. wire \in Seq(Nat) /\ s \in Seq(Nat) /\ u \in Seq(Nat) /\ s \o u = m_sendBuf
          BY <1>0, <4>2, PiecesAreTexts DEF PartsOK
        <4>4. wire' = wire \o s /\ m_sendBuf' = u
          BY <4>1
        <4> HIDE DEF s, u
        <4>5. (wire \o s) \o u = wire \o (s \o u)
          BY <4>3, TextsAssociate
        <4>6. QED
          BY <1>4, <4>1, <4>3, <4>4, <4>5 DEF HandleWrite, Whole
      <3>3. QED
        BY <3>1, <3>2
    <2>2. QED
      BY <1>0, <1>4, <2>1, WholeStep DEF HandleWrite, env
  <1>5. CASE LoopCall
    BY <1>0, <1>5, CallWhole, WholeStep DEF LoopCall
  <1>6. CASE RunTask
    <2>0. tasks # <<>> /\ UNCHANGED <<busy, called>>
      BY <1>6 DEF RunTask
    <2>1. CASE Abort("freed")
      BY <1>0, <2>0, <2>1, OthersKeep, KeepsWhole, WholeStep DEF Reasons
    <2>2. CASE taskEffect(Head(tasks), Tail(tasks))
      <3>1. CASE "sendRef" \in called
        BY <2>0, <3>1 DEF StreamInv
      <3>2. CASE "sendRef" \notin called
        <4>1. Head(tasks) = tasks[1] /\ 1 \in DOMAIN tasks
          BY <1>0, <2>0
        <4>2. Head(tasks).op # "sendRef"
          BY <3>2, <4>1 DEF StreamInv, NoRef
        <4>3. QED
          BY <1>0, <2>0, <2>2, <4>2, TaskWhole, WholeStep
      <3>3. QED
        BY <3>1, <3>2
    <2>3. QED
      BY <1>6, <2>1, <2>2 DEF RunTask
  <1>7. CASE \E t \in Users : TimerFires(t)
    <2>1. handleClose(tasks) \/ nothing(tasks) \/ Abort("freed")
      BY <1>7 DEF TimerFires, forceCloseInLoop
    <2>2. UNCHANGED <<busy, called>>
      BY <1>7 DEF TimerFires
    <2>3. Whole(tasks)
      BY <1>0, <2>1, CloseKeeps, OthersKeep, KeepsWhole DEF Reasons
    <2>4. QED
      BY <1>0, <2>2, <2>3, WholeStep
  <1>8. CASE \E t \in Others : CallPosts(t)
    <2>1. PICK t \in Others : CallPosts(t)
      BY <1>8
    <2> DEFINE x == [op |-> busy[t], by |-> t]
    <2>2. UNCHANGED <<wire, m_sendBuf, accepted, called>> /\ tasks' = Append(tasks, x)
      BY <2>1 DEF CallPosts, out
    <2>3. busy' = [busy EXCEPT ![t] = "no"]
      BY <2>1 DEF CallPosts
    <2>4. x.op = busy[t]
      OBVIOUS
    <2> HIDE DEF x
    <2>5. ASSUME NoRef PROVE NoRef'
      <3>1. /\ DOMAIN tasks = 1..Len(tasks) /\ Len(tasks) \in Nat
            /\ DOMAIN Append(tasks, x) = 1..Len(tasks) + 1
            /\ \A i \in 1..Len(tasks) : Append(tasks, x)[i] = tasks[i]
            /\ Append(tasks, x)[Len(tasks) + 1] = x
        BY <1>0
      <3>2. \A i \in DOMAIN tasks' : tasks'[i].op # "sendRef"
        BY <2>2, <2>4, <2>5, <3>1 DEF NoRef
      <3>3. \A r \in Others : busy'[r] # "sendRef"
        BY <2>3, <2>5 DEF NoRef, TypeOK
      <3>4. QED
        BY <3>2, <3>3 DEF NoRef
    <2>6. QED
      BY <2>2, <2>5 DEF StreamInv
  <1>9. CASE \E t \in Others : \E op \in Operations : CallBegins(t, op)
    <2>1. PICK t \in Others, op \in Operations : CallBegins(t, op)
      BY <1>9
    <2>2. /\ UNCHANGED <<wire, m_sendBuf, accepted, tasks>>
          /\ called' = called \cup {op} /\ busy' = [busy EXCEPT ![t] = op]
      BY <2>1 DEF CallBegins, begin, out
    <2>3. QED
      BY <2>2 DEF StreamInv, NoRef, TypeOK
  <1>10. CASE HolderDrops
    <2> DEFINE x == [op |-> "destroyed", by |-> LoopThread]
    <2>1. x \in Task /\ x.op # "sendRef"
      BY DEF Task, Users
    <2>2. tasks' = tasks \/ tasks' = Append(tasks, x)
      BY <1>10 DEF HolderDrops, holderLetsGo
    <2> HIDE DEF x
    <2>3. Whole(tasks)
      BY <1>10, <2>1, <2>2 DEF HolderDrops, Whole, out
    <2>4. QED
      BY <1>0, <1>10, <2>3, WholeStep DEF HolderDrops, env
  <1>11. QED
    BY <1>1, <1>2, <1>3, <1>4, <1>5, <1>6, <1>7, <1>8, <1>9, <1>10 DEF Next

\* Unless users send through the overloads that capture a reference, nothing a
\* send accepted is lost, repeated or reordered (StreamIntact).
THEOREM StreamStaysIntact == Spec => []StreamIntact
  <1>1. Init => StreamInv
    <2> SUFFICES ASSUME Init PROVE wire \o m_sendBuf = accepted /\ NoRef
      BY DEF StreamInv
    <2>1. wire \o m_sendBuf = accepted
      BY DEF Init
    <2>2. NoRef
      BY DEF Init, NoRef
    <2>3. QED
      BY <2>1, <2>2
  <1>2. TypeOK /\ StreamInv /\ [Next]_vars => StreamInv'
    BY StreamInductive
  <1>3. StreamInv => StreamIntact
    BY DEF StreamInv, StreamIntact
  <1>4. QED
    BY <1>1, <1>2, <1>3, TypeCorrect, PTL DEF Spec
-----------------------------------------------------------------------------
(* The watch on the buffer.                                                 *)

\* Before the connection is established only the holder has it.
Fresh ==
    notes = <<>> =>
        /\ refs = {"owner"} /\ timers = {} /\ calls = <<>> /\ tasks = <<>>
        /\ \A t \in Others : busy[t] = "no"
        /\ m_events = {} /\ registered = FALSE /\ watched = FALSE /\ m_sendBuf = <<>> /\ shut = FALSE

\* A handler's step on an established connection keeps the watch.
Watched == notes' # <<>> /\ WriteSideMinded'

\* Nobody goes from established back, and nobody is told UP twice.
LEMMA ToldDown ==
    ASSUME PartsOK
    PROVE  Append(notes, "DOWN") # <<>> /\ Append(notes, "DOWN") # <<"UP">>
  <1>1. notes \in Seq({"UP", "DOWN"}) /\ Len(notes) \in Nat
    BY DEF PartsOK
  <1>2. /\ Len(Append(notes, "DOWN")) = Len(notes) + 1
        /\ Append(notes, "DOWN")[Len(notes) + 1] = "DOWN"
    BY <1>1
  <1>3. Append(notes, "DOWN") # <<>>
    BY <1>1, <1>2
  <1>4. Len(<<"UP">>) = 1 /\ <<"UP">>[1] = "UP"
    OBVIOUS
  <1>5. Append(notes, "DOWN") # <<"UP">>
    BY <1>1, <1>2, <1>4
  <1>6. QED
    BY <1>3, <1>5

\* A step that changes nothing the watch speaks of.
LEMMA StillWatched ==
    ASSUME notes # <<>>, WriteSideMinded, UNCHANGED <<m_events, m_sendBuf, shut, notes>>
    PROVE  Watched
  BY DEF Watched, WriteSideMinded, BufferedIsPolled, ShutAfterData, isWriting

\* Closing ends the time of the watch.
LEMMA CloseWatched ==
    ASSUME PartsOK, notes # <<>>, WriteSideMinded, NEW q, handleClose(q)
    PROVE  Watched
  <1>1. CASE m_state \notin {"CONNECTED", "DISCONNECTED"}
    BY <1>1, StillWatched DEF handleClose, Abort, conn, out
  <1>4. CASE m_state \in {"CONNECTED", "DISCONNECTED"} /\ ~canUpdate
    BY <1>4, StillWatched DEF handleClose, Abort, conn, out
  <1>2. CASE m_state \in {"CONNECTED", "DISCONNECTED"} /\ canUpdate
    <2>1. notes' # <<>> /\ notes' # <<"UP">>
      BY <1>2, ToldDown DEF handleClose
    <2>2. QED
      BY <2>1 DEF Watched, WriteSideMinded, BufferedIsPolled, ShutAfterData
  <1>3. QED
    BY <1>1, <1>2, <1>4

\* The end of the channel ends the time of the watch, or finds it silent.
LEMMA DestroyedWatched ==
    ASSUME PartsOK, notes # <<>>, WriteSideMinded, NEW q, connectionDestroyed(q)
    PROVE  Watched
  <1>1. CASE m_state # "CONNECTED" /\ m_events # {}
    BY <1>1, StillWatched DEF connectionDestroyed, Abort, conn, out
  <1>2. CASE m_state # "CONNECTED" /\ m_events = {}
    <2>1. UNCHANGED <<m_events, m_sendBuf, shut, notes>>
      BY <1>2 DEF connectionDestroyed, channelRemove, out
    <2>2. QED
      BY <2>1, StillWatched
  <1>3. CASE m_state = "CONNECTED" /\ ~canUpdate
    BY <1>3, StillWatched DEF connectionDestroyed, Abort, conn, out
  <1>4. CASE m_state = "CONNECTED" /\ canUpdate
    <2>1. notes' # <<>> /\ notes' # <<"UP">>
      BY <1>4, ToldDown DEF connectionDestroyed
    <2>2. QED
      BY <2>1 DEF Watched, WriteSideMinded, BufferedIsPolled, ShutAfterData
  <1>5. QED
    BY <1>1, <1>2, <1>3, <1>4

\* The handlers that neither send nor close.
LEMMA OthersWatched ==
    ASSUME notes # <<>>, WriteSideMinded, NEW q,
           \/ nothing(q) \/ shutdownInLoop(q) \/ startReadInLoop(q) \/ stopReadInLoop(q)
           \/ \E why \in Reasons : Abort(why)
    PROVE  Watched
  <1>1. CASE nothing(q) \/ \E why : Abort(why)
    BY <1>1, StillWatched DEF nothing, Abort, conn, out
  <1>2. CASE shutdownInLoop(q)
    BY <1>2 DEF shutdownInLoop, Watched, WriteSideMinded, BufferedIsPolled, ShutAfterData, isWriting, conn
  <1>3. CASE (startReadInLoop(q) \/ stopReadInLoop(q)) /\ ~nothing(q) /\ ~Abort("update")
    BY <1>3 DEF startReadInLoop, stopReadInLoop, setEvents, Watched, WriteSideMinded, BufferedIsPolled,
                ShutAfterData, isWriting, conn, out
  <1>4. QED
    BY <1>1, <1>2, <1>3

\* A send that leaves data behind asks for room; on a shut socket it aborts.
LEMMA SendWatched ==
    ASSUME PartsOK, notes # <<>>, WriteSideMinded, NEW text \in Seq(Nat), text # <<>>, NEW msg, NEW q,
           sendInLoop(text, msg, q)
    PROVE  Watched
  <1> DEFINE direct == ~isWriting /\ m_sendBuf = <<>>
  <1>1. CASE m_state = "DISCONNECTED"
    BY <1>1, OthersWatched DEF sendInLoop
  <1>2. CASE m_state # "DISCONNECTED"
    <2>1. PICK n \in IF direct THEN writeResults(Len(text)) ELSE {0} :
            IF direct /\ n = 0 THEN Abort("sendInLoop")
            ELSE IF n < Len(text) /\ crossesMark(Len(text) - n) THEN Abort("highWaterMark")
            ELSE IF n < Len(text) /\ ~isWriting /\ ~canUpdate THEN Abort("update")
            ELSE /\ append(unsent(text, n))
                 /\ UNCHANGED <<shut, notes>>
      BY <1>2 DEF sendInLoop
    <2>2. CASE Abort("sendInLoop") \/ Abort("highWaterMark") \/ Abort("update")
      BY <2>2, OthersWatched DEF Reasons
    <2>3. CASE ~(direct /\ n = 0) /\ append(unsent(text, n)) /\ UNCHANGED <<shut, notes>>
      <3>1. Len(text) \in Nat /\ n \in 0..Len(text)
        BY <2>1, ResultsAreCounts
      <3>2. unsent(text, n) \in Seq(Nat) /\ m_sendBuf \in Seq(Nat)
        BY <3>1, PiecesAreTexts DEF PartsOK
      <3>3. notes = <<"UP">> => ~shut
        <4>1. direct /\ shut => n = 0
          BY <2>1 DEF writeResults
        <4>2. notes = <<"UP">> /\ shut => direct
          BY DEF WriteSideMinded, BufferedIsPolled, ShutAfterData
        <4>3. QED
          BY <2>3, <4>1, <4>2
      <3>4. CASE unsent(text, n) = <<>>
        BY <2>3, <3>4, StillWatched DEF append
      <3>5. CASE unsent(text, n) # <<>>
        <4>1. m_sendBuf' # <<>>
          <5>1. m_sendBuf' = m_sendBuf \o unsent(text, n)
            BY <2>3, <3>5 DEF append
          <5>2. QED
            BY <3>2, <3>5, <5>1, ConcatEqualIffEmpty
        <4>2. "write" \in m_events'
          BY <2>3, <3>5 DEF append, pollForRoom, setEvents, isWriting
        <4>3. QED
          BY <2>3, <3>3, <4>1, <4>2
          DEF Watched, WriteSideMinded, BufferedIsPolled, ShutAfterData, isWriting
      <3>6. QED
        BY <3>4, <3>5
    <2>4. QED
      BY <2>1, <2>2, <2>3
  <1>3. QED
    BY <1>1, <1>2

\* A message is not empty.
LEMMA MessagesHaveData == nextMessage # <<>> /\ junk # <<>>
  <1>1. Len(nextMessage) = 2 /\ Len(junk) = 2 /\ Len(<<>>) = 0
    BY DEF nextMessage, junk
  <1>2. QED
    BY <1>1

\* A user's call on the loop thread.
LEMMA CallWatched ==
    ASSUME PartsOK, notes # <<>>, WriteSideMinded, callNow
    PROVE  Watched
  <1>1. CASE sendNow
    BY <1>1, SendWatched, MessagesAreTexts, MessagesHaveData DEF sendNow
  <1>2. CASE shutdownNow
    BY <1>2 DEF shutdownNow, Watched, WriteSideMinded, BufferedIsPolled, ShutAfterData, isWriting
  <1>3. CASE forceCloseNow
    BY <1>3, StillWatched DEF forceCloseNow, out
  <1>4. CASE forceCloseLater
    BY <1>4, OthersWatched DEF forceCloseLater
  <1>5. CASE readingNow
    BY <1>5, OthersWatched DEF readingNow
  <1>6. QED
    BY <1>1, <1>2, <1>3, <1>4, <1>5 DEF callNow

\* Closing on a user's demand.
LEMMA ForceCloseWatched ==
    ASSUME PartsOK, notes # <<>>, WriteSideMinded, NEW q, forceCloseInLoop(q)
    PROVE  Watched
  BY CloseWatched, OthersWatched DEF forceCloseInLoop

\* A task.
LEMMA TaskWatched ==
    ASSUME PartsOK, notes # <<>>, WriteSideMinded, tasks # <<>>,
           taskEffect(Head(tasks), Tail(tasks))
    PROVE  Watched
  <1> DEFINE q == Tail(tasks)
             task == Head(tasks)
  <1>1. task \in Task
    BY DEF PartsOK
  <1>2. task.op \in Operations \cup {"destroyed"}
    BY <1>1 DEF Task
  <1>3. taskEffect(task, q)
    OBVIOUS
  <1> HIDE DEF q, task
  <1>4. CASE task.op = "send"
    BY <1>3, <1>4, SendWatched, OthersWatched, MessagesAreTexts, MessagesHaveData DEF taskEffect
  <1>5. CASE task.op = "sendRef"
    <2>1. PICK text \in {nextMessage, junk} : sendInLoop(text, nextMessage, q)
      BY <1>3, <1>5 DEF taskEffect
    <2>2. QED
      BY <2>1, SendWatched, MessagesAreTexts, MessagesHaveData
  <1>6. CASE task.op \in {"shutdown", "startRead", "stopRead", "forceCloseWithDelay"}
    BY <1>3, <1>6, OthersWatched DEF taskEffect
  <1>7. CASE task.op = "forceClose"
    BY <1>3, <1>7, ForceCloseWatched DEF taskEffect
  <1>8. CASE task.op = "destroyed"
    BY <1>3, <1>8, DestroyedWatched DEF taskEffect
  <1>9. QED
    BY <1>2, <1>4, <1>5, <1>6, <1>7, <1>8 DEF Operations

\* What handleWrite does: the last unit ends the poll for room.
LEMMA WriteWatched ==
    ASSUME PartsOK, notes # <<>>, WriteSideMinded, HandleWrite
    PROVE  Watched
  <1>1. CASE ~isWriting
    BY <1>1, StillWatched DEF HandleWrite, conn, out
  <1>2. CASE isWriting
    <2>1. PICK n \in writeResults(Len(m_sendBuf)) :
            /\ m_sendBuf' = unsent(m_sendBuf, n)
            /\ IF n = Len(m_sendBuf) THEN setEvents(m_events \ {"write"})
               ELSE UNCHANGED <<m_events, registered, watched>>
            /\ shut' = (shut \/ (n = Len(m_sendBuf) /\ m_state = "DISCONNECTING"))
      BY <1>2 DEF HandleWrite
    <2>2. notes' = notes
      BY DEF HandleWrite
    <2>3. Len(m_sendBuf) \in Nat /\ n \in 0..Len(m_sendBuf)
      BY <2>1, ResultsAreCounts DEF PartsOK
    <2>4. Len(unsent(m_sendBuf, n)) = Len(m_sendBuf) - n
      BY <2>3 DEF unsent, PartsOK
    <2>5. CASE n = Len(m_sendBuf)
      <3>1. m_sendBuf' = <<>>
        BY <2>1, <2>3, <2>4, <2>5, PiecesAreTexts, EmptySeq DEF PartsOK
      <3>2. ~isWriting'
        BY <2>1, <2>5 DEF setEvents, isWriting
      <3>3. QED
        BY <2>2, <3>1, <3>2 DEF Watched, WriteSideMinded, BufferedIsPolled, ShutAfterData
    <2>6. CASE n # Len(m_sendBuf)
      <3>1. Len(m_sendBuf) - n # 0 /\ Len(<<>>) = 0
        BY <2>3, <2>6
      <3>2. m_sendBuf' # <<>>
        BY <2>1, <2>4, <3>1
      <3>3. m_sendBuf # <<>>
        BY <2>3, <2>6
      <3>4. m_events' = m_events /\ shut' = shut
        BY <2>1, <2>6 DEF PartsOK
      <3>5. QED
        BY <1>2, <2>2, <3>2, <3>3, <3>4
        DEF Watched, WriteSideMinded, BufferedIsPolled, ShutAfterData, isWriting
    <2>7. QED
      BY <2>5, <2>6
  <1>3. QED
    BY <1>1, <1>2

\* The watch is kept by every step.
LEMMA WatchInductive ==
    ASSUME TypeOK, Fresh, WriteSideMinded, [Next]_vars
    PROVE  Fresh' /\ WriteSideMinded'
  <1>0. PartsOK /\ RestOK
    BY TypeSplits
  <1>1. CASE notes = <<>>
    <2>1. /\ "dispatch" \notin refs /\ calls = <<>> /\ timers = {} /\ tasks = <<>>
          /\ watched = FALSE /\ Alive
          /\ \A t \in Users : t \notin refs
          /\ \A t \in Others : busy[t] = "no"
      BY <1>1, TcpConnectionAssumption DEF Fresh, Users, Alive
    <2>2. CASE ConnectionEstablished
      <3>1. m_events' = {"read"} /\ m_sendBuf' = <<>> /\ notes' = <<"UP">>
        BY <1>1, <2>2 DEF ConnectionEstablished, setEvents, out, Fresh
      <3>2. <<"UP">> # <<>>
        OBVIOUS
      <3>3. QED
        BY <3>1, <3>2 DEF Fresh, WriteSideMinded, BufferedIsPolled, ShutAfterData, isWriting
    <2>3. CASE PeerGone \/ UNCHANGED vars
      <3>1. UNCHANGED <<refs, notes, timers, calls, busy, tasks, m_events, registered, watched,
                        m_sendBuf, shut>>
        BY <2>3 DEF PeerGone, vars, conn, out, env
      <3>2. QED
        BY <3>1 DEF Fresh, WriteSideMinded, BufferedIsPolled, ShutAfterData, isWriting
    <2>4. ~(PollReturns \/ DispatchEnds \/ HandleClose \/ HandleRead \/ HandleWrite
              \/ HolderDrops \/ Destruct)
      BY <1>1, <2>1 DEF PollReturns, DispatchEnds, HandleClose, HandleRead, HandleWrite, callback,
                        HolderDrops, Destruct
    <2>5. ~(LoopCall \/ RunTask)
      BY <1>1, <2>1 DEF LoopCall, RunTask, Users
    <2>6. \A t \in Users : ~TimerFires(t) /\ ~Release(t)
      BY <2>1 DEF TimerFires, Release
    <2>7. \A t \in Others : ~CallPosts(t) /\ \A op \in Operations : ~CallBegins(t, op)
      BY <2>1 DEF CallPosts, CallBegins, Users
    <2>8. QED
      BY <2>2, <2>3, <2>4, <2>5, <2>6, <2>7 DEF Next
  <1>2. CASE notes # <<>>
    <2>0. Watched => Fresh' /\ WriteSideMinded'
      BY DEF Watched, Fresh
    <2>1. CASE ConnectionEstablished
      BY <1>2, <2>1 DEF ConnectionEstablished
    <2>2. CASE PollReturns \/ DispatchEnds \/ PeerGone \/ Destruct \/ HolderDrops
               \/ UNCHANGED vars \/ \E t \in Users : Release(t)
      <3>1. UNCHANGED <<m_events, m_sendBuf, shut, notes>>
        BY <2>2 DEF PollReturns, DispatchEnds, PeerGone, Destruct, HolderDrops, Release,
                    vars, conn, out
      <3>2. QED
        BY <1>2, <2>0, <3>1, StillWatched
    <2>3. CASE HandleClose
      BY <1>0, <1>2, <2>0, <2>3, CloseWatched DEF HandleClose
    <2>4. CASE HandleRead
      BY <1>0, <1>2, <2>0, <2>4, CallWatched, OthersWatched, CloseWatched DEF HandleRead
    <2>5. CASE HandleWrite
      BY <1>0, <1>2, <2>0, <2>5, WriteWatched
    <2>6. CASE LoopCall
      BY <1>0, <1>2, <2>0, <2>6, CallWatched DEF LoopCall
    <2>7. CASE RunTask
      BY <1>0, <1>2, <2>0, <2>7, TaskWatched, OthersWatched DEF RunTask, Reasons
    <2>8. CASE \E t \in Users : TimerFires(t)
      BY <1>0, <1>2, <2>0, <2>8, ForceCloseWatched, OthersWatched DEF TimerFires, Reasons
    <2>9. CASE \E t \in Others : CallPosts(t) \/ \E op \in Operations : CallBegins(t, op)
      <3>1. UNCHANGED <<m_events, m_sendBuf, shut, notes>>
        BY <2>9 DEF CallPosts, CallBegins, conn, out
      <3>2. QED
        BY <1>2, <2>0, <3>1, StillWatched
    <2>10. QED
      BY <2>1, <2>2, <2>3, <2>4, <2>5, <2>6, <2>7, <2>8, <2>9 DEF Next
  <1>3. QED
    BY <1>1, <1>2

\* In every state the watch holds.
LEMMA WatchHolds == Spec => [](Fresh /\ WriteSideMinded)
  <1>1. Init => Fresh /\ WriteSideMinded
    BY DEF Init, Fresh, WriteSideMinded, BufferedIsPolled, ShutAfterData, isWriting
  <1>2. TypeOK /\ Fresh /\ WriteSideMinded /\ [Next]_vars => Fresh' /\ WriteSideMinded'
    BY WatchInductive
  <1>3. QED
    BY <1>1, <1>2, TypeCorrect, PTL DEF Spec

\* While a connection is up, poll() watches for room exactly when data waits
\* (enableWriting in sendInLoop, disableWriting in handleWrite), and its write side
\* is never shut over data that waits (shutdownInLoop and handleWrite).
THEOREM WriteSideIsMinded == Spec => []WriteSideMinded
  BY WatchHolds, PTL
-----------------------------------------------------------------------------
(* The life of a connection.                                                *)

\* The lists handleEvents works through.
Callbacks == {<<>>, <<"read">>, <<"write">>, <<"read", "write">>, <<"close">>,
              <<"close", "write">>}

\* The poller waits on a channel exactly when it is interested in something.
Attended == watched <=> m_events # {}

\* Until connectionDestroyed has run, the holder or the queue has the connection.
Held == "owner" \in refs \/ \E x \in Range(tasks) : x.op = "destroyed"

\* Nothing happens to a connection that is not established.
Young == notes = <<>> => m_state = "CONNECTING" /\ Held

\* Whatever is queued was called, and callers hold the connection meanwhile.
Carried ==
    /\ \A x \in Range(tasks) : x.op = "destroyed" \/ x.op \in called
    /\ \A t \in Others : busy[t] = "no" \/ (busy[t] \in called /\ t \in refs)
    /\ Patient =>
          /\ timers \subseteq refs
          /\ \A x \in Range(tasks) : x.op = "destroyed" \/ x.by \in refs

\* Only shutdown and forceClose leave the states handleClose knows.
Clean ==
    called \cap {"shutdown", "forceClose"} = {} =>
        /\ m_state # "DISCONNECTING"
        /\ m_state = "CONNECTING" => notes = <<>>

\* As long as nobody asks for anything else, an open connection reads.
Reading ==
    called \cap {"startRead", "stopRead"} = {} /\ m_state = "CONNECTED" => isReading

\* Only startRead revives the interest of a closed channel.
Cleared == "startRead" \notin called /\ m_state = "DISCONNECTED" => m_events = {}

\* Whoever was told DOWN has a connection nothing closes again.
Told ==
    ~stirred =>
        /\ Attended
        /\ notes \in {<<>>, <<"UP">>, <<"UP", "DOWN">>}
        /\ notes = <<"UP">> => m_state # "DISCONNECTED"
        /\ notes = <<"UP", "DOWN">> => m_state # "CONNECTED"
        /\ notes = <<"UP", "DOWN">> /\ m_state = "DISCONNECTED" =>
              m_events = {} /\ calls \in {<<>>, <<"write">>}

\* connectionDestroyed leaves a closed connection unknown to the poller.
Gone ==
    ~Held =>
        /\ m_state # "CONNECTED"
        /\ m_state = "DISCONNECTED" /\ ~stirred => ~registered /\ calls = <<>>

\* The destructor is the end.
Past == freed => ~Alive /\ m_state = "DISCONNECTED"

Life == calls \in Callbacks /\ Young /\ Carried /\ Clean /\ Reading /\ Cleared /\ Told /\ Gone /\ Past

LifeInv == (Running => Life) /\ ToldOnce /\ OnlyTheseCallsAbort

\* What the queue holds after a task is taken.
LEMMA QueueTakes ==
    ASSUME tasks \in Seq(Task), tasks # <<>>
    PROVE  /\ Tail(tasks) \in Seq(Task) /\ Head(tasks) \in Task
           /\ Range(tasks) = Range(Tail(tasks)) \cup {Head(tasks)}
  <1>1. /\ Tail(tasks) \in Seq(Task) /\ Head(tasks) \in Task /\ Len(tasks) \in Nat
        /\ Len(tasks) # 0 /\ Head(tasks) = tasks[1]
        /\ Len(Tail(tasks)) = Len(tasks) - 1
        /\ \A i \in 1..Len(Tail(tasks)) : Tail(tasks)[i] = tasks[i + 1]
    BY HeadTailProperties
  <1>2. /\ Range(tasks) = {tasks[i] : i \in 1..Len(tasks)}
        /\ Range(Tail(tasks)) = {Tail(tasks)[i] : i \in 1..Len(Tail(tasks))}
    BY <1>1, RangeEquality
  <1>3. ASSUME NEW i \in 1..Len(tasks)
        PROVE  tasks[i] \in Range(Tail(tasks)) \cup {Head(tasks)}
    <2>1. CASE i = 1
      BY <1>1, <2>1
    <2>2. CASE i # 1
      <3>1. i - 1 \in 1..Len(Tail(tasks)) /\ (i - 1) + 1 = i
        BY <1>1, <2>2
      <3>2. Tail(tasks)[i - 1] = tasks[i]
        BY <1>1, <3>1
      <3>3. QED
        BY <1>2, <3>1, <3>2
    <2>3. QED
      BY <2>1, <2>2
  <1>4. ASSUME NEW i \in 1..Len(Tail(tasks))
        PROVE  Tail(tasks)[i] \in Range(tasks)
    <2>1. i + 1 \in 1..Len(tasks)
      BY <1>1
    <2>2. QED
      BY <1>1, <1>2, <2>1
  <1>5. 1 \in 1..Len(tasks)
    BY <1>1
  <1>6. QED
    BY <1>1, <1>2, <1>3, <1>4, <1>5

\* What it holds after one is posted.
LEMMA QueueGets ==
    ASSUME NEW q \in Seq(Task), NEW x \in Task
    PROVE  Range(Append(q, x)) = Range(q) \cup {x}
  <1>1. /\ Len(q) \in Nat
        /\ DOMAIN Append(q, x) = 1..Len(q) + 1 /\ DOMAIN q = 1..Len(q)
        /\ \A i \in 1..Len(q) : Append(q, x)[i] = q[i]
        /\ Append(q, x)[Len(q) + 1] = x
    OBVIOUS
  <1>2. \A i \in 1..Len(q) + 1 : i \in 1..Len(q) \/ i = Len(q) + 1
    BY <1>1
  <1>3. \A i \in 1..Len(q) : i \in 1..Len(q) + 1
    BY <1>1
  <1>4. Len(q) + 1 \in 1..Len(q) + 1
    BY <1>1
  <1>5. QED
    BY <1>1, <1>2, <1>3, <1>4 DEF Range

\* How a step that does not close treats the channel.
Treats ==
    /\ ~stirred' /\ Attended => Attended'
    /\ m_state = "DISCONNECTED" /\ "startRead" \notin called' => m_events' \subseteq m_events
    /\ m_state = "DISCONNECTED" /\ ~stirred' /\ m_events = {} /\ ~watched =>
          m_events' = {} /\ (calls = <<>> => (registered' => registered))
    /\ called' \cap {"startRead", "stopRead"} = {} => (isReading => isReading')

\* A handler's step that ends nothing.
Plain(q) == UNCHANGED <<m_state, notes, refs>> /\ tasks' = q /\ Treats

\* A step of the user's own calls on the loop thread.
Asks ==
    /\ UNCHANGED <<notes, refs>>
    /\ called \subseteq called' /\ timers' \subseteq timers \cup {LoopThread}
    /\ \/ m_state' = m_state
       \/ m_state' = "CONNECTING" /\ "shutdown" \in called'
       \/ m_state' = "DISCONNECTING" /\ "forceClose" \in called'
    /\ Range(tasks) \subseteq Range(tasks')
    /\ \A x \in Range(tasks') : x \in Range(tasks) \/ (x.op \in called' /\ x.by = LoopThread)
    /\ Treats

\* A close that goes through.
Shuts(q) ==
    /\ m_state \in {"CONNECTED", "DISCONNECTED"} /\ m_state' = "DISCONNECTED"
    /\ canUpdate /\ watched' = ~watched
    /\ m_events' = {} /\ notes' = Append(notes, "DOWN")
    /\ refs' = refs \ {"owner"}
    /\ Range(q) \subseteq Range(tasks')
    /\ \A x \in Range(tasks') : x \in Range(q) \/ x.op = "destroyed"
    /\ "owner" \in refs => \E x \in Range(tasks') : x.op = "destroyed"

\* The end of the channel.
Removes(q) ==
    /\ m_state = "CONNECTED" \/ m_events = {}
    /\ m_events' = {} /\ ~registered' /\ ~watched'
    /\ \/ m_state = "CONNECTED" /\ m_state' = "DISCONNECTED" /\ notes' = Append(notes, "DOWN")
       \/ m_state # "CONNECTED" /\ UNCHANGED <<m_state, notes>>
    /\ UNCHANGED refs /\ tasks' = q

\* Whoever leaves the channel alone treats it well.
LEMMA UnmovedTreats ==
    ASSUME UNCHANGED <<m_events, registered, watched>>
    PROVE  Treats
  BY DEF Treats, Attended, isReading

\* So does whoever asks for room while the connection has not closed.
LEMMA RoomTreats ==
    ASSUME m_state # "DISCONNECTED", pollForRoom
    PROVE  Treats
  <1>1. CASE isWriting
    BY <1>1, UnmovedTreats DEF pollForRoom
  <1>2. CASE ~isWriting
    BY <1>2 DEF pollForRoom, setEvents, Treats, Attended, isReading
  <1>3. QED
    BY <1>1, <1>2

\* And whoever is asked to read or not to: PollPoller has a closed channel rest.
LEMMA ReadingTreats ==
    ASSUME NEW q, Running',
           \/ startReadInLoop(q) /\ "startRead" \in called'
           \/ stopReadInLoop(q) /\ "stopRead" \in called'
    PROVE  Treats /\ UNCHANGED <<m_state, notes, refs>> /\ tasks' = q
  <1>1. CASE nothing(q)
    BY <1>1, UnmovedTreats DEF nothing, conn
  <1>2. CASE ~nothing(q)
    <2>1. ~stirred' /\ canUpdate => watched
      BY DEF stirred, canUpdate
    <2>2. canUpdate /\ UNCHANGED <<m_state, notes, refs>> /\ tasks' = q
      BY <1>2 DEF startReadInLoop, stopReadInLoop, Abort, Running
    <2>3. \/ setEvents(m_events \cup {"read"}) /\ "startRead" \in called'
          \/ setEvents(m_events \ {"read"}) /\ "stopRead" \in called'
      BY <1>2, <2>2 DEF startReadInLoop, stopReadInLoop
    <2>4. QED
      BY <2>1, <2>2, <2>3 DEF Treats, setEvents, Attended
  <1>3. QED
    BY <1>1, <1>2

\* A send does nothing to the life of the connection.
LEMMA SendPlain ==
    ASSUME PartsOK, NEW text \in Seq(Nat), NEW msg, NEW q, sendInLoop(text, msg, q), Running'
    PROVE  Plain(q)
  <1>1. CASE nothing(q)
    BY <1>1, UnmovedTreats DEF nothing, Plain, conn
  <1>2. CASE ~nothing(q)
    <2>1. m_state # "DISCONNECTED"
      BY <1>2 DEF sendInLoop
    <2>2. ~Abort("sendInLoop") /\ ~Abort("highWaterMark") /\ ~Abort("update")
      BY DEF Abort, Running
    <2>3. PICK n \in 0..Len(text) :
            /\ append(unsent(text, n))
            /\ tasks' = q /\ UNCHANGED <<m_state, refs, notes>>
      BY <1>2, <2>2, SendCases
    <2>4. UNCHANGED <<m_events, registered, watched>> \/ pollForRoom
      BY <2>3 DEF append
    <2>5. QED
      BY <2>1, <2>3, <2>4, UnmovedTreats, RoomTreats DEF Plain
  <1>3. QED
    BY <1>1, <1>2

\* Nor do the handlers that neither read nor close.
LEMMA OthersPlain ==
    ASSUME NEW q, nothing(q) \/ shutdownInLoop(q)
    PROVE  Plain(q)
  BY UnmovedTreats DEF nothing, shutdownInLoop, Plain, conn

\* A close that does not abort goes through.
LEMMA CloseShuts ==
    ASSUME NEW q \in Seq(Task), handleClose(q), Running'
    PROVE  Shuts(q)
  <1> DEFINE x == [op |-> "destroyed", by |-> LoopThread]
  <1>1. x \in Task /\ x.op = "destroyed"
    BY DEF Task, Users
  <1>2. m_state \in {"CONNECTED", "DISCONNECTED"} /\ canUpdate
    BY DEF handleClose, Abort, Running
  <1>3. /\ m_state' = "DISCONNECTED" /\ m_events' = {} /\ watched' = ~watched /\ notes' = Append(notes, "DOWN")
        /\ refs' = refs \ {"owner"}
        /\ tasks' = IF "owner" \in refs THEN Append(q, x) ELSE q
    BY <1>2 DEF handleClose, holderLetsGo, disableAll, setEvents
  <1> HIDE DEF x
  <1>4. Range(Append(q, x)) = Range(q) \cup {x}
    BY <1>1, QueueGets
  <1>5. CASE "owner" \in refs
    BY <1>1, <1>2, <1>3, <1>4, <1>5 DEF Shuts
  <1>6. CASE "owner" \notin refs
    BY <1>2, <1>3, <1>6 DEF Shuts
  <1>7. QED
    BY <1>5, <1>6

\* So does the end of the channel.
LEMMA DestroyedRemoves ==
    ASSUME NEW q, connectionDestroyed(q), Running'
    PROVE  Removes(q)
  BY DEF connectionDestroyed, channelRemove, Removes, Abort, Running, out

\* What a user's call does to the life of the connection.
LEMMA CallAsks ==
    ASSUME TypeOK, callNow, Running'
    PROVE  Asks
  <1>0. PartsOK /\ tasks \in Seq(Task) /\ m_events \subseteq {"read", "write"}
    BY TypeSplits DEF PartsOK
  <1>1. called \subseteq called'
    BY DEF callNow, sendNow, shutdownNow, forceCloseNow, forceCloseLater, readingNow, begin
  <1>2. CASE sendNow
    <2>1. Plain(tasks)
      BY <1>0, <1>2, SendPlain, MessagesAreTexts DEF sendNow
    <2>2. UNCHANGED timers
      BY <1>2 DEF sendNow
    <2>3. QED
      BY <1>1, <2>1, <2>2 DEF Plain, Asks
  <1>3. CASE shutdownNow
    BY <1>1, <1>3, UnmovedTreats DEF shutdownNow, begin, Asks
  <1>4. CASE forceCloseNow
    <2> DEFINE x == inLoopTask("forceClose")
    <2>1. x \in Task /\ x.op = "forceClose" /\ x.by = LoopThread
      BY DEF inLoopTask, Task, Operations, Users
    <2>2. /\ tasks' = Append(tasks, x) /\ "forceClose" \in called'
          /\ m_state' = "DISCONNECTING"
          /\ UNCHANGED <<refs, notes, timers>> /\ Treats
      BY <1>4, UnmovedTreats DEF forceCloseNow, begin
    <2> HIDE DEF x
    <2>3. Range(tasks') = Range(tasks) \cup {x}
      BY <1>0, <2>1, <2>2, QueueGets
    <2>4. QED
      BY <1>1, <2>1, <2>2, <2>3 DEF Asks
  <1>5. CASE forceCloseLater
    BY <1>1, <1>5, UnmovedTreats DEF forceCloseLater, nothing, conn, Asks
  <1>6. CASE readingNow
    <2>1. \/ startReadInLoop(tasks) /\ "startRead" \in called'
          \/ stopReadInLoop(tasks) /\ "stopRead" \in called'
      BY <1>6 DEF readingNow, begin
    <2>2. UNCHANGED timers
      BY <1>6 DEF readingNow
    <2>3. QED
      BY <1>1, <2>1, <2>2, ReadingTreats DEF Asks
  <1>7. QED
    BY <1>2, <1>3, <1>4, <1>5, <1>6 DEF callNow
-----------------------------------------------------------------------------
(* What one step does to the life of a connection that is established.      *)

\* What every step does to queue, calls and references but for Release.
Hands ==
    /\ called \subseteq called' /\ UNCHANGED busy
    /\ refs \cap Users \subseteq refs'
    /\ \A x \in Range(tasks') :
          \/ x \in Range(tasks) \/ x.op = "destroyed"
          \/ x.op \in called' /\ (Patient => x.by \in refs')
    /\ Patient => timers' \subseteq refs'

\* A step that does not end the connection.
Stays ==
    /\ notes' = notes
    /\ \/ m_state' = m_state
       \/ m_state' = "CONNECTING" /\ "shutdown" \in called'
       \/ m_state' = "DISCONNECTING" /\ "forceClose" \in called'
    /\ Held => Held'
    /\ Treats
    /\ calls' \in Callbacks
    /\ calls \in {<<>>, <<"write">>} /\ ~watched => calls' \in {<<>>, <<"write">>}
    /\ calls = <<>> /\ ~watched => calls' = <<>>

\* A close.
Closes ==
    /\ m_state \in {"CONNECTED", "DISCONNECTED"} /\ m_state' = "DISCONNECTED"
    /\ m_state = "DISCONNECTED" => calls \notin {<<>>, <<"write">>}
    /\ canUpdate /\ watched' = ~watched
    /\ m_events' = {} /\ notes' = Append(notes, "DOWN")
    /\ Held => Held'
    /\ calls' \in {<<>>, <<"write">>}

\* The end of the channel.
Ends ==
    /\ m_state = "CONNECTED" \/ m_events = {}
    /\ m_events' = {} /\ ~registered' /\ ~watched'
    /\ \/ m_state = "CONNECTED" /\ m_state' = "DISCONNECTED" /\ notes' = Append(notes, "DOWN")
       \/ m_state # "CONNECTED" /\ UNCHANGED <<m_state, notes>>
    /\ calls' = <<>>

\* None of them forgets what was told.
LEMMA StepsKeepNotes ==
    ASSUME PartsOK, notes # <<>>, Stays \/ Closes \/ Ends
    PROVE  notes' # <<>>
  BY ToldDown DEF Stays, Closes, Ends

\* The three kinds of step keep what is told of the state.
LEMMA StepsKeepLife ==
    ASSUME PartsOK, notes # <<>>, Clean, Reading, Cleared, Told, Gone, called \subseteq called',
           Stays \/ Closes \/ Ends
    PROVE  Clean' /\ Reading' /\ Cleared' /\ Told' /\ Gone' /\ calls' \in Callbacks
  <1>0. notes' # <<>> /\ (~stirred' => ~stirred)
    BY StepsKeepNotes DEF stirred
  <1>a. Reading' /\ Cleared'
    <2>1. CASE Stays
      BY <2>1 DEF Stays, Treats, Reading, Cleared
    <2>2. CASE Closes \/ Ends
      BY <2>2 DEF Closes, Ends, Reading, Cleared
    <2>3. QED
      BY <2>1, <2>2
  <1>b. ~stirred /\ m_state = "DISCONNECTED" =>
            m_events = {} /\ ~watched /\ calls \in {<<>>, <<"write">>}
    BY DEF Told, Attended
  <1>1. Clean'
    <2>1. SUFFICES ASSUME "shutdown" \notin called', "forceClose" \notin called'
                   PROVE  m_state' # "DISCONNECTING" /\ (m_state' = "CONNECTING" => notes' = <<>>)
      BY DEF Clean
    <2>2. "shutdown" \notin called /\ "forceClose" \notin called
      BY <2>1
    <2>3. m_state # "DISCONNECTING" /\ (m_state = "CONNECTING" => notes = <<>>)
      BY <2>2 DEF Clean
    <2>4. CASE Stays
      BY <2>1, <2>3, <2>4 DEF Stays
    <2>5. CASE Closes \/ Ends
      BY <2>3, <2>5 DEF Closes, Ends
    <2>6. QED
      BY <2>4, <2>5
  <1>2. Told'
    <2>1. <<"UP">> # <<"UP", "DOWN">> /\ Append(<<"UP">>, "DOWN") = <<"UP", "DOWN">>
      <3>1. Len(<<"UP">>) = 1 /\ Len(<<"UP", "DOWN">>) = 2
        OBVIOUS
      <3>2. Append(<<"UP">>, "DOWN") = <<"UP", "DOWN">>
        <4> DEFINE s == Append(<<"UP">>, "DOWN")
                   t == <<"UP", "DOWN">>
        <4>1. s \in Seq({"UP", "DOWN"}) /\ Len(s) = 2 /\ s[1] = "UP" /\ s[2] = "DOWN"
          <5>1. <<"UP">> \in Seq({"UP", "DOWN"}) /\ Len(<<"UP">>) = 1 /\ <<"UP">>[1] = "UP"
            OBVIOUS
          <5>2. QED
            BY <5>1, AppendProperties
        <4>2. t \in Seq({"UP", "DOWN"}) /\ Len(t) = 2 /\ t[1] = "UP" /\ t[2] = "DOWN"
          OBVIOUS
        <4> HIDE DEF s, t
        <4>3. s = t
          BY <4>1, <4>2, SeqEqual
        <4>4. QED
          BY <4>3 DEF s, t
      <3>3. QED
        BY <3>1, <3>2
    <2>2. CASE Stays
      <3>1. ~stirred' => Attended'
        BY <1>0, <2>2 DEF Told, Stays, Treats
      <3>2. ~stirred' /\ m_state' = "DISCONNECTED" => m_events' = {} /\ calls' \in {<<>>, <<"write">>}
        BY <1>0, <1>b, <2>2 DEF Stays, Treats
      <3>3. QED
        BY <1>0, <2>1, <2>2, <3>1, <3>2 DEF Told, Stays
    <2>3. CASE Closes
      <3>1. SUFFICES ASSUME ~stirred' PROVE Told'
        BY DEF Told
      <3>2. ~stirred /\ m_state = "CONNECTED" /\ notes = <<"UP">>
        BY <1>0, <1>b, <2>1, <2>3, <3>1 DEF Closes, Told
      <3>3. watched
        <4>1. CASE Poller = "epoll"
          <5>1. called \cap {"startRead", "stopRead"} = {}
            BY <3>2, <4>1 DEF stirred
          <5>2. m_events # {}
            BY <3>2, <5>1 DEF Reading, isReading
          <5>3. QED
            BY <3>2, <5>2 DEF Told, Attended
        <4>2. CASE Poller # "epoll"
          BY <2>3, <4>2 DEF Closes, canUpdate
        <4>3. QED
          BY <4>1, <4>2
      <3>4. Attended' /\ m_events' = {} /\ calls' \in {<<>>, <<"write">>}
        BY <2>3, <3>3 DEF Closes, Attended
      <3>5. QED
        BY <2>1, <2>3, <3>2, <3>4 DEF Closes, Told
    <2>4. CASE Ends
      <3>1. Attended' /\ m_events' = {} /\ calls' = <<>>
        BY <2>4 DEF Ends, Attended
      <3>2. QED
        BY <1>0, <2>1, <2>4, <3>1 DEF Told, Ends
    <2>5. QED
      BY <2>2, <2>3, <2>4
  <1>3. Gone'
    <2>2. CASE Stays
      BY <1>0, <1>b, <2>2 DEF Gone, Stays, Treats
    <2>3. CASE Closes
      BY <1>0, <2>3 DEF Gone, Closes
    <2>4. CASE Ends
      BY <1>0, <2>4 DEF Gone, Ends
    <2>5. QED
      BY <2>2, <2>3, <2>4
  <1>4. calls' \in Callbacks
    BY DEF Stays, Closes, Ends, Callbacks
  <1>5. QED
    BY <1>a, <1>1, <1>2, <1>3, <1>4

\* What is handed on is still carried.
LEMMA HandsCarry ==
    ASSUME TypeOK, Carried, Hands
    PROVE  Carried'
  <1>1. \A x \in Range(tasks) : x.by \in Users
    <2>1. Range(tasks) \subseteq Task
      BY RangeOfSeq DEF TypeOK
    <2>2. QED
      BY <2>1 DEF Task
  <1>2. \A t \in Others : t \in Users
    BY DEF Users
  <1>3. \A x \in Range(tasks') : x.op = "destroyed" \/ x.op \in called'
    BY DEF Carried, Hands
  <1>4. \A t \in Others : busy'[t] = "no" \/ (busy'[t] \in called' /\ t \in refs')
    BY <1>2 DEF Carried, Hands
  <1>5. Patient => \A x \in Range(tasks') : x.op = "destroyed" \/ x.by \in refs'
    BY <1>1 DEF Carried, Hands
  <1>6. QED
    BY <1>3, <1>4, <1>5 DEF Carried, Hands

\* A callback is the head of a list, and no list calls after a close but to write.
LEMMA CallbackLeaves ==
    ASSUME calls \in Callbacks, NEW cb, callback(cb)
    PROVE  /\ calls # <<>> /\ calls' \in Callbacks /\ calls' \in {<<>>, <<"write">>}
           /\ cb \in {"read", "close"} => calls \notin {<<>>, <<"write">>}
           /\ calls \in {<<>>, <<"write">>} => calls' = <<>>
  <1>1. calls # <<>> /\ Head(calls) = cb /\ calls' = Tail(calls)
    BY DEF callback
  <1>2. CASE calls = <<"read">>
    BY <1>1, <1>2 DEF Callbacks
  <1>3. CASE calls = <<"write">>
    BY <1>1, <1>3 DEF Callbacks
  <1>4. CASE calls = <<"close">>
    BY <1>1, <1>4 DEF Callbacks
  <1>5. CASE calls = <<"read", "write">>
    BY <1>1, <1>5 DEF Callbacks
  <1>6. CASE calls = <<"close", "write">>
    BY <1>1, <1>6 DEF Callbacks
  <1>7. QED
    BY <1>1, <1>2, <1>3, <1>4, <1>5, <1>6 DEF Callbacks

\* How the lists of callbacks may change under a handler.
CallsFollow ==
    /\ calls' \in Callbacks
    /\ calls \in {<<>>, <<"write">>} => calls' \in {<<>>, <<"write">>}
    /\ calls = <<>> => calls' = <<>>

\* The queue a handler starts from: all of it, or what its own task leaves.
Rest(q) ==
    /\ q \in Seq(Task)
    /\ Range(q) \subseteq Range(tasks)
    /\ \A x \in Range(tasks) : x \in Range(q) \/ x.op # "destroyed"

\* Handlers that end nothing.
LEMMA PlainStays ==
    ASSUME NEW q, Rest(q), Plain(q), CallsFollow, UNCHANGED <<busy, called>>,
           Patient => timers' \subseteq refs
    PROVE  Stays /\ Hands
  <1>1. Held => Held'
    BY DEF Held, Plain, Rest
  <1>2. Stays
    BY <1>1 DEF Stays, Plain, CallsFollow
  <1>3. Hands
    BY DEF Hands, Plain, Rest
  <1>4. QED
    BY <1>2, <1>3

\* Starting and stopping to read from the queue.
LEMMA ReadingStays ==
    ASSUME NEW q, Rest(q), CallsFollow, Carried, UNCHANGED <<busy, called, timers>>, Running',
           \/ "startRead" \in called /\ startReadInLoop(q)
           \/ "stopRead" \in called /\ stopReadInLoop(q)
    PROVE  Stays /\ Hands
  <1>0. UNCHANGED <<m_state, notes, refs>> /\ tasks' = q /\ Treats
    BY ReadingTreats
  <1>1. Held => Held'
    BY <1>0 DEF Held, Rest
  <1>4. Stays
    BY <1>0, <1>1 DEF Stays, CallsFollow
  <1>5. Hands
    BY <1>0 DEF Hands, Rest, Carried
  <1>6. QED
    BY <1>4, <1>5

\* A user's call.
LEMMA AsksStays ==
    ASSUME TypeOK, Carried, Asks, CallsFollow, Patient => LoopThread \in refs, UNCHANGED busy
    PROVE  Stays /\ Hands
  <1>1. Held => Held'
    BY DEF Held, Asks
  <1>2. Stays
    BY <1>1 DEF Stays, Asks, CallsFollow
  <1>3. Hands
    BY DEF Hands, Asks, Carried
  <1>4. QED
    BY <1>2, <1>3

\* A close.
LEMMA ShutsCloses ==
    ASSUME TypeOK, Carried, NEW q, Rest(q), Shuts(q), UNCHANGED <<busy, called>>,
           timers' \subseteq timers,
           calls' \in {<<>>, <<"write">>},
           m_state = "DISCONNECTED" => calls \notin {<<>>, <<"write">>}
    PROVE  Closes /\ Hands
  <1>1. Held => Held'
    BY DEF Held, Shuts, Rest
  <1>2. Closes
    BY <1>1 DEF Closes, Shuts
  <1>3. "owner" \notin Users
    BY TcpConnectionAssumption DEF Users
  <1>4. Patient => timers' \subseteq refs'
    BY <1>3 DEF Carried, TypeOK, Shuts
  <1>5. Hands
    BY <1>3, <1>4 DEF Hands, Shuts, Rest
  <1>6. QED
    BY <1>2, <1>5

\* The end of the channel.
LEMMA RemovesEnds ==
    ASSUME Carried, NEW q, Range(q) \subseteq Range(tasks), Removes(q), calls' = <<>>,
           UNCHANGED <<busy, called, timers>>
    PROVE  Ends /\ Hands
  BY DEF Ends, Removes, Hands, Carried

\* A task that runs to its end.
LEMMA TaskSteps ==
    ASSUME TypeOK, Life, Running', tasks # <<>>, taskEffect(Head(tasks), Tail(tasks)),
           calls = <<>>, UNCHANGED <<calls, busy, called>>,
           timers' = IF Head(tasks).op = "forceCloseWithDelay"
                     THEN timers \cup {Head(tasks).by} ELSE timers
    PROVE  (Stays \/ Closes \/ Ends) /\ Hands
  <1> DEFINE q == Tail(tasks)
             task == Head(tasks)
  <1>0. PartsOK /\ Carried
    BY TypeSplits DEF Life
  <1>1. q \in Seq(Task) /\ task \in Task /\ Range(tasks) = Range(q) \cup {task}
    BY <1>0, QueueTakes DEF PartsOK
  <1>2. taskEffect(task, q)
    OBVIOUS
  <1>3. timers' = IF task.op = "forceCloseWithDelay" THEN timers \cup {task.by} ELSE timers
    OBVIOUS
  <1> HIDE DEF q, task
  <1>4. task.op \in Operations \cup {"destroyed"} /\ task.by \in Users
    BY <1>1 DEF Task
  <1>5. CallsFollow
    BY DEF CallsFollow, Callbacks
  <1>6. task.op # "destroyed" => Rest(q) /\ task.op \in called /\ (Patient => task.by \in refs)
    BY <1>0, <1>1 DEF Rest, Carried
  <1>7. Patient => timers \subseteq refs
    BY <1>0 DEF Carried
  <1>8. CASE task.op = "send"
    <2>1. Plain(q)
      BY <1>0, <1>2, <1>8, SendPlain, OthersPlain, MessagesAreTexts DEF taskEffect
    <2>2. QED
      BY <1>3, <1>5, <1>6, <1>7, <1>8, <2>1, PlainStays
  <1>9. CASE task.op = "sendRef"
    <2>1. PICK text \in {nextMessage, junk} : sendInLoop(text, nextMessage, q)
      BY <1>2, <1>9 DEF taskEffect
    <2>2. Plain(q)
      BY <1>0, <2>1, SendPlain, MessagesAreTexts
    <2>3. QED
      BY <1>3, <1>5, <1>6, <1>7, <1>9, <2>2, PlainStays
  <1>10. CASE task.op = "shutdown"
    <2>1. Plain(q)
      BY <1>2, <1>10, OthersPlain DEF taskEffect
    <2>2. QED
      BY <1>3, <1>5, <1>6, <1>7, <1>10, <2>1, PlainStays
  <1>11. CASE task.op = "forceCloseWithDelay"
    <2>1. Plain(q)
      BY <1>2, <1>11, OthersPlain DEF taskEffect
    <2>2. Patient => timers' \subseteq refs
      BY <1>3, <1>6, <1>7, <1>11
    <2>3. QED
      BY <1>5, <1>6, <1>11, <2>1, <2>2, PlainStays
  <1>12. CASE task.op = "forceClose"
    <2>1. forceCloseInLoop(q) /\ Rest(q) /\ timers' = timers
      BY <1>2, <1>3, <1>6, <1>12 DEF taskEffect
    <2>2. CASE nothing(q)
      BY <1>5, <1>7, <2>1, <2>2, OthersPlain, PlainStays
    <2>3. CASE m_state \in {"CONNECTED", "DISCONNECTING"} /\ handleClose(q)
      BY <1>0, <1>1, <2>1, <2>3, CloseShuts, ShutsCloses
    <2>4. QED
      BY <2>1, <2>2, <2>3 DEF forceCloseInLoop
  <1>13. CASE task.op \in {"startRead", "stopRead"}
    <2>1. /\ Rest(q) /\ timers' = timers /\ task.op \in called
          /\ \/ task.op = "startRead" /\ startReadInLoop(q)
             \/ task.op = "stopRead" /\ stopReadInLoop(q)
      BY <1>2, <1>3, <1>6, <1>13 DEF taskEffect
    <2>2. QED
      BY <1>0, <1>5, <2>1, ReadingStays
  <1>14. CASE task.op = "destroyed"
    <2>1. Removes(q)
      BY <1>2, <1>14, DestroyedRemoves DEF taskEffect
    <2>2. QED
      BY <1>0, <1>1, <1>3, <1>14, <2>1, RemovesEnds
  <1>15. QED
    BY <1>4, <1>8, <1>9, <1>10, <1>11, <1>12, <1>13, <1>14 DEF Operations

\* The other steps of the loop thread, of the holder and of the peer.
LEMMA QuietSteps ==
    ASSUME TypeOK, Life, PollReturns \/ DispatchEnds \/ HolderDrops \/ PeerGone \/ Destruct
    PROVE  Stays /\ Hands
  <1>0. /\ calls \in Callbacks /\ (Patient => timers \subseteq refs)
        /\ "owner" \notin Users /\ "dispatch" \notin Users /\ "dispatch" # "owner"
        /\ timers \subseteq Users
    BY TcpConnectionAssumption DEF Life, Carried, Users, TypeOK
  <1>1. CASE PollReturns
    <2>1. calls' \in Callbacks
      BY <1>1 DEF PollReturns, callbackLists, Callbacks
    <2>2. /\ watched /\ refs' = refs \cup {"dispatch"} /\ Treats
          /\ UNCHANGED <<m_state, notes, tasks, timers, busy, called>>
      BY <1>1, UnmovedTreats DEF PollReturns, conn, env
    <2>3. Stays
      BY <1>0, <2>1, <2>2 DEF Stays, Held
    <2>4. Hands
      BY <1>0, <2>2 DEF Hands
    <2>5. QED
      BY <2>3, <2>4
  <1>2. CASE DispatchEnds
    <2>1. /\ refs' = refs \ {"dispatch"} /\ Treats
          /\ UNCHANGED <<m_state, notes, tasks, calls, timers, busy, called>>
      BY <1>2, UnmovedTreats DEF DispatchEnds, conn, env
    <2>2. Stays
      BY <1>0, <2>1 DEF Stays, Held
    <2>3. Hands
      BY <1>0, <2>1 DEF Hands
    <2>4. QED
      BY <2>2, <2>3
  <1>3. CASE HolderDrops
    <2> DEFINE x == [op |-> "destroyed", by |-> LoopThread]
    <2>1. x \in Task /\ x.op = "destroyed"
      BY DEF Task, Users
    <2>2. /\ refs' = refs \ {"owner"} /\ tasks' = Append(tasks, x) /\ Treats
          /\ UNCHANGED <<m_state, notes, calls, timers, busy, called>>
      BY <1>3, UnmovedTreats DEF HolderDrops, holderLetsGo, conn, env
    <2> HIDE DEF x
    <2>3. Range(tasks') = Range(tasks) \cup {x}
      BY <2>1, <2>2, QueueGets DEF TypeOK
    <2>4. Stays
      BY <1>0, <2>1, <2>2, <2>3 DEF Stays, Held
    <2>5. Hands
      BY <1>0, <2>1, <2>2, <2>3 DEF Hands
    <2>6. QED
      BY <2>4, <2>5
  <1>4. CASE PeerGone \/ Destruct
    <2>1. UNCHANGED <<m_state, notes, tasks, calls, refs, timers, busy, called>> /\ Treats
      BY <1>4, UnmovedTreats DEF PeerGone, Destruct, conn
    <2>2. QED
      BY <1>0, <2>1 DEF Stays, Held, Hands
  <1>5. QED
    BY <1>1, <1>2, <1>3, <1>4

\* A user lets go; another thread begins a call or posts one.
LEMMA OthersSteps ==
    ASSUME TypeOK, Life,
           \/ \E t \in Users : Release(t)
           \/ \E t \in Others : CallPosts(t) \/ \E op \in Operations : CallBegins(t, op)
    PROVE  Stays /\ called \subseteq called' /\ Carried'
  <1>0. /\ calls \in Callbacks /\ Carried /\ tasks \in Seq(Task)
        /\ busy \in [Others -> Operations \cup {"no"}]
        /\ "owner" \notin Users
    BY TcpConnectionAssumption DEF Life, Users, TypeOK
  <1>1. CASE \E t \in Users : Release(t)
    <2>1. PICK t \in Users : Release(t)
      BY <1>1
    <2>2. /\ refs' = refs \ {t} /\ t \in refs
          /\ t \in Others => busy[t] = "no"
          /\ Patient => ~stillCarried(t)
          /\ UNCHANGED <<m_state, notes, tasks, calls, timers, busy, called>> /\ Treats
      BY <2>1, UnmovedTreats DEF Release, conn, env
    <2>3. Patient => t \notin timers /\ \A x \in Range(tasks) : x.op = "destroyed" \/ x.by # t
      BY <2>2 DEF stillCarried, Range
    <2>4. Stays
      BY <1>0, <2>2 DEF Stays, Held
    <2>5. Carried'
      BY <1>0, <2>2, <2>3 DEF Carried
    <2>6. QED
      BY <2>2, <2>4, <2>5
  <1>2. CASE \E t \in Others : CallPosts(t)
    <2>1. PICK t \in Others : CallPosts(t)
      BY <1>2
    <2> DEFINE x == [op |-> busy[t], by |-> t]
    <2>2. busy[t] # "no" /\ busy[t] \in Operations /\ busy[t] \in called /\ t \in refs
      BY <1>0, <2>1 DEF CallPosts, Carried
    <2>3. x \in Task /\ x.op = busy[t] /\ x.by = t
      BY <2>2 DEF Task, Users
    <2>4. /\ tasks' = Append(tasks, x)
          /\ \/ m_state' = m_state
             \/ m_state' = "CONNECTING" /\ busy[t] = "shutdown"
             \/ m_state' = "DISCONNECTING" /\ busy[t] = "forceClose"
          /\ UNCHANGED <<notes, calls, refs, timers, called>> /\ Treats
      BY <2>1, UnmovedTreats DEF CallPosts
    <2>5. busy' = [busy EXCEPT ![t] = "no"]
      BY <2>1 DEF CallPosts
    <2> HIDE DEF x
    <2>6. Range(tasks') = Range(tasks) \cup {x}
      BY <1>0, <2>3, <2>4, QueueGets
    <2>7. Stays
      BY <1>0, <2>2, <2>4, <2>6 DEF Stays, Held
    <2>8. \A r \in Others : busy'[r] = "no" \/ busy'[r] = busy[r]
      BY <1>0, <2>5
    <2>9. Carried'
      BY <1>0, <2>2, <2>3, <2>4, <2>6, <2>8 DEF Carried
    <2>10. QED
      BY <2>4, <2>7, <2>9
  <1>3. CASE \E t \in Others : \E op \in Operations : CallBegins(t, op)
    <2>1. PICK t \in Others, op \in Operations : CallBegins(t, op)
      BY <1>3
    <2>2. /\ t \in refs /\ called' = called \cup {op}
          /\ UNCHANGED <<m_state, notes, tasks, calls, refs, timers>> /\ Treats
      BY <2>1, UnmovedTreats DEF CallBegins, begin, conn
    <2>3. busy' = [busy EXCEPT ![t] = op]
      BY <2>1 DEF CallBegins
    <2>4. \A r \in Others : busy'[r] = busy[r] \/ (r = t /\ busy'[r] = op)
      BY <1>0, <2>3
    <2>5. Stays
      BY <1>0, <2>2 DEF Stays, Held
    <2>6. Carried'
      BY <1>0, <2>2, <2>4 DEF Carried
    <2>7. QED
      BY <2>2, <2>5, <2>6
  <1>4. QED
    BY <1>1, <1>2, <1>3

\* Every step of an established connection that does not abort is of one of the
\* three kinds.
LEMMA EveryStep ==
    ASSUME TypeOK, Life, notes # <<>>, Next, Running'
    PROVE  (Stays \/ Closes \/ Ends) /\ called \subseteq called' /\ Carried'
  <1>0. /\ PartsOK /\ calls \in Callbacks /\ Carried /\ tasks \in Seq(Task)
        /\ Rest(tasks) /\ (Patient => timers \subseteq refs)
    BY TypeSplits DEF Life, TypeOK, Rest, Carried
  <1>a. Hands => called \subseteq called' /\ Carried'
    BY <1>0, HandsCarry DEF Hands
  <1>b. LoopFree => calls = <<>>
    BY DEF LoopFree, TypeOK
  <1>c. calls' = calls => CallsFollow
    BY <1>0 DEF CallsFollow
  <1>d. ASSUME NEW cb, callback(cb) PROVE CallsFollow
    BY <1>0, <1>d, CallbackLeaves DEF CallsFollow
  <1>1. CASE ConnectionEstablished
    BY <1>1 DEF ConnectionEstablished
  <1>2. CASE PollReturns \/ DispatchEnds \/ HolderDrops \/ PeerGone \/ Destruct
    BY <1>a, <1>2, QuietSteps
  <1>3. CASE \/ \E t \in Users : Release(t)
             \/ \E t \in Others : CallPosts(t) \/ \E op \in Operations : CallBegins(t, op)
    BY <1>3, OthersSteps
  <1>4. CASE HandleClose
    <2>1. callback("close") /\ handleClose(tasks) /\ UNCHANGED <<busy, called, timers>>
      BY <1>4 DEF HandleClose, env
    <2>2. Shuts(tasks)
      BY <1>0, <2>1, CloseShuts
    <2>3. calls' \in {<<>>, <<"write">>} /\ calls \notin {<<>>, <<"write">>}
      BY <1>0, <2>1, CallbackLeaves
    <2>4. QED
      BY <1>0, <1>a, <2>1, <2>2, <2>3, ShutsCloses
  <1>5. CASE HandleRead
    <2>0. callback("read")
      BY <1>5 DEF HandleRead
    <2>1. CASE (Patient => LoopThread \in refs) /\ callNow /\ UNCHANGED <<busy, peer, freed>>
      BY <1>0, <1>a, <1>d, <2>0, <2>1, CallAsks, AsksStays
    <2>2. CASE nothing(tasks) /\ UNCHANGED env
      BY <1>0, <1>a, <1>d, <2>0, <2>2, OthersPlain, PlainStays DEF env
    <2>3. CASE handleClose(tasks) /\ UNCHANGED env
      <3>1. UNCHANGED <<busy, called, timers>>
        BY <2>3 DEF env
      <3>2. Shuts(tasks)
        BY <1>0, <2>3, CloseShuts
      <3>3. calls' \in {<<>>, <<"write">>} /\ calls \notin {<<>>, <<"write">>}
        BY <1>0, <2>0, CallbackLeaves
      <3>4. QED
        BY <1>0, <1>a, <3>1, <3>2, <3>3, ShutsCloses
    <2>4. QED
      BY <1>5, <2>1, <2>2, <2>3 DEF HandleRead
  <1>6. CASE HandleWrite
    <2>1. callback("write") /\ UNCHANGED <<m_state, tasks, refs, notes, timers, busy, called>>
      BY <1>6 DEF HandleWrite, conn, env
    <2>2. Treats
      <3>1. \/ UNCHANGED <<m_events, registered, watched>>
            \/ isWriting /\ setEvents(m_events \ {"write"})
        BY <1>6 DEF HandleWrite, conn
      <3>2. QED
        BY <3>1, UnmovedTreats DEF Treats, setEvents, Attended, isWriting, isReading
    <2>3. calls # <<>> /\ CallsFollow
      BY <1>0, <1>d, <2>1, CallbackLeaves
    <2>4. Stays
      BY <2>1, <2>2, <2>3 DEF Stays, Held, CallsFollow
    <2>5. Hands
      BY <1>0, <2>1 DEF Hands
    <2>6. QED
      BY <1>a, <2>4, <2>5
  <1>7. CASE LoopCall
    <2>1. LoopThread \in refs /\ callNow /\ UNCHANGED <<calls, busy>>
      BY <1>7 DEF LoopCall
    <2>2. QED
      BY <1>0, <1>a, <1>c, <2>1, CallAsks, AsksStays
  <1>8. CASE RunTask
    <2>1. /\ calls = <<>> /\ tasks # <<>> /\ UNCHANGED <<calls, busy, called>>
          /\ timers' = IF Head(tasks).op = "forceCloseWithDelay"
                       THEN timers \cup {Head(tasks).by} ELSE timers
      BY <1>b, <1>8 DEF RunTask
    <2>2. taskEffect(Head(tasks), Tail(tasks))
      BY <1>8 DEF RunTask, Abort, Running
    <2>3. QED
      BY <1>a, <2>1, <2>2, TaskSteps
  <1>9. CASE \E t \in Users : TimerFires(t)
    <2>1. PICK t \in Users : TimerFires(t)
      BY <1>9
    <2>2. /\ calls = <<>> /\ UNCHANGED <<calls, busy, called>> /\ timers' \subseteq timers
          /\ forceCloseInLoop(tasks)
      BY <1>b, <2>1 DEF TimerFires, Abort, Running
    <2>3. CASE nothing(tasks)
      BY <1>0, <1>a, <1>c, <2>2, <2>3, OthersPlain, PlainStays
    <2>4. CASE m_state \in {"CONNECTED", "DISCONNECTING"} /\ handleClose(tasks)
      <3>1. Shuts(tasks)
        BY <1>0, <2>4, CloseShuts
      <3>2. QED
        BY <1>0, <1>a, <2>2, <2>4, <3>1, ShutsCloses
    <2>5. QED
      BY <2>2, <2>3, <2>4 DEF forceCloseInLoop
  <1>10. QED
    BY <1>1, <1>2, <1>3, <1>4, <1>5, <1>6, <1>7, <1>8, <1>9 DEF Next
-----------------------------------------------------------------------------
(* The first step, the end and the aborts.                                  *)

\* A queued connectionDestroyed is what the queue keeps the connection with.
LEMMA AliveIs == Alive <=> refs # {} \/ \E x \in Range(tasks) : x.op = "destroyed"
  BY DEF Alive, Range

\* Before it is established, nothing but the peer has anything to do with a connection.
LEMMA FirstStep ==
    ASSUME TypeOK, Fresh, Life, notes = <<>>, Next
    PROVE  Life' /\ aborted' = aborted /\ called' = called
  <1>1. /\ refs = {"owner"} /\ timers = {} /\ calls = <<>> /\ tasks = <<>> /\ Held /\ Alive
        /\ m_state = "CONNECTING" /\ ~freed /\ m_events = {} /\ ~watched
        /\ \A t \in Others : busy[t] = "no"
        /\ \A t \in Users : t \notin refs
    BY TcpConnectionAssumption, AliveIs DEF Fresh, Life, Young, Held, Past, Users
  <1>2. Carried
    BY DEF Life
  <1>3. CASE ConnectionEstablished
    <2>1. /\ m_state' = "CONNECTED" /\ notes' = <<"UP">> /\ refs \subseteq refs'
          /\ m_events' = {"read"} /\ watched'
          /\ UNCHANGED <<tasks, calls, aborted, timers, busy, freed, called>>
      BY <1>1, <1>3 DEF ConnectionEstablished, setEvents, env
    <2>2. <<"UP">> # <<>> /\ <<"UP">> # <<"UP", "DOWN">>
      <3>1. Len(<<"UP">>) = 1 /\ Len(<<"UP", "DOWN">>) = 2 /\ Len(<<>>) = 0
        OBVIOUS
      <3>2. QED
        BY <3>1
    <2>3. Young' /\ Clean' /\ Reading' /\ Cleared' /\ Told'
      BY <2>1, <2>2 DEF Young, Clean, Reading, Cleared, Told, Attended, isReading
    <2>4. Carried'
      BY <1>1, <1>2, <2>1 DEF Carried
    <2>5. Gone' /\ Past'
      BY <1>1, <2>1 DEF Gone, Held, Past
    <2>6. QED
      BY <2>1, <2>3, <2>4, <2>5 DEF Life
  <1>4. CASE PeerGone
    <2>1. UNCHANGED <<m_state, m_events, registered, watched, tasks, timers, calls, refs, busy, aborted,
                      freed, notes, called>>
      BY <1>4 DEF PeerGone, conn
    <2>2. QED
      BY <2>1 DEF Life, Young, Carried, Clean, Reading, Cleared, isReading, Told, Attended, stirred,
                  Gone, Held, Past, Alive
  <1>5. ~(PollReturns \/ DispatchEnds \/ HandleClose \/ HandleRead \/ HandleWrite \/ Destruct
            \/ HolderDrops)
    BY <1>1, TcpConnectionAssumption
    DEF PollReturns, DispatchEnds, HandleClose, HandleRead, HandleWrite, callback, Destruct,
        HolderDrops
  <1>6. ~(LoopCall \/ RunTask)
    BY <1>1 DEF LoopCall, RunTask, Users
  <1>7. \A t \in Users : ~TimerFires(t) /\ ~Release(t)
    BY <1>1 DEF TimerFires, Release
  <1>8. \A t \in Others : ~CallPosts(t) /\ \A op \in Operations : ~CallBegins(t, op)
    BY <1>1 DEF CallPosts, CallBegins, Users
  <1>9. QED
    BY <1>3, <1>4, <1>5, <1>6, <1>7, <1>8 DEF Next

\* Nothing but timers is left to a destroyed connection.
LEMMA PastStep ==
    ASSUME TypeOK, Life, Next, Running'
    PROVE  Past'
  <1>1. CASE ~freed
    <2>1. CASE Destruct
      <3>1. ~Alive /\ m_state = "DISCONNECTED" /\ UNCHANGED <<m_state, refs, tasks>>
        BY <2>1 DEF Destruct, Running, conn
      <3>2. QED
        BY <3>1 DEF Past, Alive
    <2>2. CASE ~Destruct
      <3>1. freed' = freed
        BY <2>2 DEF Next, ConnectionEstablished, PollReturns, DispatchEnds, HandleClose, HandleRead,
               HandleWrite, LoopCall, RunTask, TimerFires, Release, CallPosts, CallBegins,
               HolderDrops, PeerGone, env
      <3>2. QED
        BY <1>1, <3>1 DEF Past
    <2>3. QED
      BY <2>1, <2>2
  <1>2. CASE freed
    <2>1. /\ ~Alive /\ m_state = "DISCONNECTED" /\ refs = {} /\ calls = <<>>
          /\ \A x \in Range(tasks) : x.op # "destroyed"
          /\ \A t \in Others : busy[t] = "no"
      BY <1>2, AliveIs DEF Life, Past, Carried, TypeOK
    <2>2. CASE PeerGone
      BY <2>1, <2>2 DEF PeerGone, conn, Past, Alive
    <2>3. CASE RunTask
      <3>1. nothing(Tail(tasks)) /\ tasks # <<>>
        BY <2>1, <2>3 DEF RunTask, Abort, Running, taskEffect
      <3>2. Range(tasks') \subseteq Range(tasks)
        BY <3>1, QueueTakes DEF nothing, TypeOK
      <3>3. m_state' = "DISCONNECTED" /\ refs' = {}
        BY <2>1, <3>1 DEF nothing, conn
      <3>4. \A x \in Range(tasks') : x.op # "destroyed"
        BY <2>1, <3>2
      <3>5. ~Alive'
        BY <3>3, <3>4 DEF Alive, Range
      <3>6. QED
        BY <3>3, <3>5 DEF Past
    <2>4. ~(ConnectionEstablished \/ PollReturns \/ DispatchEnds \/ HandleClose \/ HandleRead
              \/ HandleWrite \/ LoopCall \/ HolderDrops \/ Destruct)
      BY <1>2, <2>1 DEF ConnectionEstablished, PollReturns, DispatchEnds, HandleClose,
                        HandleRead, HandleWrite, callback, LoopCall, HolderDrops, Destruct
    <2>5. \A t \in Users : ~TimerFires(t) /\ ~Release(t)
      BY <2>1 DEF TimerFires, Release, Abort, Running
    <2>6. \A t \in Others : ~CallPosts(t) /\ \A op \in Operations : ~CallBegins(t, op)
      BY <2>1 DEF CallPosts, CallBegins
    <2>7. QED
      BY <2>2, <2>3, <2>4, <2>5, <2>6 DEF Next
  <1>3. QED
    BY <1>1, <1>2

\* Somebody has begun to send.
Sent == called' \cap {"send", "sendRef"} # {}

\* Why a handler may stop the process.
Blamed ==
    \/ Abort("handleClose") /\ m_state \notin {"CONNECTED", "DISCONNECTED"}
    \/ /\ Abort("update") /\ Poller = "poll" /\ ~watched
       /\ \/ called' \cap {"startRead", "stopRead"} # {}
          \/ m_state = "CONNECTED"
          \/ m_state \in {"CONNECTING", "DISCONNECTING"} /\ "sendRef" \in called'
    \/ Abort("sendInLoop") /\ Sent /\ m_sendBuf = <<>>
    \/ Abort("highWaterMark") /\ Sent /\ Len(m_sendBuf) + 2 >= HighWaterMark
    \/ Abort("remove") /\ m_state # "CONNECTED" /\ m_events # {}
    \/ Abort("freed") /\ ~Patient

\* Only PollPoller refuses a change of interest, of a channel it does not wait on.
LEMMA RefusedIs == ~canUpdate => Poller = "poll" /\ ~watched
  BY TcpConnectionAssumption DEF canUpdate

\* A close that stops the process, if PollPoller's channel has not closed before.
LEMMA CloseBlamed ==
    ASSUME Running, ~Running', NEW q, handleClose(q), ~(m_state = "DISCONNECTED" /\ Poller = "poll")
    PROVE  Blamed
  <1>1. CASE m_state \notin {"CONNECTED", "DISCONNECTED"}
    BY <1>1 DEF handleClose, Blamed
  <1>2. CASE m_state \in {"CONNECTED", "DISCONNECTED"}
    <2>1. ~canUpdate /\ Abort("update")
      BY <1>2 DEF handleClose, Running
    <2>2. QED
      BY <1>2, <2>1, RefusedIs DEF Blamed
  <1>3. QED
    BY <1>1, <1>2

\* A send that does.
LEMMA SendBlamed ==
    ASSUME PartsOK, Running, ~Running', NEW q, NEW text \in {nextMessage, junk},
           sendInLoop(text, nextMessage, q), Sent, m_state = "CONNECTED" \/ "sendRef" \in called'
    PROVE  Blamed
  <1>1. text \in Seq(Nat) /\ Len(text) = 2
    BY MessagesAreTexts DEF nextMessage, junk
  <1>2. ~nothing(q) /\ ~UNCHANGED aborted /\ m_state \in States
    BY DEF nothing, Running, PartsOK
  <1>3. \/ Abort("sendInLoop") /\ m_sendBuf = <<>>
        \/ Abort("highWaterMark") /\ Len(m_sendBuf) + 2 >= HighWaterMark
        \/ Abort("update") /\ ~canUpdate /\ m_state # "DISCONNECTED"
    BY <1>1, <1>2, SendCases
  <1>4. QED
    BY <1>2, <1>3, RefusedIs DEF Blamed, States

\* A change of reading that does.
LEMMA ReadingBlamed ==
    ASSUME Running, ~Running', NEW q, startReadInLoop(q) \/ stopReadInLoop(q),
           called' \cap {"startRead", "stopRead"} # {}
    PROVE  Blamed
  <1>1. ~canUpdate /\ Abort("update")
    BY DEF startReadInLoop, stopReadInLoop, nothing, Running
  <1>2. QED
    BY <1>1, RefusedIs DEF Blamed

\* An end of the channel that does.
LEMMA DestroyedBlamed ==
    ASSUME Running, ~Running', NEW q, connectionDestroyed(q)
    PROVE  Blamed
  <1>1. CASE m_state = "CONNECTED" /\ ~canUpdate
    BY <1>1, RefusedIs DEF connectionDestroyed, Blamed
  <1>2. CASE ~(m_state = "CONNECTED" /\ ~canUpdate)
    BY <1>2 DEF connectionDestroyed, Running, Blamed
  <1>3. QED
    BY <1>1, <1>2

\* The other handlers stop nothing.
LEMMA OthersBlameless ==
    ASSUME Running, NEW q, nothing(q) \/ shutdownInLoop(q)
    PROVE  Running'
  BY DEF nothing, shutdownInLoop, Running

\* What is known of a channel of PollPoller: it is waited on while the connection reads,
\* and of a closed one no callback is left that could close it.
LEMMA PollKnows ==
    ASSUME Life, notes # <<>>, Poller = "poll"
    PROVE  /\ m_state = "CONNECTED" /\ ~watched => called \cap {"startRead", "stopRead"} # {}
           /\ m_state = "DISCONNECTED" => m_events = {} /\ calls \in {<<>>, <<"write">>}
  <1>1. ~stirred
    BY DEF stirred
  <1>2. QED
    BY <1>1 DEF Life, Told, Attended, Reading, isReading

\* Blame falls on the calls named.
LEMMA BlameFalls ==
    ASSUME PartsOK, Life, notes # <<>>, Blamed, called \subseteq called'
    PROVE  notes' = notes /\ OnlyTheseCallsAbort'
  <1>0. notes' = notes /\ m_sendBuf' = m_sendBuf /\ m_state \in States
    BY DEF Blamed, Abort, PartsOK, out
  <1>a. m_state \in {"CONNECTING", "DISCONNECTING"} =>
            called' \cap {"shutdown", "forceClose"} # {}
    BY DEF Life, Clean
  <1>1. CASE Abort("handleClose") /\ m_state \notin {"CONNECTED", "DISCONNECTED"}
    <2>1. m_state \in {"CONNECTING", "DISCONNECTING"} /\ aborted' = "handleClose"
      BY <1>0, <1>1 DEF Abort, States
    <2>2. QED
      BY <1>0, <1>a, <2>1 DEF OnlyTheseCallsAbort
  <1>2. CASE /\ Abort("update") /\ Poller = "poll" /\ ~watched
             /\ \/ called' \cap {"startRead", "stopRead"} # {}
                \/ m_state = "CONNECTED"
                \/ m_state \in {"CONNECTING", "DISCONNECTING"} /\ "sendRef" \in called'
    <2>1. aborted' = "update"
      BY <1>2 DEF Abort
    <2>2. \/ called' \cap {"startRead", "stopRead"} # {}
          \/ called' \cap {"shutdown", "forceClose"} # {} /\ "sendRef" \in called'
      BY <1>2, <1>a, PollKnows
    <2>3. QED
      BY <1>0, <1>2, <2>1, <2>2 DEF OnlyTheseCallsAbort
  <1>3. CASE Abort("sendInLoop") /\ Sent /\ m_sendBuf = <<>>
    <2>1. aborted' = "sendInLoop"
      BY <1>3 DEF Abort
    <2>2. QED
      BY <1>0, <1>3, <2>1 DEF Sent, OnlyTheseCallsAbort
  <1>4. CASE Abort("highWaterMark") /\ Sent /\ Len(m_sendBuf) + 2 >= HighWaterMark
    <2>1. aborted' = "highWaterMark"
      BY <1>4 DEF Abort
    <2>2. QED
      BY <1>0, <1>4, <2>1 DEF Sent, OnlyTheseCallsAbort
  <1>5. CASE Abort("remove") /\ m_state # "CONNECTED" /\ m_events # {}
    <2>1. aborted' = "remove"
      BY <1>5 DEF Abort
    <2>2. m_state = "DISCONNECTED" => Poller = "epoll" /\ "startRead" \in called
      BY <1>5, PollKnows, TcpConnectionAssumption DEF Life, Cleared
    <2>3. m_state \in {"CONNECTING", "DISCONNECTING"} \/ m_state = "DISCONNECTED"
      BY <1>0, <1>5 DEF States
    <2>4. \/ called' \cap {"shutdown", "forceClose"} # {}
          \/ Poller = "epoll" /\ "startRead" \in called'
      BY <1>a, <2>2, <2>3
    <2>5. QED
      BY <1>0, <2>1, <2>4 DEF OnlyTheseCallsAbort
  <1>6. CASE Abort("freed") /\ ~Patient
    BY <1>0, <1>6 DEF Abort, OnlyTheseCallsAbort
  <1>7. QED
    BY <1>1, <1>2, <1>3, <1>4, <1>5, <1>6 DEF Blamed

\* A user's call that stops the process is a send or a change of reading.
LEMMA CallBlamed ==
    ASSUME PartsOK, Running, ~Running', callNow
    PROVE  Blamed /\ called \subseteq called'
  <1>1. called \subseteq called'
    BY DEF callNow, sendNow, shutdownNow, forceCloseNow, forceCloseLater, readingNow, begin
  <1>2. CASE sendNow
    <2>1. sendInLoop(nextMessage, nextMessage, tasks) /\ Sent /\ m_state = "CONNECTED"
      BY <1>2 DEF sendNow, begin, mayCall, Sent
    <2>2. QED
      BY <1>1, <2>1, SendBlamed
  <1>3. CASE shutdownNow \/ forceCloseNow \/ forceCloseLater
    BY <1>3, OthersBlameless DEF shutdownNow, forceCloseNow, forceCloseLater, Running
  <1>4. CASE readingNow
    <2>1. called' \cap {"startRead", "stopRead"} # {}
      BY <1>4 DEF readingNow, begin
    <2>2. QED
      BY <1>1, <1>4, <2>1, ReadingBlamed DEF readingNow
  <1>5. QED
    BY <1>1, <1>2, <1>3, <1>4 DEF callNow

\* A task that stops the process is to blame as a handler.
LEMMA TaskBlamed ==
    ASSUME PartsOK, Carried, Running, ~Running', tasks # <<>>, UNCHANGED called,
           taskEffect(Head(tasks), Tail(tasks))
    PROVE  Blamed
  <1> DEFINE q == Tail(tasks)
             task == Head(tasks)
  <1>1. task \in Task /\ task \in Range(tasks)
    BY QueueTakes DEF PartsOK
  <1>2. taskEffect(task, q)
    OBVIOUS
  <1> HIDE DEF q, task
  <1>3. task.op \in Operations \cup {"destroyed"}
    BY <1>1 DEF Task
  <1>4. task.op # "destroyed" => task.op \in called'
    BY <1>1 DEF Carried
  <1>5. ~nothing(q) /\ ~shutdownInLoop(q)
    BY OthersBlameless
  <1>6. CASE task.op = "send"
    <2>1. sendInLoop(nextMessage, nextMessage, q) /\ m_state = "CONNECTED"
      BY <1>2, <1>5, <1>6 DEF taskEffect, mayCall
    <2>2. Sent
      BY <1>4, <1>6 DEF Sent
    <2>3. QED
      BY <2>1, <2>2, SendBlamed
  <1>7. CASE task.op = "sendRef"
    <2>1. PICK text \in {nextMessage, junk} : sendInLoop(text, nextMessage, q)
      BY <1>2, <1>7 DEF taskEffect
    <2>2. Sent /\ "sendRef" \in called'
      BY <1>4, <1>7 DEF Sent
    <2>3. QED
      BY <2>1, <2>2, SendBlamed
  <1>8. CASE task.op \in {"startRead", "stopRead"}
    <2>1. startReadInLoop(q) \/ stopReadInLoop(q)
      BY <1>2, <1>8 DEF taskEffect
    <2>2. called' \cap {"startRead", "stopRead"} # {}
      BY <1>4, <1>8
    <2>3. QED
      BY <2>1, <2>2, ReadingBlamed
  <1>9. CASE task.op = "forceClose"
    <2>1. handleClose(q) /\ m_state # "DISCONNECTED"
      BY <1>2, <1>5, <1>9 DEF taskEffect, forceCloseInLoop
    <2>2. QED
      BY <2>1, CloseBlamed
  <1>10. CASE task.op = "destroyed"
    BY <1>2, <1>10, DestroyedBlamed DEF taskEffect
  <1>11. CASE task.op \in {"shutdown", "forceCloseWithDelay"}
    BY <1>2, <1>5, <1>11 DEF taskEffect
  <1>12. QED
    BY <1>3, <1>6, <1>7, <1>8, <1>9, <1>10, <1>11 DEF Operations

\* The step that stops the process tells nobody anything, and is no surprise.
LEMMA AbortStep ==
    ASSUME TypeOK, Life, Running, notes # <<>>, Next, ~Running'
    PROVE  notes' = notes /\ called \subseteq called' /\ OnlyTheseCallsAbort'
  <1>0. PartsOK
    BY TypeSplits
  <1>a. Blamed /\ called \subseteq called' => notes' = notes /\ OnlyTheseCallsAbort'
    BY <1>0, BlameFalls
  <1>b. ASSUME NEW cb \in {"read", "close"}, callback(cb)
        PROVE  ~(m_state = "DISCONNECTED" /\ Poller = "poll")
    BY <1>b, CallbackLeaves, PollKnows DEF Life
  <1>1. CASE HandleClose
    BY <1>0, <1>a, <1>b, <1>1, CloseBlamed DEF HandleClose, env
  <1>2. CASE HandleRead
    BY <1>0, <1>a, <1>b, <1>2, CallBlamed, CloseBlamed, OthersBlameless DEF HandleRead, env
  <1>3. CASE LoopCall
    BY <1>0, <1>a, <1>3, CallBlamed DEF LoopCall
  <1>4. CASE RunTask
    <2>0. called' = called /\ tasks # <<>>
      BY <1>4 DEF RunTask
    <2>1. CASE taskEffect(Head(tasks), Tail(tasks))
      BY <1>0, <1>a, <2>0, <2>1, TaskBlamed DEF Life
    <2>2. CASE Abort("freed") /\ ~Alive /\ Head(tasks).op # "forceCloseWithDelay"
      <3>1. Head(tasks) \in Range(tasks)
        BY <1>0, <2>0, QueueTakes DEF PartsOK
      <3>2. ~Patient
        BY <2>2, <3>1, AliveIs DEF Life, Carried
      <3>3. QED
        BY <1>a, <2>0, <2>2, <3>2 DEF Blamed
    <2>3. QED
      BY <1>4, <2>1, <2>2 DEF RunTask
  <1>5. CASE \E t \in Users : TimerFires(t)
    <2>1. PICK t \in Users : TimerFires(t)
      BY <1>5
    <2>2. called' = called /\ t \in timers
      BY <2>1 DEF TimerFires
    <2>3. CASE Alive /\ forceCloseInLoop(tasks)
      <3>1. handleClose(tasks) /\ m_state # "DISCONNECTED"
        BY <2>3, OthersBlameless DEF forceCloseInLoop
      <3>2. QED
        BY <1>a, <2>2, <3>1, CloseBlamed
    <2>4. CASE ~Alive /\ Abort("freed")
      <3>1. ~Patient
        BY <2>2, <2>4, AliveIs DEF Life, Carried
      <3>2. QED
        BY <1>a, <2>2, <2>4, <3>1 DEF Blamed
    <2>5. QED
      BY <2>1, <2>3, <2>4 DEF TimerFires
  <1>6. CASE Destruct
    <2>1. /\ ~Alive /\ aborted' = "dtor" /\ m_state # "DISCONNECTED"
          /\ notes' = notes /\ called' = called
      BY <1>6 DEF Destruct, Running
    <2>2. m_state # "CONNECTED" /\ m_state \in States
      BY <1>0, <2>1, AliveIs DEF Life, Gone, Held, PartsOK
    <2>3. called \cap {"shutdown", "forceClose"} # {}
      BY <2>1, <2>2 DEF Life, Clean, States
    <2>4. QED
      BY <2>1, <2>3 DEF OnlyTheseCallsAbort
  <1>7. CASE \/ ConnectionEstablished \/ PollReturns \/ DispatchEnds \/ HandleWrite
             \/ HolderDrops \/ PeerGone
             \/ \E t \in Users : Release(t)
             \/ \E t \in Others : CallPosts(t) \/ \E op \in Operations : CallBegins(t, op)
    <2>1. aborted' = aborted
      BY <1>7 DEF ConnectionEstablished, PollReturns, DispatchEnds, HandleWrite, HolderDrops,
                  PeerGone, Release, CallPosts, CallBegins
    <2>2. QED
      BY <2>1 DEF Running
  <1>8. QED
    BY <1>1, <1>2, <1>3, <1>4, <1>5, <1>6, <1>7 DEF Next

\* Every step keeps the invariant.
LEMMA LifeInductive ==
    ASSUME TypeOK, Fresh, LifeInv, [Next]_vars
    PROVE  LifeInv'
  <1>1. CASE UNCHANGED vars
    <2>1. UNCHANGED <<m_state, m_events, registered, watched, m_sendBuf, tasks, timers, calls,
                      refs, busy, aborted, freed, notes, called>>
      BY <1>1 DEF vars, conn, out, env
    <2>2. QED
      BY <2>1 DEF LifeInv, Running, Life, Young, Carried, Clean, Reading, Cleared, isReading, Told,
                  Attended, stirred, Gone, Held, Past, Alive, ToldOnce, OnlyTheseCallsAbort
  <1>2. CASE Next
    <2>1. Running
      BY <1>2 DEF Next, ConnectionEstablished, PollReturns, DispatchEnds, HandleClose, HandleRead,
             HandleWrite, callback, LoopCall, RunTask, TimerFires, LoopFree, Release, CallPosts,
             CallBegins, HolderDrops, PeerGone, Destruct
    <2>2. Life /\ ToldOnce /\ PartsOK
      BY <2>1, TypeSplits DEF LifeInv
    <2>3. CASE notes = <<>>
      <3>1. Life' /\ Running'
        BY <1>2, <2>1, <2>2, <2>3, FirstStep DEF Running
      <3>2. QED
        BY <3>1 DEF LifeInv, Life, Told, ToldOnce, Running, OnlyTheseCallsAbort
    <2>4. CASE notes # <<>> /\ Running'
      <3>1. (Stays \/ Closes \/ Ends) /\ called \subseteq called' /\ Carried'
        BY <1>2, <2>2, <2>4, EveryStep
      <3>2. Clean' /\ Reading' /\ Cleared' /\ Told' /\ Gone' /\ calls' \in Callbacks
        BY <2>2, <2>4, <3>1, StepsKeepLife DEF Life
      <3>3. Young'
        BY <2>2, <2>4, <3>1, StepsKeepNotes DEF Young
      <3>4. Past'
        BY <1>2, <2>2, <2>4, PastStep
      <3>5. Life'
        BY <3>1, <3>2, <3>3, <3>4 DEF Life, Callbacks
      <3>6. QED
        BY <2>4, <3>5 DEF LifeInv, Life, Told, ToldOnce, Running, OnlyTheseCallsAbort
    <2>5. CASE notes # <<>> /\ ~Running'
      <3>1. notes' = notes /\ called \subseteq called' /\ OnlyTheseCallsAbort'
        BY <1>2, <2>1, <2>2, <2>5, AbortStep
      <3>2. ToldOnce'
        BY <2>2, <3>1 DEF ToldOnce, stirred
      <3>3. QED
        BY <2>5, <3>1, <3>2 DEF LifeInv
    <2>6. QED
      BY <2>3, <2>4, <2>5
  <1>3. QED
    BY <1>1, <1>2

\* In every state the invariant holds.
LEMMA LifeHolds == Spec => []LifeInv
  <1>1. Init => Fresh /\ WriteSideMinded /\ LifeInv
    <2> SUFFICES ASSUME Init PROVE Fresh /\ WriteSideMinded /\ LifeInv
      OBVIOUS
    <2>1. Fresh /\ WriteSideMinded
      BY DEF Init, Fresh, WriteSideMinded, BufferedIsPolled, ShutAfterData, isWriting
    <2>2. Range(tasks) = {}
      BY DEF Init, Range
    <2>3. Carried
      BY <2>2 DEF Init, Carried
    <2>4. <<>> # <<"UP">> /\ <<>> # <<"UP", "DOWN">>
      <3>1. Len(<<"UP">>) = 1 /\ Len(<<"UP", "DOWN">>) = 2 /\ Len(<<>>) = 0
        OBVIOUS
      <3>2. QED
        BY <3>1
    <2>5. Young /\ Clean /\ Reading /\ Cleared /\ Told /\ Gone /\ Past
      BY <2>4 DEF Init, Young, Clean, Reading, Cleared, Told, Attended, Gone, Held, Past
    <2>6. QED
      BY <2>1, <2>3, <2>5 DEF Init, LifeInv, Life, Callbacks, Running, ToldOnce,
                             OnlyTheseCallsAbort
  <1>2. TypeOK /\ Fresh /\ WriteSideMinded /\ LifeInv /\ [Next]_vars => Fresh' /\ WriteSideMinded' /\ LifeInv'
    BY WatchInductive, LifeInductive
  <1>3. QED
    BY <1>1, <1>2, TypeCorrect, PTL DEF Spec

\* m_connectionChangeCb is told UP once and DOWN once, whichever of peer, timer
\* and holder ends the connection (handleClose, connectionDestroyed): with PollPoller
\* always, with EpollPoller if users do not call startRead and stopRead.
THEOREM ToldUpAndDownOnce == Spec => []ToldOnce
  BY LifeHolds, PTL DEF LifeInv

\* Whatever stops the process, of the asserts the handlers meet, the calls to blame
\* have been made: an assert of the life cycle takes shutdown_mt or forceClose, a refused
\* change of interest PollPoller and startRead or stopRead, a failed send an empty
\* buffer or one at its mark; and no task or timer of patient users finds the object freed.
THEOREM NobodyElseAborts == Spec => []OnlyTheseCallsAbort
  BY LifeHolds, PTL DEF LifeInv

\* The poller has forgotten the channel of a freed connection (connectionDestroyed
\* comes last, and nothing but startRead and stopRead registers the channel again, and
\* that only with EpollPoller).
THEOREM FreedAreForgotten == Spec => []FreedIsForgotten
  <1>1. LifeInv => FreedIsForgotten
    BY AliveIs DEF LifeInv, Life, Past, Gone, Held, FreedIsForgotten
  <1>2. QED
    BY <1>1, LifeHolds, PTL
-----------------------------------------------------------------------------
(* What the holder was promised: TcpConnection implements Connection.       *)

\* The holder lets go but once, and nobody but the holder asks for the end.
Hears ==
    /\ notes' \in {notes, Append(notes, "DOWN")}
    /\ "owner" \in refs' => "owner" \in refs
    /\ Held' => Held

\* A step that tells nobody and at most takes from the queue.
Quiet(q) == UNCHANGED <<notes, refs>> /\ tasks' \in {q, tasks}

\* Of a quiet step the holder hears nothing.
LEMMA QuietHears ==
    ASSUME NEW q, Range(q) \subseteq Range(tasks), Quiet(q)
    PROVE  Hears
  <1>1. Range(tasks') \subseteq Range(tasks)
    BY DEF Quiet
  <1>2. QED
    BY <1>1 DEF Quiet, Hears, Held

\* A close tells the holder once.
LEMMA CloseHears ==
    ASSUME NEW q \in Seq(Task), Range(q) \subseteq Range(tasks), handleClose(q)
    PROVE  Hears
  <1> DEFINE x == [op |-> "destroyed", by |-> LoopThread]
  <1>1. CASE Abort("handleClose") \/ Abort("update")
    <2>1. Quiet(q)
      BY <1>1 DEF Abort, Quiet
    <2>2. QED
      BY <2>1, QuietHears
  <1>2. CASE ~Abort("handleClose") /\ ~Abort("update")
    <2>1. /\ notes' = Append(notes, "DOWN") /\ refs' = refs \ {"owner"}
          /\ tasks' = IF "owner" \in refs THEN Append(q, x) ELSE q
      BY <1>2 DEF handleClose, holderLetsGo
    <2>2. Held' => Held
      <3>1. CASE "owner" \in refs
        BY <3>1 DEF Held
      <3>2. CASE "owner" \notin refs
        <4>1. tasks' = q /\ "owner" \notin refs'
          BY <2>1, <3>2
        <4>2. Range(tasks') \subseteq Range(tasks)
          BY <4>1
        <4>3. QED
          BY <4>1, <4>2 DEF Held
      <3>3. QED
        BY <3>1, <3>2
    <2>3. QED
      BY <2>1, <2>2 DEF Hears
  <1>3. QED
    BY <1>1, <1>2

\* So does a forced close.
LEMMA ForceCloseHears ==
    ASSUME NEW q \in Seq(Task), Range(q) \subseteq Range(tasks), forceCloseInLoop(q)
    PROVE  Hears
  <1>1. CASE handleClose(q)
    BY <1>1, CloseHears
  <1>2. CASE nothing(q)
    <2>1. Quiet(q)
      BY <1>2 DEF nothing, Quiet
    <2>2. QED
      BY <2>1, QuietHears
  <1>3. QED
    BY <1>1, <1>2 DEF forceCloseInLoop

\* The end of the channel takes one task from the queue and adds none.
LEMMA DestroyedHears ==
    ASSUME NEW q, Range(q) \subseteq Range(tasks), connectionDestroyed(q)
    PROVE  Hears
  <1>1. CASE Abort("remove") \/ Abort("update")
    <2>1. Quiet(q)
      BY <1>1 DEF Abort, Quiet
    <2>2. QED
      BY <2>1, QuietHears
  <1>2. CASE ~Abort("remove") /\ ~Abort("update")
    <2>1. notes' \in {notes, Append(notes, "DOWN")} /\ refs' = refs /\ tasks' = q
      BY <1>2 DEF connectionDestroyed
    <2>2. Range(tasks') \subseteq Range(tasks)
      BY <2>1
    <2>3. QED
      BY <2>1, <2>2 DEF Hears, Held
  <1>3. QED
    BY <1>1, <1>2

\* The handlers that neither send nor close are quiet.
LEMMA OthersQuiet ==
    ASSUME NEW q,
           \/ nothing(q) \/ shutdownInLoop(q) \/ startReadInLoop(q) \/ stopReadInLoop(q)
           \/ \E why : Abort(why)
    PROVE  Quiet(q)
  BY DEF nothing, shutdownInLoop, startReadInLoop, stopReadInLoop, Abort, Quiet

\* So is a send.
LEMMA SendQuiet ==
    ASSUME PartsOK, NEW text \in Seq(Nat), NEW msg, NEW q, sendInLoop(text, msg, q)
    PROVE  Quiet(q)
  <1>1. CASE nothing(q) \/ Abort("sendInLoop") \/ Abort("highWaterMark") \/ Abort("update")
    BY <1>1, OthersQuiet
  <1>2. CASE tasks' = q /\ UNCHANGED <<refs, notes>>
    BY <1>2 DEF Quiet
  <1>3. QED
    BY <1>1, <1>2, SendCases

\* Users on the loop thread do not ask for the end.
LEMMA CallHears ==
    ASSUME PartsOK, callNow
    PROVE  Hears
  <1>1. CASE sendNow
    <2>1. Quiet(tasks)
      BY <1>1, SendQuiet, MessagesAreTexts DEF sendNow
    <2>2. QED
      BY <2>1, QuietHears
  <1>2. CASE shutdownNow
    <2>1. Quiet(tasks)
      BY <1>2 DEF shutdownNow, Quiet
    <2>2. QED
      BY <2>1, QuietHears
  <1>3. CASE forceCloseNow
    <2> DEFINE x == inLoopTask("forceClose")
    <2>1. x \in Task /\ x.op # "destroyed"
      BY DEF inLoopTask, Task, Operations, Users
    <2>2. tasks' = Append(tasks, x) /\ UNCHANGED <<refs, notes>>
      BY <1>3 DEF forceCloseNow
    <2> HIDE DEF x
    <2>3. Range(tasks') = Range(tasks) \cup {x}
      BY <2>1, <2>2, QueueGets DEF PartsOK
    <2>4. QED
      BY <2>1, <2>2, <2>3 DEF Hears, Held
  <1>4. CASE forceCloseLater \/ readingNow
    <2>1. Quiet(tasks)
      BY <1>4, OthersQuiet DEF forceCloseLater, readingNow
    <2>2. QED
      BY <2>1, QuietHears
  <1>5. QED
    BY <1>1, <1>2, <1>3, <1>4 DEF callNow

\* A task.
LEMMA TaskHears ==
    ASSUME PartsOK, tasks # <<>>, taskEffect(Head(tasks), Tail(tasks))
    PROVE  Hears
  <1> DEFINE q == Tail(tasks)
             task == Head(tasks)
  <1>1. q \in Seq(Task) /\ Range(q) \subseteq Range(tasks) /\ task \in Task
    BY QueueTakes DEF PartsOK
  <1>2. task.op \in Operations \cup {"destroyed"}
    BY <1>1 DEF Task
  <1>3. taskEffect(task, q)
    OBVIOUS
  <1> HIDE DEF q, task
  <1>4. CASE task.op = "send"
    <2>1. Quiet(q)
      BY <1>3, <1>4, SendQuiet, OthersQuiet, MessagesAreTexts DEF taskEffect
    <2>2. QED
      BY <1>1, <2>1, QuietHears
  <1>5. CASE task.op = "sendRef"
    <2>1. PICK text \in {nextMessage, junk} : sendInLoop(text, nextMessage, q)
      BY <1>3, <1>5 DEF taskEffect
    <2>2. Quiet(q)
      BY <2>1, SendQuiet, MessagesAreTexts
    <2>3. QED
      BY <1>1, <2>2, QuietHears
  <1>6. CASE task.op \in {"shutdown", "startRead", "stopRead", "forceCloseWithDelay"}
    <2>1. Quiet(q)
      BY <1>3, <1>6, OthersQuiet DEF taskEffect
    <2>2. QED
      BY <1>1, <2>1, QuietHears
  <1>7. CASE task.op = "forceClose"
    BY <1>1, <1>3, <1>7, ForceCloseHears DEF taskEffect
  <1>8. CASE task.op = "destroyed"
    BY <1>1, <1>3, <1>8, DestroyedHears DEF taskEffect
  <1>9. QED
    BY <1>2, <1>4, <1>5, <1>6, <1>7, <1>8 DEF Operations

\* Every step of an established connection is one the holder may see.
LEMMA EveryStepHears ==
    ASSUME TypeOK, notes # <<>>, Next
    PROVE  Hears
  <1>0. /\ PartsOK /\ tasks \in Seq(Task) /\ busy \in [Others -> Operations \cup {"no"}]
        /\ "owner" \notin Users /\ "dispatch" # "owner"
    BY TypeSplits, TcpConnectionAssumption DEF PartsOK, RestOK, Users
  <1>1. CASE ConnectionEstablished
    BY <1>1 DEF ConnectionEstablished
  <1>2. CASE \/ PollReturns \/ DispatchEnds \/ PeerGone \/ Destruct \/ HandleWrite
             \/ \E t \in Users : Release(t)
             \/ \E t \in Others : \E op \in Operations : CallBegins(t, op)
    <2>1. UNCHANGED <<notes, tasks>> /\ ("owner" \in refs' <=> "owner" \in refs)
      BY <1>0, <1>2 DEF PollReturns, DispatchEnds, PeerGone, Destruct, HandleWrite, Release, CallBegins
    <2>2. QED
      BY <2>1 DEF Hears, Held
  <1>3. CASE HandleClose
    BY <1>0, <1>3, CloseHears DEF HandleClose
  <1>4. CASE HandleRead
    <2>1. CASE nothing(tasks)
      <3>1. Quiet(tasks)
        BY <2>1, OthersQuiet
      <3>2. QED
        BY <3>1, QuietHears
    <2>2. CASE callNow \/ handleClose(tasks)
      BY <1>0, <2>2, CallHears, CloseHears
    <2>3. QED
      BY <1>4, <2>1, <2>2 DEF HandleRead
  <1>5. CASE LoopCall
    BY <1>0, <1>5, CallHears DEF LoopCall
  <1>6. CASE RunTask
    <2>1. CASE Abort("freed")
      <3>1. Quiet(tasks)
        BY <2>1, OthersQuiet
      <3>2. QED
        BY <3>1, QuietHears
    <2>2. QED
      BY <1>0, <1>6, <2>1, TaskHears DEF RunTask
  <1>7. CASE \E t \in Users : TimerFires(t)
    <2>1. CASE Abort("freed")
      <3>1. Quiet(tasks)
        BY <2>1, OthersQuiet
      <3>2. QED
        BY <3>1, QuietHears
    <2>2. QED
      BY <1>0, <1>7, <2>1, ForceCloseHears DEF TimerFires
  <1>8. CASE \E t \in Others : CallPosts(t)
    <2>1. PICK t \in Others : CallPosts(t)
      BY <1>8
    <2> DEFINE x == [op |-> busy[t], by |-> t]
    <2>2. busy[t] \in Operations
      BY <1>0, <2>1 DEF CallPosts
    <2>3. x \in Task /\ x.op # "destroyed"
      BY <2>2 DEF Task, Users, Operations
    <2>4. tasks' = Append(tasks, x) /\ UNCHANGED <<refs, notes>>
      BY <2>1 DEF CallPosts
    <2> HIDE DEF x
    <2>5. Range(tasks') = Range(tasks) \cup {x}
      BY <1>0, <2>3, <2>4, QueueGets
    <2>6. QED
      BY <2>3, <2>4, <2>5 DEF Hears, Held
  <1>9. CASE HolderDrops
    BY <1>9 DEF HolderDrops, holderLetsGo, Hears, Held
  <1>10. QED
    BY <1>1, <1>2, <1>3, <1>4, <1>5, <1>6, <1>7, <1>8, <1>9 DEF Next

\* The life of the connection, told by who holds it.
LEMMA LifeIs ==
    /\ lifeOf = IF notes = <<>> THEN "made" ELSE IF ~Held THEN "dead"
                ELSE IF notes = <<"UP">> THEN "up" ELSE "closed"
    /\ lifeOf' = IF notes' = <<>> THEN "made" ELSE IF ~Held' THEN "dead"
                 ELSE IF notes' = <<"UP">> THEN "up" ELSE "closed"
  BY DEF lifeOf, toDestroy, Held, Range

\* A step of an established connection is a step of its life, or none.
LEMMA HearsLives ==
    ASSUME PartsOK, notes # <<>>, Hears
    PROVE  [Promised!Next]_(Promised!vars)
  <1>1. notes' # <<>> /\ (notes' = <<"UP">> => notes = <<"UP">>)
    BY ToldDown DEF Hears
  <1>2. lifeOf = IF ~Held THEN "dead" ELSE IF notes = <<"UP">> THEN "up" ELSE "closed"
    BY LifeIs
  <1>3. lifeOf' = IF ~Held' THEN "dead" ELSE IF notes' = <<"UP">> THEN "up" ELSE "closed"
    BY <1>1, LifeIs
  <1>4. "owner" \in refs' => "owner" \in refs
    BY DEF Hears
  <1>5. CASE ~Held
    <2>1. ~Held' /\ "owner" \notin refs /\ "owner" \notin refs'
      BY <1>5 DEF Hears, Held
    <2>2. QED
      BY <1>2, <1>3, <1>5, <2>1 DEF Promised!vars
  <1>6. CASE Held /\ ~Held'
    <2>1. "owner" \notin refs'
      BY <1>6 DEF Held
    <2>2. QED
      BY <1>2, <1>3, <1>6, <2>1 DEF Promised!Next, Promised!Destroy, Promised!Step
  <1>7. CASE Held /\ Held' /\ lifeOf' = lifeOf
    <2>1. CASE "owner" \in refs /\ "owner" \notin refs'
      BY <1>2, <1>7, <2>1 DEF Promised!Next, Promised!LetGo
    <2>2. CASE "owner" \in refs <=> "owner" \in refs'
      BY <1>7, <2>2 DEF Promised!vars
    <2>3. QED
      BY <1>4, <2>1, <2>2
  <1>8. CASE Held /\ Held' /\ lifeOf' # lifeOf
    <2>1. lifeOf = "up" /\ lifeOf' = "closed"
      BY <1>1, <1>2, <1>3, <1>8
    <2>2. QED
      BY <1>4, <2>1 DEF Promised!Next, Promised!Close, Promised!Step, Promised!MayLetGo
  <1>9. QED
    BY <1>5, <1>6, <1>7, <1>8

\* So is one of a connection that is not established.
LEMMA FirstLives ==
    ASSUME TypeOK, Fresh, LifeInv, notes = <<>>, Next
    PROVE  [Promised!Next]_(Promised!vars)
  <1>1. /\ refs = {"owner"} /\ timers = {} /\ calls = <<>> /\ tasks = <<>> /\ Alive
        /\ "dispatch" \notin refs /\ \A t \in Users : t \notin refs
        /\ \A t \in Others : busy[t] = "no"
        /\ ~watched
    BY TcpConnectionAssumption DEF Fresh, Users, Alive
  <1>2. lifeOf = "made"
    BY LifeIs
  <1>3. CASE ConnectionEstablished
    <2>1. Held
      BY <1>3 DEF ConnectionEstablished, LifeInv, Life, Young
    <2>2. /\ notes' = <<"UP">> /\ UNCHANGED tasks
          /\ "owner" \in refs' <=> "owner" \in refs
      BY <1>3, TcpConnectionAssumption DEF ConnectionEstablished, Users
    <2>3. <<"UP">> # <<>>
      OBVIOUS
    <2>4. Held'
      BY <2>1, <2>2 DEF Held
    <2>5. lifeOf' = "up"
      BY <2>2, <2>3, <2>4, LifeIs
    <2>6. QED
      BY <1>2, <2>2, <2>5 DEF Promised!Next, Promised!Establish, Promised!Step
  <1>4. CASE PeerGone
    <2>1. notes' = <<>> /\ refs' = refs
      BY <1>4 DEF PeerGone
    <2>2. lifeOf' = "made"
      BY <2>1, LifeIs
    <2>3. QED
      BY <1>2, <2>1, <2>2 DEF Promised!vars
  <1>5. ~(PollReturns \/ DispatchEnds \/ HandleClose \/ HandleRead \/ HandleWrite
            \/ HolderDrops \/ Destruct)
    BY <1>1 DEF PollReturns, DispatchEnds, HandleClose, HandleRead, HandleWrite, callback,
                HolderDrops, Destruct
  <1>6. ~(LoopCall \/ RunTask)
    BY <1>1 DEF LoopCall, RunTask, Users
  <1>7. \A t \in Users : ~TimerFires(t) /\ ~Release(t)
    BY <1>1 DEF TimerFires, Release
  <1>8. \A t \in Others : ~CallPosts(t) /\ \A op \in Operations : ~CallBegins(t, op)
    BY <1>1 DEF CallPosts, CallBegins, Users
  <1>9. QED
    BY <1>3, <1>4, <1>5, <1>6, <1>7, <1>8 DEF Next

\* A connection lives as its holder was promised: established once, closed at most
\* once, destroyed once and never before it was established and let go, whatever
\* users, peer and timers do (TcpConnection implements Connection).
THEOREM LivesAsPromised == Spec => ImplementsConnection
  <1>1. Init => Promised!Init
    BY LifeIs DEF Init, Promised!Init
  <1>2. TypeOK /\ Fresh /\ LifeInv /\ [Next]_vars => [Promised!Next]_(Promised!vars)
    <2> SUFFICES ASSUME TypeOK, Fresh, LifeInv, [Next]_vars
                 PROVE  [Promised!Next]_(Promised!vars)
      OBVIOUS
    <2>1. CASE UNCHANGED vars
      BY <2>1 DEF vars, Promised!vars, lifeOf, toDestroy
    <2>2. CASE Next /\ notes = <<>>
      BY <2>2, FirstLives
    <2>3. CASE Next /\ notes # <<>>
      BY <2>3, EveryStepHears, HearsLives, TypeSplits
    <2>4. QED
      BY <2>1, <2>2, <2>3
  <1>3. QED
    BY <1>1, <1>2, TypeCorrect, WatchHolds, LifeHolds, PTL
    DEF Spec, ImplementsConnection, Promised!Spec
=============================================================================
