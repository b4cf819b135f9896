------------------------------ MODULE TimerQueue ------------------------------
(***************************************************************************)
(* ynet::TimerQueue with its Timers and the timerfd it reads.  A Timer is  *)
(* named by its address; an address is used again once its Timer has been  *)
(* deleted, so that a TimerId is an address with a sequence number.  Time  *)
(* is counted in units of the shortest delay the code arms the timerfd     *)
(* for.  Asserts are compiled in: a failed one ends the process.           *)
(***************************************************************************)
EXTENDS Integers

CONSTANTS
    Addrs,          \* addresses of Timers
    MaxTimers,      \* bound: how many Timers are created
    MaxTime,        \* bound: the last value of the clock and of a request
    Faults          \* what is as written, not as meant:
                    \*   "timerRef"  addTimer_mt's task captures a dead local
                    \*   "settime"   resetTimerfd passes zero and so disarms

ASSUME TimerQueueAssumption ==
    /\ Addrs \subseteq Nat \ {0}
    /\ MaxTimers \in Nat
    /\ MaxTime \in Nat
    /\ Faults \subseteq {"timerRef", "settime"}

VARIABLES
    clock,
    armed,                  \* when the timerfd becomes readable, 0 for never
    timestamp,              \* m_pollReturnTime while handleRead is due, else 0
    heap,                   \* the Timer at each address, seq = 0 for none
    s_numCreated,
    m_timerList,            \* set of <<expiration, address>>
    m_timerIdList,          \* set of <<address, sequence>>
    m_cancelingTimers,      \* set of <<address, sequence>>
    m_callingExpiredTimers,
    expired,                \* the batch handleRead took from m_timerList
    toRun,                  \* the part of it whose callbacks have not begun
    pending,                \* TimerIds whose tasks other threads have posted
    given,                  \* the TimerIds clients have been handed
    cancelled,              \* history: TimerIds cancelled while in use
    aliased,                \* history: a task found another Timer than its own
    stopped                 \* "no", or how the process or the queue ended

queueVars == <<heap, m_timerList, m_timerIdList>>
batchVars == <<m_cancelingTimers, m_callingExpiredTimers, expired, toRun>>
clientVars == <<s_numCreated, given, cancelled, aliased, pending>>
vars == <<clock, armed, timestamp, queueVars, batchVars, clientVars, stopped>>

none == [seq |-> 0, expiration |-> 0, interval |-> 0]

Init ==
    /\ clock = 1 /\ armed = 0 /\ timestamp = 0
    /\ heap = [a \in Addrs |-> none]
    /\ s_numCreated = 0
    /\ m_timerList = {} /\ m_timerIdList = {} /\ m_cancelingTimers = {}
    /\ m_callingExpiredTimers = FALSE
    /\ expired = {} /\ toRun = {}
    /\ pending = {} /\ given = {} /\ cancelled = {} /\ aliased = FALSE
    /\ stopped = "no"

-----------------------------------------------------------------------------
(* Helpers.                                                                *)

idOf(a) == <<a, heap[a].seq>>
getRepeat(a) == heap[a].interval > 0

\* std::pair's order: by time, then by address.
before(x, y) == x[1] < y[1] \/ (x[1] = y[1] /\ x[2] < y[2])
isFirst(x, list) == x \in list /\ \A y \in list \ {x} : before(x, y)

readable == armed # 0 /\ armed <= clock

\* No earlier than the shortest delay from now.
howMuchTimeFromNow(when) == IF when - clock < 1 THEN 1 ELSE when - clock

resetTimerfd(expiration) ==
    IF "settime" \in Faults THEN 0 ELSE clock + howMuchTimeFromNow(expiration)

stop(why) ==
    /\ stopped' = why
    /\ UNCHANGED <<clock, armed, timestamp, queueVars, batchVars, clientVars>>

\* The loop thread runs client code: a task, a channel's callback, or the
\* callback of an expired timer.
inClientCode == stopped = "no" /\ (m_callingExpiredTimers => toRun # expired)

-----------------------------------------------------------------------------
(* Adding.                                                                 *)

runAt(when)      == [when |-> when, interval |-> 0]
runAfter(delay)  == [when |-> clock + delay, interval |-> 0]
runEvery(period) == [when |-> clock + period, interval |-> period]
requests == {runAt(w) : w \in 0..MaxTime} \cup {runEvery(1)}
    \cup {runAfter(d) : d \in {1}} \cup {runEvery(2)}

newTimer(a, r) ==
    /\ heap[a].seq = 0 /\ s_numCreated < MaxTimers
    /\ s_numCreated' = s_numCreated + 1
    /\ heap' = [heap EXCEPT ![a] = [seq |-> s_numCreated + 1,
                                    expiration |-> r.when, interval |-> r.interval]]
    /\ given' = given \cup {<<a, s_numCreated + 1>>}

earliestExpire(expire) == \A x \in m_timerList : expire < x[1]

insertAsserts(expire, id) == id \notin m_timerIdList /\ <<expire, id[1]>> \notin m_timerList

addTimerInLoop(expire, id) ==
    /\ m_timerIdList' = m_timerIdList \cup {id}
    /\ m_timerList' = m_timerList \cup {<<expire, id[1]>>}
    /\ armed' = IF earliestExpire(expire) THEN resetTimerfd(expire) ELSE armed
    /\ UNCHANGED stopped

\* On the loop thread postTask_mt runs the task at once.
AddTimer(a, r) ==
    /\ inClientCode
    /\ newTimer(a, r)
    /\ IF insertAsserts(r.when, <<a, s_numCreated + 1>>)
       THEN addTimerInLoop(r.when, <<a, s_numCreated + 1>>)
       ELSE stopped' = "assert" /\ UNCHANGED <<m_timerList, m_timerIdList, armed>>
    /\ UNCHANGED <<clock, timestamp, batchVars, cancelled, aliased, pending>>

AddTimerMt(a, r) ==
    /\ stopped = "no"
    /\ newTimer(a, r)
    /\ pending' = pending \cup {<<a, s_numCreated + 1>>}
    /\ UNCHANGED <<clock, armed, timestamp, m_timerList, m_timerIdList, batchVars,
                   cancelled, aliased, stopped>>

\* Where the task of id looks for its Timer.  As written it reads a local of
\* addTimer_mt that is dead: that may still hold the pointer, hold that of
\* another call at the same place of the stack, or be no pointer at all.
finds(id) == IF "timerRef" \in Faults THEN Addrs ELSE {id[1]}

RunTask(id) ==
    /\ stopped = "no" /\ timestamp = 0 /\ id \in pending
    /\ \/ "timerRef" \in Faults /\ stop("junkTimer")
       \/ \E a \in finds(id) :
             /\ heap[a].seq # 0
             /\ pending' = pending \ {id}
             /\ aliased' = (aliased \/ idOf(a) # id)
             /\ IF insertAsserts(heap[a].expiration, idOf(a))
                THEN addTimerInLoop(heap[a].expiration, idOf(a))
                ELSE stopped' = "assert" /\ UNCHANGED <<m_timerList, m_timerIdList, armed>>
             /\ UNCHANGED <<clock, timestamp, heap, batchVars, s_numCreated, given, cancelled>>

-----------------------------------------------------------------------------
(* Cancelling.                                                             *)

\* Mutant: the timer stays in the list sorted by time.
eraseTimerIdOnly(id) ==
    /\ m_timerIdList' = m_timerIdList \ {id}
    /\ heap' = [heap EXCEPT ![id[1]] = none]
    /\ UNCHANGED <<m_cancelingTimers, m_timerList>>

eraseTimer(id) ==
    /\ m_timerList' = m_timerList \ {<<heap[id[1]].expiration, id[1]>>}
    /\ m_timerIdList' = m_timerIdList \ {id}
    /\ heap' = [heap EXCEPT ![id[1]] = none]
    /\ UNCHANGED m_cancelingTimers

inBatch(id) == \E x \in expired : idOf(x[2]) = id

CancelInLoop(id) ==
    /\ inClientCode /\ id \in given
    /\ \/ id \in m_timerIdList /\ eraseTimer(id)
       \/ /\ id \notin m_timerIdList
          /\ m_cancelingTimers' = IF m_callingExpiredTimers
                                  THEN m_cancelingTimers \cup {id} ELSE m_cancelingTimers
          /\ UNCHANGED queueVars
    /\ cancelled' = IF id \in m_timerIdList \/ inBatch(id)
                    THEN cancelled \cup {id} ELSE cancelled
    /\ UNCHANGED <<clock, armed, timestamp, m_callingExpiredTimers, expired, toRun,
                   s_numCreated, given, aliased, pending, stopped>>

-----------------------------------------------------------------------------
(* Expiry.                                                                 *)

\* poll() reports the timerfd; other channels' callbacks may come first.
PollReturns ==
    /\ stopped = "no" /\ timestamp = 0 /\ readable
    /\ timestamp' = clock
    /\ UNCHANGED <<clock, armed, queueVars, batchVars, clientVars, stopped>>

readTimerfd == armed' = IF readable THEN 0 ELSE armed

getExpired == {x \in m_timerList : x[1] < timestamp}

getExpiredAsserts == \A x \in getExpired : idOf(x[2]) \in m_timerIdList

\* handleRead up to the first callback.
BeginHandleRead ==
    /\ stopped = "no" /\ timestamp # 0 /\ ~m_callingExpiredTimers
    /\ \/ /\ \E x \in m_timerList : x[1] = timestamp
          /\ stop("expiresNow")
       \/ /\ \A x \in m_timerList : x[1] # timestamp
          /\ ~getExpiredAsserts
          /\ stop("assert")
       \/ /\ \A x \in m_timerList : x[1] # timestamp
          /\ getExpiredAsserts
          /\ readTimerfd
          /\ m_timerList' = m_timerList \ getExpired
          /\ m_timerIdList' = m_timerIdList \ {idOf(x[2]) : x \in getExpired}
          /\ expired' = getExpired /\ toRun' = getExpired
          /\ m_callingExpiredTimers' = TRUE /\ m_cancelingTimers' = {}
          /\ UNCHANGED <<clock, timestamp, heap, clientVars, stopped>>

RunCallback(x) ==
    /\ stopped = "no" /\ isFirst(x, toRun)
    /\ toRun' = toRun \ {x}
    /\ UNCHANGED <<clock, armed, timestamp, queueVars, m_cancelingTimers,
                   m_callingExpiredTimers, expired, clientVars, stopped>>

\* Mutant: asks whether the timer repeats and nothing else.
restartsAlways(x) == getRepeat(x[2])

restarts(x) == getRepeat(x[2]) /\ idOf(x[2]) \notin m_cancelingTimers

again == {x[2] : x \in {y \in expired : restarts(y)}}
next(a) == timestamp + heap[a].interval

resetAsserts == \A a \in again : idOf(a) \notin m_timerIdList /\ <<next(a), a>> \notin m_timerList

rearm(list) ==
    armed' = IF \E x \in list : isFirst(x, list) /\ x[1] > 0
             THEN resetTimerfd((CHOOSE x \in list : isFirst(x, list))[1]) ELSE armed

\* The end of handleRead: reset().
EndHandleRead ==
    /\ stopped = "no" /\ m_callingExpiredTimers /\ toRun = {}
    /\ IF resetAsserts
       THEN /\ heap' = [a \in Addrs |->
                    IF a \in again THEN [heap[a] EXCEPT !.expiration = next(a)]
                    ELSE IF \E x \in expired : x[2] = a THEN none ELSE heap[a]]
            /\ m_timerIdList' = m_timerIdList \cup {idOf(a) : a \in again}
            /\ m_timerList' = m_timerList \cup {<<next(a), a>> : a \in again}
            /\ rearm(m_timerList')
            /\ m_callingExpiredTimers' = FALSE
            /\ timestamp' = 0 /\ expired' = {}
            /\ UNCHANGED <<clock, toRun, m_cancelingTimers, clientVars, stopped>>
       ELSE stop("assert")

-----------------------------------------------------------------------------

\* ~TimerQueue deletes what is in the list, not what is still posted.
Destroy ==
    /\ stopped = "no" /\ timestamp = 0
    /\ stopped' = "destroyed"
    /\ heap' = [a \in Addrs |-> IF \E x \in m_timerList : x[2] = a THEN none ELSE heap[a]]
    /\ m_timerList' = {} /\ m_timerIdList' = {} /\ armed' = 0
    /\ UNCHANGED <<clock, timestamp, batchVars, clientVars>>

Tick ==
    /\ stopped = "no" /\ clock < MaxTime
    /\ clock' = clock + 1
    /\ UNCHANGED <<armed, timestamp, queueVars, batchVars, clientVars, stopped>>

Next ==
    \/ \E a \in Addrs, r \in requests : AddTimer(a, r) \/ AddTimerMt(a, r)
    \/ \E id \in pending : RunTask(id)
    \/ \E id \in given : CancelInLoop(id)
    \/ PollReturns \/ BeginHandleRead \/ EndHandleRead \/ Destroy \/ Tick
    \/ \E x \in toRun : RunCallback(x)

Spec == Init /\ [][Next]_vars

-----------------------------------------------------------------------------
(* Properties.                                                             *)

Timers == [seq : Nat, expiration : Nat, interval : Nat]
Ids == Addrs \X Nat

TypeOK ==
    /\ clock \in Nat /\ armed \in Nat /\ timestamp \in Nat /\ s_numCreated \in Nat
    /\ heap \in [Addrs -> Timers]
    /\ m_timerList \subseteq Nat \X Addrs /\ expired \subseteq Nat \X Addrs
    /\ toRun \subseteq expired
    /\ m_timerIdList \subseteq Ids /\ m_cancelingTimers \subseteq Ids
    /\ given \subseteq Ids /\ cancelled \subseteq given
    /\ m_callingExpiredTimers \in BOOLEAN /\ aliased \in BOOLEAN
    /\ pending \subseteq Ids
    /\ stopped \in {"no", "expiresNow", "junkTimer", "assert", "destroyed"}

\* The two lists name the same Timers and every pointer in them leads to a live
\* Timer.  Until a task has found another Timer than its own, a Timer is in one
\* place: the lists, the batch or a posted task.
LiveAt(x) == heap[x[2]].seq # 0 /\ heap[x[2]].expiration = x[1]

InOnePlace ==
    \A id \in pending :
        /\ id = idOf(id[1]) /\ id[2] # 0
        /\ \A x \in m_timerList \cup expired : x[2] # id[1]

ListsAgree ==
    /\ \A x \in m_timerList \cup expired : LiveAt(x)
    /\ m_timerIdList = {idOf(x[2]) : x \in m_timerList}
    /\ m_timerList \cap expired = {}
    /\ ~aliased => InOnePlace

\* Types and the agreement of the two lists; and with them no assert of the
\* queue fails but the one about a timer that expires at the very time poll()
\* returned (getExpired asserts that there is none), and, once a task has found
\* another Timer than its own, those of insert().
Consistent == TypeOK /\ ListsAgree /\ (stopped = "assert" => aliased)

\* Outside handleRead, and unless poll() has reported it already, the timerfd is
\* armed for the earliest timer, or as soon as the code allows if that is
\* overdue: adding, cancelling and restarting never leave a timer unwatched.
EarliestIsArmed ==
    (stopped = "no" /\ timestamp = 0) =>
        \A x \in m_timerList :
            armed # 0 /\ (armed <= x[1] \/ armed <= clock + 1)

\* A timer that was cancelled while it was in the queue or in the batch being
\* called is gone once the batch is over: cancelInLoop frees it, or leaves it to
\* reset(), which does not restart it even if it repeats and cancelled itself.
CancelledIsGone ==
    \A a \in Addrs : idOf(a) \in cancelled =>
        m_callingExpiredTimers /\ idOf(a) \in m_cancelingTimers
            /\ \E x \in expired : x[2] = a
=============================================================================
