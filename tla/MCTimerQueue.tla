----------------------------- MODULE MCTimerQueue -----------------------------
(* TimerQueue for model checking: two addresses, three timers, four instants.
   DeadLocal lets the timerfd fire, so that handleRead is checked as well;
   AsWritten is the code. *)
EXTENDS TimerQueue

MCAddrs == {1, 2}
DeadLocal == {"timerRef"}
AsWritten == {"timerRef", "settime"}
=============================================================================
