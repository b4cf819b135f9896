------------------------------- MODULE Connection -------------------------------
(***************************************************************************)
(* The life of one connection as its holder and its loop agree on it: what *)
(* a TcpServer relies on when it hands a connection to a loop and later    *)
(* lets go of it, and what TcpConnection makes of the calls this leads to. *)
(* The two run on different threads; the holder may find it closed already.*)
(***************************************************************************)
VARIABLES
    state,          \* "made", "up", "closed", "dead" or "dropped"
    held            \* the holder has the connection

vars == <<state, held>>

Init == state = "made" /\ held = TRUE

Step(from, to) == state \in from /\ state' = to
MayLetGo == held' => held

\* connectionEstablished, once.
Establish == Step({"made"}, "up") /\ UNCHANGED held

\* handleClose, once; the holder hears of it at once or when its loop comes to it.
Close == Step({"up"}, "closed") /\ MayLetGo

\* The holder takes the connection out of its map and has it destroyed.
LetGo == held /\ ~held' /\ state # "made" /\ UNCHANGED state

\* connectionDestroyed, once, and only of what was established and let go.
Destroy == Step({"up", "closed"}, "dead") /\ ~held'

\* The loop ends before it came to that; what had not closed by then would not
\* survive its destructor's assert.
LoopEnds == Step({"closed"}, "dropped") /\ ~held /\ ~held'

Next == Establish \/ Close \/ LetGo \/ Destroy \/ LoopEnds

Spec == Init /\ [][Next]_vars
=============================================================================
