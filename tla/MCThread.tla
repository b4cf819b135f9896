-------------------------------- MODULE MCThread --------------------------------
(* Thread for model checking: two adders and a mover over a queue of one item,  *)
(* and a taker of what was moved.                                               *)
EXTENDS Thread

CONSTANTS a1, a2, m1, t1
MCShare == [t \in {a1, a2, m1, t1} |-> IF t = a2 THEN 1 ELSE 2]

\* A process that has ended does nothing more.
Runs == aborted = "no"
=============================================================================
