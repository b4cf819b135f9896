-------------------------- MODULE MCEventLoopThread --------------------------
(* EventLoopThread for model checking: the owner, one more client thread.   *)
EXTENDS EventLoopThread

CONSTANTS t1, a1, a2, a3

MCOthers == {Owner, t1}
MCTasks  == {a1, a2, a3}
OneTask  == {a1}
NoFaults == {}
=============================================================================
