----------------------------- MODULE MCThreadPool -----------------------------
(* ThreadPool for model checking: two workers, three callers of run() and a  *)
(* task that calls run() itself.                                             *)
EXTENDS ThreadPool

CONSTANTS w1, w2, p1, p2, p3, a1, a2, a3, a4

MCWorkers   == {w1, w2}
MCProducers == {p1, p2, p3}
MCTasks     == {a1, a2, a3, a4}
MCSpawning  == {a1}
=============================================================================
