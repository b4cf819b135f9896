----------------------------- MODULE MCEpollPoller -----------------------------
(* EpollPoller for model checking: three descriptors, a buffer of one event *)
(* that doubles up to four.                                                 *)
EXTENDS EpollPoller

MCFds    == {3, 4, 5}
AnyHabit == {"silentFirst", "resume", "redundant"}
=============================================================================
