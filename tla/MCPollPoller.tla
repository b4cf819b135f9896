----------------------------- MODULE MCPollPoller -----------------------------
(* PollPoller for model checking: three descriptors.                        *)
EXTENDS PollPoller

MCFds    == {3, 4, 5}
AnyHabit == {"silentFirst", "resume", "redundant"}
=============================================================================
