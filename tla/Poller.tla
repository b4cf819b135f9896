-------------------------------- MODULE Poller --------------------------------
(***************************************************************************)
(* What ynet::Poller promises the loop: it remembers which channels have   *)
(* been updated and not removed, and poll() reports some of those that     *)
(* asked for an event.  A channel that is silenced although it was silent  *)
(* already may be reported too, for a hangup: a client that does this must *)
(* expect it.  PollPoller and EpollPoller implement it.  A channel is      *)
(* named by its descriptor: there is one Channel per fd at a time.         *)
(***************************************************************************)
CONSTANT Fds

VARIABLES
    m_channelMap,       \* the descriptors in the map of known channels
    m_events,           \* per descriptor: what its Channel asks for
    watched,            \* the silent channels that may be reported for a hangup
    activeChannels      \* what the last poll() reported

vars == <<m_channelMap, m_events, watched, activeChannels>>

\* The m_events of a Channel after one of its five public operations, each of
\* which ends in update().
channelOps(e) == {e \cup {"read"}, e \cup {"write"}, e \ {"read"}, e \ {"write"}, {}}

Init ==
    /\ m_channelMap = {}
    /\ m_events = [c \in Fds |-> {}]
    /\ watched = {} /\ activeChannels = {}

\* What may be watched for nothing: a silent channel, silenced once more.
watchedAfter(c, e) ==
    IF m_events[c] = {} /\ e = {} THEN {watched \cup {c}, watched \ {c}} ELSE {watched \ {c}}

Update(c) ==
    /\ \E e \in channelOps(m_events[c]) :
          /\ m_events' = [m_events EXCEPT ![c] = e]
          /\ watched' \in watchedAfter(c, e)
    /\ m_channelMap' = m_channelMap \cup {c}
    /\ UNCHANGED activeChannels

Remove(c) ==
    /\ c \in m_channelMap /\ m_events[c] = {}
    /\ m_channelMap' = m_channelMap \ {c}
    /\ watched' = watched \ {c}
    /\ UNCHANGED <<m_events, activeChannels>>

Poll ==
    /\ activeChannels' \in SUBSET {c \in m_channelMap : m_events[c] # {} \/ c \in watched}
    /\ UNCHANGED <<m_channelMap, m_events, watched>>

Next == Poll \/ \E c \in Fds : Update(c) \/ Remove(c)

Spec == Init /\ [][Next]_vars
=============================================================================
