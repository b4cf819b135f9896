------------------------------- MODULE Channel -------------------------------
(***************************************************************************)
(* What PollPoller and EpollPoller share: the channels, with the events    *)
(* they ask for and the index their poller keeps in them, the map of       *)
(* Poller, and what clients do.  A channel is named by its descriptor; the *)
(* next Channel on it begins like the first.                               *)
(***************************************************************************)

CONSTANTS
    Fds,            \* descriptors of the channels
    Clients         \* what clients do beyond enable, disable one event, remove:
                    \*   "silentFirst"  a first operation that asks for nothing
                    \*   "redundant"    disabling what is already silent
                    \*   "resume"       asking again after having gone silent

ASSUME ClientsAssumption == Clients \subseteq {"silentFirst", "redundant", "resume"}

VARIABLES
    alive,          \* FALSE once an assert failed, a null Channel was used or
                    \* LOG_SYSFATAL was reached
    m_channelMap,   \* the descriptors in the map
    m_events,       \* Channel::m_events
    m_index,        \* Channel::m_index
    activeChannels

channelVars == <<m_channelMap, m_events, m_index>>

Event == {"read", "write"}

NoChannels ==
    /\ alive = TRUE
    /\ m_channelMap = {}
    /\ m_events = [c \in Fds |-> {}]
    /\ activeChannels = {}

\* Which calls the clients make (see Clients).
allowed(c, e) ==
    /\ c \notin m_channelMap /\ e = {} => "silentFirst" \in Clients
    /\ c \in m_channelMap /\ m_events[c] = {} /\ e = {} => "redundant" \in Clients
    /\ c \in m_channelMap /\ m_events[c] = {} /\ e # {} => "resume" \in Clients
=============================================================================
