------------------------------ MODULE EpollPoller ------------------------------
(***************************************************************************)
(* ynet::EpollPoller: what it believes of each channel (m_index: new,      *)
(* added or deleted), what the kernel's interest list holds, and the event *)
(* buffer that doubles when a poll fills it.  A failed assert, and a       *)
(* failed EPOLL_CTL_ADD or _MOD, end the process.                          *)
(***************************************************************************)
EXTENDS Channel, Naturals, FiniteSets

CONSTANT InitEventListSize      \* s_InitEventListSize

ASSUME EpollPollerAssumption ==
    /\ IsFiniteSet(Fds)
    /\ InitEventListSize \in Nat \ {0}

VARIABLES
    epollSet,       \* external: the descriptors in the kernel's interest list
    epollEvents,    \* external: the events the kernel watches each of them for
    m_EpollEventList    \* the size of the event buffer

\* EpollPoller does what Poller promises.  A silent channel it believes added is
\* one that was silenced twice.
E == INSTANCE Poller WITH
        watched <- {c \in m_channelMap : m_index[c] = "Added" /\ m_events[c] = {}}
EpollImplementsPoller == E!Spec

kernelVars  == <<epollSet, epollEvents>>
epollVars == <<alive, channelVars, kernelVars, m_EpollEventList, activeChannels>>

EpollInit ==
    /\ NoChannels
    /\ m_index = [c \in Fds |-> "New"]
    /\ epollSet = {}
    /\ epollEvents = [c \in Fds |-> {}]
    /\ m_EpollEventList = InitEventListSize

-----------------------------------------------------------------------------
(* Helpers.                                                                *)

\* epoll_ctl: adding a member and modifying a stranger fail and are fatal;
\* deleting a stranger is only logged.
epollCtl(op, c, e) ==
    /\ alive' = (op = "DEL" \/ (op = "MOD" <=> c \in epollSet))
    /\ IF ~alive' THEN UNCHANGED kernelVars
       ELSE /\ epollSet' = IF op = "DEL" THEN epollSet \ {c} ELSE epollSet \cup {c}
            /\ epollEvents' = [epollEvents EXCEPT ![c] = IF op = "DEL" THEN {} ELSE e]

-----------------------------------------------------------------------------
(* updateChannel.                                                          *)

\* A new or a deleted channel is added, whatever it asks for.
AddChannel(c, e) ==
    /\ m_index[c] \in {"New", "Deleted"}
    /\ (m_index[c] = "New") = (c \notin m_channelMap)
    /\ m_index' = [m_index EXCEPT ![c] = "Added"]
    /\ m_channelMap' = m_channelMap \cup {c}
    /\ epollCtl("ADD", c, e)

\* Mutant: a channel that goes silent is deleted from the kernel and keeps its
\* index.
ModifyChannelStaysAdded(c, e) ==
    /\ m_index[c] = "Added" /\ c \in m_channelMap
    /\ IF e = {}
       THEN epollCtl("DEL", c, e) /\ UNCHANGED m_index
       ELSE epollCtl("MOD", c, e) /\ UNCHANGED m_index
    /\ UNCHANGED m_channelMap

\* Mutant: a channel that goes silent is modified, never deleted.
ModifyChannelNeverDeletes(c, e) ==
    /\ m_index[c] = "Added" /\ c \in m_channelMap
    /\ epollCtl("MOD", c, e)
    /\ UNCHANGED <<m_index, m_channelMap>>

\* A channel that goes silent leaves the kernel's list but stays in the map.
ModifyChannel(c, e) ==
    /\ m_index[c] = "Added" /\ c \in m_channelMap
    /\ IF e = {}
       THEN epollCtl("DEL", c, e) /\ m_index' = [m_index EXCEPT ![c] = "Deleted"]
       ELSE epollCtl("MOD", c, e) /\ UNCHANGED m_index
    /\ UNCHANGED m_channelMap

epollUpdateAsserts(c) == (m_index[c] = "New") = (c \notin m_channelMap)

UpdateAborts(c) ==
    /\ ~epollUpdateAsserts(c)
    /\ alive' = FALSE
    /\ UNCHANGED <<m_index, m_channelMap, kernelVars>>

EpollUpdate(c) ==
    /\ alive
    /\ \E e \in E!channelOps(m_events[c]) :
        /\ allowed(c, e)
        /\ m_events' = [m_events EXCEPT ![c] = e]
        /\ AddChannel(c, e) \/ ModifyChannel(c, e) \/ UpdateAborts(c)
    /\ UNCHANGED <<m_EpollEventList, activeChannels>>

-----------------------------------------------------------------------------
(* Channel::remove and removeChannel.                                      *)

EpollRemove(c) ==
    /\ alive /\ c \in m_channelMap /\ m_events[c] = {}
    /\ m_channelMap' = m_channelMap \ {c}
    /\ IF m_index[c] = "Added"
       THEN epollCtl("DEL", c, {})
       ELSE alive' = (m_index[c] = "Deleted") /\ UNCHANGED kernelVars
    /\ m_index' = [m_index EXCEPT ![c] = "New"]
    /\ UNCHANGED <<m_events, m_EpollEventList, activeChannels>>

-----------------------------------------------------------------------------
(* poll and fillActiveChannels.                                            *)

\* The kernel reports hangups and errors of a member even when it is watched
\* for nothing.
EpollPoll ==
    /\ alive
    /\ activeChannels' \in SUBSET epollSet
    /\ Cardinality(activeChannels') <= m_EpollEventList
    /\ m_EpollEventList' = IF Cardinality(activeChannels') = m_EpollEventList
                           THEN 2 * m_EpollEventList ELSE m_EpollEventList
    /\ UNCHANGED <<alive, channelVars, kernelVars>>

EpollNext == EpollPoll \/ \E c \in Fds : EpollUpdate(c) \/ EpollRemove(c)

EpollSpec == EpollInit /\ [][EpollNext]_epollVars

-----------------------------------------------------------------------------
(* Properties.                                                             *)

EpollTypeOK ==
    /\ alive \in BOOLEAN
    /\ m_channelMap \in SUBSET Fds
    /\ m_events \in [Fds -> SUBSET Event]
    /\ m_index \in [Fds -> {"New", "Added", "Deleted"}]
    /\ epollSet \in SUBSET Fds
    /\ epollEvents \in [Fds -> SUBSET Event]
    /\ m_EpollEventList \in Nat \ {0}
    /\ activeChannels \in SUBSET Fds

\* updateChannel/removeChannel/update: the kernel watches exactly the channels
\* the poller believes it added, each for exactly what its Channel asks for;
\* the map holds exactly the channels that are not new; and one that was
\* deleted asks for nothing.
KernelMatches ==
    /\ epollSet = {c \in Fds : m_index[c] = "Added"}
    /\ \A c \in epollSet : epollEvents[c] = m_events[c]
    /\ m_channelMap = {c \in Fds : m_index[c] # "New"}
    /\ \A c \in Fds : m_index[c] # "Added" => m_events[c] = {}

\* The asserts of updateChannel and removeChannel hold and no epoll_ctl is
\* fatal, whatever sequence of legal calls the clients make.
NeverAborts == alive
=============================================================================
