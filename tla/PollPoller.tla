------------------------------ MODULE PollPoller ------------------------------
(***************************************************************************)
(* ynet::PollPoller: the array handed to poll(2) and the place each        *)
(* channel has in it.  A slot that must not be polled holds a negative fd. *)
(* Its asserts are compiled in: a failed one ends the process.             *)
(***************************************************************************)
EXTENDS Channel, Integers, Sequences

ASSUME PollPollerAssumption == Fds \subseteq Nat \ {0}      \* 0 is standard input

VARIABLE m_pollFdList       \* the array of [fd, events]

\* PollPoller does what Poller promises, until an assert stops it, and never
\* watches a silent channel.
P == INSTANCE Poller WITH watched <- {}
ImplementsPoller == P!Spec

vars == <<alive, channelVars, m_pollFdList, activeChannels>>

Init ==
    /\ NoChannels
    /\ m_index = [c \in Fds |-> -1]
    /\ m_pollFdList = <<>>

-----------------------------------------------------------------------------
(* Helpers.                                                                *)

slot(c) == m_pollFdList[m_index[c] + 1]

ignored(fd) == -fd - 1

\* removeChannel recovers the descriptor of the slot it moves.
ownerOf(fd) == IF fd < 0 THEN -fd - 1 ELSE fd

abort == alive' = FALSE /\ UNCHANGED <<channelVars, m_pollFdList, activeChannels>>

-----------------------------------------------------------------------------
(* updateChannel.                                                          *)

AddSlot(c, e) ==
    /\ m_index[c] < 0 /\ c \notin m_channelMap
    /\ m_pollFdList' = Append(m_pollFdList, [fd |-> IF e = {} THEN -1 ELSE c, events |-> e])
    /\ m_index' = [m_index EXCEPT ![c] = Len(m_pollFdList)]
    /\ m_channelMap' = m_channelMap \cup {c}
    /\ m_events' = [m_events EXCEPT ![c] = e]
    /\ UNCHANGED <<alive, activeChannels>>

\* Mutant: a silent channel keeps its descriptor in the array.
ModifySlotKeepsFd(c, e) ==
    /\ m_index[c] >= 0 /\ c \in m_channelMap
    /\ m_index[c] < Len(m_pollFdList) /\ slot(c).fd \in {c, -1}
    /\ m_pollFdList' = [m_pollFdList EXCEPT ![m_index[c] + 1].events = e]
    /\ m_events' = [m_events EXCEPT ![c] = e]
    /\ UNCHANGED <<alive, m_channelMap, m_index, activeChannels>>

\* A channel with a slot: only going silent writes the slot's fd.
ModifySlot(c, e) ==
    /\ m_index[c] >= 0 /\ c \in m_channelMap
    /\ m_index[c] < Len(m_pollFdList) /\ slot(c).fd \in {c, -1}
    /\ m_pollFdList' = [m_pollFdList EXCEPT ![m_index[c] + 1] =
            [fd |-> IF e = {} THEN ignored(c) ELSE @.fd, events |-> e]]
    /\ m_events' = [m_events EXCEPT ![c] = e]
    /\ UNCHANGED <<alive, m_channelMap, m_index, activeChannels>>

\* One of the asserts of updateChannel fails.
updateAsserts(c) ==
    IF m_index[c] < 0 THEN c \notin m_channelMap
    ELSE /\ c \in m_channelMap
         /\ m_index[c] < Len(m_pollFdList) /\ slot(c).fd \in {c, -1}

Update(c) ==
    /\ alive
    /\ \E e \in P!channelOps(m_events[c]) :
        /\ allowed(c, e)
        /\ AddSlot(c, e) \/ ModifySlot(c, e) \/ (~updateAsserts(c) /\ abort)

-----------------------------------------------------------------------------
(* Channel::remove and removeChannel.                                      *)

removeAsserts(c) ==
    /\ c \in m_channelMap /\ m_events[c] = {}
    /\ m_index[c] >= 0 /\ m_index[c] < Len(m_pollFdList)
    /\ slot(c).fd = ignored(c) /\ slot(c).events = m_events[c]

lastFd == m_pollFdList[Len(m_pollFdList)].fd

\* The removed Channel keeps its index.
RemoveLast(c) ==
    /\ m_index[c] = Len(m_pollFdList) - 1
    /\ m_pollFdList' = SubSeq(m_pollFdList, 1, Len(m_pollFdList) - 1)
    /\ m_channelMap' = m_channelMap \ {c}
    /\ UNCHANGED <<alive, m_events, m_index, activeChannels>>

\* Mutant: the slot moves and its channel is not told.
RemoveBySwapSilent(c) ==
    /\ m_index[c] # Len(m_pollFdList) - 1 /\ ownerOf(lastFd) \in m_channelMap \ {c}
    /\ m_pollFdList' = SubSeq([m_pollFdList EXCEPT ![m_index[c] + 1] =
            m_pollFdList[Len(m_pollFdList)]], 1, Len(m_pollFdList) - 1)
    /\ m_channelMap' = m_channelMap \ {c}
    /\ UNCHANGED <<alive, m_events, m_index, activeChannels>>

\* The last slot takes the place of the removed one, and its channel is told.
RemoveBySwap(c) ==
    /\ m_index[c] # Len(m_pollFdList) - 1 /\ ownerOf(lastFd) \in m_channelMap \ {c}
    /\ m_pollFdList' = SubSeq([m_pollFdList EXCEPT ![m_index[c] + 1] =
            m_pollFdList[Len(m_pollFdList)]], 1, Len(m_pollFdList) - 1)
    /\ m_index' = [m_index EXCEPT ![ownerOf(lastFd)] = m_index[c]]
    /\ m_channelMap' = m_channelMap \ {c}
    /\ UNCHANGED <<alive, m_events, activeChannels>>

\* A silent first slot holds -1, which decodes to no channel of the map: the
\* lookup yields a null Channel.
movesNoChannel(c) ==
    m_index[c] # Len(m_pollFdList) - 1 /\ ownerOf(lastFd) \notin m_channelMap \ {c}

Remove(c) ==
    /\ alive /\ c \in m_channelMap /\ m_events[c] = {}
    /\ IF ~removeAsserts(c) \/ movesNoChannel(c)
       THEN abort
       ELSE RemoveLast(c) \/ RemoveBySwap(c)

\* Channel::Channel: the next Channel on the descriptor of one that was removed.
NewChannel(c) ==
    /\ alive /\ c \notin m_channelMap
    /\ m_index' = [m_index EXCEPT ![c] = -1]
    /\ UNCHANGED <<alive, m_channelMap, m_events, m_pollFdList, activeChannels>>

-----------------------------------------------------------------------------
(* poll and fillActiveChannels: any of the slots poll(2) looks at may be    *)
(* ready, and the map turns its descriptor back into a channel.            *)

polled == {c \in m_channelMap : \E i \in DOMAIN m_pollFdList : m_pollFdList[i].fd = c}

Poll ==
    /\ alive
    /\ activeChannels' \in SUBSET polled
    /\ UNCHANGED <<alive, channelVars, m_pollFdList>>

Next == Poll \/ \E c \in Fds : Update(c) \/ Remove(c) \/ NewChannel(c)

Spec == Init /\ [][Next]_vars

-----------------------------------------------------------------------------
(* Properties.                                                             *)

TypeOK ==
    /\ alive \in BOOLEAN
    /\ m_channelMap \in SUBSET Fds
    /\ m_events \in [Fds -> SUBSET Event]
    /\ m_index \in [Fds -> Int]
    /\ m_pollFdList \in Seq([fd : Int, events : SUBSET Event])
    /\ activeChannels \in SUBSET Fds

\* updateChannel/removeChannel: every known channel has a slot of its own that
\* names it and asks for what it asks for, and there is no other slot.
SlotsInBijection ==
    /\ \A c \in m_channelMap :
        /\ m_index[c] \in 0 .. Len(m_pollFdList) - 1
        /\ slot(c).fd \in {c, ignored(c), -1}
        /\ slot(c).events = m_events[c]
    /\ \A c, d \in m_channelMap : m_index[c] = m_index[d] => c = d
    /\ \A i \in DOMAIN m_pollFdList : \E c \in m_channelMap : m_index[c] = i - 1

\* "ignore none event channel, to avoid poll": what asks for nothing is not
\* polled, and what asks for something is.
PolledIffInterested == polled = {c \in m_channelMap : m_events[c] # {}}
=============================================================================
