---------------------------- MODULE EPollPoller ----------------------------
(***************************************************************************)
(* The EPollPoller of one loop with the Channels that use it and the set of *)
(* descriptors that the kernel's epoll instance watches.                    *)
(*                                                                         *)
(* Channels are made and destroyed, descriptors are used again, and in      *)
(* between the functions of Channel are called in any order, all on the     *)
(* loop's thread.  What the handlers do with an event is in TcpConnection.  *)
(***************************************************************************)
EXTENDS Naturals, FiniteSets

CONSTANTS
  Channels,             \* Channel objects
  Fds,                  \* descriptors
  None,                 \* no channel, or no descriptor
  kInitEventListSize    \* 16 in the code

ASSUME PollerAssumption ==
  /\ None \notin Channels \cup Fds
  /\ IsFiniteSet(Fds)
  /\ kInitEventListSize \in Nat \ {0}

VARIABLES
  fd,             \* fd_ of each channel, None before and after its life
  events,         \* events_ of each channel, a subset of {"IN", "OUT"}
  index,          \* index_ of each channel
  channels,       \* channels_: the channel under each descriptor
  interest,       \* what the epoll instance watches for at each descriptor
  ptr,            \* data.ptr there; None when it does not watch it
  ctlError,       \* the worst failure of epoll_ctl up to now
  condition,      \* what has happened on each descriptor
  size,           \* events_.size() of the poller
  place,          \* the loop waits in poll, or handles what poll gave it
  activeChannels  \* activeChannels_ that are not handled yet

channelVars == <<fd, events, index>>
epollVars == <<interest, ptr, ctlError>>
loopVars == <<place, activeChannels>>
vars == <<channelVars, channels, epollVars, condition, size, loopVars>>

Conditions == {"IN", "OUT", "HUP"}

TypeOK ==
  /\ fd \in [Channels -> Fds \cup {None}]
  /\ events \in [Channels -> SUBSET {"IN", "OUT"}]
  /\ index \in [Channels -> {"kNew", "kAdded", "kDeleted"}]
  /\ channels \in [Fds -> Channels \cup {None}]
  /\ interest \in [Fds -> SUBSET {"IN", "OUT"}]
  /\ ptr \in [Fds -> Channels \cup {None}]
  /\ ctlError \in {"none", "error", "fatal"}
  /\ condition \in [Fds -> SUBSET Conditions]
  /\ size \in Nat \ {0}
  /\ place \in {"poll", "handle"}
  /\ activeChannels \in SUBSET {ch \in Channels : fd[ch] # None}

Init ==
  /\ fd = [ch \in Channels |-> None]
  /\ events = [ch \in Channels |-> {}]
  /\ index = [ch \in Channels |-> "kNew"]
  /\ channels = [f \in Fds |-> None]
  /\ interest = [f \in Fds |-> {}]
  /\ ptr = [f \in Fds |-> None]
  /\ ctlError = "none"
  /\ condition = [f \in Fds |-> {}]
  /\ size = kInitEventListSize
  /\ place = "handle"
  /\ activeChannels = {}

-----------------------------------------------------------------------------
(* The poller                                                              *)

\* EPollPoller::update: epoll_ctl fails with EEXIST or ENOENT.  A failure to
\* add or modify ends the process.
Update(operation, ch, wanted) ==
  LET f == fd[ch] IN
  IF (ptr[f] = None) = (operation = "ADD")
    THEN /\ interest' = [interest EXCEPT
                           ![f] = IF operation = "DEL" THEN {} ELSE wanted]
         /\ ptr' = [ptr EXCEPT ![f] = IF operation = "DEL" THEN None ELSE ch]
         /\ UNCHANGED ctlError
    ELSE /\ ctlError' = IF operation = "DEL" /\ ctlError # "fatal"
                          THEN "error" ELSE "fatal"
         /\ UNCHANGED <<interest, ptr>>

\* updateChannel that goes by events_ instead of index_.
UpdateChannel_NotAdded(ch, wanted) ==
  /\ channels' = [channels EXCEPT ![fd[ch]] = ch]
  /\ index' = [index EXCEPT ![ch] = "kAdded"]
  /\ Update(IF events[ch] = {} THEN "ADD" ELSE "MOD", ch, wanted)

\* EPollPoller::updateChannel of a channel whose events_ became wanted.
UpdateChannel(ch, wanted) ==
  \/ /\ index[ch] = "kNew"
     /\ channels' = [channels EXCEPT ![fd[ch]] = ch]
     /\ index' = [index EXCEPT ![ch] = "kAdded"]
     /\ Update("ADD", ch, wanted)
  \/ /\ index[ch] = "kDeleted"
     /\ index' = [index EXCEPT ![ch] = "kAdded"]
     /\ Update("ADD", ch, wanted)
     /\ UNCHANGED channels
  \/ /\ index[ch] = "kAdded"
     /\ wanted = {}
     /\ index' = [index EXCEPT ![ch] = "kDeleted"]
     /\ Update("DEL", ch, wanted)
     /\ UNCHANGED channels
  \/ /\ index[ch] = "kAdded"
     /\ wanted # {}
     /\ Update("MOD", ch, wanted)
     /\ UNCHANGED <<index, channels>>

\* removeChannel that leaves the epoll instance to close().
RemoveChannel_NoCtl(ch) ==
  /\ channels' = [channels EXCEPT ![fd[ch]] = None]
  /\ index' = [index EXCEPT ![ch] = "kNew"]
  /\ UNCHANGED epollVars

\* EPollPoller::removeChannel.
RemoveChannel(ch) ==
  /\ channels' = [channels EXCEPT ![fd[ch]] = None]
  /\ index' = [index EXCEPT ![ch] = "kNew"]
  /\ IF index[ch] = "kAdded"
       THEN Update("DEL", ch, {})
       ELSE UNCHANGED epollVars

\* What epoll_wait reports of a descriptor: EPOLLHUP is not asked for.
Reported(f) ==
  IF ptr[f] = None THEN {} ELSE condition[f] \cap (interest[f] \cup {"HUP"})

Ready == {f \in Fds : Reported(f) # {}}

\* events_ of the poller after numEvents were returned in it.
Resize_Never(numEvents) == size' = size

Resize_Always(numEvents) == size' = 2 * size

Resize(numEvents) == size' = IF numEvents = size THEN 2 * size ELSE size

\* EPollPoller::poll.  epoll_wait returns what fits in events_, in an order
\* nothing is assumed of, and nothing after a timeout or a signal.
Poll ==
  /\ place = "poll"
  /\ place' = "handle"
  /\ IF Ready = {}
       THEN activeChannels' = {} /\ UNCHANGED size
       ELSE \E got \in SUBSET Ready :
              /\ got # {}
              /\ \/ got = Ready /\ Cardinality(got) <= size
                 \/ Cardinality(Ready) > size /\ Cardinality(got) = size
              /\ activeChannels' = {ptr[f] : f \in got}
              /\ Resize(Cardinality(got))
  /\ UNCHANGED <<channelVars, channels, epollVars, condition>>

-----------------------------------------------------------------------------
(* The loop and the owners of the channels                                 *)

\* The loop calls handleEvent of a channel; the calls that makes come next.
HandleEvent(ch) ==
  /\ place = "handle"
  /\ ch \in activeChannels
  /\ activeChannels' = activeChannels \ {ch}
  /\ UNCHANGED <<channelVars, channels, epollVars, condition, size, place>>

EndRound ==
  /\ place = "handle"
  /\ activeChannels = {}
  /\ place' = "poll"
  /\ UNCHANGED <<channelVars, channels, epollVars, condition, size, activeChannels>>

\* A descriptor is opened and a channel made for it.
NewChannel(ch, f) ==
  /\ place = "handle"
  /\ fd[ch] = None
  /\ \A c \in Channels : fd[c] # f
  /\ fd' = [fd EXCEPT ![ch] = f]
  /\ UNCHANGED <<events, index, channels, epollVars, condition, size, loopVars>>

\* enableReading, enableWriting, disableReading, disableWriting, disableAll.
SetEvents(ch) ==
  /\ place = "handle"
  /\ fd[ch] # None
  /\ \E wanted \in {events[ch] \cup {"IN"}, events[ch] \cup {"OUT"},
                    events[ch] \ {"IN"}, events[ch] \ {"OUT"}, {}} :
       /\ events' = [events EXCEPT ![ch] = wanted]
       /\ UpdateChannel(ch, wanted)
  /\ UNCHANGED <<fd, condition, size, loopVars>>

\* Channel::remove.
Remove(ch) ==
  /\ place = "handle"
  /\ fd[ch] # None
  /\ RemoveChannel(ch)
  /\ UNCHANGED <<fd, events, condition, size, loopVars>>

\* A channel destroyed from the handler of another one.
Destroy_OnTheSpot(ch) ==
  /\ place = "handle"
  /\ fd[ch] # None
  /\ index[ch] = "kNew"
  /\ fd' = [fd EXCEPT ![ch] = None]
  /\ events' = [events EXCEPT ![ch] = {}]
  /\ interest' = [interest EXCEPT ![fd[ch]] = {}]
  /\ ptr' = [ptr EXCEPT ![fd[ch]] = None]
  /\ condition' = [condition EXCEPT ![fd[ch]] = {}]
  /\ UNCHANGED <<index, channels, ctlError, size, loopVars>>

\* The owner of a channel that it has removed is destroyed, by a callback
\* that runs after the active channels, and closes the descriptor, which the
\* epoll instance then forgets.
Destroy(ch) ==
  /\ place = "handle"
  /\ activeChannels = {}
  /\ fd[ch] # None
  /\ index[ch] = "kNew"
  /\ fd' = [fd EXCEPT ![ch] = None]
  /\ events' = [events EXCEPT ![ch] = {}]
  /\ interest' = [interest EXCEPT ![fd[ch]] = {}]
  /\ ptr' = [ptr EXCEPT ![fd[ch]] = None]
  /\ condition' = [condition EXCEPT ![fd[ch]] = {}]
  /\ UNCHANGED <<index, channels, ctlError, size, loopVars>>

\* Something happens on a descriptor, or is consumed.
Happen(f) ==
  /\ \E ch \in Channels : fd[ch] = f
  /\ \E c \in SUBSET Conditions : condition' = [condition EXCEPT ![f] = c]
  /\ UNCHANGED <<channelVars, channels, epollVars, size, loopVars>>

LoopStep == Poll \/ EndRound \/ \E ch \in Channels : HandleEvent(ch)

Next ==
  \/ LoopStep
  \/ \E ch \in Channels : \/ SetEvents(ch) \/ Remove(ch) \/ Destroy(ch)
                          \/ \E f \in Fds : NewChannel(ch, f)
  \/ \E f \in Fds : Happen(f)

\* The loop goes on whatever its handlers call.
Spec == Init /\ [][Next]_vars /\ WF_vars(LoopStep)

-----------------------------------------------------------------------------
(* Properties                                                              *)

\* Poller::hasChannel.
HasChannel(ch) == fd[ch] # None /\ channels[fd[ch]] = ch

\* Whatever the order of the calls on channels, and although descriptors are
\* used again, the epoll instance watches a descriptor exactly while index_
\* says so, for what its channel's events_ ask for, and reports it to that
\* channel; and channels_ knows the channel from its first call to its
\* removal.
EpollAgrees ==
  \A ch \in Channels :
    /\ index[ch] # "kNew" <=> HasChannel(ch)
    /\ \A f \in Fds :
         /\ ptr[f] = ch <=> fd[ch] = f /\ index[ch] = "kAdded"
         /\ ptr[f] = ch => interest[f] = events[ch]

\* No call of epoll_ctl fails: a failed EPOLL_CTL_ADD or MOD is logged as
\* fatal and ends the process.
EpollCtlSucceeds == ctlError = "none"

\* events_ grows until all that is ready fits, so that no descriptor that
\* stays ready is left out of poll's result for ever, even if the kernel
\* prefers others.
NoStarvation ==
  \A f \in Fds : []<>(f \notin Ready \/ ptr[f] \in activeChannels)

\* events_ is never more than doubled beyond the number of descriptors.
SizeBounded ==
  size <= kInitEventListSize \/ size <= 2 * Cardinality(Fds)
=============================================================================
