------------------------- MODULE EPollPollerProofs -------------------------
(***************************************************************************)
(* Proofs about EPollPoller, for any channels and any finite set of         *)
(* descriptors: the type invariant, that the epoll instance agrees with     *)
(* index_ and channels_, that epoll_ctl never fails, and how far events_    *)
(* grows.                                                                  *)
(***************************************************************************)
EXTENDS EPollPoller, TLAPS, FiniteSetTheorems

USE DEF vars, channelVars, epollVars, loopVars

-----------------------------------------------------------------------------
(* The inductive invariant                                                 *)

\* A descriptor has one channel, and a channel is in channels_ only under its
\* own descriptor; a channel that does not exist is in no table.
OwnDescriptor ==
  /\ \A c, d \in Channels : fd[c] = fd[d] /\ fd[c] # None => c = d
  /\ \A f \in Fds : channels[f] # None => fd[channels[f]] = f
  /\ \A ch \in Channels : fd[ch] = None => index[ch] = "kNew" /\ events[ch] = {}

IInv == TypeOK /\ OwnDescriptor /\ EpollAgrees /\ EpollCtlSucceeds

\* epoll_ctl succeeds as long as it is called for what index_ says.
LEMMA CtlFits ==
  ASSUME IInv, NEW ch \in Channels, fd[ch] # None
  PROVE  /\ fd[ch] \in Fds
         /\ ptr[fd[ch]] = None <=> index[ch] # "kAdded"
         /\ channels[fd[ch]] = ch <=> index[ch] # "kNew"
<1>1. fd[ch] \in Fds /\ ptr[fd[ch]] \in Channels \cup {None}
  BY DEF IInv, TypeOK
<1>2. ch # None
  BY PollerAssumption
<1> QED
  BY <1>1, <1>2 DEF IInv, OwnDescriptor, EpollAgrees, HasChannel

LEMMA Initially == Init => IInv
<1> SUFFICES ASSUME Init PROVE IInv
  OBVIOUS
<1>1. TypeOK
  BY PollerAssumption DEF Init, TypeOK
<1>2. OwnDescriptor
  BY DEF Init, OwnDescriptor
<1>3. EpollAgrees
  BY PollerAssumption DEF Init, EpollAgrees, HasChannel
<1> QED
  BY <1>1, <1>2, <1>3 DEF Init, IInv, EpollCtlSucceeds

-----------------------------------------------------------------------------
(* The calls of Channel                                                    *)

LEMMA SetEventsPreserves ==
  ASSUME IInv, NEW ch \in Channels, SetEvents(ch)
  PROVE  IInv'
<1> USE PollerAssumption
<1> DEFINE f == fd[ch]
<1>1. PICK wanted \in SUBSET {"IN", "OUT"} :
        /\ events' = [events EXCEPT ![ch] = wanted]
        /\ UpdateChannel(ch, wanted)
  <2>1. events[ch] \in SUBSET {"IN", "OUT"}
    BY DEF IInv, TypeOK
  <2> QED
    BY <2>1 DEF SetEvents
<1>2. fd[ch] # None /\ UNCHANGED <<fd, condition, size, loopVars>>
  BY DEF SetEvents
<1>3. /\ f \in Fds
      /\ ptr[f] = None <=> index[ch] # "kAdded"
      /\ channels[f] = ch <=> index[ch] # "kNew"
  BY <1>2, CtlFits
<1>4. TypeOK
  BY DEF IInv
<1>5. ctlError = "none"
  BY DEF IInv, EpollCtlSucceeds
<1>6. /\ index' = [index EXCEPT ![ch] = IF index[ch] = "kAdded" /\ wanted = {}
                                        THEN "kDeleted" ELSE "kAdded"]
      /\ channels' = [channels EXCEPT ![f] = ch]
      /\ interest' = [interest EXCEPT ![f] = wanted]
      /\ ptr' = [ptr EXCEPT ![f] = IF index[ch] = "kAdded" /\ wanted = {}
                                   THEN None ELSE ch]
      /\ ctlError' = "none"
  <2>1. CASE index[ch] = "kNew"
    BY <1>1, <1>3, <1>5, <2>1 DEF UpdateChannel, Update
  <2>2. CASE index[ch] = "kDeleted"
    <3>1. channels' = channels /\ channels[f] = ch
      BY <1>1, <1>3, <2>2 DEF UpdateChannel
    <3>2. channels' = [channels EXCEPT ![f] = ch]
      BY <1>3, <1>4, <3>1 DEF TypeOK
    <3> QED
      BY <1>1, <1>3, <1>5, <2>2, <3>2 DEF UpdateChannel, Update
  <2>3. CASE index[ch] = "kAdded"
    <3>1. channels' = channels /\ channels[f] = ch
      BY <1>1, <1>3, <2>3 DEF UpdateChannel
    <3>2. channels' = [channels EXCEPT ![f] = ch]
      BY <1>3, <1>4, <3>1 DEF TypeOK
    <3>3. wanted # {} => index' = [index EXCEPT ![ch] = "kAdded"]
      BY <1>1, <1>4, <2>3 DEF UpdateChannel, TypeOK
    <3> QED
      BY <1>1, <1>3, <1>5, <2>3, <3>2, <3>3 DEF UpdateChannel, Update
  <2> QED
    BY <1>4, <2>1, <2>2, <2>3 DEF TypeOK
<1>7. TypeOK'
  BY <1>1, <1>2, <1>3, <1>4, <1>5, <1>6 DEF TypeOK
<1>8. OwnDescriptor'
  BY <1>1, <1>2, <1>3, <1>4, <1>6 DEF IInv, OwnDescriptor, TypeOK
<1>9. EpollAgrees'
  <2> SUFFICES ASSUME NEW c \in Channels
               PROVE  /\ index'[c] # "kNew" <=> HasChannel(c)'
                      /\ \A g \in Fds :
                           /\ ptr'[g] = c <=> fd'[c] = g /\ index'[c] = "kAdded"
                           /\ ptr'[g] = c => interest'[g] = events'[c]
    BY DEF EpollAgrees
  <2>1. CASE c = ch
    BY <1>1, <1>2, <1>3, <1>4, <1>6, <2>1
       DEF IInv, EpollAgrees, HasChannel, TypeOK
  <2>2. CASE c # ch
    <3>1. fd[c] # f
      BY <1>2, <2>2 DEF IInv, OwnDescriptor
    <3> QED
      BY <1>1, <1>2, <1>3, <1>4, <1>6, <2>2, <3>1
         DEF IInv, EpollAgrees, HasChannel, TypeOK
  <2> QED
    BY <2>1, <2>2
<1> QED
  BY <1>6, <1>7, <1>8, <1>9 DEF IInv, EpollCtlSucceeds

LEMMA RemovePreserves ==
  ASSUME IInv, NEW ch \in Channels, Remove(ch)
  PROVE  IInv'
<1> USE PollerAssumption
<1> DEFINE f == fd[ch]
<1>1. /\ fd[ch] # None
      /\ RemoveChannel(ch)
      /\ UNCHANGED <<fd, events, condition, size, loopVars>>
  BY DEF Remove
<1>2. /\ f \in Fds
      /\ ptr[f] = None <=> index[ch] # "kAdded"
  BY <1>1, CtlFits
<1>3. TypeOK /\ ctlError = "none"
  BY DEF IInv, EpollCtlSucceeds
<1>4. /\ index' = [index EXCEPT ![ch] = "kNew"]
      /\ channels' = [channels EXCEPT ![f] = None]
      /\ ptr' = [ptr EXCEPT ![f] = None]
      /\ \A g \in Fds \ {f} : interest'[g] = interest[g]
      /\ interest' \in [Fds -> SUBSET {"IN", "OUT"}]
      /\ ctlError' = "none"
  <2>1. CASE index[ch] = "kAdded"
    BY <1>1, <1>2, <1>3, <2>1 DEF RemoveChannel, Update, TypeOK
  <2>2. CASE index[ch] # "kAdded"
    <3>1. ptr = [ptr EXCEPT ![f] = None]
      BY <1>2, <1>3, <2>2 DEF TypeOK
    <3> QED
      BY <1>1, <1>3, <2>2, <3>1 DEF RemoveChannel, TypeOK
  <2> QED
    BY <2>1, <2>2
<1>5. TypeOK'
  BY <1>1, <1>3, <1>4 DEF TypeOK
<1>6. OwnDescriptor'
  BY <1>1, <1>2, <1>3, <1>4 DEF IInv, OwnDescriptor, TypeOK
<1>7. EpollAgrees'
  <2> SUFFICES ASSUME NEW c \in Channels
               PROVE  /\ index'[c] # "kNew" <=> HasChannel(c)'
                      /\ \A g \in Fds :
                           /\ ptr'[g] = c <=> fd'[c] = g /\ index'[c] = "kAdded"
                           /\ ptr'[g] = c => interest'[g] = events'[c]
    BY DEF EpollAgrees
  <2>1. CASE c = ch
    BY <1>1, <1>2, <1>3, <1>4, <2>1
       DEF IInv, EpollAgrees, HasChannel, TypeOK
  <2>2. CASE c # ch
    <3>1. fd[c] # f
      BY <1>1, <2>2 DEF IInv, OwnDescriptor
    <3> QED
      BY <1>1, <1>2, <1>3, <1>4, <2>2, <3>1
         DEF IInv, EpollAgrees, HasChannel, TypeOK
  <2> QED
    BY <2>1, <2>2
<1> QED
  BY <1>4, <1>5, <1>6, <1>7 DEF IInv, EpollCtlSucceeds

-----------------------------------------------------------------------------
(* The life of a channel                                                   *)

LEMMA NewChannelPreserves ==
  ASSUME IInv, NEW ch \in Channels, NEW f \in Fds, NewChannel(ch, f)
  PROVE  IInv'
<1> USE PollerAssumption
<1>1. /\ fd[ch] = None
      /\ \A c \in Channels : fd[c] # f
      /\ fd' = [fd EXCEPT ![ch] = f]
      /\ UNCHANGED <<events, index, channels, epollVars, condition, size, loopVars>>
  BY DEF NewChannel
<1>2. TypeOK
  BY DEF IInv
<1>3. index[ch] = "kNew" /\ events[ch] = {}
  BY <1>1 DEF IInv, OwnDescriptor
<1>4. channels[f] # ch
  BY <1>1, <1>2 DEF IInv, OwnDescriptor
<1>5. TypeOK'
  BY <1>1, <1>2 DEF TypeOK
<1>6. OwnDescriptor'
  <2>1. \A c, d \in Channels : fd'[c] = fd'[d] /\ fd'[c] # None => c = d
    BY <1>1, <1>2 DEF IInv, OwnDescriptor, TypeOK
  <2>2. \A g \in Fds : channels[g] # None => channels[g] # ch
    BY <1>1, <1>2 DEF IInv, OwnDescriptor, TypeOK
  <2> QED
    BY <1>1, <1>2, <2>1, <2>2 DEF IInv, OwnDescriptor, TypeOK
<1>7. EpollAgrees'
  BY <1>1, <1>2, <1>3, <1>4 DEF IInv, EpollAgrees, HasChannel, TypeOK
<1> QED
  BY <1>1, <1>5, <1>6, <1>7 DEF IInv, EpollCtlSucceeds

LEMMA DestroyPreserves ==
  ASSUME IInv, NEW ch \in Channels, Destroy(ch)
  PROVE  IInv'
<1> USE PollerAssumption
<1> DEFINE f == fd[ch]
<1>1. /\ activeChannels = {}
      /\ fd[ch] # None
      /\ index[ch] = "kNew"
      /\ fd' = [fd EXCEPT ![ch] = None]
      /\ events' = [events EXCEPT ![ch] = {}]
      /\ interest' = [interest EXCEPT ![f] = {}]
      /\ ptr' = [ptr EXCEPT ![f] = None]
      /\ condition' = [condition EXCEPT ![f] = {}]
      /\ UNCHANGED <<index, channels, ctlError, size, loopVars>>
  BY DEF Destroy
<1>2. /\ f \in Fds
      /\ ptr[f] = None
      /\ channels[f] # ch
  BY <1>1, CtlFits
<1>3. TypeOK
  BY DEF IInv
<1>4. channels[f] = None
  BY <1>1, <1>2, <1>3 DEF IInv, OwnDescriptor, TypeOK
<1>5. TypeOK'
  BY <1>1, <1>2, <1>3 DEF TypeOK, Conditions
<1>6. OwnDescriptor'
  <2>1. \A g \in Fds : channels[g] # None => channels[g] # ch
    BY <1>1, <1>2, <1>3 DEF IInv, OwnDescriptor, TypeOK
  <2> QED
    BY <1>1, <1>2, <1>3, <2>1 DEF IInv, OwnDescriptor, TypeOK
<1>7. EpollAgrees'
  BY <1>1, <1>2, <1>3, <1>4 DEF IInv, EpollAgrees, HasChannel, TypeOK
<1> QED
  BY <1>1, <1>5, <1>6, <1>7 DEF IInv, EpollCtlSucceeds

-----------------------------------------------------------------------------
(* The loop                                                                *)

\* A poll and what follows change neither the channels nor the epoll instance.
LEMMA PollPreserves ==
  ASSUME IInv, Poll
  PROVE  IInv'
<1> USE PollerAssumption
<1>1. UNCHANGED <<channelVars, channels, epollVars, condition>>
  BY DEF Poll
<1>2. TypeOK
  BY DEF IInv
<1>3. \A g \in Ready : ptr[g] \in {ch \in Channels : fd[ch] # None}
  <2> SUFFICES ASSUME NEW g \in Ready
               PROVE  ptr[g] \in {ch \in Channels : fd[ch] # None}
    OBVIOUS
  <2>1. g \in Fds /\ ptr[g] # None
    BY DEF Ready, Reported
  <2>2. ptr[g] \in Channels
    BY <1>2, <2>1 DEF TypeOK
  <2>3. fd[ptr[g]] = g
    BY <2>1, <2>2 DEF IInv, EpollAgrees
  <2> QED
    BY <2>1, <2>2, <2>3
<1>4. activeChannels' \in SUBSET {ch \in Channels : fd[ch] # None}
  BY <1>3 DEF Poll
<1>5. place' = "handle" /\ size' \in Nat \ {0}
  <2>1. size \in Nat \ {0}
    BY <1>2 DEF TypeOK
  <2> QED
    BY <2>1 DEF Poll, Resize
<1>6. TypeOK'
  BY <1>1, <1>2, <1>4, <1>5 DEF TypeOK
<1>7. OwnDescriptor' /\ EpollAgrees' /\ EpollCtlSucceeds'
  BY <1>1 DEF IInv, OwnDescriptor, EpollAgrees, HasChannel, EpollCtlSucceeds
<1> QED
  BY <1>6, <1>7 DEF IInv

LEMMA LoopPreserves ==
  ASSUME IInv,
         \/ EndRound
         \/ \E ch \in Channels : HandleEvent(ch)
         \/ \E f \in Fds : Happen(f)
         \/ UNCHANGED vars
  PROVE  IInv'
<1>1. UNCHANGED <<channelVars, channels, epollVars, size>>
  BY DEF EndRound, HandleEvent, Happen
<1>2. /\ place' \in {"poll", "handle"}
      /\ activeChannels' \in SUBSET {ch \in Channels : fd[ch] # None}
      /\ condition' \in [Fds -> SUBSET Conditions]
  BY DEF IInv, TypeOK, EndRound, HandleEvent, Happen
<1>3. TypeOK'
  BY <1>1, <1>2 DEF IInv, TypeOK
<1>4. OwnDescriptor' /\ EpollAgrees' /\ EpollCtlSucceeds'
  BY <1>1 DEF IInv, OwnDescriptor, EpollAgrees, HasChannel, EpollCtlSucceeds
<1> QED
  BY <1>3, <1>4 DEF IInv

-----------------------------------------------------------------------------
(* Theorems                                                                *)

\* The invariant holds in every state, whatever is called in which order.
THEOREM Invariance == Spec => []IInv
<1>1. Init => IInv
  BY Initially
<1>2. IInv /\ [Next]_vars => IInv'
  <2> SUFFICES ASSUME IInv, [Next]_vars PROVE IInv'
    OBVIOUS
  <2>1. CASE Poll
    BY <2>1, PollPreserves
  <2>2. ASSUME NEW ch \in Channels, SetEvents(ch) PROVE IInv'
    BY <2>2, SetEventsPreserves
  <2>3. ASSUME NEW ch \in Channels, Remove(ch) PROVE IInv'
    BY <2>3, RemovePreserves
  <2>4. ASSUME NEW ch \in Channels, Destroy(ch) PROVE IInv'
    BY <2>4, DestroyPreserves
  <2>5. ASSUME NEW ch \in Channels, NEW f \in Fds, NewChannel(ch, f) PROVE IInv'
    BY <2>5, NewChannelPreserves
  <2>6. CASE \/ EndRound
             \/ \E ch \in Channels : HandleEvent(ch)
             \/ \E f \in Fds : Happen(f)
             \/ UNCHANGED vars
    BY <2>6, LoopPreserves
  <2> QED
    BY <2>1, <2>2, <2>3, <2>4, <2>5, <2>6 DEF Next, LoopStep
<1> QED
  BY <1>1, <1>2, PTL DEF Spec

\* Every variable keeps its type, and an active channel exists.
THEOREM TypeCorrect == Spec => []TypeOK
<1>1. IInv => TypeOK
  BY DEF IInv
<1> QED
  BY <1>1, Invariance, PTL

\* The kernel watches what index_ and events_ say, and reports to the channel
\* that exists, however descriptors are used again.
THEOREM EpollAgreement == Spec => []EpollAgrees
<1>1. IInv => EpollAgrees
  BY DEF IInv
<1> QED
  BY <1>1, Invariance, PTL

\* The process is never ended by a failed epoll_ctl.
THEOREM CtlNeverFails == Spec => []EpollCtlSucceeds
<1>1. IInv => EpollCtlSucceeds
  BY DEF IInv
<1> QED
  BY <1>1, Invariance, PTL

\* events_ stays within twice the number of descriptors once it has grown:
\* it is doubled only when it was full, and a poll returns each descriptor at
\* most once.
THEOREM SizeStaysBounded == Spec => []SizeBounded
<1>1. Init => SizeBounded
  BY PollerAssumption DEF Init, SizeBounded
<1>2. TypeOK /\ SizeBounded /\ [Next]_vars => SizeBounded'
  <2> SUFFICES ASSUME TypeOK, SizeBounded, [Next]_vars PROVE SizeBounded'
    OBVIOUS
  <2>1. Cardinality(Fds) \in Nat /\ kInitEventListSize \in Nat
    BY PollerAssumption, FS_CardinalityType
  <2>2. size \in Nat
    BY DEF TypeOK
  <2>3. CASE Poll /\ size' # size
    <3>1. PICK got \in SUBSET Ready : Resize(Cardinality(got))
      BY <2>3 DEF Poll
    <3>2. got \in SUBSET Fds
      BY DEF Ready
    <3>3. Cardinality(got) <= Cardinality(Fds)
      BY <3>2, PollerAssumption, FS_Subset
    <3>4. size = Cardinality(got) /\ size' = 2 * size
      BY <2>3, <3>1 DEF Resize
    <3> QED
      BY <2>1, <2>2, <3>3, <3>4 DEF SizeBounded
  <2>4. CASE size' = size
    BY <2>4 DEF SizeBounded
  <2>5. [Next]_vars => Poll \/ size' = size
    BY DEF Next, LoopStep, EndRound, HandleEvent, SetEvents, Remove, Destroy,
           NewChannel, Happen
  <2> QED
    BY <2>3, <2>4, <2>5
<1> QED
  BY <1>1, <1>2, TypeCorrect, PTL DEF Spec
=============================================================================
