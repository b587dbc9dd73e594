----------------------------- MODULE TcpServer -----------------------------
(***************************************************************************)
(* A TcpServer: its Acceptor and connections_ on the main loop, the         *)
(* subloops of its pool, and the life of its connections from accept to the *)
(* close of their descriptors, across both loops and through ~TcpServer.    *)
(*                                                                         *)
(* Loop 0 is the main loop, the others are the subloops; without subloops   *)
(* the connections live in the main loop.  A round of a loop is that of     *)
(* EventLoop: check quit_, poll, handle the active channels, run the batch. *)
(* The pool's threads are those of EventLoopThreadPool from the moment their *)
(* loops are published; what can go wrong before is in that module.         *)
(* A connection appears as what the server has to do with it; its input and *)
(* output are in TcpConnection.                                            *)
(***************************************************************************)
EXTENDS Naturals, Sequences, FiniteSets, FiniteSetsExt

CONSTANTS
  ThreadNums,    \* values the application may give to setThreadNum
  MaxClients,    \* bound: clients that connect
  MaxFds         \* descriptors left for connections

ASSUME ServerAssumption ==
  /\ ThreadNums \subseteq Nat
  /\ \E n \in ThreadNums : \A m \in ThreadNums : m <= n
  /\ MaxClients \in Nat
  /\ MaxFds \in Nat \ {0}

Conns == 1..MaxClients
Loops == 0..Max(ThreadNums)
Fds == 1..MaxFds
None == 0

VARIABLES
  numThreads,    \* numThreads_ of the pool
  next,          \* next_ of the pool
  clients,       \* clients that have connected
  nextConnId,    \* nextConnId_: connections are named in the order of accept
  hungUp,        \* the accepted connections whose peer has closed or reset
  connections,   \* connections_
  state,         \* state_ of each connection
  ioLoop,        \* loop_ of each connection
  fd,            \* the descriptor of each connection
  index,         \* index_ of each connection's channel
  channels,      \* channels_ of each loop's poller, by descriptor
  place,         \* where each loop's thread is
  quit,          \* quit_ of each loop
  active,        \* activeChannels_ not yet handled; None is acceptChannel_
  queue,         \* pendingFunctors_ of each loop
  batch,         \* the callbacks doPendingFunctors has taken
  at,            \* the one of them to run next
  server,        \* new, alive (started), destroying (in ~TcpServer), stopping
                 \* (in the pool's destructor), waking (there, in the middle
                 \* of quit()), gone, or crashed (quit() has used a loop that
                 \* was destroyed)
  joining,       \* the subloop that the pool's destructor is at, or None
  held,          \* the connection that the local conn of ~TcpServer holds
  ups, downs     \* calls of connectionCallback_ for each connection

poolVars == <<numThreads, next>>
peerVars == <<clients, hungUp>>
connVars == <<state, index, ups, downs>>
fixedVars == <<nextConnId, ioLoop, fd>>
loopVars == <<place, active, batch, at>>
vars == <<poolVars, peerVars, connVars, fixedVars, connections, channels,
          loopVars, quit, queue, server, joining, held>>

\* A callback for a connection in a loop's queue; it holds a shared_ptr.
Task(op, c) == [op |-> op, conn |-> c]
Ops == {"connectEstablished", "connectDestroyed", "removeConnectionInLoop"}

Tasks == [op : Ops, conn : Conns]

Holds(s, c) == \E i \in 1..Len(s) : s[i].conn = c

\* Some shared_ptr to c is left.
Alive(c) == \/ c \in connections
            \/ c = held
            \/ \E l \in Loops : Holds(queue[l], c) \/ Holds(batch[l], c)

\* ~Socket closes the descriptor with the connection.
FreeFds == Fds \ {fd[c] : c \in {d \in Conns : Alive(d)}}

TypeOK ==
  /\ numThreads \in ThreadNums
  /\ next \in 0..Max(ThreadNums)
  /\ clients \in 0..MaxClients
  /\ nextConnId \in 1..(clients + 1)
  /\ hungUp \subseteq 1..(nextConnId - 1)
  /\ connections \subseteq 1..(nextConnId - 1)
  /\ state \in [Conns -> {"kConnecting", "kConnected", "kDisconnecting",
                          "kDisconnected"}]
  /\ ioLoop \in [Conns -> 0..numThreads]
  /\ fd \in [Conns -> Fds \cup {None}]
  /\ index \in [Conns -> {"kNew", "kAdded", "kDeleted"}]
  /\ channels \in [Loops -> [Fds -> Conns \cup {None}]]
  /\ place \in [Loops -> {"entering", "check", "poll", "event", "run", "stopped"}]
  /\ quit \in [Loops -> BOOLEAN]
  /\ active \in [Loops -> SUBSET (Conns \cup {None})]
  /\ queue \in [Loops -> Seq(Tasks)]
  /\ batch \in [Loops -> Seq(Tasks)]
  /\ at \in [Loops -> Nat]
  /\ \A l \in Loops : /\ at[l] \in 1..(Len(batch[l]) + 1)
                      /\ active[l] # {} => place[l] = "event"
                      /\ batch[l] # <<>> => place[l] = "run"
  /\ server \in {"new", "alive", "destroying", "stopping", "waking", "gone",
                 "crashed"}
  /\ joining \in 0..numThreads
  /\ held \in Conns \cup {None}
  /\ server \notin {"new", "alive"} => place[0] = "stopped"
  /\ ups \in [Conns -> Nat]
  /\ downs \in [Conns -> Nat]

\* setThreadNum has been called.
Init ==
  /\ numThreads \in ThreadNums
  /\ next = 0
  /\ clients = 0
  /\ nextConnId = 1
  /\ hungUp = {}
  /\ connections = {}
  /\ state = [c \in Conns |-> "kConnecting"]
  /\ ioLoop = [c \in Conns |-> 0]
  /\ fd = [c \in Conns |-> None]
  /\ index = [c \in Conns |-> "kNew"]
  /\ channels = [l \in Loops |-> [f \in Fds |-> None]]
  /\ place = [l \in Loops |-> "stopped"]
  /\ quit = [l \in Loops |-> FALSE]
  /\ active = [l \in Loops |-> {}]
  /\ queue = [l \in Loops |-> <<>>]
  /\ batch = [l \in Loops |-> <<>>]
  /\ at = [l \in Loops |-> 1]
  /\ server = "new"
  /\ joining = None
  /\ held = None
  /\ ups = [c \in Conns |-> 0]
  /\ downs = [c \in Conns |-> 0]

-----------------------------------------------------------------------------
(* What the operations do to one connection                                *)

\* EventLoopThreadPool::getNextLoop: next_ moves on, and the loop is NextLoop.
GetNextLoop ==
  /\ next' = IF numThreads = 0 \/ next + 1 >= numThreads THEN 0 ELSE next + 1
  /\ UNCHANGED numThreads

NextLoop == IF numThreads = 0 THEN 0 ELSE next + 1

QueueInLoop(l, task) == queue' = [queue EXCEPT ![l] = Append(@, task)]

\* TcpConnection::connectEstablished of c with descriptor f, on loop l, with
\* what EPollPoller::updateChannel does.  connectionCallback_ may call
\* shutdown().
ConnectEstablished(c, l, f) ==
  /\ \E s \in {"kConnected", "kDisconnecting"} : state' = [state EXCEPT ![c] = s]
  /\ index' = [index EXCEPT ![c] = "kAdded"]
  /\ channels' = [channels EXCEPT ![l][f] = c]
  /\ ups' = [ups EXCEPT ![c] = @ + 1]
  /\ UNCHANGED downs

\* connectDestroyed that does not look at state_.
ConnectDestroyed_Always(c) ==
  /\ index' = [index EXCEPT ![c] = "kNew"]
  /\ channels' = [channels EXCEPT ![ioLoop[c]][fd[c]] = None]
  /\ state' = [state EXCEPT ![c] = "kDisconnected"]
  /\ downs' = [downs EXCEPT ![c] = @ + 1]
  /\ UNCHANGED ups

\* TcpConnection::connectDestroyed, with what EPollPoller::removeChannel does.
ConnectDestroyed(c) ==
  /\ index' = [index EXCEPT ![c] = "kNew"]
  /\ channels' = [channels EXCEPT ![ioLoop[c]][fd[c]] = None]
  /\ IF state[c] = "kConnected"
       THEN /\ state' = [state EXCEPT ![c] = "kDisconnected"]
            /\ downs' = [downs EXCEPT ![c] = @ + 1]
       ELSE UNCHANGED <<state, downs>>
  /\ UNCHANGED ups

\* removeConnectionInLoop that leaves it to the last shared_ptr to end c.
RemoveConnectionInLoop_Drop(c) ==
  /\ connections' = connections \ {c}
  /\ UNCHANGED queue

\* removeConnectionInLoop without the erase.
RemoveConnectionInLoop_KeepEntry(c) ==
  /\ QueueInLoop(ioLoop[c], Task("connectDestroyed", c))
  /\ UNCHANGED connections

RemoveConnectionInLoop(c) ==
  /\ connections' = connections \ {c}
  /\ QueueInLoop(ioLoop[c], Task("connectDestroyed", c))

-----------------------------------------------------------------------------
(* The loops                                                               *)

MoveTo(l, from, to) ==
  /\ place[l] = from
  /\ place' = [place EXCEPT ![l] = to]

\* The first statements of loop() set quit_ to false, whoever has set it.
EnterLoop(l) ==
  /\ MoveTo(l, "entering", "check")
  /\ quit' = [quit EXCEPT ![l] = FALSE]
  /\ UNCHANGED <<poolVars, peerVars, connVars, fixedVars, connections, channels,
                 active, batch, at, queue, server, joining, held>>

\* The end of a subloop's loop() is the end of its EventLoop, whose queue
\* goes with it.  The main loop's EventLoop outlives the server.
CheckQuit(l) ==
  /\ IF quit[l]
       THEN /\ MoveTo(l, "check", "stopped")
            /\ queue' = IF l = 0 THEN queue ELSE [queue EXCEPT ![l] = <<>>]
       ELSE MoveTo(l, "check", "poll") /\ UNCHANGED queue
  /\ UNCHANGED <<poolVars, peerVars, connVars, fixedVars, connections, channels,
                 active, batch, at, quit, server, joining, held>>

\* Channels of loop l that epoll reports: those of connections whose peer has
\* hung up, and acceptChannel_ while clients wait.
Ready(l) ==
  {c \in hungUp : ioLoop[c] = l /\ index[c] = "kAdded"}
    \cup {a \in {None} : l = 0 /\ nextConnId <= clients}

\* The eventfd ends the wait for a callback that was queued, or for quit() as
\* soon as that has written it.
Poll(l) ==
  /\ \/ Ready(l) # {} \/ queue[l] # <<>>
     \/ quit[l] /\ ~(server = "waking" /\ joining = l)
  /\ MoveTo(l, "poll", "event")
  /\ active' = [active EXCEPT ![l] = Ready(l)]
  /\ UNCHANGED <<poolVars, peerVars, connVars, fixedVars, connections, channels,
                 batch, at, quit, queue, server, joining, held>>

\* The loop takes the next channel ch of activeChannels_.
AtChannel(l, ch) ==
  /\ place[l] = "event"
  /\ ch \in active[l]
  /\ active' = [active EXCEPT ![l] = @ \ {ch}]
  /\ UNCHANGED <<place, batch, at>>

\* TcpConnection::handleClose with TcpServer::removeConnection.
HandleClose(l, c) ==
  /\ c # None
  /\ AtChannel(l, c)
  /\ state' = [state EXCEPT ![c] = "kDisconnected"]
  /\ index' = [index EXCEPT ![c] = IF @ = "kAdded" THEN "kDeleted" ELSE "kAdded"]
  /\ downs' = [downs EXCEPT ![c] = @ + 1]
  /\ IF l = 0
       THEN RemoveConnectionInLoop(c)
       ELSE /\ QueueInLoop(0, Task("removeConnectionInLoop", c))
            /\ UNCHANGED connections
  /\ UNCHANGED <<poolVars, peerVars, fixedVars, channels, quit, server, joining,
                 held, ups>>

\* Acceptor::handleRead with TcpServer::newConnection.
Accept ==
  LET c == nextConnId
      l == NextLoop
      f == Min(FreeFds)
  IN /\ AtChannel(0, None)
     /\ FreeFds # {}
     /\ GetNextLoop
     /\ nextConnId' = c + 1
     /\ ioLoop' = [ioLoop EXCEPT ![c] = l]
     /\ fd' = [fd EXCEPT ![c] = f]
     /\ connections' = connections \cup {c}
     /\ IF l = 0
          THEN ConnectEstablished(c, l, f) /\ UNCHANGED queue
          ELSE /\ QueueInLoop(l, Task("connectEstablished", c))
               /\ UNCHANGED <<connVars, channels>>
     /\ UNCHANGED <<peerVars, quit, server, joining, held>>

\* An Acceptor that goes on trying until there is a descriptor.
AcceptFails_Retries ==
  /\ place[0] = "event"
  /\ None \in active[0]
  /\ FreeFds = {}
  /\ UNCHANGED vars

\* accept fails for want of a descriptor, and the client goes on waiting.
AcceptFails ==
  /\ AtChannel(0, None)
  /\ FreeFds = {}
  /\ UNCHANGED <<poolVars, peerVars, connVars, fixedVars, connections, channels,
                 quit, queue, server, joining, held>>

StartBatch(l) ==
  /\ active[l] = {}
  /\ MoveTo(l, "event", "run")
  /\ batch' = [batch EXCEPT ![l] = queue[l]]
  /\ queue' = [queue EXCEPT ![l] = <<>>]
  /\ UNCHANGED <<poolVars, peerVars, connVars, fixedVars, connections, channels,
                 active, at, quit, server, joining, held>>

\* The loop runs the next callback of its batch, which is op for c.
AtTask(l, op, c) ==
  /\ place[l] = "run"
  /\ at[l] <= Len(batch[l])
  /\ batch[l][at[l]] = Task(op, c)
  /\ at' = [at EXCEPT ![l] = @ + 1]
  /\ UNCHANGED <<place, active, batch>>

RunEstablished(l, c) ==
  /\ AtTask(l, "connectEstablished", c)
  /\ ConnectEstablished(c, l, fd[c])
  /\ UNCHANGED <<poolVars, peerVars, fixedVars, connections, quit, queue,
                 server, joining, held>>

RunDestroyed(l, c) ==
  /\ AtTask(l, "connectDestroyed", c)
  /\ ConnectDestroyed(c)
  /\ UNCHANGED <<poolVars, peerVars, fixedVars, connections, quit, queue,
                 server, joining, held>>

RunRemoval(l, c) ==
  /\ AtTask(l, "removeConnectionInLoop", c)
  /\ RemoveConnectionInLoop(c)
  /\ UNCHANGED <<poolVars, peerVars, connVars, fixedVars, channels, quit,
                 server, joining, held>>

\* doPendingFunctors that keeps the callbacks it has run.
EndBatch_Keep(l) ==
  /\ at[l] > Len(batch[l])
  /\ MoveTo(l, "run", "check")
  /\ at' = [at EXCEPT ![l] = 1]
  /\ UNCHANGED <<poolVars, peerVars, connVars, fixedVars, connections, channels,
                 active, batch, quit, queue, server, joining, held>>

\* The callbacks of the batch are destroyed together.
EndBatch(l) ==
  /\ at[l] > Len(batch[l])
  /\ MoveTo(l, "run", "check")
  /\ batch' = [batch EXCEPT ![l] = <<>>]
  /\ at' = [at EXCEPT ![l] = 1]
  /\ UNCHANGED <<poolVars, peerVars, connVars, fixedVars, connections, channels,
                 active, quit, queue, server, joining, held>>

-----------------------------------------------------------------------------
(* start(), and ~TcpServer on the main thread once loop() has returned      *)

\* TcpServer::start() returns when every subloop is published, entered or
\* not, and Acceptor::listen has registered acceptChannel_; then the main
\* thread calls loop().
Start ==
  /\ server = "new"
  /\ server' = "alive"
  /\ place' = [l \in Loops |-> IF l <= numThreads THEN "entering" ELSE "stopped"]
  /\ UNCHANGED <<poolVars, peerVars, connVars, fixedVars, connections, channels,
                 active, batch, at, quit, queue, joining, held>>

\* The application ends the main loop.
QuitMain ==
  /\ server = "alive"
  /\ ~quit[0]
  /\ quit' = [quit EXCEPT ![0] = TRUE]
  /\ UNCHANGED <<poolVars, peerVars, connVars, fixedVars, connections, channels,
                 loopVars, queue, server, joining, held>>

DestroyServer ==
  /\ server = "alive"
  /\ place[0] = "stopped"
  /\ server' = "destroying"
  /\ UNCHANGED <<poolVars, peerVars, connVars, fixedVars, connections, channels,
                 loopVars, quit, queue, joining, held>>

\* A destructor that resets the pointers and nothing else.
DestroyConnection_Drop(c) ==
  /\ server = "destroying"
  /\ c \in connections
  /\ connections' = connections \ {c}
  /\ held' = c
  /\ UNCHANGED <<poolVars, peerVars, connVars, fixedVars, channels, loopVars,
                 quit, queue, server, joining>>

\* One round of the loop in ~TcpServer: runInLoop(connectDestroyed).
DestroyConnection(c) ==
  /\ server = "destroying"
  /\ c \in connections
  /\ connections' = connections \ {c}
  /\ held' = c
  /\ IF ioLoop[c] = 0
       THEN ConnectDestroyed(c) /\ UNCHANGED queue
       ELSE /\ QueueInLoop(ioLoop[c], Task("connectDestroyed", c))
            /\ UNCHANGED <<connVars, channels>>
  /\ UNCHANGED <<poolVars, peerVars, fixedVars, loopVars, quit, server,
                 joining>>

\* The end of ~TcpServer's body; its members are destroyed next.
DestroyMembers ==
  /\ server = "destroying"
  /\ connections = {}
  /\ held' = None
  /\ server' = "stopping"
  /\ UNCHANGED <<poolVars, peerVars, connVars, fixedVars, connections, channels,
                 loopVars, quit, queue, joining>>

\* The subloops before l have ended.
JoinedBefore(l) == \A k \in 1..(l - 1) : place[k] = "stopped"

\* ~EventLoopThread that waits for the thread before it tells it to end.
QuitSubloop_JoinFirst(l) ==
  /\ server = "stopping"
  /\ l = joining + 1 /\ l <= numThreads
  /\ JoinedBefore(l + 1)
  /\ quit' = [quit EXCEPT ![l] = TRUE]
  /\ joining' = l
  /\ server' = "waking"
  /\ UNCHANGED <<poolVars, peerVars, connVars, fixedVars, connections, channels,
                 loopVars, queue, held>>

\* ~EventLoopThread of subloop l, the next one: quit() sets quit_.
QuitSubloop(l) ==
  /\ server = "stopping"
  /\ l = joining + 1 /\ l <= numThreads
  /\ JoinedBefore(l)
  /\ quit' = [quit EXCEPT ![l] = TRUE]
  /\ joining' = l
  /\ server' = "waking"
  /\ UNCHANGED <<poolVars, peerVars, connVars, fixedVars, connections, channels,
                 loopVars, queue, held>>

\* The rest of quit() writes the eventfd.  The loop may have seen quit_ and be
\* gone by now: then what comes is undefined, at best a write that fails.
WakeSubloop ==
  /\ server = "waking"
  /\ server' \in IF place[joining] = "stopped" THEN {"stopping", "crashed"}
                                               ELSE {"stopping"}
  /\ UNCHANGED <<poolVars, peerVars, connVars, fixedVars, connections, channels,
                 loopVars, quit, queue, joining, held>>

\* Every thread has been told to end and joined.
ServerGone ==
  /\ server = "stopping"
  /\ joining = numThreads
  /\ JoinedBefore(numThreads + 1)
  /\ server' = "gone"
  /\ UNCHANGED <<poolVars, peerVars, connVars, fixedVars, connections, channels,
                 loopVars, quit, queue, joining, held>>

\* ~EventLoop of the main loop.
DestroyMainLoop ==
  /\ server = "gone"
  /\ queue[0] # <<>>
  /\ queue' = [queue EXCEPT ![0] = <<>>]
  /\ UNCHANGED <<poolVars, peerVars, connVars, fixedVars, connections, channels,
                 loopVars, quit, server, joining, held>>

-----------------------------------------------------------------------------
(* The clients                                                             *)

ClientConnects ==
  /\ clients < MaxClients
  /\ server = "alive"
  /\ clients' = clients + 1
  /\ UNCHANGED <<poolVars, hungUp, connVars, fixedVars, connections, channels,
                 loopVars, quit, queue, server, joining, held>>

PeerHangsUp(c) ==
  /\ c < nextConnId
  /\ c \notin hungUp
  /\ hungUp' = hungUp \cup {c}
  /\ UNCHANGED <<poolVars, clients, connVars, fixedVars, connections, channels,
                 loopVars, quit, queue, server, joining, held>>

-----------------------------------------------------------------------------

LoopStep(l) ==
  \/ EnterLoop(l) \/ CheckQuit(l) \/ Poll(l) \/ StartBatch(l) \/ EndBatch(l)
  \/ \E c \in Conns : \/ HandleClose(l, c) \/ RunEstablished(l, c)
                      \/ RunDestroyed(l, c) \/ RunRemoval(l, c)
  \/ l = 0 /\ Accept
  \/ l = 0 /\ AcceptFails

DestroyStep ==
  \/ DestroyMembers \/ WakeSubloop \/ ServerGone \/ DestroyMainLoop
  \/ \E c \in Conns : DestroyConnection(c)
  \/ \E l \in Loops : QuitSubloop(l)

Next ==
  \/ \E l \in Loops : LoopStep(l)
  \/ Start \/ QuitMain \/ DestroyServer \/ DestroyStep
  \/ ClientConnects
  \/ \E c \in Conns : PeerHangsUp(c)

\* Every loop goes on, callbacks return, and a destructor that has begun is
\* not held up.  Nothing makes clients come or go, or the application quit.
Spec == /\ Init
        /\ [][Next]_vars
        /\ \A l \in Loops : WF_vars(LoopStep(l))
        /\ WF_vars(DestroyStep)

-----------------------------------------------------------------------------
(* Properties                                                              *)

\* The poller of a running loop knows exactly the channels of the live
\* connections that were registered and not removed, each under a descriptor
\* that nobody else has: no other thread lets the last shared_ptr go before
\* the loop has removed the channel, and the descriptor of a connection that
\* ended is used again only after that.  activeChannels_, which holds plain
\* pointers, holds no channel that is gone.
ChannelsAgree ==
  \A l \in {k \in Loops : place[k] # "stopped"} :
    /\ \A f \in Fds : \A c \in Conns :
         channels[l][f] = c
           <=> Alive(c) /\ ioLoop[c] = l /\ fd[c] = f /\ index[c] # "kNew"
    /\ \A c \in active[l] \ {None} : Alive(c)

\* Each connection keeps the order UP, DOWN, close of its descriptor, also
\* between two loops and when its peer hangs up while ~TcpServer runs.
Phase(c) == CASE c >= nextConnId -> "none"
              [] c < nextConnId /\ ~Alive(c) -> "gone"
              [] c < nextConnId /\ Alive(c) /\ downs[c] = 0 ->
                   IF ups[c] = 0 THEN "made" ELSE "up"
              [] c < nextConnId /\ Alive(c) /\ downs[c] = 1 -> "down"
              [] c < nextConnId /\ Alive(c) /\ downs[c] > 1 -> "down again"

Life(c) == INSTANCE ConnectionLife WITH phase <- Phase(c),
                                        ending <- server \notin {"new", "alive"}

RefinesConnectionLife ==
  /\ \A c \in Conns : Life(c)!Init
  /\ [][\A c \in Conns : Life(c)!Next \/ UNCHANGED Life(c)!vars]_vars

\* Two loops hand a connection whose peer has hung up to each other until it
\* is destroyed and its descriptor free, unless the main loop is told to quit;
\* with the finitely many clients there are, all are done again and again.
HungUpIsReleased == []<>(quit[0] \/ \A c \in hungUp : ~Alive(c))

\* Out of descriptors accept fails over and over, but that does not hold up
\* the removals that bring one back: clients do not wait for ever while a
\* descriptor is free or belongs to a connection whose peer has hung up.
AcceptResumes ==
  []<>\/ quit[0]
      \/ nextConnId > clients
      \/ FreeFds = {} /\ \A c \in hungUp : ~Alive(c)

\* loop() of a subloop has erased the quit() of ~EventLoopThread, which came
\* between its publication and its start, and join() waits for ever: the
\* finding on EventLoopThreadPool!DestructionEnds.
QuitErased == \E l \in 1..joining : place[l] # "stopped" /\ ~quit[l]

\* Unless that happens, or quit() uses a subloop that is gone, ~TcpServer
\* returns: every subloop that was inside loop() leaves it, whatever its
\* connections and its queue do meanwhile; and with the main loop's EventLoop
\* the last connection is gone.
DestructionReleasesAll ==
  (server = "destroying")
    ~> \/ server = "gone" /\ \A c \in Conns : ~Alive(c)
       \/ server = "crashed"
       \/ QuitErased
=============================================================================
