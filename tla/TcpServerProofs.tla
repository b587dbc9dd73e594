-------------------------- MODULE TcpServerProofs --------------------------
(***************************************************************************)
(* Proofs about TcpServer, for any number of subloops, clients and          *)
(* descriptors: the type invariant, that the loops' pollers know exactly    *)
(* the channels of the live connections, and that every connection goes     *)
(* through its life as ConnectionLife says.                                *)
(***************************************************************************)
EXTENDS TcpServer, TLAPS, SequenceTheorems, WellFoundedInduction

USE DEF vars, poolVars, peerVars, connVars, fixedVars, loopVars

-----------------------------------------------------------------------------
(* Lemmas about numbers and sequences                                      *)

LEMMA MinOf ==
  ASSUME NEW S \in SUBSET Nat, S # {}
  PROVE  Min(S) \in S /\ \A y \in S : Min(S) <= y
<1>1. \A x, y \in Nat : <<y, x>> \in OpToRel(<, Nat) <=> y < x
  BY DEF OpToRel
<1>2. PICK R : IsWellFoundedOn(R, Nat) /\ \A x, y \in Nat : <<y, x>> \in R <=> y < x
  BY <1>1, NatLessThanWellFounded, Zenon
<1>3. PICK x \in S : \A y \in S : ~(<<y, x>> \in R)
  BY <1>2, WFMin
<1>4. \A y \in S : ~(y < x)
  BY <1>2, <1>3
<1>5. \E z \in S : \A y \in S : z <= y
  BY <1>4
<1> QED
  BY <1>5 DEF Min

LEMMA MaxThreads ==
  /\ Max(ThreadNums) \in Nat
  /\ \A n \in ThreadNums : n \in 0..Max(ThreadNums)
<1>1. \E x \in ThreadNums : \A y \in ThreadNums : x >= y
  BY ServerAssumption
<1>2. Max(ThreadNums) \in ThreadNums /\ \A m \in ThreadNums : Max(ThreadNums) >= m
  BY <1>1 DEF Max
<1> DEFINE n == Max(ThreadNums)
<1>3. n \in Nat /\ \A m \in ThreadNums : m \in Nat /\ n >= m
  BY <1>2, ServerAssumption
<1> HIDE DEF n
<1>4. \A m \in ThreadNums : m \in 0..n
  BY <1>3
<1> QED
  BY <1>3, <1>4 DEF n

\* 0 is the main loop, and the subloops are among the loops.
LEMMA LoopNumbers ==
  /\ Loops \subseteq Nat
  /\ 0 \in Loops
  /\ Max(ThreadNums) \in Nat
  /\ \A n \in ThreadNums : n \in Nat /\ 0..n \subseteq Loops
BY MaxThreads DEF Loops

\* The descriptor accept returns is one nobody has.
LEMMA FreeFd ==
  ASSUME FreeFds # {}
  PROVE  /\ Min(FreeFds) \in Fds
         /\ \A c \in Conns : Alive(c) => fd[c] # Min(FreeFds)
<1>1. FreeFds \in SUBSET Nat
  BY DEF FreeFds, Fds
<1>2. Min(FreeFds) \in FreeFds
  BY <1>1, MinOf
<1> QED
  BY <1>2 DEF FreeFds

\* x is in s.
In(s, x) == \E k \in 1..Len(s) : s[k] = x

LEMMA InAppend ==
  ASSUME NEW s \in Seq(Tasks), NEW t \in Tasks
  PROVE  /\ \A x : In(Append(s, t), x) <=> In(s, x) \/ x = t
         /\ \A c : Holds(Append(s, t), c) <=> Holds(s, c) \/ c = t.conn
<1>1. /\ Len(Append(s, t)) = Len(s) + 1 /\ Len(s) \in Nat
      /\ \A k \in 1..Len(s) : Append(s, t)[k] = s[k]
      /\ Append(s, t)[Len(s) + 1] = t
  OBVIOUS
<1>2. \A k : k \in 1..(Len(s) + 1) <=> k \in 1..Len(s) \/ k = Len(s) + 1
  BY <1>1
<1> QED
  BY <1>1, <1>2 DEF In, Holds

LEMMA InTail ==
  ASSUME NEW s \in Seq(Tasks), s # <<>>
  PROVE  \A x : In(s, x) <=> x = s[1] \/ In(Tail(s), x)
<1>1. /\ Len(Tail(s)) = Len(s) - 1 /\ Len(s) \in Nat \ {0}
      /\ \A k \in 1..Len(Tail(s)) : Tail(s)[k] = s[k + 1]
  OBVIOUS
<1>2. \A k \in 1..Len(s) : k = 1 \/ k - 1 \in 1..Len(Tail(s))
  BY <1>1
<1>3. \A k \in 2..Len(s) : s[k] = Tail(s)[k - 1]
  BY <1>1
<1>4. \A k \in 1..Len(Tail(s)) : k + 1 \in 1..Len(s)
  BY <1>1
<1> QED
  BY <1>1, <1>2, <1>3, <1>4 DEF In

\* connectEstablished is the first of a connection's callbacks in s.
EstablishedFirst(s) ==
  \A j \in 1..Len(s) : s[j].op = "connectEstablished" =>
    \A i \in 1..(j - 1) : s[i].conn # s[j].conn

LEMMA FirstAppend ==
  ASSUME NEW s \in Seq(Tasks), NEW t \in Tasks, EstablishedFirst(s),
         t.op = "connectEstablished" => ~Holds(s, t.conn)
  PROVE  EstablishedFirst(Append(s, t))
<1>1. /\ Len(Append(s, t)) = Len(s) + 1 /\ Len(s) \in Nat
      /\ \A k \in 1..Len(s) : Append(s, t)[k] = s[k]
      /\ Append(s, t)[Len(s) + 1] = t
  OBVIOUS
<1> SUFFICES ASSUME NEW j \in 1..(Len(s) + 1), NEW i \in 1..(j - 1),
                    Append(s, t)[j].op = "connectEstablished"
             PROVE  Append(s, t)[i].conn # Append(s, t)[j].conn
  BY <1>1 DEF EstablishedFirst
<1>2. i \in 1..Len(s)
  BY <1>1
<1>3. CASE j = Len(s) + 1
  BY <1>1, <1>2, <1>3 DEF Holds
<1>4. CASE j \in 1..Len(s)
  BY <1>1, <1>2, <1>4 DEF EstablishedFirst
<1> QED
  BY <1>1, <1>3, <1>4

LEMMA FirstTail ==
  ASSUME NEW s \in Seq(Tasks), s # <<>>, EstablishedFirst(s)
  PROVE  /\ EstablishedFirst(Tail(s))
         /\ \A c : s[1].conn = c => ~In(Tail(s), Task("connectEstablished", c))
<1>1. /\ Len(Tail(s)) = Len(s) - 1 /\ Len(s) \in Nat \ {0}
      /\ \A k \in 1..Len(Tail(s)) : Tail(s)[k] = s[k + 1]
  OBVIOUS
<1>2. EstablishedFirst(Tail(s))
  <2> SUFFICES ASSUME NEW j \in 1..Len(Tail(s)), NEW i \in 1..(j - 1),
                      Tail(s)[j].op = "connectEstablished"
               PROVE  Tail(s)[i].conn # Tail(s)[j].conn
    BY DEF EstablishedFirst
  <2>1. j + 1 \in 1..Len(s) /\ i + 1 \in 1..(j + 1 - 1) /\ i \in 1..Len(Tail(s))
    BY <1>1
  <2> QED
    BY <1>1, <2>1 DEF EstablishedFirst
<1>3. ASSUME NEW k \in 1..Len(Tail(s)), Tail(s)[k] = Task("connectEstablished", s[1].conn)
      PROVE  FALSE
  <2>1. k + 1 \in 1..Len(s) /\ 1 \in 1..(k + 1 - 1)
    BY <1>1
  <2> QED
    BY <1>1, <1>3, <2>1 DEF EstablishedFirst, Task
<1> QED
  BY <1>2, <1>3 DEF In

-----------------------------------------------------------------------------
(* Types                                                                   *)

\* Nothing has happened before start(), no loop beyond the pool runs, and the
\* pool ends all of them before the server is gone; getNextLoop stays within
\* the pool, and acceptChannel_ is active only while a client waits.
Started ==
  /\ next = 0 \/ next < numThreads
  /\ None \in active[0] => nextConnId <= clients
  /\ server = "new" => /\ nextConnId = 1
                       /\ \A l \in Loops : place[l] = "stopped"
                       /\ \A l \in Loops, f \in Fds : channels[l][f] = None
  /\ \A l \in Loops : l > numThreads => place[l] = "stopped"
  /\ server = "gone" => \A l \in Loops : place[l] = "stopped"

\* TypeOK in three parts.
CountTypes ==
  /\ numThreads \in ThreadNums
  /\ next \in 0..Max(ThreadNums)
  /\ clients \in 0..MaxClients
  /\ nextConnId \in 1..(clients + 1)
  /\ hungUp \subseteq 1..(nextConnId - 1)
  /\ connections \subseteq 1..(nextConnId - 1)
  /\ server \in {"new", "alive", "destroying", "stopping", "waking", "gone",
                 "crashed"}
  /\ joining \in 0..numThreads
  /\ held \in Conns \cup {None}

ConnTypes ==
  /\ state \in [Conns -> {"kConnecting", "kConnected", "kDisconnecting",
                          "kDisconnected"}]
  /\ ioLoop \in [Conns -> 0..numThreads]
  /\ fd \in [Conns -> Fds \cup {None}]
  /\ index \in [Conns -> {"kNew", "kAdded", "kDeleted"}]
  /\ channels \in [Loops -> [Fds -> Conns \cup {None}]]
  /\ ups \in [Conns -> Nat]
  /\ downs \in [Conns -> Nat]

LoopTypes ==
  /\ place \in [Loops -> {"entering", "check", "poll", "event", "run", "stopped"}]
  /\ quit \in [Loops -> BOOLEAN]
  /\ active \in [Loops -> SUBSET (Conns \cup {None})]
  /\ queue \in [Loops -> Seq(Tasks)]
  /\ batch \in [Loops -> Seq(Tasks)]
  /\ at \in [Loops -> Nat]
  /\ \A l \in Loops : /\ at[l] \in 1..(Len(batch[l]) + 1)
                      /\ active[l] # {} => place[l] = "event"
                      /\ batch[l] # <<>> => place[l] = "run"
  /\ server \notin {"new", "alive"} => place[0] = "stopped"

LEMMA TypeParts == TypeOK <=> CountTypes /\ ConnTypes /\ LoopTypes
BY DEF TypeOK, CountTypes, ConnTypes, LoopTypes

TypeInv == CountTypes /\ ConnTypes /\ LoopTypes /\ Started

LEMMA TaskTypes ==
  \A op \in Ops, c \in Conns : /\ Task(op, c) \in Tasks
                               /\ Task(op, c).op = op /\ Task(op, c).conn = c
BY DEF Task, Tasks

LEMMA NoneIsNoConn == None \notin Conns
BY DEF None, Conns

\* What TypeInv says of the numbers.
LEMMA Numbers ==
  ASSUME TypeInv
  PROVE  /\ numThreads \in Nat /\ 0..numThreads \subseteq Loops
         /\ nextConnId \in Nat \ {0} /\ clients \in 0..MaxClients
         /\ nextConnId <= clients + 1
         /\ \A c : c \in 1..(nextConnId - 1) <=> c \in Conns /\ c < nextConnId
         /\ NextLoop \in 0..numThreads
<1>1. /\ numThreads \in ThreadNums /\ next \in 0..Max(ThreadNums)
      /\ next = 0 \/ next < numThreads
      /\ clients \in 0..MaxClients /\ nextConnId \in 1..(clients + 1)
  BY DEF TypeInv, CountTypes, Started
<1>2. /\ numThreads \in Nat /\ 0..numThreads \subseteq Loops /\ next \in Nat
  BY <1>1, LoopNumbers
<1>3. NextLoop \in 0..numThreads
  BY <1>1, <1>2 DEF NextLoop
<1>4. nextConnId \in Nat \ {0} /\ nextConnId <= clients + 1
  BY <1>1
<1>5. \A c : c \in 1..(nextConnId - 1) <=> c \in Conns /\ c < nextConnId
  BY <1>1, ServerAssumption DEF Conns
<1> QED
  BY <1>1, <1>2, <1>3, <1>4, <1>5

LEMMA InitTypes == Init => TypeInv
<1> SUFFICES ASSUME Init PROVE TypeInv
  OBVIOUS
<1>1. CountTypes
  <2>1. joining \in 0..numThreads
    BY LoopNumbers DEF Init, None
  <2> QED
    BY <2>1, LoopNumbers, ServerAssumption DEF Init, CountTypes
<1>2. ConnTypes
  BY <1>1, LoopNumbers DEF Init, CountTypes, ConnTypes
<1>3. LoopTypes
  BY LoopNumbers DEF Init, LoopTypes
<1>4. Started
  <2>1. \A l \in Loops : /\ place[l] = "stopped" /\ active[l] = {}
                         /\ \A f \in Fds : channels[l][f] = None
    BY DEF Init
  <2> QED
    BY <2>1, LoopNumbers DEF Init, Started
<1> QED
  BY <1>1, <1>2, <1>3, <1>4 DEF TypeInv

\* A round of a loop, as far as it is about the loop itself.
LEMMA RoundTypes ==
  ASSUME TypeInv, NEW l \in Loops,
         \/ EnterLoop(l) \/ CheckQuit(l) \/ Poll(l)
         \/ StartBatch(l) \/ EndBatch(l)
  PROVE  TypeInv'
<1>1. CountTypes' /\ ConnTypes'
  BY DEF TypeInv, EnterLoop, CheckQuit, Poll, StartBatch, EndBatch, CountTypes,
         ConnTypes
<1>2. CASE CheckQuit(l)
  <2>1. LoopTypes'
    <3>1. batch[l] = <<>> /\ active[l] = {} /\ l \in Loops
      BY <1>2 DEF TypeInv, CheckQuit, MoveTo, LoopTypes
    <3>2. queue' \in [Loops -> Seq(Tasks)]
      <4>1. queue \in [Loops -> Seq(Tasks)] /\ <<>> \in Seq(Tasks)
        BY DEF TypeInv, LoopTypes
      <4>2. queue' = queue \/ queue' = [queue EXCEPT ![l] = <<>>]
        BY <1>2 DEF CheckQuit
      <4> QED
        BY <4>1, <4>2
    <3>3. /\ place' \in [Loops -> {"entering", "check", "poll", "event", "run", "stopped"}]
          /\ \A k \in Loops : k # l => place'[k] = place[k]
          /\ place[0] = "stopped" => place'[0] = "stopped"
      BY <1>2, LoopNumbers DEF TypeInv, CheckQuit, MoveTo, LoopTypes
    <3> QED
      BY <1>2, <3>1, <3>2, <3>3 DEF TypeInv, CheckQuit, LoopTypes
  <2>2. Started'
    BY <1>2 DEF TypeInv, CheckQuit, MoveTo, LoopTypes, Started
  <2> QED
    BY <1>1, <2>1, <2>2 DEF TypeInv
<1>3. CASE Poll(l)
  <2>1. Ready(l) \subseteq Conns \cup {None}
        /\ (l = 0 /\ None \in Ready(l) => nextConnId <= clients)
    BY Numbers, NoneIsNoConn DEF TypeInv, Ready, CountTypes
  <2>2. LoopTypes'
    BY <1>3, <2>1 DEF TypeInv, Poll, MoveTo, LoopTypes
  <2>3. Started'
    BY <1>3, <2>1, LoopNumbers DEF TypeInv, Poll, MoveTo, LoopTypes, Started
  <2> QED
    BY <1>1, <2>2, <2>3 DEF TypeInv
<1>4. CASE StartBatch(l)
  <2>1. LoopTypes'
    BY <1>4 DEF TypeInv, StartBatch, MoveTo, LoopTypes
  <2>2. Started'
    BY <1>4 DEF TypeInv, StartBatch, MoveTo, LoopTypes, Started
  <2> QED
    BY <1>1, <2>1, <2>2 DEF TypeInv
<1>5. CASE EndBatch(l)
  <2>1. LoopTypes'
    BY <1>5 DEF TypeInv, EndBatch, MoveTo, LoopTypes
  <2>2. Started'
    BY <1>5 DEF TypeInv, EndBatch, MoveTo, LoopTypes, Started
  <2> QED
    BY <1>1, <2>1, <2>2 DEF TypeInv
<1>6. CASE EnterLoop(l)
  <2>1. LoopTypes'
    BY <1>6 DEF TypeInv, EnterLoop, MoveTo, LoopTypes
  <2>2. Started'
    BY <1>6 DEF TypeInv, EnterLoop, MoveTo, LoopTypes, Started
  <2> QED
    BY <1>1, <2>1, <2>2 DEF TypeInv
<1> QED
  BY <1>2, <1>3, <1>4, <1>5, <1>6

LEMMA OwnerTypes ==
  ASSUME TypeInv,
         \/ Start \/ QuitMain \/ DestroyServer \/ DestroyMembers
         \/ WakeSubloop \/ ServerGone \/ DestroyMainLoop \/ ClientConnects
         \/ \E l \in Loops : QuitSubloop(l)
         \/ \E c \in Conns : PeerHangsUp(c)
  PROVE  TypeInv'
<1>1. CASE Start
  <2>1. CountTypes' /\ ConnTypes'
    BY <1>1 DEF TypeInv, Start, CountTypes, ConnTypes
  <2>2. LoopTypes'
    <3>1. \A l \in Loops : active[l] = {} /\ batch[l] = <<>>
      BY <1>1 DEF TypeInv, Start, LoopTypes, Started
    <3> QED
      BY <1>1, <3>1 DEF TypeInv, Start, LoopTypes
  <2>3. Started'
    <3>1. \A l \in Loops : l > numThreads => ~(l <= numThreads)
      BY Numbers, LoopNumbers
    <3> QED
      BY <1>1, <3>1 DEF TypeInv, Start, Started
  <2> QED
    BY <2>1, <2>2, <2>3 DEF TypeInv
<1>2. CASE QuitMain
  BY <1>2 DEF TypeInv, QuitMain, CountTypes, ConnTypes, LoopTypes, Started
<1>3. CASE DestroyServer
  BY <1>3 DEF TypeInv, DestroyServer, CountTypes, ConnTypes, LoopTypes, Started
<1>4. CASE DestroyMembers
  BY <1>4 DEF TypeInv, DestroyMembers, CountTypes, ConnTypes, LoopTypes, Started
<1>5. CASE ServerGone
  <2>1. \A l \in Loops : l = 0 \/ l \in 1..numThreads \/ l > numThreads
    BY Numbers, LoopNumbers
  <2>2. 1..((numThreads + 1) - 1) = 1..numThreads
    BY Numbers
  <2>3. \A l \in Loops : place[l] = "stopped"
    <3>1. \A k \in 1..numThreads : place[k] = "stopped"
      <4>1. JoinedBefore(numThreads + 1)
        BY <1>5 DEF ServerGone
      <4> QED
        BY <4>1, <2>2, Zenon DEF JoinedBefore
    <3>2. place[0] = "stopped"
      BY <1>5 DEF ServerGone, TypeInv, LoopTypes
    <3>3. \A k \in Loops : k > numThreads => place[k] = "stopped"
      BY DEF TypeInv, Started
    <3> QED
      BY <2>1, <3>1, <3>2, <3>3
  <2> QED
    BY <1>5, <2>3
    DEF TypeInv, ServerGone, CountTypes, ConnTypes, LoopTypes, Started
<1>6. CASE DestroyMainLoop
  <2>1. queue' \in [Loops -> Seq(Tasks)]
    <3>1. queue \in [Loops -> Seq(Tasks)] /\ <<>> \in Seq(Tasks)
      BY DEF TypeInv, LoopTypes
    <3>2. queue' = [queue EXCEPT ![0] = <<>>]
      BY <1>6 DEF DestroyMainLoop
    <3> QED
      BY <3>1, <3>2
  <2> QED
    BY <1>6, <2>1
    DEF TypeInv, DestroyMainLoop, CountTypes, ConnTypes, LoopTypes, Started
<1>7. CASE ClientConnects
  <2>1. clients' \in 0..MaxClients /\ nextConnId \in 1..(clients' + 1)
    BY <1>7, Numbers, ServerAssumption DEF ClientConnects
  <2> QED
    BY <1>7, <2>1, Numbers
    DEF TypeInv, ClientConnects, CountTypes, ConnTypes, LoopTypes, Started
<1>8. CASE \E l \in Loops : QuitSubloop(l)
  <2>1. PICK l \in Loops : QuitSubloop(l)
    BY <1>8
  <2>2. /\ quit' \in [Loops -> BOOLEAN]
        /\ joining' \in 0..numThreads
        /\ server = "stopping" /\ server' = "waking"
    <3>1. joining' = joining + 1 /\ joining + 1 <= numThreads
      BY <2>1 DEF QuitSubloop
    <3>2. joining \in Nat /\ numThreads \in Nat
      BY Numbers DEF TypeInv, CountTypes
    <3> QED
      BY <2>1, <3>1, <3>2 DEF QuitSubloop, TypeInv, LoopTypes
  <2>3. UNCHANGED <<poolVars, peerVars, connVars, fixedVars, connections,
                    channels, loopVars, queue, held>>
    BY <2>1 DEF QuitSubloop
  <2>4. (CountTypes /\ ConnTypes)'
    BY <2>2, <2>3 DEF TypeInv, CountTypes, ConnTypes
  <2>5. LoopTypes'
    BY <2>2, <2>3 DEF TypeInv, LoopTypes
  <2>6. Started'
    BY <2>2, <2>3 DEF TypeInv, Started
  <2> QED
    BY <2>4, <2>5, <2>6 DEF TypeInv
<1>9. CASE \E c \in Conns : PeerHangsUp(c)
  <2>1. hungUp' \subseteq 1..(nextConnId - 1)
    BY <1>9, Numbers DEF PeerHangsUp, TypeInv, CountTypes
  <2>2. UNCHANGED <<poolVars, clients, connVars, fixedVars, connections,
                    channels, loopVars, quit, queue, server, joining, held>>
    BY <1>9 DEF PeerHangsUp
  <2> QED
    BY <2>1, <2>2 DEF TypeInv, CountTypes, ConnTypes, LoopTypes, Started
<1>10. CASE WakeSubloop
  BY <1>10 DEF TypeInv, WakeSubloop, CountTypes, ConnTypes, LoopTypes, Started
<1> QED
  BY <1>1, <1>2, <1>3, <1>4, <1>5, <1>6, <1>7, <1>8, <1>9, <1>10

\* queue after QueueInLoop.
LEMMA QueueTypes ==
  ASSUME TypeInv, NEW op \in Ops, NEW c \in Conns, NEW l,
         QueueInLoop(l, Task(op, c))
  PROVE  queue' \in [Loops -> Seq(Tasks)]
<1>1. \A k \in Loops : Append(queue[k], Task(op, c)) \in Seq(Tasks)
  BY TaskTypes DEF TypeInv, LoopTypes
<1> QED
  BY <1>1 DEF QueueInLoop, TypeInv, LoopTypes

\* Loop l handles a channel or runs a callback; callbacks may join queues.
LEMMA WorkTypes ==
  ASSUME TypeInv, NEW l \in Loops,
         \/ \E a : AtChannel(l, a)
         \/ \E op, c : AtTask(l, op, c),
         queue' \in [Loops -> Seq(Tasks)], UNCHANGED <<quit, server>>
  PROVE  LoopTypes'
<1>1. CASE \E a : AtChannel(l, a)
  BY <1>1 DEF AtChannel, TypeInv, LoopTypes
<1>2. CASE \E op, c : AtTask(l, op, c)
  BY <1>2 DEF AtTask, TypeInv, LoopTypes
<1> QED
  BY <1>1, <1>2

\* channels after a channel c, or None, has been entered.
LEMMA ChannelTypes ==
  ASSUME TypeInv, NEW l, NEW f, NEW c \in Conns \cup {None},
         channels' = [channels EXCEPT ![l][f] = c]
  PROVE  channels' \in [Loops -> [Fds -> Conns \cup {None}]]
<1>1. channels \in [Loops -> [Fds -> Conns \cup {None}]]
  BY DEF TypeInv, ConnTypes
<1>2. CASE l \in Loops
  <2>1. [channels[l] EXCEPT ![f] = c] \in [Fds -> Conns \cup {None}]
    BY <1>1, <1>2
  <2> QED
    BY <1>1, <1>2, <2>1
<1>3. CASE l \notin Loops
  BY <1>1, <1>3
<1> QED
  BY <1>2, <1>3

LEMMA EstablishedTypes ==
  ASSUME TypeInv, NEW c \in Conns, NEW l, NEW f, ConnectEstablished(c, l, f)
  PROVE  /\ UNCHANGED downs
         /\ state' \in [Conns -> {"kConnecting", "kConnected",
                                  "kDisconnecting", "kDisconnected"}]
         /\ index' \in [Conns -> {"kNew", "kAdded", "kDeleted"}]
         /\ channels' \in [Loops -> [Fds -> Conns \cup {None}]]
         /\ ups' \in [Conns -> Nat]
<1>1. channels' \in [Loops -> [Fds -> Conns \cup {None}]]
  BY ChannelTypes DEF ConnectEstablished
<1> QED
  BY <1>1 DEF ConnectEstablished, TypeInv, ConnTypes

LEMMA DestroyedTypes ==
  ASSUME TypeInv, NEW c \in Conns, ConnectDestroyed(c)
  PROVE  /\ UNCHANGED ups
         /\ state' \in [Conns -> {"kConnecting", "kConnected",
                                  "kDisconnecting", "kDisconnected"}]
         /\ index' \in [Conns -> {"kNew", "kAdded", "kDeleted"}]
         /\ channels' \in [Loops -> [Fds -> Conns \cup {None}]]
         /\ downs' \in [Conns -> Nat]
<1>1. channels' \in [Loops -> [Fds -> Conns \cup {None}]]
  BY ChannelTypes DEF ConnectDestroyed
<1>2. downs' = [downs EXCEPT ![c] = @ + 1] \/ downs' = downs
  BY DEF ConnectDestroyed
<1>3. state' = [state EXCEPT ![c] = "kDisconnected"] \/ state' = state
  BY DEF ConnectDestroyed
<1> QED
  BY <1>1, <1>2, <1>3 DEF ConnectDestroyed, TypeInv, ConnTypes

LEMMA HandleCloseTypes ==
  ASSUME TypeInv, NEW l \in Loops, NEW c \in Conns, HandleClose(l, c)
  PROVE  TypeInv'
<1>1. CountTypes' /\ ConnTypes'
  <2>1. connections' \in SUBSET connections
    BY DEF HandleClose, RemoveConnectionInLoop
  <2>2. CountTypes'
    BY <2>1 DEF HandleClose, TypeInv, CountTypes
  <2>3. /\ state' = [state EXCEPT ![c] = "kDisconnected"]
        /\ index' = [index EXCEPT ![c] = IF index[c] = "kAdded" THEN "kDeleted"
                                                                ELSE "kAdded"]
        /\ downs' = [downs EXCEPT ![c] = downs[c] + 1]
        /\ UNCHANGED <<numThreads, ioLoop, fd, channels, ups>>
    BY DEF HandleClose
  <2>4. /\ downs' \in [Conns -> Nat]
        /\ index' \in [Conns -> {"kNew", "kAdded", "kDeleted"}]
    BY <2>3 DEF TypeInv, ConnTypes
  <2>5. ConnTypes'
    BY <2>3, <2>4 DEF TypeInv, ConnTypes
  <2> QED
    BY <2>2, <2>5
<1>2. queue' \in [Loops -> Seq(Tasks)]
  BY QueueTypes DEF HandleClose, RemoveConnectionInLoop, Ops
<1>3. LoopTypes'
  BY <1>2, WorkTypes DEF HandleClose
<1>4. Started'
  BY DEF HandleClose, AtChannel, TypeInv, LoopTypes, Started
<1> QED
  BY <1>1, <1>3, <1>4 DEF TypeInv

LEMMA RunTypes ==
  ASSUME TypeInv, NEW l \in Loops, NEW c \in Conns,
         RunEstablished(l, c) \/ RunDestroyed(l, c) \/ RunRemoval(l, c)
  PROVE  TypeInv'
<1>1. CountTypes'
  BY DEF RunEstablished, RunDestroyed, RunRemoval, RemoveConnectionInLoop,
         TypeInv, CountTypes
<1>2. ConnTypes'
  <2>1. CASE RunEstablished(l, c)
    BY <2>1, EstablishedTypes DEF RunEstablished, TypeInv, ConnTypes
  <2>2. CASE RunDestroyed(l, c)
    BY <2>2, DestroyedTypes DEF RunDestroyed, TypeInv, ConnTypes
  <2>3. CASE RunRemoval(l, c)
    BY <2>3 DEF RunRemoval, TypeInv, ConnTypes
  <2> QED
    BY <2>1, <2>2, <2>3
<1>3. queue' \in [Loops -> Seq(Tasks)]
  BY QueueTypes
  DEF RunEstablished, RunDestroyed, RunRemoval, RemoveConnectionInLoop, Ops,
      TypeInv, LoopTypes
<1>4. LoopTypes'
  BY <1>3, WorkTypes DEF RunEstablished, RunDestroyed, RunRemoval
<1>5. Started'
  BY DEF RunEstablished, RunDestroyed, RunRemoval, ConnectEstablished,
         AtTask, TypeInv, Started
<1> QED
  BY <1>1, <1>2, <1>4, <1>5 DEF TypeInv

LEMMA DestroyTypes ==
  ASSUME TypeInv, NEW c \in Conns, DestroyConnection(c)
  PROVE  TypeInv'
<1>1. CountTypes' /\ ConnTypes'
  BY DestroyedTypes DEF DestroyConnection, TypeInv, CountTypes, ConnTypes
<1>2. queue' \in [Loops -> Seq(Tasks)]
  BY QueueTypes DEF DestroyConnection, Ops, TypeInv, LoopTypes
<1>3. LoopTypes' /\ Started'
  BY <1>2 DEF DestroyConnection, TypeInv, LoopTypes, Started
<1> QED
  BY <1>1, <1>3 DEF TypeInv

LEMMA AcceptTypes ==
  ASSUME TypeInv, Accept
  PROVE  TypeInv'
<1>1. nextConnId \in Conns /\ nextConnId <= clients
  <2>1. nextConnId <= clients
    BY DEF Accept, AtChannel, TypeInv, Started
  <2> QED
    BY <2>1, Numbers, ServerAssumption DEF Conns
<1>2. next' = 0 \/ (next' = next + 1 /\ next + 1 < numThreads)
  BY Numbers DEF Accept, GetNextLoop, TypeInv, CountTypes
<1>3. CountTypes'
  <2>1. next' \in 0..Max(ThreadNums) /\ (next' = 0 \/ next' < numThreads)
    BY <1>2, MaxThreads DEF TypeInv, CountTypes
  <2>2. /\ nextConnId' = nextConnId + 1 /\ nextConnId + 1 \in 1..(clients + 1)
        /\ 1..(nextConnId + 1 - 1) = 1..nextConnId
        /\ 1..(nextConnId - 1) \subseteq 1..nextConnId /\ nextConnId \in 1..nextConnId
    BY <1>1, Numbers DEF Accept
  <2> QED
    BY <2>1, <2>2 DEF Accept, GetNextLoop, TypeInv, CountTypes
<1>4. ConnTypes'
  <2>1. /\ ioLoop' \in [Conns -> 0..numThreads'] /\ fd' \in [Conns -> Fds \cup {None}]
    BY <1>1, FreeFd, Numbers DEF Accept, GetNextLoop, TypeInv, ConnTypes
  <2>2. CASE NextLoop = 0
    BY <1>1, <2>1, <2>2, EstablishedTypes DEF Accept, ConnTypes, TypeInv
  <2>3. CASE NextLoop # 0
    BY <2>1, <2>3 DEF Accept, ConnTypes, TypeInv
  <2> QED
    BY <2>2, <2>3
<1>5. LoopTypes'
  <2>1. queue' \in [Loops -> Seq(Tasks)]
    BY <1>1, QueueTypes DEF Accept, Ops, TypeInv, LoopTypes
  <2> QED
    BY <2>1, WorkTypes, LoopNumbers DEF Accept
<1>6. Started'
  BY <1>2, LoopNumbers, <1>1, Numbers
  DEF Accept, AtChannel, GetNextLoop, TypeInv, LoopTypes, Started
<1> QED
  BY <1>3, <1>4, <1>5, <1>6 DEF TypeInv

LEMMA AcceptFailsTypes ==
  ASSUME TypeInv, AcceptFails
  PROVE  TypeInv'
<1>1. LoopTypes'
  BY WorkTypes, LoopNumbers DEF AcceptFails, TypeInv, LoopTypes
<1>2. CountTypes' /\ ConnTypes' /\ Started'
  BY LoopNumbers
  DEF AcceptFails, AtChannel, TypeInv, LoopTypes, CountTypes, ConnTypes, Started
<1> QED
  BY <1>1, <1>2 DEF TypeInv

LEMMA NextTypes == TypeInv /\ [Next]_vars => TypeInv'
<1> SUFFICES ASSUME TypeInv, [Next]_vars PROVE TypeInv'
  OBVIOUS
<1>1. CASE UNCHANGED vars
  BY <1>1 DEF TypeInv, CountTypes, ConnTypes, LoopTypes, Started
<1> QED
  BY <1>1, RoundTypes, OwnerTypes, HandleCloseTypes, RunTypes, DestroyTypes,
     AcceptTypes, AcceptFailsTypes, LoopNumbers
  DEF Next, LoopStep, DestroyStep

LEMMA TypeInvariant == Spec => []TypeInv
BY InitTypes, NextTypes, PTL DEF Spec

\* The variables keep their types, at stays within the batch, and descriptors
\* and loops are those there are: accept and getNextLoop find one.
THEOREM TypeCorrect == Spec => []TypeOK
<1>1. TypeInv => TypeOK
  BY TypeParts DEF TypeInv
<1> QED
  BY <1>1, TypeInvariant, PTL

-----------------------------------------------------------------------------
(* Which callbacks wait, and how a step changes that                       *)

\* What is left of a batch s from a on, and the queue q behind it.
After(s, a, q) == SubSeq(s, a, Len(s)) \o q

\* The callbacks loop l has still to run, and whether op for c is one of them.
Rest(l) == After(batch[l], at[l], queue[l])
Waits(l, op, c) == In(Rest(l), Task(op, c))

LEMMA AfterTypes ==
  ASSUME NEW s \in Seq(Tasks), NEW a \in 1..(Len(s) + 1), NEW q \in Seq(Tasks)
  PROVE  /\ SubSeq(s, a, Len(s)) \in Seq(Tasks)
         /\ After(s, a, q) \in Seq(Tasks)
         /\ \A t : In(After(s, a, q), t) => In(s, t) \/ In(q, t)
<1> DEFINE u == SubSeq(s, a, Len(s))
           n == Len(s) + 1 - a
<1>1. u \in Seq(Tasks) /\ Len(u) = n /\ \A k \in 1..n : u[k] = s[a + k - 1]
  OBVIOUS
<1>2. n \in Nat /\ \A k \in 1..n : a + k - 1 \in 1..Len(s)
  OBVIOUS
<1> HIDE DEF u, n
<1>3. /\ u \o q \in Seq(Tasks) /\ Len(u \o q) = n + Len(q)
      /\ \A k \in 1..(n + Len(q)) :
           (u \o q)[k] = IF k <= n THEN u[k] ELSE q[k - n]
  BY <1>1, ConcatProperties
<1>4. \A k \in 1..(n + Len(q)) : k \in 1..n \/ (~(k <= n) /\ k - n \in 1..Len(q))
  BY <1>2
<1>5. ASSUME NEW k \in 1..(n + Len(q)) PROVE In(s, (u \o q)[k]) \/ In(q, (u \o q)[k])
  <2>1. CASE k \in 1..n
    <3>1. (u \o q)[k] = s[a + k - 1] /\ a + k - 1 \in 1..Len(s)
      BY <1>1, <1>2, <1>3, <2>1
    <3> QED
      BY <3>1 DEF In
  <2>2. CASE ~(k <= n) /\ k - n \in 1..Len(q)
    <3>1. (u \o q)[k] = q[k - n]
      BY <1>3, <2>2
    <3> QED
      BY <2>2, <3>1 DEF In
  <2> QED
    BY <1>4, <2>1, <2>2
<1>6. \A t : In(u \o q, t) => In(s, t) \/ In(q, t)
  BY <1>3, <1>5 DEF In
<1> QED
  BY <1>1, <1>3, <1>6 DEF After, u

LEMMA AfterEmpty ==
  ASSUME NEW s \in Seq(Tasks), NEW q \in Seq(Tasks)
  PROVE  /\ After(s, Len(s) + 1, q) = q
         /\ After(<<>>, 1, q) = q
         /\ After(s, 1, <<>>) = s
<1>1. Len(s) \in Nat /\ Len(s) < Len(s) + 1 /\ Len(<<>>) = 0
  OBVIOUS
<1>2. SubSeq(s, Len(s) + 1, Len(s)) = <<>> /\ SubSeq(<<>>, 1, Len(<<>>)) = <<>>
  BY <1>1, SubSeqEmpty
<1>3. SubSeq(s, 1, Len(s)) = s
  BY SubSeqFull
<1> QED
  BY <1>2, <1>3, ConcatEmptySeq DEF After

LEMMA AfterAppend ==
  ASSUME NEW s \in Seq(Tasks), NEW a \in 1..(Len(s) + 1), NEW q \in Seq(Tasks),
         NEW t \in Tasks
  PROVE  After(s, a, Append(q, t)) = Append(After(s, a, q), t)
<1>1. SubSeq(s, a, Len(s)) \in Seq(Tasks) /\ After(s, a, q) \in Seq(Tasks)
  BY AfterTypes
<1>2. <<t>> \in Seq(Tasks) /\ Append(q, t) = q \o <<t>>
      /\ Append(After(s, a, q), t) = After(s, a, q) \o <<t>>
  BY <1>1, AppendIsConcat
<1> DEFINE u == SubSeq(s, a, Len(s))
<1> HIDE DEF u
<1> DEFINE v == <<t>>
<1> HIDE DEF v
<1>3. u \in Seq(Tasks) /\ v \in Seq(Tasks)
  BY <1>1, <1>2 DEF u, v
<1>4. (u \o q) \o v = u \o (q \o v)
  BY <1>3, ConcatAssociative, SMTT(30)
<1>5. After(s, a, q) = u \o q /\ After(s, a, Append(q, t)) = u \o Append(q, t)
  BY DEF After, u
<1>6. Append(q, t) = q \o v /\ Append(After(s, a, q), t) = After(s, a, q) \o v
  BY <1>2 DEF v
<1> QED
  BY <1>4, <1>5, <1>6, Zenon

LEMMA AfterStep ==
  ASSUME NEW s \in Seq(Tasks), NEW a \in 1..Len(s), NEW q \in Seq(Tasks)
  PROVE  /\ After(s, a, q) # <<>> /\ After(s, a, q)[1] = s[a]
         /\ After(s, a + 1, q) = Tail(After(s, a, q))
<1> DEFINE u == After(s, a + 1, q)
<1>1. a \in 1..(Len(s) + 1) /\ a + 1 \in 1..(Len(s) + 1) /\ Len(s) \in a..Len(s)
  OBVIOUS
<1>2. /\ SubSeq(s, a + 1, Len(s)) \in Seq(Tasks) /\ u \in Seq(Tasks)
      /\ <<s[a]>> \in Seq(Tasks)
  BY <1>1, AfterTypes
<1>3. SubSeq(s, a, Len(s)) = <<s[a]>> \o SubSeq(s, a + 1, Len(s))
  BY <1>1, SubSeqRecursiveFirst
<1>4. After(s, a, q) = <<s[a]>> \o u
  <2> DEFINE x == <<s[a]>>
             y == SubSeq(s, a + 1, Len(s))
  <2> HIDE DEF x, y
  <2>1. x \in Seq(Tasks) /\ y \in Seq(Tasks)
    BY <1>2 DEF x, y
  <2>2. (x \o y) \o q = x \o (y \o q)
    BY <2>1, ConcatAssociative, SMTT(30)
  <2>3. After(s, a, q) = SubSeq(s, a, Len(s)) \o q /\ u = y \o q
    BY DEF After, y
  <2>4. SubSeq(s, a, Len(s)) = x \o y
    BY <1>3 DEF x, y
  <2>5. After(s, a, q) = x \o u
    BY <2>2, <2>3, <2>4, Zenon
  <2> QED
    BY <2>5 DEF x
<1> HIDE DEF u
<1>5. <<s[a]>> \o u # <<>> /\ (<<s[a]>> \o u)[1] = s[a] /\ Tail(<<s[a]>> \o u) = u
  BY <1>2
<1> QED
  BY <1>4, <1>5 DEF u

Firsts == \A l \in Loops : EstablishedFirst(Rest(l))

LEMMA SameTask ==
  \A o, p, c, d : Task(o, c) = Task(p, d) <=> o = p /\ c = d
BY DEF Task

LEMMA RestTypes ==
  ASSUME TypeInv, NEW l \in Loops
  PROVE  /\ Rest(l) \in Seq(Tasks)
         /\ batch[l] \in Seq(Tasks) /\ queue[l] \in Seq(Tasks)
         /\ at[l] \in 1..(Len(batch[l]) + 1)
         /\ \A c : Holds(Rest(l), c) => Alive(c)
<1>1. /\ batch[l] \in Seq(Tasks) /\ queue[l] \in Seq(Tasks)
      /\ at[l] \in 1..(Len(batch[l]) + 1)
  BY DEF TypeInv, LoopTypes
<1>2. /\ Rest(l) \in Seq(Tasks)
      /\ \A t : In(Rest(l), t) => In(batch[l], t) \/ In(queue[l], t)
  BY <1>1, AfterTypes DEF Rest
<1>3. ASSUME NEW c, Holds(Rest(l), c) PROVE Alive(c)
  <2>1. PICK t : In(Rest(l), t) /\ t.conn = c
    BY <1>3 DEF Holds, In
  <2>2. In(batch[l], t) \/ In(queue[l], t)
    BY <1>2, <2>1
  <2>3. Holds(batch[l], c) \/ Holds(queue[l], c)
    BY <2>1, <2>2 DEF Holds, In
  <2> QED
    BY <2>3 DEF Alive
<1> QED
  BY <1>1, <1>2, <1>3

LEMMA WaitingIsAlive ==
  ASSUME TypeInv, NEW l \in Loops, NEW op, NEW c, Waits(l, op, c)
  PROVE  Alive(c)
<1>1. Holds(Rest(l), c)
  BY DEF Waits, In, Holds, Task
<1> QED
  BY <1>1, RestTypes

\* No callback is run, queued or dropped.
LEMMA QuietWaits ==
  ASSUME TypeInv,
         \/ UNCHANGED <<queue, batch, at>>
         \/ \E l \in Loops : StartBatch(l) \/ EndBatch(l)
  PROVE  /\ Firsts => Firsts'
         /\ \A l \in Loops : \A op, c : Waits(l, op, c)' <=> Waits(l, op, c)
<1>1. ASSUME NEW k \in Loops PROVE Rest(k)' = Rest(k)
  <2>1. CASE UNCHANGED <<queue, batch, at>>
    BY <2>1 DEF Rest
  <2>2. ASSUME NEW l \in Loops, StartBatch(l) PROVE Rest(k)' = Rest(k)
    <3>1. batch[l] = <<>> /\ at[l] = 1
      BY <2>2 DEF StartBatch, MoveTo, TypeInv, LoopTypes
    <3>2. batch'[l] = queue[l] /\ queue'[l] = <<>> /\ at'[l] = 1
      BY <2>2, <3>1 DEF StartBatch, TypeInv, LoopTypes
    <3>3. k # l => UNCHANGED <<batch[k], queue[k], at[k]>>
      BY <2>2 DEF StartBatch, TypeInv, LoopTypes
    <3>4. After(<<>>, 1, queue[k]) = queue[k] /\ After(queue[k], 1, <<>>) = queue[k]
      BY AfterEmpty, RestTypes
    <3> QED
      BY <3>1, <3>2, <3>3, <3>4 DEF Rest
  <2>3. ASSUME NEW l \in Loops, EndBatch(l) PROVE Rest(k)' = Rest(k)
    <3>1. at[l] = Len(batch[l]) + 1
      BY <2>3, RestTypes DEF EndBatch
    <3>2. batch'[l] = <<>> /\ queue'[l] = queue[l] /\ at'[l] = 1
      BY <2>3 DEF EndBatch, TypeInv, LoopTypes
    <3>3. k # l => UNCHANGED <<batch[k], queue[k], at[k]>>
      BY <2>3 DEF EndBatch, TypeInv, LoopTypes
    <3>4. /\ After(<<>>, 1, queue[k]) = queue[k]
          /\ After(batch[k], Len(batch[k]) + 1, queue[k]) = queue[k]
      BY AfterEmpty, RestTypes
    <3> QED
      BY <3>1, <3>2, <3>3, <3>4 DEF Rest
  <2> QED
    BY <2>1, <2>2, <2>3
<1> QED
  BY <1>1 DEF Firsts, Waits

\* Loop l ends, and what is left in its queue goes with it.
LEMMA DropWaits ==
  ASSUME TypeInv, Firsts, NEW l \in Loops, batch[l] = <<>>,
         queue' = [queue EXCEPT ![l] = <<>>], UNCHANGED <<batch, at>>
  PROVE  /\ Firsts'
         /\ \A k \in Loops : \A op, c : /\ Waits(k, op, c)' => Waits(k, op, c)
                                        /\ k # l /\ Waits(k, op, c) => Waits(k, op, c)'
<1>1. Rest(l)' = <<>>
  <2>1. at[l] = 1 /\ queue'[l] = <<>> /\ batch'[l] = <<>> /\ at'[l] = 1
    BY DEF TypeInv, LoopTypes
  <2>2. After(<<>>, 1, <<>>) = <<>>
    <3>1. <<>> \in Seq(Tasks)
      OBVIOUS
    <3> QED
      BY <3>1, AfterEmpty
  <2> QED
    BY <2>1, <2>2 DEF Rest
<1>2. \A k \in Loops : k # l => Rest(k)' = Rest(k)
  BY DEF Rest, TypeInv, LoopTypes
<1>3. EstablishedFirst(<<>>) /\ \A x : ~In(<<>>, x)
  BY DEF EstablishedFirst, In
<1> QED
  BY <1>1, <1>2, <1>3 DEF Firsts, Waits

\* op for c is queued in loop m, while no callback is run.
LEMMA QueueWaits ==
  ASSUME TypeInv, Firsts, NEW m \in Loops, NEW op \in Ops, NEW c \in Conns,
         op = "connectEstablished" => ~Alive(c),
         QueueInLoop(m, Task(op, c)), UNCHANGED <<batch, at>>
  PROVE  /\ Firsts'
         /\ \A k \in Loops : \A o, d : Waits(k, o, d)'
              <=> Waits(k, o, d) \/ (k = m /\ o = op /\ d = c)
<1>1. Rest(m)' = Append(Rest(m), Task(op, c))
  <2>1. queue'[m] = Append(queue[m], Task(op, c))
    BY DEF QueueInLoop, TypeInv, LoopTypes
  <2>2. Rest(m)' = After(batch[m], at[m], Append(queue[m], Task(op, c)))
    BY <2>1 DEF Rest
  <2>3. /\ batch[m] \in Seq(Tasks) /\ queue[m] \in Seq(Tasks)
        /\ at[m] \in 1..(Len(batch[m]) + 1) /\ Task(op, c) \in Tasks
    BY RestTypes, TaskTypes
  <2> QED
    BY <2>2, <2>3, AfterAppend, Zenon DEF Rest
<1>2. \A k \in Loops : k # m => Rest(k)' = Rest(k)
  BY DEF QueueInLoop, Rest, TypeInv, LoopTypes
<1>3. EstablishedFirst(Append(Rest(m), Task(op, c)))
  BY FirstAppend, RestTypes, TaskTypes DEF Firsts
<1>4. \A x : In(Append(Rest(m), Task(op, c)), x) <=> In(Rest(m), x) \/ x = Task(op, c)
  BY InAppend, RestTypes, TaskTypes
<1>5. Firsts'
  BY <1>1, <1>2, <1>3 DEF Firsts
<1>6. ASSUME NEW k \in Loops, NEW o, NEW d
      PROVE  Waits(k, o, d)' <=> Waits(k, o, d) \/ (k = m /\ o = op /\ d = c)
  <2>1. \A x : In(Rest(k)', x) <=> In(Rest(k), x) \/ (k = m /\ x = Task(op, c))
    BY <1>1, <1>2, <1>4
  <2> QED
    BY <2>1, SameTask DEF Waits
<1> QED
  BY <1>5, <1>6

\* The lines once loop l has run the next callback, before any is queued.
LEMMA StepRest ==
  ASSUME TypeInv, Firsts, NEW l \in Loops, NEW op \in Ops, NEW c \in Conns,
         AtTask(l, op, c)
  PROVE  /\ Waits(l, op, c)
         /\ \A k \in Loops :
              LET r == After(batch'[k], at'[k], queue[k])
              IN /\ r = IF k = l THEN Tail(Rest(k)) ELSE Rest(k)
                 /\ r \in Seq(Tasks)
                 /\ EstablishedFirst(r)
                 /\ at'[k] \in 1..(Len(batch'[k]) + 1)
                 /\ k = l => ~In(r, Task("connectEstablished", c))
                 /\ \A x : /\ In(r, x) => In(Rest(k), x)
                           /\ In(Rest(k), x) => In(r, x) \/ (k = l /\ x = Task(op, c))
<1>1. /\ batch' = batch /\ at'[l] = at[l] + 1 /\ batch[l][at[l]] = Task(op, c)
      /\ at[l] \in 1..Len(batch[l])
      /\ \A k \in Loops : k # l => at'[k] = at[k]
  BY RestTypes DEF AtTask, TypeInv, LoopTypes
<1>2. /\ Rest(l) # <<>> /\ Rest(l)[1] = Task(op, c)
      /\ After(batch[l], at[l] + 1, queue[l]) = Tail(Rest(l))
  <2>1. batch[l] \in Seq(Tasks) /\ queue[l] \in Seq(Tasks)
    BY RestTypes
  <2>2. /\ Rest(l) # <<>> /\ Rest(l)[1] = batch[l][at[l]]
        /\ After(batch[l], at[l] + 1, queue[l]) = Tail(Rest(l))
    BY <1>1, <2>1, AfterStep, Zenon DEF Rest
  <2> QED
    BY <1>1, <2>2
<1>3. Rest(l) \in Seq(Tasks) /\ EstablishedFirst(Rest(l)) /\ Task(op, c).conn = c
  BY RestTypes, TaskTypes DEF Firsts
<1>4. /\ EstablishedFirst(Tail(Rest(l)))
      /\ ~In(Tail(Rest(l)), Task("connectEstablished", c))
  BY <1>2, <1>3, FirstTail
<1>5. /\ Tail(Rest(l)) \in Seq(Tasks)
      /\ \A x : In(Rest(l), x) <=> x = Task(op, c) \/ In(Tail(Rest(l)), x)
  BY <1>2, <1>3, InTail
<1>6. ASSUME NEW k \in Loops, k # l
      PROVE  After(batch'[k], at'[k], queue[k]) = Rest(k)
  BY <1>1, <1>6 DEF Rest
<1>7. ASSUME NEW k \in Loops PROVE at'[k] \in 1..(Len(batch'[k]) + 1)
  <2>1. CASE k = l
    BY <1>1, <2>1
  <2>2. CASE k # l
    BY <1>1, <2>2, RestTypes
  <2> QED
    BY <2>1, <2>2
<1>8. Waits(l, op, c)
  BY <1>5 DEF Waits
<1> DEFINE r(k) == After(batch'[k], at'[k], queue[k])
<1>9. r(l) = Tail(Rest(l))
  BY <1>1, <1>2
<1>10. ASSUME NEW k \in Loops, k # l
       PROVE  r(k) = Rest(k) /\ Rest(k) \in Seq(Tasks) /\ EstablishedFirst(Rest(k))
  BY <1>6, <1>10, RestTypes DEF Firsts
<1> HIDE DEF r
<1>11. ASSUME NEW k \in Loops
       PROVE  /\ r(k) = IF k = l THEN Tail(Rest(k)) ELSE Rest(k)
              /\ r(k) \in Seq(Tasks)
              /\ EstablishedFirst(r(k))
              /\ k = l => ~In(r(k), Task("connectEstablished", c))
              /\ \A x : /\ In(r(k), x) => In(Rest(k), x)
                        /\ In(Rest(k), x)
                             => In(r(k), x) \/ (k = l /\ x = Task(op, c))
  <2>1. CASE k = l
    BY <1>4, <1>5, <1>9, <2>1, Zenon
  <2>2. CASE k # l
    BY <1>10, <2>2, Zenon
  <2> QED
    BY <2>1, <2>2
<1> QED
  BY <1>7, <1>8, <1>11, Zenon DEF r

\* Loop l runs op for c, and nothing is queued.
LEMMA RunWaits ==
  ASSUME TypeInv, Firsts, NEW l \in Loops, NEW op \in Ops, NEW c \in Conns,
         AtTask(l, op, c), UNCHANGED queue
  PROVE  /\ Firsts'
         /\ Waits(l, op, c) /\ ~Waits(l, "connectEstablished", c)'
         /\ \A k \in Loops : \A o, d :
              /\ Waits(k, o, d)' => Waits(k, o, d)
              /\ Waits(k, o, d) => Waits(k, o, d)' \/ (k = l /\ o = op /\ d = c)
<1>1. /\ Waits(l, op, c)
      /\ \A k \in Loops :
           LET r == After(batch'[k], at'[k], queue[k])
           IN /\ EstablishedFirst(r)
              /\ k = l => ~In(r, Task("connectEstablished", c))
              /\ \A x : /\ In(r, x) => In(Rest(k), x)
                        /\ In(Rest(k), x) => In(r, x) \/ (k = l /\ x = Task(op, c))
  BY StepRest
<1>2. \A k \in Loops : Rest(k)' = After(batch'[k], at'[k], queue[k])
  BY DEF Rest
<1>3. \A k \in Loops :
        /\ EstablishedFirst(Rest(k)')
        /\ k = l => ~In(Rest(k)', Task("connectEstablished", c))
        /\ \A x : /\ In(Rest(k)', x) => In(Rest(k), x)
                  /\ In(Rest(k), x) => In(Rest(k)', x) \/ (k = l /\ x = Task(op, c))
  BY <1>1, <1>2
<1>4. Firsts' /\ ~Waits(l, "connectEstablished", c)'
  BY <1>3 DEF Firsts, Waits
<1>5. ASSUME NEW k \in Loops, NEW o, NEW d
      PROVE  /\ Waits(k, o, d)' => Waits(k, o, d)
             /\ Waits(k, o, d) => Waits(k, o, d)' \/ (k = l /\ o = op /\ d = c)
  BY <1>3, SameTask DEF Waits
<1> QED
  BY <1>1, <1>4, <1>5

\* Loop l runs op for c, in which p for c is queued in loop m.
LEMMA RunQueueWaits ==
  ASSUME TypeInv, Firsts, NEW l \in Loops, NEW op \in Ops, NEW c \in Conns,
         NEW m \in Loops, NEW p \in Ops \ {"connectEstablished"},
         AtTask(l, op, c), QueueInLoop(m, Task(p, c))
  PROVE  /\ Firsts'
         /\ Waits(l, op, c) /\ Waits(m, p, c)'
         /\ \A k \in Loops : \A o, d :
              /\ Waits(k, o, d)' => Waits(k, o, d) \/ (k = m /\ o = p /\ d = c)
              /\ Waits(k, o, d) => Waits(k, o, d)' \/ (k = l /\ o = op /\ d = c)
<1> DEFINE r(k) == After(batch'[k], at'[k], queue[k])
           t == Task(p, c)
<1>1. t \in Tasks /\ t.op = p
  BY TaskTypes
<1>2. \A k \in Loops : /\ r(k) \in Seq(Tasks) /\ EstablishedFirst(r(k))
                       /\ batch'[k] \in Seq(Tasks) /\ queue[k] \in Seq(Tasks)
                       /\ at'[k] \in 1..(Len(batch'[k]) + 1)
  BY StepRest, RestTypes DEF AtTask
<1>3. Rest(m)' = Append(r(m), t)
  <2>1. queue'[m] = Append(queue[m], t)
    BY DEF QueueInLoop, TypeInv, LoopTypes
  <2>2. After(batch'[m], at'[m], Append(queue[m], t)) = Append(r(m), t)
    BY <1>1, <1>2, AfterAppend
  <2>3. Rest(m)' = After(batch'[m], at'[m], queue'[m])
    BY DEF Rest
  <2> QED
    BY <2>1, <2>2, <2>3
<1>4. \A k \in Loops : k # m => Rest(k)' = r(k)
  BY DEF QueueInLoop, Rest, TypeInv, LoopTypes
<1>5. EstablishedFirst(Append(r(m), t))
  BY <1>1, <1>2, FirstAppend
<1>6. \A x : In(Append(r(m), t), x) <=> In(r(m), x) \/ x = t
  BY <1>1, <1>2, InAppend
<1>7. /\ Waits(l, op, c)
      /\ \A k \in Loops : \A x : /\ In(r(k), x) => In(Rest(k), x)
                                 /\ In(Rest(k), x) => In(r(k), x) \/ (k = l /\ x = Task(op, c))
  BY StepRest
<1> HIDE DEF r
<1>8. \A k \in Loops :
        /\ EstablishedFirst(Rest(k)')
        /\ \A x : In(Rest(k)', x) <=> In(r(k), x) \/ (k = m /\ x = t)
  BY <1>2, <1>3, <1>4, <1>5, <1>6
<1> HIDE DEF t
<1>9. \A k \in Loops : \A x :
        /\ In(Rest(k)', x) => In(Rest(k), x) \/ (k = m /\ x = t)
        /\ In(Rest(k), x) => In(Rest(k)', x) \/ (k = l /\ x = Task(op, c))
  BY <1>7, <1>8
<1>10. Firsts'
  BY <1>8 DEF Firsts
<1>11. Waits(m, p, c)'
  BY <1>8 DEF Waits, t
<1>12. ASSUME NEW k \in Loops, NEW o, NEW d
       PROVE  /\ Waits(k, o, d)' => Waits(k, o, d) \/ (k = m /\ o = p /\ d = c)
              /\ Waits(k, o, d) => Waits(k, o, d)' \/ (k = l /\ o = op /\ d = c)
  BY <1>9, SameTask DEF Waits, t
<1> QED
  BY <1>7, <1>10, <1>11, <1>12

-----------------------------------------------------------------------------
(* Connections and channels: the invariant                                 *)

\* Of a connection that has not been accepted there is nothing.
Unborn == \A c \in Conns : c >= nextConnId => ~Alive(c) /\ index[c] = "kNew"

OwnFd ==
  \A c \in Conns : Alive(c) =>
    /\ fd[c] \in Fds
    /\ \A d \in Conns : Alive(d) /\ d # c => fd[d] # fd[c]

\* What is run on a connection's channel is run in its own loop.
OwnLoop ==
  \A l \in Loops, c \in Conns :
    Waits(l, "connectEstablished", c) \/ Waits(l, "connectDestroyed", c)
      => ioLoop[c] = l

\* connectDestroyed for c waits in its loop or is still to be queued there.
Claimed(c) == \/ c \in connections
              \/ Waits(0, "removeConnectionInLoop", c)
              \/ Waits(ioLoop[c], "connectDestroyed", c)

\* The connectDestroyed of a connection whose loop runs is not forgotten
\* while its channel is registered or is to be.
Wanted ==
  \A c \in Conns :
    /\ index[c] # "kNew" \/ Waits(ioLoop[c], "connectEstablished", c)
    /\ place[ioLoop[c]] # "stopped"
    => Claimed(c)

\* A loop handles events of its own channels, before they are closed.
Fires ==
  \A l \in Loops, c \in Conns :
    c \in active[l] => ioLoop[c] = l /\ index[c] = "kAdded"

\* ChannelsAgree, where Alive follows from Wanted.
Watched ==
  \A l \in Loops : place[l] # "stopped" =>
    \A f \in Fds, c \in Conns :
      channels[l][f] = c <=> ioLoop[c] = l /\ fd[c] = f /\ index[c] # "kNew"

ConnInv == /\ TypeInv /\ Firsts /\ Unborn /\ OwnFd /\ OwnLoop /\ Wanted
           /\ Fires /\ Watched

\* A loop's number.
LEMMA IoLoops ==
  ASSUME TypeInv, NEW c \in Conns
  PROVE  ioLoop[c] \in Loops
BY Numbers DEF TypeInv, ConnTypes

LEMMA ClaimedIsAlive ==
  ASSUME TypeInv, NEW c \in Conns, Claimed(c)
  PROVE  Alive(c)
BY WaitingIsAlive, IoLoops, LoopNumbers DEF Claimed, Alive

LEMMA RegisteredIsAlive ==
  ASSUME TypeInv, Wanted, NEW c \in Conns, index[c] # "kNew",
         place[ioLoop[c]] # "stopped"
  PROVE  Alive(c)
BY ClaimedIsAlive DEF Wanted

LEMMA FiringIsAlive ==
  ASSUME TypeInv, Wanted, Fires, NEW l \in Loops, NEW c \in Conns, c \in active[l]
  PROVE  Alive(c)
<1>1. place[l] = "event"
  BY DEF TypeInv, LoopTypes
<1> QED
  BY <1>1, RegisteredIsAlive DEF Fires

LEMMA InitConn == Init => ConnInv
<1> SUFFICES ASSUME Init PROVE ConnInv
  OBVIOUS
<1>1. TypeInv
  BY InitTypes
<1>2. ASSUME NEW l \in Loops
      PROVE  /\ Rest(l) = <<>> /\ queue[l] = <<>> /\ batch[l] = <<>>
             /\ place[l] = "stopped" /\ active[l] = {}
  <2>1. /\ queue[l] = <<>> /\ batch[l] = <<>> /\ at[l] = 1
        /\ place[l] = "stopped" /\ active[l] = {}
    BY DEF Init
  <2>2. After(<<>>, 1, <<>>) = <<>>
    <3>1. <<>> \in Seq(Tasks)
      OBVIOUS
    <3> QED
      BY <3>1, AfterEmpty
  <2> QED
    BY <2>1, <2>2 DEF Rest
<1>3. EstablishedFirst(<<>>) /\ (\A x : ~In(<<>>, x)) /\ \A c : ~Holds(<<>>, c)
  BY DEF EstablishedFirst, In, Holds
<1>4. \A c \in Conns : ~Alive(c) /\ index[c] = "kNew"
  BY <1>2, <1>3, NoneIsNoConn DEF Alive, Init
<1>5. \A l \in Loops : \A op, c : ~Waits(l, op, c)
  BY <1>2, <1>3 DEF Waits
<1> QED
  BY <1>1, <1>2, <1>3, <1>4, <1>5, IoLoops
  DEF ConnInv, Firsts, Unborn, OwnFd, OwnLoop, Wanted, Fires, Watched

-----------------------------------------------------------------------------
(* Nobody comes back                                                       *)

\* Nothing is queued but what was queued.
LEMMA AliveShrinks ==
  ASSUME TypeInv,
         \A l \in Loops : /\ queue'[l] \in {queue[l], <<>>}
                          /\ batch'[l] \in {batch[l], queue[l], <<>>},
         NEW c \in Conns, c \in connections' \/ c = held' => Alive(c), Alive(c)'
  PROVE  Alive(c)
<1>1. ~Holds(<<>>, c)
  BY DEF Holds
<1>2. \A l \in Loops : Holds(queue'[l], c) \/ Holds(batch'[l], c) => Alive(c)
  BY <1>1 DEF Alive
<1> QED
  BY <1>2 DEF Alive

LEMMA AliveQueued ==
  ASSUME TypeInv, NEW m \in Loops, NEW op \in Ops, NEW d \in Conns, Alive(d),
         QueueInLoop(m, Task(op, d)), UNCHANGED batch,
         NEW c \in Conns, c \in connections' \/ c = held' => Alive(c), Alive(c)'
  PROVE  Alive(c)
<1>1. /\ queue'[m] = Append(queue[m], Task(op, d))
      /\ \A l \in Loops : l # m => queue'[l] = queue[l]
  BY DEF QueueInLoop, TypeInv, LoopTypes
<1>2. Holds(queue'[m], c) => Holds(queue[m], c) \/ c = d
  BY <1>1, InAppend, TaskTypes, RestTypes
<1>3. \A l \in Loops : Holds(queue'[l], c) \/ Holds(batch'[l], c) => Alive(c)
  BY <1>1, <1>2 DEF Alive
<1> QED
  BY <1>3 DEF Alive

LEMMA AtTaskIsAlive ==
  ASSUME TypeInv, NEW l \in Loops, NEW op, NEW c, AtTask(l, op, c)
  PROVE  Alive(c)
<1>1. at[l] \in 1..Len(batch[l]) /\ batch[l][at[l]].conn = c
  BY RestTypes DEF AtTask, Task
<1> QED
  BY <1>1 DEF Alive, Holds

\* accept alone brings a connection to life.
LEMMA GoneStays ==
  ASSUME TypeInv, Wanted, Fires, [Next]_vars, NEW c \in Conns, Alive(c)'
  PROVE  Alive(c) \/ (Accept /\ c = nextConnId)
<1>1. CASE UNCHANGED vars
  BY <1>1 DEF Alive
<1>2. ASSUME NEW l \in Loops,
             \/ EnterLoop(l) \/ CheckQuit(l) \/ Poll(l)
         \/ StartBatch(l) \/ EndBatch(l)
      PROVE  Alive(c)
  <2>1. \A k \in Loops : /\ queue'[k] \in {queue[k], <<>>}
                         /\ batch'[k] \in {batch[k], queue[k], <<>>}
    BY <1>2
    DEF EnterLoop, CheckQuit, Poll, StartBatch, EndBatch, TypeInv, LoopTypes
  <2> QED
    BY <1>2, <2>1, AliveShrinks
    DEF EnterLoop, CheckQuit, Poll, StartBatch, EndBatch, Alive
<1>3. CASE \/ Start \/ QuitMain \/ DestroyServer \/ WakeSubloop \/ ServerGone
           \/ ClientConnects \/ AcceptFails
  BY <1>3
  DEF Start, QuitMain, DestroyServer, WakeSubloop, ServerGone, ClientConnects,
      AcceptFails, AtChannel, Alive
<1>4. CASE (\E l \in Loops : QuitSubloop(l)) \/ \E d \in Conns : PeerHangsUp(d)
  BY <1>4 DEF QuitSubloop, PeerHangsUp, Alive
<1>5. CASE DestroyMembers
  BY <1>5, AliveShrinks, NoneIsNoConn DEF DestroyMembers, Alive
<1>6. CASE DestroyMainLoop
  <2>1. \A k \in Loops : queue'[k] \in {queue[k], <<>>}
    BY <1>6 DEF DestroyMainLoop, TypeInv, LoopTypes
  <2> QED
    BY <1>6, <2>1, AliveShrinks DEF DestroyMainLoop, Alive
<1>7. ASSUME NEW l \in Loops, NEW d \in Conns, HandleClose(l, d) PROVE Alive(c)
  <2>1. Alive(d)
    BY <1>7, FiringIsAlive DEF HandleClose, AtChannel
  <2>2. /\ UNCHANGED <<batch, held>> /\ connections' \subseteq connections
        /\ \E m \in Loops, op \in Ops : QueueInLoop(m, Task(op, d))
    BY <1>7, IoLoops, LoopNumbers
    DEF HandleClose, AtChannel, RemoveConnectionInLoop, Ops
  <2> QED
    BY <2>1, <2>2, AliveQueued DEF Alive
<1>8. ASSUME NEW l \in Loops, NEW d \in Conns,
             RunEstablished(l, d) \/ RunDestroyed(l, d)
      PROVE  Alive(c)
  BY <1>8 DEF RunEstablished, RunDestroyed, AtTask, Alive
<1>9. ASSUME NEW l \in Loops, NEW d \in Conns, RunRemoval(l, d) PROVE Alive(c)
  <2>1. Alive(d)
    BY <1>9, AtTaskIsAlive DEF RunRemoval
  <2>2. /\ UNCHANGED <<batch, held>> /\ connections' \subseteq connections
        /\ \E m \in Loops, op \in Ops : QueueInLoop(m, Task(op, d))
    BY <1>9, IoLoops DEF RunRemoval, AtTask, RemoveConnectionInLoop, Ops
  <2> QED
    BY <2>1, <2>2, AliveQueued DEF Alive
<1>10. ASSUME NEW d \in Conns, DestroyConnection(d) PROVE Alive(c)
  <2>1. /\ Alive(d) /\ UNCHANGED batch
        /\ connections' \subseteq connections /\ held' = d
    BY <1>10 DEF DestroyConnection, Alive
  <2>2. CASE ioLoop[d] = 0
    BY <1>10, <2>1, <2>2 DEF DestroyConnection, Alive
  <2>3. CASE ioLoop[d] # 0
    BY <1>10, <2>1, <2>3, AliveQueued, IoLoops DEF DestroyConnection, Alive, Ops
  <2> QED
    BY <2>2, <2>3
<1>11. ASSUME Accept, c # nextConnId PROVE Alive(c)
  <2>1. /\ UNCHANGED <<batch, held>> /\ connections' = connections \cup {nextConnId}
    BY <1>11 DEF Accept, AtChannel
  <2>2. CASE NextLoop = 0
    BY <1>11, <2>1, <2>2 DEF Accept, Alive
  <2>3. CASE NextLoop # 0
    <3> DEFINE t == Task("connectEstablished", nextConnId)
    <3>1. nextConnId \in Conns /\ NextLoop \in Loops
      BY <1>11, Numbers, ServerAssumption DEF Accept, AtChannel, TypeInv, Started, Conns
    <3>2. t \in Tasks /\ t.conn = nextConnId
      BY <3>1, TaskTypes DEF Ops
    <3>3. \A k \in Loops : queue'[k] = IF k = NextLoop THEN Append(queue[k], t) ELSE queue[k]
      BY <1>11, <2>3 DEF Accept, QueueInLoop, TypeInv, LoopTypes
    <3>4. Holds(Append(queue[NextLoop], t), c) => Holds(queue[NextLoop], c)
      BY <1>11, <3>1, <3>2, InAppend, RestTypes
    <3> HIDE DEF t
    <3> QED
      BY <1>11, <2>1, <3>1, <3>3, <3>4 DEF Alive
  <2> QED
    BY <2>2, <2>3
<1>12. CASE Next
  BY <1>2, <1>3, <1>4, <1>5, <1>6, <1>7, <1>8, <1>9, <1>10, <1>11, <1>12
  DEF Next, LoopStep, DestroyStep
<1> QED
  BY <1>1, <1>12

-----------------------------------------------------------------------------
(* Every step keeps the invariant                                          *)

\* Steps that register and remove no channel.
LEMMA SteadyStep ==
  ASSUME ConnInv, TypeInv', Firsts', Fires',
         UNCHANGED <<ioLoop, fd, nextConnId, channels>>,
         \A c \in Conns : index'[c] = "kNew" <=> index[c] = "kNew",
         \A c \in Conns : Alive(c)' => Alive(c),
         \A k \in Loops, c \in Conns :
           /\ place'[k] # "stopped" => place[k] # "stopped"
           /\ Waits(k, "connectEstablished", c)' => Waits(k, "connectEstablished", c)
           /\ Waits(k, "connectDestroyed", c)' => ioLoop[c] = k,
         \A c \in Conns : place'[ioLoop[c]] # "stopped" /\ Claimed(c) => Claimed(c)'
  PROVE  ConnInv'
<1>1. Unborn' /\ OwnFd'
  BY DEF ConnInv, Unborn, OwnFd
<1>2. OwnLoop'
  BY DEF ConnInv, OwnLoop
<1>3. Wanted'
  BY IoLoops DEF ConnInv, Wanted
<1>4. Watched'
  BY DEF ConnInv, Watched
<1> QED
  BY <1>1, <1>2, <1>3, <1>4 DEF ConnInv

\* connectDestroyed of c, whose loop runs no connectEstablished for it later.
LEMMA DestroyedStep ==
  ASSUME ConnInv, TypeInv', Firsts', Fires', NEW c \in Conns, Alive(c),
         ConnectDestroyed(c), UNCHANGED <<ioLoop, fd, nextConnId, place>>,
         \A d \in Conns : Alive(d)' => Alive(d),
         \A k \in Loops, d \in Conns :
           /\ Waits(k, "connectEstablished", d)' => Waits(k, "connectEstablished", d)
           /\ Waits(k, "connectDestroyed", d)' => Waits(k, "connectDestroyed", d),
         place[ioLoop[c]] = "stopped" \/ ~Waits(ioLoop[c], "connectEstablished", c)',
         \A d \in Conns : d # c /\ Claimed(d) => Claimed(d)'
  PROVE  ConnInv'
<1>1. /\ index'[c] = "kNew"
      /\ \A d \in Conns : d # c => index'[d] = index[d]
  BY DEF ConnectDestroyed, ConnInv, TypeInv, ConnTypes
<1>2. Unborn' /\ OwnFd' /\ OwnLoop'
  BY <1>1 DEF ConnInv, Unborn, OwnFd, OwnLoop
<1>3. Wanted'
  BY <1>1, IoLoops DEF ConnInv, Wanted
<1>4. ASSUME NEW l \in Loops, place[l] # "stopped", NEW f \in Fds, NEW d \in Conns
      PROVE  channels'[l][f] = d <=> ioLoop[d] = l /\ fd[d] = f /\ index'[d] # "kNew"
  <2>1. channels'[l][f] = IF l = ioLoop[c] /\ f = fd[c] THEN None ELSE channels[l][f]
    BY DEF ConnectDestroyed, ConnInv, TypeInv, ConnTypes
  <2>2. channels[l][f] = d <=> ioLoop[d] = l /\ fd[d] = f /\ index[d] # "kNew"
    BY <1>4 DEF ConnInv, Watched
  <2>3. CASE l = ioLoop[c] /\ f = fd[c]
    <3>1. d # c /\ ioLoop[d] = l /\ fd[d] = f => index[d] = "kNew"
      BY <1>4, <2>3, RegisteredIsAlive DEF ConnInv, OwnFd
    <3> QED
      BY <1>1, <2>1, <2>3, <3>1, NoneIsNoConn
  <2>4. CASE ~(l = ioLoop[c] /\ f = fd[c])
    BY <1>1, <2>1, <2>2, <2>4
  <2> QED
    BY <2>3, <2>4
<1>5. Watched'
  BY <1>4 DEF Watched
<1> QED
  BY <1>2, <1>3, <1>5 DEF ConnInv

\* A channel that fires goes on to be one of its loop's.
LEMMA FiresStays ==
  ASSUME ConnInv, UNCHANGED ioLoop,
         \A l \in Loops : active'[l] \subseteq active[l],
         \A c \in Conns : index'[c] = index[c]
                            \/ \A l \in Loops : c \notin active'[l]
  PROVE  Fires'
BY DEF ConnInv, Fires

\* Waits, and with it Claimed, are left alone.
LEMMA ClaimedStays ==
  ASSUME TypeInv, UNCHANGED <<connections, ioLoop>>,
         \A k \in Loops : \A o, d : Waits(k, o, d) => Waits(k, o, d)',
         NEW c \in Conns, Claimed(c)
  PROVE  Claimed(c)'
BY IoLoops, LoopNumbers DEF Claimed

LEMMA RoundConn ==
  ASSUME ConnInv, TypeInv', NEW l \in Loops,
         \/ EnterLoop(l) \/ CheckQuit(l) \/ Poll(l)
         \/ StartBatch(l) \/ EndBatch(l)
  PROVE  ConnInv'
<1>1. /\ UNCHANGED <<index, ioLoop, fd, nextConnId, channels, connections>>
      /\ \A k \in Loops : place'[k] # "stopped" => place[k] # "stopped"
  BY DEF EnterLoop, CheckQuit, Poll, StartBatch, EndBatch, MoveTo, ConnInv,
         TypeInv, LoopTypes
<1>2. \A c \in Conns : Alive(c)' => Alive(c)
  <2>1. Next
    BY DEF Next, LoopStep
  <2>2. ~Accept
    BY DEF Accept, AtChannel, EnterLoop, CheckQuit, Poll, StartBatch, EndBatch,
           MoveTo, ConnInv, TypeInv, LoopTypes
  <2> QED
    BY <2>1, <2>2, GoneStays DEF ConnInv
<1>3. Fires'
  <2>1. CASE Poll(l)
    <3>1. active' = [active EXCEPT ![l] = Ready(l)]
      BY <2>1 DEF Poll
    <3>2. \A c \in Conns : c \in Ready(l) => ioLoop[c] = l /\ index[c] = "kAdded"
      BY NoneIsNoConn DEF Ready
    <3>3. /\ active'[l] = Ready(l)
          /\ \A k \in Loops : k # l => active'[k] = active[k]
      BY <3>1 DEF ConnInv, TypeInv, LoopTypes
    <3> QED
      BY <1>1, <3>2, <3>3 DEF ConnInv, Fires
  <2>2. CASE ~Poll(l)
    BY <1>1, <2>2, FiresStays DEF EnterLoop, CheckQuit, StartBatch, EndBatch
  <2> QED
    BY <2>1, <2>2
<1>4. CASE ~(CheckQuit(l) /\ quit[l] /\ l # 0)
  <2>1. /\ Firsts'
        /\ \A k \in Loops : \A op, c : Waits(k, op, c)' <=> Waits(k, op, c)
    <3>1. \/ UNCHANGED <<queue, batch, at>>
          \/ \E k \in Loops : StartBatch(k) \/ EndBatch(k)
      BY <1>4 DEF EnterLoop, CheckQuit, Poll
    <3> QED
      BY <3>1, QuietWaits DEF ConnInv
  <2>2. \A c \in Conns : Claimed(c) => Claimed(c)'
    BY <1>1, <2>1, ClaimedStays DEF ConnInv
  <2> QED
    BY <1>1, <1>2, <1>3, <2>1, <2>2, SteadyStep DEF ConnInv, OwnLoop
<1>5. CASE CheckQuit(l) /\ quit[l] /\ l # 0
  <2>1. /\ batch[l] = <<>> /\ queue' = [queue EXCEPT ![l] = <<>>]
        /\ UNCHANGED <<batch, at>> /\ place'[l] = "stopped"
    BY <1>5 DEF CheckQuit, MoveTo, ConnInv, TypeInv, LoopTypes
  <2>2. /\ Firsts'
        /\ \A k \in Loops : \A op, c : /\ Waits(k, op, c)' => Waits(k, op, c)
                                       /\ k # l /\ Waits(k, op, c) => Waits(k, op, c)'
    BY <2>1, DropWaits DEF ConnInv
  <2>3. ASSUME NEW c \in Conns, place'[ioLoop[c]] # "stopped", Claimed(c)
        PROVE  Claimed(c)'
    BY <1>1, <1>5, <2>1, <2>2, <2>3, IoLoops, LoopNumbers DEF ConnInv, Claimed
  <2> QED
    BY <1>1, <1>2, <1>3, <2>2, <2>3, SteadyStep DEF ConnInv, OwnLoop
<1> QED
  BY <1>4, <1>5

LEMMA StartConn ==
  ASSUME ConnInv, TypeInv', Start
  PROVE  ConnInv'
<1>1. UNCHANGED <<index, ioLoop, fd, nextConnId, channels, connections, active,
                  queue, batch, at, held>>
  BY DEF Start
<1>2. \A c \in Conns : ~Alive(c) /\ index[c] = "kNew"
  BY Numbers DEF Start, ConnInv, TypeInv, Started, Unborn, Conns
<1>3. \A l \in Loops, f \in Fds : channels[l][f] = None
  BY DEF Start, ConnInv, TypeInv, Started
<1>4. \A c \in Conns : Alive(c)' <=> Alive(c)
  BY <1>1 DEF Alive
<1>5. /\ Firsts'
      /\ \A k \in Loops : \A op, c : Waits(k, op, c)' <=> Waits(k, op, c)
  BY <1>1, QuietWaits DEF ConnInv
<1>6. \A k \in Loops, c \in Conns : \A op : ~Waits(k, op, c)
  BY <1>2, WaitingIsAlive DEF ConnInv
<1>7. Unborn' /\ OwnFd' /\ OwnLoop' /\ Fires'
  BY <1>1, <1>2, <1>4, <1>5 DEF ConnInv, Unborn, OwnFd, OwnLoop, Fires
<1>8. Wanted'
  BY <1>1, <1>2, <1>5, <1>6, IoLoops DEF ConnInv, Wanted
<1>9. Watched'
  BY <1>1, <1>2, <1>3, NoneIsNoConn DEF Watched
<1> QED
  BY <1>5, <1>7, <1>8, <1>9 DEF ConnInv

\* Steps of the owner, of clients, and accept that fails.
LEMMA OwnerConn ==
  ASSUME ConnInv, TypeInv',
         \/ UNCHANGED vars
         \/ QuitMain \/ DestroyServer \/ DestroyMembers \/ WakeSubloop
         \/ ServerGone \/ DestroyMainLoop \/ ClientConnects \/ AcceptFails
         \/ \E l \in Loops : QuitSubloop(l)
         \/ \E c \in Conns : PeerHangsUp(c)
  PROVE  ConnInv'
<1>1. /\ UNCHANGED <<index, ioLoop, fd, nextConnId, channels, connections,
                     place, batch, at>>
      /\ \A l \in Loops : active'[l] \subseteq active[l]
  <2>1. CASE AcceptFails
    BY <2>1 DEF AcceptFails, AtChannel, ConnInv, TypeInv, LoopTypes
  <2>2. CASE ~AcceptFails
    BY <2>2
    DEF QuitMain, DestroyServer, DestroyMembers, WakeSubloop, ServerGone,
        DestroyMainLoop, ClientConnects, QuitSubloop, PeerHangsUp
  <2> QED
    BY <2>1, <2>2
<1>2. \A c \in Conns : Alive(c)' => Alive(c)
  <2>1. [Next]_vars
    BY LoopNumbers DEF Next, LoopStep, DestroyStep
  <2>2. nextConnId' # nextConnId + 1
    BY <1>1, Numbers DEF ConnInv
  <2> QED
    BY <2>1, <2>2, GoneStays DEF ConnInv, Accept
<1>3. Fires'
  BY <1>1, FiresStays
<1>4. CASE ~DestroyMainLoop
  <2>1. UNCHANGED queue
    BY <1>4
    DEF QuitMain, DestroyServer, DestroyMembers, WakeSubloop, ServerGone,
        ClientConnects, AcceptFails, QuitSubloop, PeerHangsUp
  <2>2. /\ Firsts'
        /\ \A k \in Loops : \A op, c : Waits(k, op, c)' <=> Waits(k, op, c)
    BY <1>1, <2>1, QuietWaits DEF ConnInv
  <2>3. \A c \in Conns : Claimed(c) => Claimed(c)'
    BY <1>1, <2>2, ClaimedStays DEF ConnInv
  <2> QED
    BY <1>1, <1>2, <1>3, <2>2, <2>3, SteadyStep DEF ConnInv, OwnLoop
<1>5. CASE DestroyMainLoop
  <2>1. \A l \in Loops : place[l] = "stopped"
    BY <1>5 DEF DestroyMainLoop, ConnInv, TypeInv, Started
  <2>2. batch[0] = <<>> /\ queue' = [queue EXCEPT ![0] = <<>>]
    BY <1>5, <2>1, LoopNumbers DEF DestroyMainLoop, ConnInv, TypeInv, LoopTypes
  <2>3. /\ Firsts'
        /\ \A k \in Loops : \A op, c : Waits(k, op, c)' => Waits(k, op, c)
    BY <1>1, <2>2, DropWaits, LoopNumbers DEF ConnInv
  <2> QED
    BY <1>1, <1>2, <1>3, <2>1, <2>3, SteadyStep, IoLoops DEF ConnInv, OwnLoop
<1> QED
  BY <1>4, <1>5

LEMMA HandleCloseConn ==
  ASSUME ConnInv, TypeInv', NEW l \in Loops, NEW c \in Conns, HandleClose(l, c)
  PROVE  ConnInv'
<1>1. /\ UNCHANGED <<ioLoop, fd, nextConnId, channels, place, batch, at>>
      /\ c \in active[l]
      /\ active'[l] = active[l] \ {c}
      /\ \A k \in Loops : k # l => active'[k] = active[k]
  BY DEF HandleClose, AtChannel, ConnInv, TypeInv, LoopTypes
<1>2. ioLoop[c] = l /\ index[c] = "kAdded" /\ Alive(c)
  BY <1>1, FiringIsAlive DEF ConnInv, Fires
<1>3. /\ index'[c] = "kDeleted"
      /\ \A d \in Conns : d # c => index'[d] = index[d]
  BY <1>2 DEF HandleClose, ConnInv, TypeInv, ConnTypes
<1>4. \A d \in Conns : Alive(d)' => Alive(d)
  <2>1. Next
    BY DEF Next, LoopStep
  <2>2. nextConnId' # nextConnId + 1
    BY <1>1, Numbers DEF ConnInv
  <2> QED
    BY <2>1, <2>2, GoneStays DEF ConnInv, Accept
<1>5. Fires'
  BY <1>1, <1>2, <1>3 DEF ConnInv, Fires
<1>6. CASE l = 0
  <2>1. /\ QueueInLoop(l, Task("connectDestroyed", c))
        /\ connections' = connections \ {c}
    BY <1>2, <1>6 DEF HandleClose, RemoveConnectionInLoop
  <2>2. /\ Firsts'
        /\ \A k \in Loops : \A o, d : Waits(k, o, d)'
             <=> Waits(k, o, d) \/ (k = l /\ o = "connectDestroyed" /\ d = c)
    BY <1>1, <2>1, QueueWaits DEF ConnInv, Ops
  <2>3. ASSUME NEW d \in Conns, Claimed(d) PROVE Claimed(d)'
    BY <1>1, <1>2, <2>1, <2>2, <2>3, IoLoops, LoopNumbers DEF ConnInv, Claimed
  <2> QED
    BY <1>1, <1>2, <1>3, <1>4, <1>5, <2>2, <2>3, SteadyStep DEF ConnInv, OwnLoop
<1>7. CASE l # 0
  <2>1. /\ QueueInLoop(0, Task("removeConnectionInLoop", c))
        /\ UNCHANGED connections
    BY <1>7 DEF HandleClose
  <2>2. /\ Firsts'
        /\ \A k \in Loops : \A o, d : Waits(k, o, d)'
             <=> Waits(k, o, d) \/ (k = 0 /\ o = "removeConnectionInLoop" /\ d = c)
    BY <1>1, <2>1, QueueWaits, LoopNumbers DEF ConnInv, Ops
  <2>3. \A d \in Conns : Claimed(d) => Claimed(d)'
    BY <1>1, <2>1, <2>2, ClaimedStays DEF ConnInv
  <2> QED
    BY <1>1, <1>2, <1>3, <1>4, <1>5, <2>2, <2>3, SteadyStep DEF ConnInv, OwnLoop
<1> QED
  BY <1>6, <1>7

\* Once c is entered under its descriptor, every other channel of loop l is
\* still that of its connection.
LEMMA EstablishedWatched ==
  ASSUME ConnInv, TypeInv', NEW c \in Conns, NEW l \in Loops, NEW f \in Fds,
         ConnectEstablished(c, l, f), ioLoop'[c] = l, fd'[c] = f,
         \A d \in Conns : Alive(d) /\ d # c => fd[d] # f,
         \A d \in Conns : d # c => ioLoop'[d] = ioLoop[d] /\ fd'[d] = fd[d],
         index[c] = "kNew" \/ (ioLoop[c] = l /\ fd[c] = f),
         UNCHANGED place
  PROVE  Watched'
<1>1. /\ index'[c] = "kAdded"
      /\ \A d \in Conns : d # c => index'[d] = index[d]
  BY DEF ConnectEstablished, ConnInv, TypeInv, ConnTypes
<1>2. ASSUME NEW k \in Loops, place[k] # "stopped", NEW g \in Fds, NEW d \in Conns
      PROVE  channels'[k][g] = d <=> ioLoop'[d] = k /\ fd'[d] = g /\ index'[d] # "kNew"
  <2>1. channels'[k][g] = IF k = l /\ g = f THEN c ELSE channels[k][g]
    BY DEF ConnectEstablished, ConnInv, TypeInv, ConnTypes
  <2>2. channels[k][g] = d <=> ioLoop[d] = k /\ fd[d] = g /\ index[d] # "kNew"
    BY <1>2 DEF ConnInv, Watched
  <2>3. CASE k = l /\ g = f
    <3>1. d # c /\ ioLoop[d] = k /\ fd[d] = g => index[d] = "kNew"
      BY <1>2, <2>3, RegisteredIsAlive DEF ConnInv
    <3> QED
      BY <1>1, <2>1, <2>3, <3>1
  <2>4. CASE ~(k = l /\ g = f)
    BY <1>1, <2>1, <2>2, <2>4
  <2> QED
    BY <2>3, <2>4
<1> QED
  BY <1>2 DEF Watched

LEMMA RunEstablishedConn ==
  ASSUME ConnInv, TypeInv', NEW l \in Loops, NEW c \in Conns, RunEstablished(l, c)
  PROVE  ConnInv'
<1>1. UNCHANGED <<ioLoop, fd, nextConnId, connections, place, active, queue>>
  BY DEF RunEstablished, AtTask
<1>2. /\ Firsts' /\ Waits(l, "connectEstablished", c)
      /\ \A k \in Loops : \A o, d :
           /\ Waits(k, o, d)' => Waits(k, o, d)
           /\ Waits(k, o, d) /\ o # "connectEstablished" => Waits(k, o, d)'
  BY <1>1, RunWaits DEF RunEstablished, ConnInv, Ops
<1>3. ioLoop[c] = l /\ Alive(c) /\ place[l] = "run"
  BY <1>2, WaitingIsAlive DEF ConnInv, OwnLoop, RunEstablished, AtTask
<1>4. /\ index'[c] = "kAdded"
      /\ \A d \in Conns : d # c => index'[d] = index[d]
  BY DEF RunEstablished, ConnectEstablished, ConnInv, TypeInv, ConnTypes
<1>5. \A d \in Conns : Alive(d)' => Alive(d)
  <2>1. Next
    BY DEF Next, LoopStep
  <2>2. nextConnId' # nextConnId + 1
    BY <1>1, Numbers DEF ConnInv
  <2> QED
    BY <2>1, <2>2, GoneStays DEF ConnInv, Accept
<1>6. Unborn' /\ OwnFd' /\ OwnLoop' /\ Fires'
  BY <1>1, <1>2, <1>3, <1>4, <1>5 DEF ConnInv, Unborn, OwnFd, OwnLoop, Fires
<1>7. \A d \in Conns : Claimed(d) => Claimed(d)'
  BY <1>1, <1>2, IoLoops, LoopNumbers DEF ConnInv, Claimed
<1>8. Wanted'
  BY <1>1, <1>2, <1>3, <1>4, <1>7, IoLoops DEF ConnInv, Wanted
<1>9. Watched'
  <2>1. fd[c] \in Fds /\ \A d \in Conns : Alive(d) /\ d # c => fd[d] # fd[c]
    BY <1>3 DEF ConnInv, OwnFd
  <2> QED
    BY <1>1, <1>3, <2>1, EstablishedWatched DEF RunEstablished
<1> QED
  BY <1>2, <1>6, <1>8, <1>9 DEF ConnInv

LEMMA RunDestroyedConn ==
  ASSUME ConnInv, TypeInv', NEW l \in Loops, NEW c \in Conns, RunDestroyed(l, c)
  PROVE  ConnInv'
<1>1. UNCHANGED <<ioLoop, fd, nextConnId, connections, place, active, queue>>
  BY DEF RunDestroyed, AtTask
<1>2. /\ Firsts' /\ Waits(l, "connectDestroyed", c)
      /\ ~Waits(l, "connectEstablished", c)'
      /\ \A k \in Loops : \A o, d :
           /\ Waits(k, o, d)' => Waits(k, o, d)
           /\ Waits(k, o, d) /\ (o # "connectDestroyed" \/ d # c) => Waits(k, o, d)'
  BY <1>1, RunWaits DEF RunDestroyed, ConnInv, Ops
<1>3. ioLoop[c] = l /\ Alive(c) /\ active[l] = {}
  BY <1>2, WaitingIsAlive
  DEF ConnInv, OwnLoop, RunDestroyed, AtTask, TypeInv, LoopTypes
<1>4. \A d \in Conns : d # c => index'[d] = index[d]
  BY DEF RunDestroyed, ConnectDestroyed, ConnInv, TypeInv, ConnTypes
<1>5. \A d \in Conns : Alive(d)' => Alive(d)
  <2>1. Next
    BY DEF Next, LoopStep
  <2>2. nextConnId' # nextConnId + 1
    BY <1>1, Numbers DEF ConnInv
  <2> QED
    BY <2>1, <2>2, GoneStays DEF ConnInv, Accept
<1>6. Fires'
  BY <1>1, <1>3, <1>4 DEF ConnInv, Fires
<1>7. \A d \in Conns : d # c /\ Claimed(d) => Claimed(d)'
  BY <1>1, <1>2, IoLoops, LoopNumbers DEF ConnInv, Claimed
<1> QED
  BY <1>1, <1>2, <1>3, <1>5, <1>6, <1>7, DestroyedStep DEF RunDestroyed

LEMMA RunRemovalConn ==
  ASSUME ConnInv, TypeInv', NEW l \in Loops, NEW c \in Conns, RunRemoval(l, c)
  PROVE  ConnInv'
<1>1. /\ UNCHANGED <<index, ioLoop, fd, nextConnId, channels, place, active>>
      /\ connections' = connections \ {c}
  BY DEF RunRemoval, AtTask, RemoveConnectionInLoop
<1>2. /\ Firsts' /\ Waits(ioLoop[c], "connectDestroyed", c)'
      /\ \A k \in Loops : \A o, d :
           /\ Waits(k, o, d)' => Waits(k, o, d)
                \/ (k = ioLoop[c] /\ o = "connectDestroyed" /\ d = c)
           /\ Waits(k, o, d) => Waits(k, o, d)' \/ d = c
  <2>1. ioLoop[c] \in Loops
    BY IoLoops DEF ConnInv
  <2> QED
    BY <2>1, RunQueueWaits
    DEF RunRemoval, RemoveConnectionInLoop, ConnInv, Ops
<1>3. \A d \in Conns : Alive(d)' => Alive(d)
  <2>1. Next
    BY DEF Next, LoopStep
  <2>2. nextConnId' # nextConnId + 1
    BY <1>1, Numbers DEF ConnInv
  <2> QED
    BY <2>1, <2>2, GoneStays DEF ConnInv, Accept
<1>4. Fires'
  BY <1>1, FiresStays
<1>5. \A d \in Conns : Claimed(d) => Claimed(d)'
  BY <1>1, <1>2, IoLoops, LoopNumbers DEF ConnInv, Claimed
<1> QED
  BY <1>1, <1>2, <1>3, <1>4, <1>5, SteadyStep DEF ConnInv, OwnLoop

LEMMA DestroyConnectionConn ==
  ASSUME ConnInv, TypeInv', NEW c \in Conns, DestroyConnection(c)
  PROVE  ConnInv'
<1>1. /\ UNCHANGED <<ioLoop, fd, nextConnId, place, active, batch, at>>
      /\ connections' = connections \ {c}
      /\ place[0] = "stopped" /\ active[0] = {} /\ Alive(c)
  BY LoopNumbers DEF DestroyConnection, ConnInv, TypeInv, LoopTypes, Alive
<1>2. \A d \in Conns : Alive(d)' => Alive(d)
  <2>1. Next
    BY DEF Next, DestroyStep
  <2>2. nextConnId' # nextConnId + 1
    BY <1>1, Numbers DEF ConnInv
  <2> QED
    BY <2>1, <2>2, GoneStays DEF ConnInv, Accept
<1>3. CASE ioLoop[c] = 0
  <2>1. ConnectDestroyed(c) /\ UNCHANGED queue
    BY <1>3 DEF DestroyConnection
  <2>2. /\ Firsts'
        /\ \A k \in Loops : \A o, d : Waits(k, o, d)' <=> Waits(k, o, d)
    BY <1>1, <2>1, QuietWaits DEF ConnInv
  <2>3. \A d \in Conns : d # c => index'[d] = index[d]
    BY <2>1 DEF ConnectDestroyed, ConnInv, TypeInv, ConnTypes
  <2>4. Fires'
    BY <1>1, <1>3, <2>3 DEF ConnInv, Fires
  <2>5. \A d \in Conns : d # c /\ Claimed(d) => Claimed(d)'
    BY <1>1, <2>2, IoLoops, LoopNumbers DEF ConnInv, Claimed
  <2> QED
    BY <1>1, <1>2, <1>3, <2>1, <2>2, <2>4, <2>5, DestroyedStep
<1>4. CASE ioLoop[c] # 0
  <2>1. /\ QueueInLoop(ioLoop[c], Task("connectDestroyed", c))
        /\ UNCHANGED <<index, channels>>
    BY <1>4 DEF DestroyConnection
  <2>2. /\ Firsts'
        /\ \A k \in Loops : \A o, d : Waits(k, o, d)' <=>
             Waits(k, o, d) \/ (k = ioLoop[c] /\ o = "connectDestroyed" /\ d = c)
    <3>1. ioLoop[c] \in Loops
      BY IoLoops DEF ConnInv
    <3> QED
      BY <1>1, <2>1, <3>1, QueueWaits DEF ConnInv, Ops
  <2>3. Fires'
    BY <1>1, <2>1, FiresStays
  <2>4. \A d \in Conns : Claimed(d) => Claimed(d)'
    BY <1>1, <2>2, IoLoops, LoopNumbers DEF ConnInv, Claimed
  <2> QED
    BY <1>1, <1>2, <2>1, <2>2, <2>3, <2>4, SteadyStep DEF ConnInv, OwnLoop
<1> QED
  BY <1>3, <1>4

LEMMA AcceptConn ==
  ASSUME ConnInv, TypeInv', Accept
  PROVE  ConnInv'
<1> DEFINE c == nextConnId
           l == NextLoop
           f == Min(FreeFds)
<1>1. c \in Conns /\ l \in Loops
  <2>1. c <= clients
    BY DEF Accept, AtChannel, ConnInv, TypeInv, Started
  <2> QED
    BY <2>1, Numbers, ServerAssumption DEF Conns, ConnInv
<1>2. f \in Fds /\ \A d \in Conns : Alive(d) => fd[d] # f
  BY FreeFd DEF Accept
<1>3. ~Alive(c) /\ index[c] = "kNew"
  BY <1>1, Numbers DEF ConnInv, Unborn
<1>4. /\ UNCHANGED <<place, batch, at>>
      /\ nextConnId' = c + 1 /\ connections' = connections \cup {c}
      /\ ioLoop'[c] = l /\ fd'[c] = f
      /\ \A d \in Conns : d # c => ioLoop'[d] = ioLoop[d] /\ fd'[d] = fd[d]
      /\ \A k \in Loops : active'[k] \subseteq active[k]
  BY <1>1 DEF Accept, AtChannel, ConnInv, TypeInv, ConnTypes, LoopTypes
<1>5. \A d \in Conns : Alive(d)' => Alive(d) \/ d = c
  <2>1. Next
    BY LoopNumbers DEF Next, LoopStep
  <2> QED
    BY <2>1, GoneStays DEF ConnInv
<1>6. /\ Firsts'
      /\ \A k \in Loops : \A o, d : Waits(k, o, d)' <=>
           Waits(k, o, d) \/ (l # 0 /\ k = l /\ o = "connectEstablished" /\ d = c)
  <2>1. CASE l = 0
    <3>1. UNCHANGED queue
      BY <2>1 DEF Accept
    <3> QED
      BY <1>4, <2>1, <3>1, QuietWaits DEF ConnInv
  <2>2. CASE l # 0
    <3>1. QueueInLoop(l, Task("connectEstablished", c))
      BY <2>2 DEF Accept
    <3> HIDE DEF c, l
    <3> QED
      BY <1>1, <1>3, <1>4, <2>2, <3>1, QueueWaits DEF ConnInv, Ops
  <2> QED
    BY <2>1, <2>2
<1>7. \A d \in Conns : d # c => index'[d] = index[d]
  BY DEF Accept, ConnectEstablished, ConnInv, TypeInv, ConnTypes
<1>8. \A d \in Conns : d < c + 1 \/ d >= c + 1
  BY Numbers DEF ConnInv, Conns
<1>9. Unborn'
  BY <1>1, <1>4, <1>5, <1>7, Numbers DEF ConnInv, Unborn, Conns
<1> HIDE DEF f, l
<1>10. OwnFd'
  BY <1>2, <1>4, <1>5 DEF ConnInv, OwnFd
<1>11. \A k \in Loops : \A o : ~Waits(k, o, c)
  BY <1>1, <1>3, WaitingIsAlive DEF ConnInv
<1>12. OwnLoop'
  BY <1>4, <1>6, <1>11 DEF ConnInv, OwnLoop
<1>13. Fires'
  BY <1>3, <1>4, <1>7 DEF ConnInv, Fires
<1>14. \A d \in Conns : d # c /\ Claimed(d) => Claimed(d)'
  BY <1>4, <1>6, IoLoops, LoopNumbers DEF ConnInv, Claimed
<1>15. Wanted'
  <2>1. \A d \in Conns : d = c => Claimed(d)'
    BY <1>4 DEF Claimed
  <2> QED
    BY <1>4, <1>6, <1>7, <1>14, <2>1, IoLoops DEF ConnInv, Wanted
<1>16. Watched'
  <2>1. CASE l = 0
    <3>1. ConnectEstablished(c, l, f)
      BY <2>1 DEF Accept, l, f
    <3> HIDE DEF c
    <3> QED
      BY <1>1, <1>2, <1>3, <1>4, <3>1, EstablishedWatched
  <2>2. CASE l # 0
    <3>1. UNCHANGED <<index, channels>>
      BY <2>2 DEF Accept, l
    <3> QED
      BY <1>3, <1>4, <3>1 DEF ConnInv, Watched
  <2> QED
    BY <2>1, <2>2
<1> QED
  BY <1>6, <1>9, <1>10, <1>12, <1>13, <1>15, <1>16 DEF ConnInv

LEMMA NextConn == ConnInv /\ [Next]_vars => ConnInv'
<1> SUFFICES ASSUME ConnInv, [Next]_vars PROVE ConnInv'
  OBVIOUS
<1>1. TypeInv'
  BY NextTypes DEF ConnInv
<1>2. CASE UNCHANGED vars
  BY <1>1, <1>2, OwnerConn
<1>3. CASE \E l \in Loops : LoopStep(l)
  BY <1>1, <1>3, RoundConn, HandleCloseConn, RunEstablishedConn,
     RunDestroyedConn, RunRemovalConn, AcceptConn, OwnerConn DEF LoopStep
<1>4. CASE DestroyStep
  BY <1>1, <1>4, OwnerConn, DestroyConnectionConn DEF DestroyStep
<1> QED
  BY <1>1, <1>2, <1>3, <1>4, StartConn, OwnerConn DEF Next

LEMMA ConnInvariant == Spec => []ConnInv
BY InitConn, NextConn, PTL DEF Spec

\* The poller of a running loop knows exactly the channels of the live
\* connections that were registered and not removed, each under a descriptor
\* nobody else has, and no loop handles events of a channel that is gone, for
\* any number of loops that hand connections to each other.
THEOREM ChannelsAgreeHolds == Spec => []ChannelsAgree
<1>1. ASSUME ConnInv PROVE ChannelsAgree
  <2> SUFFICES ASSUME NEW l \in Loops, place[l] # "stopped"
               PROVE  /\ \A f \in Fds : \A c \in Conns :
                           channels[l][f] = c <=> Alive(c) /\ ioLoop[c] = l
                                                    /\ fd[c] = f /\ index[c] # "kNew"
                      /\ \A c \in active[l] \ {None} : Alive(c)
    BY DEF ChannelsAgree
  <2>1. \A c \in Conns : ioLoop[c] = l /\ index[c] # "kNew" => Alive(c)
    BY <1>1, RegisteredIsAlive DEF ConnInv
  <2>2. \A c \in active[l] \ {None} : Alive(c)
    BY <1>1, FiringIsAlive DEF ConnInv, TypeInv, LoopTypes
  <2> QED
    BY <1>1, <2>1, <2>2 DEF ConnInv, Watched
<1> QED
  BY <1>1, ConnInvariant, PTL

-----------------------------------------------------------------------------
(* What the application is told                                            *)

\* connectionCallback_ is called once as the connection comes up and once as
\* it goes down; while the server stands, only the latter takes it off the map.
Told ==
  \A c \in Conns :
    /\ ups[c] \in {0, 1} /\ downs[c] \in {0, 1}
    /\ ups[c] = 0 => downs[c] = 0
    /\ c >= nextConnId => ups[c] = 0
    /\ state[c] = "kConnected" \/ index[c] = "kAdded" => ups[c] = 1 /\ downs[c] = 0
    /\ \A l \in Loops :
         /\ Waits(l, "connectEstablished", c) => ups[c] = 0
         /\ Waits(l, "removeConnectionInLoop", c) => downs[c] = 1
    /\ server \in {"new", "alive"} /\ c < nextConnId =>
         c \in connections \/ downs[c] = 1

LEMMA InitTold == Init => Told
<1> SUFFICES ASSUME Init PROVE Told
  OBVIOUS
<1>1. \A l \in Loops : \A op, c : ~Waits(l, op, c)
  <2>1. ASSUME NEW l \in Loops PROVE Rest(l) = <<>>
    <3>1. queue[l] = <<>> /\ batch[l] = <<>> /\ at[l] = 1
      BY DEF Init
    <3>2. <<>> \in Seq(Tasks)
      OBVIOUS
    <3> QED
      BY <3>1, <3>2, AfterEmpty DEF Rest
  <2> QED
    BY <2>1 DEF Waits, In
<1>2. \A c \in Conns : ~(c < nextConnId)
  BY DEF Init, Conns
<1> QED
  BY <1>1, <1>2 DEF Init, Told

\* Which callbacks join a line in one step.
LEMMA WaitsChange ==
  ASSUME ConnInv, [Next]_vars, NEW k \in Loops, NEW c \in Conns
  PROVE  /\ Waits(k, "connectEstablished", c)'
              => Waits(k, "connectEstablished", c) \/ (Accept /\ c = nextConnId)
         /\ Waits(k, "removeConnectionInLoop", c)'
              => \/ Waits(k, "removeConnectionInLoop", c)
                 \/ \E l \in Loops : HandleClose(l, c)
<1> DEFINE Same == \A o : Waits(k, o, c)' => Waits(k, o, c) \/ o = "connectDestroyed"
           Closes == \A o : Waits(k, o, c)' => Waits(k, o, c) \/ o = "removeConnectionInLoop"
           Opens == \A o : Waits(k, o, c)' => Waits(k, o, c) \/ o = "connectEstablished"
<1>1. ASSUME \/ UNCHANGED <<queue, batch, at>>
             \/ \E l \in Loops : StartBatch(l) \/ EndBatch(l)
      PROVE  Same
  BY <1>1, QuietWaits DEF ConnInv
<1>2. ASSUME NEW l \in Loops, CheckQuit(l) PROVE Same
  <2>1. CASE UNCHANGED queue
    BY <1>1, <1>2, <2>1 DEF CheckQuit
  <2>2. CASE queue' = [queue EXCEPT ![l] = <<>>]
    <3>1. batch[l] = <<>>
      BY <1>2 DEF CheckQuit, MoveTo, ConnInv, TypeInv, LoopTypes
    <3> QED
      BY <1>2, <2>2, <3>1, DropWaits DEF CheckQuit, ConnInv
  <2> QED
    BY <1>2, <2>1, <2>2 DEF CheckQuit
<1>3. ASSUME DestroyMainLoop PROVE Same
  <2>1. batch[0] = <<>> /\ queue' = [queue EXCEPT ![0] = <<>>]
    BY <1>3, LoopNumbers DEF DestroyMainLoop, ConnInv, TypeInv, LoopTypes
  <2> QED
    BY <1>3, <2>1, DropWaits, LoopNumbers DEF DestroyMainLoop, ConnInv
<1>4. ASSUME NEW l \in Loops, NEW d \in Conns, RunEstablished(l, d) PROVE Same
  BY <1>4, RunWaits DEF RunEstablished, ConnInv, Ops
<1>5. ASSUME NEW l \in Loops, NEW d \in Conns, RunDestroyed(l, d) PROVE Same
  BY <1>5, RunWaits DEF RunDestroyed, ConnInv, Ops
<1>6. ASSUME NEW l \in Loops, NEW d \in Conns, RunRemoval(l, d) PROVE Same
  BY <1>6, RunQueueWaits, IoLoops
  DEF RunRemoval, RemoveConnectionInLoop, ConnInv, Ops
<1>7. ASSUME NEW d \in Conns, DestroyConnection(d) PROVE Same
  <2>1. CASE ioLoop[d] = 0
    BY <1>1, <1>7, <2>1 DEF DestroyConnection
  <2>2. CASE ioLoop[d] # 0
    BY <1>7, <2>2, QueueWaits, IoLoops DEF DestroyConnection, ConnInv, Ops
  <2> QED
    BY <2>1, <2>2
<1>8. ASSUME NEW l \in Loops, NEW d \in Conns, HandleClose(l, d)
      PROVE  Same \/ (d = c /\ Closes)
  <2>1. UNCHANGED <<batch, at>>
    BY <1>8 DEF HandleClose, AtChannel
  <2>2. CASE l = 0
    <3>1. QueueInLoop(ioLoop[d], Task("connectDestroyed", d))
      BY <1>8, <2>2 DEF HandleClose, RemoveConnectionInLoop
    <3> QED
      BY <2>1, <3>1, QueueWaits, IoLoops DEF ConnInv, Ops
  <2>3. CASE l # 0
    <3>1. QueueInLoop(0, Task("removeConnectionInLoop", d))
      BY <1>8, <2>3 DEF HandleClose
    <3> QED
      BY <2>1, <3>1, QueueWaits, LoopNumbers DEF ConnInv, Ops
  <2> QED
    BY <2>2, <2>3
<1>9. ASSUME Accept PROVE Same \/ (c = nextConnId /\ Opens)
  <2>1. UNCHANGED <<batch, at>>
    BY <1>9 DEF Accept, AtChannel
  <2>2. CASE NextLoop = 0
    BY <1>1, <1>9, <2>1, <2>2 DEF Accept
  <2>3. CASE NextLoop # 0
    <3>1. QueueInLoop(NextLoop, Task("connectEstablished", nextConnId))
      BY <1>9, <2>3 DEF Accept
    <3>2. nextConnId \in Conns /\ ~Alive(nextConnId) /\ NextLoop \in Loops
      <4>1. nextConnId <= clients
        BY <1>9 DEF Accept, AtChannel, ConnInv, TypeInv, Started
      <4> QED
        BY <4>1, Numbers, ServerAssumption DEF Conns, ConnInv, Unborn
    <3> QED
      BY <2>1, <3>1, <3>2, QueueWaits DEF ConnInv, Ops
  <2> QED
    BY <2>2, <2>3
<1>10. ASSUME \/ UNCHANGED vars
              \/ Start \/ QuitMain \/ DestroyServer \/ DestroyMembers
              \/ WakeSubloop \/ ServerGone \/ ClientConnects \/ AcceptFails
              \/ \E l \in Loops : \/ QuitSubloop(l) \/ EnterLoop(l) \/ Poll(l)
                                  \/ StartBatch(l) \/ EndBatch(l)
              \/ \E d \in Conns : PeerHangsUp(d)
       PROVE  Same
  BY <1>1, <1>10
  DEF Start, QuitMain, DestroyServer, DestroyMembers, WakeSubloop, ServerGone,
      ClientConnects, AcceptFails, AtChannel, QuitSubloop, EnterLoop, Poll,
      PeerHangsUp
<1>11. \/ Same
       \/ Accept /\ c = nextConnId /\ Opens
       \/ (\E l \in Loops : HandleClose(l, c)) /\ Closes
  <2> HIDE DEF Same, Closes, Opens
  <2>1. ASSUME NEW l \in Loops, LoopStep(l), ~Same
        PROVE  \/ Accept /\ c = nextConnId /\ Opens
               \/ (\E m \in Loops : HandleClose(m, c)) /\ Closes
    <3>1. (\E d \in Conns : HandleClose(l, d)) \/ Accept
      BY <1>2, <1>4, <1>5, <1>6, <1>10, <2>1 DEF LoopStep
    <3> QED
      BY <1>8, <1>9, <2>1, <3>1
  <2>2. CASE DestroyStep
    BY <1>3, <1>7, <1>10, <2>2 DEF DestroyStep
  <2> QED
    BY <1>10, <2>1, <2>2 DEF Next
<1> QED
  BY <1>11

\* What a step may do to c: nothing the application hears of, ...
Untold(c) ==
  /\ UNCHANGED <<ups[c], downs[c]>>
  /\ state'[c] = "kConnected" => state[c] = "kConnected"
  /\ index'[c] = "kAdded" => index[c] = "kAdded"
  /\ c \in connections /\ server' \in {"new", "alive"} =>
       c \in connections' \/ downs[c] = 1

\* ... the call for UP, ...
GoesUp(c) ==
  /\ ups[c] = 0 /\ downs[c] = 0 /\ ups'[c] = 1 /\ downs'[c] = 0
  /\ c < nextConnId'
  /\ c \in connections => c \in connections'
  /\ \A k \in Loops : ~Waits(k, "connectEstablished", c)'
  /\ Alive(c)'

\* ... or the call for DOWN.
GoesDown(c) ==
  /\ ups[c] = 1 /\ downs[c] = 0 /\ ups'[c] = 1 /\ downs'[c] = 1
  /\ state'[c] # "kConnected" /\ index'[c] # "kAdded"
  /\ Alive(c) /\ Alive(c)'

LEMMA RunEstablishedTells ==
  ASSUME ConnInv, ConnInv', Told, NEW l \in Loops, NEW c \in Conns,
         RunEstablished(l, c)
  PROVE  \A d \in Conns : IF d = c THEN GoesUp(d) ELSE Untold(d)
<1>1. UNCHANGED <<ioLoop, nextConnId, connections, batch, queue>>
  BY DEF RunEstablished, AtTask
<1>2. Waits(l, "connectEstablished", c) /\ ~Waits(l, "connectEstablished", c)'
  BY <1>1, RunWaits DEF RunEstablished, ConnInv, Ops
<1>3. Alive(c) /\ ioLoop[c] = l /\ ups[c] = 0 /\ downs[c] = 0 /\ c < nextConnId
  BY <1>2, WaitingIsAlive, Numbers DEF ConnInv, Unborn, OwnLoop, Told, Conns
<1>4. Alive(c)'
  BY <1>1, AtTaskIsAlive, RestTypes DEF RunEstablished, AtTask, Alive, Holds, ConnInv, Task
<1>5. /\ ups'[c] = 1 /\ downs' = downs
      /\ \A d \in Conns : d # c => UNCHANGED <<ups[d], state[d], index[d]>>
  BY <1>3 DEF RunEstablished, ConnectEstablished, ConnInv, TypeInv, ConnTypes
<1>6. \A k \in Loops : ~Waits(k, "connectEstablished", c)'
  BY <1>1, <1>2, <1>3 DEF ConnInv, OwnLoop
<1> QED
  BY <1>1, <1>3, <1>4, <1>5, <1>6 DEF GoesUp, Untold

LEMMA RunDestroyedTells ==
  ASSUME ConnInv, Told, NEW l \in Loops, NEW c \in Conns, RunDestroyed(l, c)
  PROVE  \A d \in Conns : Untold(d) \/ GoesDown(d)
<1>1. UNCHANGED <<connections, ups>> /\ Alive(c)
  BY AtTaskIsAlive DEF RunDestroyed, ConnectDestroyed, ConnInv
<1>2. Alive(c)'
  BY AtTaskIsAlive, RestTypes DEF RunDestroyed, AtTask, Alive, Holds, ConnInv, Task
<1>3. index'[c] = "kNew" /\ \A d \in Conns : d # c => UNCHANGED <<index[d], state[d], downs[d]>>
  BY DEF RunDestroyed, ConnectDestroyed, ConnInv, TypeInv, ConnTypes
<1>4. CASE state[c] = "kConnected"
  <2>1. ups[c] = 1 /\ downs[c] = 0
    BY <1>4 DEF Told
  <2>2. state'[c] = "kDisconnected" /\ downs'[c] = 1
    BY <1>4, <2>1 DEF RunDestroyed, ConnectDestroyed, ConnInv, TypeInv, ConnTypes
  <2> QED
    BY <1>1, <1>2, <1>3, <2>1, <2>2 DEF GoesDown, Untold
<1>5. CASE state[c] # "kConnected"
  <2>1. UNCHANGED <<state, downs>>
    BY <1>5 DEF RunDestroyed, ConnectDestroyed
  <2> QED
    BY <1>1, <1>3, <2>1 DEF Untold
<1> QED
  BY <1>4, <1>5

LEMMA DestroyTells ==
  ASSUME ConnInv, Told, NEW c \in Conns, DestroyConnection(c)
  PROVE  \A d \in Conns : Untold(d) \/ GoesDown(d)
<1>1. /\ UNCHANGED <<ups, server>> /\ server = "destroying"
      /\ Alive(c) /\ Alive(c)'
  BY DEF DestroyConnection, ConnectDestroyed, Alive
<1>2. CASE ioLoop[c] = 0 /\ state[c] = "kConnected"
  <2>1. ups[c] = 1 /\ downs[c] = 0
    BY <1>2 DEF Told
  <2>2. /\ state'[c] = "kDisconnected" /\ downs'[c] = 1 /\ index'[c] = "kNew"
        /\ \A d \in Conns : d # c => UNCHANGED <<index[d], state[d], downs[d]>>
    BY <1>2, <2>1 DEF DestroyConnection, ConnectDestroyed, ConnInv, TypeInv, ConnTypes
  <2> QED
    BY <1>1, <2>1, <2>2 DEF GoesDown, Untold
<1>3. CASE ~(ioLoop[c] = 0 /\ state[c] = "kConnected")
  <2>1. UNCHANGED <<state, downs>> /\ \A d \in Conns : index'[d] = "kNew" \/ UNCHANGED index[d]
    BY <1>3 DEF DestroyConnection, ConnectDestroyed, ConnInv, TypeInv, ConnTypes
  <2> QED
    BY <1>1, <2>1 DEF Untold
<1> QED
  BY <1>2, <1>3

LEMMA HandleCloseTells ==
  ASSUME ConnInv, Told, NEW l \in Loops, NEW c \in Conns, HandleClose(l, c)
  PROVE  \A d \in Conns : IF d = c THEN GoesDown(d) ELSE Untold(d)
<1>1. c \in active[l] /\ UNCHANGED <<ups, batch>>
  BY DEF HandleClose, AtChannel
<1>2. ioLoop[c] = l /\ index[c] = "kAdded" /\ Alive(c) /\ ups[c] = 1 /\ downs[c] = 0
  BY <1>1, FiringIsAlive DEF ConnInv, Fires, Told
<1>3. /\ state'[c] = "kDisconnected" /\ index'[c] = "kDeleted" /\ downs'[c] = 1
      /\ \A d \in Conns : d # c => UNCHANGED <<index[d], state[d], downs[d]>>
  BY <1>2 DEF HandleClose, ConnInv, TypeInv, ConnTypes
<1>4. \A d \in connections : d # c => d \in connections'
  BY DEF HandleClose, RemoveConnectionInLoop
<1>5. Alive(c)'
  <2>1. PICK m \in Loops, op \in Ops : QueueInLoop(m, Task(op, c))
    BY <1>2, LoopNumbers DEF HandleClose, RemoveConnectionInLoop, Ops
  <2>2. queue'[m] = Append(queue[m], Task(op, c))
    BY <2>1 DEF QueueInLoop, ConnInv, TypeInv, LoopTypes
  <2>3. Holds(queue'[m], c)
    BY <2>2, InAppend, TaskTypes, RestTypes DEF ConnInv
  <2> QED
    BY <2>3 DEF Alive
<1> QED
  BY <1>1, <1>2, <1>3, <1>4, <1>5 DEF GoesDown, Untold

LEMMA AcceptTells ==
  ASSUME ConnInv, Told, Accept
  PROVE  \A d \in Conns : Untold(d) \/ (d = nextConnId /\ GoesUp(d))
<1> DEFINE c == nextConnId
<1>1. c \in Conns
  <2>1. c <= clients
    BY DEF Accept, AtChannel, ConnInv, TypeInv, Started
  <2> QED
    BY <2>1, Numbers, ServerAssumption DEF Conns, ConnInv
<1>2. nextConnId' = c + 1 /\ c < c + 1 /\ connections' = connections \cup {c}
  BY Numbers DEF Accept, ConnInv
<1>3. CASE NextLoop # 0
  BY <1>2, <1>3 DEF Accept, Untold
<1>4. CASE NextLoop = 0
  <2>1. UNCHANGED <<queue, batch, at, downs>>
    BY <1>4 DEF Accept, AtChannel, ConnectEstablished
  <2>2. ~Alive(c) /\ ups[c] = 0 /\ downs[c] = 0
    BY <1>1, Numbers DEF ConnInv, Unborn, Told
  <2>3. /\ ups'[c] = 1
        /\ \A d \in Conns : d # c => UNCHANGED <<ups[d], state[d], index[d]>>
    BY <1>1, <1>4, <2>2
    DEF Accept, ConnectEstablished, ConnInv, TypeInv, ConnTypes
  <2>4. \A k \in Loops : \A o, d : Waits(k, o, d)' <=> Waits(k, o, d)
    BY <2>1, QuietWaits DEF ConnInv
  <2>5. \A k \in Loops : ~Waits(k, "connectEstablished", c)
    BY <1>1, <2>2, WaitingIsAlive DEF ConnInv
  <2>6. \A d : d \in connections' => Alive(d)'
    BY DEF Alive
  <2>7. \A d \in Conns : d = c => GoesUp(d)
    BY <1>2, <2>1, <2>2, <2>3, <2>4, <2>5, <2>6 DEF GoesUp
  <2>8. \A d \in Conns : d # c => Untold(d)
    BY <1>2, <2>1, <2>3 DEF Untold
  <2> QED
    BY <2>7, <2>8
<1> QED
  BY <1>3, <1>4

LEMMA Changes ==
  ASSUME ConnInv, ConnInv', Told, [Next]_vars, NEW c \in Conns
  PROVE  Untold(c) \/ GoesUp(c) \/ GoesDown(c)
<1>1. ASSUME NEW l \in Loops, NEW d \in Conns, RunRemoval(l, d) PROVE Untold(c)
  <2>1. Waits(l, "removeConnectionInLoop", d)
    BY <1>1, StepRest DEF RunRemoval, ConnInv, Ops
  <2>2. downs[d] = 1
    BY <2>1 DEF Told
  <2> QED
    BY <1>1, <2>2 DEF RunRemoval, RemoveConnectionInLoop, Untold
<1>2. ASSUME \/ UNCHANGED vars
             \/ Start \/ QuitMain \/ DestroyServer \/ DestroyMembers
             \/ WakeSubloop \/ ServerGone \/ DestroyMainLoop
             \/ ClientConnects \/ AcceptFails
             \/ \E l \in Loops : \/ QuitSubloop(l) \/ EnterLoop(l) \/ CheckQuit(l)
                                 \/ Poll(l) \/ StartBatch(l) \/ EndBatch(l)
             \/ \E d \in Conns : PeerHangsUp(d)
      PROVE  UNCHANGED <<connVars, connections>>
  BY <1>2
  DEF Start, QuitMain, DestroyServer, DestroyMembers, WakeSubloop, ServerGone,
      DestroyMainLoop, ClientConnects, AcceptFails, QuitSubloop, EnterLoop,
      CheckQuit, Poll, StartBatch, EndBatch, PeerHangsUp
<1>3. ASSUME UNCHANGED <<connVars, connections>> PROVE Untold(c)
  BY <1>3 DEF Untold
<1>4. CASE \E l \in Loops : LoopStep(l)
  BY <1>1, <1>2, <1>3, <1>4, HandleCloseTells, RunEstablishedTells,
     RunDestroyedTells, AcceptTells DEF LoopStep
<1>5. CASE DestroyStep
  BY <1>2, <1>3, <1>5, DestroyTells DEF DestroyStep
<1> QED
  BY <1>2, <1>3, <1>4, <1>5 DEF Next

\* Numbers are given by accept, and ~TcpServer is not undone.
LEMMA ServerSteps ==
  ASSUME [Next]_vars
  PROVE  /\ nextConnId' = nextConnId
              \/ (Accept /\ nextConnId' = nextConnId + 1
                    /\ connections' = connections \cup {nextConnId})
         /\ UNCHANGED (server \notin {"new", "alive"})
              \/ (DestroyServer /\ server' \notin {"new", "alive"})
<1> DEFINE Same == nextConnId' = nextConnId
                     /\ UNCHANGED (server \notin {"new", "alive"})
<1>1. ASSUME NEW l \in Loops, LoopStep(l) PROVE Same \/ Accept
  BY <1>1
  DEF LoopStep, EnterLoop, CheckQuit, Poll, StartBatch, EndBatch, HandleClose,
      RunEstablished, RunDestroyed, RunRemoval, AcceptFails
<1>2. ASSUME DestroyStep PROVE Same
  BY <1>2
  DEF DestroyStep, DestroyMembers, WakeSubloop, ServerGone, DestroyMainLoop,
      DestroyConnection, QuitSubloop
<1>3. ASSUME \/ Start \/ QuitMain \/ ClientConnects \/ UNCHANGED vars
             \/ \E c \in Conns : PeerHangsUp(c)
      PROVE  Same
  BY <1>3 DEF Start, QuitMain, ClientConnects, PeerHangsUp
<1>4. ASSUME Accept
      PROVE  /\ nextConnId' = nextConnId + 1 /\ UNCHANGED server
             /\ connections' = connections \cup {nextConnId}
  BY <1>4 DEF Accept
<1>5. ASSUME DestroyServer
      PROVE  nextConnId' = nextConnId /\ server' \notin {"new", "alive"}
  BY <1>5 DEF DestroyServer
<1> QED
  BY <1>1, <1>2, <1>3, <1>4, <1>5 DEF Next

LEMMA ToldStep == ConnInv /\ ConnInv' /\ Told /\ [Next]_vars => Told'
<1> SUFFICES ASSUME ConnInv, ConnInv', Told, [Next]_vars, NEW c \in Conns
             PROVE  /\ ups'[c] \in {0, 1} /\ downs'[c] \in {0, 1}
                    /\ ups'[c] = 0 => downs'[c] = 0
                    /\ c >= nextConnId' => ups'[c] = 0
                    /\ state'[c] = "kConnected" \/ index'[c] = "kAdded"
                         => ups'[c] = 1 /\ downs'[c] = 0
                    /\ \A l \in Loops :
                         /\ Waits(l, "connectEstablished", c)' => ups'[c] = 0
                         /\ Waits(l, "removeConnectionInLoop", c)' => downs'[c] = 1
                    /\ server' \in {"new", "alive"} /\ c < nextConnId' =>
                         c \in connections' \/ downs'[c] = 1
  BY DEF Told
<1>1. /\ ups[c] \in {0, 1} /\ downs[c] \in {0, 1}
      /\ ups[c] = 0 => downs[c] = 0
      /\ c >= nextConnId => ups[c] = 0
      /\ state[c] = "kConnected" \/ index[c] = "kAdded" => ups[c] = 1 /\ downs[c] = 0
      /\ \A l \in Loops :
           /\ Waits(l, "connectEstablished", c) => ups[c] = 0
           /\ Waits(l, "removeConnectionInLoop", c) => downs[c] = 1
      /\ server \in {"new", "alive"} /\ c < nextConnId =>
           c \in connections \/ downs[c] = 1
  BY DEF Told
<1>2. /\ c \in Nat /\ nextConnId \in Nat /\ nextConnId' \in Nat
      /\ nextConnId' = nextConnId
           \/ (nextConnId' = nextConnId + 1
                 /\ connections' = connections \cup {nextConnId})
      /\ server' \in {"new", "alive"} => server \in {"new", "alive"}
  BY ServerSteps, Numbers DEF ConnInv, Conns
<1>3. ASSUME NEW k \in Loops, Waits(k, "connectEstablished", c)'
      PROVE  Waits(k, "connectEstablished", c) \/ c = nextConnId
  BY <1>3, WaitsChange
<1>4. ASSUME NEW k \in Loops, Waits(k, "removeConnectionInLoop", c)'
      PROVE  Waits(k, "removeConnectionInLoop", c) \/ GoesDown(c)
  BY <1>4, WaitsChange, HandleCloseTells
<1>5. c >= nextConnId' => c >= nextConnId
  BY <1>2
<1>6. c < nextConnId' => c < nextConnId \/ c \in connections'
  BY <1>2
<1>7. CASE Untold(c)
  BY <1>1, <1>2, <1>3, <1>4, <1>5, <1>6, <1>7 DEF Untold, GoesDown
<1>8. CASE GoesUp(c)
  BY <1>1, <1>2, <1>4, <1>6, <1>8 DEF GoesUp, GoesDown
<1>9. CASE GoesDown(c)
  BY <1>1, <1>2, <1>3, <1>5, <1>9 DEF GoesDown
<1> QED
  BY <1>7, <1>8, <1>9, Changes

LEMMA ToldInvariant == Spec => [](ConnInv /\ Told)
BY ConnInvariant, InitTold, ToldStep, PTL DEF Spec

-----------------------------------------------------------------------------
(* ConnectionLife                                                          *)

\* Where a connection stands.
LEMMA PhaseIs ==
  ASSUME ConnInv, Told, NEW c \in Conns
  PROVE  /\ c >= nextConnId => Phase(c) = "none" /\ ~Alive(c)
         /\ c < nextConnId =>
              /\ ~Alive(c) => Phase(c) = "gone"
              /\ Alive(c) /\ downs[c] = 1 => Phase(c) = "down"
              /\ Alive(c) /\ downs[c] = 0 /\ ups[c] = 0 => Phase(c) = "made"
              /\ Alive(c) /\ downs[c] = 0 /\ ups[c] = 1 => Phase(c) = "up"
<1>1. c \in Nat /\ nextConnId \in Nat /\ (c >= nextConnId => ~Alive(c))
  BY Numbers DEF Conns, ConnInv, Unborn
<1>2. c >= nextConnId <=> ~(c < nextConnId)
  BY <1>1
<1> QED
  BY <1>1, <1>2 DEF Phase

LEMMA InitRefines == Init => \A c \in Conns : Life(c)!Init
<1> SUFFICES ASSUME Init, NEW c \in Conns PROVE Life(c)!Init
  OBVIOUS
<1>1. ConnInv /\ Told /\ c >= nextConnId
  BY InitConn, InitTold DEF Init, Conns
<1>2. (server \notin {"new", "alive"}) = FALSE
  BY DEF Init
<1> QED
  BY <1>1, <1>2, PhaseIs DEF Life!Init

\* Every step is, for each connection, a step of ConnectionLife or none.
LEMMA StepRefines ==
  ConnInv /\ ConnInv' /\ Told /\ Told' /\ [Next]_vars
    => \A c \in Conns : Life(c)!Next \/ UNCHANGED Life(c)!vars
<1> SUFFICES ASSUME ConnInv, ConnInv', Told, Told', [Next]_vars, NEW c \in Conns
             PROVE  Life(c)!Next \/ UNCHANGED Life(c)!vars
  OBVIOUS
<1> DEFINE ending == server \notin {"new", "alive"}
<1>1. /\ c >= nextConnId => Phase(c) = "none" /\ ~Alive(c)
      /\ c < nextConnId =>
           /\ ~Alive(c) => Phase(c) = "gone"
           /\ Alive(c) /\ downs[c] = 1 => Phase(c) = "down"
           /\ Alive(c) /\ downs[c] = 0 /\ ups[c] = 0 => Phase(c) = "made"
           /\ Alive(c) /\ downs[c] = 0 /\ ups[c] = 1 => Phase(c) = "up"
  BY PhaseIs
<1>2. /\ c >= nextConnId' => Phase(c)' = "none" /\ ~Alive(c)'
      /\ c < nextConnId' =>
           /\ ~Alive(c)' => Phase(c)' = "gone"
           /\ Alive(c)' /\ downs'[c] = 1 => Phase(c)' = "down"
           /\ Alive(c)' /\ downs'[c] = 0 /\ ups'[c] = 0 => Phase(c)' = "made"
           /\ Alive(c)' /\ downs'[c] = 0 /\ ups'[c] = 1 => Phase(c)' = "up"
  <2>1. ConnInv' /\ Told' /\ c \in Conns =>
          (/\ c >= nextConnId => Phase(c) = "none" /\ ~Alive(c)
           /\ c < nextConnId =>
                /\ ~Alive(c) => Phase(c) = "gone"
                /\ Alive(c) /\ downs[c] = 1 => Phase(c) = "down"
                /\ Alive(c) /\ downs[c] = 0 /\ ups[c] = 0 => Phase(c) = "made"
                /\ Alive(c) /\ downs[c] = 0 /\ ups[c] = 1 => Phase(c) = "up")'
    BY PhaseIs, PTL
  <2> QED
    BY <2>1
<1>3. /\ ups[c] \in {0, 1} /\ downs[c] \in {0, 1}
      /\ ups'[c] \in {0, 1} /\ downs'[c] \in {0, 1}
      /\ ups[c] = 0 => downs[c] = 0
      /\ c >= nextConnId => ups[c] = 0
      /\ ~ending' /\ c < nextConnId' => c \in connections' \/ downs'[c] = 1
  BY DEF Told
<1>4. c \in Nat /\ nextConnId \in Nat /\ nextConnId' \in Nat
  BY Numbers, ServerSteps DEF ConnInv, Conns
<1>5. Alive(c)' => Alive(c) \/ (Accept /\ c = nextConnId)
  BY GoneStays DEF ConnInv
<1>6. c \in connections' => Alive(c)'
  BY DEF Alive
<1> USE DEF Life!Next, Life!vars, Life!Move
<1>7. CASE DestroyServer
  <2>1. /\ UNCHANGED <<nextConnId, ups, downs, Alive(c)>> /\ ending' = TRUE
    BY <1>7 DEF DestroyServer, Alive
  <2>2. Phase(c)' = Phase(c)
    BY <1>1, <1>2, <1>3, <1>4, <2>1
  <2> QED
    BY <2>1, <2>2 DEF Life!EndServer
<1>8. CASE UNCHANGED ending
  <2>1. CASE c >= nextConnId /\ c >= nextConnId'
    BY <1>1, <1>2, <1>8, <2>1
  <2>2. CASE c >= nextConnId /\ c < nextConnId'
    <3>1. Alive(c)'
      BY <1>4, <1>6, <2>2, ServerSteps
    <3>2. downs'[c] = 0
      BY <1>3, <2>2, Changes DEF Untold, GoesUp, GoesDown
    <3> QED
      BY <1>1, <1>2, <1>3, <1>8, <2>2, <3>1, <3>2 DEF Life!Make, Life!Up
  <2>3. CASE c < nextConnId
    <3>1. c < nextConnId'
      BY <1>4, <2>3, ServerSteps
    <3>2. CASE ~Alive(c)
      <4>1. ~Alive(c)'
        BY <1>4, <1>5, <2>3, <3>2
      <4> QED
        BY <1>1, <1>2, <1>8, <2>3, <3>1, <3>2, <4>1
    <3>3. CASE Alive(c) /\ ~Alive(c)'
      <4>1. UNCHANGED <<ups[c], downs[c]>>
        BY <3>3, Changes DEF Untold, GoesUp, GoesDown
      <4>2. CASE downs[c] = 1
        BY <1>1, <1>2, <1>8, <2>3, <3>1, <3>3, <4>1, <4>2 DEF Life!Release
      <4>3. CASE downs[c] = 0
        <5>1. ending
          BY <1>3, <1>6, <1>8, <3>1, <3>3, <4>1, <4>3
        <5> QED
          BY <1>1, <1>2, <1>3, <1>8, <2>3, <3>1, <3>3, <4>3, <5>1
          DEF Life!Abandon
      <4> QED
        BY <1>3, <4>2, <4>3
    <3>4. CASE Alive(c) /\ Alive(c)'
      <4>1. CASE Untold(c)
        <5>1. Phase(c)' = Phase(c)
          BY <1>1, <1>2, <1>3, <2>3, <3>1, <3>4, <4>1 DEF Untold
        <5> QED
          BY <1>8, <5>1
      <4>2. CASE GoesUp(c)
        BY <1>1, <1>2, <1>8, <2>3, <3>1, <3>4, <4>2 DEF GoesUp, Life!Up
      <4>3. CASE GoesDown(c)
        BY <1>1, <1>2, <1>8, <2>3, <3>1, <3>4, <4>3 DEF GoesDown, Life!Down
      <4> QED
        BY <4>1, <4>2, <4>3, Changes
    <3> QED
      BY <3>2, <3>3, <3>4
  <2> QED
    BY <1>4, <2>1, <2>2, <2>3
<1> QED
  BY <1>7, <1>8, ServerSteps

\* Every connection of the server goes through its life as ConnectionLife
\* says, across both loops: the application hears of it once as it comes up,
\* once as it goes down, and only then it is destroyed and its descriptor
\* closed, unless a server that is being destroyed breaks off.
THEOREM ConnectionLifeRefined == Spec => RefinesConnectionLife
<1>1. ConnInv /\ ConnInv' /\ Told /\ Told' /\ [Next]_vars
        => [\A c \in Conns : Life(c)!Next \/ UNCHANGED Life(c)!vars]_vars
  BY StepRefines
<1> QED
  BY <1>1, ToldInvariant, InitRefines, PTL DEF Spec, RefinesConnectionLife
=============================================================================
