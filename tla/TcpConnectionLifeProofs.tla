----------------------- MODULE TcpConnectionLifeProofs -----------------------
(***************************************************************************)
(* The life of a TcpConnection: that it is registered with epoll only with  *)
(* interest and never destroyed while it is, that a FIN leaves nothing      *)
(* behind, and that it refines ConnectionLife.                              *)
(*                                                                         *)
(* Where a theorem says so, threads of the application may call shutdown    *)
(* and sendFile, but not send: its callback is bound to a plain this, and   *)
(* the result does not hold of a send that the loop runs after the          *)
(* connection is down.                                                     *)
(***************************************************************************)
EXTENDS TcpConnectionOrderProofs

USE ConnectionAssumption
    DEF vars, channelVars, socketVars, peerVars, loopVars, userVars,
        serverVars, countVars, otherVars, aroundVars

-----------------------------------------------------------------------------
(* Which callbacks wait, and how a step changes that                       *)

Waiting(op) == \E k \in Line : W(k).op = op
Current(op) == at \in Line /\ W(at).op = op
Behind(op) == \E k \in Line : k > at /\ W(k).op = op

\* The line does not move, or moves as a whole, and ops join it.
Stay(ops) ==
  \A op : /\ Waiting(op)' => Waiting(op) \/ op \in ops
          /\ Waiting(op) => Waiting(op)'
          /\ op \in ops => Waiting(op)'
          /\ Current(op) => Current(op)'
          /\ Behind(op)' => Behind(op) \/ op \in ops

\* The first callback of the line is done, and ops join it.
Passes(ops) ==
  \A op : /\ Waiting(op)' => Behind(op) \/ op \in ops
          /\ Behind(op) => Waiting(op)'
          /\ op \in ops => Waiting(op)'
          /\ Behind(op)' => Behind(op) \/ op \in ops

Joining(ops) ==
  \/ queue' = queue /\ ops = {}
  \/ \E e \in Tasks : queue' = Append(queue, e) /\ ops = {e.op}

LEMMA WaitingIs == TypeOK => \A op : Waiting(op) <=> Current(op) \/ Behind(op)
<1> SUFFICES ASSUME TypeOK, NEW op
             PROVE  Waiting(op) <=> Current(op) \/ Behind(op)
  OBVIOUS
<1>1. at \in Nat /\ \A k \in Line : k \in Int /\ (k = at \/ k > at)
  BY FlowTypes DEF FlowSizes, Line
<1> QED
  BY <1>1 DEF Waiting, Current, Behind

\* The callbacks from at' on stay in line, and the new one is there.
LEMMA LineHolds ==
  ASSUME TypeOK, TypeOK', batch' = batch, at' \in {at, at + 1},
         NEW ops, Joining(ops)
  PROVE  /\ \A k \in Line : k >= at' => k \in Line' /\ W(k)' = W(k)
         /\ \A op \in ops : Waiting(op)'
<1>1. /\ Len(batch) \in Nat /\ Len(queue) \in Nat /\ at \in Nat
      /\ at' \in Nat /\ at' <= Len(batch) + 1
  BY FlowTypes, FlowTypesNext DEF FlowSizes
<1>2. CASE queue' = queue /\ ops = {}
  BY <1>1, <1>2 DEF Line, W
<1>3. CASE \E e \in Tasks : queue' = Append(queue, e) /\ ops = {e.op}
  <2>1. PICK e \in Tasks : queue' = Append(queue, e) /\ ops = {e.op}
    BY <1>3
  <2>2. /\ Len(queue') = Len(queue) + 1
        /\ \A i \in 1..Len(queue) : queue'[i] = queue[i]
        /\ queue'[Len(queue) + 1] = e
    BY <2>1, Appended DEF TypeOK
  <2>3. ASSUME NEW k \in Line, k >= at' PROVE k \in Line' /\ W(k)' = W(k)
    <3>1. k \in Int /\ k <= Len(batch) + Len(queue)
      BY <1>1 DEF Line
    <3>2. k \in Line'
      BY <1>1, <2>2, <2>3, <3>1 DEF Line
    <3>3. k >= 1 /\ (~(k <= Len(batch)) => k - Len(batch) \in 1..Len(queue))
      BY <1>1, <3>1, FlowTypes DEF FlowSizes, Line
    <3> QED
      BY <2>2, <3>2, <3>3 DEF W
  <2>4. PICK k \in Nat : k = Len(batch) + Len(queue) + 1
    BY <1>1
  <2>5. k \in Line' /\ W(k)' = e
    <3>1. k \in Line' /\ ~(k <= Len(batch)) /\ k - Len(batch) = Len(queue) + 1
      BY <1>1, <2>2, <2>4 DEF Line
    <3> QED
      BY <2>2, <3>1 DEF W
  <2>6. Waiting(e.op)'
    BY <2>5 DEF Waiting
  <2> QED
    BY <2>1, <2>3, <2>6
<1> QED
  BY <1>2, <1>3 DEF Joining

\* ... and there is no other.
LEMMA LineIs ==
  ASSUME TypeOK, batch' = batch, at' \in {at, at + 1}, NEW ops, Joining(ops)
  PROVE  \A k \in Line' : \/ k \in Line /\ k >= at' /\ W(k)' = W(k)
                          \/ W(k)'.op \in ops
<1>1. CASE queue' = queue
  BY <1>1, LineKept
<1>2. CASE \E e \in Tasks : queue' = Append(queue, e) /\ ops = {e.op}
  <2>1. PICK e \in Tasks : queue' = Append(queue, e) /\ ops = {e.op}
    BY <1>2
  <2> QED
    BY <2>1, LineGrows
<1> QED
  BY <1>1, <1>2 DEF Joining

LEMMA Stays ==
  ASSUME TypeOK, TypeOK', UNCHANGED <<batch, at>>, NEW ops, Joining(ops)
  PROVE  Stay(ops)
<1>1. /\ \A k \in Line : k >= at => k \in Line' /\ W(k)' = W(k)
      /\ \A op \in ops : Waiting(op)'
  BY LineHolds
<1>2. \A k \in Line' : \/ k \in Line /\ W(k)' = W(k)
                       \/ W(k)'.op \in ops
  BY LineIs
<1>3. at \in Int /\ \A k \in Line : k >= at
  BY FlowTypes DEF FlowSizes, Line
<1> QED
  BY <1>1, <1>2, <1>3 DEF Stay, Waiting, Current, Behind

LEMMA Advances ==
  ASSUME TypeOK, TypeOK', batch' = batch, at' = at + 1, NEW ops, Joining(ops)
  PROVE  Passes(ops)
<1>1. /\ \A k \in Line : k >= at + 1 => k \in Line' /\ W(k)' = W(k)
      /\ \A op \in ops : Waiting(op)'
  BY LineHolds
<1>2. \A k \in Line' : \/ k \in Line /\ k >= at + 1 /\ W(k)' = W(k)
                       \/ W(k)'.op \in ops
  BY LineIs
<1>3. at \in Int /\ \A k \in Line : k \in Int
  BY FlowTypes DEF FlowSizes, Line
<1>4. \A k \in Line : k >= at + 1 <=> k > at
  BY <1>3
<1> QED
  BY <1>1, <1>2, <1>3, <1>4 DEF Passes, Waiting, Behind

\* The line moves as a whole when the loop takes the queue or ends a batch.
LEMMA Shifts ==
  ASSUME TypeOK, TypeOK',
         \/ StartBatch /\ batch = <<>>
         \/ EndBatch
  PROVE  Stay({})
<1>1. /\ Len(batch) \in Nat /\ Len(queue) \in Nat /\ at \in Nat
      /\ at <= Len(batch) + 1 /\ 1 <= at /\ at' = 1
  BY FlowTypes DEF FlowSizes, StartBatch, EndBatch
<1>2. Len(batch) = 0 <=> batch = <<>>
  BY EmptySeq DEF TypeOK
<1>3. PICK d \in Nat : d = Len(batch)
  BY <1>1
<1>4. at = d + 1
  BY <1>1, <1>2, <1>3 DEF EndBatch
<1>5. \A k \in Int : k \in Line' <=> k \in 1..Len(queue)
  BY <1>1, <1>2, EmptySeq DEF Line, StartBatch, EndBatch
<1>6. \A k \in Int : k + d \in Line <=> k \in 1..Len(queue)
  BY <1>1, <1>3, <1>4 DEF Line
<1>7. ASSUME NEW k \in 1..Len(queue) PROVE W(k)' = W(k + d)
  <2>1. W(k)' = queue[k]
    <3>1. CASE StartBatch /\ batch = <<>>
      BY <3>1 DEF StartBatch, W
    <3>2. CASE EndBatch
      <4>1. Len(batch') = 0 /\ ~(k <= 0) /\ k - 0 = k /\ queue' = queue
        BY <3>2, EmptySeq DEF EndBatch
      <4> QED
        BY <4>1 DEF W
    <3> QED
      BY <3>1, <3>2
  <2>2. PICK l \in Nat : l = k + d
    OBVIOUS
  <2>3. ~(l <= Len(batch)) /\ l - Len(batch) = k
    BY <1>1, <1>3, <2>2
  <2>4. W(l) = queue[k]
    BY <2>3 DEF W
  <2> QED
    BY <2>1, <2>2, <2>4
<1>8. Line \subseteq Int /\ Line' \subseteq Int
  BY FlowTypes, FlowTypesNext DEF FlowSizes, Line
<1>9. \A k \in Line : k - d \in Line' /\ W(k - d)' = W(k)
  <2> SUFFICES ASSUME NEW k \in Line PROVE k - d \in Line' /\ W(k - d)' = W(k)
    OBVIOUS
  <2>1. PICK l \in Int : l = k - d
    BY <1>8
  <2>2. l + d = k
    BY <1>8, <2>1
  <2>3. l \in 1..Len(queue)
    BY <1>6, <2>1, <2>2
  <2> QED
    BY <1>5, <1>7, <2>1, <2>2, <2>3
<1>10. \A k \in Line' : k + d \in Line /\ W(k)' = W(k + d)
  BY <1>5, <1>6, <1>7, <1>8
<1>11. \A k \in Int : (k > at' <=> k + d > at) /\ (k - d > at' <=> k > at)
  BY <1>1, <1>4
<1>12. at - d = at'
  BY <1>1, <1>4
<1>13. ASSUME NEW op
       PROVE  /\ Waiting(op)' => Waiting(op)
              /\ Waiting(op) => Waiting(op)'
              /\ Current(op) => Current(op)'
              /\ Behind(op)' => Behind(op)
  <2>1. (Waiting(op)' => Waiting(op)) /\ (Waiting(op) => Waiting(op)')
    BY <1>9, <1>10 DEF Waiting
  <2>2. Current(op) => Current(op)'
    BY <1>9, <1>12 DEF Current
  <2>3. Behind(op)' => Behind(op)
    BY <1>8, <1>10, <1>11 DEF Behind
  <2> QED
    BY <2>1, <2>2, <2>3
<1> QED
  BY <1>13 DEF Stay

\* The server, or handleClose on the way to it, still knows the connection.
Known == inMap \/ removals > 0 \/ callback = "downClosed"

\* What may join the line, and who queues it.
Queues(ops) ==
  /\ "connectEstablished" \notin ops
  /\ "sendInLoop" \in ops => \E t \in Threads : user[t] = "send"
  /\ "shutdownInLoop" \in ops => \E t \in Threads : user[t] = "queueing"
  /\ Known => Known' \/ "connectDestroyed" \in ops

LineStep ==
  \/ place' = "stopped" /\ \A op : ~Waiting(op)'
  \/ \E ops : Queues(ops) /\ IF at' = at + 1 THEN Passes(ops) ELSE Stay(ops)

LEMMA Lines ==
  ASSUME TypeOK, TypeOK', batch' = batch, at' \in {at, at + 1},
         NEW ops, Joining(ops), Queues(ops)
  PROVE  LineStep
<1>1. at # at + 1
  BY FlowTypes DEF FlowSizes
<1>2. CASE at' = at
  BY <1>1, <1>2, Stays DEF LineStep
<1>3. CASE at' = at + 1
  BY <1>3, Advances DEF LineStep
<1> QED
  BY <1>2, <1>3

\* A step that queues nothing.
LEMMA QueuesNothing ==
  ASSUME TypeOK, TypeOK', UNCHANGED <<batch, queue>>, at' \in {at, at + 1},
         Known => Known'
  PROVE  LineStep
<1>1. Joining({}) /\ Queues({})
  BY DEF Joining, Queues
<1> QED
  BY <1>1, Lines

\* A step that queues one callback.
LEMMA QueuesOne ==
  ASSUME TypeOK, TypeOK', batch' = batch, at' \in {at, at + 1},
         NEW op \in Ops, NEW a \in 1..(MaxBytes + 1), NEW b \in 0..MaxBytes,
         queue' = Append(queue, DataTask(op, a, b)), Queues({op})
  PROVE  LineStep
<1>1. DataTask(op, a, b) \in Tasks /\ DataTask(op, a, b).op = op
  BY TasksAreTasks DEF DataTask
<1>2. Joining({op})
  BY <1>1 DEF Joining
<1> QED
  BY <1>2, Lines

LEMMA TaskIs ==
  /\ \A op : Task(op) = DataTask(op, 1, 0)
  /\ 1 \in 1..(MaxBytes + 1) /\ 0 \in 0..MaxBytes
BY DEF Task, DataTask

\* Callbacks that other callbacks queue on the way.
LEMMA QueuesMore ==
  ASSUME TypeOK, TypeOK', batch' = batch, at' \in {at, at + 1},
         Known => Known',
         \/ queue' = queue
         \/ \E op \in {"writeComplete", "highWater", "sendFileInLoop"},
              a \in 1..(MaxBytes + 1), b \in 0..MaxBytes :
              queue' = Append(queue, DataTask(op, a, b))
  PROVE  LineStep
<1>1. \A op \in {"writeComplete", "highWater", "sendFileInLoop"} :
        op \in Ops /\ Queues({op})
  BY DEF Ops, Queues
<1> QED
  BY <1>1, QueuesNothing, QueuesOne

\* sendInLoop and sendFileInLoop queue such callbacks.
LEMMA SendQueues ==
  ASSUME TypeOK, TypeOK', batch' = batch, at' \in {at, at + 1},
         UNCHANGED <<serverVars, callback>>,
         NEW a \in 1..(MaxBytes + 1), NEW b \in 0..MaxBytes,
         SendInLoop(a, b) \/ SendFileInLoop(a, b)
  PROVE  LineStep
<1>1. Known => Known'
  BY DEF Known
<1>2. \/ queue' = queue
      \/ queue' = Append(queue, Task("highWater"))
      \/ queue' = Append(queue, Task("writeComplete"))
      \/ \E c \in a..(MaxBytes + 1) :
           queue' = Append(queue, DataTask("sendFileInLoop", c, b))
  BY SendInLoopTypes, SendFileInLoopTypes
<1>3. \A c \in a..(MaxBytes + 1) : c \in 1..(MaxBytes + 1)
  OBVIOUS
<1>4. CASE queue' = queue
  BY <1>1, <1>4, QueuesMore
<1>5. CASE \E op \in {"highWater", "writeComplete"} :
             queue' = Append(queue, Task(op))
  BY <1>1, <1>5, TaskIs, QueuesMore
<1>6. CASE \E c \in a..(MaxBytes + 1) :
             queue' = Append(queue, DataTask("sendFileInLoop", c, b))
  BY <1>1, <1>3, <1>6, QueuesMore
<1> QED
  BY <1>2, <1>4, <1>5, <1>6

\* removeConnectionInLoop and ~TcpServer queue connectDestroyed.
LEMMA DestroyedQueues ==
  ASSUME TypeOK, TypeOK', UNCHANGED <<batch, at>>,
         queue' = Append(queue, Task("connectDestroyed"))
  PROVE  LineStep
<1>1. "connectDestroyed" \in Ops /\ Queues({"connectDestroyed"})
  BY DEF Ops, Queues
<1> QED
  BY <1>1, TaskIs, QueuesOne

LEMMA NoLine ==
  ASSUME TypeOK, TypeOK', StopLoop
  PROVE  \A op : ~Waiting(op)'
<1>1. Line' = {}
  <2>1. /\ batch = <<>> /\ batch' = <<>> /\ queue' = <<>> /\ at' = at
        /\ at \in Nat /\ 1 <= at
    BY FlowTypes DEF StopLoop, TypeOK, FlowSizes
  <2> QED
    BY <2>1, EmptySeq DEF Line
<1> QED
  BY <1>1 DEF Waiting

LEMMA Bounds ==
  TypeOK => /\ accepted \in Nat /\ accepted <= MaxBytes
            /\ accepted + 1 \in 1..(MaxBytes + 1)
            /\ \A n \in Nat : n <= MaxBytes - accepted => accepted + n \in 0..MaxBytes
BY LenProperties DEF TypeOK, accepted

LEMMA Shifting ==
  ASSUME TypeOK, TypeOK', (StartBatch /\ batch = <<>>) \/ EndBatch, Known => Known'
  PROVE  LineStep
<1>1. Stay({}) /\ Queues({})
  BY Shifts DEF Queues
<1>2. at' # at + 1
  <2>1. at \in Nat /\ 1 <= at /\ at' = 1
    BY FlowTypes DEF FlowSizes, StartBatch, EndBatch
  <2> QED
    BY <2>1
<1> QED
  BY <1>1, <1>2 DEF LineStep

LEMMA LineSteps ==
  ASSUME TypeInv, TypeInv', [Next]_vars
  PROVE  LineStep
<1>1. TypeOK /\ TypeOK'
  BY DEF TypeInv
<1>2. ASSUME UNCHANGED <<batch, queue>>, at' \in {at, at + 1},
             UNCHANGED <<serverVars, callback>> \/ Known'
             \/ (UNCHANGED serverVars /\ callback # "downClosed")
      PROVE  LineStep
  <2>1. Known => Known'
    BY <1>2 DEF Known
  <2> QED
    BY <1>1, <1>2, <2>1, QueuesNothing
<1>3. CASE Poll
  <2>1. \/ StartBatch
        \/ UNCHANGED <<queue, batch, at>>
    BY <1>3 DEF Poll
  <2>2. batch = <<>> /\ UNCHANGED <<serverVars, callback>>
    BY <1>1, <1>3 DEF Poll, TypeOK
  <2>3. Known => Known'
    BY <2>2 DEF Known
  <2> QED
    BY <1>1, <1>2, <2>1, <2>2, <2>3, Shifting
<1>4. CASE HandleHup \/ HandleError \/ HandleRead
  BY <1>2, <1>4 DEF HandleHup, HandleError, HandleRead, AtEvent, Known
<1>5. CASE HandleWrite
  <2>1. /\ UNCHANGED <<batch, at, serverVars, callback>>
        /\ queue' = queue \/ queue' = Append(queue, Task("writeComplete"))
    BY <1>5 DEF HandleWrite, Drained
  <2>2. Known => Known'
    BY <2>1 DEF Known
  <2> QED
    BY <1>1, <2>1, <2>2, TaskIs, QueuesMore
<1>6. CASE EndEvents
  <2>1. batch = <<>> /\ StartBatch /\ (Known => Known')
    BY <1>1, <1>6 DEF EndEvents, TypeOK, Known
  <2> QED
    BY <1>1, <2>1, Shifting
<1>7. CASE RunEstablished \/ RunDestroyed \/ DestroyConnected \/ RunCallback
  BY <1>2, <1>7 DEF RunEstablished, RunDestroyed, DestroyConnected,
                    RunCallback, AtTask, NextTask
<1>8. CASE RunRaw
  <2>1. /\ batch[at].first \in 1..(MaxBytes + 1)
        /\ batch[at].last \in 0..MaxBytes
    BY <1>1, <1>8, CurrentTask DEF RunRaw
  <2>2. /\ UNCHANGED <<batch, serverVars, callback>>
        /\ at' = at + 1
    BY <1>8 DEF RunRaw, NextTask
  <2>3. SendInLoop(batch[at].first, batch[at].last) \/ queue' = queue
    BY <1>8 DEF RunRaw
  <2> QED
    BY <1>1, <1>2, <2>1, <2>2, <2>3, SendQueues
<1>9. CASE RunSendFile
  <2>1. /\ batch[at].first \in 1..(MaxBytes + 1)
        /\ batch[at].last \in 0..MaxBytes
    BY <1>1, <1>9, CurrentTask DEF RunSendFile
  <2>2. /\ UNCHANGED <<batch, serverVars, callback>>
        /\ at' = at + 1
    BY <1>9 DEF RunSendFile, NextTask
  <2>3. SendFileInLoop(batch[at].first, batch[at].last)
    BY <1>9 DEF RunSendFile
  <2> QED
    BY <1>1, <2>1, <2>2, <2>3, SendQueues
<1>10. CASE EndBatch
  <2>1. Known => Known'
    BY <1>10 DEF EndBatch, Known
  <2> QED
    BY <1>1, <1>10, <2>1, Shifting
<1>11. CASE EndCallback \/ EndDownDestroyed
  BY <1>2, <1>11 DEF EndCallback, EndDownDestroyed
<1>12. CASE EndDownClosed
  <2>1. CASE sameLoop
    BY <1>1, <1>12, <2>1, DestroyedQueues DEF EndDownClosed
  <2>2. CASE ~sameLoop
    <3>1. Known'
      BY <1>1, <1>12, <2>2 DEF EndDownClosed, Known, TypeOK
    <3> QED
      BY <1>2, <1>12, <2>2, <3>1 DEF EndDownClosed
  <2> QED
    BY <2>1, <2>2
<1>13. ASSUME NEW n \in 1..(MaxBytes - accepted), Send(n) \/ SendFile(n)
       PROVE  LineStep
  <2>1. /\ accepted + 1 \in 1..(MaxBytes + 1)
        /\ accepted + n \in 0..MaxBytes
    BY <1>1, Bounds
  <2>2. /\ UNCHANGED <<batch, at, serverVars, callback>>
        /\ \/ SendInLoop(accepted + 1, accepted + n)
           \/ SendFileInLoop(accepted + 1, accepted + n)
    BY <1>13 DEF Send, SendFile
  <2> QED
    BY <1>1, <2>1, <2>2, SendQueues
<1>14. CASE Shutdown
  BY <1>2, <1>14 DEF Shutdown
<1>15. ASSUME NEW t \in Threads,
              FinishCall(t) \/ Release(t) \/ \E op \in ThreadOps : Call(t, op)
       PROVE  LineStep
  <2>1. UNCHANGED <<batch, at, serverVars, callback>>
    BY <1>15 DEF FinishCall, Release, Call, QueueSend, QueueSendFile,
                 SetDisconnecting, QueueShutdown
  <2>2. Known => Known'
    BY <2>1 DEF Known
  <2>3. ASSUME NEW n \in (IF accepted < MaxBytes THEN 1..(MaxBytes - accepted)
                          ELSE {0}),
               QueueSend(t, n) \/ QueueSendFile(t, n)
        PROVE  LineStep
    <3>1. /\ accepted + 1 \in 1..(MaxBytes + 1)
          /\ accepted + n \in 0..MaxBytes
      BY <1>1, Bounds
    <3>2. CASE QueueSend(t, n)
      <4>1. Queues({"sendInLoop"}) /\ "sendInLoop" \in Ops
        BY <2>2, <3>2 DEF QueueSend, MoveUser, Queues, Ops, RawOps
      <4>2. \/ queue' = queue
            \/ queue' = Append(queue, DataTask("sendInLoop", accepted + 1,
                                               accepted + n))
        BY <3>2 DEF QueueSend, RunInLoop
      <4> QED
        BY <1>1, <1>2, <2>1, <3>1, <4>1, <4>2, QueuesOne
    <3>3. CASE QueueSendFile(t, n)
      <4>1. \/ queue' = queue
            \/ queue' = Append(queue, DataTask("sendFileInLoop", accepted + 1,
                                               accepted + n))
        BY <3>3 DEF QueueSendFile, RunInLoop
      <4> QED
        BY <1>1, <2>1, <2>2, <3>1, <4>1, QueuesMore
    <3> QED
      BY <2>3, <3>2, <3>3
  <2>4. CASE QueueShutdown(t)
    <3>1. Queues({"shutdownInLoop"}) /\ "shutdownInLoop" \in Ops
      BY <2>2, <2>4 DEF QueueShutdown, MoveUser, Queues, Ops, RawOps
    <3>2. queue' = queue \/ queue' = Append(queue, Task("shutdownInLoop"))
      BY <2>4 DEF QueueShutdown, RunInLoop
    <3> QED
      BY <1>1, <1>2, <2>1, <3>1, <3>2, TaskIs, QueuesOne
  <2>5. CASE SetDisconnecting(t) \/ Release(t) \/ \E op \in ThreadOps : Call(t, op)
    BY <1>2, <2>1, <2>5 DEF SetDisconnecting, Release, Call
  <2> QED
    BY <1>15, <2>3, <2>4, <2>5 DEF FinishCall
<1>16. CASE PeerSend \/ PeerFin \/ PeerReset \/ UNCHANGED vars
  BY <1>2, <1>16 DEF PeerSend, PeerFin, PeerReset
<1>17. CASE RemoveConnectionInLoop
  BY <1>1, <1>17, DestroyedQueues DEF RemoveConnectionInLoop
<1>18. CASE DestroyServer
  <2>1. CASE inMap
    BY <1>1, <1>18, <2>1, DestroyedQueues DEF DestroyServer
  <2>2. CASE ~inMap
    <3>1. UNCHANGED <<batch, queue, at>> /\ (Known => Known')
      BY <1>18, <2>2 DEF DestroyServer, Known
    <3> QED
      BY <1>1, <3>1, QueuesNothing
  <2> QED
    BY <2>1, <2>2
<1>19. CASE StopLoop
  BY <1>1, <1>19, NoLine DEF LineStep, StopLoop
<1> QED
  BY <1>3, <1>4, <1>5, <1>6, <1>7, <1>8, <1>9, <1>10, <1>11, <1>12, <1>13,
     <1>14, <1>15, <1>16, <1>17, <1>18, <1>19
  DEF Next, LoopStep, EventStep, BatchStep, EndStep, CallbackStep

\* What the proofs below use of all this.
LineFacts ==
  /\ Waiting("connectEstablished")' => Waiting("connectEstablished")
  /\ Behind("connectEstablished")' => Behind("connectEstablished")
  /\ Waiting("connectEstablished")' /\ at' = at + 1
       => Behind("connectEstablished")
  /\ Current("connectEstablished")
       => Current("connectEstablished")' \/ at' = at + 1 \/ place' = "stopped"
  /\ Waiting("sendInLoop")'
       => Waiting("sendInLoop") \/ \E t \in Threads : user[t] = "send"
  /\ Waiting("shutdownInLoop")'
       => Waiting("shutdownInLoop") \/ \E t \in Threads : user[t] = "queueing"
  /\ Known => Known' \/ Waiting("connectDestroyed")' \/ place' = "stopped"
  /\ Waiting("connectDestroyed")
       => \/ Waiting("connectDestroyed")' \/ place' = "stopped"
          \/ Current("connectDestroyed") /\ at' = at + 1

LEMMA LineSummary ==
  ASSUME TypeInv, TypeInv', [Next]_vars
  PROVE  LineFacts
<1>1. \A op : Waiting(op) <=> Current(op) \/ Behind(op)
  BY WaitingIs DEF TypeInv
<1>2. TypeOK' => (\A op : Waiting(op) <=> Current(op) \/ Behind(op))'
  BY WaitingIs, PTL
<1>3. \A op : Waiting(op)' <=> Current(op)' \/ Behind(op)'
  BY <1>2 DEF TypeInv
<1>4. CASE place' = "stopped" /\ \A op : ~Waiting(op)'
  BY <1>3, <1>4 DEF LineFacts
<1>5. ASSUME NEW ops, Queues(ops),
             IF at' = at + 1 THEN Passes(ops) ELSE Stay(ops)
      PROVE  LineFacts
  <2>1. CASE at' = at + 1
    BY <1>1, <1>3, <1>5, <2>1 DEF LineFacts, Queues, Passes
  <2>2. CASE at' # at + 1
    BY <1>1, <1>3, <1>5, <2>2 DEF LineFacts, Queues, Stay
  <2> QED
    BY <2>1, <2>2
<1> QED
  BY <1>4, <1>5, LineSteps DEF LineStep

\* The callback that runs is the first of the line.
LEMMA CurrentIs ==
  ASSUME TypeOK, NEW ops, AtTask(ops)
  PROVE  Current(batch[at].op) /\ batch[at].op \in ops
<1>1. at \in 1..Len(batch) /\ Len(batch) \in Nat /\ Len(queue) \in Nat
  BY CurrentTask, FlowTypes DEF FlowSizes
<1>2. at \in Line /\ W(at) = batch[at]
  BY <1>1 DEF Line, W
<1> QED
  BY <1>2 DEF Current, AtTask

LEMMA OneCurrent ==
  \A op1, op2 : Current(op1) /\ Current(op2) => op1 = op2
BY DEF Current

-----------------------------------------------------------------------------
(* What the channel's registration follows, whoever sends                  *)

\* While the connection is up its channel is registered for reading.
Up ==
  /\ state = "kConnected" => index = "kAdded" /\ "IN" \in events
  /\ callback \in {"downClosed", "downDestroyed"} => state # "kConnected"

\* An event that could close the connection is handled only while the channel
\* is registered.
Registered ==
  /\ index = "kAdded" => events # {}
  /\ place = "event" => index # "kNew"
  /\ place = "event" /\ IsWriting => index = "kAdded"
  /\ revents \cap {"HUP", "IN"} # {} => index = "kAdded"
  /\ ~({"HUP", "IN"} \subseteq revents)
  /\ place = "destroy" /\ callback = "none" => index = "kAdded"

\* sendInLoop asks for EPOLLOUT if it does anything to the channel.
LEMMA SendInLoopChannel ==
  ASSUME NEW a, NEW b, SendInLoop(a, b)
  PROVE  \/ UNCHANGED channelVars
         \/ events' = events \cup {"OUT"} /\ index' = "kAdded"
BY DEF SendInLoop, BufferRest, Update

LEMMA RegisteredStep ==
  ASSUME TypeInv, Up, Registered, [Next]_vars
  PROVE  Up' /\ Registered'
<1>1. TypeOK /\ Places
  BY DEF TypeInv
<1>2. /\ events \in SUBSET {"IN", "OUT"}
      /\ revents \in SUBSET {"HUP", "ERR", "IN", "OUT"}
      /\ place # "event" => revents = {}
  BY <1>1 DEF TypeOK
<1>3. ASSUME UNCHANGED <<events, index>>, state' \in {state, "kDisconnecting"},
             callback' \in {"downClosed", "downDestroyed"} => callback' = callback,
             revents' \subseteq revents,
             place' = "event" => place = "event",
             place' = "destroy" /\ callback' = "none"
               => place = "destroy" /\ callback = "none"
      PROVE  Up' /\ Registered'
  BY <1>3 DEF Up, Registered, IsWriting
<1>4. CASE Poll
  <2>1. PICK ready \in {Pending, Pending \cup PerhapsRoom} :
          IF ready # {}
            THEN /\ revents' = IF "IN" \in ready THEN ready \ {"HUP"} ELSE ready
                 /\ place' = "event"
            ELSE StartBatch /\ UNCHANGED revents
    BY <1>4 DEF Poll
  <2>2. UNCHANGED <<state, events, index, callback>>
    BY <1>4 DEF Poll
  <2>3. CASE ready # {}
    <3>1. index = "kAdded"
      BY <2>1, <2>3 DEF Pending, PerhapsRoom
    <3>2. ~({"HUP", "IN"} \subseteq revents') /\ place' = "event"
      BY <2>1, <2>3
    <3> QED
      BY <2>2, <3>1, <3>2 DEF Up, Registered
  <2>4. CASE ready = {}
    <3>1. revents' = revents /\ place' \in {"poll", "run"}
      BY <2>1, <2>4 DEF StartBatch
    <3> QED
      BY <1>3, <2>2, <3>1
  <2> QED
    BY <2>3, <2>4
<1>5. ASSUME AtEvent("HUP") \/ AtEvent("IN"), HandleClose, UNCHANGED place
      PROVE  Up' /\ Registered'
  <2>1. index = "kAdded" /\ place' = "event" /\ callback' = "downClosed"
    BY <1>5 DEF AtEvent, HandleClose, Registered
  <2>2. state' = "kDisconnected" /\ events' = {} /\ index' = "kDeleted"
    BY <1>5, <2>1 DEF HandleClose, Update
  <2>3. revents' \cap {"HUP", "IN"} = {}
    BY <1>5 DEF AtEvent, Registered
  <2> QED
    BY <2>1, <2>2, <2>3 DEF Up, Registered, IsWriting
<1>6. CASE HandleHup
  BY <1>5, <1>6 DEF HandleHup
<1>7. CASE HandleError \/ EndEvents
  BY <1>3, <1>7 DEF HandleError, EndEvents, AtEvent, StartBatch
<1>8. CASE HandleRead
  <2>1. CASE HandleClose
    BY <1>5, <1>8, <2>1 DEF HandleRead
  <2>2. CASE ~HandleClose
    <3>1. /\ UNCHANGED <<state, events, index, place>>
          /\ callback' \in {callback, "message"}
          /\ revents' \subseteq revents /\ place = "event"
      BY <1>8, <2>2 DEF HandleRead, AtEvent
    <3> QED
      BY <1>3, <3>1
  <2> QED
    BY <2>1, <2>2
<1>9. CASE HandleWrite
  <2>1. /\ UNCHANGED <<state, place, callback>>
        /\ revents' = {} /\ place = "event"
    BY <1>9 DEF HandleWrite, AtEvent
  <2>2. CASE UNCHANGED channelVars
    BY <1>3, <2>1, <2>2
  <2>3. CASE IsWriting /\ Drained
    <3>1. index = "kAdded" /\ events # {}
      BY <2>1, <2>3 DEF Registered, IsWriting
    <3>2. /\ events' = events \ {"OUT"}
          /\ index' = IF events' = {} THEN "kDeleted" ELSE "kAdded"
      BY <2>3, <3>1 DEF Drained, Update
    <3> QED
      BY <1>2, <2>1, <3>1, <3>2 DEF Up, Registered, IsWriting
  <2> QED
    BY <1>9, <2>2, <2>3 DEF HandleWrite
<1>10. CASE RunEstablished
  <2>1. /\ events' = events \cup {"IN"} /\ index' = "kAdded"
        /\ callback' = "up" /\ place' = "run" /\ revents' = {}
    BY <1>2, <1>10 DEF RunEstablished, AtTask, Update, NextTask
  <2> QED
    BY <2>1 DEF Up, Registered
<1>11. CASE RunDestroyed
  <2>1. CASE state = "kConnected"
    <3>1. /\ UNCHANGED <<state, events, index, callback, revents>>
          /\ place' = "destroy" /\ index = "kAdded" /\ revents = {}
      BY <1>2, <1>11, <2>1 DEF RunDestroyed, AtTask, Up
    <3> QED
      BY <3>1 DEF Up, Registered
  <2>2. CASE state # "kConnected"
    <3>1. /\ UNCHANGED <<state, events, callback, revents, place>>
          /\ place = "run" /\ index' = "kNew" /\ revents = {}
      BY <1>2, <1>11, <2>2 DEF RunDestroyed, AtTask, Remove
    <3> QED
      BY <2>2, <3>1 DEF Up, Registered
  <2> QED
    BY <2>1, <2>2
<1>12. CASE DestroyConnected
  <2>1. /\ index = "kAdded" /\ place' = "destroy" /\ revents' = {}
        /\ callback' = "downDestroyed" /\ state' = "kDisconnected"
    BY <1>2, <1>12 DEF DestroyConnected, Registered
  <2>2. events' = {} /\ index' = "kDeleted"
    BY <1>12, <2>1 DEF DestroyConnected, Update
  <2> QED
    BY <2>1, <2>2 DEF Up, Registered, IsWriting
<1>13. CASE RunCallback \/ RunSendFile \/ EndBatch
  BY <1>3, <1>13
  DEF RunCallback, RunSendFile, EndBatch, AtTask, NextTask, SendFileInLoop
<1>14. CASE RunRaw
  <2>1. /\ UNCHANGED <<state, callback, place, revents>>
        /\ place = "run" /\ revents = {}
    BY <1>2, <1>14 DEF RunRaw, AtTask, NextTask
  <2>2. \/ UNCHANGED channelVars
        \/ events' = events \cup {"OUT"} /\ index' = "kAdded"
    BY <1>14, SendInLoopChannel DEF RunRaw
  <2> QED
    BY <2>1, <2>2 DEF Up, Registered
<1>15. CASE EndCallback
  BY <1>1, <1>3, <1>15 DEF EndCallback, Places
<1>16. CASE EndDownClosed
  <2>1. /\ UNCHANGED <<state, events, index, place, revents>>
        /\ callback' = "none" /\ place = "event"
    BY <1>1, <1>16 DEF EndDownClosed, Places
  <2> QED
    BY <1>3, <2>1
<1>17. CASE EndDownDestroyed
  <2>1. /\ UNCHANGED <<state, events, revents>> /\ state # "kConnected"
        /\ callback' = "none" /\ place' = "run" /\ index' = "kNew"
        /\ revents = {}
    BY <1>1, <1>2, <1>17 DEF EndDownDestroyed, Up, Places, Remove
  <2> QED
    BY <2>1 DEF Up, Registered
<1>18. ASSUME NEW n \in 1..(MaxBytes - accepted), Send(n) \/ SendFile(n)
       PROVE  Up' /\ Registered'
  <2>1. UNCHANGED <<state, callback, place, revents>>
    BY <1>18 DEF Send, SendFile
  <2>2. \/ UNCHANGED channelVars
        \/ events' = events \cup {"OUT"} /\ index' = "kAdded"
    BY <1>18, SendInLoopChannel DEF Send, SendFile, SendFileInLoop
  <2> QED
    BY <1>3, <2>1, <2>2 DEF Up, Registered
<1>19. CASE Shutdown
  <2>1. UNCHANGED <<channelVars, callback, place, revents>>
          /\ state' = "kDisconnecting"
    BY <1>19 DEF Shutdown
  <2> QED
    BY <1>3, <2>1
<1>20. ASSUME NEW t \in Threads,
              FinishCall(t) \/ Release(t) \/ \E op \in ThreadOps : Call(t, op)
       PROVE  Up' /\ Registered'
  <2>1. /\ UNCHANGED <<channelVars, callback, place, revents>>
        /\ state' \in {state, "kDisconnecting"}
    BY <1>20 DEF FinishCall, Release, Call, QueueSend, QueueSendFile,
                 SetDisconnecting, QueueShutdown
  <2> QED
    BY <1>3, <2>1
<1>21. CASE \/ PeerSend \/ PeerFin \/ PeerReset \/ UNCHANGED vars
            \/ RemoveConnectionInLoop \/ DestroyServer \/ StopLoop
  BY <1>3, <1>21
  DEF PeerSend, PeerFin, PeerReset, RemoveConnectionInLoop, DestroyServer,
      StopLoop
<1> QED
  BY <1>4, <1>6, <1>7, <1>8, <1>9, <1>10, <1>11, <1>12, <1>13, <1>14, <1>15,
     <1>16, <1>17, <1>18, <1>19, <1>20, <1>21
  DEF Next, LoopStep, EventStep, BatchStep, EndStep, CallbackStep

LEMMA RegisteredInvariant == Spec => [](TypeInv /\ Up /\ Registered)
<1>1. Init => Up /\ Registered
  BY DEF Init, Up, Registered, IsWriting
<1> QED
  BY <1>1, RegisteredStep, TypeInvariant, PTL DEF Spec

\* A channel that is registered with epoll always has an interest, so that a
\* closed connection never makes epoll report EPOLLHUP for ever, not even when
\* a late send() registers it again.
THEOREM RegisteredWithInterestHolds == Spec => []RegisteredWithInterest
<1>1. Registered => RegisteredWithInterest
  BY DEF Registered, RegisteredWithInterest
<1> QED
  BY <1>1, RegisteredInvariant, PTL

-----------------------------------------------------------------------------
(* The parts of the invariant                                              *)

\* No thread's send() waits for the loop.
NoSends ==
  /\ \A t \in Threads : user[t] # "send"
  /\ ~Waiting("sendInLoop")

\* connectEstablished is the first callback of the connection's life: nothing
\* but it waits for the loop, and nothing happens before it has run.
Established ==
  /\ ups \in {0, 1}
  /\ ups = 0 =>
       /\ downs = 0 /\ state = "kConnecting" /\ events = {} /\ index = "kNew"
       /\ callback = "none" /\ place \in {"poll", "run", "stopped"}
       /\ \A t \in Threads : user[t] = "none"
       /\ place # "stopped" => Current("connectEstablished")
  /\ ~Behind("connectEstablished")
  /\ Waiting("connectEstablished") => ups = 0

\* The connection goes down once: after that it has no interest in events.
Closed ==
  /\ downs \in {0, 1}
  /\ downs = 1 => events = {} /\ index # "kAdded" /\ state # "kConnected"
  /\ removals > 0 \/ callback \in {"downClosed", "downDestroyed"} => downs = 1
  /\ serverAlive /\ downs = 0 => inMap
  /\ state = "kConnected" => index = "kAdded" /\ "IN" \in events

\* Until the poller has forgotten the channel somebody is to see to it, and
\* holds the connection.
InTime ==
  (index # "kNew" \/ ups = 0) /\ place # "stopped"
    => Known \/ Waiting("connectDestroyed")

\* A FIN is asked for only by shutdown().
ShutdownAsked ==
  state \in {"kConnecting", "kConnected"} =>
    /\ ~finSent
    /\ \A t \in Threads : user[t] # "queueing"
    /\ ~Waiting("shutdownInLoop")

\* Bytes given to send() are in the flow at once.
Delivered ==
  peer # "reset" /\ downs = 0 =>
    \A i \in 1..accepted :
      given[i] # "file" => \E j \in 1..Len(flow) : flow[j] = i

\* After the FIN no bytes are left.
FinAfter == finSent /\ downs = 0 => outputBuffer = <<>>

LEMMA NoSendsStep ==
  ASSUME "send" \notin ThreadOps, TypeInv, TypeInv', NoSends, [Next]_vars
  PROVE  NoSends'
<1>1. ~Waiting("sendInLoop")'
  BY LineSummary DEF LineFacts, NoSends
<1>2. ASSUME NEW t \in Threads PROVE user'[t] # "send"
  <2>1. user \in [Threads -> {"none", "idle", "send", "sendFile", "shutdown",
                             "queueing", "gone"}]
    BY DEF TypeInv, TypeOK
  <2>2. user[t] # "send"
    BY DEF NoSends
  <2>3. CASE RunEstablished
    BY <2>3 DEF RunEstablished
  <2>4. ASSUME NEW x \in Threads, Release(x) \/ FinishCall(x)
                \/ \E op \in ThreadOps : Call(x, op)
        PROVE  user'[t] # "send"
    BY <2>1, <2>2, <2>4
    DEF FinishCall, Release, Call, QueueSend, QueueSendFile, MoveUser,
        SetDisconnecting, QueueShutdown
  <2>5. CASE LoopStep /\ ~RunEstablished
    <3>1. user' = user
      BY <2>5 DEF LoopStep, EventStep, BatchStep, EndStep, Poll, HandleHup,
        HandleError, HandleRead, HandleWrite, EndEvents, RunDestroyed,
        DestroyConnected, RunCallback, RunRaw, RunSendFile, EndBatch,
        EndCallback, EndDownClosed, EndDownDestroyed
    <3> QED
      BY <2>2, <3>1
  <2>6. CASE CallbackStep
    BY <2>2, <2>6 DEF CallbackStep, Send, SendFile, Shutdown
  <2>7. CASE \/ PeerSend \/ PeerFin \/ PeerReset \/ UNCHANGED vars
             \/ RemoveConnectionInLoop \/ DestroyServer \/ StopLoop
    BY <2>2, <2>7 DEF PeerSend, PeerFin, PeerReset, RemoveConnectionInLoop,
                      DestroyServer, StopLoop
  <2> QED
    BY <2>3, <2>4, <2>5, <2>6, <2>7 DEF Next
<1> QED
  BY <1>1, <1>2 DEF NoSends

\* Before connectEstablished has run the loop only waits and turns to it, and
\* the peer and the server act.
Quiet ==
  /\ UNCHANGED <<state, events, index, callback, user, ups, downs>>
  /\ at' # at + 1
  /\ place' \in {"poll", "run", "stopped"}
  /\ place = "stopped" => place' = "stopped"

LEMMA BeforeEstablished ==
  ASSUME TypeInv, Established, ups = 0, [Next]_vars, ~RunEstablished
  PROVE  Quiet
<1>1. /\ downs = 0 /\ state = "kConnecting" /\ events = {} /\ index = "kNew"
      /\ callback = "none" /\ place \in {"poll", "run", "stopped"}
      /\ \A t \in Threads : user[t] = "none"
      /\ place # "stopped" => Current("connectEstablished")
  BY DEF Established
<1>2. TypeOK
  BY DEF TypeInv
<1>3. at # at + 1 /\ 1 # at + 1
  BY <1>2, FlowTypes DEF FlowSizes
<1>4. ASSUME NEW ops, AtTask(ops), "connectEstablished" \notin ops PROVE FALSE
  BY <1>1, <1>2, <1>4, CurrentIs, OneCurrent DEF AtTask
<1>5. CASE Poll
  <2>1. Pending = {} /\ PerhapsRoom = {}
    BY <1>1 DEF Pending, PerhapsRoom
  <2>2. StartBatch
    BY <1>5, <2>1 DEF Poll
  <2> QED
    BY <1>3, <1>5, <2>2 DEF Poll, StartBatch, Quiet
<1>6. CASE EventStep
  BY <1>1, <1>6 DEF EventStep, HandleHup, HandleError, HandleRead, HandleWrite,
                    EndEvents, AtEvent
<1>7. CASE RunDestroyed \/ RunCallback \/ RunRaw \/ RunSendFile
  BY <1>4, <1>7 DEF RunDestroyed, RunCallback, RunRaw, RunSendFile, RawOps
<1>8. CASE DestroyConnected \/ EndStep \/ CallbackStep
  BY <1>1, <1>8 DEF DestroyConnected, EndStep, EndCallback, EndDownClosed,
    EndDownDestroyed, CallbackStep, Send, SendFile, Shutdown, InCallback
<1>9. CASE EndBatch
  BY <1>3, <1>9 DEF EndBatch, Quiet
<1>10. ASSUME NEW t \in Threads,
              FinishCall(t) \/ Release(t) \/ \E op \in ThreadOps : Call(t, op)
       PROVE  FALSE
  BY <1>1, <1>10 DEF FinishCall, Release, Call, QueueSend, QueueSendFile,
                     SetDisconnecting, QueueShutdown, MoveUser
<1>11. CASE \/ PeerSend \/ PeerFin \/ PeerReset \/ UNCHANGED vars
            \/ RemoveConnectionInLoop \/ DestroyServer \/ StopLoop
  BY <1>1, <1>3, <1>11
  DEF PeerSend, PeerFin, PeerReset, RemoveConnectionInLoop, DestroyServer,
      StopLoop, Quiet
<1> QED
  BY <1>5, <1>6, <1>7, <1>8, <1>9, <1>10, <1>11 DEF Next, LoopStep, BatchStep

LEMMA UpOnce ==
  ASSUME [Next]_vars, ~RunEstablished
  PROVE  ups' = ups
<1>1. CASE LoopStep
  BY <1>1 DEF LoopStep, EventStep, BatchStep, EndStep, Poll, HandleHup,
    HandleError, HandleRead, HandleWrite, EndEvents, RunDestroyed,
    DestroyConnected, RunCallback, RunRaw, RunSendFile, EndBatch, EndCallback,
    EndDownClosed, EndDownDestroyed
<1>2. CASE CallbackStep
  BY <1>2 DEF CallbackStep, Send, SendFile, Shutdown
<1>3. ASSUME NEW t \in Threads,
             FinishCall(t) \/ Release(t) \/ \E op \in ThreadOps : Call(t, op)
      PROVE  ups' = ups
  BY <1>3 DEF FinishCall, Release, Call, QueueSend, QueueSendFile,
              SetDisconnecting, QueueShutdown
<1>4. CASE \/ PeerSend \/ PeerFin \/ PeerReset \/ UNCHANGED vars
           \/ RemoveConnectionInLoop \/ DestroyServer \/ StopLoop
  BY <1>4 DEF PeerSend, PeerFin, PeerReset, RemoveConnectionInLoop,
              DestroyServer, StopLoop
<1> QED
  BY <1>1, <1>2, <1>3, <1>4 DEF Next

LEMMA EstablishedStep ==
  ASSUME TypeInv, TypeInv', Established, [Next]_vars
  PROVE  Established'
<1>1. LineFacts
  BY LineSummary
<1>2. ~Behind("connectEstablished")'
  BY <1>1 DEF LineFacts, Established
<1>3. CASE RunEstablished
  <2>1. Current("connectEstablished") /\ ups' = ups + 1 /\ at' = at + 1
    BY <1>3, CurrentIs DEF RunEstablished, NextTask, TypeInv
  <2>2. ups = 0
    BY <2>1, WaitingIs DEF Established, TypeInv
  <2>3. ~Waiting("connectEstablished")'
    BY <1>1, <2>1 DEF LineFacts, Established
  <2> QED
    BY <1>2, <2>1, <2>2, <2>3 DEF Established
<1>4. CASE ~RunEstablished
  <2>1. ups' = ups /\ ups \in {0, 1}
    BY <1>4, UpOnce DEF Established
  <2>2. Waiting("connectEstablished")' => ups' = 0
    BY <1>1, <2>1 DEF LineFacts, Established
  <2>3. CASE ups = 0
    <3>1. Quiet
      BY <1>4, <2>3, BeforeEstablished
    <3> QED
      BY <1>1, <1>2, <2>1, <2>2, <2>3, <3>1
      DEF Quiet, LineFacts, Established
  <2>4. CASE ups = 1
    BY <1>2, <2>1, <2>2, <2>4 DEF Established
  <2> QED
    BY <2>1, <2>3, <2>4
<1> QED
  BY <1>3, <1>4

\* handleClose and the rest of connectDestroyed, while the connection is up.
LEMMA GoesDown ==
  ASSUME TypeOK, Closed, index = "kAdded",
         state' = "kDisconnected", Update({}), downs' = downs + 1,
         UNCHANGED <<inMap, serverAlive, removals>>
  PROVE  Closed' /\ events' = {} /\ index' = "kDeleted" /\ downs' = 1
<1>1. downs = 0
  BY DEF Closed
<1>2. events' = {} /\ index' = "kDeleted"
  BY DEF Update
<1> QED
  BY <1>1, <1>2 DEF Closed

LEMMA ClosedStep ==
  ASSUME TypeInv, NoSends, Established, Closed, Up', Registered, [Next]_vars
  PROVE  Closed'
<1>1. TypeOK /\ Places
  BY DEF TypeInv
<1>2. /\ events \in SUBSET {"IN", "OUT"}
      /\ removals \in Nat
      /\ inMap \in BOOLEAN /\ serverAlive \in BOOLEAN
  BY <1>1 DEF TypeOK
<1>3. ASSUME UNCHANGED <<state, events, index, downs>>,
             callback' \in {"downClosed", "downDestroyed"} => callback' = callback,
             UNCHANGED <<removals, inMap, serverAlive>>
      PROVE  Closed'
  BY <1>3 DEF Closed
<1>4. ASSUME AtEvent("HUP") \/ AtEvent("IN"), HandleClose,
             UNCHANGED <<place, inMap, serverAlive, removals>>
      PROVE  Closed'
  <2>1. index = "kAdded"
    BY <1>4 DEF AtEvent, Registered
  <2> QED
    BY <1>1, <1>4, <2>1, GoesDown DEF HandleClose
<1>5. CASE Poll \/ HandleError \/ EndEvents
  BY <1>3, <1>5 DEF Poll, HandleError, EndEvents
<1>6. CASE HandleHup
  BY <1>4, <1>6 DEF HandleHup
<1>7. CASE HandleRead
  <2>1. CASE HandleClose
    BY <1>4, <1>7, <2>1 DEF HandleRead
  <2>2. CASE ~HandleClose
    <3>1. /\ UNCHANGED <<state, events, index, downs, removals, inMap, serverAlive>>
          /\ callback' \in {callback, "message"}
      BY <1>7, <2>2 DEF HandleRead, AtEvent
    <3> QED
      BY <1>3, <3>1
  <2> QED
    BY <2>1, <2>2
<1>8. CASE HandleWrite
  <2>1. /\ UNCHANGED <<state, downs, callback, removals, inMap, serverAlive>>
        /\ place = "event"
    BY <1>8 DEF HandleWrite, AtEvent
  <2>2. CASE UNCHANGED channelVars
    BY <1>3, <2>1, <2>2
  <2>3. CASE IsWriting /\ Drained
    <3>1. downs # 1
      BY <2>3 DEF Closed, IsWriting
    <3> QED
      BY <2>1, <3>1 DEF Closed, Up
  <2> QED
    BY <1>8, <2>2, <2>3 DEF HandleWrite
<1>9. CASE RunEstablished
  <2>1. Current("connectEstablished") /\ ups = 0
    BY <1>1, <1>9, CurrentIs, WaitingIs DEF RunEstablished, Established
  <2>2. downs = 0
    BY <2>1 DEF Established
  <2>3. callback' = "up" /\ downs' = 0 /\ UNCHANGED <<removals, inMap, serverAlive>>
    BY <1>9, <2>2 DEF RunEstablished
  <2> QED
    BY <2>2, <2>3 DEF Closed, Up
<1>10. CASE RunDestroyed
  <2>1. CASE state = "kConnected"
    BY <1>3, <1>10, <2>1 DEF RunDestroyed
  <2>2. CASE state # "kConnected"
    <3>1. /\ UNCHANGED <<state, events, downs, callback, removals, inMap, serverAlive>>
          /\ index' = "kNew"
      BY <1>10, <2>2 DEF RunDestroyed, Remove
    <3> QED
      BY <2>2, <3>1 DEF Closed
  <2> QED
    BY <2>1, <2>2
<1>11. CASE DestroyConnected
  <2>1. index = "kAdded"
    BY <1>11 DEF DestroyConnected, Registered
  <2> QED
    BY <1>1, <1>11, <2>1, GoesDown DEF DestroyConnected
<1>12. CASE RunCallback \/ RunSendFile \/ EndBatch
  BY <1>3, <1>12
  DEF RunCallback, RunSendFile, EndBatch, AtTask, NextTask, SendFileInLoop
<1>13. CASE RunRaw
  <2>1. Current(batch[at].op) /\ batch[at].op \in RawOps
    BY <1>1, <1>13, CurrentIs DEF RunRaw
  <2>2. batch[at].op # "sendInLoop"
    BY <1>1, <2>1, WaitingIs DEF NoSends
  <2>3. UNCHANGED <<channelVars, state, downs, callback, removals, inMap,
                    serverAlive>>
    BY <1>13, <2>2 DEF RunRaw
  <2> QED
    BY <1>3, <2>3
<1>14. CASE EndCallback
  BY <1>3, <1>14 DEF EndCallback
<1>15. CASE EndDownClosed
  <2>1. UNCHANGED <<state, events, index, downs, serverAlive>> /\ downs = 1
    BY <1>15 DEF EndDownClosed, Closed
  <2> QED
    BY <2>1 DEF Closed
<1>16. CASE EndDownDestroyed
  <2>1. /\ UNCHANGED <<state, events, downs, serverAlive, removals, inMap>>
        /\ downs = 1 /\ index' = "kNew"
    BY <1>16 DEF EndDownDestroyed, Closed, Remove
  <2> QED
    BY <2>1 DEF Closed
<1>17. ASSUME NEW n \in 1..(MaxBytes - accepted), Send(n) \/ SendFile(n)
       PROVE  Closed'
  <2>1. UNCHANGED <<state, downs, callback, removals, inMap, serverAlive>>
    BY <1>17 DEF Send, SendFile
  <2>2. state = "kConnected"
    BY <1>17 DEF Send, SendFile, InCallback
  <2> QED
    BY <2>1, <2>2 DEF Closed, Up
<1>18. CASE Shutdown
  BY <1>18 DEF Shutdown, Closed
<1>19. ASSUME NEW t \in Threads,
              FinishCall(t) \/ Release(t) \/ \E op \in ThreadOps : Call(t, op)
       PROVE  Closed'
  <2>1. /\ UNCHANGED <<channelVars, downs, callback, removals, inMap, serverAlive>>
        /\ state' \in {state, "kDisconnecting"}
    BY <1>19 DEF FinishCall, Release, Call, QueueSend, QueueSendFile,
                 SetDisconnecting, QueueShutdown
  <2> QED
    BY <2>1 DEF Closed
<1>20. CASE PeerSend \/ PeerFin \/ PeerReset \/ UNCHANGED vars \/ StopLoop
  BY <1>3, <1>20 DEF PeerSend, PeerFin, PeerReset, StopLoop
<1>21. CASE RemoveConnectionInLoop
  BY <1>2, <1>21 DEF RemoveConnectionInLoop, Closed
<1>22. CASE DestroyServer
  BY <1>22 DEF DestroyServer, Closed
<1> QED
  BY <1>5, <1>6, <1>7, <1>8, <1>9, <1>10, <1>11, <1>12, <1>13, <1>14, <1>15,
     <1>16, <1>17, <1>18, <1>19, <1>20, <1>21, <1>22
  DEF Next, LoopStep, EventStep, BatchStep, EndStep, CallbackStep

LEMMA StaysStopped ==
  ASSUME TypeInv, [Next]_vars, place = "stopped"
  PROVE  place' = "stopped"
<1>1. callback # "downDestroyed"
  BY DEF TypeInv, Places
<1>2. CASE LoopStep
  BY <1>1, <1>2 DEF LoopStep, EventStep, BatchStep, EndStep, Poll, HandleHup,
    HandleError, HandleRead, HandleWrite, EndEvents, RunEstablished,
    RunDestroyed, DestroyConnected, RunCallback, RunRaw, RunSendFile, EndBatch,
    EndCallback, EndDownClosed, EndDownDestroyed, AtEvent, AtTask
<1>3. CASE CallbackStep
  BY <1>3 DEF CallbackStep, Send, SendFile, Shutdown
<1>4. ASSUME NEW t \in Threads,
             FinishCall(t) \/ Release(t) \/ \E op \in ThreadOps : Call(t, op)
      PROVE  place' = place
  BY <1>4 DEF FinishCall, Release, Call, QueueSend, QueueSendFile,
              SetDisconnecting, QueueShutdown
<1>5. CASE \/ PeerSend \/ PeerFin \/ PeerReset \/ UNCHANGED vars
           \/ RemoveConnectionInLoop \/ DestroyServer \/ StopLoop
  BY <1>5 DEF PeerSend, PeerFin, PeerReset, RemoveConnectionInLoop,
              DestroyServer, StopLoop
<1> QED
  BY <1>2, <1>3, <1>4, <1>5 DEF Next

\* A channel that the poller has forgotten is not added again.
LEMMA StaysForgotten ==
  ASSUME TypeInv, NoSends, Established, Closed, Registered, [Next]_vars,
         index = "kNew", ups = 1
  PROVE  index' = "kNew" /\ ups' = 1
<1>1. ~RunEstablished
  BY CurrentIs, WaitingIs DEF RunEstablished, Established, TypeInv
<1>2. ups' = 1
  BY <1>1, UpOnce
<1>3. revents \cap {"HUP", "IN"} = {} /\ place # "event"
      /\ ~(place = "destroy" /\ callback = "none")
  BY DEF Registered
<1>4. ~EventStep /\ ~DestroyConnected
  BY <1>3 DEF EventStep, HandleHup, HandleError, HandleRead, HandleWrite,
              EndEvents, AtEvent, DestroyConnected
<1>5. CASE RunRaw
  <2>1. batch[at].op # "sendInLoop"
    BY <1>5, CurrentIs, WaitingIs DEF RunRaw, NoSends, TypeInv
  <2> QED
    BY <1>2, <1>5, <2>1 DEF RunRaw
<1>6. CASE LoopStep /\ ~RunRaw
  BY <1>1, <1>2, <1>4, <1>6 DEF LoopStep, BatchStep, EndStep, Poll,
    RunDestroyed, RunCallback, RunSendFile, SendFileInLoop, EndBatch,
    EndCallback, EndDownClosed, EndDownDestroyed, Remove
<1>7. CASE CallbackStep
  <2>1. state # "kConnected"
    BY DEF Closed
  <2> QED
    BY <1>2, <1>7, <2>1
    DEF CallbackStep, Send, SendFile, Shutdown, InCallback
<1>8. ASSUME NEW t \in Threads,
             FinishCall(t) \/ Release(t) \/ \E op \in ThreadOps : Call(t, op)
      PROVE  index' = index
  BY <1>8 DEF FinishCall, Release, Call, QueueSend, QueueSendFile,
              SetDisconnecting, QueueShutdown
<1>9. CASE \/ PeerSend \/ PeerFin \/ PeerReset \/ UNCHANGED vars
           \/ RemoveConnectionInLoop \/ DestroyServer \/ StopLoop
  BY <1>2, <1>9 DEF PeerSend, PeerFin, PeerReset, RemoveConnectionInLoop,
                    DestroyServer, StopLoop
<1> QED
  BY <1>2, <1>5, <1>6, <1>7, <1>8, <1>9 DEF Next

\* connectDestroyed is done with when the poller has forgotten the channel.
LEMMA DestroyedForgets ==
  ASSUME TypeInv, Established, [Next]_vars,
         Current("connectDestroyed"), at' = at + 1
  PROVE  index' = "kNew" /\ ups' # 0
<1>1. at # at + 1 /\ 1 # at + 1
  BY FlowTypes DEF FlowSizes, TypeInv
<1>2. ASSUME NEW ops, AtTask(ops)
      PROVE  batch[at].op = "connectDestroyed" /\ "connectDestroyed" \in ops
  BY <1>2, CurrentIs, OneCurrent DEF TypeInv
<1>3. CASE RunDestroyed \/ EndDownDestroyed
  <2>1. index' = "kNew" /\ ups' = ups /\ place # "stopped"
    BY <1>1, <1>3 DEF RunDestroyed, EndDownDestroyed, Remove, AtTask, TypeInv,
                      Places
  <2>2. ups # 0
    BY <2>1, OneCurrent DEF Established
  <2> QED
    BY <2>1, <2>2
<1>4. CASE RunEstablished \/ RunCallback \/ RunRaw \/ RunSendFile
  BY <1>2, <1>4 DEF RunEstablished, RunCallback, RunRaw, RunSendFile, RawOps
<1>5. CASE Poll \/ EventStep \/ DestroyConnected \/ EndBatch \/ EndCallback
           \/ EndDownClosed
  BY <1>1, <1>5 DEF Poll, EventStep, HandleHup, HandleError, HandleRead,
    HandleWrite, EndEvents, StartBatch, DestroyConnected, EndBatch,
    EndCallback, EndDownClosed
<1>6. CASE CallbackStep
  BY <1>1, <1>6 DEF CallbackStep, Send, SendFile, Shutdown
<1>7. ASSUME NEW t \in Threads,
             FinishCall(t) \/ Release(t) \/ \E op \in ThreadOps : Call(t, op)
      PROVE  at' = at
  BY <1>7 DEF FinishCall, Release, Call, QueueSend, QueueSendFile,
              SetDisconnecting, QueueShutdown
<1>8. CASE \/ PeerSend \/ PeerFin \/ PeerReset \/ UNCHANGED vars
           \/ RemoveConnectionInLoop \/ DestroyServer \/ StopLoop
  BY <1>1, <1>8 DEF PeerSend, PeerFin, PeerReset, RemoveConnectionInLoop,
                    DestroyServer, StopLoop
<1> QED
  BY <1>1, <1>3, <1>4, <1>5, <1>6, <1>7, <1>8
  DEF Next, LoopStep, BatchStep, EndStep

LEMMA InTimeStep ==
  ASSUME TypeInv, TypeInv', NoSends, Established, Closed, Registered, InTime,
         [Next]_vars
  PROVE  InTime'
<1> SUFFICES ASSUME index' # "kNew" \/ ups' = 0, place' # "stopped"
             PROVE  Known' \/ Waiting("connectDestroyed")'
  BY DEF InTime
<1>1. place # "stopped"
  BY StaysStopped
<1>2. index # "kNew" \/ ups = 0
  BY StaysForgotten DEF Established
<1>3. Known \/ Waiting("connectDestroyed")
  BY <1>1, <1>2 DEF InTime
<1>4. ~(Current("connectDestroyed") /\ at' = at + 1)
  BY DestroyedForgets
<1> QED
  BY <1>3, <1>4, LineSummary DEF LineFacts

LEMMA ShutdownAskedStep ==
  ASSUME TypeInv, TypeInv', Established, ShutdownAsked, [Next]_vars
  PROVE  ShutdownAsked'
<1> SUFFICES ASSUME state' \in {"kConnecting", "kConnected"}
             PROVE  /\ ~finSent'
                    /\ \A t \in Threads : user'[t] # "queueing"
                    /\ ~Waiting("shutdownInLoop")'
  BY DEF ShutdownAsked
<1>1. TypeOK /\ user \in [Threads -> {"none", "idle", "send", "sendFile",
                                      "shutdown", "queueing", "gone"}]
  BY DEF TypeInv, TypeOK
<1>2. ASSUME NEW t \in Threads,
             FinishCall(t) \/ Release(t) \/ \E op \in ThreadOps : Call(t, op)
      PROVE  /\ state' = state /\ finSent' = finSent
             /\ \A x \in Threads : user'[x] = "queueing" => user[x] = "queueing"
  <2>1. ~SetDisconnecting(t)
    BY DEF SetDisconnecting
  <2>2. ThreadOps \subseteq {"send", "sendFile", "shutdown"}
    OBVIOUS
  <2> QED
    BY <1>1, <1>2, <2>1, <2>2
    DEF FinishCall, Release, Call, QueueSend, QueueSendFile, QueueShutdown,
        MoveUser
<1>3. CASE RunEstablished
  <2>1. ups = 0
    BY <1>1, <1>3, CurrentIs, WaitingIs DEF RunEstablished, Established
  <2>2. state \in {"kConnecting", "kConnected"}
    BY <2>1 DEF Established
  <2>3. finSent' = finSent /\ \A t \in Threads : user'[t] = "idle"
    BY <1>3 DEF RunEstablished
  <2> QED
    BY <2>2, <2>3, LineSummary DEF LineFacts, ShutdownAsked
<1>4. ASSUME state' = state, finSent' = finSent, user' = user
      PROVE  /\ ~finSent'
             /\ \A t \in Threads : user'[t] # "queueing"
             /\ ~Waiting("shutdownInLoop")'
  BY <1>4, LineSummary DEF LineFacts, ShutdownAsked
<1>5. CASE Poll \/ EventStep
  <2>1. CASE HandleWrite
    <3>1. state' = state /\ user' = user
      BY <2>1 DEF HandleWrite
    <3>2. finSent' = finSent \/ finSent' = (finSent \/ state = "kDisconnecting")
      BY <2>1 DEF HandleWrite, Drained
    <3>3. ~finSent
      BY <3>1 DEF ShutdownAsked
    <3>4. ~finSent'
      BY <3>1, <3>2, <3>3
    <3> QED
      BY <3>1, <3>4, LineSummary DEF LineFacts, ShutdownAsked
  <2>2. CASE Poll \/ HandleHup \/ HandleError \/ HandleRead \/ EndEvents
    BY <1>4, <2>2 DEF Poll, HandleHup, HandleError, HandleRead, EndEvents,
                      HandleClose
  <2> QED
    BY <1>5, <2>1, <2>2 DEF EventStep
<1>6. CASE RunRaw
  <2>1. ~Waiting("shutdownInLoop")
    BY <1>6 DEF RunRaw, ShutdownAsked
  <2>2. batch[at].op = "sendInLoop"
    BY <1>1, <1>6, <2>1, CurrentIs, WaitingIs DEF RunRaw, RawOps
  <2> QED
    BY <1>4, <1>6, <2>2 DEF RunRaw
<1>7. CASE RunDestroyed \/ DestroyConnected \/ RunCallback \/ RunSendFile
           \/ EndBatch \/ EndStep
  BY <1>4, <1>7 DEF RunDestroyed, DestroyConnected, RunCallback, RunSendFile,
    EndBatch, EndStep, EndCallback, EndDownClosed, EndDownDestroyed
<1>8. CASE CallbackStep
  BY <1>4, <1>8 DEF CallbackStep, Send, SendFile, Shutdown
<1>9. CASE \/ PeerSend \/ PeerFin \/ PeerReset \/ UNCHANGED vars
           \/ RemoveConnectionInLoop \/ DestroyServer \/ StopLoop
  BY <1>4, <1>9 DEF PeerSend, PeerFin, PeerReset, RemoveConnectionInLoop,
                    DestroyServer, StopLoop
<1>10. ASSUME NEW t \in Threads,
              FinishCall(t) \/ Release(t) \/ \E op \in ThreadOps : Call(t, op)
       PROVE  /\ ~finSent'
              /\ \A x \in Threads : user'[x] # "queueing"
              /\ ~Waiting("shutdownInLoop")'
  BY <1>2, <1>10, LineSummary DEF LineFacts, ShutdownAsked
<1> QED
  BY <1>3, <1>5, <1>6, <1>7, <1>8, <1>9, <1>10 DEF Next, LoopStep, BatchStep

\* No byte is lost from the flow, and no byte of send() is new.
NoneLost ==
  \A x : (\E j \in 1..Len(flow) : flow[j] = x)
           => \E j \in 1..Len(flow') : flow'[j] = x
NoneNew ==
  \A i \in 1..accepted' :
    given'[i] # "file" => i \in 1..accepted /\ given[i] # "file"

LEMMA GrowsLosesNone ==
  ASSUME TypeOK, NEW a, NEW e \in Nat, Grows(a, e)
  PROVE  NoneLost
<1>1. Len(flow) \in Nat
  BY FlowTypes DEF FlowSizes
<1>2. \A j \in 1..Len(flow) : j \in 1..Len(flow') /\ flow'[j] = flow[j]
  BY <1>1 DEF Grows
<1> QED
  BY <1>2 DEF NoneLost

LEMMA FilesAreNotNew ==
  ASSUME TypeOK, NEW n \in Nat, n <= MaxBytes - accepted, Accept(n, "file")
  PROVE  NoneNew
<1>1. /\ accepted \in Nat
      /\ \A i \in 1..accepted' :
           given'[i] = IF i <= accepted THEN given[i] ELSE "file"
  BY AcceptTypes
<1> QED
  BY <1>1 DEF NoneNew

LEMMA DeliveredStep ==
  ASSUME TypeInv, TypeInv', NoSends, Closed, ShutdownAsked, Delivered,
         [Next]_vars
  PROVE  Delivered'
<1>1. TypeOK /\ TypeOK' /\ downs \in Nat
  BY DEF TypeInv, TypeOK
<1>2. ASSUME NoneNew, NoneLost, UNCHANGED <<peer, downs>>
      PROVE  Delivered'
  BY <1>2 DEF NoneNew, NoneLost, Delivered
<1>3. ASSUME UNCHANGED given PROVE NoneNew
  BY <1>3 DEF NoneNew, accepted
<1>4. ASSUME UNCHANGED <<sent, outputBuffer>> PROVE NoneLost
  BY <1>4 DEF NoneLost, flow
<1>5. ASSUME UNCHANGED <<given, sent, outputBuffer, peer, downs>>
      PROVE  Delivered'
  BY <1>2, <1>3, <1>4, <1>5
<1>6. CASE Poll \/ HandleError \/ EndEvents
  BY <1>5, <1>6 DEF Poll, HandleError, EndEvents
<1>7. ASSUME downs' = downs + 1 PROVE Delivered'
  <2>1. downs' # 0
    BY <1>1, <1>7
  <2> QED
    BY <2>1 DEF Delivered
<1>8. CASE HandleHup \/ HandleRead \/ DestroyConnected
  <2>1. \/ downs' = downs + 1
        \/ UNCHANGED <<given, sent, outputBuffer, peer, downs>>
    BY <1>8 DEF HandleHup, HandleRead, HandleClose, DestroyConnected
  <2> QED
    BY <1>5, <1>7, <2>1
<1>9. CASE HandleWrite
  <2>1. NoneLost
    BY <1>1, <1>9, HandleWriteFlow DEF NoneLost
  <2> QED
    BY <1>2, <1>3, <1>9, <2>1 DEF HandleWrite
<1>10. CASE RunEstablished \/ RunDestroyed \/ RunCallback \/ EndBatch \/ EndStep
  BY <1>5, <1>10 DEF RunEstablished, RunDestroyed, RunCallback, EndBatch,
    EndStep, EndCallback, EndDownClosed, EndDownDestroyed
<1>11. CASE RunRaw
  <2>1. batch[at].op # "sendInLoop"
    BY <1>1, <1>11, CurrentIs, WaitingIs DEF RunRaw, NoSends
  <2> QED
    BY <1>5, <1>11, <2>1 DEF RunRaw
<1>12. ASSUME NEW a \in 1..(MaxBytes + 1), NEW b \in 0..MaxBytes,
              SendFileInLoop(a, b)
       PROVE  NoneLost
  BY <1>1, <1>12, SendFileInLoopFlow, GrowsLosesNone
<1>13. CASE RunSendFile
  <2>1. /\ batch[at].first \in 1..(MaxBytes + 1)
        /\ batch[at].last \in 0..MaxBytes
    BY <1>1, <1>13, CurrentTask DEF RunSendFile
  <2>2. NoneLost
    BY <1>12, <1>13, <2>1 DEF RunSendFile
  <2> QED
    BY <1>2, <1>3, <1>13, <2>2 DEF RunSendFile
<1>14. ASSUME NEW n \in 1..(MaxBytes - accepted), Send(n)
       PROVE  Delivered'
  <2>1. /\ accepted + 1 \in 1..(MaxBytes + 1) /\ accepted + n \in 0..MaxBytes
        /\ accepted \in Nat /\ n \in Nat /\ n <= MaxBytes - accepted
    BY <1>1, Bounds
  <2>2. /\ accepted' = accepted + n
        /\ \A i \in 1..accepted' :
             given'[i] = IF i <= accepted THEN given[i] ELSE "loop"
    BY <1>1, <1>14, <2>1, AcceptTypes DEF Send
  <2>3. UNCHANGED <<peer, downs>> /\ ~finSent
    BY <1>14 DEF Send, InCallback, ShutdownAsked
  <2> SUFFICES ASSUME peer # "reset", downs = 0, NEW i \in 1..accepted',
                      given'[i] # "file"
               PROVE  \E j \in 1..Len(flow') : flow'[j] = i
    BY <2>3 DEF Delivered
  <2>4. PICK e \in Nat : /\ Grows(accepted + 1, e)
                         /\ e = (accepted + n) + 1 - (accepted + 1)
    <3>1. ~Broken /\ accepted + 1 <= accepted + n
      BY <2>1, <2>3 DEF Broken
    <3>2. SendInLoop(accepted + 1, accepted + n)
      BY <1>14 DEF Send
    <3> QED
      BY <1>1, <2>1, <3>1, <3>2, SendInLoopFlow
  <2>5. e = n /\ Len(flow) \in Nat
    BY <1>1, <2>1, <2>4, FlowTypes DEF FlowSizes
  <2>6. CASE i <= accepted
    <3>1. \E j \in 1..Len(flow) : flow[j] = i
      BY <2>1, <2>2, <2>6 DEF Delivered
    <3> QED
      BY <1>1, <2>4, <3>1, GrowsLosesNone DEF NoneLost
  <2>7. CASE ~(i <= accepted)
    <3>1. PICK j \in Nat : j = Len(flow) + i - accepted
      BY <2>1, <2>2, <2>5, <2>7
    <3>2. /\ j \in (Len(flow) + 1)..(Len(flow) + e)
          /\ accepted + 1 + (j - Len(flow)) - 1 = i
      BY <2>1, <2>2, <2>5, <2>7, <3>1
    <3>3. flow'[j] = i /\ j \in 1..Len(flow')
      BY <2>4, <2>5, <3>2 DEF Grows
    <3> QED
      BY <3>3
  <2> QED
    BY <2>6, <2>7
<1>15. ASSUME NEW n \in 1..(MaxBytes - accepted), SendFile(n)
       PROVE  Delivered'
  <2>1. /\ accepted + 1 \in 1..(MaxBytes + 1) /\ accepted + n \in 0..MaxBytes
        /\ accepted \in Nat /\ n \in Nat /\ n <= MaxBytes - accepted
    BY <1>1, Bounds
  <2>2. NoneNew /\ NoneLost
    BY <1>1, <1>12, <1>15, <2>1, FilesAreNotNew DEF SendFile
  <2> QED
    BY <1>2, <1>15, <2>2 DEF SendFile
<1>16. CASE Shutdown
  BY <1>5, <1>16 DEF Shutdown
<1>17. ASSUME NEW t \in Threads,
              FinishCall(t) \/ Release(t) \/ \E op \in ThreadOps : Call(t, op)
       PROVE  Delivered'
  <2>1. UNCHANGED <<sent, outputBuffer, peer, downs>>
    BY <1>17 DEF FinishCall, Release, Call, QueueSend, QueueSendFile,
                 SetDisconnecting, QueueShutdown
  <2>2. NoneNew
    <3>1. ASSUME NEW n \in (IF accepted < MaxBytes THEN 1..(MaxBytes - accepted)
                            ELSE {0}),
                 QueueSend(t, n) \/ QueueSendFile(t, n)
          PROVE  NoneNew
      <4>1. n \in Nat /\ n <= MaxBytes - accepted
        BY <1>1, Bounds
      <4>2. ~QueueSend(t, n)
        BY DEF QueueSend, MoveUser, NoSends
      <4> QED
        BY <1>1, <3>1, <4>1, <4>2, FilesAreNotNew DEF QueueSendFile
    <3> QED
      BY <1>3, <1>17, <3>1
      DEF FinishCall, Release, Call, SetDisconnecting, QueueShutdown
  <2> QED
    BY <1>2, <1>4, <2>1, <2>2
<1>18. CASE PeerSend \/ PeerFin
  BY <1>3, <1>4, <1>18 DEF PeerSend, PeerFin, Delivered, NoneNew, NoneLost
<1>19. CASE PeerReset
  BY <1>19 DEF PeerReset, Delivered
<1>20. CASE RemoveConnectionInLoop \/ DestroyServer \/ StopLoop \/ UNCHANGED vars
  BY <1>5, <1>20 DEF RemoveConnectionInLoop, DestroyServer, StopLoop
<1> QED
  BY <1>6, <1>8, <1>9, <1>10, <1>11, <1>13, <1>14, <1>15, <1>16, <1>17, <1>18,
     <1>19, <1>20
  DEF Next, LoopStep, EventStep, BatchStep, CallbackStep

LEMMA FinAfterStep ==
  ASSUME TypeInv, NoSends, ShutdownAsked, Writing, Writing', FinAfter,
         [Next]_vars
  PROVE  FinAfter'
<1>1. TypeOK /\ downs \in Nat
  BY DEF TypeInv, TypeOK
<1>2. ASSUME downs' = downs, outputBuffer' = outputBuffer,
             finSent' = finSent \/ finSent' = (finSent \/ ~IsWriting)
      PROVE  FinAfter'
  BY <1>2 DEF FinAfter, Writing
<1>3. ASSUME downs' = downs + 1 PROVE FinAfter'
  <2>1. downs' # 0
    BY <1>1, <1>3
  <2> QED
    BY <2>1 DEF FinAfter
<1>4. CASE Poll \/ HandleHup \/ HandleError \/ HandleRead \/ EndEvents
  BY <1>2, <1>3, <1>4 DEF Poll, HandleHup, HandleError, HandleRead, EndEvents,
                          HandleClose
<1>5. CASE HandleWrite
  <2>1. CASE Drained
    <3>1. ~IsWriting'
      BY <2>1 DEF Drained, Update, IsWriting
    <3> QED
      BY <3>1 DEF Writing, FinAfter
  <2>2. CASE ~Drained
    <3>1. /\ downs' = downs /\ finSent' = finSent
          /\ outputBuffer' = outputBuffer \/ 1..Len(outputBuffer) # {}
      BY <1>5, <2>2 DEF HandleWrite
    <3>2. Len(<<>>) = 0
      BY EmptySeq
    <3> QED
      BY <3>1, <3>2 DEF FinAfter
  <2> QED
    BY <2>1, <2>2
<1>6. CASE RunEstablished \/ RunDestroyed \/ DestroyConnected \/ RunCallback
           \/ RunSendFile \/ EndBatch \/ EndStep
  BY <1>2, <1>3, <1>6 DEF RunEstablished, RunDestroyed, DestroyConnected,
    RunCallback, RunSendFile, SendFileInLoop, EndBatch, EndStep, EndCallback,
    EndDownClosed, EndDownDestroyed
<1>7. CASE RunRaw
  <2>1. batch[at].op # "sendInLoop"
    BY <1>1, <1>7, CurrentIs, WaitingIs DEF RunRaw, NoSends
  <2> QED
    BY <1>2, <1>7, <2>1 DEF RunRaw, ShutdownInLoop
<1>8. CASE CallbackStep
  <2>1. ASSUME NEW n, Send(n) PROVE FinAfter'
    BY <2>1 DEF Send, InCallback, ShutdownAsked, FinAfter
  <2>2. ASSUME NEW n, SendFile(n) PROVE FinAfter'
    BY <1>2, <2>2 DEF SendFile, SendFileInLoop
  <2>3. CASE Shutdown
    BY <1>2, <2>3 DEF Shutdown, ShutdownInLoop
  <2> QED
    BY <1>8, <2>1, <2>2, <2>3 DEF CallbackStep
<1>9. ASSUME NEW t \in Threads,
             FinishCall(t) \/ Release(t) \/ \E op \in ThreadOps : Call(t, op)
      PROVE  FinAfter'
  BY <1>2, <1>9 DEF FinishCall, Release, Call, QueueSend, QueueSendFile,
                    SetDisconnecting, QueueShutdown
<1>10. CASE \/ PeerSend \/ PeerFin \/ PeerReset \/ UNCHANGED vars
            \/ RemoveConnectionInLoop \/ DestroyServer \/ StopLoop
  BY <1>2, <1>10 DEF PeerSend, PeerFin, PeerReset, RemoveConnectionInLoop,
                     DestroyServer, StopLoop
<1> QED
  BY <1>4, <1>5, <1>6, <1>7, <1>8, <1>9, <1>10
  DEF Next, LoopStep, EventStep, BatchStep

-----------------------------------------------------------------------------
(* The invariant and what it says                                          *)

LifeInv ==
  /\ TypeInv
  /\ Writing
  /\ NoSends
  /\ Established
  /\ Closed
  /\ Up
  /\ Registered
  /\ InTime
  /\ ShutdownAsked
  /\ Delivered
  /\ FinAfter

LEMMA InitLife == Init => LifeInv
<1> SUFFICES ASSUME Init PROVE LifeInv
  OBVIOUS
<1>1. TypeInv
  BY InitTypes
<1>2. /\ batch = <<>> /\ Len(batch) = 0 /\ at = 1
      /\ queue = <<Task("connectEstablished")>>
      /\ Len(queue) = 1 /\ queue[1].op = "connectEstablished"
  BY EmptySeq DEF Init, Task
<1>3. Line = {1} /\ W(1).op = "connectEstablished"
  BY <1>2 DEF Line, W
<1>4. /\ Current("connectEstablished")
      /\ ~Behind("connectEstablished")
      /\ \A op : Waiting(op) => op = "connectEstablished"
  BY <1>2, <1>3 DEF Current, Behind, Waiting
<1>5. Writing /\ Closed /\ Up /\ Registered /\ InTime
  BY DEF Init, Writing, IsWriting, Closed, Up, Registered, InTime, Known
<1>6. NoSends /\ ShutdownAsked
  BY <1>4 DEF Init, NoSends, ShutdownAsked
<1>7. Established
  BY <1>4 DEF Init, Established
<1>8. Delivered /\ FinAfter
  BY EmptySeq DEF Init, Delivered, FinAfter, accepted
<1> QED
  BY <1>1, <1>5, <1>6, <1>7, <1>8 DEF LifeInv

LEMMA LifeStep ==
  ASSUME "send" \notin ThreadOps
  PROVE  LifeInv /\ [Next]_vars => LifeInv'
<1> SUFFICES ASSUME LifeInv, [Next]_vars PROVE LifeInv'
  OBVIOUS
<1>1. /\ TypeInv /\ Writing /\ NoSends /\ Established /\ Closed /\ Up
      /\ Registered /\ InTime /\ ShutdownAsked /\ Delivered /\ FinAfter
  BY DEF LifeInv
<1>2. TypeInv' /\ Writing'
  BY <1>1, NextTypes, WritingStep
<1>3. NoSends' /\ Established'
  BY <1>1, <1>2, NoSendsStep, EstablishedStep
<1>4. Up' /\ Registered'
  BY <1>1, RegisteredStep
<1>5. Closed' /\ InTime'
  BY <1>1, <1>2, <1>4, ClosedStep, InTimeStep
<1>6. ShutdownAsked' /\ Delivered' /\ FinAfter'
  BY <1>1, <1>2, ShutdownAskedStep, DeliveredStep, FinAfterStep
<1> QED
  BY <1>2, <1>3, <1>4, <1>5, <1>6 DEF LifeInv

LEMMA LifeInvariant ==
  ASSUME "send" \notin ThreadOps
  PROVE  Spec => []LifeInv
<1>1. LifeInv /\ [Next]_vars => LifeInv'
  BY LifeStep
<1> QED
  BY <1>1, InitLife, PTL DEF Spec

LEMMA HeldIsAlive ==
  ASSUME TypeInv, Known \/ Waiting("connectDestroyed")
  PROVE  Alive
<1>1. CASE Known
  BY <1>1 DEF Known, Alive, TypeInv, Places
<1>2. CASE Waiting("connectDestroyed")
  <2>1. PICK k \in Line : W(k).op = "connectDestroyed"
    BY <1>2 DEF Waiting
  <2>2. k \in Int /\ 1 <= k /\ k <= Len(batch) + Len(queue)
        /\ Len(batch) \in Nat /\ Len(queue) \in Nat
    BY FlowTypes DEF TypeInv, FlowSizes, Line
  <2>3. "connectDestroyed" \notin RawOps
    BY DEF RawOps
  <2>4. CASE k <= Len(batch)
    <3>1. k \in 1..Len(batch) /\ batch[k].op = "connectDestroyed"
      BY <2>1, <2>2, <2>4 DEF W
    <3> QED
      BY <2>3, <3>1 DEF HoldsPointer, Alive
  <2>5. CASE ~(k <= Len(batch))
    <3>1. /\ k - Len(batch) \in 1..Len(queue)
          /\ queue[k - Len(batch)].op = "connectDestroyed"
      BY <2>1, <2>2, <2>5 DEF W
    <3> QED
      BY <2>3, <3>1 DEF HoldsPointer, Alive
  <2> QED
    BY <2>4, <2>5
<1> QED
  BY <1>1, <1>2

LEMMA RemovedInTime ==
  ASSUME TypeInv, InTime, ~Alive, place # "stopped"
  PROVE  index = "kNew"
BY HeldIsAlive DEF InTime

\* The connection, and its channel with it, is destroyed only after the poller
\* has forgotten the channel, whoever let the last shared_ptr go, or together
\* with the loop.
THEOREM RemovedBeforeDestroyedHolds ==
  ASSUME "send" \notin ThreadOps
  PROVE  Spec => []RemovedBeforeDestroyed
<1>1. LifeInv => RemovedBeforeDestroyed
  BY RemovedInTime DEF LifeInv, RemovedBeforeDestroyed
<1> QED
  BY <1>1, LifeInvariant, PTL

\* When a connection that nobody else has ended sends its FIN, the socket has
\* taken every byte that was given to send().
THEOREM NothingCutOffHolds ==
  ASSUME "send" \notin ThreadOps
  PROVE  Spec => []NothingCutOff
<1>1. ASSUME TypeOK, Delivered, FinAfter PROVE NothingCutOff
  <2> SUFFICES ASSUME finSent, downs = 0, peer # "reset",
                      NEW i \in 1..accepted, i \notin fileBytes
               PROVE  i \in Elements(sent)
    BY DEF NothingCutOff
  <2>1. PICK j \in 1..Len(flow) : flow[j] = i
    BY <1>1 DEF Delivered, fileBytes
  <2>2. flow = sent
    <3>1. outputBuffer = <<>> /\ sent \in Seq(1..MaxBytes)
      BY <1>1 DEF FinAfter, TypeOK
    <3> QED
      BY <3>1, ConcatEmptySeq DEF flow
  <2> QED
    BY <2>1, <2>2 DEF Elements
<1>2. LifeInv => NothingCutOff
  BY <1>1 DEF LifeInv, TypeInv
<1> QED
  BY <1>2, LifeInvariant, PTL

-----------------------------------------------------------------------------
(* TcpConnection implements ConnectionLife                                 *)

PhaseFacts ==
  /\ ~Alive => Phase = "gone"
  /\ Alive /\ downs = 0 /\ ups = 0 => Phase = "made"
  /\ Alive /\ downs = 0 /\ ups = 1 => Phase = "up"
  /\ Alive /\ downs = 1 => Phase = "down"

LEMMA PhaseIs == PhaseFacts
BY DEF PhaseFacts, Phase

\* The loop holds the connection while it is busy with it.
LEMMA BusyIsAlive ==
  TypeInv /\ (callback # "none" \/ place \in {"event", "destroy"}) => Alive
<1> SUFFICES ASSUME TypeInv, callback # "none" \/ place \in {"event", "destroy"}
             PROVE  Alive
  OBVIOUS
<1>1. /\ at \in Nat /\ 1 <= at /\ at <= Len(batch) + 1 /\ Len(batch) \in Nat
      /\ callback \in {"none", "up", "message", "writeComplete", "highWater",
                       "downClosed", "downDestroyed"}
  BY FlowTypes DEF TypeInv, TypeOK, FlowSizes
<1>2. CASE place = "event"
  BY <1>2 DEF Alive
<1>3. CASE place = "destroy"
  <2>1. at \in 1..Len(batch) /\ batch[at].op \notin RawOps
    BY <1>1, <1>3 DEF TypeInv, Places, RawOps
  <2> QED
    BY <2>1 DEF Alive, HoldsPointer
<1>4. CASE callback \in {"up", "writeComplete", "highWater"}
  <2>1. at - 1 \in 1..Len(batch) /\ batch[at - 1].op \notin RawOps
    BY <1>1, <1>4 DEF TypeInv, Places
  <2> QED
    BY <2>1 DEF Alive, HoldsPointer
<1> QED
  BY <1>1, <1>2, <1>3, <1>4 DEF TypeInv, Places

\* ... or runs a callback that holds it.
LEMMA TaskIsAlive ==
  ASSUME TypeInv, NEW ops, AtTask(ops), ops \cap RawOps = {}
  PROVE  Alive
<1>1. at \in 1..Len(batch) /\ batch[at].op \notin RawOps
  BY CurrentTask DEF TypeInv, AtTask
<1> QED
  BY <1>1 DEF Alive, HoldsPointer

LEMMA NoPointers == ~HoldsPointer(<<>>)
BY EmptySeq DEF HoldsPointer

\* Once the last shared_ptr is gone there is none again.
LEMMA GoneStays ==
  ASSUME LifeInv, [Next]_vars, ~Alive
  PROVE  ~Alive'
<1>1. TypeInv /\ InTime /\ NoSends
  BY DEF LifeInv
<1>2. /\ ~inMap /\ ~(removals > 0) /\ ~HoldsPointer(queue)
      /\ ~HoldsPointer(batch) /\ place \notin {"event", "destroy"}
      /\ \A t \in Threads : user[t] \in {"none", "gone"}
      /\ callback = "none"
  BY <1>1, BusyIsAlive DEF Alive
<1>3. ASSUME UNCHANGED <<inMap, removals, user>>, place' # "event",
             queue' \in {queue, <<>>}, batch' \in {batch, queue, <<>>}
      PROVE  ~Alive'
  BY <1>2, <1>3, NoPointers DEF Alive, HoldsPointer
<1>4. CASE Poll
  <2>1. index = "kNew"
    BY <1>1, <1>4, RemovedInTime DEF Poll
  <2>2. Pending = {} /\ PerhapsRoom = {}
    BY <2>1 DEF Pending, PerhapsRoom
  <2>3. StartBatch /\ UNCHANGED <<inMap, removals, user>>
    BY <1>4, <2>2 DEF Poll
  <2> QED
    BY <1>3, <2>3 DEF StartBatch
<1>5. CASE EventStep \/ DestroyConnected \/ EndStep \/ CallbackStep
  BY <1>2, <1>5 DEF EventStep, HandleHup, HandleError, HandleRead, HandleWrite,
    EndEvents, AtEvent, DestroyConnected, EndStep, EndCallback, EndDownClosed,
    EndDownDestroyed, CallbackStep, Send, SendFile, Shutdown, InCallback
<1>6. CASE RunEstablished \/ RunDestroyed \/ RunCallback \/ RunSendFile
  BY <1>1, <1>6, TaskIsAlive
  DEF RunEstablished, RunDestroyed, RunCallback, RunSendFile, RawOps
<1>7. CASE RunRaw
  <2>1. batch[at].op # "sendInLoop"
    BY <1>1, <1>7, CurrentIs, WaitingIs DEF RunRaw, NoSends, TypeInv
  <2> QED
    BY <1>2, <1>3, <1>7, <2>1 DEF RunRaw, NextTask
<1>8. CASE EndBatch \/ StopLoop
  BY <1>3, <1>8 DEF EndBatch, StopLoop
<1>9. ASSUME NEW t \in Threads,
             FinishCall(t) \/ Release(t) \/ \E op \in ThreadOps : Call(t, op)
      PROVE  FALSE
  BY <1>2, <1>9 DEF FinishCall, Release, Call, QueueSend, QueueSendFile,
                    SetDisconnecting, QueueShutdown, MoveUser
<1>10. CASE PeerSend \/ PeerFin \/ PeerReset \/ UNCHANGED vars
  BY <1>2, <1>3, <1>10 DEF PeerSend, PeerFin, PeerReset
<1>11. CASE RemoveConnectionInLoop
  BY <1>2, <1>11 DEF RemoveConnectionInLoop
<1>12. CASE DestroyServer
  BY <1>2, <1>12 DEF DestroyServer, Alive, HoldsPointer
<1> QED
  BY <1>4, <1>5, <1>6, <1>7, <1>8, <1>9, <1>10, <1>11, <1>12
  DEF Next, LoopStep, BatchStep

\* ~TcpServer hands its shared_ptr to connectDestroyed.
LEMMA ServerHandsOver ==
  ASSUME TypeInv, DestroyServer, Alive
  PROVE  Alive'
<1>1. CASE inMap
  <2>1. /\ queue \in Seq(Tasks) /\ Task("connectDestroyed") \in Tasks
        /\ Task("connectDestroyed").op \notin RawOps
    BY TasksAreTasks DEF TypeInv, TypeOK, Task, Ops, RawOps
  <2>2. queue' = Append(queue, Task("connectDestroyed"))
    BY <1>1 DEF DestroyServer
  <2>3. /\ Len(queue') = Len(queue) + 1 /\ Len(queue) \in Nat
        /\ queue'[Len(queue) + 1] = Task("connectDestroyed")
    BY <2>1, <2>2, Appended
  <2>4. HoldsPointer(queue')
    BY <2>1, <2>3 DEF HoldsPointer
  <2> QED
    BY <2>4 DEF Alive, HoldsPointer
<1>2. CASE ~inMap
  BY <1>2 DEF DestroyServer, Alive, HoldsPointer
<1> QED
  BY <1>1, <1>2

\* When the application is called and the server destroyed.
LEMMA Counts ==
  ASSUME [Next]_vars
  PROVE  \/ RunEstablished
         \/ DestroyServer
         \/ /\ downs' = downs + 1 /\ UNCHANGED <<ups, serverAlive, place>>
            /\ place \in {"event", "destroy"}
         \/ UNCHANGED <<ups, downs, serverAlive>>
<1>1. CASE LoopStep /\ ~RunEstablished
  BY <1>1 DEF LoopStep, EventStep, BatchStep, EndStep, Poll, HandleHup,
    HandleError, HandleRead, HandleWrite, EndEvents, RunDestroyed, HandleClose,
    DestroyConnected, RunCallback, RunRaw, RunSendFile, EndBatch, EndCallback,
    EndDownClosed, EndDownDestroyed, AtEvent
<1>2. CASE CallbackStep
  BY <1>2 DEF CallbackStep, Send, SendFile, Shutdown
<1>3. ASSUME NEW t \in Threads,
             FinishCall(t) \/ Release(t) \/ \E op \in ThreadOps : Call(t, op)
      PROVE  UNCHANGED <<ups, downs, serverAlive>>
  BY <1>3 DEF FinishCall, Release, Call, QueueSend, QueueSendFile,
              SetDisconnecting, QueueShutdown
<1>4. CASE \/ PeerSend \/ PeerFin \/ PeerReset \/ UNCHANGED vars
           \/ RemoveConnectionInLoop \/ StopLoop
  BY <1>4 DEF PeerSend, PeerFin, PeerReset, RemoveConnectionInLoop, StopLoop
<1> QED
  BY <1>1, <1>2, <1>3, <1>4 DEF Next

LEMMA InitRefines == Init => Life!Init
<1> SUFFICES ASSUME Init PROVE Life!Init
  OBVIOUS
<1>1. Alive /\ ups = 0 /\ downs = 0 /\ serverAlive = TRUE
  BY DEF Init, Alive
<1> QED
  BY <1>1, PhaseIs DEF PhaseFacts, Life!Init

\* Every step is a step of ConnectionLife or leaves its variables alone.
LEMMA StepRefines == LifeInv /\ LifeInv' /\ [Next]_vars => [Life!Next]_(Life!vars)
<1> SUFFICES ASSUME LifeInv, LifeInv', [Next]_vars
             PROVE  [Life!Next]_(Life!vars)
  OBVIOUS
<1>1. TypeInv /\ Established /\ Closed /\ TypeInv' /\ Closed' /\ Established'
  BY DEF LifeInv
<1>2. PhaseFacts /\ PhaseFacts'
  BY PhaseIs, PTL
<1>3. downs \in {0, 1} /\ downs' \in {0, 1} /\ ups \in {0, 1} /\ ups' \in {0, 1}
  BY <1>1 DEF Closed, Established
<1>4. ~Alive => ~Alive'
  BY GoneStays
<1>5. (callback' # "none" \/ place' \in {"event", "destroy"}) => Alive'
  <2>1. TypeInv' /\ (callback # "none" \/ place \in {"event", "destroy"})' => Alive'
    BY BusyIsAlive, PTL
  <2> QED
    BY <1>1, <2>1
<1> USE DEF Life!Next, Life!vars, Life!Move
<1>6. CASE RunEstablished
  <2>1. Alive /\ ups = 0 /\ downs = 0
    BY <1>1, <1>6, TaskIsAlive, CurrentIs, WaitingIs
    DEF RunEstablished, Established, RawOps, TypeInv
  <2>2. ups' = 1 /\ downs' = 0 /\ Alive' /\ serverAlive' = serverAlive
    BY <1>5, <1>6, <2>1 DEF RunEstablished
  <2> QED
    BY <1>2, <2>1, <2>2 DEF PhaseFacts, Life!Up
<1>7. CASE DestroyServer
  <2>1. (Alive <=> Alive') /\ UNCHANGED <<ups, downs>> /\ serverAlive' = FALSE
    BY <1>1, <1>4, <1>7, ServerHandsOver DEF DestroyServer
  <2>2. Phase' = Phase
    BY <1>2, <1>3, <2>1 DEF PhaseFacts
  <2> QED
    BY <2>1, <2>2 DEF Life!EndServer
<1>8. CASE /\ downs' = downs + 1 /\ UNCHANGED <<ups, serverAlive, place>>
           /\ place \in {"event", "destroy"}
  <2>1. Alive /\ Alive' /\ downs = 0 /\ downs' = 1
    BY <1>1, <1>3, <1>5, <1>8, BusyIsAlive
  <2>2. ups = 1
    BY <1>1, <1>8 DEF Established
  <2> QED
    BY <1>2, <1>8, <2>1, <2>2 DEF PhaseFacts, Life!Down
<1>9. CASE UNCHANGED <<ups, downs, serverAlive>>
  <2>1. CASE Alive <=> Alive'
    <3>1. Phase' = Phase
      BY <1>2, <1>3, <1>9, <2>1 DEF PhaseFacts
    <3> QED
      BY <1>9, <3>1
  <2>2. CASE Alive /\ ~Alive' /\ downs = 1
    BY <1>2, <1>9, <2>2 DEF PhaseFacts, Life!Release
  <2>3. CASE Alive /\ ~Alive' /\ downs = 0
    <3>1. ~serverAlive
      BY <1>1, <1>9, <2>3 DEF Closed, Alive
    <3> QED
      BY <1>2, <1>3, <1>9, <2>3, <3>1 DEF PhaseFacts, Life!Abandon
  <2> QED
    BY <1>3, <1>4, <2>1, <2>2, <2>3
<1> QED
  BY <1>6, <1>7, <1>8, <1>9, Counts

\* A connection goes through its life as ConnectionLife says: the application
\* hears of it once as it comes up and once as it goes down, it is destroyed
\* after that, and only a server that is being destroyed breaks off.
THEOREM ConnectionLifeRefined ==
  ASSUME "send" \notin ThreadOps
  PROVE  Spec => RefinesConnectionLife
<1>1. Spec => []LifeInv
  BY LifeInvariant
<1> QED
  BY <1>1, InitRefines, StepRefines, PTL
  DEF Spec, RefinesConnectionLife, Life!Spec
=============================================================================
