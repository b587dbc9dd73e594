------------------------ MODULE TcpConnectionProofs ------------------------
(***************************************************************************)
(* Proofs about TcpConnection, for any threads, any number of bytes and     *)
(* messages and any high-water mark: the type invariant, that write         *)
(* interest follows outputBuffer_, and that the high-water callback is      *)
(* queued once.                                                            *)
(***************************************************************************)
EXTENDS TcpConnection, TLAPS, SequenceTheorems, FiniteSetTheorems

USE ConnectionAssumption
    DEF vars, channelVars, socketVars, peerVars, loopVars, userVars,
        serverVars, countVars, otherVars, aroundVars

-----------------------------------------------------------------------------
(* Lemmas about sequences and tasks                                        *)

LEMMA BytesProperties ==
  ASSUME NEW a \in 1..(MaxBytes + 1), NEW b \in 0..MaxBytes
  PROVE  /\ Bytes(a, b) \in Seq(1..MaxBytes)
         /\ Len(Bytes(a, b)) = IF a <= b THEN b + 1 - a ELSE 0
         /\ \A i \in 1..Len(Bytes(a, b)) : Bytes(a, b)[i] = a + i - 1
<1> DEFINE n == IF a <= b THEN b + 1 - a ELSE 0
<1>1. n \in Nat /\ 1..(b + 1 - a) = 1..n
  OBVIOUS
<1>2. Bytes(a, b) = [i \in 1..n |-> a + i - 1]
  BY <1>1 DEF Bytes
<1>3. \A i \in 1..n : a + i - 1 \in 1..MaxBytes
  OBVIOUS
<1> HIDE DEF n
<1>4. Bytes(a, b) \in [1..n -> 1..MaxBytes]
  BY <1>2, <1>3
<1>5. Bytes(a, b) \in Seq(1..MaxBytes)
  BY <1>1, <1>4, SeqDef
<1>6. Len(Bytes(a, b)) = n
  BY <1>1, <1>4, <1>5, LenProperties
<1> QED
  BY <1>2, <1>5, <1>6 DEF n

LEMMA TasksAreTasks ==
  /\ \A op \in Ops : Task(op) \in Tasks
  /\ \A op \in Ops, a \in 1..(MaxBytes + 1), b \in 0..MaxBytes :
       DataTask(op, a, b) \in Tasks
BY DEF Task, DataTask, Tasks

\* A queue that has grown by one task.
LEMMA Appended ==
  ASSUME NEW q \in Seq(Tasks), NEW e \in Tasks
  PROVE  /\ Append(q, e) \in Seq(Tasks)
         /\ Len(Append(q, e)) = Len(q) + 1
         /\ \A i \in 1..Len(q) : Append(q, e)[i] = q[i]
         /\ Append(q, e)[Len(q) + 1] = e
         /\ Len(q) \in Nat
BY AppendProperties, LenProperties

LEMMA Concatenated ==
  ASSUME NEW S, NEW s \in Seq(S), NEW t \in Seq(S)
  PROVE  /\ s \o t \in Seq(S)
         /\ Len(s \o t) = Len(s) + Len(t)
         /\ \A i \in 1..(Len(s) + Len(t)) :
              (s \o t)[i] = IF i <= Len(s) THEN s[i] ELSE t[i - Len(s)]
         /\ Len(s) \in Nat /\ Len(t) \in Nat
BY ConcatProperties, LenProperties

-----------------------------------------------------------------------------
(* Type correctness                                                        *)

\* Where each callback of the application runs, and what connectDestroyed is
\* in the middle of.
Places ==
  /\ callback \in {"message", "downClosed"} => place = "event"
  /\ callback \in {"up", "writeComplete", "highWater"}
       => place = "run" /\ at > 1 /\ batch[at - 1].op \notin RawOps
  /\ callback = "downDestroyed" => place = "destroy"
  /\ place = "destroy" => at <= Len(batch) /\ batch[at].op = "connectDestroyed"

TypeInv == TypeOK /\ Places

\* The task the loop is at.
LEMMA CurrentTask ==
  ASSUME TypeOK, NEW ops, AtTask(ops)
  PROVE  /\ at \in 1..Len(batch)
         /\ batch[at] \in Tasks
         /\ batch[at].op \in ops \cap Ops
         /\ batch[at].first \in 1..(MaxBytes + 1)
         /\ batch[at].last \in 0..MaxBytes
<1>1. at \in 1..Len(batch)
  BY LenProperties DEF TypeOK, AtTask
<1>2. batch[at] \in Tasks
  BY <1>1, ElementOfSeq DEF TypeOK
<1> QED
  BY <1>1, <1>2 DEF Tasks, AtTask

\* A callback without bytes may join the queue.
LEMMA Queued ==
  ASSUME TypeOK, NEW op \in Ops
  PROVE  Append(queue, Task(op)) \in Seq(Tasks)
BY TasksAreTasks, Appended DEF TypeOK

\* sendInLoop keeps the types and queues one callback at most.
LEMMA SendInLoopTypes ==
  ASSUME TypeOK, NEW a \in 1..(MaxBytes + 1), NEW b \in 0..MaxBytes,
         SendInLoop(a, b)
  PROVE  /\ events' \in SUBSET {"IN", "OUT"}
         /\ index' \in {"kNew", "kAdded", "kDeleted"}
         /\ outputBuffer' \in Seq(1..MaxBytes)
         /\ sent' \in Seq(1..MaxBytes)
         /\ soError' \in BOOLEAN
         /\ queue' \in Seq(Tasks)
         /\ \/ queue' = queue
            \/ queue' = Append(queue, Task("highWater"))
            \/ queue' = Append(queue, Task("writeComplete"))
<1>1. /\ Append(queue, Task("highWater")) \in Seq(Tasks)
      /\ Append(queue, Task("writeComplete")) \in Seq(Tasks)
  BY Queued DEF Ops
<1>2. /\ events \in SUBSET {"IN", "OUT"}
      /\ index \in {"kNew", "kAdded", "kDeleted"}
      /\ outputBuffer \in Seq(1..MaxBytes)
      /\ sent \in Seq(1..MaxBytes)
      /\ soError \in BOOLEAN
      /\ queue \in Seq(Tasks)
  BY DEF TypeOK
<1>3. ASSUME NEW rest \in Seq(1..MaxBytes), BufferRest(rest)
      PROVE  /\ events' \in SUBSET {"IN", "OUT"}
             /\ index' \in {"kNew", "kAdded", "kDeleted"}
             /\ outputBuffer' \in Seq(1..MaxBytes)
             /\ queue' = queue \/ queue' = Append(queue, Task("highWater"))
  <2>1. outputBuffer' \in Seq(1..MaxBytes)
    BY <1>2, <1>3, Concatenated DEF BufferRest
  <2> QED
    BY <1>2, <1>3, <2>1 DEF BufferRest, Update
<1>4. CASE ~IsWriting /\ outputBuffer = <<>> /\ ~Broken
  <2>1. PICK taken \in 0..(b + 1 - a) :
          /\ sent' = sent \o Bytes(a, a + taken - 1)
          /\ IF a + taken <= b
               THEN BufferRest(Bytes(a + taken, b))
               ELSE /\ queue' = Append(queue, Task("writeComplete"))
                    /\ UNCHANGED <<channelVars, outputBuffer>>
          /\ UNCHANGED soError
    BY <1>4 DEF SendInLoop
  <2>2. a + taken - 1 \in 0..MaxBytes
    OBVIOUS
  <2>3. sent' \in Seq(1..MaxBytes)
    BY <1>2, <2>1, <2>2, BytesProperties, Concatenated
  <2>4. CASE a + taken <= b
    <3>1. a + taken \in 1..(MaxBytes + 1)
      BY <2>4
    <3>2. Bytes(a + taken, b) \in Seq(1..MaxBytes)
      BY <3>1, BytesProperties
    <3> QED
      BY <1>1, <1>2, <1>3, <2>1, <2>3, <2>4, <3>2
  <2>5. CASE ~(a + taken <= b)
    BY <1>1, <1>2, <2>1, <2>3, <2>5
  <2> QED
    BY <2>4, <2>5
<1>5. CASE ~IsWriting /\ outputBuffer = <<>> /\ Broken
  BY <1>2, <1>5 DEF SendInLoop
<1>6. CASE IsWriting \/ outputBuffer # <<>>
  <2>1. BufferRest(Bytes(a, b)) /\ UNCHANGED <<sent, soError>>
    BY <1>6 DEF SendInLoop
  <2>2. Bytes(a, b) \in Seq(1..MaxBytes)
    BY BytesProperties
  <2> QED
    BY <1>1, <1>2, <1>3, <2>1, <2>2
<1> QED
  BY <1>4, <1>5, <1>6

\* sendFileInLoop keeps the types and queues one callback at most.
LEMMA SendFileInLoopTypes ==
  ASSUME TypeOK, NEW a \in 1..(MaxBytes + 1), NEW b \in 0..MaxBytes,
         SendFileInLoop(a, b)
  PROVE  /\ UNCHANGED <<events, index, outputBuffer>>
         /\ sent' \in Seq(1..MaxBytes)
         /\ soError' \in BOOLEAN
         /\ queue' \in Seq(Tasks)
         /\ \/ queue' = queue
            \/ queue' = Append(queue, Task("writeComplete"))
            \/ \E c \in a..(MaxBytes + 1) :
                 queue' = Append(queue, DataTask("sendFileInLoop", c, b))
<1>1. Append(queue, Task("writeComplete")) \in Seq(Tasks)
  BY Queued DEF Ops
<1>2. /\ sent \in Seq(1..MaxBytes)
      /\ soError \in BOOLEAN
      /\ queue \in Seq(Tasks)
  BY DEF TypeOK
<1>3. ASSUME NEW c \in a..(MaxBytes + 1)
      PROVE  Append(queue, DataTask("sendFileInLoop", c, b)) \in Seq(Tasks)
  <2>1. DataTask("sendFileInLoop", c, b) \in Tasks
    BY TasksAreTasks DEF Ops
  <2> QED
    BY <1>2, <2>1, Appended
<1>4. UNCHANGED <<events, index, outputBuffer>>
  BY DEF SendFileInLoop
<1>5. CASE state # "kDisconnecting" /\ ~IsWriting /\ outputBuffer = <<>> /\ ~Broken
  <2>1. PICK taken \in 0..(b + 1 - a) :
          /\ sent' = sent \o Bytes(a, a + taken - 1)
          /\ queue' = Append(queue,
                        IF a + taken <= b
                          THEN DataTask("sendFileInLoop", a + taken, b)
                          ELSE Task("writeComplete"))
          /\ UNCHANGED soError
    BY <1>5 DEF SendFileInLoop
  <2>2. a + taken - 1 \in 0..MaxBytes
    OBVIOUS
  <2>3. sent' \in Seq(1..MaxBytes)
    BY <1>2, <2>1, <2>2, BytesProperties, Concatenated
  <2>4. CASE a + taken <= b
    <3>1. a + taken \in a..(MaxBytes + 1)
      BY <2>4
    <3> QED
      BY <1>2, <1>3, <1>4, <2>1, <2>3, <2>4, <3>1
  <2>5. CASE ~(a + taken <= b)
    BY <1>1, <1>2, <1>4, <2>1, <2>3, <2>5
  <2> QED
    BY <2>4, <2>5
<1>6. CASE ~(state # "kDisconnecting" /\ ~IsWriting /\ outputBuffer = <<>> /\ ~Broken)
  <2>1. UNCHANGED sent /\ soError' \in BOOLEAN
    BY <1>2, <1>6 DEF SendFileInLoop
  <2>2. \/ queue' = queue
        \/ queue' = Append(queue, DataTask("sendFileInLoop", a, b))
    BY <1>6 DEF SendFileInLoop
  <2>3. a \in a..(MaxBytes + 1)
    OBVIOUS
  <2> QED
    BY <1>2, <1>3, <1>4, <2>1, <2>2, <2>3
<1> QED
  BY <1>5, <1>6

\* Taking the queue as the batch keeps the types.
LEMMA StartBatchTypes ==
  ASSUME TypeOK, StartBatch
  PROVE  /\ queue' \in Seq(Tasks) /\ batch' \in Seq(Tasks)
         /\ at' \in 1..(Len(batch') + 1)
         /\ place' \in {"poll", "run"}
         /\ batch' # <<>> => place' = "run"
<1>1. queue \in Seq(Tasks) /\ Len(queue) \in Nat /\ <<>> \in Seq(Tasks)
  BY LenProperties, EmptySeq DEF TypeOK
<1> QED
  BY <1>1 DEF StartBatch

\* Polling and the channel's events keep TypeInv.
LEMMA EventTypes ==
  ASSUME TypeInv, Poll \/ EventStep
  PROVE  TypeInv'
<1> USE DEF TypeInv, Places
<1>1. CASE Poll
  <2>1. PICK ready \in {Pending, Pending \cup PerhapsRoom} :
          IF ready # {}
            THEN /\ revents' = IF "IN" \in ready THEN ready \ {"HUP"} ELSE ready
                 /\ place' = "event"
                 /\ dangling' = IF Alive THEN "none" ELSE "connection"
                 /\ UNCHANGED <<queue, batch, at>>
            ELSE /\ queue # <<>>
                 /\ StartBatch
                 /\ UNCHANGED <<revents, dangling>>
    BY <1>1 DEF Poll
  <2>2. ready \in SUBSET {"HUP", "ERR", "IN", "OUT"}
    BY DEF Pending, PerhapsRoom
  <2>3. callback = "none" /\ place = "poll" /\ batch = <<>>
    BY <1>1 DEF Poll, TypeOK
  <2>4. UNCHANGED <<state, channelVars, outputBuffer, socketVars, peerVars,
                    callback, userVars, serverVars, ups, downs>>
    BY <1>1 DEF Poll
  <2>5. CASE ready # {}
    <3>1. revents' \in SUBSET {"HUP", "ERR", "IN", "OUT"}
      BY <2>1, <2>2, <2>5
    <3>2. place' = "event" /\ dangling' \in {"none", "connection", "loop"}
          /\ UNCHANGED <<queue, batch, at>>
      BY <2>1, <2>5
    <3> QED
      BY <2>3, <2>4, <3>1, <3>2 DEF TypeOK, accepted
  <2>6. CASE ready = {}
    <3>1. StartBatch /\ UNCHANGED <<revents, dangling>>
      BY <2>1, <2>6
    <3>2. /\ queue' \in Seq(Tasks) /\ batch' \in Seq(Tasks)
          /\ at' \in 1..(Len(batch') + 1)
          /\ place' \in {"poll", "run"}
          /\ batch' # <<>> => place' = "run"
      BY <3>1, StartBatchTypes
    <3> QED
      BY <2>3, <2>4, <3>1, <3>2 DEF TypeOK, accepted
  <2> QED
    BY <2>5, <2>6
<1>2. CASE HandleHup
  <2>1. revents' \in SUBSET {"HUP", "ERR", "IN", "OUT"} /\ place = "event"
    BY <1>2 DEF HandleHup, AtEvent, TypeOK
  <2>2. events' \in SUBSET {"IN", "OUT"}
        /\ index' \in {"kNew", "kAdded", "kDeleted"}
    BY <1>2 DEF HandleHup, HandleClose, Update
  <2> QED
    BY <1>2, <2>1, <2>2 DEF HandleHup, AtEvent, HandleClose, TypeOK, accepted
<1>3. CASE HandleError
  <2>1. revents' \in SUBSET {"HUP", "ERR", "IN", "OUT"} /\ place = "event"
    BY <1>3 DEF HandleError, AtEvent, TypeOK
  <2>2. /\ soError' \in BOOLEAN
        /\ UNCHANGED <<state, channelVars, outputBuffer, sent, finSent, inbox,
                       peerVars, place, callback, batch, at, queue, userVars,
                       serverVars, countVars>>
    BY <1>3 DEF HandleError
  <2>3. Places'
    BY <2>1, <2>2
  <2>4. TypeOK'
    BY <2>1, <2>2 DEF TypeOK, accepted
  <2> QED
    BY <2>3, <2>4
<1>4. CASE HandleRead
  <2>1. revents' \in SUBSET {"HUP", "ERR", "IN", "OUT"} /\ place = "event"
    BY <1>4 DEF HandleRead, AtEvent, TypeOK
  <2>2. events' \in SUBSET {"IN", "OUT"}
        /\ index' \in {"kNew", "kAdded", "kDeleted"}
    BY <1>4 DEF HandleRead, HandleClose, Update, TypeOK
  <2>3. /\ inbox' \in 0..messages' /\ soError' \in BOOLEAN
        /\ messages' \in 0..MaxMessages
    <3>1. /\ inbox' \in {0, inbox} /\ messages' = messages
          /\ soError' \in {soError, FALSE}
      BY <1>4 DEF HandleRead
    <3>2. 0 \in 0..messages
      BY DEF TypeOK
    <3> QED
      BY <3>1, <3>2 DEF TypeOK
  <2>4. /\ state' \in {"kConnected", "kDisconnected"} \cup {state}
        /\ callback' \in {"none", "message", "downClosed"}
        /\ downs' \in Nat
    BY <1>4 DEF HandleRead, AtEvent, HandleClose, TypeOK
  <2>5. UNCHANGED <<outputBuffer, sent, finSent, peerVars, place, batch, at,
                    queue, userVars, serverVars, ups, dangling>>
    BY <1>4 DEF HandleRead
  <2> QED
    BY <2>1, <2>2, <2>3, <2>4, <2>5 DEF TypeOK, accepted
<1>5. CASE HandleWrite
  <2>1. /\ sent' \in Seq(1..MaxBytes) /\ outputBuffer' \in Seq(1..MaxBytes)
        /\ queue' \in Seq(Tasks)
        /\ events' \in SUBSET {"IN", "OUT"}
        /\ index' \in {"kNew", "kAdded", "kDeleted"}
        /\ finSent' \in BOOLEAN /\ soError' \in BOOLEAN
    <3>1. Append(queue, Task("writeComplete")) \in Seq(Tasks)
      BY Queued DEF Ops
    <3>2. ASSUME NEW n \in 1..Len(outputBuffer)
          PROVE  /\ sent \o SubSeq(outputBuffer, 1, n) \in Seq(1..MaxBytes)
                 /\ SubSeq(outputBuffer, n + 1, Len(outputBuffer))
                      \in Seq(1..MaxBytes)
      <4>1. outputBuffer \in Seq(1..MaxBytes) /\ sent \in Seq(1..MaxBytes)
        BY DEF TypeOK
      <4>2. /\ SubSeq(outputBuffer, 1, n) \in Seq(1..MaxBytes)
            /\ SubSeq(outputBuffer, n + 1, Len(outputBuffer))
                 \in Seq(1..MaxBytes)
        BY <4>1, SubSeqProperties, LenProperties
      <4> QED
        BY <4>1, <4>2, Concatenated
    <3> QED
      BY <1>5, <3>1, <3>2 DEF HandleWrite, AtEvent, Drained, Update, TypeOK
  <2> QED
    BY <1>5, <2>1 DEF HandleWrite, AtEvent, TypeOK, accepted
<1>6. CASE EndEvents
  BY <1>6, StartBatchTypes DEF EndEvents, TypeOK, accepted
<1> QED
  BY <1>1, <1>2, <1>3, <1>4, <1>5, <1>6 DEF EventStep

\* The batch of callbacks keeps TypeInv.
LEMMA BatchTypes ==
  ASSUME TypeInv, BatchStep
  PROVE  TypeInv'
<1> USE DEF TypeInv, Places
<1>1. CASE RunEstablished
  BY <1>1, CurrentTask
  DEF RunEstablished, AtTask, Update, NextTask, TypeOK, accepted, RawOps
<1>2. CASE RunDestroyed
  BY <1>2, CurrentTask DEF RunDestroyed, AtTask, Remove, TypeOK, accepted
<1>3. CASE DestroyConnected
  BY <1>3 DEF DestroyConnected, Update, TypeOK, accepted
<1>4. CASE RunCallback
  BY <1>4, CurrentTask
  DEF RunCallback, AtTask, NextTask, TypeOK, accepted, RawOps
<1>5. CASE RunRaw
  <2>1. /\ batch[at].first \in 1..(MaxBytes + 1)
        /\ batch[at].last \in 0..MaxBytes /\ at <= Len(batch)
    BY <1>5, CurrentTask DEF RunRaw
  <2>2. /\ events' \in SUBSET {"IN", "OUT"}
        /\ index' \in {"kNew", "kAdded", "kDeleted"}
        /\ outputBuffer' \in Seq(1..MaxBytes)
        /\ sent' \in Seq(1..MaxBytes)
        /\ finSent' \in BOOLEAN /\ soError' \in BOOLEAN
        /\ queue' \in Seq(Tasks)
    <3>1. CASE batch[at].op = "sendInLoop"
      BY <1>5, <2>1, <3>1, SendInLoopTypes DEF RunRaw, TypeOK
    <3>2. CASE batch[at].op # "sendInLoop"
      BY <1>5, <3>2 DEF RunRaw, ShutdownInLoop, TypeOK
    <3> QED
      BY <3>1, <3>2
  <2>3. /\ at' = at + 1 /\ at + 1 \in 1..(Len(batch) + 1)
        /\ place = "run" /\ callback = "none"
    BY <1>5, <2>1, LenProperties DEF RunRaw, AtTask, NextTask, TypeOK
  <2>4. /\ dangling' \in {"none", "connection"}
        /\ UNCHANGED <<place, revents, batch, state, inbox, peerVars, callback,
                       userVars, serverVars, ups, downs>>
    BY <1>5 DEF RunRaw, NextTask
  <2> QED
    BY <2>2, <2>3, <2>4 DEF TypeOK, accepted
<1>6. CASE RunSendFile
  <2>1. /\ batch[at].first \in 1..(MaxBytes + 1)
        /\ batch[at].last \in 0..MaxBytes /\ at <= Len(batch)
    BY <1>6, CurrentTask DEF RunSendFile
  <2>2. /\ UNCHANGED <<events, index, outputBuffer>>
        /\ sent' \in Seq(1..MaxBytes) /\ soError' \in BOOLEAN
        /\ queue' \in Seq(Tasks)
    BY <1>6, <2>1, SendFileInLoopTypes DEF RunSendFile
  <2> QED
    BY <1>6, <2>1, <2>2, SMTT(30) DEF RunSendFile, AtTask, NextTask, TypeOK, accepted
<1>7. CASE EndBatch
  BY <1>7, EmptySeq DEF EndBatch, TypeOK, accepted
<1> QED
  BY <1>1, <1>2, <1>3, <1>4, <1>5, <1>6, <1>7 DEF BatchStep

\* Bytes that are given keep within the bound and have an owner.
LEMMA AcceptTypes ==
  ASSUME TypeOK, NEW n \in Nat, n <= MaxBytes - accepted,
         NEW by \in {"loop", "file"} \cup Threads, Accept(n, by)
  PROVE  /\ given' \in Seq({"loop", "file"} \cup Threads)
         /\ accepted' = accepted + n
         /\ accepted' <= MaxBytes
         /\ accepted \in Nat
         /\ accepted + 1 \in 1..(MaxBytes + 1)
         /\ accepted + n \in 0..MaxBytes
         /\ \A i \in 1..accepted' :
              given'[i] = IF i <= accepted THEN given[i] ELSE by
<1> DEFINE S == {"loop", "file"} \cup Threads
           more == [i \in 1..n |-> by]
<1>1. given \in Seq(S) /\ Len(given) \in Nat /\ Len(given) <= MaxBytes
  BY LenProperties DEF TypeOK, accepted
<1>2. more \in Seq(S) /\ Len(more) = n /\ \A i \in 1..n : more[i] = by
  <2>1. more \in [1..n -> S]
    OBVIOUS
  <2>2. more \in Seq(S)
    BY <2>1, SeqDef
  <2> QED
    BY <2>1, <2>2, LenProperties
<1> HIDE DEF S, more
<1>3. given' = given \o more
  BY DEF Accept, more
<1>4. /\ given' \in Seq(S) /\ Len(given') = Len(given) + n
      /\ \A i \in 1..(Len(given) + n) :
           given'[i] = IF i <= Len(given) THEN given[i] ELSE more[i - Len(given)]
  BY <1>1, <1>2, <1>3, Concatenated
<1>5. \A i \in 1..(Len(given) + n) :
        given'[i] = IF i <= Len(given) THEN given[i] ELSE by
  <2> SUFFICES ASSUME NEW i \in 1..(Len(given) + n), ~(i <= Len(given))
               PROVE  more[i - Len(given)] = by
    BY <1>4
  <2>1. i - Len(given) \in 1..n
    BY <1>1
  <2> QED
    BY <1>2, <2>1
<1>6. accepted = Len(given) /\ accepted' = Len(given')
  BY DEF accepted
<1>7. /\ accepted' = accepted + n /\ accepted \in Nat
      /\ accepted + n <= MaxBytes
  BY <1>1, <1>4, <1>6
<1>8. /\ accepted + 1 \in 1..(MaxBytes + 1)
      /\ accepted + n \in 0..MaxBytes
  BY <1>1, <1>6, <1>7
<1>9. \A i \in 1..accepted' :
        given'[i] = IF i <= accepted THEN given[i] ELSE by
  BY <1>5, <1>6, <1>7
<1> QED
  BY <1>4, <1>7, <1>8, <1>9 DEF S

\* What the application's callbacks do, and what follows them.
LEMMA CallbackTypes ==
  ASSUME TypeInv, EndStep \/ CallbackStep
  PROVE  TypeInv'
<1> USE DEF TypeInv, Places
<1>1. CASE EndCallback
  BY <1>1 DEF EndCallback, TypeOK, accepted
<1>2. CASE EndDownClosed
  <2>1. queue' \in Seq(Tasks) /\ inMap' \in BOOLEAN /\ removals' \in Nat
    <3>1. Append(queue, Task("connectDestroyed")) \in Seq(Tasks)
      BY Queued DEF Ops
    <3>2. /\ queue \in Seq(Tasks) /\ inMap \in BOOLEAN
          /\ removals \in Nat /\ removals + 1 \in Nat
      BY DEF TypeOK
    <3> QED
      BY <1>2, <3>1, <3>2 DEF EndDownClosed
  <2> QED
    BY <1>2, <2>1 DEF EndDownClosed, TypeOK, accepted
<1>3. CASE EndDownDestroyed
  BY <1>3, LenProperties DEF EndDownDestroyed, Remove, TypeOK, accepted
<1>4. ASSUME NEW n \in 1..(MaxBytes - accepted), Send(n)
      PROVE  TypeInv'
  <2>1. n \in Nat /\ n <= MaxBytes - accepted
    BY LenProperties DEF TypeOK, accepted
  <2>2. Accept(n, "loop") /\ SendInLoop(accepted + 1, accepted + n)
    BY <1>4 DEF Send
  <2>3. /\ given' \in Seq({"loop", "file"} \cup Threads)
        /\ accepted' <= MaxBytes
        /\ accepted + 1 \in 1..(MaxBytes + 1)
        /\ accepted + n \in 0..MaxBytes
    BY <2>1, <2>2, AcceptTypes
  <2>4. /\ events' \in SUBSET {"IN", "OUT"}
        /\ index' \in {"kNew", "kAdded", "kDeleted"}
        /\ outputBuffer' \in Seq(1..MaxBytes)
        /\ sent' \in Seq(1..MaxBytes)
        /\ soError' \in BOOLEAN
        /\ queue' \in Seq(Tasks)
    BY <2>2, <2>3, SendInLoopTypes
  <2>5. UNCHANGED <<aroundVars, finSent, loopVars, user>>
    BY <1>4 DEF Send
  <2>6. Places'
    BY <2>5
  <2>7. TypeOK'
    BY <2>3, <2>4, <2>5, SMTT(30) DEF TypeOK
  <2> QED
    BY <2>6, <2>7
<1>5. ASSUME NEW n \in 1..(MaxBytes - accepted), SendFile(n)
      PROVE  TypeInv'
  <2>1. n \in Nat /\ n <= MaxBytes - accepted
    BY LenProperties DEF TypeOK, accepted
  <2>2. Accept(n, "file") /\ SendFileInLoop(accepted + 1, accepted + n)
    BY <1>5 DEF SendFile
  <2>3. /\ given' \in Seq({"loop", "file"} \cup Threads)
        /\ accepted' <= MaxBytes
        /\ accepted + 1 \in 1..(MaxBytes + 1)
        /\ accepted + n \in 0..MaxBytes
    BY <2>1, <2>2, AcceptTypes
  <2>4. /\ UNCHANGED <<events, index, outputBuffer>>
        /\ sent' \in Seq(1..MaxBytes) /\ soError' \in BOOLEAN
        /\ queue' \in Seq(Tasks)
    BY <2>2, <2>3, SendFileInLoopTypes
  <2>5. UNCHANGED <<aroundVars, finSent, loopVars, user>>
    BY <1>5 DEF SendFile
  <2>6. Places'
    BY <2>5
  <2>7. TypeOK'
    BY <2>3, <2>4, <2>5 DEF TypeOK
  <2> QED
    BY <2>6, <2>7
<1>6. CASE Shutdown
  BY <1>6 DEF Shutdown, ShutdownInLoop, TypeOK, accepted
<1> QED
  BY <1>1, <1>2, <1>3, <1>4, <1>5, <1>6 DEF EndStep, CallbackStep

\* RunInLoop queues the task, or touches a loop that is gone.
LEMMA RunInLoopTypes ==
  ASSUME TypeOK, NEW task \in Tasks, RunInLoop(task)
  PROVE  /\ queue' \in Seq(Tasks)
         /\ dangling' \in {"none", "connection", "loop"}
<1>1. /\ queue \in Seq(Tasks) /\ Append(queue, task) \in Seq(Tasks)
      /\ dangling \in {"none", "connection", "loop"}
  BY Appended DEF TypeOK
<1> QED
  BY <1>1 DEF RunInLoop

\* Bytes of another thread's call become the argument of a task.
LEMMA FinishTypes ==
  ASSUME TypeOK,
         NEW n \in (IF accepted < MaxBytes THEN 1..(MaxBytes - accepted)
                    ELSE {0}),
         NEW by \in {"loop", "file"} \cup Threads, Accept(n, by),
         NEW op \in Ops,
         RunInLoop(DataTask(op, accepted + 1, accepted + n))
  PROVE  /\ given' \in Seq({"loop", "file"} \cup Threads)
         /\ accepted' <= MaxBytes
         /\ queue' \in Seq(Tasks)
         /\ dangling' \in {"none", "connection", "loop"}
<1>1. accepted \in Nat /\ accepted <= MaxBytes
  BY LenProperties DEF TypeOK, accepted
<1>2. n \in Nat /\ n <= MaxBytes - accepted
  BY <1>1
<1>3. /\ given' \in Seq({"loop", "file"} \cup Threads)
      /\ accepted' <= MaxBytes
      /\ accepted + 1 \in 1..(MaxBytes + 1)
      /\ accepted + n \in 0..MaxBytes
  BY <1>2, AcceptTypes
<1>4. DataTask(op, accepted + 1, accepted + n) \in Tasks
  BY <1>3, TasksAreTasks
<1> QED
  BY <1>3, <1>4, RunInLoopTypes

\* The application's threads.
LEMMA ThreadTypes ==
  ASSUME TypeInv, NEW t \in Threads,
         FinishCall(t) \/ Release(t) \/ \E op \in ThreadOps : Call(t, op)
  PROVE  TypeInv'
<1> USE DEF TypeInv, Places
<1>1. ASSUME NEW n \in (IF accepted < MaxBytes THEN 1..(MaxBytes - accepted)
                        ELSE {0}),
             QueueSend(t, n) \/ QueueSendFile(t, n)
      PROVE  TypeInv'
  <2>1. /\ given' \in Seq({"loop", "file"} \cup Threads)
        /\ accepted' <= MaxBytes
        /\ queue' \in Seq(Tasks)
        /\ dangling' \in {"none", "connection", "loop"}
    <3>1. CASE QueueSend(t, n)
      <4>1. Accept(n, t)
            /\ RunInLoop(DataTask("sendInLoop", accepted + 1, accepted + n))
        BY <3>1 DEF QueueSend
      <4> QED
        BY <4>1, FinishTypes DEF Ops, RawOps
    <3>2. CASE QueueSendFile(t, n)
      <4>1. Accept(n, "file")
            /\ RunInLoop(DataTask("sendFileInLoop", accepted + 1, accepted + n))
        BY <3>2 DEF QueueSendFile
      <4> QED
        BY <4>1, FinishTypes DEF Ops
    <3> QED
      BY <1>1, <3>1, <3>2
  <2>2. /\ user' = [user EXCEPT ![t] = "idle"]
        /\ UNCHANGED <<otherVars, state>>
    BY <1>1 DEF QueueSend, QueueSendFile, MoveUser
  <2> QED
    BY <2>1, <2>2 DEF TypeOK
<1>2. CASE SetDisconnecting(t)
  BY <1>2 DEF SetDisconnecting, MoveUser, TypeOK, accepted
<1>3. CASE QueueShutdown(t)
  <2>1. Task("shutdownInLoop") \in Tasks
    BY TasksAreTasks DEF Ops, RawOps
  <2>2. queue' \in Seq(Tasks) /\ dangling' \in {"none", "connection", "loop"}
    BY <1>3, <2>1, RunInLoopTypes DEF QueueShutdown
  <2> QED
    BY <1>3, <2>2 DEF QueueShutdown, MoveUser, TypeOK, accepted
<1>4. CASE Release(t)
  BY <1>4 DEF Release, MoveUser, TypeOK, accepted
<1>5. ASSUME NEW op \in ThreadOps, Call(t, op)
      PROVE  TypeInv'
  BY <1>5 DEF Call, MoveUser, TypeOK, accepted
<1> QED
  BY <1>1, <1>2, <1>3, <1>4, <1>5 DEF FinishCall

\* The peer and the server.
LEMMA OutsideTypes ==
  ASSUME TypeInv,
         \/ PeerSend \/ PeerFin \/ PeerReset
         \/ RemoveConnectionInLoop \/ DestroyServer \/ StopLoop
  PROVE  TypeInv'
<1> USE DEF TypeInv, Places
<1>1. CASE PeerSend
  BY <1>1 DEF PeerSend, TypeOK, accepted
<1>2. CASE PeerFin
  BY <1>2 DEF PeerFin, TypeOK, accepted
<1>3. CASE PeerReset
  BY <1>3 DEF PeerReset, TypeOK, accepted
<1>4. Append(queue, Task("connectDestroyed")) \in Seq(Tasks)
  BY Queued DEF Ops
<1>5. CASE RemoveConnectionInLoop
  <2>1. removals' \in Nat
    BY <1>5 DEF RemoveConnectionInLoop, TypeOK
  <2>2. /\ queue' \in Seq(Tasks) /\ inMap' \in BOOLEAN
        /\ UNCHANGED <<state, channelVars, outputBuffer, socketVars, peerVars,
                       loopVars, userVars, sameLoop, serverAlive, countVars>>
    BY <1>4, <1>5 DEF RemoveConnectionInLoop
  <2> QED
    BY <2>1, <2>2 DEF TypeOK, accepted
<1>6. CASE DestroyServer
  <2>1. queue \in Seq(Tasks)
    BY DEF TypeOK
  <2>2. /\ queue' \in Seq(Tasks) /\ inMap' \in BOOLEAN
        /\ serverAlive' \in BOOLEAN
        /\ UNCHANGED <<state, channelVars, outputBuffer, socketVars, peerVars,
                       loopVars, userVars, sameLoop, removals, countVars>>
    BY <1>4, <1>6, <2>1 DEF DestroyServer
  <2> QED
    BY <2>2 DEF TypeOK, accepted
<1>7. CASE StopLoop
  BY <1>7, EmptySeq DEF StopLoop, TypeOK, accepted
<1> QED
  BY <1>1, <1>2, <1>3, <1>5, <1>6, <1>7

LEMMA InitTypes == Init => TypeInv
<1>1. ASSUME Init PROVE queue \in Seq(Tasks)
  <2>1. Task("connectEstablished") \in Tasks
    BY TasksAreTasks DEF Ops
  <2> QED
    BY <1>1, <2>1 DEF Init
<1>2. ASSUME Init
      PROVE  /\ outputBuffer \in Seq(1..MaxBytes) /\ sent \in Seq(1..MaxBytes)
             /\ batch \in Seq(Tasks) /\ Len(batch) = 0
             /\ given \in Seq({"loop", "file"} \cup Threads)
             /\ Len(given) = 0
  BY <1>2, EmptySeq DEF Init
<1>3. ASSUME Init PROVE inbox \in 0..messages /\ messages \in 0..MaxMessages
  BY <1>3 DEF Init
<1>4. Init => TypeOK
  <2> SUFFICES ASSUME Init PROVE TypeOK
    OBVIOUS
  <2>1. accepted = 0 /\ at \in 1..(Len(batch) + 1) /\ 0 \in Nat
    BY <1>2 DEF Init, accepted
  <2>2. user \in [Threads -> {"none", "idle", "send", "sendFile", "shutdown",
                             "queueing", "gone"}]
    BY DEF Init
  <2>3. /\ finSent \in BOOLEAN /\ soError \in BOOLEAN
        /\ sameLoop \in BOOLEAN /\ inMap \in BOOLEAN
        /\ serverAlive \in BOOLEAN
    BY DEF Init
  <2>4. /\ events \in SUBSET {"IN", "OUT"}
        /\ revents \in SUBSET {"HUP", "ERR", "IN", "OUT"}
        /\ revents = {} /\ batch = <<>>
    BY DEF Init
  <2>5. /\ state = "kConnecting" /\ index = "kNew" /\ peer = "open"
        /\ place = "poll" /\ callback = "none" /\ dangling = "none"
        /\ removals = 0 /\ ups = 0 /\ downs = 0
    BY DEF Init
  <2> QED
    BY <1>1, <1>2, <1>3, <2>1, <2>2, <2>3, <2>4, <2>5 DEF TypeOK
<1>5. Init => Places
  BY DEF Init, Places
<1> QED
  BY <1>4, <1>5 DEF TypeInv

LEMMA NextTypes == TypeInv /\ [Next]_vars => TypeInv'
<1> SUFFICES ASSUME TypeInv, [Next]_vars PROVE TypeInv'
  OBVIOUS
<1>1. CASE UNCHANGED vars
  BY <1>1 DEF TypeInv, TypeOK, Places, accepted
<1> QED
  BY <1>1, EventTypes, BatchTypes, CallbackTypes, ThreadTypes, OutsideTypes
  DEF Next, LoopStep

\* The variables keep their types: no byte is given beyond the bound, at stays
\* within the batch, and events are left over only inside handleEvent.
THEOREM TypeCorrect == Spec => []TypeOK
<1>1. Spec => []TypeInv
  BY InitTypes, NextTypes, PTL DEF Spec
<1> QED
  BY <1>1, PTL DEF TypeInv

-----------------------------------------------------------------------------
(* WriteInterest                                                           *)

Writing == downs = 0 => (IsWriting <=> outputBuffer # <<>>)

\* The rest of a send makes outputBuffer_ wait for EPOLLOUT.
LEMMA RestWrites ==
  ASSUME TypeOK, NEW rest \in Seq(1..MaxBytes), BufferRest(rest),
         outputBuffer # <<>> \/ rest # <<>>
  PROVE  IsWriting' /\ outputBuffer' # <<>>
<1>1. /\ outputBuffer \in Seq(1..MaxBytes)
      /\ outputBuffer' = outputBuffer \o rest
  BY DEF BufferRest, TypeOK
<1>2. /\ outputBuffer' \in Seq(1..MaxBytes)
      /\ Len(outputBuffer') = Len(outputBuffer) + Len(rest)
      /\ Len(outputBuffer) \in Nat /\ Len(rest) \in Nat
  BY <1>1, Concatenated
<1>3. Len(outputBuffer') # 0
  BY <1>1, <1>2, EmptySeq
<1>4. outputBuffer' # <<>>
  BY <1>3, EmptySeq
<1>5. IsWriting'
  BY DEF BufferRest, Update, IsWriting
<1> QED
  BY <1>4, <1>5

LEMMA SendInLoopWrites ==
  ASSUME TypeOK, NEW a \in 1..(MaxBytes + 1), NEW b \in 0..MaxBytes,
         SendInLoop(a, b), IsWriting <=> outputBuffer # <<>>
  PROVE  IsWriting' <=> outputBuffer' # <<>>
<1>1. CASE ~IsWriting /\ outputBuffer = <<>> /\ ~Broken
  <2>1. PICK taken \in 0..(b + 1 - a) :
          IF a + taken <= b
            THEN BufferRest(Bytes(a + taken, b))
            ELSE UNCHANGED <<channelVars, outputBuffer>>
    BY <1>1 DEF SendInLoop
  <2>2. CASE a + taken <= b
    <3>1. a + taken \in 1..(MaxBytes + 1)
      BY <2>2
    <3>2. /\ Bytes(a + taken, b) \in Seq(1..MaxBytes)
          /\ Len(Bytes(a + taken, b)) = b + 1 - (a + taken)
      BY <2>2, <3>1, BytesProperties
    <3>3. Bytes(a + taken, b) # <<>>
      <4>1. b + 1 - (a + taken) # 0
        BY <2>2
      <4> QED
        BY <3>2, <4>1, EmptySeq
    <3> QED
      BY <2>1, <2>2, <3>2, <3>3, RestWrites
  <2>3. CASE ~(a + taken <= b)
    BY <1>1, <2>1, <2>3 DEF IsWriting
  <2> QED
    BY <2>2, <2>3
<1>2. CASE ~IsWriting /\ outputBuffer = <<>> /\ Broken
  BY <1>2 DEF SendInLoop, IsWriting
<1>3. CASE IsWriting \/ outputBuffer # <<>>
  <2>1. BufferRest(Bytes(a, b)) /\ Bytes(a, b) \in Seq(1..MaxBytes)
    BY <1>3, BytesProperties DEF SendInLoop
  <2> QED
    BY <1>3, <2>1, RestWrites
<1> QED
  BY <1>1, <1>2, <1>3

\* Writing survives every step that does not touch the channel.
LEMMA WritingStep == TypeInv /\ Writing /\ [Next]_vars => Writing'
<1> SUFFICES ASSUME TypeInv, Writing, [Next]_vars PROVE Writing'
  OBVIOUS
<1> USE DEF Writing
<1>1. TypeOK /\ downs \in Nat
  BY DEF TypeInv, TypeOK
<1>2. ASSUME UNCHANGED <<events, outputBuffer, downs>> PROVE Writing'
  BY <1>2 DEF IsWriting
<1>3. CASE Poll \/ HandleError \/ EndEvents
  BY <1>2, <1>3 DEF Poll, HandleError, EndEvents
<1>4. CASE HandleHup \/ DestroyConnected
  BY <1>1, <1>4 DEF HandleHup, HandleClose, DestroyConnected
<1>5. CASE HandleRead
  BY <1>1, <1>2, <1>5 DEF HandleRead, HandleClose
<1>6. CASE HandleWrite
  <2>1. CASE IsWriting /\ ~Broken
    <3>1. PICK n \in 1..Len(outputBuffer) :
            /\ outputBuffer' = SubSeq(outputBuffer, n + 1, Len(outputBuffer))
            /\ IF n = Len(outputBuffer) THEN Drained ELSE UNCHANGED channelVars
      BY <1>6, <2>1 DEF HandleWrite
    <3>2. outputBuffer \in Seq(1..MaxBytes) /\ Len(outputBuffer) \in Nat
      BY <1>1, LenProperties DEF TypeOK
    <3>3. /\ outputBuffer' \in Seq(1..MaxBytes)
          /\ Len(outputBuffer') = Len(outputBuffer) - n
      BY <3>1, <3>2, SubSeqProperties
    <3>4. outputBuffer' = <<>> <=> n = Len(outputBuffer)
      BY <3>2, <3>3, EmptySeq
    <3> QED
      BY <2>1, <3>1, <3>4 DEF Drained, Update, IsWriting
  <2>2. CASE ~(IsWriting /\ ~Broken)
    BY <1>2, <1>6, <2>2 DEF HandleWrite
  <2> QED
    BY <2>1, <2>2
<1>7. CASE RunEstablished
  BY <1>7 DEF RunEstablished, Update, IsWriting
<1>8. CASE RunDestroyed \/ RunCallback \/ EndBatch
  BY <1>2, <1>8 DEF RunDestroyed, RunCallback, EndBatch, Remove
<1>9. CASE RunRaw
  <2>1. CASE batch[at].op = "sendInLoop"
    <3>1. /\ batch[at].first \in 1..(MaxBytes + 1)
          /\ batch[at].last \in 0..MaxBytes
          /\ SendInLoop(batch[at].first, batch[at].last)
      BY <1>1, <1>9, <2>1, CurrentTask DEF RunRaw
    <3>2. downs' = downs
      BY <1>9 DEF RunRaw
    <3> QED
      BY <1>1, <3>1, <3>2, SendInLoopWrites
  <2>2. CASE batch[at].op # "sendInLoop"
    BY <1>2, <1>9, <2>2 DEF RunRaw
  <2> QED
    BY <2>1, <2>2
<1>10. CASE RunSendFile
  BY <1>2, <1>10 DEF RunSendFile, SendFileInLoop
<1>11. CASE EndStep
  BY <1>2, <1>11 DEF EndStep, EndCallback, EndDownClosed, EndDownDestroyed,
                     Remove
<1>12. ASSUME NEW n \in 1..(MaxBytes - accepted), Send(n)
       PROVE  Writing'
  <2>1. /\ accepted + 1 \in 1..(MaxBytes + 1)
        /\ accepted + n \in 0..MaxBytes
    BY <1>1, LenProperties DEF TypeOK, accepted
  <2>2. SendInLoop(accepted + 1, accepted + n) /\ downs' = downs
    BY <1>12 DEF Send
  <2> QED
    BY <1>1, <2>1, <2>2, SendInLoopWrites
<1>13. ASSUME NEW n \in 1..(MaxBytes - accepted), SendFile(n)
       PROVE  Writing'
  BY <1>2, <1>13 DEF SendFile, SendFileInLoop
<1>14. CASE Shutdown
  BY <1>2, <1>14 DEF Shutdown
<1>15. ASSUME NEW t \in Threads,
              FinishCall(t) \/ Release(t) \/ \E op \in ThreadOps : Call(t, op)
       PROVE  Writing'
  BY <1>2, <1>15 DEF FinishCall, Release, Call, QueueSend, QueueSendFile,
                     SetDisconnecting, QueueShutdown
<1>16. CASE \/ PeerSend \/ PeerFin \/ PeerReset
            \/ RemoveConnectionInLoop \/ DestroyServer \/ StopLoop
  BY <1>2, <1>16 DEF PeerSend, PeerFin, PeerReset, RemoveConnectionInLoop,
                     DestroyServer, StopLoop
<1>17. CASE UNCHANGED vars
  BY <1>2, <1>17
<1> QED
  BY <1>3, <1>4, <1>5, <1>6, <1>7, <1>8, <1>9, <1>10, <1>11, <1>12, <1>13,
     <1>14, <1>15, <1>16, <1>17
  DEF Next, LoopStep, EventStep, BatchStep, CallbackStep

LEMMA TypeInvariant == Spec => []TypeInv
BY InitTypes, NextTypes, PTL DEF Spec

\* Until the connection goes down EPOLLOUT is asked for exactly while bytes
\* wait in outputBuffer_, whoever sends: callbacks, other threads or files.
THEOREM WriteInterestHolds == Spec => []WriteInterest
<1>1. Init => Writing
  BY DEF Init, Writing, IsWriting
<1>2. Writing => WriteInterest
  BY DEF Writing, WriteInterest
<1> QED
  BY <1>1, <1>2, WritingStep, TypeInvariant, PTL DEF Spec

-----------------------------------------------------------------------------
(* ToldOnce                                                                *)

Marks(q) == {i \in 1..Len(q) : q[i].op = "highWater"}

\* handleEvent has handled all there was.
Settled == place = "event" /\ callback = "none" /\ revents = {}

\* While the callback of a crossing waits in the queue the buffer is still
\* beyond the mark, or the loop is about to take the queue.
Told ==
  /\ \A i, j \in Marks(queue) : i = j
  /\ Marks(queue) # {} => Len(outputBuffer) >= highWaterMark \/ Settled

LEMMA AppendedMarks ==
  ASSUME NEW q \in Seq(Tasks), NEW e \in Tasks
  PROVE  Marks(Append(q, e)) = IF e.op = "highWater"
                                 THEN Marks(q) \cup {Len(q) + 1} ELSE Marks(q)
BY Appended DEF Marks

\* Other callbacks that are queued leave the marks as they are.
LEMMA SameMarks ==
  ASSUME TypeOK
  PROVE  /\ Marks(Append(queue, Task("writeComplete"))) = Marks(queue)
         /\ Marks(Append(queue, Task("connectDestroyed"))) = Marks(queue)
         /\ Marks(Append(queue, Task("shutdownInLoop"))) = Marks(queue)
         /\ \A op \in {"sendInLoop", "sendFileInLoop"},
               a \in 1..(MaxBytes + 1), b \in 0..MaxBytes :
              Marks(Append(queue, DataTask(op, a, b))) = Marks(queue)
<1>1. queue \in Seq(Tasks)
  BY DEF TypeOK
<1>2. ASSUME NEW e \in Tasks, e.op # "highWater"
      PROVE  Marks(Append(queue, e)) = Marks(queue)
  BY <1>1, <1>2, AppendedMarks
<1>3. ASSUME NEW op \in {"writeComplete", "connectDestroyed", "shutdownInLoop"}
      PROVE  Marks(Append(queue, Task(op))) = Marks(queue)
  <2>1. Task(op) \in Tasks /\ Task(op).op # "highWater"
    BY TasksAreTasks DEF Task, Ops, RawOps
  <2> QED
    BY <1>2, <2>1
<1>4. ASSUME NEW op \in {"sendInLoop", "sendFileInLoop"},
             NEW a \in 1..(MaxBytes + 1), NEW b \in 0..MaxBytes
      PROVE  Marks(Append(queue, DataTask(op, a, b))) = Marks(queue)
  <2>1. DataTask(op, a, b) \in Tasks /\ DataTask(op, a, b).op # "highWater"
    BY TasksAreTasks DEF DataTask, Ops, RawOps
  <2> QED
    BY <1>2, <2>1
<1> QED
  BY <1>3, <1>4

LEMMA NoMarks == Marks(<<>>) = {}
BY EmptySeq DEF Marks

\* A send crosses the mark at most once, and only when it was below it.
LEMMA SendInLoopTells ==
  ASSUME TypeOK, Told, ~Settled,
         NEW a \in 1..(MaxBytes + 1), NEW b \in 0..MaxBytes, SendInLoop(a, b)
  PROVE  /\ \A i, j \in Marks(queue') : i = j
         /\ Marks(queue') # {} => Len(outputBuffer') >= highWaterMark
<1>1. ASSUME NEW rest \in Seq(1..MaxBytes), BufferRest(rest)
      PROVE  /\ \A i, j \in Marks(queue') : i = j
             /\ Marks(queue') # {} => Len(outputBuffer') >= highWaterMark
  <2>1. /\ Len(outputBuffer) \in Nat /\ Len(rest) \in Nat
        /\ Len(outputBuffer') = Len(outputBuffer) + Len(rest)
    BY <1>1, Concatenated DEF BufferRest, TypeOK
  <2>2. CASE Len(outputBuffer) < highWaterMark
    <3>1. Marks(queue) = {}
      BY <2>1, <2>2 DEF Told
    <3>2. Marks(Append(queue, Task("highWater"))) = {Len(queue) + 1}
      <4>1. /\ queue \in Seq(Tasks) /\ Task("highWater") \in Tasks
            /\ Task("highWater").op = "highWater"
        BY TasksAreTasks DEF TypeOK, Task, Ops
      <4> QED
        BY <3>1, <4>1, AppendedMarks
    <3> QED
      BY <1>1, <2>1, <2>2, <3>1, <3>2 DEF BufferRest
  <2>3. CASE ~(Len(outputBuffer) < highWaterMark)
    <3>1. queue' = queue
      BY <1>1, <2>3 DEF BufferRest
    <3> QED
      BY <2>1, <2>3, <3>1 DEF Told
  <2> QED
    BY <2>2, <2>3
<1>2. CASE ~IsWriting /\ outputBuffer = <<>> /\ ~Broken
  <2>1. PICK taken \in 0..(b + 1 - a) :
          IF a + taken <= b
            THEN BufferRest(Bytes(a + taken, b))
            ELSE /\ queue' = Append(queue, Task("writeComplete"))
                 /\ UNCHANGED outputBuffer
    BY <1>2 DEF SendInLoop
  <2>2. CASE a + taken <= b
    <3>1. a + taken \in 1..(MaxBytes + 1)
      BY <2>2
    <3>2. Bytes(a + taken, b) \in Seq(1..MaxBytes)
      BY <3>1, BytesProperties
    <3> QED
      BY <1>1, <2>1, <2>2, <3>2
  <2>3. CASE ~(a + taken <= b)
    <3>1. Marks(queue') = Marks(queue)
      BY <2>1, <2>3, SameMarks
    <3> QED
      BY <2>1, <2>3, <3>1 DEF Told
  <2> QED
    BY <2>2, <2>3
<1>3. CASE ~IsWriting /\ outputBuffer = <<>> /\ Broken
  BY <1>3 DEF SendInLoop, Told
<1>4. CASE IsWriting \/ outputBuffer # <<>>
  BY <1>1, <1>4, BytesProperties DEF SendInLoop
<1> QED
  BY <1>2, <1>3, <1>4

LEMMA ToldStep == TypeInv /\ Told /\ [Next]_vars => Told'
<1> SUFFICES ASSUME TypeInv, Told, [Next]_vars PROVE Told'
  OBVIOUS
<1>1. TypeOK
  BY DEF TypeInv
<1>2. ASSUME Marks(queue') = Marks(queue), outputBuffer' = outputBuffer,
             Settled => Settled'
      PROVE  Told'
  BY <1>2 DEF Told
<1>3. ASSUME queue' = <<>> PROVE Told'
  BY <1>3, NoMarks DEF Told
<1>4. CASE Poll
  <2>1. CASE UNCHANGED queue
    BY <1>2, <1>4, <2>1 DEF Poll, Settled
  <2>2. CASE ~UNCHANGED queue
    BY <1>3, <1>4, <2>2 DEF Poll, StartBatch
  <2> QED
    BY <2>1, <2>2
<1>5. CASE HandleHup \/ HandleError \/ HandleRead
  BY <1>2, <1>5 DEF HandleHup, HandleError, HandleRead, AtEvent, Settled
<1>6. CASE HandleWrite
  <2>1. Settled'
    BY <1>6 DEF HandleWrite, AtEvent, Settled
  <2>2. Marks(queue') = Marks(queue)
    BY <1>1, <1>6, SameMarks DEF HandleWrite, Drained
  <2> QED
    BY <2>1, <2>2 DEF Told
<1>7. CASE EndEvents
  BY <1>3, <1>7 DEF EndEvents, StartBatch
<1>8. CASE RunEstablished \/ RunDestroyed \/ DestroyConnected \/ RunCallback
           \/ EndBatch
  BY <1>2, <1>8 DEF RunEstablished, RunDestroyed, DestroyConnected,
                    RunCallback, EndBatch, AtTask, Settled
<1>9. CASE RunRaw
  <2>1. CASE batch[at].op = "sendInLoop"
    <3>1. /\ batch[at].first \in 1..(MaxBytes + 1)
          /\ batch[at].last \in 0..MaxBytes
          /\ SendInLoop(batch[at].first, batch[at].last)
      BY <1>1, <1>9, <2>1, CurrentTask DEF RunRaw
    <3>2. ~Settled
      BY <1>9 DEF RunRaw, AtTask, Settled
    <3> QED
      BY <1>1, <3>1, <3>2, SendInLoopTells DEF Told
  <2>2. CASE batch[at].op # "sendInLoop"
    BY <1>2, <1>9, <2>2 DEF RunRaw, AtTask, Settled
  <2> QED
    BY <2>1, <2>2
<1>10. ASSUME NEW a \in 1..(MaxBytes + 1), NEW b \in 0..MaxBytes,
              SendFileInLoop(a, b)
       PROVE  Marks(queue') = Marks(queue) /\ outputBuffer' = outputBuffer
  <2>1. /\ outputBuffer' = outputBuffer
        /\ \/ queue' = queue
           \/ queue' = Append(queue, Task("writeComplete"))
           \/ \E c \in a..(MaxBytes + 1) :
                queue' = Append(queue, DataTask("sendFileInLoop", c, b))
    BY <1>1, <1>10, SendFileInLoopTypes
  <2>2. \A c \in a..(MaxBytes + 1) :
          Marks(Append(queue, DataTask("sendFileInLoop", c, b))) = Marks(queue)
    BY <1>1, SameMarks
  <2>3. Marks(Append(queue, Task("writeComplete"))) = Marks(queue)
    BY <1>1, SameMarks
  <2>4. CASE queue' = queue \/ queue' = Append(queue, Task("writeComplete"))
    BY <2>1, <2>3, <2>4
  <2>5. CASE \E c \in a..(MaxBytes + 1) :
               queue' = Append(queue, DataTask("sendFileInLoop", c, b))
    BY <2>1, <2>2, <2>5
  <2> QED
    BY <2>1, <2>4, <2>5
<1>11. CASE RunSendFile
  <2>1. /\ batch[at].first \in 1..(MaxBytes + 1)
        /\ batch[at].last \in 0..MaxBytes
        /\ SendFileInLoop(batch[at].first, batch[at].last)
    BY <1>1, <1>11, CurrentTask DEF RunSendFile
  <2>2. ~Settled
    BY <1>11 DEF RunSendFile, AtTask, Settled
  <2> QED
    BY <1>2, <1>10, <2>1, <2>2
<1>12. CASE EndStep
  <2>1. Marks(queue') = Marks(queue)
    BY <1>1, <1>12, SameMarks
    DEF EndStep, EndCallback, EndDownClosed, EndDownDestroyed
  <2> QED
    BY <1>2, <1>12, <2>1
    DEF EndStep, EndCallback, EndDownClosed, EndDownDestroyed, Settled
<1>13. ASSUME NEW n \in 1..(MaxBytes - accepted), Send(n) \/ SendFile(n)
       PROVE  Told'
  <2>1. /\ accepted + 1 \in 1..(MaxBytes + 1)
        /\ accepted + n \in 0..MaxBytes
    BY <1>1, LenProperties DEF TypeOK, accepted
  <2>2. ~Settled
    BY <1>13 DEF Send, SendFile, InCallback, Settled
  <2>3. CASE Send(n)
    <3>1. SendInLoop(accepted + 1, accepted + n)
      BY <2>3 DEF Send
    <3> QED
      BY <1>1, <2>1, <2>2, <3>1, SendInLoopTells DEF Told
  <2>4. CASE SendFile(n)
    <3>1. SendFileInLoop(accepted + 1, accepted + n)
      BY <2>4 DEF SendFile
    <3> QED
      BY <1>2, <1>10, <2>1, <2>2, <3>1
  <2> QED
    BY <1>13, <2>3, <2>4
<1>14. CASE Shutdown
  BY <1>2, <1>14 DEF Shutdown, Settled
<1>15. ASSUME NEW t \in Threads,
              FinishCall(t) \/ Release(t) \/ \E op \in ThreadOps : Call(t, op)
       PROVE  Told'
  <2>1. Marks(queue') = Marks(queue)
    <3>1. ASSUME NEW n \in (IF accepted < MaxBytes THEN 1..(MaxBytes - accepted)
                            ELSE {0}),
                 QueueSend(t, n) \/ QueueSendFile(t, n)
          PROVE  Marks(queue') = Marks(queue)
      <4>1. /\ accepted + 1 \in 1..(MaxBytes + 1)
            /\ accepted + n \in 0..MaxBytes
        BY <1>1, LenProperties DEF TypeOK, accepted
      <4>2. \A op \in {"sendInLoop", "sendFileInLoop"} :
              Marks(Append(queue, DataTask(op, accepted + 1, accepted + n)))
                = Marks(queue)
        BY <1>1, <4>1, SameMarks
      <4>3. CASE QueueSend(t, n)
        BY <4>2, <4>3 DEF QueueSend, RunInLoop
      <4>4. CASE QueueSendFile(t, n)
        BY <4>2, <4>4 DEF QueueSendFile, RunInLoop
      <4> QED
        BY <3>1, <4>3, <4>4
    <3>2. CASE QueueShutdown(t)
      BY <1>1, <3>2, SameMarks DEF QueueShutdown, RunInLoop
    <3> QED
      BY <1>15, <3>1, <3>2 DEF FinishCall, SetDisconnecting, Release, Call
  <2>2. UNCHANGED <<outputBuffer, loopVars>>
    BY <1>15 DEF FinishCall, Release, Call, QueueSend, QueueSendFile,
                 SetDisconnecting, QueueShutdown
  <2> QED
    BY <1>2, <2>1, <2>2 DEF Settled
<1>16. CASE PeerSend \/ PeerFin \/ PeerReset \/ UNCHANGED vars
  BY <1>2, <1>16 DEF PeerSend, PeerFin, PeerReset, Settled
<1>17. CASE RemoveConnectionInLoop \/ DestroyServer
  <2>1. Marks(queue') = Marks(queue)
    BY <1>1, <1>17, SameMarks DEF RemoveConnectionInLoop, DestroyServer
  <2> QED
    BY <1>2, <1>17, <2>1 DEF RemoveConnectionInLoop, DestroyServer, Settled
<1>18. CASE StopLoop
  BY <1>3, <1>18 DEF StopLoop
<1> QED
  BY <1>4, <1>5, <1>6, <1>7, <1>8, <1>9, <1>11, <1>12, <1>13, <1>14, <1>15,
     <1>16, <1>17, <1>18
  DEF Next, LoopStep, EventStep, BatchStep, CallbackStep

\* However many sends follow a crossing of the mark, one callback of it waits
\* in the queue at most.
THEOREM ToldOnceHolds == Spec => []ToldOnce
<1>1. Init => Told
  <2> SUFFICES ASSUME Init PROVE Marks(queue) = {}
    BY DEF Told
  <2>1. /\ queue = <<Task("connectEstablished")>>
        /\ Len(queue) = 1 /\ queue[1].op = "connectEstablished"
    BY DEF Init, Task
  <2> QED
    BY <2>1 DEF Marks
<1>2. TypeOK /\ Told => ToldOnce
  <2> SUFFICES ASSUME TypeOK, Told PROVE Cardinality(Marks(queue)) <= 1
    BY DEF ToldOnce, Marks
  <2>1. CASE Marks(queue) = {}
    BY <2>1, FS_EmptySet
  <2>2. CASE Marks(queue) # {}
    <3>1. PICK i \in Marks(queue) : Marks(queue) = {i}
      BY <2>2 DEF Told
    <3>2. Cardinality({i}) = 1
      BY FS_Singleton
    <3> QED
      BY <3>1, <3>2
  <2> QED
    BY <2>1, <2>2
<1> QED
  BY <1>1, <1>2, ToldStep, TypeInvariant, PTL DEF Spec, TypeInv
=============================================================================
