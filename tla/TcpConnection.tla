--------------------------- MODULE TcpConnection ---------------------------
(***************************************************************************)
(* One TcpConnection with its Channel, the loop it belongs to (ioLoop), the *)
(* socket, the peer, threads of the application, and what TcpServer does to *)
(* it: the map connections_ and removeConnection on the server's own loop.  *)
(*                                                                         *)
(* The ioLoop is EventLoop with its queue of callbacks: one poll, the       *)
(* events of this channel, then a batch of callbacks.  The bytes given to   *)
(* send and sendFile are numbered in the order of the calls.                *)
(***************************************************************************)
EXTENDS Naturals, Sequences, FiniteSets

CONSTANTS
  Threads,       \* application threads other than the ioLoop's
  ThreadOps,     \* the calls they make on the connection
  MaxBytes,      \* bound: bytes given to send and sendFile
  MaxMessages,   \* bound: messages the peer sends
  highWaterMark  \* highWaterMark_

ASSUME ConnectionAssumption ==
  /\ Threads \cap {"loop", "file"} = {}
  /\ ThreadOps \subseteq {"send", "sendFile", "shutdown"}
  /\ MaxBytes \in Nat
  /\ MaxMessages \in Nat
  /\ highWaterMark \in Nat

VARIABLES
  state,         \* state_
  events,        \* events_ of channel_: a subset of {"IN", "OUT"}
  index,         \* index_ of channel_, which the poller keeps
  outputBuffer,  \* outputBuffer_
  sent,          \* bytes the socket has taken, in order
  finSent,       \* shutdown(SHUT_WR) was called on the socket
  peer,          \* open, fin (it will send no more) or reset
  soError,       \* an error is pending on the socket
  inbox,         \* messages that have arrived and were not read
  messages,      \* messages the peer has sent
  place,         \* where the ioLoop is: poll, event, run, destroy or stopped
  revents,       \* revents_, the part that is still to be handled
  callback,      \* the application's callback that is running, or none
  queue,         \* pendingFunctors_ of the ioLoop
  batch,         \* the callbacks doPendingFunctors has taken
  at,            \* the one of them to run next
  user,          \* where each application thread is
  given,         \* for each byte given to send or sendFile so far: to send by
                 \* "loop" or a thread, or to sendFile ("file")
  sameLoop,      \* the server's loop is the ioLoop (no thread pool)
  inMap,         \* connections_ holds the connection
  removals,      \* removeConnectionInLoop calls queued in the server's loop
  serverAlive,   \* ~TcpServer has not run
  ups, downs,    \* calls of connectionCallback_ up to now
  dangling       \* the destroyed object that was used, or none

channelVars == <<events, index>>
socketVars == <<sent, finSent, soError, inbox>>
peerVars == <<peer, messages>>
loopVars == <<place, revents, callback, batch, at>>
userVars == <<user, given>>
serverVars == <<sameLoop, inMap, removals, serverAlive>>
countVars == <<ups, downs, dangling>>
vars == <<state, channelVars, outputBuffer, socketVars, peerVars, loopVars,
          queue, userVars, serverVars, countVars>>

\* A callback in the ioLoop's queue; the bytes from first to last are its
\* argument, for sendInLoop and sendFileInLoop.
Task(op) == [op |-> op, first |-> 1, last |-> 0]
DataTask(op, first, last) == [op |-> op, first |-> first, last |-> last]

\* The callbacks that were bound to a plain this; the others hold a
\* shared_ptr to the connection.
RawOps == {"sendInLoop", "shutdownInLoop"}

Ops == RawOps \cup {"connectEstablished", "connectDestroyed", "writeComplete",
                    "highWater", "sendFileInLoop"}

Tasks == [op : Ops, first : 1..(MaxBytes + 1), last : 0..MaxBytes]

Elements(s) == {s[i] : i \in 1..Len(s)}

\* How many bytes were given so far, and those of them that are a file's.
accepted == Len(given)
fileBytes == {i \in 1..accepted : given[i] = "file"}

HoldsPointer(s) == \E i \in 1..Len(s) : s[i].op \notin RawOps

\* Some shared_ptr to the connection is left.  The ioLoop's batch keeps its
\* callbacks to its end, and Channel::handleEvent keeps what tie_ gave it.
Alive == \/ inMap
         \/ removals > 0
         \/ HoldsPointer(queue) \/ HoldsPointer(batch)
         \/ place = "event"
         \/ \E t \in Threads : user[t] \notin {"none", "gone"}

TypeOK ==
  /\ state \in {"kConnecting", "kConnected", "kDisconnecting", "kDisconnected"}
  /\ events \in SUBSET {"IN", "OUT"}
  /\ index \in {"kNew", "kAdded", "kDeleted"}
  /\ outputBuffer \in Seq(1..MaxBytes)
  /\ sent \in Seq(1..MaxBytes)
  /\ peer \in {"open", "fin", "reset"}
  /\ finSent \in BOOLEAN
  /\ soError \in BOOLEAN
  /\ sameLoop \in BOOLEAN
  /\ inMap \in BOOLEAN
  /\ serverAlive \in BOOLEAN
  /\ inbox \in 0..messages
  /\ messages \in 0..MaxMessages
  /\ place \in {"poll", "event", "run", "destroy", "stopped"}
  /\ revents \in SUBSET {"HUP", "ERR", "IN", "OUT"}
  /\ callback \in {"none", "up", "message", "writeComplete", "highWater",
                   "downClosed", "downDestroyed"}
  /\ queue \in Seq(Tasks)
  /\ batch \in Seq(Tasks)
  /\ at \in 1..(Len(batch) + 1)
  /\ user \in [Threads -> {"none", "idle", "send", "sendFile", "shutdown",
                           "queueing", "gone"}]
  /\ given \in Seq({"loop", "file"} \cup Threads)
  /\ accepted <= MaxBytes
  /\ removals \in Nat
  /\ ups \in Nat
  /\ downs \in Nat
  /\ dangling \in {"none", "connection", "loop"}
  /\ place # "event" => revents = {}
  /\ batch # <<>> => place \in {"run", "destroy"}

\* The end of TcpServer::newConnection, on the server's loop.
Init ==
  /\ state = "kConnecting"
  /\ events = {}
  /\ index = "kNew"
  /\ outputBuffer = <<>>
  /\ sent = <<>>
  /\ finSent = FALSE
  /\ peer = "open"
  /\ soError = FALSE
  /\ inbox = 0
  /\ messages = 0
  /\ place = "poll"
  /\ revents = {}
  /\ callback = "none"
  /\ queue = <<Task("connectEstablished")>>
  /\ batch = <<>>
  /\ at = 1
  /\ user = [t \in Threads |-> "none"]
  /\ given = <<>>
  /\ sameLoop \in BOOLEAN
  /\ inMap = TRUE
  /\ removals = 0
  /\ serverAlive = TRUE
  /\ ups = 0
  /\ downs = 0
  /\ dangling = "none"

-----------------------------------------------------------------------------
(* The channel and the socket                                              *)

\* Channel::update, by way of EPollPoller::updateChannel.
Update(interest) ==
  /\ events' = interest
  /\ index' = IF index = "kAdded" /\ interest = {} THEN "kDeleted" ELSE "kAdded"

\* Channel::remove, by way of EPollPoller::removeChannel.
Remove == index' = "kNew" /\ UNCHANGED events

IsWriting == "OUT" \in events

\* A write on the socket fails with EPIPE or ECONNRESET.
Broken == peer = "reset" \/ finSent

Bytes(first, last) == [i \in 1..(last + 1 - first) |-> first + i - 1]

-----------------------------------------------------------------------------
(* sendInLoop, shutdownInLoop and sendFileInLoop: what they do to the      *)
(* channel, the socket and the queue                                       *)

\* BufferRest that tells of the mark whenever the buffer is beyond it.
BufferRest_AlwaysTells(rest) ==
  /\ outputBuffer' = outputBuffer \o rest
  /\ queue' = IF Len(outputBuffer) + Len(rest) >= highWaterMark
                THEN Append(queue, Task("highWater")) ELSE queue
  /\ IF IsWriting THEN UNCHANGED channelVars ELSE Update(events \cup {"OUT"})

\* Bytes that the socket did not take go to outputBuffer_.
BufferRest(rest) ==
  LET len == Len(outputBuffer) IN
  /\ outputBuffer' = outputBuffer \o rest
  /\ queue' = IF len + Len(rest) >= highWaterMark /\ len < highWaterMark
                THEN Append(queue, Task("highWater")) ELSE queue
  /\ IF IsWriting THEN UNCHANGED channelVars ELSE Update(events \cup {"OUT"})

\* sendInLoop that writes to the socket even while bytes wait in
\* outputBuffer_.
SendInLoop_NoQueueing(first, last) ==
  /\ ~Broken
  /\ \E taken \in 0..(last + 1 - first) :
       /\ sent' = sent \o Bytes(first, first + taken - 1)
       /\ IF first + taken <= last
            THEN BufferRest(Bytes(first + taken, last))
            ELSE /\ queue' = Append(queue, Task("writeComplete"))
                 /\ UNCHANGED <<channelVars, outputBuffer>>
  /\ UNCHANGED soError

\* sendInLoop that forgets to ask for EPOLLOUT.
SendInLoop_NoEpollout(first, last) ==
  \/ /\ ~IsWriting /\ outputBuffer = <<>> /\ ~Broken
     /\ \E taken \in 0..(last + 1 - first) :
          /\ sent' = sent \o Bytes(first, first + taken - 1)
          /\ outputBuffer' = Bytes(first + taken, last)
     /\ UNCHANGED <<channelVars, queue, soError>>
  \/ /\ IsWriting \/ outputBuffer # <<>> \/ Broken
     /\ UNCHANGED <<channelVars, outputBuffer, queue, sent, soError>>

\* The socket takes any number of the bytes, none when it is full, and a
\* broken one drops them.
SendInLoop(first, last) ==
  \/ /\ ~IsWriting /\ outputBuffer = <<>> /\ ~Broken
     /\ \E taken \in 0..(last + 1 - first) :
          /\ sent' = sent \o Bytes(first, first + taken - 1)
          /\ IF first + taken <= last
               THEN BufferRest(Bytes(first + taken, last))
               ELSE /\ queue' = Append(queue, Task("writeComplete"))
                    /\ UNCHANGED <<channelVars, outputBuffer>>
     /\ UNCHANGED soError
  \/ /\ ~IsWriting /\ outputBuffer = <<>> /\ Broken
     /\ soError' = FALSE
     /\ UNCHANGED <<channelVars, outputBuffer, queue, sent>>
  \/ /\ IsWriting \/ outputBuffer # <<>>
     /\ BufferRest(Bytes(first, last))
     /\ UNCHANGED <<sent, soError>>

\* A shutdown that does not wait for outputBuffer_.
ShutdownInLoop_AtOnce == finSent' = TRUE

\* The bytes in outputBuffer_ go first: handleWrite calls it again.
ShutdownInLoop == finSent' = (finSent \/ ~IsWriting)

\* The rest of the file is queued again, until a shutdown() drops it.
SendFileInLoop(first, last) ==
  /\ \/ /\ state # "kDisconnecting" /\ ~IsWriting /\ outputBuffer = <<>>
        /\ ~Broken
        /\ \E taken \in 0..(last + 1 - first) :
             /\ sent' = sent \o Bytes(first, first + taken - 1)
             /\ queue' = Append(queue,
                           IF first + taken <= last
                             THEN DataTask("sendFileInLoop", first + taken, last)
                             ELSE Task("writeComplete"))
        /\ UNCHANGED soError
     \/ /\ state # "kDisconnecting" /\ ~IsWriting /\ outputBuffer = <<>>
        /\ Broken
        /\ soError' = FALSE
        /\ UNCHANGED <<queue, sent>>
     \/ /\ state # "kDisconnecting"
        /\ IsWriting \/ outputBuffer # <<>>
        /\ queue' = Append(queue, DataTask("sendFileInLoop", first, last))
        /\ UNCHANGED <<sent, soError>>
     \/ /\ state = "kDisconnecting"
        /\ UNCHANGED <<queue, sent, soError>>
  /\ UNCHANGED <<channelVars, outputBuffer>>

\* What none of the three changes but finSent.
aroundVars == <<state, inbox, peerVars, serverVars, countVars>>

-----------------------------------------------------------------------------
(* The ioLoop: polling and the channel's events                            *)

\* What epoll certainly reports of the socket.
Pending ==
  IF index # "kAdded" THEN {}
  ELSE {e \in {"HUP", "ERR", "IN", "OUT"} :
          \/ e = "HUP" /\ (peer = "reset" \/ (peer = "fin" /\ finSent))
          \/ e = "ERR" /\ soError
          \/ e = "IN" /\ "IN" \in events /\ (inbox > 0 \/ peer # "open")
          \/ e = "OUT" /\ IsWriting /\ Broken}

\* Whether the socket has room for output is up to the peer.
PerhapsRoom == IF index = "kAdded" /\ IsWriting THEN {"OUT"} ELSE {}

\* doPendingFunctors takes the queue; the loop polls at once if it is empty.
StartBatch ==
  /\ batch' = queue
  /\ queue' = <<>>
  /\ at' = 1
  /\ place' = IF queue = <<>> THEN "poll" ELSE "run"

\* handleEventWithGuard does nothing about EPOLLHUP together with EPOLLIN.
Poll ==
  /\ dangling = "none"
  /\ place = "poll"
  /\ \E ready \in {Pending, Pending \cup PerhapsRoom} :
       IF ready # {}
         THEN /\ revents' = IF "IN" \in ready THEN ready \ {"HUP"} ELSE ready
              /\ place' = "event"
              /\ dangling' = IF Alive THEN "none" ELSE "connection"
              /\ UNCHANGED <<queue, batch, at>>
         ELSE /\ queue # <<>>
              /\ StartBatch
              /\ UNCHANGED <<revents, dangling>>
  /\ UNCHANGED <<state, channelVars, outputBuffer, socketVars, peerVars,
                 callback, userVars, serverVars, ups, downs>>

\* The ioLoop is between two handlers of the channel.
AtEvent(e) ==
  /\ dangling = "none"
  /\ place = "event"
  /\ callback = "none"
  /\ e \in revents
  /\ revents' = revents \ {e}

\* handleClose that tells only an application that has not called shutdown.
HandleClose_Quiet ==
  /\ state' = "kDisconnected"
  /\ Update({})
  /\ callback' = "downClosed"
  /\ downs' = IF state = "kConnected" THEN downs + 1 ELSE downs

\* handleClose up to the end of the application's callback.
HandleClose ==
  /\ state' = "kDisconnected"
  /\ Update({})
  /\ callback' = "downClosed"
  /\ downs' = downs + 1

HandleHup ==
  /\ AtEvent("HUP")
  /\ HandleClose
  /\ UNCHANGED <<outputBuffer, socketVars, peerVars, place, batch, at, queue,
                 userVars, serverVars, ups, dangling>>

\* getsockopt(SO_ERROR) clears the error.
HandleError ==
  /\ AtEvent("ERR")
  /\ "HUP" \notin revents
  /\ soError' = FALSE
  /\ UNCHANGED <<state, channelVars, outputBuffer, sent, finSent, inbox,
                 peerVars, place, callback, batch, at, queue, userVars,
                 serverVars, countVars>>

\* handleRead when the end of the stream does not close the connection.
HandleRead_IgnoreEnd ==
  /\ AtEvent("IN")
  /\ revents \cap {"HUP", "ERR"} = {}
  /\ callback' = IF inbox > 0 THEN "message" ELSE "none"
  /\ inbox' = 0
  /\ UNCHANGED <<state, channelVars, outputBuffer, sent, finSent, soError,
                 peerVars, place, batch, at, queue, userVars, serverVars,
                 countVars>>

\* readFd takes what has arrived, then a pending error, then end of file.
HandleRead ==
  /\ AtEvent("IN")
  /\ revents \cap {"HUP", "ERR"} = {}
  /\ \/ /\ inbox > 0
        /\ inbox' = 0
        /\ callback' = "message"
        /\ UNCHANGED <<state, channelVars, soError, downs>>
     \/ /\ inbox = 0 /\ soError
        /\ soError' = FALSE
        /\ UNCHANGED <<state, channelVars, inbox, callback, downs>>
     \/ /\ inbox = 0 /\ ~soError
        /\ HandleClose
        /\ UNCHANGED <<inbox, soError>>
  /\ UNCHANGED <<outputBuffer, sent, finSent, peerVars, place, batch, at,
                 queue, userVars, serverVars, ups, dangling>>

\* What handleWrite does once outputBuffer_ is empty, without the call of
\* shutdownInLoop.
Drained_NoShutdown ==
  /\ Update(events \ {"OUT"})
  /\ queue' = Append(queue, Task("writeComplete"))
  /\ UNCHANGED finSent

\* What handleWrite does once outputBuffer_ is empty.
Drained ==
  /\ Update(events \ {"OUT"})
  /\ queue' = Append(queue, Task("writeComplete"))
  /\ finSent' = (finSent \/ state = "kDisconnecting")

HandleWrite ==
  /\ AtEvent("OUT")
  /\ revents = {"OUT"}
  /\ \/ /\ IsWriting /\ ~Broken
        /\ \E n \in 1..Len(outputBuffer) :
             /\ sent' = sent \o SubSeq(outputBuffer, 1, n)
             /\ outputBuffer' = SubSeq(outputBuffer, n + 1, Len(outputBuffer))
             /\ IF n = Len(outputBuffer)
                  THEN Drained
                  ELSE UNCHANGED <<channelVars, queue, finSent>>
        /\ UNCHANGED soError
     \/ /\ IsWriting /\ Broken
        /\ soError' = FALSE
        /\ UNCHANGED <<channelVars, outputBuffer, queue, sent, finSent>>
     \/ /\ ~IsWriting
        /\ UNCHANGED <<channelVars, outputBuffer, queue, sent, finSent, soError>>
  /\ UNCHANGED <<aroundVars, place, callback, batch, at, userVars>>

\* A channel that drops the events that follow the first.
EndEvents_Early ==
  /\ dangling = "none"
  /\ place = "event"
  /\ callback = "none"
  /\ StartBatch
  /\ UNCHANGED <<state, channelVars, outputBuffer, socketVars, peerVars,
                 revents, callback, userVars, serverVars, countVars>>

EndEvents ==
  /\ dangling = "none"
  /\ place = "event"
  /\ callback = "none"
  /\ revents = {}
  /\ StartBatch
  /\ UNCHANGED <<state, channelVars, outputBuffer, socketVars, peerVars,
                 revents, callback, userVars, serverVars, countVars>>

-----------------------------------------------------------------------------
(* The ioLoop: the batch of callbacks                                      *)

\* The next callback of the batch is one of ops.
AtTask(ops) ==
  /\ dangling = "none"
  /\ place = "run"
  /\ callback = "none"
  /\ at <= Len(batch)
  /\ batch[at].op \in ops

NextTask == at' = at + 1 /\ UNCHANGED <<place, revents, batch>>

\* connectEstablished, which gives the application its shared_ptr.
RunEstablished ==
  /\ AtTask({"connectEstablished"})
  /\ state' = "kConnected"
  /\ Update(events \cup {"IN"})
  /\ callback' = "up"
  /\ ups' = ups + 1
  /\ user' = [t \in Threads |-> "idle"]
  /\ NextTask
  /\ UNCHANGED <<outputBuffer, socketVars, peerVars, queue, given,
                 serverVars, downs, dangling>>

\* connectDestroyed that does not look at state_ first.
RunDestroyed_Always ==
  /\ AtTask({"connectDestroyed"})
  /\ place' = "destroy"
  /\ UNCHANGED <<index, at, state, events, outputBuffer, socketVars, peerVars,
                 revents, callback, batch, queue, userVars, serverVars,
                 countVars>>

\* connectDestroyed up to its test of state_.
RunDestroyed ==
  /\ AtTask({"connectDestroyed"})
  /\ IF state = "kConnected"
       THEN place' = "destroy" /\ UNCHANGED <<index, at>>
       ELSE Remove /\ at' = at + 1 /\ UNCHANGED place
  /\ UNCHANGED <<state, events, outputBuffer, socketVars, peerVars, revents,
                 callback, batch, queue, userVars, serverVars, countVars>>

\* connectDestroyed goes on: another thread may have changed state_ since.
DestroyConnected ==
  /\ dangling = "none"
  /\ place = "destroy"
  /\ callback = "none"
  /\ state' = "kDisconnected"
  /\ Update({})
  /\ callback' = "downDestroyed"
  /\ downs' = downs + 1
  /\ UNCHANGED <<outputBuffer, socketVars, peerVars, place, revents, batch, at,
                 queue, userVars, serverVars, ups, dangling>>

RunCallback ==
  /\ AtTask({"writeComplete", "highWater"})
  /\ callback' = batch[at].op
  /\ NextTask
  /\ UNCHANGED <<state, channelVars, outputBuffer, socketVars, peerVars, queue,
                 userVars, serverVars, countVars>>

\* A callback bound to this finds the connection, or what was one.
RunRaw ==
  /\ AtTask(RawOps)
  /\ NextTask
  /\ dangling' = IF Alive THEN "none" ELSE "connection"
  /\ IF batch[at].op = "sendInLoop"
       THEN /\ SendInLoop(batch[at].first, batch[at].last)
            /\ UNCHANGED finSent
       ELSE /\ ShutdownInLoop
            /\ UNCHANGED <<channelVars, outputBuffer, queue, sent, soError>>
  /\ UNCHANGED <<state, inbox, peerVars, callback, userVars, serverVars, ups,
                 downs>>

RunSendFile ==
  /\ AtTask({"sendFileInLoop"})
  /\ SendFileInLoop(batch[at].first, batch[at].last)
  /\ NextTask
  /\ UNCHANGED <<aroundVars, finSent, callback, userVars>>

EndBatch ==
  /\ dangling = "none"
  /\ place = "run"
  /\ callback = "none"
  /\ at > Len(batch)
  /\ batch' = <<>>
  /\ at' = 1
  /\ place' = "poll"
  /\ UNCHANGED <<state, channelVars, outputBuffer, socketVars, peerVars,
                 revents, callback, queue, userVars, serverVars, countVars>>

\* ~EventLoopThread, at the end of ~TcpServer, makes the loop leave loop();
\* ~EventLoop then destroys the callbacks that are still queued.
StopLoop ==
  /\ dangling = "none"
  /\ place = "poll"
  /\ ~serverAlive
  /\ place' = "stopped"
  /\ queue' = <<>>
  /\ UNCHANGED <<state, channelVars, outputBuffer, socketVars, peerVars,
                 revents, callback, batch, at, userVars, serverVars, countVars>>

-----------------------------------------------------------------------------
(* The application's callbacks, and what follows them                      *)

EndCallback ==
  /\ dangling = "none"
  /\ callback \in {"up", "message", "writeComplete", "highWater"}
  /\ callback' = "none"
  /\ UNCHANGED <<state, channelVars, outputBuffer, socketVars, peerVars, place,
                 revents, batch, at, queue, userVars, serverVars, countVars>>

\* removeConnectionInLoop that destroys the connection on the spot.
EndDownClosed_AtOnce ==
  /\ dangling = "none"
  /\ callback = "downClosed"
  /\ callback' = "none"
  /\ inMap' = FALSE
  /\ UNCHANGED <<state, channelVars, outputBuffer, socketVars, peerVars, place,
                 revents, batch, at, queue, userVars, sameLoop, removals,
                 serverAlive, countVars>>

\* The end of handleClose: TcpServer::removeConnection through closeCallback_.
\* In the server's own loop it does what removeConnectionInLoop does, in
\* another it queues that.  ~TcpServer joins this thread before it ends, so
\* the server's this is still good.
EndDownClosed ==
  /\ dangling = "none"
  /\ callback = "downClosed"
  /\ callback' = "none"
  /\ IF sameLoop
       THEN /\ inMap' = FALSE
            /\ queue' = Append(queue, Task("connectDestroyed"))
            /\ UNCHANGED removals
       ELSE /\ removals' = removals + 1
            /\ UNCHANGED <<inMap, queue>>
  /\ UNCHANGED <<state, channelVars, outputBuffer, socketVars, peerVars, place,
                 revents, batch, at, userVars, sameLoop, serverAlive, countVars>>

\* The last statement of connectDestroyed.
EndDownDestroyed ==
  /\ dangling = "none"
  /\ callback = "downDestroyed"
  /\ callback' = "none"
  /\ Remove
  /\ place' = "run"
  /\ at' = at + 1
  /\ UNCHANGED <<state, outputBuffer, socketVars, peerVars, revents, batch,
                 queue, userVars, serverVars, countVars>>

\* A callback of the application may send, send a file or shut down.
InCallback ==
  /\ dangling = "none"
  /\ callback # "none"
  /\ state = "kConnected"

\* n more bytes are given to send by the loop or a thread, or to sendFile.
Accept(n, by) == given' = given \o [i \in 1..n |-> by]

Send(n) ==
  /\ InCallback
  /\ Accept(n, "loop")
  /\ SendInLoop(accepted + 1, accepted + n)
  /\ UNCHANGED <<aroundVars, finSent, loopVars, user>>

SendFile(n) ==
  /\ InCallback
  /\ Accept(n, "file")
  /\ SendFileInLoop(accepted + 1, accepted + n)
  /\ UNCHANGED <<aroundVars, finSent, loopVars, user>>

Shutdown ==
  /\ InCallback
  /\ state' = "kDisconnecting"
  /\ ShutdownInLoop
  /\ UNCHANGED <<channelVars, outputBuffer, sent, soError, inbox, peerVars,
                 loopVars, queue, userVars, serverVars, countVars>>

CallbackStep ==
  \/ \E n \in 1..(MaxBytes - accepted) : Send(n) \/ SendFile(n)
  \/ Shutdown

-----------------------------------------------------------------------------
(* Application threads                                                     *)

\* What a call on another thread changes: the queue, and a little else.
otherVars == <<channelVars, outputBuffer, socketVars, peerVars, loopVars,
               serverVars, ups, downs>>

MoveUser(t, from, to) ==
  /\ dangling = "none"
  /\ user[t] = from
  /\ user' = [user EXCEPT ![t] = to]

\* t calls op, which finds the connection connected.
Call(t, op) ==
  /\ MoveUser(t, "idle", op)
  /\ state = "kConnected"
  /\ op # "shutdown" => accepted < MaxBytes
  /\ UNCHANGED <<otherVars, state, queue, given, dangling>>

\* loop_->runInLoop on another thread: loop_ is a plain pointer.
RunInLoop(task) ==
  IF place # "stopped"
    THEN queue' = Append(queue, task) /\ UNCHANGED dangling
    ELSE dangling' = "loop" /\ UNCHANGED queue

\* The bytes that bound the model may be used up by now.
QueueSend(t, n) ==
  /\ MoveUser(t, "send", "idle")
  /\ Accept(n, t)
  /\ RunInLoop(DataTask("sendInLoop", accepted + 1, accepted + n))
  /\ UNCHANGED <<otherVars, state>>

QueueSendFile(t, n) ==
  /\ MoveUser(t, "sendFile", "idle")
  /\ Accept(n, "file")
  /\ RunInLoop(DataTask("sendFileInLoop", accepted + 1, accepted + n))
  /\ UNCHANGED <<otherVars, state>>

SetDisconnecting(t) ==
  /\ MoveUser(t, "shutdown", "queueing")
  /\ state' = "kDisconnecting"
  /\ UNCHANGED <<otherVars, queue, given, dangling>>

QueueShutdown(t) ==
  /\ MoveUser(t, "queueing", "idle")
  /\ RunInLoop(Task("shutdownInLoop"))
  /\ UNCHANGED <<otherVars, state, given>>

\* t lets its shared_ptr go.
Release(t) ==
  /\ MoveUser(t, "idle", "gone")
  /\ UNCHANGED <<otherVars, state, queue, given, dangling>>

FinishCall(t) ==
  \/ \E n \in (IF accepted < MaxBytes THEN 1..(MaxBytes - accepted) ELSE {0}) :
       QueueSend(t, n) \/ QueueSendFile(t, n)
  \/ SetDisconnecting(t)
  \/ QueueShutdown(t)

-----------------------------------------------------------------------------
(* The peer                                                                *)

PeerSend ==
  /\ dangling = "none"
  /\ peer = "open"
  /\ messages < MaxMessages
  /\ messages' = messages + 1
  /\ inbox' = inbox + 1
  /\ UNCHANGED <<state, channelVars, outputBuffer, sent, finSent, peer,
                 soError, loopVars, queue, userVars, serverVars, countVars>>

PeerFin ==
  /\ dangling = "none"
  /\ peer = "open"
  /\ peer' = "fin"
  /\ UNCHANGED <<state, channelVars, outputBuffer, socketVars, messages,
                 loopVars, queue, userVars, serverVars, countVars>>

PeerReset ==
  /\ dangling = "none"
  /\ peer # "reset"
  /\ peer' = "reset"
  /\ soError' = TRUE
  /\ UNCHANGED <<state, channelVars, outputBuffer, sent, finSent, inbox,
                 messages, loopVars, queue, userVars, serverVars, countVars>>

-----------------------------------------------------------------------------
(* The server, on its own loop when that is not the ioLoop                 *)

\* Calls that were queued in the server's loop are not run any more once
\* the server is destroyed.
RemoveConnectionInLoop ==
  /\ dangling = "none"
  /\ removals > 0
  /\ serverAlive
  /\ removals' = removals - 1
  /\ inMap' = FALSE
  /\ queue' = Append(queue, Task("connectDestroyed"))
  /\ UNCHANGED <<state, channelVars, outputBuffer, socketVars, peerVars,
                 loopVars, userVars, sameLoop, serverAlive, countVars>>

\* ~TcpServer.
DestroyServer ==
  /\ dangling = "none"
  /\ ~sameLoop
  /\ serverAlive
  /\ serverAlive' = FALSE
  /\ inMap' = FALSE
  /\ queue' = IF inMap THEN Append(queue, Task("connectDestroyed")) ELSE queue
  /\ UNCHANGED <<state, channelVars, outputBuffer, socketVars, peerVars,
                 loopVars, userVars, sameLoop, removals, countVars>>

-----------------------------------------------------------------------------

EventStep == HandleHup \/ HandleError \/ HandleRead \/ HandleWrite \/ EndEvents

BatchStep == \/ RunEstablished \/ RunDestroyed \/ DestroyConnected
             \/ RunCallback \/ RunRaw \/ RunSendFile \/ EndBatch

EndStep == EndCallback \/ EndDownClosed \/ EndDownDestroyed

LoopStep == Poll \/ EventStep \/ BatchStep \/ EndStep

Next == \/ LoopStep
        \/ CallbackStep
        \/ \E t \in Threads :
             FinishCall(t) \/ Release(t) \/ \E op \in ThreadOps : Call(t, op)
        \/ PeerSend \/ PeerFin \/ PeerReset
        \/ RemoveConnectionInLoop \/ DestroyServer \/ StopLoop

Spec == Init /\ [][Next]_vars

(***************************************************************************)
(* The loops run and callbacks return, a call that was begun is finished,  *)
(* and the peer reads what it is sent, so that the socket has room again   *)
(* and again while the connection waits for it.                            *)
(***************************************************************************)
FairSpec == /\ Spec
            /\ WF_vars(LoopStep)
            /\ WF_vars(RemoveConnectionInLoop)
            /\ \A t \in Threads : WF_vars(FinishCall(t))
            /\ SF_vars(Poll /\ "OUT" \in revents')

(***************************************************************************)
(* ... and ~TcpServer goes on to quit() and join() the loop's thread, so   *)
(* that a loop that goes round finds quit_ set.  FairSpec lets ~TcpServer  *)
(* take its time, and what holds then does not rest on its end.            *)
(***************************************************************************)
EndingFairSpec == FairSpec /\ SF_vars(StopLoop)

-----------------------------------------------------------------------------
(* Properties                                                              *)

\* The application hears of the connection once as it comes up and once as it
\* goes down, and it is destroyed after that, whoever ends it: the peer, the
\* application or both at once.  Only ~TcpServer breaks off.
Phase == CASE ~Alive -> "gone"
           [] Alive /\ downs = 0 -> IF ups = 0 THEN "made" ELSE "up"
           [] Alive /\ downs = 1 -> "down"
           [] Alive /\ downs > 1 -> "down again"

Life == INSTANCE ConnectionLife WITH phase <- Phase, ending <- ~serverAlive

RefinesConnectionLife == Life!Spec

\* Until the connection goes down, EPOLLOUT is asked for exactly while bytes
\* wait in outputBuffer_: none is stuck, and an empty buffer wakes nobody.
WriteInterest ==
  ups = 1 /\ downs = 0 => (IsWriting <=> outputBuffer # <<>>)

\* shutdown() lets go out first what send() accepted: when a connection that
\* nobody else ended sends its FIN, no byte given to send() is left behind.
\* (Bytes given to sendFile() may be.)  That is so while send() is called in
\* callbacks alone: what another thread has queued is behind the FIN of a
\* callback that calls shutdown().
NothingCutOff ==
  finSent /\ downs = 0 /\ peer # "reset"
    => (1..accepted) \ fileBytes \subseteq Elements(sent)

\* No byte goes out twice, and the bytes that one thread gave to send() go out
\* in the order in which it gave them, whether written at once, buffered by
\* sendInLoop or queued by runInLoop.
SendOrder ==
  \A i, j \in 1..Len(sent) :
    i < j => /\ sent[i] # sent[j]
             /\ given[sent[i]] = given[sent[j]] /\ given[sent[i]] # "file"
                  => sent[i] < sent[j]

\* The application is not told twice of one time outputBuffer_ crosses the mark
\* ("only when it is exceeded for the first time", TcpConnection.cpp:130),
\* however many sends of callbacks and threads follow: bytes are written, and
\* the mark can be crossed again, only after a poll, and by then the loop has
\* taken the callback of the crossing before.
ToldOnce == Cardinality({i \in 1..Len(queue) : queue[i].op = "highWater"}) <= 1

\* The last shared_ptr goes only after the poller has forgotten the channel,
\* which is part of the connection, or with the whole loop.
RemovedBeforeDestroyed == ~Alive /\ place # "stopped" => index = "kNew"

\* A channel without interest is never left registered with epoll, where it
\* would report EPOLLHUP for ever (a second disableAll() would add it).
RegisteredWithInterest == index = "kAdded" => events # {}

\* Once the peer has closed or reset the connection, the poller forgets its
\* channel and the server its entry, unless ~TcpServer stops the loop.
CloseCompletes ==
  (peer # "open")
    ~> ((index = "kNew" /\ ~inMap) \/ place = "stopped" \/ dangling # "none")

\* The application is told when the peer has ended the connection, and also
\* when ~TcpServer has -- unless shutdown() was called, which connectDestroyed
\* takes for an end that was reported, or the loop stops with connectDestroyed
\* in its queue.
DownIsCalled ==
  (peer # "open" \/ ~serverAlive)
    ~> \/ downs > 0
       \/ ~serverAlive /\ (state = "kDisconnecting" \/ place = "stopped")
       \/ dangling # "none"

\* shutdown() sends a FIN in the end, unless the connection ends before.
ShutdownSendsFin ==
  (state = "kDisconnecting")
    ~> \/ finSent \/ downs > 0 \/ index = "kNew"
       \/ place = "stopped" \/ dangling # "none"

\* "Cannot send any more" after the connection is down, "give up writing"
\* (sendInLoop, TcpConnection.cpp:87-90): bytes given to send() are not
\* written to the socket then.
GivesUpWriting ==
  [][state = "kDisconnected" /\ sent' # sent
       => sent'[Len(sent')] \in fileBytes']_vars

\* "No more data needs to be sent when the connection is down" (the comment
\* on the test of state_ in sendFileInLoop, TcpConnection.cpp:295-296): a
\* file that waits behind outputBuffer_ as the connection goes down is
\* dropped in the end.
GivesUpFile ==
  (state = "kDisconnected" /\ outputBuffer # <<>>)
    ~> \/ dangling # "none"
       \/ \A task \in Elements(queue) \cup Elements(batch) :
            task.op # "sendFileInLoop"

\* "Smart pointers prevent dangling pointers" (README.md:22-24): the ioLoop
\* runs no callback on a connection that was destroyed.
NoDanglingConnection == dangling # "connection"
=============================================================================
