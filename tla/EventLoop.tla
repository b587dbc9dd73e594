----------------------------- MODULE EventLoop -----------------------------
(***************************************************************************)
(* One EventLoop object: the thread that runs EventLoop::loop() and the    *)
(* other threads that hand it callbacks (queueInLoop, runInLoop) or stop   *)
(* it (quit).  A call is split where another thread can get in between:    *)
(* after the mutex is released and before the eventfd is written.          *)
(*                                                                         *)
(* Poller and Channel appear only as the set of channels a poll returns;   *)
(* a channel's callback is user code, which may call back into the loop.   *)
(***************************************************************************)
EXTENDS Naturals, Sequences

CONSTANTS
  LoopThread,      \* the thread that constructed the loop: threadId_
  Threads,         \* the other threads that hold a pointer to the loop
  WakeupChannel,   \* wakeupChannel_, on the eventfd wakeupFd_
  Channels,        \* the other channels registered with poller_
  Functors         \* the callbacks handed to the loop, each at most once

ASSUME EventLoopAssumption ==
  /\ LoopThread \notin Threads
  /\ WakeupChannel \notin Channels

Callers == Threads \cup {LoopThread}

VARIABLES
  pc,                      \* where the loop's thread is
  looping,                 \* looping_
  quit,                    \* quit_
  callingPendingFunctors,  \* callingPendingFunctors_
  eventfd,                 \* the counter behind wakeupFd_
  activeChannels,          \* activeChannels_, the ones still to be handled
  pendingFunctors,         \* pendingFunctors_, guarded by mutex_
  functors,                \* the batch doPendingFunctors took, still to finish
  call,                    \* each caller's place inside queueInLoop or quit
  fresh,                   \* callbacks nobody has handed over yet
  done,                    \* callbacks that have run
  quitters,                \* threads that have called quit()
  beforeLoop               \* callbacks the loop's thread queued before loop()

loopVars == <<pc, looping, quit, callingPendingFunctors, eventfd,
              activeChannels, pendingFunctors, functors>>
userVars == <<call, fresh, done, quitters, beforeLoop>>
vars == <<loopVars, userVars>>

(***************************************************************************)
(* init: constructed, loop() not entered (ThreadInitCallback runs here);   *)
(* check: at while (!quit_); poll: inside epoll_wait; handle: between two  *)
(* active channels; callback: inside a channel's callback; run: inside     *)
(* doPendingFunctors; exited: loop() has returned.                         *)
(***************************************************************************)
Places == {"init", "check", "poll", "handle", "callback", "run", "exited"}

TypeOK ==
  /\ pc \in Places
  /\ looping \in BOOLEAN
  /\ quit \in BOOLEAN
  /\ callingPendingFunctors \in BOOLEAN
  /\ eventfd \in Nat
  /\ activeChannels \in SUBSET (Channels \cup {WakeupChannel})
  /\ pendingFunctors \in Seq(Functors)
  /\ functors \in Seq(Functors)
  /\ call \in [Callers -> {"idle", "pushed", "quitting"}]
  /\ fresh \in SUBSET Functors
  /\ done \in SUBSET Functors
  /\ quitters \in SUBSET Callers
  /\ beforeLoop \in SUBSET Functors
  /\ looping = (pc \notin {"init", "exited"})
  /\ callingPendingFunctors = (pc = "run")
  /\ call[LoopThread] # "idle" => \/ pc \in {"init", "callback", "exited"}
                                  \/ pc = "run" /\ functors # <<>>

Init ==
  /\ pc = "init"
  /\ looping = FALSE
  /\ quit = FALSE
  /\ callingPendingFunctors = FALSE
  /\ eventfd = 0
  /\ activeChannels = {}
  /\ pendingFunctors = <<>>
  /\ functors = <<>>
  /\ call = [t \in Callers |-> "idle"]
  /\ fresh = Functors
  /\ done = {}
  /\ quitters = {}
  /\ beforeLoop = {}

-----------------------------------------------------------------------------
(* The thread of the loop: EventLoop::loop                                 *)

\* The loop's thread is between two statements of its own, not in a call.
LoopIsAt(place) == pc = place /\ call[LoopThread] = "idle"

StartLoop ==
  /\ LoopIsAt("init")
  /\ looping' = TRUE
  /\ quit' = FALSE
  /\ pc' = "check"
  /\ UNCHANGED <<callingPendingFunctors, eventfd, activeChannels,
                 pendingFunctors, functors, userVars>>

\* A loop() that returns without looking at quit_ once more than it polls.
CheckQuit_Ignored ==
  /\ pc = "check"
  /\ pc' = "poll"
  /\ activeChannels' = {}
  /\ UNCHANGED <<looping, quit, callingPendingFunctors, eventfd,
                 pendingFunctors, functors, userVars>>

CheckQuit ==
  /\ pc = "check"
  /\ \/ /\ quit
        /\ looping' = FALSE
        /\ pc' = "exited"
        /\ UNCHANGED activeChannels
     \/ /\ ~quit
        /\ activeChannels' = {}
        /\ pc' = "poll"
        /\ UNCHANGED looping
  /\ UNCHANGED <<quit, callingPendingFunctors, eventfd, pendingFunctors,
                 functors, userVars>>

PollReturns(ready) ==
  /\ pc = "poll"
  /\ activeChannels' = ready
  /\ pc' = "handle"
  /\ UNCHANGED <<looping, quit, callingPendingFunctors, eventfd,
                 pendingFunctors, functors, userVars>>

\* The eventfd is readable.  epoll_wait reports at most events_.size()
\* descriptors, so the set need not hold the wakeup channel itself.
PollWoken ==
  /\ eventfd > 0
  /\ \E ready \in (SUBSET (Channels \cup {WakeupChannel})) \ {{}} :
       PollReturns(ready)

\* Only descriptors other than the eventfd are ready.
PollIO == \E ready \in (SUBSET Channels) \ {{}} : PollReturns(ready)

\* kPollTimeMs has passed, or a signal interrupted epoll_wait.
PollTimeout == PollReturns({})

\* EventLoop::handleRead: reading an eventfd resets its counter.
HandleWakeup ==
  /\ pc = "handle"
  /\ WakeupChannel \in activeChannels
  /\ eventfd' = 0
  /\ activeChannels' = activeChannels \ {WakeupChannel}
  /\ UNCHANGED <<pc, looping, quit, callingPendingFunctors, pendingFunctors,
                 functors, userVars>>

HandleChannel(c) ==
  /\ pc = "handle"
  /\ c \in activeChannels
  /\ activeChannels' = activeChannels \ {c}
  /\ pc' = "callback"
  /\ UNCHANGED <<looping, quit, callingPendingFunctors, eventfd,
                 pendingFunctors, functors, userVars>>

EndCallback ==
  /\ LoopIsAt("callback")
  /\ pc' = "handle"
  /\ UNCHANGED <<looping, quit, callingPendingFunctors, eventfd,
                 activeChannels, pendingFunctors, functors, userVars>>

\* The first half of EventLoop::doPendingFunctors: the swap.
SwapPending ==
  /\ pc = "handle"
  /\ activeChannels = {}
  /\ callingPendingFunctors' = TRUE
  /\ functors' = pendingFunctors
  /\ pendingFunctors' = <<>>
  /\ pc' = "run"
  /\ UNCHANGED <<looping, quit, eventfd, activeChannels, userVars>>

FinishFunctor ==
  /\ LoopIsAt("run")
  /\ functors # <<>>
  /\ done' = done \cup {Head(functors)}
  /\ functors' = Tail(functors)
  /\ UNCHANGED <<pc, looping, quit, callingPendingFunctors, eventfd,
                 activeChannels, pendingFunctors, call, fresh, quitters,
                 beforeLoop>>

\* A batch that ends by clearing the queue, as if it had held the mutex.
EndBatch_Clears ==
  /\ pc = "run"
  /\ functors = <<>>
  /\ callingPendingFunctors' = FALSE
  /\ pendingFunctors' = <<>>
  /\ pc' = "check"
  /\ UNCHANGED <<looping, quit, eventfd, activeChannels, functors, userVars>>

\* A batch that forgets callingPendingFunctors_.
EndBatch_StillCalling ==
  /\ pc = "run"
  /\ functors = <<>>
  /\ pc' = "check"
  /\ UNCHANGED <<looping, quit, callingPendingFunctors, eventfd,
                 activeChannels, pendingFunctors, functors, userVars>>

EndBatch ==
  /\ pc = "run"
  /\ functors = <<>>
  /\ callingPendingFunctors' = FALSE
  /\ pc' = "check"
  /\ UNCHANGED <<looping, quit, eventfd, activeChannels, pendingFunctors,
                 functors, userVars>>

-----------------------------------------------------------------------------
(* Callers: code outside the loop, on its own thread or on another         *)

\* t runs code of the application: a thread other than the loop's at any
\* time, the loop's inside a callback or outside loop().
InUserCode(t) ==
  /\ call[t] = "idle"
  /\ \/ t \in Threads
     \/ pc \in {"init", "callback", "exited"}
     \/ pc = "run" /\ functors # <<>>

\* queueInLoop without the second half of its condition.
NeedsWakeup_OnlyForeign(t) == t # LoopThread

NeedsWakeup(t) == t # LoopThread \/ callingPendingFunctors

\* EventLoop::queueInLoop up to the end of the locked block.
QueueInLoop(t, f) ==
  /\ InUserCode(t)
  /\ f \in fresh
  /\ fresh' = fresh \ {f}
  /\ pendingFunctors' = Append(pendingFunctors, f)
  /\ call' = [call EXCEPT ![t] = "pushed"]
  /\ beforeLoop' = IF t = LoopThread /\ pc = "init" THEN beforeLoop \cup {f}
                                                     ELSE beforeLoop
  /\ UNCHANGED <<pc, looping, quit, callingPendingFunctors, eventfd,
                 activeChannels, functors, done, quitters>>

\* The rest of EventLoop::queueInLoop, after the mutex was released.
FinishQueue(t) ==
  /\ call[t] = "pushed"
  /\ eventfd' = IF NeedsWakeup(t) THEN eventfd + 1 ELSE eventfd
  /\ call' = [call EXCEPT ![t] = "idle"]
  /\ UNCHANGED <<pc, looping, quit, callingPendingFunctors, activeChannels,
                 pendingFunctors, functors, fresh, done, quitters, beforeLoop>>

\* EventLoop::runInLoop on the loop's thread.  On another thread it is
\* queueInLoop.
RunHere(f) ==
  /\ InUserCode(LoopThread)
  /\ f \in fresh
  /\ fresh' = fresh \ {f}
  /\ done' = done \cup {f}
  /\ UNCHANGED <<loopVars, call, quitters, beforeLoop>>

\* EventLoop::quit up to its test of the calling thread.  A thread calls it
\* at most once, which bounds eventfd.
Quit(t) ==
  /\ InUserCode(t)
  /\ t \notin quitters
  /\ quit' = TRUE
  /\ quitters' = quitters \cup {t}
  /\ call' = [call EXCEPT ![t] = "quitting"]
  /\ UNCHANGED <<pc, looping, callingPendingFunctors, eventfd, activeChannels,
                 pendingFunctors, functors, fresh, done, beforeLoop>>

\* A quit() that only sets the flag.
FinishQuit_Silent(t) ==
  /\ call[t] = "quitting"
  /\ call' = [call EXCEPT ![t] = "idle"]
  /\ UNCHANGED <<loopVars, fresh, done, quitters, beforeLoop>>

FinishQuit(t) ==
  /\ call[t] = "quitting"
  /\ eventfd' = IF t # LoopThread THEN eventfd + 1 ELSE eventfd
  /\ call' = [call EXCEPT ![t] = "idle"]
  /\ UNCHANGED <<pc, looping, quit, callingPendingFunctors, activeChannels,
                 pendingFunctors, functors, fresh, done, quitters, beforeLoop>>

-----------------------------------------------------------------------------

HandleOne == HandleWakeup \/ \E c \in Channels : HandleChannel(c)

\* Steps of loop() that the loop's thread takes without waiting.
LoopStep == \/ CheckQuit \/ PollWoken \/ HandleOne \/ EndCallback
            \/ SwapPending \/ FinishFunctor \/ EndBatch

CallStep(t) == FinishQueue(t) \/ FinishQuit(t)

UserStep(t) == \/ \E f \in Functors : QueueInLoop(t, f)
               \/ Quit(t)

Next == \/ StartLoop \/ LoopStep \/ PollIO \/ PollTimeout
        \/ \E f \in Functors : RunHere(f)
        \/ \E t \in Callers : CallStep(t) \/ UserStep(t)

Spec == Init /\ [][Next]_vars

\* The scheduler runs every thread that can run, and callbacks return.
\* Nothing is assumed of the poll timeout or of other descriptors: what
\* this promises it promises without the ten seconds of kPollTimeMs.
PromptSpec == /\ Spec
              /\ WF_vars(LoopStep)
              /\ \A t \in Callers : WF_vars(CallStep(t))

-----------------------------------------------------------------------------
(* Properties                                                              *)

Elements(s) == {s[i] : i \in 1..Len(s)}

\* queueInLoop's condition for wakeup() loses no work: once every caller
\* has returned, a loop that waits in epoll_wait with nothing in the eventfd
\* has no callback waiting, other than one its own thread queued before it
\* called loop() (that one nobody announces).
NoLostWakeup ==
  pc = "poll" /\ eventfd = 0 /\ (\A t \in Callers : call[t] # "pushed")
    => Elements(pendingFunctors) \subseteq beforeLoop

\* A loop that waits in epoll_wait after quit() was called is about to be
\* woken: quit() is on its way to the eventfd or has written it.
QuitWakesPoll ==
  pc = "poll" /\ quit
    => eventfd > 0 \/ \E t \in Callers : call[t] = "quitting"

\* A callback queued in a running loop, or by another thread before that,
\* runs without help from a timeout or other events, unless the loop quits.
PromptlyRun ==
  \A f \in Functors :
    (looping /\ f \in Elements(pendingFunctors) \ beforeLoop)
      ~> (f \in done \/ pc = "exited")

\* quit() called on a running loop makes loop() return.
QuitStops == (looping /\ quit) ~> (pc = "exited")

\* The loop implements the queue it promises: the batch being run and the
\* callbacks queued since, in that order, are one first-in first-out queue.
TQ == INSTANCE TaskQueue WITH queue <- functors \o pendingFunctors,
                              done <- done,
                              stopped <- (pc = "exited")

RefinesTaskQueue == TQ!Spec
=============================================================================
