------------------------ MODULE EventLoopThreadPool ------------------------
(***************************************************************************)
(* An EventLoopThreadPool: the owner's thread, which starts the pool, hands *)
(* out its loops and destroys it, and the threads of its EventLoopThread    *)
(* objects.  Thread::start, EventLoopThread::startLoop and threadFunc       *)
(* synchronise through a semaphore, mutex_ and cond_; ~EventLoopThread      *)
(* reads loop_ without mutex_.                                             *)
(*                                                                         *)
(* The subloops themselves appear as far as the pool can tell: a loop that *)
(* runs returns some time after quit_ was set (EventLoop!QuitStops).       *)
(***************************************************************************)
EXTENDS Integers, FiniteSets

CONSTANTS
  numThreads,      \* numThreads_
  SelfQuitters,    \* threads on whose loop a callback may call quit()
  MaxAssigned      \* bound: connections the owner assigns to loops

ASSUME PoolAssumption ==
  /\ numThreads \in Nat \ {0}
  /\ SelfQuitters \subseteq 0..(numThreads - 1)
  /\ MaxAssigned \in Nat

Indices == 0..(numThreads - 1)

VARIABLES
  owner,       \* where the owner's thread is
  cur,         \* the thread it is starting or destroying
  sem,         \* the semaphore of the Thread::start in progress
  place,       \* where each thread is in threadFunc
  loop,        \* each EventLoopThread's loop_ is not null
  quit,        \* quit_ of each subloop
  next,        \* next_
  assigned,    \* how many connections each subloop was given
  destroyed    \* EventLoopThread objects that were destroyed

ownerVars == <<owner, cur, next, assigned, destroyed>>
threadVars == <<sem, place, loop, quit>>
vars == <<ownerVars, threadVars>>

(***************************************************************************)
(* The owner: start (about to start thread cur), semWait (in sem_wait),    *)
(* condWait (in cond_.wait), serve (start() has returned), destroy (about  *)
(* to run ~EventLoopThread of cur), quit (it has found loop_ not null),    *)
(* wake (in quit(), quit_ is set), join, gone (the pool is destroyed),     *)
(* crashed (quit() has used a loop that was destroyed).                    *)
(***************************************************************************)
OwnerPlaces == {"start", "semWait", "condWait", "serve", "destroy", "quit",
                "wake", "join", "gone", "crashed"}

(***************************************************************************)
(* A thread: none (not created), new (created, tid_ not set), started,     *)
(* ready (its loop is constructed and callback_ has returned), published   *)
(* (loop_ is set, loop() not entered), looping, left (loop() has returned),*)
(* cleared (loop_ is null and mutex_ is held), ended (mutex_ is released   *)
(* and the loop is destroyed).                                             *)
(***************************************************************************)
ThreadPlaces == {"none", "new", "started", "ready", "published", "looping",
                 "left", "cleared", "ended"}

TypeOK ==
  /\ owner \in OwnerPlaces
  /\ cur \in 0..numThreads
  /\ sem \in 0..1
  /\ place \in [Indices -> ThreadPlaces]
  /\ loop \in [Indices -> BOOLEAN]
  /\ quit \in [Indices -> BOOLEAN]
  /\ next \in Indices
  /\ assigned \in [Indices -> 0..MaxAssigned]
  /\ destroyed \in SUBSET Indices
  /\ \A i \in Indices : loop[i] <=> place[i] \in {"published", "looping", "left"}

Init ==
  /\ owner = "start"
  /\ cur = 0
  /\ sem = 0
  /\ place = [i \in Indices |-> "none"]
  /\ loop = [i \in Indices |-> FALSE]
  /\ quit = [i \in Indices |-> FALSE]
  /\ next = 0
  /\ assigned = [i \in Indices |-> 0]
  /\ destroyed = {}

-----------------------------------------------------------------------------
(* Starting: EventLoopThreadPool::start, EventLoopThread::startLoop        *)

\* Thread::start without the semaphore.
CreateThread_NoWait ==
  /\ owner = "start"
  /\ place' = [place EXCEPT ![cur] = "new"]
  /\ sem' = 0
  /\ owner' = "condWait"
  /\ UNCHANGED <<cur, loop, quit, next, assigned, destroyed>>

CreateThread ==
  /\ owner = "start"
  /\ place' = [place EXCEPT ![cur] = "new"]
  /\ sem' = 0
  /\ owner' = "semWait"
  /\ UNCHANGED <<cur, loop, quit, next, assigned, destroyed>>

SemWait ==
  /\ owner = "semWait"
  /\ sem > 0
  /\ sem' = sem - 1
  /\ owner' = "condWait"
  /\ UNCHANGED <<cur, place, loop, quit, next, assigned, destroyed>>

\* startLoop() without the predicate of cond_.wait: any notification, or
\* none, lets it go on.
StartLoopReturns_NoPredicate ==
  /\ owner = "condWait"
  /\ cur' = cur + 1
  /\ owner' = IF cur + 1 < numThreads THEN "start" ELSE "serve"
  /\ UNCHANGED <<threadVars, next, assigned, destroyed>>

\* cond_.wait finds loop_ set, startLoop() returns it, and start() goes on
\* to the next thread.
StartLoopReturns ==
  /\ owner = "condWait"
  /\ loop[cur]
  /\ cur' = cur + 1
  /\ owner' = IF cur + 1 < numThreads THEN "start" ELSE "serve"
  /\ UNCHANGED <<threadVars, next, assigned, destroyed>>

-----------------------------------------------------------------------------
(* Serving                                                                 *)

\* getNextLoop() that stays at the last loop instead of wrapping round.
GetNextLoop_NoWrap ==
  /\ owner = "serve"
  /\ assigned[next] < MaxAssigned
  /\ assigned' = [assigned EXCEPT ![next] = @ + 1]
  /\ next' = IF next + 1 >= numThreads THEN numThreads - 1 ELSE next + 1
  /\ UNCHANGED <<threadVars, owner, cur, destroyed>>

GetNextLoop ==
  /\ owner = "serve"
  /\ assigned[next] < MaxAssigned
  /\ assigned' = [assigned EXCEPT ![next] = @ + 1]
  /\ next' = IF next + 1 >= numThreads THEN 0 ELSE next + 1
  /\ UNCHANGED <<threadVars, owner, cur, destroyed>>

-----------------------------------------------------------------------------
(* Destroying: ~EventLoopThreadPool destroys threads_ in order             *)

DestroyPool ==
  /\ owner = "serve"
  /\ cur' = 0
  /\ owner' = "destroy"
  /\ UNCHANGED <<threadVars, next, assigned, destroyed>>

\* The end of ~EventLoopThread of cur, and of ~Thread, which detaches a
\* thread that was not joined.
Destroyed ==
  /\ destroyed' = destroyed \cup {cur}
  /\ cur' = cur + 1
  /\ owner' = IF cur + 1 < numThreads THEN "destroy" ELSE "gone"

\* A destructor that joins the thread before it stops the loop.
ReadLoop_JoinFirst ==
  /\ owner = "destroy"
  /\ loop[cur]
  /\ owner' = "join"
  /\ UNCHANGED <<threadVars, cur, next, assigned, destroyed>>

\* ~EventLoopThread finds loop_ not null.
ReadLoop ==
  /\ owner = "destroy"
  /\ loop[cur]
  /\ owner' = "quit"
  /\ UNCHANGED <<threadVars, cur, next, assigned, destroyed>>

\* ~EventLoopThread finds loop_ null: no quit, no join.
ReadNull ==
  /\ owner = "destroy"
  /\ ~loop[cur]
  /\ Destroyed
  /\ UNCHANGED <<threadVars, next, assigned>>

\* It reads loop_ again to call quit(); through a null pointer it crashes,
\* and the owner takes no further step.
QuitLoop ==
  /\ owner = "quit"
  /\ loop[cur]
  /\ quit' = [quit EXCEPT ![cur] = TRUE]
  /\ owner' = "wake"
  /\ UNCHANGED <<cur, sem, place, loop, next, assigned, destroyed>>

\* The rest of quit() reads threadId_ and writes wakeupFd_.  The loop may have
\* seen quit_ and be gone with the stack of its thread: then what comes is
\* undefined, at best a write that fails and is logged.
WakeLoop ==
  /\ owner = "wake"
  /\ owner' \in IF place[cur] = "ended" THEN {"join", "crashed"} ELSE {"join"}
  /\ UNCHANGED <<threadVars, cur, next, assigned, destroyed>>

\* A destructor that stops the loop and does not wait for its thread.
Join_Skipped ==
  /\ owner = "join"
  /\ Destroyed
  /\ UNCHANGED <<threadVars, next, assigned>>

Join ==
  /\ owner = "join"
  /\ place[cur] = "ended"
  /\ Destroyed
  /\ UNCHANGED <<threadVars, next, assigned>>

-----------------------------------------------------------------------------
(* The threads: EventLoopThread::threadFunc                                *)

MoveTo(i, from, to) ==
  /\ place[i] = from
  /\ place' = [place EXCEPT ![i] = to]

\* A thread function that forgets sem_post.
PostTid_Silent(i) ==
  /\ MoveTo(i, "new", "started")
  /\ UNCHANGED <<ownerVars, sem, loop, quit>>

PostTid(i) ==
  /\ MoveTo(i, "new", "started")
  /\ sem' = sem + 1
  /\ UNCHANGED <<ownerVars, loop, quit>>

\* The loop's constructor and callback_.
MakeLoop(i) ==
  /\ MoveTo(i, "started", "ready")
  /\ UNCHANGED <<ownerVars, sem, loop, quit>>

Publish(i) ==
  /\ MoveTo(i, "ready", "published")
  /\ loop' = [loop EXCEPT ![i] = TRUE]
  /\ UNCHANGED <<ownerVars, sem, quit>>

\* loop.loop() sets quit_ to false as it starts.
EnterLoop(i) ==
  /\ MoveTo(i, "published", "looping")
  /\ quit' = [quit EXCEPT ![i] = FALSE]
  /\ UNCHANGED <<ownerVars, sem, loop>>

\* A callback on the loop calls quit().
SelfQuit(i) ==
  /\ i \in SelfQuitters
  /\ place[i] = "looping"
  /\ quit' = [quit EXCEPT ![i] = TRUE]
  /\ UNCHANGED <<ownerVars, sem, place, loop>>

LeaveLoop(i) ==
  /\ quit[i]
  /\ MoveTo(i, "looping", "left")
  /\ UNCHANGED <<ownerVars, sem, loop, quit>>

\* A threadFunc that leaves loop_ pointing to the loop on its stack.
ClearLoop_Forgotten(i) ==
  /\ MoveTo(i, "left", "cleared")
  /\ UNCHANGED <<ownerVars, sem, loop, quit>>

ClearLoop(i) ==
  /\ MoveTo(i, "left", "cleared")
  /\ loop' = [loop EXCEPT ![i] = FALSE]
  /\ UNCHANGED <<ownerVars, sem, quit>>

EndThread(i) ==
  /\ MoveTo(i, "cleared", "ended")
  /\ UNCHANGED <<ownerVars, sem, loop, quit>>

-----------------------------------------------------------------------------

StartStep == CreateThread \/ SemWait \/ StartLoopReturns

DestroyStep == ReadLoop \/ ReadNull \/ QuitLoop \/ WakeLoop \/ Join

ThreadStep(i) == \/ PostTid(i) \/ MakeLoop(i) \/ Publish(i) \/ EnterLoop(i)
                 \/ LeaveLoop(i) \/ ClearLoop(i) \/ EndThread(i)

Next == \/ StartStep \/ GetNextLoop \/ DestroyPool \/ DestroyStep
        \/ \E i \in Indices : ThreadStep(i) \/ SelfQuit(i)

\* Every thread that can go on does, and callback_ returns.  Nothing makes
\* the application assign connections, quit a loop or destroy the pool.
Spec == /\ Init
        /\ [][Next]_vars
        /\ WF_vars(StartStep)
        /\ WF_vars(DestroyStep)
        /\ \A i \in Indices : WF_vars(ThreadStep(i))

-----------------------------------------------------------------------------
(* Properties                                                              *)

\* Threads start() has finished with.
Started == IF owner \in {"start", "semWait", "condWait"} THEN 0..(cur - 1)
                                                         ELSE Indices

\* startLoop() has set the tid_ of a thread it is past sem_wait for, and
\* returns only loops on which callback_ has run.  A loop in loops_ lives
\* until ~EventLoopThread stops it, unless it quits by itself.
StartedIsReady ==
  /\ owner = "condWait" => place[cur] \notin {"none", "new"}
  /\ \A i \in Started : place[i] \notin {"none", "new", "started", "ready"}
  /\ \A i \in Started \ SelfQuitters :
       place[i] \in {"left", "cleared", "ended"}
         => i \in destroyed \/ (owner \in {"wake", "join", "crashed"} /\ i = cur)

\* An EventLoopThread is destroyed after its thread has ended, so threadFunc
\* never touches mutex_, cond_ or loop_ of an object that is gone, and quit()
\* is never called through a null loop_ -- unless the loop quit by itself.
ThreadEndsFirst ==
  /\ \A i \in destroyed \ SelfQuitters : place[i] = "ended"
  /\ owner = "quit" /\ cur \notin SelfQuitters => loop[cur]

\* getNextLoop() spreads connections evenly: the loops before next_ have had
\* one connection more than the others.
RoundRobin ==
  \A i \in Indices :
    assigned[i] = IF i < next THEN assigned[numThreads - 1] + 1
                              ELSE assigned[numThreads - 1]

\* A thread whose loop does not quit by itself is started in finite time.
StartEnds ==
  \A i \in Indices \ SelfQuitters :
    (owner = "start" /\ cur = i) ~> (i \in Started)

\* ~EventLoopThread returns when its loop was inside loop() as it began, but
\* for quit() on a loop that has gone already.
JoinEnds ==
  \A i \in Indices \ SelfQuitters :
    (owner = "destroy" /\ cur = i /\ place[i] = "looping")
      ~> (i \in destroyed \/ owner = "crashed")

\* quit() makes the loop's thread finish loop() (the comment on
\* EventLoop::quit), so a pool that is being destroyed is destroyed.
DestructionEnds == (owner = "destroy") ~> (owner \in {"gone", "crashed"})
=============================================================================
