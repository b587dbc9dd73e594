--------------------- MODULE EventLoopThreadPoolProofs ---------------------
(***************************************************************************)
(* Proofs about EventLoopThreadPool, for any number of threads and any set  *)
(* of loops that quit by themselves: the type invariant, that only loops    *)
(* that are ready are handed out, that no EventLoopThread is destroyed      *)
(* before its thread has ended, and that connections are spread evenly.     *)
(***************************************************************************)
EXTENDS EventLoopThreadPool, TLAPS

USE DEF ownerVars, threadVars, vars, Indices

-----------------------------------------------------------------------------
(* The inductive invariant                                                 *)

Starting == {"start", "semWait", "condWait"}
Stopping == {"destroy", "quit", "wake", "join", "crashed"}
Published == {"published", "looping", "left", "cleared", "ended"}
Past == {"left", "cleared", "ended"}

\* How far start() has come: the threads before cur are published, those after
\* it do not exist, and the semaphore says whether cur has set tid_.
StartProgress ==
  /\ owner \in Starting =>
       /\ cur \in Indices
       /\ destroyed = {}
       /\ \A i \in Indices : /\ i < cur => place[i] \in Published
                             /\ i > cur => place[i] = "none"
  /\ owner = "start" => place[cur] = "none"
  /\ owner = "semWait" => /\ place[cur] # "none"
                          /\ place[cur] = "new" <=> sem = 0
  /\ owner = "condWait" => place[cur] \notin {"none", "new"}

\* How far the destructor has come.
StopProgress ==
  /\ owner \notin Starting => \A i \in Indices : place[i] \in Published
  /\ owner = "serve" => destroyed = {}
  /\ owner \in Stopping => cur \in Indices /\ destroyed = 0..(cur - 1)

\* The owner has set quit_ of this loop.
WasStopped(i) ==
  i \in destroyed \/ (owner \in {"wake", "join", "crashed"} /\ i = cur)

\* A loop that does not quit by itself has quit_ set, or has returned, only if
\* the owner stopped it; and one that is destroyed has no thread any more.
StoppedByOwner ==
  \A i \in Indices \ SelfQuitters :
    /\ quit[i] \/ place[i] \in Past => WasStopped(i)
    /\ i \in destroyed => place[i] = "ended"

IInv == TypeOK /\ StartProgress /\ StopProgress /\ StoppedByOwner

LEMMA Initially == Init => IInv
<1> SUFFICES ASSUME Init PROVE IInv
  OBVIOUS
<1> USE PoolAssumption DEF Init
<1>1. TypeOK
  BY DEF TypeOK, OwnerPlaces, ThreadPlaces
<1>2. StartProgress /\ StopProgress
  BY DEF StartProgress, StopProgress, Starting, Stopping
<1>3. StoppedByOwner
  BY DEF StoppedByOwner, Past
<1> QED
  BY <1>1, <1>2, <1>3 DEF IInv

-----------------------------------------------------------------------------
(* The owner                                                               *)

LEMMA StartStepPreserves == IInv /\ StartStep => IInv'
<1> SUFFICES ASSUME IInv, StartStep PROVE IInv'
  OBVIOUS
<1> USE PoolAssumption DEF IInv, TypeOK, OwnerPlaces, ThreadPlaces, Starting,
        Stopping, Published, Past
<1>1. CASE CreateThread
  <2> USE <1>1 DEF CreateThread
  <2>1. cur \in Indices /\ place[cur] = "none"
    BY DEF StartProgress
  <2>2. TypeOK'
    BY <2>1
  <2>3. StartProgress'
    BY <2>1 DEF StartProgress
  <2>4. StopProgress'
    BY DEF StopProgress
  <2>5. StoppedByOwner'
    BY <2>1 DEF StoppedByOwner, WasStopped
  <2> QED
    BY <2>2, <2>3, <2>4, <2>5
<1>2. CASE SemWait
  <2> USE <1>2 DEF SemWait
  <2>1. TypeOK'
    OBVIOUS
  <2>2. StartProgress'
    BY DEF StartProgress
  <2>3. StopProgress'
    BY DEF StopProgress
  <2>4. StoppedByOwner'
    BY DEF StoppedByOwner, WasStopped
  <2> QED
    BY <2>1, <2>2, <2>3, <2>4
<1>3. CASE StartLoopReturns
  <2> USE <1>3 DEF StartLoopReturns
  <2>1. cur \in Indices /\ place[cur] \in Published
    BY DEF StartProgress
  <2>2. TypeOK'
    BY <2>1
  <2>3. StartProgress'
    BY <2>1 DEF StartProgress
  <2>4. StopProgress'
    BY <2>1 DEF StopProgress, StartProgress
  <2>5. StoppedByOwner'
    BY DEF StoppedByOwner, WasStopped
  <2> QED
    BY <2>2, <2>3, <2>4, <2>5
<1> QED
  BY <1>1, <1>2, <1>3 DEF StartStep

LEMMA ServePreserves == IInv /\ (GetNextLoop \/ DestroyPool) => IInv'
<1> SUFFICES ASSUME IInv, GetNextLoop \/ DestroyPool PROVE IInv'
  OBVIOUS
<1> USE PoolAssumption DEF IInv, TypeOK, OwnerPlaces, Starting, Stopping, Past
<1>1. TypeOK'
  <2>1. CASE GetNextLoop
    <3>1. assigned[next] + 1 \in 0..MaxAssigned
      BY <2>1 DEF GetNextLoop
    <3>2. assigned' \in [Indices -> 0..MaxAssigned] /\ next' \in Indices
      BY <2>1, <3>1 DEF GetNextLoop
    <3> QED
      BY <2>1, <3>2 DEF GetNextLoop
  <2>2. CASE DestroyPool
    BY <2>2 DEF DestroyPool
  <2> QED
    BY <2>1, <2>2
<1>2. StartProgress'
  BY DEF GetNextLoop, DestroyPool, StartProgress
<1>3. StopProgress'
  <2>1. 0..(0 - 1) = {}
    OBVIOUS
  <2>2. CASE GetNextLoop
    BY <2>2 DEF GetNextLoop, StopProgress
  <2>3. CASE DestroyPool
    BY <2>1, <2>3 DEF DestroyPool, StopProgress
  <2> QED
    BY <2>2, <2>3
<1>4. StoppedByOwner'
  BY DEF GetNextLoop, DestroyPool, StoppedByOwner, WasStopped
<1> QED
  BY <1>1, <1>2, <1>3, <1>4

\* The owner goes on to the next EventLoopThread only when the thread of this
\* one has ended, unless its loop quits by itself.
LEMMA DestroyedPreserves ==
  ASSUME IInv, owner \in Stopping, Destroyed,
         UNCHANGED <<threadVars, next, assigned>>,
         cur \in SelfQuitters \/ place[cur] = "ended"
  PROVE  IInv'
<1> USE PoolAssumption DEF IInv, TypeOK, OwnerPlaces, Starting, Stopping, Past
<1>1. cur \in Indices /\ destroyed = 0..(cur - 1) /\ destroyed' = 0..cur
  BY DEF StopProgress, Destroyed
<1>2. TypeOK'
  BY <1>1 DEF Destroyed
<1>3. StartProgress'
  BY DEF Destroyed, StartProgress
<1>4. StopProgress'
  BY <1>1 DEF Destroyed, StopProgress
<1>5. StoppedByOwner'
  BY <1>1 DEF Destroyed, StoppedByOwner, WasStopped
<1> QED
  BY <1>2, <1>3, <1>4, <1>5

\* While the owner is about to stop cur, cur's loop_ is set, unless its loop
\* quits by itself.
LEMMA NotStoppedYet ==
  ASSUME IInv, owner \in {"destroy", "quit"}, cur \notin SelfQuitters
  PROVE  loop[cur]
<1>1. cur \in Indices /\ destroyed = 0..(cur - 1)
  BY DEF IInv, StopProgress, Stopping
<1>2. ~WasStopped(cur)
  BY <1>1 DEF WasStopped
<1>3. place[cur] \in Published \ Past
  BY <1>1, <1>2
     DEF IInv, StoppedByOwner, StopProgress, Starting
<1> QED
  BY <1>1, <1>3 DEF IInv, TypeOK, Published, Past

LEMMA DestroyStepPreserves == IInv /\ DestroyStep => IInv'
<1> SUFFICES ASSUME IInv, DestroyStep PROVE IInv'
  OBVIOUS
<1>1. CASE ReadNull
  BY <1>1, NotStoppedYet, DestroyedPreserves DEF ReadNull, Stopping
<1>2. CASE Join
  BY <1>2, DestroyedPreserves DEF Join, Stopping
<1>3. CASE ReadLoop \/ QuitLoop \/ WakeLoop
  <2> USE <1>3, PoolAssumption
      DEF IInv, OwnerPlaces, Starting, Stopping, Past
  <2>1. cur \in Indices
    BY DEF StopProgress, ReadLoop, QuitLoop, WakeLoop
  <2>2. TypeOK'
    BY <2>1 DEF TypeOK, ReadLoop, QuitLoop, WakeLoop
  <2>3. StartProgress' /\ StopProgress'
    BY DEF StartProgress, StopProgress, ReadLoop, QuitLoop, WakeLoop
  <2>4. StoppedByOwner'
    BY <2>1 DEF TypeOK, StoppedByOwner, WasStopped, ReadLoop, QuitLoop, WakeLoop
  <2> QED
    BY <2>2, <2>3, <2>4
<1> QED
  BY <1>1, <1>2, <1>3 DEF DestroyStep

-----------------------------------------------------------------------------
(* The threads                                                             *)

\* A thread that goes on in threadFunc, and touches quit_ only to reset it.
LEMMA ThreadStepPreserves ==
  ASSUME IInv, NEW t \in Indices, ThreadStep(t)
  PROVE  IInv'
<1> USE PoolAssumption
<1>1. TypeOK /\ StartProgress /\ StopProgress /\ StoppedByOwner
  BY DEF IInv
<1>2. UNCHANGED ownerVars
  BY DEF ThreadStep, PostTid, MakeLoop, Publish, EnterLoop, LeaveLoop,
         ClearLoop, EndThread
<1>3. PICK to \in ThreadPlaces :
        /\ place' = [place EXCEPT ![t] = to]
        /\ \/ place[t] = "new" /\ to = "started"
           \/ place[t] = "started" /\ to = "ready"
           \/ place[t] = "ready" /\ to = "published"
           \/ place[t] = "published" /\ to = "looping"
           \/ place[t] = "looping" /\ to = "left" /\ quit[t]
           \/ place[t] = "left" /\ to = "cleared"
           \/ place[t] = "cleared" /\ to = "ended"
  BY DEF ThreadStep, PostTid, MakeLoop, Publish, EnterLoop, LeaveLoop,
         ClearLoop, EndThread, MoveTo, ThreadPlaces
<1>4. /\ quit' \in [Indices -> BOOLEAN]
      /\ \A i \in Indices : quit'[i] => quit[i]
  BY <1>1 DEF TypeOK, ThreadStep, PostTid, MakeLoop, Publish, EnterLoop,
              LeaveLoop, ClearLoop, EndThread
<1>5. sem' = IF place[t] = "new" THEN sem + 1 ELSE sem
  BY DEF ThreadStep, PostTid, MakeLoop, Publish, EnterLoop, LeaveLoop,
         ClearLoop, EndThread, MoveTo
<1>6. /\ loop' \in [Indices -> BOOLEAN]
      /\ \A i \in Indices :
           loop'[i] <=> place'[i] \in {"published", "looping", "left"}
  BY <1>1, <1>3 DEF TypeOK, ThreadStep, PostTid, MakeLoop, Publish, EnterLoop,
              LeaveLoop, ClearLoop, EndThread, MoveTo
<1>7. place[t] = "new" => owner = "semWait" /\ t = cur /\ sem = 0
  <2> SUFFICES ASSUME place[t] = "new"
               PROVE  owner = "semWait" /\ t = cur /\ sem = 0
    OBVIOUS
  <2>1. owner \in Starting
    BY <1>1 DEF StopProgress, Published
  <2>2. cur \in Indices /\ t = cur
    BY <1>1, <2>1 DEF StartProgress, Published
  <2> QED
    BY <1>1, <2>1, <2>2 DEF StartProgress, Starting
<1>8. TypeOK'
  <2>1. sem' \in 0..1
    BY <1>1, <1>5, <1>7 DEF TypeOK
  <2>2. place' \in [Indices -> ThreadPlaces]
    BY <1>1, <1>3 DEF TypeOK
  <2> QED
    BY <1>1, <1>2, <1>4, <1>6, <2>1, <2>2 DEF TypeOK
<1>9. StartProgress'
  BY <1>1, <1>2, <1>3, <1>5, <1>7
     DEF TypeOK, StartProgress, Starting, Published, ThreadPlaces
<1>10. StopProgress'
  BY <1>1, <1>2, <1>3 DEF TypeOK, StopProgress, Starting, Published
<1>11. StoppedByOwner'
  BY <1>1, <1>2, <1>3, <1>4
     DEF TypeOK, StoppedByOwner, WasStopped, Past
<1> QED
  BY <1>8, <1>9, <1>10, <1>11 DEF IInv

LEMMA SelfQuitPreserves ==
  ASSUME IInv, NEW t \in Indices, SelfQuit(t)
  PROVE  IInv'
<1> USE DEF IInv, SelfQuit
<1>1. TypeOK'
  BY DEF TypeOK
<1>2. StartProgress' /\ StopProgress'
  BY DEF StartProgress, StopProgress
<1>3. StoppedByOwner'
  BY DEF TypeOK, StoppedByOwner, WasStopped
<1> QED
  BY <1>1, <1>2, <1>3

LEMMA NextPreserves == IInv /\ [Next]_vars => IInv'
<1> SUFFICES ASSUME IInv, [Next]_vars PROVE IInv'
  OBVIOUS
<1>1. CASE UNCHANGED vars
  BY <1>1 DEF IInv, TypeOK, StartProgress, StopProgress, StoppedByOwner,
              WasStopped
<1> QED
  BY <1>1, StartStepPreserves, ServePreserves, DestroyStepPreserves,
     ThreadStepPreserves, SelfQuitPreserves DEF Next

-----------------------------------------------------------------------------
(* Theorems                                                                *)

\* IInv holds in every state of every behaviour.
THEOREM Invariance == Spec => []IInv
  BY Initially, NextPreserves, PTL DEF Spec

\* Every variable has its type, and loop_ is not null exactly from the time
\* threadFunc publishes the loop until it clears it.
THEOREM TypeCorrect == Spec => []TypeOK
<1>1. IInv => TypeOK
  BY DEF IInv
<1> QED
  BY <1>1, Invariance, PTL

\* EventLoopThreadPool::start and getNextLoop deal only in loops whose thread
\* has constructed them and run callback_, and such a loop is inside or on its
\* way into loop() until ~EventLoopThread stops it or it quits by itself.
THEOREM StartedReady == Spec => []StartedIsReady
<1>1. IInv => StartedIsReady
  <2> SUFFICES ASSUME IInv PROVE StartedIsReady
    OBVIOUS
  <2>1. owner = "condWait" => place[cur] \notin {"none", "new"}
    BY DEF IInv, StartProgress
  <2>2. ASSUME NEW i \in Started
        PROVE  i \in Indices /\ place[i] \in Published
    BY <2>2, PoolAssumption
       DEF IInv, TypeOK, Started, StartProgress, StopProgress, Starting
  <2>3. \A i \in Started \ SelfQuitters : place[i] \in Past => WasStopped(i)
    BY <2>2 DEF IInv, StoppedByOwner
  <2> QED
    BY <2>1, <2>2, <2>3 DEF StartedIsReady, WasStopped, Published, Past
<1> QED
  BY <1>1, Invariance, PTL

\* ~EventLoopThread has waited for its thread, and called quit() through a
\* loop_ that was not null, unless the loop quit by itself.
THEOREM ThreadsEndFirst == Spec => []ThreadEndsFirst
<1>1. IInv => ThreadEndsFirst
  BY NotStoppedYet DEF IInv, TypeOK, StoppedByOwner, ThreadEndsFirst
<1> QED
  BY <1>1, Invariance, PTL

\* getNextLoop() gives the loops before next_ one connection more than the
\* others, whatever the number of loops.
THEOREM SpreadEvenly == Spec => []RoundRobin
<1> USE PoolAssumption
<1>1. Init => RoundRobin
  BY DEF Init, RoundRobin
<1>2. TypeOK /\ RoundRobin /\ [Next]_vars => RoundRobin'
  <2> SUFFICES ASSUME TypeOK, RoundRobin, [Next]_vars PROVE RoundRobin'
    OBVIOUS
  <2>1. CASE GetNextLoop
    <3>1. next \in Indices /\ assigned[numThreads - 1] \in Nat
      BY DEF TypeOK
    <3>2. assigned' = [assigned EXCEPT ![next] = assigned[numThreads - 1] + 1]
      <4>1. assigned[next] = assigned[numThreads - 1]
        BY <3>1 DEF RoundRobin
      <4> QED
        BY <2>1, <4>1 DEF GetNextLoop
    <3>3. CASE next = numThreads - 1
      <4>1. next' = 0
        BY <2>1, <3>3 DEF GetNextLoop
      <4>2. \A i \in Indices : assigned'[i] = assigned[numThreads - 1] + 1
        BY <3>1, <3>2, <3>3 DEF RoundRobin, TypeOK
      <4> QED
        BY <4>1, <4>2 DEF RoundRobin
    <3>4. CASE next # numThreads - 1
      <4>1. next' = next + 1 /\ next' \in Indices
        BY <2>1, <3>1, <3>4 DEF GetNextLoop
      <4>2. assigned'[numThreads - 1] = assigned[numThreads - 1]
        BY <3>1, <3>2, <3>4 DEF TypeOK
      <4> QED
        BY <3>1, <3>2, <4>1, <4>2 DEF RoundRobin, TypeOK
    <3> QED
      BY <3>3, <3>4
  <2>2. CASE UNCHANGED <<next, assigned>>
    BY <2>2 DEF RoundRobin
  <2>3. [Next]_vars => GetNextLoop \/ UNCHANGED <<next, assigned>>
    BY DEF Next, StartStep, CreateThread, SemWait, StartLoopReturns,
           DestroyPool, DestroyStep, ReadLoop, ReadNull, QuitLoop, WakeLoop,
           Join, ThreadStep, PostTid, MakeLoop, Publish, EnterLoop, LeaveLoop,
           ClearLoop, EndThread, SelfQuit
  <2> QED
    BY <2>1, <2>2, <2>3
<1> QED
  BY <1>1, <1>2, TypeCorrect, PTL DEF Spec
=============================================================================
