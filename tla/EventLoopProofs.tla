-------------------------- MODULE EventLoopProofs --------------------------
(***************************************************************************)
(* Proofs about EventLoop, for any set of threads, channels and callbacks: *)
(* the type invariant, that no wakeup is lost, that quit() wakes the poll, *)
(* and that the loop implements TaskQueue.                                 *)
(***************************************************************************)
EXTENDS EventLoop, TLAPS, SequenceTheorems

USE DEF userVars

-----------------------------------------------------------------------------
(* Sequences                                                               *)

LEMMA ElementsAppend ==
  ASSUME NEW S, NEW s \in Seq(S), NEW e \in S
  PROVE  Elements(Append(s, e)) = Elements(s) \cup {e}
<1> DEFINE u == Append(s, e)
<1>1. /\ Len(s) \in Nat
      /\ Len(u) = Len(s) + 1
      /\ \A i \in 1..Len(s) : u[i] = s[i]
      /\ u[Len(s) + 1] = e
  BY AppendProperties, LenProperties
<1>2. ASSUME NEW x \in Elements(u) PROVE x \in Elements(s) \cup {e}
  <2>1. PICK i \in 1..Len(u) : x = u[i]
    BY <1>2 DEF Elements
  <2>2. CASE i \in 1..Len(s)
    BY <1>1, <2>1, <2>2 DEF Elements
  <2>3. CASE i = Len(s) + 1
    BY <1>1, <2>1, <2>3
  <2> QED
    BY <1>1, <2>2, <2>3
<1>3. ASSUME NEW x \in Elements(s) \cup {e} PROVE x \in Elements(u)
  <2>1. CASE x = e
    <3>1. Len(s) + 1 \in 1..Len(u)
      BY <1>1
    <3> QED
      BY <1>1, <2>1, <3>1 DEF Elements
  <2>2. CASE x \in Elements(s)
    <3>1. PICK i \in 1..Len(s) : x = s[i]
      BY <2>2 DEF Elements
    <3>2. i \in 1..Len(u) /\ x = u[i]
      BY <1>1, <3>1
    <3> QED
      BY <3>2 DEF Elements
  <2> QED
    BY <1>3, <2>1, <2>2
<1> QED
  BY <1>2, <1>3

LEMMA ElementsEmpty == Elements(<<>>) = {}
BY DEF Elements

LEMMA ElementsHeadTail ==
  ASSUME NEW S, NEW s \in Seq(S), s # <<>>
  PROVE  Elements(Tail(s)) \subseteq Elements(s)
<1>1. /\ Len(s) \in Nat \ {0}
      /\ Len(Tail(s)) = Len(s) - 1
      /\ \A i \in 1..Len(Tail(s)) : Tail(s)[i] = s[i + 1]
  BY HeadTailProperties, EmptySeq, LenProperties
<1> SUFFICES ASSUME NEW i \in 1..Len(Tail(s))
             PROVE  Tail(s)[i] \in Elements(s)
  BY DEF Elements
<1>2. i + 1 \in 1..Len(s)
  BY <1>1
<1> QED
  BY <1>1, <1>2 DEF Elements

LEMMA ElementsConcat ==
  ASSUME NEW S, NEW s \in Seq(S), NEW t \in Seq(S)
  PROVE  Elements(s \o t) \subseteq Elements(s) \cup Elements(t)
<1>1. /\ Len(s) \in Nat
      /\ Len(t) \in Nat
      /\ Len(s \o t) = Len(s) + Len(t)
      /\ \A i \in 1..(Len(s) + Len(t)) :
           (s \o t)[i] = IF i <= Len(s) THEN s[i] ELSE t[i - Len(s)]
  BY ConcatProperties, LenProperties
<1> SUFFICES ASSUME NEW i \in 1..Len(s \o t)
             PROVE  (s \o t)[i] \in Elements(s) \cup Elements(t)
  BY DEF Elements
<1>2. CASE i <= Len(s)
  <2>1. i \in 1..Len(s) /\ (s \o t)[i] = s[i]
    BY <1>1, <1>2
  <2> QED
    BY <2>1 DEF Elements
<1>3. CASE ~(i <= Len(s))
  <2>1. i - Len(s) \in 1..Len(t) /\ (s \o t)[i] = t[i - Len(s)]
    BY <1>1, <1>3
  <2> QED
    BY <2>1 DEF Elements
<1> QED
  BY <1>2, <1>3

\* Handing over a callback extends the whole queue at its end.
LEMMA ConcatAppend ==
  ASSUME NEW S, NEW s \in Seq(S), NEW t \in Seq(S), NEW e \in S
  PROVE  s \o Append(t, e) = Append(s \o t, e)
<1>1. /\ Append(t, e) \in Seq(S)
      /\ Len(Append(t, e)) = Len(t) + 1
      /\ \A i \in 1..Len(t) : Append(t, e)[i] = t[i]
      /\ Append(t, e)[Len(t) + 1] = e
  BY AppendProperties
<1>2. /\ s \o t \in Seq(S)
      /\ Len(s \o t) = Len(s) + Len(t)
      /\ \A i \in 1..(Len(s) + Len(t)) :
           (s \o t)[i] = IF i <= Len(s) THEN s[i] ELSE t[i - Len(s)]
  BY ConcatProperties
<1>3. /\ s \o Append(t, e) \in Seq(S)
      /\ Len(s \o Append(t, e)) = Len(s) + (Len(t) + 1)
      /\ \A i \in 1..(Len(s) + (Len(t) + 1)) :
           (s \o Append(t, e))[i] =
              IF i <= Len(s) THEN s[i] ELSE Append(t, e)[i - Len(s)]
  BY <1>1, ConcatProperties
<1>4. /\ Append(s \o t, e) \in Seq(S)
      /\ Len(Append(s \o t, e)) = Len(s \o t) + 1
      /\ \A i \in 1..Len(s \o t) : Append(s \o t, e)[i] = (s \o t)[i]
      /\ Append(s \o t, e)[Len(s \o t) + 1] = e
  BY <1>2, AppendProperties
<1>5. Len(s) \in Nat /\ Len(t) \in Nat
  BY LenProperties
<1>6. ASSUME NEW i \in 1..Len(s \o Append(t, e))
      PROVE  (s \o Append(t, e))[i] = Append(s \o t, e)[i]
  <2>1. CASE i <= Len(s)
    BY <1>2, <1>3, <1>4, <1>5, <2>1
  <2>2. CASE i > Len(s) /\ i <= Len(s) + Len(t)
    <3>1. i - Len(s) \in 1..Len(t)
      BY <1>5, <2>2
    <3> QED
      BY <1>1, <1>2, <1>3, <1>4, <1>5, <2>2, <3>1
  <2>3. CASE i = Len(s) + Len(t) + 1
    BY <1>1, <1>2, <1>3, <1>4, <1>5, <2>3
  <2> QED
    BY <1>3, <1>5, <2>1, <2>2, <2>3
<1>7. Len(s \o Append(t, e)) = Len(Append(s \o t, e))
  BY <1>2, <1>3, <1>4, <1>5
<1> QED
  BY <1>3, <1>4, <1>6, <1>7, SeqEqual

\* Finishing a callback of the batch takes the head of the whole queue.
LEMMA ConcatHeadTail ==
  ASSUME NEW S, NEW s \in Seq(S), NEW t \in Seq(S), s # <<>>
  PROVE  /\ s \o t # <<>>
         /\ Head(s \o t) = Head(s)
         /\ Tail(s \o t) = Tail(s) \o t
<1>1. /\ Len(s) \in Nat \ {0}
      /\ Len(t) \in Nat
  BY EmptySeq, LenProperties
<1>2. /\ s \o t \in Seq(S)
      /\ Len(s \o t) = Len(s) + Len(t)
      /\ \A i \in 1..(Len(s) + Len(t)) :
           (s \o t)[i] = IF i <= Len(s) THEN s[i] ELSE t[i - Len(s)]
  BY ConcatProperties
<1>3. s \o t # <<>>
  BY <1>1, <1>2, EmptySeq
<1>4. Head(s \o t) = Head(s)
  <2>1. (s \o t)[1] = s[1]
    BY <1>1, <1>2
  <2> QED
    BY <2>1, <1>2, <1>3
<1>5. /\ Tail(s) \in Seq(S)
      /\ Len(Tail(s)) = Len(s) - 1
      /\ \A i \in 1..Len(Tail(s)) : Tail(s)[i] = s[i + 1]
  BY HeadTailProperties
<1>6. /\ Tail(s \o t) \in Seq(S)
      /\ Len(Tail(s \o t)) = Len(s \o t) - 1
      /\ \A i \in 1..Len(Tail(s \o t)) : Tail(s \o t)[i] = (s \o t)[i + 1]
  BY <1>2, <1>3, HeadTailProperties
<1>7. /\ Tail(s) \o t \in Seq(S)
      /\ Len(Tail(s) \o t) = (Len(s) - 1) + Len(t)
      /\ \A i \in 1..((Len(s) - 1) + Len(t)) :
           (Tail(s) \o t)[i] =
              IF i <= Len(s) - 1 THEN Tail(s)[i] ELSE t[i - (Len(s) - 1)]
  BY <1>5, ConcatProperties
<1>8. ASSUME NEW i \in 1..Len(Tail(s \o t))
      PROVE  Tail(s \o t)[i] = (Tail(s) \o t)[i]
  <2>1. i \in 1..((Len(s) - 1) + Len(t)) /\ i + 1 \in 1..(Len(s) + Len(t))
    BY <1>1, <1>2, <1>6
  <2>2. CASE i <= Len(s) - 1
    BY <1>1, <1>2, <1>5, <1>6, <1>7, <2>1, <2>2
  <2>3. CASE ~(i <= Len(s) - 1)
    <3>1. (i + 1) - Len(s) = i - (Len(s) - 1)
      BY <1>1
    <3> QED
      BY <1>1, <1>2, <1>6, <1>7, <2>1, <2>3, <3>1
  <2> QED
    BY <2>2, <2>3
<1>9. Len(Tail(s \o t)) = Len(Tail(s) \o t)
  BY <1>1, <1>2, <1>6, <1>7
<1>10. Tail(s \o t) = Tail(s) \o t
  BY <1>6, <1>7, <1>8, <1>9, SeqEqual
<1> QED
  BY <1>3, <1>4, <1>10

-----------------------------------------------------------------------------
(* A step of the loop is one of its actions                                *)

LEMMA NextCases ==
  ASSUME NEW ACTION P,
         StartLoop => P,
         CheckQuit => P,
         \A ready \in SUBSET (Channels \cup {WakeupChannel}) :
           PollReturns(ready) => P,
         HandleWakeup => P,
         \A c \in Channels : HandleChannel(c) => P,
         EndCallback => P,
         SwapPending => P,
         FinishFunctor => P,
         EndBatch => P,
         \A f \in Functors : RunHere(f) => P,
         \A t \in Callers, f \in Functors : QueueInLoop(t, f) => P,
         \A t \in Callers : FinishQueue(t) => P,
         \A t \in Callers : Quit(t) => P,
         \A t \in Callers : FinishQuit(t) => P,
         UNCHANGED vars => P,
         [Next]_vars
  PROVE  P
<1>1. PollWoken \/ PollIO \/ PollTimeout
        => \E ready \in SUBSET (Channels \cup {WakeupChannel}) :
             PollReturns(ready)
  <2>1. PollWoken => \E ready \in SUBSET (Channels \cup {WakeupChannel}) :
                       PollReturns(ready)
    BY DEF PollWoken
  <2>2. PollIO => \E ready \in SUBSET (Channels \cup {WakeupChannel}) :
                    PollReturns(ready)
    BY DEF PollIO
  <2>3. PollTimeout => \E ready \in SUBSET (Channels \cup {WakeupChannel}) :
                         PollReturns(ready)
    BY DEF PollTimeout
  <2> QED
    BY <2>1, <2>2, <2>3
<1> QED
  BY <1>1 DEF Next, LoopStep, HandleOne, CallStep, UserStep

-----------------------------------------------------------------------------
(* Types                                                                   *)

\* Every variable keeps its type, looping_ says where loop() is, and
\* callingPendingFunctors_ says whether a batch is being run.
THEOREM TypeCorrect == Spec => []TypeOK
<1>1. Init => TypeOK
  <2> SUFFICES ASSUME Init PROVE TypeOK
    OBVIOUS
  <2>1. call[LoopThread] = "idle" /\ call \in [Callers -> {"idle", "pushed", "quitting"}]
    BY DEF Init, Callers
  <2>2. <<>> \in Seq(Functors)
    BY EmptySeq
  <2> QED
    BY <2>1, <2>2 DEF Init, TypeOK, Places
<1>2. TypeOK /\ [Next]_vars => TypeOK'
  <2> SUFFICES ASSUME TypeOK, [Next]_vars
               PROVE  TypeOK'
    OBVIOUS
  <2> USE EventLoopAssumption
  <2>1. StartLoop => TypeOK'
    BY DEF TypeOK, Places, Callers, loopVars, LoopIsAt, InUserCode, StartLoop
  <2>2. CheckQuit => TypeOK'
    BY DEF TypeOK, Places, Callers, loopVars, LoopIsAt, InUserCode, CheckQuit
  <2>3. ASSUME NEW ready \in SUBSET (Channels \cup {WakeupChannel}), PollReturns(ready) PROVE TypeOK'
    BY <2>3 DEF TypeOK, Places, Callers, loopVars, LoopIsAt, InUserCode, PollReturns
  <2>4. HandleWakeup => TypeOK'
    BY DEF TypeOK, Places, Callers, loopVars, LoopIsAt, InUserCode, HandleWakeup
  <2>5. ASSUME NEW c \in Channels, HandleChannel(c) PROVE TypeOK'
    BY <2>5 DEF TypeOK, Places, Callers, loopVars, LoopIsAt, InUserCode, HandleChannel
  <2>6. EndCallback => TypeOK'
    BY DEF TypeOK, Places, Callers, loopVars, LoopIsAt, InUserCode, EndCallback
  <2>7. SwapPending => TypeOK'
    BY EmptySeq DEF TypeOK, Places, Callers, loopVars, LoopIsAt, InUserCode, SwapPending
  <2>8. FinishFunctor => TypeOK'
    BY HeadTailProperties DEF TypeOK, Places, Callers, loopVars, LoopIsAt, InUserCode, FinishFunctor
  <2>9. EndBatch => TypeOK'
    BY DEF TypeOK, Places, Callers, loopVars, LoopIsAt, InUserCode, EndBatch
  <2>10. ASSUME NEW f \in Functors, RunHere(f) PROVE TypeOK'
    BY <2>10 DEF TypeOK, Places, Callers, loopVars, LoopIsAt, InUserCode, RunHere
  <2>11. ASSUME NEW t \in Callers, NEW f \in Functors, QueueInLoop(t, f) PROVE TypeOK'
    BY <2>11, AppendProperties DEF TypeOK, Places, Callers, loopVars, LoopIsAt, InUserCode, QueueInLoop
  <2>12. ASSUME NEW t \in Callers, FinishQueue(t) PROVE TypeOK'
    BY <2>12 DEF TypeOK, Places, Callers, loopVars, LoopIsAt, InUserCode, FinishQueue
  <2>13. ASSUME NEW t \in Callers, Quit(t) PROVE TypeOK'
    BY <2>13 DEF TypeOK, Places, Callers, loopVars, LoopIsAt, InUserCode, Quit
  <2>14. ASSUME NEW t \in Callers, FinishQuit(t) PROVE TypeOK'
    BY <2>14 DEF TypeOK, Places, Callers, loopVars, LoopIsAt, InUserCode, FinishQuit
  <2>15. UNCHANGED vars => TypeOK'
    BY DEF TypeOK, vars, loopVars
  <2> QED
    BY <2>1, <2>2, <2>3, <2>4, <2>5, <2>6, <2>7, <2>8, <2>9, <2>10, <2>11, <2>12, <2>13, <2>14, <2>15, NextCases
<1> QED
  BY <1>1, <1>2, PTL DEF Spec

-----------------------------------------------------------------------------
(* Wakeups                                                                 *)

\* Work that nobody will announce any more is work the loop's thread queued
\* before loop().  Between the poll and the swap of the next batch the loop
\* may have emptied the eventfd, but it will look at the queue; inside a
\* batch its own thread may be about to write the eventfd.
Announced ==
  \/ pc \in {"handle", "callback", "exited"}
  \/ eventfd > 0
  \/ \E t \in Threads : call[t] = "pushed"
  \/ pc = "run" /\ call[LoopThread] = "pushed"
  \/ Elements(pendingFunctors) \subseteq beforeLoop

LEMMA AnnouncedInv == Spec => []Announced
<1>1. Init => Announced
  BY ElementsEmpty DEF Init, Announced
<1>2. TypeOK /\ Announced /\ [Next]_vars => Announced'
  <2> SUFFICES ASSUME TypeOK, Announced, [Next]_vars
               PROVE  Announced'
    OBVIOUS
  <2> USE EventLoopAssumption
  <2>1. ASSUME StartLoop PROVE Announced'
    BY <2>1 DEF TypeOK, Announced, LoopIsAt, Callers, loopVars, StartLoop
  <2>2. ASSUME CheckQuit PROVE Announced'
    BY <2>2 DEF TypeOK, Announced, LoopIsAt, Callers, loopVars, CheckQuit
  <2>3. ASSUME NEW ready \in SUBSET (Channels \cup {WakeupChannel}), PollReturns(ready)
         PROVE  Announced'
    BY <2>3 DEF TypeOK, Announced, LoopIsAt, Callers, loopVars, PollReturns
  <2>4. ASSUME HandleWakeup PROVE Announced'
    BY <2>4 DEF TypeOK, Announced, LoopIsAt, Callers, loopVars, HandleWakeup
  <2>5. ASSUME NEW c \in Channels, HandleChannel(c)
         PROVE  Announced'
    BY <2>5 DEF TypeOK, Announced, LoopIsAt, Callers, loopVars, HandleChannel
  <2>6. ASSUME EndCallback PROVE Announced'
    BY <2>6 DEF TypeOK, Announced, LoopIsAt, Callers, loopVars, EndCallback
  <2>7. ASSUME SwapPending PROVE Announced'
    BY <2>7, ElementsEmpty DEF SwapPending, Announced
  <2>8. ASSUME FinishFunctor PROVE Announced'
    BY <2>8 DEF TypeOK, Announced, LoopIsAt, Callers, loopVars, FinishFunctor
  <2>9. ASSUME EndBatch PROVE Announced'
    BY <2>9 DEF TypeOK, Announced, LoopIsAt, Callers, loopVars, EndBatch
  <2>10. ASSUME NEW f \in Functors, RunHere(f)
         PROVE  Announced'
    BY <2>10 DEF TypeOK, Announced, LoopIsAt, Callers, loopVars, RunHere
  <2>11. ASSUME NEW t \in Callers, NEW f \in Functors, QueueInLoop(t, f)
         PROVE  Announced'
    <3>1. CASE t \in Threads
      BY <2>11, <3>1 DEF TypeOK, Announced, Callers, QueueInLoop
    <3>2. CASE t = LoopThread /\ pc = "run"
      BY <2>11, <3>2 DEF TypeOK, Announced, Callers, QueueInLoop
    <3>3. CASE t = LoopThread /\ pc \in {"callback", "exited"}
      BY <2>11, <3>3 DEF Announced, QueueInLoop
    <3>4. CASE t = LoopThread /\ pc = "init"
      <4>1. /\ Elements(pendingFunctors') = Elements(pendingFunctors) \cup {f}
            /\ beforeLoop' = beforeLoop \cup {f}
        BY <2>11, <3>4, ElementsAppend DEF TypeOK, QueueInLoop
      <4>2. \A u \in Threads : call'[u] = call[u]
        BY <2>11, <3>4 DEF TypeOK, Callers, QueueInLoop
      <4> QED
        BY <2>11, <3>4, <4>1, <4>2 DEF Announced, QueueInLoop
    <3> QED
      BY <2>11, <3>1, <3>2, <3>3, <3>4 DEF Callers, QueueInLoop, InUserCode
  <2>12. ASSUME NEW t \in Callers, FinishQueue(t)
         PROVE  Announced'
    <3>1. CASE NeedsWakeup(t)
      BY <2>12, <3>1 DEF TypeOK, Announced, FinishQueue
    <3>2. CASE ~NeedsWakeup(t)
      <4>1. t = LoopThread /\ pc # "run"
        BY <3>2 DEF NeedsWakeup, TypeOK
      <4>2. \A u \in Threads : call'[u] = call[u]
        BY <2>12, <4>1 DEF TypeOK, Callers, FinishQueue
      <4> QED
        BY <2>12, <3>2, <4>1, <4>2 DEF Announced, FinishQueue
    <3> QED
      BY <3>1, <3>2
  <2>13. ASSUME NEW t \in Callers, Quit(t)
         PROVE  Announced'
    <3>1. \A u \in Callers : call[u] = "pushed" => call'[u] = "pushed"
      BY <2>13 DEF TypeOK, Quit, InUserCode
    <3> QED
      BY <2>13, <3>1 DEF TypeOK, Announced, Callers, Quit
  <2>14. ASSUME NEW t \in Callers, FinishQuit(t)
         PROVE  Announced'
    <3>1. \A u \in Callers : call[u] = "pushed" => call'[u] = "pushed"
      BY <2>14 DEF TypeOK, FinishQuit
    <3> QED
      BY <2>14, <3>1 DEF TypeOK, Announced, Callers, FinishQuit
  <2>15. ASSUME UNCHANGED vars PROVE Announced'
    BY <2>15 DEF Announced, vars, loopVars
  <2> QED
    BY <2>1, <2>2, <2>3, <2>4, <2>5, <2>6, <2>7, <2>8, <2>9, <2>10, <2>11, <2>12, <2>13, <2>14, <2>15, NextCases
<1> QED
  BY <1>1, <1>2, TypeCorrect, PTL DEF Spec

\* A loop that waits in epoll_wait has no callback waiting for which no
\* eventfd write was made or is about to be made: the condition for wakeup()
\* in EventLoop::queueInLoop is enough, in every interleaving.
THEOREM WakeupSafe == Spec => []NoLostWakeup
<1>1. TypeOK /\ Announced => NoLostWakeup
  BY EventLoopAssumption DEF TypeOK, Announced, NoLostWakeup, Callers
<1> QED
  BY <1>1, TypeCorrect, AnnouncedInv, PTL

-----------------------------------------------------------------------------
(* Quitting                                                                *)

\* EventLoop::quit never leaves a polling loop asleep.
THEOREM QuitSafe == Spec => []QuitWakesPoll
<1>1. Init => QuitWakesPoll
  BY DEF Init, QuitWakesPoll
<1>2. TypeOK /\ QuitWakesPoll /\ [Next]_vars => QuitWakesPoll'
  <2> SUFFICES ASSUME TypeOK, QuitWakesPoll, [Next]_vars
               PROVE  QuitWakesPoll'
    OBVIOUS
  <2> USE EventLoopAssumption
  <2>1. ASSUME StartLoop PROVE QuitWakesPoll'
    BY <2>1 DEF TypeOK, QuitWakesPoll, Callers, loopVars, StartLoop
  <2>2. ASSUME CheckQuit PROVE QuitWakesPoll'
    BY <2>2 DEF TypeOK, QuitWakesPoll, Callers, loopVars, CheckQuit
  <2>3. ASSUME NEW ready \in SUBSET (Channels \cup {WakeupChannel}), PollReturns(ready)
         PROVE  QuitWakesPoll'
    BY <2>3 DEF TypeOK, QuitWakesPoll, Callers, loopVars, PollReturns
  <2>4. ASSUME HandleWakeup PROVE QuitWakesPoll'
    BY <2>4 DEF TypeOK, QuitWakesPoll, Callers, loopVars, HandleWakeup
  <2>5. ASSUME NEW c \in Channels, HandleChannel(c)
         PROVE  QuitWakesPoll'
    BY <2>5 DEF TypeOK, QuitWakesPoll, Callers, loopVars, HandleChannel
  <2>6. ASSUME EndCallback PROVE QuitWakesPoll'
    BY <2>6 DEF TypeOK, QuitWakesPoll, Callers, loopVars, EndCallback
  <2>7. ASSUME SwapPending PROVE QuitWakesPoll'
    BY <2>7 DEF TypeOK, QuitWakesPoll, Callers, loopVars, SwapPending
  <2>8. ASSUME FinishFunctor PROVE QuitWakesPoll'
    BY <2>8 DEF TypeOK, QuitWakesPoll, Callers, loopVars, FinishFunctor
  <2>9. ASSUME EndBatch PROVE QuitWakesPoll'
    BY <2>9 DEF TypeOK, QuitWakesPoll, Callers, loopVars, EndBatch
  <2>10. ASSUME NEW f \in Functors, RunHere(f)
         PROVE  QuitWakesPoll'
    BY <2>10 DEF TypeOK, QuitWakesPoll, Callers, loopVars, RunHere
  <2>11. ASSUME NEW t \in Callers, NEW f \in Functors, QueueInLoop(t, f)
         PROVE  QuitWakesPoll'
    <3>1. \A u \in Callers : call[u] = "quitting" => call'[u] = "quitting"
      BY <2>11 DEF TypeOK, QueueInLoop, InUserCode
    <3> QED
      BY <2>11, <3>1 DEF TypeOK, QuitWakesPoll, QueueInLoop
  <2>12. ASSUME NEW t \in Callers, FinishQueue(t)
         PROVE  QuitWakesPoll'
    <3>1. \A u \in Callers : call[u] = "quitting" => call'[u] = "quitting"
      BY <2>12 DEF TypeOK, FinishQueue
    <3> QED
      BY <2>12, <3>1 DEF TypeOK, QuitWakesPoll, FinishQueue
  <2>13. ASSUME NEW t \in Callers, Quit(t)
         PROVE  QuitWakesPoll'
    BY <2>13 DEF TypeOK, QuitWakesPoll, Callers, loopVars, Quit
  <2>14. ASSUME NEW t \in Callers, FinishQuit(t)
         PROVE  QuitWakesPoll'
    <3>1. pc = "poll" => t # LoopThread
      BY <2>14 DEF TypeOK, FinishQuit
    <3> QED
      BY <2>14, <3>1 DEF TypeOK, QuitWakesPoll, FinishQuit
  <2>15. ASSUME UNCHANGED vars PROVE QuitWakesPoll'
    BY <2>15 DEF QuitWakesPoll, vars, loopVars
  <2> QED
    BY <2>1, <2>2, <2>3, <2>4, <2>5, <2>6, <2>7, <2>8, <2>9, <2>10, <2>11, <2>12, <2>13, <2>14, <2>15, NextCases
<1> QED
  BY <1>1, <1>2, TypeCorrect, PTL DEF Spec

-----------------------------------------------------------------------------
(* The loop implements TaskQueue                                           *)

\* A callback nobody has handed over is nowhere in the loop, and only a loop
\* inside doPendingFunctors holds a batch.
Handover ==
  /\ fresh \cap (Elements(functors) \cup Elements(pendingFunctors) \cup done) = {}
  /\ pc # "run" => functors = <<>>

LEMMA HandoverInv == Spec => []Handover
<1>1. Init => Handover
  BY ElementsEmpty DEF Init, Handover
<1>2. TypeOK /\ Handover /\ [Next]_vars => Handover'
  <2> SUFFICES ASSUME TypeOK, Handover, [Next]_vars
               PROVE  Handover'
    OBVIOUS
  <2>1. ASSUME StartLoop PROVE Handover'
    BY <2>1 DEF Handover, LoopIsAt, loopVars, StartLoop
  <2>2. ASSUME CheckQuit PROVE Handover'
    BY <2>2 DEF Handover, LoopIsAt, loopVars, CheckQuit
  <2>3. ASSUME NEW ready \in SUBSET (Channels \cup {WakeupChannel}), PollReturns(ready)
         PROVE  Handover'
    BY <2>3 DEF Handover, LoopIsAt, loopVars, PollReturns
  <2>4. ASSUME HandleWakeup PROVE Handover'
    BY <2>4 DEF Handover, LoopIsAt, loopVars, HandleWakeup
  <2>5. ASSUME NEW c \in Channels, HandleChannel(c)
         PROVE  Handover'
    BY <2>5 DEF Handover, LoopIsAt, loopVars, HandleChannel
  <2>6. ASSUME EndCallback PROVE Handover'
    BY <2>6 DEF Handover, LoopIsAt, loopVars, EndCallback
  <2>7. ASSUME SwapPending PROVE Handover'
    BY <2>7, ElementsEmpty DEF SwapPending, Handover
  <2>8. ASSUME FinishFunctor PROVE Handover'
    <3>1. /\ Elements(functors') \subseteq Elements(functors)
          /\ Head(functors) \in Elements(functors)
      <4>1. functors \in Seq(Functors) /\ functors # <<>>
        BY <2>8 DEF TypeOK, FinishFunctor
      <4>2. 1 \in 1..Len(functors) /\ Head(functors) = functors[1]
        BY <4>1, EmptySeq
      <4> QED
        BY <2>8, <4>1, <4>2, ElementsHeadTail DEF Elements, FinishFunctor
    <3> QED
      BY <2>8, <3>1 DEF Handover, FinishFunctor, LoopIsAt
  <2>9. ASSUME EndBatch PROVE Handover'
    BY <2>9 DEF Handover, LoopIsAt, loopVars, EndBatch
  <2>10. ASSUME NEW f \in Functors, RunHere(f)
         PROVE  Handover'
    BY <2>10 DEF Handover, LoopIsAt, loopVars, RunHere
  <2>11. ASSUME NEW t \in Callers, NEW f \in Functors, QueueInLoop(t, f)
         PROVE  Handover'
    <3>1. Elements(pendingFunctors') = Elements(pendingFunctors) \cup {f}
      BY <2>11, ElementsAppend DEF TypeOK, QueueInLoop
    <3> QED
      BY <2>11, <3>1 DEF Handover, QueueInLoop
  <2>12. ASSUME NEW t \in Callers, FinishQueue(t)
         PROVE  Handover'
    BY <2>12 DEF Handover, LoopIsAt, loopVars, FinishQueue
  <2>13. ASSUME NEW t \in Callers, Quit(t)
         PROVE  Handover'
    BY <2>13 DEF Handover, LoopIsAt, loopVars, Quit
  <2>14. ASSUME NEW t \in Callers, FinishQuit(t)
         PROVE  Handover'
    BY <2>14 DEF Handover, LoopIsAt, loopVars, FinishQuit
  <2>15. ASSUME UNCHANGED vars PROVE Handover'
    BY <2>15 DEF Handover, vars, loopVars
  <2> QED
    BY <2>1, <2>2, <2>3, <2>4, <2>5, <2>6, <2>7, <2>8, <2>9, <2>10, <2>11, <2>12, <2>13, <2>14, <2>15, NextCases
<1> QED
  BY <1>1, <1>2, TypeCorrect, PTL DEF Spec

LEMMA FreshIsUnqueued ==
  ASSUME TypeOK, Handover, NEW f \in fresh
  PROVE  TQ!Fresh(f)
<1>1. f \notin Elements(functors \o pendingFunctors)
  BY ElementsConcat DEF TypeOK, Handover
<1> QED
  BY <1>1 DEF TQ!Fresh, TQ!Queued, Elements, Handover

\* The batch being run followed by the callbacks queued since behaves like
\* one queue: callbacks run once each, those that were queued in the order
\* in which they were queued, whatever batches the swaps cut them into.
THEOREM ImplementsTaskQueue == Spec => RefinesTaskQueue
<1>1. Init => TQ!Init
  BY EmptySeq, ConcatEmptySeq DEF Init, TQ!Init
<1>2. TypeOK /\ Handover /\ [Next]_vars => [TQ!Next]_(TQ!vars)
  <2> SUFFICES ASSUME TypeOK, Handover, [Next]_vars
               PROVE  [TQ!Next]_(TQ!vars)
    OBVIOUS
  <2>1. ASSUME StartLoop PROVE [TQ!Next]_(TQ!vars)
    BY <2>1 DEF LoopIsAt, TQ!vars, StartLoop
  <2>2. ASSUME CheckQuit PROVE [TQ!Next]_(TQ!vars)
    <3>1. UNCHANGED <<functors, pendingFunctors, done>>
      BY <2>2 DEF CheckQuit
    <3>2. CASE pc' = "exited"
      BY <3>1, <3>2 DEF TQ!Next, TQ!Stop
    <3>3. CASE pc' = "poll"
      BY <2>2, <3>1, <3>3 DEF CheckQuit, TQ!vars
    <3> QED
      BY <2>2, <3>2, <3>3 DEF CheckQuit
  <2>3. ASSUME NEW ready \in SUBSET (Channels \cup {WakeupChannel}), PollReturns(ready)
         PROVE  [TQ!Next]_(TQ!vars)
    BY <2>3 DEF LoopIsAt, TQ!vars, PollReturns
  <2>4. ASSUME HandleWakeup PROVE [TQ!Next]_(TQ!vars)
    BY <2>4 DEF LoopIsAt, TQ!vars, HandleWakeup
  <2>5. ASSUME NEW c \in Channels, HandleChannel(c)
         PROVE  [TQ!Next]_(TQ!vars)
    BY <2>5 DEF LoopIsAt, TQ!vars, HandleChannel
  <2>6. ASSUME EndCallback PROVE [TQ!Next]_(TQ!vars)
    BY <2>6 DEF LoopIsAt, TQ!vars, EndCallback
  <2>7. ASSUME SwapPending PROVE [TQ!Next]_(TQ!vars)
    <3>1. functors = <<>> /\ pc # "exited" /\ pc' # "exited"
      BY <2>7 DEF Handover, SwapPending
    <3>2. functors' \o pendingFunctors' = functors \o pendingFunctors
      BY <2>7, <3>1, ConcatEmptySeq DEF TypeOK, SwapPending
    <3> QED
      BY <2>7, <3>1, <3>2 DEF SwapPending, TQ!vars
  <2>8. ASSUME FinishFunctor PROVE [TQ!Next]_(TQ!vars)
    <3>1. /\ functors \o pendingFunctors # <<>>
          /\ Head(functors \o pendingFunctors) = Head(functors)
          /\ Tail(functors \o pendingFunctors) = Tail(functors) \o pendingFunctors
      BY <2>8, ConcatHeadTail DEF TypeOK, FinishFunctor
    <3> QED
      BY <2>8, <3>1 DEF FinishFunctor, LoopIsAt, TQ!Next, TQ!RunNext
  <2>9. ASSUME EndBatch PROVE [TQ!Next]_(TQ!vars)
    BY <2>9 DEF LoopIsAt, TQ!vars, EndBatch
  <2>10. ASSUME NEW f \in Functors, RunHere(f)
         PROVE  [TQ!Next]_(TQ!vars)
    <3>1. TQ!Fresh(f)
      BY <2>10, FreshIsUnqueued DEF RunHere
    <3> QED
      BY <2>10, <3>1 DEF RunHere, loopVars, TQ!Next, TQ!RunInline
  <2>11. ASSUME NEW t \in Callers, NEW f \in Functors, QueueInLoop(t, f)
         PROVE  [TQ!Next]_(TQ!vars)
    <3>1. TQ!Fresh(f)
      BY <2>11, FreshIsUnqueued DEF QueueInLoop
    <3>2. functors' \o pendingFunctors' = Append(functors \o pendingFunctors, f)
      BY <2>11, ConcatAppend DEF TypeOK, QueueInLoop
    <3> QED
      BY <2>11, <3>1, <3>2 DEF QueueInLoop, TQ!Next, TQ!Submit
  <2>12. ASSUME NEW t \in Callers, FinishQueue(t)
         PROVE  [TQ!Next]_(TQ!vars)
    BY <2>12 DEF LoopIsAt, TQ!vars, FinishQueue
  <2>13. ASSUME NEW t \in Callers, Quit(t)
         PROVE  [TQ!Next]_(TQ!vars)
    BY <2>13 DEF LoopIsAt, TQ!vars, Quit
  <2>14. ASSUME NEW t \in Callers, FinishQuit(t)
         PROVE  [TQ!Next]_(TQ!vars)
    BY <2>14 DEF LoopIsAt, TQ!vars, FinishQuit
  <2>15. ASSUME UNCHANGED vars PROVE [TQ!Next]_(TQ!vars)
    BY <2>15 DEF vars, loopVars, TQ!vars
  <2> QED
    BY <2>1, <2>2, <2>3, <2>4, <2>5, <2>6, <2>7, <2>8, <2>9, <2>10, <2>11, <2>12, <2>13, <2>14, <2>15, NextCases
<1> QED
  BY <1>1, <1>2, TypeCorrect, HandoverInv, PTL
     DEF Spec, RefinesTaskQueue, TQ!Spec
=============================================================================
