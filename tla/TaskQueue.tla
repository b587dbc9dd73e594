----------------------------- MODULE TaskQueue -----------------------------
(***************************************************************************)
(* What EventLoop::queueInLoop and EventLoop::runInLoop promise a caller:   *)
(* callbacks handed to the loop run one at a time, each at most once, and  *)
(* those that were queued run in the order in which they were queued,      *)
(* until the loop has stopped.  A callback that runInLoop is given on the  *)
(* loop's own thread runs at once, ahead of the queue.                     *)
(***************************************************************************)
EXTENDS Naturals, Sequences

CONSTANT Functors    \* callbacks, each handed over at most once

VARIABLES queue,     \* callbacks that were queued and have not finished
          done,      \* callbacks that have finished
          stopped    \* the loop has returned

vars == <<queue, done, stopped>>

Queued(f) == \E i \in 1..Len(queue) : queue[i] = f

Fresh(f) == ~Queued(f) /\ f \notin done

Init == /\ queue = <<>>
        /\ done = {}
        /\ stopped = FALSE

Submit(f) == /\ Fresh(f)
             /\ queue' = Append(queue, f)
             /\ UNCHANGED <<done, stopped>>

RunInline(f) == /\ Fresh(f)
                /\ done' = done \cup {f}
                /\ UNCHANGED <<queue, stopped>>

RunNext == /\ ~stopped
           /\ queue # <<>>
           /\ done' = done \cup {Head(queue)}
           /\ queue' = Tail(queue)
           /\ UNCHANGED stopped

Stop == /\ stopped' = TRUE
        /\ UNCHANGED <<queue, done>>

Next == \/ \E f \in Functors : Submit(f) \/ RunInline(f)
        \/ RunNext
        \/ Stop

Spec == Init /\ [][Next]_vars
=============================================================================
