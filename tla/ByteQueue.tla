----------------------------- MODULE ByteQueue -----------------------------
(***************************************************************************)
(* What a Buffer promises its user: a first-in first-out queue of bytes.   *)
(***************************************************************************)
EXTENDS Naturals, Sequences

CONSTANTS Byte,      \* the values of a byte
          Chunks     \* the byte strings that may be put in at once

VARIABLES bytes,     \* the bytes put in and not taken out
          moved      \* the byte string last put in or handed out

vars == <<bytes, moved>>

Init == bytes = <<>> /\ moved = <<>>

Put(data) == bytes' = bytes \o data /\ moved' = data

\* Show the first n bytes; they stay in the queue.
Look(n) == moved' = SubSeq(bytes, 1, n) /\ UNCHANGED bytes

\* Forget the first n bytes.
Drop(n) == bytes' = SubSeq(bytes, n + 1, Len(bytes)) /\ UNCHANGED moved

Take(n) == /\ moved' = SubSeq(bytes, 1, n)
           /\ bytes' = SubSeq(bytes, n + 1, Len(bytes))

Next == \/ \E data \in Chunks : Put(data)
        \/ \E n \in 0..Len(bytes) : Look(n) \/ Drop(n) \/ Take(n)

Spec == Init /\ [][Next]_vars
=============================================================================
