------------------------------ MODULE MCBuffer ------------------------------
(* Buffer for TLC: byte strings long enough to be split by readFd.         *)
EXTENDS Buffer

MCChunks == UNION {[1..n -> Byte \ {Zero}] : n \in 1..3}
=============================================================================
