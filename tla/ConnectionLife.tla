--------------------------- MODULE ConnectionLife ---------------------------
(***************************************************************************)
(* What TcpServer and TcpConnection promise the application of one          *)
(* connection: connectionCallback_ is called once as it comes up and once   *)
(* as it goes down, and only then is the connection destroyed and its       *)
(* descriptor closed.  A server that is being destroyed may break off.      *)
(***************************************************************************)
VARIABLES phase,     \* none, made, up, down or gone
          ending     \* ~TcpServer has begun

vars == <<phase, ending>>

Init == phase \in {"none", "made"} /\ ending = FALSE

Move(from, to) == phase = from /\ phase' = to /\ UNCHANGED ending

Make == Move("none", "made")
Up == Move("made", "up") \/ Move("none", "up")  \* at once in the same loop
Down == Move("up", "down")
Release == Move("down", "gone")

EndServer == ending' = TRUE /\ UNCHANGED phase

\* A connection of a server that is being destroyed may go untold.
Abandon == ending /\ (Move("made", "gone") \/ Move("up", "gone"))

Next == Make \/ Up \/ Down \/ Release \/ EndServer \/ Abandon

Spec == Init /\ [][Next]_vars
=============================================================================
