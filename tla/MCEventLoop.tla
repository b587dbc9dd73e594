---------------------------- MODULE MCEventLoop ----------------------------
(***************************************************************************)
(* EventLoop for TLC: two threads besides the loop's, one channel besides  *)
(* the wakeup channel, and enough callbacks for a batch that is still      *)
(* running while more are queued.                                          *)
(***************************************************************************)
EXTENDS EventLoop
=============================================================================
