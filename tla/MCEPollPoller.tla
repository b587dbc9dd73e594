---------------------------- MODULE MCEPollPoller ----------------------------
(* EPollPoller for TLC.                                                    *)
EXTENDS EPollPoller
=============================================================================
