---------------------------- MODULE MCDelayQueue ----------------------------
(* A small instance of DelayQueue for TLC. *)
EXTENDS DelayQueue
=============================================================================
