-------------------------- MODULE MC_StreamManager --------------------------
(***************************************************************************)
(* The instance of StreamManager for TLC: two requests at a time, a second *)
(* stream object of the name beside one that a greenlet still refers to,   *)
(* two processes and a crash.                                              *)
(***************************************************************************)
EXTENDS StreamManager
=============================================================================
