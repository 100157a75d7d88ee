--------------------------- MODULE MC_SinkThread ----------------------------
(***************************************************************************)
(* TLC instances of SinkThread: two callers and two thread ids are enough  *)
(* for a Stop to overlap with another Stop, a Start and a                  *)
(* DestroySubscriberSocket, and for a leaked worker to meet its successor. *)
(***************************************************************************)
EXTENDS SinkThread
=============================================================================
