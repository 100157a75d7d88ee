-------------------------- MODULE MC_SourceThread ---------------------------
(***************************************************************************)
(* TLC instances of SourceThread. Two callers overlap Start, Stop and the  *)
(* handler table; MaxPending bounds the requests waiting in the REP socket.*)
(***************************************************************************)
EXTENDS SourceThread
=============================================================================
