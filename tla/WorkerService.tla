---------------------------- MODULE WorkerService ----------------------------
(***************************************************************************)
(* What StreamSink and StreamSource promise about their worker thread, as  *)
(* the application that owns the object sees it (stsw_stream_sink.h and    *)
(* stsw_stream_source.h on Start and Stop): callbacks come one at a time   *)
(* and only from a service that has been started, and a service whose Stop *)
(* is complete has no callback running and starts none.                    *)
(*                                                                         *)
(* SinkThread and SourceThread implement this module; RtspSession is built *)
(* on top of it.                                                           *)
(***************************************************************************)

VARIABLES
    phase,  \* "stopped", "running", or "stopping": Stop has yet to complete
    busy    \* the worker is inside a callback of the application

serviceVars == <<phase, busy>>

ServiceInit == phase = "stopped" /\ busy = FALSE

Started == phase = "stopped" /\ phase' = "running" /\ UNCHANGED busy

StopRequested == phase = "running" /\ phase' = "stopping" /\ UNCHANGED busy

\* The worker may take one more message up after Stop has been requested.
CallbackBegins == phase # "stopped" /\ ~busy /\ busy' = TRUE /\ UNCHANGED phase

CallbackEnds == busy /\ busy' = FALSE /\ UNCHANGED phase

StopCompletes == phase = "stopping" /\ ~busy /\ phase' = "stopped" /\ UNCHANGED busy

ServiceNext ==
    Started \/ StopRequested \/ CallbackBegins \/ CallbackEnds \/ StopCompletes

Spec == ServiceInit /\ [][ServiceNext]_serviceVars
=============================================================================
