--------------------------- MODULE MC_ProcWatcher ---------------------------
(* Two calling greenlets on one watcher. *)
EXTENDS ProcWatcher
=============================================================================
