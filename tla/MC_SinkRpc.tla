------------------------------ MODULE MC_SinkRpc ----------------------------
(***************************************************************************)
(* TLC instance of SinkRpc: two threads, two sequence numbers and three    *)
(* calls, so that a sequence number is reused while an earlier call with   *)
(* the same number is still open.                                          *)
(***************************************************************************)
EXTENDS SinkRpc

\* A timeout SendRpcRequest refuses and one it accepts.
MCTimeouts == {-1, 100}
=============================================================================
