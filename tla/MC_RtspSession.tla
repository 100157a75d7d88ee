--------------------------- MODULE MC_RtspSession ---------------------------
(***************************************************************************)
(* TLC instances of RtspSession: a client sets up two of a video track, an *)
(* audio track and the video track once more. A frame makes up to          *)
(* MaxPackets packets and the queue limit is small, so that both the limit *)
(* and its overshoot are reached.                                          *)
(***************************************************************************)
EXTENDS RtspSession

CONSTANTS video, audio, s1, s2, s3

SessionTrack == [s \in Sessions |-> IF s = s3 THEN audio ELSE video]
=============================================================================
