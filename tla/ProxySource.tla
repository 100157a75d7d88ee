----------------------------- MODULE ProxySource ----------------------------
(***************************************************************************)
(* stsw_proxy_source: a StreamSink on a back-end source and a StreamSource *)
(* of its own, which relays the sink's frames                              *)
(* (sources/stsw_proxy_source/src/stsw_stream_proxy.cc and stsw_main.cc).  *)
(* The back-end source, the sockets and the sink are those of MediaFlow;   *)
(* this module is the sink's application: the main thread, which drives    *)
(* Hearbeat and restarts the proxy after a metadata mismatch, and the      *)
(* callbacks of the sink's worker and of the proxy's own source.           *)
(***************************************************************************)
EXTENDS MediaFlow

CONSTANT MaxQuiet    \* MAX_FRAME_INTERVAL_SEC, in steps of the clock
ASSUME ProxyAssumption == MaxQuiet \in Nat

VARIABLES
    main,        \* where the main thread is
    todo,        \* Hearbeat's copy of need_update_metadata_
    needKey,     \* need_key_frame_
    needUpdate,  \* need_update_metadata_
    quiet,       \* time since last_frame_recv_
    pMeta,       \* stream_meta_ of the proxy's own source
    pState,      \* its stream_state_
    rejected,    \* history: a frame was refused by the proxy's own source
    ignored      \* history: the sink ignored another stream since its Start

proxyVars == <<main, todo, needKey, needUpdate, quiet, pMeta, pState, rejected, ignored>>
allVars == <<vars, proxyVars>>

Ended == main \in {"failed", "interrupted"}
Errors == {"ERR", "ERR_CONNECT_FAIL", "ERR_MEIDA_STOP"}

ProxyInit ==
    /\ Init
    /\ main = "update" /\ todo = FALSE /\ needKey = FALSE /\ needUpdate = FALSE
    /\ quiet = 0 /\ pMeta = NoMeta /\ pState = "CONNECTING"
    /\ rejected = FALSE /\ ignored = FALSE

-----------------------------------------------------------------------------
(* The main thread *)

\* UpdateStreamMetaData: at startup and, after Stop, from Hearbeat.
AskMetadata ==
    /\ main = "update"
    /\ UpdateRequest
    /\ main' = "asked"
    /\ UNCHANGED <<todo, needKey, needUpdate, quiet, pMeta, pState, rejected, ignored>>

\* Both the sink and the proxy's source take over the metadata. (Variant: the
\* source only once.)
RelayedMetaOnce == IF pMeta = NoMeta THEN meta' ELSE pMeta
RelayedMeta == meta'

MetadataReady ==
    /\ main = "asked"
    /\ UpdateApply
    /\ pMeta' = RelayedMeta
    /\ main' = "ready"
    /\ UNCHANGED <<todo, needKey, needUpdate, quiet, pState, rejected, ignored>>

\* The state announced after a failed request. (Variant: none.)
StateKept == pState
StateAfterNoMetadata == "ERR_CONNECT_FAIL"

MetadataFails ==
    /\ main = "asked"
    /\ UpdateFails
    /\ pState' = StateAfterNoMetadata
    /\ main' = "failed"
    /\ UNCHANGED <<todo, needKey, needUpdate, quiet, pMeta, rejected, ignored>>

\* Only live streams are relayed.
MetadataNotLive ==
    /\ main = "asked"
    /\ UpdateApply
    /\ pState' = "ERR"
    /\ main' = "failed"
    /\ UNCHANGED <<todo, needKey, needUpdate, quiet, pMeta, rejected, ignored>>

\* Start: the proxy's source, then the sink.
StartRelay ==
    /\ main = "ready"
    /\ Start
    /\ quiet' = 0 /\ pState' = "OK" /\ main' = "loop"
    /\ ignored' = FALSE
    /\ UNCHANGED <<todo, needKey, needUpdate, pMeta, rejected>>

StartSourceFails ==
    /\ main = "ready"
    /\ quiet' = 0 /\ pState' = "ERR" /\ main' = "failed"
    /\ UNCHANGED <<vars, todo, needKey, needUpdate, pMeta, rejected, ignored>>

StartSinkFails ==
    /\ main = "ready"
    /\ StartFails
    /\ quiet' = 0 /\ pState' = "ERR" /\ main' = "failed"
    /\ UNCHANGED <<todo, needKey, needUpdate, pMeta, rejected, ignored>>

\* No frame for too long. (Variant: the check is missing.)
NeverIdle == FALSE
Idle == quiet >= MaxQuiet

\* Hearbeat copies and clears the requests of the callbacks. (Variant: a
\* metadata update is dropped when a key frame is wanted as well.)
UpdateUnlessKey == needUpdate /\ ~needKey
UpdateAsked == needUpdate

Hearbeat ==
    /\ main = "loop" /\ ~Idle
    /\ needKey \/ needUpdate
    /\ main' = IF needKey THEN "key" ELSE "stop"
    /\ todo' = UpdateAsked
    /\ needKey' = FALSE /\ needUpdate' = FALSE
    /\ UNCHANGED <<vars, quiet, pMeta, pState, rejected, ignored>>

MediaStopped ==
    /\ main = "loop" /\ Idle
    /\ needKey' = FALSE /\ needUpdate' = FALSE
    /\ pState' = "ERR_MEIDA_STOP" /\ main' = "failed"
    /\ UNCHANGED <<vars, todo, quiet, pMeta, rejected, ignored>>

KeyFrameRequested ==
    /\ main = "key"
    /\ main' = IF todo THEN "stop" ELSE "loop"
    /\ UNCHANGED <<vars, todo, needKey, needUpdate, quiet, pMeta, pState, rejected, ignored>>

KeyFrameFails ==
    /\ main = "key"
    /\ pState' = "ERR" /\ main' = "failed"
    /\ UNCHANGED <<vars, todo, needKey, needUpdate, quiet, pMeta, rejected, ignored>>

\* Stop before the update: the sink's worker is joined.
StopForUpdate ==
    /\ main = "stop"
    /\ Stop
    /\ main' = "update"
    /\ UNCHANGED <<todo, needKey, needUpdate, quiet, pMeta, pState, rejected, ignored>>

\* The loop ends on a signal; Stop and Uninit follow, as after an error.
Interrupt ==
    /\ main = "loop"
    /\ main' = "interrupted"
    /\ UNCHANGED <<vars, todo, needKey, needUpdate, quiet, pMeta, pState, rejected, ignored>>

Uninit ==
    /\ Ended
    /\ Stop
    /\ UNCHANGED proxyVars

\* What the main thread does without being interrupted.
Work ==
    \/ AskMetadata \/ MetadataReady \/ MetadataFails \/ MetadataNotLive
    \/ StartRelay \/ StartSourceFails \/ StartSinkFails
    \/ Hearbeat \/ MediaStopped \/ KeyFrameRequested \/ KeyFrameFails
    \/ StopForUpdate \/ Uninit

-----------------------------------------------------------------------------
(* Callbacks *)

\* The sink's worker takes a frame.
WorkerTakes ==
    \/ /\ FrameMismatch
       /\ ignored' = TRUE
       /\ UNCHANGED <<main, todo, needKey, needUpdate, quiet, pMeta, pState, rejected>>
    \/ /\ FrameUnknownSub \/ FrameAccepted
       /\ UNCHANGED proxyVars

\* SendLiveMediaFrame of the proxy's own source accepts the frame; the
\* callback does not look at its result.
Accepts(f) == f.ssrc = pMeta.ssrc /\ f.sub <= Len(pMeta.subs)

OnLiveMediaFrame ==
    /\ callback.event = "frame"
    /\ CallbackReturns
    /\ rejected' = (rejected \/ ~Accepts(callback))
    /\ quiet' = 0
    /\ UNCHANGED <<main, todo, needKey, needUpdate, pMeta, pState, ignored>>

OnMetadataMismatch ==
    /\ callback.event = "mismatch"
    /\ CallbackReturns
    /\ needUpdate' = TRUE
    /\ UNCHANGED <<main, todo, needKey, quiet, pMeta, pState, rejected, ignored>>

\* A client asks the proxy's source for a key frame.
OnKeyFrame ==
    /\ started /\ ~needKey
    /\ needKey' = TRUE
    /\ UNCHANGED <<vars, main, todo, needUpdate, quiet, pMeta, pState, rejected, ignored>>

Tick ==
    /\ quiet < MaxQuiet
    /\ quiet' = quiet + 1
    /\ UNCHANGED <<vars, main, todo, needKey, needUpdate, pMeta, pState, rejected, ignored>>

BackEnd == Source /\ UNCHANGED proxyVars

ProxyNext ==
    \/ Work \/ Interrupt \/ WorkerTakes \/ OnLiveMediaFrame \/ OnMetadataMismatch
    \/ OnKeyFrame \/ Tick \/ BackEnd

\* Threads that can run do, time passes, and a source that keeps publishing
\* gets frames through.
Fairness ==
    /\ WF_allVars(Work) /\ WF_allVars(WorkerTakes)
    /\ WF_allVars(OnLiveMediaFrame \/ OnMetadataMismatch) /\ WF_allVars(Tick)
    /\ SF_allVars(\E i \in 1..Len(src.subs) :
                   SendLiveMediaFrame(i, FALSE, TRUE) /\ UNCHANGED proxyVars)

ProxySpec == ProxyInit /\ [][ProxyNext]_allVars
FairSpec == ProxySpec /\ Fairness

-----------------------------------------------------------------------------
(* The inductive invariant *)

\* The sink runs only while the main thread is in its loop or leaves it, the
\* worker calls back only while the sink runs, and a metadata reply is
\* awaited only while it does not.
PhaseInv ==
    /\ started => main \in {"loop", "key", "stop", "failed", "interrupted"}
    /\ callback # Silent => started
    /\ reply # NoReply => main = "asked"

\* While the sink may run, both metadata are the same, and the frame in a
\* callback is one of theirs.
AgreeInv ==
    /\ started \/ main = "ready" => pMeta = meta
    /\ callback.event = "frame" =>
           callback.ssrc = meta.ssrc /\ callback.sub <= Len(meta.subs)

\* The stream remembered as last seen is another one only if a mismatch has
\* been reported since Start.
ReportInv == started /\ ~ignored => lastSsrc = meta.ssrc

-----------------------------------------------------------------------------
(* Properties *)

ProxyTypeOK ==
    /\ TypeOK
    /\ main \in {"update", "asked", "ready", "loop", "key", "stop", "failed", "interrupted"}
    /\ todo \in BOOLEAN /\ needKey \in BOOLEAN /\ needUpdate \in BOOLEAN
    /\ quiet \in 0..MaxQuiet
    /\ pMeta \in Meta
    /\ pState \in Errors \cup {"CONNECTING", "OK"}
    /\ rejected \in BOOLEAN /\ ignored \in BOOLEAN

(***************************************************************************)
(* No frame that the sink accepts is refused by the proxy's own source.    *)
(* OnLiveMediaFrame ignores the result of SendLiveMediaFrame, so such a    *)
(* frame would vanish without a trace; the two metadata must agree         *)
(* whenever a worker is in the callback, across every restart.             *)
(***************************************************************************)
NoFrameRejected == ~rejected

(***************************************************************************)
(* A mismatch is never forgotten: once the sink has ignored a frame of     *)
(* another stream, the update is requested, about to be requested by the   *)
(* running callback, or already under way, although Hearbeat clears the    *)
(* flag before it acts and the sink reports each stream only once.         *)
(***************************************************************************)
MismatchRemembered ==
    ignored /\ (main = "loop" \/ (main = "key" /\ ~todo)) =>
        needUpdate \/ callback.event = "mismatch"

(***************************************************************************)
(* A proxy that gives up has announced an error state to its clients.      *)
(***************************************************************************)
ErrorAnnounced == main = "failed" => pState \in Errors

ProxyInv ==
    /\ PhaseInv /\ AgreeInv /\ ReportInv
    /\ NoFrameRejected /\ MismatchRemembered /\ ErrorAnnounced

(***************************************************************************)
(* Once the back-end source no longer changes, the proxy ends up with its  *)
(* ssrc, or has ended: no sequence of restarts of the source, mismatch     *)
(* reports and metadata requests leaves it relaying an old stream.         *)
(***************************************************************************)
Resync == <>[](Ended \/ pMeta.ssrc = src.ssrc)

(***************************************************************************)
(* What StreamMetadata says of ssrc: a frame with the ssrc of the metadata *)
(* is described by it. Here: a relayed frame is of the media type that the *)
(* proxy's metadata gives its sub-stream. The code does not keep this.     *)
(***************************************************************************)
FrameDescribed ==
    callback.event = "frame" /\ Accepts(callback) =>
        pMeta.subs[callback.sub] = callback.kind
=============================================================================
