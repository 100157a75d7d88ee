----------------------------- MODULE RtspSession -----------------------------
(***************************************************************************)
(* One client of the RTSP port: the child process that                     *)
(* rtsp_client_incoming_cb forks for it (ports/stsw_rtsp_port/src). Two    *)
(* threads share the resource. The event loop runs the RTSP methods, the   *)
(* RTP writers (rtp_write_cb), the timeout and the disconnect handler; the *)
(* worker of the StreamSink runs OnLiveMediaFrame and OnMetadataMismatch   *)
(* and fills the tracks' buffer queues.                                    *)
(*                                                                         *)
(* The module composes BufferQueue, one queue per track, with the sink as  *)
(* WorkerService promises it. Resource::lock is held by the loop in        *)
(* r_start and r_pause and by the worker in its callbacks; the writers     *)
(* read eor and the queues without it. Streams are live (stsw_init), so    *)
(* nothing is seekable and no fill pool exists.                            *)
(***************************************************************************)
EXTENDS BufferQueue, FiniteSets

CONSTANTS
    Tracks,         \* tracks of the resource
    Sessions,       \* RTP sessions, one per SETUP
    TrackOf,        \* the track a session is set up for
    BufferedFrames, \* srvconf.buffered_frames
    MaxPackets,     \* bound: packets a parser makes of one frame
    MaxFrames,      \* bound: frames taken up by the sink
    MaxSessions,    \* bound: RTP sessions of one client
    NoSession, NoTrack

ASSUME RtspAssumption ==
    /\ TrackOf \in [Sessions -> Tracks]
    /\ BufferedFrames \in Nat \ {0}
    /\ MaxPackets \in Nat /\ MaxFrames \in Nat /\ MaxSessions \in Nat
    /\ NoSession \notin Sessions /\ NoTrack \notin Tracks

VARIABLES
    pc,          \* where the event loop is
    cur,         \* the RTP session whose writer is running
    cur_state,   \* RTSP_session::cur_state
    started,     \* RTSP_session::started
    cached,      \* RTSP_Client::cached_resource != NULL
    resource,    \* the session's resource: "none", "open" or "freed"
    lock,        \* holder of Resource::lock
    eor,         \* Resource::eor
    sessions,    \* rtp_sessions
    writer,      \* sessions whose rtp_writer timer is active
    bye,         \* sessions with isBye set
    queue,       \* the producer of each track
    consumer,    \* the consumer of each session
    timer,       \* ev_timeout is active
    fresh,       \* a packet was sent, or PLAY came, since ev_timeout last fired
    disconnect,  \* ev_sig_disconnect was sent
    phase, busy, \* the sink (WorkerService)
    wpc,         \* where the sink's worker is
    job,         \* the frame it is working on
    frames       \* frames taken up so far

loopVars == <<pc, cur>>
rtspVars == <<cur_state, started, cached, resource, sessions>>
rtpVars == <<writer, bye, queue, consumer>>
timeVars == <<timer, fresh, disconnect>>
workerVars == <<wpc, job, frames>>
serviceVars == <<phase, busy>>
vars == <<loopVars, rtspVars, rtpVars, timeVars, workerVars, serviceVars, lock, eor>>

Sink == INSTANCE WorkerService

LoopPC == {"idle", "start_key", "start_stop", "got", "none", "pause_stop",
           "pause_lock", "free", "gone", "dead"}

Producers == [queue_serial : Nat, next_serial : Nat, consumers : Nat, seen : Seq(Nat)]
Consumers == [queue_serial : Nat, at : Nat \cup {NoElement}]

ControlOK ==
    /\ pc \in LoopPC /\ cur \in Sessions \cup {NoSession}
    /\ cur_state \in {"init", "ready", "playing"}
    /\ resource \in {"none", "open", "freed"}
    /\ lock \in {"none", "loop", "worker"}
    /\ sessions \subseteq Sessions
    /\ writer \subseteq sessions /\ bye \subseteq sessions
    /\ phase \in {"stopped", "running", "stopping"}
    /\ wpc \in {"idle", "frame", "mismatch", "put"}

FlagsOK ==
    /\ started \in BOOLEAN /\ cached \in BOOLEAN /\ eor \in BOOLEAN
    /\ timer \in BOOLEAN /\ fresh \in BOOLEAN /\ disconnect \in BOOLEAN
    /\ busy \in BOOLEAN

DataOK ==
    /\ queue \in [Tracks -> Producers] /\ consumer \in [Sessions -> Consumers]
    /\ job \in [track : Tracks \cup {NoTrack}, left : Nat]
    /\ frames \in Nat

TypeOK == ControlOK /\ FlagsOK /\ DataOK

NoJob == [track |-> NoTrack, left |-> 0]

Init ==
    /\ pc = "idle" /\ cur = NoSession
    /\ cur_state = "init" /\ started = FALSE
    /\ cached = FALSE /\ resource = "none"
    /\ lock = "none" /\ eor = FALSE
    /\ sessions = {} /\ writer = {} /\ bye = {}
    /\ queue = [t \in Tracks |-> NewProducer]
    /\ consumer = [s \in Sessions |-> NewConsumer]
    /\ timer = FALSE /\ fresh = FALSE /\ disconnect = FALSE
    /\ Sink!ServiceInit
    /\ wpc = "idle" /\ job = NoJob /\ frames = 0

-----------------------------------------------------------------------------
(* RTSP methods, run by the event loop *)

\* RTSP_describe opens a resource and keeps it for the SETUP to come.
Describe ==
    /\ pc = "idle"
    /\ cached' = TRUE
    /\ UNCHANGED <<loopVars, cur_state, started, resource, sessions, rtpVars,
                   timeVars, workerVars, serviceVars, lock, eor>>

\* RTSP_setup: the resource is the session's, the cached one or a new one
\* (that r_open fails changes nothing); the new RTP session starts paused.
Setup(s) ==
    /\ pc = "idle" /\ s \notin sessions /\ Cardinality(sessions) < MaxSessions
    /\ resource' = "open"
    /\ cached' = (cached /\ resource # "none")
    /\ sessions' = sessions \cup {s}
    /\ queue' = [queue EXCEPT ![TrackOf[s]] = ConsumerNew(@)]
    /\ consumer' = [consumer EXCEPT ![s] = NewConsumer]
    /\ cur_state' = IF cur_state = "init" THEN "ready" ELSE cur_state
    /\ UNCHANGED <<loopVars, started, writer, bye, timeVars, workerVars,
                   serviceVars, lock, eor>>

\* The resource is opened, but has no such track: it stays the session's.
SetupUnknownTrack ==
    /\ pc = "idle"
    /\ resource' = "open"
    /\ cached' = (cached /\ resource # "none")
    /\ UNCHANGED <<loopVars, cur_state, started, sessions, rtpVars, timeVars,
                   workerVars, serviceVars, lock, eor>>

\* RTSP_play up to the sink's Start in stsw_start, with Resource::lock held.
Play ==
    /\ pc = "idle" /\ cur_state = "ready" /\ lock = "none"
    /\ cur_state' = "playing"
    /\ Sink!Started
    /\ lock' = "loop"
    /\ pc' = "start_key"
    /\ UNCHANGED <<cur, started, cached, resource, sessions, rtpVars, timeVars,
                   workerVars, eor>>

\* The sink does not start: do_play has already entered the PLAYING state.
PlayStartFails ==
    /\ pc = "idle" /\ cur_state = "ready" /\ lock = "none"
    /\ cur_state' = "playing"
    /\ UNCHANGED <<loopVars, started, cached, resource, sessions, rtpVars,
                   timeVars, workerVars, serviceVars, lock, eor>>

\* The key frame request succeeds: r_start ends, do_play resumes the RTP
\* sessions, and RTSP_play replies and starts the timeout.
KeyFrameOk ==
    /\ pc = "start_key"
    /\ eor' = FALSE
    /\ lock' = "none"
    /\ started' = TRUE
    /\ writer' = sessions /\ bye' = {}
    /\ timer' = TRUE /\ fresh' = TRUE
    /\ pc' = "idle"
    /\ UNCHANGED <<cur, cur_state, cached, resource, sessions, queue, consumer,
                   disconnect, workerVars, serviceVars>>

\* The key frame request fails: stsw_start stops the sink, still holding the
\* lock. (Variant: the sink is left running.)
KeyFrameFailsRunning ==
    /\ pc = "start_key"
    /\ lock' = "none" /\ pc' = "idle"
    /\ UNCHANGED <<cur, rtspVars, rtpVars, timeVars, workerVars, serviceVars, eor>>
KeyFrameFails ==
    /\ pc = "start_key"
    /\ Sink!StopRequested
    /\ pc' = "start_stop"
    /\ UNCHANGED <<cur, rtspVars, rtpVars, timeVars, workerVars, lock, eor>>

\* Stop returns to stsw_start, r_start fails and PLAY with it.
StartStopReturns ==
    /\ pc = "start_stop"
    /\ Sink!StopCompletes
    /\ lock' = "none"
    /\ pc' = "idle"
    /\ UNCHANGED <<cur, rtspVars, rtpVars, timeVars, workerVars, eor>>

\* RTSP_pause, and RTSP_play in the PLAYING state, call rtsp_do_pause, which
\* passes the result of a comparison to r_pause as the resource: the process
\* dies on the invalid pointer.
DoPause ==
    /\ pc = "idle" /\ cur_state = "playing"
    /\ pc' = "dead"
    /\ UNCHANGED <<cur, rtspVars, rtpVars, timeVars, workerVars, serviceVars,
                   lock, eor>>

-----------------------------------------------------------------------------
(* The RTP writers: rtp_write_cb *)

\* bq_consumer_get of the session's next buffer.
WriteGet(s, found) ==
    /\ pc = "idle" /\ s \in writer
    /\ found \in GetReturns(queue[TrackOf[s]], consumer[s])
    /\ consumer' = [consumer EXCEPT ![s] = GetConsumer(queue[TrackOf[s]], @)]
    /\ pc' = IF found THEN "got" ELSE "none"
    /\ cur' = s
    /\ UNCHANGED <<rtspVars, writer, bye, queue, timeVars, workerVars,
                   serviceVars, lock, eor>>

\* The session's buffer was freed by another session of the same track, or the
\* one to free is not the oldest.
Misused(s) == LET q == queue[TrackOf[s]]
              IN  Dangling(q, consumer[s]) \/ NotHead(q, consumer[s])

\* rtp_packet_send, which may fail, and bq_consumer_move.
WriteSend(sent) ==
    /\ pc = "got" /\ ~Misused(cur)
    /\ LET t == TrackOf[cur]
       IN  /\ queue' = [queue EXCEPT ![t] = MoveProducer(@, consumer[cur])]
           /\ consumer' = [consumer EXCEPT ![cur] = MoveConsumer(queue[t], @)]
    /\ fresh' = (fresh \/ sent)
    /\ pc' = "idle" /\ cur' = NoSession
    /\ UNCHANGED <<rtspVars, writer, bye, timer, disconnect, workerVars,
                   serviceVars, lock, eor>>

\* A freed buffer: some of the memory is sent, and the consumer goes on from it
\* to wherever it leads.
WriteFreed(sent) ==
    /\ pc = "got"
    /\ Dangling(queue[TrackOf[cur]], consumer[cur])
    /\ \E c \in MoveFromFreed(queue[TrackOf[cur]]) :
          consumer' = [consumer EXCEPT ![cur] = c]
    /\ fresh' = (fresh \/ sent)
    /\ pc' = "idle" /\ cur' = NoSession
    /\ UNCHANGED <<rtspVars, writer, bye, queue, timer, disconnect, workerVars,
                   serviceVars, lock, eor>>

\* Or the process dies of it.
WriteDies ==
    /\ pc = "got" /\ Misused(cur)
    /\ pc' = "dead"
    /\ UNCHANGED <<cur, rtspVars, rtpVars, timeVars, workerVars, serviceVars,
                   lock, eor>>

\* all_rtp_session_end looks at every session's queue again.
\* (Variant: the emptiness found before eor was read is trusted.)
TrustFirstLook == TRUE
AllSessionsEnd ==
    \A s \in sessions : FALSE \in GetReturns(queue[TrackOf[s]], consumer[s])
SomeSessionLeft ==
    \E s \in sessions : TRUE \in GetReturns(queue[TrackOf[s]], consumer[s])

\* Nothing to send: at the end of the resource, once all sessions are through,
\* BYE goes out and the timer is not set again; otherwise it is.
WriteNothing(end) ==
    /\ pc = "none"
    /\ IF end THEN eor /\ AllSessionsEnd ELSE ~eor \/ SomeSessionLeft
    /\ bye' = IF end THEN bye \cup {cur} ELSE bye
    /\ writer' = IF end THEN writer \ {cur} ELSE writer
    /\ consumer' = [s \in Sessions |->
                      IF eor /\ s \in sessions
                      THEN GetConsumer(queue[TrackOf[s]], consumer[s])
                      ELSE consumer[s]]
    /\ pc' = "idle" /\ cur' = NoSession
    /\ UNCHANGED <<rtspVars, queue, timeVars, workerVars, serviceVars, lock, eor>>

-----------------------------------------------------------------------------
(* Timeout and disconnection *)

\* The client closes the connection, sends what cannot be parsed, or has sent
\* no RTCP for a minute. (Also where time(), which counts whole seconds, lets
\* client_ev_timeout find a packet one second too old.)
ClientCloses ==
    /\ pc = "idle"
    /\ disconnect' = TRUE
    /\ UNCHANGED <<loopVars, rtspVars, rtpVars, timer, fresh, workerVars,
                   serviceVars, lock, eor>>

\* client_ev_timeout: no packet of any session for STREAM_TIMEOUT seconds, the
\* timer's own period. (Variant: the timeout only looks at sessions that have
\* sent BYE, as the disabled code of check_if_any_rtp_session_timedout does.)
StaleAfterBye == ~fresh /\ bye # {}
Stale == ~fresh
ClientTimeout ==
    /\ pc = "idle" /\ timer
    /\ disconnect' = (disconnect \/ Stale)
    /\ fresh' = FALSE
    /\ UNCHANGED <<loopVars, rtspVars, rtpVars, timer, workerVars, serviceVars,
                   lock, eor>>

\* client_ev_disconnect_handler, to the sink's Stop in r_pause (which takes
\* and stsw_pause which releases the lock); it runs to the end of the process.
MustPause == started

\* (Variant: stsw_pause stops the sink without releasing the lock.)
DisconnectHoldingLock ==
    /\ pc = "idle" /\ disconnect /\ MustPause /\ lock = "none"
    /\ started' = FALSE /\ timer' = FALSE
    /\ Sink!StopRequested
    /\ pc' = "pause_stop" /\ lock' = "loop"
    /\ UNCHANGED <<cur, cur_state, cached, resource, sessions, rtpVars, fresh,
                   disconnect, workerVars, eor>>
DisconnectPlaying ==
    /\ pc = "idle" /\ disconnect /\ MustPause /\ lock = "none"
    /\ started' = FALSE /\ timer' = FALSE
    /\ Sink!StopRequested
    /\ pc' = "pause_stop"
    /\ UNCHANGED <<cur, cur_state, cached, resource, sessions, rtpVars, fresh,
                   disconnect, workerVars, lock, eor>>

DisconnectPaused ==
    /\ pc = "idle" /\ disconnect /\ ~MustPause
    /\ started' = FALSE /\ timer' = FALSE
    /\ pc' = "free"
    /\ UNCHANGED <<cur, cur_state, cached, resource, sessions, rtpVars, fresh,
                   disconnect, workerVars, serviceVars, lock, eor>>

\* The sink's Stop returns to stsw_pause.
PauseStopReturns ==
    /\ pc = "pause_stop"
    /\ Sink!StopCompletes
    /\ pc' = "pause_lock"
    /\ UNCHANGED <<cur, rtspVars, rtpVars, timeVars, workerVars, lock, eor>>

\* The rest of r_pause: the tracks are reset, with the lock held again.
PauseReset ==
    /\ pc = "pause_lock" /\ lock = "none"
    /\ queue' = [t \in Tracks |-> ResetQueue(queue[t])]
    /\ pc' = "free"
    /\ UNCHANGED <<cur, rtspVars, writer, bye, consumer, timeVars, workerVars,
                   serviceVars, lock, eor>>

\* The rest of rtsp_session_free and r_free_cb, for every session: the RTP
\* sessions with their consumers, then the resource with its lock and tracks.
\* The walk of bq_consumer_free through freed elements may end the process.
FreeSession(s) ==
    /\ pc = "free" /\ s \in sessions
    /\ sessions' = sessions \ {s} /\ writer' = writer \ {s} /\ bye' = bye \ {s}
    /\ queue' = [queue EXCEPT ![TrackOf[s]] = ConsumerFree(@, consumer[s])]
    /\ consumer' = [consumer EXCEPT ![s] = NewConsumer]
    /\ UNCHANGED <<loopVars, cur_state, started, cached, resource, timeVars,
                   workerVars, serviceVars, lock, eor>>

FreeSessionDies(s) ==
    /\ pc = "free" /\ s \in sessions
    /\ WalksFreed(queue[TrackOf[s]], consumer[s])
    /\ pc' = "dead"
    /\ UNCHANGED <<cur, rtspVars, rtpVars, timeVars, workerVars, serviceVars,
                   lock, eor>>

Close ==
    /\ pc = "free" /\ sessions = {}
    /\ resource' = IF resource = "open" THEN "freed" ELSE resource
    /\ cached' = FALSE
    /\ pc' = "gone"
    /\ UNCHANGED <<cur, cur_state, started, sessions, rtpVars, timeVars,
                   workerVars, serviceVars, lock, eor>>

-----------------------------------------------------------------------------
(* The sink's worker: DemuxerSinkListener *)

Alive == pc # "dead"

\* OnLiveMediaFrame is called, for a frame that makes n packets (none if its
\* time or its data are invalid).
FrameArrives(t, n) ==
    /\ Alive /\ frames < MaxFrames
    /\ Sink!CallbackBegins
    /\ wpc' = "frame"
    /\ job' = [track |-> t, left |-> n]
    /\ frames' = frames + 1
    /\ UNCHANGED <<loopVars, rtspVars, rtpVars, timeVars, lock, eor>>

\* A frame is dropped at the end of the resource or when the queue is full.
\* (Variant: the length is not looked at.)
DropAfterEorOnly == eor
DropFrame == eor \/ QueueLength(queue[job.track]) >= BufferedFrames

FrameDropped ==
    /\ Alive /\ wpc = "frame" /\ lock = "none" /\ DropFrame
    /\ Sink!CallbackEnds
    /\ wpc' = "idle" /\ job' = NoJob
    /\ UNCHANGED <<loopVars, rtspVars, rtpVars, timeVars, frames, lock, eor>>

FrameParsed ==
    /\ Alive /\ wpc = "frame" /\ lock = "none" /\ ~DropFrame
    /\ lock' = "worker"
    /\ wpc' = "put"
    /\ UNCHANGED <<loopVars, rtspVars, rtpVars, timeVars, job, frames,
                   serviceVars, eor>>

\* mparser_buffer_write: nothing is queued for a track without consumer.
PutPacket ==
    /\ Alive /\ wpc = "put" /\ job.left > 0
    /\ queue' = IF queue[job.track].consumers > 0
                THEN [queue EXCEPT ![job.track] = Put(@)] ELSE queue
    /\ job' = [job EXCEPT !.left = @ - 1]
    /\ UNCHANGED <<loopVars, rtspVars, writer, bye, consumer, timeVars, wpc,
                   frames, serviceVars, lock, eor>>

FrameDone ==
    /\ Alive /\ wpc = "put" /\ job.left = 0
    /\ Sink!CallbackEnds
    /\ lock' = "none"
    /\ wpc' = "idle" /\ job' = NoJob
    /\ UNCHANGED <<loopVars, rtspVars, rtpVars, timeVars, frames, eor>>

\* OnMetadataMismatch: the source is sending another stream.
MismatchArrives ==
    /\ Alive
    /\ Sink!CallbackBegins
    /\ wpc' = "mismatch"
    /\ UNCHANGED <<loopVars, rtspVars, rtpVars, timeVars, job, frames, lock, eor>>

MismatchDone ==
    /\ Alive /\ wpc = "mismatch" /\ lock = "none"
    /\ eor' = TRUE
    /\ Sink!CallbackEnds
    /\ wpc' = "idle"
    /\ UNCHANGED <<loopVars, rtspVars, rtpVars, timeVars, job, frames, lock>>

-----------------------------------------------------------------------------
Request ==
    \/ Describe
    \/ SetupUnknownTrack \/ \E s \in Sessions : Setup(s)
    \/ Play \/ PlayStartFails
    \/ DoPause
    \/ ClientCloses

Write(s) == \E found \in BOOLEAN : WriteGet(s, found)

StartRest == KeyFrameOk \/ KeyFrameFails \/ StartStopReturns

WriteRest ==
    \/ \E sent \in BOOLEAN : WriteSend(sent) \/ WriteFreed(sent)
    \/ WriteDies
    \/ \E end \in BOOLEAN : WriteNothing(end)

Disconnect ==
    \/ DisconnectPlaying \/ DisconnectPaused
    \/ PauseStopReturns \/ PauseReset
    \/ \E s \in Sessions : FreeSession(s) \/ FreeSessionDies(s)
    \/ Close

WorkerBegins ==
    \/ \E t \in Tracks, n \in 0..MaxPackets : FrameArrives(t, n)
    \/ MismatchArrives

WorkerRest == FrameDropped \/ FrameParsed \/ PutPacket \/ FrameDone \/ MismatchDone

Next ==
    \/ Request \/ StartRest
    \/ (\E s \in Sessions : Write(s)) \/ WriteRest
    \/ ClientTimeout \/ Disconnect
    \/ WorkerBegins \/ WorkerRest

\* A callback that has begun goes on, the loop finishes the handler it is in
\* (the key frame request has a timeout), a disconnect event that was sent is
\* handled, and the timeout fires although other events keep coming. Nothing is
\* assumed about the writers.
Fairness ==
    /\ WF_vars(WorkerRest)
    /\ WF_vars(StartRest \/ WriteRest)
    /\ SF_vars(Disconnect)
    /\ SF_vars(ClientTimeout)

Spec == Init /\ [][Next]_vars /\ Fairness

-----------------------------------------------------------------------------
(* Properties *)

\* The loop waits, in r_start, for the sink's worker, which waits for the lock
\* the loop holds.
StartDeadlock == pc = "start_stop" /\ lock = "loop" /\ wpc \in {"frame", "mismatch"}

Ended == pc \in {"gone", "dead"}

(***************************************************************************)
(* r_free_cb: "Nobody may hold the Resource::lock mutex when calling this  *)
(* function". It frees lock and info before the demuxer's uninit stops the *)
(* sink, so the sink must be stopped already, whichever way PLAY succeeded *)
(* or failed and whenever the client went away.                            *)
(***************************************************************************)
ClosedQuiet == resource = "freed" => phase = "stopped" /\ ~busy /\ lock = "none"

\* No other session has been set up for the track of this one.
Alone(s) == \A r \in sessions : TrackOf[r] = TrackOf[s] => r = s

(***************************************************************************)
(* The buffer rtp_write_cb sends, without any lock, is the oldest one of   *)
(* its track and still queued, as long as the client has set the track up  *)
(* once: its packets go out in order, each once, while the worker keeps    *)
(* adding others and whatever the sessions of other tracks do.             *)
(***************************************************************************)
SelectedIsOldest ==
    pc = "got" /\ Alone(cur) =>
        LET q == queue[TrackOf[cur]]
        IN  Selects(q, consumer[cur]) /\ QueueLength(q) > 0 /\ consumer[cur].at = Oldest(q)

(***************************************************************************)
(* bq_consumer_get: "the new selection is not freed until the cursor is    *)
(* moved or the consumer is deleted", for any number of sessions a track   *)
(* is set up for.                                                          *)
(***************************************************************************)
SelectionKept == \A s \in sessions : ~Dangling(queue[TrackOf[s]], consumer[s])

(***************************************************************************)
(* The limit of OnLiveMediaFrame bounds the queue of a track nobody reads, *)
(* up to the packets of the last frame let in.                             *)
(***************************************************************************)
QueueBounded ==
    \A t \in Tracks :
        QueueLength(queue[t]) + (IF job.track = t /\ wpc = "put" THEN job.left ELSE 0)
            <= BufferedFrames - 1 + MaxPackets

(***************************************************************************)
(* "wait all stream finish before sending BYE": when a session has said    *)
(* BYE nothing is left unsent in any track and nothing is added later,     *)
(* although rtp_write_cb looks at its queue and at eor without the lock    *)
(* and the worker may add a last frame and set eor in between.             *)
(***************************************************************************)
ByeDrained == bye # {} => eor /\ \A t \in Tracks : QueueLength(queue[t]) = 0

(***************************************************************************)
(* A client that goes away, or is kicked, is cleaned up and its process    *)
(* ends although the sink may be delivering frames at that moment. The one *)
(* exception is a PLAY that is already stuck.                              *)
(***************************************************************************)
DisconnectEnds == disconnect ~> Ended \/ StartDeadlock

(***************************************************************************)
(* When the source changes its stream, the client's session comes to its   *)
(* end by itself: what is queued is sent or given up, and the timeout then *)
(* closes the session, also when a track was set up but never resumed.     *)
(***************************************************************************)
EorEnds == (eor /\ started) ~> Ended

(***************************************************************************)
(* r_start: "return The same return value as demuxer->start". PLAY comes   *)
(* to an answer, whether the source grants the key frame or not.           *)
(***************************************************************************)
PlayAnswered == pc = "start_key" ~> pc = "idle"
-----------------------------------------------------------------------------
(* The inductive invariant *)

\* Who holds the lock, who runs the sink, and which state it is in.
LockInv ==
    /\ lock \in {"none", "loop", "worker"}
    /\ phase \in {"stopped", "running", "stopping"}
    /\ lock = "loop" <=> pc \in {"start_key", "start_stop"}
    /\ lock = "worker" <=> wpc = "put"
    /\ busy <=> wpc # "idle"
    /\ phase = "running" <=> started \/ pc = "start_key"
    /\ phase = "stopping" <=> pc \in {"start_stop", "pause_stop"}
    /\ started => pc \in {"idle", "got", "none", "dead"}
    /\ phase = "stopped" => ~busy
    /\ resource = "freed" => pc = "gone"

\* A queue nobody reads is empty.
Sound(q) ==
    /\ q \in Producers
    /\ q.queue_serial >= 1
    /\ Len(q.seen) <= q.next_serial
    /\ q.consumers = 0 => q.seen = <<>>

Fits(q, c) == c \in Consumers /\ c.queue_serial <= q.queue_serial

QueueInv ==
    /\ \A t \in Tracks : Sound(queue[t])
    /\ \A s \in sessions : Fits(queue[TrackOf[s]], consumer[s])
    /\ pc \in {"got", "none"} => cur \in writer
    /\ pc = "got" => Selects(queue[TrackOf[cur]], consumer[cur])

\* A track's queue counts its sessions.
OnTrack(t) == {s \in sessions : TrackOf[s] = t}
CountInv ==
    /\ IsFiniteSet(sessions)
    /\ \A t \in Tracks : queue[t].consumers = Cardinality(OnTrack(t))

\* Only while the resource plays is there anything in the queues; so
\* bq_consumer_free never finds any.
EmptyInv ==
    \/ started \/ pc \in {"pause_stop", "pause_lock"}
    \/ \A t \in Tracks : queue[t].seen = <<>>

\* Of the sessions of a track, one at least has not lost its selection: the
\* one that freed the last element has moved on.
Active == pc \notin {"free", "gone", "dead"}
HeldInv ==
    Active => \A s \in sessions : \E r \in OnTrack(TrackOf[s]) :
                 ~Dangling(queue[TrackOf[s]], consumer[r])

\* The only session of a track finds nothing marked, and what it has selected
\* is the head of the queue.
Unmarked(q) == \A i \in 1..Len(q.seen) : q.seen[i] = 0
AtHead(q, c) == Selects(q, c) => Len(q.seen) > 0 /\ c.at = Oldest(q)
AloneInv ==
    Active => \A s \in sessions :
                 Alone(s) => /\ Unmarked(queue[TrackOf[s]])
                             /\ AtHead(queue[TrackOf[s]], consumer[s])

SharedInv == CountInv /\ EmptyInv /\ HeldInv /\ AloneInv

\* After the end of the resource nothing is being added.
EorInv == wpc = "put" => ~eor

\* The frame the worker is adding.
JobInv ==
    /\ wpc \in {"frame", "put"} => job.track \in Tracks
    /\ job.left <= MaxPackets
=============================================================================
