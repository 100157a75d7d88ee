# A TLA+ verification of StreamSwitch

StreamSwitch moves live media between processes. A *source* process takes a
stream from somewhere and publishes it; *ports* and *senders* subscribe to it
and hand it on; a Python *controller* launches all of these and watches them.
The processes talk over ZeroMQ: a REQ/REP pair for requests (metadata, key
frame, statistic, client heartbeat, client list), a PUB/SUB pair for media
frames and stream information. This directory models the parts that carry this
logic, checks them with TLC on small instances, and proves the most important
safety properties with TLAPS for all values of the constants.

## 1. Inventory

| Component | State | Operations | Interacts with | What is hard |
|---|---|---|---|---|
| `StreamSink`, life cycle (`libstreamswitch/src/stsw_stream_sink.cc`) | INIT and STARTED flags, worker thread id, subscriber socket, handler map, `lock_` | Init, Start, Stop, Uninit, DestroySubscriberSocket, (un)register handlers, worker loop | application threads, its worker | the worker reads flags and socket without the lock; Stop unlocks while joining |
| `StreamSink`, requests | `next_seq_`, one cached REQ socket | SendRpcRequest and its callers | any number of threads; the source | hand-over of sockets, timeouts, late replies, wrap-around |
| client heartbeat (sink) and client list (source) | send times, heartbeat socket; list of clients with activity times | heartbeat turn, kick-out | each other over an unreliable channel | two unsynchronised clocks, lost and late messages, list limit |
| `StreamSource`, life cycle and api thread (`stsw_stream_source.cc`) | INIT, STARTED, WAITING_REPLY, thread id, handler map, REP socket | Init, Start, Stop, Uninit, (un)register, OnRpcRequest, SendRpcReply | application threads, clients | strict send/receive alternation of REP, handlers that reply twice or never |
| metadata and frames (both) | stream metadata, frame numbers, statistics, last ssrc | set_stream_meta, SendLiveMediaFrame, UpdateStreamMetaData, MediaFrameHandler | PUB/SUB queue | numbering restarts while old frames are queued; queues overflow |
| `stsw_proxy_source` | two request flags, last frame time, state | main loop, Hearbeat, Start, Stop, callbacks | a sink and a source of its own | flags cleared before they are acted on; restart in several failing steps |
| `ProcWatcher` (`controller/python/streamswitch/process_mngr.py`) | started flag, child, polling greenlet | start, stop, async_stop, destroy, polling, terminating | greenlets; child processes | greenlets switch inside Popen, wait and sleep |
| stream, sender, port managers (`stream_mngr.py`, `sender_mngr.py`, `port_mngr.py`) | names, stream objects and their watchers, stream state | create, restart, destroy, stream info events | ProcWatcher, web services | restart and destroy overlap with each other and with relaunches; stale information after a restart |
| web application (`wsgiapp`) | rows of configuration, maps of streams, notifiers | HTTP views and services, boot | managers, database | transactions held open across blocking calls, failing statements, crash and boot |
| RTSP port, buffer queue (`ports/stsw_rtsp_port/src/bufferqueue.c`) | elements with seen counts, serials, consumers | put, get, move, reset, free | parsers, RTP sessions | seen-count accounting |
| RTSP port, one client's process | RTSP session, RTP sessions, resource with its lock, timers | RTSP methods, RTP writers, timeout, disconnect, demuxer callbacks | StreamSink, buffer queue | two threads, one lock, Stop called with and without it |
| senders, other sources, logger, argument parser | — | media conversion, I/O, parsing | libraries | not protocol logic |

Correctness, per component: one worker at most and never a lost one; Stop
waits and returns; a request is answered once and the answer reaches its own
caller; a living client stays listed, a dead one does not; lost frames are
counted right; the proxy never relays under wrong metadata and always follows
its back-end; a child process is never left without somebody responsible; a
stream's configuration, its object and its process come and go together; an
RTSP client gets its packets in order, and all of them before BYE, and its
process ends.

## 2. Modules

`X.tla` is the specification, `MC_X.tla` and `MC_X*.cfg` the instances for TLC,
`X_proofs.tla` the theorems (those about MediaFlow are in `ProxySource_proofs`).
Names follow the code. A definition introduced by
"(Variant: ...)" is a plausible slip of the definition that follows it; it is
used only to confirm that a property would notice.

**SinkThread.** Variables are the fields of `StreamSink` named in their
comments, plus the program counter of every caller (`pc`) and worker (`wpc`).
Steps end where another thread can observe the state: since the worker looks
at `flags_` without `lock_`, Start is two steps (`StartCreate`, `StartFlag`) with
the lock held in between; Stop is `StopBegin` (clear the flag, unlock),
`StopJoin`, `StopFree`. Init and Uninit are exclusive, as the header requires.
A socket destroyed under a poller leaves that poller `"dangling"`. A worker that
polls while `subscriber_socket_` is NULL takes the NULL that `zpoller_wait`
returns for that socket and calls `zmsg_recv(NULL)`; that comes back empty
(`WorkerIdle`) or aborts the process (`OnSubReadNull`), after which no thread
takes a step.

**WorkerService.** The abstract specification of what `StreamSink` and
`StreamSource` promise to an application about their worker: five steps over
`phase` (stopped, running, stopping) and `busy` (inside a callback). SinkThread
and SourceThread each have a refinement mapping, `Service == INSTANCE
WorkerService WITH ...`, and `LifeCycle == Service!Spec`. The object
is stopped while no thread id is set, running while STARTED is set (for a sink,
already when its Start is about to set it), and stopping otherwise. RtspSession uses
the same five steps as its sink, so what is shown there rests on the promise
and not on the details of the library.

**SourceThread.** The same for `StreamSource`, with the REP socket (external):
after a receive it must send before it receives or reports a request again. A
handler replies any number of times; `OnRpcRequestRejected` is the path of a
request without a handler or one that does not parse.

**SinkRpc.** `SendRpcRequest` from the sequence number to the return, one step
per access to the shared cache or to the socket. Sockets and the peer are
external; a peer may answer, answer with a foreign header, or not at all.
`request.id` is a history field that tells equal sequence numbers apart.

**ClientLease.** `ClientHeartbeatHandler` of both classes and the source's
`Heartbeat`. Each worker looks at the clock in turns, which are due on a grid
(`Interval`, `SourceInt`) and come up to `Latency` late; the tests of a turn use
the time at which it came. So a wait may end `Slack` later than its length: the
turn that comes just before its end passes it by, and the next one may be late.
Requests and replies are delayed, lost, or delivered after their socket was
destroyed. Time stamps at the source are whole seconds of a wall clock with an
arbitrary phase. Other clients only take room in the list.

**MediaFlow.** One source, one sink, a bounded FIFO between them. The source
announces metadata and numbers its data frames; the sink compares ssrc and
sub-stream, counts received and lost frames and calls the listener.
`UpdateApply` appends the received sub-streams and resets the statistic to the
size of the reply, as the code does; a frame whose statistic entry does not
exist is an out-of-range write in the code and has no effect on the modelled
counters. `epoch` and `seen` are history variables.

**ProxySource.** Extends MediaFlow (the back-end source, the sockets and the
proxy's sink) by the proxy's main thread, its callbacks and the metadata and
state of the source it runs itself; each step of it is a step of MediaFlow or
leaves its variables alone. The start race of the
sink (below) is not repeated here: a sink that was started has its worker.

**ProcWatcher.** Greenlets switch only where they block, so everything between
two blocking calls is one step. `launch[a]` is the child a greenlet is creating
inside `Popen`; processes and greenlets are slots that are reused.

**BufferQueue.** The operations of `bufferqueue.c` as operators on a producer
and a consumer record; each runs under the producer's lock. An element is
named by the pair of queue serial and element serial, so payloads are not kept;
the queue is the sequence of seen counts, and the list pointers of a consumer
are the serial they stand for. With several consumers an element may be freed
while another has it selected (`Dangling`): `bq_consumer_get` then returns what
it finds in the memory, a move leads anywhere in the queue (`MoveFromFreed`),
and `bq_consumer_free` may walk through freed elements (`WalksFreed`), also
after a reset, since it does not compare `queue_serial`.

**RtspSession.** The process of one RTSP client: the event loop (`pc`) with the
RTSP methods, the RTP writers, the timeout and the disconnect handler, and the
sink's worker (`wpc`) in `OnLiveMediaFrame` and `OnMetadataMismatch`. A handler
of the loop is split where it takes or releases `Resource::lock`, waits for the
sink, or reads what the worker writes: `rtp_write_cb` reads its queue
(`WriteGet`) and then `eor` and all queues (`WriteNothing`), without the lock.
Times are reduced to whether a packet was sent since the timeout last fired.
`DoPause` is the end of the process, because `rtsp_do_pause` passes the result
of a comparison to `r_pause` as the resource. A client may set up a track twice,
as `RTSP_setup` allows; where that makes the writer use a freed buffer, fail the
assertion on the head of the queue, or walk through freed elements at the end,
each use is a choice between going on with some value and the end of the process
(`WriteFreed`, `WriteDies`, `FreeSessionDies`). Streams are live, as `stsw_init`
makes them. TEARDOWN only replies, so it is no action.

**StreamManager.** One stream name in the controller, from the web service to
the source process: the row and the open transaction, both maps, the stream
objects with their watchers, the greenlets of requests (`pc`, `obj`, `on`), the
polling greenlets that are launching (`poll`, and `stray` once detached) and
the processes. It repeats of ProcWatcher what the composition needs (detaching,
`_popen`, the finalizer `__del__`) and takes from it that a process told to
terminate ends. Python's reference counting is modelled: a watcher lives as
long as its stream or a greenlet inside one of its methods refers to it, and
the last one to leave it runs `__del__` (`Collect`). The controller may crash
at any point; rows and processes survive, and `Boot` kills what it finds and
loads the row, or skips it if its source type is not registered. The commit of
`new_stream` comes when the stream is already in service and may raise
(`NewCommitFails`): the stream then stays, mapped, named and running, without a
row, and the deletion of such a stream finds no row, or that of a later stream of
the name. `raced`, `failed`, `unsaved` and `skipped` are history variables. The
stream is of one of the three types whose programs are killed at boot.

## 3. Runs

| Run | Instance | Shows |
|---|---|---|
| `sink_threads` | 2 callers, 2 thread ids, 2 channels | the refinement `LifeCycle`, `WorkerOwned`, `SocketLostOnlyInStop`, `StopReturns` |
| `sink_start_race` | 1 caller, violation | Start sets STARTED after creating the worker, which may have exited by then |
| `source_threads` | 2 callers, 3 kinds of request, 2 pending | the refinement `LifeCycle`, `WorkerOwned`, `StartedHasWorker`, `ReplyInTurn`, `RequestsServed`, `StopReturns` |
| `source_unknown_request` | violation | a request without a handler gets no reply and blocks the REP socket |
| `sink_rpc` | 2 threads, 2 sockets, numbers modulo 2, 3 calls | `SocketExclusive`, `NoSocketLeak`, `OwnReply`, `CallsReturn` |
| `client_lease` | 1 client, lease 18, renewal 6, timeout 2, turns every 2 units and up to 1 late, seconds of 2, list of 1, time 26, 3 starts | `KeepAlive` over a timeout and a second pending one, `NeverSilent`, `DeadKicked`, `Capacity` |
| `media_flow` | 3 metadata, queue of 2, 3 frames, 2 restarts | `LossExact`, `NoOverCount` |
| `proxy` | 2 streams, 4 changes, queue of 2 | `NoFrameRejected`, `MismatchRemembered`, `ErrorAnnounced`, `Resync` |
| `proc_watcher` | 2 callers, 2 processes, 2 pollers | `LeakOnlyInLaunch`, `StoppingPasses`, `StartedIsWatched`, `StopEnds`, `Relaunched` |
| `rtsp_session` | 2 of 3 sessions (video, audio, video again), limit 2, frames of 0 to 2 packets, 2 frames | `ClosedQuiet`, `SelectedIsOldest`, `QueueBounded`, `ByeDrained`, `DisconnectEnds`, `EorEnds` |
| `rtsp_play` | 2 tracks, violation | a PLAY whose key frame request fails may never be answered |
| `stream_mngr` | 2 requests at a time, 2 stream objects, 2 processes, 1 crash | `NoOrphan`, `OneSource`, `ConfAgrees`, `NameFree`, `AllEnd` |

Four more configurations show counterexamples and belong to no run:
`MC_SinkThread_subscribe.cfg` (`RegisteredIsSubscribed`),
`MC_ProxySource_described.cfg` (`FrameDescribed`), `MC_ProcWatcher_stop.cfg`
(`StopTerminates`) and `MC_RtspSession_selection.cfg` (`SelectionKept`); see
section 5.

**Bounds.** Two callers let every call overlap with every other, and two thread
ids, sockets, processes or pollers let a leaked one meet its successor. Numbers
modulo 2 with three calls make a number come back while the first call with it
is open. In `client_lease` two units of time are a turn and a second, so turns
miss times and time stamps are rounded; 26 units reach the end of a lease after
the renewal, a timeout and a second wait that all end late, and a beat of the
source beyond, and three starts are those of the source and the sink and one
restart. The theorems also cover the code's own numbers: in units of 50 ms, lease
300, renewal 100, timeout 60, turns of 10 that come up to 9 late, a second of 20,
with `Tolerated` 1 (a renewal may take 5.5 s and a timeout 3.5 s, and the
scheduler's latency on top: 12.5 s and a second of rounding leave room below 15
s). They do not cover two lost heartbeats, after which a third wait may last
until 16 s. Three data frames per numbering give a gap with a frame on both
sides, two renumberings let a sink meet frames of an old, the current and a
next numbering; `MaxSubs` is the only bound on metadata updates. In `proxy` the
back-end changes at most four times, so that "no longer changes" is reached on
every behaviour; its frames carry no media data (`MaxSeq = 0`), as counting is
the subject of `media_flow`. In `rtsp_session` two frames of two packets fill a
queue to its limit and beyond, and leave one track empty while the other is
full. A client sets up two of three sessions, so there are behaviours with two
tracks and behaviours with two sessions on the video track, in which one session
can reach the tail and be back at the head before the other has read it, and
free the buffer under it. In `stream_mngr` two requests overlap in every way, a
second stream object of the name exists while a detached greenlet still holds
the first, and two processes are one that is dying or being launched for a
stream already deleted, beside its successor. A launch waits if no slot for a
process is free; the theorems hold for any number of slots.

**Deadlock** is checked except in `sink_rpc`, `client_lease`, `proxy`,
`proc_watcher`, the runs of RtspSession and `stream_mngr`, where the
number of calls, the time, or the life of the process ends; `DisconnectEnds`
states the one way in which the process may get stuck.

**Fairness.** Threads and greenlets that can run do (weak fairness of each),
because they are scheduled by the kernel and by gevent; zpoller and Popen waits
end with their timeouts; handlers and listeners return; a process that got
SIGTERM, with SIGKILL to follow, ends. Strong fairness is used where an event
loop serves many sources of events: a readable REP socket is reported by `zpoller_wait` although polls that
time out come in between, and a back-end that keeps publishing gets a frame
through now and then although queues may be full. The latter is only needed for
`Resync`: without frames the proxy ends after ten seconds of silence, which
`Resync` accepts too. In RtspSession the loop serves an event that is pending
whenever it returns to idle, so a timeout that is due (`ClientTimeout`) and a
disconnect that was sent (`Disconnect`) are handled although other events keep
coming: libev dispatches all pending events of an iteration. That RTP writers
are ever called is not assumed; one that was called goes on.
A database statement that can fail may fail each time. Nothing is assumed about applications calling anything,
about children exiting unless killed, or about a peer answering.

## 4. Proofs

Every theorem holds for any constants that satisfy the named assumption of its
module.

* **SinkThread** (`SinkAssumption`). `WorkerOwned` is not inductive: one must
  know who is between creating and joining a worker. `SinkInv` says that the
  lock is held between steps only by a Start about to set the flag (`LockInv`),
  that one call at most is busy with the worker, with the flag clear
  (`BusyInv`), that it joins the thread the id names (`JoinInv`), when the id is
  set (`IdInv`) and that Uninit is alone (`UninitInv`). `SinkSocketLost` adds
  `PollerInv`, that a running worker without a socket is being joined; `SinkStopperWaits` is an action property from `JoinInv`.
  `SinkImplementsService` is the refinement of WorkerService: with `SinkInv`
  every step maps to one of the five abstract steps or to none.
* **SourceThread** (`SourceAssumption`). The same argument, and the same
  refinement theorem, `SourceImplementsService`; `ExitInv` gives
  `StartedHasWorker` (the flag precedes the thread here), `ReplyInv` ties
  WAITING_REPLY to the state of the REP socket and gives `ReplyInTurn`.
* **SinkRpc** (`RpcAssumption`). `RpcInv`: the state of a socket follows from
  where its holder is, and what an open call's socket carries is its own request
  or a reply that does not match its header. `OwnReply` holds with any modulus,
  even 1, since a REQ socket is never reused with a reply outstanding.
  `NoSocketLeak` is also a consequence: a socket is cached, held or destroyed.
* **ClientLease** (`LeaseAssumption`: `Deadline(Tolerated)`, the renewal and the
  tolerated timeouts and one more, each with its `Slack`, plus the rounding of
  seconds is less than the lease). `LeaseInv` bounds
  each pending send time, and the turn that is due, relative to the last answered
  request (`ScheduleInv`) and the source's record relative to it (`RecordInv`);
  the arithmetic of misses is in lemmas. That a renewal is not refused follows from
  the same record: the client is still listed when it comes, so a full list does
  not matter. `Capacity` needs that the list is finite (`CapacityInv`), which
  is proved along with it: nothing is assumed about the set of clients.
* **MediaFlow** (`FlowAssumption`; in `ProxySource_proofs`). Types first, which
  include that the source has a number for each sub-stream it announces. `NoOverCount`
  and `LossExact` compare a counter with the size of a set of frames the sink
  has never seen, and rest on `CountInv`: the queue keeps the order of the
  source's numbers (`QueueInv`), an entry of the sink's statistic has counted
  only frames sent before all that is queued for it (`SeenInv`), so that the
  next one counted is the latest (`LastInv`); `LossInv` is the claim itself, as
  an equality within one numbering and a bound across several. The step
  is arithmetic of sets (`MissingFirst`, `MissingSame`, `MissingNew`): a first
  frame leaves nothing missing, a later one of the same numbering adds the
  numbers in between, disjoint from what was missing before, and the first one
  of a new numbering adds at least the numbers below it, of which the code counts
  some or none.
* **ProxySource** (`FlowAssumption` and `ProxyAssumption`).
  `ProxyFlow`: the proxy implements MediaFlow, so the counters of its sink are
  right as well (`ProxyCountsRight`), and so are its types (`ProxyTypeCorrect`).
  `ProxyInv`: in which phases the sink runs and a reply is awaited (`PhaseInv`), that both metadata agree whenever the sink runs
  (`AgreeInv`), and that the last ssrc is the metadata's until a mismatch was
  reported (`ReportInv`). From it no accepted frame is refused and no mismatch is
  forgotten.
* **ProcWatcher** (`WatcherAssumption`). `WatcherInv`: who is blocked where
  (`BlockedInv`); without a race one greenlet at most is in Popen and the watcher
  has no other child (`PopenInv`); a child not told to terminate is the started
  watcher's or being launched (`AliveInv`).
* **RtspSession** (`RtspAssumption`). `RtspClosedQuiet` needs only `LockInv`: who
  holds the lock follows from where both threads are, and the sink is stopped
  wherever the resource may be freed. `RtspSinkInTurn` shows that the sink is
  always in the state from which the code starts or stops it, so that the
  composition hides no call out of turn. The theorems about the queues hold for
  any sessions, several of a track included, and every outcome of using a freed
  buffer. `QueueInv`: each queue is well formed, and the writer has selected
  something of it. `SharedInv`: the queue counts the sessions of its track
  (`CountInv`); outside of playing all queues are empty (`EmptyInv`); of the
  sessions of a track one at least has not lost its selection, namely the one
  that freed the last element, so a BYE, which asks all of them, finds all that is
  queued (`HeldInv`, for `ByeDrained`); the only session of a track finds no mark
  and selects the head (`AloneInv`, for `SelectedIsOldest`). `FlowInv` adds that
  nothing is being added after eor (`EorInv`) and that the frame in hand has a
  known size (`JobInv`): without `EorInv` neither `ByeDrained` nor the bound would
  be inductive. The proof treats the steps of the loop and of the worker in
  separate lemmas, with one lemma per queue operation.
* **StreamManager** (`ManagerAssumption`). `ManagerInv` has five layers. Where a
  request is says which stream and which process it works on (`CallInv`) and
  what the database holds: the open transaction is the creating request's, and
  as long as no commit of this life has failed, a stream in service has its row,
  which outlives every stage of a deletion (`DbInv`, from which `ConfAgrees`). A
  life of the controller begins with nothing but rows and processes (`LifeInv`).
  The name belongs to the stream in service or to one call (`NameInv`, from
  which `NameFree`). As long as no two launches have met (`~raced`), each watcher
  is polled, or used by one call, or by one detached greenlet (`WatcherOK`), and
  it has a process exactly where the code expects `_popen` to be set. Therefore
  a running process is never dropped (`OwnInv`), which gives `NoOrphan`, and two
  running ones are in different hands, which gives `OneSource`. `WatcherOK` is
  what makes the rest inductive: without it a store into `_popen` could overwrite
  a process, and `__del__` could run while somebody still launches one.

Type invariants are proved for every module that has one, as parts of the invariants or with them, and are
therefore not in the runs.

**Model-checked only.** The liveness properties (`StopReturns`, `RequestsServed`,
`CallsReturn`, `Resync`, `StopEnds`, `Relaunched`, `DisconnectEnds`, `EorEnds`,
`AllEnd`), which need fairness. Every safety property of a passing run is
stated by a theorem.

## 5. Disagreements with the documentation

Three runs check a sentence of the code's own documentation that the code does
not keep; `PROJECT.json` quotes each. A sink may be started without a worker. A
request without a handler is never answered and blocks the source's api. A PLAY
whose key frame request fails may hang: `stsw_start` stops the sink with
`Resource::lock` held, and the sink's worker may be waiting for it.

The four further configurations show that a handler registered between Init
and Start hears nothing until the next Start (`CreateSubscriberSocket` returns
at once when the socket exists); that sub-streams pile up at each metadata
update (`push_back` without a clear), so that a frame's index selects an old
sub-stream; that a watcher stopped during a relaunch leaves a child running; and
that, with two sessions on one track, a session that has reached the tail of the
queue starts again at its head (`bq_consumer_move_internal` does not tell the
two cases apart), is counted twice there and frees the buffer that the other
session has selected, although the comment on `bq_consumer_get`
(`bufferqueue.c:781-783`) says that "the new selection is not freed until the
cursor is moved or the consumer is deleted".

Also met while modelling, without a run:

* a second concurrent Stop returns before the worker has ended;
* `SendRpcRequest` may succeed without a result when the receive is interrupted;
* the client list is paged by index while clients are removed; `statistic_` may
  be indexed out of range after sub-streams have piled up, and the lost-frame
  merge of the proxy then stops working;
* a PLAY that fails leaves the session in the PLAYING state with no timeout;
  PAUSE, and PLAY while playing, end the process (`r_pause(resource != NULL)`);
* after `r_pause` has reset the queues, `bq_consumer_free` of a session that still
  has a selection walks through freed elements if another session of its track is
  left; `bq_consumer_unseen` may count an element too many;
* `DestroySubscriberSocket` while another thread is in Stop makes the worker call
  `zmsg_recv(NULL)`, which asserts in czmq (`SocketLostOnlyInStop` bounds this to
  that window);
* a `new_stream` whose commit raises leaves a stream without a row behind; the next
  request for the name gets its row and is then refused the name;
* two heartbeats lost in a row may cost a client its lease, although timeout and
  renewal look as if they left room for them: the turns of 500 ms do not;
* two overlapping restarts of a stream can lose a process or leave the watcher
  refusing to start ("in Stopping"); a restart whose Popen raises leaves the
  stream in the maps with nobody watching it;
* sources of type ffmpeg are not among the programs killed at boot, so after a
  crash such a stream may have two (StreamManager leaves this type out); a stream
  notifier counts its waiters up and never down; stream information of an old
  process is accepted after a restart whatever its send time.

## 6. Not modelled, and the plan

Not modelled: generated protocol buffers code, LIVE555, the feng-derived RTSP
server's request parsing, RTCP, rate control and payload code, FFmpeg and RTMP
wrappers, argument parsing and log formatting. They convert data or wrap
libraries, and they are most of the repository's lines. Byte counters, bit
rates, gov lengths and error texts are abstracted away everywhere. The sender
and port managers repeat the stream manager over the same watcher.

Done, in this order: the two life cycles, the request client, the lease, the
media path, the proxy as their composition, the process watcher; then the
abstract worker and its two refinements, the buffer queue, the RTSP client's
process and the stream manager; then the proofs of all their safety properties.

Next, in order:

1. Stream information of old processes and the notifiers, on top of
   StreamManager.
2. Stream information publishing and the statistic requests; the rotation of
   log files.
