----------------------------- MODULE SinkThread -----------------------------
(***************************************************************************)
(* The life cycle of a StreamSink (libstreamswitch/src/stsw_stream_sink.cc)*)
(* as its threads see it: application threads call Init, Start, Stop,      *)
(* DestroySubscriberSocket, RegisterSubHandler, UnregisterSubHandler and   *)
(* Uninit on one sink, and the worker thread that Start creates polls the  *)
(* subscriber socket, runs handlers and sends heartbeats until it reads a  *)
(* clear STARTED flag.                                                     *)
(*                                                                         *)
(* A step is what happens between two points another thread can observe.   *)
(* lock_ protects the callers' bodies, but the worker reads flags_ and     *)
(* subscriber_socket_ without it: Start is therefore two steps, the thread *)
(* creation and the flag, and lock_ is held across the two.                *)
(***************************************************************************)
EXTENDS Naturals

CONSTANTS
    Callers,    \* application threads using the sink
    Workers,    \* pthread_t values pthread_create can hand out
    Channels,   \* publish channels a handler can be registered for
    Media,      \* the channel InitBase registers (STSW_PUBLISH_MEDIA_CHANNEL)
    NoThread,   \* lock_ is free
    NoWorker    \* worker_thread_id_ == 0

ASSUME SinkAssumption ==
    /\ Media \in Channels
    /\ NoThread \notin Callers
    /\ NoWorker \notin Workers

VARIABLES
    init,              \* flags_ & STREAM_RECEIVER_FLAG_INIT
    started,           \* flags_ & STREAM_RECEIVER_FLAG_STARTED
    lock,              \* holder of lock_ between two steps
    worker_thread_id,  \* worker_thread_id_
    subscriber,        \* subscriber_socket_: "null" or "open"
    subscribed,        \* channels the open subscriber socket is subscribed to
    handlers,          \* channels with an entry in subsriber_handler_map_
    pc,                \* where each caller is
    joining,           \* Stop's local copy of worker_thread_id_
    uninit,            \* the caller inside Uninit (not thread safe: exclusive)
    wpc,               \* where each worker thread is
    polled             \* the subscriber socket in each worker's poller

vars == <<init, started, lock, worker_thread_id, subscriber, subscribed,
          handlers, pc, joining, uninit, wpc, polled>>

socketVars == <<subscriber, subscribed, polled>>
threadVars == <<worker_thread_id, joining, wpc>>

CallerPC == {"idle", "start_flag", "stop_join", "stop_free", "stopped", "uninit"}
WorkerPC == {"none", "created", "test", "poll", "callback", "beat", "exited",
             "aborted"}

\* A thread that has been created and has not returned from InternalRoutine.
Running(w) == wpc[w] \notin {"none", "exited"}

\* No worker has ended the process (OnSubReadNull).
Alive == \A w \in Workers : wpc[w] # "aborted"

TypeOK ==
    /\ init \in BOOLEAN
    /\ started \in BOOLEAN
    /\ lock \in Callers \cup {NoThread}
    /\ worker_thread_id \in Workers \cup {NoWorker}
    /\ subscriber \in {"null", "open"}
    /\ subscribed \in SUBSET Channels
    /\ handlers \in SUBSET Channels
    /\ pc \in [Callers -> CallerPC]
    /\ joining \in [Callers -> Workers \cup {NoWorker}]
    /\ uninit \in Callers \cup {NoThread}
    /\ wpc \in [Workers -> WorkerPC]
    /\ polled \in [Workers -> {"none", "open", "dangling"}]

Init ==
    /\ init = FALSE
    /\ started = FALSE
    /\ lock = NoThread
    /\ worker_thread_id = NoWorker
    /\ subscriber = "null"
    /\ subscribed = {}
    /\ handlers = {}
    /\ pc = [t \in Callers |-> "idle"]
    /\ joining = [t \in Callers |-> NoWorker]
    /\ uninit = NoThread
    /\ wpc = [w \in Workers |-> "none"]
    /\ polled = [w \in Workers |-> "none"]

-----------------------------------------------------------------------------
(* Helpers *)

\* The caller may begin a call: nobody is in Init/Uninit.
Enter(t) == pc[t] = "idle" /\ uninit = NoThread

\* lock_ can be taken.
LockFree == lock = NoThread

\* Init and Uninit are "not thread-safe": the application calls them alone.
Alone == uninit = NoThread /\ \A u \in Callers : pc[u] = "idle"

\* CreateSubscriberSocket: nothing if the socket exists, otherwise a new
\* socket subscribed to the channel of every registered handler.
CreateSubscriberSocket ==
    /\ subscriber' = "open"
    /\ subscribed' = IF subscriber = "open" THEN subscribed ELSE handlers

\* A poller still holding the socket is left with a destroyed one.
PollersLoseSocket ==
    polled' = [w \in Workers |->
                 IF polled[w] = "open" THEN "dangling" ELSE polled[w]]

\* zsock_destroy(&subscriber_socket_); subscriber_socket_ = NULL
DestroySocket ==
    /\ subscriber' = "null"
    /\ subscribed' = {}
    /\ PollersLoseSocket

-----------------------------------------------------------------------------
(* Application threads *)

\* InitBase (reached from InitRemote and InitLocal): the media handler is
\* registered and the subscriber socket created before the flag is set.
InitBase(t) ==
    /\ Alone /\ pc[t] = "idle" /\ ~init
    /\ handlers' = handlers \cup {Media}
    /\ subscriber' = "open"
    /\ subscribed' = IF subscriber = "open" THEN subscribed
                     ELSE handlers \cup {Media}
    /\ init' = TRUE
    /\ UNCHANGED <<started, lock, pc, uninit, polled, threadVars>>

\* Start may create a thread: not started, and nobody is still stopping.
\* (Variant: the BUSY check on worker_thread_id_ is missing.)
CanStartAfterAnyStop == ~started
CanStart == ~started /\ worker_thread_id = NoWorker

\* Start, up to a successful pthread_create. lock_ stays held.
StartCreate(t, w) ==
    /\ Enter(t) /\ init /\ LockFree /\ CanStart
    /\ wpc[w] = "none"
    /\ CreateSubscriberSocket
    /\ worker_thread_id' = w
    /\ wpc' = [wpc EXCEPT ![w] = "created"]
    /\ lock' = t
    /\ pc' = [pc EXCEPT ![t] = "start_flag"]
    /\ UNCHANGED <<init, started, handlers, joining, uninit, polled>>

\* Start, the rest: flags_ |= STARTED, then the guard releases lock_.
StartFlag(t) ==
    /\ pc[t] = "start_flag"
    /\ started' = TRUE
    /\ lock' = NoThread
    /\ pc' = [pc EXCEPT ![t] = "idle"]
    /\ UNCHANGED <<init, handlers, uninit, socketVars, threadVars>>

\* Start when pthread_create fails: the socket is destroyed again (error_2).
StartFails(t) ==
    /\ Enter(t) /\ init /\ LockFree /\ CanStart
    /\ DestroySocket
    /\ UNCHANGED <<init, started, lock, handlers, pc, uninit, threadVars>>

\* The worker a Stop is to wait for.
StopTarget == worker_thread_id

\* Stop: the flag is cleared under lock_, the id copied, lock_ released.
StopBegin(t) ==
    /\ Enter(t) /\ init /\ LockFree /\ started
    /\ started' = FALSE
    /\ joining' = [joining EXCEPT ![t] = StopTarget]
    /\ pc' = [pc EXCEPT ![t] = "stop_join"]
    /\ UNCHANGED <<init, lock, worker_thread_id, handlers, uninit, wpc, socketVars>>

\* Stop returns at once when the flag is clear.
StopNotStarted(t) ==
    /\ Enter(t) /\ init /\ LockFree /\ ~started
    /\ pc' = [pc EXCEPT ![t] = "stopped"]
    /\ UNCHANGED <<init, started, lock, handlers, uninit, socketVars, threadVars>>

\* What pthread_join waits for: the thread has returned.
\* (Variant: Stop goes on without waiting.)
JoinSkipped(w) == TRUE
JoinReturns(w) == wpc[w] = "exited"

\* pthread_join in Stop; the ended thread's resources are reclaimed.
StopJoin(t) ==
    /\ pc[t] = "stop_join"
    /\ JoinReturns(joining[t])
    /\ wpc' = [wpc EXCEPT ![joining[t]] = IF @ = "exited" THEN "none" ELSE @]
    /\ pc' = [pc EXCEPT ![t] = "stop_free"]
    /\ UNCHANGED <<init, started, lock, worker_thread_id, handlers, joining,
                   uninit, socketVars>>

\* Stop, the rest: lock_ again, worker_thread_id_ = 0, socket destroyed.
StopFree(t) ==
    /\ pc[t] = "stop_free" /\ LockFree
    /\ worker_thread_id' = NoWorker
    /\ joining' = [joining EXCEPT ![t] = NoWorker]
    /\ DestroySocket
    /\ pc' = [pc EXCEPT ![t] = IF uninit = t THEN "uninit" ELSE "stopped"]
    /\ UNCHANGED <<init, started, lock, handlers, uninit, wpc>>

\* Stop has returned; the application goes on.
StopReturn(t) ==
    /\ pc[t] = "stopped"
    /\ pc' = [pc EXCEPT ![t] = "idle"]
    /\ UNCHANGED <<init, started, lock, handlers, uninit, socketVars, threadVars>>

\* DestroySubscriberSocket only looks at the STARTED flag.
DestroySubscriberSocket(t) ==
    /\ Enter(t) /\ init /\ LockFree /\ ~started
    /\ DestroySocket
    /\ UNCHANGED <<init, started, lock, handlers, pc, uninit, threadVars>>

RegisterSubHandler(t, c) ==
    /\ Enter(t) /\ init /\ LockFree /\ ~started
    /\ handlers' = handlers \cup {c}
    /\ UNCHANGED <<init, started, lock, pc, uninit, socketVars, threadVars>>

UnregisterSubHandler(t, c) ==
    /\ Enter(t) /\ init /\ LockFree /\ ~started
    /\ handlers' = handlers \ {c}
    /\ UNCHANGED <<init, started, lock, pc, uninit, socketVars, threadVars>>

\* Uninit calls Stop first: with the flag set it goes through StopJoin and
\* StopFree, otherwise Stop returns at once.
UninitBegin(t) ==
    /\ Alone /\ init
    /\ uninit' = t
    /\ started' = FALSE
    /\ joining' = [joining EXCEPT ![t] = IF started THEN StopTarget ELSE @]
    /\ pc' = [pc EXCEPT ![t] = IF started THEN "stop_join" ELSE "uninit"]
    /\ UNCHANGED <<init, lock, worker_thread_id, handlers, wpc, socketVars>>

UninitEnd(t) ==
    /\ pc[t] = "uninit"
    /\ init' = FALSE
    /\ DestroySocket
    /\ handlers' = {}
    /\ uninit' = NoThread
    /\ pc' = [pc EXCEPT ![t] = "idle"]
    /\ UNCHANGED <<started, lock, threadVars>>

-----------------------------------------------------------------------------
(* The worker thread: InternalRoutine *)

WorkerUnchanged == UNCHANGED <<init, started, lock, worker_thread_id, subscriber,
                               subscribed, handlers, pc, joining, uninit>>

\* zpoller_new(subscriber_socket_, notify_socket_)
WorkerBegin(w) ==
    /\ wpc[w] = "created"
    /\ wpc' = [wpc EXCEPT ![w] = "test"]
    /\ polled' = [polled EXCEPT ![w] = IF subscriber = "open" THEN "open" ELSE "none"]
    /\ WorkerUnchanged

\* The loop condition, read without lock_. (Variant: testing INIT instead.)
LoopWhileInit == init
LoopCondition == started

\* One evaluation of the loop condition; the poller dies with the loop.
WorkerTest(w) ==
    /\ wpc[w] = "test"
    /\ wpc' = [wpc EXCEPT ![w] = IF LoopCondition THEN "poll" ELSE "exited"]
    /\ polled' = IF LoopCondition THEN polled ELSE [polled EXCEPT ![w] = "none"]
    /\ WorkerUnchanged

\* zpoller_wait returns nothing (and OnSubRead, should that be taken for a NULL
\* subscriber_socket_, no message), or the wakeup OnNotifySocketRead eats.
WorkerIdle(w) ==
    /\ wpc[w] = "poll"
    /\ wpc' = [wpc EXCEPT ![w] = "beat"]
    /\ UNCHANGED polled /\ WorkerUnchanged

\* OnSubRead and OnSubMsg: a message on a subscribed channel, whose handler,
\* if there is one, is copied under lock_ and called without it.
OnSubRead(w, c) ==
    /\ wpc[w] = "poll" /\ polled[w] = "open" /\ LockFree
    /\ c \in subscribed
    /\ wpc' = [wpc EXCEPT ![w] = IF c \in handlers THEN "callback" ELSE "beat"]
    /\ UNCHANGED polled /\ WorkerUnchanged

\* With subscriber_socket_ NULL the result of a zpoller_wait that timed out, or
\* found its socket destroyed, is taken for it, and zmsg_recv(NULL) is called.
\* That is undefined: it comes back empty (WorkerIdle), or czmq's assertion ends
\* the process, with every thread in it.
OnSubReadNull(w) ==
    /\ wpc[w] = "poll" /\ subscriber = "null"
    /\ wpc' = [wpc EXCEPT ![w] = "aborted"]
    /\ UNCHANGED polled /\ WorkerUnchanged

\* The handler (and the application's listener) returns.
HandlerReturns(w) ==
    /\ wpc[w] = "callback"
    /\ wpc' = [wpc EXCEPT ![w] = "beat"]
    /\ UNCHANGED polled /\ WorkerUnchanged

\* Heartbeat, if it is due, runs under lock_.
WorkerHeartbeat(w) ==
    /\ wpc[w] = "beat" /\ LockFree
    /\ wpc' = [wpc EXCEPT ![w] = "test"]
    /\ UNCHANGED polled /\ WorkerUnchanged

Worker(w) ==
    \/ WorkerBegin(w)
    \/ WorkerTest(w)
    \/ WorkerIdle(w)
    \/ \E c \in Channels : OnSubRead(w, c)
    \/ OnSubReadNull(w)
    \/ HandlerReturns(w)
    \/ WorkerHeartbeat(w)

StopRest(t) == StopJoin(t) \/ StopFree(t) \/ StopReturn(t)

Caller(t) ==
    \/ InitBase(t)
    \/ \E w \in Workers : StartCreate(t, w)
    \/ StartFlag(t)
    \/ StartFails(t)
    \/ StopBegin(t)
    \/ StopNotStarted(t)
    \/ StopRest(t)
    \/ DestroySubscriberSocket(t)
    \/ \E c \in Channels : RegisterSubHandler(t, c) \/ UnregisterSubHandler(t, c)
    \/ UninitBegin(t)
    \/ UninitEnd(t)

\* The process has ended.
Ended == ~Alive /\ UNCHANGED vars

Next ==
    \/ Alive /\ \E t \in Callers : Caller(t)
    \/ Alive /\ \E w \in Workers : Worker(w)
    \/ Ended

\* The scheduler runs every thread that can run; zpoller_wait returns after at
\* most 50 ms and handlers return.
Fairness ==
    /\ \A w \in Workers : WF_vars(Alive /\ Worker(w))
    /\ \A t \in Callers :
           WF_vars(Alive /\ (StopRest(t) \/ StartFlag(t) \/ UninitEnd(t)))

Spec == Init /\ [][Next]_vars /\ Fairness

-----------------------------------------------------------------------------
(* The inductive invariant behind WorkerOwned *)

\* Who is between creating or joining the worker and the end of its call.
Busy(t) == pc[t] \in {"start_flag", "stop_join", "stop_free"}

\* lock_ is held between two steps exactly by a Start that has yet to set the
\* flag; it has just created the worker.
LockInv ==
    \A t \in Callers : /\ pc[t] = "start_flag" => lock = t
                       /\ lock = t => pc[t] = "start_flag"

\* At most one call is busy with the worker, and then the flag is clear.
BusyInv ==
    /\ \A t, u \in Callers : Busy(t) /\ Busy(u) => t = u
    /\ \A t \in Callers : Busy(t) => init /\ ~started /\ worker_thread_id # NoWorker

\* A Stop joins the thread worker_thread_id_ names, once.
JoinInv ==
    \A t \in Callers :
        /\ pc[t] = "stop_join" => joining[t] = worker_thread_id
        /\ pc[t] = "stop_free" => \A w \in Workers : wpc[w] = "none"

\* worker_thread_id_ is set while the sink is started or a call is busy.
IdInv ==
    /\ started => init /\ worker_thread_id # NoWorker
    /\ worker_thread_id # NoWorker => started \/ \E t \in Callers : Busy(t)
    /\ \A w \in Workers : wpc[w] # "none" => init /\ worker_thread_id = w

\* Uninit is exclusive and keeps the sink initialised until its end.
UninitInv ==
    /\ \A t \in Callers : pc[t] = "uninit" => uninit = t /\ worker_thread_id = NoWorker
    /\ \A t \in Callers : uninit = t =>
           init /\ ~started /\ pc[t] \in {"stop_join", "stop_free", "uninit"}
    /\ \A t, u \in Callers : uninit = t /\ u # t => pc[u] = "idle"

SinkInv == LockInv /\ BusyInv /\ JoinInv /\ IdInv /\ UninitInv

\* A Stop waits in pthread_join for the worker.
JoinAwaited(w) == \E t \in Callers : pc[t] = "stop_join" /\ joining[t] = w

\* A poller belongs to a worker inside its loop and holds the open socket,
\* and there is one, unless a Stop is waiting for that worker.
PollerInv ==
    \A w \in Workers :
        /\ polled[w] # "none" =>
               wpc[w] \in {"test", "poll", "callback", "beat", "aborted"}
        /\ polled[w] = "open" => subscriber = "open"
        /\ Running(w) /\ subscriber = "null" => JoinAwaited(w)
        /\ polled[w] = "dangling" \/ wpc[w] = "aborted" => JoinAwaited(w)

-----------------------------------------------------------------------------
(* Properties *)

\* The sink as the application that owns it sees it.
Phase == IF worker_thread_id = NoWorker THEN "stopped"
         ELSE IF started \/ \E t \in Callers : pc[t] = "start_flag" THEN "running"
         ELSE "stopping"
InCallback == \E w \in Workers : wpc[w] = "callback"
Service == INSTANCE WorkerService WITH phase <- Phase, busy <- InCallback

(***************************************************************************)
(* StreamSink implements WorkerService: although the worker reads flags_   *)
(* without lock_ and any number of threads call Start, Stop and Uninit,    *)
(* listener callbacks never overlap, and none is running or begins between *)
(* the end of a Stop and the next Start.                                   *)
(***************************************************************************)
LifeCycle == Service!Spec

(***************************************************************************)
(* Every worker thread that exists belongs to an initialised sink and is   *)
(* the one worker_thread_id_ names, so some Stop can still join it: no     *)
(* sequence of concurrent Start, Stop and Uninit calls leaks a thread or   *)
(* runs two of them on the same sockets.                                   *)
(***************************************************************************)
WorkerOwned == \A w \in Workers : Running(w) => init /\ worker_thread_id = w

(***************************************************************************)
(* The worker polls subscriber_socket_ without lock_. No other thread      *)
(* destroys the socket under it, and the worker never reads a NULL socket  *)
(* (which may end the process), except in one window: a call to            *)
(* DestroySubscriberSocket (which only looks at STARTED) while a Stop of   *)
(* another thread waits for that worker.                                   *)
(***************************************************************************)
SocketLostOnlyInStop ==
    \A w \in Workers :
        polled[w] = "dangling" \/ wpc[w] = "aborted" => JoinAwaited(w)

(***************************************************************************)
(* The Stop that cleared the flag does not return before the worker has    *)
(* ended, whatever other threads call meanwhile.                           *)
(***************************************************************************)
StopperWaits ==
    [][\A t \in Callers : pc[t] = "stop_free" /\ pc'[t] # pc[t] =>
           \A w \in Workers : ~Running(w)]_vars

(***************************************************************************)
(* A Stop that is waiting for the worker eventually returns: the worker    *)
(* notices the cleared flag whatever it is doing, and nothing sets it      *)
(* again meanwhile; unless the worker has ended the process in the window  *)
(* SocketLostOnlyInStop describes.                                         *)
(***************************************************************************)
StopReturns ==
    \A t \in Callers : pc[t] = "stop_join" ~> pc[t] \in {"stopped", "uninit"} \/ ~Alive

(***************************************************************************)
(* stsw_stream_sink.h on Start: "After source started up, the internal     *)
(* thread would be spawn up, then the source would begin to handle the     *)
(* incoming request". A started sink has a worker thread.                  *)
(***************************************************************************)
StartedHasWorker == started => \E w \in Workers : Running(w)

(***************************************************************************)
(* stsw_stream_sink.h: "the register/unregister function must call before  *)
(* start". A handler registered before Start receives its channel: the     *)
(* started sink's socket is subscribed to every registered channel.        *)
(***************************************************************************)
RegisteredIsSubscribed == started => handlers \subseteq subscribed
=============================================================================
