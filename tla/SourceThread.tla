---------------------------- MODULE SourceThread ----------------------------
(***************************************************************************)
(* The life cycle and the API service of a StreamSource                    *)
(* (libstreamswitch/src/stsw_stream_source.cc). Application threads call   *)
(* Init, Start, Stop, RegisterApiHandler, UnregisterApiHandler and Uninit; *)
(* the thread that Start creates takes one request at a time from the REP  *)
(* socket, looks its handler up, runs it without lock_ and makes sure that *)
(* a reply goes out.                                                       *)
(*                                                                         *)
(* The REP socket is external (ZeroMQ): after a receive it must send       *)
(* before it can receive, or report a readable request, again.             *)
(***************************************************************************)
EXTENDS Naturals, Sequences

CONSTANTS
    Callers,     \* application threads using the source
    Workers,     \* pthread_t values pthread_create can hand out
    Ops,         \* operation codes in requests
    BuiltIn,     \* codes whose handlers Init registers
    UserOps,     \* codes the application registers and unregisters handlers for
    Malformed,   \* a request that does not parse
    Requests,    \* what clients send: codes, possibly Malformed
    MaxPending,  \* bound on the requests queued in the REP socket
    NoThread,    \* lock_ is free
    NoWorker     \* api_thread_id_ == 0

ASSUME SourceAssumption ==
    /\ BuiltIn \subseteq Ops /\ UserOps \subseteq Ops
    /\ Malformed \notin Ops
    /\ Requests \subseteq Ops \cup {Malformed}
    /\ MaxPending \in Nat
    /\ NoThread \notin Callers
    /\ NoWorker \notin Workers

VARIABLES
    init,           \* flags_ & STREAM_SOURCE_FLAG_INIT
    started,        \* flags_ & STREAM_SOURCE_FLAG_STARTED
    waiting_reply,  \* flags_ & STREAM_SOURCE_FLAG_WAITING_REPLY
    lock,           \* holder of lock_ between two steps
    api_thread_id,  \* api_thread_id_
    handlers,       \* codes with an entry in api_handler_map_
    pc,             \* where each caller is
    joining,        \* Stop's local copy of api_thread_id_
    uninit,         \* the caller inside Uninit (not thread safe: exclusive)
    wpc,            \* where each api thread is
    rep,            \* api_socket_: "recv", "send", or "error" after a bad send
    pending         \* requests queued in api_socket_

vars == <<init, started, waiting_reply, lock, api_thread_id, handlers, pc,
          joining, uninit, wpc, rep, pending>>

callerVars == <<handlers, pc, joining, uninit>>
apiVars == <<waiting_reply, rep, pending>>

CallerPC == {"idle", "start_create", "stop_join", "stop_free", "stopped", "uninit"}
WorkerPC == {"none", "test", "poll", "handler", "beat", "exited"}

Running(w) == wpc[w] \notin {"none", "exited"}

TypeOK ==
    /\ init \in BOOLEAN
    /\ started \in BOOLEAN
    /\ waiting_reply \in BOOLEAN
    /\ lock \in Callers \cup {NoThread}
    /\ api_thread_id \in Workers \cup {NoWorker}
    /\ handlers \in SUBSET Ops
    /\ pc \in [Callers -> CallerPC]
    /\ joining \in [Callers -> Workers \cup {NoWorker}]
    /\ uninit \in Callers \cup {NoThread}
    /\ wpc \in [Workers -> WorkerPC]
    /\ rep \in {"recv", "send", "error"}
    /\ pending \in Seq(Requests)

Init ==
    /\ init = FALSE /\ started = FALSE /\ waiting_reply = FALSE
    /\ lock = NoThread
    /\ api_thread_id = NoWorker
    /\ handlers = {}
    /\ pc = [t \in Callers |-> "idle"]
    /\ joining = [t \in Callers |-> NoWorker]
    /\ uninit = NoThread
    /\ wpc = [w \in Workers |-> "none"]
    /\ rep = "recv"
    /\ pending = <<>>

-----------------------------------------------------------------------------
(* Application threads *)

Enter(t) == pc[t] = "idle" /\ uninit = NoThread
LockFree == lock = NoThread
Alone == uninit = NoThread /\ \A u \in Callers : pc[u] = "idle"

\* Init: sockets created and the five built-in handlers registered.
SourceInit(t) ==
    /\ Alone /\ pc[t] = "idle" /\ ~init
    /\ init' = TRUE
    /\ handlers' = handlers \cup BuiltIn
    /\ rep' = "recv" /\ pending' = <<>>
    /\ UNCHANGED <<started, waiting_reply, lock, api_thread_id, pc, joining,
                   uninit, wpc>>

\* Start may create a thread: not started, and nobody is still stopping.
\* (Variant: the BUSY check on api_thread_id_ is missing.)
CanStartAfterAnyStop == ~started
CanStart == ~started /\ api_thread_id = NoWorker

\* Start: the flag is set before the thread is created; lock_ stays held.
StartFlag(t) ==
    /\ Enter(t) /\ init /\ LockFree /\ CanStart
    /\ started' = TRUE
    /\ lock' = t
    /\ pc' = [pc EXCEPT ![t] = "start_create"]
    /\ UNCHANGED <<init, api_thread_id, handlers, joining, uninit, wpc, apiVars>>

\* Start: pthread_create succeeds and the guard releases lock_.
StartCreate(t, w) ==
    /\ pc[t] = "start_create" /\ wpc[w] = "none"
    /\ api_thread_id' = w
    /\ wpc' = [wpc EXCEPT ![w] = "test"]
    /\ lock' = NoThread
    /\ pc' = [pc EXCEPT ![t] = "idle"]
    /\ UNCHANGED <<init, started, handlers, joining, uninit, apiVars>>

\* The flag after a failed pthread_create. (Variant: it is left set.)
FlagLeftSet == TRUE
FlagAfterFailure == FALSE

\* api_thread_id_ after a failed pthread_create, which leaves its result
\* undefined.
IdAfterFailure == NoWorker

\* Start: pthread_create fails and the flag is taken back.
StartFails(t) ==
    /\ pc[t] = "start_create"
    /\ started' = FlagAfterFailure
    /\ api_thread_id' = IdAfterFailure
    /\ lock' = NoThread
    /\ pc' = [pc EXCEPT ![t] = "idle"]
    /\ UNCHANGED <<init, handlers, joining, uninit, wpc, apiVars>>

\* Stop: the flag is cleared under lock_, the id copied, lock_ released.
StopBegin(t) ==
    /\ Enter(t) /\ init /\ LockFree /\ started
    /\ started' = FALSE
    /\ joining' = [joining EXCEPT ![t] = api_thread_id]
    /\ pc' = [pc EXCEPT ![t] = "stop_join"]
    /\ UNCHANGED <<init, lock, api_thread_id, handlers, uninit, wpc, apiVars>>

\* Stop returns at once when the flag is clear.
StopNotStarted(t) ==
    /\ Enter(t) /\ init /\ LockFree /\ ~started
    /\ pc' = [pc EXCEPT ![t] = "stopped"]
    /\ UNCHANGED <<init, started, lock, api_thread_id, handlers, joining,
                   uninit, wpc, apiVars>>

\* pthread_join in Stop; the thread's resources are reclaimed.
StopJoin(t) ==
    /\ pc[t] = "stop_join" /\ wpc[joining[t]] = "exited"
    /\ wpc' = [wpc EXCEPT ![joining[t]] = "none"]
    /\ pc' = [pc EXCEPT ![t] = "stop_free"]
    /\ UNCHANGED <<init, started, lock, api_thread_id, handlers, joining,
                   uninit, apiVars>>

\* Stop, the rest: api_thread_id_ = 0 under lock_.
StopFree(t) ==
    /\ pc[t] = "stop_free" /\ LockFree
    /\ api_thread_id' = NoWorker
    /\ joining' = [joining EXCEPT ![t] = NoWorker]
    /\ pc' = [pc EXCEPT ![t] = IF uninit = t THEN "uninit" ELSE "stopped"]
    /\ UNCHANGED <<init, started, lock, handlers, uninit, wpc, apiVars>>

\* Stop has returned; the application goes on.
StopReturn(t) ==
    /\ pc[t] = "stopped"
    /\ pc' = [pc EXCEPT ![t] = "idle"]
    /\ UNCHANGED <<init, started, lock, api_thread_id, handlers, joining,
                   uninit, wpc, apiVars>>

\* The handler table may change at any time, also while a request is served.
RegisterApiHandler(t, op) ==
    /\ Enter(t) /\ init /\ LockFree
    /\ handlers' = handlers \cup {op}
    /\ UNCHANGED <<init, started, lock, api_thread_id, pc, joining, uninit,
                   wpc, apiVars>>

UnregisterApiHandler(t, op) ==
    /\ Enter(t) /\ init /\ LockFree
    /\ handlers' = handlers \ {op}
    /\ UNCHANGED <<init, started, lock, api_thread_id, pc, joining, uninit,
                   wpc, apiVars>>

\* Uninit calls Stop first, then tears the handlers and sockets down.
UninitBegin(t) ==
    /\ Alone /\ init
    /\ uninit' = t
    /\ started' = FALSE
    /\ joining' = [joining EXCEPT ![t] = IF started THEN api_thread_id ELSE @]
    /\ pc' = [pc EXCEPT ![t] = IF started THEN "stop_join" ELSE "uninit"]
    /\ UNCHANGED <<init, lock, api_thread_id, handlers, wpc, apiVars>>

UninitEnd(t) ==
    /\ pc[t] = "uninit"
    /\ init' = FALSE
    /\ handlers' = {}
    /\ uninit' = NoThread
    /\ pc' = [pc EXCEPT ![t] = "idle"]
    /\ UNCHANGED <<started, lock, api_thread_id, joining, wpc, apiVars>>

-----------------------------------------------------------------------------
(* The api thread: InternalRoutine *)

WorkerUnchanged == UNCHANGED <<init, started, lock, api_thread_id, callerVars>>

\* The loop condition, read without lock_. (Variant: testing INIT instead.)
LoopWhileInit == init
LoopCondition == started

\* One evaluation of the loop condition.
WorkerTest(w) ==
    /\ wpc[w] = "test"
    /\ wpc' = [wpc EXCEPT ![w] = IF LoopCondition THEN "poll" ELSE "exited"]
    /\ UNCHANGED apiVars /\ WorkerUnchanged

\* zpoller_wait returns nothing or the wakeup message.
WorkerIdle(w) ==
    /\ wpc[w] = "poll"
    /\ wpc' = [wpc EXCEPT ![w] = "beat"]
    /\ UNCHANGED apiVars /\ WorkerUnchanged

\* zmsg_send on the REP socket (external).
RepSend == rep' = IF rep = "send" THEN "recv" ELSE "error"

\* SendRpcReply: refused unless a reply is being waited for. (Variant: the
\* flag is left set after the reply.)
SendRpcReplyKeepFlag ==
    IF waiting_reply THEN UNCHANGED waiting_reply /\ RepSend
    ELSE UNCHANGED <<waiting_reply, rep>>
SendRpcReply ==
    IF waiting_reply THEN waiting_reply' = FALSE /\ RepSend
    ELSE UNCHANGED <<waiting_reply, rep>>

\* OnApiSocketRead and OnRpcRequest, request with a handler: the flag is set
\* under lock_ and the handler's entry copied.
OnRpcRequest(w) ==
    /\ wpc[w] = "poll" /\ rep = "recv" /\ pending # <<>> /\ LockFree
    /\ Head(pending) \in handlers
    /\ pending' = Tail(pending)
    /\ rep' = "send"
    /\ waiting_reply' = TRUE
    /\ wpc' = [wpc EXCEPT ![w] = "handler"]
    /\ WorkerUnchanged

\* OnApiSocketRead and OnRpcRequest, no handler or no parse: SendRpcReply is
\* called with the flag as it is (the receive has put rep into "send").
OnRpcRequestRejected(w) ==
    /\ wpc[w] = "poll" /\ rep = "recv" /\ pending # <<>> /\ LockFree
    /\ Head(pending) \notin handlers
    /\ pending' = Tail(pending)
    /\ rep' = IF waiting_reply THEN "recv" ELSE "send"
    /\ waiting_reply' = FALSE
    /\ wpc' = [wpc EXCEPT ![w] = "beat"]
    /\ WorkerUnchanged

\* The handler calls SendRpcReply; nothing stops it from calling twice.
HandlerReplies(w) ==
    /\ wpc[w] = "handler" /\ LockFree
    /\ SendRpcReply
    /\ UNCHANGED <<wpc, pending>> /\ WorkerUnchanged

\* The handler returns; a default reply goes out if it sent none. (Variant:
\* the default reply is forgotten.)
NoDefaultReply == UNCHANGED <<waiting_reply, rep>>
DefaultReply == SendRpcReply
HandlerReturns(w) ==
    /\ wpc[w] = "handler" /\ LockFree
    /\ DefaultReply
    /\ wpc' = [wpc EXCEPT ![w] = "beat"]
    /\ UNCHANGED pending /\ WorkerUnchanged

\* Heartbeat, if it is due, runs under lock_.
WorkerHeartbeat(w) ==
    /\ wpc[w] = "beat" /\ LockFree
    /\ wpc' = [wpc EXCEPT ![w] = "test"]
    /\ UNCHANGED apiVars /\ WorkerUnchanged

\* A client's request reaches the REP socket.
RequestArrives(r) ==
    /\ init /\ Len(pending) < MaxPending
    /\ pending' = Append(pending, r)
    /\ UNCHANGED <<init, started, waiting_reply, lock, api_thread_id, wpc, rep,
                   callerVars>>

-----------------------------------------------------------------------------
Worker(w) ==
    \/ WorkerTest(w)
    \/ WorkerIdle(w)
    \/ OnRpcRequest(w)
    \/ OnRpcRequestRejected(w)
    \/ HandlerReplies(w)
    \/ HandlerReturns(w)
    \/ WorkerHeartbeat(w)

StopRest(t) == StopJoin(t) \/ StopFree(t) \/ StopReturn(t)

StartRest(t) == StartFails(t) \/ \E w \in Workers : StartCreate(t, w)

Caller(t) ==
    \/ SourceInit(t)
    \/ StartFlag(t)
    \/ StartRest(t)
    \/ StopBegin(t)
    \/ StopNotStarted(t)
    \/ StopRest(t)
    \/ \E op \in UserOps : RegisterApiHandler(t, op) \/ UnregisterApiHandler(t, op)
    \/ UninitBegin(t)
    \/ UninitEnd(t)

Next ==
    \/ \E t \in Callers : Caller(t)
    \/ \E w \in Workers : Worker(w)
    \/ \E r \in Requests : RequestArrives(r)

\* The scheduler runs every thread that can run, handlers return, and a
\* readable REP socket is reported by zpoller_wait.
Fairness ==
    /\ \A w \in Workers : /\ WF_vars(WorkerTest(w) \/ WorkerHeartbeat(w))
                          /\ WF_vars(WorkerIdle(w))
                          /\ WF_vars(HandlerReturns(w))
                          /\ SF_vars(OnRpcRequest(w))
                          /\ SF_vars(OnRpcRequestRejected(w))
    /\ \A t \in Callers : WF_vars(StopRest(t) \/ StartRest(t) \/ UninitEnd(t))

Spec == Init /\ [][Next]_vars /\ Fairness

-----------------------------------------------------------------------------
(* The inductive invariants *)

\* Who is between clearing or setting the flag and the end of its call.
Busy(t) == pc[t] \in {"start_create", "stop_join", "stop_free"}

\* lock_ is held between two steps exactly by a Start that set the flag and
\* has yet to create the thread.
LockInv ==
    \A t \in Callers : /\ pc[t] = "start_create" => lock = t
                       /\ lock = t => pc[t] = "start_create"

BusyInv ==
    /\ \A t, u \in Callers : Busy(t) /\ Busy(u) => t = u
    /\ \A t \in Callers : Busy(t) => init
    /\ \A t \in Callers : pc[t] = "start_create" => started /\ api_thread_id = NoWorker
    /\ \A t \in Callers : pc[t] \in {"stop_join", "stop_free"} =>
           ~started /\ api_thread_id # NoWorker

JoinInv ==
    \A t \in Callers :
        /\ pc[t] = "stop_join" => joining[t] = api_thread_id
        /\ pc[t] = "stop_free" => \A w \in Workers : wpc[w] = "none"

IdInv ==
    /\ started => init
    /\ started /\ lock = NoThread => api_thread_id # NoWorker
    /\ api_thread_id # NoWorker => started \/ \E t \in Callers : Busy(t)
    /\ \A w \in Workers : wpc[w] # "none" => init /\ api_thread_id = w

\* A thread exits only after somebody cleared the flag for good.
ExitInv ==
    /\ \A w \in Workers : started => wpc[w] # "exited"
    /\ started /\ lock = NoThread => \E w \in Workers : wpc[w] # "none"

UninitInv ==
    /\ \A t \in Callers : pc[t] = "uninit" => uninit = t /\ api_thread_id = NoWorker
    /\ \A t \in Callers : uninit = t =>
           init /\ ~started /\ pc[t] \in {"stop_join", "stop_free", "uninit"}
    /\ \A t, u \in Callers : uninit = t /\ u # t => pc[u] = "idle"

\* The flag is set only while a handler runs and the REP socket awaits a send.
ReplyInv ==
    /\ rep # "error"
    /\ waiting_reply => rep = "send" /\ \E w \in Workers : wpc[w] = "handler"

SourceInv ==
    LockInv /\ BusyInv /\ JoinInv /\ IdInv /\ ExitInv /\ UninitInv /\ ReplyInv

-----------------------------------------------------------------------------
(* Properties *)

\* The source as the application that owns it sees it.
Phase == IF api_thread_id = NoWorker THEN "stopped"
         ELSE IF started THEN "running" ELSE "stopping"
InHandler == \E w \in Workers : wpc[w] = "handler"
Service == INSTANCE WorkerService WITH phase <- Phase, busy <- InHandler

(***************************************************************************)
(* StreamSource implements WorkerService: API handlers never overlap, and  *)
(* none is running or begins between the end of a Stop and the next Start, *)
(* although the api thread reads flags_ without lock_.                     *)
(***************************************************************************)
LifeCycle == Service!Spec

(***************************************************************************)
(* No api thread is leaked or doubled: every one that runs belongs to an   *)
(* initialised source and is the one api_thread_id_ names.                 *)
(***************************************************************************)
WorkerOwned == \A w \in Workers : Running(w) => init /\ api_thread_id = w

(***************************************************************************)
(* stsw_stream_source.h on Start: a source that is started has its thread, *)
(* also after failed thread creations and overlapping Starts and Stops.    *)
(***************************************************************************)
StartedHasWorker ==
    started /\ lock = NoThread => \E w \in Workers : Running(w)

(***************************************************************************)
(* The WAITING_REPLY flag never promises a reply the REP socket cannot     *)
(* take: SendRpcReply sends exactly once per request however often the     *)
(* handler calls it, and never out of turn.                                *)
(***************************************************************************)
ReplyInTurn == rep # "error" /\ (waiting_reply => rep = "send")

(***************************************************************************)
(* "OnRpcRequest ensure that a reply for the given request must be send    *)
(* back by SendRpcReply()": when the api thread polls again, the request   *)
(* it took has been answered. A REP socket left in the send state never    *)
(* reports another request.                                                *)
(***************************************************************************)
RepliedBeforePoll == \A w \in Workers : wpc[w] \in {"test", "poll"} => rep = "recv"

(***************************************************************************)
(* A request with a built-in handler that is next in line on a REP socket  *)
(* able to receive is taken up, unless the source is stopped, and what is  *)
(* taken up by a handler is answered although the handler may reply twice, *)
(* or not at all, and Stop may be called meanwhile.                        *)
(***************************************************************************)
BuiltInWaiting ==
    started /\ rep = "recv" /\ pending # <<>> /\ Head(pending) \in BuiltIn
Serving == \E w \in Workers : wpc[w] = "handler"
RequestsServed ==
    /\ BuiltInWaiting ~> Serving \/ ~started
    /\ Serving ~> rep = "recv"

(***************************************************************************)
(* A Stop that waits for the api thread returns, also when it is called    *)
(* while a request is being served.                                        *)
(***************************************************************************)
StopReturns ==
    \A t \in Callers : pc[t] = "stop_join" ~> pc[t] \in {"stopped", "uninit"}
=============================================================================
