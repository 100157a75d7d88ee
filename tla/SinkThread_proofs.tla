------------------------- MODULE SinkThread_proofs --------------------------
(***************************************************************************)
(* TLAPS proofs about SinkThread, for any number of caller threads, thread *)
(* ids and channels.                                                       *)
(***************************************************************************)
EXTENDS SinkThread, TLAPS

(***************************************************************************)
(* Type correctness: in particular subscriber_socket_ is always NULL or an *)
(* open socket, never a freed one.                                         *)
(***************************************************************************)
THEOREM SinkTypeCorrect == Spec => []TypeOK
<1> USE SinkAssumption DEF TypeOK, CallerPC, WorkerPC
<1>1. Init => TypeOK
  <2> SUFFICES ASSUME Init PROVE TypeOK
    OBVIOUS
  <2>1. init \in BOOLEAN /\ started \in BOOLEAN
    BY DEF Init
  <2>2. QED
    BY <2>1 DEF Init
<1>2. TypeOK /\ [Next]_vars => TypeOK'
  <2> SUFFICES ASSUME TypeOK, [Next]_vars PROVE TypeOK'
    OBVIOUS
  <2> USE DEF socketVars, threadVars, PollersLoseSocket, DestroySocket
  <2>1. ASSUME NEW t \in Callers, Caller(t) PROVE TypeOK'
    <3>1. CASE InitBase(t)
      BY <3>1 DEF InitBase
    <3>2. ASSUME NEW w \in Workers, StartCreate(t, w) PROVE TypeOK'
      BY <3>2 DEF StartCreate, CreateSubscriberSocket
    <3>3. CASE StartFlag(t)
      BY <3>3 DEF StartFlag
    <3>4. CASE StartFails(t)
      BY <3>4 DEF StartFails
    <3>5. CASE StopBegin(t)
      BY <3>5 DEF StopBegin, StopTarget
    <3>6. CASE StopNotStarted(t)
      BY <3>6 DEF StopNotStarted
    <3>7. CASE StopJoin(t)
      BY <3>7 DEF StopJoin
    <3>8. CASE StopFree(t)
      BY <3>8 DEF StopFree
    <3>9. CASE StopReturn(t)
      BY <3>9 DEF StopReturn
    <3>10. CASE DestroySubscriberSocket(t)
      BY <3>10 DEF DestroySubscriberSocket
    <3>11. ASSUME NEW c \in Channels,
                  RegisterSubHandler(t, c) \/ UnregisterSubHandler(t, c)
           PROVE TypeOK'
      BY <3>11 DEF RegisterSubHandler, UnregisterSubHandler
    <3>12. CASE UninitBegin(t)
      BY <3>12 DEF UninitBegin, StopTarget
    <3>13. CASE UninitEnd(t)
      BY <3>13 DEF UninitEnd
    <3>14. QED
      BY <2>1, <3>1, <3>2, <3>3, <3>4, <3>5, <3>6, <3>7, <3>8, <3>9, <3>10,
         <3>11, <3>12, <3>13 DEF Caller, StopRest
  <2>2. ASSUME NEW w \in Workers, Worker(w) PROVE TypeOK'
    BY <2>2 DEF Worker, WorkerBegin, WorkerTest, WorkerIdle, OnSubRead,
                OnSubReadNull, HandlerReturns, WorkerHeartbeat, WorkerUnchanged
  <2>3. CASE UNCHANGED vars
    BY <2>3 DEF vars
  <2>4. QED
    BY <2>1, <2>2, <2>3 DEF Next, Ended
<1>3. QED
  BY <1>1, <1>2, PTL DEF Spec

(***************************************************************************)
(* SinkInv is inductive, relative to the types.                            *)
(***************************************************************************)
LEMMA SinkInvInit == Init => SinkInv
BY SinkAssumption DEF Init, SinkInv, LockInv, BusyInv, JoinInv, IdInv, UninitInv, Busy

LEMMA SinkInvCaller ==
    ASSUME TypeOK, SinkInv, NEW t \in Callers, Caller(t)
    PROVE  SinkInv'
<1> USE SinkAssumption DEF TypeOK, CallerPC, WorkerPC, Busy, socketVars, threadVars
<1> USE DEF SinkInv, LockInv, BusyInv, JoinInv, IdInv, UninitInv
<1> USE DEF Enter, LockFree, Alone, CanStart
<1>1. CASE InitBase(t)
  BY <1>1 DEF InitBase
<1>2. ASSUME NEW w \in Workers, StartCreate(t, w) PROVE SinkInv'
  BY <1>2 DEF StartCreate
<1>3. CASE StartFlag(t)
  BY <1>3 DEF StartFlag
<1>4. CASE StartFails(t)
  BY <1>4 DEF StartFails
<1>5. CASE StopBegin(t)
  BY <1>5 DEF StopBegin, StopTarget
<1>6. CASE StopNotStarted(t)
  BY <1>6 DEF StopNotStarted
<1>7. CASE StopJoin(t)
  BY <1>7 DEF StopJoin, JoinReturns
<1>8. CASE StopFree(t)
  BY <1>8 DEF StopFree
<1>9. CASE StopReturn(t)
  BY <1>9 DEF StopReturn
<1>10. CASE DestroySubscriberSocket(t)
  BY <1>10 DEF DestroySubscriberSocket
<1>11. ASSUME NEW c \in Channels,
              RegisterSubHandler(t, c) \/ UnregisterSubHandler(t, c)
       PROVE SinkInv'
  BY <1>11 DEF RegisterSubHandler, UnregisterSubHandler
<1>12. CASE UninitBegin(t)
  BY <1>12 DEF UninitBegin, StopTarget
<1>13. CASE UninitEnd(t)
  BY <1>13 DEF UninitEnd
<1>14. QED
  BY <1>1, <1>2, <1>3, <1>4, <1>5, <1>6, <1>7, <1>8, <1>9, <1>10,
     <1>11, <1>12, <1>13 DEF Caller, StopRest

LEMMA SinkInvWorker ==
    ASSUME TypeOK, SinkInv, NEW w \in Workers, Worker(w)
    PROVE  SinkInv'
BY SinkAssumption
   DEF TypeOK, CallerPC, WorkerPC, Busy, SinkInv, LockInv, BusyInv, JoinInv,
       IdInv, UninitInv, Worker, WorkerBegin, WorkerTest, WorkerIdle, OnSubRead,
       OnSubReadNull, HandlerReturns, WorkerHeartbeat, WorkerUnchanged

THEOREM SinkInvariant == Spec => []SinkInv
<1>1. Init => SinkInv
  BY SinkInvInit
<1>2. TypeOK /\ SinkInv /\ [Next]_vars => SinkInv'
  <2> SUFFICES ASSUME TypeOK, SinkInv, [Next]_vars PROVE SinkInv'
    OBVIOUS
  <2>1. CASE UNCHANGED vars
    BY <2>1 DEF vars, SinkInv, LockInv, BusyInv, JoinInv, IdInv, UninitInv, Busy
  <2>2. QED
    BY <2>1, SinkInvCaller, SinkInvWorker DEF Next, Ended
<1>3. QED
  BY <1>1, <1>2, SinkTypeCorrect, PTL DEF Spec

(***************************************************************************)
(* No worker thread of StreamSink is ever leaked or doubled, however many  *)
(* threads call Start, Stop and Uninit.                                    *)
(***************************************************************************)
THEOREM SinkWorkerOwned == Spec => []WorkerOwned
<1>1. SinkInv => WorkerOwned
  BY DEF SinkInv, IdInv, WorkerOwned, Running
<1>2. QED
  BY <1>1, SinkInvariant, PTL

(***************************************************************************)
(* The poller of a live worker holds an open subscriber socket, except     *)
(* while a Stop waits for that worker: only then can another thread's      *)
(* DestroySubscriberSocket destroy it.                                     *)
(***************************************************************************)
THEOREM SinkSocketLost == Spec => []SocketLostOnlyInStop
<1>1. Init => PollerInv
  BY DEF Init, PollerInv, Running
<1>2. TypeOK /\ SinkInv /\ PollerInv /\ [Next]_vars => PollerInv'
  <2> SUFFICES ASSUME TypeOK, SinkInv, PollerInv, [Next]_vars PROVE PollerInv'
    OBVIOUS
  <2> USE SinkAssumption DEF TypeOK, CallerPC, WorkerPC, PollerInv, JoinAwaited, Running
  <2>0. ASSUME worker_thread_id = NoWorker \/ \E t \in Callers : pc[t] = "stop_free"
        PROVE  \A w \in Workers : polled[w] = "none" /\ wpc[w] = "none"
    BY <2>0 DEF SinkInv, IdInv, JoinInv, Busy
  <2>1. ASSUME NEW t \in Callers, Caller(t) PROVE PollerInv'
    <3> USE DEF socketVars, threadVars, PollersLoseSocket, DestroySocket, Enter, Alone
    <3>1. CASE InitBase(t)
      BY <3>1 DEF InitBase
    <3>2. ASSUME NEW w \in Workers, StartCreate(t, w) PROVE PollerInv'
      BY <3>2, <2>0 DEF StartCreate, CreateSubscriberSocket, CanStart
    <3>3. CASE StartFlag(t)
      BY <3>3 DEF StartFlag
    <3>4. CASE StartFails(t)
      BY <3>4, <2>0 DEF StartFails, CanStart
    <3>5. CASE StopBegin(t)
      BY <3>5 DEF StopBegin
    <3>6. CASE StopNotStarted(t)
      BY <3>6 DEF StopNotStarted
    <3>7. CASE StopJoin(t)
      BY <3>7 DEF StopJoin, JoinReturns
    <3>8. CASE StopFree(t)
      BY <3>8, <2>0 DEF StopFree
    <3>9. CASE StopReturn(t)
      BY <3>9 DEF StopReturn
    <3>10. CASE DestroySubscriberSocket(t)
      <4>1. ASSUME NEW w \in Workers, Running(w)
            PROVE  \E u \in Callers : pc[u] = "stop_join" /\ joining[u] = w
        <5>1. worker_thread_id = w /\ ~started /\ wpc[w] # "none"
          BY <3>10, <4>1 DEF DestroySubscriberSocket, SinkInv, IdInv
        <5>2. PICK u \in Callers : Busy(u)
          BY <5>1 DEF SinkInv, IdInv
        <5>3. pc[u] = "stop_join"
          BY <3>10, <5>1, <5>2 DEF DestroySubscriberSocket, LockFree, Busy, SinkInv,
                                   LockInv, JoinInv
        <5>4. QED
          BY <5>1, <5>3 DEF SinkInv, JoinInv
      <4>2. QED
        BY <3>10, <4>1 DEF DestroySubscriberSocket
    <3>11. ASSUME NEW c \in Channels,
                  RegisterSubHandler(t, c) \/ UnregisterSubHandler(t, c)
           PROVE PollerInv'
      BY <3>11 DEF RegisterSubHandler, UnregisterSubHandler
    <3>12. CASE UninitBegin(t)
      BY <3>12 DEF UninitBegin
    <3>13. CASE UninitEnd(t)
      BY <3>13, <2>0 DEF UninitEnd, SinkInv, UninitInv
    <3>14. QED
      BY <2>1, <3>1, <3>2, <3>3, <3>4, <3>5, <3>6, <3>7, <3>8, <3>9, <3>10,
         <3>11, <3>12, <3>13 DEF Caller, StopRest
  <2>2. ASSUME NEW w \in Workers, Worker(w) PROVE PollerInv'
    BY <2>2 DEF Worker, WorkerBegin, WorkerTest, WorkerIdle, OnSubRead,
                OnSubReadNull, HandlerReturns, WorkerHeartbeat, WorkerUnchanged
  <2>3. CASE UNCHANGED vars
    BY <2>3 DEF vars
  <2>4. QED
    BY <2>1, <2>2, <2>3 DEF Next, Ended
<1>3. PollerInv => SocketLostOnlyInStop
  BY DEF PollerInv, SocketLostOnlyInStop
<1>4. QED
  BY <1>1, <1>2, <1>3, SinkTypeCorrect, SinkInvariant, PTL DEF Spec

(***************************************************************************)
(* The Stop that cleared STARTED returns only when no worker runs.         *)
(***************************************************************************)
THEOREM SinkStopperWaits == Spec => StopperWaits
<1>1. SinkInv /\ [Next]_vars =>
        [\A t \in Callers : pc[t] = "stop_free" /\ pc'[t] # pc[t] =>
             \A w \in Workers : ~Running(w)]_vars
  BY DEF SinkInv, JoinInv, Running
<1>2. QED
  BY <1>1, SinkInvariant, PTL DEF Spec, StopperWaits
(***************************************************************************)
(* The refinement: every step of a caller or of the worker is a step of    *)
(* the abstract service or leaves it alone.                                *)
(***************************************************************************)
LEMMA SinkCallerServes ==
    ASSUME TypeOK, SinkInv, NEW t \in Callers, Caller(t)
    PROVE  [Service!ServiceNext]_(Service!serviceVars)
<1> USE SinkAssumption DEF TypeOK, CallerPC, WorkerPC, Busy, socketVars, threadVars
<1> USE DEF SinkInv, LockInv, BusyInv, JoinInv, IdInv, UninitInv
<1> USE DEF Enter, LockFree, Alone, CanStart, Phase, InCallback
<1> USE DEF Service!ServiceNext, Service!serviceVars, Service!Started,
            Service!StopRequested, Service!StopCompletes
<1>1. ASSUME wpc' = wpc PROVE InCallback' = InCallback
  BY <1>1
<1>2. CASE InitBase(t) \/ StartFails(t) \/ StopNotStarted(t) \/ StopReturn(t)
           \/ DestroySubscriberSocket(t) \/ UninitEnd(t)
           \/ \E c \in Channels : RegisterSubHandler(t, c) \/ UnregisterSubHandler(t, c)
  <2>1. Phase' = Phase
    BY <1>2 DEF InitBase, StartFails, StopNotStarted, StopReturn,
                DestroySubscriberSocket, UninitEnd, RegisterSubHandler,
                UnregisterSubHandler
  <2>2. wpc' = wpc
    BY <1>2 DEF InitBase, StartFails, StopNotStarted, StopReturn,
                DestroySubscriberSocket, UninitEnd, RegisterSubHandler,
                UnregisterSubHandler
  <2>3. QED
    BY <1>1, <2>1, <2>2
<1>3. ASSUME NEW w \in Workers, StartCreate(t, w) PROVE Service!Started
  <2>1. InCallback' = InCallback
    BY <1>3 DEF StartCreate
  <2>2. Phase = "stopped" /\ Phase' = "running"
    BY <1>3 DEF StartCreate
  <2>3. QED
    BY <2>1, <2>2
<1>4. CASE StartFlag(t)
  <2>1. Phase' = Phase
    BY <1>4 DEF StartFlag
  <2>2. QED
    BY <1>1, <1>4, <2>1 DEF StartFlag
<1>5. CASE StopBegin(t) \/ (UninitBegin(t) /\ started)
  <2>1. Phase = "running" /\ Phase' = "stopping"
    BY <1>5 DEF StopBegin, UninitBegin
  <2>2. QED
    BY <1>1, <1>5, <2>1 DEF StopBegin, UninitBegin
<1>6. CASE UninitBegin(t) /\ ~started
  <2>1. Phase' = Phase
    BY <1>6 DEF UninitBegin
  <2>2. QED
    BY <1>1, <1>6, <2>1 DEF UninitBegin
<1>7. CASE StopJoin(t)
  <2>1. Phase' = Phase
    BY <1>7 DEF StopJoin
  <2>2. InCallback' = InCallback
    BY <1>7 DEF StopJoin, JoinReturns
  <2>3. QED
    BY <2>1, <2>2
<1>8. CASE StopFree(t)
  <2>1. Phase = "stopping" /\ Phase' = "stopped" /\ ~InCallback
    BY <1>8 DEF StopFree
  <2>2. QED
    BY <1>1, <1>8, <2>1 DEF StopFree
<1>9. QED
  BY <1>2, <1>3, <1>4, <1>5, <1>6, <1>7, <1>8 DEF Caller, StopRest

LEMMA SinkWorkerServes ==
    ASSUME TypeOK, SinkInv, NEW w \in Workers, Worker(w)
    PROVE  [Service!ServiceNext]_(Service!serviceVars)
<1> USE SinkAssumption DEF TypeOK, WorkerPC, SinkInv, IdInv, InCallback
<1> USE DEF Service!ServiceNext, Service!serviceVars, Service!CallbackBegins,
            Service!CallbackEnds
<1>1. Phase' = Phase
  BY DEF Worker, WorkerBegin, WorkerTest, WorkerIdle, OnSubRead, OnSubReadNull,
         HandlerReturns, WorkerHeartbeat, WorkerUnchanged, Phase
<1>2. CASE WorkerBegin(w) \/ WorkerTest(w) \/ WorkerIdle(w) \/ WorkerHeartbeat(w)
           \/ OnSubReadNull(w)
  <2>1. InCallback' = InCallback
    BY <1>2 DEF WorkerBegin, WorkerTest, WorkerIdle, OnSubReadNull, WorkerHeartbeat
  <2>2. QED
    BY <1>1, <2>1
<1>3. ASSUME NEW c \in Channels, OnSubRead(w, c)
      PROVE  [Service!ServiceNext]_(Service!serviceVars)
  <2>1. Phase # "stopped" /\ ~InCallback
    BY <1>3 DEF OnSubRead, Phase
  <2>2. CASE c \in handlers
    BY <1>1, <1>3, <2>1, <2>2 DEF OnSubRead
  <2>3. CASE c \notin handlers
    BY <1>1, <1>3, <2>1, <2>3 DEF OnSubRead
  <2>4. QED
    BY <2>2, <2>3
<1>4. CASE HandlerReturns(w)
  <2>1. InCallback /\ ~InCallback'
    BY <1>4 DEF HandlerReturns
  <2>2. QED
    BY <1>1, <2>1
<1>5. QED
  BY <1>2, <1>3, <1>4 DEF Worker

(***************************************************************************)
(* StreamSink implements WorkerService.                                    *)
(***************************************************************************)
THEOREM SinkImplementsService == Spec => LifeCycle
<1>1. Init => Service!ServiceInit
  BY SinkAssumption DEF Init, Service!ServiceInit, Phase, InCallback
<1>2. TypeOK /\ SinkInv /\ [Next]_vars => [Service!ServiceNext]_(Service!serviceVars)
  <2> SUFFICES ASSUME TypeOK, SinkInv, [Next]_vars
               PROVE  [Service!ServiceNext]_(Service!serviceVars)
    OBVIOUS
  <2>1. CASE vars' = vars
    BY <2>1 DEF vars, Service!serviceVars, Phase, InCallback
  <2>2. QED
    BY <2>1, SinkCallerServes, SinkWorkerServes DEF Next, Ended
<1>3. QED
  BY <1>1, <1>2, SinkTypeCorrect, SinkInvariant, PTL DEF Spec, LifeCycle, Service!Spec
=============================================================================
