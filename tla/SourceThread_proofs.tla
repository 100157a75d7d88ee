------------------------ MODULE SourceThread_proofs -------------------------
(***************************************************************************)
(* TLAPS proofs about SourceThread, for any number of caller threads,      *)
(* thread ids, operation codes and queued requests.                        *)
(***************************************************************************)
EXTENDS SourceThread, SequenceTheorems, TLAPS

(***************************************************************************)
(* Type correctness of the source's flags, threads and REP queue.          *)
(***************************************************************************)
THEOREM SourceTypeCorrect == Spec => []TypeOK
<1> USE SourceAssumption DEF TypeOK, CallerPC, WorkerPC
<1>1. Init => TypeOK
  <2> SUFFICES ASSUME Init PROVE TypeOK
    OBVIOUS
  <2>1. init \in BOOLEAN /\ started \in BOOLEAN /\ waiting_reply \in BOOLEAN
    BY DEF Init
  <2>2. QED
    BY <2>1 DEF Init
<1>2. TypeOK /\ [Next]_vars => TypeOK'
  <2> SUFFICES ASSUME TypeOK, [Next]_vars PROVE TypeOK'
    OBVIOUS
  <2> USE DEF callerVars, apiVars
  <2>1. ASSUME NEW t \in Callers, Caller(t) PROVE TypeOK'
    <3>1. CASE SourceInit(t)
      BY <3>1 DEF SourceInit
    <3>2. CASE StartFlag(t)
      BY <3>2 DEF StartFlag
    <3>3. CASE StartRest(t)
      BY <3>3 DEF StartRest, StartCreate, StartFails, FlagAfterFailure, IdAfterFailure
    <3>4. CASE StopBegin(t) \/ StopNotStarted(t)
      BY <3>4 DEF StopBegin, StopNotStarted
    <3>5. CASE StopRest(t)
      BY <3>5 DEF StopRest, StopJoin, StopFree, StopReturn
    <3>6. ASSUME NEW op \in UserOps,
                 RegisterApiHandler(t, op) \/ UnregisterApiHandler(t, op)
          PROVE TypeOK'
      BY <3>6 DEF RegisterApiHandler, UnregisterApiHandler
    <3>7. CASE UninitBegin(t)
      BY <3>7 DEF UninitBegin
    <3>8. CASE UninitEnd(t)
      BY <3>8 DEF UninitEnd
    <3>9. QED
      BY <2>1, <3>1, <3>2, <3>3, <3>4, <3>5, <3>6, <3>7, <3>8 DEF Caller
  <2>2. ASSUME NEW w \in Workers, Worker(w) PROVE TypeOK'
    <3> USE DEF WorkerUnchanged
    <3>1. CASE WorkerTest(w) \/ WorkerIdle(w) \/ WorkerHeartbeat(w)
      BY <3>1 DEF WorkerTest, LoopCondition, WorkerIdle, WorkerHeartbeat
    <3>2. CASE OnRpcRequest(w) \/ OnRpcRequestRejected(w)
      <4>1. Tail(pending) \in Seq(Requests)
        BY <3>2 DEF OnRpcRequest, OnRpcRequestRejected
      <4>2. QED
        BY <3>2, <4>1 DEF OnRpcRequest, OnRpcRequestRejected
    <3>3. CASE HandlerReplies(w) \/ HandlerReturns(w)
      BY <3>3 DEF HandlerReplies, HandlerReturns, DefaultReply, SendRpcReply, RepSend
    <3>4. QED
      BY <2>2, <3>1, <3>2, <3>3 DEF Worker
  <2>3. ASSUME NEW r \in Requests, RequestArrives(r) PROVE TypeOK'
    BY <2>3 DEF RequestArrives
  <2>4. CASE UNCHANGED vars
    BY <2>4 DEF vars
  <2>5. QED
    BY <2>1, <2>2, <2>3, <2>4 DEF Next
<1>3. QED
  BY <1>1, <1>2, PTL DEF Spec

(***************************************************************************)
(* SourceInv is inductive, relative to the types.                          *)
(***************************************************************************)
LEMMA SourceInvInit == Init => SourceInv
BY SourceAssumption
   DEF Init, SourceInv, LockInv, BusyInv, JoinInv, IdInv, ExitInv, UninitInv,
       ReplyInv, Busy

LEMMA SourceInvCaller ==
    ASSUME TypeOK, SourceInv, NEW t \in Callers, Caller(t)
    PROVE  SourceInv'
<1> USE SourceAssumption DEF TypeOK, CallerPC, WorkerPC, Busy, callerVars, apiVars
<1> USE DEF SourceInv, LockInv, BusyInv, JoinInv, IdInv, ExitInv, UninitInv, ReplyInv
<1> USE DEF Enter, LockFree, Alone, CanStart
<1>1. CASE SourceInit(t)
  BY <1>1 DEF SourceInit
<1>2. CASE StartFlag(t)
  BY <1>2 DEF StartFlag
<1>3. ASSUME NEW w \in Workers, StartCreate(t, w) PROVE SourceInv'
  BY <1>3 DEF StartCreate
<1>4. CASE StartFails(t)
  BY <1>4 DEF StartFails, FlagAfterFailure, IdAfterFailure
<1>5. CASE StopBegin(t)
  BY <1>5 DEF StopBegin
<1>6. CASE StopNotStarted(t)
  BY <1>6 DEF StopNotStarted
<1>7. CASE StopJoin(t)
  BY <1>7 DEF StopJoin
<1>8. CASE StopFree(t)
  BY <1>8 DEF StopFree
<1>9. CASE StopReturn(t)
  BY <1>9 DEF StopReturn
<1>10. ASSUME NEW op \in UserOps,
              RegisterApiHandler(t, op) \/ UnregisterApiHandler(t, op)
       PROVE SourceInv'
  BY <1>10 DEF RegisterApiHandler, UnregisterApiHandler
<1>11. CASE UninitBegin(t)
  BY <1>11 DEF UninitBegin
<1>12. CASE UninitEnd(t)
  BY <1>12 DEF UninitEnd
<1>13. QED
  BY <1>1, <1>2, <1>3, <1>4, <1>5, <1>6, <1>7, <1>8, <1>9, <1>10, <1>11, <1>12
     DEF Caller, StopRest, StartRest

LEMMA SourceInvWorker ==
    ASSUME TypeOK, SourceInv, NEW w \in Workers, Worker(w)
    PROVE  SourceInv'
<1> USE SourceAssumption DEF TypeOK, CallerPC, WorkerPC, Busy, callerVars, apiVars
<1> USE DEF SourceInv, LockInv, BusyInv, JoinInv, IdInv, ExitInv, UninitInv, ReplyInv
<1> USE DEF WorkerUnchanged, LockFree
<1>1. CASE WorkerTest(w)
  BY <1>1 DEF WorkerTest, LoopCondition
<1>2. CASE WorkerIdle(w)
  BY <1>2 DEF WorkerIdle
<1>3. CASE OnRpcRequest(w)
  BY <1>3 DEF OnRpcRequest
<1>4. CASE OnRpcRequestRejected(w)
  BY <1>4 DEF OnRpcRequestRejected
<1>5. CASE HandlerReplies(w)
  BY <1>5 DEF HandlerReplies, SendRpcReply, RepSend
<1>6. CASE HandlerReturns(w)
  BY <1>6 DEF HandlerReturns, DefaultReply, SendRpcReply, RepSend
<1>7. CASE WorkerHeartbeat(w)
  BY <1>7 DEF WorkerHeartbeat
<1>8. QED
  BY <1>1, <1>2, <1>3, <1>4, <1>5, <1>6, <1>7 DEF Worker

THEOREM SourceInvariant == Spec => []SourceInv
<1>1. Init => SourceInv
  BY SourceInvInit
<1>2. TypeOK /\ SourceInv /\ [Next]_vars => SourceInv'
  <2> SUFFICES ASSUME TypeOK, SourceInv, [Next]_vars PROVE SourceInv'
    OBVIOUS
  <2> USE DEF SourceInv, LockInv, BusyInv, JoinInv, IdInv, ExitInv, UninitInv,
              ReplyInv, Busy
  <2>1. CASE UNCHANGED vars
    BY <2>1 DEF vars
  <2>2. ASSUME NEW r \in Requests, RequestArrives(r) PROVE SourceInv'
    BY <2>2 DEF RequestArrives, callerVars
  <2>3. QED
    BY <2>1, <2>2, SourceInvCaller, SourceInvWorker DEF Next
<1>3. QED
  BY <1>1, <1>2, SourceTypeCorrect, PTL DEF Spec

(***************************************************************************)
(* No api thread of StreamSource is leaked or doubled, and a started       *)
(* source has one, for any number of threads calling Start and Stop.       *)
(***************************************************************************)
THEOREM SourceWorkerOwned == Spec => []WorkerOwned
<1>1. SourceInv => WorkerOwned
  BY DEF SourceInv, IdInv, WorkerOwned, Running
<1>2. QED
  BY <1>1, SourceInvariant, PTL

THEOREM SourceStartedHasWorker == Spec => []StartedHasWorker
<1>1. SourceInv => StartedHasWorker
  BY DEF SourceInv, ExitInv, StartedHasWorker, Running
<1>2. QED
  BY <1>1, SourceInvariant, PTL

(***************************************************************************)
(* A reply is sent only when the REP socket expects one, whatever handlers *)
(* do and whatever codes are requested, registered or unregistered.        *)
(***************************************************************************)
THEOREM SourceReplyInTurn == Spec => []ReplyInTurn
<1>1. SourceInv => ReplyInTurn
  BY DEF SourceInv, ReplyInv, ReplyInTurn
<1>2. QED
  BY <1>1, SourceInvariant, PTL
(***************************************************************************)
(* The refinement: every step of a caller, of the api thread or of a       *)
(* client is a step of the abstract service or leaves it alone.            *)
(***************************************************************************)
LEMMA SourceCallerServes ==
    ASSUME TypeOK, SourceInv, NEW t \in Callers, Caller(t)
    PROVE  [Service!ServiceNext]_(Service!serviceVars)
<1> USE SourceAssumption DEF TypeOK, CallerPC, WorkerPC, Busy, apiVars
<1> USE DEF SourceInv, LockInv, BusyInv, JoinInv, IdInv, UninitInv
<1> USE DEF Enter, LockFree, Alone, CanStart, Phase, InHandler
<1> USE DEF Service!ServiceNext, Service!serviceVars, Service!Started,
            Service!StopRequested, Service!StopCompletes
<1>1. ASSUME wpc' = wpc PROVE InHandler' = InHandler
  BY <1>1
<1>2. CASE \/ SourceInit(t) \/ StartFlag(t) \/ StartFails(t)
           \/ StopNotStarted(t) \/ StopReturn(t) \/ UninitEnd(t)
           \/ \E op \in UserOps : RegisterApiHandler(t, op) \/ UnregisterApiHandler(t, op)
  <2> USE DEF SourceInit, StartFlag, StartFails, FlagAfterFailure, IdAfterFailure,
              StopNotStarted, StopReturn, UninitEnd, RegisterApiHandler,
              UnregisterApiHandler
  <2>1. Phase' = Phase
    BY <1>2
  <2>2. wpc' = wpc
    BY <1>2
  <2>3. QED
    BY <1>1, <2>1, <2>2
<1>3. ASSUME NEW w \in Workers, StartCreate(t, w) PROVE Service!Started
  <2>1. Phase = "stopped" /\ Phase' = "running"
    BY <1>3 DEF StartCreate
  <2>2. InHandler' = InHandler
    BY <1>3 DEF StartCreate
  <2>3. QED
    BY <2>1, <2>2
<1>4. CASE StopBegin(t) \/ (UninitBegin(t) /\ started)
  <2>1. Phase = "running" /\ Phase' = "stopping"
    BY <1>4 DEF StopBegin, UninitBegin
  <2>2. QED
    BY <1>1, <1>4, <2>1 DEF StopBegin, UninitBegin
<1>5. CASE UninitBegin(t) /\ ~started
  <2>1. Phase' = Phase
    BY <1>5 DEF UninitBegin
  <2>2. QED
    BY <1>1, <1>5, <2>1 DEF UninitBegin
<1>6. CASE StopJoin(t)
  <2>1. Phase' = Phase
    BY <1>6 DEF StopJoin
  <2>2. InHandler' = InHandler
    BY <1>6 DEF StopJoin
  <2>3. QED
    BY <2>1, <2>2
<1>7. CASE StopFree(t)
  <2>1. Phase = "stopping" /\ Phase' = "stopped" /\ ~InHandler
    BY <1>7 DEF StopFree
  <2>2. QED
    BY <1>1, <1>7, <2>1 DEF StopFree
<1>8. QED
  BY <1>2, <1>3, <1>4, <1>5, <1>6, <1>7 DEF Caller, StopRest, StartRest

LEMMA SourceWorkerServes ==
    ASSUME TypeOK, SourceInv, NEW w \in Workers, Worker(w)
    PROVE  [Service!ServiceNext]_(Service!serviceVars)
<1> USE SourceAssumption DEF TypeOK, WorkerPC, SourceInv, IdInv, InHandler
<1> USE DEF Service!ServiceNext, Service!serviceVars, Service!CallbackBegins,
            Service!CallbackEnds
<1>1. Phase' = Phase
  BY DEF Worker, WorkerTest, WorkerIdle, OnRpcRequest, OnRpcRequestRejected,
         HandlerReplies, HandlerReturns, WorkerHeartbeat, WorkerUnchanged, Phase
<1>2. CASE \/ WorkerTest(w) \/ WorkerIdle(w) \/ OnRpcRequestRejected(w)
           \/ HandlerReplies(w) \/ WorkerHeartbeat(w)
  <2>1. InHandler' = InHandler
    BY <1>2 DEF WorkerTest, WorkerIdle, OnRpcRequestRejected, HandlerReplies,
                WorkerHeartbeat
  <2>2. QED
    BY <1>1, <2>1
<1>3. CASE OnRpcRequest(w)
  <2>1. Phase # "stopped" /\ ~InHandler
    BY <1>3 DEF OnRpcRequest, Phase
  <2>2. InHandler'
    BY <1>3 DEF OnRpcRequest
  <2>3. QED
    BY <1>1, <2>1, <2>2
<1>4. CASE HandlerReturns(w)
  <2>1. InHandler /\ ~InHandler'
    BY <1>4 DEF HandlerReturns
  <2>2. QED
    BY <1>1, <2>1
<1>5. QED
  BY <1>2, <1>3, <1>4 DEF Worker

(***************************************************************************)
(* StreamSource implements WorkerService.                                  *)
(***************************************************************************)
THEOREM SourceImplementsService == Spec => LifeCycle
<1>1. Init => Service!ServiceInit
  BY SourceAssumption DEF Init, Service!ServiceInit, Phase, InHandler
<1>2. TypeOK /\ SourceInv /\ [Next]_vars => [Service!ServiceNext]_(Service!serviceVars)
  <2> SUFFICES ASSUME TypeOK, SourceInv, [Next]_vars
               PROVE  [Service!ServiceNext]_(Service!serviceVars)
    OBVIOUS
  <2>1. CASE vars' = vars
    BY <2>1 DEF vars, Service!serviceVars, Phase, InHandler
  <2>2. ASSUME NEW r \in Requests, RequestArrives(r)
        PROVE  UNCHANGED Service!serviceVars
    BY <2>2 DEF RequestArrives, callerVars, Service!serviceVars, Phase, InHandler
  <2>3. QED
    BY <2>1, <2>2, SourceCallerServes, SourceWorkerServes DEF Next
<1>3. QED
  BY <1>1, <1>2, SourceTypeCorrect, SourceInvariant, PTL
     DEF Spec, LifeCycle, Service!Spec
=============================================================================
