---------------------------- MODULE SinkRpc_proofs --------------------------
(***************************************************************************)
(* TLAPS proofs about SinkRpc, for any number of threads, sockets, codes   *)
(* and calls and any width of the sequence number.                         *)
(***************************************************************************)
EXTENDS SinkRpc, TLAPS

LEMMA SeqAfterType ==
    ASSUME next_seq \in 0..SeqMod-1
    PROVE  SeqAfter \in 0..SeqMod-1
BY RpcAssumption DEF SeqAfter

\* Every record built by a step is a Result, a Request or a Reply.
LEMMA ResultType ==
    ASSUME NEW r \in {"none", "ok", "timeout", "error", "null"}, NEW i \in 0..MaxCalls
    PROVE  [ret |-> r, id |-> i] \in Results
BY DEF Results

LEMMA ZeroId == 0 \in 0..MaxCalls
BY RpcAssumption

LEMMA ReplyType ==
    ASSUME NEW i \in 0..MaxCalls, NEW q \in 0..SeqMod-1, NEW c \in Codes, NEW p \in BOOLEAN
    PROVE  [id |-> i, seq |-> q, code |-> c, parses |-> p] \in Reply
BY DEF Reply

\* A thread in the middle of a call has a socket: needed to type what it reads.
HoldInv == \A t \in Threads : Holding(t) => api_socket[t] \in Sockets

LEMMA RpcTypeInit == Init => TypeOK /\ HoldInv
<1> SUFFICES ASSUME Init PROVE TypeOK /\ HoldInv
  OBVIOUS
<1>1. next_seq \in 0..SeqMod-1 /\ calls \in 0..MaxCalls
  BY RpcAssumption, ZeroId DEF Init
<1>2. result \in [Threads -> Results]
  BY ResultType, ZeroId DEF Init, NoResult
<1>3. \A c \in Codes, d \in Timeouts : SomeRequest(c, d) \in Request /\ SomeReply(c) \in Reply
  BY RpcAssumption, ZeroId DEF SomeRequest, SomeReply, Request, Reply
<1>4. QED
  BY <1>1, <1>2, <1>3, RpcAssumption DEF Init, TypeOK, HoldInv, Holding

\* A call draws a sequence number of the right width.
LEMMA RpcTypeCall ==
    ASSUME TypeOK, HoldInv, NEW t \in Threads, NEW c \in Codes, NEW d \in Timeouts,
           Call(t, c, d)
    PROVE  TypeOK' /\ HoldInv'
<1> USE RpcAssumption, ZeroId DEF TypeOK, HoldInv, Holding
<1>1. next_seq' \in 0..SeqMod-1
  BY SeqAfterType DEF Call
<1>2. calls' \in 0..MaxCalls /\ calls + 1 \in 0..MaxCalls
  BY DEF Call
<1>3. [id |-> calls + 1, seq |-> next_seq, code |-> c, timeout |-> d] \in Request
  BY <1>2 DEF Request
<1>4. NoResult \in Results
  BY ResultType DEF NoResult
<1>5. QED
  BY <1>1, <1>2, <1>3, <1>4 DEF Call

\* The later steps of a call, which move its socket between the thread and the cache.
LEMMA RpcTypeProceed ==
    ASSUME TypeOK, HoldInv, NEW t \in Threads, Proceed(t)
    PROVE  TypeOK' /\ HoldInv'
<1> USE RpcAssumption, ZeroId DEF TypeOK, HoldInv, Holding
<1>0. /\ [ret |-> "error", id |-> 0] \in Results
      /\ [ret |-> "timeout", id |-> 0] \in Results
      /\ [ret |-> "null", id |-> 0] \in Results
  BY ResultType
<1>1. CASE Refused(t) \/ CreateFails(t)
  BY <1>0, <1>1 DEF Refused, CreateFails
<1>2. CASE TakeCached(t)
  BY <1>2 DEF TakeCached, CacheTaken
<1>3. ASSUME NEW s \in Sockets, CreateSocket(t, s) PROVE TypeOK' /\ HoldInv'
  BY <1>3 DEF CreateSocket
<1>4. CASE Send(t) \/ Receive(t)
  BY <1>4 DEF Send, Receive
<1>5. CASE Timeout(t) \/ ReceiveInterrupted(t) \/ ParseError(t)
  BY <1>0, <1>5 DEF Timeout, TimeoutDestroys, ReceiveInterrupted, ParseError,
                    DestroyApiSocket
<1>6. CASE CheckReply(t)
  <2>1. reply[api_socket[t]].id \in 0..MaxCalls
    BY <1>6 DEF CheckReply, Reply
  <2>2. result' \in [Threads -> Results]
    BY <1>0, <1>6, <2>1, ResultType DEF CheckReply
  <2>3. QED
    BY <1>6, <2>2 DEF CheckReply
<1>7. CASE CacheSocket(t) \/ CacheFull(t)
  BY <1>7 DEF CacheSocket, CacheFull, SurplusSocket, DestroyApiSocket
<1>8. QED
  BY <1>1, <1>2, <1>3, <1>4, <1>5, <1>6, <1>7 DEF Proceed

\* What the other side puts on the wire is a Reply, whether it answers the request or not.
LEMMA RpcTypeSource ==
    ASSUME TypeOK, HoldInv, Source
    PROVE  TypeOK' /\ HoldInv'
<1> USE DEF TypeOK, HoldInv, Holding
<1>1. ASSUME NEW s \in Sockets, SourceReplies(s) PROVE TypeOK' /\ HoldInv'
  <2>1. [id |-> wire[s].id, seq |-> wire[s].seq, code |-> wire[s].code,
         parses |-> TRUE] \in Reply
    BY ReplyType DEF Request
  <2>2. QED
    BY <1>1, <2>1 DEF SourceReplies
<1>2. ASSUME NEW s \in Sockets, NEW q \in 0..SeqMod-1, NEW c \in Codes,
             NEW p \in BOOLEAN, SourceMisreplies(s, q, c, p)
      PROVE TypeOK' /\ HoldInv'
  <2>1. [id |-> 0, seq |-> q, code |-> c, parses |-> p] \in Reply
    BY ReplyType, ZeroId
  <2>2. QED
    BY <1>2, <2>1 DEF SourceMisreplies
<1>3. QED
  BY <1>1, <1>2 DEF Source

(***************************************************************************)
(* Type correctness: next_seq_ stays within its width and every socket     *)
(* pointer is NULL or a socket.                                            *)
(***************************************************************************)
THEOREM RpcTypeCorrect == Spec => [](TypeOK /\ HoldInv)
<1>1. ASSUME TypeOK /\ HoldInv, [Next]_vars
      PROVE  (TypeOK /\ HoldInv)'
  <2>1. CASE vars' = vars
    BY <1>1, <2>1 DEF vars, TypeOK, HoldInv, Holding
  <2>2. CASE Next
    BY <1>1, <2>2, RpcTypeCall, RpcTypeProceed, RpcTypeSource DEF Next
  <2>3. QED
    BY <1>1, <2>1, <2>2
<1>2. QED
  BY RpcTypeInit, <1>1, PTL DEF Spec

-----------------------------------------------------------------------------
(* The invariant of the socket hand-over, one lemma per group of actions.  *)

LEMMA RpcInvInit == Init => RpcInv
BY RpcAssumption
   DEF Init, RpcInv, SocketExclusive, CacheIdle, NoSocketLeak, OwnReply,
       SocketStateInv, WireInv, Holding, NoResult

\* Only the caller's own request, result and pc change.
LEMMA RpcInvCall ==
    ASSUME TypeOK, RpcInv, NEW t \in Threads,
           (\E c \in Codes, d \in Timeouts : Call(t, c, d)) \/ Refused(t) \/ CreateFails(t)
    PROVE  RpcInv'
<1> USE DEF TypeOK, RpcInv, Holding
<1>1. /\ UNCHANGED <<last_api_socket, api_socket, state, wire, reply>>
      /\ pc[t] \in {"idle", "take"}
      /\ pc'[t] \in {"idle", "take"} /\ result'[t].ret # "ok"
      /\ \A u \in Threads : u # t => /\ pc'[u] = pc[u] /\ request'[u] = request[u]
                                    /\ result'[u] = result[u]
  BY DEF Call, Refused, CreateFails, NoResult
<1>2. (SocketExclusive /\ CacheIdle /\ NoSocketLeak)'
  BY <1>1 DEF SocketExclusive, CacheIdle, NoSocketLeak
<1>3. OwnReply'
  BY <1>1 DEF OwnReply
<1>4. (SocketStateInv /\ WireInv)'
  BY <1>1 DEF SocketStateInv, WireInv
<1>5. QED
  BY <1>2, <1>3, <1>4

\* A call gets a socket nobody else has.
LEMMA RpcInvTake ==
    ASSUME TypeOK, RpcInv, NEW t \in Threads,
           TakeCached(t) \/ \E s \in Sockets : CreateSocket(t, s)
    PROVE  RpcInv'
<1> USE RpcAssumption DEF TypeOK, RpcInv, Holding, SocketExclusive, CacheIdle,
                          NoSocketLeak, OwnReply, SocketStateInv, WireInv
<1>1. CASE TakeCached(t)
  BY <1>1 DEF TakeCached, CacheTaken
<1>2. ASSUME NEW s \in Sockets, CreateSocket(t, s) PROVE RpcInv'
  BY <1>2 DEF CreateSocket
<1>3. QED
  BY <1>1, <1>2

\* The holder sends and receives on its socket; nobody else's socket changes.
LEMMA RpcInvUse ==
    ASSUME TypeOK, RpcInv, NEW t \in Threads, Send(t) \/ Receive(t) \/ CheckReply(t)
    PROVE  RpcInv'
<1> USE RpcAssumption DEF TypeOK, RpcInv, Holding, SocketExclusive, CacheIdle,
            NoSocketLeak, OwnReply, SocketStateInv, WireInv
<1>1. CASE Send(t)
  BY <1>1 DEF Send
<1>2. CASE Receive(t)
  BY <1>2 DEF Receive
<1>3. CASE CheckReply(t)
  BY <1>3 DEF CheckReply, HeaderMatches, Answers
<1>4. QED
  BY <1>1, <1>2, <1>3

\* The holder gives its socket up.
LEMMA RpcInvGiveUp ==
    ASSUME TypeOK, RpcInv, NEW t \in Threads,
           \/ Timeout(t) \/ ReceiveInterrupted(t) \/ ParseError(t)
           \/ CacheSocket(t) \/ CacheFull(t)
    PROVE  RpcInv'
<1> USE RpcAssumption DEF TypeOK, RpcInv, Holding, SocketExclusive, CacheIdle,
                          NoSocketLeak, OwnReply, SocketStateInv, WireInv
<1>1. CASE Timeout(t) \/ ReceiveInterrupted(t) \/ ParseError(t)
  BY <1>1 DEF Timeout, TimeoutDestroys, ReceiveInterrupted, ParseError, DestroyApiSocket
<1>2. CASE CacheSocket(t)
  BY <1>2 DEF CacheSocket
<1>3. CASE CacheFull(t)
  BY <1>3 DEF CacheFull, SurplusSocket, DestroyApiSocket
<1>4. QED
  BY <1>1, <1>2, <1>3

\* A reply changes only a socket whose holder waits.
LEMMA RpcInvSource ==
    ASSUME TypeOK, RpcInv, Source
    PROVE  RpcInv'
<1> USE RpcAssumption DEF TypeOK, RpcInv, Holding, SocketExclusive, CacheIdle,
            NoSocketLeak, OwnReply, SocketStateInv, WireInv, Answers
<1>1. ASSUME NEW s \in Sockets, SourceReplies(s) PROVE RpcInv'
  BY <1>1 DEF SourceReplies
<1>2. ASSUME NEW s \in Sockets, NEW q \in 0..SeqMod-1, NEW c \in Codes,
             NEW p \in BOOLEAN, SourceMisreplies(s, q, c, p)
      PROVE RpcInv'
  BY <1>2 DEF SourceMisreplies
<1>3. QED
  BY <1>1, <1>2 DEF Source

(***************************************************************************)
(* RpcInv is an inductive invariant: whatever order threads, timeouts and  *)
(* replies come in, sockets are exclusive, cached sockets idle, none       *)
(* leaks, and accepted replies are the caller's own.                       *)
(***************************************************************************)
THEOREM RpcInvariant == Spec => []RpcInv
<1>1. TypeOK /\ RpcInv /\ [Next]_vars => RpcInv'
  <2> SUFFICES ASSUME TypeOK, RpcInv, [Next]_vars PROVE RpcInv'
    OBVIOUS
  <2>1. ASSUME NEW t \in Threads,
               Proceed(t) \/ \E c \in Codes, d \in Timeouts : Call(t, c, d)
        PROVE RpcInv'
    BY <2>1, RpcInvCall, RpcInvTake, RpcInvUse, RpcInvGiveUp DEF Proceed
  <2>2. CASE UNCHANGED vars
    BY <2>2 DEF vars, RpcInv, Holding, SocketExclusive, CacheIdle, NoSocketLeak,
                OwnReply, SocketStateInv, WireInv, Answers
  <2>3. QED
    BY <2>1, <2>2, RpcInvSource DEF Next
<1>2. QED
  BY <1>1, RpcInvInit, RpcTypeCorrect, PTL DEF Spec

(***************************************************************************)
(* SendRpcRequest never returns another request's reply.                   *)
(***************************************************************************)
THEOREM RpcOwnReply == Spec => []OwnReply
<1>1. RpcInv => OwnReply
  BY DEF RpcInv
<1>2. QED
  BY <1>1, RpcInvariant, PTL

(***************************************************************************)
(* No REQ socket is shared by two calls, leaked, or cached in use.         *)
(***************************************************************************)
THEOREM RpcSockets == Spec => [](SocketExclusive /\ CacheIdle /\ NoSocketLeak)
<1>1. RpcInv => SocketExclusive /\ CacheIdle /\ NoSocketLeak
  BY DEF RpcInv
<1>2. QED
  BY <1>1, RpcInvariant, PTL

(***************************************************************************)
(* Every socket SendRpcRequest has created is in use, cached or destroyed, *)
(* on every path; no send hits a socket in the wrong state.                *)
(***************************************************************************)
THEOREM RpcNoSocketLeak == Spec => []NoSocketLeak
  BY RpcSockets, PTL
=============================================================================
