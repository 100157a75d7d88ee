------------------------------- MODULE SinkRpc ------------------------------
(***************************************************************************)
(* StreamSink::SendRpcRequest and its callers UpdateStreamMetaData,        *)
(* SourceStatistic, KeyFrame and ClientList                                *)
(* (libstreamswitch/src/stsw_stream_sink.cc). Any number of threads issue  *)
(* requests on one sink. Each call takes the cached REQ socket or creates  *)
(* one, sends, waits up to its timeout, and either caches the socket again *)
(* or destroys it.                                                         *)
(*                                                                         *)
(* REQ sockets and the source at the other end are external: a socket      *)
(* alternates send and receive, a reply comes back on the socket that sent *)
(* the request or never, and destroying a socket drops its reply.          *)
(***************************************************************************)
EXTENDS Integers

CONSTANTS
    Threads,     \* application threads
    Sockets,     \* REQ sockets zsock_new_req can create
    Codes,       \* operation codes
    NoSocket,    \* a NULL socket pointer
    Timeouts,    \* timeout arguments, in ms; a negative one means "for ever"
    SeqMod,      \* next_seq_ wraps at this value (2^32 in the code)
    MaxCalls     \* bound on the number of calls

ASSUME RpcAssumption ==
    /\ NoSocket \notin Sockets
    /\ Timeouts \subseteq Int
    /\ SeqMod \in Nat \ {0}
    /\ MaxCalls \in Nat

VARIABLES
    next_seq,         \* next_seq_
    last_api_socket,  \* last_api_socket_, the cached idle socket
    pc,               \* where each thread is in its call
    request,          \* each thread's current or last request
    api_socket,       \* SendRpcRequest's local api_socket
    result,           \* what the last call returned
    state,            \* "none" (does not exist), "idle", "sent", "ready"
    wire,             \* the request last sent on a socket
    reply,            \* the reply waiting on a "ready" socket
    calls             \* number of calls so far; identifies a request

vars == <<next_seq, last_api_socket, pc, request, api_socket, result,
          state, wire, reply, calls>>

\* id is no field of the packet: it only tells two requests with the same
\* sequence number apart.
Request == [id : 0..MaxCalls, seq : 0..SeqMod-1, code : Codes, timeout : Timeouts]

\* A reply answers request id; its header is what the source put there.
Reply == [id : 0..MaxCalls, seq : 0..SeqMod-1, code : Codes, parses : BOOLEAN]

NoResult == [ret |-> "none", id |-> 0]
Results == [ret : {"none", "ok", "timeout", "error", "null"}, id : 0..MaxCalls]

TypeOK ==
    /\ next_seq \in 0..SeqMod-1
    /\ last_api_socket \in Sockets \cup {NoSocket}
    /\ pc \in [Threads -> {"idle", "take", "send", "wait", "check", "cache"}]
    /\ request \in [Threads -> Request]
    /\ api_socket \in [Threads -> Sockets \cup {NoSocket}]
    /\ result \in [Threads -> Results]
    /\ state \in [Sockets -> {"none", "idle", "sent", "ready", "error"}]
    /\ wire \in [Sockets -> Request]
    /\ reply \in [Sockets -> Reply]
    /\ calls \in 0..MaxCalls

SomeRequest(c, d) == [id |-> 0, seq |-> 0, code |-> c, timeout |-> d]
SomeReply(c) == [id |-> 0, seq |-> 0, code |-> c, parses |-> FALSE]

Init ==
    /\ next_seq = 1 % SeqMod
    /\ last_api_socket = NoSocket
    /\ pc = [t \in Threads |-> "idle"]
    /\ api_socket = [t \in Threads |-> NoSocket]
    /\ result = [t \in Threads |-> NoResult]
    /\ state = [s \in Sockets |-> "none"]
    /\ \E c \in Codes, d \in Timeouts :
         /\ request = [t \in Threads |-> SomeRequest(c, d)]
         /\ wire = [s \in Sockets |-> SomeRequest(c, d)]
         /\ reply = [s \in Sockets |-> SomeReply(c)]
    /\ calls = 0

-----------------------------------------------------------------------------
(* A call, step by step *)

\* GetNextSeq: uint32_t arithmetic.
SeqAfter == (next_seq + 1) % SeqMod

\* The caller builds the packet; GetNextSeq runs under lock_.
Call(t, c, d) ==
    /\ pc[t] = "idle" /\ calls < MaxCalls
    /\ calls' = calls + 1
    /\ request' = [request EXCEPT ![t] =
                     [id |-> calls + 1, seq |-> next_seq, code |-> c, timeout |-> d]]
    /\ next_seq' = SeqAfter
    /\ result' = [result EXCEPT ![t] = NoResult]
    /\ pc' = [pc EXCEPT ![t] = "take"]
    /\ UNCHANGED <<last_api_socket, api_socket, state, wire, reply>>

\* The timeouts SendRpcRequest accepts. (Variant: every one.)
AnyTimeout(d) == TRUE
TimeoutAccepted(d) == d >= 0

\* "timeout cannot be less than 0": the call is refused before it takes a socket.
Refused(t) ==
    /\ pc[t] = "take" /\ ~TimeoutAccepted(request[t].timeout)
    /\ result' = [result EXCEPT ![t] = [ret |-> "error", id |-> 0]]
    /\ pc' = [pc EXCEPT ![t] = "idle"]
    /\ UNCHANGED <<next_seq, last_api_socket, request, api_socket, state, wire,
                   reply, calls>>

\* The value left in last_api_socket_ by a call that takes the cached socket.
\* (Variant: it is not reset.)
CacheKept == last_api_socket
CacheTaken == NoSocket

\* Under lock_ the cached socket, if any, is taken out of the cache.
TakeCached(t) ==
    /\ pc[t] = "take" /\ TimeoutAccepted(request[t].timeout)
    /\ last_api_socket # NoSocket
    /\ api_socket' = [api_socket EXCEPT ![t] = last_api_socket]
    /\ last_api_socket' = CacheTaken
    /\ pc' = [pc EXCEPT ![t] = "send"]
    /\ UNCHANGED <<next_seq, request, result, state, wire, reply, calls>>

\* No socket is cached: zsock_new_req creates one.
CreateSocket(t, s) ==
    /\ pc[t] = "take" /\ TimeoutAccepted(request[t].timeout)
    /\ last_api_socket = NoSocket /\ state[s] = "none"
    /\ state' = [state EXCEPT ![s] = "idle"]
    /\ api_socket' = [api_socket EXCEPT ![t] = s]
    /\ pc' = [pc EXCEPT ![t] = "send"]
    /\ UNCHANGED <<next_seq, last_api_socket, request, result, wire, reply, calls>>

\* zsock_new_req fails.
CreateFails(t) ==
    /\ pc[t] = "take" /\ TimeoutAccepted(request[t].timeout)
    /\ last_api_socket = NoSocket
    /\ result' = [result EXCEPT ![t] = [ret |-> "error", id |-> 0]]
    /\ pc' = [pc EXCEPT ![t] = "idle"]
    /\ UNCHANGED <<next_seq, last_api_socket, request, api_socket, state, wire,
                   reply, calls>>

\* zmsg_send: a REQ socket must be idle.
Send(t) ==
    /\ pc[t] = "send"
    /\ LET s == api_socket[t] IN
         /\ state' = [state EXCEPT ![s] = IF @ = "idle" THEN "sent" ELSE "error"]
         /\ wire' = [wire EXCEPT ![s] = request[t]]
    /\ pc' = [pc EXCEPT ![t] = "wait"]
    /\ UNCHANGED <<next_seq, last_api_socket, request, api_socket, result, reply, calls>>

\* error_1: the call's socket is destroyed, whatever it still had to receive.
DestroyApiSocket(t) ==
    /\ state' = [state EXCEPT ![api_socket[t]] = "none"]
    /\ api_socket' = [api_socket EXCEPT ![t] = NoSocket]

\* The timeout branch's exit.
TimeoutDestroys(t) ==
    /\ pc' = [pc EXCEPT ![t] = "idle"]
    /\ DestroyApiSocket(t)

\* zpoller_wait returned no socket: only with a timeout that is not negative.
Timeout(t) ==
    /\ pc[t] = "wait" /\ request[t].timeout >= 0
    /\ result' = [result EXCEPT ![t] = [ret |-> "timeout", id |-> 0]]
    /\ TimeoutDestroys(t)
    /\ UNCHANGED <<next_seq, last_api_socket, request, wire, reply, calls>>

\* zmsg_recv returns the reply; the REQ socket may send again.
Receive(t) ==
    /\ pc[t] = "wait" /\ state[api_socket[t]] = "ready"
    /\ state' = [state EXCEPT ![api_socket[t]] = "idle"]
    /\ pc' = [pc EXCEPT ![t] = "check"]
    /\ UNCHANGED <<next_seq, last_api_socket, request, api_socket, result, wire,
                   reply, calls>>

\* zmsg_recv is interrupted: error_1 is reached with ret still 0.
ReceiveInterrupted(t) ==
    /\ pc[t] = "wait" /\ state[api_socket[t]] = "ready"
    /\ result' = [result EXCEPT ![t] = [ret |-> "null", id |-> 0]]
    /\ DestroyApiSocket(t)
    /\ pc' = [pc EXCEPT ![t] = "idle"]
    /\ UNCHANGED <<next_seq, last_api_socket, request, wire, reply, calls>>

\* "Reply Parse Error": the socket is destroyed.
ParseError(t) ==
    /\ pc[t] = "check" /\ ~reply[api_socket[t]].parses
    /\ result' = [result EXCEPT ![t] = [ret |-> "error", id |-> 0]]
    /\ DestroyApiSocket(t)
    /\ pc' = [pc EXCEPT ![t] = "idle"]
    /\ UNCHANGED <<next_seq, last_api_socket, request, wire, reply, calls>>

\* The header check: same sequence number and code as the request. (Variant:
\* the code alone.)
CodeMatches(t, r) == r.code = request[t].code
HeaderMatches(t, r) == r.seq = request[t].seq /\ r.code = request[t].code

\* The reply is accepted or refused; either way the socket is reusable.
CheckReply(t) ==
    /\ pc[t] = "check" /\ reply[api_socket[t]].parses
    /\ LET r == reply[api_socket[t]] IN
         result' = [result EXCEPT ![t] =
                      IF HeaderMatches(t, r) THEN [ret |-> "ok", id |-> r.id]
                      ELSE [ret |-> "error", id |-> 0]]
    /\ pc' = [pc EXCEPT ![t] = "cache"]
    /\ UNCHANGED <<next_seq, last_api_socket, request, api_socket, state, wire,
                   reply, calls>>

\* error_2: under lock_ the socket is cached if the cache is empty ...
CacheSocket(t) ==
    /\ pc[t] = "cache" /\ last_api_socket = NoSocket
    /\ last_api_socket' = api_socket[t]
    /\ api_socket' = [api_socket EXCEPT ![t] = NoSocket]
    /\ pc' = [pc EXCEPT ![t] = "idle"]
    /\ UNCHANGED <<next_seq, request, result, state, wire, reply, calls>>

\* What happens to a socket that finds the cache full. (Variant: it is
\* forgotten without being destroyed.)
ForgetSocket(t) ==
    api_socket' = [api_socket EXCEPT ![t] = NoSocket] /\ UNCHANGED state
SurplusSocket(t) == DestroyApiSocket(t)

\* ... and destroyed otherwise.
CacheFull(t) ==
    /\ pc[t] = "cache" /\ last_api_socket # NoSocket
    /\ SurplusSocket(t)
    /\ pc' = [pc EXCEPT ![t] = "idle"]
    /\ UNCHANGED <<next_seq, last_api_socket, request, result, wire, reply, calls>>

-----------------------------------------------------------------------------
(* The source (external) *)

\* The source answers with the header of the request it read.
SourceReplies(s) ==
    /\ state[s] = "sent"
    /\ reply' = [reply EXCEPT ![s] =
                   [id |-> wire[s].id, seq |-> wire[s].seq, code |-> wire[s].code,
                    parses |-> TRUE]]
    /\ state' = [state EXCEPT ![s] = "ready"]
    /\ UNCHANGED <<next_seq, last_api_socket, pc, request, api_socket, result,
                   wire, calls>>

\* Another peer answers with a header of its own, or with no packet at all.
SourceMisreplies(s, q, c, p) ==
    /\ state[s] = "sent"
    /\ reply' = [reply EXCEPT ![s] = [id |-> 0, seq |-> q, code |-> c, parses |-> p]]
    /\ ~(p /\ q = wire[s].seq /\ c = wire[s].code)
    /\ state' = [state EXCEPT ![s] = "ready"]
    /\ UNCHANGED <<next_seq, last_api_socket, pc, request, api_socket, result,
                   wire, calls>>

-----------------------------------------------------------------------------
Proceed(t) ==
    \/ Refused(t)
    \/ TakeCached(t) \/ CreateFails(t)
    \/ \E s \in Sockets : CreateSocket(t, s)
    \/ Send(t)
    \/ Timeout(t) \/ Receive(t) \/ ReceiveInterrupted(t)
    \/ ParseError(t) \/ CheckReply(t)
    \/ CacheSocket(t) \/ CacheFull(t)

Source ==
    \E s \in Sockets :
        \/ SourceReplies(s)
        \/ \E q \in 0..SeqMod-1, c \in Codes, p \in BOOLEAN : SourceMisreplies(s, q, c, p)

Next ==
    \/ \E t \in Threads : Proceed(t) \/ \E c \in Codes, d \in Timeouts : Call(t, c, d)
    \/ Source

\* A thread inside a call keeps running: zpoller_wait ends with its timeout.
Fairness == \A t \in Threads : WF_vars(Proceed(t))

Spec == Init /\ [][Next]_vars /\ Fairness

-----------------------------------------------------------------------------
(* Properties *)

\* A thread holds a socket between taking it and giving it up.
Holding(t) == pc[t] \in {"send", "wait", "check", "cache"}

(***************************************************************************)
(* Sockets are not thread safe: no two calls, and no call and the cache,   *)
(* refer to the same one.                                                  *)
(***************************************************************************)
SocketExclusive ==
    /\ \A t, u \in Threads :
           t # u /\ api_socket[t] # NoSocket => api_socket[t] # api_socket[u]
    /\ \A t \in Threads :
           api_socket[t] # NoSocket => api_socket[t] # last_api_socket

(***************************************************************************)
(* The cached socket is fit for the next request: it exists and has no     *)
(* request outstanding and no reply unread, so the next call can neither   *)
(* fail to send nor read the answer to somebody else's request.            *)
(***************************************************************************)
CacheIdle == last_api_socket # NoSocket => state[last_api_socket] = "idle"

(***************************************************************************)
(* Every socket created by SendRpcRequest is in use, cached or destroyed,  *)
(* on every path through error_1 and error_2; no send hits a socket in the *)
(* wrong state.                                                            *)
(***************************************************************************)
NoSocketLeak ==
    \A s \in Sockets :
        /\ state[s] # "none" =>
              s = last_api_socket \/ \E t \in Threads : s = api_socket[t]
        /\ state[s] # "error"

(***************************************************************************)
(* A call that succeeds returns the reply to its own request, also when    *)
(* next_seq_ has wrapped and another request carries the same number, and  *)
(* after timeouts whose late replies are still on their way.               *)
(***************************************************************************)
OwnReply ==
    \A t \in Threads : result[t].ret = "ok" => result[t].id = request[t].id

(***************************************************************************)
(* Every call returns, whatever the source does: a wait without end is     *)
(* refused before anything is sent.                                        *)
(***************************************************************************)
CallsReturn == \A t \in Threads : pc[t] # "idle" ~> pc[t] = "idle"

-----------------------------------------------------------------------------
(* The inductive invariant *)

\* The socket's protocol state follows from where its holder is.
SocketStateInv ==
    \A t \in Threads :
        /\ Holding(t) => api_socket[t] \in Sockets
        /\ ~Holding(t) => api_socket[t] = NoSocket
        /\ pc[t] \in {"send", "check", "cache"} => state[api_socket[t]] = "idle"
        /\ pc[t] = "wait" => state[api_socket[t]] \in {"sent", "ready"}

\* What an open call's socket carries is that call's request and a reply that
\* either answers it or does not match its header.
Answers(r, q) == r.parses /\ r.seq = q.seq /\ r.code = q.code => r.id = q.id
WireInv ==
    \A t \in Threads :
        /\ pc[t] = "wait" => wire[api_socket[t]] = request[t]
        /\ pc[t] = "wait" /\ state[api_socket[t]] = "ready" =>
               Answers(reply[api_socket[t]], request[t])
        /\ pc[t] = "check" => Answers(reply[api_socket[t]], request[t])

RpcInv ==
    /\ SocketExclusive /\ CacheIdle /\ NoSocketLeak /\ OwnReply
    /\ SocketStateInv /\ WireInv
=============================================================================
