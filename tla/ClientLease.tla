----------------------------- MODULE ClientLease ----------------------------
(***************************************************************************)
(* Client heartbeats between StreamSink and StreamSource. The sink's       *)
(* worker sends a heartbeat request, waits for the reply with a timeout    *)
(* and renews at a third of the lease (ClientHeartbeatHandler and Start,   *)
(* Stop, Uninit in libstreamswitch/src/stsw_stream_sink.cc); the source    *)
(* keeps the clients it heard of, up to a maximum number, and kicks out    *)
(* those whose lease has run out (ClientHeartbeatHandler and Heartbeat in  *)
(* stsw_stream_source.cc).                                                 *)
(*                                                                         *)
(* Both worker threads look at the clock in turns. A turn is due on a grid *)
(* (every 500 ms in the sink, every second in the source) and comes up to  *)
(* Latency later; all its tests use the time at which it really came, so a *)
(* test against a time taken in an earlier, later-than-due turn may fail   *)
(* by a hair and wait for one turn more. Requests and replies may be       *)
(* delayed or lost; the REQ socket is external and refuses to send while a *)
(* reply is outstanding.                                                   *)
(***************************************************************************)
EXTENDS Integers, FiniteSets

CONSTANTS
    Clients,       \* sinks, told apart by ip, port and token
    Lease,         \* STSW_CLIENT_LEASE
    Third,         \* lease * 1000 / 3
    ReplyTimeout,  \* STSW_RECEIVER_CLIENT_HEARTBEAT_TIMEOUT
    Retry,         \* delay after an invalid or refusing reply (5 s)
    Interval,      \* STSW_STREAM_RECEIVER_HEARTBEAT_INT
    SourceInt,     \* STSW_STREAM_SOURCE_HEARTBEAT_INT
    Latency,       \* how late a worker's turn may come
    Sec,           \* one second: the resolution of time(NULL)
    Phase,         \* offset of the wall clock's seconds
    MaxClients,    \* STSW_MAX_CLIENT_NUM
    Tolerated,     \* reply timeouts in a row the lease is to survive
    MaxTime,       \* bound: the clock
    MaxStarts      \* bound: starts of sinks and source

\* A wait may end this much later than its length: the turn that just misses
\* its end, and the latency of the next one.
Slack == Interval + Latency - 1

\* The latest time after an answered request, k timeouts later, at which the
\* next one is still waiting for its reply.
Deadline(k) == Third + Slack + (k + 1) * (ReplyTimeout + Slack)

ASSUME LeaseAssumption ==
    /\ Lease \in Nat /\ Third \in Nat /\ Retry \in Nat \ {0}
    /\ Interval \in Nat \ {0} /\ SourceInt \in Nat \ {0}
    /\ Latency \in Nat /\ Latency < Interval /\ Latency < SourceInt
    /\ ReplyTimeout \in Nat \ {0} /\ ReplyTimeout + Slack < Third
    /\ Sec \in Nat \ {0} /\ Phase \in Nat
    /\ MaxClients \in Nat /\ Tolerated \in Nat /\ MaxTime \in Nat
    /\ MaxStarts \in Nat
    /\ Deadline(Tolerated) + Sec - 1 < Lease

VARIABLES
    now,        \* the clock
    on,         \* the sink is started
    due,        \* the sink's next_heartbeat_time
    last_send,  \* last_send_client_heartbeat_msec_; 0: no request outstanding
    next_send,  \* next_send_client_heartbeat_msec_; 0: at once
    net,        \* the exchange on client_hearbeat_socket_
    wire,       \* when the request it waits for was really sent, or 0
    late,       \* a request of a destroyed socket is still under way
    source_on,  \* the source is started
    next_beat,  \* the source's next_heartbeat_time
    purged,     \* the source's Heartbeat has run since its Start
    active,     \* last_active_time of each entry of receiver_list, or Absent
    others,     \* number of entries of clients outside Clients
    starts,     \* starts so far
    anchor,     \* history: when the last answered request was sent, or 0
    missed      \* history: reply timeouts since then

vars == <<now, on, due, last_send, next_send, net, wire, late, source_on,
          next_beat, purged, active, others, starts, anchor, missed>>

sinkVars == <<on, due, last_send, next_send, anchor, missed>>
sourceVars == <<source_on, next_beat, purged, active, others>>

Absent == -1 - Sec
Listed == {c \in Clients : active[c] # Absent}

TypeOK ==
    /\ now \in Nat \ {0}
    /\ on \in [Clients -> BOOLEAN] /\ due \in [Clients -> Nat]
    /\ last_send \in [Clients -> Nat] /\ next_send \in [Clients -> Nat]
    /\ net \in [Clients -> {"none", "request", "ok", "refused", "lost"}]
    /\ wire \in [Clients -> Nat] /\ late \in [Clients -> BOOLEAN]
    /\ source_on \in BOOLEAN /\ next_beat \in Nat /\ purged \in BOOLEAN
    /\ active \in [Clients -> Int] /\ others \in Nat /\ starts \in Nat
    /\ anchor \in [Clients -> Nat] /\ missed \in [Clients -> Nat]

Init ==
    /\ now = 1
    /\ on = [c \in Clients |-> FALSE] /\ due = [c \in Clients |-> 0]
    /\ last_send = [c \in Clients |-> 0] /\ next_send = [c \in Clients |-> 0]
    /\ net = [c \in Clients |-> "none"] /\ wire = [c \in Clients |-> 0]
    /\ late = [c \in Clients |-> FALSE]
    /\ source_on = FALSE /\ next_beat = 0 /\ purged = FALSE
    /\ active = [c \in Clients |-> Absent] /\ others = 0 /\ starts = 0
    /\ anchor = [c \in Clients |-> 0] /\ missed = [c \in Clients |-> 0]

-----------------------------------------------------------------------------
(* The clock *)

\* time(NULL): the start of the current second.
Wall == now - ((now + Phase) % Sec)

\* No turn comes later than Latency after it is due.
Tick ==
    /\ now < MaxTime
    /\ \A c \in Clients : on[c] => now < due[c] + Latency
    /\ source_on => now < next_beat + Latency
    /\ now' = now + 1
    /\ UNCHANGED <<net, wire, late, starts, sinkVars, sourceVars>>

-----------------------------------------------------------------------------
(* The sink *)

StartAllowed ==
    /\ starts < MaxStarts
    /\ starts' = starts + 1

\* Start: the schedule is reset, client_hearbeat_socket_ is not. The first
\* Heartbeat comes one interval later.
SinkStart(c) ==
    /\ ~on[c] /\ StartAllowed
    /\ on' = [on EXCEPT ![c] = TRUE]
    /\ due' = [due EXCEPT ![c] = now + Interval]
    /\ last_send' = [last_send EXCEPT ![c] = 0]
    /\ next_send' = [next_send EXCEPT ![c] = 0]
    /\ UNCHANGED <<now, net, wire, late, anchor, missed, sourceVars>>

\* Stop ends the worker, and next_heartbeat_time with it.
SinkStop(c) ==
    /\ on[c]
    /\ on' = [on EXCEPT ![c] = FALSE]
    /\ due' = [due EXCEPT ![c] = 0]
    /\ anchor' = [anchor EXCEPT ![c] = 0]
    /\ missed' = [missed EXCEPT ![c] = 0]
    /\ UNCHANGED <<now, last_send, next_send, net, wire, late, starts, sourceVars>>

\* Destroying a REQ socket: its reply is lost; a request that has left may
\* still arrive.
DestroySocket(c) ==
    /\ net' = [net EXCEPT ![c] = "none"]
    /\ wire' = [wire EXCEPT ![c] = 0]
    /\ \E b \in BOOLEAN :
         late' = [late EXCEPT ![c] = @ \/ (b /\ net[c] = "request")]

\* Uninit of a stopped sink, and Init again.
SinkUninit(c) ==
    /\ ~on[c] /\ net[c] # "none"
    /\ DestroySocket(c)
    /\ UNCHANGED <<now, starts, sinkVars, sourceVars>>

\* ClientHeartbeatHandler has its turn once per interval. As Latency is less
\* than Interval the next one is due after now.
Turn(c) == on[c] /\ now >= due[c]
TurnTaken(c) == due' = [due EXCEPT ![c] = @ + Interval]

Outstanding(c) == last_send[c] # 0
TimedOut(c) == now - last_send[c] >= ReplyTimeout

\* No reply yet (or one that is still under way).
BeatWait(c) ==
    /\ Turn(c) /\ Outstanding(c) /\ ~TimedOut(c)
    /\ TurnTaken(c)
    /\ UNCHANGED <<now, starts, on, last_send, next_send, net, wire, late,
                   anchor, missed, sourceVars>>

\* The time of the renewal. (Variant: counted in whole leases.)
RenewAtLease(c) == last_send[c] + Lease
Renewal(c) == last_send[c] + Third

\* An accepting reply. Its sequence number is not looked at: after a restart
\* it may be the answer to a request of the earlier session, and then no
\* request of this one has been answered. The reply is read before it could
\* have timed out, so the next request is never due at once.
BeatAccept(c) ==
    /\ Turn(c) /\ Outstanding(c) /\ net[c] = "ok"
    /\ TurnTaken(c)
    /\ next_send' = [next_send EXCEPT ![c] = Renewal(c)]
    /\ last_send' = [last_send EXCEPT ![c] = 0]
    /\ net' = [net EXCEPT ![c] = "none"]
    /\ wire' = [wire EXCEPT ![c] = 0]
    /\ anchor' = [anchor EXCEPT ![c] = IF wire[c] = last_send[c] THEN wire[c] ELSE 0]
    /\ missed' = [missed EXCEPT ![c] = 0]
    /\ UNCHANGED <<now, starts, on, late, sourceVars>>

\* A reply with another status, or an invalid one: try again in 5 seconds.
BeatRefused(c) ==
    /\ Turn(c) /\ Outstanding(c) /\ net[c] = "refused"
    /\ TurnTaken(c)
    /\ next_send' = [next_send EXCEPT ![c] = now + Retry]
    /\ last_send' = [last_send EXCEPT ![c] = 0]
    /\ net' = [net EXCEPT ![c] = "none"]
    /\ wire' = [wire EXCEPT ![c] = 0]
    /\ anchor' = [anchor EXCEPT ![c] = 0]
    /\ missed' = [missed EXCEPT ![c] = 0]
    /\ UNCHANGED <<now, starts, on, late, sourceVars>>

\* The reply times out: the socket is replaced and the request sent again in
\* the same turn.
Resend(c) ==
    /\ last_send' = [last_send EXCEPT ![c] = now]
    /\ next_send' = [next_send EXCEPT ![c] = 0]
    /\ net' = [net EXCEPT ![c] = "request"]
    /\ \E b \in BOOLEAN :
         late' = [late EXCEPT ![c] = @ \/ (b /\ net[c] = "request")]
    /\ wire' = [wire EXCEPT ![c] = now]

BeatTimeout(c) ==
    /\ Turn(c) /\ Outstanding(c) /\ TimedOut(c)
    /\ TurnTaken(c)
    /\ Resend(c)
    /\ missed' = [missed EXCEPT ![c] = @ + 1]
    /\ UNCHANGED <<now, starts, on, anchor, sourceVars>>

\* ... unless no socket can be created: the next turn tries again.
BeatTimeoutNoSocket(c) ==
    /\ Turn(c) /\ Outstanding(c) /\ TimedOut(c)
    /\ TurnTaken(c)
    /\ last_send' = [last_send EXCEPT ![c] = 0]
    /\ next_send' = [next_send EXCEPT ![c] = 0]
    /\ DestroySocket(c)
    /\ anchor' = [anchor EXCEPT ![c] = 0]
    /\ UNCHANGED <<now, starts, on, missed, sourceVars>>

\* Time to send. A socket still waiting for a reply refuses (the error is
\* ignored), and last_send_ is set all the same.
BeatSend(c) ==
    /\ Turn(c) /\ ~Outstanding(c) /\ now >= next_send[c]
    /\ TurnTaken(c)
    /\ last_send' = [last_send EXCEPT ![c] = now]
    /\ next_send' = [next_send EXCEPT ![c] = 0]
    /\ net' = [net EXCEPT ![c] = IF @ = "none" THEN "request" ELSE @]
    /\ wire' = [wire EXCEPT ![c] = IF net[c] = "none" THEN now ELSE @]
    /\ UNCHANGED <<now, starts, on, late, anchor, missed, sourceVars>>

\* Not yet time.
BeatIdle(c) ==
    /\ Turn(c) /\ ~Outstanding(c) /\ now < next_send[c]
    /\ TurnTaken(c)
    /\ UNCHANGED <<now, starts, on, last_send, next_send, net, wire, late,
                   anchor, missed, sourceVars>>

-----------------------------------------------------------------------------
(* The source and the network *)

\* Start: the list of an earlier session is kept.
SourceStart ==
    /\ ~source_on /\ StartAllowed
    /\ source_on' = TRUE
    /\ next_beat' = now + SourceInt
    /\ purged' = FALSE
    /\ UNCHANGED <<now, net, wire, late, active, others, sinkVars>>

SourceStop ==
    /\ source_on
    /\ source_on' = FALSE
    /\ next_beat' = 0
    /\ purged' = FALSE
    /\ UNCHANGED <<now, net, wire, late, active, others, starts, sinkVars>>

\* A listed client is updated, another one added if there is room. (Variant:
\* an off-by-one in the comparison with the maximum.)
ListSize == Cardinality(Listed) + others
HasRoomForOneMore == ListSize <= MaxClients
HasRoom == ListSize < MaxClients
Admitted(c) == c \in Listed \/ HasRoom
RecordClient(c) ==
    active' = IF Admitted(c) THEN [active EXCEPT ![c] = Wall] ELSE active

\* ClientHeartbeatHandler
Deliver(c) ==
    /\ source_on /\ net[c] = "request"
    /\ RecordClient(c)
    /\ net' = [net EXCEPT ![c] = IF Admitted(c) THEN "ok" ELSE "refused"]
    /\ UNCHANGED <<now, starts, wire, late, source_on, next_beat, purged, others,
                   sinkVars>>

\* The same for a request whose socket is gone: nobody gets the reply.
DeliverLate(c) ==
    /\ source_on /\ late[c]
    /\ RecordClient(c)
    /\ late' = [late EXCEPT ![c] = FALSE]
    /\ UNCHANGED <<now, starts, net, wire, source_on, next_beat, purged, others,
                   sinkVars>>

\* Other clients join and leave the list under the same rules.
OtherJoins ==
    /\ source_on /\ HasRoom
    /\ others' = others + 1
    /\ UNCHANGED <<now, starts, net, wire, late, source_on, next_beat, purged, active,
                   sinkVars>>

OtherLeaves ==
    /\ source_on /\ others > 0
    /\ others' = others - 1
    /\ UNCHANGED <<now, starts, net, wire, late, source_on, next_beat, purged, active,
                   sinkVars>>

\* The request or the reply is lost.
Lose(c) ==
    /\ net[c] \in {"request", "ok", "refused"}
    /\ net' = [net EXCEPT ![c] = "lost"]
    /\ UNCHANGED <<now, starts, wire, late, sinkVars, sourceVars>>

LoseLate(c) ==
    /\ late[c]
    /\ late' = [late EXCEPT ![c] = FALSE]
    /\ UNCHANGED <<now, starts, net, wire, sinkVars, sourceVars>>

\* An entry's lease has run out. (Variant: compared with the renewal time.)
ExpiredAtThird(c) == Wall - active[c] >= Third
Expired(c) == Wall - active[c] >= Lease

\* Heartbeat: kick out the timeout clients. (Variant: nobody.)
KeepAll == active
KickOut == [c \in Clients |-> IF c \in Listed /\ Expired(c) THEN Absent ELSE active[c]]

SourceBeat ==
    /\ source_on /\ now >= next_beat
    /\ active' = KickOut
    /\ next_beat' = next_beat + SourceInt
    /\ purged' = TRUE
    /\ UNCHANGED <<now, starts, net, wire, late, source_on, others, sinkVars>>

-----------------------------------------------------------------------------
Sink(c) ==
    \/ SinkStart(c) \/ SinkStop(c) \/ SinkUninit(c)
    \/ BeatWait(c) \/ BeatAccept(c) \/ BeatRefused(c)
    \/ BeatTimeout(c) \/ BeatTimeoutNoSocket(c)
    \/ BeatSend(c) \/ BeatIdle(c)

Net(c) == Deliver(c) \/ DeliverLate(c) \/ Lose(c) \/ LoseLate(c)

Next ==
    \/ Tick
    \/ SourceStart \/ SourceStop \/ SourceBeat
    \/ OtherJoins \/ OtherLeaves
    \/ \E c \in Clients : Sink(c) \/ Net(c)

Spec == Init /\ [][Next]_vars

-----------------------------------------------------------------------------
(* The inductive invariant *)

\* Time stamps lie in the past; what a sink has sent left before the turn that
\* is due; a stopped sink has been promised nothing.
PastInv ==
    \A c \in Clients :
        /\ last_send[c] <= now /\ wire[c] <= now /\ anchor[c] <= now
        /\ on[c] => wire[c] < due[c] /\ now <= due[c] + Latency
        /\ ~on[c] => anchor[c] = 0

\* The sink's schedule, relative to the last answered request: the turn that
\* is due comes less than one interval after the time it waits for.
ScheduleInv ==
    \A c \in Clients : on[c] =>
        /\ Outstanding(c) => due[c] < last_send[c] + ReplyTimeout + Interval
        /\ Outstanding(c) /\ anchor[c] # 0 =>
               last_send[c] <= anchor[c] + Third + Slack + missed[c] * (ReplyTimeout + Slack)
        /\ ~Outstanding(c) =>
               next_send[c] <= now + Third \/ next_send[c] <= now + Retry
        /\ ~Outstanding(c) /\ anchor[c] # 0 =>
               /\ missed[c] = 0 /\ next_send[c] = anchor[c] + Third
               /\ due[c] < next_send[c] + Interval

\* The source has recorded what an accepted, or acceptable, reply says.
RecordInv ==
    \A c \in Clients : on[c] =>
        /\ Outstanding(c) /\ wire[c] = last_send[c] /\ net[c] = "ok" =>
               active[c] >= wire[c] - Sec + 1
        /\ anchor[c] # 0 /\ missed[c] <= Tolerated =>
               active[c] >= anchor[c] - Sec + 1 /\ net[c] # "refused"

\* What the source's last Heartbeat has left is not much older than a lease.
PurgeInv ==
    source_on =>
        /\ now <= next_beat + Latency
        /\ purged => /\ next_beat - SourceInt <= now
                     /\ \A c \in Listed :
                            next_beat - SourceInt - active[c] < Lease + Sec - 1

LeaseInv == PastInv /\ ScheduleInv /\ RecordInv /\ PurgeInv

-----------------------------------------------------------------------------
(* Properties *)

(***************************************************************************)
(* Renewing at a third of the lease with a 3 second timeout keeps a client *)
(* in the source's list although Tolerated requests or replies in a row    *)
(* are lost and the next one is still unanswered. So its renewal is not    *)
(* refused either, although others may have filled the list. Turns that    *)
(* come late and miss a time by a hair, delays, late requests, whole-      *)
(* second time stamps and restarts of the source do not change that.       *)
(***************************************************************************)
KeepAlive ==
    \A c \in Clients :
        on[c] /\ anchor[c] # 0 /\ missed[c] <= Tolerated =>
            c \in Listed /\ net[c] # "refused"

(***************************************************************************)
(* A started sink never falls silent: it either waits for a reply no       *)
(* longer than the timeout and the turn that notices it, or has its next   *)
(* request scheduled no later than the longest delay from now.             *)
(***************************************************************************)
NeverSilent ==
    \A c \in Clients : on[c] =>
        IF Outstanding(c) THEN now <= last_send[c] + ReplyTimeout + Slack
        ELSE next_send[c] <= now + Third \/ next_send[c] <= now + Retry

(***************************************************************************)
(* A client that went away is removed: once the source's Heartbeat has run *)
(* after Start, no entry reaches the lease plus one interval and the       *)
(* latency of the worker.                                                  *)
(***************************************************************************)
DeadKicked ==
    source_on /\ purged =>
        \A c \in Listed : Wall - active[c] < Lease + SourceInt + Latency + Sec - 1

(***************************************************************************)
(* The list never exceeds STSW_MAX_CLIENT_NUM, whatever requests arrive    *)
(* late, twice or from clients that have been kicked out meanwhile.        *)
(***************************************************************************)
Capacity == ListSize <= MaxClients

\* The inductive form: Cardinality means nothing for an infinite list.
CapacityInv == IsFiniteSet(Listed) /\ Capacity
=============================================================================
