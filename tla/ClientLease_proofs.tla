-------------------------- MODULE ClientLease_proofs ------------------------
(***************************************************************************)
(* TLAPS proofs about ClientLease: for every lease, timeout, resolution of *)
(* the wall clock, latency of the workers and number of clients that       *)
(* satisfy LeaseAssumption, the heartbeat schedule keeps a client in the   *)
(* source's list through Tolerated timeouts in a row, and the list forgets *)
(* who went away.                                                          *)
(***************************************************************************)
EXTENDS ClientLease, FiniteSetTheorems, TLAPS

\* time(NULL) is at most one second behind the clock.
LEMMA WallBounds ==
    ASSUME now \in Nat
    PROVE  Wall \in Int /\ Wall <= now /\ now - Sec < Wall
<1>1. (now + Phase) % Sec \in 0..Sec-1
  BY LeaseAssumption
<1>2. QED
  BY <1>1, LeaseAssumption DEF Wall

\* A wait ends at most this much later than its length.
LEMMA SlackType == Slack \in Nat /\ ReplyTimeout + Slack \in Nat
BY LeaseAssumption DEF Slack

\* One more timeout moves the deadline by one wait.
LEMMA MissOneMore ==
    ASSUME NEW k \in Nat, NEW w \in Nat
    PROVE  /\ (k + 1) * w = k * w + w
           /\ k * w \in Nat
OBVIOUS

LEMMA ZeroMisses == 0 * (ReplyTimeout + Slack) = 0
BY SlackType

\* Fewer timeouts, an earlier deadline.
LEMMA MissFewer ==
    ASSUME NEW k \in Nat, k <= Tolerated
    PROVE  /\ Third + Slack + k * (ReplyTimeout + Slack) + ReplyTimeout + Slack + Sec - 1 < Lease
           /\ ReplyTimeout + Slack + Sec - 1 < Lease
<1> DEFINE w == ReplyTimeout + Slack
<1>0. w \in Nat /\ Slack \in Nat
  BY SlackType
<1>1. Third + Slack + (Tolerated + 1) * w + Sec - 1 < Lease
  BY LeaseAssumption DEF Deadline
<1> HIDE DEF w
<1>2. k * w <= Tolerated * w
  BY <1>0, LeaseAssumption
<1>3. /\ (Tolerated + 1) * w = Tolerated * w + w
      /\ Tolerated * w \in Nat /\ k * w \in Nat
  BY <1>0, MissOneMore, LeaseAssumption
<1>4. Third + Slack + k * w + w + Sec - 1 < Lease /\ w + Sec - 1 < Lease
  BY <1>0, <1>1, <1>2, <1>3, LeaseAssumption
<1>5. QED
  BY <1>4, SlackType, LeaseAssumption, <1>3 DEF w

LEMMA LeasePositive == Lease > 0
BY MissFewer, SlackType, LeaseAssumption

(***************************************************************************)
(* Type correctness.                                                       *)
(***************************************************************************)
THEOREM LeaseTypeCorrect == Spec => []TypeOK
<1> USE LeaseAssumption DEF TypeOK
<1>1. Init => TypeOK
  <2> SUFFICES ASSUME Init PROVE TypeOK
    OBVIOUS
  <2>1. Absent \in Int
    BY DEF Absent
  <2>2. /\ on \in [Clients -> BOOLEAN]
        /\ late \in [Clients -> BOOLEAN]
    BY Zenon DEF Init
  <2>3. source_on \in BOOLEAN /\ purged \in BOOLEAN
    BY Zenon DEF Init
  <2>4. /\ now \in Nat \ {0} /\ next_beat \in Nat /\ others \in Nat /\ starts \in Nat
        /\ due \in [Clients -> Nat]
        /\ last_send \in [Clients -> Nat] /\ next_send \in [Clients -> Nat]
        /\ wire \in [Clients -> Nat]
        /\ anchor \in [Clients -> Nat] /\ missed \in [Clients -> Nat]
    BY DEF Init
  <2>5. /\ net \in [Clients -> {"none", "request", "ok", "refused", "lost"}]
        /\ active \in [Clients -> Int]
    BY <2>1 DEF Init
  <2>6. QED
    BY <2>2, <2>3, <2>4, <2>5
<1>2. TypeOK /\ [Next]_vars => TypeOK'
  <2> SUFFICES ASSUME TypeOK, [Next]_vars PROVE TypeOK'
    OBVIOUS
  <2>0. Wall \in Int /\ Absent \in Int
    BY WallBounds DEF Absent
  <2>1. CASE Tick
    BY <2>1 DEF Tick, sinkVars, sourceVars
  <2>2. CASE SourceStart \/ SourceStop
    <3>1. source_on' \in BOOLEAN /\ purged' \in BOOLEAN
      BY <2>2, Zenon DEF SourceStart, SourceStop
    <3>2. next_beat' \in Nat /\ starts' \in Nat
      BY <2>2 DEF SourceStart, SourceStop, StartAllowed
    <3>3. QED
      BY <2>2, <3>1, <3>2 DEF SourceStart, SourceStop, sinkVars
  <2>3. CASE SourceBeat
    <3>1. purged' \in BOOLEAN
      BY <2>3, Zenon DEF SourceBeat
    <3>2. QED
      BY <2>0, <2>3, <3>1 DEF SourceBeat, KickOut, sinkVars
  <2>4. ASSUME NEW c \in Clients, Sink(c) PROVE TypeOK'
    <3>1. CASE SinkStart(c) \/ SinkStop(c)
      <4>0. starts' \in Nat /\ now + Interval \in Nat
        BY <3>1 DEF SinkStart, SinkStop, StartAllowed
      <4>1. on' \in [Clients -> BOOLEAN]
        BY <3>1 DEF SinkStart, SinkStop
      <4>2. due' \in [Clients -> Nat]
        BY <3>1, <4>0 DEF SinkStart, SinkStop
      <4>3. QED
        BY <3>1, <4>0, <4>1, <4>2 DEF SinkStart, SinkStop, sourceVars
    <3>2. CASE SinkUninit(c)
      <4>1. late' \in [Clients -> BOOLEAN]
        BY <3>2 DEF SinkUninit, DestroySocket
      <4>2. QED
        BY <3>2, <4>1 DEF SinkUninit, DestroySocket, sourceVars, sinkVars
    <3>3. CASE BeatWait(c) \/ BeatIdle(c)
      BY <3>3 DEF BeatWait, BeatIdle, TurnTaken, sourceVars
    <3>4. CASE BeatAccept(c) \/ BeatRefused(c)
      <4>0. last_send[c] + Third \in Nat /\ now + Retry \in Nat
        OBVIOUS
      <4>1. due' \in [Clients -> Nat]
        BY <3>4 DEF BeatAccept, BeatRefused, TurnTaken
      <4>2. CASE BeatAccept(c)
        BY <4>0, <4>1, <4>2 DEF BeatAccept, Renewal, sourceVars
      <4>3. CASE BeatRefused(c)
        BY <4>0, <4>1, <4>3 DEF BeatRefused, sourceVars
      <4>4. QED
        BY <3>4, <4>2, <4>3
    <3>5. CASE BeatTimeout(c)
      <4>1. late' \in [Clients -> BOOLEAN] /\ due' \in [Clients -> Nat]
        BY <3>5 DEF BeatTimeout, Resend, TurnTaken
      <4>2. QED
        BY <3>5, <4>1 DEF BeatTimeout, Resend, sourceVars
    <3>6. CASE BeatTimeoutNoSocket(c)
      BY <3>6 DEF BeatTimeoutNoSocket, DestroySocket, TurnTaken, sourceVars
    <3>7. CASE BeatSend(c)
      BY <3>7 DEF BeatSend, TurnTaken, sourceVars
    <3>8. QED
      BY <2>4, <3>1, <3>2, <3>3, <3>4, <3>5, <3>6, <3>7 DEF Sink
  <2>5. ASSUME NEW c \in Clients, Net(c) PROVE TypeOK'
    <3>1. CASE Deliver(c) \/ DeliverLate(c)
      BY <2>0, <3>1 DEF Deliver, DeliverLate, RecordClient, sinkVars
    <3>2. CASE Lose(c) \/ LoseLate(c)
      BY <3>2 DEF Lose, LoseLate, sinkVars, sourceVars
    <3>3. QED
      BY <2>5, <3>1, <3>2 DEF Net
  <2>6. CASE OtherJoins \/ OtherLeaves
    <3>1. others' \in Nat
      BY <2>6 DEF OtherJoins, OtherLeaves
    <3>2. QED
      BY <2>6, <3>1 DEF OtherJoins, OtherLeaves, sinkVars
  <2>7. CASE UNCHANGED vars
    BY <2>7 DEF vars
  <2>8. QED
    BY <2>1, <2>2, <2>3, <2>4, <2>5, <2>6, <2>7 DEF Next
<1>3. QED
  BY <1>1, <1>2, PTL DEF Spec

-----------------------------------------------------------------------------
(* The inductive invariant *)

\* What the schedule says about the present: a reply is waited for no longer
\* than the timeout and the slack, and the last answered request is no older
\* than the timeouts since then account for.
LEMMA ScheduleBounds ==
    ASSUME TypeOK, PastInv, ScheduleInv, NEW c \in Clients, on[c]
    PROVE  /\ Outstanding(c) => now <= last_send[c] + ReplyTimeout + Slack
           /\ Outstanding(c) /\ anchor[c] # 0 =>
                  now <= anchor[c] + Third + Slack + missed[c] * (ReplyTimeout + Slack)
                             + ReplyTimeout + Slack
           /\ ~Outstanding(c) /\ anchor[c] # 0 => now <= anchor[c] + Third + Slack
<1> DEFINE x == missed[c] * (ReplyTimeout + Slack)
<1>1. /\ now \in Nat /\ due[c] \in Nat /\ last_send[c] \in Nat /\ anchor[c] \in Nat
      /\ missed[c] \in Nat /\ next_send[c] \in Nat
  BY DEF TypeOK
<1>2. x \in Nat /\ Slack \in Nat
  BY <1>1, MissOneMore, SlackType
<1>3. now <= due[c] + Latency
  BY DEF PastInv
<1>4. /\ Outstanding(c) => due[c] < last_send[c] + ReplyTimeout + Interval
      /\ Outstanding(c) /\ anchor[c] # 0 => last_send[c] <= anchor[c] + Third + Slack + x
      /\ ~Outstanding(c) /\ anchor[c] # 0 => due[c] < anchor[c] + Third + Interval
  BY DEF ScheduleInv
<1> HIDE DEF x
<1>5. /\ Outstanding(c) => now <= last_send[c] + ReplyTimeout + Slack
      /\ ~Outstanding(c) /\ anchor[c] # 0 => now <= anchor[c] + Third + Slack
  BY <1>1, <1>3, <1>4, LeaseAssumption DEF Slack
<1>6. Outstanding(c) /\ anchor[c] # 0 =>
          now <= anchor[c] + Third + Slack + x + ReplyTimeout + Slack
  BY <1>1, <1>2, <1>4, <1>5, LeaseAssumption
<1>7. QED
  BY <1>5, <1>6 DEF x

LEMMA LeaseInvInit == Init => LeaseInv
BY LeaseAssumption
   DEF Init, LeaseInv, PastInv, ScheduleInv, RecordInv, PurgeInv, Listed, Turn,
       Outstanding

\* Time passes only when nothing is due.
LEMMA LeaseInvTick ==
    ASSUME TypeOK, LeaseInv, Tick
    PROVE  LeaseInv'
<1> USE LeaseAssumption DEF TypeOK, LeaseInv, Tick, sinkVars, sourceVars, Outstanding
<1>1. PastInv'
  BY DEF PastInv
<1>2. ScheduleInv'
  BY DEF ScheduleInv
<1>3. RecordInv'
  BY DEF RecordInv
<1>4. PurgeInv'
  BY DEF PurgeInv, Listed
<1>5. QED
  BY <1>1, <1>2, <1>3, <1>4
\* A restarted sink has promised nothing yet.
LEMMA LeaseInvStartStop ==
    ASSUME TypeOK, LeaseInv, NEW c \in Clients, SinkStart(c) \/ SinkStop(c) \/ SinkUninit(c)
    PROVE  LeaseInv'
<1> USE LeaseAssumption DEF TypeOK, LeaseInv, Turn, TurnTaken, Outstanding, TimedOut,
                            sourceVars, sinkVars, SinkStart, SinkStop, SinkUninit,
                            DestroySocket
<1>1. PastInv'
  BY DEF PastInv, RecordInv, ScheduleInv
<1>2. ScheduleInv'
  BY ZeroMisses DEF ScheduleInv, PastInv
<1>3. RecordInv'
  BY ZeroMisses DEF RecordInv, PastInv
<1>4. PurgeInv'
  BY DEF PurgeInv, Listed
<1>5. QED
  BY <1>1, <1>2, <1>3, <1>4

\* A turn in which nothing happens.
LEMMA LeaseInvQuiet ==
    ASSUME TypeOK, LeaseInv, NEW c \in Clients, BeatWait(c) \/ BeatIdle(c)
    PROVE  LeaseInv'
<1> USE LeaseAssumption DEF TypeOK, LeaseInv, Turn, TurnTaken, Outstanding, TimedOut,
                            sourceVars, sinkVars, BeatWait, BeatIdle
<1>1. PastInv'
  BY DEF PastInv, RecordInv, ScheduleInv
<1>2. ScheduleInv'
  BY ZeroMisses DEF ScheduleInv, PastInv
<1>3. RecordInv'
  BY ZeroMisses DEF RecordInv, PastInv
<1>4. PurgeInv'
  BY DEF PurgeInv, Listed
<1>5. QED
  BY <1>1, <1>2, <1>3, <1>4

\* A reply to the outstanding request anchors the schedule anew.
LEMMA LeaseInvReply ==
    ASSUME TypeOK, LeaseInv, NEW c \in Clients, BeatAccept(c) \/ BeatRefused(c)
    PROVE  LeaseInv'
<1> USE LeaseAssumption DEF TypeOK, LeaseInv, Turn, TurnTaken, Outstanding, TimedOut,
                            sourceVars, sinkVars, BeatAccept, BeatRefused,
                            Renewal
<1>1. PastInv'
  BY DEF PastInv, RecordInv, ScheduleInv
<1>2. ScheduleInv'
  <2>0. now < last_send[c] + Third /\ now <= due[c] + Latency /\ due[c] <= now
    BY ScheduleBounds, SlackType DEF PastInv
  <2>1. last_send'[c] = 0 /\ missed'[c] = 0 /\ due'[c] = due[c] + Interval
    OBVIOUS
  <2>2. next_send'[c] <= now + Third \/ next_send'[c] <= now + Retry
    BY DEF PastInv
  <2>3. anchor'[c] # 0 => next_send'[c] = anchor'[c] + Third /\ due'[c] < next_send'[c] + Interval
    BY <2>0
  <2>4. \A d \in Clients : d # c => /\ last_send'[d] = last_send[d] /\ missed'[d] = missed[d]
                                    /\ next_send'[d] = next_send[d] /\ due'[d] = due[d]
                                    /\ anchor'[d] = anchor[d]
    OBVIOUS
  <2>5. on' = on /\ now' = now
    OBVIOUS
  <2>6. QED
    BY ONLY <2>1, <2>2, <2>3, <2>4, <2>5, ScheduleInv DEF ScheduleInv, Outstanding
<1>3. RecordInv'
  BY ZeroMisses DEF RecordInv, PastInv
<1>4. PurgeInv'
  BY DEF PurgeInv, Listed
<1>5. QED
  BY <1>1, <1>2, <1>3, <1>4

\* A timeout costs one ReplyTimeout.
LEMMA LeaseInvTimeout ==
    ASSUME TypeOK, LeaseInv, NEW c \in Clients, BeatTimeout(c)
    PROVE  LeaseInv'
<1> USE LeaseAssumption DEF TypeOK, LeaseInv, Turn, TurnTaken, Outstanding, TimedOut,
                            sourceVars, sinkVars, BeatTimeout, Resend
<1>1. PastInv'
  BY DEF PastInv, RecordInv, ScheduleInv
<1>2. ScheduleInv'
  <2> DEFINE w == ReplyTimeout + Slack
  <2>1. missed'[c] * w = missed[c] * w + w /\ missed[c] * w \in Nat /\ w \in Nat
    BY MissOneMore, SlackType
  <2>2. anchor[c] # 0 => now <= anchor[c] + Third + Slack + missed[c] * w + w
    BY ScheduleBounds, SlackType, <2>1
  <2>3. anchor'[c] # 0 => last_send'[c] <= anchor'[c] + Third + Slack + missed'[c] * w
    BY <2>1, <2>2, SlackType
  <2>4. due'[c] < last_send'[c] + ReplyTimeout + Interval
    BY DEF PastInv
  <2> HIDE DEF w
  <2>5. \A d \in Clients : d # c => /\ missed'[d] = missed[d] /\ due'[d] = due[d]
                                    /\ last_send'[d] = last_send[d] /\ next_send'[d] = next_send[d]
    OBVIOUS
  <2>6. last_send'[c] # 0
    OBVIOUS
  <2>7. QED
    BY <2>3, <2>4, <2>5, <2>6 DEF ScheduleInv, w
<1>3. RecordInv'
  BY MissOneMore, ZeroMisses DEF RecordInv, PastInv
<1>4. PurgeInv'
  BY DEF PurgeInv, Listed
<1>5. QED
  BY <1>1, <1>2, <1>3, <1>4

\* Without a socket nothing is promised.
LEMMA LeaseInvNoSocket ==
    ASSUME TypeOK, LeaseInv, NEW c \in Clients, BeatTimeoutNoSocket(c)
    PROVE  LeaseInv'
<1> USE LeaseAssumption DEF TypeOK, LeaseInv, Turn, TurnTaken, Outstanding, TimedOut,
                            sourceVars, sinkVars, BeatTimeoutNoSocket,
                            DestroySocket
<1>1. PastInv'
  BY DEF PastInv, RecordInv, ScheduleInv
<1>2. ScheduleInv'
  BY ZeroMisses DEF ScheduleInv, PastInv
<1>3. RecordInv'
  BY ZeroMisses DEF RecordInv, PastInv
<1>4. PurgeInv'
  BY DEF PurgeInv, Listed
<1>5. QED
  BY <1>1, <1>2, <1>3, <1>4

\* A request goes out at the scheduled time.
LEMMA LeaseInvSend ==
    ASSUME TypeOK, LeaseInv, NEW c \in Clients, BeatSend(c)
    PROVE  LeaseInv'
<1> USE LeaseAssumption DEF TypeOK, LeaseInv, Turn, TurnTaken, Outstanding, TimedOut,
                            sourceVars, sinkVars, BeatSend
<1>1. PastInv'
  BY DEF PastInv, RecordInv, ScheduleInv
<1>2. ScheduleInv'
  <2>0. anchor[c] # 0 => now <= anchor[c] + Third + Slack /\ missed[c] = 0
    BY ScheduleBounds DEF ScheduleInv
  <2>1. anchor'[c] # 0 =>
            last_send'[c] <= anchor'[c] + Third + Slack + missed'[c] * (ReplyTimeout + Slack)
    BY <2>0, ZeroMisses, SlackType
  <2>2. last_send'[c] # 0 /\ due'[c] < last_send'[c] + ReplyTimeout + Interval
    BY DEF PastInv
  <2>3. \A d \in Clients : d # c => /\ last_send'[d] = last_send[d] /\ missed'[d] = missed[d]
                                    /\ next_send'[d] = next_send[d] /\ due'[d] = due[d]
                                    /\ anchor'[d] = anchor[d]
    OBVIOUS
  <2>4. on' = on /\ now' = now
    OBVIOUS
  <2>5. QED
    BY ONLY <2>1, <2>2, <2>3, <2>4, ScheduleInv DEF ScheduleInv, Outstanding
<1>3. RecordInv'
  BY ZeroMisses DEF RecordInv, PastInv
<1>4. PurgeInv'
  BY DEF PurgeInv, Listed
<1>5. QED
  BY <1>1, <1>2, <1>3, <1>4

\* A request that arrives brings the entry up to date.
LEMMA LeaseInvDeliver ==
    ASSUME TypeOK, LeaseInv, NEW c \in Clients, Deliver(c) \/ DeliverLate(c)
    PROVE  LeaseInv'
<1> USE LeaseAssumption DEF TypeOK, LeaseInv, Turn, TurnTaken, Outstanding, TimedOut,
                            sourceVars, sinkVars, Deliver, DeliverLate,
                            RecordClient, Admitted, Listed
<1>1. PastInv'
  BY DEF PastInv, RecordInv, ScheduleInv
<1>2. ScheduleInv'
  BY WallBounds, ZeroMisses DEF ScheduleInv, PastInv
<1>3. RecordInv'
  <2>1. Wall \in Int /\ now - Sec < Wall
    BY WallBounds
  <2>2. ASSUME NEW d \in Clients, on[d], anchor[d] # 0, missed[d] <= Tolerated
        PROVE  d \in Listed
    BY <2>2 DEF RecordInv, Absent
  <2>3. \A d \in Clients : \/ active'[d] = active[d]
                           \/ active'[d] = Wall
    OBVIOUS
  <2>4. \A d \in Clients : net'[d] # net[d] =>
            (net'[d] = "refused" /\ d \notin Listed) \/ active'[d] = Wall
    OBVIOUS
  <2>5. on' = on /\ anchor' = anchor /\ missed' = missed /\ wire' = wire /\ last_send' = last_send
    OBVIOUS
  <2>6. QED
    BY <2>5, <2>4, <2>3, <2>2, <2>1 DEF PastInv, RecordInv
<1>4. PurgeInv'
  <2>1. Wall \in Int /\ now - Sec < Wall
    BY WallBounds
  <2>2. \A d \in Clients : active'[d] = active[d] \/ active'[d] = Wall
    OBVIOUS
  <2>3. ASSUME source_on', purged', NEW d \in Listed'
        PROVE  next_beat' - SourceInt - active'[d] < Lease + Sec - 1
    <3>0. source_on /\ purged /\ next_beat' = next_beat /\ d \in Clients
      BY <2>3
    <3>1. CASE active'[d] = active[d]
      <4>1. d \in Listed
        BY <2>3, <3>1
      <4>2. next_beat - SourceInt - active[d] < Lease + Sec - 1
        BY <3>0, <4>1 DEF PurgeInv
      <4>3. QED
        BY <3>0, <3>1, <4>2
    <3>2. CASE active'[d] = Wall
      <4>1. next_beat - SourceInt <= now
        BY <3>0 DEF PurgeInv
      <4>2. next_beat - SourceInt - Wall < Lease + Sec - 1
        BY <2>1, <4>1, LeasePositive
      <4>3. QED
        BY <3>0, <3>2, <4>2
    <3>3. QED
      BY <2>2, <2>3, <3>1, <3>2
  <2>4. QED
    BY <2>3 DEF PurgeInv
<1>5. QED
  BY <1>1, <1>2, <1>3, <1>4

\* A lost message changes nothing.
LEMMA LeaseInvLose ==
    ASSUME TypeOK, LeaseInv, NEW c \in Clients, Lose(c) \/ LoseLate(c)
    PROVE  LeaseInv'
<1> USE LeaseAssumption DEF TypeOK, LeaseInv, Turn, TurnTaken, Outstanding, TimedOut,
                            sourceVars, sinkVars, Lose, LoseLate
<1>1. PastInv'
  BY DEF PastInv, RecordInv, ScheduleInv
<1>2. ScheduleInv'
  BY ZeroMisses DEF ScheduleInv, PastInv
<1>3. RecordInv'
  BY ZeroMisses DEF RecordInv, PastInv
<1>4. PurgeInv'
  BY DEF PurgeInv, Listed
<1>5. QED
  BY <1>1, <1>2, <1>3, <1>4
\* The source's Heartbeat kicks out nobody whose schedule is kept.
LEMMA LeaseInvSource ==
    ASSUME TypeOK, LeaseInv, SourceStart \/ SourceStop \/ SourceBeat
    PROVE  LeaseInv'
<1> USE LeaseAssumption DEF TypeOK, LeaseInv, Turn, Outstanding, sinkVars
<1>1. CASE SourceStart \/ SourceStop
  BY <1>1 DEF SourceStart, SourceStop, PastInv, ScheduleInv, RecordInv, PurgeInv, Listed
<1>2. CASE SourceBeat
  <2> USE <1>2 DEF SourceBeat
  <2>0. Wall \in Int /\ Wall <= now /\ now - Sec < Wall
    BY WallBounds
  <2>1. PastInv' /\ ScheduleInv'
    BY DEF PastInv, ScheduleInv
  <2>2. ASSUME NEW c \in Clients, on[c], Outstanding(c), wire[c] = last_send[c], net[c] = "ok"
        PROVE  active'[c] = active[c]
    <3>1. now <= wire[c] + ReplyTimeout + Slack /\ active[c] >= wire[c] - Sec + 1
      BY <2>2, ScheduleBounds DEF RecordInv
    <3>2. ReplyTimeout + Slack + Sec - 1 < Lease
      BY MissFewer
    <3>3. ~(Wall - active[c] >= Lease)
      BY <2>0, <3>1, <3>2, SlackType
    <3>4. QED
      BY <3>3 DEF KickOut, Expired
  <2>3. ASSUME NEW c \in Clients, on[c], anchor[c] # 0, missed[c] <= Tolerated
        PROVE  active'[c] = active[c]
    <3> DEFINE x == missed[c] * (ReplyTimeout + Slack)
    <3>0. x \in Nat /\ Slack \in Nat
      BY MissOneMore, SlackType
    <3>1. now <= anchor[c] + Third + Slack + x + ReplyTimeout + Slack
      BY <2>3, <3>0, ScheduleBounds
    <3>2. active[c] >= anchor[c] - Sec + 1
      BY <2>3 DEF RecordInv
    <3>3. Third + Slack + x + ReplyTimeout + Slack + Sec - 1 < Lease
      BY <2>3, MissFewer
    <3> HIDE DEF x
    <3>4. ~(Wall - active[c] >= Lease)
      BY <2>0, <3>0, <3>1, <3>2, <3>3
    <3>5. QED
      BY <3>4 DEF KickOut, Expired
  <2>4. RecordInv'
    BY <2>2, <2>3 DEF RecordInv
  <2>5. PurgeInv'
    <3>1. next_beat <= now /\ now <= next_beat + Latency
      BY DEF PurgeInv
    <3>2. ASSUME NEW c \in Listed' PROVE now - active'[c] < Lease + Sec - 1
      <4>1. c \in Clients /\ active'[c] = active[c] /\ ~(Wall - active[c] >= Lease)
        BY <3>2 DEF Listed, KickOut, Expired
      <4>2. QED
        BY <2>0, <4>1
    <3>3. ASSUME NEW c \in Listed' PROVE next_beat - active'[c] < Lease + Sec - 1
      <4>1. active'[c] \in Int
        BY <3>3 DEF Listed, KickOut, Absent
      <4>2. QED
        BY <3>1, <3>2, <4>1
    <3>4. next_beat' - SourceInt = next_beat
      OBVIOUS
    <3>5. QED
      BY <3>1, <3>3, <3>4 DEF PurgeInv
  <2>6. QED
    BY <2>1, <2>4, <2>5
<1>3. QED
  BY <1>1, <1>2

(***************************************************************************)
(* LeaseInv is an inductive invariant of the heartbeat protocol.           *)
(***************************************************************************)
THEOREM LeaseInvariant == Spec => []LeaseInv
<1>1. TypeOK /\ LeaseInv /\ [Next]_vars => LeaseInv'
  <2> SUFFICES ASSUME TypeOK, LeaseInv, [Next]_vars PROVE LeaseInv'
    OBVIOUS
  <2>1. ASSUME NEW c \in Clients, Sink(c) PROVE LeaseInv'
    BY <2>1, LeaseInvStartStop, LeaseInvQuiet, LeaseInvReply, LeaseInvTimeout,
       LeaseInvNoSocket, LeaseInvSend DEF Sink
  <2>2. ASSUME NEW c \in Clients, Net(c) PROVE LeaseInv'
    BY <2>2, LeaseInvDeliver, LeaseInvLose DEF Net
  <2>3. CASE UNCHANGED vars \/ OtherJoins \/ OtherLeaves
    BY <2>3 DEF vars, OtherJoins, OtherLeaves, sinkVars, LeaseInv, PastInv, ScheduleInv, RecordInv, PurgeInv, Listed,
                Turn, Outstanding
  <2>4. QED
    BY <2>1, <2>2, <2>3, LeaseInvTick, LeaseInvSource DEF Next
<1>2. QED
  BY <1>1, LeaseInvInit, LeaseTypeCorrect, PTL DEF Spec

(***************************************************************************)
(* A client whose requests are answered is neither dropped nor refused     *)
(* before it has met more than Tolerated timeouts in a row.                *)
(***************************************************************************)
THEOREM LeaseKeepAlive == Spec => []KeepAlive
<1>1. TypeOK /\ LeaseInv => KeepAlive
  BY LeaseAssumption DEF TypeOK, LeaseInv, RecordInv, KeepAlive, Listed, Absent
<1>2. QED
  BY <1>1, LeaseInvariant, LeaseTypeCorrect, PTL

(***************************************************************************)
(* A started sink always has a request outstanding or scheduled.           *)
(***************************************************************************)
THEOREM LeaseNeverSilent == Spec => []NeverSilent
<1>1. TypeOK /\ LeaseInv => NeverSilent
  BY ScheduleBounds DEF LeaseInv, ScheduleInv, NeverSilent
<1>2. QED
  BY <1>1, LeaseInvariant, LeaseTypeCorrect, PTL

(***************************************************************************)
(* Entries of clients that went away do not outlive the lease by more than *)
(* the source's heartbeat interval, its worker's latency and one second.   *)
(***************************************************************************)
THEOREM LeaseDeadKicked == Spec => []DeadKicked
<1>1. TypeOK /\ LeaseInv => DeadKicked
  <2> SUFFICES ASSUME TypeOK, LeaseInv, source_on, purged, NEW c \in Listed
               PROVE  Wall - active[c] < Lease + SourceInt + Latency + Sec - 1
    BY DEF DeadKicked
  <2>1. Wall \in Int /\ Wall <= now /\ now <= next_beat + Latency
    BY WallBounds DEF TypeOK, LeaseInv, PurgeInv
  <2>2. next_beat - SourceInt - active[c] < Lease + Sec - 1
    BY DEF LeaseInv, PurgeInv
  <2>3. active[c] \in Int /\ next_beat \in Nat /\ now \in Nat
    BY DEF TypeOK, Listed
  <2>4. QED
    BY <2>1, <2>2, <2>3, LeaseAssumption
<1>2. QED
  BY <1>1, LeaseInvariant, LeaseTypeCorrect, PTL

-----------------------------------------------------------------------------
(* The limit of the client list *)

\* The list only grows where a request of a client is recorded, and then by
\* that client alone.
LEMMA RecordListed ==
    ASSUME TypeOK, NEW c \in Clients, RecordClient(c)
    PROVE  Listed' = IF Admitted(c) THEN Listed \cup {c} ELSE Listed
<1>1. Wall # Absent
  BY WallBounds, LeaseAssumption DEF TypeOK, Absent
<1>2. CASE Admitted(c)
  BY <1>1, <1>2 DEF RecordClient, Listed, Absent, TypeOK
<1>3. CASE ~Admitted(c)
  BY <1>3 DEF RecordClient, Listed, Absent
<1>4. QED
  BY <1>2, <1>3

LEMMA RecordCapacity ==
    ASSUME TypeOK, CapacityInv, NEW c \in Clients, RecordClient(c), UNCHANGED others
    PROVE  CapacityInv'
<1> USE DEF CapacityInv, Capacity, ListSize
<1>1. Cardinality(Listed) \in Nat
  BY FS_CardinalityType
<1>2. CASE Admitted(c)
  <2>1. Listed' = Listed \cup {c}
    BY <1>2, RecordListed
  <2>2. /\ IsFiniteSet(Listed')
        /\ Cardinality(Listed') = IF c \in Listed THEN Cardinality(Listed)
                                                  ELSE Cardinality(Listed) + 1
    BY <2>1, FS_AddElement
  <2>3. Cardinality(Listed') + others <= MaxClients
    BY <1>1, <1>2, <2>2, LeaseAssumption DEF Admitted, HasRoom, TypeOK
  <2>4. QED
    BY <2>2, <2>3
<1>3. CASE ~Admitted(c)
  <2>1. Listed' = Listed
    BY <1>3, RecordListed
  <2>2. QED
    BY <2>1
<1>4. QED
  BY <1>2, <1>3

(***************************************************************************)
(* ClientHeartbeatHandler never lets the list grow beyond                  *)
(* STSW_MAX_CLIENT_NUM, for any number of clients, even infinitely many:   *)
(* that the list is finite is part of what is proved.                      *)
(***************************************************************************)
THEOREM LeaseCapacity == Spec => []Capacity
<1> USE DEF CapacityInv, Capacity, ListSize
<1>1. Init => CapacityInv
  <2> SUFFICES ASSUME Init PROVE CapacityInv
    OBVIOUS
  <2>1. Listed = {} /\ others = 0
    BY DEF Init, Listed
  <2>2. QED
    BY <2>1, FS_EmptySet, LeaseAssumption
<1>2. TypeOK /\ CapacityInv /\ [Next]_vars => CapacityInv'
  <2> SUFFICES ASSUME TypeOK, CapacityInv, [Next]_vars PROVE CapacityInv'
    OBVIOUS
  <2>0. Cardinality(Listed) \in Nat /\ others \in Nat /\ MaxClients \in Nat
    BY FS_CardinalityType, LeaseAssumption DEF TypeOK
  <2>1. ASSUME NEW c \in Clients, Deliver(c) \/ DeliverLate(c) PROVE CapacityInv'
    BY <2>1, RecordCapacity DEF Deliver, DeliverLate
  <2>2. CASE SourceBeat
    <3>1. Listed' \subseteq Listed /\ others' = others
      BY <2>2 DEF SourceBeat, KickOut, Listed, Absent
    <3>2. IsFiniteSet(Listed') /\ Cardinality(Listed') <= Cardinality(Listed)
      BY <3>1, FS_Subset
    <3>3. Cardinality(Listed') \in Nat
      BY <3>2, FS_CardinalityType
    <3>4. QED
      BY <2>0, <3>1, <3>2, <3>3
  <2>3. CASE OtherJoins \/ OtherLeaves
    <3>1. Listed' = Listed /\ ((others' = others + 1 /\ HasRoom) \/ others' = others - 1)
      BY <2>3 DEF OtherJoins, OtherLeaves, Listed, Absent
    <3>2. QED
      BY <2>0, <3>1 DEF HasRoom
  <2>4. ASSUME UNCHANGED <<active, others>> PROVE CapacityInv'
    <3>1. Listed' = Listed /\ others' = others
      BY <2>4 DEF Listed, Absent
    <3>2. QED
      BY <3>1
  <2>5. ASSUME NEW c \in Clients, Sink(c) PROVE UNCHANGED <<active, others>>
    BY <2>5 DEF Sink, SinkStart, SinkStop, SinkUninit, BeatWait, BeatAccept, BeatRefused,
                BeatTimeout, BeatTimeoutNoSocket, BeatSend, BeatIdle, sourceVars
  <2>6. ASSUME NEW c \in Clients, Lose(c) \/ LoseLate(c) PROVE UNCHANGED <<active, others>>
    BY <2>6 DEF Lose, LoseLate, sourceVars
  <2>7. CASE Tick \/ SourceStart \/ SourceStop \/ UNCHANGED vars
    BY <2>4, <2>7 DEF Tick, SourceStart, SourceStop, vars, sourceVars
  <2>8. QED
    BY <2>1, <2>2, <2>3, <2>4, <2>5, <2>6, <2>7 DEF Next, Net
<1>3. QED
  BY <1>1, <1>2, LeaseTypeCorrect, PTL DEF Spec
=============================================================================
