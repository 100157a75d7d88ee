------------------------- MODULE RtspSession_proofs -------------------------
(***************************************************************************)
(* The safety properties of an RTSP client's session, for any number of    *)
(* tracks, sessions, frames and packets and any queue limit, also when a   *)
(* track is set up more than once. ClosedQuiet rests on LockInv alone, the *)
(* properties of the queues on QueueInv, SharedInv and FlowInv as well.    *)
(***************************************************************************)
EXTENDS RtspSession, FiniteSetTheorems, TLAPS

-----------------------------------------------------------------------------
(* Who holds the lock and runs the sink *)

LEMMA LockRequests ==
    ASSUME LockInv, Request \/ StartRest \/ ClientTimeout
    PROVE  LockInv'
<1> USE DEF LockInv
<1>1. CASE Describe
  BY <1>1 DEF Describe, loopVars, timeVars, workerVars, serviceVars
<1>2. ASSUME NEW s \in Sessions, Setup(s) PROVE LockInv'
  BY <1>2 DEF Setup, loopVars, timeVars, workerVars, serviceVars
<1>3. CASE Play
  BY <1>3 DEF Play, Sink!Started, timeVars, workerVars
<1>4. CASE PlayStartFails
  BY <1>4 DEF PlayStartFails, loopVars, timeVars, workerVars, serviceVars
<1>5. CASE DoPause
  BY <1>5 DEF DoPause, rtspVars, timeVars, workerVars, serviceVars
<1>6. CASE ClientCloses
  BY <1>6 DEF ClientCloses, loopVars, rtspVars, workerVars, serviceVars
<1>7. CASE KeyFrameOk
  BY <1>7 DEF KeyFrameOk, workerVars, serviceVars
<1>8. CASE KeyFrameFails
  BY <1>8 DEF KeyFrameFails, Sink!StopRequested, rtspVars, workerVars
<1>9. CASE StartStopReturns
  BY <1>9 DEF StartStopReturns, Sink!StopCompletes, rtspVars, workerVars
<1>10. CASE ClientTimeout
  BY <1>10 DEF ClientTimeout, loopVars, rtspVars, workerVars, serviceVars
<1>11. CASE SetupUnknownTrack
  BY <1>11 DEF SetupUnknownTrack, loopVars, timeVars, workerVars, serviceVars
<1> QED
  BY <1>1, <1>2, <1>3, <1>4, <1>5, <1>6, <1>7, <1>8, <1>9, <1>10, <1>11
     DEF Request, StartRest

LEMMA LockWriters ==
    ASSUME LockInv, (\E s \in Sessions : Write(s)) \/ WriteRest
    PROVE  LockInv'
<1> USE DEF LockInv, rtspVars, workerVars, serviceVars
<1>1. ASSUME NEW s \in Sessions, Write(s) PROVE LockInv'
  BY <1>1 DEF Write, WriteGet
<1>2. ASSUME NEW sent \in BOOLEAN, WriteSend(sent) PROVE LockInv'
  BY <1>2 DEF WriteSend
<1>3. ASSUME NEW end \in BOOLEAN, WriteNothing(end) PROVE LockInv'
  BY <1>3 DEF WriteNothing
<1>4. ASSUME NEW sent \in BOOLEAN, WriteFreed(sent) PROVE LockInv'
  BY <1>4 DEF WriteFreed
<1>5. CASE WriteDies
  BY <1>5 DEF WriteDies
<1> QED
  BY <1>1, <1>2, <1>3, <1>4, <1>5 DEF WriteRest

LEMMA LockDisconnect == ASSUME LockInv, Disconnect PROVE LockInv'
<1> USE DEF LockInv, workerVars
<1>1. CASE DisconnectPlaying
  BY <1>1 DEF DisconnectPlaying, Sink!StopRequested
<1>2. CASE DisconnectPaused
  BY <1>2 DEF DisconnectPaused, MustPause, serviceVars
<1>3. CASE PauseStopReturns
  BY <1>3 DEF PauseStopReturns, Sink!StopCompletes, rtspVars
<1>4. CASE PauseReset
  BY <1>4 DEF PauseReset, rtspVars, serviceVars
<1>5. ASSUME NEW s \in Sessions, FreeSession(s) PROVE LockInv'
  BY <1>5 DEF FreeSession, loopVars, serviceVars
<1>6. CASE Close
  BY <1>6 DEF Close, serviceVars
<1>7. ASSUME NEW s \in Sessions, FreeSessionDies(s) PROVE LockInv'
  BY <1>7 DEF FreeSessionDies, rtspVars, serviceVars
<1> QED
  BY <1>1, <1>2, <1>3, <1>4, <1>5, <1>6, <1>7 DEF Disconnect

LEMMA LockWorker == ASSUME LockInv, WorkerBegins \/ WorkerRest PROVE LockInv'
<1> USE DEF LockInv, loopVars, rtspVars
<1>1. ASSUME NEW t \in Tracks, NEW n \in 0..MaxPackets, FrameArrives(t, n) PROVE LockInv'
  BY <1>1 DEF FrameArrives, Sink!CallbackBegins
<1>2. CASE MismatchArrives
  BY <1>2 DEF MismatchArrives, Sink!CallbackBegins
<1>3. CASE FrameDropped
  BY <1>3 DEF FrameDropped, Sink!CallbackEnds
<1>4. CASE FrameParsed
  BY <1>4 DEF FrameParsed, serviceVars
<1>5. CASE PutPacket
  BY <1>5 DEF PutPacket, serviceVars
<1>6. CASE FrameDone
  BY <1>6 DEF FrameDone, Sink!CallbackEnds
<1>7. CASE MismatchDone
  BY <1>7 DEF MismatchDone, Sink!CallbackEnds
<1> QED
  BY <1>1, <1>2, <1>3, <1>4, <1>5, <1>6, <1>7 DEF WorkerBegins, WorkerRest

LEMMA LockStep == ASSUME LockInv, [Next]_vars PROVE LockInv'
<1>1. CASE vars' = vars
  BY <1>1 DEF vars, LockInv, loopVars, rtspVars, workerVars, serviceVars
<1>2. CASE Next
  BY <1>2, LockRequests, LockWriters, LockDisconnect, LockWorker DEF Next
<1> QED
  BY <1>1, <1>2

\* r_free_cb frees the resource's lock and information only after the sink
\* has stopped and with nobody holding the lock, however PLAY ended and
\* whenever the client went away.
THEOREM RtspClosedQuiet == Spec => []ClosedQuiet
<1>1. Init => LockInv
  BY DEF Init, LockInv, Sink!ServiceInit
<1>2. LockInv => ClosedQuiet
  BY DEF LockInv, ClosedQuiet
<1> QED
  BY <1>1, <1>2, LockStep, PTL DEF Spec

\* stsw_start finds the sink stopped, and stsw_start and stsw_pause call Stop
\* of a sink that runs.
SinkInTurn ==
    /\ pc = "idle" /\ cur_state = "ready" => phase = "stopped"
    /\ pc = "start_key" \/ (pc = "idle" /\ started) => phase = "running"

\* A session that plays, or is about to, is in the PLAYING state.
PlayingInv == started \/ pc \in {"start_key", "start_stop"} => cur_state = "playing"

LEMMA PlayingStep == ASSUME PlayingInv, [Next]_vars PROVE PlayingInv'
<1> USE DEF PlayingInv, loopVars, rtspVars
<1>1. CASE Request
  BY <1>1 DEF Request, Describe, SetupUnknownTrack, Setup, Play, PlayStartFails, DoPause, ClientCloses
<1>2. CASE StartRest \/ ClientTimeout
  BY <1>2 DEF StartRest, KeyFrameOk, KeyFrameFails, StartStopReturns, ClientTimeout
<1>3. CASE (\E s \in Sessions : Write(s)) \/ WriteRest
  BY <1>3 DEF Write, WriteGet, WriteRest, WriteSend, WriteFreed, WriteDies, WriteNothing
<1>4. CASE Disconnect
  BY <1>4 DEF Disconnect, DisconnectPlaying, DisconnectPaused, PauseStopReturns, PauseReset,
              FreeSession, FreeSessionDies, Close
<1>5. CASE WorkerBegins \/ WorkerRest
  BY <1>5 DEF WorkerBegins, FrameArrives, MismatchArrives, WorkerRest, FrameDropped,
              FrameParsed, PutPacket, FrameDone, MismatchDone
<1>6. CASE UNCHANGED vars
  BY <1>6 DEF vars
<1>7. QED
  BY <1>1, <1>2, <1>3, <1>4, <1>5, <1>6 DEF Next

\* Wherever the event loop calls Start or Stop, the sink is in the state that
\* WorkerService asks for; so its guards forbid nothing that the code does.
THEOREM RtspSinkInTurn == Spec => []SinkInTurn
<1>1. Init => LockInv /\ PlayingInv
  BY DEF Init, LockInv, PlayingInv, Sink!ServiceInit
<1>2. LockInv /\ PlayingInv => SinkInTurn
  BY DEF LockInv, PlayingInv, SinkInTurn
<1>3. LockInv /\ PlayingInv /\ [Next]_vars => LockInv' /\ PlayingInv'
  BY LockStep, PlayingStep
<1>4. QED
  BY <1>1, <1>2, <1>3, PTL DEF Spec

-----------------------------------------------------------------------------
(* What the queue operations do *)

LEMMA NewQueue == /\ Sound(NewProducer) /\ NewProducer.consumers = 0
                  /\ NewProducer.seen = <<>>
  BY DEF Sound, NewProducer, Producers

\* A new consumer is not attached to any queue, and the others see no change.
LEMMA NewReader ==
    ASSUME NEW q, Sound(q)
    PROVE  /\ Sound(ConsumerNew(q)) /\ ConsumerNew(q).consumers = q.consumers + 1
           /\ ConsumerNew(q).seen = q.seen /\ Oldest(ConsumerNew(q)) = Oldest(q)
           /\ Fits(ConsumerNew(q), NewConsumer) /\ ~Attached(ConsumerNew(q), NewConsumer)
           /\ \A c : /\ Fits(ConsumerNew(q), c) <=> Fits(q, c)
                     /\ Selects(ConsumerNew(q), c) <=> Selects(q, c)
                     /\ Dangling(ConsumerNew(q), c) <=> Dangling(q, c)
<1>1. /\ ConsumerNew(q) \in Producers /\ ConsumerNew(q).consumers = q.consumers + 1
      /\ ConsumerNew(q).seen = q.seen /\ ConsumerNew(q).next_serial = q.next_serial
      /\ ConsumerNew(q).queue_serial = q.queue_serial
  BY DEF Sound, ConsumerNew, Producers
<1>2. q.consumers \in Nat /\ q.queue_serial \in Nat /\ q.queue_serial >= 1
  BY DEF Sound, Producers
<1>3. NewConsumer \in Consumers /\ NewConsumer.queue_serial = 0
  BY DEF NewConsumer, Consumers
<1>4. Sound(ConsumerNew(q))
  BY <1>1, <1>2 DEF Sound
<1>5. Oldest(ConsumerNew(q)) = Oldest(q)
  BY <1>1 DEF Oldest
<1>6. Fits(ConsumerNew(q), NewConsumer) /\ ~Attached(ConsumerNew(q), NewConsumer)
  BY <1>1, <1>2, <1>3 DEF Fits, Attached
<1>7. ASSUME NEW c
      PROVE  /\ Fits(ConsumerNew(q), c) <=> Fits(q, c)
             /\ Selects(ConsumerNew(q), c) <=> Selects(q, c)
             /\ Dangling(ConsumerNew(q), c) <=> Dangling(q, c)
  BY <1>1, <1>5 DEF Fits, Selects, Attached, Dangling, Queued
<1> QED
  BY <1>1, <1>4, <1>5, <1>6, <1>7

\* A reset queue is empty and nobody is attached to it.
LEMMA ResetSound ==
    ASSUME NEW q, Sound(q)
    PROVE  /\ Sound(ResetQueue(q)) /\ ResetQueue(q).consumers = q.consumers
           /\ ResetQueue(q).seen = <<>>
           /\ \A c : Fits(q, c) => Fits(ResetQueue(q), c)
<1> DEFINE empty == <<>>
<1>0. empty \in Seq(Nat) /\ Len(empty) = 0
  OBVIOUS
<1>1. q.queue_serial \in Nat /\ q.consumers \in Nat
  BY DEF Sound, Producers
<1> HIDE DEF empty
<1>2. /\ ResetQueue(q).queue_serial = q.queue_serial + 1
      /\ ResetQueue(q).consumers = q.consumers
      /\ ResetQueue(q).seen = empty /\ ResetQueue(q).next_serial = 0
  BY DEF ResetQueue, Sound, Producers, empty
<1>3. ResetQueue(q) \in Producers /\ Len(ResetQueue(q).seen) = 0
  <2> DEFINE n == q.queue_serial + 1
  <2>1. ResetQueue(q) = [q EXCEPT !.queue_serial = n, !.next_serial = 0, !.seen = empty]
    BY DEF ResetQueue, empty
  <2>2. n \in Nat
    BY <1>1
  <2> HIDE DEF n
  <2>3. q \in Producers
    BY DEF Sound
  <2>4. [q EXCEPT !.queue_serial = n, !.next_serial = 0, !.seen = empty] \in Producers
    BY <1>0, <2>2, <2>3 DEF Producers
  <2> QED
    BY <1>0, <1>2, <2>1, <2>4
<1>4. Sound(ResetQueue(q))
  BY <1>1, <1>2, <1>3 DEF Sound, empty
<1>5. ASSUME NEW c, Fits(q, c) PROVE Fits(ResetQueue(q), c)
  BY <1>1, <1>2, <1>5 DEF Fits, Consumers, Selects, Attached
<1> QED
  BY <1>2, <1>4, <1>5 DEF empty

\* bq_producer_put leaves the head of the queue and every selection alone.
LEMMA PutSound ==
    ASSUME NEW q, Sound(q), q.consumers > 0
    PROVE  /\ Sound(Put(q)) /\ Put(q).consumers = q.consumers
           /\ Len(Put(q).seen) = Len(q.seen) + 1
           /\ Oldest(Put(q)) = Oldest(q)
           /\ Unmarked(q) => Unmarked(Put(q))
           /\ \A c : /\ Fits(q, c) => Fits(Put(q), c)
                     /\ Selects(Put(q), c) <=> Selects(q, c)
                     /\ Dangling(Put(q), c) => Dangling(q, c)
<1> DEFINE r == Append(q.seen, 0)
<1>1. /\ r \in Seq(Nat) /\ Len(r) = Len(q.seen) + 1
      /\ \A i \in 1..Len(q.seen) : r[i] = q.seen[i]
      /\ r[Len(q.seen) + 1] = 0
  BY DEF Sound, Producers
<1>2. Unmarked(q) => \A i \in 1..Len(r) : r[i] = 0
  BY <1>1 DEF Sound, Producers, Unmarked
<1>3. /\ Put(q) \in Producers
      /\ Put(q).seen = r /\ Put(q).next_serial = q.next_serial + 1
      /\ Put(q).consumers = q.consumers /\ Put(q).queue_serial = q.queue_serial
  <2>1. Put(q) = [q EXCEPT !.next_serial = @ + 1, !.seen = r]
    BY DEF Put
  <2>2. q.queue_serial \in Nat /\ q.next_serial + 1 \in Nat /\ q \in Producers
    BY DEF Sound, Producers
  <2> HIDE DEF r
  <2> QED
    BY <1>1, <2>1, <2>2 DEF Producers
<1>4. Oldest(Put(q)) = Oldest(q) /\ Oldest(q) \in Int
  BY <1>1, <1>3 DEF Oldest, Sound, Producers
<1> HIDE DEF r
<1>5. q.next_serial \in Nat /\ q.consumers \in Nat /\ Len(q.seen) \in Nat /\ q.queue_serial >= 1
        /\ Len(q.seen) <= q.next_serial
  BY DEF Sound, Producers
<1>6. Sound(Put(q))
  BY <1>1, <1>3, <1>5 DEF Sound
<1>7. Unmarked(q) => Unmarked(Put(q))
  BY <1>2, <1>3 DEF Unmarked
<1>8. ASSUME NEW c
      PROVE  /\ Fits(q, c) => Fits(Put(q), c)
             /\ Selects(Put(q), c) <=> Selects(q, c)
             /\ Dangling(Put(q), c) => Dangling(q, c)
  <2>1. /\ Fits(q, c) => Fits(Put(q), c)
        /\ Selects(Put(q), c) <=> Selects(q, c)
    BY <1>3 DEF Fits, Selects, Attached
  <2>2. Queued(q, c.at) => Queued(Put(q), c.at)
    BY <1>3, <1>4, <1>5 DEF Queued
  <2> QED
    BY <2>1, <2>2 DEF Dangling
<1> QED
  BY <1>1, <1>3, <1>4, <1>6, <1>7, <1>8

\* bq_consumer_get selects the head of the queue or keeps what was selected;
\* unless that was freed, it finds nothing only in an empty queue.
LEMMA GetFits ==
    ASSUME NEW q, NEW c, Sound(q), Fits(q, c)
    PROVE  LET g == GetConsumer(q, c)
           IN  /\ Fits(q, g)
               /\ ~Dangling(q, c) => ~Dangling(q, g)
               /\ AtHead(q, c) => AtHead(q, g)
               /\ TRUE \in GetReturns(q, c) => Selects(q, g)
               /\ FALSE \in GetReturns(q, c) /\ ~Dangling(q, c) => Len(q.seen) = 0
<1> DEFINE g == GetConsumer(q, c)
<1>1. CASE Selects(q, c)
  <2>1. g = c /\ c.at # NoElement
    BY <1>1 DEF GetConsumer, Selects
  <2>2. ~Dangling(q, c) => GetReturns(q, c) = {TRUE}
    BY <2>1 DEF GetReturns
  <2> QED
    BY <1>1, <2>1, <2>2
<1>2. CASE ~Selects(q, c)
  <2>1. g = [queue_serial |-> q.queue_serial,
             at |-> IF Queued(q, Oldest(q)) THEN Oldest(q) ELSE NoElement]
    BY <1>2 DEF GetConsumer, MoveConsumer, MoveTarget
  <2>2. Oldest(q) \in Nat /\ (Queued(q, Oldest(q)) <=> Len(q.seen) > 0)
    BY DEF Oldest, Queued, Sound, Producers
  <2>3. Len(q.seen) \in Nat /\ q.queue_serial \in Nat
    BY DEF Sound, Producers
  <2>4. ~Dangling(q, c) /\ GetReturns(q, c) = {g.at # NoElement}
    BY <1>2 DEF Dangling, GetReturns
  <2>5. g.queue_serial = q.queue_serial
          /\ g.at = IF Queued(q, Oldest(q)) THEN Oldest(q) ELSE NoElement
    BY <2>1
  <2>6. g \in Consumers
    BY <2>1, <2>2, <2>3 DEF Consumers
  <2>7. Fits(q, g)
    BY <2>3, <2>5, <2>6 DEF Fits
  <2>8. Selects(q, g) <=> g.at # NoElement
    BY <2>5 DEF Selects, Attached
  <2>9. ~Dangling(q, g) /\ AtHead(q, g)
    BY <2>2, <2>5, <2>8 DEF Dangling, AtHead
  <2>10. g.at = NoElement => Len(q.seen) = 0
    BY <2>2, <2>3, <2>5, NoElementAssumption
  <2> HIDE DEF g
  <2>11. /\ TRUE \in GetReturns(q, c) => Selects(q, g)
         /\ FALSE \in GetReturns(q, c) => Len(q.seen) = 0
    BY <2>4, <2>8, <2>10
  <2> QED
    BY <2>7, <2>9, <2>11 DEF g
<1> QED
  BY <1>1, <1>2

\* The element marked by a consumer that is not the last to see it.
LEMMA MarkSound ==
    ASSUME NEW q, NEW c, Sound(q), Fits(q, c), Holds(q, c), ~LastToSee(q, c)
    PROVE  LET p == MoveProducer(q, c)
           IN  /\ p \in Producers /\ Len(p.seen) = Len(q.seen)
               /\ p.next_serial = q.next_serial
               /\ p.consumers = q.consumers /\ p.queue_serial = q.queue_serial
<1> DEFINE i == c.at - Oldest(q) + 1
           r == [q.seen EXCEPT ![i] = @ + 1]
<1>1. q.next_serial \in Nat /\ Len(q.seen) \in Nat /\ Len(q.seen) <= q.next_serial
        /\ Oldest(q) = q.next_serial - Len(q.seen) /\ q.seen \in Seq(Nat)
  BY DEF Sound, Producers, Oldest
<1>2. i \in 1..Len(q.seen)
  BY <1>1 DEF Holds, Queued, Selects
<1> HIDE DEF i
<1>3. r \in Seq(Nat) /\ Len(r) = Len(q.seen)
  BY <1>1, <1>2
<1>4. MoveProducer(q, c) = [q EXCEPT !.seen = r]
  BY DEF MoveProducer, ElemUnref, i
<1> HIDE DEF r
<1> QED
  BY <1>3, <1>4 DEF Sound, Producers

\* The head freed by the last consumer to see it.
LEMMA DropSound ==
    ASSUME NEW q, NEW c, Sound(q), Fits(q, c), Holds(q, c), LastToSee(q, c),
           c.at = Oldest(q)
    PROVE  LET p == MoveProducer(q, c)
           IN  /\ p \in Producers /\ Len(p.seen) = Len(q.seen) - 1
               /\ p.next_serial = q.next_serial /\ Len(q.seen) > 0
               /\ p.consumers = q.consumers /\ p.queue_serial = q.queue_serial
               /\ Unmarked(q) => Unmarked(p)
<1> DEFINE r == Tail(q.seen)
<1>1. q.next_serial \in Nat /\ Len(q.seen) \in Nat /\ Len(q.seen) <= q.next_serial
        /\ Oldest(q) = q.next_serial - Len(q.seen) /\ q.seen \in Seq(Nat)
  BY DEF Sound, Producers, Oldest
<1>2. Len(q.seen) > 0
  BY <1>1 DEF Holds, Queued
<1>3. r \in Seq(Nat) /\ Len(r) = Len(q.seen) - 1
  BY <1>1, <1>2
<1>7. \A i \in 1..Len(r) : r[i] = q.seen[i + 1]
  BY <1>1, <1>2
<1>4. MoveProducer(q, c) = [q EXCEPT !.seen = r]
  BY DEF MoveProducer, ElemUnref
<1> HIDE DEF r
<1>5. /\ MoveProducer(q, c) \in Producers /\ MoveProducer(q, c).seen = r
      /\ MoveProducer(q, c).next_serial = q.next_serial
      /\ MoveProducer(q, c).consumers = q.consumers
      /\ MoveProducer(q, c).queue_serial = q.queue_serial
  BY <1>3, <1>4 DEF Sound, Producers
<1>6. ASSUME Unmarked(q) PROVE Unmarked(MoveProducer(q, c))
  <2>1. ASSUME NEW i \in 1..Len(r) PROVE r[i] = 0
    <3>1. i + 1 \in 1..Len(q.seen)
      <4> DEFINE n == Len(q.seen)
                 k == Len(r)
      <4>1. n \in Nat /\ k = n - 1 /\ i \in 1..k
        BY <1>1, <1>3, <2>1
      <4> HIDE DEF n, k
      <4>2. i + 1 \in 1..n
        BY <4>1
      <4> QED
        BY <4>2 DEF n
    <3>2. r[i] = q.seen[i + 1]
      BY <1>7, <2>1
    <3> QED
      BY <1>6, <3>1, <3>2 DEF Unmarked
  <2> QED
    BY <1>5, <2>1 DEF Unmarked
<1> QED
  BY <1>2, <1>3, <1>5, <1>6

\* bq_consumer_move: the consumer that moves does not lose its new selection,
\* and the only consumer of a queue selects the new head.
LEMMA MoveSound ==
    ASSUME NEW q, NEW c, Sound(q), Fits(q, c), Holds(q, c), ~NotHead(q, c)
    PROVE  LET p == MoveProducer(q, c)
               d == MoveConsumer(q, c)
           IN  /\ Sound(p) /\ Fits(p, d)
               /\ p.consumers = q.consumers /\ p.queue_serial = q.queue_serial
               /\ Len(p.seen) <= Len(q.seen)
               /\ ~Dangling(p, d)
               /\ q.consumers = 1 /\ Unmarked(q) /\ AtHead(q, c) => Unmarked(p) /\ AtHead(p, d)
<1> DEFINE p == MoveProducer(q, c)
           d == MoveConsumer(q, c)
<1>1. /\ q.next_serial \in Nat /\ Len(q.seen) \in Nat /\ Len(q.seen) <= q.next_serial
      /\ Oldest(q) = q.next_serial - Len(q.seen)
      /\ q.queue_serial \in Nat /\ q.queue_serial >= 1
  BY DEF Sound, Producers, Oldest
<1>2. c.at \in Nat /\ c.at >= Oldest(q) /\ c.at < q.next_serial /\ Selects(q, c)
  BY <1>1, NoElementAssumption DEF Holds, Queued, Selects, Fits, Consumers
<1>3. /\ d = [queue_serial |-> q.queue_serial,
              at |-> IF c.at + 1 < q.next_serial THEN c.at + 1 ELSE NoElement]
  BY <1>1, <1>2 DEF MoveConsumer, MoveTarget, Queued
<1>4. /\ d \in Consumers /\ d.queue_serial = q.queue_serial
      /\ d.at = IF c.at + 1 < q.next_serial THEN c.at + 1 ELSE NoElement
  BY <1>1, <1>2, <1>3 DEF Consumers
<1>5. q.consumers = 0 => FALSE
  BY <1>1, <1>2 DEF Sound
<1> HIDE DEF p, d
<1>6. CASE LastToSee(q, c)
  <2>1. c.at = Oldest(q)
    BY <1>6 DEF NotHead
  <2>2. /\ p \in Producers /\ Len(p.seen) = Len(q.seen) - 1
        /\ p.next_serial = q.next_serial /\ Len(q.seen) > 0
        /\ p.consumers = q.consumers /\ p.queue_serial = q.queue_serial
        /\ Unmarked(q) => Unmarked(p)
    BY <1>6, <2>1, DropSound DEF p
  <2>3. Oldest(p) = c.at + 1 /\ Oldest(p) \in Nat
    BY <1>1, <1>2, <2>1, <2>2 DEF Oldest
  <2>4. Sound(p)
    BY <1>1, <1>5, <2>2 DEF Sound
  <2>5. Fits(p, d)
    BY <1>1, <1>4, <2>2 DEF Fits
  <2>6. d.at # NoElement => d.at = Oldest(p) /\ d.at < p.next_serial
    BY <1>4, <2>2, <2>3
  <2>7. d.at # NoElement => Queued(p, d.at) /\ Len(p.seen) > 0
    BY <1>1, <1>2, <2>1, <2>2, <2>3, <2>6 DEF Queued
  <2>8. ~Dangling(p, d) /\ AtHead(p, d)
    BY <2>6, <2>7 DEF Dangling, AtHead, Selects
  <2> QED
    BY <1>1, <2>2, <2>4, <2>5, <2>8 DEF p, d
<1>7. CASE ~LastToSee(q, c)
  <2>1. /\ p \in Producers /\ Len(p.seen) = Len(q.seen)
        /\ p.next_serial = q.next_serial
        /\ p.consumers = q.consumers /\ p.queue_serial = q.queue_serial
    BY <1>7, MarkSound DEF p
  <2>2. Oldest(p) = Oldest(q)
    BY <2>1 DEF Oldest
  <2>3. Sound(p)
    BY <1>1, <1>5, <2>1 DEF Sound
  <2>4. Fits(p, d)
    BY <1>1, <1>4, <2>1 DEF Fits
  <2>5. d.at # NoElement => Queued(p, d.at)
    BY <1>1, <1>2, <1>4, <2>1, <2>2 DEF Queued
  <2>6. ~Dangling(p, d)
    BY <2>5 DEF Dangling, Selects
  <2>7. q.consumers = 1 /\ Unmarked(q) /\ AtHead(q, c) => FALSE
    <3> SUFFICES ASSUME q.consumers = 1, Unmarked(q), AtHead(q, c) PROVE FALSE
      OBVIOUS
    <3>1. Len(q.seen) > 0 /\ c.at = Oldest(q)
      BY <1>2 DEF AtHead
    <3>2. q.seen[1] = 0
      BY <1>1, <3>1 DEF Unmarked
    <3>3. c.at - Oldest(q) + 1 = 1
      BY <1>1, <3>1
    <3> QED
      BY <1>7, <3>2, <3>3 DEF LastToSee
  <2> QED
    BY <1>1, <2>1, <2>3, <2>4, <2>6, <2>7 DEF p, d
<1> QED
  BY <1>6, <1>7

\* A move from a freed element ends at one that is not freed, or at none.
LEMMA MoveFreed ==
    ASSUME NEW q, Sound(q), NEW d \in MoveFromFreed(q)
    PROVE  Fits(q, d) /\ ~Dangling(q, d)
<1>1. q.queue_serial \in Nat /\ q.next_serial \in Nat /\ Oldest(q) \in Nat
  BY DEF Sound, Producers, Oldest
<1>2. /\ d.queue_serial = q.queue_serial /\ d \in Consumers
      /\ d.at = NoElement \/ Queued(q, d.at)
  BY <1>1 DEF MoveFromFreed, Consumers, Queued
<1> QED
  BY <1>1, <1>2 DEF Fits, Dangling, Selects

\* bq_consumer_free of an empty queue.
LEMMA FreeSound ==
    ASSUME NEW q, NEW c, Sound(q), Fits(q, c), q.seen = <<>>, q.consumers > 0
    PROVE  /\ Sound(ConsumerFree(q, c))
           /\ ConsumerFree(q, c).consumers = q.consumers - 1
           /\ ConsumerFree(q, c).queue_serial = q.queue_serial
           /\ ConsumerFree(q, c).seen = <<>>
<1> DEFINE empty == <<>>
           f == [q EXCEPT !.consumers = q.consumers - 1, !.seen = empty]
           n == q.consumers - 1
<1>1. /\ q.queue_serial \in Nat /\ q.queue_serial >= 1 /\ q.next_serial \in Nat
      /\ n \in Nat /\ q \in Producers
  BY DEF Sound, Producers
<1>2. ~Holds(q, c)
  BY <1>1 DEF Holds, Queued, Oldest
<1>3. ElemUnref(q, c) = q
  BY <1>2 DEF ElemUnref
<1>4. empty \in Seq(Nat) /\ Len(empty) = 0 /\ DOMAIN empty = {}
  OBVIOUS
<1>5. [q EXCEPT !.consumers = @ - 1].seen = empty
  BY <1>1 DEF Producers
<1>6. \A g : [i \in DOMAIN empty |-> g[i]] = empty
  BY <1>4
<1>7. ConsumerFree(q, c) = f
  <2> DEFINE l == [q EXCEPT !.consumers = @ - 1]
  <2>1. l.seen = empty
    BY <1>5
  <2>2. [i \in DOMAIN l.seen |-> IF i <= 0 THEN l.seen[i] - 1 ELSE l.seen[i]] = empty
    BY <1>4, <2>1
  <2>3. ConsumerFree(q, c) = IF l.consumers = 0 THEN [l EXCEPT !.seen = empty]
                             ELSE [l EXCEPT !.seen =
                                    [i \in DOMAIN @ |-> IF i <= 0 THEN @[i] - 1 ELSE @[i]]]
    BY <1>2, <1>3 DEF ConsumerFree
  <2>4. ConsumerFree(q, c) = [l EXCEPT !.seen = empty]
    BY <2>2, <2>3
  <2> QED
    BY <1>1, <2>4 DEF Producers
<1> HIDE DEF n, empty
<1>8. /\ f \in Producers /\ f.seen = empty /\ f.consumers = n
      /\ f.queue_serial = q.queue_serial /\ f.next_serial = q.next_serial
  <2>1. f = [q EXCEPT !.consumers = n, !.seen = empty]
    BY DEF n
  <2> HIDE DEF f
  <2> QED
    BY <1>1, <1>4, <2>1 DEF Producers
<1> HIDE DEF f
<1>9. Sound(f)
  BY <1>1, <1>4, <1>8 DEF Sound, empty
<1> QED
  BY <1>7, <1>8, <1>9 DEF n, empty

-----------------------------------------------------------------------------
(* The state of the queues *)

LEMMA RtspInitInv == Init => TypeOK /\ LockInv /\ QueueInv /\ SharedInv /\ EorInv /\ JobInv
<1> SUFFICES ASSUME Init PROVE TypeOK /\ LockInv /\ QueueInv /\ SharedInv /\ EorInv /\ JobInv
  OBVIOUS
<1>1. NewProducer \in Producers /\ NewConsumer \in Consumers
  BY NewQueue DEF Sound, NewConsumer, Consumers
<1>2. TypeOK
  BY <1>1, RtspAssumption
     DEF Init, TypeOK, ControlOK, FlagsOK, DataOK, LoopPC, NoJob, Sink!ServiceInit
<1>3. QueueInv
  BY NewQueue DEF Init, QueueInv
<1>4. SharedInv
  <2>1. sessions = {} /\ \A t \in Tracks : queue[t] = NewProducer
    BY DEF Init
  <2>2. \A t \in Tracks : OnTrack(t) = {}
    BY <2>1 DEF OnTrack
  <2>3. CountInv
    BY <2>1, <2>2, NewQueue, FS_EmptySet DEF CountInv
  <2> QED
    BY <2>1, <2>3, NewQueue DEF SharedInv, EmptyInv, HeldInv, AloneInv
<1>5. LockInv
  BY DEF Init, LockInv, Sink!ServiceInit
<1> QED
  BY <1>2, <1>3, <1>4, <1>5, RtspAssumption DEF Init, EorInv, JobInv, NoJob

\* Steps that leave queues, consumers and writers alone.
LEMMA QueueAlone ==
    ASSUME QueueInv, UNCHANGED <<queue, consumer, sessions, writer, cur>>,
           pc' = pc \/ pc' \notin {"got", "none"}
    PROVE  QueueInv'
  BY DEF QueueInv

LEMMA SharedAlone ==
    ASSUME SharedInv, UNCHANGED <<queue, consumer, sessions>>, Active' => Active,
           started \/ pc \in {"pause_stop", "pause_lock"} =>
               started' \/ pc' \in {"pause_stop", "pause_lock"}
    PROVE  SharedInv'
<1>1. CountInv'
  BY DEF SharedInv, CountInv, OnTrack
<1>2. EmptyInv'
  BY DEF SharedInv, EmptyInv
<1>3. HeldInv'
  BY DEF SharedInv, HeldInv, OnTrack
<1>4. AloneInv'
  BY DEF SharedInv, AloneInv, Alone
<1> QED
  BY <1>1, <1>2, <1>3, <1>4 DEF SharedInv

\* The types in which the lemmas below use the state.
LEMMA QueueTypes ==
    ASSUME TypeOK
    PROVE  /\ queue \in [Tracks -> Producers] /\ consumer \in [Sessions -> Consumers]
           /\ sessions \subseteq Sessions /\ writer \subseteq sessions
           /\ TrackOf \in [Sessions -> Tracks]
  BY RtspAssumption DEF TypeOK, ControlOK, DataOK

LEMMA SetupQueue ==
    ASSUME TypeOK, QueueInv, NEW s \in Sessions, Setup(s)
    PROVE  TypeOK' /\ QueueInv'
<1> DEFINE t0 == TrackOf[s]
<1>1. t0 \in Tracks
  BY QueueTypes
<1>2. Sound(queue[t0])
  BY <1>1 DEF QueueInv
<1>3. /\ queue' = [queue EXCEPT ![t0] = ConsumerNew(queue[t0])]
      /\ consumer' = [consumer EXCEPT ![s] = NewConsumer]
      /\ sessions' = sessions \cup {s} /\ s \notin sessions
      /\ UNCHANGED <<pc, cur, writer>> /\ pc = "idle"
  BY DEF Setup, loopVars
<1>4. /\ Sound(ConsumerNew(queue[t0])) /\ Fits(ConsumerNew(queue[t0]), NewConsumer)
      /\ \A c : Fits(queue[t0], c) => Fits(ConsumerNew(queue[t0]), c)
  BY <1>2, NewReader
<1>5. /\ queue \in [Tracks -> Producers] /\ consumer \in [Sessions -> Consumers]
      /\ sessions \subseteq Sessions /\ TrackOf \in [Sessions -> Tracks]
  BY RtspAssumption DEF TypeOK, ControlOK, DataOK
<1>6. TypeOK'
  <2>1. ConsumerNew(queue[t0]) \in Producers /\ NewConsumer \in Consumers
    BY <1>4 DEF Sound, Fits
  <2>2. queue' \in [Tracks -> Producers] /\ consumer' \in [Sessions -> Consumers]
    BY <1>1, <1>3, <1>5, <2>1
  <2> QED
    <3>1. ControlOK'
      BY <2>2
         DEF TypeOK, ControlOK, Setup, loopVars, timeVars, workerVars, serviceVars
    <3>2. FlagsOK'
      BY <2>2
         DEF TypeOK, FlagsOK, Setup, loopVars, timeVars, workerVars, serviceVars
    <3>3. DataOK'
      BY <2>2
         DEF TypeOK, DataOK, Setup, loopVars, timeVars, workerVars, serviceVars
    <3> QED
      BY <3>1, <3>2, <3>3 DEF TypeOK
<1>7. /\ queue'[t0] = ConsumerNew(queue[t0])
      /\ \A t \in Tracks \ {t0} : queue'[t] = queue[t]
  BY <1>1, <1>3, <1>5
<1> HIDE DEF t0
<1>8. ASSUME NEW t \in Tracks PROVE Sound(queue'[t])
  BY <1>4, <1>7 DEF QueueInv
<1>9. ASSUME NEW r \in sessions' PROVE Fits(queue'[TrackOf[r]], consumer'[r])
  <2>1. CASE r = s
    BY <1>1, <1>3, <1>4, <1>5, <2>1 DEF t0
  <2>2. CASE r # s
    <3>1. r \in sessions /\ TrackOf[r] \in Tracks /\ consumer'[r] = consumer[r]
      BY <1>3, <1>5, <2>2
    <3>2. Fits(queue[TrackOf[r]], consumer[r])
      BY <3>1 DEF QueueInv
    <3> QED
      BY <1>4, <1>7, <3>1, <3>2
  <2> QED
    BY <2>1, <2>2
<1> QED
  BY <1>3, <1>6, <1>8, <1>9 DEF QueueInv

LEMMA SetupShared ==
    ASSUME TypeOK, QueueInv, SharedInv, NEW s \in Sessions, Setup(s)
    PROVE  SharedInv'
<1> DEFINE t0 == TrackOf[s]
           q0 == ConsumerNew(queue[t0])
<1>1. t0 \in Tracks /\ s \notin sessions
  BY QueueTypes DEF Setup
<1>2. /\ queue' = [queue EXCEPT ![t0] = q0]
      /\ consumer' = [consumer EXCEPT ![s] = NewConsumer]
      /\ sessions' = sessions \cup {s} /\ UNCHANGED <<pc, started>> /\ pc = "idle"
  BY DEF Setup, loopVars
<1>3. Sound(queue[t0])
  BY <1>1 DEF QueueInv
<1>4. /\ q0.consumers = queue[t0].consumers + 1 /\ q0.seen = queue[t0].seen
      /\ ~Attached(q0, NewConsumer)
      /\ \A c : Dangling(q0, c) <=> Dangling(queue[t0], c)
  BY <1>3, NewReader
<1> HIDE DEF q0
<1>5. /\ queue'[t0] = q0 /\ \A t \in Tracks \ {t0} : queue'[t] = queue[t]
      /\ consumer'[s] = NewConsumer /\ \A r \in sessions : consumer'[r] = consumer[r]
      /\ \A r \in sessions : TrackOf[r] \in Tracks
  BY <1>1, <1>2, QueueTypes
<1> HIDE DEF t0
<1>6. CountInv'
  <2>1. IsFiniteSet(sessions')
    BY <1>2, FS_AddElement DEF SharedInv, CountInv
  <2>2. ASSUME NEW t \in Tracks PROVE queue'[t].consumers = Cardinality(OnTrack(t)')
    <3>1. IsFiniteSet(OnTrack(t)) /\ s \notin OnTrack(t)
      BY <1>1, FS_Subset DEF SharedInv, CountInv, OnTrack
    <3>2. CASE t = t0
      <4>1. OnTrack(t)' = OnTrack(t) \cup {s}
        BY <1>2, <3>2 DEF OnTrack, t0
      <4>2. Cardinality(OnTrack(t) \cup {s}) = Cardinality(OnTrack(t)) + 1
        BY <3>1, FS_AddElement
      <4> QED
        BY <1>4, <1>5, <3>2, <4>1, <4>2 DEF SharedInv, CountInv
    <3>3. CASE t # t0
      <4>1. OnTrack(t)' = OnTrack(t)
        BY <1>2, <3>3 DEF OnTrack, t0
      <4> QED
        BY <1>5, <3>3, <4>1 DEF SharedInv, CountInv
    <3> QED
      BY <3>2, <3>3
  <2> QED
    BY <2>1, <2>2 DEF CountInv
<1>7. EmptyInv'
  BY <1>1, <1>2, <1>4, <1>5 DEF SharedInv, EmptyInv
<1>8. HeldInv'
  <2> SUFFICES ASSUME NEW r \in sessions'
               PROVE  \E v \in OnTrack(TrackOf[r])' : ~Dangling(queue'[TrackOf[r]], consumer'[v])
    BY DEF HeldInv
  <2>1. CASE r = s
    <3>1. s \in OnTrack(t0)' /\ TrackOf[s] = t0
      BY <1>2 DEF OnTrack, t0
    <3>2. ~Dangling(queue'[t0], consumer'[s])
      BY <1>4, <1>5 DEF Dangling, Selects
    <3> QED
      BY <2>1, <3>1, <3>2
  <2>2. CASE r # s
    <3>1. PICK v \in OnTrack(TrackOf[r]) : ~Dangling(queue[TrackOf[r]], consumer[v])
      BY <1>2, <2>2 DEF SharedInv, HeldInv, Active
    <3>2. v \in OnTrack(TrackOf[r])' /\ consumer'[v] = consumer[v] /\ TrackOf[r] \in Tracks
      BY <1>2, <1>5, <2>2 DEF OnTrack
    <3>3. ~Dangling(queue'[TrackOf[r]], consumer'[v])
      BY <1>4, <1>5, <3>1, <3>2
    <3> QED
      BY <3>2, <3>3
  <2> QED
    BY <2>1, <2>2
<1>9. AloneInv'
  <2> SUFFICES ASSUME NEW r \in sessions', Alone(r)'
               PROVE  /\ Unmarked(queue'[TrackOf[r]])
                      /\ AtHead(queue'[TrackOf[r]], consumer'[r])
    BY DEF AloneInv
  <2>1. CASE r = s
    <3>1. OnTrack(t0) = {}
      BY <1>1, <1>2, <2>1 DEF Alone, OnTrack, t0
    <3>2. queue[t0].seen = <<>>
      BY <1>1, <1>3, <3>1, FS_EmptySet DEF SharedInv, CountInv, Sound
    <3>3. Unmarked(q0)
      BY <1>4, <3>2 DEF Unmarked
    <3>4. AtHead(q0, NewConsumer)
      BY <1>4 DEF AtHead, Selects
    <3> QED
      BY <1>5, <2>1, <3>3, <3>4 DEF t0
  <2>2. CASE r # s
    <3>1. r \in sessions /\ Alone(r) /\ TrackOf[r] # t0 /\ TrackOf[r] \in Tracks
      BY <1>2, <1>5, <2>2 DEF Alone, t0
    <3> QED
      BY <1>2, <1>5, <3>1 DEF SharedInv, AloneInv, Active
  <2> QED
    BY <2>1, <2>2
<1> QED
  BY <1>6, <1>7, <1>8, <1>9 DEF SharedInv

\* A session whose consumer is asked for its next buffer.
LEMMA GetQueue ==
    ASSUME TypeOK, QueueInv, NEW s \in sessions
    PROVE  LET q == queue[TrackOf[s]]
               g == GetConsumer(q, consumer[s])
           IN  /\ Fits(q, g) /\ g \in Consumers
               /\ ~Dangling(q, consumer[s]) => ~Dangling(q, g)
               /\ AtHead(q, consumer[s]) => AtHead(q, g)
               /\ TRUE \in GetReturns(q, consumer[s]) => Selects(q, g)
               /\ FALSE \in GetReturns(q, consumer[s]) /\ ~Dangling(q, consumer[s])
                    => Len(q.seen) = 0
<1>1. Sound(queue[TrackOf[s]]) /\ Fits(queue[TrackOf[s]], consumer[s])
  BY QueueTypes DEF QueueInv
<1> QED
  BY <1>1, GetFits DEF Fits

LEMMA WriteGetQueue ==
    ASSUME TypeOK, QueueInv, NEW s \in Sessions, NEW found \in BOOLEAN,
           WriteGet(s, found)
    PROVE  TypeOK' /\ QueueInv'
<1> DEFINE c == GetConsumer(queue[TrackOf[s]], consumer[s])
<1>1. s \in sessions /\ s \in writer
  BY QueueTypes DEF WriteGet
<1>2. /\ consumer' = [consumer EXCEPT ![s] = c]
      /\ pc' = IF found THEN "got" ELSE "none"
      /\ found \in GetReturns(queue[TrackOf[s]], consumer[s])
      /\ cur' = s /\ UNCHANGED <<queue, sessions, writer>>
  BY DEF WriteGet, rtspVars
<1>3. /\ Fits(queue[TrackOf[s]], c) /\ c \in Consumers
      /\ found => Selects(queue[TrackOf[s]], c)
  BY <1>1, <1>2, GetQueue
<1> HIDE DEF c
<1>4. TypeOK'
  <2>1. consumer' \in [Sessions -> Consumers]
    BY <1>2, <1>3, QueueTypes
  <2>2. pc' \in LoopPC /\ cur' \in Sessions
    BY <1>2 DEF LoopPC
  <2> QED
    <3>1. ControlOK'
      BY <1>2, <2>1, <2>2
         DEF TypeOK, ControlOK, WriteGet, rtspVars, timeVars, workerVars, serviceVars
    <3>2. FlagsOK'
      BY <1>2, <2>1, <2>2
         DEF TypeOK, FlagsOK, WriteGet, rtspVars, timeVars, workerVars, serviceVars
    <3>3. DataOK'
      BY <1>2, <2>1, <2>2
         DEF TypeOK, DataOK, WriteGet, rtspVars, timeVars, workerVars, serviceVars
    <3> QED
      BY <3>1, <3>2, <3>3 DEF TypeOK
<1>5. consumer'[s] = c /\ \A r \in sessions \ {s} : consumer'[r] = consumer[r]
  BY <1>2, QueueTypes
<1> QED
  BY <1>1, <1>2, <1>3, <1>4, <1>5 DEF QueueInv

LEMMA WriteSendQueue ==
    ASSUME TypeOK, QueueInv, NEW sent \in BOOLEAN, WriteSend(sent)
    PROVE  TypeOK' /\ QueueInv'
<1> DEFINE t0 == TrackOf[cur]
           q0 == MoveProducer(queue[t0], consumer[cur])
           c0 == MoveConsumer(queue[t0], consumer[cur])
<1>1. cur \in sessions /\ cur \in Sessions /\ t0 \in Tracks
  BY QueueTypes DEF WriteSend, QueueInv
<1>2. /\ queue' = [queue EXCEPT ![t0] = q0] /\ consumer' = [consumer EXCEPT ![cur] = c0]
      /\ pc' = "idle" /\ cur' = NoSession /\ UNCHANGED <<sessions, writer>>
  BY DEF WriteSend, rtspVars
<1>3. /\ Sound(q0) /\ Fits(q0, c0) /\ q0.queue_serial = queue[t0].queue_serial
  <2>1. /\ Sound(queue[t0]) /\ Fits(queue[t0], consumer[cur])
        /\ Selects(queue[t0], consumer[cur])
    BY <1>1 DEF QueueInv, WriteSend
  <2>2. Holds(queue[t0], consumer[cur]) /\ ~NotHead(queue[t0], consumer[cur])
    BY <2>1 DEF WriteSend, Misused, Holds, Dangling
  <2> QED
    BY <2>1, <2>2, MoveSound
<1> HIDE DEF q0, c0
<1>6. TypeOK'
  <2>1. queue' \in [Tracks -> Producers] /\ consumer' \in [Sessions -> Consumers]
    BY <1>1, <1>2, <1>3, QueueTypes DEF Sound, Fits
  <2>2. pc' \in LoopPC /\ fresh' \in BOOLEAN
    BY DEF LoopPC, WriteSend, TypeOK, FlagsOK
  <2> QED
    <3>1. ControlOK'
      BY <2>1, <2>2, <1>2
         DEF TypeOK, ControlOK, WriteSend, rtspVars, workerVars, serviceVars
    <3>2. FlagsOK'
      BY <2>1, <2>2, <1>2
         DEF TypeOK, FlagsOK, WriteSend, rtspVars, workerVars, serviceVars
    <3>3. DataOK'
      BY <2>1, <2>2, <1>2
         DEF TypeOK, DataOK, WriteSend, rtspVars, workerVars, serviceVars
    <3> QED
      BY <3>1, <3>2, <3>3 DEF TypeOK
<1>7. /\ queue'[t0] = q0 /\ \A t \in Tracks \ {t0} : queue'[t] = queue[t]
      /\ consumer'[cur] = c0 /\ \A r \in sessions \ {cur} : consumer'[r] = consumer[r]
  BY <1>1, <1>2, QueueTypes
<1>8. \A r \in sessions : TrackOf[r] \in Tracks
  BY QueueTypes
<1> HIDE DEF t0
<1>9. ASSUME NEW t \in Tracks PROVE Sound(queue'[t])
  BY <1>3, <1>7 DEF QueueInv
<1>10. ASSUME NEW r \in sessions PROVE Fits(queue'[TrackOf[r]], consumer'[r])
  <2>1. Fits(queue[TrackOf[r]], consumer[r])
    BY DEF QueueInv
  <2>2. CASE r = cur
    BY <1>3, <1>7, <2>2 DEF t0
  <2>3. CASE r # cur
    <3>1. consumer'[r] = consumer[r] /\ queue'[TrackOf[r]].queue_serial = queue[TrackOf[r]].queue_serial
      BY <1>3, <1>7, <1>8, <2>3
    <3> QED
      BY <2>1, <3>1 DEF Fits
  <2> QED
    BY <2>2, <2>3
<1> QED
  BY <1>2, <1>6, <1>9, <1>10 DEF QueueInv

LEMMA WriteFreedQueue ==
    ASSUME TypeOK, QueueInv, NEW sent \in BOOLEAN, WriteFreed(sent)
    PROVE  TypeOK' /\ QueueInv'
<1> DEFINE q0 == queue[TrackOf[cur]]
<1>1. cur \in sessions /\ cur \in Sessions /\ Sound(q0)
  BY QueueTypes DEF WriteFreed, QueueInv
<1>2. PICK c \in MoveFromFreed(q0) : consumer' = [consumer EXCEPT ![cur] = c]
  BY DEF WriteFreed
<1>3. /\ pc' = "idle" /\ cur' = NoSession /\ UNCHANGED <<queue, sessions, writer>>
  BY DEF WriteFreed, rtspVars
<1>4. Fits(q0, c) /\ c \in Consumers
  BY <1>1, <1>2, MoveFreed DEF Fits
<1>5. /\ consumer' \in [Sessions -> Consumers] /\ consumer'[cur] = c
      /\ \A r \in sessions \ {cur} : consumer'[r] = consumer[r]
  BY <1>1, <1>2, <1>4, QueueTypes
<1>6. pc' \in LoopPC /\ fresh' \in BOOLEAN
  BY DEF LoopPC, WriteFreed, TypeOK, FlagsOK
<1>7. ControlOK'
  BY <1>3, <1>5, <1>6 DEF TypeOK, ControlOK, WriteFreed, rtspVars, workerVars, serviceVars
<1>8. FlagsOK'
  BY <1>3, <1>5, <1>6 DEF TypeOK, FlagsOK, WriteFreed, rtspVars, workerVars, serviceVars
<1>9. DataOK'
  BY <1>3, <1>5, <1>6 DEF TypeOK, DataOK, WriteFreed, rtspVars, workerVars, serviceVars
<1>10. QueueInv'
  BY <1>3, <1>4, <1>5 DEF QueueInv
<1> QED
  BY <1>7, <1>8, <1>9, <1>10 DEF TypeOK

LEMMA WriteNothingQueue ==
    ASSUME TypeOK, QueueInv, NEW end \in BOOLEAN, WriteNothing(end)
    PROVE  TypeOK' /\ QueueInv'
<1>1. /\ pc' = "idle" /\ cur' = NoSession /\ UNCHANGED <<queue, sessions>>
      /\ writer' \subseteq sessions /\ bye' \subseteq sessions
  BY QueueTypes DEF WriteNothing, rtspVars, QueueInv, TypeOK, ControlOK
<1>2. ASSUME NEW s \in sessions
      PROVE  consumer'[s] \in Consumers /\ Fits(queue[TrackOf[s]], consumer'[s])
  <2>1. consumer'[s] = IF eor THEN GetConsumer(queue[TrackOf[s]], consumer[s]) ELSE consumer[s]
    BY <1>2, QueueTypes DEF WriteNothing
  <2> QED
    BY <2>1, GetQueue, QueueTypes DEF QueueInv
<1>3. consumer' \in [Sessions -> Consumers]
  <2>1. \A s \in Sessions : consumer'[s] \in Consumers
    BY <1>2, QueueTypes DEF WriteNothing
  <2>2. consumer' = [s \in Sessions |-> consumer'[s]]
    BY DEF WriteNothing
  <2> QED
    BY <2>1, <2>2
<1>4. TypeOK'
  <2>1. ControlOK'
    BY <1>1, <1>3
       DEF TypeOK, ControlOK, LoopPC, WriteNothing, rtspVars, timeVars, workerVars, serviceVars
  <2>2. FlagsOK'
    BY <1>1, <1>3
       DEF TypeOK, FlagsOK, WriteNothing, rtspVars, timeVars, workerVars, serviceVars
  <2>3. DataOK'
    BY <1>1, <1>3
       DEF TypeOK, DataOK, WriteNothing, rtspVars, timeVars, workerVars, serviceVars
  <2> QED
    BY <2>1, <2>2, <2>3 DEF TypeOK
<1> QED
  BY <1>1, <1>2, <1>4 DEF QueueInv

\* bq_consumer_get, of one session or of all.
LEMMA GetShared ==
    ASSUME TypeOK, QueueInv, SharedInv, UNCHANGED <<queue, sessions, started>>,
           pc \in {"idle", "got", "none"}, pc' \in {"idle", "got", "none"},
           \A s \in sessions : \/ consumer'[s] = consumer[s]
                               \/ consumer'[s] = GetConsumer(queue[TrackOf[s]], consumer[s])
    PROVE  SharedInv'
<1>1. ASSUME NEW s \in sessions
      PROVE  /\ ~Dangling(queue[TrackOf[s]], consumer[s])
                   => ~Dangling(queue[TrackOf[s]], consumer'[s])
             /\ AtHead(queue[TrackOf[s]], consumer[s])
                   => AtHead(queue[TrackOf[s]], consumer'[s])
  BY GetQueue
<1>2. CountInv' /\ EmptyInv'
  BY DEF SharedInv, CountInv, EmptyInv, OnTrack
<1>3. HeldInv'
  <2> SUFFICES ASSUME NEW s \in sessions
               PROVE  \E r \in OnTrack(TrackOf[s]) : ~Dangling(queue[TrackOf[s]], consumer'[r])
    BY DEF HeldInv, OnTrack
  <2>1. PICK r \in OnTrack(TrackOf[s]) : ~Dangling(queue[TrackOf[s]], consumer[r])
    BY DEF SharedInv, HeldInv, Active
  <2>2. r \in sessions /\ TrackOf[r] = TrackOf[s]
    BY DEF OnTrack
  <2> QED
    BY <1>1, <2>1, <2>2
<1>4. AloneInv'
  <2> SUFFICES ASSUME NEW s \in sessions, Alone(s)
               PROVE  /\ Unmarked(queue[TrackOf[s]])
                      /\ AtHead(queue[TrackOf[s]], consumer'[s])
    BY DEF AloneInv, Alone
  <2> QED
    BY <1>1 DEF SharedInv, AloneInv, Active
<1> QED
  BY <1>2, <1>3, <1>4 DEF SharedInv

LEMMA WriteSendShared ==
    ASSUME TypeOK, QueueInv, SharedInv, NEW sent \in BOOLEAN, WriteSend(sent)
    PROVE  SharedInv'
<1> DEFINE t0 == TrackOf[cur]
           q0 == MoveProducer(queue[t0], consumer[cur])
           c0 == MoveConsumer(queue[t0], consumer[cur])
<1>1. cur \in sessions /\ t0 \in Tracks /\ pc = "got"
  BY QueueTypes DEF WriteSend, QueueInv
<1>2. /\ queue' = [queue EXCEPT ![t0] = q0] /\ consumer' = [consumer EXCEPT ![cur] = c0]
      /\ pc' = "idle" /\ UNCHANGED <<sessions, started>>
  BY DEF WriteSend, rtspVars
<1>3. /\ Sound(queue[t0]) /\ Fits(queue[t0], consumer[cur])
      /\ Holds(queue[t0], consumer[cur]) /\ ~NotHead(queue[t0], consumer[cur])
  <2>1. /\ Sound(queue[t0]) /\ Fits(queue[t0], consumer[cur])
        /\ Selects(queue[t0], consumer[cur])
    BY <1>1 DEF QueueInv
  <2> QED
    BY <2>1 DEF WriteSend, Misused, Holds, Dangling
<1>4. /\ q0.consumers = queue[t0].consumers /\ ~Dangling(q0, c0)
      /\ queue[t0].consumers = 1 /\ Unmarked(queue[t0]) /\ AtHead(queue[t0], consumer[cur])
           => Unmarked(q0) /\ AtHead(q0, c0)
  BY <1>3, MoveSound
<1> HIDE DEF q0, c0
<1>5. /\ queue'[t0] = q0 /\ \A t \in Tracks \ {t0} : queue'[t] = queue[t]
      /\ consumer'[cur] = c0 /\ \A r \in sessions \ {cur} : consumer'[r] = consumer[r]
      /\ \A r \in sessions : TrackOf[r] \in Tracks
  BY <1>1, <1>2, QueueTypes
<1>6. CountInv'
  BY <1>2, <1>4, <1>5 DEF SharedInv, CountInv, OnTrack
<1>7. EmptyInv'
  <2>1. queue[t0].seen # <<>>
    BY <1>3 DEF Holds, Queued, Oldest, Sound, Producers
  <2> QED
    BY <1>1, <1>2, <2>1 DEF SharedInv, EmptyInv
<1> HIDE DEF t0
<1>8. HeldInv'
  <2> SUFFICES ASSUME NEW s \in sessions
               PROVE  \E r \in OnTrack(TrackOf[s]) : ~Dangling(queue'[TrackOf[s]], consumer'[r])
    BY <1>2 DEF HeldInv, OnTrack
  <2>1. CASE TrackOf[s] = t0
    BY <1>1, <1>4, <1>5, <2>1 DEF OnTrack, t0
  <2>2. CASE TrackOf[s] # t0
    <3>1. PICK r \in OnTrack(TrackOf[s]) : ~Dangling(queue[TrackOf[s]], consumer[r])
      BY <1>1 DEF SharedInv, HeldInv, Active
    <3>2. r \in sessions \ {cur} /\ TrackOf[s] \in Tracks \ {t0}
      BY <1>5, <2>2 DEF OnTrack, t0
    <3> QED
      BY <1>5, <3>1, <3>2
  <2> QED
    BY <2>1, <2>2
<1>9. AloneInv'
  <2> SUFFICES ASSUME NEW s \in sessions, Alone(s)
               PROVE  /\ Unmarked(queue'[TrackOf[s]])
                      /\ AtHead(queue'[TrackOf[s]], consumer'[s])
    BY <1>2 DEF AloneInv, Alone
  <2>1. Unmarked(queue[TrackOf[s]]) /\ AtHead(queue[TrackOf[s]], consumer[s])
    BY <1>1 DEF SharedInv, AloneInv, Active
  <2>2. CASE TrackOf[s] = t0
    <3>1. s = cur
      BY <1>1, <2>2 DEF Alone, t0
    <3>2. OnTrack(t0) = {cur}
      BY <1>1, <3>1 DEF Alone, OnTrack, t0
    <3>3. queue[t0].consumers = 1
      BY <1>1, <3>2, FS_Singleton DEF SharedInv, CountInv
    <3> QED
      BY <1>4, <1>5, <2>1, <2>2, <3>1, <3>3
  <2>3. CASE TrackOf[s] # t0
    BY <1>5, <2>1, <2>3 DEF t0
  <2> QED
    BY <2>2, <2>3
<1> QED
  BY <1>6, <1>7, <1>8, <1>9 DEF SharedInv

LEMMA WriteFreedShared ==
    ASSUME TypeOK, QueueInv, SharedInv, NEW sent \in BOOLEAN, WriteFreed(sent)
    PROVE  SharedInv'
<1> DEFINE t0 == TrackOf[cur]
<1>1. cur \in sessions /\ t0 \in Tracks /\ pc = "got" /\ Sound(queue[t0])
  BY QueueTypes DEF WriteFreed, QueueInv
<1>2. /\ Dangling(queue[t0], consumer[cur])
      /\ pc' = "idle" /\ UNCHANGED <<queue, sessions, started>>
  BY DEF WriteFreed, rtspVars
<1>3. PICK c \in MoveFromFreed(queue[t0]) : consumer' = [consumer EXCEPT ![cur] = c]
  BY DEF WriteFreed
<1>4. /\ consumer'[cur] = c /\ ~Dangling(queue[t0], consumer'[cur])
      /\ \A r \in sessions \ {cur} : consumer'[r] = consumer[r]
  BY <1>1, <1>3, MoveFreed, QueueTypes
<1>5. CountInv' /\ EmptyInv'
  BY <1>1, <1>2 DEF SharedInv, CountInv, EmptyInv, OnTrack
<1>6. ~Alone(cur)
  <2> SUFFICES ASSUME AtHead(queue[t0], consumer[cur]) PROVE FALSE
    BY <1>1 DEF SharedInv, AloneInv, Active
  <2>1. Len(queue[t0].seen) > 0 /\ consumer[cur].at = Oldest(queue[t0])
    BY <1>2 DEF AtHead, Dangling
  <2>2. Queued(queue[t0], Oldest(queue[t0]))
    BY <1>1, <2>1 DEF Queued, Oldest, Sound, Producers
  <2> QED
    BY <1>2, <2>1, <2>2 DEF Dangling
<1> HIDE DEF t0
<1>7. HeldInv'
  <2> SUFFICES ASSUME NEW s \in sessions
               PROVE  \E r \in OnTrack(TrackOf[s]) : ~Dangling(queue[TrackOf[s]], consumer'[r])
    BY <1>2 DEF HeldInv, OnTrack
  <2>1. CASE TrackOf[s] = t0
    BY <1>1, <1>4, <2>1 DEF OnTrack, t0
  <2>2. CASE TrackOf[s] # t0
    <3>1. PICK r \in OnTrack(TrackOf[s]) : ~Dangling(queue[TrackOf[s]], consumer[r])
      BY <1>1 DEF SharedInv, HeldInv, Active
    <3>2. r \in sessions \ {cur}
      BY <2>2 DEF OnTrack, t0
    <3> QED
      BY <1>4, <3>1, <3>2
  <2> QED
    BY <2>1, <2>2
<1>8. AloneInv'
  <2> SUFFICES ASSUME NEW s \in sessions, Alone(s)
               PROVE  /\ Unmarked(queue[TrackOf[s]])
                      /\ AtHead(queue[TrackOf[s]], consumer'[s])
    BY <1>2 DEF AloneInv, Alone
  <2>1. s # cur
    BY <1>6
  <2> QED
    BY <1>1, <1>4, <2>1 DEF SharedInv, AloneInv, Active
<1> QED
  BY <1>5, <1>7, <1>8 DEF SharedInv

LEMMA PauseResetQueue ==
    ASSUME TypeOK, QueueInv, PauseReset
    PROVE  TypeOK' /\ QueueInv'
<1>1. /\ \A t \in Tracks : queue'[t] = ResetQueue(queue[t])
      /\ queue' = [t \in Tracks |-> ResetQueue(queue[t])]
      /\ UNCHANGED <<consumer, sessions, writer>> /\ pc' = "free"
  BY DEF PauseReset, rtspVars
<1>2. ASSUME NEW t \in Tracks
      PROVE  /\ Sound(queue'[t]) /\ queue'[t].consumers = queue[t].consumers
             /\ \A c : Fits(queue[t], c) => Fits(queue'[t], c)
  BY <1>1, ResetSound DEF QueueInv
<1>3. TypeOK'
  <2>1. \A t \in Tracks : queue'[t] \in Producers
    BY <1>2 DEF Sound
  <2>2. queue' \in [Tracks -> Producers]
    BY <1>1, <2>1
  <2> QED
    <3>1. ControlOK'
      BY <1>1, <2>2
         DEF TypeOK, ControlOK, LoopPC, PauseReset, rtspVars, timeVars, workerVars,
             serviceVars
    <3>2. FlagsOK'
      BY <1>1, <2>2
         DEF TypeOK, FlagsOK, PauseReset, rtspVars, timeVars, workerVars, serviceVars
    <3>3. DataOK'
      BY <1>1, <2>2
         DEF TypeOK, DataOK, PauseReset, rtspVars, timeVars, workerVars, serviceVars
    <3> QED
      BY <3>1, <3>2, <3>3 DEF TypeOK
<1>4. \A s \in sessions : TrackOf[s] \in Tracks
  BY QueueTypes
<1> QED
  BY <1>1, <1>2, <1>3, <1>4 DEF QueueInv

LEMMA PauseResetShared ==
    ASSUME QueueInv, SharedInv, PauseReset
    PROVE  SharedInv'
<1>1. /\ \A t \in Tracks : queue'[t] = ResetQueue(queue[t])
      /\ UNCHANGED sessions /\ pc' = "free"
  BY DEF PauseReset, rtspVars
<1>2. \A t \in Tracks : queue'[t].consumers = queue[t].consumers /\ queue'[t].seen = <<>>
  BY <1>1, ResetSound DEF QueueInv
<1> QED
  BY <1>1, <1>2 DEF SharedInv, CountInv, OnTrack, EmptyInv, HeldInv, AloneInv, Active

\* When the sessions are freed, every queue is empty.
LEMMA FreeEmpty ==
    ASSUME LockInv, SharedInv, pc = "free"
    PROVE  \A t \in Tracks : queue[t].seen = <<>>
  BY DEF LockInv, SharedInv, EmptyInv

\* The consumer of a session is counted.
LEMMA Counted ==
    ASSUME TypeOK, SharedInv, NEW s \in sessions
    PROVE  /\ IsFiniteSet(OnTrack(TrackOf[s])) /\ s \in OnTrack(TrackOf[s])
           /\ queue[TrackOf[s]].consumers = Cardinality(OnTrack(TrackOf[s]))
           /\ queue[TrackOf[s]].consumers > 0
<1>1. IsFiniteSet(OnTrack(TrackOf[s])) /\ s \in OnTrack(TrackOf[s]) /\ TrackOf[s] \in Tracks
  BY QueueTypes, FS_Subset DEF SharedInv, CountInv, OnTrack
<1>2. queue[TrackOf[s]].consumers = Cardinality(OnTrack(TrackOf[s]))
  BY <1>1 DEF SharedInv, CountInv
<1>3. Cardinality(OnTrack(TrackOf[s])) \in Nat /\ Cardinality(OnTrack(TrackOf[s])) # 0
  BY <1>1, FS_CardinalityType, FS_EmptySet
<1> QED
  BY <1>1, <1>2, <1>3

LEMMA FreeSessionQueue ==
    ASSUME TypeOK, LockInv, QueueInv, SharedInv, NEW s \in Sessions, FreeSession(s)
    PROVE  TypeOK' /\ QueueInv'
<1> DEFINE t0 == TrackOf[s]
           q0 == ConsumerFree(queue[t0], consumer[s])
<1>1. s \in sessions /\ t0 \in Tracks
  BY QueueTypes DEF FreeSession
<1>2. /\ queue' = [queue EXCEPT ![t0] = q0] /\ consumer' = [consumer EXCEPT ![s] = NewConsumer]
      /\ sessions' = sessions \ {s} /\ writer' = writer \ {s} /\ bye' = bye \ {s}
      /\ pc' = "free" /\ UNCHANGED cur
  BY DEF FreeSession, loopVars
<1>3. Sound(q0) /\ q0.queue_serial = queue[t0].queue_serial
  <2>1. Sound(queue[t0]) /\ queue[t0].consumers > 0 /\ Fits(queue[t0], consumer[s])
    BY <1>1, Counted DEF QueueInv
  <2>2. queue[t0].seen = <<>>
    BY <1>1, FreeEmpty DEF FreeSession
  <2> QED
    BY <2>1, <2>2, FreeSound
<1> HIDE DEF q0
<1>5. TypeOK'
  <2>1. q0 \in Producers /\ NewConsumer \in Consumers
    BY <1>3 DEF Sound, NewConsumer, Consumers
  <2>2. queue' \in [Tracks -> Producers] /\ consumer' \in [Sessions -> Consumers]
    BY <1>1, <1>2, <2>1, QueueTypes
  <2> QED
    <3>1. ControlOK'
      BY <1>2, <2>2
         DEF TypeOK, ControlOK, FreeSession, loopVars, timeVars, workerVars, serviceVars
    <3>2. FlagsOK'
      BY <1>2, <2>2
         DEF TypeOK, FlagsOK, FreeSession, loopVars, timeVars, workerVars, serviceVars
    <3>3. DataOK'
      BY <1>2, <2>2
         DEF TypeOK, DataOK, FreeSession, loopVars, timeVars, workerVars, serviceVars
    <3> QED
      BY <3>1, <3>2, <3>3 DEF TypeOK
<1>6. /\ queue'[t0] = q0 /\ \A t \in Tracks \ {t0} : queue'[t] = queue[t]
      /\ \A r \in sessions \ {s} : consumer'[r] = consumer[r]
  BY <1>1, <1>2, QueueTypes
<1>7. \A r \in sessions : TrackOf[r] \in Tracks
  BY QueueTypes
<1> HIDE DEF t0
<1>8. ASSUME NEW t \in Tracks PROVE Sound(queue'[t])
  BY <1>3, <1>6 DEF QueueInv
<1>9. ASSUME NEW r \in sessions' PROVE Fits(queue'[TrackOf[r]], consumer'[r])
  <2>1. r \in sessions /\ Fits(queue[TrackOf[r]], consumer[r]) /\ consumer'[r] = consumer[r]
    BY <1>2, <1>6 DEF QueueInv
  <2>2. queue'[TrackOf[r]].queue_serial = queue[TrackOf[r]].queue_serial
    BY <1>3, <1>6, <1>7, <2>1
  <2> QED
    BY <2>1, <2>2 DEF Fits
<1> QED
  BY <1>2, <1>5, <1>8, <1>9 DEF QueueInv

LEMMA FreeSessionShared ==
    ASSUME TypeOK, LockInv, QueueInv, SharedInv, NEW s \in Sessions, FreeSession(s)
    PROVE  SharedInv'
<1> DEFINE t0 == TrackOf[s]
           q0 == ConsumerFree(queue[t0], consumer[s])
<1>1. s \in sessions /\ t0 \in Tracks
  BY QueueTypes DEF FreeSession
<1>2. /\ queue' = [queue EXCEPT ![t0] = q0]
      /\ sessions' = sessions \ {s} /\ pc' = "free" /\ UNCHANGED started
  BY DEF FreeSession, loopVars
<1>3. \A t \in Tracks : queue[t].seen = <<>>
  BY FreeEmpty DEF FreeSession
<1>4. /\ queue[t0].consumers = Cardinality(OnTrack(t0)) /\ queue[t0].consumers > 0
      /\ IsFiniteSet(OnTrack(t0)) /\ s \in OnTrack(t0)
  BY <1>1, Counted
<1>5. q0.consumers = queue[t0].consumers - 1 /\ q0.seen = <<>>
  <2>1. Sound(queue[t0]) /\ Fits(queue[t0], consumer[s])
    BY <1>1 DEF QueueInv
  <2> QED
    BY <1>1, <1>3, <1>4, <2>1, FreeSound
<1> HIDE DEF q0
<1>6. queue'[t0] = q0 /\ \A t \in Tracks \ {t0} : queue'[t] = queue[t]
  BY <1>1, <1>2, QueueTypes
<1> HIDE DEF t0
<1>7. CountInv'
  <2>1. IsFiniteSet(sessions')
    BY <1>2, FS_RemoveElement DEF SharedInv, CountInv
  <2>2. ASSUME NEW t \in Tracks PROVE queue'[t].consumers = Cardinality(OnTrack(t)')
    <3>1. CASE t = t0
      <4>1. OnTrack(t)' = OnTrack(t) \ {s}
        BY <1>2, <3>1 DEF OnTrack
      <4>2. Cardinality(OnTrack(t) \ {s}) = Cardinality(OnTrack(t)) - 1
        BY <1>4, <3>1, FS_RemoveElement
      <4> QED
        BY <1>4, <1>5, <1>6, <3>1, <4>1, <4>2
    <3>2. CASE t # t0
      <4>1. OnTrack(t)' = OnTrack(t)
        BY <1>2, <3>2 DEF OnTrack, t0
      <4> QED
        BY <1>6, <3>2, <4>1 DEF SharedInv, CountInv
    <3> QED
      BY <3>1, <3>2
  <2> QED
    BY <2>1, <2>2 DEF CountInv
<1>8. EmptyInv'
  BY <1>3, <1>5, <1>6 DEF EmptyInv
<1> QED
  BY <1>2, <1>7, <1>8 DEF SharedInv, HeldInv, AloneInv, Active

LEMMA PutPacketQueue ==
    ASSUME TypeOK, QueueInv, JobInv, PutPacket
    PROVE  TypeOK' /\ QueueInv'
<1> DEFINE t0 == job.track
<1>1. t0 \in Tracks /\ job.left \in Nat /\ job.left > 0
  BY DEF PutPacket, JobInv, TypeOK, DataOK
<1>2. /\ UNCHANGED <<pc, cur, consumer, sessions, writer>>
      /\ job' = [job EXCEPT !.left = @ - 1]
  BY DEF PutPacket, loopVars, rtspVars
<1>3. job' \in [track : Tracks \cup {NoTrack}, left : Nat]
  <2> DEFINE n == job.left - 1
  <2>1. n \in Nat /\ job' = [job EXCEPT !.left = n]
    BY <1>1, <1>2
  <2>2. job \in [track : Tracks \cup {NoTrack}, left : Nat]
    BY DEF TypeOK, DataOK
  <2> HIDE DEF n
  <2> QED
    BY <2>1, <2>2
<1>4. CASE queue[t0].consumers > 0
  <2> DEFINE q0 == Put(queue[t0])
  <2>1. Sound(queue[t0])
    BY <1>1 DEF QueueInv
  <2>2. /\ Sound(q0)
        /\ \A c : Fits(queue[t0], c) => Fits(q0, c)
        /\ \A c : Selects(q0, c) <=> Selects(queue[t0], c)
    BY <1>4, <2>1, PutSound
  <2>3. queue' = [queue EXCEPT ![t0] = q0]
    BY <1>4 DEF PutPacket
  <2> HIDE DEF q0
  <2>4. queue'[t0] = q0 /\ \A t \in Tracks \ {t0} : queue'[t] = queue[t]
    BY <1>1, <2>3, QueueTypes
  <2>5. TypeOK'
    <3>1. queue' \in [Tracks -> Producers]
      BY <1>1, <2>2, <2>3, QueueTypes DEF Sound
    <3> QED
      <4>1. ControlOK'
        BY <1>2, <1>3, <3>1
           DEF TypeOK, ControlOK, PutPacket, rtspVars, timeVars, serviceVars
      <4>2. FlagsOK'
        BY <1>2, <1>3, <3>1
           DEF TypeOK, FlagsOK, PutPacket, rtspVars, timeVars, serviceVars
      <4>3. DataOK'
        BY <1>2, <1>3, <3>1
           DEF TypeOK, DataOK, PutPacket, rtspVars, timeVars, serviceVars
      <4> QED
        BY <4>1, <4>2, <4>3 DEF TypeOK
  <2> HIDE DEF t0
  <2>6. \A t \in Tracks : Sound(queue'[t])
    BY <2>1, <2>2, <2>4 DEF QueueInv
  <2>7. \A s \in sessions : TrackOf[s] \in Tracks
    BY QueueTypes
  <2>8. \A s \in sessions : Fits(queue'[TrackOf[s]], consumer[s])
    BY <2>2, <2>4, <2>7 DEF QueueInv
  <2>9. ASSUME pc = "got" PROVE Selects(queue'[TrackOf[cur]], consumer[cur])
    BY <2>2, <2>4, <2>7, <2>9, QueueTypes DEF QueueInv
  <2> QED
    BY <1>2, <2>5, <2>6, <2>8, <2>9 DEF QueueInv
<1>5. CASE ~(queue[t0].consumers > 0)
  <2>1. UNCHANGED queue
    BY <1>5 DEF PutPacket
  <2>2. TypeOK'
    <3>1. UNCHANGED <<rtspVars, writer, bye, timeVars, wpc, frames, serviceVars, lock, eor>>
      BY DEF PutPacket
    <3> QED
      <4>1. ControlOK'
        BY <1>2, <1>3, <2>1, <3>1
           DEF TypeOK, ControlOK, rtspVars, timeVars, serviceVars
      <4>2. FlagsOK'
        BY <1>2, <1>3, <2>1, <3>1
           DEF TypeOK, FlagsOK, rtspVars, timeVars, serviceVars
      <4>3. DataOK'
        BY <1>2, <1>3, <2>1, <3>1
           DEF TypeOK, DataOK, rtspVars, timeVars, serviceVars
      <4> QED
        BY <4>1, <4>2, <4>3 DEF TypeOK
  <2> QED
    BY <1>2, <2>1, <2>2, QueueAlone
<1> QED
  BY <1>4, <1>5

LEMMA PutPacketShared ==
    ASSUME TypeOK, LockInv, QueueInv, SharedInv, JobInv, PutPacket
    PROVE  SharedInv'
<1> DEFINE t0 == job.track
           q0 == Put(queue[t0])
<1>1. t0 \in Tracks /\ wpc = "put"
  BY DEF PutPacket, JobInv
<1>2. UNCHANGED <<pc, consumer, sessions, started>>
  BY DEF PutPacket, loopVars, rtspVars
<1>3. CASE ~(queue[t0].consumers > 0)
  <2>1. UNCHANGED queue /\ (Active' => Active)
    BY <1>2, <1>3 DEF PutPacket, Active
  <2> QED
    BY <1>2, <2>1, SharedAlone
<1>4. CASE queue[t0].consumers > 0
  <2>1. Sound(queue[t0])
    BY <1>1 DEF QueueInv
  <2>2. /\ q0.consumers = queue[t0].consumers /\ Oldest(q0) = Oldest(queue[t0])
        /\ Len(q0.seen) = Len(queue[t0].seen) + 1 /\ Len(queue[t0].seen) \in Nat
        /\ Unmarked(queue[t0]) => Unmarked(q0)
        /\ \A c : /\ Selects(q0, c) <=> Selects(queue[t0], c)
                  /\ Dangling(q0, c) => Dangling(queue[t0], c)
    <3>1. Len(queue[t0].seen) \in Nat
      BY <2>1 DEF Sound, Producers
    <3> QED
      BY <1>4, <2>1, <3>1, PutSound
  <2>3. queue' = [queue EXCEPT ![t0] = q0]
    BY <1>4 DEF PutPacket
  <2> HIDE DEF q0
  <2>4. /\ queue'[t0] = q0 /\ \A t \in Tracks \ {t0} : queue'[t] = queue[t]
        /\ \A s \in sessions : TrackOf[s] \in Tracks
    BY <1>1, <2>3, QueueTypes
  <2> HIDE DEF t0
  <2>5. CountInv'
    BY <1>2, <2>2, <2>4 DEF SharedInv, CountInv, OnTrack
  <2>6. EmptyInv'
    BY <1>1, <1>2 DEF LockInv, EmptyInv
  <2>7. HeldInv'
    <3> SUFFICES ASSUME Active, NEW s \in sessions
                 PROVE  \E r \in OnTrack(TrackOf[s]) : ~Dangling(queue'[TrackOf[s]], consumer[r])
      BY <1>2 DEF HeldInv, OnTrack, Active
    <3>1. PICK r \in OnTrack(TrackOf[s]) : ~Dangling(queue[TrackOf[s]], consumer[r])
      BY DEF SharedInv, HeldInv
    <3> QED
      BY <2>2, <2>4, <3>1
  <2>8. AloneInv'
    <3> SUFFICES ASSUME Active, NEW s \in sessions, Alone(s)
                 PROVE  /\ Unmarked(queue'[TrackOf[s]])
                        /\ AtHead(queue'[TrackOf[s]], consumer[s])
      BY <1>2 DEF AloneInv, Alone, Active
    <3>1. Unmarked(queue[TrackOf[s]]) /\ AtHead(queue[TrackOf[s]], consumer[s])
      BY DEF SharedInv, AloneInv
    <3>2. AtHead(queue[t0], consumer[s]) => AtHead(q0, consumer[s])
      BY <2>2 DEF AtHead
    <3> QED
      BY <2>2, <2>4, <3>1, <3>2
  <2> QED
    BY <2>5, <2>6, <2>7, <2>8 DEF SharedInv
<1> QED
  BY <1>3, <1>4

\* The other steps.
LEMMA OtherStepsQueue ==
    ASSUME TypeOK, QueueInv,
           \/ Describe \/ SetupUnknownTrack \/ Play \/ PlayStartFails \/ DoPause
           \/ ClientCloses \/ StartRest \/ ClientTimeout
           \/ DisconnectPlaying \/ DisconnectPaused \/ PauseStopReturns \/ Close
           \/ WorkerBegins \/ FrameDropped \/ FrameParsed \/ FrameDone \/ MismatchDone
           \/ WriteDies \/ \E s \in Sessions : FreeSessionDies(s)
    PROVE  TypeOK' /\ QueueInv'
<1> USE DEF LoopPC, loopVars, rtspVars, rtpVars, timeVars, workerVars, serviceVars
<1>1. CASE Describe
  <2>1. QueueInv'
    BY <1>1, QueueAlone DEF Describe
  <2>2. ControlOK'
    BY <1>1 DEF Describe, TypeOK, ControlOK
  <2>3. FlagsOK'
    BY <1>1 DEF Describe, TypeOK, FlagsOK
  <2>4. DataOK'
    BY <1>1 DEF Describe, TypeOK, DataOK
  <2> QED
    BY <2>1, <2>2, <2>3, <2>4 DEF TypeOK
<1>2. CASE Play
  <2>1. QueueInv'
    BY <1>2, QueueAlone DEF Play, Sink!Started
  <2>2. ControlOK'
    BY <1>2 DEF Play, Sink!Started, TypeOK, ControlOK
  <2>3. FlagsOK'
    BY <1>2 DEF Play, Sink!Started, TypeOK, FlagsOK
  <2>4. DataOK'
    BY <1>2 DEF Play, Sink!Started, TypeOK, DataOK
  <2> QED
    BY <2>1, <2>2, <2>3, <2>4 DEF TypeOK
<1>3. CASE PlayStartFails
  <2>1. QueueInv'
    BY <1>3, QueueAlone DEF PlayStartFails
  <2>2. ControlOK'
    BY <1>3 DEF PlayStartFails, TypeOK, ControlOK
  <2>3. FlagsOK'
    BY <1>3 DEF PlayStartFails, TypeOK, FlagsOK
  <2>4. DataOK'
    BY <1>3 DEF PlayStartFails, TypeOK, DataOK
  <2> QED
    BY <2>1, <2>2, <2>3, <2>4 DEF TypeOK
<1>4. CASE DoPause
  <2>1. QueueInv'
    BY <1>4, QueueAlone DEF DoPause
  <2>2. ControlOK'
    BY <1>4 DEF DoPause, TypeOK, ControlOK
  <2>3. FlagsOK'
    BY <1>4 DEF DoPause, TypeOK, FlagsOK
  <2>4. DataOK'
    BY <1>4 DEF DoPause, TypeOK, DataOK
  <2> QED
    BY <2>1, <2>2, <2>3, <2>4 DEF TypeOK
<1>5. CASE ClientCloses
  <2>1. QueueInv'
    BY <1>5, QueueAlone DEF ClientCloses
  <2>2. ControlOK'
    BY <1>5 DEF ClientCloses, TypeOK, ControlOK
  <2>3. FlagsOK'
    BY <1>5 DEF ClientCloses, TypeOK, FlagsOK
  <2>4. DataOK'
    BY <1>5 DEF ClientCloses, TypeOK, DataOK
  <2> QED
    BY <2>1, <2>2, <2>3, <2>4 DEF TypeOK
<1>6. CASE KeyFrameOk
  <2>1. TypeOK'
    <3>1. ControlOK'
      BY <1>6 DEF KeyFrameOk, TypeOK, ControlOK
    <3>2. FlagsOK'
      BY <1>6 DEF KeyFrameOk, TypeOK, FlagsOK
    <3>3. DataOK'
      BY <1>6 DEF KeyFrameOk, TypeOK, DataOK
    <3> QED
      BY <3>1, <3>2, <3>3 DEF TypeOK
  <2>2. QueueInv'
    BY <1>6 DEF KeyFrameOk, QueueInv
  <2> QED
    BY <2>1, <2>2
<1>7. CASE KeyFrameFails
  <2>1. QueueInv'
    BY <1>7, QueueAlone DEF KeyFrameFails, Sink!StopRequested
  <2>2. ControlOK'
    BY <1>7 DEF KeyFrameFails, Sink!StopRequested, TypeOK, ControlOK
  <2>3. FlagsOK'
    BY <1>7 DEF KeyFrameFails, Sink!StopRequested, TypeOK, FlagsOK
  <2>4. DataOK'
    BY <1>7 DEF KeyFrameFails, Sink!StopRequested, TypeOK, DataOK
  <2> QED
    BY <2>1, <2>2, <2>3, <2>4 DEF TypeOK
<1>8. CASE StartStopReturns
  <2>1. QueueInv'
    BY <1>8, QueueAlone DEF StartStopReturns, Sink!StopCompletes
  <2>2. ControlOK'
    BY <1>8 DEF StartStopReturns, Sink!StopCompletes, TypeOK, ControlOK
  <2>3. FlagsOK'
    BY <1>8 DEF StartStopReturns, Sink!StopCompletes, TypeOK, FlagsOK
  <2>4. DataOK'
    BY <1>8 DEF StartStopReturns, Sink!StopCompletes, TypeOK, DataOK
  <2> QED
    BY <2>1, <2>2, <2>3, <2>4 DEF TypeOK
<1>9. CASE ClientTimeout
  <2>1. QueueInv'
    BY <1>9, QueueAlone DEF ClientTimeout
  <2>2. disconnect' \in BOOLEAN
    BY <1>9 DEF ClientTimeout, TypeOK, FlagsOK
  <2>3. TypeOK'
    <3>1. /\ fresh' = FALSE
          /\ UNCHANGED <<loopVars, rtspVars, rtpVars, timer, workerVars, serviceVars, lock, eor>>
      BY <1>9 DEF ClientTimeout
    <3>2. ControlOK'
      BY <2>2, <3>1 DEF TypeOK, ControlOK
    <3>3. FlagsOK'
      BY <2>2, <3>1 DEF TypeOK, FlagsOK
    <3>4. DataOK'
      BY <2>2, <3>1 DEF TypeOK, DataOK
    <3> QED
      BY <3>2, <3>3, <3>4 DEF TypeOK
  <2> QED
    BY <2>1, <2>3
<1>10. CASE DisconnectPlaying
  <2>1. QueueInv'
    BY <1>10, QueueAlone DEF DisconnectPlaying
  <2>2. TypeOK'
    <3>1. ControlOK'
      BY <1>10 DEF DisconnectPlaying, Sink!StopRequested, TypeOK, ControlOK
    <3>2. FlagsOK'
      BY <1>10 DEF DisconnectPlaying, Sink!StopRequested, TypeOK, FlagsOK
    <3>3. DataOK'
      BY <1>10 DEF DisconnectPlaying, Sink!StopRequested, TypeOK, DataOK
    <3> QED
      BY <3>1, <3>2, <3>3 DEF TypeOK
  <2> QED
    BY <2>1, <2>2
<1>11. CASE DisconnectPaused
  <2>1. QueueInv'
    BY <1>11, QueueAlone DEF DisconnectPaused
  <2>2. TypeOK'
    <3>1. /\ started' = FALSE /\ timer' = FALSE /\ pc' = "free"
          /\ UNCHANGED <<cur, cur_state, cached, resource, sessions, rtpVars, fresh,
                         disconnect, workerVars, serviceVars, lock, eor>>
      BY <1>11 DEF DisconnectPaused
    <3>2. ControlOK'
      BY <3>1 DEF TypeOK, ControlOK
    <3>3. FlagsOK'
      BY <3>1 DEF TypeOK, FlagsOK
    <3>4. DataOK'
      BY <3>1 DEF TypeOK, DataOK
    <3> QED
      BY <3>2, <3>3, <3>4 DEF TypeOK
  <2> QED
    BY <2>1, <2>2
<1>12. CASE PauseStopReturns
  <2>1. QueueInv'
    BY <1>12, QueueAlone DEF PauseStopReturns, Sink!StopCompletes
  <2>2. ControlOK'
    BY <1>12 DEF PauseStopReturns, Sink!StopCompletes, TypeOK, ControlOK
  <2>3. FlagsOK'
    BY <1>12 DEF PauseStopReturns, Sink!StopCompletes, TypeOK, FlagsOK
  <2>4. DataOK'
    BY <1>12 DEF PauseStopReturns, Sink!StopCompletes, TypeOK, DataOK
  <2> QED
    BY <2>1, <2>2, <2>3, <2>4 DEF TypeOK
<1>13. CASE Close
  <2>1. QueueInv'
    BY <1>13, QueueAlone DEF Close
  <2>2. TypeOK'
    <3>1. /\ resource' \in {"none", "open", "freed"} /\ cached' = FALSE /\ pc' = "gone"
          /\ UNCHANGED <<cur, cur_state, started, sessions, rtpVars, timeVars,
                         workerVars, serviceVars, lock, eor>>
      BY <1>13 DEF Close, TypeOK, ControlOK
    <3>2. ControlOK'
      BY <3>1 DEF TypeOK, ControlOK
    <3>3. FlagsOK'
      BY <3>1 DEF TypeOK, FlagsOK
    <3>4. DataOK'
      BY <3>1 DEF TypeOK, DataOK
    <3> QED
      BY <3>2, <3>3, <3>4 DEF TypeOK
  <2> QED
    BY <2>1, <2>2
<1>14. ASSUME NEW t \in Tracks, NEW n \in 0..MaxPackets, FrameArrives(t, n)
       PROVE  TypeOK' /\ QueueInv'
  <2>1. n \in Nat
    BY RtspAssumption
  <2>2. job' \in [track : Tracks \cup {NoTrack}, left : Nat]
    BY <1>14, <2>1 DEF FrameArrives
  <2>3. frames' \in Nat
    BY <1>14 DEF FrameArrives, TypeOK, DataOK
  <2>4. QueueInv'
    BY <1>14, QueueAlone DEF FrameArrives
  <2>5. ControlOK'
    BY <1>14 DEF FrameArrives, Sink!CallbackBegins, TypeOK, ControlOK
  <2>6. FlagsOK'
    BY <1>14 DEF FrameArrives, Sink!CallbackBegins, TypeOK, FlagsOK
  <2>7. DataOK'
    BY <1>14, <2>2, <2>3 DEF FrameArrives, TypeOK, DataOK
  <2> QED
    BY <2>4, <2>5, <2>6, <2>7 DEF TypeOK
<1>15. CASE MismatchArrives
  <2>1. QueueInv'
    BY <1>15, QueueAlone DEF MismatchArrives, Sink!CallbackBegins
  <2>2. ControlOK'
    BY <1>15 DEF MismatchArrives, Sink!CallbackBegins, TypeOK, ControlOK
  <2>3. FlagsOK'
    BY <1>15 DEF MismatchArrives, Sink!CallbackBegins, TypeOK, FlagsOK
  <2>4. DataOK'
    BY <1>15 DEF MismatchArrives, Sink!CallbackBegins, TypeOK, DataOK
  <2> QED
    BY <2>1, <2>2, <2>3, <2>4 DEF TypeOK
<1>16. NoJob \in [track : Tracks \cup {NoTrack}, left : Nat]
  BY DEF NoJob
<1>17. CASE FrameDropped
  <2>1. QueueInv'
    BY <1>17, QueueAlone DEF FrameDropped
  <2>2. TypeOK'
    <3>1. /\ busy' = FALSE /\ wpc' = "idle" /\ job' = NoJob /\ lock' = lock
          /\ UNCHANGED <<phase, loopVars, rtspVars, rtpVars, timeVars, frames, eor>>
      BY <1>17 DEF FrameDropped, Sink!CallbackEnds
    <3>2. ControlOK'
      BY <1>16, <3>1 DEF TypeOK, ControlOK
    <3>3. FlagsOK'
      BY <1>16, <3>1 DEF TypeOK, FlagsOK
    <3>4. DataOK'
      BY <1>16, <3>1 DEF TypeOK, DataOK
    <3> QED
      BY <3>2, <3>3, <3>4 DEF TypeOK
  <2> QED
    BY <2>1, <2>2
<1>18. CASE FrameParsed
  <2>1. QueueInv'
    BY <1>18, QueueAlone DEF FrameParsed
  <2>2. ControlOK'
    BY <1>18 DEF FrameParsed, TypeOK, ControlOK
  <2>3. FlagsOK'
    BY <1>18 DEF FrameParsed, TypeOK, FlagsOK
  <2>4. DataOK'
    BY <1>18 DEF FrameParsed, TypeOK, DataOK
  <2> QED
    BY <2>1, <2>2, <2>3, <2>4 DEF TypeOK
<1>19. CASE FrameDone
  <2>1. QueueInv'
    BY <1>19, QueueAlone DEF FrameDone
  <2>2. TypeOK'
    <3>1. /\ busy' = FALSE /\ wpc' = "idle" /\ job' = NoJob /\ lock' = "none"
          /\ UNCHANGED <<phase, loopVars, rtspVars, rtpVars, timeVars, frames, eor>>
      BY <1>19 DEF FrameDone, Sink!CallbackEnds
    <3>2. ControlOK'
      BY <1>16, <3>1 DEF TypeOK, ControlOK
    <3>3. FlagsOK'
      BY <1>16, <3>1 DEF TypeOK, FlagsOK
    <3>4. DataOK'
      BY <1>16, <3>1 DEF TypeOK, DataOK
    <3> QED
      BY <3>2, <3>3, <3>4 DEF TypeOK
  <2> QED
    BY <2>1, <2>2
<1>20. CASE MismatchDone
  <2>1. QueueInv'
    BY <1>20, QueueAlone DEF MismatchDone
  <2>2. TypeOK'
    <3>1. /\ busy' = FALSE /\ wpc' = "idle" /\ eor' = TRUE
          /\ UNCHANGED <<phase, loopVars, rtspVars, rtpVars, timeVars, job, frames, lock>>
      BY <1>20 DEF MismatchDone, Sink!CallbackEnds
    <3>2. ControlOK'
      BY <3>1 DEF TypeOK, ControlOK
    <3>3. FlagsOK'
      BY <3>1 DEF TypeOK, FlagsOK
    <3>4. DataOK'
      BY <3>1 DEF TypeOK, DataOK
    <3> QED
      BY <3>2, <3>3, <3>4 DEF TypeOK
  <2> QED
    BY <2>1, <2>2
<1>21. CASE SetupUnknownTrack
  <2>1. QueueInv'
    BY <1>21, QueueAlone DEF SetupUnknownTrack
  <2>2. ControlOK'
    BY <1>21 DEF SetupUnknownTrack, TypeOK, ControlOK
  <2>3. FlagsOK'
    <3>1. cached' \in BOOLEAN
      BY <1>21 DEF SetupUnknownTrack, TypeOK, FlagsOK
    <3> QED
      BY <1>21, <3>1 DEF SetupUnknownTrack, TypeOK, FlagsOK
  <2>4. DataOK'
    BY <1>21 DEF SetupUnknownTrack, TypeOK, DataOK
  <2> QED
    BY <2>1, <2>2, <2>3, <2>4 DEF TypeOK
<1>22. CASE WriteDies
  <2>1. QueueInv'
    BY <1>22, QueueAlone DEF WriteDies
  <2>2. ControlOK'
    BY <1>22 DEF WriteDies, TypeOK, ControlOK
  <2>3. FlagsOK'
    BY <1>22 DEF WriteDies, TypeOK, FlagsOK
  <2>4. DataOK'
    BY <1>22 DEF WriteDies, TypeOK, DataOK
  <2> QED
    BY <2>1, <2>2, <2>3, <2>4 DEF TypeOK
<1>23. ASSUME NEW s \in Sessions, FreeSessionDies(s) PROVE TypeOK' /\ QueueInv'
  <2>1. QueueInv'
    BY <1>23, QueueAlone DEF FreeSessionDies
  <2>2. ControlOK'
    BY <1>23 DEF FreeSessionDies, TypeOK, ControlOK
  <2>3. FlagsOK'
    BY <1>23 DEF FreeSessionDies, TypeOK, FlagsOK
  <2>4. DataOK'
    BY <1>23 DEF FreeSessionDies, TypeOK, DataOK
  <2> QED
    BY <2>1, <2>2, <2>3, <2>4 DEF TypeOK
<1> QED
  BY <1>1, <1>2, <1>3, <1>4, <1>5, <1>6, <1>7, <1>8, <1>9, <1>10, <1>11, <1>12,
     <1>13, <1>14, <1>15, <1>17, <1>18, <1>19, <1>20, <1>21, <1>22, <1>23
     DEF StartRest, WorkerBegins

LEMMA OtherStepsShared ==
    ASSUME SharedInv,
           \/ Describe \/ SetupUnknownTrack \/ Play \/ PlayStartFails \/ DoPause
           \/ ClientCloses \/ StartRest \/ ClientTimeout
           \/ DisconnectPlaying \/ DisconnectPaused \/ PauseStopReturns \/ Close
           \/ WorkerBegins \/ FrameDropped \/ FrameParsed \/ FrameDone \/ MismatchDone
           \/ WriteDies \/ \E s \in Sessions : FreeSessionDies(s)
    PROVE  SharedInv'
<1> DEFINE Keeps == /\ UNCHANGED <<queue, consumer, sessions>> /\ (Active' => Active)
                    /\ started \/ pc \in {"pause_stop", "pause_lock"} =>
                          started' \/ pc' \in {"pause_stop", "pause_lock"}
<1> USE DEF loopVars, rtspVars, rtpVars, Active
<1>1. CASE Describe \/ SetupUnknownTrack \/ Play \/ PlayStartFails \/ DoPause \/ ClientCloses
  <2>1. Keeps
    BY <1>1 DEF Describe, SetupUnknownTrack, Play, PlayStartFails, DoPause, ClientCloses
  <2> QED
    BY <2>1, SharedAlone
<1>2. CASE StartRest \/ ClientTimeout \/ WriteDies
  <2>1. Keeps
    BY <1>2 DEF StartRest, KeyFrameOk, KeyFrameFails, StartStopReturns, ClientTimeout, WriteDies
  <2> QED
    BY <2>1, SharedAlone
<1>3. CASE \/ DisconnectPlaying \/ DisconnectPaused \/ PauseStopReturns \/ Close
           \/ \E s \in Sessions : FreeSessionDies(s)
  <2>1. Keeps
    BY <1>3 DEF DisconnectPlaying, DisconnectPaused, MustPause, PauseStopReturns, Close,
                FreeSessionDies
  <2> QED
    BY <2>1, SharedAlone
<1>4. CASE WorkerBegins \/ FrameDropped \/ FrameParsed \/ FrameDone \/ MismatchDone
  <2>1. Keeps
    BY <1>4 DEF WorkerBegins, FrameArrives, MismatchArrives, FrameDropped, FrameParsed,
                FrameDone, MismatchDone
  <2> QED
    BY <2>1, SharedAlone
<1> QED
  BY <1>1, <1>2, <1>3, <1>4

LEMMA QueueStep ==
    ASSUME TypeOK, LockInv, QueueInv, SharedInv, JobInv, [Next]_vars
    PROVE  TypeOK' /\ QueueInv'
<1>1. CASE vars' = vars
  <2> USE DEF vars, loopVars, rtspVars, rtpVars, timeVars, workerVars, serviceVars
  <2>1. ControlOK' /\ FlagsOK'
    BY <1>1 DEF TypeOK, ControlOK, FlagsOK
  <2>2. DataOK' /\ QueueInv'
    BY <1>1 DEF TypeOK, DataOK, QueueInv
  <2> QED
    BY <2>1, <2>2 DEF TypeOK
<1>2. CASE Request \/ StartRest \/ ClientTimeout
  BY <1>2, SetupQueue, OtherStepsQueue DEF Request
<1>3. CASE (\E s \in Sessions : Write(s)) \/ WriteRest
  BY <1>3, WriteGetQueue, WriteSendQueue, WriteFreedQueue, WriteNothingQueue, OtherStepsQueue
     DEF Write, WriteRest
<1>4. CASE Disconnect
  BY <1>4, PauseResetQueue, FreeSessionQueue, OtherStepsQueue DEF Disconnect
<1>5. CASE WorkerBegins \/ WorkerRest
  BY <1>5, PutPacketQueue, OtherStepsQueue DEF WorkerRest
<1> QED
  BY <1>1, <1>2, <1>3, <1>4, <1>5 DEF Next

LEMMA SharedStep ==
    ASSUME TypeOK, LockInv, QueueInv, SharedInv, JobInv, [Next]_vars
    PROVE  SharedInv'
<1>1. CASE vars' = vars
  BY <1>1, SharedAlone DEF vars, loopVars, rtspVars, rtpVars, Active
<1>2. CASE Request \/ StartRest \/ ClientTimeout
  BY <1>2, SetupShared, OtherStepsShared DEF Request
<1>3. ASSUME NEW s \in Sessions, NEW found \in BOOLEAN, WriteGet(s, found) PROVE SharedInv'
  <2>1. /\ UNCHANGED <<queue, sessions, started>> /\ pc = "idle" /\ pc' \in {"got", "none"}
        /\ \A r \in sessions : \/ consumer'[r] = consumer[r]
                               \/ consumer'[r] = GetConsumer(queue[TrackOf[r]], consumer[r])
    BY <1>3, QueueTypes DEF WriteGet, rtspVars
  <2> QED
    BY <2>1, GetShared
<1>4. ASSUME NEW end \in BOOLEAN, WriteNothing(end) PROVE SharedInv'
  <2>1. /\ UNCHANGED <<queue, sessions, started>> /\ pc = "none" /\ pc' = "idle"
        /\ \A r \in sessions : \/ consumer'[r] = consumer[r]
                               \/ consumer'[r] = GetConsumer(queue[TrackOf[r]], consumer[r])
    BY <1>4, QueueTypes DEF WriteNothing, rtspVars
  <2> QED
    BY <2>1, GetShared
<1>5. CASE (\E s \in Sessions : Write(s)) \/ WriteRest
  BY <1>3, <1>4, <1>5, WriteSendShared, WriteFreedShared, OtherStepsShared DEF Write, WriteRest
<1>6. CASE Disconnect
  BY <1>6, PauseResetShared, FreeSessionShared, OtherStepsShared DEF Disconnect
<1>7. CASE WorkerBegins \/ WorkerRest
  BY <1>7, PutPacketShared, OtherStepsShared DEF WorkerRest
<1> QED
  BY <1>1, <1>2, <1>5, <1>6, <1>7 DEF Next
-----------------------------------------------------------------------------
(* What the event loop does to the queues, to eor and to the sessions' BYE *)

\* The loop only takes elements out of the queues, and not from the worker.
LEMMA LoopShrinks ==
    ASSUME TypeOK, LockInv, QueueInv, SharedInv,
           \/ Request \/ StartRest \/ ClientTimeout \/ Disconnect
           \/ (\E s \in Sessions : Write(s)) \/ WriteRest
    PROVE  /\ UNCHANGED <<wpc, job>>
           /\ \A t \in Tracks : Len(queue'[t].seen) <= Len(queue[t].seen)
<1> DEFINE Shrinks == /\ UNCHANGED <<wpc, job>>
                      /\ \A t \in Tracks : Len(queue'[t].seen) <= Len(queue[t].seen)
<1>1. \A t \in Tracks : Len(queue[t].seen) \in Nat
  BY QueueTypes DEF Producers
<1>2. CASE \/ Describe \/ SetupUnknownTrack \/ Play \/ PlayStartFails \/ DoPause
           \/ ClientCloses \/ StartRest \/ ClientTimeout \/ DisconnectPlaying \/ DisconnectPaused \/ PauseStopReturns
           \/ Close \/ (\E s \in Sessions : Write(s) \/ FreeSessionDies(s)) \/ WriteDies
           \/ (\E b \in BOOLEAN : WriteNothing(b) \/ WriteFreed(b))
  <2>1. UNCHANGED <<queue, wpc, job>>
    BY <1>2
       DEF Describe, SetupUnknownTrack, Play, PlayStartFails, DoPause, ClientCloses,
                StartRest, KeyFrameOk, KeyFrameFails, StartStopReturns, ClientTimeout, DisconnectPlaying,
                DisconnectPaused, PauseStopReturns, Close, FreeSessionDies, Write, WriteGet,
                WriteNothing, WriteFreed, WriteDies,
                rtpVars, workerVars
  <2> QED
    BY <1>1, <2>1
<1>3. ASSUME NEW s \in Sessions, Setup(s) PROVE Shrinks
  <2>1. /\ queue' = [queue EXCEPT ![TrackOf[s]] = ConsumerNew(queue[TrackOf[s]])]
        /\ UNCHANGED <<wpc, job>>
    BY <1>3 DEF Setup, workerVars
  <2>2. ConsumerNew(queue[TrackOf[s]]).seen = queue[TrackOf[s]].seen
    BY QueueTypes DEF ConsumerNew, Producers
  <2> QED
    BY <1>1, <2>1, <2>2, QueueTypes
<1>4. ASSUME NEW sent \in BOOLEAN, WriteSend(sent) PROVE Shrinks
  <2> DEFINE t0 == TrackOf[cur]
             q0 == MoveProducer(queue[t0], consumer[cur])
  <2>1. queue' = [queue EXCEPT ![t0] = q0] /\ UNCHANGED <<wpc, job>>
    BY <1>4 DEF WriteSend, workerVars
  <2>2. cur \in sessions /\ t0 \in Tracks
    BY <1>4, QueueTypes DEF WriteSend, QueueInv
  <2>3. /\ Sound(queue[t0]) /\ Fits(queue[t0], consumer[cur])
        /\ Holds(queue[t0], consumer[cur]) /\ ~NotHead(queue[t0], consumer[cur])
    BY <1>4, <2>2 DEF QueueInv, WriteSend, Misused, Holds, Dangling
  <2>4. Len(q0.seen) <= Len(queue[t0].seen)
    BY <2>3, MoveSound
  <2> HIDE DEF q0, t0
  <2> QED
    BY <1>1, <2>1, <2>2, <2>4, QueueTypes
<1>5. CASE PauseReset
  <2>1. UNCHANGED <<wpc, job>> /\ \A t \in Tracks : queue'[t] = ResetQueue(queue[t])
    BY <1>5 DEF PauseReset, workerVars
  <2>2. \A t \in Tracks : ResetQueue(queue[t]).seen = <<>>
    BY ResetSound DEF QueueInv
  <2> QED
    BY <1>1, <2>1, <2>2
<1>6. ASSUME NEW s \in Sessions, FreeSession(s) PROVE Shrinks
  <2> DEFINE t0 == TrackOf[s]
             q0 == ConsumerFree(queue[t0], consumer[s])
  <2>1. queue' = [queue EXCEPT ![t0] = q0] /\ UNCHANGED <<wpc, job>>
    BY <1>6 DEF FreeSession, workerVars
  <2>2. s \in sessions /\ t0 \in Tracks
    BY <1>6, QueueTypes DEF FreeSession
  <2>3. Sound(queue[t0]) /\ Fits(queue[t0], consumer[s]) /\ queue[t0].consumers > 0
          /\ queue[t0].seen = <<>>
    BY <1>6, <2>2, Counted, FreeEmpty DEF QueueInv, FreeSession
  <2>4. q0.seen = <<>>
    BY <2>3, FreeSound
  <2> HIDE DEF q0, t0
  <2> QED
    BY <1>1, <2>1, <2>2, <2>4, QueueTypes
<1> QED
  BY <1>2, <1>3, <1>4, <1>5, <1>6 DEF Request, Disconnect, WriteRest

\* All sessions at their end: every queue is empty, also of tracks that are
\* not set up, and although a session whose buffer was freed may see nothing.
LEMMA AllEndEmpty ==
    ASSUME TypeOK, QueueInv, SharedInv, Active, AllSessionsEnd
    PROVE  \A t \in Tracks : Len(queue[t].seen) = 0
<1> SUFFICES ASSUME NEW t \in Tracks PROVE Len(queue[t].seen) = 0
  OBVIOUS
<1>1. ASSUME NEW s \in sessions, TrackOf[s] = t PROVE Len(queue[t].seen) = 0
  <2>1. PICK r \in OnTrack(t) : ~Dangling(queue[t], consumer[r])
    BY <1>1 DEF SharedInv, HeldInv
  <2>2. r \in sessions /\ TrackOf[r] = t
    BY DEF OnTrack
  <2> QED
    BY <2>1, <2>2, GetQueue DEF AllSessionsEnd
<1>2. CASE ~\E s \in sessions : TrackOf[s] = t
  <2>1. OnTrack(t) = {}
    BY <1>2 DEF OnTrack
  <2>2. queue[t].consumers = 0
    BY <2>1, FS_EmptySet DEF SharedInv, CountInv
  <2>3. queue[t].seen = <<>>
    BY <2>2 DEF QueueInv, Sound
  <2> QED
    BY <2>3
<1> QED
  BY <1>1, <1>2

\* BYE is withdrawn, or kept with eor, or said when nothing is left.
LEMMA LoopBye ==
    ASSUME TypeOK, QueueInv, SharedInv,
           \/ Request \/ StartRest \/ ClientTimeout \/ Disconnect
           \/ (\E s \in Sessions : Write(s)) \/ WriteRest
    PROVE  \/ bye' = {} /\ eor' = FALSE
           \/ bye' \subseteq bye /\ eor' = eor
           \/ eor' = eor /\ eor /\ \A t \in Tracks : Len(queue[t].seen) = 0
<1>1. CASE KeyFrameOk
  BY <1>1 DEF KeyFrameOk
<1>2. CASE WriteNothing(TRUE)
  <2>1. eor /\ AllSessionsEnd /\ Active /\ eor' = eor
    BY <1>2 DEF WriteNothing, Active
  <2> QED
    BY <2>1, AllEndEmpty
<1>3. ASSUME NEW s \in Sessions, FreeSession(s) PROVE bye' \subseteq bye /\ eor' = eor
  BY <1>3 DEF FreeSession
<1>4. CASE \/ Request \/ KeyFrameFails \/ StartStopReturns \/ ClientTimeout
           \/ DisconnectPlaying \/ DisconnectPaused \/ PauseStopReturns \/ PauseReset \/ Close
           \/ (\E s \in Sessions : Write(s) \/ FreeSessionDies(s)) \/ WriteDies
           \/ (\E sent \in BOOLEAN : WriteSend(sent) \/ WriteFreed(sent)) \/ WriteNothing(FALSE)
  BY <1>4 DEF Request, Describe, Setup, SetupUnknownTrack, Play, PlayStartFails, DoPause,
              ClientCloses, KeyFrameFails, StartStopReturns, ClientTimeout, DisconnectPlaying,
              DisconnectPaused, PauseStopReturns, PauseReset, Close, FreeSessionDies, Write,
              WriteGet, WriteSend, WriteFreed, WriteDies, WriteNothing, rtpVars
<1> QED
  BY <1>1, <1>2, <1>3, <1>4 DEF StartRest, Disconnect, WriteRest

-----------------------------------------------------------------------------
(* The frame being added, the end of the resource and the length of queues *)

\* What the worker and the loop keep together. ByeDrained needs EorInv (a put
\* under way excludes eor), QueueBounded needs JobInv.
FlowInv == EorInv /\ JobInv /\ ByeDrained /\ QueueBounded

LEMMA LoopFlow ==
    ASSUME TypeOK, LockInv, QueueInv, SharedInv, FlowInv,
           \/ Request \/ StartRest \/ ClientTimeout \/ Disconnect
           \/ (\E s \in Sessions : Write(s)) \/ WriteRest
    PROVE  FlowInv'
<1>1. /\ UNCHANGED <<wpc, job>>
      /\ \A t \in Tracks : Len(queue'[t].seen) <= Len(queue[t].seen)
  BY LoopShrinks
<1>2. \/ bye' = {} /\ eor' = FALSE
      \/ bye' \subseteq bye /\ eor' = eor
      \/ eor' = eor /\ eor /\ \A t \in Tracks : Len(queue[t].seen) = 0
  BY LoopBye
<1>3. \A t \in Tracks : Len(queue[t].seen) \in Nat /\ Len(queue'[t].seen) \in Nat
  <2>1. queue' \in [Tracks -> Producers]
    BY QueueStep DEF FlowInv, TypeOK, DataOK, Next
  <2> QED
    BY <2>1, QueueTypes DEF Producers
<1>4. EorInv' /\ JobInv'
  BY <1>1, <1>2 DEF FlowInv, EorInv, JobInv
<1>5. ByeDrained'
  BY <1>1, <1>2, <1>3 DEF FlowInv, ByeDrained, QueueLength
<1>6. QueueBounded'
  <2>1. job.left \in Nat /\ BufferedFrames \in Nat /\ MaxPackets \in Nat
    BY RtspAssumption DEF TypeOK, DataOK
  <2> QED
    BY <1>1, <1>3, <2>1 DEF FlowInv, QueueBounded, QueueLength
<1> QED
  BY <1>4, <1>5, <1>6 DEF FlowInv

LEMMA WorkerFlow ==
    ASSUME TypeOK, QueueInv, FlowInv, WorkerBegins \/ WorkerRest
    PROVE  FlowInv'
<1>1. /\ job.left \in Nat /\ BufferedFrames \in Nat \ {0} /\ MaxPackets \in Nat
      /\ \A t \in Tracks : QueueLength(queue[t]) \in Nat
  BY RtspAssumption, QueueTypes DEF TypeOK, DataOK, QueueLength, Producers
<1>2. \A t \in Tracks : QueueLength(queue[t]) <= BufferedFrames - 1 + MaxPackets
  BY <1>1 DEF FlowInv, QueueBounded
<1>3. CASE WorkerBegins \/ FrameDropped \/ FrameDone \/ MismatchDone
  <2>1. /\ UNCHANGED <<queue, bye>> /\ wpc' # "put" /\ (eor' = eor \/ eor')
    BY <1>3 DEF WorkerBegins, FrameArrives, MismatchArrives, FrameDropped, FrameDone,
                MismatchDone, rtpVars
  <2>2. JobInv'
    <3>1. NoJob.left = 0
      BY DEF NoJob
    <3>2. ASSUME NEW t \in Tracks, NEW n \in 0..MaxPackets, FrameArrives(t, n)
          PROVE  JobInv'
      BY <1>1, <3>2 DEF FrameArrives, JobInv
    <3>3. CASE MismatchArrives \/ MismatchDone
      BY <3>3 DEF MismatchArrives, MismatchDone, FlowInv, JobInv
    <3>4. CASE FrameDropped \/ FrameDone
      BY <1>1, <3>1, <3>4 DEF FrameDropped, FrameDone, JobInv
    <3> QED
      BY <1>3, <3>2, <3>3, <3>4 DEF WorkerBegins
  <2>3. EorInv' /\ ByeDrained'
    BY <2>1 DEF FlowInv, EorInv, ByeDrained
  <2>4. QueueBounded'
    BY <1>1, <1>2, <2>1 DEF QueueBounded
  <2> QED
    BY <2>2, <2>3, <2>4 DEF FlowInv
<1>4. CASE FrameParsed
  <2>1. /\ UNCHANGED <<queue, bye, eor, job>> /\ wpc = "frame" /\ wpc' = "put"
        /\ ~eor /\ ~(QueueLength(queue[job.track]) >= BufferedFrames)
    BY <1>4 DEF FrameParsed, DropFrame, rtpVars
  <2>2. job.track \in Tracks /\ job.left <= MaxPackets
    BY <2>1 DEF FlowInv, JobInv
  <2>3. EorInv' /\ JobInv' /\ ByeDrained'
    BY <2>1, <2>2 DEF FlowInv, EorInv, JobInv, ByeDrained
  <2>4. QueueBounded'
    BY <1>1, <1>2, <2>1, <2>2 DEF QueueBounded
  <2> QED
    BY <2>3, <2>4 DEF FlowInv
<1>5. CASE PutPacket
  <2> DEFINE t0 == job.track
  <2>1. /\ UNCHANGED <<bye, eor, wpc>> /\ wpc = "put" /\ job.left > 0
        /\ job' = [job EXCEPT !.left = @ - 1]
    BY <1>5 DEF PutPacket
  <2>2. t0 \in Tracks /\ job.left <= MaxPackets
    BY <2>1 DEF FlowInv, JobInv
  <2>3. job'.left = job.left - 1 /\ job'.track = t0
    BY <2>1 DEF TypeOK, DataOK
  <2>4. EorInv' /\ JobInv'
    BY <1>1, <2>1, <2>2, <2>3 DEF FlowInv, EorInv, JobInv
  <2>5. ByeDrained'
    BY <2>1 DEF FlowInv, EorInv, ByeDrained
  <2>6. /\ QueueLength(queue'[t0]) \in Nat
        /\ QueueLength(queue'[t0]) <= QueueLength(queue[t0]) + 1
        /\ \A t \in Tracks \ {t0} : queue'[t] = queue[t]
    <3>1. CASE queue[t0].consumers > 0
      <4>1. Sound(queue[t0])
        BY <2>2 DEF QueueInv
      <4>2. Len(Put(queue[t0]).seen) = Len(queue[t0].seen) + 1
        BY <3>1, <4>1, PutSound
      <4>3. queue' = [queue EXCEPT ![t0] = Put(queue[t0])]
        BY <1>5, <3>1 DEF PutPacket
      <4> QED
        BY <1>1, <2>2, <4>2, <4>3, QueueTypes DEF QueueLength
    <3>2. CASE ~(queue[t0].consumers > 0)
      BY <1>1, <1>5, <2>2, <3>2 DEF PutPacket
    <3> QED
      BY <3>1, <3>2
  <2>7. QueueBounded'
    <3>1. QueueLength(queue[t0]) + job.left <= BufferedFrames - 1 + MaxPackets
      BY <2>1, <2>2 DEF FlowInv, QueueBounded
    <3> HIDE DEF t0
    <3>2. QueueLength(queue'[t0]) + job'.left <= BufferedFrames - 1 + MaxPackets
      BY <1>1, <2>2, <2>3, <2>6, <3>1
    <3>3. ASSUME NEW t \in Tracks
          PROVE  QueueLength(queue'[t]) + (IF job'.track = t /\ wpc' = "put" THEN job'.left ELSE 0)
                     <= BufferedFrames - 1 + MaxPackets
      BY <1>1, <1>2, <2>1, <2>3, <2>6, <3>2
    <3> QED
      BY <3>3 DEF QueueBounded
  <2> QED
    BY <2>4, <2>5, <2>7 DEF FlowInv
<1> QED
  BY <1>3, <1>4, <1>5 DEF WorkerRest

\* The whole inductive invariant.
RtspInv == TypeOK /\ LockInv /\ QueueInv /\ SharedInv /\ FlowInv

LEMMA FlowStep ==
    ASSUME RtspInv, [Next]_vars
    PROVE  RtspInv'
<1> USE DEF RtspInv
<1>1. TypeOK' /\ LockInv' /\ QueueInv' /\ SharedInv'
  BY QueueStep, SharedStep, LockStep DEF FlowInv
<1>2. CASE vars' = vars
  BY <1>1, <1>2
     DEF vars, rtpVars, workerVars, FlowInv, EorInv, JobInv, ByeDrained, QueueBounded
<1>3. CASE Next
  BY <1>1, <1>3, LoopFlow, WorkerFlow DEF Next
<1> QED
  BY <1>2, <1>3

LEMMA RtspInvariant == Spec => []RtspInv
<1>1. Init => RtspInv
  <2> SUFFICES ASSUME Init PROVE RtspInv
    OBVIOUS
  <2>1. TypeOK /\ LockInv /\ QueueInv /\ SharedInv /\ EorInv /\ JobInv
    BY RtspInitInv
  <2>2. ByeDrained
    BY DEF Init, ByeDrained
  <2>3. \A t \in Tracks : QueueLength(queue[t]) = 0
    BY DEF Init, QueueLength, NewProducer
  <2>4. QueueBounded
    BY <2>3, RtspAssumption DEF Init, QueueBounded
  <2> QED
    BY <2>1, <2>2, <2>4 DEF FlowInv, RtspInv
<1>2. RtspInv /\ [Next]_vars => RtspInv'
  BY FlowStep
<1> QED
  BY <1>1, <1>2, PTL DEF Spec

\* The state of the process is what TypeOK says, for any number of sessions on
\* a track. In particular the number of consumers and the seen counts of the
\* queues never fall below zero (they are unsigned), and only sessions that
\* exist have an active rtp_writer.
THEOREM RtspTypeCorrect == Spec => []TypeOK
<1>1. RtspInv => TypeOK
  BY DEF RtspInv
<1> QED
  BY <1>1, RtspInvariant, PTL

\* The buffer rtp_write_cb sends without a lock is queued and is the oldest of
\* its track as long as no second session is set up for this track, however
\* many frames the worker adds meanwhile and whatever happens on other tracks.
THEOREM RtspSelectedIsOldest == Spec => []SelectedIsOldest
<1>1. RtspInv => SelectedIsOldest
  <2> SUFFICES ASSUME RtspInv, pc = "got", Alone(cur)
               PROVE  LET q == queue[TrackOf[cur]]
                      IN  /\ Selects(q, consumer[cur]) /\ QueueLength(q) > 0
                          /\ consumer[cur].at = Oldest(q)
    BY DEF SelectedIsOldest
  <2>1. Selects(queue[TrackOf[cur]], consumer[cur]) /\ cur \in sessions
    BY QueueTypes DEF RtspInv, QueueInv
  <2>2. AtHead(queue[TrackOf[cur]], consumer[cur])
    BY <2>1 DEF RtspInv, SharedInv, AloneInv, Active
  <2> QED
    BY <2>1, <2>2 DEF AtHead, QueueLength
<1> QED
  BY <1>1, RtspInvariant, PTL

\* The check of OnLiveMediaFrame keeps every queue within buffered_frames and
\* the packets of one frame, however many sessions read it or do not.
THEOREM RtspQueueBounded == Spec => []QueueBounded
<1>1. RtspInv => QueueBounded
  BY DEF RtspInv, FlowInv
<1> QED
  BY <1>1, RtspInvariant, PTL

\* BYE is only said when every queue is empty and the worker adds nothing more,
\* although rtp_write_cb reads the queues and eor without the lock and sessions
\* of the same track may have lost their buffers.
THEOREM RtspByeDrained == Spec => []ByeDrained
<1>1. RtspInv => ByeDrained
  BY DEF RtspInv, FlowInv
<1> QED
  BY <1>1, RtspInvariant, PTL
=============================================================================
