------------------------------ MODULE MediaFlow -----------------------------
(***************************************************************************)
(* Metadata and live media frames between one StreamSource and one         *)
(* StreamSink. The application of the source announces metadata            *)
(* (set_stream_meta) and publishes frames (SendLiveMediaFrame), which      *)
(* number the data frames of each sub-stream; the sink fetches the         *)
(* metadata (UpdateStreamMetaData), drops the frames it does not describe  *)
(* and counts the received and the lost ones (MediaFrameHandler).          *)
(*                                                                         *)
(* The PUB/SUB sockets are external: frames stay in order, and one that    *)
(* does not fit into the queue, or that nobody is connected for, is lost.  *)
(* Sub-streams are counted from 1 here and from 0 in the code. Byte        *)
(* counters, key frames and gov lengths are left out.                      *)
(***************************************************************************)
EXTENDS Integers, Sequences, FiniteSets

CONSTANTS
    Kinds,      \* media types
    Metas,      \* the metadata [ssrc, subs] applications may announce
    QueueSize,  \* messages the two sockets hold (their high water marks)
    MaxSeq,     \* bound: data frames per sub-stream and statistic
    MaxEpoch,   \* bound: resets of the source's statistic
    MaxSubs     \* bound: sub-streams collected by the sink

NoMeta == [ssrc |-> 0, subs |-> <<>>]

ASSUME FlowAssumption ==
    /\ Metas \subseteq [ssrc : Nat \ {0}, subs : Seq(Kinds) \ {<<>>}]
    /\ QueueSize \in Nat /\ MaxSeq \in Nat /\ MaxEpoch \in Nat /\ MaxSubs \in Nat

VARIABLES
    src,       \* the source's stream_meta_
    srcSeq,    \* last_seq of each entry of the source's statistic_
    epoch,     \* history: number of resets of that statistic
    queue,     \* frames between publish_socket_ and subscriber_socket_
    socket,    \* subscriber_socket_ exists
    started,   \* the sink is started, its worker is running
    meta,      \* the sink's stream_meta_
    stat,      \* the sink's statistic_
    lastSsrc,  \* last_frame_ssrc_
    reply,     \* a metadata reply under way to UpdateStreamMetaData
    callback,  \* what the worker is telling the listener
    seen       \* history: for each entry of stat, the frames it counted

vars == <<src, srcSeq, epoch, queue, socket, started, meta, stat, lastSsrc,
          reply, callback, seen>>

sourceVars == <<src, srcSeq, epoch>>
countVars == <<stat, seen>>

NoReply == [ssrc |-> -1, subs |-> <<>>]
Silent == [event |-> "none", ssrc |-> 0, sub |-> 0, kind |-> "none"]
Fresh == [frames |-> 0, lost |-> 0, last |-> 0]

Init ==
    /\ src = NoMeta /\ srcSeq = <<>> /\ epoch = 0
    /\ queue = <<>> /\ socket = TRUE /\ started = FALSE
    /\ meta = NoMeta /\ stat = <<>> /\ lastSsrc = 0
    /\ reply = NoReply /\ callback = Silent
    /\ seen = <<>>

-----------------------------------------------------------------------------
(* The source *)

\* The stream has changed and its statistic starts anew.
Changed(m) == m.ssrc # src.ssrc \/ Len(m.subs) # Len(src.subs)

ResetStatistic(n) ==
    /\ epoch < MaxEpoch
    /\ epoch' = epoch + 1
    /\ srcSeq' = [i \in 1..n |-> 0]

\* set_stream_meta
SetStreamMeta(m) ==
    /\ IF Changed(m) THEN ResetStatistic(Len(m.subs))
                     ELSE UNCHANGED <<epoch, srcSeq>>
    /\ src' = m
    /\ UNCHANGED <<queue, socket, started, meta, stat, lastSsrc, reply, callback, seen>>

\* Init of a source, after a restart: no metadata yet.
SourceInit ==
    /\ src # NoMeta
    /\ ResetStatistic(0)
    /\ src' = NoMeta
    /\ UNCHANGED <<queue, socket, started, meta, stat, lastSsrc, reply, callback, seen>>

\* Only frames with media data take a new number.
NextSeq(i, media) == IF media THEN srcSeq[i] + 1 ELSE srcSeq[i]

Frame(i, media) ==
    [ssrc |-> src.ssrc, sub |-> i, kind |-> src.subs[i], media |-> media,
     seq |-> NextSeq(i, media), epoch |-> epoch]

\* Whether a published frame reaches the subscriber's queue.
Published(f, kept) ==
    /\ kept => socket /\ Len(queue) < QueueSize
    /\ queue' = IF kept THEN Append(queue, f) ELSE queue

\* SendLiveMediaFrame with the current ssrc; others are refused.
SendLiveMediaFrame(i, media, kept) ==
    /\ i <= Len(src.subs)
    /\ NextSeq(i, media) <= MaxSeq
    /\ srcSeq' = [srcSeq EXCEPT ![i] = NextSeq(i, media)]
    /\ Published(Frame(i, media), kept)
    /\ UNCHANGED <<src, epoch, socket, started, meta, stat, lastSsrc, reply, callback, seen>>

-----------------------------------------------------------------------------
(* The sink's application *)

\* Start: the current metadata is what frames are first compared with.
Start ==
    /\ ~started
    /\ socket' = TRUE
    /\ lastSsrc' = meta.ssrc
    /\ started' = TRUE
    /\ UNCHANGED <<sourceVars, queue, meta, countVars, reply, callback>>

\* pthread_create fails: the subscriber socket goes with its frames.
StartFails ==
    /\ ~started
    /\ lastSsrc' = meta.ssrc
    /\ socket' = FALSE /\ queue' = <<>>
    /\ UNCHANGED <<sourceVars, started, meta, countVars, reply, callback>>

\* Stop waits for the worker, which may be in a callback, and closes the
\* subscriber socket.
Stop ==
    /\ started /\ callback = Silent
    /\ started' = FALSE
    /\ socket' = FALSE /\ queue' = <<>>
    /\ UNCHANGED <<sourceVars, meta, countVars, lastSsrc, reply, callback>>

DestroySubscriberSocket ==
    /\ ~started
    /\ socket' = FALSE /\ queue' = <<>>
    /\ UNCHANGED <<sourceVars, started, meta, countVars, lastSsrc, reply, callback>>

\* UpdateStreamMetaData: refused once started; the source's MetadataHandler
\* copies its metadata into the reply.
UpdateRequest ==
    /\ ~started /\ reply = NoReply
    /\ Len(meta.subs) + Len(src.subs) <= MaxSubs
    /\ reply' = src
    /\ UNCHANGED <<sourceVars, queue, socket, started, meta, countVars, lastSsrc, callback>>

UpdateFails ==
    /\ reply # NoReply
    /\ reply' = NoReply
    /\ UNCHANGED <<sourceVars, queue, socket, started, meta, countVars, lastSsrc, callback>>

\* The received sub-streams are appended to the ones the sink has.
SubStreams(r) == meta.subs \o r.subs

\* The statistic for a reply with n sub-streams. (Variant: kept.)
StatisticKept(n) == [i \in 1..n |-> IF i \in DOMAIN stat THEN stat[i] ELSE Fresh]
StatisticFor(n) == [i \in 1..n |-> Fresh]

\* The reply is applied under the lock, whether or not the sink has been
\* started meanwhile.
UpdateApply ==
    /\ reply # NoReply
    /\ meta' = [ssrc |-> reply.ssrc, subs |-> SubStreams(reply)]
    /\ stat' = StatisticFor(Len(reply.subs))
    /\ seen' = [i \in 1..Len(reply.subs) |-> {}]
    /\ reply' = NoReply
    /\ UNCHANGED <<sourceVars, queue, socket, started, lastSsrc, callback>>

-----------------------------------------------------------------------------
(* The sink's worker *)

Take ==
    /\ started /\ callback = Silent /\ queue # <<>>
    /\ queue' = Tail(queue)

\* Another stream: ignored, and reported unless it was the last one seen.
FrameMismatch ==
    /\ Take
    /\ Head(queue).ssrc # meta.ssrc
    /\ lastSsrc' = Head(queue).ssrc
    /\ callback' = IF Head(queue).ssrc # lastSsrc
                   THEN [Silent EXCEPT !.event = "mismatch", !.ssrc = Head(queue).ssrc]
                   ELSE Silent
    /\ UNCHANGED <<sourceVars, socket, started, meta, countVars, reply>>

\* A sub-stream the sink's metadata does not have: ignored.
FrameUnknownSub ==
    /\ Take
    /\ Head(queue).ssrc = meta.ssrc /\ Head(queue).sub > Len(meta.subs)
    /\ UNCHANGED <<sourceVars, socket, started, meta, countVars, lastSsrc, reply, callback>>

\* How many frames are missing before one numbered n. (Variant: one too many.)
LostInclusive(s, n) == IF s.last # 0 /\ n > s.last + 1 THEN n - s.last ELSE 0
LostBefore(s, n) == IF s.last # 0 /\ n > s.last + 1 THEN n - (s.last + 1) ELSE 0

Counted(s, n) == [frames |-> s.frames + 1, lost |-> s.lost + LostBefore(s, n), last |-> n]

\* A frame of the stream: counted if it holds media data, and delivered. Its
\* entry of statistic_ may not exist: statistic_ is then written out of
\* bounds, which is left without effect here.
FrameAccepted ==
    /\ Take
    /\ Head(queue).ssrc = meta.ssrc /\ Head(queue).sub <= Len(meta.subs)
    /\ LET f == Head(queue)  i == f.sub IN
       /\ IF f.media /\ i \in DOMAIN stat
          THEN /\ stat' = [stat EXCEPT ![i] = Counted(stat[i], f.seq)]
               /\ seen' = [seen EXCEPT ![i] = seen[i] \cup {<<f.epoch, f.seq>>}]
          ELSE UNCHANGED countVars
       /\ callback' = [event |-> "frame", ssrc |-> f.ssrc, sub |-> i, kind |-> f.kind]
    /\ UNCHANGED <<sourceVars, socket, started, meta, lastSsrc, reply>>

\* The listener returns.
CallbackReturns ==
    /\ callback # Silent
    /\ callback' = Silent
    /\ UNCHANGED <<sourceVars, queue, socket, started, meta, countVars, lastSsrc, reply>>

-----------------------------------------------------------------------------
Source ==
    \/ \E m \in Metas : SetStreamMeta(m)
    \/ SourceInit
    \/ \E i \in 1..Len(src.subs), media, kept \in BOOLEAN :
           SendLiveMediaFrame(i, media, kept)

Worker == FrameMismatch \/ FrameUnknownSub \/ FrameAccepted \/ CallbackReturns

Next ==
    \/ Source \/ Worker
    \/ Start \/ StartFails \/ Stop \/ DestroySubscriberSocket
    \/ UpdateRequest \/ UpdateFails \/ UpdateApply

Spec == Init /\ [][Next]_vars

-----------------------------------------------------------------------------
(* Properties *)

Meta == [ssrc : Nat, subs : Seq(Kinds)]
Frames == [ssrc : Nat, sub : Nat \ {0}, kind : Kinds, media : BOOLEAN, seq : Nat, epoch : Nat]
Counters == [frames : Nat, lost : Nat, last : Nat]

TypeOK ==
    /\ src \in Meta /\ srcSeq \in Seq(Nat) /\ Len(srcSeq) = Len(src.subs)
    /\ epoch \in Nat
    /\ queue \in Seq(Frames) /\ Len(queue) <= QueueSize
    /\ socket \in BOOLEAN /\ started \in BOOLEAN
    /\ meta \in Meta /\ lastSsrc \in Nat
    /\ reply \in Meta \cup {NoReply}
    /\ stat \in Seq(Counters)
    /\ seen \in Seq(SUBSET (Nat \X Nat)) /\ Len(seen) = Len(stat)
    /\ callback.event \in {"none", "frame", "mismatch"}

\* The data frames that were sent between the first and the last one of S and
\* are not in S, as far as later frames show it: S has a later one of the same
\* numbering, and, in the first numbering of S, an earlier one.
EpochsOf(S) == {x[1] : x \in S}
MissingOf(S) ==
    {f \in EpochsOf(S) \X (1..MaxSeq) :
        /\ f \notin S
        /\ \E x \in S : x[1] = f[1] /\ f[2] < x[2]
        /\ (\A x \in S : f[1] <= x[1]) => \E x \in S : x[1] = f[1] /\ x[2] < f[2]}

(***************************************************************************)
(* As long as the source has not restarted its numbering, lost_frames is   *)
(* exactly the number of data frames that went missing between the first   *)
(* and the last one received, whatever was dropped by full queues, by      *)
(* Stop, or sent as frames without media data in between.                  *)
(***************************************************************************)
LossExact ==
    \A i \in DOMAIN stat :
        Cardinality(EpochsOf(seen[i])) = 1 => stat[i].lost = Cardinality(MissingOf(seen[i]))

(***************************************************************************)
(* lost_frames never counts a frame that was not lost, even when the       *)
(* source changes its metadata, restarts, or comes back with an earlier    *)
(* ssrc while the sink keeps its statistic, and when old frames are still  *)
(* queued at a metadata update.                                            *)
(***************************************************************************)
NoOverCount ==
    \A i \in DOMAIN stat : stat[i].lost <= Cardinality(MissingOf(seen[i]))

-----------------------------------------------------------------------------
(* The inductive invariant of the counters *)

\* Data frames are told apart by the source's statistic and the number in it,
\* and ordered by them.
Stamp(f) == <<f.epoch, f.seq>>
Before(x, y) == x[1] < y[1] \/ (x[1] = y[1] /\ x[2] < y[2])

\* Frame x of sub-stream i was sent by a source at numbering e and, in it, at
\* the numbers seqs.
Sent(e, seqs, i, x) ==
    /\ x[2] \in 1..MaxSeq /\ x[1] <= e
    /\ x[1] = e => i \in DOMAIN seqs /\ x[2] <= seqs[i]

SourceInv == \A i \in DOMAIN srcSeq : srcSeq[i] <= MaxSeq

\* The queue holds sent frames, in the order in which they were sent.
QueueInv ==
    /\ \A k \in DOMAIN queue :
           queue[k].media => Sent(epoch, srcSeq, queue[k].sub, Stamp(queue[k]))
    /\ \A j, k \in DOMAIN queue :
           j < k /\ queue[j].media /\ queue[k].media /\ queue[j].sub = queue[k].sub =>
               Before(Stamp(queue[j]), Stamp(queue[k]))

\* What an entry has counted was sent before all that is queued for it.
SeenInv ==
    \A i \in DOMAIN stat : \A x \in seen[i] :
        /\ Sent(epoch, srcSeq, i, x)
        /\ \A k \in DOMAIN queue :
               queue[k].media /\ queue[k].sub = i => Before(x, Stamp(queue[k]))

\* last_seq is the number of the latest frame counted.
LastOf(S, s) ==
    IF S = {} THEN s.last = 0 /\ s.lost = 0
    ELSE \E x \in S : x[2] = s.last /\ \A y \in S : y = x \/ Before(y, x)
LastInv == \A i \in DOMAIN stat : LastOf(seen[i], stat[i])

\* lost_frames, compared with the frames that are really missing.
LossOf(S, s) ==
    /\ s.lost <= Cardinality(MissingOf(S))
    /\ (\A x, y \in S : x[1] = y[1]) => s.lost = Cardinality(MissingOf(S))
LossInv == \A i \in DOMAIN stat : LossOf(seen[i], stat[i])

CountInv == SourceInv /\ QueueInv /\ SeenInv /\ LastInv /\ LossInv
=============================================================================
