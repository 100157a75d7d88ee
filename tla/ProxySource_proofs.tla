------------------------- MODULE ProxySource_proofs -------------------------
(***************************************************************************)
(* The flow of metadata and frames (MediaFlow) and the proxy source, for   *)
(* every set of metadata, queue length, number of restarts and time limit. *)
(*                                                                         *)
(* CountInv is inductive with the types. The queue keeps the order of      *)
(* the source's numbers (QueueInv), and every entry of the sink's          *)
(* statistic has counted frames sent before all that is queued for it      *)
(* (SeenInv); so a counted frame is the latest one, last_seq is the number *)
(* before it, and the numbers in between are exactly the frames that went  *)
(* missing (MissingSame, CountOne).                                        *)
(*                                                                         *)
(* The proxy's steps are steps of the flow (ProxyFlow), so all this holds  *)
(* of its sink as well. ProxyInv is inductive: the flags of Hearbeat and   *)
(* the sink's last_frame_ssrc_ (ReportInv) are needed for                  *)
(* MismatchRemembered, the phases of the main thread (PhaseInv) for        *)
(* AgreeInv, which gives NoFrameRejected.                                  *)
(***************************************************************************)
EXTENDS ProxySource, SequenceTheorems, FiniteSetTheorems, TLAPS

-----------------------------------------------------------------------------
(* The flow: type correctness *)

\* A table with one entry per sub-stream is a sequence.
LEMMA TableIsSeq ==
    ASSUME NEW S, NEW n \in Nat, NEW x \in S
    PROVE  [i \in 1..n |-> x] \in Seq(S) /\ Len([i \in 1..n |-> x]) = n
  OBVIOUS

LEMMA Limits == QueueSize \in Nat /\ MaxSeq \in Nat /\ MaxEpoch \in Nat /\ MaxSubs \in Nat
  BY FlowAssumption

LEMMA NoMetaType == NoMeta \in Meta /\ Len(NoMeta.subs) = 0
  BY DEF NoMeta, Meta

LEMMA MetasType == ASSUME NEW m \in Metas PROVE m \in Meta /\ Len(m.subs) \in Nat
  BY FlowAssumption DEF Meta

LEMMA FlowInit == Init => TypeOK
<1> SUFFICES ASSUME Init PROVE TypeOK
  OBVIOUS
<1>1. /\ src \in Meta /\ meta \in Meta /\ Len(src.subs) = 0
      /\ epoch \in Nat /\ lastSsrc \in Nat
  BY NoMetaType DEF Init
<1>2. /\ srcSeq \in Seq(Nat) /\ Len(srcSeq) = 0
      /\ queue \in Seq(Frames) /\ Len(queue) = 0
      /\ stat \in Seq(Counters) /\ Len(stat) = 0
  BY EmptySeq DEF Init
<1>3. seen \in Seq(SUBSET (Nat \X Nat)) /\ Len(seen) = 0
  BY EmptySeq DEF Init
<1>4. socket \in BOOLEAN /\ started \in BOOLEAN /\ reply \in Meta \cup {NoReply}
  BY DEF Init
<1>5. callback.event \in {"none", "frame", "mismatch"}
  BY DEF Init, Silent
<1>6. QED
  BY <1>1, <1>2, <1>3, <1>4, <1>5, Limits DEF TypeOK

\* The source's side.
LEMMA SourceTypes == ASSUME TypeOK, Source PROVE TypeOK'
<1>1. ASSUME NEW m \in Metas, SetStreamMeta(m) PROVE TypeOK'
  <2>1. /\ src' \in Meta /\ epoch' \in Nat
        /\ srcSeq' \in Seq(Nat) /\ Len(srcSeq') = Len(src'.subs)
    <3>1. CASE Changed(m)
      BY <1>1, <3>1, MetasType, TableIsSeq DEF SetStreamMeta, ResetStatistic, TypeOK
    <3>2. CASE ~Changed(m)
      BY <1>1, <3>2, MetasType DEF SetStreamMeta, Changed, TypeOK
    <3>3. QED
      BY <3>1, <3>2
  <2>2. QED
    BY <1>1, <2>1 DEF SetStreamMeta, TypeOK
<1>2. CASE SourceInit
  <2>1. /\ src' \in Meta /\ epoch' \in Nat
        /\ srcSeq' \in Seq(Nat) /\ Len(srcSeq') = Len(src'.subs)
    BY <1>2, NoMetaType, TableIsSeq DEF SourceInit, ResetStatistic, TypeOK
  <2>2. QED
    BY <1>2, <2>1 DEF SourceInit, TypeOK
<1>3. ASSUME NEW i \in 1..Len(src.subs), NEW media \in BOOLEAN, NEW kept \in BOOLEAN,
             SendLiveMediaFrame(i, media, kept)
      PROVE  TypeOK'
  <2>1. i \in 1..Len(srcSeq) /\ srcSeq[i] \in Nat /\ NextSeq(i, media) \in Nat
    BY DEF TypeOK, NextSeq
  <2>2. srcSeq' \in Seq(Nat) /\ Len(srcSeq') = Len(srcSeq)
    BY <1>3, <2>1, ExceptSeq DEF SendLiveMediaFrame, TypeOK
  <2>3. Frame(i, media) \in Frames
    <3>1. src.ssrc \in Nat /\ src.subs[i] \in Kinds /\ epoch \in Nat /\ i \in Nat \ {0}
      BY DEF TypeOK, Meta
    <3>2. QED
      BY <2>1, <3>1 DEF Frame, Frames
  <2>4. queue' \in Seq(Frames) /\ Len(queue') <= QueueSize
    <3>1. CASE kept
      BY <1>3, <2>3, <3>1, AppendProperties, Limits
         DEF SendLiveMediaFrame, Published, TypeOK
    <3>2. CASE ~kept
      BY <1>3, <3>2 DEF SendLiveMediaFrame, Published, TypeOK
    <3>3. QED
      BY <3>1, <3>2
  <2>5. QED
    BY <1>3, <2>2, <2>4 DEF SendLiveMediaFrame, TypeOK
<1>4. QED
  BY <1>1, <1>2, <1>3 DEF Source

\* The sink's application.
LEMMA SinkTypes ==
    ASSUME TypeOK,
           Start \/ StartFails \/ Stop \/ DestroySubscriberSocket
           \/ UpdateRequest \/ UpdateFails \/ UpdateApply
    PROVE  TypeOK'
<1>1. CASE Start \/ StartFails \/ Stop \/ DestroySubscriberSocket
  <2>1. meta.ssrc \in Nat /\ <<>> \in Seq(Frames) /\ Len(<<>>) <= QueueSize
    BY EmptySeq, Limits DEF TypeOK, Meta
  <2>2. QED
    BY <1>1, <2>1 DEF Start, StartFails, Stop, DestroySubscriberSocket,
                      TypeOK, sourceVars, countVars
<1>2. CASE UpdateRequest \/ UpdateFails
  BY <1>2 DEF UpdateRequest, UpdateFails, TypeOK, sourceVars, countVars
<1>3. CASE UpdateApply
  <2>1. reply \in Meta
    BY <1>3 DEF UpdateApply, TypeOK
  <2>2. reply.ssrc \in Nat /\ Len(reply.subs) \in Nat /\ SubStreams(reply) \in Seq(Kinds)
    BY <2>1, ConcatProperties DEF SubStreams, Meta, TypeOK
  <2>3. meta' \in Meta
    BY <1>3, <2>2 DEF UpdateApply, Meta
  <2>4. stat' \in Seq(Counters) /\ Len(stat') = Len(reply.subs)
    <3>1. Fresh \in Counters
      BY DEF Fresh, Counters
    <3>2. QED
      BY <1>3, <2>2, <3>1, TableIsSeq DEF UpdateApply, StatisticFor
  <2>5. seen' \in Seq(SUBSET (Nat \X Nat)) /\ Len(seen') = Len(reply.subs)
    <3>1. {} \in SUBSET (Nat \X Nat)
      OBVIOUS
    <3>2. QED
      BY <1>3, <2>2, <3>1, TableIsSeq DEF UpdateApply
  <2>6. QED
    BY <1>3, <2>3, <2>4, <2>5 DEF UpdateApply, TypeOK, sourceVars
<1>4. QED
  BY <1>1, <1>2, <1>3

\* The sink's worker.
LEMMA WorkerTypes == ASSUME TypeOK, Worker PROVE TypeOK'
<1>1. ASSUME Take
      PROVE  queue' \in Seq(Frames) /\ Len(queue') <= QueueSize /\ Head(queue) \in Frames
  BY <1>1, HeadTailProperties, Limits DEF Take, TypeOK
<1>2. CASE FrameMismatch
  <2>1. Head(queue).ssrc \in Nat
    BY <1>1, <1>2 DEF FrameMismatch, Frames
  <2>2. callback'.event \in {"none", "frame", "mismatch"}
    BY <1>2 DEF FrameMismatch, Silent
  <2>3. QED
    BY <1>1, <1>2, <2>1, <2>2 DEF FrameMismatch, TypeOK, sourceVars, countVars
<1>3. CASE FrameUnknownSub
  BY <1>1, <1>3 DEF FrameUnknownSub, TypeOK, sourceVars, countVars
<1>4. CASE FrameAccepted
  <2> DEFINE f == Head(queue)
  <2>1. f \in Frames
    BY <1>1, <1>4 DEF FrameAccepted
  <2>2. f.seq \in Nat /\ f.epoch \in Nat /\ f.sub \in Nat
    BY <2>1 DEF Frames
  <2>3. callback'.event = "frame"
    BY <1>4 DEF FrameAccepted
  <2>4. /\ stat' \in Seq(Counters)
        /\ seen' \in Seq(SUBSET (Nat \X Nat)) /\ Len(seen') = Len(stat')
    <3>1. CASE f.media /\ f.sub \in DOMAIN stat
      <4>1. f.sub \in 1..Len(stat) /\ f.sub \in 1..Len(seen)
        BY <3>1 DEF TypeOK
      <4>2. stat[f.sub] \in Counters /\ seen[f.sub] \in SUBSET (Nat \X Nat)
        BY <4>1, ElementOfSeq DEF TypeOK
      <4>3. Counted(stat[f.sub], f.seq) \in Counters
        BY <2>2, <4>2 DEF Counted, LostBefore, Counters
      <4>4. seen[f.sub] \cup {<<f.epoch, f.seq>>} \in SUBSET (Nat \X Nat)
        BY <2>2, <4>2
      <4>5. /\ stat' = [stat EXCEPT ![f.sub] = Counted(stat[f.sub], f.seq)]
            /\ seen' = [seen EXCEPT ![f.sub] = seen[f.sub] \cup {<<f.epoch, f.seq>>}]
        BY <1>4, <3>1 DEF FrameAccepted
      <4>6. stat' \in Seq(Counters) /\ Len(stat') = Len(stat)
        BY <4>1, <4>3, <4>5, ExceptSeq DEF TypeOK
      <4>7. seen' \in Seq(SUBSET (Nat \X Nat)) /\ Len(seen') = Len(seen)
        BY <4>1, <4>4, <4>5, ExceptSeq DEF TypeOK
      <4>8. QED
        BY <4>6, <4>7 DEF TypeOK
    <3>2. CASE ~(f.media /\ f.sub \in DOMAIN stat)
      BY <1>4, <3>2 DEF FrameAccepted, countVars, TypeOK
    <3>3. QED
      BY <3>1, <3>2
  <2>5. QED
    BY <1>1, <1>4, <2>3, <2>4 DEF FrameAccepted, TypeOK, sourceVars
<1>5. CASE CallbackReturns
  BY <1>5 DEF CallbackReturns, Silent, TypeOK, sourceVars, countVars
<1>6. QED
  BY <1>2, <1>3, <1>4, <1>5 DEF Worker

\* The source's statistic always fits its metadata, the sink's counters are
\* natural numbers and the queue keeps its limit, whatever the two
\* applications do.
THEOREM FlowTypeCorrect == Spec => []TypeOK
<1>1. TypeOK /\ [Next]_vars => TypeOK'
  <2> SUFFICES ASSUME TypeOK, [Next]_vars PROVE TypeOK'
    OBVIOUS
  <2>1. CASE Next
    BY <2>1, SourceTypes, SinkTypes, WorkerTypes DEF Next
  <2>2. CASE UNCHANGED vars
    BY <2>2 DEF vars, TypeOK
  <2>3. QED
    BY <2>1, <2>2
<1>2. QED
  BY FlowInit, <1>1, PTL DEF Spec

-----------------------------------------------------------------------------
(* The frames that are missing *)

\* Frame b of numbering a is missing from S.
First(S, a) == \A c, m \in Nat : <<c, m>> \in S => a <= c
HasEarlier(S, a, b) == \E m \in Nat : <<a, m>> \in S /\ m < b
HasLater(S, a, b) == \E m \in Nat : <<a, m>> \in S /\ b < m
Lacks(S, a, b) ==
    /\ b \in 1..MaxSeq /\ <<a, b>> \notin S
    /\ HasLater(S, a, b)
    /\ First(S, a) => HasEarlier(S, a, b)

\* MissingOf, by its elements.
LEMMA MissingIs ==
    ASSUME NEW S \in SUBSET (Nat \X Nat), NEW a \in Nat, NEW b \in Nat
    PROVE  <<a, b>> \in MissingOf(S) <=> Lacks(S, a, b)
<1>1. \A x \in S : x[1] \in Nat /\ x[2] \in Nat /\ x = <<x[1], x[2]>>
  OBVIOUS
<1>2. (\E x \in S : x[1] = a /\ b < x[2]) <=> HasLater(S, a, b)
  BY <1>1 DEF HasLater
<1>3. (\E x \in S : x[1] = a /\ x[2] < b) <=> HasEarlier(S, a, b)
  BY <1>1 DEF HasEarlier
<1>4. (\A x \in S : a <= x[1]) <=> First(S, a)
  BY <1>1 DEF First
<1>5. HasLater(S, a, b) => a \in EpochsOf(S)
  BY DEF EpochsOf, HasLater
<1>6. <<a, b>> \in MissingOf(S) <=>
          /\ a \in EpochsOf(S) /\ b \in 1..MaxSeq /\ <<a, b>> \notin S
          /\ \E x \in S : x[1] = a /\ b < x[2]
          /\ (\A x \in S : a <= x[1]) => \E x \in S : x[1] = a /\ x[2] < b
  BY DEF MissingOf
<1>7. QED
  BY <1>2, <1>3, <1>4, <1>5, <1>6 DEF Lacks

LEMMA MissingPairs ==
    ASSUME NEW S \in SUBSET (Nat \X Nat), NEW f \in MissingOf(S)
    PROVE  f \in Nat \X Nat
<1>1. f \in EpochsOf(S) \X (1..MaxSeq)
  BY DEF MissingOf
<1>2. EpochsOf(S) \subseteq Nat
  BY DEF EpochsOf
<1>3. 1..MaxSeq \subseteq Nat
  BY Limits
<1>4. QED
  BY <1>1, <1>2, <1>3

LEMMA MissingFinite ==
    ASSUME NEW S \in SUBSET (Nat \X Nat), NEW n \in Nat, \A x \in S : x[1] <= n
    PROVE  /\ IsFiniteSet(EpochsOf(S))
           /\ IsFiniteSet(MissingOf(S)) /\ Cardinality(MissingOf(S)) \in Nat
<1>1. EpochsOf(S) \in SUBSET (0..n)
  BY DEF EpochsOf
<1>2. IsFiniteSet(0..n) /\ IsFiniteSet(1..MaxSeq)
  BY FS_Interval, Limits
<1>3. IsFiniteSet(EpochsOf(S))
  BY <1>1, <1>2, FS_Subset
<1>4. IsFiniteSet(EpochsOf(S) \X (1..MaxSeq))
  BY <1>2, <1>3, FS_Product
<1>5. MissingOf(S) \in SUBSET (EpochsOf(S) \X (1..MaxSeq))
  BY DEF MissingOf
<1>6. IsFiniteSet(MissingOf(S))
  BY <1>4, <1>5, FS_Subset
<1>7. QED
  BY <1>3, <1>6, FS_CardinalityType

\* A gap in one numbering.
LEMMA GapSize ==
    ASSUME NEW e, NEW a \in Nat, NEW b \in Int, a <= b + 1
    PROVE  IsFiniteSet({e} \X (a..b)) /\ Cardinality({e} \X (a..b)) = b - a + 1
<1>1. IsFiniteSet(a..b) /\ Cardinality(a..b) = b - a + 1
  BY FS_Interval
<1>2. IsFiniteSet({e}) /\ Cardinality({e}) = 1
  BY FS_Singleton
<1>3. /\ IsFiniteSet({e} \X (a..b))
      /\ Cardinality({e} \X (a..b)) = Cardinality({e}) * Cardinality(a..b)
  BY <1>1, <1>2, FS_Product
<1>4. QED
  BY <1>1, <1>2, <1>3

LEMMA IntervalNat == ASSUME NEW a \in Nat, NEW b \in Int PROVE a..b \subseteq Nat
  OBVIOUS

\* The first frame counted: nothing is missing yet.
LEMMA MissingFirst ==
    ASSUME NEW e \in Nat, NEW n \in Nat
    PROVE  MissingOf({<<e, n>>}) = {}
<1> DEFINE S == {<<e, n>>}
<1>1. S \in SUBSET (Nat \X Nat)
  OBVIOUS
<1>2. ASSUME NEW a \in Nat, NEW b \in Nat PROVE <<a, b>> \notin MissingOf(S)
  <2>1. \A c, m \in Nat : <<c, m>> \in S <=> c = e /\ m = n
    OBVIOUS
  <2> HIDE DEF S
  <2>2. ~(HasLater(S, a, b) /\ HasEarlier(S, a, b))
    <3>1. HasLater(S, a, b) => b < n
      BY <2>1 DEF HasLater
    <3>2. HasEarlier(S, a, b) => n < b
      BY <2>1 DEF HasEarlier
    <3>3. QED
      BY <3>1, <3>2
  <2>3. HasLater(S, a, b) => First(S, a)
    BY <2>1 DEF HasLater, First
  <2>4. <<a, b>> \in MissingOf(S) <=> Lacks(S, a, b)
    BY <1>1, MissingIs
  <2>5. QED
    BY <2>2, <2>3, <2>4 DEF Lacks
<1>3. QED
  <2> HIDE DEF S
  <2>1. MissingOf(S) = {}
    BY <1>1, <1>2, MissingPairs
  <2>2. QED
    BY <2>1 DEF S

\* A later frame of the latest numbering: what lies in between is missing too.
LEMMA MissingSame ==
    ASSUME NEW S \in SUBSET (Nat \X Nat), NEW e \in Nat, NEW l \in Nat, NEW n \in 1..MaxSeq,
           <<e, l>> \in S, l < n,
           \A a, b \in Nat : <<a, b>> \in S => a < e \/ (a = e /\ b <= l)
    PROVE  /\ MissingOf(S \cup {<<e, n>>}) = MissingOf(S) \cup ({e} \X (l + 1 .. n - 1))
           /\ MissingOf(S) \cap ({e} \X (l + 1 .. n - 1)) = {}
<1> DEFINE T == S \cup {<<e, n>>}
           gap == {e} \X (l + 1 .. n - 1)
<1>0. n \in Nat /\ n <= MaxSeq /\ MaxSeq \in Nat /\ T \in SUBSET (Nat \X Nat)
  BY Limits
<1>1. \A a, b \in Nat : <<a, b>> \in T <=> <<a, b>> \in S \/ (a = e /\ b = n)
  OBVIOUS
<1>2. \A a, b \in Nat : <<a, b>> \in gap <=> a = e /\ l < b /\ b < n
  <2>1. \A b \in Nat : b \in (l + 1 .. n - 1) <=> l < b /\ b < n
    BY <1>0
  <2>2. QED
    BY <2>1
<1>3. gap \subseteq Nat \X Nat
  BY <1>0, IntervalNat
<1> HIDE DEF T, gap
<1>4. ASSUME NEW a \in Nat, NEW b \in Nat
      PROVE  /\ <<a, b>> \in MissingOf(T) <=> <<a, b>> \in MissingOf(S) \/ <<a, b>> \in gap
             /\ ~(<<a, b>> \in MissingOf(S) /\ <<a, b>> \in gap)
  <2>0. /\ <<a, b>> \in MissingOf(T) <=> Lacks(T, a, b)
        /\ <<a, b>> \in MissingOf(S) <=> Lacks(S, a, b)
    BY <1>0, MissingIs
  <2>1. First(T, a) <=> First(S, a)
    BY <1>0, <1>1 DEF First
  <2>2. CASE a # e
    <3>1. \A m \in Nat : <<a, m>> \in T <=> <<a, m>> \in S
      BY <1>1, <2>2
    <3>2. /\ HasLater(T, a, b) <=> HasLater(S, a, b)
          /\ HasEarlier(T, a, b) <=> HasEarlier(S, a, b)
      BY <3>1 DEF HasLater, HasEarlier
    <3>3. QED
      BY <1>2, <2>0, <2>1, <2>2, <3>1, <3>2 DEF Lacks
  <2>3. CASE a = e
    <3>1. HasLater(T, a, b) <=> b < n
      <4>1. <<e, n>> \in T /\ \A m \in Nat : <<e, m>> \in T => m <= n
        BY <1>0, <1>1
      <4>2. QED
        <5>1. ASSUME NEW m \in Nat, <<e, m>> \in T, b < m PROVE b < n
          BY <1>0, <4>1, <5>1
        <5>2. QED
          BY <1>0, <2>3, <4>1, <5>1 DEF HasLater
    <3>2. HasLater(S, a, b) <=> b < l
      <4>1. \A m \in Nat : <<e, m>> \in S => m <= l
        OBVIOUS
      <4>2. QED
        <5>1. ASSUME NEW m \in Nat, <<e, m>> \in S, b < m PROVE b < l
          BY <4>1, <5>1
        <5>2. QED
          BY <2>3, <5>1 DEF HasLater
    <3>3. CASE b <= l
      <4>1. HasEarlier(T, a, b) <=> HasEarlier(S, a, b)
        BY <1>0, <1>1, <3>3 DEF HasEarlier
      <4>2. <<a, b>> \in T <=> <<a, b>> \in S
        BY <1>0, <1>1, <3>3
      <4>3. b = l => <<a, b>> \in S
        BY <2>3
      <4>4. b < n /\ (b # l => b < l)
        BY <1>0, <3>3
      <4>5. Lacks(T, a, b) <=> Lacks(S, a, b)
        BY <2>1, <3>1, <3>2, <4>1, <4>2, <4>3, <4>4 DEF Lacks
      <4>6. QED
        BY <1>2, <2>0, <3>3, <4>5
    <3>4. CASE l < b
      <4>1. ~Lacks(S, a, b)
        BY <3>2, <3>4 DEF Lacks
      <4>2. HasEarlier(T, a, b)
        BY <1>1, <2>3, <3>4 DEF HasEarlier
      <4>3. <<a, b>> \in T <=> b = n
        BY <1>1, <2>3, <3>4
      <4>4. b < n => b \in 1..MaxSeq
        BY <1>0, <3>4
      <4>5. Lacks(T, a, b) <=> b < n
        BY <1>0, <3>1, <4>2, <4>3, <4>4 DEF Lacks
      <4>6. QED
        BY <1>2, <2>0, <2>3, <3>4, <4>1, <4>5
    <3>5. QED
      BY <3>3, <3>4
  <2>4. QED
    BY <2>2, <2>3
<1>5. MissingOf(T) = MissingOf(S) \cup gap
  <2>1. MissingOf(T) \subseteq Nat \X Nat /\ MissingOf(S) \subseteq Nat \X Nat
    BY <1>0, MissingPairs
  <2>2. \A f \in Nat \X Nat : f \in MissingOf(T) <=> f \in MissingOf(S) \/ f \in gap
    BY <1>4
  <2>3. QED
    BY <1>3, <2>1, <2>2
<1>6. MissingOf(S) \cap gap = {}
  <2>1. \A f \in Nat \X Nat : ~(f \in MissingOf(S) /\ f \in gap)
    BY <1>4
  <2>2. QED
    BY <1>3, <2>1
<1>7. QED
  BY <1>5, <1>6 DEF T, gap

\* The first frame of a later numbering: its earlier frames are missing.
LEMMA MissingNew ==
    ASSUME NEW S \in SUBSET (Nat \X Nat), S # {}, NEW e \in Nat, NEW n \in 1..MaxSeq,
           \A a, b \in Nat : <<a, b>> \in S => a < e
    PROVE  /\ MissingOf(S) \cup ({e} \X (1 .. n - 1)) \subseteq MissingOf(S \cup {<<e, n>>})
           /\ MissingOf(S) \cap ({e} \X (1 .. n - 1)) = {}
<1> DEFINE T == S \cup {<<e, n>>}
           gap == {e} \X (1 .. n - 1)
<1>0. n \in Nat /\ n <= MaxSeq /\ MaxSeq \in Nat /\ T \in SUBSET (Nat \X Nat)
  BY Limits
<1>1. \A a, b \in Nat : <<a, b>> \in T <=> <<a, b>> \in S \/ (a = e /\ b = n)
  OBVIOUS
<1>2. \A a, b \in Nat : <<a, b>> \in gap <=> a = e /\ 0 < b /\ b < n
  <2>1. \A b \in Nat : b \in (1 .. n - 1) <=> 0 < b /\ b < n
    BY <1>0
  <2>2. QED
    BY <2>1
<1>3. gap \subseteq Nat \X Nat
  BY <1>0, IntervalNat
<1>4. PICK c0 \in Nat, m0 \in Nat : <<c0, m0>> \in S
  OBVIOUS
<1> HIDE DEF T, gap
<1>5. ASSUME NEW a \in Nat, NEW b \in Nat
      PROVE  /\ <<a, b>> \in MissingOf(S) \/ <<a, b>> \in gap => <<a, b>> \in MissingOf(T)
             /\ ~(<<a, b>> \in MissingOf(S) /\ <<a, b>> \in gap)
  <2>0. /\ <<a, b>> \in MissingOf(T) <=> Lacks(T, a, b)
        /\ <<a, b>> \in MissingOf(S) <=> Lacks(S, a, b)
    BY <1>0, MissingIs
  <2>1. CASE a = e
    <3>1. ~Lacks(S, a, b)
      <4>1. \A m \in Nat : <<e, m>> \notin S
        OBVIOUS
      <4>2. QED
        BY <2>1, <4>1 DEF Lacks, HasLater
    <3>2. ~First(T, a)
      BY <1>1, <1>4, <2>1 DEF First
    <3>3. b < n => HasLater(T, a, b)
      BY <1>0, <1>1, <2>1 DEF HasLater
    <3>4. b < n => <<a, b>> \notin T
      BY <1>0, <1>1, <2>1
    <3>5. b < n /\ 0 < b => b \in 1..MaxSeq
      BY <1>0
    <3>6. b < n /\ 0 < b => Lacks(T, a, b)
      BY <3>2, <3>3, <3>4, <3>5 DEF Lacks
    <3>7. QED
      BY <1>2, <2>0, <2>1, <3>1, <3>6
  <2>2. CASE a # e
    <3>1. \A m \in Nat : <<a, m>> \in T <=> <<a, m>> \in S
      BY <1>1, <2>2
    <3>2. First(T, a) => First(S, a)
      BY <1>1 DEF First
    <3>3. /\ HasLater(T, a, b) <=> HasLater(S, a, b)
          /\ HasEarlier(T, a, b) <=> HasEarlier(S, a, b)
      BY <3>1 DEF HasLater, HasEarlier
    <3>4. QED
      BY <1>2, <2>0, <2>2, <3>1, <3>2, <3>3 DEF Lacks
  <2>3. QED
    BY <2>1, <2>2
<1>6. MissingOf(S) \cup gap \subseteq MissingOf(T)
  <2>1. MissingOf(S) \subseteq Nat \X Nat
    BY MissingPairs
  <2>2. \A f \in Nat \X Nat : f \in MissingOf(S) \/ f \in gap => f \in MissingOf(T)
    BY <1>5
  <2>3. QED
    BY <1>3, <2>1, <2>2
<1>7. MissingOf(S) \cap gap = {}
  <2>1. \A f \in Nat \X Nat : ~(f \in MissingOf(S) /\ f \in gap)
    BY <1>5
  <2>2. QED
    BY <1>3, <2>1
<1>8. QED
  BY <1>6, <1>7 DEF T, gap

\* Nothing has been counted, and nothing is missing.
LEMMA MissingNone == MissingOf({}) = {} /\ Cardinality(MissingOf({})) = 0
<1>1. MissingOf({}) = {}
  BY DEF MissingOf
<1>2. QED
  BY <1>1, FS_EmptySet

-----------------------------------------------------------------------------
(* The counters *)

\* Counting a frame that follows all the counted ones.
LEMMA CountOne ==
    ASSUME NEW S \in SUBSET (Nat \X Nat), NEW s \in Counters,
           NEW e \in Nat, NEW n \in 1..MaxSeq,
           \A x \in S : x[2] \in 1..MaxSeq /\ Before(x, <<e, n>>),
           LastOf(S, s), LossOf(S, s)
    PROVE  /\ LastOf(S \cup {<<e, n>>}, Counted(s, n))
           /\ LossOf(S \cup {<<e, n>>}, Counted(s, n))
<1> DEFINE z == <<e, n>>
           T == S \cup {z}
           c == Counted(s, n)
<1>0. /\ n \in Nat /\ n > 0 /\ T \in SUBSET (Nat \X Nat) /\ z[1] = e /\ z[2] = n
      /\ s.lost \in Nat /\ s.last \in Nat
      /\ c.last = n /\ c.lost = s.lost + LostBefore(s, n)
  BY Limits DEF Counters, Counted
<1>1. \A x \in S : x[1] \in Nat /\ x[2] \in Nat /\ x[2] > 0 /\ Before(x, z) /\ x[1] <= e
  <2>1. \A x \in S : x[1] \in Nat /\ x[2] \in Nat /\ x[2] > 0
    BY Limits
  <2>2. QED
    BY <2>1 DEF Before
<1>2. LastOf(T, c)
  BY <1>0, <1>1 DEF LastOf
<1>3. /\ IsFiniteSet(MissingOf(S)) /\ Cardinality(MissingOf(S)) \in Nat
      /\ IsFiniteSet(MissingOf(T)) /\ Cardinality(MissingOf(T)) \in Nat
  <2>1. \A x \in T : x[1] <= e
    BY <1>0, <1>1
  <2> HIDE DEF T, z
  <2>2. QED
    BY <1>0, <1>1, <2>1, MissingFinite
<1>4. CASE S = {}
  <2>1. s.last = 0 /\ s.lost = 0
    BY <1>4 DEF LastOf
  <2>2. c.lost = 0
    BY <1>0, <2>1 DEF LostBefore
  <2>3. MissingOf(T) = {}
    <3>1. T = {<<e, n>>}
      BY <1>4
    <3>2. QED
      BY <1>0, <3>1, MissingFirst
  <2>4. Cardinality(MissingOf(T)) = 0
    BY <2>3, FS_EmptySet
  <2>5. QED
    BY <1>2, <2>2, <2>4 DEF LossOf
<1>5. CASE S # {}
  <2>1. PICK x \in S : x[2] = s.last /\ \A y \in S : y = x \/ Before(y, x)
    BY <1>5 DEF LastOf
  <2> DEFINE a == x[1]
             l == s.last
  <2>2. a \in Nat /\ l \in Nat /\ l > 0 /\ x = <<a, l>> /\ a <= e
    <3>1. x = <<x[1], x[2]>>
      OBVIOUS
    <3>2. QED
      BY <1>1, <2>1, <3>1
  <2>3. \A b, m \in Nat : <<b, m>> \in S => b < a \/ (b = a /\ m <= l)
    <3>1. ASSUME NEW b \in Nat, NEW m \in Nat, <<b, m>> \in S PROVE b < a \/ (b = a /\ m <= l)
      <4>1. <<b, m>> = x \/ Before(<<b, m>>, x)
        BY <2>1, <3>1
      <4>2. QED
        BY <2>2, <4>1 DEF Before
    <3>2. QED
      BY <3>1
  <2>4. CASE a = e
    <3>1. l < n
      BY <1>0, <1>1, <2>2, <2>4 DEF Before
    <3> DEFINE gap == {e} \X (l + 1 .. n - 1)
    <3>2. /\ MissingOf(S \cup {<<e, n>>}) = MissingOf(S) \cup gap
          /\ MissingOf(S) \cap gap = {}
      <4>1. <<e, l>> \in S /\ \A b, m \in Nat : <<b, m>> \in S => b < e \/ (b = e /\ m <= l)
        BY <2>2, <2>3, <2>4
      <4> HIDE DEF l
      <4>2. l \in Nat
        BY <2>2
      <4>3. QED
        BY <3>1, <4>1, <4>2, MissingSame
    <3>3. IsFiniteSet(gap) /\ Cardinality(gap) = n - l - 1
      <4>1. /\ l + 1 \in Nat /\ n - 1 \in Int
            /\ l + 1 <= (n - 1) + 1 /\ (n - 1) - (l + 1) + 1 = n - l - 1
        BY <1>0, <2>2, <3>1
      <4>2. IsFiniteSet(gap) /\ Cardinality(gap) = (n - 1) - (l + 1) + 1
        BY <4>1, GapSize
      <4>3. QED
        BY <4>1, <4>2
    <3> HIDE DEF gap
    <3>4. Cardinality(MissingOf(T)) = Cardinality(MissingOf(S)) + (n - l - 1)
      <4>1. Cardinality(MissingOf(S) \cup gap) =
                Cardinality(MissingOf(S)) + Cardinality(gap) - Cardinality(MissingOf(S) \cap gap)
        BY <1>3, <3>3, FS_Union
      <4>2. Cardinality(MissingOf(S) \cap gap) = 0
        BY <3>2, FS_EmptySet
      <4>3. MissingOf(T) = MissingOf(S) \cup gap
        BY <3>2
      <4> HIDE DEF T, l
      <4>4. QED
        BY <1>0, <1>3, <2>2, <3>3, <4>1, <4>2, <4>3
    <3>5. c.lost = s.lost + (n - l - 1)
      BY <1>0, <2>2, <3>1 DEF LostBefore
    <3>6. (\A y, w \in T : y[1] = w[1]) => s.lost = Cardinality(MissingOf(S))
      <4>1. (\A y, w \in T : y[1] = w[1]) => (\A y, w \in S : y[1] = w[1])
        OBVIOUS
      <4>2. QED
        BY <4>1 DEF LossOf
    <3>7. s.lost <= Cardinality(MissingOf(S))
      BY DEF LossOf
    <3>8. LossOf(T, c)
      <4> HIDE DEF T, c, l
      <4>1. c.lost <= Cardinality(MissingOf(T))
        BY <1>0, <1>3, <2>2, <3>4, <3>5, <3>7
      <4>2. QED
        BY <3>4, <3>5, <3>6, <4>1 DEF LossOf
    <3>9. QED
      BY <1>2, <3>8
  <2>5. CASE a < e
    <3> DEFINE gap == {e} \X (1 .. n - 1)
    <3>1. /\ MissingOf(S) \cup gap \subseteq MissingOf(S \cup {<<e, n>>})
          /\ MissingOf(S) \cap gap = {}
      <4>1. \A b, m \in Nat : <<b, m>> \in S => b < e
        BY <2>2, <2>3, <2>5
      <4>2. QED
        BY <1>5, <4>1, MissingNew
    <3>2. IsFiniteSet(gap) /\ Cardinality(gap) = n - 1
      <4> DEFINE h == n - 1
      <4>1. h \in Int /\ 1 \in Nat /\ 1 <= h + 1 /\ h - 1 + 1 = h /\ gap = {e} \X (1..h)
        BY <1>0
      <4> HIDE DEF h
      <4>2. IsFiniteSet({e} \X (1..h)) /\ Cardinality({e} \X (1..h)) = h - 1 + 1
        BY <4>1, GapSize
      <4>3. QED
        BY <4>1, <4>2 DEF h
    <3> HIDE DEF gap
    <3>3. Cardinality(MissingOf(S)) + (n - 1) <= Cardinality(MissingOf(T))
      <4>1. Cardinality(MissingOf(S) \cup gap) =
                Cardinality(MissingOf(S)) + Cardinality(gap) - Cardinality(MissingOf(S) \cap gap)
        BY <1>3, <3>2, FS_Union
      <4>2. Cardinality(MissingOf(S) \cap gap) = 0
        BY <3>1, FS_EmptySet
      <4>3. Cardinality(MissingOf(S) \cup gap) <= Cardinality(MissingOf(T))
        BY <1>3, <3>1, FS_Subset
      <4>4. QED
        BY <1>0, <1>3, <3>2, <4>1, <4>2, <4>3
    <3>4. c.lost <= s.lost + (n - 1)
      BY <1>0, <2>2 DEF LostBefore
    <3>5. ~(\A y, w \in T : y[1] = w[1])
      BY <1>0, <2>2, <2>5
    <3>6. s.lost <= Cardinality(MissingOf(S))
      BY DEF LossOf
    <3>7. LossOf(T, c)
      <4>1. c.lost \in Nat
        BY <1>0, <2>2 DEF LostBefore
      <4> HIDE DEF T, c
      <4>2. c.lost <= Cardinality(MissingOf(T))
        BY <1>0, <1>3, <3>3, <3>4, <3>6, <4>1
      <4>3. QED
        BY <3>5, <4>2 DEF LossOf
    <3>8. QED
      BY <1>2, <3>7
  <2>6. QED
    BY <2>2, <2>4, <2>5
<1>6. QED
  BY <1>4, <1>5

\* What a well-typed state says of the frames and the counters.
LEMMA FlowTypes ==
    ASSUME TypeOK
    PROVE  /\ DOMAIN queue = 1..Len(queue) /\ Len(queue) \in Nat
           /\ \A k \in DOMAIN queue : /\ queue[k].sub \in Nat /\ queue[k].media \in BOOLEAN
                                      /\ queue[k].epoch \in Nat /\ queue[k].seq \in Nat
           /\ \A i \in DOMAIN srcSeq : srcSeq[i] \in Nat
           /\ epoch \in Nat
           /\ DOMAIN seen = DOMAIN stat
           /\ \A i \in DOMAIN stat : stat[i] \in Counters /\ seen[i] \in SUBSET (Nat \X Nat)
<1>1. \A k \in DOMAIN queue : queue[k] \in Frames
  BY ElementOfSeq DEF TypeOK
<1>2. \A i \in DOMAIN stat : stat[i] \in Counters
  BY ElementOfSeq DEF TypeOK
<1>3. \A i \in DOMAIN seen : seen[i] \in SUBSET (Nat \X Nat)
  BY ElementOfSeq DEF TypeOK
<1>4. DOMAIN queue = 1..Len(queue) /\ Len(queue) \in Nat /\ DOMAIN seen = DOMAIN stat
  BY DEF TypeOK
<1>5. (\A i \in DOMAIN srcSeq : srcSeq[i] \in Nat) /\ epoch \in Nat
  BY ElementOfSeq DEF TypeOK
<1>6. QED
  BY <1>1, <1>2, <1>3, <1>4, <1>5 DEF Frames

LEMMA CountInit == Init => CountInv
<1> SUFFICES ASSUME Init PROVE CountInv
  OBVIOUS
<1>1. DOMAIN srcSeq = {} /\ DOMAIN queue = {} /\ DOMAIN stat = {}
  BY DEF Init
<1>2. QED
  BY <1>1 DEF CountInv, SourceInv, QueueInv, SeenInv, LastInv, LossInv

\* The source sends no less than before, and what it sends is not queued.
LEMMA CountGrows ==
    ASSUME TypeOK, CountInv, SourceInv', UNCHANGED <<queue, stat, seen>>,
           \A i : \A x \in Nat \X Nat :
               Sent(epoch, srcSeq, i, x) => Sent(epoch', srcSeq', i, x)
    PROVE  CountInv'
<1>1. QueueInv'
  <2>1. \A k \in DOMAIN queue : Stamp(queue[k]) \in Nat \X Nat
    BY FlowTypes DEF Stamp
  <2>2. QED
    BY <2>1 DEF CountInv, QueueInv
<1>2. SeenInv'
  <2>1. \A i \in DOMAIN stat : \A x \in seen[i] : x \in Nat \X Nat
    BY FlowTypes
  <2>2. QED
    BY <2>1 DEF CountInv, SeenInv
<1>3. LastInv' /\ LossInv'
  BY DEF CountInv, LastInv, LossInv
<1>4. QED
  BY <1>1, <1>2, <1>3 DEF CountInv

\* set_stream_meta and Init of the source: a new numbering.
LEMMA CountReset ==
    ASSUME TypeOK, CountInv, NEW n \in Nat, ResetStatistic(n),
           UNCHANGED <<queue, stat, seen>>
    PROVE  CountInv'
<1>1. SourceInv'
  BY Limits DEF ResetStatistic, SourceInv
<1>2. ASSUME NEW i, NEW x \in Nat \X Nat, Sent(epoch, srcSeq, i, x)
      PROVE  Sent(epoch', srcSeq', i, x)
  <2>1. epoch \in Nat /\ epoch' = epoch + 1 /\ x[1] \in Nat
    BY FlowTypes DEF ResetStatistic
  <2>2. QED
    BY <1>2, <2>1 DEF Sent
<1>3. QED
  BY <1>1, <1>2, CountGrows

\* SendLiveMediaFrame.
LEMMA CountSend ==
    ASSUME TypeOK, CountInv,
           NEW i \in 1..Len(src.subs), NEW media \in BOOLEAN, NEW kept \in BOOLEAN,
           SendLiveMediaFrame(i, media, kept)
    PROVE  CountInv'
<1> DEFINE q == NextSeq(i, media)
           g == Frame(i, media)
<1>1. /\ i \in DOMAIN srcSeq /\ i \in Nat /\ srcSeq[i] \in Nat /\ q \in Nat /\ srcSeq[i] <= q
      /\ q <= MaxSeq /\ srcSeq' = [srcSeq EXCEPT ![i] = q] /\ epoch' = epoch
      /\ media => q = srcSeq[i] + 1
  BY FlowTypes DEF TypeOK, NextSeq, SendLiveMediaFrame
<1>2. UNCHANGED <<stat, seen>>
  BY DEF SendLiveMediaFrame
<1>3. g.sub = i /\ g.media = media /\ Stamp(g) = <<epoch, q>>
  BY DEF Frame, Stamp
<1> HIDE DEF q, g
<1>4. DOMAIN srcSeq' = DOMAIN srcSeq /\ srcSeq'[i] = q
      /\ \A j \in DOMAIN srcSeq : j # i => srcSeq'[j] = srcSeq[j]
  BY <1>1
<1>5. SourceInv'
  BY <1>1, <1>4 DEF CountInv, SourceInv
<1>6. ASSUME NEW j, NEW x \in Nat \X Nat, Sent(epoch, srcSeq, j, x)
      PROVE  Sent(epoch', srcSeq', j, x)
  <2>1. j \in DOMAIN srcSeq => x[2] \in Nat /\ srcSeq[j] \in Nat
    BY FlowTypes
  <2>2. QED
    BY <1>1, <1>4, <1>6, <2>1 DEF Sent
<1>7. CASE ~kept
  BY <1>2, <1>5, <1>6, <1>7, CountGrows DEF SendLiveMediaFrame, Published
<1>8. CASE kept
  <2>1. queue' = Append(queue, g) /\ queue \in Seq(Frames)
    BY <1>8 DEF SendLiveMediaFrame, Published, TypeOK, g
  <2>2. /\ DOMAIN queue' = 1..(Len(queue) + 1) /\ DOMAIN queue = 1..Len(queue) /\ Len(queue) \in Nat
        /\ \A k \in DOMAIN queue : queue'[k] = queue[k]
        /\ queue'[Len(queue) + 1] = g
    BY <2>1
  <2> DEFINE z == Len(queue) + 1
  <2>3. \A k \in DOMAIN queue' : k \in DOMAIN queue \/ k = z
    BY <2>2
  <2>4. \A k \in DOMAIN queue : queue'[k] = queue[k] /\ k < z /\ k \in Nat
    BY <2>2
  <2>5. queue'[z] = g /\ z \in Nat
    BY <2>2
  <2> HIDE DEF z
  <2>6. media => Sent(epoch', srcSeq', i, Stamp(g))
    BY <1>1, <1>3, <1>4, FlowTypes, Limits DEF Sent
  <2>7. ASSUME media, NEW x \in Nat \X Nat, Sent(epoch, srcSeq, i, x)
        PROVE  Before(x, Stamp(g))
    <3>1. x[1] \in Nat /\ x[2] \in Nat /\ epoch \in Nat
      BY FlowTypes
    <3>2. QED
      BY <1>1, <1>3, <2>7, <3>1 DEF Sent, Before
  <2>8. \A k \in DOMAIN queue : Stamp(queue[k]) \in Nat \X Nat
    BY FlowTypes DEF Stamp
  <2>9. QueueInv'
    <3>1. ASSUME NEW k \in DOMAIN queue', queue'[k].media
          PROVE  Sent(epoch', srcSeq', queue'[k].sub, Stamp(queue'[k]))
      <4>1. CASE k \in DOMAIN queue
        BY <1>6, <2>4, <2>8, <3>1, <4>1 DEF CountInv, QueueInv
      <4>2. CASE k = z
        BY <1>3, <2>5, <2>6, <3>1, <4>2
      <4>3. QED
        BY <2>3, <4>1, <4>2
    <3>2. ASSUME NEW j \in DOMAIN queue', NEW k \in DOMAIN queue', j < k,
                 queue'[j].media, queue'[k].media, queue'[j].sub = queue'[k].sub
          PROVE  Before(Stamp(queue'[j]), Stamp(queue'[k]))
      <4>1. CASE k \in DOMAIN queue
        <5>1. j \in DOMAIN queue
          BY <2>3, <2>4, <2>5, <3>2, <4>1
        <5>2. QED
          BY <2>4, <3>2, <4>1, <5>1 DEF CountInv, QueueInv
      <4>2. CASE k = z
        <5>1. j \in DOMAIN queue /\ queue[j].media /\ queue[j].sub = i /\ media
          BY <1>3, <2>3, <2>4, <2>5, <3>2, <4>2
        <5>2. Sent(epoch, srcSeq, i, Stamp(queue[j]))
          BY <5>1 DEF CountInv, QueueInv
        <5>3. QED
          BY <2>4, <2>5, <2>7, <2>8, <4>2, <5>1, <5>2
      <4>3. QED
        BY <2>3, <4>1, <4>2
    <3>3. QED
      BY <3>1, <3>2 DEF QueueInv
  <2>10. SeenInv'
    <3>1. ASSUME NEW j \in DOMAIN stat, NEW x \in seen[j]
          PROVE  /\ Sent(epoch', srcSeq', j, x)
                 /\ \A k \in DOMAIN queue' :
                        queue'[k].media /\ queue'[k].sub = j => Before(x, Stamp(queue'[k]))
      <4>1. x \in Nat \X Nat /\ Sent(epoch, srcSeq, j, x)
        BY FlowTypes DEF CountInv, SeenInv
      <4>2. ASSUME NEW k \in DOMAIN queue', queue'[k].media, queue'[k].sub = j
            PROVE  Before(x, Stamp(queue'[k]))
        <5>1. CASE k \in DOMAIN queue
          BY <2>4, <4>2, <5>1 DEF CountInv, SeenInv
        <5>2. CASE k = z
          BY <1>3, <2>5, <2>7, <4>1, <4>2, <5>2
        <5>3. QED
          BY <2>3, <5>1, <5>2
      <4>3. QED
        BY <1>6, <4>1, <4>2
    <3>2. QED
      BY <1>2, <3>1 DEF SeenInv
  <2>11. LastInv' /\ LossInv'
    BY <1>2 DEF CountInv, LastInv, LossInv
  <2>12. QED
    BY <1>5, <2>9, <2>10, <2>11 DEF CountInv
<1>9. QED
  BY <1>7, <1>8

\* The subscriber socket goes with its frames.
LEMMA CountDrop ==
    ASSUME CountInv, UNCHANGED <<srcSeq, epoch, stat, seen>>, queue' = queue \/ queue' = <<>>
    PROVE  CountInv'
<1>1. CASE queue' = queue
  BY <1>1 DEF CountInv, SourceInv, QueueInv, SeenInv, LastInv, LossInv
<1>2. CASE queue' = <<>>
  <2>1. DOMAIN queue' = {}
    BY <1>2
  <2>2. QueueInv'
    BY <2>1 DEF QueueInv
  <2>3. SeenInv'
    BY <2>1 DEF CountInv, SeenInv
  <2>4. QED
    BY <2>2, <2>3 DEF CountInv, SourceInv, LastInv, LossInv
<1>3. QED
  BY <1>1, <1>2

\* UpdateStreamMetaData starts the statistic anew.
LEMMA CountApply == ASSUME TypeOK, CountInv, UpdateApply PROVE CountInv'
<1>1. UNCHANGED <<srcSeq, epoch, queue>>
  BY DEF UpdateApply, sourceVars
<1>2. \A i \in DOMAIN stat' : seen'[i] = {} /\ stat'[i].last = 0 /\ stat'[i].lost = 0
  BY DEF UpdateApply, StatisticFor, Fresh
<1>3. SourceInv' /\ QueueInv'
  BY <1>1 DEF CountInv, SourceInv, QueueInv
<1>4. SeenInv' /\ LastInv'
  BY <1>2 DEF SeenInv, LastInv, LastOf
<1>5. LossInv'
  BY <1>2, MissingNone DEF LossInv, LossOf
<1>6. QED
  BY <1>3, <1>4, <1>5 DEF CountInv

\* The worker takes the first frame of the queue.
LEMMA TakeFirst ==
    ASSUME TypeOK, Take
    PROVE  /\ 1 \in DOMAIN queue /\ Head(queue) = queue[1]
           /\ \A k \in DOMAIN queue' : k \in Nat /\ k + 1 \in DOMAIN queue /\ 1 < k + 1
                                       /\ queue'[k] = queue[k + 1]
  BY DEF TypeOK, Take

LEMMA QueueTake ==
    ASSUME TypeOK, CountInv, Take, UNCHANGED <<srcSeq, epoch>>
    PROVE  /\ SourceInv' /\ QueueInv'
           /\ \A i \in DOMAIN stat : \A x \in seen[i] :
                  /\ Sent(epoch', srcSeq', i, x)
                  /\ \A k \in DOMAIN queue' :
                         queue'[k].media /\ queue'[k].sub = i => Before(x, Stamp(queue'[k]))
<1>1. SourceInv'
  BY DEF CountInv, SourceInv
<1>2. ASSUME NEW k \in DOMAIN queue', queue'[k].media
      PROVE  Sent(epoch', srcSeq', queue'[k].sub, Stamp(queue'[k]))
  BY <1>2, TakeFirst DEF CountInv, QueueInv
<1>3. ASSUME NEW j \in DOMAIN queue', NEW k \in DOMAIN queue', j < k,
             queue'[j].media, queue'[k].media, queue'[j].sub = queue'[k].sub
      PROVE  Before(Stamp(queue'[j]), Stamp(queue'[k]))
  <2>1. j + 1 \in DOMAIN queue /\ k + 1 \in DOMAIN queue /\ j + 1 < k + 1
    BY <1>3, TakeFirst
  <2>2. queue'[j] = queue[j + 1] /\ queue'[k] = queue[k + 1]
    BY TakeFirst
  <2>3. QED
    BY <1>3, <2>1, <2>2 DEF CountInv, QueueInv
<1>4. ASSUME NEW i \in DOMAIN stat, NEW x \in seen[i]
      PROVE  /\ Sent(epoch', srcSeq', i, x)
             /\ \A k \in DOMAIN queue' :
                    queue'[k].media /\ queue'[k].sub = i => Before(x, Stamp(queue'[k]))
  BY TakeFirst DEF CountInv, SeenInv
<1>5. QED
  BY <1>1, <1>2, <1>3, <1>4 DEF QueueInv

\* A frame that is not counted.
LEMMA CountIgnored ==
    ASSUME TypeOK, CountInv, Take, UNCHANGED <<srcSeq, epoch, stat, seen>>
    PROVE  CountInv'
<1>1. SeenInv'
  BY QueueTake DEF SeenInv
<1>2. QED
  BY <1>1, QueueTake DEF CountInv, LastInv, LossInv

\* A frame that is: it was sent after all that its entry has counted.
LEMMA CountAccepted == ASSUME TypeOK, CountInv, FrameAccepted PROVE CountInv'
<1> DEFINE f == Head(queue)
           i == f.sub
           z == <<f.epoch, f.seq>>
<1>1. Take /\ UNCHANGED <<srcSeq, epoch>>
  BY DEF FrameAccepted, sourceVars
<1>2. CASE ~(f.media /\ i \in DOMAIN stat)
  <2>1. UNCHANGED <<stat, seen>>
    BY <1>2 DEF FrameAccepted, countVars
  <2>2. QED
    BY <1>1, <2>1, CountIgnored
<1>3. CASE f.media /\ i \in DOMAIN stat
  <2>1. /\ stat' = [stat EXCEPT ![i] = Counted(stat[i], f.seq)]
        /\ seen' = [seen EXCEPT ![i] = seen[i] \cup {z}]
    BY <1>3 DEF FrameAccepted
  <2>2. /\ 1 \in DOMAIN queue /\ f = queue[1] /\ z = Stamp(queue[1])
        /\ f.epoch \in Nat /\ f.seq \in Nat
    BY <1>1, TakeFirst, FlowTypes DEF Stamp
  <2>3. Sent(epoch, srcSeq, i, z) /\ f.seq \in 1..MaxSeq
    BY <1>3, <2>2 DEF CountInv, QueueInv, Sent
  <2>4. DOMAIN seen = DOMAIN stat /\ stat[i] \in Counters /\ seen[i] \in SUBSET (Nat \X Nat)
    BY <1>3, FlowTypes
  <2>5. \A x \in seen[i] : x[2] \in 1..MaxSeq /\ Before(x, z)
    BY <1>3, <2>2 DEF CountInv, SeenInv, Sent
  <2>6. \A k \in DOMAIN queue' :
            queue'[k].media /\ queue'[k].sub = i => Before(z, Stamp(queue'[k]))
    BY <1>1, <1>3, <2>2, TakeFirst DEF CountInv, QueueInv
  <2>7. /\ LastOf(seen[i] \cup {z}, Counted(stat[i], f.seq))
        /\ LossOf(seen[i] \cup {z}, Counted(stat[i], f.seq))
    <3>1. LastOf(seen[i], stat[i]) /\ LossOf(seen[i], stat[i])
      BY <1>3 DEF CountInv, LastInv, LossInv
    <3> DEFINE S == seen[i]
               s == stat[i]
               e == f.epoch
               n == f.seq
    <3>2. /\ S \in SUBSET (Nat \X Nat) /\ s \in Counters /\ e \in Nat /\ n \in 1..MaxSeq
          /\ LastOf(S, s) /\ LossOf(S, s)
          /\ \A x \in S : x[2] \in 1..MaxSeq /\ Before(x, <<e, n>>)
      BY <2>2, <2>3, <2>4, <2>5, <3>1
    <3> HIDE DEF S, s, e, n
    <3>3. /\ LastOf(S \cup {<<e, n>>}, Counted(s, n))
          /\ LossOf(S \cup {<<e, n>>}, Counted(s, n))
      BY <3>2, CountOne
    <3>4. QED
      BY <3>3 DEF S, s, e, n
  <2> HIDE DEF f, i, z
  <2>8. /\ DOMAIN stat' = DOMAIN stat
        /\ stat'[i] = Counted(stat[i], f.seq) /\ seen'[i] = seen[i] \cup {z}
        /\ \A j \in DOMAIN stat : j # i => stat'[j] = stat[j] /\ seen'[j] = seen[j]
    BY <1>3, <2>1, <2>4
  <2>9. LastInv' /\ LossInv'
    <3>1. ASSUME NEW j \in DOMAIN stat
          PROVE  LastOf(seen'[j], stat'[j]) /\ LossOf(seen'[j], stat'[j])
      <4>1. CASE j = i
        BY <2>7, <2>8, <4>1
      <4>2. CASE j # i
        BY <2>8, <4>2 DEF CountInv, LastInv, LossInv
      <4>3. QED
        BY <4>1, <4>2
    <3>2. QED
      BY <2>8, <3>1 DEF LastInv, LossInv
  <2>10. SeenInv'
    <3>1. ASSUME NEW j \in DOMAIN stat, NEW x \in seen'[j]
          PROVE  /\ Sent(epoch', srcSeq', j, x)
                 /\ \A k \in DOMAIN queue' :
                        queue'[k].media /\ queue'[k].sub = j => Before(x, Stamp(queue'[k]))
      <4>1. CASE x \in seen[j]
        BY <1>1, <4>1, QueueTake
      <4>2. CASE x \notin seen[j]
        <5>1. j = i /\ x = z
          BY <2>8, <4>2
        <5>2. QED
          BY <1>1, <2>3, <2>6, <5>1
      <4>3. QED
        BY <4>1, <4>2
    <3>2. QED
      BY <2>8, <3>1 DEF SeenInv
  <2>11. QED
    BY <1>1, <2>9, <2>10, QueueTake DEF CountInv
<1>4. QED
  BY <1>2, <1>3

LEMMA CountNext == ASSUME TypeOK, CountInv, [Next]_vars PROVE CountInv'
<1>1. ASSUME NEW m \in Metas, SetStreamMeta(m) PROVE CountInv'
  <2>1. UNCHANGED <<queue, stat, seen>>
    BY <1>1 DEF SetStreamMeta
  <2>2. CASE Changed(m)
    BY <1>1, <2>1, <2>2, MetasType, CountReset DEF SetStreamMeta
  <2>3. CASE ~Changed(m)
    <3>1. UNCHANGED <<srcSeq, epoch, stat, seen, queue>>
      BY <1>1, <2>3 DEF SetStreamMeta
    <3>2. QED
      BY <3>1, CountDrop
  <2>4. QED
    BY <2>2, <2>3
<1>2. CASE SourceInit
  BY <1>2, CountReset DEF SourceInit
<1>3. CASE Source
  BY <1>1, <1>2, <1>3, CountSend DEF Source
<1>4. CASE Start \/ StartFails \/ Stop \/ DestroySubscriberSocket
           \/ UpdateRequest \/ UpdateFails \/ CallbackReturns \/ UNCHANGED vars
  <2>1. UNCHANGED <<srcSeq, epoch, stat, seen>> /\ (queue' = queue \/ queue' = <<>>)
    BY <1>4 DEF Start, StartFails, Stop, DestroySubscriberSocket,
                UpdateRequest, UpdateFails,
                CallbackReturns, vars, sourceVars, countVars
  <2>2. QED
    BY <2>1, CountDrop
<1>5. CASE FrameMismatch \/ FrameUnknownSub
  <2>1. Take /\ UNCHANGED <<srcSeq, epoch, stat, seen>>
    BY <1>5 DEF FrameMismatch, FrameUnknownSub, sourceVars, countVars
  <2>2. QED
    BY <2>1, CountIgnored
<1>6. QED
  BY <1>3, <1>4, <1>5, CountApply, CountAccepted DEF Next, Worker

\* The queue keeps the order of the source's numbers, every entry of the
\* sink's statistic has counted an earlier part of it, and last_seq and
\* lost_frames are right for that part.
THEOREM FlowCountInv == Spec => []CountInv
<1>1. TypeOK /\ CountInv /\ [Next]_vars => CountInv'
  BY CountNext
<1>2. QED
  BY CountInit, FlowTypeCorrect, <1>1, PTL DEF Spec

\* lost_frames never counts a frame that was not lost, for every queue length,
\* number of restarts and sub-streams.
THEOREM FlowNoOverCount == Spec => []NoOverCount
<1>1. CountInv => NoOverCount
  BY DEF CountInv, LossInv, LossOf, NoOverCount
<1>2. QED
  BY FlowCountInv, <1>1, PTL

\* Within one numbering lost_frames is exact.
THEOREM FlowLossExact == Spec => []LossExact
<1>1. TypeOK /\ CountInv => LossExact
  <2> SUFFICES ASSUME TypeOK, CountInv, NEW i \in DOMAIN stat,
                      Cardinality(EpochsOf(seen[i])) = 1
               PROVE  stat[i].lost = Cardinality(MissingOf(seen[i]))
    BY DEF LossExact
  <2>1. seen[i] \in SUBSET (Nat \X Nat) /\ epoch \in Nat /\ \A x \in seen[i] : x[1] <= epoch
    BY FlowTypes DEF CountInv, SeenInv, Sent
  <2>2. IsFiniteSet(EpochsOf(seen[i]))
    BY <2>1, MissingFinite
  <2>3. PICK e : EpochsOf(seen[i]) = {e}
    BY <2>2, FS_Singleton
  <2>4. \A x \in seen[i] : x[1] = e
    BY <2>3 DEF EpochsOf
  <2>5. QED
    BY <2>4 DEF CountInv, LossInv, LossOf
<1>2. QED
  BY FlowTypeCorrect, FlowCountInv, <1>1, PTL

-----------------------------------------------------------------------------
(* The proxy is an application of the flow *)

\* Every step of the proxy is one of the flow, or leaves it alone.
LEMMA ProxyStep == ASSUME [ProxyNext]_allVars PROVE [Next]_vars
<1>1. CASE Work
  <2>1. CASE AskMetadata \/ MetadataReady \/ MetadataFails \/ MetadataNotLive
             \/ StartRelay \/ StartSinkFails \/ StopForUpdate \/ Uninit
    BY <2>1 DEF AskMetadata, MetadataReady, MetadataFails, MetadataNotLive, StartRelay,
                StartSinkFails, StopForUpdate, Uninit, Next
  <2>2. CASE StartSourceFails \/ Hearbeat \/ MediaStopped \/ KeyFrameRequested \/ KeyFrameFails
    BY <2>2 DEF StartSourceFails, Hearbeat, MediaStopped, KeyFrameRequested, KeyFrameFails,
                vars, vars
  <2>3. QED
    BY <1>1, <2>1, <2>2 DEF Work
<1>2. CASE WorkerTakes \/ OnLiveMediaFrame \/ OnMetadataMismatch
  BY <1>2 DEF WorkerTakes, OnLiveMediaFrame, OnMetadataMismatch, Next, Worker
<1>3. CASE BackEnd
  BY <1>3 DEF BackEnd, Next
<1>4. CASE Interrupt \/ OnKeyFrame \/ Tick \/ UNCHANGED allVars
  BY <1>4 DEF Interrupt, OnKeyFrame, Tick, allVars, vars, vars
<1>5. QED
  BY <1>1, <1>2, <1>3, <1>4 DEF ProxyNext

\* The proxy uses its sink as an application may.
THEOREM ProxyFlow == ProxySpec => Spec
<1>1. ProxyInit => Init
  BY DEF ProxyInit
<1>2. [ProxyNext]_allVars => [Next]_vars
  BY ProxyStep
<1>3. QED
  BY <1>1, <1>2, PTL DEF ProxySpec, Spec

\* The counters of the proxy's sink are right across its restarts.
THEOREM ProxyCountsRight == ProxySpec => [](NoOverCount /\ LossExact)
  BY ProxyFlow, FlowNoOverCount, FlowLossExact, PTL

\* The proxy's own variables.
OwnTypes ==
    /\ main \in {"update", "asked", "ready", "loop", "key", "stop", "failed", "interrupted"}
    /\ todo \in BOOLEAN /\ needKey \in BOOLEAN /\ needUpdate \in BOOLEAN
    /\ quiet \in 0..MaxQuiet
    /\ pMeta \in Meta
    /\ pState \in Errors \cup {"CONNECTING", "OK"}
    /\ rejected \in BOOLEAN /\ ignored \in BOOLEAN

LEMMA OwnTypesNext == ASSUME OwnTypes, TypeOK', [ProxyNext]_allVars PROVE OwnTypes'
<1>0. MaxQuiet \in Nat /\ meta' \in Meta
  BY ProxyAssumption DEF TypeOK
<1> USE DEF OwnTypes
<1>1. CASE AskMetadata
  BY <1>1 DEF AskMetadata
<1>2. CASE MetadataReady
  BY <1>0, <1>2 DEF MetadataReady, RelayedMeta
<1>3. CASE MetadataFails
  BY <1>3 DEF MetadataFails, StateAfterNoMetadata, Errors
<1>4. CASE MetadataNotLive
  BY <1>4 DEF MetadataNotLive, Errors
<1>5. CASE StartRelay
  <2>1. quiet' \in 0..MaxQuiet
    BY <1>0, <1>5 DEF StartRelay
  <2>2. QED
    BY <1>5, <2>1 DEF StartRelay
<1>6. CASE StartSourceFails
  BY <1>0, <1>6 DEF StartSourceFails, Errors
<1>7. CASE StartSinkFails
  BY <1>0, <1>7 DEF StartSinkFails, Errors
<1>8. CASE Hearbeat
  BY <1>8 DEF Hearbeat, UpdateAsked
<1>9. CASE MediaStopped
  BY <1>9 DEF MediaStopped, Errors
<1>10. CASE KeyFrameRequested \/ StopForUpdate \/ Interrupt
  BY <1>10 DEF KeyFrameRequested, StopForUpdate, Interrupt
<1>11. CASE KeyFrameFails
  BY <1>11 DEF KeyFrameFails, Errors
<1>12. CASE WorkerTakes \/ OnMetadataMismatch \/ OnKeyFrame
  BY <1>12 DEF WorkerTakes, OnMetadataMismatch, OnKeyFrame, proxyVars
<1>13. CASE OnLiveMediaFrame
  <2>1. rejected' \in BOOLEAN
    BY <1>13 DEF OnLiveMediaFrame, Accepts
  <2>2. quiet' \in 0..MaxQuiet
    BY <1>0, <1>13 DEF OnLiveMediaFrame
  <2>3. QED
    BY <1>13, <2>1, <2>2 DEF OnLiveMediaFrame
<1>14. CASE Tick
  BY <1>0, <1>14 DEF Tick
<1>15. CASE Uninit \/ BackEnd \/ UNCHANGED allVars
  BY <1>15 DEF Uninit, BackEnd, allVars, proxyVars
<1>16. QED
  BY <1>1, <1>2, <1>3, <1>4, <1>5, <1>6, <1>7, <1>8, <1>9, <1>10, <1>11, <1>12,
     <1>13, <1>14, <1>15 DEF ProxyNext, Work

\* The proxy's metadata is always one its source may announce, and the time
\* since the last frame stays within its limit.
THEOREM ProxyTypeCorrect == ProxySpec => []ProxyTypeOK
<1>1. ProxyInit => OwnTypes
  <2> SUFFICES ASSUME ProxyInit PROVE OwnTypes
    OBVIOUS
  <2>1. quiet \in 0..MaxQuiet /\ pMeta \in Meta
    BY ProxyAssumption, NoMetaType DEF ProxyInit
  <2>2. QED
    BY <2>1 DEF ProxyInit, OwnTypes
<1>2. OwnTypes /\ TypeOK' /\ [ProxyNext]_allVars => OwnTypes'
  BY OwnTypesNext
<1>3. TypeOK /\ OwnTypes => ProxyTypeOK
  BY DEF ProxyTypeOK, OwnTypes
<1>4. ProxySpec => []TypeOK
  BY ProxyFlow, FlowTypeCorrect, PTL
<1>5. QED
  BY <1>1, <1>2, <1>3, <1>4, PTL DEF ProxySpec

-----------------------------------------------------------------------------
(* The proxy's invariant *)

LEMMA ProxyInvInit == ProxyInit => ProxyInv
  BY DEF ProxyInit, ProxyInv, PhaseInv, AgreeInv, ReportInv, NoFrameRejected,
         MismatchRemembered, ErrorAnnounced, Errors, Init, Silent, NoReply

\* The main thread's steps that leave the back-end source, the sockets and
\* the sink alone.
LEMMA MainLocal ==
    ASSUME ProxyInv,
           StartSourceFails \/ Hearbeat \/ MediaStopped \/ KeyFrameRequested
           \/ KeyFrameFails \/ Interrupt \/ OnKeyFrame \/ Tick
    PROVE  ProxyInv'
<1> USE DEF ProxyInv, PhaseInv, AgreeInv, ReportInv, NoFrameRejected,
        MismatchRemembered, ErrorAnnounced, Errors, vars
<1>1. CASE StartSourceFails
  BY <1>1 DEF StartSourceFails, NoReply, Silent
<1>2. CASE Hearbeat
  BY <1>2 DEF Hearbeat, UpdateAsked, NoReply, Silent
<1>3. CASE MediaStopped
  BY <1>3 DEF MediaStopped, NoReply, Silent
<1>4. CASE KeyFrameRequested
  BY <1>4 DEF KeyFrameRequested, NoReply, Silent
<1>5. CASE KeyFrameFails
  BY <1>5 DEF KeyFrameFails, NoReply, Silent
<1>6. CASE Interrupt
  BY <1>6 DEF Interrupt, NoReply, Silent
<1>7. CASE OnKeyFrame
  BY <1>7 DEF OnKeyFrame, NoReply, Silent
<1>8. CASE Tick
  BY <1>8 DEF Tick, NoReply, Silent
<1>9. QED
  BY <1>1, <1>2, <1>3, <1>4, <1>5, <1>6, <1>7, <1>8

\* The main thread's calls of the sink.
LEMMA MainCalls ==
    ASSUME ProxyInv,
           AskMetadata \/ MetadataReady \/ MetadataFails \/ MetadataNotLive
           \/ StartRelay \/ StartSinkFails \/ StopForUpdate \/ Uninit
    PROVE  ProxyInv'
<1> USE DEF ProxyInv, PhaseInv, AgreeInv, ReportInv, NoFrameRejected,
        MismatchRemembered, ErrorAnnounced, Errors, sourceVars, countVars
<1>1. CASE AskMetadata
  BY <1>1 DEF AskMetadata, UpdateRequest, NoReply, Silent
<1>2. CASE MetadataReady
  BY <1>2 DEF MetadataReady, RelayedMeta, UpdateApply, NoReply, Silent
<1>3. CASE MetadataFails
  BY <1>3 DEF MetadataFails, StateAfterNoMetadata, UpdateFails, NoReply, Silent
<1>4. CASE MetadataNotLive
  BY <1>4 DEF MetadataNotLive, UpdateApply, NoReply, Silent
<1>5. CASE StartRelay
  BY <1>5 DEF StartRelay, Start, NoReply, Silent
<1>6. CASE StartSinkFails
  BY <1>6 DEF StartSinkFails, StartFails, NoReply, Silent
<1>7. CASE StopForUpdate
  BY <1>7 DEF StopForUpdate, Stop, NoReply, Silent
<1>8. CASE Uninit
  BY <1>8 DEF Uninit, Ended, proxyVars, Stop, NoReply, Silent
<1>9. QED
  BY <1>1, <1>2, <1>3, <1>4, <1>5, <1>6, <1>7, <1>8

\* The sink's worker, its callbacks and the back-end source.
LEMMA WorkerSteps ==
    ASSUME ProxyInv,
           WorkerTakes \/ OnLiveMediaFrame \/ OnMetadataMismatch \/ BackEnd
    PROVE  ProxyInv'
<1> USE DEF ProxyInv, PhaseInv, AgreeInv, ReportInv, NoFrameRejected,
        MismatchRemembered, ErrorAnnounced, Errors, sourceVars, countVars
<1>1. CASE FrameMismatch /\ ignored' = TRUE
           /\ UNCHANGED <<main, todo, needKey, needUpdate, quiet, pMeta, pState, rejected>>
  BY <1>1 DEF FrameMismatch, Take, NoReply, Silent
<1>2. CASE FrameUnknownSub /\ UNCHANGED proxyVars
  BY <1>2 DEF proxyVars, FrameUnknownSub, Take, NoReply, Silent
<1>3. CASE FrameAccepted /\ UNCHANGED proxyVars
  BY <1>3 DEF proxyVars, FrameAccepted, Take, NoReply, Silent
<1>4. CASE OnLiveMediaFrame
  BY <1>4 DEF OnLiveMediaFrame, Accepts, CallbackReturns, NoReply, Silent
<1>5. CASE OnMetadataMismatch
  BY <1>5 DEF OnMetadataMismatch, CallbackReturns, NoReply, Silent
<1>6. CASE BackEnd
  <2>1. UNCHANGED <<started, meta, lastSsrc, reply, callback>> /\ UNCHANGED proxyVars
    BY <1>6 DEF BackEnd, Source, SetStreamMeta, SourceInit,
                SendLiveMediaFrame
  <2>2. QED
    BY <2>1 DEF proxyVars
<1>7. QED
  BY <1>1, <1>2, <1>3, <1>4, <1>5, <1>6 DEF WorkerTakes

\* The main thread, the worker and the clients preserve the invariant.
THEOREM ProxyInvariant == ProxySpec => []ProxyInv
<1>1. ProxyInv /\ [ProxyNext]_allVars => ProxyInv'
  <2> SUFFICES ASSUME ProxyInv, [ProxyNext]_allVars PROVE ProxyInv'
    OBVIOUS
  <2>1. CASE ProxyNext
    BY <2>1, MainLocal, MainCalls, WorkerSteps DEF ProxyNext, Work
  <2>2. CASE UNCHANGED allVars
    BY <2>2 DEF allVars, vars, proxyVars, ProxyInv, PhaseInv, AgreeInv, ReportInv,
                NoFrameRejected, MismatchRemembered, ErrorAnnounced,
                NoReply, Silent
  <2>3. QED
    BY <2>1, <2>2
<1>2. QED
  BY ProxyInvInit, <1>1, PTL DEF ProxySpec

\* OnLiveMediaFrame may ignore the result of SendLiveMediaFrame.
THEOREM ProxyNoFrameRejected == ProxySpec => []NoFrameRejected
  BY ProxyInvariant, PTL DEF ProxyInv

\* Hearbeat never loses the request for new metadata.
THEOREM ProxyMismatchRemembered == ProxySpec => []MismatchRemembered
  BY ProxyInvariant, PTL DEF ProxyInv

\* A proxy that gives up has told its clients.
THEOREM ProxyErrorAnnounced == ProxySpec => []ErrorAnnounced
  BY ProxyInvariant, PTL DEF ProxyInv
=============================================================================
