----------------------------- MODULE BufferQueue -----------------------------
(***************************************************************************)
(* The buffer queue between a track's parser and its RTP sessions          *)
(* (ports/stsw_rtsp_port/src/bufferqueue.c), as operators on a producer    *)
(* and a consumer. Every operation runs under the producer's lock, so an   *)
(* operator is what one call does.                                         *)
(*                                                                         *)
(* A producer is a record: queue_serial (how often the queue was reset),   *)
(* next_serial, consumers, and seen, the queue itself: the seen count of   *)
(* each element, oldest first. Elements carry consecutive serials, so the  *)
(* pair of queue_serial and serial names an element for good and its       *)
(* payload need not be kept. A consumer is a record: the queue_serial it   *)
(* last saw, and at, the serial current_element_pointer and                *)
(* current_element_object stand for (NoElement for NULL: between two calls *)
(* both are NULL or both name the same element).                           *)
(***************************************************************************)
EXTENDS Naturals, Sequences

CONSTANT NoElement

ASSUME NoElementAssumption == NoElement \notin Nat

\* bq_producer_new: the first queue gets serial 1.
NewProducer == [queue_serial |-> 1, next_serial |-> 0, consumers |-> 0, seen |-> <<>>]

\* bq_consumer_new: the consumer has seen no queue.
NewConsumer == [queue_serial |-> 0, at |-> NoElement]
ConsumerNew(q) == [q EXCEPT !.consumers = @ + 1]

QueueLength(q) == Len(q.seen)
Oldest(q) == q.next_serial - Len(q.seen)

\* The element with this serial is in the queue, that is, not freed.
Queued(q, serial) == serial \in Oldest(q) .. (q.next_serial - 1)

Attached(q, c) == c.queue_serial = q.queue_serial
Selects(q, c) == Attached(q, c) /\ c.at # NoElement

\* The selected element is still in the queue; or another consumer, having come
\* back to the head of the queue, was counted twice and freed it (undefined
\* behaviour follows when the element is used).
Holds(q, c) == Selects(q, c) /\ Queued(q, c.at)
Dangling(q, c) == Selects(q, c) /\ ~Queued(q, c.at)

\* bq_producer_reset_queue
ResetQueue(q) ==
    [q EXCEPT !.queue_serial = @ + 1, !.next_serial = 0, !.seen = <<>>]

\* bq_producer_put
Put(q) == [q EXCEPT !.next_serial = @ + 1, !.seen = Append(@, 0)]

\* bq_consumer_elem_unref frees the element (Variant: one consumer too late),
\* which it takes to be the head of the queue (g_assert).
LastToSeeLate(q, c) == q.seen[c.at - Oldest(q) + 1] + 1 > q.consumers
LastToSee(q, c) == q.seen[c.at - Oldest(q) + 1] + 1 >= q.consumers

\* The assertion fails: the element to free is not the head.
NotHead(q, c) == Holds(q, c) /\ LastToSee(q, c) /\ c.at # Oldest(q)

\* bq_consumer_elem_unref of the selected element, if there is one. What it
\* does to a freed element is no change of the queue.
ElemUnref(q, c) ==
    IF ~Holds(q, c) THEN q
    ELSE IF LastToSee(q, c) THEN [q EXCEPT !.seen = Tail(@)]
    ELSE [q EXCEPT !.seen[c.at - Oldest(q) + 1] = @ + 1]

\* Where bq_consumer_move_internal goes: to the head of a new queue, or past
\* a tail reached earlier; otherwise to the next element.
MoveTarget(q, c) ==
    LET next == IF Selects(q, c) THEN c.at + 1 ELSE Oldest(q)
    IN  IF Queued(q, next) THEN next ELSE NoElement

\* bq_consumer_move: the consumer and the producer after it.
MoveConsumer(q, c) == [queue_serial |-> q.queue_serial, at |-> MoveTarget(q, c)]
MoveProducer(q, c) == ElemUnref(q, c)

\* bq_consumer_get moves only if nothing is selected; the producer stays.
GetConsumer(q, c) == IF Selects(q, c) THEN c ELSE MoveConsumer(q, c)

\* Whether it returns a buffer: of a freed element it returns what is found in
\* the memory, a pointer or NULL.
GetReturns(q, c) ==
    IF Dangling(q, c) THEN BOOLEAN ELSE {GetConsumer(q, c).at # NoElement}

\* Where a consumer may be after a move from a freed element.
MoveFromFreed(q) ==
    [queue_serial : {q.queue_serial},
     at : {NoElement} \cup (Oldest(q) .. (q.next_serial - 1))]

\* bq_consumer_free: the last consumer clears the queue, another one takes its
\* marks back from the elements up to the one it had selected. It does not ask
\* whether the queue is still the same: after a reset, or when its selection
\* was freed, the walk is through freed elements.
WalksFreed(q, c) == q.consumers > 1 /\ c.at # NoElement /\ ~Holds(q, c)
ConsumerFree(q, c) ==
    LET u    == ElemUnref(q, c)
        left == [u EXCEPT !.consumers = @ - 1]
        mine == IF Holds(q, c) /\ ~LastToSee(q, c) THEN c.at - Oldest(q) + 1 ELSE 0
    IN  IF left.consumers = 0 THEN [left EXCEPT !.seen = <<>>]
        ELSE [left EXCEPT !.seen =
                 [i \in DOMAIN @ |-> IF i <= mine THEN @[i] - 1 ELSE @[i]]]
=============================================================================
