----------------------------- MODULE SpscQueue -----------------------------
(***************************************************************************)
(* spsc_overwrite_queue (src/src/pd/utils/spsc_overwrite_queue.h): the     *)
(* lock-free ring by which the driver's task hands received packets to     *)
(* PRL.  One action is one access to an atomic, or the plain accesses      *)
(* between two of them.  The producer overwrites a slot the consumer may   *)
(* be reading: that read is a data race, and gives Torn.                   *)
(***************************************************************************)
EXTENDS Integers, Sequences

CONSTANTS
    Cap,             \* CAP_POW2
    HeadMod,         \* the counter of elements is taken modulo this (code: 2^31)
    MaxPush,         \* bound: elements pushed
    MaxClears,       \* bound: calls of clear_from_producer()
    None,            \* no element
    Torn             \* a slot half written

ASSUME CapAssumption == Cap \in Nat \ {0} /\ HeadMod \in Nat /\ HeadMod % Cap = 0
ASSUME BoundAssumption == MaxPush \in Nat /\ MaxClears \in Nat
ASSUME NoneAssumption == {None, Torn} \cap Nat = {}

VARIABLES
    head_fields,  \* head, and whether its slot is being written
    buf,          \* the slots
    tail,         \* the consumer's own counter
    reset,        \* reset_pos and reset_ver
    local_ver,    \* the version of the reset the consumer knows
    producer,     \* at: its next step; pushed: elements so far
    consumer,     \* at: its next step; t, tmp: locals of pop()
    out           \* what the latest pop() returned

vars == <<head_fields, buf, tail, reset, local_ver, producer, consumer, out>>

Slot(position) == position % Cap

\* Wrong: the slot being written counts as readable.
AdjustedUnaware(hf, position) ==
    IF (hf.head - position) % (2 * HeadMod) > Cap THEN (hf.head - Cap) % HeadMod ELSE position

\* get_adjusted_tail: the oldest position the producer has left alone.  A 31-bit
\* counter minus a 32-bit one is a 32-bit number.
Adjusted(hf, position) ==
    LET max_distance == IF hf.writing THEN Cap - 1 ELSE Cap
    IN  IF (hf.head - position) % (2 * HeadMod) > max_distance
          THEN (hf.head - max_distance) % HeadMod
          ELSE position

TypeOK ==
    /\ head_fields \in [head : 0..(HeadMod - 1), writing : BOOLEAN]
    /\ buf \in [0..(Cap - 1) -> 0..MaxPush \cup {Torn}]
    /\ tail \in 0..(HeadMod - 1)
    /\ reset \in [pos : 0..(HeadMod - 1), ver : 0..MaxClears]
    /\ local_ver \in 0..MaxClears
    /\ producer \in [at : {"idle", "write", "even", "bump"}, pushed : 0..MaxPush]
    /\ consumer \in [at : {"idle", "loop", "reset", "reset_again", "head", "read",
                            "recheck", "confirm"},
                     t : 0..(HeadMod - 1), tmp : 0..MaxPush \cup {None, Torn},
                     ver : 0..MaxClears]
    /\ out \in 0..MaxPush \cup {None, Torn}

Init ==
    /\ head_fields = [head |-> 0, writing |-> FALSE]
    /\ buf = [s \in 0..(Cap - 1) |-> 0]
    /\ tail = 0
    /\ reset = [pos |-> 0, ver |-> 0]
    /\ local_ver = 0
    /\ producer = [at |-> "idle", pushed |-> 0]
    /\ consumer = [at |-> "idle", t |-> 0, tmp |-> None, ver |-> 0]
    /\ out = None

-----------------------------------------------------------------------------
(* The producer: the driver's task *)

PushOdd ==
    /\ producer.at = "idle" /\ producer.pushed < MaxPush
    /\ head_fields' = [head_fields EXCEPT !.writing = TRUE]
    /\ producer' = [producer EXCEPT !.at = "write"]
    /\ UNCHANGED <<buf, tail, reset, local_ver, consumer, out>>

PushWrite ==
    /\ producer.at = "write"
    /\ buf' = [buf EXCEPT ![Slot(head_fields.head)] = Torn]
    /\ producer' = [producer EXCEPT !.at = "even"]
    /\ UNCHANGED <<head_fields, tail, reset, local_ver, consumer, out>>

\* Wrong: the flag counts as an element.
PushEvenRaw ==
    /\ producer.at = "even"
    /\ buf' = [buf EXCEPT ![Slot(head_fields.head)] = producer.pushed + 1]
    /\ head_fields' = [head |-> head_fields.head + 2, writing |-> FALSE]
    /\ producer' = [at |-> "idle", pushed |-> producer.pushed + 1]
    /\ UNCHANGED <<tail, reset, local_ver, consumer, out>>

PushEven ==
    /\ producer.at = "even"
    /\ buf' = [buf EXCEPT ![Slot(head_fields.head)] = producer.pushed + 1]
    /\ head_fields' = [head |-> (head_fields.head + 1) % HeadMod, writing |-> FALSE]
    /\ producer' = [at |-> "idle", pushed |-> producer.pushed + 1]
    /\ UNCHANGED <<tail, reset, local_ver, consumer, out>>

\* clear_from_producer
ClearPosition ==
    /\ producer.at = "idle" /\ reset.ver < MaxClears
    /\ reset' = [reset EXCEPT !.pos = head_fields.head]
    /\ producer' = [producer EXCEPT !.at = "bump"]
    /\ UNCHANGED <<head_fields, buf, tail, local_ver, consumer, out>>

ClearPublish ==
    /\ producer.at = "bump"
    /\ reset' = [reset EXCEPT !.ver = @ + 1]
    /\ producer' = [producer EXCEPT !.at = "idle"]
    /\ UNCHANGED <<head_fields, buf, tail, local_ver, consumer, out>>

-----------------------------------------------------------------------------
(* The consumer: PRL, in fetch_rx_data() *)

Goes(place) == consumer' = [consumer EXCEPT !.at = place]

\* check_reset(): the version first, and if it is news the position.  After the
\* call at the top of the loop pop() loads the head; after the one at the end,
\* which found a reset, it starts again.
PopCheck ==
    /\ consumer.at \in {"idle", "loop"}
    /\ consumer' = IF reset.ver = local_ver THEN [consumer EXCEPT !.at = "head"]
                   ELSE [consumer EXCEPT !.at = "reset", !.ver = reset.ver]
    /\ UNCHANGED <<head_fields, buf, tail, reset, local_ver, producer, out>>

PopReset ==
    /\ consumer.at \in {"reset", "reset_again"}
    /\ tail' = reset.pos
    /\ local_ver' = consumer.ver
    /\ Goes(IF consumer.at = "reset" THEN "head" ELSE "loop")
    /\ UNCHANGED <<head_fields, buf, reset, producer, out>>

PopEmpty ==
    /\ consumer.at = "head" /\ Adjusted(head_fields, tail) = head_fields.head
    /\ out' = None
    /\ Goes("idle")
    /\ UNCHANGED <<head_fields, buf, tail, reset, local_ver, producer>>

PopHead ==
    /\ consumer.at = "head" /\ Adjusted(head_fields, tail) # head_fields.head
    /\ consumer' = [consumer EXCEPT !.at = "read", !.t = Adjusted(head_fields, tail)]
    /\ UNCHANGED <<head_fields, buf, tail, reset, local_ver, producer, out>>

PopRead ==
    /\ consumer.at = "read"
    /\ consumer' = [consumer EXCEPT !.at = "recheck", !.tmp = buf[Slot(consumer.t)]]
    /\ UNCHANGED <<head_fields, buf, tail, reset, local_ver, producer, out>>

\* Wrong: the data is taken as it was read.
PopUnchecked ==
    /\ consumer.at = "recheck"
    /\ Goes("confirm")
    /\ UNCHANGED <<head_fields, buf, tail, reset, local_ver, producer, out>>

\* "Check that data was not overwritten during the read"
PopRecheck ==
    /\ consumer.at = "recheck"
    /\ Goes(IF Adjusted(head_fields, tail) = consumer.t THEN "confirm" ELSE "loop")
    /\ UNCHANGED <<head_fields, buf, tail, reset, local_ver, producer, out>>

\* "Check that data was not discarded by a new reset"
PopDiscarded ==
    /\ consumer.at = "confirm" /\ reset.ver # local_ver
    /\ consumer' = [consumer EXCEPT !.at = "reset_again", !.ver = reset.ver]
    /\ UNCHANGED <<head_fields, buf, tail, reset, local_ver, producer, out>>

PopDone ==
    /\ consumer.at = "confirm" /\ reset.ver = local_ver
    /\ out' = consumer.tmp
    /\ tail' = (consumer.t + 1) % HeadMod
    /\ Goes("idle")
    /\ UNCHANGED <<head_fields, buf, reset, local_ver, producer>>

\* clear_from_consumer: a reset of the producer still pending stays pending.
ClearFromConsumer ==
    /\ consumer.at = "idle"
    /\ tail' = head_fields.head
    /\ UNCHANGED <<head_fields, buf, reset, local_ver, producer, consumer, out>>

-----------------------------------------------------------------------------
Push == PushOdd \/ PushWrite \/ PushEven
Pop == PopCheck \/ PopReset \/ PopEmpty \/ PopHead \/ PopRead \/ PopRecheck
         \/ PopDiscarded \/ PopDone
Next == Push \/ ClearPosition \/ ClearPublish \/ Pop \/ ClearFromConsumer

Spec == Init /\ [][Next]_vars

-----------------------------------------------------------------------------
(* The queue is a lossy FIFO.  Position p holds the element number p + 1 as *)
(* long as the counter has not wrapped.                                     *)

Taken == consumer.at = "confirm" /\ reset.ver = local_ver
Resetting == consumer.at \in {"reset", "reset_again"} \/ reset.ver # local_ver
Front == Adjusted(head_fields, IF Resetting THEN reset.pos
                               ELSE IF Taken THEN consumer.t + 1 ELSE tail)

Fifo == INSTANCE LossyFifo WITH
    items <- [i \in 1..(head_fields.head - Front) |-> Front + i],
    pushed <- producer.pushed,
    held <- IF Taken THEN consumer.tmp ELSE None,
    got <- out

\* Every element is delivered at most once, whole, in order, and none after a
\* clear; pop() reports "no data" only when there is none; elements are lost
\* to newer ones only when Cap are waiting.
Implements == Fifo!Spec
=============================================================================
