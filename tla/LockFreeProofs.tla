--------------------------- MODULE LockFreeProofs ---------------------------
(***************************************************************************)
(* The two lock-free structures between the stack and the driver.          *)
(* As long as the counter of elements has not wrapped, the ring of packets *)
(* is the lossy FIFO that its users are promised, for any capacity and any *)
(* number of elements and clears.  The call slot is the atomic mailbox,    *)
(* for any set of parameters, and leaves no request behind.                *)
(***************************************************************************)
EXTENDS SpscQueue, LeapSync, SequenceTheorems, TLAPS

-----------------------------------------------------------------------------
(* The ring of packets                                                       *)

NoWrap == MaxPush < HeadMod

\* The oldest position that is safe to read.
Low(hf) == hf.head - (IF hf.writing THEN Cap - 1 ELSE Cap)

InPop == consumer.at \in {"head", "read", "recheck", "confirm"}

\* The counters, and where the two sides are.
ProducerInv ==
    /\ head_fields.head = producer.pushed
    /\ head_fields.writing <=> producer.at \in {"write", "even"}
    /\ reset.pos <= head_fields.head
    /\ producer.at \in {"write", "even"} => producer.pushed < MaxPush
    /\ producer.at = "bump" => reset.pos = head_fields.head /\ reset.ver < MaxClears

\* A clear the consumer has yet to learn of is ahead of it while it is in pop().
ConsumerInv ==
    /\ tail <= head_fields.head
    /\ local_ver <= reset.ver /\ consumer.ver <= reset.ver
    /\ InPop => reset.ver = local_ver \/ tail <= reset.pos
    /\ consumer.at \in {"read", "recheck", "confirm"} =>
         tail <= consumer.t /\ consumer.t < head_fields.head

\* The elements that are safe to read are where they belong.
BufferInv ==
    \A p \in 0..(head_fields.head - 1) : p >= Low(head_fields) => buf[Slot(p)] = p + 1

\* What was read is the element of its position, or the recheck tells.
ReadInv ==
    /\ consumer.at = "recheck" /\ consumer.t >= Low(head_fields) => consumer.tmp = consumer.t + 1
    /\ consumer.at = "confirm" => consumer.tmp = consumer.t + 1

Inv == TypeOK /\ ProducerInv /\ ConsumerInv /\ BufferInv /\ ReadInv

-----------------------------------------------------------------------------
(* Positions *)

LEMMA Sizes ==
    ASSUME NoWrap
    PROVE  /\ Cap \in Nat \ {0} /\ HeadMod \in Nat \ {0} /\ MaxPush \in Nat
           /\ MaxPush < HeadMod /\ MaxClears \in Nat
           /\ \A n \in Nat : n # None /\ n # Torn
  BY CapAssumption, BoundAssumption, NoneAssumption DEF NoWrap

LEMMA SmallMod ==
    ASSUME NEW R \in Nat \ {0}, NEW a \in 0..(R - 1)
    PROVE  a % R = a
  OBVIOUS

LEMMA AdjustedIsLatest ==
    ASSUME NoWrap, NEW hf \in [head : 0..MaxPush, writing : BOOLEAN],
           NEW position \in 0..hf.head
    PROVE  /\ Adjusted(hf, position) = IF position >= Low(hf) THEN position ELSE Low(hf)
           /\ Adjusted(hf, position) \in 0..hf.head
           /\ Adjusted(hf, position) >= Low(hf)
           /\ Adjusted(hf, position) >= position
<1> DEFINE d == hf.head - position
           m == IF hf.writing THEN Cap - 1 ELSE Cap
           l == hf.head - m
<1>1. d \in 0..(2 * HeadMod - 1) /\ 2 * HeadMod \in Nat \ {0} /\ m \in Nat
  BY Sizes
<1>2. d % (2 * HeadMod) = d
  BY <1>1, SmallMod
<1>3. CASE d > m
  <2>1. l \in 0..(HeadMod - 1) /\ HeadMod \in Nat \ {0}
    BY <1>1, <1>3, Sizes
  <2>2. l % HeadMod = l
    BY <2>1, SmallMod
  <2>3. Adjusted(hf, position) = l
    BY <1>2, <1>3, <2>2 DEF Adjusted
  <2> QED
    BY <1>1, <1>3, <2>1, <2>3 DEF Low
<1>4. CASE ~(d > m)
  <2>1. Adjusted(hf, position) = position
    BY <1>2, <1>4 DEF Adjusted
  <2> QED
    BY <1>1, <1>4, <2>1 DEF Low
<1> QED
  BY <1>3, <1>4

\* Two positions less than Cap apart have different slots.
LEMMA SlotsDiffer ==
    ASSUME NEW C \in Nat \ {0}, NEW p \in Nat, NEW q \in Nat, p < q, q - p < C
    PROVE  p % C # q % C
<1> SUFFICES ASSUME p % C = q % C PROVE FALSE
  OBVIOUS
<1>1. PICK a \in Int : p = C * a + (p % C)
  <2>1. p = C * (p \div C) + (p % C) /\ p \div C \in Int
    OBVIOUS
  <2> QED
    BY <2>1
<1>2. PICK b \in Int : q = C * b + (q % C)
  <2>1. q = C * (q \div C) + (q % C) /\ q \div C \in Int
    OBVIOUS
  <2> QED
    BY <2>1
<1>3. p % C \in 0..(C - 1)
  OBVIOUS
<1>4. q - p = C * (b - a)
  BY <1>1, <1>2, <1>3
<1>5. CASE b - a <= 0
  BY <1>4, <1>5
<1>6. CASE b - a >= 1
  <2>1. C * (b - a) >= C
    BY <1>6
  <2> QED
    BY <1>4, <2>1
<1> QED
  BY <1>5, <1>6

LEMMA SlotType ==
    ASSUME NoWrap, NEW p \in Nat PROVE Slot(p) \in 0..(Cap - 1)
<1>1. \A C \in Nat \ {0} : p % C \in 0..(C - 1)
  OBVIOUS
<1> QED
  BY <1>1, Sizes DEF Slot

-----------------------------------------------------------------------------
(* The waiting elements as a sequence *)

Waiting(from, to) == [i \in 1..(to - from) |-> from + i]

LEMMA WaitingFacts ==
    ASSUME NEW from \in Nat, NEW to \in Nat, from <= to
    PROVE  /\ Waiting(from, to) \in Seq(Nat)
           /\ Len(Waiting(from, to)) = to - from
           /\ Append(Waiting(from, to), to + 1) = Waiting(from, to + 1)
           /\ from = to => Waiting(from, to) = <<>>
           /\ from < to => /\ Waiting(from, to) # <<>>
                           /\ Head(Waiting(from, to)) = from + 1
                           /\ Tail(Waiting(from, to)) = Waiting(from + 1, to)
<1> DEFINE n == to - from
           w == [i \in 1..n |-> from + i]
<1>1. n \in Nat /\ \A i \in 1..n : from + i \in Nat
  OBVIOUS
<1>2. w \in Seq(Nat) /\ Len(w) = n
  BY <1>1
<1>3. Append(w, to + 1) = Waiting(from, to + 1)
  BY <1>1, <1>2 DEF Waiting
<1>4. ASSUME from = to PROVE w = <<>>
  BY <1>4
<1>5. ASSUME from < to
      PROVE  w # <<>> /\ Head(w) = from + 1 /\ Tail(w) = Waiting(from + 1, to)
  <2> DEFINE v == [i \in 1..(to - (from + 1)) |-> (from + 1) + i]
  <2>1. w # <<>> /\ w[1] = from + 1
    BY <1>2, <1>5
  <2>2. v \in Seq(Nat) /\ Len(v) = n - 1
    BY <1>5
  <2>4. \A i \in 1..(n - 1) : w[i + 1] = v[i]
    BY <1>5
  <2> HIDE DEF v, w, n
  <2>3. /\ Tail(w) \in Seq(Nat) /\ Len(Tail(w)) = n - 1
        /\ \A i \in 1..(n - 1) : Tail(w)[i] = w[i + 1]
    <3>1. /\ Tail(w) \in Seq(Nat) /\ Len(Tail(w)) = Len(w) - 1
          /\ \A i \in 1..Len(Tail(w)) : Tail(w)[i] = w[i + 1]
      BY <1>2, <2>1, HeadTailProperties, Zenon
    <3> QED
      BY <1>2, <3>1
  <2>5. Tail(w) = v
    <3>1. Len(Tail(w)) = Len(v) /\ \A i \in 1..Len(Tail(w)) : Tail(w)[i] = v[i]
      BY <2>2, <2>3, <2>4
    <3> QED
      BY <2>2, <2>3, <3>1, SeqEqual, Zenon
  <2>6. Head(w) = w[1]
    BY <1>2, <2>1
  <2> QED
    BY <2>1, <2>5, <2>6 DEF Waiting, v, w, n
<1> QED
  BY <1>2, <1>3, <1>4, <1>5 DEF Waiting

-----------------------------------------------------------------------------
(* The invariant *)

LEMMA InvInit == ASSUME NoWrap, Init PROVE Inv
<1>1. TypeOK
  BY Sizes DEF Init, TypeOK
<1>2. ProducerInv /\ ConsumerInv /\ BufferInv /\ ReadInv
  BY DEF Init, ProducerInv, ConsumerInv, InPop, BufferInv, ReadInv
<1> QED
  BY <1>1, <1>2 DEF Inv

\* The numbers of a state, for the provers.
LEMMA Ranges ==
    ASSUME NoWrap, TypeOK, ProducerInv, ConsumerInv
    PROVE  /\ head_fields \in [head : 0..MaxPush, writing : BOOLEAN]
           /\ head_fields.head \in Nat /\ producer.pushed \in 0..MaxPush
           /\ tail \in 0..head_fields.head /\ reset.pos \in 0..head_fields.head
           /\ consumer.t \in Nat
           /\ Low(head_fields) \in Int
           /\ Cap \in Nat \ {0}
  BY Sizes DEF TypeOK, ProducerInv, ConsumerInv, Low

LEMMA Versions ==
    ASSUME TypeOK
    PROVE  /\ reset.ver \in 0..MaxClears /\ local_ver \in 0..MaxClears
           /\ consumer.ver \in 0..MaxClears
  BY DEF TypeOK

LEMMA AfterPush ==
    ASSUME NoWrap, Inv, PushEven
    PROVE  /\ head_fields' = [head |-> head_fields.head + 1, writing |-> FALSE]
           /\ head_fields.head + 1 = producer.pushed + 1
           /\ producer' = [at |-> "idle", pushed |-> producer.pushed + 1]
           /\ producer.pushed + 1 \in 1..MaxPush
           /\ Low(head_fields') = Low(head_fields)
           /\ buf' = [buf EXCEPT ![Slot(head_fields.head)] = head_fields.head + 1]
<1>1. head_fields.head = producer.pushed /\ producer.pushed + 1 \in 1..MaxPush
  <2>1. head_fields.head = producer.pushed /\ producer.pushed < MaxPush
    BY DEF PushEven, Inv, ProducerInv
  <2>2. producer.pushed \in 0..MaxPush /\ MaxPush \in Nat
    BY Ranges, Sizes DEF Inv
  <2> QED
    BY <2>1, <2>2
<1>2. head_fields.head + 1 \in 0..(HeadMod - 1) /\ HeadMod \in Nat \ {0}
  BY <1>1, Sizes
<1>3. (head_fields.head + 1) % HeadMod = head_fields.head + 1
  BY <1>2, SmallMod
<1>4. head_fields.writing = TRUE
  BY DEF PushEven, Inv, ProducerInv, TypeOK
<1>5. head_fields' = [head |-> head_fields.head + 1, writing |-> FALSE]
  BY <1>3 DEF PushEven
<1>6. Low(head_fields') = Low(head_fields)
  <2>1. head_fields.head \in Nat /\ Cap \in Nat
    BY Ranges, Sizes DEF Inv
  <2>2. head_fields'.head = head_fields.head + 1 /\ head_fields'.writing = FALSE
    BY <1>5
  <2> QED
    BY <1>4, <2>1, <2>2 DEF Low
<1>7. /\ producer' = [at |-> "idle", pushed |-> producer.pushed + 1]
      /\ buf' = [buf EXCEPT ![Slot(head_fields.head)] = head_fields.head + 1]
  BY <1>1 DEF PushEven
<1> QED
  BY <1>1, <1>5, <1>6, <1>7

LEMMA TypeStep == ASSUME NoWrap, Inv, [Next]_vars PROVE TypeOK'
<1> USE DEF Inv
<1>1. CASE PushOdd
  BY <1>1 DEF PushOdd, TypeOK
<1>2. CASE PushWrite
  BY <1>2 DEF PushWrite, TypeOK
<1>3. CASE PushEven
  <2>1. /\ head_fields' \in [head : 0..(HeadMod - 1), writing : BOOLEAN]
        /\ producer' \in [at : {"idle", "write", "even", "bump"}, pushed : 0..MaxPush]
    <3>1. head_fields' = [head |-> producer.pushed + 1, writing |-> FALSE]
          /\ producer' = [at |-> "idle", pushed |-> producer.pushed + 1]
          /\ producer.pushed + 1 \in 1..MaxPush
      BY <1>3, AfterPush
    <3>2. producer.pushed + 1 \in 0..(HeadMod - 1) /\ producer.pushed + 1 \in 0..MaxPush
      BY <3>1, Sizes
    <3> QED
      BY <3>1, <3>2
  <2>2. buf' \in [0..(Cap - 1) -> 0..MaxPush \cup {Torn}]
    <3>1. buf' = [buf EXCEPT ![Slot(head_fields.head)] = producer.pushed + 1]
          /\ producer.pushed + 1 \in 0..MaxPush
      BY <1>3, AfterPush
    <3> QED
      BY <3>1 DEF TypeOK
  <2> QED
    BY <1>3, <2>1, <2>2 DEF PushEven, TypeOK
<1>4. CASE ClearPosition
  BY <1>4 DEF ClearPosition, TypeOK
<1>5. CASE ClearPublish
  <2>1. reset.ver + 1 \in 0..MaxClears
    <3>1. reset.ver < MaxClears
      BY <1>5 DEF ClearPublish, ProducerInv
    <3> QED
      BY <3>1, Versions, Sizes
  <2> QED
    BY <1>5, <2>1 DEF ClearPublish, TypeOK
<1>6. CASE PopCheck
  BY <1>6 DEF PopCheck, TypeOK
<1>7. CASE PopReset
  BY <1>7 DEF PopReset, Goes, TypeOK
<1>8. CASE PopEmpty
  BY <1>8 DEF PopEmpty, Goes, TypeOK
<1>9. CASE PopHead
  <2>1. Adjusted(head_fields, tail) \in 0..(HeadMod - 1)
    BY AdjustedIsLatest, Ranges, Sizes
  <2> QED
    BY <1>9, <2>1 DEF PopHead, TypeOK
<1>10. CASE PopRead
  <2>1. buf[Slot(consumer.t)] \in 0..MaxPush \cup {Torn}
    BY SlotType, Ranges DEF TypeOK
  <2> QED
    BY <1>10, <2>1 DEF PopRead, TypeOK
<1>11. CASE PopRecheck
  BY <1>11 DEF PopRecheck, Goes, TypeOK
<1>12. CASE PopDiscarded
  BY <1>12 DEF PopDiscarded, TypeOK
<1>13. CASE PopDone
  <2>1. consumer.t + 1 \in 0..(HeadMod - 1) /\ HeadMod \in Nat \ {0}
    BY <1>13, Ranges, Sizes DEF PopDone, ConsumerInv
  <2>2. tail' \in 0..(HeadMod - 1)
    BY <1>13, <2>1, SmallMod DEF PopDone
  <2> QED
    BY <1>13, <2>2 DEF PopDone, Goes, TypeOK
<1>14. CASE ClearFromConsumer
  BY <1>14 DEF ClearFromConsumer, TypeOK
<1>15. CASE UNCHANGED vars
  BY <1>15 DEF vars, TypeOK
<1> QED
  BY <1>1, <1>2, <1>3, <1>4, <1>5, <1>6, <1>7, <1>8, <1>9, <1>10, <1>11, <1>12, <1>13,
     <1>14, <1>15 DEF Next, Push, Pop

LEMMA ProducerStep == ASSUME NoWrap, Inv, [Next]_vars PROVE ProducerInv'
<1> USE DEF Inv
<1>1. CASE PushOdd
  BY <1>1 DEF PushOdd, TypeOK, ProducerInv
<1>2. CASE PushWrite
  BY <1>2 DEF PushWrite, TypeOK, ProducerInv
<1>3. CASE PushEven
  <2>1. reset' = reset /\ reset.pos \in Nat /\ head_fields.head \in Nat
    BY <1>3, Ranges DEF PushEven
  <2> QED
    BY <1>3, <2>1, AfterPush DEF ProducerInv
<1>4. CASE ClearPosition
  BY <1>4, Ranges DEF ClearPosition, TypeOK, ProducerInv
<1>5. CASE ClearPublish
  BY <1>5 DEF ClearPublish, TypeOK, ProducerInv
<1>6. CASE UNCHANGED <<head_fields, reset, producer>>
  BY <1>6 DEF ProducerInv
<1> QED
  BY <1>1, <1>2, <1>3, <1>4, <1>5, <1>6
     DEF Next, Push, Pop, vars, PopCheck, PopReset, PopEmpty, PopHead, PopRead, PopRecheck,
         PopDiscarded, PopDone, ClearFromConsumer

LEMMA ConsumerStep == ASSUME NoWrap, Inv, [Next]_vars PROVE ConsumerInv'
<1> USE DEF Inv
<1>0. /\ head_fields.head \in Nat /\ tail \in 0..head_fields.head
      /\ reset.pos \in 0..head_fields.head /\ consumer.t \in Nat
      /\ local_ver \in Nat /\ consumer.ver \in Nat /\ reset.ver \in Nat
  <2>1. local_ver \in Nat /\ consumer.ver \in Nat /\ reset.ver \in Nat
    BY Versions, Sizes
  <2> QED
    BY <2>1, Ranges
<1>1. CASE PushOdd
  <2>1. head_fields'.head = head_fields.head
    BY <1>1 DEF PushOdd, TypeOK
  <2> QED
    BY <1>1, <2>1 DEF PushOdd, ConsumerInv, InPop
<1>2. CASE PushWrite
  BY <1>2 DEF PushWrite, ConsumerInv, InPop
<1>3. CASE PushEven
  <2>1. head_fields'.head = head_fields.head + 1
    BY <1>3, AfterPush
  <2>2. UNCHANGED <<tail, reset, local_ver, consumer>>
    BY <1>3 DEF PushEven
  <2> QED
    BY <1>0, <2>1, <2>2 DEF ConsumerInv, InPop
<1>4. CASE ClearPosition
  <2>1. reset'.pos = head_fields.head /\ reset'.ver = reset.ver
    BY <1>4 DEF ClearPosition, TypeOK
  <2> QED
    BY <1>0, <1>4, <2>1 DEF ClearPosition, ConsumerInv, InPop
<1>5. CASE ClearPublish
  <2>1. reset'.pos = reset.pos /\ reset'.ver = reset.ver + 1
    BY <1>5 DEF ClearPublish, TypeOK
  <2>2. reset.pos = head_fields.head
    BY <1>5 DEF ClearPublish, ProducerInv
  <2> QED
    BY <1>0, <1>5, <2>1, <2>2 DEF ClearPublish, ConsumerInv, InPop
<1>6. CASE PopCheck
  <2>1. UNCHANGED <<head_fields, tail, reset, local_ver>>
    BY <1>6 DEF PopCheck
  <2>2. CASE reset.ver = local_ver
    <3>1. consumer'.at = "head" /\ consumer'.ver = consumer.ver
      BY <1>6, <2>2 DEF PopCheck, TypeOK
    <3> QED
      BY <1>0, <2>1, <2>2, <3>1 DEF ConsumerInv, InPop
  <2>3. CASE reset.ver # local_ver
    <3>1. consumer'.at = "reset" /\ consumer'.ver = reset.ver
      BY <1>6, <2>3 DEF PopCheck, TypeOK
    <3> QED
      BY <1>0, <2>1, <3>1 DEF ConsumerInv, InPop
  <2> QED
    BY <2>2, <2>3
<1>7. CASE PopReset
  <2>1. consumer'.at \in {"head", "loop"} /\ consumer'.ver = consumer.ver
    BY <1>7 DEF PopReset, Goes, TypeOK
  <2> QED
    BY <1>0, <1>7, <2>1 DEF PopReset, ConsumerInv, InPop
<1>8. CASE PopEmpty
  <2>1. consumer'.at = "idle" /\ consumer'.ver = consumer.ver
    BY <1>8 DEF PopEmpty, Goes, TypeOK
  <2> QED
    BY <1>8, <2>1 DEF PopEmpty, ConsumerInv, InPop
<1>9. CASE PopHead
  <2>1. /\ consumer'.at = "read" /\ consumer'.ver = consumer.ver
        /\ consumer'.t = Adjusted(head_fields, tail)
    BY <1>9 DEF PopHead, TypeOK
  <2>2. /\ Adjusted(head_fields, tail) \in 0..head_fields.head
        /\ Adjusted(head_fields, tail) >= tail
    BY Ranges, AdjustedIsLatest
  <2>3. Adjusted(head_fields, tail) < head_fields.head
    BY <1>0, <1>9, <2>2 DEF PopHead
  <2> QED
    BY <1>9, <2>1, <2>2, <2>3 DEF PopHead, ConsumerInv, InPop
<1>10. CASE PopRead
  <2>1. consumer'.at = "recheck" /\ consumer'.ver = consumer.ver /\ consumer'.t = consumer.t
    BY <1>10 DEF PopRead, TypeOK
  <2> QED
    BY <1>10, <2>1 DEF PopRead, ConsumerInv, InPop
<1>11. CASE PopRecheck
  <2>1. /\ consumer'.at \in {"confirm", "loop"} /\ consumer'.ver = consumer.ver
        /\ consumer'.t = consumer.t
    BY <1>11 DEF PopRecheck, Goes, TypeOK
  <2> QED
    BY <1>11, <2>1 DEF PopRecheck, ConsumerInv, InPop
<1>12. CASE PopDiscarded
  <2>1. consumer'.at = "reset_again" /\ consumer'.ver = reset.ver
    BY <1>12 DEF PopDiscarded, TypeOK
  <2> QED
    BY <1>0, <1>12, <2>1 DEF PopDiscarded, ConsumerInv, InPop
<1>13. CASE PopDone
  <2>1. consumer'.at = "idle" /\ consumer'.ver = consumer.ver
    BY <1>13 DEF PopDone, Goes, TypeOK
  <2>2. consumer.t + 1 \in 0..(HeadMod - 1) /\ HeadMod \in Nat \ {0}
        /\ consumer.t + 1 <= head_fields.head
    BY <1>0, <1>13, Ranges, Sizes DEF PopDone, ConsumerInv
  <2>3. tail' = consumer.t + 1
    BY <1>13, <2>2, SmallMod DEF PopDone
  <2> QED
    BY <1>13, <2>1, <2>2, <2>3 DEF PopDone, ConsumerInv, InPop
<1>14. CASE ClearFromConsumer
  BY <1>0, <1>14 DEF ClearFromConsumer, ConsumerInv, InPop
<1>15. CASE UNCHANGED vars
  BY <1>15 DEF vars, ConsumerInv, InPop
<1> QED
  BY <1>1, <1>2, <1>3, <1>4, <1>5, <1>6, <1>7, <1>8, <1>9, <1>10, <1>11, <1>12, <1>13,
     <1>14, <1>15 DEF Next, Push, Pop

\* A push in progress spoils only what is no longer safe to read.
LEMMA SafeSlots ==
    ASSUME NoWrap, Inv, head_fields.writing, NEW p \in 0..(head_fields.head - 1),
           p >= Low(head_fields)
    PROVE  Slot(p) # Slot(head_fields.head)
<1>1. head_fields.head \in Nat /\ Cap \in Nat \ {0} /\ p \in Nat /\ p < head_fields.head
  BY Ranges, Sizes DEF Inv
<1>2. head_fields.head - p < Cap
  BY <1>1 DEF Low
<1> QED
  BY <1>1, <1>2, SlotsDiffer DEF Slot

LEMMA BufferStep == ASSUME NoWrap, Inv, [Next]_vars PROVE BufferInv'
<1> USE DEF Inv
<1>0. head_fields.head \in Nat /\ Cap \in Nat \ {0} /\ Low(head_fields) \in Int
  BY Ranges
<1>1. CASE PushOdd
  <2>1. head_fields'.head = head_fields.head /\ head_fields'.writing = TRUE
    BY <1>1 DEF PushOdd, TypeOK
  <2>2. Low(head_fields') >= Low(head_fields) /\ Low(head_fields') \in Int
    BY <1>0, <2>1 DEF Low, TypeOK
  <2>3. \A p \in 0..(head_fields.head - 1) :
          p >= Low(head_fields') => p >= Low(head_fields)
    BY <1>0, <2>2
  <2> QED
    BY <1>1, <2>1, <2>3 DEF PushOdd, BufferInv
<1>2. CASE PushWrite
  <2>1. head_fields.writing /\ head_fields' = head_fields
    BY <1>2 DEF PushWrite, ProducerInv
  <2>2. ASSUME NEW p \in 0..(head_fields.head - 1), p >= Low(head_fields)
        PROVE  buf'[Slot(p)] = buf[Slot(p)]
    <3>1. Slot(p) # Slot(head_fields.head)
      BY <2>1, <2>2, SafeSlots
    <3>2. Slot(p) \in 0..(Cap - 1)
      BY SlotType
    <3> QED
      BY <1>2, <3>1, <3>2 DEF PushWrite, TypeOK
  <2> QED
    BY <2>1, <2>2 DEF BufferInv
<1>3. CASE PushEven
  <2>1. head_fields.writing
    BY <1>3 DEF PushEven, ProducerInv
  <2>2. /\ head_fields'.head = head_fields.head + 1
        /\ Low(head_fields') = Low(head_fields)
        /\ buf' = [buf EXCEPT ![Slot(head_fields.head)] = head_fields.head + 1]
    BY <1>3, AfterPush
  <2>3. ASSUME NEW p \in 0..(head_fields.head - 1), p >= Low(head_fields)
        PROVE  buf'[Slot(p)] = p + 1
    <3>1. Slot(p) # Slot(head_fields.head)
      BY <2>1, <2>3, SafeSlots
    <3>2. Slot(p) \in 0..(Cap - 1)
      BY SlotType
    <3>3. buf'[Slot(p)] = buf[Slot(p)]
      BY <2>2, <3>1, <3>2 DEF TypeOK
    <3> QED
      BY <2>3, <3>3 DEF BufferInv
  <2>4. buf'[Slot(head_fields.head)] = head_fields.head + 1
    BY <1>0, <2>2, SlotType DEF TypeOK
  <2>5. \A p \in 0..head_fields.head :
          p \in 0..(head_fields.head - 1) \/ p = head_fields.head
    BY <1>0
  <2>6. head_fields'.head - 1 = head_fields.head
    BY <1>0, <2>2
  <2> QED
    BY <2>2, <2>3, <2>4, <2>5, <2>6 DEF BufferInv
<1>4. CASE UNCHANGED <<head_fields, buf>>
  BY <1>4 DEF BufferInv
<1> QED
  BY <1>1, <1>2, <1>3, <1>4
     DEF Next, Push, Pop, vars, ClearPosition, ClearPublish, PopCheck, PopReset, PopEmpty,
         PopHead, PopRead, PopRecheck, PopDiscarded, PopDone, ClearFromConsumer

LEMMA ReadStep == ASSUME NoWrap, Inv, [Next]_vars PROVE ReadInv'
<1> USE DEF Inv
<1>0. /\ head_fields.head \in Nat /\ Cap \in Nat \ {0} /\ Low(head_fields) \in Int
      /\ consumer.t \in Nat
  BY Ranges
<1>1. CASE PushOdd
  <2>1. head_fields'.head = head_fields.head /\ head_fields'.writing = TRUE
    BY <1>1 DEF PushOdd, TypeOK
  <2>2. Low(head_fields') >= Low(head_fields) /\ Low(head_fields') \in Int
    BY <1>0, <2>1 DEF Low, TypeOK
  <2>3. consumer.t >= Low(head_fields') => consumer.t >= Low(head_fields)
    BY <1>0, <2>2
  <2> QED
    BY <1>1, <2>3 DEF PushOdd, ReadInv
<1>2. CASE PushEven
  <2>1. Low(head_fields') = Low(head_fields)
    BY <1>2, AfterPush
  <2> QED
    BY <1>2, <2>1 DEF PushEven, ReadInv
<1>3. CASE PopRead
  <2>1. /\ consumer'.at = "recheck" /\ consumer'.t = consumer.t
        /\ consumer'.tmp = buf[Slot(consumer.t)]
    BY <1>3 DEF PopRead, TypeOK
  <2>2. consumer.t \in 0..(head_fields.head - 1)
    BY <1>0, <1>3 DEF PopRead, ConsumerInv
  <2> QED
    BY <1>3, <2>1, <2>2 DEF PopRead, ReadInv, BufferInv
<1>4. CASE PopRecheck
  <2>1. consumer'.t = consumer.t /\ consumer'.tmp = consumer.tmp
    BY <1>4 DEF PopRecheck, Goes, TypeOK
  <2>2. CASE Adjusted(head_fields, tail) = consumer.t
    <3>1. consumer.t >= Low(head_fields)
      BY <2>2, Ranges, AdjustedIsLatest
    <3>2. consumer'.at = "confirm"
      BY <1>4, <2>2 DEF PopRecheck, Goes, TypeOK
    <3> QED
      BY <1>4, <2>1, <3>1, <3>2 DEF PopRecheck, ReadInv
  <2>3. CASE Adjusted(head_fields, tail) # consumer.t
    <3>1. consumer'.at = "loop"
      BY <1>4, <2>3 DEF PopRecheck, Goes, TypeOK
    <3> QED
      BY <3>1 DEF ReadInv
  <2> QED
    BY <2>2, <2>3
<1>5. CASE PopCheck \/ PopReset \/ PopEmpty \/ PopHead \/ PopDiscarded \/ PopDone
  <2>1. consumer'.at \notin {"recheck", "confirm"}
    BY <1>5 DEF PopCheck, PopReset, PopEmpty, PopHead, PopDiscarded, PopDone, Goes, TypeOK
  <2> QED
    BY <2>1 DEF ReadInv
<1>6. CASE UNCHANGED <<head_fields, consumer>>
  BY <1>6 DEF ReadInv
<1> QED
  BY <1>1, <1>2, <1>3, <1>4, <1>5, <1>6
     DEF Next, Push, Pop, vars, PushWrite, ClearPosition, ClearPublish, ClearFromConsumer

LEMMA InvStep == ASSUME NoWrap, Inv, [Next]_vars PROVE Inv'
  BY TypeStep, ProducerStep, ConsumerStep, BufferStep, ReadStep DEF Inv

\* While the counter does not wrap, every part of the queue keeps its type, whatever the
\* two sides interleave.
THEOREM TypeCorrect == NoWrap => (Spec => []TypeOK)
<1> SUFFICES ASSUME NoWrap PROVE Spec => []TypeOK
  OBVIOUS
<1>1. Init => Inv
  BY InvInit
<1>2. Inv /\ [Next]_vars => Inv'
  BY InvStep
<1>3. Inv => TypeOK
  BY DEF Inv
<1> QED
  BY <1>1, <1>2, <1>3, PTL DEF Spec

-----------------------------------------------------------------------------
(* The refinement *)

Place == IF Resetting THEN reset.pos ELSE IF Taken THEN consumer.t + 1 ELSE tail
ItemsBar == Waiting(Front, head_fields.head)
HeldBar == IF Taken THEN consumer.tmp ELSE None

LEMMA LowIsBehind == ASSUME NoWrap, Inv PROVE head_fields.head >= Low(head_fields)
  BY Ranges DEF Inv, Low

LEMMA FrontFacts ==
    ASSUME NoWrap, Inv
    PROVE  /\ Place \in 0..head_fields.head /\ head_fields.head \in 0..MaxPush
           /\ Front = IF Place >= Low(head_fields) THEN Place ELSE Low(head_fields)
           /\ Front \in 0..head_fields.head
<1>1. Place \in 0..head_fields.head
  BY Ranges DEF Inv, Place, Taken, ConsumerInv
<1>2. head_fields \in [head : 0..MaxPush, writing : BOOLEAN]
  BY Ranges DEF Inv
<1>3. Front = Adjusted(head_fields, Place)
  BY DEF Front, Place
<1> QED
  BY <1>1, <1>2, <1>3, AdjustedIsLatest

\* The same of the state after a step.
LEMMA FrontLater ==
    ASSUME NoWrap
    PROVE  Inv' => (Front = IF Place >= Low(head_fields) THEN Place ELSE Low(head_fields))'
<1>1. Inv => Front = IF Place >= Low(head_fields) THEN Place ELSE Low(head_fields)
  BY FrontFacts
<1> QED
  BY <1>1, PTL

LEMMA ItemsFacts ==
    ASSUME NoWrap, Inv
    PROVE  /\ Len(ItemsBar) = head_fields.head - Front
           /\ Append(ItemsBar, head_fields.head + 1) = Waiting(Front, head_fields.head + 1)
           /\ Front = head_fields.head => ItemsBar = <<>>
           /\ Front < head_fields.head =>
                 /\ ItemsBar # <<>> /\ Head(ItemsBar) = Front + 1
                 /\ Tail(ItemsBar) = Waiting(Front + 1, head_fields.head)
<1>1. Front \in 0..head_fields.head /\ head_fields.head \in 0..MaxPush /\ MaxPush \in Nat
  BY FrontFacts, Sizes
<1>2. Front \in Nat /\ head_fields.head \in Nat /\ Front <= head_fields.head
  BY <1>1
<1> QED
  BY <1>2, WaitingFacts DEF ItemsBar

LEMMA Exclusive == Taken => ~Resetting
  BY DEF Taken, Resetting

\* What a step does to the abstract queue, from what it does to the positions.
LEMMA StutterRefines ==
    ASSUME Front' = Front, HeldBar' = HeldBar,
           UNCHANGED <<head_fields.head, producer.pushed, out>>
    PROVE  UNCHANGED Fifo!fifoVars
<1>1. ItemsBar' = ItemsBar
  BY DEF ItemsBar, Waiting
<1> QED
  BY <1>1 DEF Fifo!fifoVars, ItemsBar, Waiting, HeldBar

\* Everything that waits is dropped, and what was taken.
LEMMA ClearRefines ==
    ASSUME NoWrap, Inv, Inv', Front' = head_fields.head, HeldBar' = None,
           UNCHANGED <<head_fields.head, producer.pushed, out>>
    PROVE  Fifo!Clear
<1>1. ItemsBar' = <<>>
  <2>1. Waiting(head_fields.head, head_fields.head) = <<>>
    BY Ranges, WaitingFacts DEF Inv
  <2>2. ItemsBar' = Waiting(head_fields.head, head_fields.head)
    BY DEF ItemsBar, Waiting
  <2> QED
    BY <2>1, <2>2
<1> QED
  BY <1>1 DEF Fifo!Clear, ItemsBar, Waiting, HeldBar

LEMMA PushOddRefines ==
    ASSUME NoWrap, Inv, Inv', PushOdd PROVE Fifo!Discard \/ UNCHANGED Fifo!fifoVars
<1>1. /\ head_fields'.head = head_fields.head /\ head_fields'.writing = TRUE
      /\ head_fields.writing = FALSE /\ producer'.pushed = producer.pushed
      /\ UNCHANGED <<tail, reset, local_ver, consumer, out>>
  BY DEF PushOdd, Inv, TypeOK, ProducerInv
<1>2. HeldBar' = HeldBar /\ Place' = Place
  BY <1>1 DEF HeldBar, Place, Taken, Resetting
<1>3. Cap \in Nat \ {0} /\ head_fields.head \in Nat
  BY Ranges DEF Inv
<1>4. Low(head_fields) = head_fields.head - Cap /\ Low(head_fields') = head_fields.head - Cap + 1
  BY <1>1, <1>3 DEF Low
<1>5. /\ Place \in 0..head_fields.head
      /\ Front = IF Place >= Low(head_fields) THEN Place ELSE Low(head_fields)
      /\ Front' = IF Place' >= Low(head_fields') THEN Place' ELSE Low(head_fields')
  BY FrontFacts, FrontLater
<1>6. CASE Place > head_fields.head - Cap
  <2>1. Front' = Front
    BY <1>2, <1>3, <1>4, <1>5, <1>6
  <2> QED
    BY <1>1, <1>2, <2>1, StutterRefines
<1>7. CASE Place <= head_fields.head - Cap
  <2>1. Front = head_fields.head - Cap /\ Front' = Front + 1
    <3>1. ~(Place >= head_fields.head - Cap + 1) /\ Place \in Int
      BY <1>3, <1>5, <1>7
    <3>2. Front' = head_fields.head - Cap + 1
      BY <1>2, <1>4, <1>5, <3>1
    <3>3. Front = head_fields.head - Cap
      BY <1>3, <1>4, <1>5, <1>7
    <3>4. head_fields.head - Cap + 1 = (head_fields.head - Cap) + 1
      OBVIOUS
    <3> QED
      BY <3>2, <3>3, <3>4, Zenon
  <2>2. Len(ItemsBar) = Cap /\ Tail(ItemsBar) = Waiting(Front + 1, head_fields.head)
    BY <1>3, <2>1, ItemsFacts
  <2>3. ItemsBar' = Tail(ItemsBar)
    BY <1>1, <2>1, <2>2 DEF ItemsBar, Waiting
  <2> QED
    BY <1>1, <1>2, <2>2, <2>3 DEF Fifo!Discard, ItemsBar, Waiting, HeldBar
<1> QED
  BY <1>3, <1>5, <1>6, <1>7

LEMMA PushEvenRefines ==
    ASSUME NoWrap, Inv, Inv', PushEven PROVE Fifo!Push
<1>1. /\ head_fields'.head = head_fields.head + 1
      /\ producer'.pushed = producer.pushed + 1 /\ producer.pushed = head_fields.head
      /\ Low(head_fields') = Low(head_fields)
  BY AfterPush DEF Inv, ProducerInv
<1>2. UNCHANGED <<tail, reset, local_ver, consumer, out>>
  BY DEF PushEven
<1>3. HeldBar' = HeldBar /\ Place' = Place
  BY <1>2 DEF HeldBar, Place, Taken, Resetting
<1>4. Front' = Front
  BY <1>1, <1>3, FrontFacts, FrontLater
<1>5. Len(ItemsBar) < Cap
  <2>1. head_fields.writing = TRUE
    BY DEF PushEven, Inv, ProducerInv, TypeOK
  <2>2. Low(head_fields) = head_fields.head - (Cap - 1) /\ Cap \in Nat
        /\ head_fields.head \in Nat
    BY <2>1, Ranges DEF Low, Inv
  <2>3. /\ Len(ItemsBar) = head_fields.head - Front /\ Place \in 0..head_fields.head
        /\ Front = IF Place >= Low(head_fields) THEN Place ELSE Low(head_fields)
    BY FrontFacts, ItemsFacts
  <2> QED
    BY <2>2, <2>3
<1>6. ItemsBar' = Append(ItemsBar, producer.pushed + 1)
  BY <1>1, <1>4, ItemsFacts DEF ItemsBar, Waiting
<1> QED
  BY <1>1, <1>2, <1>3, <1>5, <1>6 DEF Fifo!Push, ItemsBar, Waiting, HeldBar

LEMMA ClearPositionRefines ==
    ASSUME NoWrap, Inv, Inv', ClearPosition
    PROVE  Fifo!Clear \/ UNCHANGED Fifo!fifoVars
<1>1. /\ reset'.pos = head_fields.head /\ reset'.ver = reset.ver
      /\ producer'.pushed = producer.pushed
      /\ UNCHANGED <<head_fields, tail, local_ver, consumer, out>>
  BY DEF ClearPosition, Inv, TypeOK
<1>2. Resetting' = Resetting /\ Taken' = Taken
  BY <1>1 DEF Resetting, Taken
<1>3. CASE Resetting
  <2>1. Place' = head_fields.head /\ HeldBar' = None
    BY <1>1, <1>2, <1>3, Exclusive DEF Place, HeldBar
  <2>2. Front' = head_fields.head
    BY <1>1, <2>1, FrontLater, LowIsBehind
  <2> QED
    BY <1>1, <2>1, <2>2, ClearRefines
<1>4. CASE ~Resetting
  <2>1. Place' = Place /\ HeldBar' = HeldBar
    BY <1>1, <1>2, <1>4 DEF Place, HeldBar
  <2>2. Front' = Front
    BY <1>1, <2>1 DEF Front, Place
  <2> QED
    BY <1>1, <2>1, <2>2, StutterRefines
<1> QED
  BY <1>3, <1>4

LEMMA ClearPublishRefines ==
    ASSUME NoWrap, Inv, Inv', ClearPublish PROVE Fifo!Clear
<1>1. /\ reset'.pos = reset.pos /\ reset'.ver = reset.ver + 1
      /\ producer'.pushed = producer.pushed /\ reset.pos = head_fields.head
      /\ UNCHANGED <<head_fields, tail, local_ver, consumer, out>>
  BY DEF ClearPublish, Inv, TypeOK, ProducerInv
<1>2. reset'.ver # local_ver'
  BY <1>1, Sizes DEF Inv, TypeOK, ConsumerInv
<1>3. Resetting' /\ ~Taken'
  BY <1>2 DEF Resetting, Taken
<1>4. Place' = head_fields.head /\ HeldBar' = None
  BY <1>1, <1>3 DEF Place, HeldBar
<1>5. Front' = head_fields.head
  BY <1>1, <1>4, FrontLater, LowIsBehind
<1> QED
  BY <1>1, <1>4, <1>5, ClearRefines

\* The steps of pop() that only look.
LEMMA LookRefines ==
    ASSUME NoWrap, Inv, UNCHANGED <<head_fields, producer, reset, out>>,
           Place' = Place, ~Taken, ~Taken'
    PROVE  UNCHANGED Fifo!fifoVars
<1>1. Front' = Front
  BY DEF Front, Place
<1>2. HeldBar' = HeldBar
  BY DEF HeldBar
<1> QED
  BY <1>1, <1>2, StutterRefines

LEMMA PopLooks ==
    ASSUME NoWrap, Inv, PopCheck \/ PopReset \/ PopHead \/ PopRead \/ PopDiscarded
    PROVE  UNCHANGED Fifo!fifoVars
<1> USE DEF Inv
<1>1. CASE PopCheck
  <2>1. UNCHANGED <<head_fields, tail, reset, local_ver, producer, out>>
        /\ ~Taken /\ ~Taken'
    BY <1>1 DEF PopCheck, Taken, TypeOK
  <2>2. Resetting' = Resetting
    BY <1>1 DEF PopCheck, Resetting, TypeOK
  <2> QED
    BY <2>1, <2>2, LookRefines DEF Place
<1>2. CASE PopReset
  <2>1. UNCHANGED <<head_fields, reset, producer, out>> /\ tail' = reset.pos
        /\ ~Taken /\ ~Taken' /\ Resetting
    BY <1>2 DEF PopReset, Goes, Taken, Resetting, TypeOK
  <2> QED
    BY <2>1, LookRefines DEF Place
<1>3. CASE PopHead
  <2>1. UNCHANGED <<head_fields, tail, reset, local_ver, producer, out>>
        /\ ~Taken /\ ~Taken' /\ Resetting' = Resetting
    BY <1>3 DEF PopHead, Taken, Resetting, TypeOK
  <2> QED
    BY <2>1, LookRefines DEF Place
<1>4. CASE PopRead
  <2>1. UNCHANGED <<head_fields, tail, reset, local_ver, producer, out>>
        /\ ~Taken /\ ~Taken' /\ Resetting' = Resetting
    BY <1>4 DEF PopRead, Taken, Resetting, TypeOK
  <2> QED
    BY <2>1, LookRefines DEF Place
<1>5. CASE PopDiscarded
  <2>1. UNCHANGED <<head_fields, tail, reset, local_ver, producer, out>>
        /\ ~Taken /\ ~Taken' /\ Resetting' /\ Resetting
    BY <1>5 DEF PopDiscarded, Taken, Resetting, TypeOK
  <2> QED
    BY <2>1, LookRefines DEF Place
<1> QED
  BY <1>1, <1>2, <1>3, <1>4, <1>5

LEMMA PopEmptyRefines ==
    ASSUME NoWrap, Inv, PopEmpty PROVE Fifo!FindEmpty
<1>1. /\ UNCHANGED <<head_fields, tail, reset, local_ver, producer>> /\ out' = None
      /\ ~Taken /\ ~Taken' /\ Resetting' = Resetting
  BY DEF PopEmpty, Goes, Taken, Resetting, Inv, TypeOK
<1>2. tail <= Place
  <2>1. tail \in Nat
    BY Ranges DEF Inv
  <2> QED
    BY <1>1, <2>1 DEF PopEmpty, Place, Resetting, Inv, ConsumerInv, InPop
<1>3. head_fields.head = IF tail >= Low(head_fields) THEN tail ELSE Low(head_fields)
  BY Ranges, AdjustedIsLatest DEF PopEmpty, Inv
<1>4. Front = head_fields.head
  BY <1>2, <1>3, FrontFacts, Ranges DEF Inv
<1>5. ItemsBar = <<>> /\ HeldBar = None /\ HeldBar' = None
  BY <1>1, <1>4, ItemsFacts DEF HeldBar
<1>6. ItemsBar' = ItemsBar
  <2>1. Place' = Place
    BY <1>1 DEF Place
  <2> QED
    BY <1>1, <2>1 DEF ItemsBar, Waiting, Front, Place
<1> QED
  BY <1>1, <1>5, <1>6 DEF Fifo!FindEmpty, ItemsBar, Waiting, HeldBar

LEMMA PopRecheckRefines ==
    ASSUME NoWrap, Inv, Inv', PopRecheck
    PROVE  Fifo!Take \/ UNCHANGED Fifo!fifoVars
<1>1. /\ UNCHANGED <<head_fields, tail, reset, local_ver, producer, out>>
      /\ ~Taken /\ Resetting' = Resetting
      /\ consumer'.t = consumer.t /\ consumer'.tmp = consumer.tmp
  BY DEF PopRecheck, Goes, Taken, Resetting, Inv, TypeOK
<1>2. CASE ~Taken'
  <2>1. Place' = Place
    BY <1>1, <1>2 DEF Place
  <2> QED
    BY <1>1, <1>2, <2>1, LookRefines
<1>3. CASE Taken'
  <2>1. ~Resetting /\ consumer'.at = "confirm"
    BY <1>1, <1>3 DEF Taken, Resetting
  <2>2. Adjusted(head_fields, tail) = consumer.t
    BY <2>1 DEF PopRecheck, Goes, Inv, TypeOK
  <2>3. Front = consumer.t
    BY <1>1, <2>1, <2>2 DEF Front
  <2>4. /\ consumer.t \in Nat /\ head_fields.head \in Nat
        /\ consumer.t < head_fields.head /\ consumer.t >= Low(head_fields)
        /\ Low(head_fields) \in Int
    BY <2>2, Ranges, AdjustedIsLatest DEF PopRecheck, Inv, ConsumerInv
  <2>5. Place' = consumer.t + 1
    BY <1>1, <1>3, <2>1 DEF Place
  <2>6. Front' = consumer.t + 1
    BY <1>1, <2>4, <2>5, FrontLater
  <2>7. consumer.tmp = consumer.t + 1
    BY <2>4 DEF PopRecheck, Inv, ReadInv
  <2>8. /\ ItemsBar # <<>> /\ Head(ItemsBar) = consumer.t + 1
        /\ Tail(ItemsBar) = Waiting(consumer.t + 1, head_fields.head)
    BY <2>3, <2>4, ItemsFacts
  <2>9. ItemsBar' = Tail(ItemsBar)
    BY <1>1, <2>6, <2>8 DEF ItemsBar, Waiting
  <2>10. HeldBar = None /\ HeldBar' = Head(ItemsBar)
    BY <1>1, <1>3, <2>7, <2>8 DEF HeldBar
  <2> QED
    BY <1>1, <2>8, <2>9, <2>10 DEF Fifo!Take, ItemsBar, Waiting, HeldBar
<1> QED
  BY <1>2, <1>3

LEMMA PopDoneRefines ==
    ASSUME NoWrap, Inv, PopDone PROVE Fifo!Deliver
<1>1. /\ UNCHANGED <<head_fields, reset, local_ver, producer>> /\ out' = consumer.tmp
      /\ Taken /\ ~Taken' /\ ~Resetting /\ ~Resetting'
  BY DEF PopDone, Goes, Taken, Resetting, Inv, TypeOK
<1>2. consumer.t + 1 \in 0..(HeadMod - 1) /\ HeadMod \in Nat \ {0}
  BY Ranges, Sizes DEF PopDone, Inv, ConsumerInv
<1>3. tail' = consumer.t + 1
  BY <1>2, SmallMod DEF PopDone
<1>4. Place' = Place
  BY <1>1, <1>3 DEF Place
<1>5. ItemsBar' = ItemsBar
  BY <1>1, <1>4 DEF ItemsBar, Waiting, Front, Place
<1>6. HeldBar = consumer.tmp /\ HeldBar' = None
  BY <1>1 DEF HeldBar
<1>7. consumer.tmp # None
  <2>1. consumer.tmp = consumer.t + 1 /\ consumer.t + 1 \in Nat
    BY Ranges DEF PopDone, Inv, ReadInv
  <2> QED
    BY <2>1, Sizes
<1> QED
  BY <1>1, <1>5, <1>6, <1>7 DEF Fifo!Deliver, ItemsBar, Waiting, HeldBar

LEMMA ClearFromConsumerRefines ==
    ASSUME NoWrap, Inv, Inv', ClearFromConsumer
    PROVE  Fifo!Clear \/ UNCHANGED Fifo!fifoVars
<1>1. /\ UNCHANGED <<head_fields, reset, local_ver, producer, consumer, out>>
      /\ tail' = head_fields.head
      /\ ~Taken /\ ~Taken' /\ Resetting' = Resetting
  BY DEF ClearFromConsumer, Taken, Resetting
<1>2. CASE Resetting
  BY <1>1, <1>2, LookRefines DEF Place
<1>3. CASE ~Resetting
  <2>1. Place' = head_fields.head /\ HeldBar' = None
    BY <1>1, <1>3 DEF Place, HeldBar
  <2>2. Front' = head_fields.head
    BY <1>1, <2>1, FrontLater, LowIsBehind
  <2> QED
    BY <1>1, <2>1, <2>2, ClearRefines
<1> QED
  BY <1>2, <1>3

LEMMA InitRefines == ASSUME NoWrap, Init PROVE Fifo!Init
<1>1. Inv
  BY InvInit
<1>2. head_fields.head = 0 /\ producer.pushed = 0 /\ ~Taken /\ out = None
  BY DEF Init, Taken
<1>3. Front = head_fields.head
  BY <1>1, <1>2, FrontFacts
<1>4. ItemsBar = <<>>
  BY <1>1, <1>3, ItemsFacts
<1> QED
  BY <1>2, <1>4 DEF Fifo!Init, ItemsBar, Waiting

LEMMA StepRefines ==
    ASSUME NoWrap, Inv, Inv', [Next]_vars
    PROVE  [Fifo!Next]_(Fifo!fifoVars)
<1>1. CASE PushOdd
  BY <1>1, PushOddRefines DEF Fifo!Next
<1>2. CASE PushEven
  BY <1>2, PushEvenRefines DEF Fifo!Next
<1>3. CASE ClearPosition
  BY <1>3, ClearPositionRefines DEF Fifo!Next
<1>4. CASE ClearPublish
  BY <1>4, ClearPublishRefines DEF Fifo!Next
<1>5. CASE PopCheck \/ PopReset \/ PopHead \/ PopRead \/ PopDiscarded
  BY <1>5, PopLooks
<1>6. CASE PopEmpty
  BY <1>6, PopEmptyRefines DEF Fifo!Next
<1>7. CASE PopRecheck
  BY <1>7, PopRecheckRefines DEF Fifo!Next
<1>8. CASE PopDone
  BY <1>8, PopDoneRefines DEF Fifo!Next
<1>9. CASE ClearFromConsumer
  BY <1>9, ClearFromConsumerRefines DEF Fifo!Next
<1>10. CASE PushWrite \/ UNCHANGED vars
  <2>1. /\ UNCHANGED <<head_fields, tail, reset, local_ver, consumer, out>>
        /\ producer'.pushed = producer.pushed
    BY <1>10 DEF PushWrite, vars, Inv, TypeOK
  <2>2. Front' = Front /\ HeldBar' = HeldBar
    BY <2>1 DEF Front, HeldBar, Taken, Resetting
  <2> QED
    BY <2>1, <2>2, StutterRefines
<1> QED
  BY <1>1, <1>2, <1>3, <1>4, <1>5, <1>6, <1>7, <1>8, <1>9, <1>10 DEF Next, Push, Pop

\* Below the wrap, push(), pop() and both ways to clear, interleaved at any access, are a
\* FIFO that drops its oldest element when Cap are waiting: no element is delivered
\* twice, torn, out of order or after a clear.
THEOREM QueueImplements == NoWrap => (Spec => Implements)
<1> SUFFICES ASSUME NoWrap PROVE Spec => Implements
  OBVIOUS
<1>1. Init => Inv /\ Fifo!Init
  BY InvInit, InitRefines
<1>2. Inv /\ [Next]_vars => Inv' /\ [Fifo!Next]_(Fifo!fifoVars)
  BY InvStep, StepRefines
<1> QED
  BY <1>1, <1>2, PTL DEF Spec, Implements, Fifo!Spec

-----------------------------------------------------------------------------
(* The call slot                                                             *)

\* The slot says WORKING only while the consumer is on the request, and IDLE
\* while the producer writes the storage.
SlotInv ==
    /\ state = "WORKING" => cpc \in {"read", "confirm", "work"}
    /\ ppc \in {"store", "commit"} => state = "IDLE"

\* A copy which will be confirmed is the one in the storage; there is a job
\* exactly while the consumer works.
CopyInv ==
    /\ cpc = "confirm" /\ state = "WORKING" => tmp = storage
    /\ cpc = "work" <=> job # NoParam

\* A waiting request has its notification, or one about to be given or used.
KickInv == state = "ENQUEUED" => ppc = "kick" \/ kicked \/ cpc = "get"

SlotIInv == SlotTypeOK /\ SlotInv /\ CopyInv /\ KickInv

USE NoParamAssumption, ParamsAssumption

-----------------------------------------------------------------------------
\* The inductive invariant holds at the start.
LEMMA SlotInvInit == SlotInit => SlotIInv
BY DEF SlotInit, SlotIInv, SlotTypeOK, SlotInv, CopyInv, KickInv, Values

\* Every atomic access of the two sides keeps the invariant.
LEMMA SlotInvStep == SlotIInv /\ [SlotNext]_slotVars => SlotIInv'
<1> SUFFICES ASSUME SlotIInv, [SlotNext]_slotVars PROVE SlotIInv'
  OBVIOUS
<1> USE DEF SlotIInv, SlotTypeOK, SlotInv, CopyInv, KickInv, Values,
            producerVars, consumerVars
<1>1. CASE EnqueueBegin BY <1>1 DEF EnqueueBegin
<1>2. CASE EnqueueStore BY <1>2 DEF EnqueueStore
<1>3. CASE EnqueueCommit BY <1>3 DEF EnqueueCommit
<1>4. CASE EnqueueVoid BY <1>4 DEF EnqueueVoid
<1>5. CASE Kick BY <1>5 DEF Kick
<1>6. CASE TakeNotification BY <1>6 DEF TakeNotification
<1>7. CASE GetJobClaim BY <1>7 DEF GetJobClaim
<1>8. CASE GetJobRead BY <1>8 DEF GetJobRead
<1>9. CASE GetJobConfirm BY <1>9 DEF GetJobConfirm
<1>10. CASE GetJobVoid BY <1>10 DEF GetJobVoid
<1>11. CASE JobFinish BY <1>11 DEF JobFinish
<1>12. CASE Reset BY <1>12 DEF Reset
<1>13. CASE UNCHANGED slotVars BY <1>13 DEF slotVars
<1> QED
  BY <1>1, <1>2, <1>3, <1>4, <1>5, <1>6, <1>7, <1>8, <1>9, <1>10, <1>11, <1>12, <1>13
     DEF SlotNext, Producer, Consumer

\* The invariant holds in every state.
LEMMA SlotInvariance == SlotSpec => []SlotIInv
BY SlotInvInit, SlotInvStep, PTL DEF SlotSpec

\* The variables of the slot (leapsync.h) and of its two users keep their types.
THEOREM SlotTypeCorrect == SlotSpec => []SlotTypeOK
<1>1. SlotIInv => SlotTypeOK BY DEF SlotIInv
<1> QED BY <1>1, SlotInvariance, PTL

\* With both sides at rest, no request waits in the slot without a
\* notification to the driver's task: enqueue() then kick_task() suffices.
THEOREM NoneForgotten == SlotSpec => []NoJobForgotten
<1>1. SlotIInv => NoJobForgotten BY DEF SlotIInv, KickInv, NoJobForgotten
<1> QED BY <1>1, SlotInvariance, PTL

-----------------------------------------------------------------------------
abstractVars == <<slotBar, paramBar, job, call = "measure">>

\* An initial state is one of the mailbox.
LEMMA MailboxInit == SlotInit => Abstract!Init
BY DEF SlotInit, Abstract!Init, slotBar, paramBar, Claimed

\* Every atomic access is an operation of the mailbox, or changes nothing there.
LEMMA MailboxStep ==
    SlotIInv /\ [SlotNext]_slotVars => [Abstract!Next]_abstractVars
<1> SUFFICES ASSUME SlotIInv, [SlotNext]_slotVars
             PROVE [Abstract!Next]_abstractVars
  OBVIOUS
<1> USE DEF SlotIInv, SlotTypeOK, SlotInv, CopyInv, Values, producerVars, consumerVars,
            slotBar, paramBar, Claimed, abstractVars
<1>1. ASSUME EnqueueBegin PROVE Abstract!Withdraw
  BY <1>1 DEF EnqueueBegin, Abstract!Withdraw
<1>2. ASSUME EnqueueStore PROVE UNCHANGED abstractVars
  BY <1>2 DEF EnqueueStore
<1>3. ASSUME EnqueueCommit PROVE Abstract!Enqueue(storage)
  BY <1>3 DEF EnqueueCommit, Abstract!Enqueue
<1>4. ASSUME EnqueueVoid PROVE Abstract!Enqueue(storage)
  BY <1>4 DEF EnqueueVoid, Abstract!Enqueue
<1>5. ASSUME Kick PROVE UNCHANGED abstractVars
  BY <1>5 DEF Kick
<1>6. ASSUME TakeNotification PROVE UNCHANGED abstractVars
  BY <1>6 DEF TakeNotification
<1>7. ASSUME GetJobClaim PROVE UNCHANGED abstractVars
  BY <1>7 DEF GetJobClaim
<1>8. ASSUME GetJobRead PROVE UNCHANGED abstractVars
  BY <1>8 DEF GetJobRead
<1>9. ASSUME GetJobConfirm
      PROVE Abstract!GetJob \/ UNCHANGED abstractVars
  <2>1. CASE state = "WORKING"
    BY <1>9, <2>1 DEF GetJobConfirm, Abstract!GetJob
  <2>2. CASE state # "WORKING"
    BY <1>9, <2>2 DEF GetJobConfirm
  <2> QED BY <2>1, <2>2
<1>10. ASSUME GetJobVoid
       PROVE Abstract!GetJob \/ UNCHANGED abstractVars
  <2>1. CASE state = "ENQUEUED"
    BY <1>10, <2>1 DEF GetJobVoid, Abstract!GetJob
  <2>2. CASE state # "ENQUEUED"
    BY <1>10, <2>2 DEF GetJobVoid
  <2> QED BY <2>1, <2>2
<1>11. ASSUME JobFinish PROVE Abstract!JobFinish
  BY <1>11 DEF JobFinish, Abstract!JobFinish
<1>12. ASSUME Reset PROVE Abstract!Abandon
  BY <1>12 DEF Reset, Abstract!Abandon
<1>13. ASSUME UNCHANGED slotVars PROVE UNCHANGED abstractVars
  BY <1>13 DEF slotVars
<1>14. UNCHANGED (call = "measure")
  BY DEF SlotNext, Producer, Consumer, EnqueueBegin, EnqueueStore, EnqueueCommit, EnqueueVoid,
         Kick, TakeNotification, GetJobClaim, GetJobRead, GetJobConfirm, GetJobVoid,
         JobFinish, Reset, slotVars
<1> HIDE DEF abstractVars, slotBar, paramBar
<1>15. CASE UNCHANGED slotVars BY <1>13, <1>15
<1>16. CASE SlotNext
  BY <1>16, <1>1, <1>2, <1>3, <1>4, <1>5, <1>6, <1>7, <1>8, <1>9, <1>10, <1>11, <1>12, <1>14
     DEF SlotNext, Producer, Consumer, Abstract!Next
<1> QED BY <1>15, <1>16

\* leapsync.h implements the atomic mailbox: without a lock, the consumer
\* executes complete requests only, the latest one first, and finishing a job
\* does not touch the request that leapt over it.
THEOREM Refinement == SlotSpec => ImplementsMailbox
BY SlotInvariance, MailboxInit, MailboxStep, PTL
   DEF SlotSpec, ImplementsMailbox, Abstract!Spec, abstractVars
=============================================================================
