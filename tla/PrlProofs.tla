----------------------------- MODULE PrlProofs ------------------------------
(***************************************************************************)
(* The protocol layer at work, for any number of chunks, ids, retries and  *)
(* messages, and whatever PE, the driver and the partner may do.  It keeps *)
(* its types, and no message outgrows its buffer.  PRL_Tx never has two    *)
(* owners.  No chunk received is overwritten, and messages reach PE whole  *)
(* and in order.  A layer that goes to sleep has left nothing undone.      *)
(* What PE is told was sent is its latest message.  One lemma per machine  *)
(* or party says that its steps keep an invariant.  What some theorems     *)
(* assume of the surroundings has a name: HardResetsEnd, RepeatsAreKnown.  *)
(***************************************************************************)
EXTENDS PrlSystem, SequenceTheorems, TLAPS

Places == {"rest", "pe", "prl", "tx0", "rx", "rch1", "tch1", "tx1", "tch2", "tch3", "rch2"}
Loops == [at : Places, event : BOOLEAN]
Layers == [local : {"DISABLED", "INIT", "WORKING"},
           hr : {"none", "IDLE", "Reset_Layer", "Request", "Wait_PHY", "Wait_PE"},
           tx : {"none", "Wait_Request", "Snk_Start", "Snk_Pending", "Wait_PHY", "Discard"},
           rch : {"none", "Wait", "Requesting", "Waiting"},
           tch : {"none", "Wait", "Wait_Transmission", "Sending", "Wait_Request"}]
AllFlags == HrFlags \cup TxFlags \cup RchFlags \cup TchFlags
Numbers == [tx : Ids, rx : Ids \cup {NoId}, rch : 0..NChunks, tch : 0..NChunks,
            retry : 0..MaxRetries]
Messages == [kind : {"none", "ctl", "ext", "soft"}, serial : Nat]
Buffers == [tx_emsg : Messages, tx_chunk : OurChunks, rx_chunk : TheirChunks,
            rx_emsg : Seq(TheirChunks)]
Results == {"UNSET", "ENQUEUED", "SENDING", "SUCCEEDED", "FAILED"}
Drivers == [rx_enable : {"idle", "on", "off"}, rx_on : BOOLEAN, hr_send : BOOLEAN,
            active_cc : BOOLEAN, cc : {"none", "SinkTxOK", "SinkTxNG"},
            chunk : OurChunks, rx_queue : Seq(TheirChunks),
            air : {"no", "air", "heard", "hr"}]
Engines == [mode : {"off", "startup", "run", "soft", "hr", "hr_sent", "default"},
            out : {"none", "ctl", "ext", "soft"}, ams : {"no", "new", "open"},
            accept : BOOLEAN, reply : BOOLEAN, sent : Nat, heard : Nat, again : BOOLEAN,
            told : {"none", "sent", "discard", "error"}]
Partners == [next : Ids, sent : Nat, last : TheirChunks, first : Nat,
             seen : Ids \cup {NoId}, got : [serial : Nat, n : 0..NChunks]]

\* While RCH collects an extended message, it has the chunks before the one it expects,
\* and there is room for that one.
ChunkInv ==
    /\ Len(buf.rx_emsg) <= NChunks
    /\ prl.rch \in {"Requesting", "Waiting"} =>
         num.rch < NChunks /\ Len(buf.rx_emsg) = num.rch

\* TypeOK with the partner's variable and the bookkeeping of RCH, which it needs.
TypeInv ==
    /\ loop \in Loops /\ attached \in BOOLEAN /\ prl \in Layers
    /\ flags \subseteq AllFlags /\ num \in Numbers /\ buf \in Buffers
    /\ status \in Results /\ tcpc \in Drivers /\ pe \in Engines /\ partner \in Partners
    /\ ChunkInv

LEMMA Sizes ==
    /\ NChunks \in Nat \ {0} /\ IdMod \in Nat \ {0} /\ MaxRetries \in Nat
    /\ 0 \in Ids /\ NoId \in Int
  BY NChunksAssumption, IdModAssumption, MaxRetriesAssumption DEF Ids, NoId

LEMMA NextIdType ==
    ASSUME NEW n \in Numbers PROVE NextId(n) \in Numbers
<1>1. \A M \in Nat \ {0} : \A i \in 0..(M - 1) : (i + 1) % M \in 0..(M - 1)
  OBVIOUS
<1>2. (n.tx + 1) % IdMod \in Ids
  BY <1>1, Sizes DEF Numbers, Ids
<1> QED
  BY <1>2 DEF NextId, Numbers

LEMMA AdvanceType ==
    ASSUME loop \in Loops, loop.at # "rest", NEW wake \in BOOLEAN, Advance(wake)
    PROVE  loop' \in Loops
<1>1. After[loop.at] \in Places
  BY DEF Loops, After, Places
<1>2. (loop.event \/ wake) \in BOOLEAN
  OBVIOUS
<1> QED
  BY <1>1, <1>2 DEF Advance, Loops

LEMMA EndTickType ==
    ASSUME loop \in Loops, NEW wake \in BOOLEAN, EndTick(wake)
    PROVE  loop' \in Loops
<1>1. (loop.event \/ wake) \in BOOLEAN
  OBVIOUS
<1> QED
  BY <1>1 DEF EndTick, Loops, Places

LEMMA PassType ==
    ASSUME TypeInv, loop.at # "rest", Pass, UNCHANGED partner
    PROVE  TypeInv'
  BY AdvanceType DEF Pass, TypeInv, ChunkInv

LEMMA HearsSentType == ASSUME NEW p \in Engines PROVE HearsSent(p) \in Engines
  BY DEF HearsSent, Engines

LEMMA HearsDiscardType == ASSUME NEW p \in Engines PROVE HearsDiscard(p) \in Engines
  BY DEF HearsDiscard, Engines

LEMMA HearsMessageType ==
    ASSUME NEW p \in Engines, NEW m \in TheirChunks PROVE HearsMessage(p, m) \in Engines
<1>1. /\ (p.accept \/ m.kind = "soft") \in BOOLEAN
      /\ (p.reply \/ m.kind # "soft") \in BOOLEAN
      /\ (p.again \/ m.first <= p.heard) \in BOOLEAN
  OBVIOUS
<1>2. m.first \in Nat
  BY DEF TheirChunks
<1> QED
  BY <1>1, <1>2 DEF HearsMessage, Engines

LEMMA HearsErrorType ==
    ASSUME NEW p \in Engines, NEW restart \in BOOLEAN PROVE HearsError(p, restart) \in Engines
<1> DEFINE mode == IF restart THEN "soft" ELSE p.mode
           reply == p.reply /\ ~restart
           accept == p.accept /\ ~restart
           a == [p EXCEPT !.out = "none", !.told = "error"]
           b == [a EXCEPT !.mode = mode]
           c == [b EXCEPT !.reply = reply, !.accept = accept]
<1>1. /\ mode \in {"off", "startup", "run", "soft", "hr", "hr_sent", "default"}
      /\ reply \in BOOLEAN /\ accept \in BOOLEAN
  BY DEF Engines
<1>2. HearsError(p, restart) = c
  BY DEF HearsError, Engines
<1> HIDE DEF mode, reply, accept
<1>3. a \in Engines
  BY DEF Engines
<1> HIDE DEF a
<1>4. b \in Engines
  BY <1>1, <1>3 DEF Engines
<1> HIDE DEF b
<1>5. c \in Engines
  BY <1>1, <1>4 DEF Engines
<1> QED
  BY <1>2, <1>5, Zenon

\* PE forgets what it was doing.
LEMMA StoppedType ==
    ASSUME NEW p \in Engines, NEW m \in {"off", "startup", "soft"}
    PROVE  /\ [p EXCEPT !.mode = m, !.out = "none", !.ams = "no", !.reply = FALSE,
                        !.accept = FALSE] \in Engines
           /\ [p EXCEPT !.mode = m, !.out = "none", !.reply = FALSE] \in Engines
<1> DEFINE a == [p EXCEPT !.mode = m, !.out = "none"]
           b == [a EXCEPT !.ams = "no", !.reply = FALSE]
           c == [b EXCEPT !.accept = FALSE]
           d == [a EXCEPT !.reply = FALSE]
<1>1. /\ [p EXCEPT !.mode = m, !.out = "none", !.ams = "no", !.reply = FALSE,
                   !.accept = FALSE] = c
      /\ [p EXCEPT !.mode = m, !.out = "none", !.reply = FALSE] = d
  OBVIOUS
<1>2. a \in Engines
  BY DEF Engines
<1> HIDE DEF a
<1>3. b \in Engines /\ d \in Engines
  BY <1>2 DEF Engines
<1> HIDE DEF b, d
<1>4. c \in Engines
  BY <1>3 DEF Engines
<1> QED
  BY <1>1, <1>3, <1>4, Zenon

LEMMA DropsType ==
    ASSUME NEW p \in Engines, NEW f PROVE DropsEnqueued(p, f) \in Engines
  BY HearsDiscardType DEF DropsEnqueued

LEMMA TypeInit == ASSUME Init PROVE TypeInv
<1>1. NoChunk \in OurChunks /\ NoMsg \in TheirChunks
  BY Sizes DEF NoChunk, NoMsg, OurChunks, TheirChunks
<1>2. <<>> \in Seq(TheirChunks) /\ Len(<<>>) = 0
  BY EmptySeq
<1>3. loop \in Loops /\ attached \in BOOLEAN /\ prl \in Layers /\ flags \subseteq AllFlags
  BY DEF Init, Loops, Places, Layers
<1>4. num \in Numbers
  BY Sizes DEF Init, Numbers
<1>5. buf \in Buffers /\ status \in Results
  BY <1>1, <1>2 DEF Init, Buffers, Messages, Results
<1>6. tcpc \in Drivers
  BY <1>1, <1>2 DEF Init, Drivers
<1>7. pe \in Engines
  BY DEF Init, Engines
<1>8. partner \in Partners
  BY <1>1, Sizes DEF Init, Partners
<1>9. ChunkInv
  BY <1>2, Sizes DEF Init, ChunkInv
<1> QED
  BY <1>3, <1>4, <1>5, <1>6, <1>7, <1>8, <1>9 DEF TypeInv

LEMMA TypeMeans == ASSUME TypeInv PROVE TypeOK
<1>1. tcpc \in Drivers /\ pe \in Engines /\ buf \in Buffers /\ loop \in Loops /\ prl \in Layers
  BY DEF TypeInv
<1> QED
  BY <1>1 DEF TypeInv, TypeOK, Loops, Places, Layers, AllFlags, Numbers, Buffers, Messages,
     Results, Drivers, Engines, ChunkInv

-----------------------------------------------------------------------------
(* init(), the cable, PRL_HR *)

LEMMA ResetIdsType ==
    ASSUME NEW n \in Numbers
    PROVE  ResetIds(n) \in Numbers /\ ResetIds(n).rch = n.rch
  BY Sizes DEF ResetIds, Numbers

LEMMA ReadyType ==
    ASSUME NEW p \in Layers
    PROVE  Ready(p) \in Layers /\ Ready(p).rch = "Wait"
  BY DEF Ready, Layers

LEMMA TypeInitLayer ==
    ASSUME TypeInv, InitLayer, UNCHANGED partner PROVE TypeInv'
<1>1. loop' \in Loops
  BY DEF InitLayer, TypeInv, Loops
<1>2. prl' \in Layers /\ prl'.rch = "Wait"
  <2> DEFINE r == Ready(prl)
  <2>1. r \in Layers /\ r.rch = "Wait"
    BY ReadyType DEF TypeInv
  <2>2. prl' = [r EXCEPT !.local = "WORKING", !.hr = "IDLE"]
    BY DEF InitLayer
  <2> HIDE DEF r
  <2> QED
    BY <2>1, <2>2 DEF Layers
<1>3. num' \in Numbers
  BY ResetIdsType, Sizes DEF InitLayer, TypeInv, Numbers
<1>4. tcpc' \in Drivers
  BY DEF InitLayer, TypeInv, Drivers
<1>5. flags' \subseteq AllFlags /\ status' \in Results
  BY DEF InitLayer, ClearedFlags, Results
<1> QED
  BY <1>1, <1>2, <1>3, <1>4, <1>5 DEF InitLayer, TypeInv, ChunkInv

LEMMA TypeDisable ==
    ASSUME TypeInv, Disable, UNCHANGED partner PROVE TypeInv'
<1>1. loop' \in Loops
  BY EndTickType DEF Disable, TypeInv
<1>2. prl' \in Layers /\ prl'.rch = prl.rch
  BY DEF Disable, TypeInv, Layers
<1>3. tcpc' \in Drivers
  BY DEF Disable, TypeInv, Drivers
<1> QED
  BY <1>1, <1>2, <1>3 DEF Disable, TypeInv, ChunkInv

LEMMA TypeHr ==
    ASSUME TypeInv, Hr, UNCHANGED partner PROVE TypeInv'
<1>1. ASSUME loop' \in Loops, prl' \in Layers, prl'.rch = prl.rch, tcpc' \in Drivers,
             pe' \in Engines, UNCHANGED <<attached, flags, num, buf, status>>
      PROVE  TypeInv'
  BY <1>1 DEF TypeInv, ChunkInv
<1>2. CASE HrIdle
  <2>1. loop' \in Loops
    BY <1>2, AdvanceType DEF HrIdle, HrTurn, At, TypeInv
  <2> QED
    BY <1>1, <1>2, <2>1 DEF HrIdle, TypeInv
<1>3. CASE HrWait
  <2>1. loop' \in Loops
    BY <1>3, EndTickType DEF HrWait, TypeInv
  <2> QED
    BY <1>1, <1>3, <2>1 DEF HrWait, TypeInv
<1>4. CASE HrResetLayer
  <2>1. loop' \in Loops
    BY <1>4, EndTickType DEF HrResetLayer, TypeInv
  <2>2. prl' \in Layers /\ prl'.rch = prl.rch /\ tcpc' \in Drivers
    BY <1>4 DEF HrResetLayer, TypeInv, Layers, Drivers
  <2> QED
    BY <1>1, <1>4, <2>1, <2>2 DEF HrResetLayer, TypeInv
<1>5. CASE HrIndicate
  <2>1. loop' \in Loops
    BY <1>5, EndTickType DEF HrIndicate, TypeInv
  <2>2. prl' \in Layers /\ prl'.rch = prl.rch /\ pe' \in Engines
    BY <1>5 DEF HrIndicate, TypeInv, Layers, Engines
  <2> QED
    BY <1>1, <1>5, <2>1, <2>2 DEF HrIndicate, TypeInv
<1>6. CASE HrRequest
  <2>1. loop' \in Loops
    BY <1>6, EndTickType DEF HrRequest, TypeInv
  <2>2. prl' \in Layers /\ prl'.rch = prl.rch /\ tcpc' \in Drivers
    BY <1>6 DEF HrRequest, TypeInv, Layers, Drivers
  <2> QED
    BY <1>1, <1>6, <2>1, <2>2 DEF HrRequest, TypeInv
<1>7. CASE HrRequested
  <2>1. loop' \in Loops
    BY <1>7, EndTickType DEF HrRequested, TypeInv
  <2>2. prl' \in Layers /\ prl'.rch = prl.rch
    BY <1>7 DEF HrRequested, TypeInv, Layers
  <2> QED
    BY <1>1, <1>7, <2>1, <2>2 DEF HrRequested, TypeInv
<1>8. CASE HrSent
  <2>1. loop' \in Loops
    BY <1>8, EndTickType DEF HrSent, TypeInv
  <2>2. prl' \in Layers /\ prl'.rch = prl.rch /\ pe' \in Engines
    BY <1>8 DEF HrSent, HearsHardResetSent, TypeInv, Layers, Engines
  <2> QED
    BY <1>1, <1>8, <2>1, <2>2 DEF HrSent, TypeInv
<1> QED
  BY <1>2, <1>3, <1>4, <1>5, <1>6, <1>7, <1>8 DEF Hr

-----------------------------------------------------------------------------
(* PRL_Tx *)

LEMMA ConstructType ==
    ASSUME TypeInv, UNCHANGED partner, loop.at # "rest",
           NEW n \in Numbers, n.rch = num.rch, NEW f \in SUBSET AllFlags, Construct(n, f)
    PROVE  TypeInv'
<1>1. loop' \in Loops
  BY AdvanceType DEF Construct, TypeInv
<1>2. n.tx \in Ids
  BY DEF Numbers
<1>3. buf' \in Buffers /\ buf'.rx_emsg = buf.rx_emsg /\ buf'.tx_chunk \in OurChunks
  BY <1>2 DEF Construct, TypeInv, Buffers, OurChunks
<1>4. prl' \in Layers /\ prl'.rch = prl.rch /\ status' \in Results
  BY DEF Construct, TypeInv, Layers, Results
<1>5. tcpc' \in Drivers
  BY <1>3 DEF Construct, TypeInv, Drivers
<1> QED
  BY <1>1, <1>3, <1>4, <1>5 DEF Construct, TypeInv, ChunkInv

LEMMA ConstructEnqueuedType ==
    ASSUME TypeInv, UNCHANGED partner, loop.at # "rest",
           NEW f \in SUBSET AllFlags, ConstructEnqueued(f)
    PROVE  TypeInv'
<1> DEFINE n == IF buf.tx_chunk.kind = "soft" THEN ResetIds(num) ELSE num
<1>1. n \in Numbers /\ n.rch = num.rch
  BY ResetIdsType DEF TypeInv
<1>2. Construct(n, f)
  BY DEF ConstructEnqueued
<1> HIDE DEF n
<1> QED
  BY <1>1, <1>2, ConstructType

LEMMA SnkStartType ==
    ASSUME TypeInv, UNCHANGED partner, loop.at # "rest",
           NEW f \in SUBSET AllFlags, SnkStart(f)
    PROVE  TypeInv'
<1>1. CASE "TX_CHUNK_ENQUEUED" \notin f
  <2>1. loop' \in Loops
    BY <1>1, AdvanceType DEF SnkStart, TypeInv
  <2>2. prl' \in Layers /\ prl'.rch = prl.rch
    BY <1>1 DEF SnkStart, TypeInv, Layers
  <2> QED
    BY <1>1, <2>1, <2>2 DEF SnkStart, TypeInv, ChunkInv
<1>2. CASE AskSinkTx(f)
  <2>1. loop' \in Loops
    BY <1>2, AdvanceType DEF AskSinkTx, TypeInv
  <2>2. prl' \in Layers /\ prl'.rch = prl.rch /\ tcpc' \in Drivers
    BY <1>2 DEF AskSinkTx, TypeInv, Layers, Drivers
  <2> QED
    BY <1>2, <2>1, <2>2 DEF AskSinkTx, TypeInv, ChunkInv
<1> QED
  BY <1>1, <1>2, ConstructEnqueuedType DEF SnkStart

LEMMA TxOutcomeType ==
    ASSUME TypeInv, UNCHANGED partner, loop.at # "rest",
           NEW output \in AllFlags, TxOutcome(output)
    PROVE  TypeInv'
<1>1. loop' \in Loops
  BY AdvanceType DEF TxOutcome, TypeInv
<1>2. prl' \in Layers /\ prl'.rch = prl.rch /\ status' \in Results
  BY DEF TxOutcome, TypeInv, Layers, Results
<1>3. NextId(num) \in Numbers /\ NextId(num).rch = num.rch
  BY NextIdType DEF TypeInv, NextId, Numbers
<1>4. num' \in Numbers /\ num'.rch = num.rch
  BY <1>3, Sizes DEF TxOutcome, Numbers
<1> QED
  BY <1>1, <1>2, <1>4 DEF TxOutcome, TypeInv, ChunkInv

LEMMA DiscardType ==
    ASSUME TypeInv, UNCHANGED partner, loop.at # "rest",
           Discard, num' \in Numbers, num'.rch = num.rch, pe' \in Engines,
           NEW wake \in BOOLEAN, Advance(wake)
    PROVE  TypeInv'
<1>1. loop' \in Loops
  BY AdvanceType DEF TypeInv
<1>2. prl' \in Layers /\ prl'.rch = prl.rch /\ status' \in Results /\ tcpc' \in Drivers
  BY DEF Discard, TypeInv, Layers, Results, Drivers
<1> QED
  BY <1>1, <1>2 DEF Discard, TypeInv, ChunkInv

LEMMA TypeTx ==
    ASSUME TypeInv, Tx, UNCHANGED partner PROVE TypeInv'
<1>1. loop.at # "rest"
  BY DEF Tx, TxSkip, TxHeld, TxStartOfAms, TxTakeChunk, TxNothing, TxSnkStart, TxSnkPending,
         TxSnkWait, TxPollCc, TxSent, TxGiveUp, TxRetry, TxWaitPhy, TxDiscard,
         TxDiscardNothing, TxReady, TxFailed, Discard, TxTurn, At
<1>2. flags \in SUBSET AllFlags /\ AmsMarked \in SUBSET AllFlags
  BY DEF TypeInv, AmsMarked, AllFlags, TxFlags
<1>3. CASE TxSkip \/ TxHeld \/ TxSnkWait \/ TxWaitPhy
  BY <1>1, <1>3, PassType DEF TxSkip, TxHeld, TxSnkWait, TxWaitPhy
<1>4. CASE TxStartOfAms \/ TxSnkStart
  BY <1>1, <1>2, <1>4, SnkStartType DEF TxStartOfAms, TxSnkStart
<1>5. CASE TxTakeChunk
  BY <1>1, <1>2, <1>5, ConstructEnqueuedType DEF TxTakeChunk
<1>6. CASE TxNothing
  <2>1. loop' \in Loops
    BY <1>1, <1>6, AdvanceType DEF TxNothing, TypeInv
  <2> QED
    BY <1>2, <1>6, <2>1 DEF TxNothing, TypeInv, ChunkInv
<1>7. CASE TxSnkPending
  BY <1>1, <1>2, <1>7, ConstructType DEF TxSnkPending, TypeInv
<1>8. CASE TxPollCc
  <2>1. loop' \in Loops
    BY <1>1, <1>8, AdvanceType DEF TxPollCc, TypeInv
  <2>2. tcpc' \in Drivers
    BY <1>8 DEF TxPollCc, TypeInv, Drivers
  <2> QED
    BY <1>8, <2>1, <2>2 DEF TxPollCc, TypeInv, ChunkInv
<1>9. CASE TxSent \/ TxGiveUp
  BY <1>1, <1>9, TxOutcomeType DEF TxSent, TxGiveUp, AllFlags, TxFlags
<1>10. CASE TxRetry
  <2> DEFINE n == [num EXCEPT !.retry = @ + 1]
  <2>1. n \in Numbers /\ n.rch = num.rch
    BY <1>10, Sizes DEF TxRetry, TypeInv, Numbers
  <2>2. Construct(n, flags)
    BY <1>10 DEF TxRetry
  <2> HIDE DEF n
  <2> QED
    BY <1>1, <1>2, <2>1, <2>2, ConstructType
<1>11. CASE TxDiscard
  <2>1. NextId(num) \in Numbers /\ NextId(num).rch = num.rch
    BY NextIdType DEF TypeInv, NextId, Numbers
  <2>2. num' \in Numbers /\ num'.rch = num.rch
    BY <1>11, <2>1, Sizes DEF TxDiscard, DiscardedId, Numbers
  <2>3. pe' \in Engines
    BY <1>11, HearsDiscardType DEF TxDiscard, TypeInv
  <2> QED
    BY <1>1, <1>11, <2>2, <2>3, DiscardType DEF TxDiscard
<1>12. CASE TxDiscardNothing
  <2>1. num' \in Numbers /\ num'.rch = num.rch
    BY <1>12, Sizes DEF TxDiscardNothing, TypeInv, Numbers
  <2> QED
    BY <1>1, <1>12, <2>1, DiscardType DEF TxDiscardNothing, TypeInv
<1> QED
  BY <1>3, <1>4, <1>5, <1>6, <1>7, <1>8, <1>9, <1>10, <1>11, <1>12 DEF Tx

-----------------------------------------------------------------------------
(* PRL_Rx *)

LEMMA FetchType ==
    ASSUME TypeInv, Fetch
    PROVE  /\ loop.at # "rest"
           /\ buf' \in Buffers /\ buf'.rx_emsg = buf.rx_emsg /\ buf'.rx_chunk.id \in Ids
           /\ Popped \in Drivers
<1>1. tcpc.rx_queue \in Seq(TheirChunks) /\ tcpc.rx_queue # <<>>
  BY DEF TypeInv, Drivers, Fetch
<1>2. Head(tcpc.rx_queue) \in TheirChunks /\ Tail(tcpc.rx_queue) \in Seq(TheirChunks)
  BY <1>1, HeadTailProperties
<1>3. buf'.rx_chunk = Head(tcpc.rx_queue) /\ buf' \in Buffers /\ buf'.rx_emsg = buf.rx_emsg
  BY <1>2 DEF Fetch, TypeInv, Buffers
<1>4. Popped \in Drivers
  BY <1>2 DEF Popped, TypeInv, Drivers
<1> QED
  BY <1>2, <1>3, <1>4 DEF TheirChunks, Fetch, At

LEMMA TypeRx ==
    ASSUME TypeInv, Rx, UNCHANGED partner PROVE TypeInv'
<1>1. CASE RxPostpone
  <2>1. loop' \in Loops
    BY <1>1, AdvanceType DEF RxPostpone, At, TypeInv
  <2> QED
    BY <1>1, <2>1 DEF RxPostpone, TypeInv, ChunkInv
<1>2. CASE RxEmpty
  BY <1>2, PassType DEF RxEmpty, At
<1>3. CASE RxSoftReset
  <2>1. loop' \in Loops
    BY <1>3, FetchType, AdvanceType DEF RxSoftReset, TypeInv
  <2>2. prl' \in Layers /\ prl'.rch = "Wait"
    BY <1>3, ReadyType DEF RxSoftReset, TypeInv
  <2>3. tcpc' \in Drivers
    BY <1>3, FetchType DEF RxSoftReset, Drivers
  <2>4. num' \in Numbers
    <3>1. [num EXCEPT !.tx = 0] \in Numbers
      BY Sizes DEF TypeInv, Numbers
    <3>2. \A n \in Numbers, id \in Ids : [n EXCEPT !.rx = id] \in Numbers
      BY DEF Numbers
    <3>3. \A n \in Numbers : [n EXCEPT !.retry = 0] \in Numbers
      BY Sizes DEF Numbers
    <3> QED
      BY <1>3, <3>1, <3>2, <3>3, FetchType DEF RxSoftReset
  <2>5. flags' \subseteq AllFlags /\ status' \in Results
    BY <1>3 DEF RxSoftReset, TypeInv, AllFlags, RchFlags, Results
  <2> QED
    BY <1>3, <2>1, <2>2, <2>3, <2>4, <2>5, FetchType DEF RxSoftReset, TypeInv, ChunkInv
<1>4. CASE RxDrop
  <2>1. loop' \in Loops
    BY <1>4, FetchType, AdvanceType DEF RxDrop, TypeInv
  <2>2. num' \in Numbers /\ num'.rch = num.rch
    BY <1>4, FetchType DEF RxDrop, TypeInv, Numbers
  <2> QED
    BY <1>4, <2>1, <2>2, FetchType DEF RxDrop, TypeInv, ChunkInv
<1>5. CASE RxStore
  <2>1. loop' \in Loops
    BY <1>5, FetchType, AdvanceType DEF RxStore, TypeInv
  <2>2. num' \in Numbers /\ num'.rch = num.rch
    BY <1>5, FetchType DEF RxStore, TypeInv, Numbers
  <2>3. [prl EXCEPT !.tx = "Discard"] \in Layers /\ [prl EXCEPT !.tx = "Discard"].rch = prl.rch
    BY DEF TypeInv, Layers
  <2>4. prl' \in Layers /\ prl'.rch = prl.rch
    BY <1>5, <2>3 DEF RxStore, TypeInv
  <2>5. flags' \subseteq AllFlags
    BY <1>5 DEF RxStore, TypeInv, AllFlags, RchFlags, TchFlags
  <2> QED
    BY <1>5, <2>1, <2>2, <2>4, <2>5, FetchType DEF RxStore, TypeInv, ChunkInv
<1> QED
  BY <1>1, <1>2, <1>3, <1>4, <1>5 DEF Rx

-----------------------------------------------------------------------------
(* RCH *)

LEMMA PassUpType ==
    ASSUME TypeInv, UNCHANGED <<attached, tcpc, partner>>, loop.at # "rest", num' \in Numbers,
           NEW f \in SUBSET AllFlags,
           NEW emsg \in Seq(TheirChunks), Len(emsg) <= NChunks, PassUp(emsg, f)
    PROVE  TypeInv'
<1>1. loop' \in Loops
  BY AdvanceType DEF PassUp, TypeInv
<1>2. buf' \in Buffers /\ buf'.rx_emsg = emsg
  BY DEF PassUp, TypeInv, Buffers
<1>3. prl' \in Layers /\ prl'.rch = "Wait"
  BY DEF PassUp, TypeInv, Layers
<1>4. buf.rx_chunk \in TheirChunks /\ pe \in Engines
  BY DEF TypeInv, Buffers
<1>5. pe' \in Engines
  BY <1>4, HearsMessageType DEF PassUp
<1> QED
  BY <1>1, <1>2, <1>3, <1>5 DEF PassUp, TypeInv, ChunkInv

LEMMA RestartedType ==
    ASSUME NEW p \in Layers, NEW restart \in BOOLEAN
    PROVE  Restarted(p, restart) \in Layers /\ Restarted(p, restart).rch = p.rch
  BY DEF Restarted, Layers

LEMMA RchReportErrorType ==
    ASSUME TypeInv, UNCHANGED <<attached, tcpc, partner>>, loop.at # "rest",
           NEW f \in SUBSET AllFlags, RchReportError(f)
    PROVE  TypeInv'
<1> DEFINE forward == "RX_ENQUEUED" \in f
           p == IF forward THEN HearsMessage(pe, buf.rx_chunk) ELSE pe
           q == [prl EXCEPT !.rch = "Wait"]
<1>1. PICK restart \in BOOLEAN :
        /\ pe' = HearsError(p, restart)
        /\ buf' = IF forward THEN [buf EXCEPT !.rx_emsg = <<buf.rx_chunk>>] ELSE buf
        /\ flags' = f \ {"RX_ENQUEUED"}
        /\ prl' = Restarted(q, restart)
        /\ Advance(TRUE)
        /\ UNCHANGED <<status, num>>
  BY DEF RchReportError, MayRestart
<1>2. loop' \in Loops
  BY <1>1, AdvanceType DEF TypeInv
<1>3. buf.rx_chunk \in TheirChunks /\ pe \in Engines
  BY DEF TypeInv, Buffers
<1>4. p \in Engines
  BY <1>3, HearsMessageType
<1>5. pe' \in Engines
  <2> HIDE DEF p
  <2> QED
    BY <1>1, <1>4, HearsErrorType
<1>6. q \in Layers /\ q.rch = "Wait"
  BY DEF TypeInv, Layers
<1>7. prl' \in Layers /\ prl'.rch = "Wait"
  <2> HIDE DEF q
  <2> QED
    BY <1>1, <1>6, RestartedType
<1>8. <<buf.rx_chunk>> \in Seq(TheirChunks) /\ Len(<<buf.rx_chunk>>) = 1
  BY <1>3
<1>9. buf' \in Buffers /\ Len(buf'.rx_emsg) <= NChunks
  <2>1. CASE forward
    <3>1. buf' = [buf EXCEPT !.rx_emsg = <<buf.rx_chunk>>]
      BY <1>1, <2>1
    <3>2. buf' \in Buffers /\ buf'.rx_emsg = <<buf.rx_chunk>>
      BY <1>8, <3>1 DEF TypeInv, Buffers
    <3> QED
      BY <1>8, <3>2, Sizes
  <2>2. CASE ~forward
    BY <1>1, <2>2 DEF TypeInv, ChunkInv
  <2> QED
    BY <2>1, <2>2
<1>10. flags' \subseteq AllFlags
  BY <1>1
<1> QED
  BY <1>1, <1>2, <1>5, <1>7, <1>9, <1>10 DEF TypeInv, ChunkInv

LEMMA ProcessExtendedType ==
    ASSUME TypeInv, UNCHANGED <<attached, tcpc, partner>>, loop.at # "rest",
           NEW expected \in 0..(NChunks - 1), NEW sofar \in Seq(TheirChunks),
           Len(sofar) = expected, ProcessExtended(sofar, expected)
    PROVE  TypeInv'
<1> DEFINE c == buf.rx_chunk
           f == flags \ {"RX_ENQUEUED"}
           longer == Append(sofar, c)
<1>1. f \in SUBSET AllFlags /\ c \in TheirChunks
  BY DEF TypeInv, Buffers
<1>2. longer \in Seq(TheirChunks) /\ Len(longer) = expected + 1
  BY <1>1
<1>3. expected \in Nat /\ expected + 1 \in 0..NChunks /\ expected < NChunks
  BY Sizes
<1>4. CASE UnexpectedChunk(c, expected)
  BY <1>1, <1>4, RchReportErrorType DEF ProcessExtended
<1>5. CASE ~UnexpectedChunk(c, expected)
  <2>1. num' = [num EXCEPT !.rch = expected + 1]
    BY <1>5 DEF ProcessExtended
  <2>2. num' \in Numbers /\ num'.rch = expected + 1
    BY <1>3, <2>1 DEF TypeInv, Numbers
  <2>3. CASE expected + 1 >= NChunks
    <3>1. PassUp(longer, f)
      BY <1>5, <2>3 DEF ProcessExtended
    <3> HIDE DEF longer, f
    <3> QED
      BY <1>1, <1>2, <1>3, <2>2, <3>1, PassUpType
  <2>4. CASE ~(expected + 1 >= NChunks)
    <3> DEFINE r == [kind |-> "req", n |-> expected + 1, id |-> 0, serial |-> 0]
    <3>1. /\ buf' = [buf EXCEPT !.rx_emsg = longer, !.tx_chunk = r]
          /\ EnqueueChunk(buf'.tx_chunk, f)
          /\ prl' = [prl EXCEPT !.rch = "Requesting"]
          /\ UNCHANGED pe
      BY <1>5, <2>4 DEF ProcessExtended
    <3>2. r \in OurChunks
      BY <1>3, Sizes DEF OurChunks
    <3>3. buf' \in Buffers /\ buf'.rx_emsg = longer
      <4> HIDE DEF r, longer
      <4> QED
        BY <1>2, <3>1, <3>2 DEF TypeInv, Buffers
    <3>4. loop' \in Loops
      BY <3>1, AdvanceType DEF EnqueueChunk, TypeInv
    <3>5. prl' \in Layers /\ prl'.rch = "Requesting"
      BY <3>1 DEF TypeInv, Layers
    <3>6. flags' \subseteq AllFlags /\ status' \in Results
      BY <1>1, <3>1 DEF EnqueueChunk, AllFlags, TxFlags, Results
    <3>7. Len(buf'.rx_emsg) = num'.rch /\ num'.rch < NChunks
      BY <1>2, <1>3, <2>2, <2>4, <3>3, Sizes
    <3> QED
      BY <2>2, <3>1, <3>3, <3>4, <3>5, <3>6, <3>7, Sizes DEF TypeInv, ChunkInv, Numbers
  <2> QED
    BY <2>3, <2>4
<1> QED
  BY <1>4, <1>5

LEMMA TypeRch ==
    ASSUME TypeInv, Rch \/ RchTimeout, UNCHANGED partner PROVE TypeInv'
<1>1. loop.at # "rest"
  BY DEF Rch, RchIdle, RchPlain, RchFirstChunk, RchNextChunk, RchInterrupted, RchRequested,
         RchRequestFailed, RchRequesting, RchTimeout, RchTakes, RchAsks, RchTurn, At
<1>2. /\ flags \in SUBSET AllFlags
      /\ flags \ {"RX_ENQUEUED"} \in SUBSET AllFlags
      /\ flags \ {"TX_ERROR"} \in SUBSET AllFlags
      /\ flags \ {"TX_COMPLETED"} \in SUBSET AllFlags
  BY DEF TypeInv
<1>3. CASE RchIdle \/ RchRequesting
  BY <1>1, <1>3, PassType DEF RchIdle, RchRequesting
<1>4. CASE RchPlain
  <2>1. <<buf.rx_chunk>> \in Seq(TheirChunks) /\ Len(<<buf.rx_chunk>>) <= NChunks
    BY Sizes DEF TypeInv, Buffers
  <2>2. PassUp(<<buf.rx_chunk>>, flags \ {"RX_ENQUEUED"}) /\ UNCHANGED <<attached, tcpc>>
    BY <1>4 DEF RchPlain, RchTakes
  <2>3. num' \in Numbers
    BY <1>4 DEF RchPlain, TypeInv
  <2> QED
    BY <1>1, <1>2, <2>1, <2>2, <2>3, PassUpType
<1>5. CASE RchFirstChunk
  <2>1. <<>> \in Seq(TheirChunks) /\ Len(<<>>) = 0 /\ 0 \in 0..(NChunks - 1)
    BY EmptySeq, Sizes
  <2> QED
    BY <1>1, <1>5, <2>1, ProcessExtendedType DEF RchFirstChunk, RchTakes
<1>6. CASE RchNextChunk
  <2>1. prl.rch = "Waiting" /\ UNCHANGED <<attached, tcpc>> /\ ProcessExtended(buf.rx_emsg, num.rch)
    BY <1>6 DEF RchNextChunk, RchTakes
  <2>2. buf.rx_emsg \in Seq(TheirChunks) /\ Len(buf.rx_emsg) = num.rch
    BY <2>1 DEF TypeInv, ChunkInv, Buffers
  <2>3. num.rch \in 0..(NChunks - 1)
    BY <2>1, Sizes DEF TypeInv, ChunkInv, Numbers
  <2> QED
    BY <1>1, <2>1, <2>2, <2>3, ProcessExtendedType
<1>7. CASE RchInterrupted \/ RchTimeout \/ RchRequestFailed
  BY <1>1, <1>2, <1>7, RchReportErrorType
  DEF RchInterrupted, RchTimeout, RchRequestFailed, RchTakes
<1>8. CASE RchRequested
  <2>1. loop' \in Loops
    BY <1>1, <1>8, AdvanceType DEF RchRequested, TypeInv
  <2>2. prl' \in Layers /\ prl'.rch = "Waiting" /\ prl.rch = "Requesting"
    BY <1>8 DEF RchRequested, RchAsks, TypeInv, Layers
  <2> QED
    BY <1>2, <1>8, <2>1, <2>2 DEF RchRequested, TypeInv, ChunkInv
<1> QED
  BY <1>3, <1>4, <1>5, <1>6, <1>7, <1>8 DEF Rch

-----------------------------------------------------------------------------
(* TCH *)

LEMMA TchReceivedType ==
    ASSUME TypeInv, UNCHANGED partner, loop.at # "rest",
           NEW p \in Engines, NEW f \in SUBSET AllFlags, TchReceived(p, f)
    PROVE  TypeInv'
<1>1. loop' \in Loops
  BY AdvanceType DEF TchReceived, TypeInv
<1>2. prl' \in Layers /\ prl'.rch = prl.rch
  BY DEF TchReceived, TypeInv, Layers
<1>3. pe' \in Engines
  BY DropsType DEF TchReceived
<1>4. flags' \subseteq AllFlags
  BY DEF TchReceived, AllFlags, RchFlags
<1> QED
  BY <1>1, <1>2, <1>3, <1>4 DEF TchReceived, TypeInv, ChunkInv

LEMMA TchEndType ==
    ASSUME TypeInv, UNCHANGED partner, loop.at # "rest",
           NEW p \in Engines, NEW f \in SUBSET AllFlags, NEW restart \in BOOLEAN,
           TchEnd(p, f, restart)
    PROVE  TypeInv'
<1> DEFINE q == [prl EXCEPT !.tch = "Wait"]
<1>1. loop' \in Loops
  BY AdvanceType DEF TchEnd, TypeInv
<1>2. q \in Layers /\ q.rch = prl.rch
  BY DEF TypeInv, Layers
<1>3. prl' = Restarted(q, restart)
  BY DEF TchEnd
<1>4. prl' \in Layers /\ prl'.rch = prl.rch
  <2> HIDE DEF q
  <2> QED
    BY <1>2, <1>3, RestartedType
<1>5. pe' \in Engines
  BY DropsType DEF TchEnd
<1>6. flags' \subseteq AllFlags
  BY DEF TchEnd, AllFlags, RchFlags
<1> QED
  BY <1>1, <1>4, <1>5, <1>6 DEF TchEnd, TypeInv, ChunkInv

LEMMA TchReportsType ==
    ASSUME TypeInv, UNCHANGED partner, loop.at # "rest",
           NEW f \in SUBSET AllFlags, TchSent(f) \/ TchReportError(f)
    PROVE  TypeInv'
<1>1. pe \in Engines
  BY DEF TypeInv
<1>2. CASE TchSent(f)
  BY <1>1, <1>2, HearsSentType, TchEndType DEF TchSent
<1>3. CASE TchReportError(f)
  <2>1. PICK restart \in BOOLEAN : TchEnd(HearsError(pe, restart), f, restart)
    BY <1>3 DEF TchReportError, MayRestart
  <2> QED
    BY <1>1, <2>1, HearsErrorType, TchEndType
<1> QED
  BY <1>2, <1>3

LEMMA SendChunkType ==
    ASSUME TypeInv, UNCHANGED partner, loop.at # "rest",
           NEW n \in 0..NChunks, NEW f \in SUBSET AllFlags, SendChunk(n, f)
    PROVE  TypeInv'
<1> DEFINE m == buf.tx_emsg
           c == [kind |-> m.kind, n |-> n, id |-> 0, serial |-> m.serial]
<1>1. m \in Messages /\ c \in OurChunks
  BY Sizes DEF TypeInv, Buffers, Messages, OurChunks
<1>2. buf' = [buf EXCEPT !.tx_chunk = c]
  BY DEF SendChunk
<1>3. buf' \in Buffers /\ buf'.rx_emsg = buf.rx_emsg
  <2> HIDE DEF c
  <2> QED
    BY <1>1, <1>2 DEF TypeInv, Buffers
<1>4. loop' \in Loops
  BY AdvanceType DEF SendChunk, EnqueueChunk, TypeInv
<1>5. prl' \in Layers /\ prl'.rch = prl.rch
  BY DEF SendChunk, TypeInv, Layers
<1>6. num' \in Numbers /\ num'.rch = num.rch
  BY DEF SendChunk, TypeInv, Numbers
<1>7. flags' \subseteq AllFlags /\ status' \in Results
  BY DEF SendChunk, EnqueueChunk, AllFlags, TxFlags, Results
<1> QED
  BY <1>3, <1>4, <1>5, <1>6, <1>7 DEF SendChunk, TypeInv, ChunkInv

LEMMA TypeTch ==
    ASSUME TypeInv, Tch \/ TchTimeout, UNCHANGED partner PROVE TypeInv'
<1>1. loop.at # "rest"
  BY DEF Tch, TchIdle, TchHandOver, TchRefuse, TchSendFirst, TchFailed, TchAwaitTx,
         TchTransmitting, TchInterrupted, TchMessageSent, TchLastChunkSent, TchOneChunkSent,
         TchAwaitRequest, TchSendNext, TchWrongRequest, TchAborted, TchTimeout, TchStarts,
         InTransmission, TchChunkSent, TchAnswered, TchAt, TchTurn, At
<1>2. /\ flags \in SUBSET AllFlags
      /\ \A flag : flags \ {flag} \in SUBSET AllFlags
  BY DEF TypeInv
<1>3. pe \in Engines /\ HearsDiscard(pe) \in Engines
  BY HearsDiscardType DEF TypeInv
<1>4. CASE TchIdle \/ TchTransmitting \/ TchAwaitRequest
  BY <1>1, <1>4, PassType DEF TchIdle, TchTransmitting, TchAwaitRequest
<1>5. CASE TchHandOver \/ TchInterrupted \/ TchAborted
  BY <1>1, <1>2, <1>3, <1>5, TchReceivedType DEF TchHandOver, TchInterrupted, TchAborted
<1>6. CASE TchMessageSent \/ TchLastChunkSent \/ TchFailed \/ TchWrongRequest \/ TchTimeout
  BY <1>1, <1>2, <1>6, TchReportsType
  DEF TchMessageSent, TchLastChunkSent, TchFailed, TchWrongRequest, TchTimeout
<1>7. CASE TchSendFirst
  <2>1. SendChunk(0, flags \ {"MSG_FROM_PE_ENQUEUED"}) /\ 0 \in 0..NChunks
    BY <1>7, Sizes DEF TchSendFirst
  <2> QED
    BY <1>1, <1>2, <2>1, SendChunkType
<1>8. CASE TchSendNext
  <2>1. SendChunk(num.tch, flags \ {"CHUNK_FROM_RX"}) /\ num.tch \in 0..NChunks
    BY <1>8 DEF TchSendNext, TypeInv, Numbers
  <2> QED
    BY <1>1, <1>2, <2>1, SendChunkType
<1>9. CASE TchRefuse
  <2>1. loop' \in Loops
    BY <1>1, <1>9, AdvanceType DEF TchRefuse, TypeInv
  <2> QED
    BY <1>2, <1>3, <1>9, <2>1 DEF TchRefuse, TypeInv, ChunkInv
<1>10. CASE TchAwaitTx
  <2>1. loop' \in Loops
    BY <1>1, <1>10, AdvanceType DEF TchAwaitTx, TypeInv
  <2> QED
    BY <1>10, <2>1 DEF TchAwaitTx, TypeInv, ChunkInv
<1>11. CASE TchOneChunkSent
  <2>1. ("CHUNK_FROM_RX" \in flags) \in BOOLEAN
    OBVIOUS
  <2>2. loop' \in Loops
    BY <1>1, <1>11, <2>1, AdvanceType DEF TchOneChunkSent, TypeInv
  <2>3. num' \in Numbers /\ num'.rch = num.rch
    BY <1>11, Sizes DEF TchOneChunkSent, TchChunkSent, TypeInv, Numbers
  <2>4. prl' \in Layers /\ prl'.rch = prl.rch
    BY <1>11 DEF TchOneChunkSent, TypeInv, Layers
  <2> QED
    BY <1>2, <1>11, <2>2, <2>3, <2>4 DEF TchOneChunkSent, TypeInv, ChunkInv
<1> QED
  BY <1>4, <1>5, <1>6, <1>7, <1>8, <1>9, <1>10, <1>11 DEF Tch

-----------------------------------------------------------------------------
(* PE *)

LEMMA EnqueueType ==
    ASSUME TypeInv, UNCHANGED <<prl, num>>, loop' \in Loops,
           NEW kind \in {"ctl", "ext", "soft"}, NEW p \in Engines, Enqueue(kind, p)
    PROVE  TypeInv'
<1>1. [p EXCEPT !.out = kind, !.sent = @ + 1, !.told = "none", !.reply = FALSE] \in Engines
  <2>1. p.sent + 1 \in Nat /\ kind \in {"none", "ctl", "ext", "soft"}
    BY DEF Engines
  <2>2. \A e \in Engines : [e EXCEPT !.out = kind] \in Engines
    BY <2>1 DEF Engines
  <2>3. \A e \in Engines, n \in Nat : [e EXCEPT !.sent = n] \in Engines
    BY DEF Engines
  <2>4. \A e \in Engines : [e EXCEPT !.told = "none"] \in Engines
    BY DEF Engines
  <2>5. \A e \in Engines : [e EXCEPT !.reply = FALSE] \in Engines
    BY DEF Engines
  <2> QED
    BY <2>1, <2>2, <2>3, <2>4, <2>5
<1>2. pe.sent + 1 \in Nat
  BY DEF TypeInv, Engines
<1>3. buf' \in Buffers /\ buf'.rx_emsg = buf.rx_emsg
  BY <1>2 DEF Enqueue, TypeInv, Buffers, Messages
<1>4. flags' \subseteq AllFlags
  BY DEF Enqueue, TypeInv, AllFlags, TchFlags
<1> QED
  BY <1>1, <1>3, <1>4 DEF Enqueue, TypeInv, ChunkInv

LEMMA TypePe ==
    ASSUME TypeInv, Pe PROVE TypeInv'
<1>1. loop' \in Loops
  <2>1. loop.at # "rest" /\ Advance(FALSE)
    BY DEF Pe, PeWait, PeOff, PeStartup, PeStarted, PeEndAms, PeAccept, PeSoftReset,
           PeSendSoftReset, PeHardReset, PeDefault, PeReply, PeBegin, PeTurn, At
  <2> QED
    BY <2>1, AdvanceType DEF TypeInv
<1>2. CASE PeWait
  BY <1>1, <1>2 DEF PeWait, TypeInv, ChunkInv
<1>3. CASE PeOff \/ PeStarted \/ PeEndAms \/ PeDefault
  <2>1. pe' \in Engines
    <3>1. CASE PeOff
      BY <3>1, StoppedType DEF PeOff, TypeInv
    <3>2. CASE PeStarted \/ PeEndAms \/ PeDefault
      BY <3>2 DEF PeStarted, PeEndAms, PeDefault, TypeInv, Engines
    <3> QED
      BY <1>3, <3>1, <3>2
  <2> QED
    BY <1>1, <1>3, <2>1 DEF PeOff, PeStarted, PeEndAms, PeDefault, TypeInv, ChunkInv
<1>4. CASE PeStartup \/ PeSoftReset
  <2>1. pe' \in Engines
    BY <1>4, StoppedType DEF PeStartup, PeSoftReset, TypeInv
  <2>2. prl' \in Layers /\ prl'.rch = prl.rch
    BY <1>4 DEF PeStartup, PeSoftReset, TypeInv, Layers
  <2> QED
    BY <1>1, <1>4, <2>1, <2>2 DEF PeStartup, PeSoftReset, TypeInv, ChunkInv
<1>5. CASE PeHardReset
  <2>1. pe' \in Engines
    BY <1>5 DEF PeHardReset, TypeInv, Engines
  <2> QED
    BY <1>1, <1>5, <2>1 DEF PeHardReset, TypeInv, ChunkInv, AllFlags, HrFlags
<1>6. CASE PeAccept
  <2>1. [pe EXCEPT !.accept = FALSE, !.mode = "run"] \in Engines
    BY DEF TypeInv, Engines
  <2>2. Enqueue("ctl", [pe EXCEPT !.accept = FALSE, !.mode = "run"])
    BY <1>6 DEF PeAccept
  <2> QED
    BY <1>1, <2>1, <2>2, EnqueueType DEF Enqueue
<1>7. CASE PeSendSoftReset
  <2>1. [pe EXCEPT !.mode = "run"] \in Engines
    BY DEF TypeInv, Engines
  <2>2. Enqueue("soft", [pe EXCEPT !.mode = "run"])
    BY <1>7 DEF PeSendSoftReset
  <2> QED
    BY <1>1, <2>1, <2>2, EnqueueType DEF Enqueue
<1>8. ASSUME NEW kind \in {"ctl", "ext"}, PeReply(kind)
      PROVE  TypeInv'
  BY <1>1, <1>8, EnqueueType DEF PeReply, Enqueue, TypeInv
<1>9. ASSUME NEW kind \in {"ctl", "ext"}, NEW ams \in {"no", "new"}, PeBegin(kind, ams)
      PROVE  TypeInv'
  <2>1. [pe EXCEPT !.ams = ams] \in Engines
    BY DEF TypeInv, Engines
  <2>2. Enqueue(kind, [pe EXCEPT !.ams = ams])
    BY <1>9 DEF PeBegin
  <2> QED
    BY <1>1, <2>1, <2>2, EnqueueType DEF Enqueue
<1> QED
  BY <1>2, <1>3, <1>4, <1>5, <1>6, <1>7, <1>8, <1>9 DEF Pe

-----------------------------------------------------------------------------
(* The driver *)

\* What the driver's task and the partner leave alone.
LEMMA OutsideType ==
    ASSUME TypeInv, UNCHANGED <<attached, prl, num, buf>>, loop' \in Loops,
           flags' \subseteq AllFlags, status' \in Results, tcpc' \in Drivers,
           pe' \in Engines, partner' \in Partners
    PROVE  TypeInv'
  BY DEF TypeInv, ChunkInv

LEMMA WakesType == ASSUME loop \in Loops, Wakes PROVE loop' \in Loops
  BY DEF Wakes, Loops

LEMMA PartnerResetType ==
    ASSUME NEW p \in Partners PROVE PartnerReset(p) \in Partners
  BY Sizes DEF PartnerReset, Partners

LEMMA TxEndType ==
    ASSUME TypeInv, NEW result \in Results, TxEnd(result)
    PROVE  loop' \in Loops /\ status' \in Results
<1>1. (loop.event \/ status = "SENDING") \in BOOLEAN
  OBVIOUS
<1>2. loop' \in Loops
  BY <1>1 DEF TxEnd, TypeInv, Loops
<1> QED
  BY <1>2 DEF TxEnd, TypeInv

LEMMA TypeDriver ==
    ASSUME TypeInv, Driver \/ TxFails \/ MeasureCc PROVE TypeInv'
<1>1. <<>> \in Seq(TheirChunks)
  BY EmptySeq
<1>2. CASE SetRxEnable
  <2>1. tcpc' \in Drivers
    BY <1>1, <1>2 DEF SetRxEnable, TypeInv, Drivers
  <2> QED
    BY <1>2, <2>1, WakesType, OutsideType DEF SetRxEnable, TypeInv, Results
<1>3. CASE BeginTransmit
  <2>1. tcpc' \in Drivers
    BY <1>3 DEF BeginTransmit, TypeInv, Drivers
  <2> QED
    BY <1>3, <2>1, OutsideType DEF BeginTransmit, TypeInv, Results
<1>4. CASE BeginHardReset
  <2>1. tcpc' \in Drivers
    BY <1>1, <1>4 DEF BeginHardReset, TypeInv, Drivers
  <2> QED
    BY <1>4, <2>1, WakesType, OutsideType DEF BeginHardReset, TypeInv, Results
<1>5. CASE HardResetSent
  <2>1. tcpc' \in Drivers
    BY <1>1, <1>5 DEF HardResetSent, TypeInv, Drivers
  <2>2. partner' \in Partners
    BY <1>5, PartnerResetType DEF HardResetSent, TypeInv
  <2>3. loop' \in Loops /\ status' \in Results /\ UNCHANGED <<attached, prl, flags, num, buf, pe>>
    BY <1>5, TxEndType DEF HardResetSent, Results, TxEnd
  <2> QED
    BY <2>1, <2>2, <2>3, OutsideType DEF TypeInv
<1>6. CASE TxSucceeds \/ TxFails
  <2>1. tcpc' \in Drivers
    BY <1>6 DEF TxSucceeds, TxFails, TypeInv, Drivers
  <2>2. loop' \in Loops /\ status' \in Results /\ UNCHANGED <<attached, prl, flags, num, buf, pe>>
    BY <1>6, TxEndType DEF TxSucceeds, TxFails, Results, TxEnd
  <2> QED
    BY <1>6, <2>1, <2>2, OutsideType DEF TxSucceeds, TxFails, TypeInv
<1>7. CASE MeasureCc
  <2>1. tcpc' \in Drivers
    BY <1>7 DEF MeasureCc, TypeInv, Drivers
  <2> QED
    BY <1>7, <2>1, WakesType, OutsideType DEF MeasureCc, TypeInv
<1> QED
  BY <1>2, <1>3, <1>4, <1>5, <1>6, <1>7 DEF Driver

-----------------------------------------------------------------------------
(* The partner *)

LEMMA ReceivesType ==
    ASSUME TypeInv, NEW m \in TheirChunks, Receives(m), partner' \in Partners
    PROVE  TypeInv'
<1>1. Append(tcpc.rx_queue, m) \in Seq(TheirChunks)
  BY AppendProperties DEF TypeInv, Drivers
<1>2. tcpc' \in Drivers
  BY <1>1 DEF Receives, TypeInv, Drivers
<1>3. loop' \in Loops
  BY WakesType DEF Receives, TypeInv
<1> QED
  BY <1>2, <1>3, OutsideType DEF Receives, TypeInv

LEMMA PartnerSendType ==
    ASSUME TypeInv, NEW kind \in {"ctl", "ext", "req", "ping", "soft"}, NEW n \in 0..NChunks,
           PartnerSend(kind, n)
    PROVE  TypeInv'
<1> DEFINE serial == partner.sent + 1
           p == IF kind = "soft" THEN PartnerReset(partner) ELSE partner
           m == [kind |-> kind, n |-> n, id |-> p.next, serial |-> serial,
                 first |-> IF kind # "ext" \/ n = 0 THEN serial ELSE p.first]
           q == [p EXCEPT !.next = (@ + 1) % IdMod, !.sent = serial, !.last = m,
                          !.first = IF kind = "ext" THEN m.first ELSE @]
<1>1. p \in Partners
  BY PartnerResetType DEF TypeInv
<1>2. serial \in Nat
  BY DEF TypeInv, Partners
<1>3. p.next \in Ids /\ p.first \in Nat
  <2> HIDE DEF p
  <2> QED
    BY <1>1 DEF Partners
<1>4. m \in TheirChunks /\ m.first \in Nat
  <2> HIDE DEF p, serial
  <2> QED
    BY <1>2, <1>3 DEF TheirChunks
<1>5. (p.next + 1) % IdMod \in Ids
  <2>1. \A M \in Nat \ {0} : \A i \in 0..(M - 1) : (i + 1) % M \in 0..(M - 1)
    OBVIOUS
  <2> HIDE DEF p
  <2> QED
    BY <1>3, <2>1, Sizes DEF Ids
<1>6. q \in Partners
  <2> HIDE DEF p, serial, m
  <2> QED
    BY <1>1, <1>2, <1>3, <1>4, <1>5 DEF Partners
<1>7. Receives(m) /\ partner' = q
  BY DEF PartnerSend
<1> HIDE DEF m, q
<1> QED
  BY <1>4, <1>6, <1>7, ReceivesType

LEMMA TypePartner ==
    ASSUME TypeInv, Partner PROVE TypeInv'
<1>1. CASE PartnerHears
  <2> DEFINE c == tcpc.chunk
             p == IF c.kind = "soft" THEN PartnerReset(partner) ELSE partner
             got == IF c.serial = 0 THEN p.got ELSE [serial |-> c.serial, n |-> c.n]
  <2>1. c \in OurChunks /\ tcpc' \in Drivers
    BY <1>1 DEF PartnerHears, TypeInv, Drivers
  <2>2. p \in Partners
    BY PartnerResetType DEF TypeInv
  <2>3. c.id \in Ids /\ [serial |-> c.serial, n |-> c.n] \in [serial : Nat, n : 0..NChunks]
    BY <2>1 DEF OurChunks
  <2>4. got \in [serial : Nat, n : 0..NChunks]
    <3> HIDE DEF p, c
    <3> QED
      BY <2>2, <2>3 DEF Partners
  <2>5. partner' = IF c.id = p.seen THEN p ELSE [p EXCEPT !.seen = c.id, !.got = got]
    BY <1>1 DEF PartnerHears
  <2>6. partner' \in Partners
    <3> HIDE DEF p, c, got
    <3> QED
      BY <2>2, <2>3, <2>4, <2>5 DEF Partners
  <2> QED
    BY <1>1, <2>1, <2>6, OutsideType DEF PartnerHears, TypeInv
<1>2. CASE PartnerSends
  <2>1. 0..(NChunks - 1) \subseteq 0..NChunks /\ 1..NChunks \subseteq 0..NChunks /\ 0 \in 0..NChunks
    BY Sizes
  <2> QED
    BY <1>2, <2>1, PartnerSendType DEF PartnerSends
<1>3. CASE PartnerRepeats
  <2>1. partner.last \in TheirChunks /\ partner' \in Partners
    BY <1>3 DEF PartnerRepeats, TypeInv, Partners
  <2> QED
    BY <1>3, <2>1, ReceivesType DEF PartnerRepeats
<1>4. CASE PartnerHardReset
  <2>1. <<>> \in Seq(TheirChunks) /\ NoMsg \in TheirChunks
    BY EmptySeq, Sizes DEF NoMsg, TheirChunks
  <2>2. tcpc' \in Drivers
    BY <1>4, <2>1 DEF PartnerHardReset, TypeInv, Drivers
  <2>3. ASSUME NEW p \in Partners
        PROVE  [p EXCEPT !.sent = @ + 1, !.last = NoMsg] \in Partners
    <3>1. p.sent + 1 \in Nat
      BY DEF Partners
    <3> HIDE DEF NoMsg
    <3> QED
      BY <2>1, <3>1 DEF Partners
  <2>4. PartnerReset(partner) \in Partners
    BY PartnerResetType DEF TypeInv
  <2>5. partner' \in Partners
    BY <1>4, <2>3, <2>4 DEF PartnerHardReset
  <2> QED
    BY <1>4, <2>2, <2>5, WakesType, OutsideType
    DEF PartnerHardReset, TypeInv, AllFlags, HrFlags
<1> QED
  BY <1>1, <1>2, <1>3, <1>4 DEF Partner

-----------------------------------------------------------------------------

LEMMA TypeCable ==
    ASSUME TypeInv, TickStart \/ Cable PROVE TypeInv'
<1>1. loop' = [at |-> "pe", event |-> FALSE]
  BY DEF TickStart, Cable
<1>2. loop' \in Loops
  BY <1>1 DEF Loops, Places
<1>3. \A p \in Partners : [p EXCEPT !.last = NoMsg] \in Partners
  BY Sizes DEF Partners, NoMsg, TheirChunks
<1>4. partner' \in Partners
  BY <1>3, PartnerResetType DEF TickStart, Cable, TypeInv
<1> QED
  BY <1>2, <1>4 DEF TickStart, Cable, TypeInv, ChunkInv

LEMMA TypeStep ==
    ASSUME TypeInv, [Next]_sysVars PROVE TypeInv'
<1>1. CASE UNCHANGED sysVars
  BY <1>1 DEF sysVars, vars, TypeInv, ChunkInv
<1>2. CASE PrlStep
  BY <1>2, TypeInitLayer, TypeDisable, TypeHr, TypeTx, TypeRx, TypeRch, TypeTch
  DEF PrlStep, PrlNext, Timeouts
<1> QED
  BY <1>1, <1>2, TypeCable, TypePe, TypeDriver, TypePartner DEF Next, Tick

\* Every chunk number, id and counter of retries stays in its range, and the
\* message PRL_RCH puts together never outgrows its buffer, however many chunks
\* the partner sends, in whatever order.
THEOREM TypeCorrect == Spec => []TypeOK
<1>1. Init => TypeInv
  BY TypeInit
<1>2. TypeInv /\ [Next]_sysVars => TypeInv'
  BY TypeStep
<1>3. TypeInv => TypeOK
  BY TypeMeans
<1> QED
  BY <1>1, <1>2, <1>3, PTL DEF Spec

-----------------------------------------------------------------------------
(* PRL_Tx has one owner.  Alone the property is not inductive: TCH starts to *)
(* send when RCH waits, and RCH must not begin a request meanwhile.  It does *)
(* not because a message on its way to RCH keeps TCH where it is.            *)

AtTch == At({"tch1", "tx1", "tch2", "tch3"})

OwnerInv ==
    /\ TxHasOneOwner
    /\ "RX_ENQUEUED" \in flags => prl.tch = "Wait"
    /\ AtTch /\ {"RX_ENQUEUED", "MSG_FROM_PE_ENQUEUED"} \subseteq flags => prl.rch # "Wait"

\* Most steps leave RCH and TCH where they are and enqueue nothing for them.
LEMMA OwnerKept ==
    ASSUME OwnerInv, prl'.rch = prl.rch, prl'.tch = prl.tch,
           "RX_ENQUEUED" \in flags' => "RX_ENQUEUED" \in flags,
           AtTch' => AtTch /\ ("MSG_FROM_PE_ENQUEUED" \in flags' =>
                                  "MSG_FROM_PE_ENQUEUED" \in flags)
    PROVE  OwnerInv'
  BY DEF OwnerInv, TxHasOneOwner

LEMMA OwnerInit == ASSUME Init PROVE OwnerInv
  BY DEF Init, OwnerInv, TxHasOneOwner

LEMMA OwnerAdvance ==
    ASSUME TypeInv, NEW wake \in BOOLEAN, Advance(wake)
    PROVE  /\ At({"pe"}) => ~AtTch'
           /\ At({"prl"}) => ~AtTch'
           /\ At({"tx0"}) => ~AtTch'
           /\ At({"rx"}) => ~AtTch'
           /\ At({"rch2"}) => ~AtTch'
  BY DEF Advance, At, AtTch, After

LEMMA OwnerEndTick ==
    ASSUME TypeInv, NEW wake \in BOOLEAN, EndTick(wake) PROVE ~AtTch'
  BY DEF EndTick, At, AtTch

LEMMA OwnerHr ==
    ASSUME TypeInv, OwnerInv, InitLayer \/ Disable \/ Hr PROVE OwnerInv'
<1>1. CASE InitLayer
  <2>1. prl'.rch = "Wait" /\ prl'.tch = "Wait" /\ flags' = {}
    BY <1>1 DEF InitLayer, ClearedFlags, Ready, TypeInv, Layers
  <2> QED
    BY <2>1 DEF OwnerInv, TxHasOneOwner
<1>2. CASE Disable \/ Hr
  <2>1. ~AtTch'
    <3>1. CASE HrIdle
      BY <3>1, OwnerAdvance DEF HrIdle, HrTurn
    <3>2. CASE ~HrIdle
      BY <1>2, <3>2, OwnerEndTick
      DEF Disable, Hr, HrWait, HrResetLayer, HrIndicate, HrRequest, HrRequested, HrSent
    <3> QED
      BY <3>1, <3>2
  <2>2. prl'.rch = prl.rch /\ prl'.tch = prl.tch /\ flags' = flags
    BY <1>2 DEF Disable, Hr, HrIdle, HrWait, HrResetLayer, HrIndicate, HrRequest,
       HrRequested, HrSent, TypeInv, Layers
  <2> QED
    BY <2>1, <2>2, OwnerKept
<1> QED
  BY <1>1, <1>2

LEMMA OwnerTx ==
    ASSUME TypeInv, OwnerInv, Tx PROVE OwnerInv'
<1>1. AtTch' => AtTch
  <2>1. At({"tx0", "tx1"}) /\ \E wake \in BOOLEAN : Advance(wake)
    BY DEF Tx, TxSkip, TxHeld, TxStartOfAms, TxTakeChunk, TxNothing, TxSnkStart, TxSnkPending,
           TxSnkWait, TxPollCc, TxSent, TxGiveUp, TxRetry, TxWaitPhy, TxDiscard,
           TxDiscardNothing, TxReady, TxFailed, Discard, TxTurn, At, Pass, SnkStart,
           AskSinkTx, ConstructEnqueued, Construct, TxOutcome
  <2> QED
    BY <2>1, OwnerAdvance DEF At, AtTch
<1>2. prl'.rch = prl.rch /\ prl'.tch = prl.tch
  BY DEF Tx, TxSkip, TxHeld, TxStartOfAms, TxTakeChunk, TxNothing, TxSnkStart, TxSnkPending,
         TxSnkWait, TxPollCc, TxSent, TxGiveUp, TxRetry, TxWaitPhy, TxDiscard,
         TxDiscardNothing, TxFailed, Discard, Pass, SnkStart, AskSinkTx,
         ConstructEnqueued, Construct, TxOutcome, TypeInv, Layers
<1>3. flags' \ flags \subseteq TxFlags
  BY DEF Tx, TxSkip, TxHeld, TxStartOfAms, TxTakeChunk, TxNothing, TxSnkStart, TxSnkPending,
         TxSnkWait, TxPollCc, TxSent, TxGiveUp, TxRetry, TxWaitPhy, TxDiscard,
         TxDiscardNothing, TxFailed, Discard, Pass, SnkStart, AskSinkTx,
         ConstructEnqueued, Construct, TxOutcome, AmsMarked, TxFlags
<1> QED
  BY <1>1, <1>2, <1>3, OwnerKept DEF TxFlags

LEMMA OwnerRx ==
    ASSUME TypeInv, OwnerInv, Rx PROVE OwnerInv'
<1>1. ~AtTch'
  BY OwnerAdvance DEF Rx, RxPostpone, RxEmpty, RxSoftReset, RxDrop, RxStore, Fetch, Pass
<1>2. CASE RxPostpone \/ RxEmpty \/ RxDrop
  BY <1>1, <1>2, OwnerKept DEF RxPostpone, RxEmpty, RxDrop, Pass
<1>3. CASE RxSoftReset
  <2>1. prl'.rch = "Wait" /\ prl'.tch = "Wait"
    BY <1>3 DEF RxSoftReset, Ready, TypeInv, Layers
  <2> QED
    BY <2>1, <1>1 DEF OwnerInv, TxHasOneOwner
<1>4. CASE RxStore
  <2>1. prl'.rch = prl.rch /\ prl'.tch = prl.tch
    BY <1>4 DEF RxStore, TypeInv, Layers
  <2>2. "RX_ENQUEUED" \in flags' => prl.tch = "Wait"
    BY <1>4 DEF RxStore, OwnerInv
  <2> QED
    BY <1>1, <2>1, <2>2 DEF OwnerInv, TxHasOneOwner
<1> QED
  BY <1>2, <1>3, <1>4 DEF Rx

LEMMA OwnerRch ==
    ASSUME TypeInv, OwnerInv, Rch \/ RchTimeout PROVE OwnerInv'
<1>1. prl'.tch = prl.tch
  BY DEF Rch, RchIdle, RchPlain, RchFirstChunk, RchNextChunk, RchInterrupted, RchRequested,
         RchRequestFailed, RchRequesting, RchTimeout, ProcessExtended, PassUp,
         RchReportError, Restarted, EnqueueChunk, Pass, TypeInv, Layers
<1>2. flags' \subseteq flags \cup {"TX_CHUNK_ENQUEUED"}
  BY DEF Rch, RchIdle, RchPlain, RchFirstChunk, RchNextChunk, RchInterrupted, RchRequested,
         RchRequestFailed, RchRequesting, RchTimeout, ProcessExtended, PassUp,
         RchReportError, EnqueueChunk, Pass
<1>3. CASE "RX_ENQUEUED" \in flags'
  <2>1. RchRequested \/ RchRequesting
    <3>1. CASE RchIdle
      BY <1>3, <3>1 DEF RchIdle, Pass
    <3>2. CASE RchPlain \/ RchFirstChunk \/ RchNextChunk
      <4>1. ASSUME NEW sofar, NEW expected, ProcessExtended(sofar, expected)
            PROVE  "RX_ENQUEUED" \notin flags'
        <5> DEFINE f == flags \ {"RX_ENQUEUED"}
        <5>1. CASE RchReportError(f)
          BY <5>1 DEF RchReportError
        <5>2. CASE ~RchReportError(f)
          <6>1. flags' = f \/ flags' = (f \ Outputs) \cup {"TX_CHUNK_ENQUEUED"}
            BY <4>1, <5>2 DEF ProcessExtended, PassUp, EnqueueChunk
          <6> QED
            BY <6>1
        <5> QED
          BY <5>1, <5>2
      <4> QED
        BY <1>3, <3>2, <4>1 DEF RchPlain, RchFirstChunk, RchNextChunk, PassUp
    <3>3. CASE RchInterrupted \/ RchRequestFailed \/ RchTimeout
      BY <1>3, <3>3 DEF RchInterrupted, RchRequestFailed, RchTimeout, RchReportError
    <3> QED
      BY <3>1, <3>2, <3>3 DEF Rch
  <2>2. prl'.rch \in {"Requesting", "Waiting"} /\ prl.rch = "Requesting"
    BY <2>1 DEF RchRequested, RchRequesting, RchAsks, Pass, TypeInv, Layers
  <2> QED
    BY <1>1, <1>2, <2>2 DEF OwnerInv, TxHasOneOwner
<1>4. CASE "RX_ENQUEUED" \notin flags'
  <2>1. prl'.rch = "Requesting" => prl.rch = "Requesting" \/ "RX_ENQUEUED" \in flags
    BY DEF Rch, RchIdle, RchPlain, RchFirstChunk, RchNextChunk, RchInterrupted, RchRequested,
         RchRequestFailed, RchRequesting, RchTimeout, RchTakes, RchAsks, Pass, TypeInv,
         PassUp, RchReportError, Restarted, Layers
  <2> QED
    BY <1>1, <1>4, <2>1 DEF OwnerInv, TxHasOneOwner
<1> QED
  BY <1>3, <1>4

LEMMA OwnerReceived ==
    ASSUME TypeInv, OwnerInv, NEW p, NEW f, TchReceived(p, f)
    PROVE  OwnerInv'
<1>1. prl'.rch = prl.rch /\ prl'.tch = "Wait" /\ "MSG_FROM_PE_ENQUEUED" \notin flags'
  BY DEF TchReceived, TchFlags, TypeInv, Layers
<1> QED
  BY <1>1 DEF OwnerInv, TxHasOneOwner

LEMMA OwnerEnd ==
    ASSUME TypeInv, OwnerInv, AtTch, NEW p, NEW f \in SUBSET flags, NEW restart \in BOOLEAN,
           TchEnd(p, f, restart)
    PROVE  OwnerInv'
<1>1. prl'.rch = prl.rch /\ prl'.tch = "Wait"
  BY DEF TchEnd, Restarted, TypeInv, Layers
<1>2. {"RX_ENQUEUED", "MSG_FROM_PE_ENQUEUED"} \subseteq flags' =>
          {"RX_ENQUEUED", "MSG_FROM_PE_ENQUEUED"} \subseteq flags
  BY DEF TchEnd, TchFlags
<1> QED
  BY <1>1, <1>2 DEF OwnerInv, TxHasOneOwner

LEMMA OwnerTch ==
    ASSUME TypeInv, OwnerInv, Tch \/ TchTimeout PROVE OwnerInv'
<1>1. AtTch
  BY DEF Tch, TchIdle, TchHandOver, TchRefuse, TchSendFirst, TchFailed, TchAwaitTx,
         TchTransmitting, TchInterrupted, TchMessageSent, TchLastChunkSent, TchOneChunkSent,
         TchAwaitRequest, TchSendNext, TchWrongRequest, TchAborted, TchTimeout, TchStarts,
         InTransmission, TchChunkSent, TchAnswered, TchAt, TchTurn, At, AtTch
<1>2. CASE TchHandOver \/ TchInterrupted \/ TchAborted
  BY <1>2, OwnerReceived DEF TchHandOver, TchInterrupted, TchAborted
<1>3. CASE TchMessageSent \/ TchLastChunkSent \/ TchFailed \/ TchWrongRequest \/ TchTimeout
  <2>1. ASSUME NEW f \in SUBSET flags, TchSent(f)
        PROVE  OwnerInv'
    BY <1>1, <2>1, OwnerEnd DEF TchSent
  <2>2. ASSUME NEW f \in SUBSET flags, TchReportError(f)
        PROVE  OwnerInv'
    BY <1>1, <2>2, OwnerEnd DEF TchReportError, MayRestart
  <2>3. flags \in SUBSET flags /\ \A flag : flags \ {flag} \in SUBSET flags
    OBVIOUS
  <2> QED
    BY <1>3, <2>1, <2>2, <2>3
    DEF TchMessageSent, TchLastChunkSent, TchFailed, TchWrongRequest, TchTimeout
<1>4. CASE TchIdle \/ TchTransmitting \/ TchAwaitRequest \/ TchAwaitTx \/ TchRefuse
  <2>1. UNCHANGED prl /\ flags' \subseteq flags
    BY <1>4 DEF TchIdle, TchTransmitting, TchAwaitRequest, TchAwaitTx, TchRefuse, Pass
  <2> QED
    BY <1>1, <2>1, OwnerKept
<1>5. CASE TchOneChunkSent \/ TchSendNext
  <2>1. prl.tch # "Wait" /\ prl'.rch = prl.rch /\ flags' \subseteq flags \cup {"TX_CHUNK_ENQUEUED"}
    BY <1>5 DEF TchOneChunkSent, TchChunkSent, TchSendNext, TchAnswered, TchAt, SendChunk,
                EnqueueChunk, TypeInv, Layers
  <2> QED
    BY <2>1 DEF OwnerInv, TxHasOneOwner
<1>6. CASE TchSendFirst
  <2>1. prl.rch = "Wait" /\ prl'.rch = "Wait"
    BY <1>6 DEF TchSendFirst, RchBusy, SendChunk, TypeInv, Layers
  <2>2. "MSG_FROM_PE_ENQUEUED" \in flags
    BY <1>6 DEF TchSendFirst, TchStarts
  <2>3. "RX_ENQUEUED" \notin flags'
    BY <1>1, <1>6, <2>1, <2>2 DEF OwnerInv, TchSendFirst, SendChunk, EnqueueChunk
  <2> QED
    BY <2>1, <2>3 DEF OwnerInv, TxHasOneOwner
<1> QED
  BY <1>2, <1>3, <1>4, <1>5, <1>6 DEF Tch

LEMMA OwnerElse ==
    ASSUME TypeInv, OwnerInv, TickStart \/ Cable \/ Pe \/ Driver \/ TxFails \/ MeasureCc \/ Partner
    PROVE  OwnerInv'
<1>1. CASE TickStart \/ Cable
  <2>1. ~AtTch'
    BY <1>1 DEF TickStart, Cable, AtTch, At
  <2> QED
    BY <1>1, <2>1, OwnerKept DEF TickStart, Cable
<1>2. CASE Pe
  <2>1. ~AtTch'
    BY <1>2, OwnerAdvance
    DEF Pe, PeWait, PeOff, PeStartup, PeStarted, PeEndAms, PeAccept, PeSoftReset,
        PeSendSoftReset, PeHardReset, PeDefault, PeReply, PeBegin, PeTurn
  <2>2. /\ prl'.rch = prl.rch /\ prl'.tch = prl.tch
        /\ flags' \subseteq flags \cup {"MSG_FROM_PE_ENQUEUED"} \cup HrFlags
    BY <1>2
    DEF Pe, PeWait, PeOff, PeStartup, PeStarted, PeEndAms, PeAccept, PeSoftReset,
        PeSendSoftReset, PeHardReset, PeDefault, PeReply, PeBegin, Enqueue, HrFlags,
        TypeInv, Layers
  <2> QED
    BY <2>1, <2>2, OwnerKept DEF HrFlags
<1>3. CASE Driver \/ TxFails \/ MeasureCc \/ Partner
  <2>1. loop'.at = loop.at
    BY <1>3
    DEF Driver, SetRxEnable, BeginTransmit, BeginHardReset, HardResetSent, TxSucceeds, TxFails,
        MeasureCc, Partner, PartnerHears, PartnerSends, PartnerSend, PartnerRepeats,
        PartnerHardReset, Receives, TxEnd, Wakes, TypeInv, Loops
  <2>2. UNCHANGED prl /\ flags' \subseteq flags \cup HrFlags
    BY <1>3
    DEF Driver, SetRxEnable, BeginTransmit, BeginHardReset, HardResetSent, TxSucceeds, TxFails,
        MeasureCc, Partner, PartnerHears, PartnerSends, PartnerSend, PartnerRepeats,
        PartnerHardReset, Receives, TxEnd, HrFlags
  <2> QED
    BY <2>1, <2>2, OwnerKept DEF HrFlags, AtTch, At
<1> QED
  BY <1>1, <1>2, <1>3

LEMMA OwnerStep ==
    ASSUME TypeInv, OwnerInv, [Next]_sysVars PROVE OwnerInv'
<1>1. CASE UNCHANGED sysVars
  BY <1>1 DEF sysVars, vars, OwnerInv, TxHasOneOwner, AtTch, At
<1>2. CASE PrlStep
  BY <1>2, OwnerHr, OwnerTx, OwnerRx, OwnerRch, OwnerTch DEF PrlStep, PrlNext, Timeouts
<1> QED
  BY <1>1, <1>2, OwnerElse DEF Next, Tick

\* PRL_Tx and tx_chunk never have two owners: while PRL_RCH asks for a chunk,
\* PRL_TCH has nothing in transmission, in whatever order the messages of PE,
\* those of the partner and the reports of the driver arrive.
THEOREM OneOwner == Spec => []TxHasOneOwner
<1>1. Init => OwnerInv
  BY OwnerInit
<1>2. TypeInv /\ OwnerInv /\ [Next]_sysVars => OwnerInv'
  BY OwnerStep
<1>3. OwnerInv => TxHasOneOwner
  BY DEF OwnerInv
<1>4. Init => TypeInv
  BY TypeInit
<1>5. TypeInv /\ [Next]_sysVars => TypeInv'
  BY TypeStep
<1> QED
  BY <1>1, <1>2, <1>3, <1>4, <1>5, PTL DEF Spec

-----------------------------------------------------------------------------
(* What the machines and the parties leave alone, once for all the proofs    *)
(* that follow.                                                              *)

LEMMA AfterAt ==
    ASSUME TypeInv, loop'.at = After[loop.at]
    PROVE  /\ loop.at = "pe" => loop'.at = "prl"
           /\ loop.at = "prl" => loop'.at = "tx0"
           /\ loop.at = "tx0" => loop'.at = "rx"
           /\ loop.at = "rx" => loop'.at = "rch1"
           /\ loop.at = "rch1" => loop'.at = "tch1"
           /\ loop.at = "tch1" => loop'.at = "tx1"
           /\ loop.at = "tx1" => loop'.at = "tch2"
           /\ loop.at = "tch2" => loop'.at = "tch3"
           /\ loop.at = "tch3" => loop'.at = "rch2"
           /\ loop.at = "rch2" => loop'.at = "rest"
  BY DEF After

LEMMA FrameTx ==
    ASSUME TypeInv, Tx
    PROVE  /\ loop.at \in {"tx0", "tx1"} /\ loop'.at = After[loop.at] /\ attached' = attached
           /\ prl'.local = prl.local /\ prl'.hr = prl.hr
           /\ prl'.rch = prl.rch /\ prl'.tch = prl.tch
           /\ \A f : f \notin TxFlags => (f \in flags' <=> f \in flags)
           /\ buf'.rx_chunk = buf.rx_chunk /\ buf'.rx_emsg = buf.rx_emsg
           /\ num'.rch = num.rch /\ num'.tch = num.tch
           /\ tcpc'.hr_send = tcpc.hr_send /\ tcpc'.rx_queue = tcpc.rx_queue
           /\ pe'.mode = pe.mode /\ pe'.heard = pe.heard /\ pe'.again = pe.again
<1>1. loop.at \in {"tx0", "tx1"} /\ loop'.at = After[loop.at] /\ attached' = attached
  BY DEF Tx, TxSkip, TxHeld, TxStartOfAms, TxTakeChunk, TxNothing, TxSnkStart, TxSnkPending,
         TxSnkWait, TxPollCc, TxSent, TxGiveUp, TxRetry, TxWaitPhy, TxDiscard,
         TxDiscardNothing, TxReady, TxFailed, Discard, TxTurn, At, Pass, SnkStart,
         AskSinkTx, ConstructEnqueued, Construct, TxOutcome, Advance
<1>2. /\ prl'.local = prl.local /\ prl'.hr = prl.hr
      /\ prl'.rch = prl.rch /\ prl'.tch = prl.tch
  <2>1. \/ prl' = prl
        \/ prl' = [prl EXCEPT !.tx = "Wait_Request"]
        \/ prl' = [prl EXCEPT !.tx = "Wait_PHY"]
        \/ prl' = [prl EXCEPT !.tx = "Snk_Start"]
        \/ prl' = [prl EXCEPT !.tx = "Snk_Pending"]
    BY DEF Tx, TxSkip, TxHeld, TxStartOfAms, TxTakeChunk, TxNothing, TxSnkStart, TxSnkPending,
           TxSnkWait, TxPollCc, TxSent, TxGiveUp, TxRetry, TxWaitPhy, TxDiscard,
           TxDiscardNothing, TxFailed, Discard, Pass, SnkStart, AskSinkTx,
           ConstructEnqueued, Construct, TxOutcome
  <2> QED
    BY <2>1 DEF TypeInv, Layers
<1>3. \A f : f \notin TxFlags => (f \in flags' <=> f \in flags)
  BY DEF Tx, TxSkip, TxHeld, TxStartOfAms, TxTakeChunk, TxNothing, TxSnkStart, TxSnkPending,
         TxSnkWait, TxPollCc, TxSent, TxGiveUp, TxRetry, TxWaitPhy, TxDiscard,
         TxDiscardNothing, TxFailed, Discard, Pass, SnkStart, AskSinkTx,
         ConstructEnqueued, Construct, TxOutcome, AmsMarked, TxFlags, Outputs
<1>4. buf'.rx_chunk = buf.rx_chunk /\ buf'.rx_emsg = buf.rx_emsg
  BY DEF Tx, TxSkip, TxHeld, TxStartOfAms, TxTakeChunk, TxNothing, TxSnkStart, TxSnkPending,
         TxSnkWait, TxPollCc, TxSent, TxGiveUp, TxRetry, TxWaitPhy, TxDiscard,
         TxDiscardNothing, TxFailed, Discard, Pass, SnkStart, AskSinkTx,
         ConstructEnqueued, Construct, TxOutcome, TypeInv, Buffers
<1>5. num'.rch = num.rch /\ num'.tch = num.tch
  BY DEF Tx, TxSkip, TxHeld, TxStartOfAms, TxTakeChunk, TxNothing, TxSnkStart, TxSnkPending,
         TxSnkWait, TxPollCc, TxSent, TxGiveUp, TxRetry, TxWaitPhy, TxDiscard,
         TxDiscardNothing, TxFailed, Discard, DiscardedId, NextId, Pass, SnkStart, AskSinkTx,
         ConstructEnqueued, ResetIds, Construct, TxOutcome, TypeInv, Numbers
<1>6. tcpc'.hr_send = tcpc.hr_send /\ tcpc'.rx_queue = tcpc.rx_queue
  BY DEF Tx, TxSkip, TxHeld, TxStartOfAms, TxTakeChunk, TxNothing, TxSnkStart, TxSnkPending,
         TxSnkWait, TxPollCc, TxSent, TxGiveUp, TxRetry, TxWaitPhy, TxDiscard,
         TxDiscardNothing, TxFailed, Discard, Pass, SnkStart, AskSinkTx,
         ConstructEnqueued, Construct, TxOutcome, TypeInv, Drivers
<1>7. pe'.mode = pe.mode /\ pe'.heard = pe.heard /\ pe'.again = pe.again
  BY DEF Tx, TxSkip, TxHeld, TxStartOfAms, TxTakeChunk, TxNothing, TxSnkStart, TxSnkPending,
         TxSnkWait, TxPollCc, TxSent, TxGiveUp, TxRetry, TxWaitPhy, TxDiscard,
         TxDiscardNothing, TxFailed, Discard, HearsDiscard, Pass, SnkStart, AskSinkTx,
         ConstructEnqueued, Construct, TxOutcome, TypeInv, Engines
<1> QED
  BY <1>1, <1>2, <1>3, <1>4, <1>5, <1>6, <1>7

LEMMA FrameRx ==
    ASSUME TypeInv, Rx
    PROVE  /\ loop.at = "rx" /\ loop'.at = "rch1" /\ attached' = attached
           /\ prl'.local = prl.local /\ prl'.hr = prl.hr
           /\ flags' \cap HrFlags = flags \cap HrFlags
           /\ tcpc'.hr_send = tcpc.hr_send
           /\ buf'.rx_emsg = buf.rx_emsg /\ num'.rch = num.rch /\ pe' = pe
<1>1. loop.at = "rx" /\ loop'.at = "rch1" /\ attached' = attached
  BY DEF Rx, RxPostpone, RxEmpty, RxSoftReset, RxDrop, RxStore, Fetch, Pass, At, Advance, After
<1>2. prl'.local = prl.local /\ prl'.hr = prl.hr
  <2>1. \/ prl' = prl
        \/ prl' = [prl EXCEPT !.tx = "Discard"]
        \/ prl' = Ready(prl)
    BY DEF Rx, RxPostpone, RxEmpty, RxSoftReset, RxDrop, RxStore, Pass
  <2> QED
    BY <2>1 DEF Ready, TypeInv, Layers
<1>3. flags' \cap HrFlags = flags \cap HrFlags
  BY DEF Rx, RxPostpone, RxEmpty, RxSoftReset, RxDrop, RxStore, Fetch, Pass, HrFlags
<1>4. tcpc'.hr_send = tcpc.hr_send
  BY DEF Rx, RxPostpone, RxEmpty, RxSoftReset, RxDrop, RxStore, Fetch, Pass, Popped, TypeInv, Drivers
<1>5. buf'.rx_emsg = buf.rx_emsg
  BY DEF Rx, RxPostpone, RxEmpty, RxSoftReset, RxDrop, RxStore, Fetch, Pass, TypeInv, Buffers
<1>6. num'.rch = num.rch /\ pe' = pe
  BY DEF Rx, RxPostpone, RxEmpty, RxSoftReset, RxDrop, RxStore, Fetch, Pass, TypeInv, Numbers
<1> QED
  BY <1>1, <1>2, <1>3, <1>4, <1>5, <1>6

\* An error may make PE restart the layer, from PE's mode "run" only.
LEMMA FrameRch ==
    ASSUME TypeInv, Rch \/ RchTimeout
    PROVE  /\ loop.at \in {"rch1", "rch2"} /\ loop'.at = After[loop.at] /\ attached' = attached
           /\ prl'.hr = prl.hr /\ prl'.tx = prl.tx /\ prl'.tch = prl.tch
           /\ tcpc' = tcpc /\ buf'.rx_chunk = buf.rx_chunk /\ num'.rx = num.rx
           /\ flags' \subseteq flags \cup {"TX_CHUNK_ENQUEUED"}
           /\ \A f : f \notin {"RX_ENQUEUED"} \cup TxFlags => (f \in flags' <=> f \in flags)
           /\ \/ pe'.mode = pe.mode /\ prl'.local = prl.local
              \/ SoftResets /\ pe.mode = "run" /\ prl'.local = "INIT"
<1>1. loop.at \in {"rch1", "rch2"} /\ loop'.at = After[loop.at] /\ attached' = attached
  BY DEF Rch, RchIdle, RchPlain, RchFirstChunk, RchNextChunk, RchInterrupted, RchRequested,
         RchRequestFailed, RchRequesting, RchTimeout, RchTakes, RchAsks, RchTurn,
         ProcessExtended, PassUp, RchReportError, EnqueueChunk, Pass, At, Advance
<1>2. prl'.hr = prl.hr /\ prl'.tx = prl.tx /\ prl'.tch = prl.tch
  <2>1. ASSUME NEW f, RchReportError(f)
        PROVE  prl'.hr = prl.hr /\ prl'.tx = prl.tx /\ prl'.tch = prl.tch
    BY <2>1 DEF RchReportError, Restarted, TypeInv, Layers
  <2>2. \/ \E f : RchReportError(f)
        \/ prl' = prl
        \/ prl' = [prl EXCEPT !.rch = "Wait"]
        \/ prl' = [prl EXCEPT !.rch = "Requesting"]
        \/ prl' = [prl EXCEPT !.rch = "Waiting"]
    BY DEF Rch, RchIdle, RchPlain, RchFirstChunk, RchNextChunk, RchInterrupted, RchRequested,
           RchRequestFailed, RchRequesting, RchTimeout, ProcessExtended, PassUp, Pass
  <2> QED
    BY <2>1, <2>2 DEF TypeInv, Layers
<1>3. tcpc' = tcpc
  BY DEF Rch, RchIdle, RchPlain, RchFirstChunk, RchNextChunk, RchInterrupted, RchRequested,
         RchRequestFailed, RchRequesting, RchTimeout, RchTakes, Pass
<1>4. buf'.rx_chunk = buf.rx_chunk
  BY DEF Rch, RchIdle, RchPlain, RchFirstChunk, RchNextChunk, RchInterrupted, RchRequested,
         RchRequestFailed, RchRequesting, RchTimeout, ProcessExtended, PassUp,
         RchReportError, EnqueueChunk, Pass, TypeInv, Buffers
<1>5. num'.rx = num.rx
  BY DEF Rch, RchIdle, RchPlain, RchFirstChunk, RchNextChunk, RchInterrupted, RchRequested,
         RchRequestFailed, RchRequesting, RchTimeout, ProcessExtended, PassUp,
         RchReportError, EnqueueChunk, Pass, TypeInv, Numbers
<1>6. /\ flags' \subseteq flags \cup {"TX_CHUNK_ENQUEUED"}
      /\ \A f : f \notin {"RX_ENQUEUED"} \cup TxFlags => (f \in flags' <=> f \in flags)
  BY DEF Rch, RchIdle, RchPlain, RchFirstChunk, RchNextChunk, RchInterrupted, RchRequested,
         RchRequestFailed, RchRequesting, RchTimeout, ProcessExtended, PassUp,
         RchReportError, EnqueueChunk, Pass, TxFlags, Outputs
<1>7. \/ pe'.mode = pe.mode /\ prl'.local = prl.local
      \/ SoftResets /\ pe.mode = "run" /\ prl'.local = "INIT"
  <2>1. ASSUME NEW f, RchReportError(f)
        PROVE  \/ pe'.mode = pe.mode /\ prl'.local = prl.local
               \/ SoftResets /\ pe.mode = "run" /\ prl'.local = "INIT"
    BY <2>1 DEF RchReportError, Restarted, MayRestart, HearsError, HearsMessage,
                TypeInv, Layers, Engines
  <2>2. ASSUME NEW e, NEW f, PassUp(e, f)
        PROVE  pe'.mode = pe.mode /\ prl'.local = prl.local
    BY <2>2 DEF PassUp, HearsMessage, TypeInv, Layers, Engines
  <2>3. ASSUME NEW e, NEW x, ProcessExtended(e, x), ~RchReportError(flags \ {"RX_ENQUEUED"})
        PROVE  pe'.mode = pe.mode /\ prl'.local = prl.local
    BY <2>2, <2>3 DEF ProcessExtended, TypeInv, Layers
  <2>4. CASE RchIdle \/ RchRequesting \/ RchRequested
    BY <2>4 DEF RchIdle, RchRequesting, RchRequested, Pass, TypeInv, Layers
  <2> QED
    BY <2>1, <2>2, <2>3, <2>4
    DEF Rch, RchPlain, RchFirstChunk, RchNextChunk, RchInterrupted, RchRequestFailed, RchTimeout
<1> QED
  BY <1>1, <1>2, <1>3, <1>4, <1>5, <1>6, <1>7

LEMMA FrameTch ==
    ASSUME TypeInv, Tch \/ TchTimeout
    PROVE  /\ loop.at \in {"tch1", "tch2", "tch3"} /\ loop'.at = After[loop.at]
           /\ attached' = attached
           /\ prl'.hr = prl.hr /\ prl'.tx = prl.tx /\ prl'.rch = prl.rch
           /\ tcpc' = tcpc /\ buf'.rx_chunk = buf.rx_chunk /\ buf'.rx_emsg = buf.rx_emsg
           /\ num'.rx = num.rx /\ num'.rch = num.rch
           /\ flags' \cap HrFlags = flags \cap HrFlags
           /\ pe'.heard = pe.heard /\ pe'.again = pe.again
           /\ \/ pe'.mode = pe.mode /\ prl'.local = prl.local
              \/ SoftResets /\ pe.mode = "run" /\ prl'.local = "INIT"
<1>1. ASSUME NEW p \in Engines, NEW f, TchReceived(p, f)
      PROVE  /\ loop'.at = After[loop.at] /\ UNCHANGED <<attached, num, buf, tcpc>>
             /\ prl'.hr = prl.hr /\ prl'.tx = prl.tx /\ prl'.rch = prl.rch
             /\ prl'.local = prl.local
             /\ f \cap HrFlags = flags \cap HrFlags => flags' \cap HrFlags = flags \cap HrFlags
             /\ pe'.mode = p.mode /\ pe'.heard = p.heard /\ pe'.again = p.again
  BY <1>1 DEF TchReceived, DropsEnqueued, HearsDiscard, Advance, TypeInv, Layers, Engines,
              HrFlags, TchFlags
<1>2. ASSUME NEW p \in Engines, NEW f, NEW r \in BOOLEAN, TchEnd(p, f, r)
      PROVE  /\ loop'.at = After[loop.at] /\ UNCHANGED <<attached, num, buf, tcpc>>
             /\ prl'.hr = prl.hr /\ prl'.tx = prl.tx /\ prl'.rch = prl.rch
             /\ prl'.local = IF r THEN "INIT" ELSE prl.local
             /\ f \cap HrFlags = flags \cap HrFlags => flags' \cap HrFlags = flags \cap HrFlags
             /\ pe'.mode = p.mode /\ pe'.heard = p.heard /\ pe'.again = p.again
  BY <1>2 DEF TchEnd, Restarted, DropsEnqueued, HearsDiscard, Advance, TypeInv, Layers, Engines,
              HrFlags, TchFlags
<1>3. /\ pe \in Engines /\ HearsDiscard(pe) \in Engines
      /\ HearsDiscard(pe).mode = pe.mode /\ HearsDiscard(pe).heard = pe.heard
      /\ HearsDiscard(pe).again = pe.again
  BY HearsDiscardType DEF HearsDiscard, TypeInv, Engines
<1>4. /\ HearsSent(pe) \in Engines
      /\ HearsSent(pe).mode = pe.mode /\ HearsSent(pe).heard = pe.heard
      /\ HearsSent(pe).again = pe.again
  <2>1. HearsSent(pe) \in Engines
    BY <1>3, HearsSentType
  <2> QED
    BY <1>3, <2>1 DEF HearsSent, Engines
<1>5. ASSUME NEW r \in MayRestart(pe)
      PROVE  /\ r \in BOOLEAN /\ HearsError(pe, r) \in Engines
             /\ HearsError(pe, r).heard = pe.heard /\ HearsError(pe, r).again = pe.again
             /\ IF r THEN SoftResets /\ pe.mode = "run" ELSE HearsError(pe, r).mode = pe.mode
  <2>1. r \in BOOLEAN /\ (r => SoftResets /\ pe.mode = "run")
    BY <1>5 DEF MayRestart
  <2>2. HearsError(pe, r) \in Engines
    BY <1>3, <2>1, HearsErrorType
  <2>3. /\ HearsError(pe, r).heard = pe.heard /\ HearsError(pe, r).again = pe.again
        /\ HearsError(pe, r).mode = IF r THEN "soft" ELSE pe.mode
    BY <1>3 DEF HearsError, Engines
  <2> QED
    BY <2>1, <2>2, <2>3
<1>6. /\ \A f : f \notin HrFlags => (flags \ {f}) \cap HrFlags = flags \cap HrFlags
      /\ "TX_ERROR" \notin HrFlags /\ "TX_COMPLETED" \notin HrFlags /\ "CHUNK_FROM_RX" \notin HrFlags
      /\ "MSG_FROM_PE_ENQUEUED" \notin HrFlags /\ "TX_CHUNK_ENQUEUED" \notin HrFlags
  BY DEF HrFlags
<1>7. /\ loop.at \in {"tch1", "tch2", "tch3"}
  BY DEF Tch, TchIdle, TchHandOver, TchRefuse, TchSendFirst, TchFailed, TchAwaitTx,
         TchTransmitting, TchInterrupted, TchMessageSent, TchLastChunkSent, TchOneChunkSent,
         TchAwaitRequest, TchSendNext, TchWrongRequest, TchAborted, TchTimeout, TchStarts,
         InTransmission, TchChunkSent, TchAnswered, TchAt, TchTurn, At
<1>8. CASE TchHandOver \/ TchInterrupted \/ TchAborted
  BY <1>1, <1>3, <1>7, <1>8 DEF TchHandOver, TchInterrupted, TchAborted
<1>9. CASE TchMessageSent \/ TchLastChunkSent \/ TchFailed \/ TchWrongRequest \/ TchTimeout
  <2>1. \/ \E f : TchSent(f) /\ f \cap HrFlags = flags \cap HrFlags
        \/ \E f : TchReportError(f) /\ f \cap HrFlags = flags \cap HrFlags
    BY <1>6, <1>9 DEF TchMessageSent, TchLastChunkSent, TchFailed, TchWrongRequest, TchTimeout
  <2>2. ASSUME NEW f, TchSent(f), f \cap HrFlags = flags \cap HrFlags
        PROVE  /\ loop'.at = After[loop.at] /\ UNCHANGED <<attached, num, buf, tcpc>>
               /\ prl'.hr = prl.hr /\ prl'.tx = prl.tx /\ prl'.rch = prl.rch
               /\ prl'.local = prl.local /\ flags' \cap HrFlags = flags \cap HrFlags
               /\ pe'.mode = pe.mode /\ pe'.heard = pe.heard /\ pe'.again = pe.again
    BY <1>2, <1>4, <2>2 DEF TchSent
  <2>3. ASSUME NEW f, TchReportError(f), f \cap HrFlags = flags \cap HrFlags
        PROVE  /\ loop'.at = After[loop.at] /\ UNCHANGED <<attached, num, buf, tcpc>>
               /\ prl'.hr = prl.hr /\ prl'.tx = prl.tx /\ prl'.rch = prl.rch
               /\ flags' \cap HrFlags = flags \cap HrFlags
               /\ \/ pe'.mode = pe.mode /\ prl'.local = prl.local
                  \/ SoftResets /\ pe.mode = "run" /\ prl'.local = "INIT"
               /\ pe'.heard = pe.heard /\ pe'.again = pe.again
    <3>1. PICK r \in MayRestart(pe) : TchEnd(HearsError(pe, r), f, r)
      BY <2>3 DEF TchReportError
    <3> QED
      BY <1>2, <1>5, <2>3, <3>1
  <2> QED
    BY <1>7, <2>1, <2>2, <2>3
<1>10. CASE TchIdle \/ TchTransmitting \/ TchAwaitRequest \/ TchAwaitTx \/ TchRefuse
  BY <1>3, <1>6, <1>7, <1>10
  DEF TchIdle, TchTransmitting, TchAwaitRequest, TchAwaitTx, TchRefuse, Pass, Advance
<1>11. CASE TchOneChunkSent
  BY <1>6, <1>7, <1>11 DEF TchOneChunkSent, Advance, TypeInv, Layers, Numbers
<1>12. ASSUME NEW n, NEW f, SendChunk(n, f), f \cap HrFlags = flags \cap HrFlags
       PROVE  /\ loop'.at = After[loop.at] /\ attached' = attached
              /\ prl'.hr = prl.hr /\ prl'.tx = prl.tx /\ prl'.rch = prl.rch /\ prl'.local = prl.local
              /\ tcpc' = tcpc /\ buf'.rx_chunk = buf.rx_chunk /\ buf'.rx_emsg = buf.rx_emsg
              /\ num'.rx = num.rx /\ num'.rch = num.rch
              /\ flags' \cap HrFlags = flags \cap HrFlags /\ pe' = pe
  <2>1. ((f \ Outputs) \cup {"TX_CHUNK_ENQUEUED"}) \cap HrFlags = f \cap HrFlags
    BY DEF HrFlags, Outputs
  <2>2. EnqueueChunk(buf'.tx_chunk, f)
    BY <1>12 DEF SendChunk
  <2>3. flags' \cap HrFlags = flags \cap HrFlags
    <3>1. flags' = (f \ Outputs) \cup {"TX_CHUNK_ENQUEUED"}
      BY <2>2 DEF EnqueueChunk
    <3> QED
      BY <1>12, <2>1, <3>1
  <2>7. loop'.at = After[loop.at]
    BY <2>2 DEF EnqueueChunk, Advance
  <2>4. prl'.hr = prl.hr /\ prl'.tx = prl.tx /\ prl'.rch = prl.rch /\ prl'.local = prl.local
    BY <1>12 DEF SendChunk, TypeInv, Layers
  <2>5. buf'.rx_chunk = buf.rx_chunk /\ buf'.rx_emsg = buf.rx_emsg
    BY <1>12 DEF SendChunk, TypeInv, Buffers
  <2>6. num'.rx = num.rx /\ num'.rch = num.rch
    BY <1>12 DEF SendChunk, TypeInv, Numbers
  <2> QED
    BY <1>12, <2>3, <2>4, <2>5, <2>6, <2>7 DEF SendChunk
<1>13. CASE TchSendFirst \/ TchSendNext
  BY <1>6, <1>7, <1>12, <1>13 DEF TchSendFirst, TchSendNext
<1> QED
  BY <1>8, <1>9, <1>10, <1>11, <1>13 DEF Tch

LEMMA FramePe ==
    ASSUME TypeInv, Pe
    PROVE  /\ loop.at = "pe" /\ loop'.at = "prl" /\ attached' = attached
           /\ prl'.hr = prl.hr /\ prl'.tx = prl.tx /\ prl'.rch = prl.rch /\ prl'.tch = prl.tch
           /\ num' = num /\ status' = status /\ tcpc' = tcpc /\ partner' = partner
           /\ buf'.rx_chunk = buf.rx_chunk /\ buf'.rx_emsg = buf.rx_emsg
           /\ flags \subseteq flags'
           /\ flags' \subseteq flags \cup {"MSG_FROM_PE_ENQUEUED", "HARD_RESET_FROM_PE"}
           /\ pe'.heard = pe.heard /\ pe'.again = pe.again
<1>1. loop.at = "pe" /\ loop'.at = "prl" /\ attached' = attached
  BY DEF Pe, PeWait, PeOff, PeStartup, PeStarted, PeEndAms, PeAccept, PeSoftReset,
         PeSendSoftReset, PeHardReset, PeDefault, PeReply, PeBegin, PeTurn, Enqueue, At,
         Advance, After
<1>2. /\ prl'.hr = prl.hr /\ prl'.tx = prl.tx /\ prl'.rch = prl.rch /\ prl'.tch = prl.tch
      /\ num' = num /\ status' = status /\ tcpc' = tcpc /\ partner' = partner
  BY DEF Pe, PeWait, PeOff, PeStartup, PeStarted, PeEndAms, PeAccept, PeSoftReset,
         PeSendSoftReset, PeHardReset, PeDefault, PeReply, PeBegin, Enqueue, TypeInv, Layers
<1>3. /\ buf'.rx_chunk = buf.rx_chunk /\ buf'.rx_emsg = buf.rx_emsg
      /\ flags \subseteq flags'
      /\ flags' \subseteq flags \cup {"MSG_FROM_PE_ENQUEUED", "HARD_RESET_FROM_PE"}
  BY DEF Pe, PeWait, PeOff, PeStartup, PeStarted, PeEndAms, PeAccept, PeSoftReset,
         PeSendSoftReset, PeHardReset, PeDefault, PeReply, PeBegin, Enqueue, TypeInv, Buffers
<1>4. pe'.heard = pe.heard /\ pe'.again = pe.again
  <2>1. ASSUME NEW kind, NEW p \in Engines, Enqueue(kind, p)
        PROVE  pe'.heard = p.heard /\ pe'.again = p.again
    BY <2>1 DEF Enqueue, Engines
  <2> DEFINE Same(p) == p \in Engines /\ p.heard = pe.heard /\ p.again = pe.again
  <2>2. /\ Same(pe)
        /\ Same([pe EXCEPT !.accept = FALSE, !.mode = "run"])
        /\ Same([pe EXCEPT !.mode = "run"])
        /\ \A ams \in {"no", "new"} : Same([pe EXCEPT !.ams = ams])
    BY DEF TypeInv, Engines
  <2>3. CASE PeAccept \/ PeSendSoftReset
    <3>1. \/ Enqueue("ctl", [pe EXCEPT !.accept = FALSE, !.mode = "run"])
          \/ Enqueue("soft", [pe EXCEPT !.mode = "run"])
      BY <2>3 DEF PeAccept, PeSendSoftReset
    <3> QED
      BY <2>1, <2>2, <3>1
  <2>4. ASSUME NEW kind \in {"ctl", "ext"}, PeReply(kind) \/ \E ams \in {"no", "new"} : PeBegin(kind, ams)
        PROVE  pe'.heard = pe.heard /\ pe'.again = pe.again
    <3>1. Enqueue(kind, pe) \/ \E ams \in {"no", "new"} : Enqueue(kind, [pe EXCEPT !.ams = ams])
      BY <2>4 DEF PeReply, PeBegin
    <3> QED
      BY <2>1, <2>2, <3>1
  <2>5. CASE PeWait \/ PeOff \/ PeStartup \/ PeStarted \/ PeEndAms \/ PeSoftReset \/ PeHardReset \/ PeDefault
    <3>1. pe \in Engines
      BY DEF TypeInv
    <3>2. CASE PeStartup \/ PeOff
      BY <3>1, <3>2 DEF PeOff, PeStartup, Engines
    <3>3. CASE PeWait \/ PeStarted \/ PeEndAms
      BY <3>1, <3>3 DEF PeWait, PeStarted, PeEndAms, Engines
    <3>4. CASE PeSoftReset \/ PeHardReset \/ PeDefault
      BY <3>1, <3>4 DEF PeSoftReset, PeHardReset, PeDefault, Engines
    <3> QED
      BY <2>5, <3>2, <3>3, <3>4
  <2> QED
    BY <2>3, <2>4, <2>5 DEF Pe
<1> QED
  BY <1>1, <1>2, <1>3, <1>4

\* The driver and the partner.
LEMMA FrameOutside ==
    ASSUME TypeInv, Driver \/ TxFails \/ MeasureCc \/ Partner
    PROVE  /\ loop'.at = loop.at /\ UNCHANGED <<attached, prl, num, buf, pe>>
           /\ flags \subseteq flags' /\ flags' \subseteq flags \cup {"HARD_RESET_FROM_PARTNER"}
           /\ tcpc'.hr_send => tcpc.hr_send
           /\ \/ status' \in {status, "UNSET"}
              \/ status = "ENQUEUED" /\ status' = "SENDING"
              \/ status = "SENDING" /\ status' \in {"SUCCEEDED", "FAILED"}
              \/ tcpc.hr_send /\ status' = "SENDING"
<1>1. loop'.at = loop.at
  BY DEF Driver, SetRxEnable, BeginTransmit, BeginHardReset, HardResetSent, TxSucceeds, TxFails,
        MeasureCc, Partner, PartnerHears, PartnerSends, PartnerSend, PartnerRepeats,
        PartnerHardReset, Receives, TxEnd, Wakes, TypeInv, Loops
<1>2. UNCHANGED <<attached, prl, num, buf, pe>>
  BY DEF Driver, SetRxEnable, BeginTransmit, BeginHardReset, HardResetSent, TxSucceeds, TxFails,
        MeasureCc, Partner, PartnerHears, PartnerSends, PartnerSend, PartnerRepeats,
        PartnerHardReset, Receives, TxEnd
<1>3. flags \subseteq flags' /\ flags' \subseteq flags \cup {"HARD_RESET_FROM_PARTNER"}
  BY DEF Driver, SetRxEnable, BeginTransmit, BeginHardReset, HardResetSent, TxSucceeds, TxFails,
        MeasureCc, Partner, PartnerHears, PartnerSends, PartnerSend, PartnerRepeats,
        PartnerHardReset, Receives, TxEnd
<1>4. tcpc'.hr_send => tcpc.hr_send
  <2>1. CASE Driver \/ TxFails \/ MeasureCc
    BY <2>1 DEF Driver, SetRxEnable, BeginTransmit, BeginHardReset, HardResetSent, TxSucceeds,
        TxFails, MeasureCc, TypeInv, Drivers
  <2>2. ASSUME NEW m, Receives(m) PROVE tcpc'.hr_send = tcpc.hr_send
    BY <2>2 DEF Receives, TypeInv, Drivers
  <2>3. CASE PartnerHears \/ PartnerHardReset
    BY <2>3 DEF PartnerHears, PartnerHardReset, TypeInv, Drivers
  <2> QED
    BY <2>1, <2>2, <2>3 DEF Partner, PartnerSends, PartnerSend, PartnerRepeats
<1>5. \/ status' \in {status, "UNSET"}
      \/ status = "ENQUEUED" /\ status' = "SENDING"
      \/ status = "SENDING" /\ status' \in {"SUCCEEDED", "FAILED"}
      \/ tcpc.hr_send /\ status' = "SENDING"
  BY DEF Driver, SetRxEnable, BeginTransmit, BeginHardReset, HardResetSent, TxSucceeds, TxFails,
        MeasureCc, Partner, PartnerHears, PartnerSends, PartnerSend, PartnerRepeats,
        PartnerHardReset, Receives, TxEnd
<1> QED
  BY <1>1, <1>2, <1>3, <1>4, <1>5

-----------------------------------------------------------------------------
(* A hard reset PE asked for stays with the driver only while PRL_HR waits   *)
(* for it, unless the cable may be pulled meanwhile: then the driver still   *)
(* sends it after the layer has been initialised again.                      *)

HardResetsEnd == CanDetach => "hard" \notin PeMay

ResetInv ==
    /\ ~CanDetach => attached
    /\ tcpc.hr_send => /\ prl.hr = "Request" /\ prl.local = "WORKING"
                       /\ pe.mode = "hr" /\ ~CanDetach
    /\ "HARD_RESET_FROM_PE" \in flags =>
         "hard" \in PeMay /\ (pe.mode = "hr" \/ prl.hr = "Wait_PE" \/ prl.local = "INIT")
    /\ prl.hr = "Reset_Layer" /\ prl.local = "WORKING" => flags \cap HrFlags # {}

LEMMA ResetKept ==
    ASSUME ResetInv, attached' = attached, prl'.hr = prl.hr, tcpc'.hr_send => tcpc.hr_send,
           "HARD_RESET_FROM_PE" \in flags' <=> "HARD_RESET_FROM_PE" \in flags,
           flags \cap HrFlags \subseteq flags',
           \/ pe'.mode = pe.mode /\ prl'.local = prl.local
           \/ pe.mode = "run" /\ prl'.local \in {prl.local, "INIT"}
    PROVE  ResetInv'
  BY DEF ResetInv

LEMMA ResetHr ==
    ASSUME HardResetsEnd, TypeInv, ResetInv, InitLayer \/ Disable \/ Hr PROVE ResetInv'
<1>1. CASE InitLayer
  <2>1. tcpc'.hr_send = tcpc.hr_send /\ prl'.hr = "IDLE" /\ flags' = {} /\ attached' = attached
    BY <1>1 DEF InitLayer, ClearedFlags, Ready, TypeInv, Layers, Drivers
  <2>2. ~tcpc.hr_send
    BY <1>1 DEF InitLayer, ResetInv
  <2> QED
    BY <2>1, <2>2 DEF ResetInv
<1>2. CASE Disable
  <2>1. /\ tcpc'.hr_send = tcpc.hr_send /\ prl'.hr = prl.hr /\ flags' = flags /\ pe' = pe
        /\ attached' = attached
        /\ prl'.local = prl.local \/ prl'.local = "DISABLED"
    BY <1>2 DEF Disable, TypeInv, Layers, Drivers
  <2>2. CanDetach /\ ~tcpc.hr_send /\ prl.local # "INIT"
    BY <1>2 DEF Disable, ResetInv
  <2> QED
    BY <2>1, <2>2 DEF ResetInv, HardResetsEnd
<1>3. CASE HrIdle \/ HrWait \/ HrResetLayer
  <2>1. /\ tcpc'.hr_send = tcpc.hr_send /\ flags' = flags /\ pe' = pe /\ attached' = attached
        /\ prl'.local = prl.local
        /\ \/ prl'.hr = prl.hr
           \/ prl.hr = "IDLE" /\ prl'.hr = "Reset_Layer" /\ flags \cap HrFlags # {}
    BY <1>3 DEF HrIdle, HrWait, HrResetLayer, TypeInv, Layers, Drivers
  <2> QED
    BY <2>1 DEF ResetInv
<1>4. CASE HrIndicate \/ HrSent
  <2>1. /\ tcpc' = tcpc /\ flags' = flags /\ attached' = attached /\ prl'.hr = "Wait_PE"
        /\ prl.hr # "Request"
    BY <1>4 DEF HrIndicate, HrSent, TypeInv, Layers
  <2> QED
    BY <2>1 DEF ResetInv
<1>5. CASE HrRequest
  <2>1. /\ flags' = flags /\ pe' = pe /\ attached' = attached
        /\ prl'.local = prl.local /\ prl'.hr = "Request" /\ prl.local = "WORKING"
    BY <1>5 DEF HrRequest, HrTurn, TypeInv, Layers
  <2>2. "HARD_RESET_FROM_PE" \in flags /\ prl.hr = "Reset_Layer"
    BY <1>5 DEF HrRequest, HrTurn, ResetInv, HrFlags
  <2>3. pe.mode = "hr" /\ "hard" \in PeMay
    BY <2>1, <2>2 DEF ResetInv
  <2> QED
    BY <2>1, <2>2, <2>3 DEF ResetInv, HardResetsEnd
<1>6. CASE HrRequested
  <2>1. /\ flags' = flags /\ pe' = pe /\ attached' = attached /\ tcpc' = tcpc
        /\ prl'.local = prl.local /\ prl'.hr = "Wait_PHY" /\ ~tcpc.hr_send
        /\ prl.hr = "Request"
    BY <1>6 DEF HrRequested, HrTurn, TypeInv, Layers
  <2> QED
    BY <2>1 DEF ResetInv
<1> QED
  BY <1>1, <1>2, <1>3, <1>4, <1>5, <1>6 DEF Hr

LEMMA ResetPe ==
    ASSUME HardResetsEnd, TypeInv, ResetInv, Pe PROVE ResetInv'
<1>1. /\ attached' = attached /\ prl'.hr = prl.hr /\ tcpc' = tcpc /\ flags \subseteq flags'
      /\ flags' \subseteq flags \cup {"MSG_FROM_PE_ENQUEUED", "HARD_RESET_FROM_PE"}
  BY FramePe
<1>2. CASE PeHardReset
  <2>1. pe'.mode = "hr" /\ "hard" \in PeMay /\ pe.mode = "run" /\ prl'.local = prl.local
    BY <1>2 DEF PeHardReset, PeTurn, TypeInv, Engines
  <2> QED
    BY <1>1, <2>1 DEF ResetInv
<1>3. CASE ~PeHardReset
  <2>1. "HARD_RESET_FROM_PE" \in flags' <=> "HARD_RESET_FROM_PE" \in flags
    BY <1>1, <1>3
    DEF Pe, PeWait, PeOff, PeStartup, PeStarted, PeEndAms, PeAccept, PeSoftReset,
        PeSendSoftReset, PeDefault, PeReply, PeBegin, Enqueue
  <2>2. CASE PeStartup \/ PeSoftReset
    <3>1. prl'.local = "INIT" /\ pe.mode # "hr"
      BY <2>2 DEF PeStartup, PeSoftReset, PeTurn, TypeInv, Layers
    <3> QED
      BY <1>1, <2>1, <3>1 DEF ResetInv
  <2>3. CASE PeOff
    <3>1. prl' = prl /\ CanDetach
      BY <2>3 DEF PeOff, ResetInv
    <3> QED
      BY <1>1, <2>1, <3>1 DEF ResetInv, HardResetsEnd
  <2>4. CASE ~(PeStartup \/ PeSoftReset \/ PeOff)
    <3>1. prl' = prl
      BY <1>3, <2>4
      DEF Pe, PeWait, PeStarted, PeEndAms, PeAccept, PeSendSoftReset, PeDefault, PeReply,
          PeBegin, Enqueue
    <3>2. pe' = pe \/ pe.mode # "hr"
      BY <1>3, <2>4
      DEF Pe, PeWait, PeStarted, PeEndAms, PeAccept, PeSendSoftReset, PeDefault, PeReply,
          PeBegin, PeTurn
    <3> QED
      BY <1>1, <2>1, <3>1, <3>2 DEF ResetInv
  <2> QED
    BY <2>2, <2>3, <2>4
<1> QED
  BY <1>2, <1>3

LEMMA ResetStep ==
    ASSUME HardResetsEnd, TypeInv, ResetInv, [Next]_sysVars PROVE ResetInv'
<1>1. CASE UNCHANGED sysVars
  BY <1>1 DEF sysVars, vars, ResetInv
<1>2. CASE Tx \/ Rx \/ Rch \/ Tch \/ Timeouts
  <2>1. /\ attached' = attached /\ prl'.hr = prl.hr /\ tcpc'.hr_send = tcpc.hr_send
        /\ flags' \cap HrFlags = flags \cap HrFlags
        /\ \/ pe'.mode = pe.mode /\ prl'.local = prl.local
           \/ pe.mode = "run" /\ prl'.local \in {prl.local, "INIT"}
    <3>1. CASE Tx
      BY <3>1, FrameTx DEF TxFlags, HrFlags
    <3>2. CASE Rx
      BY <3>2, FrameRx
    <3>3. CASE Rch \/ RchTimeout
      BY <3>3, FrameRch DEF TxFlags, HrFlags
    <3>4. CASE Tch \/ TchTimeout
      BY <3>4, FrameTch
    <3> QED
      BY <1>2, <3>1, <3>2, <3>3, <3>4 DEF Timeouts
  <2> QED
    BY <2>1, ResetKept DEF HrFlags
<1>3. CASE Driver \/ TxFails \/ MeasureCc \/ Partner
  BY <1>3, FrameOutside, ResetKept
<1>4. CASE TickStart \/ Cable
  BY <1>4 DEF TickStart, Cable, ResetInv
<1> QED
  BY <1>1, <1>2, <1>3, <1>4, ResetHr, ResetPe DEF Next, Tick, PrlStep, PrlNext

-----------------------------------------------------------------------------
(* While a machine of the tick has its turn, no hard reset is under way, and *)
(* a transmission the driver knows of is PRL_Tx's.                           *)

TurnInv ==
    /\ loop.at \notin {"rest", "pe", "prl"} => prl.hr = "IDLE"
    /\ prl.hr # "none" => prl.tx # "none" /\ prl.rch # "none" /\ prl.tch # "none"
    /\ prl.hr = "IDLE" /\ status # "UNSET" => prl.tx \in {"Wait_PHY", "Discard"}

LEMMA TurnTx ==
    ASSUME TypeInv, TurnInv, Tx PROVE TurnInv'
<1>1. prl.hr = "IDLE" /\ prl'.hr = "IDLE" /\ prl'.rch = prl.rch /\ prl'.tch = prl.tch
  BY FrameTx DEF TurnInv
<1>2. prl'.tx # "none"
  BY <1>1 DEF TurnInv, Tx, TxSkip, TxHeld, TxStartOfAms, TxTakeChunk, TxNothing, TxSnkStart,
         TxSnkPending, TxSnkWait, TxPollCc, TxSent, TxGiveUp, TxRetry, TxWaitPhy, TxDiscard,
         TxDiscardNothing, TxFailed, Discard, Pass, SnkStart, AskSinkTx,
         ConstructEnqueued, Construct, TxOutcome, TypeInv, Layers
<1>3. status' # "UNSET" => prl'.tx \in {"Wait_PHY", "Discard"}
  BY <1>1 DEF TurnInv, Tx, TxSkip, TxHeld, TxStartOfAms, TxTakeChunk, TxNothing, TxSnkStart,
         TxSnkPending, TxSnkWait, TxPollCc, TxSent, TxGiveUp, TxRetry, TxWaitPhy, TxDiscard,
         TxDiscardNothing, TxReady, TxFailed, Discard, Pass, SnkStart, AskSinkTx,
         ConstructEnqueued, Construct, TxOutcome, TypeInv, Layers
<1> QED
  BY <1>1, <1>2, <1>3 DEF TurnInv

LEMMA TurnHr ==
    ASSUME TypeInv, TurnInv, InitLayer \/ Disable \/ Hr PROVE TurnInv'
<1>1. CASE InitLayer
  BY <1>1 DEF InitLayer, At, Ready, TurnInv, TypeInv, Layers, Loops
<1>2. CASE HrIdle
  BY <1>2 DEF HrIdle, TurnInv, Advance
<1>3. CASE Disable \/ HrWait \/ HrResetLayer \/ HrIndicate \/ HrRequest \/ HrRequested \/ HrSent
  <2>1. /\ loop'.at = "rest" /\ status' = status
        /\ prl'.tx = prl.tx /\ prl'.rch = prl.rch /\ prl'.tch = prl.tch
        /\ \/ prl'.hr = prl.hr
           \/ prl.hr # "none" /\ prl'.hr # "IDLE"
    BY <1>3 DEF Disable, HrWait, HrResetLayer, HrIndicate, HrRequest, HrRequested, HrSent,
                EndTick, TypeInv, Layers
  <2> QED
    BY <2>1 DEF TurnInv
<1> QED
  BY <1>1, <1>2, <1>3 DEF Hr

LEMMA TurnStep ==
    ASSUME TypeInv, ResetInv, TurnInv, [Next]_sysVars PROVE TurnInv'
<1>1. CASE UNCHANGED sysVars
  BY <1>1 DEF sysVars, vars, TurnInv
<1>2. CASE Rx
  <2>1. prl.hr = "IDLE" /\ prl'.hr = "IDLE" /\ loop.at = "rx"
    BY <1>2, FrameRx DEF TurnInv
  <2>2. CASE RxSoftReset
    BY <2>1, <2>2 DEF RxSoftReset, Ready, TurnInv, TypeInv, Layers
  <2>3. CASE ~RxSoftReset
    <3>1. status' = status /\ prl'.tx \in {prl.tx, "Discard"} /\ prl'.rch = prl.rch /\ prl'.tch = prl.tch
      BY <1>2, <2>3 DEF Rx, RxPostpone, RxEmpty, RxDrop, RxStore, Pass, TypeInv, Layers
    <3> QED
      BY <2>1, <3>1 DEF TurnInv
  <2> QED
    BY <2>2, <2>3
<1>3. CASE Rch \/ RchTimeout
  <2>1. prl.hr = "IDLE" /\ prl'.hr = "IDLE" /\ prl'.tx = prl.tx /\ prl'.tch = prl.tch
    BY <1>3, FrameRch DEF TurnInv
  <2>2. prl'.rch # "none"
    BY <1>3, <2>1 DEF Rch, RchIdle, RchPlain, RchFirstChunk, RchNextChunk, RchInterrupted,
       RchRequested, RchRequestFailed, RchRequesting, RchTimeout, ProcessExtended, PassUp,
       RchReportError, Restarted, Pass, TypeInv, Layers, TurnInv
  <2>3. status' \in {status, "UNSET"}
    BY <1>3 DEF Rch, RchIdle, RchPlain, RchFirstChunk, RchNextChunk, RchInterrupted,
       RchRequested, RchRequestFailed, RchRequesting, RchTimeout, ProcessExtended, PassUp,
       RchReportError, EnqueueChunk, Pass
  <2> QED
    BY <2>1, <2>2, <2>3 DEF TurnInv
<1>4. CASE Tch \/ TchTimeout
  <2>1. prl.hr = "IDLE" /\ prl'.hr = "IDLE" /\ prl'.tx = prl.tx /\ prl'.rch = prl.rch
    BY <1>4, FrameTch DEF TurnInv
  <2>2. prl'.tch # "none"
    BY <1>4, <2>1 DEF Tch, TchIdle, TchHandOver, TchRefuse, TchSendFirst, TchFailed, TchAwaitTx,
       TchTransmitting, TchInterrupted, TchMessageSent, TchLastChunkSent, TchOneChunkSent,
       TchAwaitRequest, TchSendNext, TchWrongRequest, TchAborted, TchTimeout, TchReceived,
       TchSent, TchReportError, TchEnd, Restarted, SendChunk, Pass, TypeInv, Layers, TurnInv
  <2>3. status' \in {status, "UNSET"}
    BY <1>4 DEF Tch, TchIdle, TchHandOver, TchRefuse, TchSendFirst, TchFailed, TchAwaitTx,
       TchTransmitting, TchInterrupted, TchMessageSent, TchLastChunkSent, TchOneChunkSent,
       TchAwaitRequest, TchSendNext, TchWrongRequest, TchAborted, TchTimeout, TchReceived,
       TchSent, TchReportError, TchEnd, SendChunk, EnqueueChunk, Pass
  <2> QED
    BY <2>1, <2>2, <2>3 DEF TurnInv
<1>5. CASE Pe
  BY <1>5, FramePe DEF TurnInv
<1>6. CASE Driver \/ TxFails \/ MeasureCc \/ Partner
  BY <1>6, FrameOutside DEF TurnInv, ResetInv
<1>7. CASE TickStart \/ Cable
  BY <1>7 DEF TickStart, Cable, TurnInv
<1> QED
  BY <1>1, <1>2, <1>3, <1>4, <1>5, <1>6, <1>7, TurnHr, TurnTx
  DEF Next, Tick, PrlStep, PrlNext, Timeouts

-----------------------------------------------------------------------------
(* A chunk routed to TCH is TCH's only from PRL_Rx to the end of the tick:   *)
(* TCH may have to wait for PRL_Tx, which then reports in the same tick, and *)
(* is called twice more, because the report may make it wait for a request.  *)

RouteInv ==
    /\ ~({"CHUNK_FROM_RX", "RX_ENQUEUED"} \subseteq flags)
    /\ "CHUNK_FROM_RX" \in flags =>
         \/ loop.at \in {"rch1", "tch1"}
         \/ loop.at \in {"tx1", "tch2", "tch3"} /\ prl.tch = "Wait_Request"
         \/ /\ loop.at = "tx1" /\ prl.tch \in {"Wait_Transmission", "Sending"}
            /\ status \in {"UNSET", "SUCCEEDED"} /\ prl.tx \in {"Wait_PHY", "Discard"}
         \/ /\ loop.at = "tch2" /\ prl.tch \in {"Wait_Transmission", "Sending"}
            /\ status = "UNSET"

LEMMA RouteTx ==
    ASSUME TypeInv, RouteInv, Tx PROVE RouteInv'
<1>1. /\ loop.at \in {"tx0", "tx1"} /\ loop'.at = After[loop.at] /\ prl'.tch = prl.tch
      /\ \A f \in {"CHUNK_FROM_RX", "RX_ENQUEUED"} : f \in flags' <=> f \in flags
  BY FrameTx DEF TxFlags
<1>2. CASE "CHUNK_FROM_RX" \notin flags
  BY <1>1, <1>2 DEF RouteInv
<1>3. CASE "CHUNK_FROM_RX" \in flags
  <2>1. loop.at = "tx1" /\ loop'.at = "tch2"
    BY <1>1, <1>3, AfterAt DEF RouteInv
  <2>2. ASSUME prl.tch # "Wait_Request" PROVE status' = "UNSET"
    <3>1. status \in {"UNSET", "SUCCEEDED"} /\ prl.tx \in {"Wait_PHY", "Discard"}
      BY <1>3, <2>1, <2>2 DEF RouteInv
    <3> QED
      BY <2>1, <3>1 DEF Tx, TxSkip, TxHeld, TxStartOfAms, TxTakeChunk, TxNothing, TxSnkStart,
         TxSnkPending, TxSnkWait, TxPollCc, TxSent, TxGiveUp, TxRetry, TxWaitPhy, TxDiscard,
         TxDiscardNothing, TxReady, TxFailed, Discard, Pass, At, TxOutcome
  <2> QED
    BY <1>1, <1>3, <2>1, <2>2 DEF RouteInv
<1> QED
  BY <1>2, <1>3

LEMMA RouteRx ==
    ASSUME TypeInv, RouteInv, Rx PROVE RouteInv'
<1>1. loop.at = "rx" /\ loop'.at = "rch1" /\ "CHUNK_FROM_RX" \notin flags
  BY FrameRx DEF RouteInv
<1>2. ~({"CHUNK_FROM_RX", "RX_ENQUEUED"} \subseteq flags')
  BY <1>1 DEF Rx, RxPostpone, RxEmpty, RxSoftReset, RxDrop, RxStore, Fetch, Pass, HrFlags
<1> QED
  BY <1>1, <1>2 DEF RouteInv

\* TCH consumes the chunk unless it waits for PRL_Tx or begins to wait for a request.
LEMMA TchConsumes ==
    ASSUME TypeInv, TurnInv, Tch \/ TchTimeout, "CHUNK_FROM_RX" \in flags'
    PROVE  /\ "CHUNK_FROM_RX" \in flags
           /\ "RX_ENQUEUED" \in flags' => "RX_ENQUEUED" \in flags
           /\ \/ /\ prl' = prl /\ status' = status /\ prl.tch \in {"Wait_Transmission", "Sending"}
                 /\ status = "SUCCEEDED"
              \/ prl.tch = "Sending" /\ prl'.tch = "Wait_Request"
<1>1. ASSUME NEW p, NEW f, TchReceived(p, f) PROVE FALSE
  BY <1>1 DEF TchReceived, TchFlags
<1>2. ASSUME NEW p, NEW f, NEW r, TchEnd(p, f, r) PROVE FALSE
  BY <1>2 DEF TchEnd, TchFlags
<1>3. ~(TchHandOver \/ TchInterrupted \/ TchAborted)
  BY <1>1 DEF TchHandOver, TchInterrupted, TchAborted
<1>4. ~(TchMessageSent \/ TchLastChunkSent \/ TchFailed \/ TchWrongRequest \/ TchTimeout)
  BY <1>2
  DEF TchMessageSent, TchLastChunkSent, TchFailed, TchWrongRequest, TchTimeout, TchSent, TchReportError
<1>5. ~(TchIdle \/ TchTransmitting \/ TchAwaitRequest \/ TchRefuse \/ TchSendFirst \/ TchSendNext)
  <2>1. ASSUME NEW n, NEW f, SendChunk(n, f), "CHUNK_FROM_RX" \notin f PROVE FALSE
    BY <2>1 DEF SendChunk, EnqueueChunk
  <2>2. ~(TchSendFirst \/ TchSendNext)
    BY <2>1 DEF TchSendFirst, TchStarts, TchFlags, TchSendNext
  <2> QED
    BY <2>2 DEF TchIdle, TchTransmitting, TchAwaitRequest, TchRefuse, TchStarts, TchFlags, Pass
<1>6. CASE TchAwaitTx
  BY <1>6 DEF TchAwaitTx, InTransmission, TchAt
<1>7. CASE TchOneChunkSent
  BY <1>7 DEF TchOneChunkSent, TchChunkSent, TchAt, TypeInv, Layers
<1> QED
  BY <1>3, <1>4, <1>5, <1>6, <1>7 DEF Tch

LEMMA RouteTch ==
    ASSUME TypeInv, TurnInv, RouteInv, Tch \/ TchTimeout PROVE RouteInv'
<1>1. /\ loop.at \in {"tch1", "tch2", "tch3"} /\ loop'.at = After[loop.at]
      /\ prl'.tx = prl.tx
  BY FrameTch
<1>2. CASE "CHUNK_FROM_RX" \notin flags'
  BY <1>2 DEF RouteInv
<1>3. CASE "CHUNK_FROM_RX" \in flags'
  <2>1. "RX_ENQUEUED" \notin flags'
    BY <1>3, TchConsumes DEF RouteInv
  <2>2. CASE loop.at = "tch1"
    <3>1. loop'.at = "tx1" /\ prl.hr = "IDLE"
      BY <1>1, <2>2, AfterAt DEF TurnInv
    <3> QED
      BY <1>1, <1>3, <2>1, <3>1, TchConsumes DEF RouteInv, TurnInv
  <2>3. CASE loop.at = "tch2"
    <3>1. loop'.at = "tch3"
      BY <1>1, <2>3, AfterAt
    <3>2. prl'.tch = "Wait_Request"
      BY <1>3, <2>3, TchConsumes DEF RouteInv
    <3> QED
      BY <2>1, <3>1, <3>2 DEF RouteInv
  <2>4. CASE loop.at = "tch3"
    BY <1>3, <2>4, TchConsumes DEF RouteInv
  <2> QED
    BY <1>1, <2>2, <2>3, <2>4
<1> QED
  BY <1>2, <1>3

LEMMA RouteStep ==
    ASSUME TypeInv, ResetInv, TurnInv, RouteInv, [Next]_sysVars PROVE RouteInv'
<1>1. CASE UNCHANGED sysVars
  BY <1>1 DEF sysVars, vars, RouteInv
<1>2. CASE Rch \/ RchTimeout
  <2>1. /\ loop.at \in {"rch1", "rch2"} /\ loop'.at = After[loop.at]
        /\ flags' \subseteq flags \cup {"TX_CHUNK_ENQUEUED"}
    BY <1>2, FrameRch
  <2> QED
    BY <2>1, AfterAt DEF RouteInv
<1>3. CASE InitLayer \/ Disable \/ Hr
  BY <1>3
  DEF InitLayer, ClearedFlags, Disable, Hr, HrIdle, HrWait, HrResetLayer, HrIndicate, HrRequest,
      HrRequested, HrSent, HrTurn, At, RouteInv
<1>4. CASE Pe
  BY <1>4, FramePe DEF RouteInv
<1>5. CASE Driver \/ TxFails \/ MeasureCc \/ Partner
  <2>1. "CHUNK_FROM_RX" \in flags => ~tcpc.hr_send
    BY DEF RouteInv, TurnInv, ResetInv
  <2> QED
    BY <1>5, <2>1, FrameOutside DEF RouteInv
<1>6. CASE TickStart \/ Cable
  BY <1>6 DEF TickStart, Cable, RouteInv, At
<1> QED
  BY <1>1, <1>2, <1>3, <1>4, <1>5, <1>6, RouteTx, RouteRx, RouteTch
  DEF Next, Tick, PrlStep, PrlNext, Timeouts

LEMMA RouteInit == ASSUME Init PROVE ResetInv /\ TurnInv /\ RouteInv
  BY DEF Init, ResetInv, TurnInv, RouteInv

\* PRL_Rx does not take a message from the driver while TCH or RCH still has to
\* read the one in rx_chunk, in whatever order the driver, PE and the partner act;
\* unless the cable is pulled while the driver has a hard reset to send.
THEOREM ChunksAreRead == HardResetsEnd /\ Spec => NoChunkOverwritten
<1> SUFFICES ASSUME HardResetsEnd PROVE Spec => NoChunkOverwritten
  OBVIOUS
<1> DEFINE IInv == TypeInv /\ ResetInv /\ TurnInv /\ RouteInv
<1>1. Init => IInv
  BY TypeInit, RouteInit
<1>2. IInv /\ [Next]_sysVars => IInv'
  BY TypeStep, ResetStep, TurnStep, RouteStep
<1>3. IInv /\ [Next]_sysVars =>
        [ buf'.rx_chunk # buf.rx_chunk => flags \cap {"CHUNK_FROM_RX", "RX_ENQUEUED"} = {} ]_sysVars
  <2> SUFFICES ASSUME IInv, [Next]_sysVars, buf'.rx_chunk # buf.rx_chunk
               PROVE  flags \cap {"CHUNK_FROM_RX", "RX_ENQUEUED"} = {}
    OBVIOUS
  <2>1. CASE Rx
    <3>1. loop.at = "rx" /\ "RX_ENQUEUED" \notin flags
      BY <2>1 DEF Rx, RxPostpone, RxEmpty, RxSoftReset, RxDrop, RxStore, Fetch, Pass, At
    <3> QED
      BY <3>1 DEF RouteInv
  <2>2. CASE ~Rx
    <3>1. CASE InitLayer \/ Disable \/ Hr
      BY <3>1 DEF InitLayer, Disable, Hr, HrIdle, HrWait, HrResetLayer, HrIndicate, HrRequest,
                  HrRequested, HrSent
    <3>2. CASE TickStart \/ Cable \/ UNCHANGED sysVars
      BY <3>2 DEF TickStart, Cable, sysVars, vars
    <3> QED
      BY <2>2, <3>1, <3>2, FrameTx, FrameRch, FrameTch, FramePe, FrameOutside
      DEF Next, Tick, PrlStep, PrlNext, Timeouts
  <2> QED
    BY <2>1, <2>2
<1> HIDE DEF IInv
<1> QED
  BY <1>1, <1>2, <1>3, PTL DEF Spec, NoChunkOverwritten

-----------------------------------------------------------------------------
(* What RCH puts together.  When it fails to ask for a chunk, no other       *)
(* message has come in meanwhile: it would have made PRL_Tx discard the      *)
(* request, not report an error.  A message that did come in would be passed *)
(* up with the error, and if it were a chunk, PE would get a part for all.   *)

CollectInv ==
    prl.rch \in {"Requesting", "Waiting"} =>
        /\ num.rch \in 1..NChunks
        /\ \A i \in 1..num.rch : buf.rx_emsg[i].kind = "ext" /\ buf.rx_emsg[i].n = i - 1

\* PRL_Tx has no transmission that may still fail.
Still == prl.tx = "Discard" \/ status \in {"UNSET", "SUCCEEDED"}

AskInv ==
    prl.rch = "Requesting" =>
        /\ "TX_ERROR" \in flags => loop.at \in {"tch2", "tch3", "rch2"} /\ "RX_ENQUEUED" \notin flags
        /\ loop.at = "tch1" => "RX_ENQUEUED" \notin flags
        /\ loop.at \in {"rch1", "tch1"} /\ "CHUNK_FROM_RX" \in flags => Still
        /\ loop.at = "tx1" /\ "RX_ENQUEUED" \in flags => Still

LEMMA AskTx ==
    ASSUME TypeInv, AskInv, Tx PROVE AskInv'
<1>1. /\ loop.at \in {"tx0", "tx1"} /\ loop'.at = After[loop.at] /\ prl'.rch = prl.rch
      /\ "RX_ENQUEUED" \in flags' <=> "RX_ENQUEUED" \in flags
  BY FrameTx DEF TxFlags
<1>2. loop'.at \in {"rx", "tch2"} /\ (loop.at = "tx1" => loop'.at = "tch2")
  BY <1>1, AfterAt
<1>3. ASSUME "TX_ERROR" \in flags', "TX_ERROR" \notin flags
      PROVE  loop.at = "tx1" /\ prl.tx = "Wait_PHY" /\ status = "FAILED"
  <2>1. ASSUME ~TxGiveUp PROVE flags' \subseteq flags \cup {"TX_COMPLETED", "START_OF_AMS"}
    BY <2>1 DEF Tx, TxSkip, TxHeld, TxStartOfAms, TxTakeChunk, TxNothing, TxSnkStart,
         TxSnkPending, TxSnkWait, TxPollCc, TxSent, TxRetry, TxWaitPhy, TxDiscard,
         TxDiscardNothing, Discard, Pass, SnkStart, AskSinkTx, ConstructEnqueued, Construct,
         TxOutcome, AmsMarked
  <2>2. TxGiveUp
    BY <1>3, <2>1
  <2> QED
    BY <2>2 DEF TxGiveUp, TxFailed, TxTurn, At
<1> QED
  BY <1>1, <1>2, <1>3 DEF AskInv, Still

LEMMA AskRx ==
    ASSUME TypeInv, RouteInv, AskInv, Rx PROVE AskInv'
<1>1. loop.at = "rx" /\ loop'.at = "rch1" /\ "CHUNK_FROM_RX" \notin flags
  BY FrameRx DEF RouteInv
<1>2. CASE RxSoftReset
  <2>1. prl'.rch = "Wait"
    BY <1>2 DEF RxSoftReset, Ready, TypeInv, Layers
  <2> QED
    BY <2>1 DEF AskInv
<1>3. CASE RxPostpone \/ RxEmpty \/ RxDrop
  <2>1. prl' = prl /\ flags' = flags
    BY <1>3 DEF RxPostpone, RxEmpty, RxDrop, Pass
  <2> QED
    BY <1>1, <2>1 DEF AskInv
<1>4. CASE RxStore
  <2>1. /\ prl'.rch = prl.rch /\ status' = status
        /\ "TX_ERROR" \in flags' => "TX_ERROR" \in flags
        /\ status \notin {"UNSET", "SUCCEEDED"} => prl'.tx = "Discard"
    BY <1>4 DEF RxStore, TypeInv, Layers
  <2> QED
    BY <1>1, <2>1 DEF AskInv, Still
<1> QED
  BY <1>2, <1>3, <1>4 DEF Rx

\* RCH goes on to ask, or still does so.
LEMMA RchAsking ==
    ASSUME TypeInv, Rch \/ RchTimeout, prl'.rch = "Requesting"
    PROVE  /\ flags' \cap {"TX_ERROR", "RX_ENQUEUED"} = {}
           /\ \/ prl.rch = "Requesting" /\ UNCHANGED <<prl, status>>
              \/ status' = "UNSET"
<1>1. ASSUME NEW f, RchReportError(f) PROVE FALSE
  BY <1>1 DEF RchReportError, Restarted, TypeInv, Layers
<1>2. ASSUME NEW m, NEW f, PassUp(m, f) PROVE FALSE
  BY <1>2 DEF PassUp, TypeInv, Layers
<1>3. ASSUME NEW s, NEW x, ProcessExtended(s, x)
      PROVE  EnqueueChunk(buf'.tx_chunk, flags \ {"RX_ENQUEUED"})
  BY <1>1, <1>2, <1>3 DEF ProcessExtended
<1>4. CASE RchFirstChunk \/ RchNextChunk
  <2>1. EnqueueChunk(buf'.tx_chunk, flags \ {"RX_ENQUEUED"})
    BY <1>3, <1>4 DEF RchFirstChunk, RchNextChunk
  <2> QED
    BY <2>1 DEF EnqueueChunk, Outputs
<1>5. CASE RchRequesting
  BY <1>5 DEF RchRequesting, RchAsks, Pass, Outputs
<1>6. ~(RchPlain \/ RchInterrupted \/ RchRequestFailed \/ RchTimeout)
  BY <1>1, <1>2 DEF RchPlain, RchInterrupted, RchRequestFailed, RchTimeout
<1>7. ~(RchIdle \/ RchRequested)
  BY DEF RchIdle, RchRequested, Pass, TypeInv, Layers
<1> QED
  BY <1>4, <1>5, <1>6, <1>7 DEF Rch

LEMMA AskRch ==
    ASSUME TypeInv, AskInv, Rch \/ RchTimeout PROVE AskInv'
<1>1. /\ loop.at \in {"rch1", "rch2"} /\ loop'.at = After[loop.at]
      /\ "CHUNK_FROM_RX" \in flags' <=> "CHUNK_FROM_RX" \in flags
  BY FrameRch DEF TxFlags
<1>2. loop'.at \in {"tch1", "rest"} /\ (loop'.at = "tch1" => loop.at = "rch1")
  BY <1>1, AfterAt
<1> SUFFICES ASSUME prl'.rch = "Requesting" PROVE AskInv'
  BY DEF AskInv
<1> QED
  BY <1>1, <1>2, RchAsking DEF AskInv, Still

LEMMA AskTch ==
    ASSUME TypeInv, OwnerInv, RouteInv, AskInv, Tch \/ TchTimeout PROVE AskInv'
<1>1. /\ loop.at \in {"tch1", "tch2", "tch3"} /\ loop'.at = After[loop.at] /\ prl'.rch = prl.rch
  BY FrameTch
<1>2. /\ loop.at = "tch1" => loop'.at = "tx1"
      /\ loop.at = "tch2" => loop'.at = "tch3"
      /\ loop.at = "tch3" => loop'.at = "rch2"
  BY <1>1, AfterAt
<1> SUFFICES ASSUME prl.rch = "Requesting" PROVE AskInv'
  BY <1>1 DEF AskInv
<1>3. prl.tch = "Wait"
  BY DEF OwnerInv, TxHasOneOwner
<1>4. TchIdle \/ TchHandOver \/ TchRefuse
  BY <1>3 DEF Tch, TchFailed, TchAwaitTx, TchTransmitting, TchInterrupted, TchMessageSent,
     TchLastChunkSent, TchOneChunkSent, TchAwaitRequest, TchSendNext, TchWrongRequest, TchAborted,
     TchTimeout, InTransmission, TchChunkSent, TchAnswered, TchAt, TchSendFirst, RchBusy
<1>5. CASE TchIdle \/ TchRefuse
  <2>1. UNCHANGED <<prl, status>> /\ flags' \subseteq flags
    BY <1>5 DEF TchIdle, TchRefuse, Pass
  <2> QED
    BY <1>1, <1>2, <2>1 DEF AskInv
<1>6. CASE TchHandOver
  <2>1. /\ status' = status /\ prl'.tx = prl.tx /\ "CHUNK_FROM_RX" \in flags
        /\ "TX_ERROR" \in flags' => "TX_ERROR" \in flags
    BY <1>6, FrameTch DEF TchHandOver, TchReceived
  <2>2. loop.at = "tch1"
    BY <1>1, <1>3, <2>1 DEF RouteInv
  <2> QED
    BY <1>2, <2>1, <2>2 DEF AskInv, Still
<1> QED
  BY <1>4, <1>5, <1>6

LEMMA AskStep ==
    ASSUME TypeInv, OwnerInv, ResetInv, TurnInv, RouteInv, AskInv, [Next]_sysVars PROVE AskInv'
<1>1. CASE UNCHANGED sysVars
  BY <1>1 DEF sysVars, vars, AskInv, Still
<1>2. CASE InitLayer \/ Disable \/ Hr
  <2>1. CASE InitLayer
    BY <2>1 DEF InitLayer, Ready, TypeInv, Layers, AskInv
  <2>2. CASE Disable \/ Hr
    <3>1. flags' = flags /\ prl'.rch = prl.rch /\ loop'.at \in {"rest", "tx0"} /\ loop.at = "prl"
      BY <2>2, AfterAt DEF Disable, Hr, HrIdle, HrWait, HrResetLayer, HrIndicate, HrRequest,
         HrRequested, HrSent, HrTurn, At, Advance, EndTick, TypeInv, Layers
    <3> QED
      BY <3>1 DEF AskInv
  <2> QED
    BY <1>2, <2>1, <2>2
<1>3. CASE Pe
  BY <1>3, FramePe DEF AskInv
<1>4. CASE Driver \/ TxFails \/ MeasureCc \/ Partner
  <2>1. loop.at \in {"rch1", "tch1", "tx1"} => ~tcpc.hr_send
    BY DEF TurnInv, ResetInv
  <2>2. loop.at \in {"rch1", "tch1", "tx1"} /\ Still => Still'
    BY <1>4, <2>1, FrameOutside DEF Still
  <2> QED
    BY <1>4, <2>2, FrameOutside DEF AskInv
<1>5. CASE TickStart \/ Cable
  BY <1>5 DEF TickStart, Cable, AskInv, At
<1> QED
  BY <1>1, <1>2, <1>3, <1>4, <1>5, AskTx, AskRx, AskRch, AskTch
  DEF Next, Tick, PrlStep, PrlNext, Timeouts

-----------------------------------------------------------------------------
LEMMA AppendedChunk ==
    ASSUME NEW s \in Seq(TheirChunks), NEW c \in TheirChunks, c.kind = "ext", c.n = Len(s),
           \A i \in 1..Len(s) : s[i].kind = "ext" /\ s[i].n = i - 1
    PROVE  /\ Len(Append(s, c)) = Len(s) + 1
           /\ \A i \in 1..(Len(s) + 1) : Append(s, c)[i].kind = "ext" /\ Append(s, c)[i].n = i - 1
<1>1. /\ Len(s) \in Nat /\ Len(Append(s, c)) = Len(s) + 1
      /\ \A i \in 1..Len(s) : Append(s, c)[i] = s[i]
      /\ Append(s, c)[Len(s) + 1] = c
  BY AppendProperties, LenProperties
<1> QED
  BY <1>1

\* The step of RCH that takes a chunk.
LEMMA ChunkTaken ==
    ASSUME TypeInv, NEW s \in Seq(TheirChunks), NEW x \in 0..(NChunks - 1), x = Len(s),
           \A i \in 1..x : s[i].kind = "ext" /\ s[i].n = i - 1,
           ProcessExtended(s, x)
    PROVE  /\ CollectInv'
           /\ pe'.heard # pe.heard =>
                /\ Len(buf'.rx_emsg) = NChunks /\ buf'.rx_emsg[1].kind = "ext"
                /\ \A i \in 1..NChunks : buf'.rx_emsg[i].kind = "ext" /\ buf'.rx_emsg[i].n = i - 1
<1> DEFINE c == buf.rx_chunk
<1>1. CASE UnexpectedChunk(c, x)
  <2>1. RchReportError(flags \ {"RX_ENQUEUED"})
    BY <1>1 DEF ProcessExtended
  <2>2. prl'.rch = "Wait" /\ pe'.heard = pe.heard
    BY <2>1 DEF RchReportError, HearsError, Restarted, TypeInv, Layers, Engines
  <2> QED
    BY <2>2 DEF CollectInv
<1>2. CASE ~UnexpectedChunk(c, x)
  <2>1. c \in TheirChunks /\ c.kind = "ext" /\ c.n = x /\ x \in Nat /\ NChunks \in Nat
    BY <1>2, Sizes DEF UnexpectedChunk, TypeInv, Buffers, TheirChunks
  <2>2. /\ Len(Append(s, c)) = x + 1
        /\ \A i \in 1..(x + 1) : Append(s, c)[i].kind = "ext" /\ Append(s, c)[i].n = i - 1
    BY <2>1, AppendedChunk
  <2>3. CASE x + 1 >= NChunks
    <3>1. PassUp(Append(s, c), flags \ {"RX_ENQUEUED"})
      BY <1>2, <2>3 DEF ProcessExtended
    <3>2. buf'.rx_emsg = Append(s, c) /\ prl'.rch = "Wait"
      BY <3>1 DEF PassUp, TypeInv, Layers, Buffers
    <3>3. x + 1 = NChunks /\ 1 \in 1..NChunks
      BY <2>1, <2>3
    <3> QED
      BY <2>2, <3>2, <3>3 DEF CollectInv
  <2>4. CASE ~(x + 1 >= NChunks)
    <3>1. /\ buf' = [buf EXCEPT !.rx_emsg = Append(s, c),
                        !.tx_chunk = [kind |-> "req", n |-> x + 1, id |-> 0, serial |-> 0]]
          /\ num' = [num EXCEPT !.rch = x + 1] /\ pe' = pe
      BY <1>2, <2>4 DEF ProcessExtended
    <3>2. buf'.rx_emsg = Append(s, c) /\ num'.rch = x + 1
      BY <3>1 DEF TypeInv, Buffers, Numbers
    <3>3. x + 1 \in 1..NChunks
      BY <2>1
    <3> QED
      BY <2>2, <3>1, <3>2, <3>3 DEF CollectInv
  <2> QED
    BY <2>3, <2>4
<1> QED
  BY <1>1, <1>2

WholeStep ==
    pe'.heard # pe.heard =>
        LET m == buf'.rx_emsg
        IN  IF m[1].kind = "ext"
              THEN /\ Len(m) = NChunks
                   /\ \A i \in 1..NChunks : m[i].kind = "ext" /\ m[i].n = i - 1
              ELSE Len(m) = 1

LEMMA CollectRch ==
    ASSUME TypeInv, CollectInv, AskInv, Rch \/ RchTimeout PROVE CollectInv' /\ WholeStep
<1>1. CASE RchIdle \/ RchRequesting \/ RchRequested
  <2>1. /\ UNCHANGED <<num, buf, pe>>
        /\ prl'.rch \in {"Requesting", "Waiting"} => prl.rch \in {"Requesting", "Waiting"}
    BY <1>1 DEF RchIdle, RchRequesting, RchRequested, RchAsks, Pass
  <2> QED
    BY <2>1 DEF CollectInv, WholeStep
<1>2. CASE RchPlain
  <2>1. PassUp(<<buf.rx_chunk>>, flags \ {"RX_ENQUEUED"}) /\ buf.rx_chunk.kind # "ext"
    BY <1>2 DEF RchPlain
  <2>2. prl'.rch = "Wait" /\ buf'.rx_emsg = <<buf.rx_chunk>>
    BY <2>1 DEF PassUp, TypeInv, Layers, Buffers
  <2> QED
    BY <2>1, <2>2 DEF CollectInv, WholeStep
<1>3. CASE RchFirstChunk
  <2>1. ProcessExtended(<<>>, 0) /\ <<>> \in Seq(TheirChunks) /\ 0 \in 0..(NChunks - 1)
    BY <1>3, EmptySeq, Sizes DEF RchFirstChunk
  <2>2. Len(<<>>) = 0 /\ \A i \in 1..0 : <<>>[i].kind = "ext" /\ <<>>[i].n = i - 1
    OBVIOUS
  <2> QED
    BY <2>1, <2>2, ChunkTaken DEF WholeStep
<1>4. CASE RchNextChunk
  <2>1. ProcessExtended(buf.rx_emsg, num.rch) /\ prl.rch = "Waiting"
    BY <1>4 DEF RchNextChunk, RchTakes
  <2>2. buf.rx_emsg \in Seq(TheirChunks) /\ num.rch \in 0..(NChunks - 1) /\ Len(buf.rx_emsg) = num.rch
    BY <2>1, Sizes DEF TypeInv, ChunkInv, Buffers, Numbers
  <2>3. \A i \in 1..num.rch : buf.rx_emsg[i].kind = "ext" /\ buf.rx_emsg[i].n = i - 1
    BY <2>1 DEF CollectInv
  <2> QED
    BY <2>1, <2>2, <2>3, ChunkTaken DEF WholeStep
<1>5. CASE RchInterrupted
  <2>1. RchReportError(flags) /\ "RX_ENQUEUED" \in flags /\ buf.rx_chunk.kind # "ext"
    BY <1>5 DEF RchInterrupted, RchTakes
  <2>2. prl'.rch = "Wait" /\ buf'.rx_emsg = <<buf.rx_chunk>>
    BY <2>1 DEF RchReportError, Restarted, TypeInv, Layers, Buffers
  <2> QED
    BY <2>1, <2>2 DEF CollectInv, WholeStep
<1>6. CASE RchRequestFailed \/ RchTimeout
  <2>1. \E f : RchReportError(f) /\ "RX_ENQUEUED" \notin f
    BY <1>6 DEF RchRequestFailed, RchAsks, RchTimeout, AskInv, Outputs
  <2>2. prl'.rch = "Wait" /\ pe'.heard = pe.heard
    BY <2>1 DEF RchReportError, HearsError, Restarted, TypeInv, Layers, Engines
  <2> QED
    BY <2>2 DEF CollectInv, WholeStep
<1> QED
  BY <1>1, <1>2, <1>3, <1>4, <1>5, <1>6 DEF Rch

LEMMA CollectStep ==
    ASSUME TypeInv, CollectInv, AskInv, [Next]_sysVars PROVE CollectInv' /\ WholeStep
<1>1. CASE ~(Rch \/ RchTimeout)
  <2>1. /\ buf'.rx_emsg = buf.rx_emsg /\ num'.rch = num.rch /\ pe'.heard = pe.heard
        /\ prl'.rch = prl.rch \/ prl'.rch = "Wait"
    <3>1. CASE InitLayer
      BY <3>1 DEF InitLayer, Ready, ResetIds, TypeInv, Layers, Numbers
    <3>2. CASE Disable \/ Hr
      BY <3>2 DEF Disable, Hr, HrIdle, HrWait, HrResetLayer, HrIndicate, HrRequest, HrRequested,
                  HrSent, HearsHardResetSent, TypeInv, Layers, Engines
    <3>3. CASE Rx
      <4>1. prl'.rch = prl.rch \/ prl'.rch = "Wait"
        BY <3>3 DEF Rx, RxPostpone, RxEmpty, RxSoftReset, RxDrop, RxStore, Ready, Pass, TypeInv, Layers
      <4> QED
        BY <3>3, <4>1, FrameRx
    <3>4. CASE TickStart \/ Cable \/ UNCHANGED sysVars
      BY <3>4 DEF TickStart, Cable, sysVars, vars
    <3> QED
      BY <1>1, <3>1, <3>2, <3>3, <3>4, FrameTx, FrameTch, FramePe, FrameOutside
      DEF Next, Tick, PrlStep, PrlNext, Timeouts
  <2> QED
    BY <2>1 DEF CollectInv, WholeStep
<1> QED
  BY <1>1, CollectRch

\* What PE gets as one message is a plain message or all the chunks of an extended
\* one, in order: whatever else arrives between them, and whatever fails.
THEOREM MessagesAreWhole == HardResetsEnd /\ Spec => MessagesWhole
<1> SUFFICES ASSUME HardResetsEnd PROVE Spec => MessagesWhole
  OBVIOUS
<1> DEFINE IInv == /\ TypeInv /\ OwnerInv /\ ResetInv /\ TurnInv /\ RouteInv
                   /\ AskInv /\ CollectInv
<1>1. Init => IInv
  BY TypeInit, OwnerInit, RouteInit DEF Init, AskInv, CollectInv
<1>2. IInv /\ [Next]_sysVars => IInv'
  BY TypeStep, OwnerStep, ResetStep, TurnStep, RouteStep, AskStep, CollectStep
<1>3. IInv /\ [Next]_sysVars =>
        [ pe'.heard # pe.heard =>
            LET m == buf'.rx_emsg
            IN  IF m[1].kind = "ext"
                  THEN /\ Len(m) = NChunks
                       /\ \A i \in 1..NChunks : m[i].kind = "ext" /\ m[i].n = i - 1
                  ELSE Len(m) = 1 ]_sysVars
  BY CollectStep DEF WholeStep
<1> HIDE DEF IInv
<1> QED
  BY <1>1, <1>2, <1>3, PTL DEF Spec, MessagesWhole

-----------------------------------------------------------------------------
(* The order in which PE hears messages.  A repetition is recognised by the  *)
(* id of the latest message, which every restart of the layer forgets: what  *)
(* follows assumes of a partner that repeats messages that nothing restarts  *)
(* the layer once it works.                                                  *)

Repeats == "repeat" \in PartnerMay

RepeatsAreKnown ==
    Repeats => /\ ~SoftResets /\ ~CanDetach /\ "hard" \notin PeMay
               /\ PartnerMay \cap {"soft", "hard"} = {}

\* What PRL_Rx may find from now on: what the driver holds, and the latest message again.
Queued == {tcpc.rx_queue[i] : i \in 1..Len(tcpc.rx_queue)}
Repeatable == {m \in {partner.last} : Repeats /\ m.kind # "none"}
Coming == Queued \cup Repeatable

CalmInv ==
    Repeats =>
        /\ attached /\ flags \cap HrFlags = {} /\ prl.hr \in {"none", "IDLE"}
        /\ pe.mode \in {"off", "startup", "run"}
        /\ pe.mode = "off" => prl.local # "WORKING" /\ loop.at \in {"rest", "pe"}
        /\ buf.tx_emsg.kind # "soft" /\ buf.tx_chunk.kind # "soft"
        /\ partner.last.kind # "soft" /\ \A m \in Queued : m.kind # "soft"
        /\ prl.local # "WORKING" => /\ prl.hr = "none" /\ ~tcpc.rx_on /\ tcpc.rx_enable # "on"
                                    /\ Coming = {}

\* The driver's queue after a message has come in or gone out.
LEMMA QueuedAppend ==
    ASSUME NEW q \in Seq(TheirChunks), NEW m \in TheirChunks
    PROVE  /\ Append(q, m) \in Seq(TheirChunks) /\ Len(Append(q, m)) = Len(q) + 1 /\ Len(q) \in Nat
           /\ \A i \in 1..Len(q) : Append(q, m)[i] = q[i]
           /\ Append(q, m)[Len(q) + 1] = m
  BY AppendProperties, LenProperties

LEMMA QueuedTail ==
    ASSUME NEW q \in Seq(TheirChunks), q # <<>>
    PROVE  /\ Head(q) = q[1] /\ Head(q) \in TheirChunks /\ Len(q) \in Nat \ {0}
           /\ Tail(q) \in Seq(TheirChunks) /\ Len(Tail(q)) = Len(q) - 1
           /\ \A i \in 1..Len(Tail(q)) : Tail(q)[i] = q[i + 1] /\ i + 1 \in 1..Len(q)
  BY HeadTailProperties, LenProperties, EmptySeq, ElementOfSeq

\* What the steps of the driver do to what is coming.
LEMMA ComingOutside ==
    ASSUME TypeInv, Driver \/ TxFails \/ MeasureCc \/ PartnerHears \/ PartnerHardReset
    PROVE  /\ tcpc'.rx_queue \in {tcpc.rx_queue, <<>>}
           /\ partner'.last \in {partner.last, NoMsg}
           /\ partner'.first = partner.first
           /\ partner'.sent \in {partner.sent, partner.sent + 1}
           /\ tcpc'.rx_enable \in {tcpc.rx_enable, "idle"}
           /\ tcpc'.rx_on = tcpc.rx_on \/ tcpc'.rx_on = (tcpc.rx_enable = "on")
<1>1. /\ tcpc'.rx_queue \in {tcpc.rx_queue, <<>>}
      /\ tcpc'.rx_enable \in {tcpc.rx_enable, "idle"}
      /\ tcpc'.rx_on = tcpc.rx_on \/ tcpc'.rx_on = (tcpc.rx_enable = "on")
  BY DEF Driver, SetRxEnable, BeginTransmit, BeginHardReset, HardResetSent, TxSucceeds, TxFails,
         MeasureCc, PartnerHears, PartnerHardReset, TypeInv, Drivers
<1>2. /\ partner'.last \in {partner.last, NoMsg}
      /\ partner'.first = partner.first
      /\ partner'.sent \in {partner.sent, partner.sent + 1}
  <2>1. CASE Driver \/ TxFails \/ MeasureCc
    BY <2>1 DEF Driver, SetRxEnable, BeginTransmit, BeginHardReset, HardResetSent, TxSucceeds, TxFails,
         MeasureCc, TxEnd, PartnerReset, TypeInv, Partners
  <2>2. CASE PartnerHardReset
    BY <2>2 DEF PartnerHardReset, PartnerReset, TypeInv, Partners
  <2>3. CASE PartnerHears
    BY <2>3 DEF PartnerHears, PartnerReset, TypeInv, Partners
  <2> QED
    BY <2>1, <2>2, <2>3
<1> QED
  BY <1>1, <1>2

LEMMA CalmWorks ==
    ASSUME Repeats, CalmInv, TurnInv, loop.at \notin {"rest", "pe", "prl"}
    PROVE  prl.hr = "IDLE" /\ prl.local = "WORKING" /\ pe.mode # "off"
  BY DEF CalmInv, TurnInv

\* What the machines of the tick send is what PE has enqueued, or asks for a chunk.
LEMMA SentKinds ==
    ASSUME TypeInv, Tx \/ Rx \/ Rch \/ Tch \/ Timeouts
    PROVE  /\ buf'.tx_emsg = buf.tx_emsg
           /\ buf'.tx_chunk.kind \in {buf.tx_chunk.kind, buf.tx_emsg.kind, "req"}
<1>1. CASE Tx
  <2>1. buf' = buf \/ \E id : buf' = [buf EXCEPT !.tx_chunk.id = id]
    BY <1>1 DEF Tx, TxSkip, TxHeld, TxStartOfAms, TxTakeChunk, TxNothing, TxSnkStart, TxSnkPending,
         TxSnkWait, TxPollCc, TxSent, TxGiveUp, TxRetry, TxWaitPhy, TxDiscard,
         TxDiscardNothing, Discard, Pass, SnkStart, AskSinkTx, ConstructEnqueued, Construct,
         TxOutcome
  <2> QED
    BY <2>1 DEF TypeInv, Buffers, OurChunks
<1>2. CASE Rx
  BY <1>2 DEF Rx, RxPostpone, RxEmpty, RxSoftReset, RxDrop, RxStore, Fetch, Pass, TypeInv, Buffers
<1>3. CASE Rch \/ RchTimeout
  <2>1. ASSUME NEW f, RchReportError(f)
        PROVE  buf'.tx_emsg = buf.tx_emsg /\ buf'.tx_chunk = buf.tx_chunk
    BY <2>1 DEF RchReportError, TypeInv, Buffers
  <2>2. ASSUME NEW e, NEW f, PassUp(e, f)
        PROVE  buf'.tx_emsg = buf.tx_emsg /\ buf'.tx_chunk = buf.tx_chunk
    BY <2>2 DEF PassUp, TypeInv, Buffers
  <2>3. ASSUME NEW e, NEW x, ProcessExtended(e, x)
        PROVE  /\ buf'.tx_emsg = buf.tx_emsg
               /\ buf'.tx_chunk = buf.tx_chunk \/ buf'.tx_chunk.kind = "req"
    <3>1. \/ \E f : RchReportError(f) \/ PassUp(Append(e, buf.rx_chunk), f)
          \/ buf' = [buf EXCEPT !.rx_emsg = Append(e, buf.rx_chunk),
                       !.tx_chunk = [kind |-> "req", n |-> x + 1, id |-> 0, serial |-> 0]]
      BY <2>3 DEF ProcessExtended
    <3>2. ASSUME NEW a, NEW r, buf' = [buf EXCEPT !.rx_emsg = a, !.tx_chunk = r]
          PROVE  buf'.tx_emsg = buf.tx_emsg /\ buf'.tx_chunk = r
      BY <3>2 DEF TypeInv, Buffers
    <3>3. CASE \E f : RchReportError(f) \/ PassUp(Append(e, buf.rx_chunk), f)
      BY <2>1, <2>2, <3>3
    <3>4. CASE buf' = [buf EXCEPT !.rx_emsg = Append(e, buf.rx_chunk),
                          !.tx_chunk = [kind |-> "req", n |-> x + 1, id |-> 0, serial |-> 0]]
      <4>1. /\ buf'.tx_emsg = buf.tx_emsg
            /\ buf'.tx_chunk = [kind |-> "req", n |-> x + 1, id |-> 0, serial |-> 0]
        BY <3>2, <3>4
      <4> QED
        BY <4>1
    <3> QED
      BY <3>1, <3>3, <3>4
  <2> QED
    BY <1>3, <2>1, <2>2, <2>3
    DEF Rch, RchIdle, RchPlain, RchFirstChunk, RchNextChunk, RchInterrupted, RchRequested,
        RchRequestFailed, RchRequesting, RchTimeout, Pass
<1>4. CASE Tch \/ TchTimeout
  <2>1. buf' = buf \/ \E n : buf' = [buf EXCEPT !.tx_chunk = [kind |-> buf.tx_emsg.kind, n |-> n,
                                                     id |-> 0, serial |-> buf.tx_emsg.serial]]
    BY <1>4 DEF Tch, TchTimeout, TchIdle, TchHandOver, TchRefuse, TchSendFirst, TchFailed, TchAwaitTx,
       TchTransmitting, TchInterrupted, TchMessageSent, TchLastChunkSent, TchOneChunkSent,
       TchAwaitRequest, TchSendNext, TchWrongRequest, TchAborted, TchReceived,
       TchSent, TchReportError, TchEnd, SendChunk, Pass
  <2> QED
    BY <2>1 DEF TypeInv, Buffers
<1> QED
  BY <1>1, <1>2, <1>3, <1>4 DEF Timeouts

LEMMA CalmTick ==
    ASSUME RepeatsAreKnown, Repeats, TypeInv, TurnInv, CalmInv,
           Tx \/ Rx \/ Rch \/ Tch \/ Timeouts, UNCHANGED partner
    PROVE  CalmInv'
<1>1. loop.at \notin {"rest", "pe", "prl"} /\ attached' = attached
  BY FrameTx, FrameRx, FrameRch, FrameTch DEF Timeouts
<1>2. /\ flags' \cap HrFlags = flags \cap HrFlags /\ prl'.hr = prl.hr
      /\ pe'.mode = pe.mode /\ prl'.local = prl.local
  BY FrameTx, FrameRx, FrameRch, FrameTch DEF Timeouts, TxFlags, HrFlags, RepeatsAreKnown
<1>3. \A m \in Queued' : m \in Queued
  <2>1. \/ tcpc'.rx_queue = tcpc.rx_queue
        \/ tcpc.rx_queue # <<>> /\ tcpc'.rx_queue = Tail(tcpc.rx_queue)
    <3>1. CASE Rx
      BY <3>1 DEF Rx, RxPostpone, RxEmpty, RxSoftReset, RxDrop, RxStore, Fetch, Popped, Pass, TypeInv, Drivers
    <3> QED
      BY <3>1, FrameTx, FrameRch, FrameTch DEF Timeouts
  <2>2. tcpc.rx_queue \in Seq(TheirChunks)
    BY DEF TypeInv, Drivers
  <2>3. ASSUME NEW i \in 1..Len(tcpc'.rx_queue)
        PROVE  \E j \in 1..Len(tcpc.rx_queue) : tcpc'.rx_queue[i] = tcpc.rx_queue[j]
    <3>1. CASE tcpc'.rx_queue = tcpc.rx_queue
      BY <2>3, <3>1
    <3>2. CASE tcpc.rx_queue # <<>> /\ tcpc'.rx_queue = Tail(tcpc.rx_queue)
      <4>1. /\ tcpc'.rx_queue[i] = tcpc.rx_queue[i + 1]
            /\ i + 1 \in 1..Len(tcpc.rx_queue)
        BY <2>2, <2>3, <3>2, QueuedTail
      <4> QED
        BY <4>1
    <3> QED
      BY <2>1, <3>1, <3>2
  <2> QED
    BY <2>3 DEF Queued
<1>4. buf'.tx_emsg.kind # "soft" /\ buf'.tx_chunk.kind # "soft"
  BY SentKinds DEF CalmInv
<1>5. prl.local = "WORKING" /\ pe.mode # "off"
  BY <1>1, CalmWorks
<1> QED
  BY <1>1, <1>2, <1>3, <1>4, <1>5 DEF CalmInv

LEMMA CalmHr ==
    ASSUME RepeatsAreKnown, Repeats, TypeInv, CalmInv, InitLayer \/ Disable \/ Hr,
           UNCHANGED partner
    PROVE  CalmInv'
<1>1. loop.at = "prl" /\ attached' = attached /\ buf' = buf
  BY DEF InitLayer, Disable, Hr, HrIdle, HrWait, HrResetLayer, HrIndicate, HrRequest, HrRequested,
         HrSent, HrTurn, At
<1>2. attached /\ flags \cap HrFlags = {} /\ prl.hr \in {"none", "IDLE"} /\ pe.mode # "off"
  BY <1>1 DEF CalmInv
<1>3. tcpc'.rx_queue = tcpc.rx_queue
  BY DEF InitLayer, Disable, Hr, HrIdle, HrWait, HrResetLayer, HrIndicate, HrRequest, HrRequested,
         HrSent, TypeInv, Drivers
<1>4. CASE InitLayer
  <2>1. flags' = {} /\ prl'.hr = "IDLE" /\ prl'.local = "WORKING" /\ pe' = pe
    BY <1>4 DEF InitLayer, ClearedFlags, Ready, TypeInv, Layers
  <2> QED
    BY <1>1, <1>2, <1>3, <2>1 DEF CalmInv, Queued, Coming, Repeatable
<1>5. CASE HrIdle \/ HrWait
  BY <1>1, <1>2, <1>5 DEF HrIdle, HrWait, HrTurn, CalmInv, Queued, Coming, Repeatable
<1>6. ~(Disable \/ HrResetLayer \/ HrIndicate \/ HrRequest \/ HrRequested \/ HrSent)
  BY <1>2 DEF Disable, HrResetLayer, HrIndicate, HrRequest, HrRequested, HrSent
<1> QED
  BY <1>4, <1>5, <1>6 DEF Hr

LEMMA CalmPe ==
    ASSUME RepeatsAreKnown, Repeats, TypeInv, CalmInv, Pe PROVE CalmInv'
<1>1. /\ loop.at = "pe" /\ attached' = attached /\ prl'.hr = prl.hr /\ tcpc' = tcpc
      /\ partner' = partner
  BY FramePe
<1>2. Coming' = Coming /\ Queued' = Queued
  BY <1>1 DEF Coming, Queued, Repeatable
<1>3. /\ attached /\ pe.mode \in {"off", "startup", "run"} /\ ~SoftResets /\ "hard" \notin PeMay
      /\ pe \in Engines /\ prl \in Layers /\ buf \in Buffers
  BY DEF CalmInv, RepeatsAreKnown, TypeInv
<1>4. ~(PeOff \/ PeSoftReset \/ PeSendSoftReset \/ PeHardReset \/ PeDefault)
  BY <1>3 DEF PeOff, PeSoftReset, PeSendSoftReset, PeHardReset, PeDefault, PeTurn
<1>5. CASE PeStartup
  <2>1. pe.mode = "off" /\ prl'.local = "INIT" /\ pe'.mode = "startup" /\ UNCHANGED <<flags, buf>>
    BY <1>3, <1>5 DEF PeStartup, PeTurn, Layers, Engines
  <2> QED
    BY <1>1, <1>2, <2>1 DEF CalmInv
<1>6. CASE PeWait \/ PeStarted \/ PeEndAms
  <2>1. /\ UNCHANGED <<prl, flags, buf>> /\ pe.mode # "off"
        /\ pe'.mode = pe.mode \/ pe'.mode = "run"
    BY <1>3, <1>6 DEF PeWait, PeStarted, PeEndAms, PeTurn, Engines
  <2> QED
    BY <1>1, <1>2, <2>1 DEF CalmInv
<1>7. ASSUME NEW kind \in {"ctl", "ext"}, NEW p \in Engines, Enqueue(kind, p),
             pe.mode # "off", p.mode \in {pe.mode, "run"}
      PROVE  CalmInv'
  <2>1. /\ prl' = prl /\ flags' = flags \cup {"MSG_FROM_PE_ENQUEUED"}
        /\ pe'.mode = p.mode /\ buf'.tx_emsg.kind = kind /\ buf'.tx_chunk = buf.tx_chunk
    BY <1>3, <1>7 DEF Enqueue, Engines, Buffers
  <2> QED
    BY <1>1, <1>2, <1>7, <2>1 DEF CalmInv, HrFlags
<1>8. CASE PeAccept
  <2> DEFINE p == [pe EXCEPT !.accept = FALSE, !.mode = "run"]
  <2>1. p \in Engines /\ p.mode = "run"
    BY <1>3 DEF Engines
  <2>2. Enqueue("ctl", p) /\ pe.mode # "off"
    BY <1>8 DEF PeAccept, PeTurn
  <2> QED
    BY <1>7, <2>1, <2>2
<1>9. ASSUME NEW kind \in {"ctl", "ext"}, PeReply(kind) \/ \E ams \in {"no", "new"} : PeBegin(kind, ams)
      PROVE  CalmInv'
  <2>1. pe.mode = "run"
    BY <1>9 DEF PeReply, PeBegin, PeTurn
  <2>2. Enqueue(kind, pe) \/ \E ams \in {"no", "new"} : Enqueue(kind, [pe EXCEPT !.ams = ams])
    BY <1>9 DEF PeReply, PeBegin
  <2>3. \A ams \in {"no", "new"} : /\ [pe EXCEPT !.ams = ams] \in Engines
                                   /\ [pe EXCEPT !.ams = ams].mode = pe.mode
    BY <1>3 DEF Engines
  <2> QED
    BY <1>3, <1>7, <2>1, <2>2, <2>3
<1> QED
  BY <1>4, <1>5, <1>6, <1>8, <1>9 DEF Pe

LEMMA CalmOutside ==
    ASSUME RepeatsAreKnown, Repeats, TypeInv, CalmInv,
           Driver \/ TxFails \/ MeasureCc \/ PartnerHears \/ PartnerHardReset
    PROVE  CalmInv'
<1>1. "hard" \notin PartnerMay
  BY DEF RepeatsAreKnown
<1>2. /\ loop'.at = loop.at /\ UNCHANGED <<attached, prl, num, buf, pe>> /\ flags' = flags
  BY <1>1, FrameOutside
  DEF Partner, Driver, SetRxEnable, BeginTransmit, BeginHardReset, HardResetSent, TxSucceeds, TxFails,
         MeasureCc, PartnerHears, PartnerHardReset, TxEnd
<1>3. Queued' \subseteq Queued /\ Coming' \subseteq Coming /\ partner'.last.kind # "soft"
  BY ComingOutside DEF Queued, Coming, Repeatable, NoMsg, CalmInv
<1> QED
  BY <1>2, <1>3, ComingOutside DEF CalmInv

LEMMA CalmPartner ==
    ASSUME RepeatsAreKnown, Repeats, TypeInv, CalmInv, PartnerSends \/ PartnerRepeats
    PROVE  CalmInv'
<1>1. PICK m \in TheirChunks :
        /\ Receives(m) /\ m.kind # "soft"
        /\ partner'.last = m
  <2>1. CASE PartnerRepeats
    BY <2>1 DEF PartnerRepeats, TypeInv, Partners, CalmInv
  <2>2. CASE PartnerSends
    <3>1. PICK kind \in {"ctl", "ping", "ext", "req"}, n \in 0..NChunks : PartnerSend(kind, n)
      <4>1. 0 \in 0..NChunks /\ 0..(NChunks - 1) \subseteq 0..NChunks /\ 1..NChunks \subseteq 0..NChunks
        BY Sizes
      <4>2. \A n : ~PartnerSend("soft", n)
        BY DEF PartnerSend, RepeatsAreKnown
      <4> QED
        BY <2>2, <4>1, <4>2 DEF PartnerSends
    <3> DEFINE serial == partner.sent + 1
               m == [kind |-> kind, n |-> n, id |-> partner.next, serial |-> serial,
                     first |-> IF kind # "ext" \/ n = 0 THEN serial ELSE partner.first]
    <3>2. m \in TheirChunks
      BY DEF TypeInv, Partners, TheirChunks
    <3>3. Receives(m) /\ partner'.last = m
      BY <3>1 DEF PartnerSend, TypeInv, Partners
    <3> QED
      BY <3>2, <3>3
  <2> QED
    BY <2>1, <2>2
<1>2. /\ UNCHANGED <<attached, prl, flags, buf, pe>> /\ loop'.at = loop.at /\ tcpc.rx_on
      /\ tcpc'.rx_queue = Append(tcpc.rx_queue, m)
  BY <1>1 DEF Receives, Wakes, TypeInv, Loops, Drivers
<1>3. \A x \in Queued' : x \in Queued \/ x = m
  BY <1>2, QueuedAppend DEF Queued, TypeInv, Drivers
<1>4. prl.local = "WORKING"
  BY <1>2 DEF CalmInv
<1> QED
  BY <1>1, <1>2, <1>3, <1>4 DEF CalmInv

LEMMA CalmStep ==
    ASSUME RepeatsAreKnown, TypeInv, TurnInv, CalmInv, [Next]_sysVars PROVE CalmInv'
<1> SUFFICES ASSUME Repeats PROVE CalmInv'
  BY DEF CalmInv
<1>1. CASE UNCHANGED sysVars
  <2>1. /\ Queued' = Queued /\ Coming' = Coming
        /\ UNCHANGED <<loop, attached, prl, flags, buf, tcpc, pe, partner>>
    BY <1>1 DEF sysVars, vars, Queued, Coming, Repeatable
  <2> QED
    BY <2>1 DEF CalmInv
<1>2. CASE TickStart
  <2>1. /\ Queued' = Queued /\ Coming' = Coming /\ loop'.at = "pe"
        /\ UNCHANGED <<attached, prl, flags, buf, tcpc, pe, partner>>
    BY <1>2 DEF TickStart, Queued, Coming, Repeatable
  <2> QED
    BY <2>1 DEF CalmInv
<1>3. ~Cable
  BY DEF Cable, RepeatsAreKnown
<1> QED
  BY <1>1, <1>2, <1>3, CalmTick, CalmHr, CalmPe, CalmOutside, CalmPartner
  DEF Next, Tick, PrlStep, PrlNext, Partner

-----------------------------------------------------------------------------
(* Serial numbers grow along the way of a message: what PE has heard, what   *)
(* PRL_Rx took last, what the driver holds, the latest message.  Only a      *)
(* repetition has the number of the message before it, and then its id too.  *)
(* PE hears the number of the first chunk of a message: it grows as well,    *)
(* because a chunk sent after the first chunk of a message belongs to that   *)
(* message or to a later one.                                                *)

Known == Coming \cup {buf.rx_chunk}
Pending == flags \cap {"CHUNK_FROM_RX", "RX_ENQUEUED"} # {}
Collects == prl.rch \in {"Requesting", "Waiting"}

SerialInv ==
    /\ partner.first <= partner.sent
    /\ \A m \in Known : /\ m.first <= m.serial /\ m.serial <= partner.sent
                        /\ m.kind # "ext" \/ m.n = 0 => m.first = m.serial

QueueInv ==
    \A i, j \in 1..Len(tcpc.rx_queue) : i < j =>
        \/ tcpc.rx_queue[i].serial < tcpc.rx_queue[j].serial
        \/ Repeats /\ tcpc.rx_queue[i] = tcpc.rx_queue[j]

LastInv == \A m \in Coming, l \in Repeatable : m.serial < l.serial \/ m = l

NewerInv ==
    \A m \in Coming : \/ buf.rx_chunk.serial < m.serial
                      \/ Repeats /\ m.serial = buf.rx_chunk.serial /\ m.id = num.rx

HeardInv ==
    /\ ~pe.again
    /\ pe.heard <= buf.rx_chunk.serial
    /\ Pending => pe.heard < buf.rx_chunk.serial

FirstInv ==
    \A c \in Known : c.kind = "ext" /\ c.n = 0 =>
        /\ partner.first >= c.serial
        /\ \A m \in Known : m.kind = "ext" /\ m.serial >= c.serial => m.first >= c.serial

BegunInv ==
    Collects =>
        LET f == buf.rx_emsg[1].first
        IN  /\ pe.heard < f /\ f <= buf.rx_chunk.serial /\ partner.first >= f
            /\ \A m \in Known : m.kind = "ext" /\ m.serial >= f => m.first >= f

OrderInv ==
    /\ SerialInv /\ QueueInv /\ LastInv /\ NewerInv /\ HeardInv /\ FirstInv /\ BegunInv

\* Their types, for arithmetic.
LEMMA KnownType ==
    ASSUME TypeInv
    PROVE  /\ partner.first \in Nat /\ partner.sent \in Nat /\ pe.heard \in Nat
           /\ buf.rx_chunk \in TheirChunks /\ partner.last \in TheirChunks
           /\ tcpc.rx_queue \in Seq(TheirChunks) /\ Len(tcpc.rx_queue) \in Nat
           /\ \A m \in Known : m \in TheirChunks
           /\ \A m \in TheirChunks : m.serial \in Nat /\ m.first \in Nat
<1>1. /\ partner.first \in Nat /\ partner.sent \in Nat /\ pe.heard \in Nat
      /\ buf.rx_chunk \in TheirChunks /\ partner.last \in TheirChunks
      /\ tcpc.rx_queue \in Seq(TheirChunks) /\ Len(tcpc.rx_queue) \in Nat
      /\ \A m \in TheirChunks : m.serial \in Nat /\ m.first \in Nat
  BY LenProperties DEF TypeInv, Partners, Engines, Buffers, Drivers, TheirChunks
<1>2. \A m \in Queued : m \in TheirChunks
  BY <1>1, ElementOfSeq DEF Queued
<1> QED
  BY <1>1, <1>2 DEF Known, Coming, Repeatable

\* Where nothing is heard and nothing new comes in, the order is kept.
LEMMA OrderKept ==
    ASSUME TypeInv, OrderInv,
           pe'.heard = pe.heard, pe'.again = pe.again, buf'.rx_chunk = buf.rx_chunk,
           tcpc'.rx_queue \in {tcpc.rx_queue, <<>>},
           partner'.last \in {partner.last, NoMsg}, partner'.first = partner.first,
           partner'.sent \in {partner.sent, partner.sent + 1},
           Pending' => Pending,
           Collects' => Collects /\ buf'.rx_emsg = buf.rx_emsg,
           num'.rx = num.rx \/ ~Repeats \/ Coming' = {}
    PROVE  OrderInv'
<1>1. Repeatable' \subseteq Repeatable /\ Coming' \subseteq Coming /\ Known' \subseteq Known
  BY DEF Repeatable, Queued, Coming, Known, NoMsg
<1>2. partner.sent <= partner'.sent /\ partner.sent \in Nat /\ partner'.sent \in Nat
  BY KnownType
<1>3. SerialInv'
  <2>1. ASSUME NEW m \in Known
        PROVE  /\ m.first <= m.serial /\ m.serial <= partner'.sent
               /\ m.kind # "ext" \/ m.n = 0 => m.first = m.serial
    BY <1>2, <2>1, KnownType DEF OrderInv, SerialInv
  <2>2. partner'.first <= partner'.sent
    BY <1>2, KnownType DEF OrderInv, SerialInv
  <2> QED
    BY <1>1, <2>1, <2>2 DEF SerialInv
<1>4. QueueInv'
  BY DEF OrderInv, QueueInv
<1>5. LastInv'
  BY <1>1 DEF OrderInv, LastInv
<1>6. NewerInv'
  BY <1>1 DEF OrderInv, NewerInv
<1>7. HeardInv'
  BY DEF OrderInv, HeardInv
<1>8. FirstInv'
  BY <1>1 DEF OrderInv, FirstInv
<1>9. BegunInv'
  BY <1>1 DEF OrderInv, BegunInv, Collects
<1> QED
  BY <1>3, <1>4, <1>5, <1>6, <1>7, <1>8, <1>9 DEF OrderInv

\* While RCH collects, its first chunk has a number.
LEMMA FirstType ==
    ASSUME TypeInv, CollectInv, Collects
    PROVE  buf.rx_emsg[1] \in TheirChunks /\ buf.rx_emsg[1].first \in Nat
<1>1. 1 \in 1..Len(buf.rx_emsg) /\ buf.rx_emsg \in Seq(TheirChunks)
  BY Sizes DEF TypeInv, Buffers, ChunkInv, CollectInv, Collects
<1> QED
  BY <1>1, ElementOfSeq, KnownType

LEMMA OrderSend ==
    ASSUME TypeInv, CollectInv, OrderInv, PartnerSends PROVE OrderInv'
<1>1. PICK kind, n : PartnerSend(kind, n) /\ n \in 0..NChunks /\ kind \in {"ctl", "ping", "soft", "ext", "req"}
  <2>1. 0 \in 0..NChunks /\ 0..(NChunks - 1) \subseteq 0..NChunks /\ 1..NChunks \subseteq 0..NChunks
    BY Sizes
  <2> QED
    BY <2>1 DEF PartnerSends
<1> DEFINE serial == partner.sent + 1
           p == IF kind = "soft" THEN PartnerReset(partner) ELSE partner
           m == [kind |-> kind, n |-> n, id |-> p.next, serial |-> serial,
                 first |-> IF kind # "ext" \/ n = 0 THEN serial ELSE p.first]
<1>2. p \in Partners /\ p.first = partner.first /\ p.sent = partner.sent
  BY Sizes DEF PartnerReset, TypeInv, Partners
<1>3. m \in TheirChunks /\ serial \in Nat
  <2>1. p.next \in Ids /\ p.first \in Nat /\ serial \in Nat
    BY <1>2, KnownType DEF Partners
  <2>2. (IF kind # "ext" \/ n = 0 THEN serial ELSE p.first) \in Nat
    BY <2>1
  <2> HIDE DEF p, serial
  <2> QED
    BY <1>1, <2>1, <2>2 DEF TheirChunks
<1>4. /\ Receives(m) /\ partner'.last = m /\ partner'.sent = serial
      /\ partner'.first = IF kind = "ext" THEN m.first ELSE partner.first
  BY <1>1, <1>2 DEF PartnerSend, Partners
<1>5. /\ UNCHANGED <<prl, flags, num, buf, pe>>
      /\ tcpc'.rx_queue = Append(tcpc.rx_queue, m)
  BY <1>4 DEF Receives, TypeInv, Drivers
<1>6. /\ m.serial = serial /\ m.kind = kind /\ m.n = n
      /\ m.first = IF kind # "ext" \/ n = 0 THEN serial ELSE partner.first
  BY <1>2
<1> HIDE DEF m, p
<1>7. partner.first <= partner.sent /\ m.first <= serial /\ m.first >= partner.first
  BY <1>6, KnownType DEF OrderInv, SerialInv
<1>8. \A x \in Queued' : x \in Queued \/ x = m
  BY <1>5, <1>3, KnownType, QueuedAppend DEF Queued
<1>9. /\ \A x \in Repeatable' : x = m
      /\ \A x \in Coming' : x \in Coming \/ x = m
      /\ \A x \in Known' : x \in Known \/ x = m
  BY <1>4, <1>5, <1>8 DEF Repeatable, Coming, Known
<1>10. \A x \in Known : x.serial \in Nat /\ x.first \in Nat /\ x.serial < serial
  BY KnownType DEF OrderInv, SerialInv
<1>11. SerialInv'
  <2>1. partner'.first <= partner'.sent
    BY <1>4, <1>7, KnownType
  <2>2. ASSUME NEW x \in Known'
        PROVE  /\ x.first <= x.serial /\ x.serial <= partner'.sent
               /\ x.kind # "ext" \/ x.n = 0 => x.first = x.serial
    <3>1. CASE x = m
      BY <1>3, <1>4, <1>6, <1>7, <3>1
    <3>2. CASE x \in Known
      BY <1>4, <1>10, <3>2, KnownType DEF OrderInv, SerialInv
    <3> QED
      BY <1>9, <2>2, <3>1, <3>2
  <2> QED
    BY <2>1, <2>2 DEF SerialInv
<1>12. QueueInv'
  <2> SUFFICES ASSUME NEW i \in 1..Len(tcpc'.rx_queue), NEW j \in 1..Len(tcpc'.rx_queue), i < j
               PROVE  \/ tcpc'.rx_queue[i].serial < tcpc'.rx_queue[j].serial
                      \/ Repeats /\ tcpc'.rx_queue[i] = tcpc'.rx_queue[j]
    BY DEF QueueInv
  <2>1. /\ Len(tcpc'.rx_queue) = Len(tcpc.rx_queue) + 1 /\ Len(tcpc.rx_queue) \in Nat
        /\ \A k \in 1..Len(tcpc.rx_queue) : tcpc'.rx_queue[k] = tcpc.rx_queue[k]
        /\ tcpc'.rx_queue[Len(tcpc.rx_queue) + 1] = m
    BY <1>3, <1>5, KnownType, QueuedAppend
  <2>2. i \in 1..Len(tcpc.rx_queue)
    BY <2>1
  <2>3. CASE j \in 1..Len(tcpc.rx_queue)
    BY <2>1, <2>2, <2>3 DEF OrderInv, QueueInv
  <2>4. CASE j = Len(tcpc.rx_queue) + 1
    <3>1. tcpc.rx_queue[i] \in Known
      BY <2>2 DEF Known, Coming, Queued
    <3> QED
      BY <1>6, <1>10, <2>1, <2>2, <2>4, <3>1
  <2> QED
    BY <2>1, <2>3, <2>4
<1>13. LastInv'
  BY <1>6, <1>9, <1>10 DEF LastInv, Known
<1>14. NewerInv'
  BY <1>5, <1>6, <1>9, <1>10 DEF OrderInv, NewerInv, Known
<1>15. HeardInv'
  BY <1>5 DEF OrderInv, HeardInv, Pending
<1>16. FirstInv'
  <2> SUFFICES ASSUME NEW c \in Known', c.kind = "ext", c.n = 0
               PROVE  /\ partner'.first >= c.serial
                      /\ \A x \in Known' : x.kind = "ext" /\ x.serial >= c.serial => x.first >= c.serial
    BY DEF FirstInv
  <2>1. CASE c = m
    BY <1>3, <1>4, <1>6, <1>9, <1>10, <2>1, KnownType
  <2>2. CASE c \in Known
    <3>1. partner.first >= c.serial
      BY <2>2 DEF OrderInv, FirstInv
    <3>2. partner'.first >= c.serial /\ m.first >= c.serial
      BY <1>3, <1>4, <1>7, <1>10, <2>2, <3>1, KnownType
    <3> QED
      BY <1>9, <2>2, <3>2 DEF OrderInv, FirstInv
  <2> QED
    BY <1>9, <2>1, <2>2
<1>17. BegunInv'
  <2> SUFFICES ASSUME Collects
               PROVE  LET f == buf.rx_emsg[1].first
                      IN  /\ pe.heard < f /\ f <= buf.rx_chunk.serial /\ partner'.first >= f
                          /\ \A x \in Known' : x.kind = "ext" /\ x.serial >= f => x.first >= f
    BY <1>5 DEF BegunInv, Collects
  <2> DEFINE f == buf.rx_emsg[1].first
  <2>1. /\ pe.heard < f /\ f <= buf.rx_chunk.serial /\ partner.first >= f
        /\ \A x \in Known : x.kind = "ext" /\ x.serial >= f => x.first >= f
    BY DEF OrderInv, BegunInv
  <2>2. f \in Nat
    BY FirstType
  <2> HIDE DEF f
  <2>3. partner'.first >= f /\ m.first >= f
    BY <1>3, <1>4, <1>7, <2>1, <2>2, KnownType
  <2>4. \A x \in Known' : x.kind = "ext" /\ x.serial >= f => x.first >= f
    BY <1>9, <2>1, <2>3
  <2> QED
    BY <2>1, <2>3, <2>4 DEF f
<1> QED
  BY <1>11, <1>12, <1>13, <1>14, <1>15, <1>16, <1>17 DEF OrderInv

LEMMA OrderRepeat ==
    ASSUME TypeInv, OrderInv, PartnerRepeats PROVE OrderInv'
<1> DEFINE m == partner.last
<1>1. /\ UNCHANGED <<prl, flags, num, buf, pe>>
      /\ tcpc'.rx_queue = Append(tcpc.rx_queue, m) /\ Repeats /\ m.kind # "none"
      /\ partner'.last = m /\ partner'.first = partner.first /\ partner'.sent = partner.sent + 1
  BY DEF PartnerRepeats, Receives, Repeats, TypeInv, Drivers, Partners
<1>2. m \in Repeatable /\ m \in Coming /\ m \in TheirChunks
  BY <1>1, KnownType DEF Repeatable, Coming
<1>3. \A x \in Queued' : x \in Queued \/ x = m
  BY <1>1, <1>2, KnownType, QueuedAppend DEF Queued
<1>4. Repeatable' = Repeatable /\ Coming' \subseteq Coming /\ Known' \subseteq Known
  BY <1>1, <1>2, <1>3 DEF Repeatable, Coming, Known
<1>5. SerialInv'
  <2>1. ASSUME NEW x \in Known
        PROVE  /\ x.first <= x.serial /\ x.serial <= partner.sent + 1
               /\ x.kind # "ext" \/ x.n = 0 => x.first = x.serial
    BY <2>1, KnownType DEF OrderInv, SerialInv
  <2>2. partner.first <= partner.sent + 1
    BY KnownType DEF OrderInv, SerialInv
  <2> QED
    BY <1>1, <1>4, <2>1, <2>2 DEF SerialInv
<1>6. QueueInv'
  <2> SUFFICES ASSUME NEW i \in 1..Len(tcpc'.rx_queue), NEW j \in 1..Len(tcpc'.rx_queue), i < j
               PROVE  \/ tcpc'.rx_queue[i].serial < tcpc'.rx_queue[j].serial
                      \/ Repeats /\ tcpc'.rx_queue[i] = tcpc'.rx_queue[j]
    BY DEF QueueInv
  <2>1. /\ Len(tcpc'.rx_queue) = Len(tcpc.rx_queue) + 1 /\ Len(tcpc.rx_queue) \in Nat
        /\ \A k \in 1..Len(tcpc.rx_queue) : tcpc'.rx_queue[k] = tcpc.rx_queue[k]
        /\ tcpc'.rx_queue[Len(tcpc.rx_queue) + 1] = m
    BY <1>1, <1>2, KnownType, QueuedAppend
  <2>2. i \in 1..Len(tcpc.rx_queue)
    BY <2>1
  <2>3. CASE j \in 1..Len(tcpc.rx_queue)
    BY <2>1, <2>2, <2>3 DEF OrderInv, QueueInv
  <2>4. CASE j = Len(tcpc.rx_queue) + 1
    <3>1. tcpc.rx_queue[i] \in Coming
      BY <2>2 DEF Coming, Queued
    <3> QED
      BY <1>1, <1>2, <2>1, <2>2, <2>4, <3>1 DEF OrderInv, LastInv
  <2> QED
    BY <2>1, <2>3, <2>4
<1>7. LastInv' /\ NewerInv'
  BY <1>1, <1>4 DEF OrderInv, LastInv, NewerInv
<1>8. HeardInv' /\ FirstInv' /\ BegunInv'
  BY <1>1, <1>4 DEF OrderInv, HeardInv, FirstInv, BegunInv, Pending, Collects
<1> QED
  BY <1>5, <1>6, <1>7, <1>8 DEF OrderInv

\* PRL_Rx takes a message that is newer than the one before, or drops it.
LEMMA OrderFetch ==
    ASSUME TypeInv, RouteInv, CalmInv, CollectInv, OrderInv,
           RxSoftReset \/ RxDrop \/ RxStore, UNCHANGED partner
    PROVE  OrderInv'
<1> DEFINE q == tcpc.rx_queue
           h == Head(q)
<1>1. /\ loop.at = "rx" /\ "RX_ENQUEUED" \notin flags /\ q # <<>> /\ pe' = pe
      /\ buf'.rx_chunk = h /\ buf'.rx_emsg = buf.rx_emsg /\ num'.rx = h.id
      /\ Collects' => Collects
  <2>1. loop.at = "rx" /\ "RX_ENQUEUED" \notin flags /\ q # <<>> /\ pe' = pe
    BY DEF RxSoftReset, RxDrop, RxStore, Fetch, At
  <2>2. buf'.rx_chunk = h /\ buf'.rx_emsg = buf.rx_emsg
    BY DEF RxSoftReset, RxDrop, RxStore, Fetch, TypeInv, Buffers
  <2>3. num'.rx = h.id
    <3>1. num \in Numbers
      BY DEF TypeInv
    <3>2. ASSUME NEW id PROVE /\ [num EXCEPT !.rx = id].rx = id
                              /\ [num EXCEPT !.tx = 0, !.rx = id, !.retry = 0].rx = id
      BY <3>1 DEF Numbers
    <3>3. \/ num' = [num EXCEPT !.rx = buf'.rx_chunk.id]
          \/ num' = [num EXCEPT !.tx = 0, !.rx = buf'.rx_chunk.id, !.retry = 0]
      BY DEF RxSoftReset, RxDrop, RxStore
    <3> QED
      BY <2>2, <3>2, <3>3
  <2>4. Collects' => Collects
    BY DEF RxSoftReset, RxDrop, RxStore, Ready, Collects, TypeInv, Layers
  <2> QED
    BY <2>1, <2>2, <2>3, <2>4
<1>2. ~Pending
  BY <1>1 DEF RouteInv, Pending
<1>3. /\ h = q[1] /\ 1 \in 1..Len(q) /\ h \in TheirChunks
      /\ Len(tcpc'.rx_queue) = Len(q) - 1 /\ Len(q) \in Nat
      /\ \A i \in 1..Len(tcpc'.rx_queue) :
           tcpc'.rx_queue[i] = q[i + 1] /\ i + 1 \in 2..Len(q) /\ i + 1 \in 1..Len(q)
  <2>1. tcpc'.rx_queue = Tail(q)
    BY DEF RxSoftReset, RxDrop, RxStore, Popped, TypeInv, Drivers
  <2>2. /\ h = q[1] /\ h \in TheirChunks /\ Len(q) \in Nat \ {0}
        /\ Tail(q) \in Seq(TheirChunks) /\ Len(Tail(q)) = Len(q) - 1
        /\ \A i \in 1..Len(Tail(q)) : Tail(q)[i] = q[i + 1] /\ i + 1 \in 1..Len(q)
    BY <1>1, KnownType, QueuedTail
  <2>3. 1 \in 1..Len(q) /\ \A i \in 1..(Len(q) - 1) : i + 1 \in 2..Len(q)
    BY <2>2
  <2> HIDE DEF q, h
  <2> QED
    BY <2>1, <2>2, <2>3
<1>4. h \in Coming /\ h \in Known
  BY <1>3 DEF Coming, Known, Queued
<1>5. \A x \in Queued' : \E j \in 2..Len(q) : x = q[j] /\ j \in 1..Len(q)
  BY <1>3 DEF Queued
<1>6. Repeatable' = Repeatable /\ Coming' \subseteq Coming /\ Known' \subseteq Known
  BY <1>1, <1>4, <1>5 DEF Repeatable, Coming, Known, Queued
<1>7. /\ h.serial \in Nat /\ buf.rx_chunk.serial \in Nat /\ pe.heard \in Nat
      /\ pe.heard <= buf.rx_chunk.serial /\ buf.rx_chunk.serial <= h.serial
      /\ buf.rx_chunk.serial < h.serial \/ (Repeats /\ h.id = num.rx)
  BY <1>3, <1>4, KnownType DEF OrderInv, NewerInv, HeardInv
<1>8. SerialInv' /\ FirstInv'
  BY <1>6 DEF OrderInv, SerialInv, FirstInv
<1>9. QueueInv'
  <2> SUFFICES ASSUME NEW i \in 1..Len(tcpc'.rx_queue), NEW j \in 1..Len(tcpc'.rx_queue), i < j
               PROVE  \/ tcpc'.rx_queue[i].serial < tcpc'.rx_queue[j].serial
                      \/ Repeats /\ tcpc'.rx_queue[i] = tcpc'.rx_queue[j]
    BY DEF QueueInv
  <2>1. /\ tcpc'.rx_queue[i] = q[i + 1] /\ tcpc'.rx_queue[j] = q[j + 1]
        /\ i + 1 \in 1..Len(q) /\ j + 1 \in 1..Len(q) /\ i + 1 < j + 1
    BY <1>3
  <2> QED
    BY <2>1 DEF OrderInv, QueueInv
<1>10. LastInv'
  BY <1>6 DEF OrderInv, LastInv
<1>11. NewerInv'
  <2> SUFFICES ASSUME NEW x \in Coming'
               PROVE  h.serial < x.serial \/ (Repeats /\ x.serial = h.serial /\ x.id = h.id)
    BY <1>1 DEF NewerInv
  <2>1. CASE x \in Queued'
    <3>1. PICK j \in 2..Len(q) : x = q[j] /\ j \in 1..Len(q)
      BY <1>5, <2>1
    <3>2. 1 < j
      OBVIOUS
    <3> QED
      BY <1>3, <3>1, <3>2 DEF OrderInv, QueueInv
  <2>2. CASE x \in Repeatable
    BY <1>4, <2>2 DEF OrderInv, LastInv, Repeatable
  <2> QED
    BY <1>6, <2>1, <2>2 DEF Coming
<1>12. HeardInv'
  <2>1. pe.heard <= h.serial
    BY <1>7
  <2>2. CASE RxDrop
    BY <1>1, <1>2, <2>1, <2>2 DEF RxDrop, OrderInv, HeardInv, Pending
  <2>3. CASE RxStore
    <3>1. h.id # num.rx
      BY <1>1, <2>3 DEF RxStore, Repetition
    <3> QED
      BY <1>1, <1>7, <2>1, <3>1 DEF OrderInv, HeardInv
  <2>4. CASE RxSoftReset
    <3>1. h \in Queued /\ h.kind = "soft"
      BY <1>1, <1>3, <2>4 DEF RxSoftReset, Queued
    <3>2. ~Repeats
      BY <3>1 DEF CalmInv
    <3> QED
      BY <1>1, <1>7, <2>1, <3>2 DEF OrderInv, HeardInv
  <2> QED
    BY <2>2, <2>3, <2>4
<1>13. BegunInv'
  <2> SUFFICES ASSUME Collects
               PROVE  LET f == buf'.rx_emsg[1].first
                      IN  /\ pe'.heard < f /\ f <= buf'.rx_chunk.serial /\ partner'.first >= f
                          /\ \A x \in Known' : x.kind = "ext" /\ x.serial >= f => x.first >= f
    BY <1>1 DEF BegunInv, Collects
  <2> DEFINE f == buf.rx_emsg[1].first
  <2>1. /\ pe.heard < f /\ f <= buf.rx_chunk.serial /\ partner.first >= f
        /\ \A x \in Known : x.kind = "ext" /\ x.serial >= f => x.first >= f
    BY DEF OrderInv, BegunInv
  <2>2. f \in Nat
    BY FirstType
  <2> HIDE DEF f
  <2>3. f <= h.serial
    BY <1>7, <2>1, <2>2
  <2>4. \A x \in Known' : x.kind = "ext" /\ x.serial >= f => x.first >= f
    BY <1>6, <2>1
  <2> QED
    BY <1>1, <2>1, <2>3, <2>4 DEF f
<1> QED
  BY <1>8, <1>9, <1>10, <1>11, <1>12, <1>13 DEF OrderInv

LEMMA OrderRx ==
    ASSUME TypeInv, RouteInv, CalmInv, CollectInv, OrderInv, Rx, UNCHANGED partner
    PROVE  OrderInv'
<1>1. CASE RxPostpone \/ RxEmpty
  <2>1. UNCHANGED <<prl, flags, num, buf, tcpc, pe>>
    BY <1>1 DEF RxPostpone, RxEmpty, Pass
  <2>2. Pending' = Pending /\ Collects' = Collects /\ Coming' = Coming
    BY <2>1 DEF Pending, Collects, Coming, Queued, Repeatable
  <2> QED
    BY <2>1, <2>2, OrderKept
<1> QED
  BY <1>1, OrderFetch DEF Rx

\* PE hears a message, and nothing is under way to it any more.
LEMMA OrderHears ==
    ASSUME TypeInv, OrderInv, UNCHANGED partner, tcpc' = tcpc,
           num'.rx = num.rx, buf'.rx_chunk = buf.rx_chunk,
           pe.heard < buf.rx_chunk.first,
           pe'.heard = buf.rx_chunk.first,
           pe'.again = (pe.again \/ buf.rx_chunk.first <= pe.heard),
           ~Pending', ~Collects'
    PROVE  OrderInv'
<1>1. Repeatable' = Repeatable /\ Coming' = Coming /\ Known' = Known
  BY DEF Repeatable, Queued, Coming, Known
<1>2. SerialInv' /\ QueueInv' /\ LastInv' /\ NewerInv' /\ FirstInv'
  BY <1>1 DEF OrderInv, SerialInv, QueueInv, LastInv, NewerInv, FirstInv
<1>3. HeardInv'
  <2>1. pe'.heard <= buf'.rx_chunk.serial
    BY DEF OrderInv, SerialInv, Known
  <2>2. ~pe'.again
    <3>1. ~(buf.rx_chunk.first <= pe.heard)
      BY KnownType
    <3> QED
      BY <3>1 DEF OrderInv, HeardInv
  <2> QED
    BY <2>1, <2>2 DEF HeardInv
<1>4. BegunInv'
  BY DEF BegunInv
<1> QED
  BY <1>2, <1>3, <1>4 DEF OrderInv

\* PE hears of an error only.
LEMMA ErrorHeard ==
    ASSUME TypeInv, NEW f, RchReportError(f), "RX_ENQUEUED" \notin f
    PROVE  pe'.heard = pe.heard /\ pe'.again = pe.again /\ prl'.rch = "Wait"
  BY DEF RchReportError, HearsError, Restarted, TypeInv, Layers, Engines

\* A message that is passed up belongs to a later one than PE has heard.
LEMMA OrderExtended ==
    ASSUME TypeInv, RouteInv, OrderInv, UNCHANGED partner, Rch,
           "RX_ENQUEUED" \in flags,
           NEW s \in Seq(TheirChunks), NEW x \in 0..(NChunks - 1), Len(s) = x,
           ProcessExtended(s, x),
           \/ s = <<>>
           \/ Collects /\ s = buf.rx_emsg /\ Len(s) > 0 /\ buf.rx_emsg[1].first \in Nat
    PROVE  OrderInv'
<1> DEFINE c == buf.rx_chunk
<1>1. /\ tcpc' = tcpc /\ buf'.rx_chunk = c /\ num'.rx = num.rx
      /\ ~Pending'
  BY FrameRch DEF ProcessExtended, RchReportError, PassUp, EnqueueChunk, Pending, RouteInv,
                  TxFlags, Outputs
<1>2. /\ pe.heard < c.serial /\ pe.heard \in Nat /\ c \in Known /\ c \in TheirChunks
      /\ c.serial \in Nat /\ c.first \in Nat
      /\ c.first <= c.serial /\ (c.kind # "ext" \/ c.n = 0 => c.first = c.serial)
  BY KnownType DEF OrderInv, SerialInv, HeardInv, Pending, Known
<1>3. CASE UnexpectedChunk(c, x)
  <2>1. RchReportError(flags \ {"RX_ENQUEUED"})
    BY <1>3 DEF ProcessExtended
  <2>2. pe'.heard = pe.heard /\ pe'.again = pe.again /\ prl'.rch = "Wait"
    BY <2>1, ErrorHeard
  <2> QED
    BY <1>1, <2>2, OrderKept DEF Collects
<1>4. CASE ~UnexpectedChunk(c, x)
  <2>1. c.kind = "ext" /\ c.n = x
    BY <1>4 DEF UnexpectedChunk
  <2>2. CASE s = <<>>
    <3>1. c.n = 0 /\ c.first = c.serial
      BY <1>2, <2>1, <2>2
    <3>2. CASE x + 1 >= NChunks
      <4>1. PassUp(Append(s, c), flags \ {"RX_ENQUEUED"})
        BY <1>4, <3>2 DEF ProcessExtended
      <4>2. /\ pe'.heard = c.first /\ pe'.again = (pe.again \/ c.first <= pe.heard)
            /\ prl'.rch = "Wait"
        BY <4>1 DEF PassUp, HearsMessage, TypeInv, Layers, Engines
      <4> QED
        BY <1>1, <1>2, <3>1, <4>2, OrderHears DEF Collects
    <3>3. CASE ~(x + 1 >= NChunks)
      <4>1. pe' = pe /\ buf'.rx_emsg = Append(s, c)
        BY <1>4, <3>3 DEF ProcessExtended, TypeInv, Buffers
      <4>2. buf'.rx_emsg[1] = c
        BY <1>2, <2>2, <4>1, QueuedAppend
      <4>3. Repeatable' = Repeatable /\ Coming' = Coming /\ Known' = Known
        BY <1>1 DEF Repeatable, Queued, Coming, Known
      <4>4. SerialInv' /\ QueueInv' /\ LastInv' /\ NewerInv' /\ FirstInv'
        BY <1>1, <4>3 DEF OrderInv, SerialInv, QueueInv, LastInv, NewerInv, FirstInv
      <4>5. HeardInv'
        BY <1>1, <4>1 DEF OrderInv, HeardInv
      <4>6. /\ partner.first >= c.serial
            /\ \A m \in Known : m.kind = "ext" /\ m.serial >= c.serial => m.first >= c.serial
        BY <1>2, <2>1, <3>1 DEF OrderInv, FirstInv
      <4>7. BegunInv'
        BY <1>1, <1>2, <3>1, <4>1, <4>2, <4>3, <4>6 DEF BegunInv
      <4> QED
        BY <4>4, <4>5, <4>7 DEF OrderInv
    <3> QED
      BY <3>2, <3>3
  <2>3. CASE Collects /\ s = buf.rx_emsg /\ Len(s) > 0 /\ buf.rx_emsg[1].first \in Nat
    <3> DEFINE f == buf.rx_emsg[1].first
    <3>1. /\ f \in Nat /\ pe.heard < f /\ f <= c.serial /\ partner.first >= f
          /\ \A m \in Known : m.kind = "ext" /\ m.serial >= f => m.first >= f
      BY <2>3 DEF OrderInv, BegunInv
    <3> HIDE DEF f
    <3>2. pe.heard < c.first
      BY <1>2, <2>1, <3>1
    <3>3. CASE x + 1 >= NChunks
      <4>1. PassUp(Append(s, c), flags \ {"RX_ENQUEUED"})
        BY <1>4, <3>3 DEF ProcessExtended
      <4>2. /\ pe'.heard = c.first /\ pe'.again = (pe.again \/ c.first <= pe.heard)
            /\ prl'.rch = "Wait"
        BY <4>1 DEF PassUp, HearsMessage, TypeInv, Layers, Engines
      <4> QED
        BY <1>1, <3>2, <4>2, OrderHears DEF Collects
    <3>4. CASE ~(x + 1 >= NChunks)
      <4>1. pe' = pe /\ buf'.rx_emsg = Append(s, c)
        BY <1>4, <3>4 DEF ProcessExtended, TypeInv, Buffers
      <4>2. buf'.rx_emsg[1].first = f
        <5>1. Append(s, c)[1] = s[1]
          BY <1>2, <2>3, QueuedAppend
        <5> QED
          BY <2>3, <4>1, <5>1 DEF f
      <4>3. Repeatable' = Repeatable /\ Coming' = Coming /\ Known' = Known
        BY <1>1 DEF Repeatable, Queued, Coming, Known
      <4>4. SerialInv' /\ QueueInv' /\ LastInv' /\ NewerInv' /\ FirstInv'
        BY <1>1, <4>3 DEF OrderInv, SerialInv, QueueInv, LastInv, NewerInv, FirstInv
      <4>5. HeardInv'
        BY <1>1, <4>1 DEF OrderInv, HeardInv
      <4>6. BegunInv'
        BY <1>1, <3>1, <4>1, <4>2, <4>3 DEF BegunInv
      <4> QED
        BY <4>4, <4>5, <4>6 DEF OrderInv
    <3> QED
      BY <3>3, <3>4
  <2> QED
    BY <2>2, <2>3
<1> QED
  BY <1>3, <1>4

LEMMA OrderRch ==
    ASSUME TypeInv, RouteInv, AskInv, CollectInv, OrderInv, Rch \/ RchTimeout, UNCHANGED partner
    PROVE  OrderInv'
<1>1. /\ tcpc' = tcpc /\ buf'.rx_chunk = buf.rx_chunk /\ num'.rx = num.rx
      /\ Pending' => Pending
  BY FrameRch DEF Pending, TxFlags
<1>2. CASE RchIdle \/ RchRequesting \/ RchRequested
  <2>1. /\ UNCHANGED <<buf, pe>>
        /\ Collects' => Collects
    BY <1>2 DEF RchIdle, RchRequesting, RchRequested, RchAsks, Pass, Collects
  <2> QED
    BY <1>1, <2>1, OrderKept
<1>3. CASE RchRequestFailed \/ RchTimeout
  <2>1. \E f : RchReportError(f) /\ "RX_ENQUEUED" \notin f
    BY <1>3 DEF RchRequestFailed, RchAsks, RchTimeout, AskInv, Outputs
  <2>2. pe'.heard = pe.heard /\ pe'.again = pe.again /\ prl'.rch = "Wait"
    BY <2>1, ErrorHeard
  <2> QED
    BY <1>1, <2>2, OrderKept DEF Collects
<1>4. CASE RchPlain \/ RchInterrupted
  <2>1. /\ "RX_ENQUEUED" \in flags /\ buf.rx_chunk.kind # "ext"
        /\ PassUp(<<buf.rx_chunk>>, flags \ {"RX_ENQUEUED"}) \/ RchReportError(flags)
    BY <1>4 DEF RchPlain, RchInterrupted, RchTakes
  <2>2. /\ pe'.heard = buf.rx_chunk.first /\ prl'.rch = "Wait" /\ "RX_ENQUEUED" \notin flags'
        /\ pe'.again = (pe.again \/ buf.rx_chunk.first <= pe.heard)
    <3>1. pe \in Engines /\ HearsMessage(pe, buf.rx_chunk) \in Engines
      BY HearsMessageType DEF TypeInv, Buffers
    <3>2. /\ HearsMessage(pe, buf.rx_chunk).heard = buf.rx_chunk.first
          /\ HearsMessage(pe, buf.rx_chunk).again = (pe.again \/ buf.rx_chunk.first <= pe.heard)
      BY <3>1 DEF HearsMessage, Engines
    <3>3. CASE PassUp(<<buf.rx_chunk>>, flags \ {"RX_ENQUEUED"})
      BY <3>2, <3>3 DEF PassUp, TypeInv, Layers
    <3>4. CASE RchReportError(flags)
      <4>1. PICK r : /\ pe' = HearsError(HearsMessage(pe, buf.rx_chunk), r)
                     /\ prl' = Restarted([prl EXCEPT !.rch = "Wait"], r)
                     /\ flags' = flags \ {"RX_ENQUEUED"}
        BY <2>1, <3>4 DEF RchReportError
      <4>2. prl'.rch = "Wait"
        BY <4>1 DEF Restarted, TypeInv, Layers
      <4>3. /\ pe'.heard = HearsMessage(pe, buf.rx_chunk).heard
            /\ pe'.again = HearsMessage(pe, buf.rx_chunk).again
        BY <3>1, <4>1 DEF HearsError, Engines
      <4> QED
        BY <3>2, <4>1, <4>2, <4>3
    <3> QED
      BY <2>1, <3>3, <3>4
  <2>3. ~Pending'
    BY <2>1, <2>2, FrameRch DEF Pending, RouteInv, TxFlags
  <2>4. pe.heard < buf.rx_chunk.first
    BY <2>1 DEF OrderInv, SerialInv, HeardInv, Pending, Known
  <2> QED
    BY <1>1, <2>2, <2>3, <2>4, OrderHears DEF Collects
<1>5. CASE RchFirstChunk
  <2>1. /\ ProcessExtended(<<>>, 0) /\ <<>> \in Seq(TheirChunks) /\ 0 \in 0..(NChunks - 1)
        /\ "RX_ENQUEUED" \in flags /\ Len(<<>>) = 0
    BY <1>5, EmptySeq, Sizes DEF RchFirstChunk, RchTakes
  <2> QED
    BY <1>5, <2>1, OrderExtended DEF Rch
<1>6. CASE RchNextChunk
  <2>1. /\ ProcessExtended(buf.rx_emsg, num.rch) /\ prl.rch = "Waiting" /\ "RX_ENQUEUED" \in flags
    BY <1>6 DEF RchNextChunk, RchTakes
  <2>2. Collects
    BY <2>1 DEF Collects
  <2>3. /\ buf.rx_emsg \in Seq(TheirChunks) /\ num.rch \in 0..(NChunks - 1)
        /\ Len(buf.rx_emsg) = num.rch /\ Len(buf.rx_emsg) > 0 /\ buf.rx_emsg[1].first \in Nat
    BY <2>1, <2>2, FirstType, Sizes DEF TypeInv, ChunkInv, CollectInv, Buffers, Numbers
  <2>4. Rch
    BY <1>6 DEF Rch
  <2> DEFINE s == buf.rx_emsg
             x == num.rch
  <2>5. /\ s \in Seq(TheirChunks) /\ x \in 0..(NChunks - 1) /\ Len(s) = x /\ ProcessExtended(s, x)
        /\ Collects /\ s = buf.rx_emsg /\ Len(s) > 0 /\ buf.rx_emsg[1].first \in Nat
    BY <2>1, <2>2, <2>3
  <2> HIDE DEF s, x
  <2> QED
    BY <2>1, <2>4, <2>5, OrderExtended
<1> QED
  BY <1>2, <1>3, <1>4, <1>5, <1>6 DEF Rch

\* TCH hands over to RCH only what PRL_Rx has routed to it.
LEMMA TchHandsOver ==
    ASSUME TypeInv, Tch \/ TchTimeout, Pending' PROVE Pending
<1> SUFFICES ASSUME ~Pending PROVE FALSE
  OBVIOUS
<1>1. "CHUNK_FROM_RX" \notin flags /\ "RX_ENQUEUED" \notin flags
  BY DEF Pending
<1>2. ASSUME NEW p, NEW f, NEW r, TchEnd(p, f, r), f \subseteq flags PROVE FALSE
  BY <1>1, <1>2 DEF TchEnd, Pending
<1>3. ASSUME NEW n, NEW f, SendChunk(n, f), f \subseteq flags PROVE FALSE
  BY <1>1, <1>3 DEF SendChunk, EnqueueChunk, Pending
<1>4. ~(TchHandOver \/ TchInterrupted \/ TchAborted)
  BY <1>1 DEF TchHandOver, TchInterrupted, TchAborted, TchAnswered
<1>5. ~(TchMessageSent \/ TchLastChunkSent \/ TchFailed \/ TchWrongRequest \/ TchTimeout)
  BY <1>2
  DEF TchMessageSent, TchLastChunkSent, TchFailed, TchWrongRequest, TchTimeout, TchSent, TchReportError
<1>6. ~(TchSendFirst \/ TchSendNext)
  BY <1>3 DEF TchSendFirst, TchSendNext
<1>7. ~(TchIdle \/ TchTransmitting \/ TchAwaitRequest \/ TchAwaitTx \/ TchRefuse \/ TchOneChunkSent)
  BY <1>1 DEF TchIdle, TchTransmitting, TchAwaitRequest, TchAwaitTx, TchRefuse, TchOneChunkSent,
              Pass, Pending
<1> QED
  BY <1>4, <1>5, <1>6, <1>7 DEF Tch

\* PRL_Tx forgets the latest id only before a Soft_Reset of ours.
LEMMA OrderTx ==
    ASSUME TypeInv, CalmInv, OrderInv, Tx, UNCHANGED partner PROVE OrderInv'
<1>1. num'.rx = num.rx \/ buf.tx_chunk.kind = "soft"
  BY DEF Tx, TxSkip, TxHeld, TxStartOfAms, TxTakeChunk, TxNothing, TxSnkStart, TxSnkPending,
         TxSnkWait, TxPollCc, TxSent, TxGiveUp, TxRetry, TxWaitPhy, TxDiscard,
         TxDiscardNothing, TxFailed, Discard, DiscardedId, NextId, Pass, SnkStart, AskSinkTx,
         ConstructEnqueued, Construct, TxOutcome, TypeInv, Numbers
<1>2. num'.rx = num.rx \/ ~Repeats
  BY <1>1 DEF CalmInv
<1>3. /\ Pending' => Pending
      /\ Collects' => Collects
  BY FrameTx DEF Pending, Collects, TxFlags
<1> QED
  BY <1>2, <1>3, FrameTx, OrderKept

LEMMA OrderHr ==
    ASSUME TypeInv, CalmInv, OrderInv, InitLayer \/ Disable \/ Hr, UNCHANGED partner
    PROVE  OrderInv'
<1>1. /\ buf' = buf /\ pe'.heard = pe.heard /\ pe'.again = pe.again
      /\ tcpc'.rx_queue = tcpc.rx_queue
      /\ flags' \subseteq flags
      /\ prl'.rch \in {prl.rch, "Wait"}
  <2>1. CASE InitLayer
    BY <2>1 DEF InitLayer, ClearedFlags, Ready, TypeInv, Layers, Drivers
  <2>2. CASE Disable \/ Hr
    <3>1. buf' = buf /\ flags' = flags
      BY <2>2 DEF Disable, Hr, HrIdle, HrWait, HrResetLayer, HrIndicate, HrRequest, HrRequested,
                  HrSent
    <3>2. pe'.heard = pe.heard /\ pe'.again = pe.again
      BY <2>2 DEF Disable, Hr, HrIdle, HrWait, HrResetLayer, HrIndicate, HrRequest, HrRequested,
                  HrSent, HearsHardResetSent, TypeInv, Engines
    <3>3. tcpc'.rx_queue = tcpc.rx_queue
      BY <2>2 DEF Disable, Hr, HrIdle, HrWait, HrResetLayer, HrIndicate, HrRequest, HrRequested,
                  HrSent, TypeInv, Drivers
    <3>4. prl'.rch = prl.rch
      BY <2>2 DEF Disable, Hr, HrIdle, HrWait, HrResetLayer, HrIndicate, HrRequest, HrRequested,
                  HrSent, TypeInv, Layers
    <3> QED
      BY <3>1, <3>2, <3>3, <3>4
  <2> QED
    BY <2>1, <2>2
<1>2. num'.rx = num.rx \/ ~Repeats \/ Coming' = {}
  <2>1. CASE InitLayer
    <3>1. Coming' = Coming
      BY <1>1 DEF Coming, Queued, Repeatable
    <3>2. prl.local # "WORKING"
      BY <2>1 DEF InitLayer
    <3> QED
      BY <3>1, <3>2 DEF CalmInv
  <2>2. CASE Disable \/ Hr
    BY <2>2 DEF Disable, Hr, HrIdle, HrWait, HrResetLayer, HrIndicate, HrRequest, HrRequested, HrSent
  <2> QED
    BY <2>1, <2>2
<1> QED
  BY <1>1, <1>2, OrderKept DEF Pending, Collects

LEMMA OrderStep ==
    ASSUME TypeInv, TurnInv, RouteInv, AskInv, CollectInv, CalmInv, OrderInv, [Next]_sysVars
    PROVE  OrderInv'
<1>1. CASE UNCHANGED sysVars
  <2>1. Pending' = Pending /\ Collects' = Collects
    BY <1>1 DEF sysVars, vars, Pending, Collects
  <2> QED
    BY <1>1, <2>1, OrderKept DEF sysVars, vars
<1>2. CASE TickStart \/ Cable
  <2>1. /\ UNCHANGED <<prl, flags, num, buf, tcpc, pe>>
        /\ partner'.last \in {partner.last, NoMsg} /\ partner'.first = partner.first
        /\ partner'.sent = partner.sent
    BY <1>2 DEF TickStart, Cable, PartnerReset, TypeInv, Partners
  <2>2. Pending' = Pending /\ Collects' = Collects
    BY <2>1 DEF Pending, Collects
  <2> QED
    BY <2>1, <2>2, OrderKept
<1>3. CASE Pe
  <2>1. /\ Pending' => Pending
        /\ Collects' => Collects
    BY <1>3, FramePe DEF Pending, Collects
  <2> QED
    BY <1>3, <2>1, FramePe, OrderKept
<1>4. CASE (Tch \/ TchTimeout) /\ UNCHANGED partner
  <2>1. /\ Pending' => Pending
        /\ Collects' => Collects
    BY <1>4, TchHandsOver, FrameTch DEF Collects
  <2> QED
    BY <1>4, <2>1, FrameTch, OrderKept
<1>5. CASE Driver \/ TxFails \/ MeasureCc \/ PartnerHears \/ PartnerHardReset
  <2>1. /\ UNCHANGED <<prl, num, buf, pe>>
        /\ Pending' => Pending
        /\ Collects' => Collects
    BY <1>5, FrameOutside DEF Partner, Pending, Collects
  <2> QED
    BY <1>5, <2>1, ComingOutside, OrderKept
<1> QED
  BY <1>1, <1>2, <1>3, <1>4, <1>5, OrderHr, OrderTx, OrderRx, OrderRch, OrderSend, OrderRepeat
  DEF Next, Tick, PrlStep, PrlNext, Timeouts, Partner

LEMMA OrderInit == ASSUME Init PROVE CalmInv /\ OrderInv
<1>1. Queued = {} /\ Repeatable = {}
  BY DEF Init, Queued, Repeatable, NoMsg
<1>2. /\ buf.rx_chunk = NoMsg /\ partner.first = 0 /\ partner.sent = 0 /\ pe.heard = 0 /\ ~pe.again
      /\ flags = {} /\ prl.rch = "none" /\ tcpc.rx_queue = <<>>
  BY DEF Init
<1>3. CalmInv
  BY <1>1 DEF Init, CalmInv, Coming, NoChunk, NoMsg
<1>4. OrderInv
  BY <1>1, <1>2 DEF OrderInv, SerialInv, QueueInv, LastInv, NewerInv, HeardInv, FirstInv, BegunInv,
                    Coming, Known, Pending, Collects, NoMsg
<1> QED
  BY <1>3, <1>4

\* Messages reach PE in the order the partner sent them, none of them twice, however
\* often it repeats one; as long as, if it does, the layer never forgets the latest id.
THEOREM InOrder == HardResetsEnd /\ RepeatsAreKnown /\ Spec => []MessagesInOrder
<1> SUFFICES ASSUME HardResetsEnd, RepeatsAreKnown PROVE Spec => []MessagesInOrder
  OBVIOUS
<1> DEFINE IInv == /\ TypeInv /\ OwnerInv /\ ResetInv /\ TurnInv /\ RouteInv
                   /\ AskInv /\ CollectInv /\ CalmInv /\ OrderInv
<1>1. Init => IInv
  BY TypeInit, OwnerInit, RouteInit, OrderInit DEF Init, AskInv, CollectInv
<1>2. IInv /\ [Next]_sysVars => IInv'
  BY TypeStep, OwnerStep, ResetStep, TurnStep, RouteStep, AskStep, CollectStep, CalmStep, OrderStep
<1>3. IInv => MessagesInOrder
  BY DEF OrderInv, HeardInv, MessagesInOrder
<1> HIDE DEF IInv
<1> QED
  BY <1>1, <1>2, <1>3, PTL DEF Spec

-----------------------------------------------------------------------------
(* Who is at work, and what a turn of each machine does to the others.  The  *)
(* machines share flags: a message of PE enqueued, a chunk for TCH or for    *)
(* RCH, a chunk enqueued with PRL_Tx, and what PRL_Tx tells of it.           *)

Enqueued == "MSG_FROM_PE_ENQUEUED" \in flags
ForTch == "CHUNK_FROM_RX" \in flags
ForRch == "RX_ENQUEUED" \in flags
Chunk == "TX_CHUNK_ENQUEUED" \in flags
Told == flags \cap Outputs # {}

\* The machines' states are to be relied on: in their turns, and between two ticks
\* unless the layer waits for a start or for the end of a hard reset.
Live == \/ loop.at \notin {"rest", "pe", "prl"}
        \/ prl.local = "WORKING" /\ prl.hr = "IDLE"

\* A turn keeps these of the machines' flags.
Keeps(fs) == \A f \in fs : f \in flags' <=> f \in flags

TxRests ==
    /\ prl'.tx = prl.tx /\ status' = status /\ tcpc'.rx_enable = tcpc.rx_enable
    /\ Keeps(Outputs \cup {"TX_CHUNK_ENQUEUED"}) /\ pe' = pe /\ loop'.event = loop.event
    /\ loop.at = "tx0" => status # "SUCCEEDED"
    /\ loop.at = "tx1" =>
         /\ prl.tx = "Wait_Request" => tcpc.rx_enable # "idle" \/ ~Chunk
         /\ prl.tx # "Discard" /\ (prl.tx = "Snk_Start" => ~Chunk)
         /\ prl.tx = "Wait_PHY" => status \notin {"SUCCEEDED", "FAILED"}

TxMoves ==
    /\ prl.tx \in {"Wait_Request", "Snk_Start", "Snk_Pending", "Wait_PHY"}
    /\ prl.tx = "Wait_Request" => tcpc.rx_enable = "idle"
    /\ prl.tx = "Wait_PHY" => status = "FAILED"
    /\ tcpc'.rx_enable = tcpc.rx_enable /\ pe' = pe /\ loop'.event = loop.event
    /\ \/ /\ prl'.tx = "Snk_Start" /\ prl.tx \in {"Wait_Request", "Snk_Start"} /\ ~Chunk
          /\ Keeps(Outputs \cup {"TX_CHUNK_ENQUEUED"}) /\ status' = status
       \/ /\ prl'.tx = "Snk_Pending" /\ prl.tx \in {"Wait_Request", "Snk_Start"} /\ Chunk
          /\ Keeps(Outputs \cup {"TX_CHUNK_ENQUEUED"}) /\ status' = status
       \/ /\ prl'.tx = "Wait_PHY" /\ (Chunk \/ prl.tx \in {"Snk_Pending", "Wait_PHY"})
          /\ ~Chunk' /\ ~Told' /\ status' = "ENQUEUED"

TxEnds ==
    /\ prl.tx = "Wait_PHY" /\ status \in {"SUCCEEDED", "FAILED"}
    /\ prl'.tx = "Wait_Request" /\ status' = "UNSET" /\ tcpc'.rx_enable = tcpc.rx_enable
    /\ Keeps({"TX_CHUNK_ENQUEUED"}) /\ Told' /\ pe' = pe /\ loop'.event

TxDiscards ==
    /\ prl.tx = "Discard" /\ prl'.tx = "Wait_Request" /\ status' = "UNSET"
    /\ tcpc'.rx_enable = "on" /\ Keeps(Outputs) /\ ~Chunk'
    /\ \/ ChunkInProgress /\ pe' = HearsDiscard(pe) /\ loop'.event
       \/ ~ChunkInProgress /\ pe' = pe /\ loop'.event = loop.event

LEMMA TxCases ==
    ASSUME TypeInv, TurnInv, Tx PROVE TxRests \/ TxMoves \/ TxEnds \/ TxDiscards
<1>0. /\ prl.hr = "IDLE" /\ prl.tx # "none" /\ loop \in Loops /\ prl \in Layers /\ tcpc \in Drivers
      /\ status = "SUCCEEDED" => prl.tx \in {"Wait_PHY", "Discard"}
  BY FrameTx DEF TurnInv, TypeInv
<1>1. CASE TxSkip
  BY <1>0, <1>1 DEF TxSkip, Pass, Advance, At, TxRests, Keeps, Loops
<1>2. CASE TxHeld \/ TxSnkWait \/ TxWaitPhy
  BY <1>0, <1>2 DEF TxHeld, TxSnkWait, TxWaitPhy, Pass, Advance, TxRests, Keeps, Loops
<1>3. CASE TxPollCc
  BY <1>0, <1>3 DEF TxPollCc, Advance, TxRests, Keeps, Drivers, Loops
<1>4. CASE TxNothing
  BY <1>0, <1>4 DEF TxNothing, TxReady, AmsMarked, Advance, TxRests, Keeps, Outputs, Chunk, Loops
<1>5. ASSUME NEW n, NEW f, Construct(n, f)
      PROVE  /\ prl'.tx = "Wait_PHY" /\ ~Chunk' /\ ~Told' /\ status' = "ENQUEUED"
             /\ tcpc'.rx_enable = tcpc.rx_enable /\ pe' = pe /\ loop'.event = loop.event
  BY <1>0, <1>5 DEF Construct, Advance, Chunk, Told, Layers, Drivers, Loops
<1>6. ASSUME NEW f, AskSinkTx(f)
      PROVE  /\ prl'.tx = "Snk_Pending" /\ flags' = f /\ status' = status
             /\ tcpc'.rx_enable = tcpc.rx_enable /\ pe' = pe /\ loop'.event = loop.event
  BY <1>0, <1>6 DEF AskSinkTx, Advance, Layers, Drivers, Loops
<1>7. ASSUME NEW f, SnkStart(f), f \in {flags, AmsMarked},
             prl.tx \in {"Wait_Request", "Snk_Start"},
             prl.tx = "Wait_Request" => tcpc.rx_enable = "idle"
      PROVE  TxMoves
  <2>1. \A g \in Outputs \cup {"TX_CHUNK_ENQUEUED"} : g \in f <=> g \in flags
    BY <1>7 DEF AmsMarked, Outputs
  <2>2. CASE "TX_CHUNK_ENQUEUED" \notin f
    <3>1. /\ prl'.tx = "Snk_Start" /\ flags' = f /\ status' = status /\ pe' = pe
          /\ tcpc' = tcpc /\ loop'.event = loop.event
      BY <1>0, <1>7, <2>2 DEF SnkStart, Advance, Layers, Loops
    <3> QED
      BY <1>7, <2>1, <2>2, <3>1 DEF TxMoves, Keeps, Chunk
  <2>3. CASE "TX_CHUNK_ENQUEUED" \in f
    <3>1. Chunk
      BY <2>1, <2>3 DEF Chunk
    <3>2. ConstructEnqueued(f) \/ AskSinkTx(f)
      BY <1>7, <2>3 DEF SnkStart
    <3>3. CASE ConstructEnqueued(f)
      BY <1>5, <1>7, <3>1, <3>3 DEF ConstructEnqueued, TxMoves
    <3>4. CASE AskSinkTx(f)
      BY <1>6, <1>7, <2>1, <3>1, <3>4 DEF TxMoves, Keeps
    <3> QED
      BY <3>2, <3>3, <3>4
  <2> QED
    BY <2>2, <2>3
<1>8. CASE TxStartOfAms \/ TxSnkStart
  BY <1>7, <1>8 DEF TxStartOfAms, TxSnkStart, TxReady
<1>9. CASE TxTakeChunk
  BY <1>5, <1>9 DEF TxTakeChunk, TxReady, ConstructEnqueued, TxMoves, Chunk
<1>10. CASE TxSnkPending
  BY <1>5, <1>10 DEF TxSnkPending, TxMoves
<1>11. CASE TxRetry
  BY <1>5, <1>11 DEF TxRetry, TxFailed, TxMoves
<1>12. CASE TxSent \/ TxGiveUp
  <2>1. \E o \in Outputs : TxOutcome(o)
    BY <1>12 DEF TxSent, TxGiveUp, Outputs
  <2>2. prl.tx = "Wait_PHY" /\ status \in {"SUCCEEDED", "FAILED"}
    BY <1>12 DEF TxSent, TxGiveUp, TxFailed
  <2>3. PICK o \in Outputs : TxOutcome(o)
    BY <2>1
  <2>4. /\ prl'.tx = "Wait_Request" /\ status' = "UNSET" /\ tcpc' = tcpc /\ pe' = pe /\ loop'.event
        /\ flags' = flags \cup {o}
    BY <1>0, <2>3 DEF TxOutcome, Advance, Layers, Loops
  <2> QED
    BY <2>2, <2>4 DEF TxEnds, Keeps, Told, Outputs
<1>13. CASE TxDiscard \/ TxDiscardNothing
  <2>1. /\ prl.tx = "Discard" /\ prl'.tx = "Wait_Request" /\ status' = "UNSET"
        /\ tcpc'.rx_enable = "on" /\ flags' = flags \ {"TX_CHUNK_ENQUEUED"}
    BY <1>0, <1>13 DEF TxDiscard, TxDiscardNothing, Discard, Layers, Drivers
  <2>2. \/ ChunkInProgress /\ pe' = HearsDiscard(pe) /\ loop'.event
        \/ ~ChunkInProgress /\ pe' = pe /\ loop'.event = loop.event
    <3>1. CASE TxDiscard
      <4>1. ChunkInProgress /\ pe' = HearsDiscard(pe) /\ Advance(TRUE)
        BY <3>1 DEF TxDiscard
      <4> QED
        BY <4>1 DEF Advance
    <3>2. CASE TxDiscardNothing
      <4>1. ~ChunkInProgress /\ pe' = pe /\ Advance(FALSE)
        BY <3>2 DEF TxDiscardNothing
      <4> QED
        BY <1>0, <4>1 DEF Advance, Loops
    <3> QED
      BY <1>13, <3>1, <3>2
  <2> QED
    BY <2>1, <2>2 DEF TxDiscards, Keeps, Outputs, Chunk
<1> QED
  BY <1>1, <1>2, <1>3, <1>4, <1>8, <1>9, <1>10, <1>11, <1>12, <1>13 DEF Tx

RchRests ==
    /\ prl'.rch = prl.rch /\ flags' = flags /\ status' = status /\ pe' = pe
    /\ loop'.event = loop.event
    /\ ~ForRch /\ (prl.rch = "Requesting" => ~Told)

RchIsServed ==
    /\ prl.rch = "Requesting" /\ prl'.rch = "Waiting"
    /\ "TX_COMPLETED" \in flags \/ ("TX_ERROR" \notin flags /\ ForRch)
    /\ flags' = flags \ {"TX_COMPLETED"} /\ status' = status /\ pe' = pe
    /\ loop'.event = loop.event

RchAsksOn ==
    /\ ForRch /\ prl.rch \in {"Wait", "Waiting"} /\ prl'.rch = "Requesting"
    /\ buf.rx_chunk.kind = "ext"
    /\ flags' = (flags \ ({"RX_ENQUEUED"} \cup Outputs)) \cup {"TX_CHUNK_ENQUEUED"}
    /\ status' = "UNSET" /\ pe' = pe /\ loop'.event

RchPasses ==
    /\ ForRch /\ prl.rch \in {"Wait", "Waiting"} /\ prl'.rch = "Wait"
    /\ prl.rch = "Waiting" => buf.rx_chunk.kind = "ext"
    /\ flags' = flags \ {"RX_ENQUEUED"} /\ status' = status
    /\ pe' = HearsMessage(pe, buf.rx_chunk) /\ loop'.event

RchFails ==
    /\ prl'.rch = "Wait" /\ status' = status /\ loop'.event
    /\ flags' \in {flags \ {"RX_ENQUEUED"}, flags \ {"TX_ERROR", "RX_ENQUEUED"}}
    /\ ForRch \/ prl.rch # "Wait"
    /\ prl.rch = "Requesting" => Told /\ "TX_COMPLETED" \notin flags
    /\ \E p \in {pe, HearsMessage(pe, buf.rx_chunk)} : \E restart \in MayRestart(p) :
         /\ pe' = HearsError(p, restart)
         /\ prl'.local = IF restart THEN "INIT" ELSE prl.local
         /\ p # pe => ForRch /\ prl.rch # "Wait"

LEMMA RchCases ==
    ASSUME TypeInv, Rch \/ RchTimeout
    PROVE  \/ /\ RchRests \/ RchIsServed \/ RchAsksOn \/ RchPasses
              /\ prl'.local = prl.local
           \/ RchFails
<1>0. prl \in Layers /\ loop \in Loops
  BY DEF TypeInv
<1>1. CASE RchIdle \/ RchRequesting
  BY <1>0, <1>1
  DEF RchIdle, RchRequesting, RchAsks, Pass, Advance, Loops, RchRests, ForRch, Told, Outputs
<1>2. CASE RchRequested
  BY <1>0, <1>2 DEF RchRequested, RchAsks, Advance, Layers, Loops, RchIsServed, ForRch
<1>3. ASSUME NEW e, NEW f, PassUp(e, f)
      PROVE  /\ prl'.rch = "Wait" /\ prl'.local = prl.local /\ flags' = f /\ status' = status
             /\ pe' = HearsMessage(pe, buf.rx_chunk) /\ loop'.event
  BY <1>0, <1>3 DEF PassUp, Advance, Layers
<1>4. ASSUME NEW f, RchReportError(f), prl.rch # "Wait" \/ "RX_ENQUEUED" \notin f,
             f \in {flags, flags \ {"TX_ERROR"}, flags \ {"RX_ENQUEUED"}},
             ForRch \/ prl.rch # "Wait",
             prl.rch = "Requesting" => Told /\ "TX_COMPLETED" \notin flags
      PROVE  RchFails
  <2> DEFINE p == IF "RX_ENQUEUED" \in f THEN HearsMessage(pe, buf.rx_chunk) ELSE pe
  <2>1. PICK restart \in MayRestart(p) :
          /\ pe' = HearsError(p, restart) /\ flags' = f \ {"RX_ENQUEUED"}
          /\ prl' = Restarted([prl EXCEPT !.rch = "Wait"], restart)
          /\ Advance(TRUE) /\ status' = status
    BY <1>4 DEF RchReportError
  <2>2. restart \in BOOLEAN
    BY DEF MayRestart
  <2>3. /\ prl'.rch = "Wait" /\ prl'.local = IF restart THEN "INIT" ELSE prl.local
    BY <1>0, <2>1, <2>2 DEF Restarted, Layers
  <2>4. loop'.event
    BY <2>1 DEF Advance
  <2>5. p \in {pe, HearsMessage(pe, buf.rx_chunk)} /\ (p # pe => ForRch /\ prl.rch # "Wait")
    BY <1>4 DEF ForRch
  <2>6. flags' \in {flags \ {"RX_ENQUEUED"}, flags \ {"TX_ERROR", "RX_ENQUEUED"}}
    BY <1>4, <2>1
  <2> HIDE DEF p
  <2> QED
    BY <1>4, <2>1, <2>3, <2>4, <2>5, <2>6 DEF RchFails
<1>5. CASE RchPlain
  BY <1>3, <1>5 DEF RchPlain, RchTakes, RchPasses, ForRch
<1>6. ASSUME NEW sofar, NEW expected, ProcessExtended(sofar, expected),
             ForRch, prl.rch \in {"Wait", "Waiting"}
      PROVE  ((RchAsksOn \/ RchPasses) /\ prl'.local = prl.local) \/ RchFails
  <2> DEFINE f == flags \ {"RX_ENQUEUED"}
  <2>1. CASE UnexpectedChunk(buf.rx_chunk, expected)
    <3>1. RchReportError(f)
      BY <1>6, <2>1 DEF ProcessExtended
    <3> QED
      BY <1>4, <1>6, <3>1
  <2>2. CASE ~UnexpectedChunk(buf.rx_chunk, expected)
    <3>1. buf.rx_chunk.kind = "ext"
      BY <2>2 DEF UnexpectedChunk
    <3>2. CASE expected + 1 >= NChunks
      <4>1. PassUp(Append(sofar, buf.rx_chunk), f)
        BY <1>6, <2>2, <3>2 DEF ProcessExtended
      <4> QED
        BY <1>3, <1>6, <3>1, <4>1 DEF RchPasses
    <3>3. CASE ~(expected + 1 >= NChunks)
      <4>1. /\ EnqueueChunk(buf'.tx_chunk, f)
            /\ prl' = [prl EXCEPT !.rch = "Requesting"] /\ pe' = pe
        BY <1>6, <2>2, <3>3 DEF ProcessExtended
      <4> QED
        BY <1>0, <1>6, <3>1, <4>1 DEF EnqueueChunk, Advance, Layers, RchAsksOn
    <3> QED
      BY <3>2, <3>3
  <2> QED
    BY <2>1, <2>2
<1>7. CASE RchFirstChunk \/ RchNextChunk
  BY <1>6, <1>7 DEF RchFirstChunk, RchNextChunk, RchTakes, ForRch
<1>8. CASE RchInterrupted
  <2>1. ForRch /\ prl.rch = "Waiting" /\ RchReportError(flags)
    BY <1>8 DEF RchInterrupted, RchTakes, ForRch
  <2> QED
    BY <1>4, <2>1
<1>9. CASE RchRequestFailed
  <2>1. prl.rch = "Requesting" /\ flags \cap Outputs = {"TX_ERROR"} /\ RchReportError(flags \ {"TX_ERROR"})
    BY <1>9 DEF RchRequestFailed, RchAsks
  <2>2. Told /\ "TX_COMPLETED" \notin flags
    BY <2>1 DEF Told, Outputs
  <2> QED
    BY <1>4, <2>1, <2>2
<1>10. CASE RchTimeout
  <2>1. prl.rch = "Waiting" /\ RchReportError(flags)
    BY <1>10 DEF RchTimeout
  <2> QED
    BY <1>4, <2>1
<1> QED
  BY <1>1, <1>2, <1>3, <1>5, <1>7, <1>8, <1>9, <1>10
  DEF Rch, RchRests, RchIsServed, RchIdle, RchRequesting, RchRequested, RchPlain, RchPasses, Pass, Layers

\* PE is told something that changes no more than what it waits for.
SamePe == pe'.mode = pe.mode /\ pe'.reply = pe.reply /\ pe'.accept = pe.accept

TchRests ==
    /\ prl'.tch = prl.tch /\ flags' = flags /\ status' = status /\ pe' = pe
    /\ loop'.event \/ ~loop.event
    /\ prl.tch = "Wait" => ~Enqueued
    /\ prl.tch \in {"Wait_Transmission", "Sending"} => ~Told
    /\ ForTch => prl.tch \in {"Wait_Transmission", "Sending"} /\ status = "SUCCEEDED"

TchHands ==
    /\ ForTch /\ prl.tch \in {"Wait", "Wait_Transmission", "Sending", "Wait_Request"}
    /\ prl.tch \in {"Wait_Transmission", "Sending"} => ~Told /\ status # "SUCCEEDED"
    /\ prl'.tch = "Wait" /\ flags' = (flags \ TchFlags) \cup {"RX_ENQUEUED"}
    /\ status' = status /\ loop'.event /\ SamePe
    /\ pe'.out = "none" \/ (pe'.out = pe.out /\ ~Enqueued /\ prl.tch \in {"Wait", "Wait_Transmission"})

TchEnds ==
    /\ prl.tch \in {"Wait_Transmission", "Sending", "Wait_Request"}
    /\ prl.tch # "Wait_Request" => Told
    /\ prl'.tch = "Wait" /\ status' = status /\ loop'.event /\ pe'.out = "none"
    /\ pe'.reply => pe.reply
    /\ pe'.accept => pe.accept
    /\ Chunk' <=> Chunk
    /\ Told' => Told
    /\ ~ForTch' /\ (Enqueued' => Enqueued)
    /\ ForRch' => ForRch \/ ForTch

TchRefuses ==
    /\ prl.tch = "Wait" /\ prl'.tch = "Wait" /\ Enqueued /\ ~ForTch /\ prl.rch # "Wait"
    /\ flags' = flags \ {"MSG_FROM_PE_ENQUEUED"} /\ status' = status
    /\ pe' = HearsDiscard(pe) /\ loop'.event

TchSends ==
    /\ \/ prl.tch = "Wait" /\ Enqueued /\ ~ForTch /\ prl.rch = "Wait" /\ ~Enqueued'
       \/ prl.tch = "Wait_Request" /\ ForTch
    /\ prl'.tch \in {"Wait_Transmission", "Sending"} /\ status' = "UNSET" /\ pe' = pe
    /\ loop'.event
    /\ Chunk' /\ ~Told' /\ ~ForTch' /\ (Enqueued' => Enqueued)
    /\ ForRch' <=> ForRch

TchPauses ==
    /\ prl.tch = "Sending" /\ prl'.tch = "Wait_Request" /\ Told /\ ~Told'
    /\ flags' = flags \ {"TX_COMPLETED"} /\ status' = status /\ pe' = pe
    /\ loop'.event \/ ~(loop.event \/ ForTch)

LEMMA TchCases ==
    ASSUME TypeInv, Tch \/ TchTimeout
    PROVE  TchRests \/ TchHands \/ TchEnds \/ TchRefuses \/ TchSends \/ TchPauses
<1>0. prl \in Layers /\ loop \in Loops /\ pe \in Engines
  BY DEF TypeInv
<1>1. CASE TchIdle
  BY <1>0, <1>1
  DEF TchIdle, TchAt, TchFlags, Pass, Advance, Loops, TchRests, ForTch, Enqueued
<1>2. CASE TchTransmitting \/ TchAwaitRequest
  BY <1>0, <1>2
  DEF TchTransmitting, TchAwaitRequest, InTransmission, TchAt, Outputs, Pass, Advance, Loops,
      TchRests, ForTch, Told
<1>3. CASE TchAwaitTx
  BY <1>0, <1>3
  DEF TchAwaitTx, InTransmission, TchAt, Advance, Loops, TchRests, ForTch, Told
<1>4. ASSUME NEW p \in Engines, NEW f, TchReceived(p, f)
      PROVE  /\ prl'.tch = "Wait" /\ flags' = (f \ TchFlags) \cup {"RX_ENQUEUED"}
             /\ status' = status /\ loop'.event
             /\ pe'.mode = p.mode /\ pe'.reply = p.reply /\ pe'.accept = p.accept
             /\ pe'.out = IF "MSG_FROM_PE_ENQUEUED" \in f THEN "none" ELSE p.out
  BY <1>0, <1>4 DEF TchReceived, DropsEnqueued, HearsDiscard, Advance, Layers, Engines
<1>5. /\ HearsDiscard(pe) \in Engines /\ HearsDiscard(pe).out = "none"
      /\ HearsDiscard(pe).mode = pe.mode /\ HearsDiscard(pe).reply = pe.reply
      /\ HearsDiscard(pe).accept = pe.accept
  BY <1>0, HearsDiscardType DEF HearsDiscard, Engines
<1>6. CASE TchHandOver
  <2>1. prl.tch = "Wait" /\ ForTch /\ TchReceived(pe, flags)
    BY <1>6 DEF TchHandOver, TchAt, ForTch
  <2> QED
    BY <1>0, <1>4, <2>1 DEF TchHands, SamePe, Enqueued
<1>7. CASE TchInterrupted
  <2>1. /\ prl.tch \in {"Wait_Transmission", "Sending"} /\ ~Told /\ status # "SUCCEEDED" /\ ForTch
        /\ TchReceived(IF prl.tch = "Sending" THEN HearsDiscard(pe) ELSE pe, flags)
    BY <1>7 DEF TchInterrupted, InTransmission, TchAt, ForTch, Told
  <2>2. CASE prl.tch = "Sending"
    BY <1>4, <1>5, <2>1, <2>2 DEF TchHands, SamePe
  <2>3. CASE prl.tch = "Wait_Transmission"
    BY <1>0, <1>4, <2>1, <2>3 DEF TchHands, SamePe, Enqueued
  <2> QED
    BY <2>1, <2>2, <2>3
<1>8. CASE TchAborted
  <2>1. prl.tch = "Wait_Request" /\ ForTch /\ TchReceived(HearsDiscard(pe), flags)
    BY <1>8 DEF TchAborted, TchAnswered, TchAt, ForTch
  <2> QED
    BY <1>4, <1>5, <2>1 DEF TchHands, SamePe
<1>9. ASSUME NEW p \in Engines, NEW f, NEW r \in BOOLEAN, TchEnd(p, f, r), p.out = "none",
             p.reply => pe.reply,
             p.accept => pe.accept,
             prl.tch \in {"Wait_Transmission", "Sending", "Wait_Request"},
             prl.tch # "Wait_Request" => Told,
             f \in {flags, flags \ {"TX_COMPLETED"}, flags \ {"TX_ERROR"}, flags \ {"CHUNK_FROM_RX"}}
      PROVE  TchEnds
  <2>1. /\ prl'.tch = "Wait" /\ status' = status /\ loop'.event
    BY <1>0, <1>9 DEF TchEnd, Restarted, Advance, Layers
  <2>2. pe'.out = "none" /\ pe'.reply = p.reply /\ pe'.accept = p.accept
    BY <1>9 DEF TchEnd, DropsEnqueued, HearsDiscard, Engines
  <2>3. \/ "CHUNK_FROM_RX" \notin f /\ flags' = f
        \/ "CHUNK_FROM_RX" \in f /\ flags' = (f \ TchFlags) \cup {"RX_ENQUEUED"}
    BY <1>9 DEF TchEnd
  <2>4. /\ Chunk' <=> Chunk
        /\ Told' => Told
        /\ ~ForTch' /\ (Enqueued' => Enqueued)
        /\ ForRch' => ForRch \/ ForTch
    BY <1>9, <2>3 DEF Chunk, Told, ForTch, Enqueued, ForRch, TchFlags, Outputs
  <2> QED
    BY <1>9, <2>1, <2>2, <2>4 DEF TchEnds
<1>10. HearsSent(pe) \in Engines /\ HearsSent(pe).out = "none"
       /\ HearsSent(pe).reply = pe.reply /\ HearsSent(pe).accept = pe.accept
  <2>1. HearsSent(pe) \in Engines
    BY <1>0, HearsSentType
  <2> QED
    BY <1>0, <2>1 DEF HearsSent, Engines
<1>11. ASSUME NEW r \in MayRestart(pe)
       PROVE  /\ r \in BOOLEAN /\ HearsError(pe, r) \in Engines /\ HearsError(pe, r).out = "none"
              /\ HearsError(pe, r).reply => pe.reply
              /\ HearsError(pe, r).accept => pe.accept
  <2>1. r \in BOOLEAN
    BY <1>11 DEF MayRestart
  <2>2. HearsError(pe, r) \in Engines
    BY <1>0, <2>1, HearsErrorType
  <2> QED
    BY <1>0, <2>1, <2>2 DEF HearsError, Engines
<1>12. ASSUME NEW f, TchSent(f) \/ TchReportError(f),
              prl.tch \in {"Wait_Transmission", "Sending", "Wait_Request"},
              prl.tch # "Wait_Request" => Told,
              f \in {flags, flags \ {"TX_COMPLETED"}, flags \ {"TX_ERROR"}, flags \ {"CHUNK_FROM_RX"}}
       PROVE  TchEnds
  BY <1>9, <1>10, <1>11, <1>12 DEF TchSent, TchReportError
<1>13. CASE TchFailed \/ TchMessageSent \/ TchLastChunkSent \/ TchWrongRequest \/ TchTimeout
  <2>1. prl.tch \in {"Wait_Transmission", "Sending", "Wait_Request"}
    BY <1>13 DEF TchFailed, TchMessageSent, TchLastChunkSent, TchWrongRequest, TchTimeout,
                 InTransmission, TchChunkSent, TchAnswered, TchAt
  <2>2. \E f \in {flags, flags \ {"TX_COMPLETED"}, flags \ {"TX_ERROR"}, flags \ {"CHUNK_FROM_RX"}} :
           TchSent(f) \/ TchReportError(f)
    BY <1>13 DEF TchFailed, TchMessageSent, TchLastChunkSent, TchWrongRequest, TchTimeout
  <2>3. prl.tch # "Wait_Request" => Told
    BY <1>13 DEF TchFailed, TchMessageSent, TchLastChunkSent, TchWrongRequest, TchTimeout,
                 InTransmission, TchChunkSent, TchAnswered, TchAt, Told, Outputs
  <2> QED
    BY <1>12, <2>1, <2>2, <2>3
<1>14. CASE TchRefuse
  <2>1. /\ prl.tch = "Wait" /\ flags \cap TchFlags = {"MSG_FROM_PE_ENQUEUED"} /\ prl.rch # "Wait"
        /\ prl' = prl /\ flags' = flags \ {"MSG_FROM_PE_ENQUEUED"} /\ status' = status
        /\ pe' = HearsDiscard(pe) /\ Advance(TRUE)
    BY <1>14 DEF TchRefuse, TchStarts, TchAt, RchBusy
  <2>2. Enqueued /\ ~ForTch
    BY <2>1 DEF TchFlags, Enqueued, ForTch
  <2> QED
    BY <2>1, <2>2 DEF TchRefuses, Advance
<1>15. ASSUME NEW n, NEW x, SendChunk(n, flags \ {x})
       PROVE  /\ prl'.tch \in {"Wait_Transmission", "Sending"} /\ status' = "UNSET" /\ pe' = pe
              /\ loop'.event /\ flags' = ((flags \ {x}) \ Outputs) \cup {"TX_CHUNK_ENQUEUED"}
  BY <1>0, <1>15 DEF SendChunk, EnqueueChunk, Advance, Layers
<1>16. CASE TchSendFirst
  <2>1. /\ prl.tch = "Wait" /\ Enqueued /\ ~ForTch /\ prl.rch = "Wait"
        /\ SendChunk(0, flags \ {"MSG_FROM_PE_ENQUEUED"})
    BY <1>16 DEF TchSendFirst, TchStarts, TchAt, RchBusy, TchFlags, Enqueued, ForTch
  <2>2. flags' = ((flags \ {"MSG_FROM_PE_ENQUEUED"}) \ Outputs) \cup {"TX_CHUNK_ENQUEUED"}
    BY <1>15, <2>1
  <2>3. /\ Chunk' /\ ~Told' /\ ~ForTch' /\ ~Enqueued'
        /\ ForRch' <=> ForRch
    BY <2>1, <2>2 DEF Chunk, Told, ForTch, ForRch, Enqueued, Outputs
  <2> QED
    BY <1>15, <2>1, <2>3 DEF TchSends
<1>17. CASE TchSendNext
  <2>1. /\ prl.tch = "Wait_Request" /\ ForTch /\ SendChunk(num.tch, flags \ {"CHUNK_FROM_RX"})
    BY <1>17 DEF TchSendNext, TchAnswered, TchAt, ForTch
  <2>2. flags' = ((flags \ {"CHUNK_FROM_RX"}) \ Outputs) \cup {"TX_CHUNK_ENQUEUED"}
    BY <1>15, <2>1
  <2>3. /\ Chunk' /\ ~Told' /\ ~ForTch' /\ (Enqueued' => Enqueued)
        /\ ForRch' <=> ForRch
    BY <2>1, <2>2 DEF Chunk, Told, ForTch, ForRch, Enqueued, Outputs
  <2> QED
    BY <1>15, <2>1, <2>3 DEF TchSends
<1>18. CASE TchOneChunkSent
  <2>1. /\ prl.tch = "Sending" /\ flags \cap Outputs = {"TX_COMPLETED"}
        /\ flags' = flags \ {"TX_COMPLETED"} /\ status' = status /\ pe' = pe
        /\ prl' = [prl EXCEPT !.tch = "Wait_Request"] /\ Advance("CHUNK_FROM_RX" \in flags)
    BY <1>18 DEF TchOneChunkSent, TchChunkSent, TchAt
  <2>2. Told /\ ~Told'
    BY <2>1 DEF Told, Outputs
  <2>3. prl'.tch = "Wait_Request"
    BY <1>0, <2>1 DEF Layers
  <2>4. loop'.event \/ ~(loop.event \/ ForTch)
    BY <2>1 DEF Advance, ForTch
  <2> QED
    BY <2>1, <2>2, <2>3, <2>4 DEF TchPauses
<1> QED
  BY <1>1, <1>2, <1>3, <1>6, <1>7, <1>8, <1>13, <1>14, <1>16, <1>17, <1>18 DEF Tch

-----------------------------------------------------------------------------
(* Whom PRL_Tx works for, what PE may have asked for meanwhile, and that     *)
(* whatever is left to do has a wakeup behind it.                            *)

Transmits == Chunk \/ prl.tx = "Wait_PHY"
Users == prl.rch = "Requesting" \/ prl.tch \in {"Wait_Transmission", "Sending"}

\* PRL_Rx stops the transmission a message comes into.
Stopped == prl.tx = "Discard" \/ (~Chunk /\ status \in {"UNSET", "SUCCEEDED"})

\* After PRL_Tx had its second turn in the tick.
Late == {"tch2", "tch3", "rch2", "rest"}

BusyInv ==
    /\ prl.tx \in {"Snk_Start", "Snk_Pending", "Wait_PHY"} => tcpc.rx_enable = "idle"
    /\ Chunk => status = "UNSET" /\ prl.tx # "Wait_PHY"
    /\ prl.tx = "Wait_PHY" => status # "UNSET"
    /\ prl.tx = "Snk_Pending" => Chunk
    /\ Told => ~Transmits /\ prl.tx # "Discard"
    /\ prl.rch \in {"Requesting", "Waiting"} => prl.tch = "Wait"
    /\ Transmits /\ prl.tx # "Discard" =>
         \/ Users
         \/ prl.rch = "Waiting" /\ status = "SUCCEEDED" /\ loop.at \in {"tch1", "tx1"}
    /\ prl.tch = "Wait_Request" => ~Told /\ prl.tx # "Discard"
    /\ prl.tx = "Discard" => loop.at \in {"rch1", "tch1", "tx1"}
    /\ prl.tx = "Discard" /\ loop.at = "rch1" =>
         Users /\ (ForTch \/ (ForRch /\ prl.rch = "Requesting"))
    /\ prl.tx = "Discard" /\ loop.at = "tch1" => ForTch \/ prl.rch = "Waiting"
    /\ prl.tx = "Discard" /\ loop.at = "tx1" /\ prl.tch # "Wait" =>
         ~Chunk /\ status \in {"UNSET", "SUCCEEDED"}
    /\ (ForTch \/ ForRch) /\ loop.at \in {"rch1", "tch1", "tx1"} => Stopped
    /\ (ForTch \/ ForRch) /\ loop.at \in {"tch2", "tch3", "rch2"} =>
         ~Transmits /\ prl.tx # "Discard"

ReplyInv ==
    /\ Enqueued => prl.tch = "Wait" /\ loop.at \in {"prl", "tx0", "rx", "rch1", "tch1"}
    /\ Enqueued /\ loop.at # "tch1" =>
         /\ pe.out # "none" /\ ~pe.reply /\ ~pe.accept /\ pe.mode = "run"
         /\ ForRch => prl.rch # "Waiting"
    /\ Enqueued /\ loop.at = "tch1" =>
         /\ ~pe.accept /\ (pe.reply => pe.out # "none")
         /\ prl.rch = "Requesting" => ~pe.reply /\ pe.mode # "soft"
    /\ ForTch /\ prl.tch = "Wait" /\ loop.at \in {"rch1", "tch1"} => Enqueued
    /\ ForRch /\ loop.at \in {"rest", "pe", "prl", "tx0", "rx"} => prl.rch = "Waiting"
    /\ ForRch /\ prl.rch = "Requesting" /\ loop.at \in {"tx1", "tch2", "tch3", "rch2"} =>
         ~pe.reply /\ ~pe.accept /\ pe.mode # "soft"
    /\ ForRch /\ prl.rch = "Waiting" /\ loop.at \in {"rest", "pe"} =>
         ~pe.reply /\ ~pe.accept /\ pe.mode # "soft"
    /\ pe.accept => prl.tch = "Wait"
    /\ pe.mode \in {"soft", "startup"} /\ prl.local = "WORKING" => prl.tch = "Wait" /\ ~Enqueued
    /\ pe.out = "none" /\ pe.reply /\ pe.mode = "run" => prl.tch = "Wait"
    /\ ForRch /\ buf.rx_chunk.kind = "soft" => loop.at = "rch1" /\ prl.rch = "Wait" /\ ~Enqueued
    /\ ForTch => buf.rx_chunk.kind # "soft"

WakeInv ==
    ~loop.event =>
      /\ pe.accept /\ pe.mode \in {"run", "soft", "startup"} => loop.at = "pe"
      /\ loop.at \in Late =>
           /\ prl.tx = "Wait_PHY" => status \notin {"SUCCEEDED", "FAILED"}
           /\ Chunk => tcpc.rx_enable # "idle" \/ prl.tx = "Snk_Pending"
      /\ prl.rch = "Requesting" /\ loop.at \in Late \cup {"tch1", "tx1"} => ~Told
      /\ prl.tch # "Wait" /\ loop.at \in Late \cup {"tx1"} => ~Told
      /\ ForRch => loop.at # "rest"
      /\ ForRch /\ loop.at \in {"tch1", "tx1", "tch2", "tch3", "rch2"} => prl.rch = "Waiting"

WorkInv == Live => BusyInv /\ ReplyInv /\ WakeInv

Settled == TypeInv /\ OwnerInv /\ ResetInv /\ TurnInv /\ RouteInv /\ AskInv
AtWork == Settled /\ Live /\ BusyInv /\ ReplyInv /\ WakeInv

LEMMA WorkTx ==
    ASSUME AtWork, Tx PROVE BusyInv' /\ ReplyInv' /\ WakeInv'
<1>1. /\ loop.at \in {"tx0", "tx1"}
      /\ loop.at = "tx0" => loop'.at = "rx"
      /\ loop.at = "tx1" => loop'.at = "tch2"
      /\ prl'.local = prl.local /\ prl'.rch = prl.rch /\ prl'.tch = prl.tch
      /\ buf'.rx_chunk = buf.rx_chunk /\ pe'.mode = pe.mode
  BY FrameTx, AfterAt DEF AtWork, Settled
<1>2. /\ Enqueued' <=> Enqueued
      /\ ForTch' <=> ForTch
      /\ ForRch' <=> ForRch
  BY FrameTx DEF AtWork, Settled, Enqueued, ForTch, ForRch, TxFlags
<1>3. /\ prl.hr = "IDLE" /\ (status # "UNSET" => prl.tx \in {"Wait_PHY", "Discard"})
      /\ prl.tx # "none" /\ prl.rch # "none" /\ prl.tch # "none"
  BY <1>1 DEF AtWork, Settled, TurnInv
<1>4. /\ prl \in Layers /\ pe \in Engines /\ tcpc \in Drivers /\ status \in Results
      /\ loop \in Loops
  BY DEF AtWork, Settled, TypeInv
<1>5. /\ ForRch => prl.tch = "Wait"
      /\ ~(ForTch /\ ForRch)
  BY DEF AtWork, Settled, OwnerInv, RouteInv, ForRch, ForTch
<1>6. BusyInv /\ ReplyInv /\ WakeInv
  BY DEF AtWork
<1>7. CASE TxRests
  <2>1. /\ Told' <=> Told
        /\ Chunk' <=> Chunk
    BY <1>7 DEF TxRests, Keeps, Told, Chunk, Outputs
  <2>2. BusyInv'
    BY <1>1, <1>2, <1>3, <1>4, <1>5, <1>6, <1>7, <2>1
    DEF TxRests, BusyInv, Transmits, Users, Stopped, Layers, Results
  <2>3. ReplyInv'
    BY <1>1, <1>2, <1>3, <1>5, <1>6, <1>7, <2>1 DEF TxRests, ReplyInv
  <2>4. WakeInv'
    BY <1>1, <1>2, <1>3, <1>4, <1>5, <1>6, <1>7, <2>1
    DEF TxRests, WakeInv, BusyInv, Transmits, Late, Layers
  <2> QED
    BY <2>2, <2>3, <2>4
<1>8. CASE TxMoves
  <2>1. \/ /\ prl'.tx = "Snk_Start" /\ prl.tx \in {"Wait_Request", "Snk_Start"} /\ ~Chunk
           /\ ~Chunk' /\ status' = status
           /\ Told' <=> Told
        \/ /\ prl'.tx = "Snk_Pending" /\ prl.tx \in {"Wait_Request", "Snk_Start"} /\ Chunk
           /\ Chunk' /\ status' = status
           /\ Told' <=> Told
        \/ /\ prl'.tx = "Wait_PHY" /\ (Chunk \/ prl.tx \in {"Snk_Pending", "Wait_PHY"})
           /\ ~Chunk' /\ ~Told' /\ status' = "ENQUEUED"
    BY <1>8 DEF TxMoves, Keeps, Told, Chunk, Outputs
  <2>2. /\ prl.tx \in {"Wait_Request", "Snk_Start", "Snk_Pending", "Wait_PHY"}
        /\ prl.tx = "Wait_Request" => tcpc.rx_enable = "idle"
        /\ prl.tx = "Wait_PHY" => status = "FAILED"
        /\ tcpc'.rx_enable = tcpc.rx_enable /\ pe' = pe /\ loop'.event = loop.event
    BY <1>8 DEF TxMoves
  <2>3. BusyInv'
    BY <1>1, <1>2, <1>3, <1>4, <1>5, <1>6, <2>1, <2>2
    DEF BusyInv, Transmits, Users, Stopped, Layers, Results
  <2>4. ReplyInv'
    BY <1>1, <1>2, <1>3, <1>5, <1>6, <2>2 DEF ReplyInv
  <2>5. WakeInv'
    BY <1>1, <1>2, <1>3, <1>4, <1>5, <1>6, <2>1, <2>2
    DEF WakeInv, BusyInv, Transmits, Late, Layers
  <2> QED
    BY <2>3, <2>4, <2>5
<1>9. CASE TxEnds
  <2>1. Chunk' <=> Chunk
    BY <1>9 DEF TxEnds, Keeps, Chunk
  <2>2. BusyInv'
    BY <1>1, <1>2, <1>3, <1>4, <1>5, <1>6, <1>9, <2>1
    DEF TxEnds, BusyInv, Transmits, Users, Stopped, Layers, Results
  <2>3. ReplyInv'
    BY <1>1, <1>2, <1>3, <1>5, <1>6, <1>9 DEF TxEnds, ReplyInv
  <2>4. WakeInv'
    BY <1>9 DEF TxEnds, WakeInv
  <2> QED
    BY <2>2, <2>3, <2>4
<1>10. CASE TxDiscards
  <2>1. /\ prl.tx = "Discard" /\ prl'.tx = "Wait_Request" /\ status' = "UNSET"
        /\ tcpc'.rx_enable = "on" /\ ~Chunk'
        /\ Told' <=> Told
    BY <1>10 DEF TxDiscards, Keeps, Told, Outputs
  <2>2. /\ pe'.reply = pe.reply /\ pe'.accept = pe.accept /\ (loop.event => loop'.event)
        /\ pe'.out = pe.out \/ Chunk \/ status \in {"ENQUEUED", "SENDING"}
    BY <1>4, <1>10 DEF TxDiscards, HearsDiscard, ChunkInProgress, Chunk, Engines
  <2>3. loop.at = "tx1" /\ ~Told /\ ~Enqueued
    BY <1>1, <1>6, <2>1 DEF BusyInv, ReplyInv
  <2>4. BusyInv'
    BY <1>1, <1>2, <1>3, <1>4, <1>5, <1>6, <2>1, <2>3
    DEF BusyInv, Transmits, Users, Stopped, Layers, Results
  <2>5. ReplyInv'
    BY <1>1, <1>2, <1>3, <1>5, <1>6, <2>1, <2>2, <2>3 DEF ReplyInv, BusyInv
  <2>6. WakeInv'
    BY <1>1, <1>2, <1>3, <1>4, <1>5, <1>6, <2>1, <2>2, <2>3
    DEF WakeInv, BusyInv, Transmits, Late, Layers
  <2> QED
    BY <2>4, <2>5, <2>6
<1> QED
  BY <1>7, <1>8, <1>9, <1>10, TxCases DEF AtWork, Settled

LEMMA AtWorkFacts ==
    ASSUME AtWork
    PROVE  /\ prl \in Layers /\ pe \in Engines /\ tcpc \in Drivers /\ status \in Results
           /\ loop \in Loops /\ flags \subseteq AllFlags /\ buf \in Buffers
           /\ status # "UNSET" /\ prl.hr = "IDLE" => prl.tx \in {"Wait_PHY", "Discard"}
           /\ prl.hr # "none" => prl.tx # "none" /\ prl.rch # "none" /\ prl.tch # "none"
           /\ loop.at \notin {"rest", "pe", "prl"} => prl.hr = "IDLE"
           /\ ForRch => prl.tch = "Wait"
           /\ ~(ForTch /\ ForRch)
           /\ BusyInv /\ ReplyInv /\ WakeInv
  BY DEF AtWork, Settled, TypeInv, TurnInv, OwnerInv, RouteInv, ForRch, ForTch

LEMMA WorkRx ==
    ASSUME AtWork, Rx PROVE BusyInv' /\ ReplyInv' /\ WakeInv'
<1>1. /\ loop.at = "rx" /\ loop'.at = "rch1" /\ prl.hr = "IDLE"
      /\ prl'.local = prl.local /\ pe' = pe
  BY FrameRx, AtWorkFacts DEF AtWork, Settled
<1>2. ~ForTch
  BY <1>1 DEF AtWork, Settled, RouteInv, ForTch
<1>3. CASE RxPostpone \/ RxEmpty
  <2>1. /\ UNCHANGED <<prl, flags, buf, status, tcpc, pe>>
        /\ ~loop'.event => ~loop.event
    BY <1>3, AtWorkFacts DEF RxPostpone, RxEmpty, Pass, Advance, Loops
  <2>2. /\ Enqueued' <=> Enqueued
        /\ ForTch' <=> ForTch
        /\ ForRch' <=> ForRch
        /\ Told' <=> Told
        /\ Chunk' <=> Chunk
    BY <2>1 DEF Enqueued, ForTch, ForRch, Told, Chunk
  <2>3. BusyInv'
    BY <1>1, <1>2, <2>1, <2>2, AtWorkFacts
    DEF BusyInv, ReplyInv, Transmits, Users, Stopped, Layers, Results
  <2>4. ReplyInv'
    BY <1>1, <1>2, <2>1, <2>2, AtWorkFacts DEF ReplyInv
  <2>5. WakeInv'
    BY <1>1, <2>1, <2>2, AtWorkFacts DEF WakeInv, Late
  <2> QED
    BY <2>3, <2>4, <2>5
<1>4. CASE RxDrop
  <2>1. /\ UNCHANGED <<prl, flags, status, pe>> /\ tcpc'.rx_enable = tcpc.rx_enable
        /\ ~loop'.event => ~loop.event
    BY <1>4, AtWorkFacts DEF RxDrop, Popped, Advance, Drivers, Loops
  <2>2. /\ Enqueued' <=> Enqueued
        /\ ForTch' <=> ForTch
        /\ ~ForRch' /\ ~ForRch
        /\ Told' <=> Told
        /\ Chunk' <=> Chunk
    BY <1>4, <2>1 DEF RxDrop, Fetch, Enqueued, ForTch, ForRch, Told, Chunk
  <2>3. BusyInv'
    BY <1>1, <1>2, <2>1, <2>2, AtWorkFacts
    DEF BusyInv, Transmits, Users, Stopped, Layers, Results
  <2>4. ReplyInv'
    BY <1>1, <1>2, <2>1, <2>2, AtWorkFacts DEF ReplyInv
  <2>5. WakeInv'
    BY <1>1, <2>1, <2>2, AtWorkFacts DEF WakeInv, Late
  <2> QED
    BY <2>3, <2>4, <2>5
<1>5. CASE RxSoftReset
  <2>1. /\ prl'.tx = "Wait_Request" /\ prl'.rch = "Wait" /\ prl'.tch = "Wait"
        /\ flags' = (flags \cap HrFlags) \cup {"RX_ENQUEUED"} /\ status' = "UNSET"
        /\ ~loop'.event => ~loop.event
    BY <1>5, AtWorkFacts DEF RxSoftReset, Ready, Advance, Layers, Loops
  <2>2. ~Enqueued' /\ ~ForTch' /\ ForRch' /\ ~Told' /\ ~Chunk'
    BY <2>1 DEF HrFlags, Enqueued, ForTch, ForRch, Told, Chunk, Outputs
  <2>3. BusyInv'
    BY <1>1, <2>1, <2>2 DEF BusyInv, Transmits, Users, Stopped
  <2>4. ReplyInv'
    BY <1>1, <2>1, <2>2 DEF ReplyInv
  <2>5. WakeInv'
    BY <1>1, <2>1, <2>2, AtWorkFacts DEF WakeInv, Late
  <2> QED
    BY <2>3, <2>4, <2>5
<1>6. CASE RxStore
  <2>1. /\ prl'.rch = prl.rch /\ prl'.tch = prl.tch /\ tcpc'.rx_enable = tcpc.rx_enable
        /\ prl'.tx = IF status \notin {"UNSET", "SUCCEEDED"} \/ Chunk THEN "Discard" ELSE prl.tx
        /\ status' = status /\ buf'.rx_chunk.kind # "soft"
        /\ ~loop'.event => ~loop.event
    BY <1>6, AtWorkFacts DEF RxStore, Popped, Advance, Chunk, Layers, Loops, Drivers
  <2>2. /\ Enqueued' <=> Enqueued
        /\ ForTch' <=> (Enqueued \/ prl.tch # "Wait")
        /\ ForRch' <=> ~(Enqueued \/ prl.tch # "Wait")
        /\ Told' <=> Told
        /\ Chunk' <=> Chunk
        /\ ~ForRch
    BY <1>2, <1>6 DEF RxStore, Fetch, Enqueued, ForTch, ForRch, Told, Chunk, Outputs
  <2>3. BusyInv'
    BY <1>1, <1>2, <2>1, <2>2, AtWorkFacts
    DEF BusyInv, Transmits, Users, Stopped, Layers, Results
  <2>4. ReplyInv'
    BY <1>1, <1>2, <2>1, <2>2, AtWorkFacts DEF ReplyInv, BusyInv
  <2>5. WakeInv'
    BY <1>1, <2>1, <2>2, AtWorkFacts DEF WakeInv, Late
  <2> QED
    BY <2>3, <2>4, <2>5
<1> QED
  BY <1>3, <1>4, <1>5, <1>6 DEF Rx

LEMMA WorkRch ==
    ASSUME AtWork, Rch \/ RchTimeout PROVE BusyInv' /\ ReplyInv' /\ WakeInv'
<1>1. /\ loop.at \in {"rch1", "rch2"} /\ prl.hr = "IDLE"
      /\ loop.at = "rch1" => loop'.at = "tch1"
      /\ loop.at = "rch2" => loop'.at = "rest"
      /\ prl'.tx = prl.tx /\ prl'.tch = prl.tch /\ tcpc' = tcpc
      /\ buf'.rx_chunk = buf.rx_chunk
  BY FrameRch, AfterAt, AtWorkFacts DEF AtWork, Settled
<1>2. /\ loop.at = "rch2" => ~ForTch
      /\ prl.rch = "Requesting" /\ "TX_ERROR" \in flags => loop.at = "rch2" /\ ~ForRch
  BY <1>1 DEF AtWork, Settled, RouteInv, AskInv, ForTch, ForRch
<1>3. CASE RchRests /\ prl'.local = prl.local
  <2>1. /\ Enqueued' <=> Enqueued
        /\ ForTch' <=> ForTch
        /\ ForRch' <=> ForRch
        /\ Told' <=> Told
        /\ Chunk' <=> Chunk
    BY <1>3 DEF RchRests, Enqueued, ForTch, ForRch, Told, Chunk
  <2>2. BusyInv'
    BY <1>1, <1>2, <1>3, <2>1, AtWorkFacts DEF RchRests, BusyInv, Transmits, Users, Stopped
  <2>3. ReplyInv'
    BY <1>1, <1>2, <1>3, <2>1, AtWorkFacts DEF RchRests, ReplyInv
  <2>4. WakeInv'
    BY <1>1, <1>2, <1>3, <2>1, AtWorkFacts DEF RchRests, WakeInv, BusyInv, Late
  <2> QED
    BY <2>2, <2>3, <2>4
<1>4. CASE RchIsServed /\ prl'.local = prl.local
  <2>1. /\ Enqueued' <=> Enqueued
        /\ ForTch' <=> ForTch
        /\ ForRch' <=> ForRch
        /\ Chunk' <=> Chunk
        /\ Told' => Told
        /\ Told \/ ForRch
    BY <1>4 DEF RchIsServed, Enqueued, ForTch, ForRch, Told, Chunk, Outputs
  <2>2. BusyInv'
    BY <1>1, <1>2, <1>4, <2>1, AtWorkFacts
    DEF RchIsServed, BusyInv, Transmits, Users, Stopped, Results
  <2>3. ReplyInv'
    BY <1>1, <1>2, <1>4, <2>1, AtWorkFacts DEF RchIsServed, ReplyInv
  <2>4. WakeInv'
    BY <1>1, <1>2, <1>4, <2>1, AtWorkFacts DEF RchIsServed, WakeInv, BusyInv, Late
  <2> QED
    BY <2>2, <2>3, <2>4
<1>5. CASE RchAsksOn /\ prl'.local = prl.local
  <2>1. /\ Enqueued' <=> Enqueued
        /\ ForTch' <=> ForTch
        /\ ~ForRch' /\ Chunk' /\ ~Told'
    BY <1>5 DEF RchAsksOn, Enqueued, ForTch, ForRch, Told, Chunk, Outputs
  <2>2. BusyInv'
    BY <1>1, <1>2, <1>5, <2>1, AtWorkFacts
    DEF RchAsksOn, BusyInv, Transmits, Users, Stopped, Layers, Results
  <2>3. ReplyInv'
    BY <1>1, <1>2, <1>5, <2>1, AtWorkFacts DEF RchAsksOn, ReplyInv
  <2>4. WakeInv'
    BY <1>5 DEF RchAsksOn, WakeInv
  <2> QED
    BY <2>2, <2>3, <2>4
<1>6. CASE RchPasses /\ prl'.local = prl.local
  <2>1. /\ Enqueued' <=> Enqueued
        /\ ForTch' <=> ForTch
        /\ Chunk' <=> Chunk
        /\ Told' <=> Told
        /\ ~ForRch'
    BY <1>6 DEF RchPasses, Enqueued, ForTch, ForRch, Told, Chunk, Outputs
  <2>2. /\ pe'.mode = pe.mode /\ pe'.out = pe.out
        /\ pe'.accept => pe.accept \/ buf.rx_chunk.kind = "soft"
    BY <1>6, AtWorkFacts DEF RchPasses, HearsMessage, Engines
  <2>3. ForRch /\ prl.rch \in {"Wait", "Waiting"} /\ prl'.rch = "Wait" /\ status' = status
        /\ loop'.event
    BY <1>6 DEF RchPasses
  <2>4. BusyInv'
    BY <1>1, <1>2, <2>1, <2>3, AtWorkFacts
    DEF BusyInv, Transmits, Users, Stopped, Layers, Results
  <2>5. ReplyInv'
    BY <1>1, <1>2, <1>6, <2>1, <2>2, <2>3, AtWorkFacts DEF ReplyInv
  <2>6. WakeInv'
    BY <2>3 DEF WakeInv
  <2> QED
    BY <2>4, <2>5, <2>6
<1>7. CASE RchFails
  <2>1. /\ Enqueued' <=> Enqueued
        /\ ForTch' <=> ForTch
        /\ Chunk' <=> Chunk
        /\ Told' => Told
        /\ ~ForRch'
    BY <1>7 DEF RchFails, Enqueued, ForTch, ForRch, Told, Chunk, Outputs
  <2>2. /\ prl'.rch = "Wait" /\ status' = status /\ loop'.event
        /\ ForRch \/ prl.rch # "Wait"
        /\ prl.rch = "Requesting" => Told /\ "TX_ERROR" \in flags
    BY <1>7 DEF RchFails, Told, Outputs
  <2>3. BusyInv'
    BY <1>1, <1>2, <2>1, <2>2, AtWorkFacts
    DEF BusyInv, Transmits, Users, Stopped, Layers, Results
  <2>41. PICK p \in {pe, HearsMessage(pe, buf.rx_chunk)} : \E restart \in MayRestart(p) :
          /\ pe' = HearsError(p, restart)
          /\ prl'.local = IF restart THEN "INIT" ELSE prl.local
          /\ p # pe => ForRch /\ prl.rch # "Wait"
    BY <1>7 DEF RchFails
  <2>4. PICK restart \in MayRestart(p) :
          /\ pe' = HearsError(p, restart)
          /\ prl'.local = IF restart THEN "INIT" ELSE prl.local
          /\ p # pe => ForRch /\ prl.rch # "Wait"
    BY <2>41
  <2>5. restart \in BOOLEAN
    BY <2>4 DEF MayRestart
  <2>6. /\ p \in Engines /\ p.mode = pe.mode
        /\ p.accept => pe.accept \/ (p # pe /\ buf.rx_chunk.kind = "soft")
        /\ p.reply => pe.reply \/ p # pe
    <3>1. buf.rx_chunk \in TheirChunks
      BY AtWorkFacts DEF Buffers
    <3>2. CASE p = pe
      BY <3>2, AtWorkFacts
    <3>3. CASE p # pe
      <4>1. p = HearsMessage(pe, buf.rx_chunk)
        BY <2>41, <3>3
      <4>2. p \in Engines
        BY <3>1, <4>1, AtWorkFacts, HearsMessageType
      <4>3. p.mode = pe.mode /\ (p.accept => pe.accept \/ buf.rx_chunk.kind = "soft")
        BY <4>1, AtWorkFacts DEF HearsMessage, Engines
      <4> QED
        BY <3>3, <4>2, <4>3
    <3> QED
      BY <3>2, <3>3
  <2>7. /\ pe'.out = "none" /\ (pe'.reply => p.reply) /\ (pe'.accept => p.accept)
        /\ pe'.mode = IF restart THEN "soft" ELSE pe.mode
        /\ restart => prl'.local = "INIT"
    BY <2>4, <2>5, <2>6 DEF HearsError, Engines
  <2>8. ReplyInv'
    BY <1>1, <1>2, <2>1, <2>2, <2>4, <2>5, <2>6, <2>7, AtWorkFacts DEF ReplyInv, BusyInv, Layers
  <2>9. WakeInv'
    BY <2>2 DEF WakeInv
  <2> QED
    BY <2>3, <2>8, <2>9
<1> QED
  BY <1>3, <1>4, <1>5, <1>6, <1>7, RchCases DEF AtWork, Settled

LEMMA WorkTch ==
    ASSUME AtWork, Tch \/ TchTimeout PROVE BusyInv' /\ ReplyInv' /\ WakeInv'
<1>1. /\ loop.at \in {"tch1", "tch2", "tch3"} /\ prl.hr = "IDLE"
      /\ loop.at = "tch1" => loop'.at = "tx1"
      /\ loop.at = "tch2" => loop'.at = "tch3"
      /\ loop.at = "tch3" => loop'.at = "rch2"
      /\ prl'.tx = prl.tx /\ prl'.rch = prl.rch /\ tcpc' = tcpc
      /\ buf'.rx_chunk = buf.rx_chunk
      /\ \/ pe'.mode = pe.mode /\ prl'.local = prl.local
         \/ pe.mode = "run" /\ prl'.local = "INIT"
  BY FrameTch, AfterAt, AtWorkFacts DEF AtWork, Settled
<1>2. /\ ForTch /\ loop.at # "tch1" =>
           /\ prl.tch \in {"Wait_Transmission", "Sending", "Wait_Request"}
           /\ loop.at = "tch3" => prl.tch = "Wait_Request"
           /\ prl.tch # "Wait_Request" => status = "UNSET"
      /\ prl.rch = "Requesting" /\ loop.at = "tch1" => ~ForRch
      /\ Enqueued /\ ForRch => prl.rch # "Wait"
  BY <1>1 DEF AtWork, Settled, RouteInv, AskInv, OwnerInv, AtTch, At, ForTch, ForRch, Enqueued
<1>3. CASE TchRests
  <2>1. /\ Enqueued' <=> Enqueued
        /\ ForTch' <=> ForTch
        /\ ForRch' <=> ForRch
        /\ Told' <=> Told
        /\ Chunk' <=> Chunk
    BY <1>3 DEF TchRests, Enqueued, ForTch, ForRch, Told, Chunk
  <2>2. BusyInv'
    BY <1>1, <1>2, <1>3, <2>1, AtWorkFacts
    DEF TchRests, BusyInv, Transmits, Users, Stopped, Layers, Results
  <2>3. ReplyInv'
    BY <1>1, <1>2, <1>3, <2>1, AtWorkFacts DEF TchRests, ReplyInv
  <2>4. WakeInv'
    BY <1>1, <1>2, <1>3, <2>1, AtWorkFacts DEF TchRests, WakeInv, BusyInv, Late, Layers
  <2> QED
    BY <2>2, <2>3, <2>4
<1>4. CASE TchHands
  <2>1. /\ ~Enqueued' /\ ~ForTch' /\ ForRch'
        /\ Told' <=> Told
        /\ Chunk' <=> Chunk
    BY <1>4 DEF TchHands, TchFlags, Enqueued, ForTch, ForRch, Told, Chunk, Outputs
  <2>2. BusyInv'
    <3>1. /\ loop.at = "tch1" => Stopped
          /\ loop.at # "tch1" => ~Transmits /\ prl.tx # "Discard"
      BY <1>1, <1>4, AtWorkFacts DEF TchHands, BusyInv
    <3>2. /\ prl'.tch = "Wait" /\ status' = status
          /\ prl.tch \in {"Wait_Transmission", "Sending"} => status # "SUCCEEDED"
      BY <1>4 DEF TchHands
    <3>3. prl.tch \in {"Wait_Transmission", "Sending"} => ~Transmits \/ prl.tx = "Discard"
      BY <1>1, <3>1, <3>2, AtWorkFacts DEF BusyInv, Stopped, Transmits
    <3> QED
      BY <1>1, <2>1, <3>1, <3>2, <3>3, AtWorkFacts
      DEF BusyInv, Transmits, Users, Stopped, Layers
  <2>3. ReplyInv'
    BY <1>1, <1>2, <1>4, <2>1, AtWorkFacts DEF TchHands, SamePe, ReplyInv, BusyInv
  <2>4. WakeInv'
    BY <1>4 DEF TchHands, WakeInv
  <2> QED
    BY <2>2, <2>3, <2>4
<1>5. CASE TchEnds
  <2>1. BusyInv'
    BY <1>1, <1>2, <1>5, AtWorkFacts
    DEF TchEnds, BusyInv, Transmits, Users, Stopped, Layers, Results
  <2>2. ReplyInv'
    BY <1>1, <1>2, <1>5, AtWorkFacts DEF TchEnds, ReplyInv, BusyInv
  <2>3. WakeInv'
    BY <1>5 DEF TchEnds, WakeInv
  <2> QED
    BY <2>1, <2>2, <2>3
<1>6. CASE TchRefuses
  <2>1. /\ ~Enqueued'
        /\ ForTch' <=> ForTch
        /\ ForRch' <=> ForRch
        /\ Told' <=> Told
        /\ Chunk' <=> Chunk
    BY <1>6 DEF TchRefuses, Enqueued, ForTch, ForRch, Told, Chunk, Outputs
  <2>2. /\ pe'.mode = pe.mode /\ pe'.reply = pe.reply /\ pe'.accept = pe.accept
        /\ pe'.out = "none"
    BY <1>6, AtWorkFacts DEF TchRefuses, HearsDiscard, Engines
  <2>3. BusyInv'
    BY <1>1, <1>2, <1>6, <2>1, AtWorkFacts
    DEF TchRefuses, BusyInv, Transmits, Users, Stopped, Layers, Results
  <2>4. ReplyInv'
    BY <1>1, <1>2, <1>6, <2>1, <2>2, AtWorkFacts DEF TchRefuses, ReplyInv, BusyInv
  <2>5. WakeInv'
    BY <1>6 DEF TchRefuses, WakeInv
  <2> QED
    BY <2>3, <2>4, <2>5
<1>7. CASE TchSends
  <2>1. BusyInv'
    BY <1>1, <1>2, <1>7, AtWorkFacts
    DEF TchSends, BusyInv, ReplyInv, Transmits, Users, Stopped, Layers, Results
  <2>2. ReplyInv'
    BY <1>1, <1>2, <1>7, AtWorkFacts DEF TchSends, ReplyInv, BusyInv
  <2>3. WakeInv'
    BY <1>7 DEF TchSends, WakeInv
  <2> QED
    BY <2>1, <2>2, <2>3
<1>8. CASE TchPauses
  <2>1. /\ Enqueued' <=> Enqueued
        /\ ForTch' <=> ForTch
        /\ ForRch' <=> ForRch
        /\ ~Told'
        /\ Chunk' <=> Chunk
    BY <1>8 DEF TchPauses, Enqueued, ForTch, ForRch, Told, Chunk, Outputs
  <2>2. BusyInv'
    BY <1>1, <1>2, <1>8, <2>1, AtWorkFacts
    DEF TchPauses, BusyInv, Transmits, Users, Stopped, Layers, Results
  <2>3. ReplyInv'
    BY <1>1, <1>2, <1>8, <2>1, AtWorkFacts DEF TchPauses, ReplyInv, BusyInv
  <2>4. WakeInv'
    BY <1>1, <1>2, <1>8, <2>1, AtWorkFacts DEF TchPauses, WakeInv, BusyInv, Transmits, Late, Layers
  <2> QED
    BY <2>2, <2>3, <2>4
<1> QED
  BY <1>3, <1>4, <1>5, <1>6, <1>7, <1>8, TchCases DEF AtWork, Settled

\* The layer starts with nothing left to do, and nothing is done while PRL_HR is busy.
LEMMA WorkHr ==
    ASSUME Settled, WorkInv, InitLayer \/ Disable \/ Hr PROVE WorkInv'
<1>1. CASE InitLayer
  <2>1. /\ prl'.tx = "Wait_Request" /\ prl'.rch = "Wait" /\ prl'.tch = "Wait" /\ flags' = {}
        /\ status' = "UNSET" /\ loop'.event /\ loop'.at = "prl"
    BY <1>1 DEF InitLayer, At, Ready, ClearedFlags, Settled, TypeInv, Layers, Loops
  <2>2. ~Enqueued' /\ ~ForTch' /\ ~ForRch' /\ ~Chunk' /\ ~Told'
    BY <2>1 DEF Enqueued, ForTch, ForRch, Chunk, Told
  <2> QED
    BY <2>1, <2>2 DEF WorkInv, BusyInv, ReplyInv, WakeInv, Transmits, Users, Stopped
<1>2. CASE HrIdle
  <2>1. /\ UNCHANGED <<prl, flags, buf, status, tcpc, pe>> /\ loop.at = "prl"
        /\ loop'.at = After["prl"] /\ loop'.event = loop.event /\ Live
    BY <1>2 DEF HrIdle, HrTurn, At, Advance, Live, Settled, TypeInv, Loops
  <2>2. loop'.at = "tx0"
    BY <2>1 DEF After
  <2>3. /\ Enqueued' <=> Enqueued
        /\ ForTch' <=> ForTch
        /\ ForRch' <=> ForRch
        /\ Told' <=> Told
        /\ Chunk' <=> Chunk
    BY <2>1 DEF Enqueued, ForTch, ForRch, Told, Chunk
  <2>4. BusyInv /\ ReplyInv /\ WakeInv
    BY <2>1 DEF WorkInv
  <2>5. BusyInv'
    BY <2>1, <2>2, <2>3, <2>4 DEF BusyInv, Transmits, Users, Stopped
  <2>6. ReplyInv' /\ WakeInv'
    BY <2>1, <2>2, <2>3, <2>4 DEF ReplyInv, WakeInv, Late
  <2> QED
    BY <2>5, <2>6 DEF WorkInv
<1>3. CASE Disable \/ HrWait \/ HrResetLayer \/ HrIndicate \/ HrRequest \/ HrRequested \/ HrSent
  <2>1. loop'.at = "rest" /\ (prl'.local # "WORKING" \/ prl'.hr # "IDLE")
    BY <1>3 DEF Disable, HrWait, HrWaiting, HrResetLayer, HrIndicate, HrRequest, HrRequested,
                HrSent, EndTick, Settled, TypeInv, Layers
  <2> QED
    BY <2>1 DEF WorkInv, Live
<1> QED
  BY <1>1, <1>2, <1>3 DEF Hr

LEMMA OutsideWakes ==
    ASSUME TypeInv, ~tcpc.hr_send, Driver \/ TxFails \/ MeasureCc \/ Partner
    PROVE  /\ loop.event => loop'.event
           /\ tcpc'.rx_enable = tcpc.rx_enable \/ (tcpc.rx_enable # "idle" /\ loop'.event)
           /\ \/ status' = status
              \/ status = "ENQUEUED" /\ status' = "SENDING"
              \/ status = "SENDING" /\ status' \in {"SUCCEEDED", "FAILED"} /\ loop'.event
              \/ status' = "UNSET" /\ tcpc.rx_enable # "idle"
<1>0. loop \in Loops /\ tcpc \in Drivers
  BY DEF TypeInv
<1>1. CASE Driver \/ TxFails \/ MeasureCc
  <2>0. loop'.event = TRUE \/ ~Wakes
    BY <1>0 DEF Wakes, Loops
  <2>1. CASE SetRxEnable \/ MeasureCc
    <3>1. CASE SetRxEnable
      BY <2>0, <3>1 DEF SetRxEnable
    <3>2. CASE MeasureCc
      <4>1. status' = status /\ loop'.event /\ tcpc'.rx_enable = tcpc.rx_enable
        BY <1>0, <2>0, <3>2 DEF MeasureCc, Drivers
      <4> QED
        BY <4>1
    <3> QED
      BY <2>1, <3>1, <3>2
  <2>2. CASE BeginTransmit
    BY <1>0, <2>2 DEF BeginTransmit, Drivers
  <2>3. CASE TxFails \/ TxSucceeds \/ HardResetSent
    <3>1. tcpc'.rx_enable = tcpc.rx_enable
      BY <1>0, <2>3 DEF TxFails, TxSucceeds, HardResetSent, Drivers
    <3>2. TxEnd("FAILED") \/ TxEnd("SUCCEEDED")
      BY <2>3 DEF TxFails, TxSucceeds, HardResetSent
    <3> QED
      BY <1>0, <3>1, <3>2 DEF TxEnd, Loops
  <2>4. ~BeginHardReset
    BY DEF BeginHardReset
  <2> QED
    BY <1>1, <2>1, <2>2, <2>3, <2>4 DEF Driver
<1>2. CASE PartnerHears
  BY <1>0, <1>2 DEF PartnerHears, Drivers
<1>3. CASE PartnerHardReset
  BY <1>0, <1>3 DEF PartnerHardReset, Wakes, Loops, Drivers
<1>4. CASE PartnerSends \/ PartnerRepeats
  <2>1. ASSUME NEW m, Receives(m)
        PROVE  loop'.event /\ tcpc'.rx_enable = tcpc.rx_enable /\ status' = status
    BY <1>0, <2>1 DEF Receives, Wakes, Loops, Drivers
  <2> QED
    BY <1>4, <2>1 DEF PartnerSends, PartnerSend, PartnerRepeats
<1> QED
  BY <1>1, <1>2, <1>3, <1>4 DEF Partner

LEMMA WorkOutside ==
    ASSUME AtWork, Driver \/ TxFails \/ MeasureCc \/ Partner
    PROVE  BusyInv' /\ ReplyInv' /\ WakeInv'
<1>1. prl.hr = "IDLE" /\ ~tcpc.hr_send
  BY AtWorkFacts DEF AtWork, Settled, Live, ResetInv
<1>2. /\ loop'.at = loop.at /\ UNCHANGED <<prl, buf, pe>>
      /\ flags \subseteq flags' /\ flags' \subseteq flags \cup {"HARD_RESET_FROM_PARTNER"}
  BY FrameOutside DEF AtWork, Settled
<1>3. /\ Enqueued' <=> Enqueued
      /\ ForTch' <=> ForTch
      /\ ForRch' <=> ForRch
      /\ Told' <=> Told
      /\ Chunk' <=> Chunk
  BY <1>2 DEF Enqueued, ForTch, ForRch, Told, Chunk, Outputs
<1>4. /\ loop.event => loop'.event
      /\ tcpc'.rx_enable = tcpc.rx_enable \/ (tcpc.rx_enable # "idle" /\ loop'.event)
      /\ \/ status' = status
         \/ status = "ENQUEUED" /\ status' = "SENDING"
         \/ status = "SENDING" /\ status' \in {"SUCCEEDED", "FAILED"} /\ loop'.event
         \/ status' = "UNSET" /\ tcpc.rx_enable # "idle"
  BY <1>1, OutsideWakes DEF AtWork, Settled
<1>5. tcpc'.rx_enable = "idle" \/ tcpc'.rx_enable = tcpc.rx_enable
  <2>1. CASE Driver \/ TxFails \/ MeasureCc
    BY <2>1, AtWorkFacts
    DEF Driver, SetRxEnable, BeginTransmit, BeginHardReset, HardResetSent, TxSucceeds,
        TxFails, MeasureCc, Drivers
  <2>2. CASE PartnerHears \/ PartnerHardReset
    BY <2>2, AtWorkFacts DEF PartnerHears, PartnerHardReset, Drivers
  <2>3. ASSUME NEW m, Receives(m) PROVE tcpc'.rx_enable = tcpc.rx_enable
    BY <2>3, AtWorkFacts DEF Receives, Drivers
  <2> QED
    BY <2>1, <2>2, <2>3 DEF Partner, PartnerSends, PartnerSend, PartnerRepeats
<1>6. BusyInv'
  BY <1>1, <1>2, <1>3, <1>4, <1>5, AtWorkFacts DEF BusyInv, Transmits, Users, Stopped
<1>7. ReplyInv'
  BY <1>2, <1>3, AtWorkFacts DEF ReplyInv
<1>8. WakeInv'
  BY <1>1, <1>2, <1>3, <1>4, AtWorkFacts DEF WakeInv, Late
<1> QED
  BY <1>6, <1>7, <1>8

LEMMA WorkPe ==
    ASSUME AtWork, Live', Pe PROVE BusyInv' /\ ReplyInv' /\ WakeInv'
<1>1. /\ loop.at = "pe" /\ loop'.at = "prl" /\ loop'.event = loop.event
      /\ prl'.hr = prl.hr /\ prl'.tx = prl.tx /\ prl'.rch = prl.rch /\ prl'.tch = prl.tch
      /\ status' = status /\ tcpc' = tcpc /\ buf'.rx_chunk = buf.rx_chunk
  <2>1. loop'.event = loop.event
    BY AtWorkFacts
    DEF Pe, PeWait, PeOff, PeStartup, PeStarted, PeEndAms, PeAccept, PeSoftReset,
        PeSendSoftReset, PeHardReset, PeDefault, PeReply, PeBegin, PeTurn, Advance, Loops
  <2> QED
    BY <2>1, FramePe DEF AtWork, Settled
<1>2. /\ ForTch' <=> ForTch
      /\ ForRch' <=> ForRch
      /\ Told' <=> Told
      /\ Chunk' <=> Chunk
      /\ Enqueued => Enqueued'
  BY FramePe DEF AtWork, Settled, Enqueued, ForTch, ForRch, Told, Chunk, Outputs
<1>3. prl.local = "WORKING" /\ prl.hr = "IDLE" /\ prl'.local = "WORKING" /\ ~ForTch /\ ~Enqueued
  <2>1. prl.local = "WORKING" /\ prl.hr = "IDLE" /\ prl'.local = "WORKING"
    BY <1>1 DEF AtWork, Live
  <2>2. ~ForTch
    BY <1>1 DEF AtWork, Settled, RouteInv, ForTch
  <2> QED
    BY <1>1, <2>1, <2>2, AtWorkFacts DEF ReplyInv
<1>4. BusyInv'
  BY <1>1, <1>2, AtWorkFacts DEF BusyInv, Transmits, Users, Stopped
<1>5. ~(PeStartup \/ PeSoftReset)
  BY <1>3, AtWorkFacts DEF PeStartup, PeSoftReset, Layers
<1>6. ASSUME NEW kind, NEW p \in Engines, Enqueue(kind, p), kind # "none",
             p.mode = "run", ~p.accept,
             prl.tch = "Wait",
             ForRch => prl.rch # "Waiting"
      PROVE  ReplyInv' /\ WakeInv'
  <2>1. /\ pe'.out = kind /\ ~pe'.reply /\ ~pe'.accept /\ pe'.mode = "run"
    BY <1>6 DEF Enqueue, Engines
  <2>2. ReplyInv'
    BY <1>1, <1>2, <1>3, <1>6, <2>1, AtWorkFacts DEF ReplyInv
  <2>3. WakeInv'
    BY <1>1, <2>1 DEF WakeInv, Late
  <2> QED
    BY <2>2, <2>3
<1>7. CASE PeAccept
  <2>1. pe.accept /\ Enqueue("ctl", [pe EXCEPT !.accept = FALSE, !.mode = "run"])
    BY <1>7 DEF PeAccept
  <2>2. /\ [pe EXCEPT !.accept = FALSE, !.mode = "run"] \in Engines
        /\ [pe EXCEPT !.accept = FALSE, !.mode = "run"].mode = "run"
        /\ ~[pe EXCEPT !.accept = FALSE, !.mode = "run"].accept
    BY AtWorkFacts DEF Engines
  <2>3. prl.tch = "Wait" /\ (ForRch => prl.rch # "Waiting")
    BY <1>1, <2>1, AtWorkFacts DEF ReplyInv
  <2> QED
    BY <1>4, <1>6, <2>1, <2>2, <2>3
<1>8. CASE PeSendSoftReset
  <2>1. pe.mode = "soft" /\ ~pe.accept /\ Enqueue("soft", [pe EXCEPT !.mode = "run"])
    BY <1>8 DEF PeSendSoftReset, PeTurn
  <2>2. /\ [pe EXCEPT !.mode = "run"] \in Engines
        /\ [pe EXCEPT !.mode = "run"].mode = "run"
        /\ ~[pe EXCEPT !.mode = "run"].accept
    BY <2>1, AtWorkFacts DEF Engines
  <2>3. prl.tch = "Wait" /\ (ForRch => prl.rch # "Waiting")
    BY <1>1, <1>3, <2>1, AtWorkFacts DEF ReplyInv
  <2> QED
    BY <1>4, <1>6, <2>1, <2>2, <2>3
<1>9. ASSUME NEW kind \in {"ctl", "ext"}, PeReply(kind) PROVE ReplyInv' /\ WakeInv'
  <2>1. pe.mode = "run" /\ ~pe.accept /\ pe.out = "none" /\ pe.reply /\ Enqueue(kind, pe)
    BY <1>9 DEF PeReply, PeTurn
  <2>2. prl.tch = "Wait" /\ (ForRch => prl.rch # "Waiting")
    BY <1>1, <2>1, AtWorkFacts DEF ReplyInv
  <2> QED
    BY <1>6, <1>9, <2>1, <2>2, AtWorkFacts
<1>10. ASSUME NEW kind \in {"ctl", "ext"}, NEW ams \in {"no", "new"}, PeBegin(kind, ams)
       PROVE  ReplyInv' /\ WakeInv'
  <2>1. /\ pe.mode = "run" /\ ~pe.accept /\ prl.rch = "Wait" /\ prl.tch = "Wait"
        /\ Enqueue(kind, [pe EXCEPT !.ams = ams])
    BY <1>10 DEF PeBegin, PeTurn, PrlBusy
  <2>2. /\ [pe EXCEPT !.ams = ams] \in Engines
        /\ [pe EXCEPT !.ams = ams].mode = "run"
        /\ ~[pe EXCEPT !.ams = ams].accept
    BY <2>1, AtWorkFacts DEF Engines
  <2> QED
    BY <1>6, <1>10, <2>1, <2>2
<1>11. CASE PeWait \/ PeOff \/ PeStarted \/ PeEndAms \/ PeHardReset \/ PeDefault
  <2>1. ~Enqueued'
    <3>1. flags' = flags \/ flags' = flags \cup {"HARD_RESET_FROM_PE"}
      BY <1>11 DEF PeWait, PeOff, PeStarted, PeEndAms, PeHardReset, PeDefault
    <3> QED
      BY <1>3, <3>1 DEF Enqueued
  <2>2. /\ pe'.accept => pe.accept /\ pe'.mode \notin {"run", "soft", "startup"}
        /\ pe'.reply => pe.reply
        /\ pe'.mode \in {pe.mode, "off", "hr", "default"} \/ pe.mode = "startup"
        /\ pe'.mode \in {"run", "soft", "startup"} =>
             \/ pe'.mode = pe.mode /\ pe'.out = pe.out
             \/ pe.mode = "startup" /\ pe'.mode = "run"
    <3>1. CASE PeWait
      BY <1>3, <3>1, AtWorkFacts DEF PeWait, PeTurn, Engines
    <3>2. CASE PeOff
      BY <3>2, AtWorkFacts DEF PeOff, Engines
    <3>3. CASE PeStarted
      BY <3>3, AtWorkFacts DEF PeStarted, PeTurn, Engines
    <3>4. CASE PeEndAms
      BY <3>4, AtWorkFacts DEF PeEndAms, PeTurn, Engines
    <3>5. CASE PeHardReset \/ PeDefault
      BY <3>5, AtWorkFacts DEF PeHardReset, PeDefault, PeTurn, Engines
    <3> QED
      BY <1>11, <3>1, <3>2, <3>3, <3>4, <3>5
  <2>3. ReplyInv'
    BY <1>1, <1>2, <1>3, <2>1, <2>2, AtWorkFacts DEF ReplyInv
  <2>4. WakeInv'
    BY <1>1, <2>2 DEF WakeInv, Late
  <2> QED
    BY <1>4, <2>3, <2>4
<1> QED
  BY <1>4, <1>5, <1>7, <1>8, <1>9, <1>10, <1>11 DEF Pe

LEMMA WorkStep ==
    ASSUME Settled, WorkInv, [Next]_sysVars PROVE WorkInv'
<1>1. CASE InitLayer \/ Disable \/ Hr
  BY <1>1, WorkHr
<1>2. CASE UNCHANGED sysVars
  BY <1>2
  DEF sysVars, vars, WorkInv, Live, BusyInv, ReplyInv, WakeInv, Transmits, Users, Stopped,
      Enqueued, ForTch, ForRch, Chunk, Told
<1>3. CASE TickStart \/ Cable
  <2>1. /\ loop.at = "rest" /\ loop'.at = "pe" /\ ~loop'.event
        /\ UNCHANGED <<prl, flags, buf, status, tcpc, pe>>
    BY <1>3 DEF TickStart, Cable, At
  <2>2. /\ Enqueued' <=> Enqueued
        /\ ForTch' <=> ForTch
        /\ ForRch' <=> ForRch
        /\ Told' <=> Told
        /\ Chunk' <=> Chunk
        /\ Live' <=> Live
    BY <2>1 DEF Enqueued, ForTch, ForRch, Told, Chunk, Live
  <2>3. ASSUME BusyInv PROVE BusyInv'
    BY <2>1, <2>2, <2>3 DEF BusyInv, Transmits, Users, Stopped
  <2>4. ASSUME ReplyInv PROVE ReplyInv' /\ WakeInv'
    BY <2>1, <2>2, <2>4 DEF ReplyInv, WakeInv, Late
  <2> QED
    BY <2>2, <2>3, <2>4 DEF WorkInv
<1>4. CASE Pe
  <2>1. Live' => Live
    <3>1. loop.at = "pe" /\ loop'.at = "prl" /\ prl'.hr = prl.hr
      BY <1>4, FramePe DEF Settled
    <3>2. prl'.local = prl.local \/ prl'.local = "INIT"
      BY <1>4
      DEF Pe, PeWait, PeOff, PeStartup, PeStarted, PeEndAms, PeAccept, PeSoftReset,
          PeSendSoftReset, PeHardReset, PeDefault, PeReply, PeBegin, Enqueue, Settled,
          TypeInv, Layers
    <3> QED
      BY <3>1, <3>2 DEF Live
  <2> QED
    BY <1>4, <2>1, WorkPe DEF WorkInv, AtWork
<1>5. CASE Driver \/ TxFails \/ MeasureCc \/ Partner
  <2>1. Live' <=> Live
    BY <1>5, FrameOutside DEF Settled, Live
  <2> QED
    BY <1>5, <2>1, WorkOutside DEF WorkInv, AtWork
<1>6. CASE Tx \/ Rx \/ Rch \/ Tch \/ Timeouts
  <2>1. Live
    BY <1>6, FrameTx, FrameRx, FrameRch, FrameTch DEF Settled, Timeouts, Live
  <2> QED
    BY <1>6, <2>1, WorkTx, WorkRx, WorkRch, WorkTch DEF WorkInv, AtWork, Timeouts
<1> QED
  BY <1>1, <1>2, <1>3, <1>4, <1>5, <1>6 DEF Next, Tick, PrlStep, PrlNext

LEMMA SettledStep ==
    ASSUME HardResetsEnd, Settled, [Next]_sysVars PROVE Settled'
  BY TypeStep, OwnerStep, ResetStep, TurnStep, RouteStep, AskStep DEF Settled

LEMMA SettledInit == ASSUME Init PROVE Settled /\ WorkInv
<1>1. TypeInv /\ OwnerInv /\ ResetInv /\ TurnInv /\ RouteInv
  BY TypeInit, OwnerInit, RouteInit
<1>2. AskInv /\ ~Live
  BY DEF Init, AskInv, Live
<1> QED
  BY <1>1, <1>2 DEF Settled, WorkInv

\* When a tick ends without a wakeup to come, no message of PE's, no chunk received and
\* no outcome of a transmission is left for a machine to see, and nothing is enqueued
\* that PRL_Tx could send: whatever the driver, PE and the partner do in between.
THEOREM NothingIsPostponed == HardResetsEnd /\ Spec => []NothingPostponed
<1> SUFFICES ASSUME HardResetsEnd PROVE Spec => []NothingPostponed
  OBVIOUS
<1> DEFINE IInv == Settled /\ WorkInv
<1>1. Init => IInv
  BY SettledInit
<1>2. IInv /\ [Next]_sysVars => IInv'
  BY SettledStep, WorkStep
<1>3. IInv => NothingPostponed
  <2> SUFFICES ASSUME IInv, At({"rest"}), ~loop.event, Working
               PROVE  NothingPostponed
    BY DEF NothingPostponed
  <2>1. loop.at = "rest" /\ Live /\ AtWork
    BY DEF At, Working, Live, WorkInv, AtWork
  <2>2. ~Enqueued /\ ~ForTch /\ ~ForRch
    BY <2>1, AtWorkFacts DEF AtWork, Settled, RouteInv, ForTch, ReplyInv, WakeInv
  <2>3. /\ prl.tx = "Wait_PHY" => status \notin {"SUCCEEDED", "FAILED"}
        /\ Chunk => tcpc.rx_enable # "idle" \/ prl.tx = "Snk_Pending"
        /\ prl.tx # "Discard"
        /\ pe.mode \in {"run", "soft", "startup"} => ~pe.accept
        /\ Told => prl.rch # "Requesting" /\ prl.tch = "Wait"
    BY <2>1, AtWorkFacts DEF BusyInv, WakeInv, Late
  <2> QED
    BY <2>2, <2>3 DEF NothingPostponed, Enqueued, ForTch, ForRch, Chunk, Told
<1> HIDE DEF IInv
<1> QED
  BY <1>1, <1>2, <1>3, PTL DEF Spec

-----------------------------------------------------------------------------
(* Which message PRL_Tx has.  PE's latest message is the one in tx_emsg, and *)
(* while TCH is at work tx_chunk is a chunk of it: RCH writes its requests   *)
(* there only when TCH waits, and PE enqueues nothing until TCH waits.       *)

\* PRL_Tx has a chunk of what PE enqueued last.
ChunkIsOfPe == buf.tx_chunk.kind # "req" /\ buf.tx_chunk.serial = buf.tx_emsg.serial

AwaitInv ==
    /\ buf.tx_emsg.serial = pe.sent
    /\ Live /\ prl.tch \notin {"none", "Wait"} => ChunkIsOfPe

\* The machines and the other parties leave PE's message and its number alone.
SameMessage == buf'.tx_emsg = buf.tx_emsg /\ pe'.sent = pe.sent
SameChunk == buf'.tx_chunk.kind = buf.tx_chunk.kind /\ buf'.tx_chunk.serial = buf.tx_chunk.serial

\* No report but "sent" can be taken for it.
LEMMA Reports ==
    ASSUME NEW p \in Engines
    PROVE  /\ HearsSent(p).sent = p.sent
           /\ HearsDiscard(p).sent = p.sent /\ HearsDiscard(p).told = "discard"
           /\ \A m : HearsMessage(p, m).sent = p.sent /\ HearsMessage(p, m).told = p.told
           /\ \A r : HearsError(p, r).sent = p.sent /\ HearsError(p, r).told = "error"
  BY DEF HearsSent, HearsDiscard, HearsMessage, HearsError, Engines

LEMMA AwaitTx ==
    ASSUME TypeInv, Tx
    PROVE  SameMessage /\ SameChunk /\ (pe'.told = "sent" => pe.told = "sent")
<1>1. buf' = buf \/ \E id : buf' = [buf EXCEPT !.tx_chunk.id = id]
  BY DEF Tx, TxSkip, TxHeld, TxStartOfAms, TxTakeChunk, TxNothing, TxSnkStart, TxSnkPending,
         TxSnkWait, TxPollCc, TxSent, TxGiveUp, TxRetry, TxWaitPhy, TxDiscard,
         TxDiscardNothing, TxFailed, Discard, Pass, SnkStart, AskSinkTx,
         ConstructEnqueued, Construct, TxOutcome
<1>2. pe' = pe \/ pe' = HearsDiscard(pe)
  BY DEF Tx, TxSkip, TxHeld, TxStartOfAms, TxTakeChunk, TxNothing, TxSnkStart, TxSnkPending,
         TxSnkWait, TxPollCc, TxSent, TxGiveUp, TxRetry, TxWaitPhy, TxDiscard,
         TxDiscardNothing, TxFailed, Discard, Pass, SnkStart, AskSinkTx,
         ConstructEnqueued, Construct, TxOutcome
<1>3. buf'.tx_emsg = buf.tx_emsg /\ SameChunk
  BY <1>1 DEF SameChunk, TypeInv, Buffers, OurChunks
<1>4. pe'.sent = pe.sent /\ (pe'.told = "sent" => pe.told = "sent")
  BY <1>2, Reports DEF TypeInv
<1> QED
  BY <1>3, <1>4 DEF SameMessage

LEMMA AwaitRx ==
    ASSUME TypeInv, Rx
    PROVE  SameMessage /\ SameChunk /\ pe' = pe /\ prl'.tch \in {prl.tch, "Wait"}
<1>1. pe' = pe
  BY FrameRx
<1>2. buf' = buf \/ \E c : buf' = [buf EXCEPT !.rx_chunk = c]
  BY DEF Rx, RxPostpone, RxEmpty, RxSoftReset, RxDrop, RxStore, Fetch, Pass
<1>3. prl'.tch \in {prl.tch, "Wait"}
  BY DEF Rx, RxPostpone, RxEmpty, RxSoftReset, RxDrop, RxStore, Pass, Ready, TypeInv, Layers
<1> QED
  BY <1>1, <1>2, <1>3 DEF SameMessage, SameChunk, TypeInv, Buffers

LEMMA AwaitRch ==
    ASSUME TypeInv, OwnerInv, Rch \/ RchTimeout
    PROVE  /\ SameMessage /\ (pe'.told = "sent" => pe.told = "sent")
           /\ SameChunk \/ prl.tch = "Wait"
<1>1. pe \in Engines /\ buf \in Buffers
  BY DEF TypeInv
<1>2. ASSUME NEW e, NEW f, PassUp(e, f)
      PROVE  SameMessage /\ SameChunk /\ pe'.told = pe.told
  BY <1>1, <1>2, Reports DEF PassUp, SameMessage, SameChunk, Buffers
<1>3. ASSUME NEW f, RchReportError(f)
      PROVE  SameMessage /\ SameChunk /\ pe'.told = "error"
  <2>1. buf' = buf \/ buf' = [buf EXCEPT !.rx_emsg = <<buf.rx_chunk>>]
    BY <1>3 DEF RchReportError
  <2>2. \E p \in {pe, HearsMessage(pe, buf.rx_chunk)} : \E r : pe' = HearsError(p, r)
    BY <1>3 DEF RchReportError
  <2>3. /\ HearsMessage(pe, buf.rx_chunk) \in Engines
        /\ HearsMessage(pe, buf.rx_chunk).sent = pe.sent
    BY <1>1, HearsMessageType, Reports DEF TypeInv, Buffers
  <2>4. pe'.sent = pe.sent /\ pe'.told = "error"
    BY <1>1, <2>2, <2>3, Reports
  <2> QED
    BY <1>1, <2>1, <2>4 DEF SameMessage, SameChunk, Buffers
<1>4. ASSUME NEW sofar, NEW expected, ProcessExtended(sofar, expected), "RX_ENQUEUED" \in flags
      PROVE  /\ SameMessage /\ (pe'.told = "sent" => pe.told = "sent")
             /\ SameChunk \/ prl.tch = "Wait"
  <2>1. prl.tch = "Wait"
    BY <1>4 DEF OwnerInv
  <2> DEFINE f == flags \ {"RX_ENQUEUED"}
  <2>2. CASE UnexpectedChunk(buf.rx_chunk, expected)
    <3>1. RchReportError(f)
      BY <1>4, <2>2 DEF ProcessExtended
    <3> QED
      BY <1>3, <3>1
  <2>3. CASE ~UnexpectedChunk(buf.rx_chunk, expected) /\ expected + 1 >= NChunks
    <3>1. PassUp(Append(sofar, buf.rx_chunk), f)
      BY <1>4, <2>3 DEF ProcessExtended
    <3> QED
      BY <1>2, <3>1
  <2>4. CASE ~UnexpectedChunk(buf.rx_chunk, expected) /\ ~(expected + 1 >= NChunks)
    <3>1. /\ buf' = [buf EXCEPT !.rx_emsg = Append(sofar, buf.rx_chunk),
                                !.tx_chunk = [kind |-> "req", n |-> expected + 1,
                                              id |-> 0, serial |-> 0]]
          /\ pe' = pe
      BY <1>4, <2>4 DEF ProcessExtended
    <3>2. buf'.tx_emsg = buf.tx_emsg
      BY <1>1, <3>1 DEF Buffers
    <3> QED
      BY <2>1, <3>1, <3>2 DEF SameMessage
  <2> QED
    BY <2>2, <2>3, <2>4
<1>5. CASE RchIdle \/ RchRequested \/ RchRequesting
  BY <1>5 DEF RchIdle, RchRequested, RchRequesting, Pass, SameMessage, SameChunk
<1>6. CASE RchPlain
  BY <1>2, <1>6 DEF RchPlain
<1>7. CASE RchFirstChunk \/ RchNextChunk
  BY <1>4, <1>7 DEF RchFirstChunk, RchNextChunk, RchTakes
<1>8. CASE RchInterrupted \/ RchRequestFailed \/ RchTimeout
  BY <1>3, <1>8 DEF RchInterrupted, RchRequestFailed, RchTimeout
<1> QED
  BY <1>5, <1>6, <1>7, <1>8 DEF Rch

LEMMA AwaitTch ==
    ASSUME TypeInv, Tch \/ TchTimeout
    PROVE  /\ SameMessage
           /\ pe'.told = "sent" /\ pe.told # "sent" => prl.tch \notin {"none", "Wait"}
           /\ \/ prl'.tch = "Wait"
              \/ prl'.tch = prl.tch /\ SameChunk
              \/ prl.tch = "Sending" /\ SameChunk
              \/ ChunkIsOfPe'
<1>1. pe \in Engines /\ buf \in Buffers /\ prl \in Layers
  BY DEF TypeInv
<1>2. ASSUME NEW p \in Engines, NEW f, TchReceived(p, f) \/ \E r : TchEnd(p, f, r)
      PROVE  /\ buf' = buf /\ prl'.tch = "Wait" /\ pe'.sent = p.sent
             /\ pe'.told = "sent" => p.told = "sent"
  <2>1. pe' = p \/ pe' = HearsDiscard(p)
    BY <1>2 DEF TchReceived, TchEnd, DropsEnqueued
  <2>2. buf' = buf /\ prl'.tch = "Wait"
    <3>1. CASE TchReceived(p, f)
      BY <1>1, <3>1 DEF TchReceived, Layers
    <3>2. CASE \E r : TchEnd(p, f, r)
      <4>1. PICK r : TchEnd(p, f, r)
        BY <3>2
      <4>2. buf' = buf /\ prl' = Restarted([prl EXCEPT !.tch = "Wait"], r)
        BY <4>1 DEF TchEnd
      <4> QED
        BY <1>1, <4>2 DEF Restarted, Layers
    <3> QED
      BY <1>2, <3>1, <3>2
  <2> QED
    BY <2>1, <2>2, Reports
<1>3. ASSUME NEW p \in {pe, HearsDiscard(pe)}, NEW f, TchReceived(p, f)
      PROVE  SameMessage /\ prl'.tch = "Wait" /\ (pe'.told = "sent" => pe.told = "sent")
  BY <1>1, <1>2, <1>3, HearsDiscardType, Reports DEF SameMessage
<1>4. ASSUME NEW f, TchSent(f)
      PROVE  SameMessage /\ prl'.tch = "Wait"
  BY <1>1, <1>2, <1>4, HearsSentType, Reports DEF TchSent, SameMessage
<1>5. ASSUME NEW f, TchReportError(f)
      PROVE  SameMessage /\ prl'.tch = "Wait" /\ pe'.told # "sent"
  <2>1. PICK r \in MayRestart(pe) : TchEnd(HearsError(pe, r), f, r)
    BY <1>5 DEF TchReportError
  <2>2. HearsError(pe, r) \in Engines
    BY <1>1, HearsErrorType DEF MayRestart
  <2> QED
    BY <1>1, <1>2, <2>1, <2>2, Reports DEF SameMessage
<1>6. ASSUME NEW n, NEW f, SendChunk(n, f)
      PROVE  SameMessage /\ pe' = pe /\ ChunkIsOfPe'
  <2>1. /\ buf' = [buf EXCEPT !.tx_chunk = [kind |-> buf.tx_emsg.kind, n |-> n, id |-> 0,
                                            serial |-> buf.tx_emsg.serial]]
        /\ pe' = pe
    BY <1>6 DEF SendChunk
  <2>2. buf'.tx_emsg = buf.tx_emsg /\ buf.tx_emsg.kind # "req"
    BY <1>1, <2>1 DEF Buffers, Messages
  <2>3. buf'.tx_chunk.kind = buf.tx_emsg.kind /\ buf'.tx_chunk.serial = buf.tx_emsg.serial
    BY <1>1, <2>1 DEF Buffers
  <2> QED
    BY <2>1, <2>2, <2>3 DEF SameMessage, ChunkIsOfPe
<1>7. CASE TchIdle \/ TchAwaitTx \/ TchTransmitting \/ TchAwaitRequest
  BY <1>7 DEF TchIdle, TchAwaitTx, TchTransmitting, TchAwaitRequest, Pass, SameMessage, SameChunk
<1>8. CASE TchHandOver \/ TchInterrupted \/ TchAborted
  BY <1>3, <1>8 DEF TchHandOver, TchInterrupted, TchAborted, TchAnswered
<1>9. CASE TchRefuse
  <2>1. pe' = HearsDiscard(pe) /\ buf' = buf /\ prl' = prl
    BY <1>9 DEF TchRefuse
  <2> QED
    BY <1>1, <2>1, Reports DEF SameMessage, SameChunk
<1>10. CASE TchSendFirst \/ TchSendNext
  BY <1>6, <1>10 DEF TchSendFirst, TchSendNext
<1>11. CASE TchFailed \/ TchWrongRequest
  BY <1>5, <1>11 DEF TchFailed, TchWrongRequest
<1>12. CASE TchMessageSent \/ TchLastChunkSent \/ TchTimeout
  <2>1. prl.tch \in {"Wait_Transmission", "Sending", "Wait_Request"}
    BY <1>12 DEF TchMessageSent, TchLastChunkSent, TchChunkSent, TchTimeout, TchAt
  <2>2. \E f : TchSent(f) \/ TchReportError(f)
    BY <1>12 DEF TchMessageSent, TchLastChunkSent, TchTimeout
  <2> QED
    BY <1>4, <1>5, <2>1, <2>2
<1>13. CASE TchOneChunkSent
  BY <1>13 DEF TchOneChunkSent, TchChunkSent, TchAt, SameMessage, SameChunk
<1> QED
  BY <1>7, <1>8, <1>9, <1>10, <1>11, <1>12, <1>13 DEF Tch

LEMMA AwaitPe ==
    ASSUME TypeInv, AwaitInv, Pe
    PROVE  /\ buf'.tx_emsg.serial = pe'.sent /\ SameChunk
           /\ pe'.told = "sent" => pe.told = "sent"
           /\ Enqueued' \/ SameMessage
<1>1. pe \in Engines /\ buf \in Buffers
  BY DEF TypeInv
<1>2. ASSUME NEW kind, NEW p \in Engines, p.sent = pe.sent, Enqueue(kind, p)
      PROVE  /\ buf'.tx_emsg.serial = pe'.sent /\ SameChunk
             /\ pe'.told = "none" /\ Enqueued'
  <2>1. buf' = [buf EXCEPT !.tx_emsg = [kind |-> kind, serial |-> pe.sent + 1]]
    BY <1>2 DEF Enqueue
  <2>2. pe'.sent = p.sent + 1 /\ pe'.told = "none" /\ Enqueued'
    BY <1>2 DEF Enqueue, Engines, Enqueued
  <2>3. buf'.tx_emsg.serial = pe.sent + 1 /\ SameChunk
    BY <1>1, <2>1 DEF SameChunk, Buffers
  <2> QED
    BY <1>2, <2>2, <2>3
<1>3. CASE PeAccept \/ PeSendSoftReset
           \/ \E kind \in {"ctl", "ext"} :
                PeReply(kind) \/ \E ams \in {"no", "new"} : PeBegin(kind, ams)
  <2> DEFINE Same(p) == p \in Engines /\ p.sent = pe.sent
  <2>1. /\ Same(pe)
        /\ Same([pe EXCEPT !.accept = FALSE, !.mode = "run"])
        /\ Same([pe EXCEPT !.mode = "run"])
        /\ \A ams \in {"no", "new"} : Same([pe EXCEPT !.ams = ams])
    BY <1>1 DEF Engines
  <2>2. \E kind : \/ Enqueue(kind, pe)
                  \/ Enqueue(kind, [pe EXCEPT !.accept = FALSE, !.mode = "run"])
                  \/ Enqueue(kind, [pe EXCEPT !.mode = "run"])
                  \/ \E ams \in {"no", "new"} : Enqueue(kind, [pe EXCEPT !.ams = ams])
    BY <1>3 DEF PeAccept, PeSendSoftReset, PeReply, PeBegin
  <2> QED
    BY <1>2, <2>1, <2>2
<1>4. CASE PeWait \/ PeOff \/ PeStartup \/ PeStarted \/ PeEndAms \/ PeSoftReset \/ PeHardReset \/ PeDefault
  <2>1. buf' = buf
    BY <1>4 DEF PeWait, PeOff, PeStartup, PeStarted, PeEndAms, PeSoftReset, PeHardReset, PeDefault
  <2>2. pe'.sent = pe.sent /\ pe'.told = pe.told
    <3>1. CASE PeWait \/ PeOff \/ PeStartup \/ PeStarted
      BY <1>1, <3>1 DEF PeWait, PeOff, PeStartup, PeStarted, Engines
    <3>2. CASE PeEndAms \/ PeSoftReset \/ PeHardReset \/ PeDefault
      BY <1>1, <3>2 DEF PeEndAms, PeSoftReset, PeHardReset, PeDefault, Engines
    <3> QED
      BY <1>4, <3>1, <3>2
  <2> QED
    BY <2>1, <2>2 DEF SameMessage, SameChunk, AwaitInv
<1> QED
  BY <1>3, <1>4 DEF Pe

\* PRL_HR, the driver and the partner tell PE of no message sent.
LEMMA AwaitElse ==
    ASSUME TypeInv, \/ InitLayer \/ Disable \/ Hr \/ TickStart \/ Cable
                    \/ Driver \/ TxFails \/ MeasureCc \/ Partner
    PROVE  SameMessage /\ SameChunk /\ pe'.told = pe.told
<1>1. pe \in Engines
  BY DEF TypeInv
<1>2. CASE InitLayer \/ Disable \/ TickStart \/ Cable
  BY <1>2 DEF InitLayer, Disable, TickStart, Cable, SameMessage, SameChunk
<1>3. CASE HrIdle \/ HrWait \/ HrResetLayer \/ HrRequest \/ HrRequested
  BY <1>3 DEF HrIdle, HrWait, HrResetLayer, HrRequest, HrRequested, SameMessage, SameChunk
<1>4. CASE HrIndicate \/ HrSent
  <2>1. buf' = buf
    BY <1>4 DEF HrIndicate, HrSent
  <2>2. pe'.sent = pe.sent /\ pe'.told = pe.told
    BY <1>1, <1>4 DEF HrIndicate, HrSent, HearsHardResetSent, Engines
  <2> QED
    BY <2>1, <2>2 DEF SameMessage, SameChunk
<1>5. CASE Driver \/ TxFails \/ MeasureCc \/ Partner
  BY <1>5, FrameOutside DEF SameMessage, SameChunk
<1> QED
  BY <1>2, <1>3, <1>4, <1>5 DEF Hr

LEMMA AwaitStep ==
    ASSUME Settled, WorkInv, WorkInv', AwaitInv, [Next]_sysVars PROVE AwaitInv'
<1>1. TypeInv /\ OwnerInv
  BY DEF Settled
<1>2. ASSUME SameMessage, SameChunk, ChunkIsOfPe PROVE ChunkIsOfPe'
  BY <1>2 DEF SameMessage, SameChunk, ChunkIsOfPe
<1>3. ASSUME SameMessage PROVE buf'.tx_emsg.serial = pe'.sent
  BY <1>3 DEF SameMessage, AwaitInv
<1>4. CASE UNCHANGED sysVars
  BY <1>4 DEF sysVars, vars, AwaitInv, Live, ChunkIsOfPe
<1>5. CASE InitLayer
  <2>1. prl'.tch = "Wait"
    BY <1>1, <1>5 DEF InitLayer, Ready, TypeInv, Layers
  <2> QED
    BY <1>1, <1>3, <1>5, <2>1, AwaitElse DEF AwaitInv
<1>6. CASE Disable \/ Hr \/ TickStart \/ Cable
  <2>1. Live' => Live /\ prl'.tch = prl.tch
    <3>1. CASE TickStart \/ Cable
      BY <3>1 DEF TickStart, Cable, At, Live
    <3>2. CASE HrIdle
      BY <1>1, <3>2 DEF HrIdle, HrTurn, Live
    <3>3. CASE Disable \/ HrWait \/ HrResetLayer \/ HrIndicate \/ HrRequest \/ HrRequested \/ HrSent
      <4>1. loop'.at = "rest" /\ (prl'.local # "WORKING" \/ prl'.hr # "IDLE")
        BY <1>1, <3>3 DEF Disable, HrWait, HrWaiting, HrResetLayer, HrIndicate, HrRequest,
                          HrRequested, HrSent, EndTick, TypeInv, Layers
      <4> QED
        BY <4>1 DEF Live
    <3> QED
      BY <1>6, <3>1, <3>2, <3>3 DEF Hr
  <2> QED
    BY <1>1, <1>2, <1>3, <1>6, <2>1, AwaitElse DEF AwaitInv
<1>7. CASE Driver \/ TxFails \/ MeasureCc \/ Partner
  <2>1. prl' = prl /\ (Live' => Live)
    BY <1>1, <1>7, FrameOutside DEF Live
  <2> QED
    BY <1>1, <1>2, <1>3, <1>7, <2>1, AwaitElse DEF AwaitInv
<1>8. CASE Tx
  <2>1. Live /\ prl'.tch = prl.tch
    BY <1>1, <1>8, FrameTx DEF Live
  <2> QED
    BY <1>1, <1>2, <1>3, <1>8, <2>1, AwaitTx DEF AwaitInv
<1>9. CASE Rx
  <2>1. Live
    BY <1>1, <1>9, FrameRx DEF Live
  <2>2. SameMessage
    BY <1>1, <1>9, AwaitRx
  <2>3. prl'.tch = "Wait" \/ (prl'.tch = prl.tch /\ SameChunk)
    BY <1>1, <1>9, AwaitRx
  <2> QED
    BY <1>2, <1>3, <2>1, <2>2, <2>3 DEF AwaitInv
<1>10. CASE Rch \/ RchTimeout
  <2>1. Live /\ prl'.tch = prl.tch
    BY <1>1, <1>10, FrameRch DEF Live
  <2>2. SameMessage /\ (SameChunk \/ prl.tch = "Wait")
    BY <1>1, <1>10, AwaitRch
  <2> QED
    BY <1>2, <1>3, <2>1, <2>2 DEF AwaitInv
<1>11. CASE Tch \/ TchTimeout
  <2>1. Live
    BY <1>1, <1>11, FrameTch DEF Live
  <2>2. /\ SameMessage
        /\ \/ prl'.tch = "Wait"
           \/ prl'.tch = prl.tch /\ SameChunk
           \/ prl.tch = "Sending" /\ SameChunk
           \/ ChunkIsOfPe'
    BY <1>1, <1>11, AwaitTch
  <2> QED
    BY <1>2, <1>3, <2>1, <2>2 DEF AwaitInv
<1>12. CASE Pe
  <2>1. /\ buf'.tx_emsg.serial = pe'.sent /\ SameChunk
        /\ Enqueued' \/ SameMessage
    BY <1>1, <1>12, AwaitPe
  <2>2. Live' /\ Enqueued' => prl'.tch = "Wait"
    BY DEF WorkInv, ReplyInv
  <2>3. Live' => Live /\ prl'.tch = prl.tch
    <3>1. loop.at = "pe" /\ loop'.at = "prl" /\ prl'.hr = prl.hr /\ prl'.tch = prl.tch
      BY <1>1, <1>12, FramePe
    <3>2. prl'.local = prl.local \/ prl'.local = "INIT"
      BY <1>1, <1>12
      DEF Pe, PeWait, PeOff, PeStartup, PeStarted, PeEndAms, PeAccept, PeSoftReset,
          PeSendSoftReset, PeHardReset, PeDefault, PeReply, PeBegin, Enqueue, TypeInv, Layers
    <3> QED
      BY <3>1, <3>2 DEF Live
  <2> QED
    BY <1>2, <2>1, <2>2, <2>3 DEF AwaitInv
<1> QED
  BY <1>4, <1>5, <1>6, <1>7, <1>8, <1>9, <1>10, <1>11, <1>12
  DEF Next, Tick, PrlStep, PrlNext, Timeouts

\* TCH reports a message as sent only when it has one.
LEMMA SentByTch ==
    ASSUME Settled, AwaitInv, Next, pe'.told = "sent", pe.told # "sent"
    PROVE  Live /\ prl.tch \notin {"none", "Wait"}
<1>1. TypeInv /\ OwnerInv
  BY DEF Settled
<1>2. Tch \/ TchTimeout
  BY <1>1, AwaitElse, AwaitTx, AwaitRx, AwaitRch, AwaitPe
  DEF Next, Tick, PrlStep, PrlNext, Timeouts
<1> QED
  BY <1>1, <1>2, AwaitTch, FrameTch DEF Live

\* Whatever the driver, the partner and the cable do, a message PE hears was sent is the
\* one it enqueued last, and PRL_Tx had a chunk of that one when the report was made: a
\* message PE had given up on is never taken for it, nor is a request of RCH's.
THEOREM SentIsOfTheLatest == HardResetsEnd /\ Spec => SentIsAwaited
<1> SUFFICES ASSUME HardResetsEnd PROVE Spec => SentIsAwaited
  OBVIOUS
<1> DEFINE IInv == Settled /\ WorkInv /\ AwaitInv
<1>1. Init => IInv
  <2> SUFFICES ASSUME Init PROVE AwaitInv
    BY SettledInit
  <2> QED
    BY DEF Init, Live, AwaitInv
<1>2. IInv /\ [Next]_sysVars => IInv'
  BY SettledStep, WorkStep, AwaitStep
<1>3. IInv /\ [Next]_sysVars =>
        [ (pe'.told = "sent" /\ pe.told # "sent") =>
              buf.tx_chunk.kind # "req" /\ buf.tx_chunk.serial = pe.sent ]_sysVars
  <2> SUFFICES ASSUME IInv, Next, pe'.told = "sent", pe.told # "sent"
               PROVE  buf.tx_chunk.kind # "req" /\ buf.tx_chunk.serial = pe.sent
    OBVIOUS
  <2>1. Live /\ prl.tch \notin {"none", "Wait"}
    BY SentByTch
  <2> QED
    BY <2>1 DEF AwaitInv, ChunkIsOfPe
<1> HIDE DEF IInv
<1> QED
  BY <1>1, <1>2, <1>3, PTL DEF Spec, SentIsAwaited

=============================================================================
