-------------------------------- MODULE Prl --------------------------------
(***************************************************************************)
(* The protocol layer (src/src/pd/prl.cpp, prl_defs.h): the five state     *)
(* machines PRL_HR, PRL_Tx, PRL_Rx, PRL_RCH and PRL_TCH, run in a fixed    *)
(* order by PRL_EventListener::on_receive(MsgSysUpdate) in every pass      *)
(* ("tick") of the event loop.  One action is one run() of one machine,    *)
(* with all the states it passes through on the way: states that leave     *)
(* themselves in on_enter_state() never rest and have no value here.       *)
(*                                                                         *)
(* Around it: the driver's side of the shared variables is in `tcpc` and   *)
(* `status`, what PE knows is in `pe`.  Their own steps are in PrlSystem.  *)
(***************************************************************************)
EXTENDS Integers, Sequences

CONSTANTS
    NChunks,     \* chunks in an extended message (code: at most 10)
    IdMod,       \* message ids are counted modulo this (code: 8)
    AutoRetry,   \* get_hw_features().tx_auto_retry
    MaxRetries,  \* port.max_retries() (code: 2 or 3)
    SoftResets,  \* PE may send a Soft_Reset, of itself or after an error
    MaxPeMsgs    \* bound: messages PE starts

ASSUME NChunksAssumption == NChunks \in Nat \ {0}
ASSUME IdModAssumption == IdMod \in Nat \ {0}
ASSUME AutoRetryAssumption == AutoRetry \in BOOLEAN
ASSUME MaxRetriesAssumption == MaxRetries \in Nat
ASSUME SoftResetsAssumption == SoftResets \in BOOLEAN
ASSUME MaxPeMsgsAssumption == MaxPeMsgs \in Nat

VARIABLES
    loop,    \* at: who runs next in the tick; event: another tick is due
    attached,\* port.is_attached, set by TC
    prl,     \* local_state and the states of the five machines
    flags,   \* prl_hr_flags, prl_tx_flags, prl_rch_flags, prl_tch_flags
    num,     \* tx_msg_id_counter, rx_msg_id_stored, the chunk numbers, retries
    buf,     \* tx_emsg, tx_chunk, rx_chunk, rx_emsg
    status,  \* port.tcpc_tx_status
    tcpc,    \* the driver: its pending calls, its queues and what is on air
    pe       \* the policy engine, as far as PRL can tell

vars == <<loop, attached, prl, flags, num, buf, status, tcpc, pe>>

NoId == -1                  \* rx_msg_id_stored after a reset
HrFlags == {"HARD_RESET_FROM_PARTNER", "HARD_RESET_FROM_PE"}
TxFlags == {"START_OF_AMS", "TX_CHUNK_ENQUEUED", "TX_COMPLETED", "TX_ERROR"}
RchFlags == {"RX_ENQUEUED"}
TchFlags == {"MSG_FROM_PE_ENQUEUED", "CHUNK_FROM_RX"}
Outputs == {"TX_COMPLETED", "TX_ERROR"}    \* what PRL_Tx tells RCH and TCH

\* Wrong: without the repeated calls of TCH, "to catch edge case".
AfterTchOnce == [pe |-> "prl", prl |-> "tx0", tx0 |-> "rx", rx |-> "rch1",
                 rch1 |-> "tch1", tch1 |-> "tx1", tx1 |-> "rch2", rch2 |-> "rest"]

\* The order of the machines in a tick.
After == [pe |-> "prl", prl |-> "tx0", tx0 |-> "rx", rx |-> "rch1",
          rch1 |-> "tch1", tch1 |-> "tx1", tx1 |-> "tch2", tch2 |-> "tch3",
          tch3 |-> "rch2", rch2 |-> "rest"]

At(places) == loop.at \in places

\* Wrong: request_wakeup() has no effect.
AdvanceAsleep(wake) == loop' = [loop EXCEPT !.at = After[@]]

\* Hand over to the next machine; request_wakeup() if wake.
Advance(wake) ==
    loop' = [at |-> After[loop.at], event |-> loop.event \/ wake]

\* Leave the tick early; the deferred wakeup is still sent.
EndTick(wake) == loop' = [at |-> "rest", event |-> loop.event \/ wake]

\* Nothing to do for the machine whose turn it is.
Pass ==
    /\ Advance(FALSE)
    /\ UNCHANGED <<attached, prl, flags, num, buf, status, tcpc, pe>>

-----------------------------------------------------------------------------
(* PE's listener: what each report of PRL does to PE at once *)

HearsSent(p) == [p EXCEPT !.out = "none", !.told = "sent",
                          !.ams = IF @ = "new" THEN "open" ELSE @]
HearsDiscard(p) == [p EXCEPT !.out = "none", !.told = "discard"]
HearsMessage(p, m) == [p EXCEPT !.accept = @ \/ m.kind = "soft",
                                !.reply = @ \/ m.kind # "soft", !.heard = m.first,
                                !.again = @ \/ m.first <= p.heard]

\* An error ends in PE's flags, or makes PE enter Send_Soft_Reset, which drops
\* a message just received and calls back into PRL in the middle of the tick:
\* EnqueueRestart.
MayRestart(p) ==
    {r \in BOOLEAN : r => SoftResets /\ p.mode = "run" /\ p.sent < MaxPeMsgs}
HearsError(p, restart) ==
    [p EXCEPT !.out = "none", !.told = "error",
              !.mode = IF restart THEN "soft" ELSE @,
              !.reply = @ /\ ~restart, !.accept = @ /\ ~restart]
Restarted(p, restart) == [p EXCEPT !.local = IF restart THEN "INIT" ELSE @]

-----------------------------------------------------------------------------
(* PRL::init, PRL_EventListener *)

\* The resets that init() and a received Soft_Reset have in common.  Entering
\* PRL_Tx_PHY_Layer_Reset ends in Wait_Request with req_rx_enable(true).
Ready(p) == [p EXCEPT !.rch = "Wait", !.tch = "Wait", !.tx = "Wait_Request"]
ResetIds(n) == [n EXCEPT !.tx = 0, !.rx = NoId]

\* Wrong: the flags survive a restart.
KeptFlags == flags
ClearedFlags == {}

InitLayer ==
    /\ At({"prl"})
    /\ prl.local = "INIT" \/ (prl.local = "DISABLED" /\ attached)
    /\ prl' = [Ready(prl) EXCEPT !.local = "WORKING", !.hr = "IDLE"]
    /\ flags' = ClearedFlags
    /\ status' = "UNSET"
    /\ num' = [ResetIds(num) EXCEPT !.retry = 0]
    /\ tcpc' = [tcpc EXCEPT !.rx_enable = "on"]
    /\ loop' = [loop EXCEPT !.event = TRUE]
    /\ UNCHANGED <<attached, buf, pe>>

Disable ==
    /\ At({"prl"})
    /\ ~attached /\ prl.local # "INIT"
    /\ IF prl.local = "WORKING"
         THEN /\ prl' = [prl EXCEPT !.local = "DISABLED"]
              /\ tcpc' = [tcpc EXCEPT !.rx_enable = "off"]
         ELSE UNCHANGED <<prl, tcpc>>
    /\ EndTick(FALSE)
    /\ UNCHANGED <<attached, flags, num, buf, status, pe>>

-----------------------------------------------------------------------------
(* PRL_HR.  A tick goes on to the other machines only in IDLE.  Its last     *)
(* state, PE_Hard_Reset_Complete, is never reached: PE sends PEHardResetDone *)
(* and EnqueueRestart together, and init() comes first.                      *)

HrTurn == At({"prl"}) /\ prl.local = "WORKING" /\ attached

HrIdle ==
    /\ HrTurn /\ prl.hr = "IDLE" /\ flags \cap HrFlags = {}
    /\ Advance(FALSE)
    /\ UNCHANGED <<attached, prl, flags, num, buf, status, tcpc, pe>>

\* Where a machine waits, the tick ends.
HrWaiting ==
    \/ prl.hr = "Reset_Layer" /\ tcpc.rx_enable # "idle"
    \/ prl.hr = "Request" /\ tcpc.hr_send
    \/ prl.hr = "Wait_PHY" /\ status \notin {"SUCCEEDED", "FAILED"}
    \/ prl.hr = "Wait_PE"

HrWait ==
    /\ HrTurn /\ HrWaiting
    /\ EndTick(FALSE)
    /\ UNCHANGED <<attached, prl, flags, num, buf, status, tcpc, pe>>

HrResetLayer ==
    /\ HrTurn /\ prl.hr = "IDLE" /\ flags \cap HrFlags # {}
    /\ prl' = [prl EXCEPT !.hr = "Reset_Layer"]
    /\ tcpc' = [tcpc EXCEPT !.rx_enable = "off"]
    /\ EndTick(FALSE)
    /\ UNCHANGED <<attached, flags, num, buf, status, pe>>

\* Indicate_Hard_Reset: PE changes to Transition_to_default at once.
HrIndicate ==
    /\ HrTurn /\ prl.hr = "Reset_Layer" /\ tcpc.rx_enable = "idle"
    /\ "HARD_RESET_FROM_PARTNER" \in flags
    /\ prl' = [prl EXCEPT !.hr = "Wait_PE"]
    /\ pe' = [pe EXCEPT !.mode = IF @ = "off" THEN @ ELSE "default",
                        !.out = "none", !.ams = "no"]
    /\ EndTick(TRUE)
    /\ UNCHANGED <<attached, flags, num, buf, status, tcpc>>

HrRequest ==
    /\ HrTurn /\ prl.hr = "Reset_Layer" /\ tcpc.rx_enable = "idle"
    /\ "HARD_RESET_FROM_PARTNER" \notin flags
    /\ prl' = [prl EXCEPT !.hr = "Request"]
    /\ tcpc' = [tcpc EXCEPT !.hr_send = TRUE]
    /\ EndTick(FALSE)
    /\ UNCHANGED <<attached, flags, num, buf, status, pe>>

HrRequested ==
    /\ HrTurn /\ prl.hr = "Request" /\ ~tcpc.hr_send
    /\ prl' = [prl EXCEPT !.hr = "Wait_PHY"]
    /\ EndTick(FALSE)
    /\ UNCHANGED <<attached, flags, num, buf, status, tcpc, pe>>

\* Wrong: PE is told only of a hard reset the driver reports as sent.
HardResetDone(p) == [p EXCEPT !.mode = IF @ = "hr" /\ status = "SUCCEEDED" THEN "hr_sent" ELSE @]
HearsHardResetSent(p) == [p EXCEPT !.mode = IF @ = "hr" THEN "hr_sent" ELSE @]

\* PHY_Hard_Reset_Requested: sent, failed, or tHardResetComplete expired.
HrSent ==
    /\ HrTurn /\ prl.hr = "Wait_PHY"
    /\ prl' = [prl EXCEPT !.hr = "Wait_PE"]
    /\ pe' = HearsHardResetSent(pe)
    /\ EndTick(TRUE)
    /\ UNCHANGED <<attached, flags, num, buf, status, tcpc>>

-----------------------------------------------------------------------------
(* PRL_Tx: runs twice, the first time only to notice a finished transfer *)

TxTurn == At({"tx1"}) \/ (At({"tx0"}) /\ status = "SUCCEEDED")

\* Wrong: the counter does not wrap.
NextIdUnbounded(n) == [n EXCEPT !.tx = @ + 1]
NextId(n) == [n EXCEPT !.tx = (@ + 1) % IdMod]

\* Construct_Message, which hands a copy of tx_chunk to the driver.
Construct(n, f) ==
    /\ num' = n
    /\ flags' = f \ (Outputs \cup {"TX_CHUNK_ENQUEUED"})
    /\ buf' = [buf EXCEPT !.tx_chunk.id = n.tx]
    /\ status' = "ENQUEUED"
    /\ tcpc' = [tcpc EXCEPT !.chunk = buf'.tx_chunk]
    /\ prl' = [prl EXCEPT !.tx = "Wait_PHY"]
    /\ Advance(FALSE)
    /\ UNCHANGED <<attached, pe>>

\* A Soft_Reset passes through Layer_Reset_for_Transmit.
ConstructEnqueued(f) ==
    Construct(IF buf.tx_chunk.kind = "soft" THEN ResetIds(num) ELSE num, f)

\* Snk_Pending.on_enter for anything but a Soft_Reset.
AskSinkTx(f) ==
    /\ prl' = [prl EXCEPT !.tx = "Snk_Pending"]
    /\ tcpc' = [tcpc EXCEPT !.active_cc = TRUE]
    /\ flags' = f
    /\ Advance(FALSE)
    /\ UNCHANGED <<attached, num, buf, status, pe>>

\* Snk_Start_of_AMS, left as soon as there is a chunk.
SnkStart(f) ==
    IF "TX_CHUNK_ENQUEUED" \notin f
      THEN /\ prl' = [prl EXCEPT !.tx = "Snk_Start"]
           /\ flags' = f
           /\ Advance(FALSE)
           /\ UNCHANGED <<attached, num, buf, status, tcpc, pe>>
      ELSE IF buf.tx_chunk.kind = "soft" THEN ConstructEnqueued(f)
                                         ELSE AskSinkTx(f)

TxHeld ==
    /\ TxTurn /\ prl.tx = "Wait_Request" /\ tcpc.rx_enable # "idle"
    /\ Pass

TxReady == TxTurn /\ prl.tx = "Wait_Request" /\ tcpc.rx_enable = "idle"

\* The flags once START_OF_AMS follows what PE is doing.
AmsMarked == IF pe.ams = "no" THEN flags \ {"START_OF_AMS"} ELSE flags \cup {"START_OF_AMS"}

TxStartOfAms ==
    /\ TxReady /\ AmsMarked \ flags # {}
    /\ SnkStart(AmsMarked)

TxTakeChunk ==
    /\ TxReady /\ AmsMarked \subseteq flags
    /\ "TX_CHUNK_ENQUEUED" \in flags
    /\ ConstructEnqueued(AmsMarked)

TxNothing ==
    /\ TxReady /\ AmsMarked \subseteq flags
    /\ "TX_CHUNK_ENQUEUED" \notin flags
    /\ flags' = AmsMarked
    /\ Advance(FALSE)
    /\ UNCHANGED <<attached, prl, num, buf, status, tcpc, pe>>

TxSnkStart ==
    /\ TxTurn /\ prl.tx = "Snk_Start"
    /\ SnkStart(flags)

SinkTxOK == ~tcpc.active_cc /\ tcpc.cc = "SinkTxOK"

TxSnkPending ==
    /\ TxTurn /\ prl.tx = "Snk_Pending" /\ SinkTxOK
    /\ Construct(num, flags)

\* Wait for the measurement, and for tActiveCcPollingDebounce after a bad one.
TxSnkWait ==
    /\ TxTurn /\ prl.tx = "Snk_Pending" /\ ~SinkTxOK
    /\ Pass

TxPollCc ==
    /\ TxTurn /\ prl.tx = "Snk_Pending"
    /\ ~tcpc.active_cc /\ tcpc.cc # "SinkTxOK"
    /\ tcpc' = [tcpc EXCEPT !.active_cc = TRUE]
    /\ Advance(FALSE)
    /\ UNCHANGED <<attached, prl, flags, num, buf, status, pe>>

\* Message_Sent and Transmission_Error: the id moves on either way.
TxOutcome(output) ==
    /\ prl' = [prl EXCEPT !.tx = "Wait_Request"]
    /\ flags' = flags \cup {output}
    /\ num' = [NextId(num) EXCEPT !.retry = 0]
    /\ status' = "UNSET"
    /\ Advance(TRUE)
    /\ UNCHANGED <<attached, buf, tcpc, pe>>

TxSent ==
    /\ TxTurn /\ prl.tx = "Wait_PHY" /\ status = "SUCCEEDED"
    /\ TxOutcome("TX_COMPLETED")

TxFailed == TxTurn /\ prl.tx = "Wait_PHY" /\ status = "FAILED"

\* Check_RetryCounter
TxGiveUp ==
    /\ TxFailed /\ (AutoRetry \/ num.retry >= MaxRetries)
    /\ TxOutcome("TX_ERROR")

TxRetry ==
    /\ TxFailed /\ ~AutoRetry /\ num.retry < MaxRetries
    /\ Construct([num EXCEPT !.retry = @ + 1], flags)

TxWaitPhy ==
    /\ TxTurn /\ prl.tx = "Wait_PHY" /\ status \notin {"SUCCEEDED", "FAILED"}
    /\ Pass

\* Wrong: a chunk already with the driver does not count.
ChunkEnqueued == "TX_CHUNK_ENQUEUED" \in flags
ChunkInProgress == "TX_CHUNK_ENQUEUED" \in flags \/ status \in {"ENQUEUED", "SENDING"}

\* Wrong: the next chunk gets the id of the discarded one.
SameId(n) == [n EXCEPT !.retry = 0]
DiscardedId(n) == [NextId(n) EXCEPT !.retry = 0]

\* Discard_Message, then PHY_Layer_Reset.
Discard ==
    /\ TxTurn /\ prl.tx = "Discard"
    /\ prl' = [prl EXCEPT !.tx = "Wait_Request"]
    /\ flags' = flags \ {"TX_CHUNK_ENQUEUED"}
    /\ status' = "UNSET"
    /\ tcpc' = [tcpc EXCEPT !.rx_enable = "on"]
    /\ UNCHANGED <<attached, buf>>

TxDiscard ==
    /\ Discard /\ ChunkInProgress
    /\ num' = DiscardedId(num)
    /\ pe' = HearsDiscard(pe)
    /\ Advance(TRUE)

\* The transfer has ended since, one way or the other.
TxDiscardNothing ==
    /\ Discard /\ ~ChunkInProgress
    /\ num' = [num EXCEPT !.retry = 0]
    /\ Advance(FALSE)
    /\ UNCHANGED pe

TxSkip == At({"tx0"}) /\ status # "SUCCEEDED" /\ Pass

-----------------------------------------------------------------------------
(* PRL_Rx *)

\* A message is already on its way to RCH: look again in the next tick.
RxPostpone ==
    /\ At({"rx"}) /\ "RX_ENQUEUED" \in flags
    /\ Advance(TRUE)
    /\ UNCHANGED <<attached, prl, flags, num, buf, status, tcpc, pe>>

RxEmpty ==
    /\ At({"rx"}) /\ "RX_ENQUEUED" \notin flags /\ tcpc.rx_queue = <<>>
    /\ Pass

\* fetch_rx_data()
Fetch ==
    /\ At({"rx"}) /\ "RX_ENQUEUED" \notin flags /\ tcpc.rx_queue # <<>>
    /\ buf' = [buf EXCEPT !.rx_chunk = Head(tcpc.rx_queue)]

Popped == [tcpc EXCEPT !.rx_queue = Tail(@)]

\* Layer_Reset_for_Receive; the id is then new, TCH idle, and RCH gets it.
RxSoftReset ==
    /\ Fetch /\ buf'.rx_chunk.kind = "soft"
    /\ prl' = Ready(prl)
    /\ flags' = (flags \cap HrFlags) \cup {"RX_ENQUEUED"}
    /\ status' = "UNSET"
    /\ num' = [num EXCEPT !.tx = 0, !.rx = buf'.rx_chunk.id, !.retry = 0]
    /\ tcpc' = [Popped EXCEPT !.rx_enable = "on"]
    /\ Advance(FALSE)
    /\ UNCHANGED <<attached, pe>>

\* Wrong: no message is a repetition.
NeverSeen(c) == c.id = NoId
Repetition(c) == c.id = num.rx

\* Check_MessageID drops a repetition; a Ping is stored and dropped.
RxDrop ==
    /\ Fetch /\ buf'.rx_chunk.kind # "soft"
    /\ Repetition(buf'.rx_chunk) \/ buf'.rx_chunk.kind = "ping"
    /\ num' = [num EXCEPT !.rx = buf'.rx_chunk.id]
    /\ tcpc' = Popped
    /\ Advance(FALSE)
    /\ UNCHANGED <<attached, prl, flags, status, pe>>

\* Store_MessageID: interrupt a transmission, and route to TCH or RCH.
RxStore ==
    /\ Fetch /\ buf'.rx_chunk.kind \notin {"soft", "ping"}
    /\ ~Repetition(buf'.rx_chunk)
    /\ num' = [num EXCEPT !.rx = buf'.rx_chunk.id]
    /\ prl' = IF (status \notin {"UNSET", "SUCCEEDED"}) \/ "TX_CHUNK_ENQUEUED" \in flags
                THEN [prl EXCEPT !.tx = "Discard"] ELSE prl
    /\ flags' = flags \cup
         {IF "MSG_FROM_PE_ENQUEUED" \in flags \/ prl.tch # "Wait"
            THEN "CHUNK_FROM_RX" ELSE "RX_ENQUEUED"}
    /\ tcpc' = Popped
    /\ Advance(FALSE)
    /\ UNCHANGED <<attached, status, pe>>

-----------------------------------------------------------------------------
(* Chunking.  A partner's message of kind "ext" is chunk n of an extended    *)
(* message, one of kind "req" asks for chunk n of ours.                      *)

\* prl_tx_enqueue_chunk(), with tx_chunk filled in.
EnqueueChunk(chunk, f) ==
    /\ buf'.tx_chunk = chunk
    /\ flags' = (f \ Outputs) \cup {"TX_CHUNK_ENQUEUED"}
    /\ status' = "UNSET"
    /\ Advance(TRUE)

RchTurn == At({"rch1", "rch2"})

\* RCH_Pass_Up_Message
PassUp(emsg, f) ==
    /\ buf' = [buf EXCEPT !.rx_emsg = emsg]
    /\ flags' = f
    /\ pe' = HearsMessage(pe, buf.rx_chunk)
    /\ prl' = [prl EXCEPT !.rch = "Wait"]
    /\ Advance(TRUE)
    /\ UNCHANGED <<status>>

\* RCH_Report_Error: a message still enqueued is passed up first.
RchReportError(f) ==
    LET forward == "RX_ENQUEUED" \in f
        p == IF forward THEN HearsMessage(pe, buf.rx_chunk) ELSE pe
    IN  \E restart \in MayRestart(p) :
            /\ pe' = HearsError(p, restart)
            /\ buf' = IF forward THEN [buf EXCEPT !.rx_emsg = <<buf.rx_chunk>>] ELSE buf
            /\ flags' = f \ {"RX_ENQUEUED"}
            /\ prl' = Restarted([prl EXCEPT !.rch = "Wait"], restart)
            /\ Advance(TRUE)
            /\ UNCHANGED <<status, num>>

\* Wrong: any chunk is taken for the next one.
NotAChunk(c, expected) == c.kind # "ext"
UnexpectedChunk(c, expected) == c.kind # "ext" \/ c.n # expected

\* RCH_Processing_Extended_Message and RCH_Requesting_Chunk.
ProcessExtended(sofar, expected) ==
    LET c == buf.rx_chunk
        f == flags \ {"RX_ENQUEUED"}
    IN  IF UnexpectedChunk(c, expected)
          THEN RchReportError(f)
          ELSE /\ num' = [num EXCEPT !.rch = expected + 1]
               /\ IF expected + 1 >= NChunks
                    THEN PassUp(Append(sofar, c), f)
                    ELSE /\ buf' = [buf EXCEPT !.rx_emsg = Append(sofar, c),
                                      !.tx_chunk = [kind |-> "req", n |-> expected + 1,
                                                    id |-> 0, serial |-> 0]]
                         /\ EnqueueChunk(buf'.tx_chunk, f)
                         /\ prl' = [prl EXCEPT !.rch = "Requesting"]
                         /\ UNCHANGED pe

RchIdle ==
    /\ RchTurn /\ prl.rch \in {"Wait", "Waiting"} /\ "RX_ENQUEUED" \notin flags
    /\ Pass

RchTakes(state) ==
    RchTurn /\ prl.rch = state /\ "RX_ENQUEUED" \in flags /\ UNCHANGED <<attached, tcpc>>

RchPlain ==
    /\ RchTakes("Wait") /\ buf.rx_chunk.kind \notin {"ext", "req"}
    /\ PassUp(<<buf.rx_chunk>>, flags \ {"RX_ENQUEUED"})
    /\ UNCHANGED num

RchFirstChunk ==
    /\ RchTakes("Wait") /\ buf.rx_chunk.kind \in {"ext", "req"}
    /\ ProcessExtended(<<>>, 0)

RchNextChunk ==
    /\ RchTakes("Waiting") /\ buf.rx_chunk.kind \in {"ext", "req"}
    /\ ProcessExtended(buf.rx_emsg, num.rch)

\* A plain message ends the sequence and is passed up with the error.
RchInterrupted ==
    /\ RchTakes("Waiting") /\ buf.rx_chunk.kind \notin {"ext", "req"}
    /\ RchReportError(flags)

RchAsks == RchTurn /\ prl.rch = "Requesting"

\* The request is on its way; an answer is proof enough.
RchRequested ==
    /\ RchAsks
    /\ "TX_COMPLETED" \in flags \/ ("TX_ERROR" \notin flags /\ "RX_ENQUEUED" \in flags)
    /\ prl' = [prl EXCEPT !.rch = "Waiting"]
    /\ flags' = flags \ {"TX_COMPLETED"}
    /\ Advance(FALSE)
    /\ UNCHANGED <<attached, num, buf, status, tcpc, pe>>

RchRequestFailed ==
    /\ RchAsks /\ flags \cap Outputs = {"TX_ERROR"}
    /\ RchReportError(flags \ {"TX_ERROR"})
    /\ UNCHANGED <<attached, tcpc>>

RchRequesting ==
    /\ RchAsks /\ flags \cap (Outputs \cup {"RX_ENQUEUED"}) = {}
    /\ Pass

\* tChunkSenderResponse
RchTimeout ==
    /\ RchTurn /\ prl.rch = "Waiting" /\ "RX_ENQUEUED" \notin flags
    /\ RchReportError(flags)
    /\ UNCHANGED <<attached, tcpc>>

TchTurn == At({"tch1", "tch2", "tch3"})

\* Wrong: what PE has just enqueued is dropped without a word.
DropsSilently(p, f) == p
DropsEnqueued(p, f) == IF "MSG_FROM_PE_ENQUEUED" \in f THEN HearsDiscard(p) ELSE p

\* TCH_Message_Received: hand the message over to RCH and drop what PE has just
\* enqueued.  p is PE after what it was told on the way here.
TchReceived(p, f) ==
    /\ pe' = DropsEnqueued(p, f)
    /\ prl' = [prl EXCEPT !.tch = "Wait"]
    /\ flags' = (f \ TchFlags) \cup {"RX_ENQUEUED"}
    /\ Advance(TRUE)
    /\ UNCHANGED <<attached, num, buf, status, tcpc>>

\* TCH_Message_Sent and TCH_Report_Error go on to TCH_Message_Received if a
\* message has come in.
TchEnd(p, f, restart) ==
    LET got == "CHUNK_FROM_RX" \in f
    IN  /\ pe' = IF got THEN DropsEnqueued(p, f) ELSE p
        /\ prl' = Restarted([prl EXCEPT !.tch = "Wait"], restart)
        /\ flags' = IF got THEN (f \ TchFlags) \cup {"RX_ENQUEUED"} ELSE f
        /\ Advance(TRUE)
        /\ UNCHANGED <<attached, num, buf, status, tcpc>>

TchSent(f) == TchEnd(HearsSent(pe), f, FALSE)

TchReportError(f) ==
    \E restart \in MayRestart(pe) : TchEnd(HearsError(pe, restart), f, restart)

\* TCH_Pass_Down_Message, or TCH_Construct_Chunked_Message for chunk n.
SendChunk(n, f) ==
    LET m == buf.tx_emsg
    IN  /\ buf' = [buf EXCEPT !.tx_chunk = [kind |-> m.kind, n |-> n, id |-> 0,
                                            serial |-> m.serial]]
        /\ EnqueueChunk(buf'.tx_chunk, f)
        /\ num' = [num EXCEPT !.tch = n]
        /\ prl' = [prl EXCEPT !.tch =
                     IF m.kind = "ext" THEN "Sending" ELSE "Wait_Transmission"]
        /\ UNCHANGED <<attached, tcpc, pe>>

TchAt(states) == TchTurn /\ prl.tch \in states

TchIdle ==
    /\ TchAt({"Wait"}) /\ flags \cap TchFlags = {}
    /\ Pass

TchHandOver ==
    /\ TchAt({"Wait"}) /\ "CHUNK_FROM_RX" \in flags
    /\ TchReceived(pe, flags)

TchStarts ==
    /\ TchAt({"Wait"}) /\ flags \cap TchFlags = {"MSG_FROM_PE_ENQUEUED"}

\* Wrong: TCH does not look at RCH.
RchNeverBusy == FALSE
RchBusy == prl.rch # "Wait"

TchRefuse ==
    /\ TchStarts /\ RchBusy
    /\ pe' = HearsDiscard(pe)
    /\ flags' = flags \ {"MSG_FROM_PE_ENQUEUED"}
    /\ Advance(TRUE)
    /\ UNCHANGED <<attached, prl, num, buf, status, tcpc>>

TchSendFirst ==
    /\ TchStarts /\ ~RchBusy
    /\ SendChunk(0, flags \ {"MSG_FROM_PE_ENQUEUED"})

InTransmission == TchAt({"Wait_Transmission", "Sending"})

TchFailed ==
    /\ InTransmission /\ "TX_ERROR" \in flags
    /\ prl.tch = "Wait_Transmission" => "TX_COMPLETED" \notin flags
    /\ TchReportError(flags \ {"TX_ERROR"})

\* The driver is done but PRL_Tx has not run: wait for it.
TchAwaitTx ==
    /\ InTransmission /\ flags \cap Outputs = {} /\ status = "SUCCEEDED"
    /\ Advance(TRUE)
    /\ UNCHANGED <<attached, prl, flags, num, buf, status, tcpc, pe>>

TchTransmitting ==
    /\ InTransmission /\ flags \cap (Outputs \cup {"CHUNK_FROM_RX"}) = {}
    /\ status # "SUCCEEDED"
    /\ Pass

\* Only in the middle of an extended message TCH reports the discard as well.
TchInterrupted ==
    /\ InTransmission /\ flags \cap Outputs = {} /\ status # "SUCCEEDED"
    /\ "CHUNK_FROM_RX" \in flags
    /\ TchReceived(IF prl.tch = "Sending" THEN HearsDiscard(pe) ELSE pe, flags)

TchMessageSent ==
    /\ TchAt({"Wait_Transmission"}) /\ "TX_COMPLETED" \in flags
    /\ TchSent(flags \ {"TX_COMPLETED"})

TchChunkSent == TchAt({"Sending"}) /\ flags \cap Outputs = {"TX_COMPLETED"}

TchLastChunkSent ==
    /\ TchChunkSent /\ num.tch + 1 >= NChunks
    /\ TchSent(flags \ {"TX_COMPLETED"})

TchOneChunkSent ==
    /\ TchChunkSent /\ num.tch + 1 < NChunks
    /\ num' = [num EXCEPT !.tch = @ + 1]
    /\ prl' = [prl EXCEPT !.tch = "Wait_Request"]
    /\ flags' = flags \ {"TX_COMPLETED"}
    /\ Advance("CHUNK_FROM_RX" \in flags)
    /\ UNCHANGED <<attached, buf, status, tcpc, pe>>

TchAwaitRequest ==
    /\ TchAt({"Wait_Request"}) /\ "CHUNK_FROM_RX" \notin flags
    /\ Pass

TchAnswered == TchAt({"Wait_Request"}) /\ "CHUNK_FROM_RX" \in flags

TchSendNext ==
    /\ TchAnswered /\ buf.rx_chunk.kind = "req" /\ buf.rx_chunk.n = num.tch
    /\ SendChunk(num.tch, flags \ {"CHUNK_FROM_RX"})

TchWrongRequest ==
    /\ TchAnswered /\ buf.rx_chunk.kind = "req" /\ buf.rx_chunk.n # num.tch
    /\ TchReportError(flags \ {"CHUNK_FROM_RX"})

TchAborted ==
    /\ TchAnswered /\ buf.rx_chunk.kind # "req"
    /\ TchReceived(HearsDiscard(pe), flags)

\* tChunkSenderRequest; without any request the partner may not chunk at all.
TchTimeout ==
    /\ TchTurn /\ prl.tch = "Wait_Request" /\ "CHUNK_FROM_RX" \notin flags
    /\ IF num.tch = 1 THEN TchSent(flags) ELSE TchReportError(flags)

-----------------------------------------------------------------------------
Hr == HrIdle \/ HrWait \/ HrResetLayer \/ HrIndicate \/ HrRequest \/ HrRequested \/ HrSent
Tx == \/ TxSkip \/ TxHeld \/ TxStartOfAms \/ TxTakeChunk \/ TxNothing \/ TxSnkStart
      \/ TxSnkPending \/ TxSnkWait \/ TxPollCc \/ TxSent \/ TxGiveUp \/ TxRetry
      \/ TxWaitPhy \/ TxDiscard \/ TxDiscardNothing
Rx == RxPostpone \/ RxEmpty \/ RxSoftReset \/ RxDrop \/ RxStore
Timeouts == RchTimeout \/ TchTimeout
Rch == \/ RchIdle \/ RchPlain \/ RchFirstChunk \/ RchNextChunk \/ RchInterrupted
       \/ RchRequested \/ RchRequestFailed \/ RchRequesting
Tch == \/ TchIdle \/ TchHandOver \/ TchRefuse \/ TchSendFirst \/ TchFailed \/ TchAwaitTx
       \/ TchTransmitting \/ TchInterrupted \/ TchMessageSent \/ TchLastChunkSent
       \/ TchOneChunkSent \/ TchAwaitRequest \/ TchSendNext \/ TchWrongRequest \/ TchAborted

PrlNext == InitLayer \/ Disable \/ Hr \/ Tx \/ Rx \/ Rch \/ Tch \/ Timeouts
=============================================================================
