----------------------------- MODULE PrlSystem -----------------------------
(***************************************************************************)
(* The protocol layer at work: Prl composed with the three parties that    *)
(* touch its variables.                                                    *)
(*   - PE, which runs before PRL in every tick, here only as far as PRL    *)
(*     can tell (src/src/pd/pe.cpp): it enqueues one message at a time,    *)
(*     asks for restarts and hard resets, and hears the reports;           *)
(*   - the driver (src/src/pd/drivers/fusb302_rtos.cpp), a task of its own *)
(*     which may preempt the tick, with the chip's FIFOs;                  *)
(*   - the port partner, any source: it may send anything at any moment,   *)
(*     and repeats a message whose GoodCRC got lost.                       *)
(***************************************************************************)
EXTENDS Prl, FiniteSets

CONSTANTS
    PeMay,           \* what PE may do
    PartnerMay,      \* what the partner may do
    MaxPartnerMsgs,  \* bound: messages of the partner, repetitions included
    TxMayFail,       \* a transmission may fail
    Preemptive,      \* the driver's task may run inside a tick
    Periodic,        \* the driver's timer ticks without being armed
    CanDetach        \* the cable may be pulled

ASSUME PeMayAssumption == PeMay \subseteq {"ctl", "ext", "ams", "hard"}
ASSUME PartnerMayAssumption ==
    PartnerMay \subseteq {"ctl", "ext", "req", "ping", "soft", "hard", "repeat"}
ASSUME MaxPartnerMsgsAssumption == MaxPartnerMsgs \in Nat
ASSUME SwitchAssumption == {TxMayFail, Preemptive, Periodic, CanDetach} \subseteq BOOLEAN

VARIABLE partner
\* next: id of its next message; sent: how many; last: the latest; first: the
\* serial number of the chunk 0 its chunks belong to; seen: the id of our latest
\* message it accepted; got: which chunk of which of PE's messages that was.

sysVars == <<vars, partner>>

Ids == 0..(IdMod - 1)
OurChunks == [kind : {"none", "ctl", "ext", "soft", "req"}, n : 0..NChunks,
              id : Ids, serial : Nat]
TheirChunks == [kind : {"none", "ctl", "ext", "req", "ping", "soft"}, n : 0..NChunks,
                id : Ids, serial : Nat, first : Nat]
NoChunk == [kind |-> "none", n |-> 0, id |-> 0, serial |-> 0]
NoMsg == [kind |-> "none", n |-> 0, id |-> 0, serial |-> 0, first |-> 0]

TypeOK ==
    /\ loop \in [at : {"rest", "pe", "prl", "tx0", "rx", "rch1", "tch1", "tx1", "tch2",
                       "tch3", "rch2"}, event : BOOLEAN]
    /\ attached \in BOOLEAN
    /\ prl \in [local : {"DISABLED", "INIT", "WORKING"},
                hr : {"none", "IDLE", "Reset_Layer", "Request", "Wait_PHY", "Wait_PE"},
                tx : {"none", "Wait_Request", "Snk_Start", "Snk_Pending", "Wait_PHY", "Discard"},
                rch : {"none", "Wait", "Requesting", "Waiting"},
                tch : {"none", "Wait", "Wait_Transmission", "Sending", "Wait_Request"}]
    /\ flags \subseteq HrFlags \cup TxFlags \cup RchFlags \cup TchFlags
    /\ num \in [tx : Ids, rx : Ids \cup {NoId}, rch : 0..NChunks, tch : 0..NChunks,
                retry : 0..MaxRetries]
    /\ buf.tx_emsg \in [kind : {"none", "ctl", "ext", "soft"}, serial : Nat]
    /\ buf.tx_chunk \in OurChunks
    /\ buf.rx_chunk \in TheirChunks
    /\ buf.rx_emsg \in Seq(TheirChunks) /\ Len(buf.rx_emsg) <= NChunks
    /\ status \in {"UNSET", "ENQUEUED", "SENDING", "SUCCEEDED", "FAILED"}
    /\ tcpc.rx_enable \in {"idle", "on", "off"}
    /\ {tcpc.rx_on, tcpc.hr_send, tcpc.active_cc} \subseteq BOOLEAN
    /\ tcpc.cc \in {"none", "SinkTxOK", "SinkTxNG"}
    /\ tcpc.chunk \in OurChunks
    /\ tcpc.rx_queue \in Seq(TheirChunks)
    /\ tcpc.air \in {"no", "air", "heard", "hr"}
    /\ pe.mode \in {"off", "startup", "run", "soft", "hr", "hr_sent", "default"}
    /\ pe.out \in {"none", "ctl", "ext", "soft"}
    /\ pe.ams \in {"no", "new", "open"}
    /\ {pe.accept, pe.reply, pe.again} \subseteq BOOLEAN
    /\ {pe.sent, pe.heard} \subseteq Nat
    /\ pe.told \in {"none", "sent", "discard", "error"}

Init ==
    /\ loop = [at |-> "rest", event |-> TRUE]
    /\ attached = TRUE
    /\ prl = [local |-> "DISABLED", hr |-> "none", tx |-> "none", rch |-> "none",
              tch |-> "none"]
    /\ flags = {}
    /\ num = [tx |-> 0, rx |-> 0, rch |-> 0, tch |-> 0, retry |-> 0]
    /\ buf = [tx_emsg |-> [kind |-> "none", serial |-> 0], tx_chunk |-> NoChunk,
              rx_chunk |-> NoMsg, rx_emsg |-> <<>>]
    /\ status = "UNSET"
    /\ tcpc = [rx_enable |-> "idle", rx_on |-> FALSE, hr_send |-> FALSE,
               active_cc |-> FALSE, cc |-> "none", chunk |-> NoChunk,
               rx_queue |-> <<>>, air |-> "no"]
    /\ pe = [mode |-> "off", out |-> "none", ams |-> "no", accept |-> FALSE,
             reply |-> FALSE, sent |-> 0, heard |-> 0, again |-> FALSE, told |-> "none"]
    /\ partner = [next |-> 0, sent |-> 0, last |-> NoMsg, first |-> 0,
                  seen |-> NoId, got |-> [serial |-> 0, n |-> 0]]

-----------------------------------------------------------------------------
(* The tick begins.  A driver with rearm support ticks only for an event or  *)
(* an expired timer; a timer of PRL runs in these states.                    *)

TimerRuns ==
    prl.rch = "Waiting" \/ prl.tch = "Wait_Request" \/ prl.hr = "Wait_PHY" \/ prl.tx = "Snk_Pending"

TickStart ==
    /\ At({"rest"})
    /\ loop.event \/ Periodic \/ TimerRuns
    /\ loop' = [at |-> "pe", event |-> FALSE]
    /\ UNCHANGED <<attached, prl, flags, num, buf, status, tcpc, pe, partner>>

\* TC runs first in the tick, and sees the cable pulled or plugged in again.
PartnerReset(p) == [p EXCEPT !.next = 0, !.seen = NoId]

Cable ==
    /\ CanDetach /\ At({"rest"})
    /\ loop' = [at |-> "pe", event |-> FALSE]
    /\ attached' = ~attached
    /\ partner' = [PartnerReset(partner) EXCEPT !.last = NoMsg]
    /\ UNCHANGED <<prl, flags, num, buf, status, tcpc, pe>>

-----------------------------------------------------------------------------
(* PE's turn *)

PeTurn(modes) == At({"pe"}) /\ pe.mode \in modes /\ attached /\ Advance(FALSE)

\* Nothing PE does now concerns PRL: it waits.
PeWait ==
    /\ \/ PeTurn({"run"}) /\ ~pe.accept
       \/ PeTurn({"hr", "default"})
       \/ PeTurn({"startup", "soft"}) /\ ~pe.accept /\ prl.local # "WORKING"
       \/ At({"pe"}) /\ pe.mode = "off" /\ ~attached /\ Advance(FALSE)
    /\ UNCHANGED <<attached, prl, flags, num, buf, status, tcpc, pe, partner>>

PeOff ==
    /\ At({"pe"}) /\ pe.mode # "off" /\ ~attached /\ Advance(FALSE)
    /\ pe' = [pe EXCEPT !.mode = "off", !.out = "none", !.ams = "no", !.reply = FALSE,
                        !.accept = FALSE]
    /\ UNCHANGED <<attached, prl, flags, num, buf, status, tcpc, partner>>

\* PE_SNK_Startup, entered from init() or after a hard reset.
PeStartup ==
    /\ PeTurn({"off", "default"})
    /\ prl' = [prl EXCEPT !.local = "INIT"]
    /\ pe' = [pe EXCEPT !.mode = "startup", !.out = "none", !.ams = "no",
                        !.reply = FALSE, !.accept = FALSE]
    /\ UNCHANGED <<attached, flags, num, buf, status, tcpc, partner>>

PeStarted ==
    /\ PeTurn({"startup"}) /\ ~pe.accept /\ prl.local = "WORKING"
    /\ pe' = [pe EXCEPT !.mode = "run"]
    /\ UNCHANGED <<attached, prl, flags, num, buf, status, tcpc, partner>>

\* send_ctrl_msg, send_data_msg, send_ext_msg
Enqueue(kind, p) ==
    /\ pe' = [p EXCEPT !.out = kind, !.sent = @ + 1, !.told = "none", !.reply = FALSE]
    /\ buf' = [buf EXCEPT !.tx_emsg = [kind |-> kind, serial |-> pe.sent + 1]]
    /\ flags' = flags \cup {"MSG_FROM_PE_ENQUEUED"}
    /\ UNCHANGED <<attached, prl, num, status, tcpc, partner>>

\* Wrong: PRL says it is busy only while it receives.
PrlReceiving == prl.rch # "Wait"
PrlBusy == prl.rch # "Wait" \/ prl.tch # "Wait"

\* An answer to a message received.  After the discard of an AMS's first message
\* PE has to go through PE_SNK_Ready, which ends the AMS, before it answers.
PeReply(kind) ==
    /\ kind \in PeMay
    /\ PeTurn({"run"}) /\ ~pe.accept /\ pe.ams # "new"
    /\ pe.out = "none" /\ pe.reply /\ pe.sent < MaxPeMsgs
    /\ Enqueue(kind, pe)

\* PE_SNK_Ready begins something of its own when PRL is not busy; DPM requests
\* are an AMS, PPS and EPR keep-alive requests are not marked so.
PeBegin(kind, ams) ==
    /\ kind \in PeMay /\ (ams = "new" => "ams" \in PeMay)
    /\ PeTurn({"run"}) /\ ~pe.accept
    /\ pe.out = "none" /\ pe.ams = "no" /\ pe.sent < MaxPeMsgs
    /\ ~PrlBusy
    /\ Enqueue(kind, [pe EXCEPT !.ams = ams])

\* Back in PE_SNK_Ready.
PeEndAms ==
    /\ PeTurn({"run"}) /\ ~pe.accept
    /\ pe.out = "none" /\ pe.ams # "no"
    /\ pe' = [pe EXCEPT !.ams = "no"]
    /\ UNCHANGED <<attached, prl, flags, num, buf, status, tcpc, partner>>

\* PE_SNK_Soft_Reset, entered from any state
PeAccept ==
    /\ PeTurn({"run", "soft", "startup"}) /\ pe.accept
    /\ Enqueue("ctl", [pe EXCEPT !.accept = FALSE, !.mode = "run"])

\* PE_SNK_Send_Soft_Reset: restart PRL first, then send.
PeSoftReset ==
    /\ SoftResets /\ pe.sent < MaxPeMsgs
    /\ PeTurn({"run"}) /\ ~pe.accept
    /\ prl' = [prl EXCEPT !.local = "INIT"]
    /\ pe' = [pe EXCEPT !.mode = "soft", !.out = "none", !.reply = FALSE]
    /\ UNCHANGED <<attached, flags, num, buf, status, tcpc, partner>>

PeSendSoftReset ==
    /\ PeTurn({"soft"}) /\ ~pe.accept /\ prl.local = "WORKING"
    /\ Enqueue("soft", [pe EXCEPT !.mode = "run"])

\* PE_SNK_Hard_Reset
PeHardReset ==
    /\ "hard" \in PeMay
    /\ PeTurn({"run"}) /\ ~pe.accept
    /\ flags' = flags \cup {"HARD_RESET_FROM_PE"}
    /\ pe' = [pe EXCEPT !.mode = "hr", !.out = "none", !.ams = "no"]
    /\ UNCHANGED <<attached, prl, num, buf, status, tcpc, partner>>

\* PE_SNK_Transition_to_default
PeDefault ==
    /\ PeTurn({"hr_sent"})
    /\ pe' = [pe EXCEPT !.mode = "default"]
    /\ UNCHANGED <<attached, prl, flags, num, buf, status, tcpc, partner>>

Pe ==
    \/ PeWait \/ PeOff \/ PeStartup \/ PeStarted \/ PeEndAms \/ PeAccept
    \/ PeSoftReset \/ PeSendSoftReset \/ PeHardReset \/ PeDefault
    \/ \E kind \in {"ctl", "ext"} :
         PeReply(kind) \/ \E ams \in {"no", "new"} : PeBegin(kind, ams)

-----------------------------------------------------------------------------
(* The driver's task *)

DriverRuns == Preemptive \/ At({"rest"})
Wakes == loop' = [loop EXCEPT !.event = TRUE]

\* fusb_set_rx_enable flushes both FIFOs and rx_queue whatever the direction.
SetRxEnable ==
    /\ DriverRuns /\ tcpc.rx_enable # "idle"
    /\ status' = "UNSET"
    /\ tcpc' = [tcpc EXCEPT !.rx_on = (tcpc.rx_enable = "on"), !.rx_enable = "idle",
                            !.rx_queue = <<>>, !.air = "no"]
    /\ Wakes
    /\ UNCHANGED <<attached, prl, flags, num, buf, pe, partner>>

BeginTransmit ==
    /\ DriverRuns /\ tcpc.rx_enable = "idle" /\ status = "ENQUEUED"
    /\ status' = "SENDING"
    /\ tcpc' = [tcpc EXCEPT !.air = "air"]
    /\ UNCHANGED <<loop, attached, prl, flags, num, buf, pe, partner>>

BeginHardReset ==
    /\ DriverRuns /\ tcpc.rx_enable = "idle" /\ tcpc.hr_send
    /\ status' = "SENDING"
    /\ tcpc' = [tcpc EXCEPT !.hr_send = FALSE, !.rx_queue = <<>>, !.air = "hr"]
    /\ Wakes
    /\ UNCHANGED <<attached, prl, flags, num, buf, pe, partner>>

\* fusb_tx_pkt_end
TxEnd(result) ==
    /\ status' = IF status = "SENDING" THEN result ELSE status
    /\ loop' = [loop EXCEPT !.event = @ \/ status = "SENDING"]
    /\ UNCHANGED <<attached, prl, flags, num, buf, pe>>

TxSucceeds ==
    /\ DriverRuns /\ tcpc.air = "heard"
    /\ tcpc' = [tcpc EXCEPT !.air = "no"]
    /\ TxEnd("SUCCEEDED")
    /\ UNCHANGED partner

\* RETRYFAIL or COLLISION; the partner may have got the message all the same.
TxFails ==
    /\ TxMayFail /\ DriverRuns /\ tcpc.air \in {"air", "heard", "hr"}
    /\ tcpc' = [tcpc EXCEPT !.air = "no"]
    /\ TxEnd("FAILED")
    /\ UNCHANGED partner

HardResetSent ==
    /\ DriverRuns /\ tcpc.air = "hr"
    /\ tcpc' = [tcpc EXCEPT !.air = "no", !.rx_queue = <<>>]
    /\ TxEnd("SUCCEEDED")
    /\ partner' = PartnerReset(partner)

MeasureCc ==
    /\ DriverRuns /\ tcpc.active_cc
    /\ \E level \in {"SinkTxOK", "SinkTxNG"} :
         tcpc' = [tcpc EXCEPT !.active_cc = FALSE, !.cc = level]
    /\ Wakes
    /\ UNCHANGED <<attached, prl, flags, num, buf, status, pe, partner>>

-----------------------------------------------------------------------------
(* The partner, on the other end of the cable *)

\* It takes a message unless the id is the one it has seen last.
PartnerHears ==
    /\ tcpc.air = "air"
    /\ tcpc' = [tcpc EXCEPT !.air = "heard"]
    /\ LET c == tcpc.chunk
           p == IF c.kind = "soft" THEN PartnerReset(partner) ELSE partner
       IN  partner' = IF c.id = p.seen THEN p
                      ELSE [p EXCEPT !.seen = c.id,
                              !.got = IF c.serial = 0 THEN @
                                      ELSE [serial |-> c.serial, n |-> c.n]]
    /\ UNCHANGED <<loop, attached, prl, flags, num, buf, status, pe>>

\* The chip answers with GoodCRC by itself while reception is enabled.
Receives(m) ==
    /\ attached /\ DriverRuns
    /\ tcpc.rx_on /\ tcpc.air # "heard"
    /\ partner.sent < MaxPartnerMsgs
    /\ tcpc' = [tcpc EXCEPT !.rx_queue = Append(@, m)]
    /\ Wakes
    /\ UNCHANGED <<attached, prl, flags, num, buf, status, pe>>

PartnerSend(kind, n) ==
    /\ kind \in PartnerMay
    /\ LET serial == partner.sent + 1
           p == IF kind = "soft" THEN PartnerReset(partner) ELSE partner
           m == [kind |-> kind, n |-> n, id |-> p.next, serial |-> serial,
                 first |-> IF kind # "ext" \/ n = 0 THEN serial ELSE p.first]
       IN  /\ Receives(m)
           /\ partner' = [p EXCEPT !.next = (@ + 1) % IdMod, !.sent = serial, !.last = m,
                                   !.first = IF kind = "ext" THEN m.first ELSE @]

PartnerSends ==
    \/ \E kind \in {"ctl", "ping", "soft"} : PartnerSend(kind, 0)
    \/ \E n \in 0..(NChunks - 1) : PartnerSend("ext", n)
    \/ \E n \in 1..NChunks : PartnerSend("req", n)

\* It missed our GoodCRC.
PartnerRepeats ==
    /\ "repeat" \in PartnerMay /\ partner.last.kind # "none"
    /\ Receives(partner.last)
    /\ partner' = [partner EXCEPT !.sent = @ + 1]

PartnerHardReset ==
    /\ "hard" \in PartnerMay /\ attached /\ DriverRuns
    /\ partner.sent < MaxPartnerMsgs
    /\ flags' = flags \cup {"HARD_RESET_FROM_PARTNER"}
    /\ tcpc' = [tcpc EXCEPT !.rx_queue = <<>>, !.air = "no"]
    /\ Wakes
    /\ partner' = [PartnerReset(partner) EXCEPT !.sent = @ + 1, !.last = NoMsg]
    /\ UNCHANGED <<attached, prl, num, buf, status, pe>>

-----------------------------------------------------------------------------
PrlStep == PrlNext /\ UNCHANGED partner
Tick == TickStart \/ Pe \/ PrlStep
Driver == SetRxEnable \/ BeginTransmit \/ BeginHardReset \/ HardResetSent \/ TxSucceeds
Partner == PartnerHears \/ PartnerSends \/ PartnerRepeats \/ PartnerHardReset

Next == Tick \/ Cable \/ Driver \/ TxFails \/ MeasureCc \/ Partner

Spec == Init /\ [][Next]_sysVars

TimerExpires == (TxPollCc \/ HrSent \/ Timeouts) /\ UNCHANGED partner

\* The tick is never starved.  The driver's task has a thread of its own, though
\* here it may get its turn only between two ticks: hence strong fairness.  Where a
\* timer runs the code cannot find it unexpired for ever.  The partner hears what
\* is sent, and a source asked again and again for SinkTxOK grants it at last.
Fairness ==
    /\ WF_sysVars(Tick) /\ SF_sysVars(Driver) /\ WF_sysVars(PartnerHears)
    /\ SF_sysVars(MeasureCc /\ tcpc'.cc = "SinkTxOK")
    /\ SF_sysVars(TimerExpires)

FairSpec == Spec /\ Fairness

-----------------------------------------------------------------------------
(* Properties *)

Working == prl.local = "WORKING" /\ prl.hr = "IDLE" /\ flags \cap HrFlags = {}

\* A message PE waits for is never lost track of: between two ticks it is
\* still enqueued or TCH still has it, so a report will come.
RequestTracked ==
    At({"rest"}) /\ Working /\ pe.out # "none" /\ ~pe.accept =>
        "MSG_FROM_PE_ENQUEUED" \in flags \/ prl.tch # "Wait"

\* TCH and RCH share tx_chunk and PRL_Tx: never both at once.
TxHasOneOwner == prl.rch = "Requesting" => prl.tch = "Wait"

\* rx_chunk is not overwritten before TCH and RCH are done with it.
NoChunkOverwritten ==
    [][ buf'.rx_chunk # buf.rx_chunk =>
            flags \cap {"CHUNK_FROM_RX", "RX_ENQUEUED"} = {} ]_sysVars

\* PE is told "sent" only of a message the partner has taken to the last
\* chunk, or to the first one when it then asks for no more.
SentIsAccepted ==
    [][ (pe'.told = "sent" /\ pe.told # "sent") =>
            /\ partner.got.serial = buf.tx_emsg.serial
            /\ partner.got.n \in {0, NChunks - 1} ]_sysVars

\* What PE gets as one message is a plain message, or as many chunks as an
\* extended one has, in order.
MessagesWhole ==
    [][ pe'.heard # pe.heard =>
            LET m == buf'.rx_emsg
            IN  IF m[1].kind = "ext"
                  THEN /\ Len(m) = NChunks
                       /\ \A i \in 1..NChunks : m[i].kind = "ext" /\ m[i].n = i - 1
                  ELSE Len(m) = 1 ]_sysVars

\* Messages reach PE in the order they were sent, none of them twice.
MessagesInOrder == ~pe.again

\* With nothing left to do in a tick no event is needed; anything PRL has
\* postponed has a wakeup behind it.
NothingPostponed ==
    At({"rest"}) /\ ~loop.event /\ Working =>
        /\ flags \cap {"MSG_FROM_PE_ENQUEUED", "CHUNK_FROM_RX", "RX_ENQUEUED"} = {}
        /\ prl.tx = "Wait_PHY" => status \notin {"SUCCEEDED", "FAILED"}
        /\ "TX_CHUNK_ENQUEUED" \in flags => tcpc.rx_enable # "idle" \/ prl.tx = "Snk_Pending"
        /\ prl.tx # "Discard"
        /\ pe.mode \in {"run", "soft", "startup"} => ~pe.accept
        /\ flags \cap Outputs # {} => prl.rch # "Requesting" /\ prl.tch = "Wait"

\* What goes out is the message PE is waiting for, or a request for a chunk:
\* never a message that was discarded or belongs to the time before a reset.
OnlyAwaitedSent ==
    [][ (tcpc'.air = "air" /\ tcpc.air # "air" /\ tcpc.chunk.kind # "req") =>
            pe.out # "none" /\ tcpc.chunk.serial = pe.sent ]_sysVars

\* PE is told "sent" of the message it enqueued last: not of one it has given up
\* since, nor of RCH's request for a chunk, for which the same PRL_Tx works.
SentIsAwaited ==
    [][ (pe'.told = "sent" /\ pe.told # "sent") =>
            buf.tx_chunk.kind # "req" /\ buf.tx_chunk.serial = pe.sent ]_sysVars

\* Every message of PE is answered with one of the reports.
RequestAnswered == pe.out # "none" ~> pe.out = "none"

\* PE gets out of PE_SNK_Hard_Reset.
HardResetAnswered == pe.mode = "hr" ~> pe.mode # "hr"
=============================================================================
