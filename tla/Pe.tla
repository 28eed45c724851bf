-------------------------------- MODULE Pe ---------------------------------
(***************************************************************************)
(* The policy engine (src/src/pd/pe.cpp) with what it shares in Port and   *)
(* the choice of a profile it asks DPM for (dpm.cpp).  PRL is what its     *)
(* reports let PE know of it: one turn of PRL follows each turn of PE, as  *)
(* in Task::tick(), and may report on the message of PE, hand up a message *)
(* of the source, or both.  A message is its kind and comes in one piece.  *)
(* Left out are chunks with their errors, and with them three flags:       *)
(* AMS_ACTIVE, which tells PRL that an AMS begins (PrlSystem), and         *)
(* AMS_FIRST_MSG_SENT, DO_SOFT_RESET_ON_UNSUPPORTED.  In PE they only      *)
(* decide what follows an error of a chunk (pe.cpp:503, 1644).             *)
(* An action is one run() of a state, with every state entered on the way. *)
(***************************************************************************)
EXTENDS Naturals

CONSTANTS
    PartnerMay,    \* kinds of messages the partner sends
    Wanted,        \* profiles the application asks for
    MaxEvents,     \* bound: messages of the partner that answer nothing, and its hard resets
    MaxTriggers,   \* bound: requests of the application
    MaxFailures,   \* bound: messages of PE that fail to be sent
    CanDetach      \* TRUE: the cable may be pulled, which counts as an event, too

nHardResetCount == 2

\* Source_Capabilities of a source that knows EPR or not, or with a list that is
\* not valid; EPR_Source_Capabilities with EPR profiles, or with an empty list.
SprCaps == {"Caps_SPR", "Caps_EPR_capable", "Caps_invalid"}
EprCaps == {"Caps_EPR", "Caps_empty"}
Capabilities == SprCaps \cup EprCaps
\* Three actions of EPR_Mode; Ping and the like; any message not expected in Ready.
EprModes == {"Acknowledged", "Succeeded", "Refused"}
Kinds == Capabilities \cup EprModes \cup
    {"Accept", "Reject", "Wait", "PS_RDY", "Keep_Alive_Ack", "Get_Sink_Cap",
     "Get_Revision", "Alert", "EPR_Exit", "BIST_Carrier", "BIST_TestData",
     "Soft_Reset", "Vendor_Defined", "Ignored", "Unsupported"}

Profiles == {"Safe5V", "PPS", "EPR"}   \* of position 1, up to 7, and above

ASSUME KindsAssumption == PartnerMay \subseteq Kinds
ASSUME WantedAssumption == Wanted \subseteq Profiles /\ "Safe5V" \in Wanted
ASSUME BoundsAssumption ==
    /\ MaxEvents \in Nat /\ MaxTriggers \in Nat /\ MaxFailures \in Nat
    /\ CanDetach \in BOOLEAN

VARIABLES
    port,    \* PE's own state, the part of Port it works on, and PRL as seen from it
    turn,    \* whose turn it is in the tick: "pe", "prl"
    wanted,  \* DPM's trigger
    env      \* attached: Port::is_attached; the counters of the bounds

vars == <<port, turn, wanted, env>>

Flags == {"TX_COMPLETE", "MSG_DISCARDED", "MSG_RECEIVED", "PROTOCOL_ERROR",
    "HAS_EXPLICIT_CONTRACT", "IN_EPR_MODE",
    "EPR_AUTO_ENTER_DISABLED", "HANDSHAKE_REPORTED", "PRL_HARD_RESET_PENDING",
    "HR_BY_CAPS_TIMEOUT", "CAN_SEND_SOFT_RESET",
    "TRANSMIT_REQUEST_SUCCEEDED"}

States == {"Uninitialized", "Startup", "Wait_for_Capabilities", "Select_Capability",
    "Transition_Sink", "Ready", "Give_Sink_Cap", "EPR_Keep_Alive", "Hard_Reset",
    "Transition_to_default", "Soft_Reset", "Send_Soft_Reset", "Send_Not_Supported",
    "Send_EPR_Mode_Entry", "EPR_Mode_Entry_Wait_For_Response", "BIST_Activate",
    "BIST_Carrier_Mode", "BIST_Test_Mode", "Give_Revision", "Src_Disabled"}

\* The states with InterceptorCheckRequestProgress, and with InterceptorForwardErrors.
Asking == {"Select_Capability", "EPR_Keep_Alive", "Send_Soft_Reset",
           "Send_EPR_Mode_Entry"}
Forwarding == {"Select_Capability", "Transition_Sink", "EPR_Keep_Alive", "Soft_Reset",
               "Send_Soft_Reset", "Src_Disabled"}
\* The states that only wait until their message is out.
Replying == {"Give_Sink_Cap", "Give_Revision", "Send_Not_Supported"}

Timers == {"SinkWaitCap", "SenderResponse", "SinkRequest", "PSTransition",
           "PPSRequest", "EPRKeepAlive", "EnterEPR", "BISTCarrier"}

TypeOK ==
    /\ port \in [state : States, from_caps : BOOLEAN, flags : SUBSET Flags,
                 requests : SUBSET {"NEW_POWER_LEVEL", "EPR_MODE_ENTRY"},
                 active : {"NONE", "NEW_POWER_LEVEL", "EPR_MODE_ENTRY"},
                 timers : [Timers -> {"off", "running", "expired"}],
                 caps : Capabilities \cup {"none"},
                 rdo_to_request : Profiles \cup {"none"},
                 rdo_contracted : Profiles \cup {"none"},
                 resets : 0..255, msg : Kinds \cup {"none"}, bist : BOOLEAN,
                 prl : {"off", "restart", "run"}, hr : {"idle", "asked", "waiting"},
                 sending : BOOLEAN]
    /\ turn \in {"pe", "prl"}
    /\ wanted \in Wanted
    /\ env \in [attached : BOOLEAN, events : 0..MaxEvents, triggers : 0..MaxTriggers,
                failures : 0..MaxFailures, silent : BOOLEAN]

Init ==
    /\ port = [state |-> "Uninitialized", from_caps |-> FALSE, flags |-> {},
               requests |-> {}, active |-> "NONE",
               timers |-> [t \in Timers |-> "off"], caps |-> "none",
               rdo_to_request |-> "none", rdo_contracted |-> "none", resets |-> 0,
               msg |-> "none", bist |-> FALSE, prl |-> "off", hr |-> "idle",
               sending |-> FALSE]
    /\ turn = "pe"
    /\ wanted = "Safe5V"
    /\ env = [attached |-> FALSE, events |-> 0, triggers |-> 0, failures |-> 0,
              silent |-> FALSE]

-----------------------------------------------------------------------------
(* What PE asks of Port and DPM *)

Has(p, flag) == flag \in p.flags

IsEprModeAvailable(p) ==
    /\ Has(p, "HAS_EXPLICIT_CONTRACT") /\ ~Has(p, "EPR_AUTO_ENTER_DISABLED")
    /\ p.caps \in {"Caps_EPR_capable", "Caps_EPR"}

IsInSprContract(p) == Has(p, "HAS_EXPLICIT_CONTRACT") /\ p.rdo_contracted # "EPR"

\* Wrong: as if EPR mode had no PPS contracts.
IsInSprPpsContract(p) ==
    /\ Has(p, "HAS_EXPLICIT_CONTRACT") /\ p.rdo_contracted = "PPS"
    /\ ~Has(p, "IN_EPR_MODE") /\ p.caps \notin {"Caps_invalid", "Caps_empty"}

\* The profile at the contracted position of the capabilities known now.
IsInPpsContract(p) ==
    /\ Has(p, "HAS_EXPLICIT_CONTRACT") /\ p.rdo_contracted = "PPS"
    /\ p.caps \notin {"Caps_invalid", "Caps_empty"}

\* DPM::get_request_data_object: what is wanted if the list has it, else the first.
RequestDataObject(p) ==
    CASE p.caps \in {"none", "Caps_empty"} -> "none"
      [] p.caps = "Caps_EPR" -> wanted
      [] p.caps \in {"Caps_SPR", "Caps_EPR_capable"} ->
            IF wanted = "PPS" THEN "PPS" ELSE "Safe5V"
      [] OTHER -> "Safe5V"

Start(p, t) == [p EXCEPT !.timers[t] = "running"]
Stop(p, t) == [p EXCEPT !.timers[t] = "off"]
Expired(p, t) == p.timers[t] = "expired"
Set(p, flag) == [p EXCEPT !.flags = @ \cup {flag}]
Clear(p, S) == [p EXCEPT !.flags = @ \ S]

-----------------------------------------------------------------------------
(* Leaving and entering states *)

StoppedOnExit(p) ==
    (IF p.state \in Asking THEN {"SenderResponse"} ELSE {}) \cup
    CASE p.state = "Wait_for_Capabilities" -> {"SinkWaitCap"}
      [] p.state = "Transition_Sink" -> {"PSTransition"}
      [] p.state = "Ready" -> {"EPRKeepAlive", "PPSRequest"}
      [] p.state = "Send_EPR_Mode_Entry" ->
            IF Has(p, "PROTOCOL_ERROR") THEN {"EnterEPR"} ELSE {}
      [] p.state = "EPR_Mode_Entry_Wait_For_Response" -> {"EnterEPR"}
      [] p.state = "BIST_Carrier_Mode" -> {"BISTCarrier"}
      [] OTHER -> {}

Exit(p) ==
    [p EXCEPT !.from_caps = FALSE,
              !.timers = [t \in Timers |-> IF t \in StoppedOnExit(p) THEN "off" ELSE @[t]]]

\* send_data_msg, send_ext_msg, send_ctrl_msg
Send(p) == [Clear(p, {"TX_COMPLETE"}) EXCEPT !.sending = TRUE]

\* With InterceptorCheckRequestProgress::on_enter_state
SendRequest(p) == Send(Clear(p, {"TRANSMIT_REQUEST_SUCCEEDED"}))

EnterStartup(p) == [Clear(p, {"HAS_EXPLICIT_CONTRACT"}) EXCEPT !.prl = "restart"]

EnterHardReset(p) ==
    LET q == Clear(p, {"HR_BY_CAPS_TIMEOUT"})
    IN  IF Has(p, "HR_BY_CAPS_TIMEOUT") /\ p.resets > nHardResetCount
          THEN [q EXCEPT !.state = "Src_Disabled"]
          ELSE [Set(q, "PRL_HARD_RESET_PENDING") EXCEPT !.hr = "asked",
                                                        !.resets = (@ + 1) % 256]

\* Without a profile to request: Hard_Reset.
EnterSelect(p) ==
    LET rdo == RequestDataObject(p)
    IN  IF rdo = "none"
          THEN EnterHardReset([Clear(Stop(p, "SenderResponse"),
                                     {"TRANSMIT_REQUEST_SUCCEEDED"})
                               EXCEPT !.state = "Hard_Reset"])
          ELSE SendRequest([Stop(p, "SinkRequest") EXCEPT !.rdo_to_request = rdo])

EnterReady(p) ==
    LET q == [Clear(p, {"MSG_DISCARDED", "PROTOCOL_ERROR"}) EXCEPT !.active = "NONE"]
        r == IF IsInPpsContract(q) THEN Start(q, "PPSRequest") ELSE q
    IN  IF Has(r, "IN_EPR_MODE") THEN Start(r, "EPRKeepAlive")
        ELSE IF IsEprModeAvailable(r)
          THEN [r EXCEPT !.requests = @ \cup {"EPR_MODE_ENTRY"}]
          ELSE r

\* Wrong: what DPM asked for outlives the hard reset.
ClearFlags(p) == [p EXCEPT !.flags = {}]
ClearAll(p) == [p EXCEPT !.flags = {}, !.requests = {}]

Reports == {"MSG_RECEIVED", "MSG_DISCARDED", "PROTOCOL_ERROR"}

EnterSendSoftReset(p) ==
    [Set(Clear(p, Reports \cup {"TRANSMIT_REQUEST_SUCCEEDED"}), "CAN_SEND_SOFT_RESET")
     EXCEPT !.prl = "restart"]

Enter(s, p) ==
    LET q == [p EXCEPT !.state = s]
    IN  CASE s = "Startup" -> EnterStartup(q)
          [] s = "Wait_for_Capabilities" -> Start(q, "SinkWaitCap")
          [] s = "Select_Capability" -> EnterSelect(q)
          [] s = "Transition_Sink" -> Start(q, "PSTransition")
          [] s = "Ready" -> EnterReady(q)
          [] s \in Replying -> Send(q)
          [] s = "EPR_Keep_Alive" -> SendRequest(q)
          [] s = "Hard_Reset" -> EnterHardReset(q)
          [] s = "Transition_to_default" -> ClearAll(q)
          [] s = "Soft_Reset" -> Send(Clear(q, Reports))
          [] s = "Send_Soft_Reset" -> EnterSendSoftReset(q)
          [] s = "Send_EPR_Mode_Entry" -> Start(SendRequest(q), "EnterEPR")
          [] s = "BIST_Activate" -> [q EXCEPT !.bist = TRUE]
          [] s = "BIST_Carrier_Mode" -> Start(q, "BISTCarrier")
          [] OTHER -> q

\* fsm::change_state, to another state
Goto(s, p) == Enter(s, Exit(p))

\* Wrong: the EPR profiles are kept outside EPR mode.
Whole(p) == p.msg

\* The list that is kept, cut to the SPR profiles outside EPR mode.
Cut(p) == IF p.msg = "Caps_EPR" /\ ~Has(p, "IN_EPR_MODE") THEN "Caps_EPR_capable"
          ELSE p.msg

\* PE_SNK_Evaluate_Capability: a list that is not valid is kept as well.
Evaluate(p) ==
    LET q == [Exit(p) EXCEPT !.caps = Cut(p)]
    IN  IF p.msg \in {"Caps_invalid", "Caps_empty"}
          THEN Enter("Send_Not_Supported", q)
          ELSE Enter("Select_Capability", [q EXCEPT !.from_caps = TRUE, !.resets = 0])

-----------------------------------------------------------------------------
(* A turn of PE: PE_EventListener::on_receive(MsgSysUpdate).  p is PE's part *)
(* of the state on entry to run().                                           *)

Heard(p) == Has(p, "MSG_RECEIVED")
Take(p) == Clear(p, {"MSG_RECEIVED"})

\* Without what is not read again: a message dealt with, but for the one that
\* BIST_Activate reads twice, and a flag that is cleared on entry.
Tidy(p) ==
    [p EXCEPT !.msg = IF Heard(p) \/ p.state = "BIST_Activate" THEN @ ELSE "none",
              !.flags = IF p.state \in Asking THEN @
                        ELSE @ \ {"TRANSMIT_REQUEST_SUCCEEDED"}]

Become(p) ==
    /\ port' = Tidy(p)
    /\ turn' = "prl"
    /\ UNCHANGED <<wanted, env>>

PeTurn == turn = "pe" /\ env.attached

SoftResetHeard == Heard(port) /\ port.msg = "Soft_Reset"

Run(s) == PeTurn /\ port.state = s /\ ~SoftResetHeard

\* PE::init(); run() then finds that PRL has not restarted yet.
PeInit ==
    /\ PeTurn /\ port.state = "Uninitialized"
    /\ Become(Enter("Startup", [port EXCEPT !.flags = {}, !.requests = {},
            !.active = "NONE", !.timers = [t \in Timers |-> "off"]]))

PeDetached ==
    /\ turn = "pe" /\ ~env.attached
    /\ Become([Exit(port) EXCEPT !.state = "Uninitialized"])

\* From any state, Soft_Reset itself included; run() has nothing to do yet.
SoftResetReceived ==
    /\ PeTurn /\ SoftResetHeard /\ port.state # "Uninitialized"
    /\ Become(IF port.state = "Src_Disabled" THEN Take(port)
              ELSE Goto("Soft_Reset", port))

Startup ==
    /\ Run("Startup")
    /\ Become(IF port.prl = "run" THEN Goto("Wait_for_Capabilities", port) ELSE port)

Wait_for_Capabilities ==
    /\ Run("Wait_for_Capabilities")
    /\ LET p == Take(port)
           matches == /\ Heard(port)
                      /\ port.msg \in IF Has(port, "IN_EPR_MODE") THEN EprCaps ELSE SprCaps
       IN  \/ matches /\ Become(Evaluate(p))
           \/ /\ ~matches /\ Expired(p, "SinkWaitCap")
              /\ Become(Goto("Hard_Reset", Set(p, "HR_BY_CAPS_TIMEOUT")))
           \/ ~matches /\ ~Expired(p, "SinkWaitCap") /\ Become(p)

-----------------------------------------------------------------------------
(* InterceptorCheckRequestProgress::on_run_state *)

Unsettled == ~Has(port, "TRANSMIT_REQUEST_SUCCEEDED")
Discarded == Unsettled /\ Has(port, "MSG_DISCARDED")
Failed == Unsettled /\ ~Discarded /\ Has(port, "PROTOCOL_ERROR")
Finished == ~Unsettled \/ (~Discarded /\ ~Failed /\ Has(port, "TX_COMPLETE"))
Answered == Finished /\ Heard(port)

\* Wrong: the timer of the answer is not started.
ProgressedUntimed ==
    IF Unsettled /\ Finished
      THEN Set(Clear(port, {"TX_COMPLETE"}), "TRANSMIT_REQUEST_SUCCEEDED") ELSE port

Progressed ==
    IF Unsettled /\ Finished
      THEN Start(Set(Clear(port, {"TX_COMPLETE"}), "TRANSMIT_REQUEST_SUCCEEDED"),
                 "SenderResponse")
      ELSE port

\* Neither an answer nor a reason to give up.
KeepWaiting(late) ==
    /\ ~Discarded /\ ~Failed /\ ~Answered
    /\ Become(IF Expired(Progressed, "SenderResponse") THEN Goto(late, Progressed)
              ELSE Progressed)

-----------------------------------------------------------------------------
(* The contract *)

\* Wrong: the request is set again.
SetActive(p) == [p EXCEPT !.requests = @ \cup {p.active}]

\* The request of DPM that led here is settled.
ClearActive(p) ==
    [p EXCEPT !.requests = @ \ ({p.active} \cap {"NEW_POWER_LEVEL"})]

\* What Select_Capability does with the answer.
SelectAnswered(p) ==
    LET refused == IF Has(p, "HAS_EXPLICIT_CONTRACT") THEN "Ready"
                   ELSE "Wait_for_Capabilities"
    IN  CASE p.msg = "Accept" ->
               Goto("Transition_Sink", [ClearActive(Set(p, "HAS_EXPLICIT_CONTRACT"))
                                        EXCEPT !.rdo_contracted = p.rdo_to_request])
          [] p.msg = "Wait" ->
               Goto(refused, IF refused = "Ready" THEN Start(p, "SinkRequest") ELSE p)
          [] p.msg = "Reject" -> Goto(refused, ClearActive(p))
          [] OTHER -> Goto("Send_Soft_Reset", p)

Select_Capability ==
    /\ Run("Select_Capability")
    /\ \/ /\ Discarded
          /\ Become(Goto(IF port.from_caps THEN "Send_Soft_Reset" ELSE "Ready", port))
       \/ Failed /\ Become(Goto("Send_Soft_Reset", port))
       \/ Answered /\ Become(SelectAnswered(Take(Progressed)))
       \/ KeepWaiting("Hard_Reset")

Transition_Sink ==
    /\ Run("Transition_Sink")
    /\ \/ /\ Heard(port) /\ port.msg = "PS_RDY"
          /\ LET reported == Has(port, "IN_EPR_MODE") \/ ~IsEprModeAvailable(port)
             IN  Become(Goto("Ready", Take(IF reported THEN Set(port, "HANDSHAKE_REPORTED")
                                           ELSE port)))
       \/ /\ Heard(port) /\ port.msg # "PS_RDY"
          /\ Become(Goto("Hard_Reset", Take(port)))
       \/ /\ ~Heard(port)
          /\ Become(IF Expired(port, "PSTransition") THEN Goto("Hard_Reset", port)
                    ELSE port)

-----------------------------------------------------------------------------
(* Ready: first the partner, then DPM, then what keeps the contract alive *)

\* EPR_Mode_Exit_Received
ExitReceived(p) ==
    IF IsInSprContract(p)
      THEN Goto("Wait_for_Capabilities",
                Set(Clear(p, {"IN_EPR_MODE"}), "EPR_AUTO_ENTER_DISABLED"))
      ELSE Goto("Hard_Reset", p)

\* BIST modes other than the two lead back to Ready.
BistReceived(p) ==
    Goto(IF Has(p, "HAS_EXPLICIT_CONTRACT") /\ p.rdo_contracted = "Safe5V"
           THEN "BIST_Activate" ELSE "Ready", p)

ReadyHears(p) ==
    CASE p.msg \in EprCaps -> Evaluate(p)
      [] p.msg \in SprCaps ->
            IF Has(p, "IN_EPR_MODE") THEN Goto("Hard_Reset", p) ELSE Evaluate(p)
      [] p.msg = "Get_Sink_Cap" -> Goto("Give_Sink_Cap", p)
      [] p.msg = "Get_Revision" -> Goto("Give_Revision", p)
      [] p.msg = "Vendor_Defined" -> Goto("Send_Not_Supported", p)
      [] p.msg = "Alert" -> Goto("Ready", p)
      [] p.msg = "EPR_Exit" -> ExitReceived(p)
      [] p.msg \in {"BIST_Carrier", "BIST_TestData"} -> BistReceived(p)
      [] p.msg \in {"Accept", "Reject", "Wait", "PS_RDY"} -> Goto("Send_Soft_Reset", p)
      [] OTHER -> Goto("Send_Not_Supported", p)

ReadyMessage ==
    /\ Run("Ready") /\ Heard(port) /\ port.msg # "Ignored"
    /\ Become(ReadyHears(Take(port)))

ReadyRun == Run("Ready") /\ (Heard(port) => port.msg = "Ignored")

\* is_prl_busy(): with a message of PE, or with the chunks of one of the source.
ReadyBusy == ReadyRun /\ (port.sending \/ ~env.silent) /\ Become(Take(port))

ReadyRetry ==
    /\ ReadyRun /\ ~port.sending /\ Expired(port, "SinkRequest")
    /\ Become(Goto("Select_Capability", Stop(Take(port), "SinkRequest")))

\* While the source has asked to wait, requests of DPM have to wait, too.
Listens == port.timers["SinkRequest"] = "off"

EntersEpr ==
    /\ "EPR_MODE_ENTRY" \in port.requests
    /\ ~Has(port, "IN_EPR_MODE") /\ IsEprModeAvailable(port)

\* An entry that is not possible is forgotten.
Sorted == IF Listens /\ ~EntersEpr
            THEN [Take(port) EXCEPT !.requests = @ \ {"EPR_MODE_ENTRY"}]
            ELSE Take(port)

Begin(request, s) == Become(Goto(s, [Sorted EXCEPT !.active = request]))

ReadyRequest ==
    /\ ReadyRun /\ ~port.sending /\ Listens
    /\ \/ EntersEpr /\ Begin("EPR_MODE_ENTRY", "Send_EPR_Mode_Entry")
       \/ /\ ~EntersEpr /\ "NEW_POWER_LEVEL" \in port.requests
          /\ Begin("NEW_POWER_LEVEL", "Select_Capability")

ReadyKeepsAlive ==
    /\ ReadyRun /\ ~port.sending /\ ~Expired(port, "SinkRequest")
    /\ Listens => ~EntersEpr /\ "NEW_POWER_LEVEL" \notin port.requests
    /\ Become(IF Expired(port, "EPRKeepAlive") THEN Goto("EPR_Keep_Alive", Sorted)
              ELSE IF Expired(port, "PPSRequest") THEN Goto("Select_Capability", Sorted)
              ELSE Sorted)

EPR_Keep_Alive ==
    /\ Run("EPR_Keep_Alive")
    /\ \/ Discarded /\ Become(Goto("Ready", port))
       \/ Failed /\ Become(Goto("Send_Soft_Reset", port))
       \/ /\ Answered
          /\ Become(Goto(IF port.msg = "Keep_Alive_Ack" THEN "Ready"
                         ELSE "Send_Soft_Reset", Take(Progressed)))
       \/ KeepWaiting("Hard_Reset")

\* Give_Sink_Cap, Give_Revision, Send_Not_Supported
Reply ==
    /\ PeTurn /\ port.state \in Replying /\ ~SoftResetHeard
    /\ Become(IF Has(port, "TX_COMPLETE") THEN Goto("Ready", Clear(port, {"TX_COMPLETE"}))
              ELSE port)

-----------------------------------------------------------------------------
(* Resets *)

Hard_Reset ==
    /\ Run("Hard_Reset")
    /\ Become(IF Has(port, "PRL_HARD_RESET_PENDING") THEN port
              ELSE Goto("Transition_to_default", port))

\* DPM does not ask to wait.
Transition_to_default ==
    /\ Run("Transition_to_default")
    /\ Become(Goto("Startup", port))

Soft_Reset ==
    /\ Run("Soft_Reset")
    /\ \/ /\ Has(port, "TX_COMPLETE")
          /\ Become(Goto("Wait_for_Capabilities", Clear(port, {"TX_COMPLETE"})))
       \/ /\ ~Has(port, "TX_COMPLETE") /\ Has(port, "PROTOCOL_ERROR")
          /\ Become(Goto("Hard_Reset", Clear(port, {"PROTOCOL_ERROR"})))
       \/ ~Has(port, "TX_COMPLETE") /\ ~Has(port, "PROTOCOL_ERROR") /\ Become(port)

\* The restart of PRL comes first, then the message, once.
Send_Soft_Reset ==
    /\ Run("Send_Soft_Reset")
    /\ LET p == Progressed
           asks == Has(p, "CAN_SEND_SOFT_RESET")
           q == IF Answered THEN Take(p) ELSE p
           accepted == Answered /\ p.msg = "Accept"
           lost == Has(q, "PROTOCOL_ERROR") \/ Expired(q, "SenderResponse")
       IN  \/ port.prl # "run" /\ Become(p)
           \/ port.prl = "run" /\ asks /\ Become(Send(Clear(p, {"CAN_SEND_SOFT_RESET"})))
           \/ port.prl = "run" /\ ~asks
              /\ \/ Discarded /\ Become(Goto("Ready", p))
                 \/ accepted /\ Become(Goto("Wait_for_Capabilities", q))
                 \/ /\ ~Discarded /\ ~accepted
                    /\ Become(IF lost THEN Goto("Hard_Reset", Clear(q, {"PROTOCOL_ERROR"}))
                              ELSE q)

Src_Disabled == Run("Src_Disabled") /\ Become(port)

-----------------------------------------------------------------------------
(* EPR mode and BIST *)

\* Refused: no further attempts until the next hard reset.
EntryRefused(p) ==
    [p EXCEPT !.flags = @ \cup {"EPR_AUTO_ENTER_DISABLED", "HANDSHAKE_REPORTED"},
              !.requests = @ \ {"EPR_MODE_ENTRY"}]

Send_EPR_Mode_Entry ==
    /\ Run("Send_EPR_Mode_Entry")
    /\ \/ Discarded /\ Become(Goto("Ready", port))
       \/ /\ Answered
          /\ LET p == Take(Progressed)
             IN  Become(CASE p.msg = "Acknowledged" ->
                               Goto("EPR_Mode_Entry_Wait_For_Response", p)
                          [] p.msg \in {"Succeeded", "Refused", "EPR_Exit"} ->
                               Goto("Ready", EntryRefused(p))
                          [] OTHER -> Goto("Send_Soft_Reset", p))
       \/ /\ ~Discarded /\ ~Answered
          /\ Become(IF \E t \in {"SenderResponse", "EnterEPR"} : Expired(Progressed, t)
                      THEN Goto("Send_Soft_Reset", Progressed) ELSE Progressed)

EPR_Mode_Entry_Wait_For_Response ==
    /\ Run("EPR_Mode_Entry_Wait_For_Response")
    /\ \/ /\ Heard(port) /\ port.msg = "Succeeded"
          /\ Become(Goto("Wait_for_Capabilities",
                [Set(Take(port), "IN_EPR_MODE") EXCEPT !.requests = @ \ {"EPR_MODE_ENTRY"}]))
       \/ /\ Heard(port) /\ port.msg # "Succeeded"
          /\ Become(Goto("Send_Soft_Reset", Take(port)))
       \/ /\ ~Heard(port)
          /\ Become(IF Expired(port, "EnterEPR") THEN Goto("Send_Soft_Reset", port)
                    ELSE port)

\* rx_emsg is looked at once more.
BIST_Activate ==
    /\ Run("BIST_Activate")
    /\ Become(IF port.bist THEN port
              ELSE Goto(IF port.msg = "BIST_Carrier" THEN "BIST_Carrier_Mode"
                        ELSE "BIST_Test_Mode", port))

BIST_Carrier_Mode ==
    /\ Run("BIST_Carrier_Mode")
    /\ Become(CASE port.bist -> port
                [] ~port.bist /\ port.timers["BISTCarrier"] = "off" ->
                     Goto("Transition_to_default", port)
                [] ~port.bist /\ Expired(port, "BISTCarrier") ->
                     [Stop(port, "BISTCarrier") EXCEPT !.bist = TRUE]
                [] OTHER -> port)

BIST_Test_Mode == Run("BIST_Test_Mode") /\ Become(Take(port))

-----------------------------------------------------------------------------
(* A turn of PRL, and what its reports do to PE at once *)

HearsSent(p) == [Set(p, "TX_COMPLETE") EXCEPT !.sending = FALSE]

HearsDiscard(p) == [Set(p, "MSG_DISCARDED") EXCEPT !.sending = FALSE]

HearsMessage(p, kind) == [Set(p, "MSG_RECEIVED") EXCEPT !.msg = kind]

\* The message could not be sent (TCH_SEND_FAIL).
HearsError(p) ==
    LET q == [Set(p, "PROTOCOL_ERROR") EXCEPT !.sending = FALSE]
    IN  IF p.state \in Forwarding THEN q ELSE Goto("Send_Soft_Reset", q)

\* With PRL as its init() leaves it, if it has to start.
Prepared == IF port.prl = "run" THEN port
            ELSE [port EXCEPT !.prl = "run", !.hr = "idle", !.sending = FALSE]

PrlTurn == turn = "prl" /\ turn' = "pe" /\ UNCHANGED wanted

PrlDetached ==
    /\ PrlTurn /\ ~env.attached
    /\ port' = [port EXCEPT !.prl = "off", !.hr = "idle", !.sending = FALSE]
    /\ UNCHANGED env

PrlNothing ==
    /\ PrlTurn /\ env.attached
    /\ port' = Prepared
    /\ UNCHANGED env

PrlSends == PrlTurn /\ env.attached /\ Prepared.sending /\ Prepared.hr = "idle"

PrlSent ==
    /\ PrlSends
    /\ port' = HearsSent(Prepared)
    /\ UNCHANGED env

PrlFails ==
    /\ PrlSends /\ env.failures < MaxFailures
    /\ port' = HearsError(Prepared)
    /\ env' = [env EXCEPT !.failures = @ + 1]

\* What the state waits for, of a source that goes along with it.
Answers ==
    CASE port.state = "Wait_for_Capabilities" ->
            IF Has(port, "IN_EPR_MODE") THEN {"Caps_EPR"}
            ELSE {"Caps_SPR", "Caps_EPR_capable"}
      [] port.state \in {"Select_Capability", "Send_Soft_Reset"} -> {"Accept"}
      [] port.state = "Transition_Sink" -> {"PS_RDY"}
      [] port.state = "EPR_Keep_Alive" -> {"Keep_Alive_Ack"}
      [] port.state = "Send_EPR_Mode_Entry" -> {"Acknowledged"}
      [] port.state = "EPR_Mode_Entry_Wait_For_Response" -> {"Succeeded"}
      [] OTHER -> {}

Surprise == env.events < MaxEvents /\ env' = [env EXCEPT !.events = @ + 1]

\* A message discards one that is under way, unless that was sent just before.
PrlReceives ==
    /\ PrlTurn /\ env.attached /\ Prepared.hr = "idle" /\ ~env.silent
    /\ \E kind \in PartnerMay :
          \/ /\ port' = HearsMessage(IF Prepared.sending THEN HearsSent(Prepared)
                                      ELSE Prepared, kind)
             /\ IF kind \in Answers THEN UNCHANGED env ELSE Surprise
          \/ /\ Prepared.sending
             /\ port' = HearsMessage(HearsDiscard(Prepared), kind)
             /\ Surprise

PrlHardResetSent ==
    /\ PrlTurn /\ env.attached /\ Prepared.hr = "asked"
    /\ port' = [Clear(Prepared, {"PRL_HARD_RESET_PENDING"})
                EXCEPT !.hr = "waiting", !.sending = FALSE]
    /\ UNCHANGED env

\* From Transition_to_default to itself nothing happens.
PrlHardReset ==
    /\ PrlTurn /\ env.attached /\ ~env.silent /\ Surprise
    /\ port.prl = "run" /\ port.hr # "waiting"
    /\ LET p == [port EXCEPT !.hr = "waiting", !.sending = FALSE]
       IN  port' = IF p.state = "Transition_to_default" THEN p
                   ELSE Goto("Transition_to_default", p)

-----------------------------------------------------------------------------
(* The application, the driver, the cable and the time *)

SourceFallsSilent ==
    /\ ~env.silent
    /\ env' = [env EXCEPT !.silent = TRUE]
    /\ UNCHANGED <<port, turn, wanted>>

\* DPM::trigger_...: request_new_power_level
Trigger(profile) ==
    /\ env.triggers < MaxTriggers /\ profile # wanted
    /\ wanted' = profile
    /\ env' = [env EXCEPT !.triggers = @ + 1]
    /\ port' = IF Has(port, "HAS_EXPLICIT_CONTRACT")
                 THEN [port EXCEPT !.requests = @ \cup {"NEW_POWER_LEVEL"}] ELSE port
    /\ UNCHANGED turn

BistDone ==
    /\ port.bist
    /\ port' = [port EXCEPT !.bist = FALSE]
    /\ UNCHANGED <<turn, wanted, env>>

\* Port::is_attached
Attach ==
    /\ turn = "pe" /\ ~env.attached
    /\ env' = [env EXCEPT !.attached = TRUE]
    /\ UNCHANGED <<port, turn, wanted>>

Detach ==
    /\ turn = "pe" /\ env.attached /\ CanDetach /\ env.events < MaxEvents
    /\ env' = [env EXCEPT !.attached = FALSE, !.events = @ + 1]
    /\ UNCHANGED <<port, turn, wanted>>

Elapse(t) ==
    /\ turn = "pe" /\ port.timers[t] = "running"
    /\ port' = [port EXCEPT !.timers[t] = "expired"]
    /\ UNCHANGED <<turn, wanted, env>>

PeRuns ==
    \/ PeInit \/ PeDetached \/ SoftResetReceived
    \/ Startup \/ Wait_for_Capabilities \/ Select_Capability \/ Transition_Sink
    \/ ReadyMessage \/ ReadyBusy \/ ReadyRetry \/ ReadyRequest \/ ReadyKeepsAlive
    \/ EPR_Keep_Alive \/ Reply
    \/ Hard_Reset \/ Transition_to_default \/ Soft_Reset \/ Send_Soft_Reset
    \/ Src_Disabled
    \/ Send_EPR_Mode_Entry \/ EPR_Mode_Entry_Wait_For_Response
    \/ BIST_Activate \/ BIST_Carrier_Mode \/ BIST_Test_Mode

PrlRuns ==
    \/ PrlDetached \/ PrlNothing \/ PrlSent \/ PrlFails \/ PrlReceives
    \/ PrlHardResetSent \/ PrlHardReset

Next ==
    \/ PeRuns \/ PrlRuns
    \/ \E profile \in Wanted : Trigger(profile)
    \/ SourceFallsSilent \/ BistDone \/ Attach \/ Detach
    \/ \E t \in Timers : Elapse(t)

Spec == Init /\ [][Next]_vars

\* Ticks go on, PRL and the driver get done what they were asked in the end, and
\* timers expire; the source owes nothing.
Fairness ==
    /\ WF_turn(turn = "pe" /\ turn' = "prl") /\ WF_turn(turn = "prl" /\ turn' = "pe")
    /\ SF_vars(PrlSent \/ PrlHardResetSent \/ BistDone)
    /\ SF_vars(\E t \in Timers : Elapse(t))

FairSpec == Spec /\ Fairness

-----------------------------------------------------------------------------
(* Properties *)

\* EPR mode needs a contract, and a profile above position 7 is requested and
\* contracted in EPR mode only: the source's lists, exits from EPR mode and the
\* resets come in any order, and each of them touches one of the three only.
EprConsistent ==
    /\ Has(port, "IN_EPR_MODE") => Has(port, "HAS_EXPLICIT_CONTRACT")
    /\ port.state = "Select_Capability" /\ port.rdo_to_request = "EPR"
          => Has(port, "IN_EPR_MODE")
    /\ Has(port, "HAS_EXPLICIT_CONTRACT") /\ port.rdo_contracted = "EPR"
          => Has(port, "IN_EPR_MODE")

\* In Ready the timers that keep the source from a hard reset are armed, by whatever
\* way PE came there: keep-alive in EPR mode, and the repeated request of a PPS
\* contract, unless the last list of the source was not valid.
RefreshArmed ==
    port.state = "Ready" =>
      /\ Has(port, "IN_EPR_MODE") => port.timers["EPRKeepAlive"] # "off"
      /\ Has(port, "HAS_EXPLICIT_CONTRACT") /\ port.rdo_contracted = "PPS"
           /\ port.caps \notin {"Caps_invalid", "Caps_empty"}
           => port.timers["PPSRequest"] # "off"

\* A state PE may stay in for ever.  When the source discards a reply or an Accept,
\* PE leaves the next step to it.
LeftToSource == /\ Has(port, "MSG_DISCARDED")
                /\ port.state \in Replying \cup {"Soft_Reset"}
AtRest == \/ ~env.attached \/ LeftToSource
          \/ port.state \in {"Ready", "Src_Disabled", "BIST_Test_Mode"}

\* When the source falls silent, PE does not wait for it for ever: each state that
\* awaits an answer has a timer that leads on, to a reset if need be, and the chain of
\* hard resets ends in Src_Disabled.  Messages of the source come in one piece: a chunk
\* of an answer stops the timer of it.
Settles == env.silent ~> AtRest

\* A request of DPM for a new power level outlives interruptions and failures, but not
\* for ever: if the source falls silent, a hard reset drops the request, too.
RequestSettled ==
    env.silent /\ "NEW_POWER_LEVEL" \in port.requests
        ~> \/ "NEW_POWER_LEVEL" \notin port.requests
           \/ ~env.attached \/ LeftToSource \/ port.state = "BIST_Test_Mode"
=============================================================================
