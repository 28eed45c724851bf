------------------------------ MODULE PeProofs ------------------------------
(***************************************************************************)
(* The policy engine, whatever the partner sends and how often, whatever   *)
(* the application asks for, and however often messages fail or the cable  *)
(* is pulled: EPR mode, contract and requests agree, and in Ready the      *)
(* timers that keep the contract alive run.  An invariant of a run() is    *)
(* one of the states it enters, so the lemmas say what each state may rely *)
(* on when it is entered (MayEnter), and the steps show that it is so.     *)
(***************************************************************************)
EXTENDS Pe, TLAPS

Ports == [state : States, from_caps : BOOLEAN, flags : SUBSET Flags,
          requests : SUBSET {"NEW_POWER_LEVEL", "EPR_MODE_ENTRY"},
          active : {"NONE", "NEW_POWER_LEVEL", "EPR_MODE_ENTRY"},
          timers : [Timers -> {"off", "running", "expired"}],
          caps : Capabilities \cup {"none"},
          rdo_to_request : Profiles \cup {"none"},
          rdo_contracted : Profiles \cup {"none"},
          resets : 0..255, msg : Kinds \cup {"none"}, bist : BOOLEAN,
          prl : {"off", "restart", "run"}, hr : {"idle", "asked", "waiting"},
          sending : BOOLEAN]
Envs == [attached : BOOLEAN, events : 0..MaxEvents, triggers : 0..MaxTriggers,
         failures : 0..MaxFailures, silent : BOOLEAN]

-----------------------------------------------------------------------------
(* What PRL tells of a message of PE: one thing of each.                     *)

Talking == Asking \cup Replying \cup {"Soft_Reset"}
Verdicts == {"TX_COMPLETE", "MSG_DISCARDED", "PROTOCOL_ERROR"}
Quiet(p) == \A f \in Verdicts : ~Has(p, f)

\* PRL works on a message of PE.
OnItsWay(p) == p.sending /\ p.prl = "run" /\ p.hr = "idle"

OneVerdict(p) ==
    /\ p.sending => Quiet(p)
    /\ \A f, g \in Verdicts : Has(p, f) /\ Has(p, g) => f = g

VerdictInv(p) ==
    /\ OneVerdict(p)
    /\ ~Quiet(p) => p.state \in Talking \cup {"Hard_Reset", "Src_Disabled", "Uninitialized"}
    /\ OnItsWay(p) => p.state \in Talking \cup {"Src_Disabled", "Uninitialized"}
    /\ p.state \in Asking /\ Has(p, "TRANSMIT_REQUEST_SUCCEEDED") => Quiet(p) /\ ~p.sending
    /\ p.state = "Send_Soft_Reset" /\ Has(p, "CAN_SEND_SOFT_RESET") =>
         /\ Quiet(p) /\ ~Has(p, "TRANSMIT_REQUEST_SUCCEEDED")
         /\ p.sending => p.prl = "restart"

-----------------------------------------------------------------------------
(* EPR mode, the contract and the list kept.                                 *)

InEpr(p) == Has(p, "IN_EPR_MODE")
InContract(p) == Has(p, "HAS_EXPLICIT_CONTRACT")

\* From here PE asks for power after another list only.
Resetting == {"Wait_for_Capabilities", "Soft_Reset", "Hard_Reset", "Transition_to_default",
              "Startup", "Uninitialized", "Src_Disabled"}
Entering == {"Send_EPR_Mode_Entry", "EPR_Mode_Entry_Wait_For_Response"}

ModeFits(p) ==
    /\ InEpr(p) => InContract(p)
    /\ InContract(p) /\ p.rdo_contracted = "EPR" => InEpr(p)

ListFits(p) == p.caps = "Caps_EPR" => InEpr(p)

EprInv(p) ==
    /\ ModeFits(p)
    /\ p.state = "Select_Capability" /\ p.rdo_to_request = "EPR" => InEpr(p)
    /\ ListFits(p) \/ p.state \in Resetting
    /\ p.state \in Entering => InContract(p)
    /\ p.state \in {"Transition_to_default", "Startup"} => ~InEpr(p)

RefreshInv(p) ==
    p.state = "Ready" =>
      /\ InEpr(p) => p.timers["EPRKeepAlive"] # "off"
      /\ IsInPpsContract(p) => p.timers["PPSRequest"] # "off"

Sound(p) == p \in Ports /\ VerdictInv(p) /\ EprInv(p) /\ RefreshInv(p)

IInv ==
    /\ TypeOK
    /\ Sound(port)
    /\ turn = "prl" /\ env.attached => port.state # "Uninitialized"

\* What a state relies on when it is entered.
MayEnter(s, p) ==
    /\ p \in Ports /\ OneVerdict(p) /\ ModeFits(p)
    /\ s \in States \ {"Uninitialized", "Src_Disabled"}
    /\ s \notin {"Hard_Reset", "Soft_Reset", "Send_Soft_Reset", "Ready", "Transition_to_default"}
         => Quiet(p)
    /\ s \in {"Ready", "Send_Soft_Reset"} => ~Has(p, "TX_COMPLETE")
    /\ s \notin Talking \cup {"Hard_Reset", "Startup"} => ~OnItsWay(p)
    /\ s \notin Resetting => ListFits(p)
    /\ s \in Entering => InContract(p)
    /\ s = "Startup" => ~InEpr(p)

-----------------------------------------------------------------------------
(* The helpers *)

LEMMA BistType == ASSUME NEW p \in Ports, NEW b \in BOOLEAN PROVE [p EXCEPT !.bist = b] \in Ports
BY DEF Ports

LEMMA AskedType ==
    ASSUME NEW p \in Ports, NEW n \in 0..255
    PROVE  [p EXCEPT !.hr = "asked", !.resets = n] \in Ports
<1> DEFINE q == [p EXCEPT !.hr = "asked"]
<1>1. q \in Ports
  BY DEF Ports
<1>2. [p EXCEPT !.hr = "asked", !.resets = n] = [q EXCEPT !.resets = n]
  OBVIOUS
<1> HIDE DEF q
<1>3. [q EXCEPT !.resets = n] \in Ports
  BY <1>1 DEF Ports
<1> QED
  BY <1>2, <1>3

LEMMA ListType ==
    ASSUME NEW p \in Ports, NEW b \in BOOLEAN, NEW n \in 0..255
    PROVE  [p EXCEPT !.from_caps = b, !.resets = n] \in Ports
<1>1. ASSUME NEW q \in Ports PROVE [q EXCEPT !.resets = n] \in Ports
  BY DEF Ports
<1>2. [p EXCEPT !.from_caps = b] \in Ports
  BY DEF Ports
<1>3. [[p EXCEPT !.from_caps = b] EXCEPT !.resets = n] \in Ports
  BY <1>1, <1>2
<1> QED
  BY <1>3

LEMMA HelperTypes ==
    ASSUME NEW p \in Ports
    PROVE  /\ \A t \in Timers : Start(p, t) \in Ports /\ Stop(p, t) \in Ports
           /\ \A f \in Flags : Set(p, f) \in Ports
           /\ \A S : Clear(p, S) \in Ports
           /\ Send(p) \in Ports /\ SendRequest(p) \in Ports
<1>1. ASSUME NEW t \in Timers PROVE Start(p, t) \in Ports /\ Stop(p, t) \in Ports
  BY DEF Start, Stop, Ports
<1>2. ASSUME NEW f \in Flags PROVE Set(p, f) \in Ports
  BY DEF Set, Ports
<1>3. ASSUME NEW S PROVE Clear(p, S) \in Ports
  BY DEF Clear, Ports
<1>4. ASSUME NEW q \in Ports, NEW S PROVE Clear(q, S) \in Ports
  BY DEF Clear, Ports
<1>5. ASSUME NEW q \in Ports, NEW b \in BOOLEAN PROVE [q EXCEPT !.sending = b] \in Ports
  BY DEF Ports
<1>6. ASSUME NEW q \in Ports PROVE Send(q) \in Ports
  BY <1>4, <1>5 DEF Send
<1>7. SendRequest(p) \in Ports
  BY <1>3, <1>6 DEF SendRequest
<1> QED
  BY <1>1, <1>2, <1>3, <1>6, <1>7

LEMMA SendFields ==
    ASSUME NEW p \in Ports
    PROVE  /\ Send(p).state = p.state /\ Send(p).caps = p.caps
           /\ Send(p).rdo_contracted = p.rdo_contracted
           /\ Send(p).flags = p.flags \ {"TX_COMPLETE"}
<1> DEFINE c == Clear(p, {"TX_COMPLETE"})
<1>1. /\ c.state = p.state /\ c.caps = p.caps
      /\ c.rdo_contracted = p.rdo_contracted /\ c.flags = p.flags \ {"TX_COMPLETE"}
  BY DEF Clear, Ports
<1>2. c \in Ports
  BY HelperTypes
<1>3. Send(p) = [c EXCEPT !.sending = TRUE]
  BY DEF Send
<1> HIDE DEF c
<1> QED
  BY <1>1, <1>2, <1>3 DEF Ports

\* The same but for what the invariants do not look at, and the timers.
Watched == Verdicts \cup {"HAS_EXPLICIT_CONTRACT", "IN_EPR_MODE",
                          "TRANSMIT_REQUEST_SUCCEEDED", "CAN_SEND_SOFT_RESET"}
Alike(p, q) ==
    /\ q.state = p.state /\ q.caps = p.caps /\ q.sending = p.sending
    /\ q.prl = p.prl /\ q.hr = p.hr
    /\ q.rdo_to_request = p.rdo_to_request /\ q.rdo_contracted = p.rdo_contracted
    /\ \A f \in Watched : Has(q, f) <=> Has(p, f)

LEMMA AlikeMayEnter ==
    ASSUME NEW p, NEW q, q \in Ports, Alike(p, q), NEW s, MayEnter(s, p) PROVE MayEnter(s, q)
BY DEF Alike, Watched, MayEnter, OneVerdict, Quiet, Verdicts, OnItsWay, ModeFits, ListFits, InEpr,
       InContract

LEMMA AlikeSound ==
    ASSUME NEW p, NEW q, q \in Ports, Alike(p, q), Sound(p),
           \A t \in {"EPRKeepAlive", "PPSRequest"} : p.timers[t] # "off" => q.timers[t] # "off"
    PROVE  Sound(q)
<1>1. VerdictInv(q)
  <2>1. /\ Quiet(q) <=> Quiet(p)
        /\ OneVerdict(q) <=> OneVerdict(p)
        /\ OnItsWay(q) <=> OnItsWay(p)
    BY DEF Alike, Watched, OneVerdict, Quiet, Verdicts, OnItsWay
  <2> QED
    BY <2>1 DEF Sound, Alike, Watched, VerdictInv
<1>2. EprInv(q)
  BY DEF Sound, Alike, Watched, EprInv, ModeFits, ListFits, InEpr, InContract
<1>3. RefreshInv(q)
  BY DEF Sound, Alike, Watched, RefreshInv, InEpr, IsInPpsContract
<1> QED
  BY <1>1, <1>2, <1>3 DEF Sound

LEMMA ExitAlike ==
    ASSUME NEW p \in Ports
    PROVE  Exit(p) \in Ports /\ Alike(p, Exit(p)) /\ Exit(p).msg = p.msg
<1> DEFINE timers == [t \in Timers |-> IF t \in StoppedOnExit(p) THEN "off" ELSE p.timers[t]]
           q == [p EXCEPT !.from_caps = FALSE, !.timers = timers]
<1>1. timers \in [Timers -> {"off", "running", "expired"}]
  BY DEF Ports
<1> HIDE DEF timers
<1>2. q \in Ports /\ Alike(p, q) /\ q.msg = p.msg
  <2>1. q \in Ports
    BY <1>1 DEF Ports
  <2>2. /\ q.state = p.state /\ q.caps = p.caps /\ q.sending = p.sending /\ q.flags = p.flags
        /\ q.prl = p.prl /\ q.hr = p.hr /\ q.msg = p.msg
        /\ q.rdo_to_request = p.rdo_to_request /\ q.rdo_contracted = p.rdo_contracted
    BY DEF Ports
  <2> HIDE DEF q
  <2> QED
    BY <2>1, <2>2 DEF Alike, Has
<1>3. Exit(p) = q
  BY DEF Exit, timers
<1> HIDE DEF q
<1> QED
  BY <1>2, <1>3

-----------------------------------------------------------------------------
(* Entering a state *)

\* What is left as it was.
Kept(p, r) ==
    /\ r.caps = p.caps /\ r.rdo_contracted = p.rdo_contracted
    /\ \A f \in {"HAS_EXPLICIT_CONTRACT", "IN_EPR_MODE"} : Has(r, f) <=> Has(p, f)

LEMMA EnterQuietly ==
    ASSUME NEW p, NEW r \in Ports, NEW s, MayEnter(s, p), Kept(p, r), r.state = s,
           s \notin Asking \cup {"Startup", "Ready", "Transition_to_default"},
           Quiet(r), r.sending => s \in Talking \/ ~OnItsWay(r)
    PROVE  Sound(r)
<1>1. VerdictInv(r)
  BY DEF VerdictInv, OneVerdict, Quiet, OnItsWay, Asking
<1>2. EprInv(r)
  BY DEF EprInv, MayEnter, Kept, ModeFits, ListFits, InEpr, InContract, Asking, Resetting, Entering
<1> QED
  BY <1>1, <1>2 DEF Sound, RefreshInv

LEMMA EnterWaiting ==
    ASSUME NEW p, NEW s \in {"Wait_for_Capabilities", "Transition_Sink", "BIST_Activate",
                             "EPR_Mode_Entry_Wait_For_Response", "BIST_Carrier_Mode",
                             "BIST_Test_Mode"},
           MayEnter(s, p)
    PROVE  Sound(Enter(s, p)) /\ Enter(s, p).state = s
<1> DEFINE q == [p EXCEPT !.state = s]
           r == Enter(s, p)
<1>1. p \in Ports /\ s \in States /\ Quiet(p) /\ ~OnItsWay(p)
  BY DEF MayEnter, Talking, Asking, Replying
<1>2. /\ q \in Ports /\ q.state = s /\ q.caps = p.caps /\ q.rdo_contracted = p.rdo_contracted
      /\ q.flags = p.flags /\ q.sending = p.sending /\ q.prl = p.prl /\ q.hr = p.hr
  BY <1>1 DEF Ports
<1>3. \/ r = q
      \/ r = [q EXCEPT !.bist = TRUE]
      \/ \E t \in Timers : r = Start(q, t)
  BY DEF Enter, Replying, Timers
<1> HIDE DEF q, r
<1>4. /\ r \in Ports /\ r.state = s /\ r.caps = p.caps /\ r.rdo_contracted = p.rdo_contracted
      /\ r.flags = p.flags /\ r.sending = p.sending /\ r.prl = p.prl /\ r.hr = p.hr
  <2>1. CASE r = q
    BY <1>2, <2>1
  <2>2. CASE r = [q EXCEPT !.bist = TRUE]
    <3>1. r \in Ports
      BY <1>2, <2>2, BistType
    <3> QED
      BY <1>2, <2>2, <3>1 DEF Ports
  <2>3. CASE \E t \in Timers : r = Start(q, t)
    <3>1. PICK t \in Timers : r = Start(q, t)
      BY <2>3
    <3>2. r \in Ports
      BY <1>2, <3>1, HelperTypes
    <3> QED
      BY <1>2, <3>1, <3>2 DEF Ports, Start
  <2> QED
    BY <1>3, <2>1, <2>2, <2>3
<1>5. Quiet(r) /\ ~OnItsWay(r) /\ Kept(p, r)
  BY <1>1, <1>4 DEF Quiet, OnItsWay, Kept, Has
<1>6. s \notin Asking \cup {"Startup", "Ready", "Transition_to_default"}
  BY DEF Asking
<1>7. Sound(r)
  BY <1>4, <1>5, <1>6, EnterQuietly
<1> QED
  BY <1>4, <1>7 DEF r

LEMMA EnterReplying ==
    ASSUME NEW p, NEW s \in Replying \cup {"Soft_Reset"}, MayEnter(s, p)
    PROVE  Sound(Enter(s, p)) /\ Enter(s, p).state = s
<1> DEFINE q == [p EXCEPT !.state = s]
           r == Enter(s, p)
<1>1. p \in Ports /\ s \in States /\ (s # "Soft_Reset" => Quiet(p))
  BY DEF MayEnter, Replying
<1>2. /\ q \in Ports /\ q.state = s /\ q.caps = p.caps /\ q.rdo_contracted = p.rdo_contracted
      /\ q.flags = p.flags
  BY <1>1 DEF Ports
<1>3. r = Send(IF s = "Soft_Reset" THEN Clear(q, Reports) ELSE q)
  BY DEF Enter, Replying
<1> HIDE DEF q, r
<1> DEFINE x == IF s = "Soft_Reset" THEN Clear(q, Reports) ELSE q
<1>4. x \in Ports /\ r \in Ports
  BY <1>2, <1>3, HelperTypes
<1>5. /\ r.state = s /\ r.caps = p.caps /\ r.rdo_contracted = p.rdo_contracted
      /\ r.flags = (IF s = "Soft_Reset" THEN p.flags \ Reports ELSE p.flags) \ {"TX_COMPLETE"}
  <2>1. /\ x.state = s /\ x.caps = p.caps /\ x.rdo_contracted = p.rdo_contracted
        /\ x.flags = IF s = "Soft_Reset" THEN p.flags \ Reports ELSE p.flags
    BY <1>2 DEF Ports, Clear
  <2> HIDE DEF x
  <2>2. /\ r.state = x.state /\ r.caps = x.caps /\ r.rdo_contracted = x.rdo_contracted
        /\ r.flags = x.flags \ {"TX_COMPLETE"}
    BY <1>3, <1>4, SendFields DEF x
  <2> QED
    BY <2>1, <2>2
<1>6. Quiet(r) /\ Kept(p, r)
  BY <1>1, <1>5 DEF Quiet, Kept, Has, Verdicts, Reports
<1>7. s \notin Asking \cup {"Startup", "Ready", "Transition_to_default"} /\ s \in Talking
  BY DEF Asking, Replying, Talking
<1>8. Sound(r)
  BY <1>4, <1>5, <1>6, <1>7, EnterQuietly
<1> QED
  BY <1>5, <1>8 DEF r

LEMMA EnterAsking ==
    ASSUME NEW p, NEW r \in Ports, NEW s \in Asking, MayEnter(s, p), Kept(p, r), r.state = s,
           Quiet(r), ~Has(r, "TRANSMIT_REQUEST_SUCCEEDED"),
           s = "Send_Soft_Reset" => r.prl = "restart",
           s = "Select_Capability" /\ r.rdo_to_request = "EPR" => InEpr(p)
    PROVE  Sound(r)
<1>1. VerdictInv(r)
  BY DEF VerdictInv, OneVerdict, Quiet, OnItsWay, Asking, Talking
<1>2. EprInv(r)
  BY DEF EprInv, MayEnter, Kept, ModeFits, ListFits, InEpr, InContract, Asking, Resetting, Entering
<1>3. RefreshInv(r)
  BY DEF RefreshInv, Asking
<1> QED
  BY <1>1, <1>2, <1>3 DEF Sound

LEMMA EnterStartupSound ==
    ASSUME NEW p, MayEnter("Startup", p)
    PROVE  Sound(Enter("Startup", p)) /\ Enter("Startup", p).state = "Startup"
<1> DEFINE q == [p EXCEPT !.state = "Startup"]
           c == Clear(q, {"HAS_EXPLICIT_CONTRACT"})
           r == [c EXCEPT !.prl = "restart"]
<1>1. p \in Ports /\ Quiet(p) /\ ~InEpr(p)
  BY DEF MayEnter
<1>2. q \in Ports /\ q.state = "Startup" /\ q.flags = p.flags
  BY <1>1 DEF Ports, States
<1>3. Enter("Startup", p) = r
  BY DEF Enter, EnterStartup, Replying
<1> HIDE DEF q
<1>4. c \in Ports /\ c.state = "Startup" /\ c.flags = p.flags \ {"HAS_EXPLICIT_CONTRACT"}
  <2>1. c \in Ports
    BY <1>2, HelperTypes
  <2> QED
    BY <1>2, <2>1 DEF Clear, Ports
<1> HIDE DEF c
<1>5. r \in Ports /\ r.state = "Startup" /\ r.prl = "restart" /\ r.flags = c.flags
  BY <1>4 DEF Ports
<1> HIDE DEF r
<1>6. Quiet(r) /\ ~InEpr(r) /\ ~InContract(r)
  BY <1>1, <1>4, <1>5 DEF Quiet, InEpr, InContract, Has
<1>7. VerdictInv(r)
  BY <1>5, <1>6 DEF VerdictInv, OneVerdict, Quiet, OnItsWay, Asking
<1>8. EprInv(r)
  BY <1>5, <1>6 DEF EprInv, ModeFits, Resetting, Entering
<1> QED
  BY <1>3, <1>5, <1>7, <1>8 DEF Sound, RefreshInv

LEMMA HardResetSound ==
    ASSUME NEW q \in Ports, q.state = "Hard_Reset", OneVerdict(q), ModeFits(q)
    PROVE  Sound(EnterHardReset(q)) /\ EnterHardReset(q).state \in {"Hard_Reset", "Src_Disabled"}
<1> DEFINE c == Clear(q, {"HR_BY_CAPS_TIMEOUT"})
           off == [c EXCEPT !.state = "Src_Disabled"]
           d == Set(c, "PRL_HARD_RESET_PENDING")
           n == (q.resets + 1) % 256
           on == [d EXCEPT !.hr = "asked", !.resets = (@ + 1) % 256]
           r == EnterHardReset(q)
<1>1. /\ c \in Ports /\ c.state = q.state /\ c.sending = q.sending /\ c.resets = q.resets
      /\ c.caps = q.caps /\ c.rdo_contracted = q.rdo_contracted
      /\ c.prl = q.prl /\ c.hr = q.hr /\ c.flags = q.flags \ {"HR_BY_CAPS_TIMEOUT"}
  <2>1. c \in Ports
    BY HelperTypes
  <2> QED
    BY <2>1 DEF Clear, Ports
<1>2. /\ d \in Ports /\ d.state = q.state /\ d.sending = q.sending /\ d.resets = q.resets
      /\ d.caps = q.caps /\ d.rdo_contracted = q.rdo_contracted
      /\ d.prl = q.prl /\ d.hr = q.hr /\ d.flags = c.flags \cup {"PRL_HARD_RESET_PENDING"}
  <2>1. d \in Ports
    BY <1>1, HelperTypes DEF Flags
  <2> HIDE DEF c
  <2> QED
    BY <1>1, <2>1 DEF Set, Ports
<1>3. r = off \/ r = on
  BY DEF EnterHardReset
<1> HIDE DEF c, d
<1>4. /\ off \in Ports /\ off.state = "Src_Disabled" /\ off.sending = q.sending
      /\ off.caps = q.caps /\ off.rdo_contracted = q.rdo_contracted /\ off.flags = c.flags
  BY <1>1 DEF Ports, States
<1>5. n \in 0..255
  BY DEF Ports
<1>6. on = [d EXCEPT !.hr = "asked", !.resets = n]
  BY <1>2
<1> HIDE DEF n, on
<1>7. /\ on \in Ports /\ on.state = "Hard_Reset" /\ on.sending = q.sending /\ on.hr = "asked"
      /\ on.caps = q.caps /\ on.rdo_contracted = q.rdo_contracted /\ on.flags = d.flags
  <2>1. on \in Ports
    BY <1>2, <1>5, <1>6, AskedType
  <2> QED
    BY <1>2, <1>5, <1>6, <2>1 DEF Ports
<1> HIDE DEF off, r
<1>8. /\ r \in Ports /\ r.state \in {"Hard_Reset", "Src_Disabled"} /\ r.sending = q.sending
      /\ r.rdo_contracted = q.rdo_contracted
      /\ r.state = "Hard_Reset" => r.hr = "asked"
      /\ \A f \in Verdicts \cup {"HAS_EXPLICIT_CONTRACT", "IN_EPR_MODE"} :
            Has(r, f) <=> Has(q, f)
  BY <1>1, <1>2, <1>3, <1>4, <1>7 DEF Has, Verdicts
<1>9. VerdictInv(r)
  BY <1>8 DEF VerdictInv, OneVerdict, Quiet, OnItsWay, Asking
<1>10. EprInv(r)
  BY <1>8 DEF EprInv, ModeFits, InEpr, InContract, Resetting, Entering
<1> QED
  BY <1>8, <1>9, <1>10 DEF Sound, RefreshInv, r

LEMMA EnterHardResetState ==
    ASSUME NEW p, MayEnter("Hard_Reset", p)
    PROVE  /\ Sound(Enter("Hard_Reset", p))
           /\ Enter("Hard_Reset", p).state \in {"Hard_Reset", "Src_Disabled"}
<1> DEFINE q == [p EXCEPT !.state = "Hard_Reset"]
<1>1. p \in Ports /\ OneVerdict(p) /\ ModeFits(p)
  BY DEF MayEnter
<1>2. /\ q \in Ports /\ q.state = "Hard_Reset" /\ q.rdo_contracted = p.rdo_contracted
      /\ q.flags = p.flags /\ q.sending = p.sending
  BY <1>1 DEF Ports, States
<1>3. Enter("Hard_Reset", p) = EnterHardReset(q)
  BY DEF Enter, Replying
<1> HIDE DEF q
<1>4. OneVerdict(q) /\ ModeFits(q)
  BY <1>1, <1>2 DEF OneVerdict, ModeFits, Quiet, InEpr, InContract, Has
<1> QED
  BY <1>2, <1>3, <1>4, HardResetSound

LEMMA RequestTypes ==
    ASSUME NEW p \in Ports, wanted \in Wanted
    PROVE  /\ RequestDataObject(p) \in Profiles \cup {"none"}
           /\ RequestDataObject(p) = "EPR" => p.caps = "Caps_EPR"
BY WantedAssumption DEF RequestDataObject, Profiles

LEMMA EnterSelectState ==
    ASSUME NEW p, MayEnter("Select_Capability", p), wanted \in Wanted
    PROVE  /\ Sound(Enter("Select_Capability", p))
           /\ Enter("Select_Capability", p).state
                 \in {"Select_Capability", "Hard_Reset", "Src_Disabled"}
<1> DEFINE q == [p EXCEPT !.state = "Select_Capability"]
           rdo == RequestDataObject(q)
           e == Enter("Select_Capability", p)
<1>1. p \in Ports /\ Quiet(p) /\ ModeFits(p) /\ ListFits(p)
  BY DEF MayEnter, Resetting
<1>2. /\ q \in Ports /\ q.state = "Select_Capability" /\ q.rdo_contracted = p.rdo_contracted
      /\ q.caps = p.caps /\ q.flags = p.flags /\ q.sending = p.sending
  BY <1>1 DEF Ports, States
<1>3. e = EnterSelect(q)
  BY DEF Enter, Replying
<1> HIDE DEF q, e
<1>4. CASE rdo = "none"
  <2> DEFINE a == Stop(q, "SenderResponse")
             b == Clear(a, {"TRANSMIT_REQUEST_SUCCEEDED"})
             c == [b EXCEPT !.state = "Hard_Reset"]
  <2>1. a \in Ports /\ b \in Ports
    BY <1>2, HelperTypes DEF Timers
  <2>2. /\ a.rdo_contracted = p.rdo_contracted /\ a.flags = p.flags /\ a.sending = p.sending
    BY <1>2, <2>1 DEF Stop, Ports
  <2> HIDE DEF a
  <2>3. /\ b.rdo_contracted = p.rdo_contracted /\ b.sending = p.sending
        /\ b.flags = p.flags \ {"TRANSMIT_REQUEST_SUCCEEDED"}
    BY <2>1, <2>2 DEF Clear, Ports
  <2>4. e = EnterHardReset(c)
    BY <1>3, <1>4 DEF EnterSelect, a
  <2> HIDE DEF b
  <2>5. /\ c \in Ports /\ c.state = "Hard_Reset"
        /\ c.rdo_contracted = p.rdo_contracted /\ c.sending = p.sending
        /\ c.flags = p.flags \ {"TRANSMIT_REQUEST_SUCCEEDED"}
    BY <2>1, <2>3 DEF Ports, States
  <2> HIDE DEF c
  <2>6. OneVerdict(c) /\ ModeFits(c)
    BY <1>1, <2>5 DEF OneVerdict, ModeFits, Quiet, InEpr, InContract, Has, Verdicts
  <2>7. Sound(e) /\ e.state \in {"Hard_Reset", "Src_Disabled"}
    BY <2>4, <2>5, <2>6, HardResetSound
  <2> QED
    BY <2>7 DEF e
<1>5. CASE rdo # "none"
  <2> DEFINE a == Stop(q, "SinkRequest")
             b == [a EXCEPT !.rdo_to_request = rdo]
  <2>1. a \in Ports
    BY <1>2, HelperTypes DEF Timers
  <2>2. /\ a.state = "Select_Capability" /\ a.caps = p.caps
        /\ a.rdo_contracted = p.rdo_contracted /\ a.flags = p.flags
    BY <1>2, <2>1 DEF Stop, Ports
  <2>3. rdo \in Profiles /\ (rdo = "EPR" => q.caps = "Caps_EPR")
    BY <1>2, <1>5, RequestTypes
  <2>4. e = SendRequest(b)
    BY <1>3, <1>5 DEF EnterSelect
  <2> HIDE DEF a, rdo
  <2>5. /\ b \in Ports /\ b.state = "Select_Capability" /\ b.caps = p.caps
        /\ b.rdo_contracted = p.rdo_contracted /\ b.flags = p.flags /\ b.rdo_to_request = rdo
    <3>1. b \in Ports
      BY <2>1, <2>3 DEF Ports
    <3> QED
      BY <2>1, <2>2, <2>3, <3>1 DEF Ports
  <2> HIDE DEF b
  <2>6. e \in Ports
    BY <2>4, <2>5, HelperTypes
  <2>7. /\ e.state = "Select_Capability" /\ e.caps = p.caps /\ e.rdo_to_request = rdo
        /\ e.rdo_contracted = p.rdo_contracted
        /\ e.flags = p.flags \ {"TX_COMPLETE", "TRANSMIT_REQUEST_SUCCEEDED"}
    BY <2>4, <2>5, <2>6 DEF SendRequest, Send, Clear, Ports
  <2>8. /\ Quiet(e) /\ Kept(p, e) /\ ~Has(e, "TRANSMIT_REQUEST_SUCCEEDED")
        /\ e.rdo_to_request = "EPR" => InEpr(p)
    BY <1>1, <1>2, <2>3, <2>7 DEF Quiet, Verdicts, Has, Kept, ListFits
  <2>9. Sound(e)
    BY <2>6, <2>7, <2>8, EnterAsking DEF Asking
  <2> QED
    BY <2>7, <2>9 DEF e
<1> QED
  BY <1>4, <1>5

LEMMA EnterSending ==
    ASSUME NEW p, NEW s \in {"EPR_Keep_Alive", "Send_EPR_Mode_Entry"}, MayEnter(s, p)
    PROVE  Sound(Enter(s, p)) /\ Enter(s, p).state = s
<1> DEFINE q == [p EXCEPT !.state = s]
           a == SendRequest(q)
           e == Enter(s, p)
<1>1. p \in Ports /\ Quiet(p) /\ s \in Asking
  BY DEF MayEnter, Asking
<1>2. /\ q \in Ports /\ q.state = s /\ q.rdo_contracted = p.rdo_contracted
      /\ q.caps = p.caps /\ q.flags = p.flags
  BY <1>1 DEF Ports, States
<1>3. e = IF s = "EPR_Keep_Alive" THEN a ELSE Start(a, "EnterEPR")
  BY DEF Enter, Replying
<1> HIDE DEF q, e
<1>4. a \in Ports /\ e \in Ports
  BY <1>2, <1>3, HelperTypes DEF Timers
<1>5. /\ a.state = s /\ a.caps = p.caps /\ a.rdo_contracted = p.rdo_contracted
      /\ a.flags = p.flags \ {"TX_COMPLETE", "TRANSMIT_REQUEST_SUCCEEDED"}
  BY <1>2, <1>4 DEF SendRequest, Send, Clear, Ports
<1> HIDE DEF a
<1>6. /\ e.state = s /\ e.caps = p.caps /\ e.rdo_contracted = p.rdo_contracted
      /\ e.flags = p.flags \ {"TX_COMPLETE", "TRANSMIT_REQUEST_SUCCEEDED"}
  BY <1>3, <1>4, <1>5 DEF Start, Ports
<1>7. Quiet(e) /\ Kept(p, e) /\ ~Has(e, "TRANSMIT_REQUEST_SUCCEEDED")
  BY <1>1, <1>6 DEF Quiet, Verdicts, Has, Kept
<1>8. Sound(e)
  BY <1>1, <1>4, <1>6, <1>7, EnterAsking
<1> QED
  BY <1>6, <1>8 DEF e

LEMMA EnterSendSoftResetState ==
    ASSUME NEW p, MayEnter("Send_Soft_Reset", p)
    PROVE  /\ Sound(Enter("Send_Soft_Reset", p))
           /\ Enter("Send_Soft_Reset", p).state = "Send_Soft_Reset"
<1> DEFINE q == [p EXCEPT !.state = "Send_Soft_Reset"]
           a == Clear(q, Reports \cup {"TRANSMIT_REQUEST_SUCCEEDED"})
           b == Set(a, "CAN_SEND_SOFT_RESET")
           c == [b EXCEPT !.prl = "restart"]
           e == Enter("Send_Soft_Reset", p)
<1>1. p \in Ports /\ ~Has(p, "TX_COMPLETE")
  BY DEF MayEnter
<1>2. /\ q \in Ports /\ q.state = "Send_Soft_Reset" /\ q.rdo_contracted = p.rdo_contracted
      /\ q.caps = p.caps /\ q.flags = p.flags
  BY <1>1 DEF Ports, States
<1>3. e = c
  BY DEF Enter, EnterSendSoftReset, Replying
<1> HIDE DEF q, e
<1>4. a \in Ports /\ b \in Ports
  BY <1>2, HelperTypes DEF Flags
<1>5. /\ a.state = "Send_Soft_Reset" /\ a.caps = p.caps /\ a.rdo_contracted = p.rdo_contracted
      /\ a.flags = p.flags \ (Reports \cup {"TRANSMIT_REQUEST_SUCCEEDED"})
  BY <1>2, <1>4 DEF Clear, Ports
<1> HIDE DEF a
<1>6. /\ b.state = "Send_Soft_Reset" /\ b.caps = p.caps /\ b.rdo_contracted = p.rdo_contracted
      /\ b.flags = a.flags \cup {"CAN_SEND_SOFT_RESET"}
  BY <1>4, <1>5 DEF Set, Ports
<1> HIDE DEF b
<1>7. /\ c \in Ports /\ c.state = "Send_Soft_Reset" /\ c.caps = p.caps /\ c.prl = "restart"
      /\ c.rdo_contracted = p.rdo_contracted /\ c.flags = b.flags
  BY <1>4, <1>6 DEF Ports
<1> HIDE DEF c
<1>8. Quiet(c) /\ Kept(p, c) /\ ~Has(c, "TRANSMIT_REQUEST_SUCCEEDED")
  BY <1>1, <1>5, <1>6, <1>7 DEF Quiet, Verdicts, Has, Kept, Reports
<1>9. Sound(c)
  BY <1>7, <1>8, EnterAsking DEF Asking
<1> QED
  BY <1>3, <1>7, <1>9 DEF e

LEMMA EnterDefaultState ==
    ASSUME NEW p, MayEnter("Transition_to_default", p)
    PROVE  /\ Sound(Enter("Transition_to_default", p))
           /\ Enter("Transition_to_default", p).state = "Transition_to_default"
<1> DEFINE q == [p EXCEPT !.state = "Transition_to_default"]
           c == ClearAll(q)
           e == Enter("Transition_to_default", p)
<1>1. p \in Ports /\ ~OnItsWay(p)
  BY DEF MayEnter, Talking, Asking, Replying
<1>2. /\ q \in Ports /\ q.state = "Transition_to_default" /\ q.sending = p.sending
      /\ q.prl = p.prl /\ q.hr = p.hr
  BY <1>1 DEF Ports, States
<1>3. e = c
  BY DEF Enter, Replying
<1> HIDE DEF q, e
<1>4. /\ c \in Ports /\ c.state = "Transition_to_default" /\ c.sending = p.sending
      /\ c.prl = p.prl /\ c.hr = p.hr /\ c.flags = {}
  <2>1. c \in Ports
    BY <1>2 DEF ClearAll, Ports
  <2> QED
    BY <1>2, <2>1 DEF ClearAll, Ports
<1> HIDE DEF c
<1>5. VerdictInv(c)
  BY <1>1, <1>4 DEF VerdictInv, OneVerdict, Quiet, OnItsWay, Asking, Has
<1>6. EprInv(c)
  BY <1>4 DEF EprInv, ModeFits, InEpr, InContract, Has, Resetting, Entering
<1>7. Sound(c)
  BY <1>4, <1>5, <1>6 DEF Sound, RefreshInv
<1> QED
  BY <1>3, <1>4, <1>7 DEF e

LEMMA EnterReadyState ==
    ASSUME NEW p, MayEnter("Ready", p)
    PROVE  Sound(Enter("Ready", p)) /\ Enter("Ready", p).state = "Ready"
<1> DEFINE s == [p EXCEPT !.state = "Ready"]
           c == Clear(s, {"MSG_DISCARDED", "PROTOCOL_ERROR"})
           q == [c EXCEPT !.active = "NONE"]
           r == IF IsInPpsContract(q) THEN Start(q, "PPSRequest") ELSE q
           e == Enter("Ready", p)
           Same(x) == /\ x.state = "Ready" /\ x.caps = p.caps /\ x.sending = p.sending
                      /\ x.rdo_contracted = p.rdo_contracted /\ x.prl = p.prl /\ x.hr = p.hr
                      /\ \A f \in {"HAS_EXPLICIT_CONTRACT", "IN_EPR_MODE"} :
                            Has(x, f) <=> Has(p, f)
                      /\ Quiet(x)
<1>1. p \in Ports /\ ~Has(p, "TX_COMPLETE") /\ ~OnItsWay(p) /\ ModeFits(p) /\ ListFits(p)
  BY DEF MayEnter, Talking, Asking, Replying, Resetting
<1>2. /\ s \in Ports /\ s.state = "Ready" /\ s.caps = p.caps /\ s.sending = p.sending
      /\ s.rdo_contracted = p.rdo_contracted /\ s.prl = p.prl /\ s.hr = p.hr
      /\ s.flags = p.flags
  BY <1>1 DEF Ports, States
<1> HIDE DEF s
<1>3. /\ c \in Ports /\ c.state = "Ready" /\ c.caps = p.caps /\ c.sending = p.sending
      /\ c.rdo_contracted = p.rdo_contracted /\ c.prl = p.prl /\ c.hr = p.hr
      /\ c.flags = p.flags \ {"MSG_DISCARDED", "PROTOCOL_ERROR"}
  <2>1. c \in Ports
    BY <1>2, HelperTypes
  <2> QED
    BY <1>2, <2>1 DEF Clear, Ports
<1>4. /\ q \in Ports /\ q.state = "Ready" /\ q.caps = p.caps /\ q.sending = p.sending
      /\ q.rdo_contracted = p.rdo_contracted /\ q.prl = p.prl /\ q.hr = p.hr
      /\ q.flags = c.flags
  <2> HIDE DEF c
  <2> QED
    BY <1>3 DEF Ports
<1>5. e = IF Has(r, "IN_EPR_MODE") THEN Start(r, "EPRKeepAlive")
          ELSE IF IsEprModeAvailable(r)
            THEN [r EXCEPT !.requests = @ \cup {"EPR_MODE_ENTRY"}]
            ELSE r
  BY DEF Enter, EnterReady, Replying, q, c, s
<1> HIDE DEF e, q, c
<1>6. q \in Ports /\ Same(q)
  BY <1>1, <1>3, <1>4 DEF Quiet, Verdicts, Has
<1>7. /\ r \in Ports /\ Same(r)
      /\ IsInPpsContract(r) => r.timers["PPSRequest"] # "off"
  <2>1. CASE ~IsInPpsContract(q)
    BY <1>6, <2>1
  <2>2. CASE IsInPpsContract(q)
    <3>1. r = Start(q, "PPSRequest")
      BY <2>2
    <3>2. r \in Ports
      BY <1>6, <3>1, HelperTypes DEF Timers
    <3> HIDE DEF r
    <3>3. /\ r.state = q.state /\ r.caps = q.caps /\ r.sending = q.sending
          /\ r.rdo_contracted = q.rdo_contracted /\ r.prl = q.prl /\ r.hr = q.hr
          /\ r.flags = q.flags /\ r.timers["PPSRequest"] = "running"
      BY <1>6, <3>1, <3>2 DEF Start, Ports, Timers
    <3> QED
      BY <1>6, <3>2, <3>3 DEF Quiet, Has
  <2> QED
    BY <2>1, <2>2
<1> HIDE DEF r
<1>8. /\ e \in Ports /\ Same(e) /\ e.timers["PPSRequest"] = r.timers["PPSRequest"]
      /\ InEpr(e) => e.timers["EPRKeepAlive"] # "off"
  <2>1. CASE Has(r, "IN_EPR_MODE")
    <3>1. e = Start(r, "EPRKeepAlive")
      BY <1>5, <2>1
    <3>2. e \in Ports
      BY <1>7, <3>1, HelperTypes DEF Timers
    <3>3. /\ e.state = r.state /\ e.caps = r.caps /\ e.sending = r.sending
          /\ e.rdo_contracted = r.rdo_contracted /\ e.prl = r.prl /\ e.hr = r.hr
          /\ e.flags = r.flags /\ e.timers["EPRKeepAlive"] = "running"
          /\ e.timers["PPSRequest"] = r.timers["PPSRequest"]
      BY <1>7, <3>1, <3>2 DEF Start, Ports, Timers
    <3> QED
      BY <1>7, <3>2, <3>3 DEF Quiet, Has
  <2>2. CASE ~Has(r, "IN_EPR_MODE") /\ IsEprModeAvailable(r)
    <3>1. e = [r EXCEPT !.requests = @ \cup {"EPR_MODE_ENTRY"}]
      BY <1>5, <2>2
    <3>2. e \in Ports
      BY <1>7, <3>1 DEF Ports
    <3>3. /\ e.state = r.state /\ e.caps = r.caps /\ e.sending = r.sending
          /\ e.rdo_contracted = r.rdo_contracted /\ e.prl = r.prl /\ e.hr = r.hr
          /\ e.flags = r.flags /\ e.timers = r.timers
      BY <1>7, <3>1, <3>2 DEF Ports
    <3> QED
      BY <1>7, <2>2, <3>2, <3>3 DEF Quiet, Has, InEpr
  <2>3. CASE ~Has(r, "IN_EPR_MODE") /\ ~IsEprModeAvailable(r)
    BY <1>5, <1>7, <2>3 DEF InEpr
  <2> QED
    BY <2>1, <2>2, <2>3
<1>9. IsInPpsContract(e) => e.timers["PPSRequest"] # "off"
  BY <1>7, <1>8 DEF IsInPpsContract
<1>10. VerdictInv(e)
  BY <1>1, <1>8 DEF VerdictInv, OneVerdict, OnItsWay, Asking, Quiet
<1>11. EprInv(e)
  BY <1>1, <1>8 DEF EprInv, ModeFits, ListFits, InEpr, InContract, Entering
<1> QED
  BY <1>8, <1>9, <1>10, <1>11 DEF Sound, RefreshInv, e

LEMMA Enters ==
    ASSUME NEW p, NEW s, MayEnter(s, p), wanted \in Wanted
    PROVE  Sound(Enter(s, p)) /\ Enter(s, p).state # "Uninitialized"
<1>1. s \in States \ {"Uninitialized", "Src_Disabled"}
  BY DEF MayEnter
<1>2. CASE s \in {"Wait_for_Capabilities", "Transition_Sink", "BIST_Activate",
                  "EPR_Mode_Entry_Wait_For_Response", "BIST_Carrier_Mode", "BIST_Test_Mode"}
  BY <1>2, EnterWaiting
<1>3. CASE s \in Replying \cup {"Soft_Reset"}
  BY <1>1, <1>3, EnterReplying
<1>4. CASE s \in {"EPR_Keep_Alive", "Send_EPR_Mode_Entry"}
  BY <1>4, EnterSending
<1>5. CASE s \in {"Startup", "Select_Capability", "Ready", "Hard_Reset",
                  "Transition_to_default", "Send_Soft_Reset"}
  BY <1>5, EnterStartupSound, EnterSelectState, EnterReadyState, EnterHardResetState,
     EnterDefaultState, EnterSendSoftResetState
<1> QED
  BY <1>1, <1>2, <1>3, <1>4, <1>5 DEF States, Replying

LEMMA Goes ==
    ASSUME NEW p \in Ports, NEW s, MayEnter(s, p), wanted \in Wanted
    PROVE  Sound(Goto(s, p)) /\ Goto(s, p).state # "Uninitialized"
<1>1. MayEnter(s, Exit(p))
  BY ExitAlike, AlikeMayEnter
<1> QED
  BY <1>1, Enters DEF Goto

LEMMA TidySound == ASSUME NEW p, Sound(p) PROVE Sound(Tidy(p)) /\ Tidy(p).state = p.state
<1> DEFINE msg == IF Heard(p) \/ p.state = "BIST_Activate" THEN p.msg ELSE "none"
           flags == IF p.state \in Asking THEN p.flags
                    ELSE p.flags \ {"TRANSMIT_REQUEST_SUCCEEDED"}
           q == [p EXCEPT !.msg = msg, !.flags = flags]
<1>1. p \in Ports /\ VerdictInv(p) /\ EprInv(p) /\ RefreshInv(p)
  BY DEF Sound
<1>2. msg \in Kinds \cup {"none"} /\ flags \in SUBSET Flags
  BY <1>1 DEF Ports
<1>3. \A f \in (Verdicts \cup {"HAS_EXPLICIT_CONTRACT", "IN_EPR_MODE", "CAN_SEND_SOFT_RESET"}) :
         f \in flags <=> Has(p, f)
  BY DEF Has, Verdicts
<1>4. p.state \in Asking => flags = p.flags
  OBVIOUS
<1>5. Tidy(p) = q
  BY <1>1 DEF Tidy, Ports
<1> HIDE DEF msg, flags, q
<1>6. /\ q \in Ports /\ q.state = p.state /\ q.caps = p.caps /\ q.sending = p.sending
      /\ q.prl = p.prl /\ q.hr = p.hr /\ q.timers = p.timers
      /\ q.rdo_to_request = p.rdo_to_request /\ q.rdo_contracted = p.rdo_contracted
      /\ q.flags = flags
  <2>1. q \in Ports
    BY <1>1, <1>2 DEF q, Ports
  <2> QED
    BY <1>1, <1>2, <2>1 DEF q, Ports
<1>7. \A f \in (Verdicts \cup {"HAS_EXPLICIT_CONTRACT", "IN_EPR_MODE", "CAN_SEND_SOFT_RESET"}) :
         Has(q, f) <=> Has(p, f)
  BY <1>3, <1>6 DEF Has
<1>8. p.state \in Asking => \A f : Has(q, f) <=> Has(p, f)
  BY <1>4, <1>6 DEF Has
<1>9. /\ Quiet(q) <=> Quiet(p)
      /\ OneVerdict(q) <=> OneVerdict(p)
      /\ OnItsWay(q) <=> OnItsWay(p)
  BY <1>6, <1>7 DEF OneVerdict, Quiet, OnItsWay
<1>10. VerdictInv(q)
  BY <1>1, <1>6, <1>7, <1>8, <1>9 DEF VerdictInv, Asking
<1>11. EprInv(q)
  BY <1>1, <1>6, <1>7 DEF EprInv, ModeFits, ListFits, InEpr, InContract
<1>12. RefreshInv(q)
  BY <1>1, <1>6, <1>7 DEF RefreshInv, InEpr, IsInPpsContract
<1> QED
  BY <1>5, <1>6, <1>10, <1>11, <1>12 DEF Sound

LEMMA Becomes ==
    ASSUME NEW p, Sound(p), env.attached => p.state # "Uninitialized", TypeOK, Become(p)
    PROVE  IInv'
<1>1. Sound(port') /\ port'.state = p.state
  BY TidySound DEF Become
<1>2. turn' \in {"pe", "prl"} /\ wanted' = wanted /\ env' = env
  BY DEF Become
<1>3. TypeOK'
  BY <1>1, <1>2 DEF TypeOK, Sound, Ports
<1>4. (Sound(port))'
  BY <1>1 DEF Sound, Ports, VerdictInv, EprInv, RefreshInv, OneVerdict, Quiet, OnItsWay,
       ModeFits, ListFits, InEpr, InContract, IsInPpsContract, Has
<1> QED
  BY <1>1, <1>2, <1>3, <1>4 DEF IInv

-----------------------------------------------------------------------------
(* What may be entered from where                                            *)

LEMMA ClearAlike ==
    ASSUME NEW p \in Ports, NEW S, S \cap Watched = {}
    PROVE  /\ Clear(p, S) \in Ports /\ Alike(p, Clear(p, S))
           /\ Clear(p, S).msg = p.msg /\ Clear(p, S).timers = p.timers
           /\ Clear(p, S).requests = p.requests
<1> DEFINE q == Clear(p, S)
<1>1. q \in Ports
  BY HelperTypes
<1>2. /\ q.state = p.state /\ q.caps = p.caps /\ q.sending = p.sending
      /\ q.prl = p.prl /\ q.hr = p.hr /\ q.timers = p.timers /\ q.msg = p.msg
      /\ q.rdo_to_request = p.rdo_to_request /\ q.rdo_contracted = p.rdo_contracted
      /\ q.flags = p.flags \ S /\ q.requests = p.requests
  BY <1>1 DEF Clear, Ports
<1>3. \A f \in Watched : Has(q, f) <=> Has(p, f)
  BY <1>2 DEF Has
<1> HIDE DEF q
<1>4. Alike(p, q)
  BY <1>2, <1>3 DEF Alike
<1> QED
  BY <1>1, <1>2, <1>4 DEF q

LEMMA SetAlike ==
    ASSUME NEW p \in Ports, NEW f \in Flags \ Watched
    PROVE  /\ Set(p, f) \in Ports /\ Alike(p, Set(p, f))
           /\ Set(p, f).msg = p.msg /\ Set(p, f).timers = p.timers
<1> DEFINE q == Set(p, f)
<1>1. q \in Ports
  BY HelperTypes
<1>2. /\ q.state = p.state /\ q.caps = p.caps /\ q.sending = p.sending
      /\ q.prl = p.prl /\ q.hr = p.hr /\ q.timers = p.timers /\ q.msg = p.msg
      /\ q.rdo_to_request = p.rdo_to_request /\ q.rdo_contracted = p.rdo_contracted
      /\ q.flags = p.flags \cup {f}
  BY <1>1 DEF Set, Ports
<1>3. \A g \in Watched : Has(q, g) <=> Has(p, g)
  BY <1>2 DEF Has
<1> HIDE DEF q
<1>4. Alike(p, q)
  BY <1>2, <1>3 DEF Alike
<1> QED
  BY <1>1, <1>2, <1>4 DEF q

LEMMA TimerAlike ==
    ASSUME NEW p \in Ports, NEW t \in Timers, NEW q, q = Start(p, t) \/ q = Stop(p, t)
    PROVE  /\ q \in Ports /\ Alike(p, q) /\ q.msg = p.msg
           /\ \A u \in Timers \ {t} : q.timers[u] = p.timers[u]
<1>1. q \in Ports
  BY HelperTypes
<1>2. /\ q.state = p.state /\ q.caps = p.caps /\ q.sending = p.sending
      /\ q.prl = p.prl /\ q.hr = p.hr /\ q.msg = p.msg
      /\ q.rdo_to_request = p.rdo_to_request /\ q.rdo_contracted = p.rdo_contracted
      /\ q.flags = p.flags
      /\ \A u \in Timers \ {t} : q.timers[u] = p.timers[u]
  BY <1>1 DEF Start, Stop, Ports
<1>3. Alike(p, q)
  BY <1>2 DEF Alike, Has
<1> QED
  BY <1>1, <1>2, <1>3

LEMMA TakeAlike ==
    ASSUME NEW p \in Ports
    PROVE  /\ Take(p) \in Ports /\ Alike(p, Take(p))
           /\ Take(p).msg = p.msg /\ Take(p).timers = p.timers
           /\ Take(p).requests = p.requests
BY ClearAlike DEF Take, Watched, Verdicts

LEMMA AlikeSame ==
    ASSUME NEW p, NEW q, Alike(p, q)
    PROVE  /\ q.state = p.state
           /\ Quiet(q) <=> Quiet(p)
           /\ OneVerdict(q) <=> OneVerdict(p)
           /\ OnItsWay(q) <=> OnItsWay(p)
           /\ ModeFits(q) <=> ModeFits(p)
           /\ ListFits(q) <=> ListFits(p)
           /\ InEpr(q) <=> InEpr(p)
           /\ InContract(q) <=> InContract(p)
           /\ Has(q, "TX_COMPLETE") <=> Has(p, "TX_COMPLETE")
BY DEF Alike, Watched, OneVerdict, Quiet, Verdicts, OnItsWay, ModeFits, ListFits, InEpr, InContract

LEMMA TakeSound == ASSUME NEW p, Sound(p) PROVE Sound(Take(p)) /\ Take(p).state = p.state
BY TakeAlike, AlikeSound DEF Sound, Alike

LEMMA MayReset ==
    ASSUME NEW p, Sound(p), NEW s \in {"Hard_Reset", "Soft_Reset"} PROVE MayEnter(s, p)
BY DEF Sound, VerdictInv, EprInv, MayEnter, States, Talking, Resetting, Entering

\* With no news and no message on its way.
Still(p) == p \in Ports /\ Quiet(p) /\ ~OnItsWay(p) /\ ModeFits(p)

LEMMA StillMayEnter ==
    ASSUME NEW p, Still(p), NEW s \in States \ {"Uninitialized", "Src_Disabled"},
           s \notin Resetting => ListFits(p), s \in Entering => InContract(p),
           s = "Startup" => ~InEpr(p), OneVerdict(p)
    PROVE  MayEnter(s, p)
BY DEF Still, MayEnter, Quiet, Verdicts

LEMMA StillOutside ==
    ASSUME NEW p, Sound(p),
           p.state \notin Talking \cup {"Hard_Reset", "Src_Disabled", "Uninitialized"}
    PROVE  Still(p) /\ OneVerdict(p)
BY DEF Still, Sound, VerdictInv, EprInv

LEMMA EvaluateSound ==
    ASSUME NEW p, Still(p), OneVerdict(p), p.msg \in Capabilities, wanted \in Wanted
    PROVE  Sound(Evaluate(p)) /\ Evaluate(p).state # "Uninitialized"
<1> DEFINE x == Exit(p)
           c == Cut(p)
           q == [x EXCEPT !.caps = c]
           r == [q EXCEPT !.from_caps = TRUE, !.resets = 0]
<1>1. x \in Ports /\ Alike(p, x) /\ x.msg = p.msg
  BY ExitAlike DEF Still
<1>2. Quiet(x) /\ ~OnItsWay(x) /\ ModeFits(x) /\ OneVerdict(x) /\ (InEpr(x) <=> InEpr(p))
  BY <1>1, AlikeSame DEF Still
<1>3. c \in Capabilities /\ (c = "Caps_EPR" => InEpr(p))
  BY DEF Cut, InEpr, Capabilities, SprCaps
<1>4. Evaluate(p) = IF p.msg \in {"Caps_invalid", "Caps_empty"}
                      THEN Enter("Send_Not_Supported", q) ELSE Enter("Select_Capability", r)
  BY DEF Evaluate
<1> HIDE DEF x, c
<1>5. q \in Ports /\ q.caps = c /\ q.flags = x.flags /\ q.rdo_contracted = x.rdo_contracted
      /\ q.sending = x.sending /\ q.prl = x.prl /\ q.hr = x.hr
  BY <1>1, <1>3 DEF Ports
<1>6. q.from_caps \in BOOLEAN
  BY <1>5 DEF Ports
<1> HIDE DEF q
<1>7. /\ r \in Ports /\ r.caps = q.caps /\ r.flags = q.flags
      /\ r.rdo_contracted = q.rdo_contracted
      /\ r.sending = q.sending /\ r.prl = q.prl /\ r.hr = q.hr
  <2>1. TRUE \in BOOLEAN /\ 0 \in 0..255
    OBVIOUS
  <2>3. r \in Ports
    BY <1>5, <2>1, ListType
  <2> QED
    BY <1>5, <2>3 DEF Ports
<1> HIDE DEF r
<1>8. \A y \in {q, r} : Still(y) /\ OneVerdict(y) /\ ListFits(y)
  BY <1>2, <1>3, <1>5, <1>7 DEF Still, Quiet, OneVerdict, OnItsWay, ModeFits, ListFits, InEpr,
     InContract, Has
<1>9. MayEnter("Send_Not_Supported", q) /\ MayEnter("Select_Capability", r)
  BY <1>8, StillMayEnter DEF States, Entering
<1> QED
  BY <1>4, <1>9, Enters

-----------------------------------------------------------------------------
(* A turn of PE                                                              *)

LEMMA PeInitStep == ASSUME IInv, PeInit PROVE IInv'
<1> DEFINE timers == [t \in Timers |-> "off"]
           a == [port EXCEPT !.flags = {}]
           b == [a EXCEPT !.requests = {}]
           c == [b EXCEPT !.active = "NONE"]
           p == [c EXCEPT !.timers = timers]
<1>1. port \in Ports /\ wanted \in Wanted /\ TypeOK
  BY DEF IInv, Sound, TypeOK
<1>2. timers \in [Timers -> {"off", "running", "expired"}]
  OBVIOUS
<1>3. Become(Enter("Startup", p))
  BY DEF PeInit
<1> HIDE DEF timers
<1>4. p \in Ports /\ p.flags = {}
  <2>1. a \in Ports /\ a.flags = {}
    BY <1>1 DEF Ports
  <2> HIDE DEF a
  <2>2. b \in Ports /\ b.flags = {}
    BY <2>1 DEF Ports
  <2> HIDE DEF b
  <2>3. c \in Ports /\ c.flags = {}
    BY <2>2 DEF Ports
  <2> HIDE DEF c
  <2> QED
    BY <1>2, <2>3 DEF Ports
<1> HIDE DEF p
<1>5. MayEnter("Startup", p)
  BY <1>4 DEF MayEnter, OneVerdict, Quiet, ModeFits, InEpr, InContract, Has, States, Talking,
     Resetting, Entering
<1> QED
  BY <1>1, <1>3, <1>5, Enters, Becomes

LEMMA PeDetachedStep == ASSUME IInv, PeDetached PROVE IInv'
<1> DEFINE x == Exit(port)
           p == [x EXCEPT !.state = "Uninitialized"]
<1>1. port \in Ports /\ TypeOK /\ VerdictInv(port) /\ EprInv(port)
  BY DEF IInv, Sound
<1>2. x \in Ports /\ Alike(port, x)
  BY <1>1, ExitAlike
<1>3. OneVerdict(x) /\ ModeFits(x)
  BY <1>1, <1>2, AlikeSame DEF VerdictInv, EprInv
<1>4. Become(p) /\ ~env.attached
  BY DEF PeDetached
<1> HIDE DEF x
<1>5. /\ p \in Ports /\ p.state = "Uninitialized" /\ p.flags = x.flags
      /\ p.sending = x.sending /\ p.rdo_contracted = x.rdo_contracted
  BY <1>2 DEF Ports, States
<1> HIDE DEF p
<1>6. Sound(p)
  BY <1>3, <1>5 DEF Sound, VerdictInv, EprInv, RefreshInv, OneVerdict, Quiet, OnItsWay, ModeFits,
     InEpr, InContract, Has, Asking, Resetting, Entering
<1> QED
  BY <1>1, <1>4, <1>6, Becomes

\* In a turn of PE its state is one that init() has entered already.
LEMMA Turn ==
    ASSUME IInv
    PROVE  /\ port \in Ports /\ wanted \in Wanted /\ TypeOK /\ Sound(port)
           /\ VerdictInv(port) /\ EprInv(port) /\ OneVerdict(port) /\ ModeFits(port)
BY DEF IInv, TypeOK, Sound, VerdictInv, EprInv

LEMMA StaysSound ==
    ASSUME IInv, port.state # "Uninitialized", NEW p, Sound(p), p.state = port.state, Become(p)
    PROVE  IInv'
BY Turn, Becomes

LEMMA GoesSound ==
    ASSUME IInv, NEW p \in Ports, NEW s, MayEnter(s, p), Become(Goto(s, p))
    PROVE  IInv'
BY Turn, Goes, Becomes

LEMMA SoftResetReceivedStep == ASSUME IInv, SoftResetReceived PROVE IInv'
<1>1. CASE port.state = "Src_Disabled" /\ Become(Take(port))
  BY <1>1, Turn, TakeSound, StaysSound
<1>2. CASE Become(Goto("Soft_Reset", port))
  BY <1>2, Turn, MayReset, GoesSound
<1> QED
  BY <1>1, <1>2 DEF SoftResetReceived

LEMMA StartupStep == ASSUME IInv, Startup PROVE IInv'
<1>1. port.state = "Startup"
  BY DEF Startup, Run
<1>2. CASE Become(port)
  BY <1>1, <1>2, Turn, StaysSound
<1>3. CASE Become(Goto("Wait_for_Capabilities", port))
  <2>1. Still(port) /\ OneVerdict(port)
    BY <1>1, Turn, StillOutside DEF Talking, Asking, Replying
  <2>2. MayEnter("Wait_for_Capabilities", port)
    BY <2>1, StillMayEnter DEF States, Resetting, Entering
  <2> QED
    BY <1>3, <2>2, Turn, GoesSound
<1> QED
  BY <1>2, <1>3 DEF Startup

LEMMA WaitForCapabilitiesStep == ASSUME IInv, Wait_for_Capabilities PROVE IInv'
<1> DEFINE p == Take(port)
           q == Set(p, "HR_BY_CAPS_TIMEOUT")
<1>1. port.state = "Wait_for_Capabilities"
  BY DEF Wait_for_Capabilities, Run
<1>2. Still(port) /\ OneVerdict(port)
  BY <1>1, Turn, StillOutside DEF Talking, Asking, Replying
<1>3. p \in Ports /\ Alike(port, p) /\ p.msg = port.msg /\ Sound(p) /\ p.state = port.state
  BY Turn, TakeAlike, TakeSound
<1> HIDE DEF p
<1>4. Still(p) /\ OneVerdict(p)
  BY <1>2, <1>3, AlikeSame DEF Still
<1>5. CASE port.msg \in Capabilities /\ Become(Evaluate(p))
  BY <1>3, <1>4, <1>5, Turn, EvaluateSound, Becomes
<1>6. CASE Become(Goto("Hard_Reset", q))
  <2>1. "HR_BY_CAPS_TIMEOUT" \in Flags \ Watched
    BY DEF Flags, Watched, Verdicts
  <2>2. q \in Ports /\ Alike(p, q)
    BY <1>3, <2>1, SetAlike
  <2>3. MayEnter("Hard_Reset", q)
    BY <1>3, <2>2, MayReset, AlikeMayEnter
  <2> QED
    BY <1>6, <2>2, <2>3, GoesSound
<1>7. CASE Become(p)
  BY <1>1, <1>3, <1>7, StaysSound
<1> QED
  BY <1>5, <1>6, <1>7 DEF Wait_for_Capabilities, Capabilities, p

LEMMA ProgressedSound ==
    ASSUME IInv, port.state \in Asking
    PROVE  /\ Sound(Progressed) /\ Progressed.state = port.state /\ Progressed.msg = port.msg
           /\ Progressed.requests = port.requests
           /\ Finished => Quiet(Progressed) /\ ~Progressed.sending
           /\ ~Finished => Progressed = port
           /\ \A f \in Flags \ {"TX_COMPLETE", "TRANSMIT_REQUEST_SUCCEEDED"} :
                 Has(Progressed, f) <=> Has(port, f)
<1>1. CASE ~(Unsettled /\ Finished)
  <2>1. Progressed = port
    BY <1>1 DEF Progressed
  <2> QED
    BY <1>1, <2>1, Turn DEF Unsettled, VerdictInv
<1>2. CASE Unsettled /\ Finished
  <2> DEFINE a == Clear(port, {"TX_COMPLETE"})
             b == Set(a, "TRANSMIT_REQUEST_SUCCEEDED")
             c == Start(b, "SenderResponse")
  <2>1. Has(port, "TX_COMPLETE")
    BY <1>2 DEF Finished
  <2>2. /\ ~port.sending /\ ~Has(port, "MSG_DISCARDED") /\ ~Has(port, "PROTOCOL_ERROR")
        /\ port.state = "Send_Soft_Reset" => ~Has(port, "CAN_SEND_SOFT_RESET")
    BY <2>1, Turn DEF VerdictInv, OneVerdict, Quiet, Verdicts
  <2>3. Progressed = c
    BY <1>2 DEF Progressed
  <2>4. a \in Ports /\ b \in Ports /\ c \in Ports
    BY Turn, HelperTypes DEF Timers, Flags
  <2>5. /\ a.state = port.state /\ a.caps = port.caps /\ a.sending = port.sending
        /\ a.prl = port.prl /\ a.hr = port.hr /\ a.timers = port.timers /\ a.msg = port.msg
        /\ a.rdo_to_request = port.rdo_to_request /\ a.rdo_contracted = port.rdo_contracted
        /\ a.flags = port.flags \ {"TX_COMPLETE"} /\ a.requests = port.requests
    <3>1. port \in Ports
      BY Turn
    <3> QED
      BY <3>1 DEF Clear, Ports
  <2> HIDE DEF a
  <2>6. /\ b.state = a.state /\ b.caps = a.caps /\ b.sending = a.sending
        /\ b.prl = a.prl /\ b.hr = a.hr /\ b.msg = a.msg
        /\ b.rdo_to_request = a.rdo_to_request /\ b.rdo_contracted = a.rdo_contracted
        /\ b.flags = a.flags \cup {"TRANSMIT_REQUEST_SUCCEEDED"} /\ b.requests = a.requests
    BY <2>4 DEF Set, Ports
  <2> HIDE DEF b
  <2>7. /\ c.state = b.state /\ c.caps = b.caps /\ c.sending = b.sending
        /\ c.prl = b.prl /\ c.hr = b.hr /\ c.msg = b.msg
        /\ c.rdo_to_request = b.rdo_to_request /\ c.rdo_contracted = b.rdo_contracted
        /\ c.flags = b.flags /\ c.requests = b.requests
    BY <2>4 DEF Start, Ports
  <2> HIDE DEF c
  <2>8. \A f \in Flags \ {"TX_COMPLETE", "TRANSMIT_REQUEST_SUCCEEDED"} :
           Has(c, f) <=> Has(port, f)
    BY <2>5, <2>6, <2>7 DEF Has
  <2>9. Quiet(c)
    BY <2>2, <2>5, <2>6, <2>7 DEF Quiet, Verdicts, Has
  <2>10. VerdictInv(c)
    BY <2>2, <2>5, <2>6, <2>7, <2>8, <2>9 DEF VerdictInv, OneVerdict, OnItsWay, Quiet, Flags
  <2>11. /\ InEpr(c) <=> InEpr(port)
         /\ InContract(c) <=> InContract(port)
    BY <2>8 DEF InEpr, InContract, Flags
  <2>12. EprInv(c)
    BY <2>5, <2>6, <2>7, <2>11, Turn DEF EprInv, ModeFits, ListFits
  <2>13. Sound(c)
    BY <2>4, <2>5, <2>6, <2>7, <2>10, <2>12 DEF Sound, RefreshInv, Asking
  <2> QED
    BY <1>2, <2>2, <2>3, <2>5, <2>6, <2>7, <2>8, <2>9, <2>13
<1> QED
  BY <1>1, <1>2

LEMMA GivesUp ==
    ASSUME IInv, port.state \in Asking, Has(port, "MSG_DISCARDED") \/ Has(port, "PROTOCOL_ERROR")
    PROVE  MayEnter("Ready", port) /\ MayEnter("Send_Soft_Reset", port)
<1>1. ~Has(port, "TX_COMPLETE") /\ ~port.sending
  BY Turn DEF OneVerdict, Quiet, Verdicts
<1>2. ListFits(port)
  BY Turn DEF EprInv, Resetting, Asking
<1> QED
  BY <1>1, <1>2, Turn DEF MayEnter, OnItsWay, States, Entering

\* The answer is taken: nothing is on its way any more.
LEMMA AnswerTaken ==
    ASSUME IInv, port.state \in Asking, Answered
    PROVE  LET p == Take(Progressed)
           IN  /\ Still(p) /\ OneVerdict(p) /\ ListFits(p) /\ Sound(p)
               /\ p.state = port.state /\ p.msg = port.msg /\ ~p.sending
<1> DEFINE p == Take(Progressed)
<1>1. /\ Sound(Progressed) /\ Quiet(Progressed) /\ ~Progressed.sending
      /\ Progressed.state = port.state /\ Progressed.msg = port.msg
  BY ProgressedSound DEF Answered
<1>2. p \in Ports /\ Alike(Progressed, p) /\ p.msg = port.msg /\ Sound(p)
  BY <1>1, TakeAlike, TakeSound DEF Sound
<1>3. Quiet(p) /\ ~p.sending /\ p.state = port.state
  BY <1>1, <1>2, AlikeSame DEF Alike
<1> HIDE DEF p
<1>4. ListFits(p) /\ ModeFits(p) /\ OneVerdict(p)
  BY <1>2, <1>3 DEF Sound, EprInv, VerdictInv, Resetting, Asking
<1> QED
  BY <1>2, <1>3, <1>4 DEF Still, OnItsWay, p

LEMMA KeepWaitingStep ==
    ASSUME IInv, port.state \in Asking, KeepWaiting("Hard_Reset") PROVE IInv'
<1>1. port.state # "Uninitialized"
  BY DEF Asking
<1>2. CASE Become(Progressed)
  BY <1>1, <1>2, ProgressedSound, StaysSound
<1>3. CASE Become(Goto("Hard_Reset", Progressed))
  <2>1. Sound(Progressed)
    BY ProgressedSound
  <2> QED
    BY <1>3, <2>1, MayReset, GoesSound DEF Sound
<1> QED
  BY <1>2, <1>3 DEF KeepWaiting

LEMMA SelectAnsweredStep ==
    ASSUME IInv, port.state = "Select_Capability", Answered,
           Become(SelectAnswered(Take(Progressed)))
    PROVE  IInv'
<1> DEFINE p == Take(Progressed)
           refused == IF Has(p, "HAS_EXPLICIT_CONTRACT") THEN "Ready"
                      ELSE "Wait_for_Capabilities"
<1>1. Still(p) /\ OneVerdict(p) /\ ListFits(p) /\ Sound(p) /\ p.state = "Select_Capability"
  BY AnswerTaken DEF Asking
<1> HIDE DEF p
<1>2. p \in Ports /\ Become(SelectAnswered(p))
  BY <1>1 DEF Still, p
<1>3. \A q : q \in Ports /\ Alike(p, q) =>
         \A s \in {"Ready", "Wait_for_Capabilities", "Transition_Sink", "Send_Soft_Reset"} :
            MayEnter(s, q)
  <2>1. \A s \in {"Ready", "Wait_for_Capabilities", "Transition_Sink", "Send_Soft_Reset"} :
           MayEnter(s, p)
    BY <1>1, StillMayEnter DEF States, Entering
  <2> QED
    BY <2>1, AlikeMayEnter
<1>4. Alike(p, p)
  BY DEF Alike
<1>5. CASE p.msg = "Accept"
  <2> DEFINE a == Set(p, "HAS_EXPLICIT_CONTRACT")
             b == ClearActive(a)
             c == [b EXCEPT !.rdo_contracted = p.rdo_to_request]
  <2>1. a \in Ports
    BY <1>2, HelperTypes DEF Flags
  <2>2. /\ a.state = p.state /\ a.caps = p.caps /\ a.sending = p.sending
        /\ a.prl = p.prl /\ a.hr = p.hr /\ a.flags = p.flags \cup {"HAS_EXPLICIT_CONTRACT"}
    BY <1>2, <2>1 DEF Set, Ports
  <2> HIDE DEF a
  <2>3. b \in Ports
    BY <2>1 DEF ClearActive, Ports
  <2>4. /\ b.state = a.state /\ b.caps = a.caps /\ b.sending = a.sending
        /\ b.prl = a.prl /\ b.hr = a.hr /\ b.flags = a.flags
    BY <2>1, <2>3 DEF ClearActive, Ports
  <2> HIDE DEF b
  <2>5. p.rdo_to_request \in Profiles \cup {"none"}
    BY <1>2 DEF Ports
  <2>6. /\ c \in Ports /\ c.rdo_contracted = p.rdo_to_request
        /\ c.state = b.state /\ c.caps = b.caps /\ c.sending = b.sending
        /\ c.prl = b.prl /\ c.hr = b.hr /\ c.flags = b.flags
    <3>1. c \in Ports
      BY <2>3, <2>5 DEF Ports
    <3> QED
      BY <2>3, <2>5, <3>1 DEF Ports
  <2>7. Become(Goto("Transition_Sink", c))
    BY <1>2, <1>5 DEF SelectAnswered, b, a
  <2> HIDE DEF c
  <2>8. \A f \in Watched \ {"HAS_EXPLICIT_CONTRACT"} : Has(c, f) <=> Has(p, f)
    BY <2>2, <2>4, <2>6 DEF Has
  <2>9. /\ InContract(c) /\ (InEpr(c) <=> InEpr(p))
        /\ p.rdo_to_request = "EPR" => InEpr(p)
    BY <1>1, <2>2, <2>4, <2>6, <2>8 DEF InContract, InEpr, Has, Watched, Sound, EprInv
  <2>10. Still(c) /\ OneVerdict(c) /\ ListFits(c)
    BY <1>1, <2>2, <2>4, <2>6, <2>8, <2>9 DEF Still, OneVerdict, Quiet, Verdicts, OnItsWay,
       ModeFits, ListFits, Watched
  <2>11. MayEnter("Transition_Sink", c)
    BY <2>10, StillMayEnter DEF States, Entering
  <2> QED
    BY <2>6, <2>7, <2>11, GoesSound
<1>6. CASE p.msg = "Wait"
  <2> DEFINE q == IF refused = "Ready" THEN Start(p, "SinkRequest") ELSE p
  <2>1. q \in Ports /\ Alike(p, q)
    BY <1>2, <1>4, TimerAlike DEF Timers
  <2>2. Become(Goto(refused, q))
    BY <1>2, <1>6 DEF SelectAnswered
  <2> HIDE DEF q
  <2>3. refused \in {"Ready", "Wait_for_Capabilities"}
    OBVIOUS
  <2> HIDE DEF refused
  <2> QED
    BY <1>3, <2>1, <2>2, <2>3, GoesSound
<1>7. CASE p.msg = "Reject"
  <2> DEFINE q == ClearActive(p)
  <2>1. q \in Ports
    BY <1>2 DEF ClearActive, Ports
  <2>2. Alike(p, q)
    <3>1. /\ q.state = p.state /\ q.caps = p.caps /\ q.sending = p.sending
          /\ q.prl = p.prl /\ q.hr = p.hr /\ q.flags = p.flags
          /\ q.rdo_to_request = p.rdo_to_request /\ q.rdo_contracted = p.rdo_contracted
      BY <1>2, <2>1 DEF ClearActive, Ports
    <3> HIDE DEF q
    <3> QED
      BY <3>1 DEF Alike, Has
  <2>3. Become(Goto(refused, q))
    BY <1>2, <1>7 DEF SelectAnswered
  <2> HIDE DEF q
  <2>4. refused \in {"Ready", "Wait_for_Capabilities"}
    OBVIOUS
  <2> HIDE DEF refused
  <2> QED
    BY <1>3, <2>1, <2>2, <2>3, <2>4, GoesSound
<1>8. CASE p.msg \notin {"Accept", "Wait", "Reject"}
  <2>1. Become(Goto("Send_Soft_Reset", p))
    BY <1>2, <1>8 DEF SelectAnswered
  <2> QED
    BY <1>2, <1>3, <1>4, <2>1, GoesSound
<1> QED
  BY <1>5, <1>6, <1>7, <1>8

LEMMA SelectCapabilityStep == ASSUME IInv, Select_Capability PROVE IInv'
<1>1. port.state = "Select_Capability" /\ port.state \in Asking
  BY DEF Select_Capability, Run, Asking
<1>2. CASE /\ Discarded
           /\ Become(Goto(IF port.from_caps THEN "Send_Soft_Reset" ELSE "Ready", port))
  BY <1>1, <1>2, Turn, GivesUp, GoesSound DEF Discarded
<1>3. CASE Failed /\ Become(Goto("Send_Soft_Reset", port))
  BY <1>1, <1>3, Turn, GivesUp, GoesSound DEF Failed
<1>4. CASE Answered /\ Become(SelectAnswered(Take(Progressed)))
  BY <1>1, <1>4, SelectAnsweredStep
<1>5. CASE KeepWaiting("Hard_Reset")
  BY <1>1, <1>5, KeepWaitingStep
<1> QED
  BY <1>2, <1>3, <1>4, <1>5 DEF Select_Capability

LEMMA TransitionSinkStep == ASSUME IInv, Transition_Sink PROVE IInv'
<1>1. port.state = "Transition_Sink" /\ port.state # "Uninitialized"
  BY DEF Transition_Sink, Run
<1>2. Still(port) /\ OneVerdict(port) /\ ListFits(port)
  BY <1>1, Turn, StillOutside DEF Talking, Asking, Replying, EprInv, Resetting
<1>3. CASE \E reported \in BOOLEAN :
              Become(Goto("Ready", Take(IF reported THEN Set(port, "HANDSHAKE_REPORTED")
                                        ELSE port)))
  <2>1. PICK reported \in BOOLEAN :
           Become(Goto("Ready", Take(IF reported THEN Set(port, "HANDSHAKE_REPORTED")
                                     ELSE port)))
    BY <1>3
  <2> DEFINE q == IF reported THEN Set(port, "HANDSHAKE_REPORTED") ELSE port
  <2>2. q \in Ports /\ Alike(port, q)
    <3>1. "HANDSHAKE_REPORTED" \in Flags \ Watched
      BY DEF Flags, Watched, Verdicts
    <3> QED
      BY <3>1, Turn, SetAlike DEF Alike
  <2>3. MayEnter("Ready", port)
    BY <1>2, StillMayEnter DEF States, Entering
  <2> HIDE DEF q
  <2>4. Take(q) \in Ports /\ MayEnter("Ready", Take(q))
    BY <2>2, <2>3, TakeAlike, AlikeMayEnter
  <2> QED
    BY <2>1, <2>4, GoesSound DEF q
<1>4. CASE Become(Goto("Hard_Reset", Take(port)))
  BY <1>4, Turn, TakeSound, MayReset, GoesSound DEF Sound
<1>5. CASE Become(Goto("Hard_Reset", port))
  BY <1>5, Turn, MayReset, GoesSound
<1>6. CASE Become(port)
  BY <1>1, <1>6, Turn, StaysSound
<1> QED
  BY <1>3, <1>4, <1>5, <1>6 DEF Transition_Sink

-----------------------------------------------------------------------------
(* In Ready                                                                  *)

LEMMA InReady ==
    ASSUME IInv, port.state = "Ready"
    PROVE  /\ Still(port) /\ OneVerdict(port) /\ ListFits(port)
           /\ port.state # "Uninitialized"
BY Turn, StillOutside DEF Talking, Asking, Replying, EprInv, Resetting

\* From Ready PE may go anywhere but to where it needs a contract or is out of EPR mode.
LEMMA ReadyMayEnter ==
    ASSUME IInv, port.state = "Ready", NEW p \in Ports, Alike(port, p),
           NEW s \in States \ ({"Uninitialized", "Src_Disabled", "Startup"} \cup Entering)
    PROVE  MayEnter(s, p)
<1>1. Still(p) /\ OneVerdict(p) /\ ListFits(p)
  BY InReady, AlikeSame DEF Still
<1> QED
  BY <1>1, StillMayEnter

LEMMA ExitReceivedStep ==
    ASSUME IInv, port.state = "Ready", NEW p \in Ports, Alike(port, p), Become(ExitReceived(p))
    PROVE  IInv'
<1>1. CASE ~IsInSprContract(p)
  <2>1. MayEnter("Hard_Reset", p)
    BY ReadyMayEnter DEF States, Entering
  <2> QED
    BY <1>1, <2>1, GoesSound DEF ExitReceived
<1>2. CASE IsInSprContract(p)
  <2> DEFINE a == Clear(p, {"IN_EPR_MODE"})
             b == Set(a, "EPR_AUTO_ENTER_DISABLED")
  <2>1. Still(p)
    BY InReady, AlikeSame DEF Still
  <2>2. a \in Ports /\ b \in Ports
    BY HelperTypes DEF Flags
  <2>3. /\ a.sending = p.sending /\ a.prl = p.prl /\ a.hr = p.hr
        /\ a.rdo_contracted = p.rdo_contracted /\ a.flags = p.flags \ {"IN_EPR_MODE"}
    BY <2>2 DEF Clear, Ports
  <2>4. Become(Goto("Wait_for_Capabilities", b))
    BY <1>2 DEF ExitReceived
  <2> HIDE DEF a
  <2>5. /\ b.sending = p.sending /\ b.prl = p.prl /\ b.hr = p.hr
        /\ b.rdo_contracted = p.rdo_contracted
        /\ b.flags = a.flags \cup {"EPR_AUTO_ENTER_DISABLED"}
    BY <2>2, <2>3 DEF Set, Ports
  <2> HIDE DEF b
  <2>6. Still(b) /\ OneVerdict(b)
    BY <1>2, <2>1, <2>2, <2>3, <2>5 DEF Still, Quiet, Verdicts, OnItsWay, OneVerdict, ModeFits, InEpr,
       InContract, Has, IsInSprContract
  <2>7. MayEnter("Wait_for_Capabilities", b)
    BY <2>6, StillMayEnter DEF States, Resetting, Entering
  <2> QED
    BY <2>2, <2>4, <2>7, GoesSound
<1> QED
  BY <1>1, <1>2

LEMMA ReadyMessageStep == ASSUME IInv, ReadyMessage PROVE IInv'
<1> DEFINE p == Take(port)
<1>1. port.state = "Ready"
  BY DEF ReadyMessage, Run
<1>2. p \in Ports /\ Alike(port, p)
  BY Turn, TakeAlike
<1>3. Become(ReadyHears(p))
  BY DEF ReadyMessage
<1> HIDE DEF p
<1>4. Still(p) /\ OneVerdict(p)
  BY <1>1, <1>2, InReady, AlikeSame DEF Still
<1>5. CASE p.msg \in Capabilities /\ Become(Evaluate(p))
  BY <1>4, <1>5, Turn, EvaluateSound, Becomes
<1>6. CASE Become(ExitReceived(p))
  BY <1>1, <1>2, <1>6, ExitReceivedStep
<1>7. CASE \E s \in {"Hard_Reset", "Give_Sink_Cap", "Give_Revision", "Send_Not_Supported",
                     "Ready", "BIST_Activate", "Send_Soft_Reset"} : Become(Goto(s, p))
  <2>1. PICK s \in {"Hard_Reset", "Give_Sink_Cap", "Give_Revision", "Send_Not_Supported",
                    "Ready", "BIST_Activate", "Send_Soft_Reset"} : Become(Goto(s, p))
    BY <1>7
  <2>2. MayEnter(s, p)
    BY <1>1, <1>2, ReadyMayEnter DEF States, Entering
  <2> QED
    BY <1>2, <2>1, <2>2, GoesSound
<1>8. \/ p.msg \in Capabilities /\ ReadyHears(p) = Evaluate(p)
      \/ ReadyHears(p) = ExitReceived(p)
      \/ \E s \in {"Hard_Reset", "Give_Sink_Cap", "Give_Revision", "Send_Not_Supported",
                   "Ready", "BIST_Activate", "Send_Soft_Reset"} : ReadyHears(p) = Goto(s, p)
  BY DEF ReadyHears, BistReceived, Capabilities, EprCaps, SprCaps
<1> QED
  BY <1>3, <1>5, <1>6, <1>7, <1>8

LEMMA SortedAlike ==
    ASSUME IInv, port.state = "Ready"
    PROVE  Sorted \in Ports /\ Alike(port, Sorted) /\ Sound(Sorted) /\ Sorted.state = "Ready"
<1> DEFINE p == Take(port)
           q == [p EXCEPT !.requests = @ \ {"EPR_MODE_ENTRY"}]
<1>1. p \in Ports /\ Alike(port, p) /\ p.timers = port.timers
  BY Turn, TakeAlike
<1>2. Sorted = p \/ Sorted = q
  BY DEF Sorted
<1> HIDE DEF p
<1>3. q \in Ports
  BY <1>1 DEF Ports
<1>4. /\ q.state = p.state /\ q.caps = p.caps /\ q.sending = p.sending
      /\ q.prl = p.prl /\ q.hr = p.hr /\ q.flags = p.flags /\ q.timers = p.timers
      /\ q.rdo_to_request = p.rdo_to_request /\ q.rdo_contracted = p.rdo_contracted
  BY <1>1, <1>3 DEF Ports
<1> HIDE DEF q
<1>5. Alike(port, q) /\ q.timers = port.timers
  BY <1>1, <1>4 DEF Alike, Has
<1>6. Sorted \in Ports /\ Alike(port, Sorted) /\ Sorted.timers = port.timers
  BY <1>1, <1>2, <1>3, <1>5
<1>7. Sound(Sorted)
  BY <1>6, Turn, AlikeSound
<1> QED
  BY <1>6, <1>7 DEF Alike

LEMMA ReadyRunStep == ASSUME IInv, ReadyBusy \/ ReadyRetry \/ ReadyKeepsAlive PROVE IInv'
<1>1. port.state = "Ready"
  BY DEF ReadyBusy, ReadyRetry, ReadyKeepsAlive, ReadyRun, Run
<1>2. CASE Become(Take(port))
  BY <1>1, <1>2, Turn, TakeSound, StaysSound
<1>3. CASE ReadyRetry
  <2> DEFINE p == Take(port)
             q == Stop(p, "SinkRequest")
  <2>1. p \in Ports /\ Alike(port, p)
    BY Turn, TakeAlike
  <2>2. Become(Goto("Select_Capability", q))
    BY <1>3 DEF ReadyRetry
  <2> HIDE DEF p
  <2>3. q \in Ports /\ Alike(port, q)
    BY <2>1, TimerAlike DEF Timers, Alike
  <2> HIDE DEF q
  <2>4. MayEnter("Select_Capability", q)
    BY <1>1, <2>3, ReadyMayEnter DEF States, Entering
  <2> QED
    BY <2>2, <2>3, <2>4, GoesSound
<1>4. CASE Become(Sorted)
  BY <1>1, <1>4, SortedAlike, StaysSound
<1>5. CASE \E s \in {"EPR_Keep_Alive", "Select_Capability"} : Become(Goto(s, Sorted))
  <2>1. PICK s \in {"EPR_Keep_Alive", "Select_Capability"} : Become(Goto(s, Sorted))
    BY <1>5
  <2>2. MayEnter(s, Sorted)
    BY <1>1, SortedAlike, ReadyMayEnter DEF States, Entering
  <2> QED
    BY <1>1, <2>1, <2>2, SortedAlike, GoesSound
<1> QED
  BY <1>2, <1>3, <1>4, <1>5 DEF ReadyBusy, ReadyKeepsAlive

LEMMA ReadyRequestStep == ASSUME IInv, ReadyRequest PROVE IInv'
<1>1. port.state = "Ready"
  BY DEF ReadyRequest, ReadyRun, Run
<1> DEFINE b(request) == [Sorted EXCEPT !.active = request]
<1>2. Sorted \in Ports /\ Alike(port, Sorted)
  BY <1>1, SortedAlike
<1>3. \E request \in {"EPR_MODE_ENTRY", "NEW_POWER_LEVEL"} :
         \E s \in {"Send_EPR_Mode_Entry", "Select_Capability"} :
            /\ Become(Goto(s, b(request)))
            /\ s = "Send_EPR_Mode_Entry" => IsEprModeAvailable(port)
  BY DEF ReadyRequest, Begin, EntersEpr
<1>4. PICK request \in {"EPR_MODE_ENTRY", "NEW_POWER_LEVEL"} :
         \E s \in {"Send_EPR_Mode_Entry", "Select_Capability"} :
            /\ Become(Goto(s, b(request)))
            /\ s = "Send_EPR_Mode_Entry" => IsEprModeAvailable(port)
  BY <1>3
<1>5. PICK s \in {"Send_EPR_Mode_Entry", "Select_Capability"} :
            /\ Become(Goto(s, b(request)))
            /\ s = "Send_EPR_Mode_Entry" => IsEprModeAvailable(port)
  BY <1>4
<1> DEFINE q == b(request)
<1>6. q \in Ports /\ Alike(port, q)
  <2>1. q \in Ports
    BY <1>2 DEF Ports
  <2>2. /\ q.state = Sorted.state /\ q.caps = Sorted.caps /\ q.sending = Sorted.sending
        /\ q.prl = Sorted.prl /\ q.hr = Sorted.hr /\ q.flags = Sorted.flags
        /\ q.rdo_to_request = Sorted.rdo_to_request
        /\ q.rdo_contracted = Sorted.rdo_contracted
    BY <1>2, <2>1 DEF Ports
  <2> HIDE DEF q
  <2> QED
    BY <1>2, <2>1, <2>2 DEF Alike, Has
<1> HIDE DEF q
<1>7. Still(q) /\ OneVerdict(q) /\ ListFits(q) /\ (InContract(q) <=> InContract(port))
  BY <1>1, <1>6, InReady, AlikeSame DEF Still
<1>8. MayEnter(s, q)
  BY <1>5, <1>7, StillMayEnter DEF States, Entering, IsEprModeAvailable, InContract
<1> QED
  BY <1>5, <1>6, <1>8, GoesSound DEF q

-----------------------------------------------------------------------------
(* Keep-alive, replies and resets                                            *)

LEMMA EprKeepAliveStep == ASSUME IInv, EPR_Keep_Alive PROVE IInv'
<1>1. port.state = "EPR_Keep_Alive" /\ port.state \in Asking
  BY DEF EPR_Keep_Alive, Run, Asking
<1>2. CASE Discarded /\ Become(Goto("Ready", port))
  BY <1>1, <1>2, Turn, GivesUp, GoesSound DEF Discarded
<1>3. CASE Failed /\ Become(Goto("Send_Soft_Reset", port))
  BY <1>1, <1>3, Turn, GivesUp, GoesSound DEF Failed
<1>4. CASE Answered /\ \E s \in {"Ready", "Send_Soft_Reset"} : Become(Goto(s, Take(Progressed)))
  <2> DEFINE p == Take(Progressed)
  <2>1. PICK s \in {"Ready", "Send_Soft_Reset"} : Become(Goto(s, p))
    BY <1>4
  <2>2. Still(p) /\ OneVerdict(p) /\ ListFits(p)
    BY <1>1, <1>4, AnswerTaken
  <2> HIDE DEF p
  <2>3. MayEnter(s, p) /\ p \in Ports
    BY <2>2, StillMayEnter DEF States, Entering, Still
  <2> QED
    BY <2>1, <2>3, GoesSound
<1>5. CASE KeepWaiting("Hard_Reset")
  BY <1>1, <1>5, KeepWaitingStep
<1> QED
  BY <1>2, <1>3, <1>4, <1>5 DEF EPR_Keep_Alive

\* A verdict is dealt with.
LEMMA VerdictTaken ==
    ASSUME NEW p, Sound(p), NEW f \in Verdicts
    PROVE  LET q == Clear(p, {f})
           IN  /\ q \in Ports /\ q.state = p.state /\ OneVerdict(q) /\ ModeFits(q)
               /\ ListFits(q) <=> ListFits(p)
               /\ Has(p, f) => Still(q)
<1> DEFINE q == Clear(p, {f})
<1>1. p \in Ports /\ OneVerdict(p) /\ ModeFits(p)
  BY DEF Sound, VerdictInv, EprInv
<1>2. q \in Ports
  BY <1>1, HelperTypes
<1>3. /\ q.state = p.state /\ q.caps = p.caps /\ q.sending = p.sending
      /\ q.rdo_contracted = p.rdo_contracted /\ q.flags = p.flags \ {f}
  BY <1>1, <1>2 DEF Clear, Ports
<1> HIDE DEF q
<1>4. OneVerdict(q) /\ (Has(p, f) => Quiet(q) /\ ~q.sending)
  BY <1>1, <1>3 DEF OneVerdict, Quiet, Has
<1>5. ModeFits(q) /\ (ListFits(q) <=> ListFits(p))
  BY <1>1, <1>3 DEF ModeFits, ListFits, InEpr, InContract, Has, Verdicts
<1> QED
  BY <1>2, <1>3, <1>4, <1>5 DEF Still, OnItsWay, q

LEMMA ReplyStep == ASSUME IInv, Reply PROVE IInv'
<1> DEFINE q == Clear(port, {"TX_COMPLETE"})
<1>1. port.state \in Replying /\ port.state # "Uninitialized" /\ ListFits(port)
  BY Turn DEF Reply, Replying, EprInv, Resetting
<1>2. CASE Become(port)
  BY <1>1, <1>2, Turn, StaysSound
<1>3. CASE Has(port, "TX_COMPLETE") /\ Become(Goto("Ready", q))
  <2>1. q \in Ports /\ OneVerdict(q) /\ ListFits(q) /\ Still(q)
    BY <1>1, <1>3, Turn, VerdictTaken DEF Verdicts
  <2> HIDE DEF q
  <2>2. MayEnter("Ready", q)
    BY <2>1, StillMayEnter DEF States, Entering
  <2> QED
    BY <1>3, <2>1, <2>2, GoesSound
<1> QED
  BY <1>2, <1>3 DEF Reply

LEMMA ResetSteps ==
    ASSUME IInv, Hard_Reset \/ Transition_to_default \/ Src_Disabled PROVE IInv'
<1>1. CASE Hard_Reset
  <2>1. port.state = "Hard_Reset" /\ port.state # "Uninitialized"
    BY <1>1 DEF Hard_Reset, Run
  <2>2. CASE Become(port)
    BY <2>1, <2>2, Turn, StaysSound
  <2>3. CASE Become(Goto("Transition_to_default", port))
    <3>1. MayEnter("Transition_to_default", port)
      BY <2>1, Turn DEF MayEnter, VerdictInv, States, Talking, Asking, Replying, Resetting, Entering
    <3> QED
      BY <2>3, <3>1, Turn, GoesSound
  <2> QED
    BY <1>1, <2>2, <2>3 DEF Hard_Reset
<1>2. CASE Transition_to_default
  <2>1. port.state = "Transition_to_default" /\ Become(Goto("Startup", port))
    BY <1>2 DEF Transition_to_default, Run
  <2>2. Still(port) /\ OneVerdict(port) /\ ~InEpr(port)
    BY <2>1, Turn, StillOutside DEF Talking, Asking, Replying, EprInv
  <2>3. MayEnter("Startup", port)
    BY <2>2, StillMayEnter DEF States, Resetting, Entering
  <2> QED
    BY <2>1, <2>3, Turn, GoesSound
<1>3. CASE Src_Disabled
  BY <1>3, Turn, StaysSound DEF Src_Disabled, Run
<1> QED
  BY <1>1, <1>2, <1>3

LEMMA SoftResetStep == ASSUME IInv, Soft_Reset PROVE IInv'
<1>1. port.state = "Soft_Reset" /\ port.state # "Uninitialized"
  BY DEF Soft_Reset, Run
<1>2. CASE Become(port)
  BY <1>1, <1>2, Turn, StaysSound
<1>3. CASE /\ Has(port, "TX_COMPLETE")
           /\ Become(Goto("Wait_for_Capabilities", Clear(port, {"TX_COMPLETE"})))
  <2> DEFINE q == Clear(port, {"TX_COMPLETE"})
  <2>1. q \in Ports /\ OneVerdict(q) /\ Still(q)
    BY <1>3, Turn, VerdictTaken DEF Verdicts
  <2> HIDE DEF q
  <2>2. MayEnter("Wait_for_Capabilities", q)
    BY <2>1, StillMayEnter DEF States, Resetting, Entering
  <2> QED
    BY <1>3, <2>1, <2>2, GoesSound DEF q
<1>4. CASE Become(Goto("Hard_Reset", Clear(port, {"PROTOCOL_ERROR"})))
  <2> DEFINE q == Clear(port, {"PROTOCOL_ERROR"})
  <2>1. q \in Ports /\ OneVerdict(q) /\ ModeFits(q)
    BY Turn, VerdictTaken DEF Verdicts
  <2> HIDE DEF q
  <2>2. MayEnter("Hard_Reset", q)
    BY <2>1 DEF MayEnter, States, Resetting, Entering
  <2> QED
    BY <1>4, <2>1, <2>2, GoesSound DEF q
<1> QED
  BY <1>2, <1>3, <1>4 DEF Soft_Reset

\* Once PRL has restarted, the message is sent, once.
LEMMA SoftResetSent ==
    ASSUME IInv, port.state = "Send_Soft_Reset", Has(Progressed, "CAN_SEND_SOFT_RESET")
    PROVE  LET r == Send(Clear(Progressed, {"CAN_SEND_SOFT_RESET"}))
           IN  Sound(r) /\ r.state = port.state
<1> DEFINE p == Progressed
           a == Clear(p, {"CAN_SEND_SOFT_RESET"})
           r == Send(a)
<1>1. Sound(p) /\ p.state = "Send_Soft_Reset"
  BY ProgressedSound DEF Asking
<1>2. Has(p, "CAN_SEND_SOFT_RESET")
  OBVIOUS
<1> HIDE DEF p
<1>3. p \in Ports /\ Quiet(p) /\ ~Has(p, "TRANSMIT_REQUEST_SUCCEEDED")
  BY <1>1, <1>2 DEF Sound, VerdictInv
<1>4. a \in Ports /\ r \in Ports
  BY <1>3, HelperTypes
<1>5. /\ a.state = p.state /\ a.caps = p.caps /\ a.flags = p.flags \ {"CAN_SEND_SOFT_RESET"}
      /\ a.rdo_contracted = p.rdo_contracted
  BY <1>3, <1>4 DEF Clear, Ports
<1> HIDE DEF a
<1>6. /\ r.state = p.state /\ r.caps = p.caps /\ r.flags = a.flags \ {"TX_COMPLETE"}
      /\ r.rdo_contracted = p.rdo_contracted
  BY <1>4, <1>5 DEF Send, Clear, Ports
<1> HIDE DEF r
<1>7. Quiet(r) /\ ~Has(r, "TRANSMIT_REQUEST_SUCCEEDED") /\ ~Has(r, "CAN_SEND_SOFT_RESET")
  BY <1>3, <1>5, <1>6 DEF Quiet, Verdicts, Has
<1>8. VerdictInv(r)
  BY <1>1, <1>6, <1>7 DEF VerdictInv, OneVerdict, Quiet, Talking, Asking
<1>9. /\ InEpr(r) <=> InEpr(p)
      /\ InContract(r) <=> InContract(p)
  BY <1>5, <1>6 DEF InEpr, InContract, Has
<1>10. EprInv(r)
  BY <1>1, <1>6, <1>9 DEF Sound, EprInv, ModeFits, ListFits
<1> QED
  BY <1>1, <1>4, <1>6, <1>8, <1>10 DEF Sound, RefreshInv, p, a, r

LEMMA SendSoftResetStep == ASSUME IInv, Send_Soft_Reset PROVE IInv'
<1> DEFINE p == Progressed
           q == IF Answered THEN Take(p) ELSE p
           c == Clear(q, {"PROTOCOL_ERROR"})
<1>1. port.state = "Send_Soft_Reset" /\ port.state # "Uninitialized" /\ port.state \in Asking
  BY DEF Send_Soft_Reset, Run, Asking
<1>2. Sound(p) /\ p.state = port.state
  BY <1>1, ProgressedSound
<1>3. Sound(q) /\ q.state = port.state
  BY <1>2, TakeSound
<1>4. CASE Become(p) \/ Become(q)
  BY <1>1, <1>2, <1>3, <1>4, StaysSound
<1>5. CASE /\ Has(p, "CAN_SEND_SOFT_RESET")
           /\ Become(Send(Clear(p, {"CAN_SEND_SOFT_RESET"})))
  BY <1>1, <1>5, SoftResetSent, StaysSound
<1>6. CASE Discarded /\ Become(Goto("Ready", p))
  <2>1. p = port
    BY <1>1, <1>6, ProgressedSound DEF Discarded, Finished
  <2> QED
    BY <1>1, <1>6, <2>1, Turn, GivesUp, GoesSound DEF Discarded
<1>7. CASE Answered /\ Become(Goto("Wait_for_Capabilities", q))
  <2>1. Still(q) /\ OneVerdict(q)
    BY <1>1, <1>7, AnswerTaken
  <2> HIDE DEF q
  <2>2. MayEnter("Wait_for_Capabilities", q) /\ q \in Ports
    BY <2>1, StillMayEnter DEF States, Resetting, Entering, Still
  <2> QED
    BY <1>7, <2>2, GoesSound
<1>8. CASE Become(Goto("Hard_Reset", c))
  <2> HIDE DEF q
  <2>1. c \in Ports /\ OneVerdict(c) /\ ModeFits(c)
    BY <1>3, VerdictTaken DEF Verdicts
  <2> HIDE DEF c
  <2>2. MayEnter("Hard_Reset", c)
    BY <2>1 DEF MayEnter, States, Resetting, Entering
  <2> QED
    BY <1>8, <2>1, <2>2, GoesSound
<1> QED
  BY <1>4, <1>5, <1>6, <1>7, <1>8 DEF Send_Soft_Reset

-----------------------------------------------------------------------------
(* EPR mode and BIST                                                         *)

LEMMA EntryRefusedAlike ==
    ASSUME NEW p \in Ports PROVE EntryRefused(p) \in Ports /\ Alike(p, EntryRefused(p))
<1> DEFINE q == EntryRefused(p)
<1>1. q \in Ports
  BY DEF EntryRefused, Ports, Flags
<1>2. /\ q.state = p.state /\ q.caps = p.caps /\ q.sending = p.sending
      /\ q.prl = p.prl /\ q.hr = p.hr
      /\ q.rdo_to_request = p.rdo_to_request /\ q.rdo_contracted = p.rdo_contracted
      /\ q.flags = p.flags \cup {"EPR_AUTO_ENTER_DISABLED", "HANDSHAKE_REPORTED"}
  BY <1>1 DEF EntryRefused, Ports
<1> HIDE DEF q
<1>3. Alike(p, q)
  BY <1>2 DEF Alike, Has, Watched, Verdicts
<1> QED
  BY <1>1, <1>3 DEF q

LEMMA SendEprModeEntryStep == ASSUME IInv, Send_EPR_Mode_Entry PROVE IInv'
<1> DEFINE p == Take(Progressed)
<1>1. /\ port.state = "Send_EPR_Mode_Entry" /\ port.state # "Uninitialized"
      /\ port.state \in Asking
  BY DEF Send_EPR_Mode_Entry, Run, Asking
<1>2. CASE Discarded /\ Become(Goto("Ready", port))
  BY <1>1, <1>2, Turn, GivesUp, GoesSound DEF Discarded
<1>3. CASE /\ Answered
           /\ \/ Become(Goto("EPR_Mode_Entry_Wait_For_Response", p))
              \/ Become(Goto("Ready", EntryRefused(p)))
              \/ Become(Goto("Send_Soft_Reset", p))
  <2>1. Still(p) /\ OneVerdict(p) /\ ListFits(p) /\ InContract(p) /\ p \in Ports
    BY <1>1, <1>3, AnswerTaken DEF Sound, EprInv, Entering, Still
  <2> HIDE DEF p
  <2>2. /\ MayEnter("EPR_Mode_Entry_Wait_For_Response", p) /\ MayEnter("Ready", p)
        /\ MayEnter("Send_Soft_Reset", p)
    BY <2>1, StillMayEnter DEF States
  <2>3. EntryRefused(p) \in Ports /\ MayEnter("Ready", EntryRefused(p))
    BY <2>1, <2>2, EntryRefusedAlike, AlikeMayEnter
  <2> QED
    BY <1>3, <2>1, <2>2, <2>3, GoesSound
<1>4. CASE ~Discarded /\ ~Answered /\ Become(Goto("Send_Soft_Reset", Progressed))
  <2>1. Sound(Progressed) /\ Progressed.state = port.state
    BY <1>1, ProgressedSound
  <2>2. ~Has(Progressed, "TX_COMPLETE")
    <3>1. CASE Finished
      BY <1>1, <3>1, ProgressedSound DEF Quiet, Verdicts
    <3>2. CASE ~Finished
      <4>1. Progressed = port /\ ~Discarded
        BY <1>1, <1>4, <3>2, ProgressedSound
      <4>2. Failed \/ ~Has(port, "TX_COMPLETE")
        BY <3>2, <4>1 DEF Finished
      <4>3. Failed => ~Has(port, "TX_COMPLETE")
        BY Turn DEF Failed, OneVerdict, Verdicts
      <4> QED
        BY <4>1, <4>2, <4>3
    <3> QED
      BY <3>1, <3>2
  <2>3. MayEnter("Send_Soft_Reset", Progressed) /\ Progressed \in Ports
    BY <1>1, <2>1, <2>2 DEF Sound, VerdictInv, EprInv, MayEnter, States, Talking, Asking, Resetting,
       Entering
  <2> QED
    BY <1>4, <2>3, GoesSound
<1>5. CASE Become(Progressed)
  BY <1>1, <1>5, ProgressedSound, StaysSound
<1> QED
  BY <1>2, <1>3, <1>4, <1>5 DEF Send_EPR_Mode_Entry

LEMMA EprModeEntryWaitStep == ASSUME IInv, EPR_Mode_Entry_Wait_For_Response PROVE IInv'
<1>1. /\ port.state = "EPR_Mode_Entry_Wait_For_Response" /\ port.state # "Uninitialized"
  BY DEF EPR_Mode_Entry_Wait_For_Response, Run
<1>2. Still(port) /\ OneVerdict(port) /\ ListFits(port) /\ InContract(port)
  BY <1>1, Turn, StillOutside DEF Talking, Asking, Replying, EprInv, Resetting, Entering
<1>3. CASE Become(Goto("Wait_for_Capabilities",
                [Set(Take(port), "IN_EPR_MODE") EXCEPT !.requests = @ \ {"EPR_MODE_ENTRY"}]))
  <2> DEFINE a == Take(port)
             b == Set(a, "IN_EPR_MODE")
             c == [b EXCEPT !.requests = @ \ {"EPR_MODE_ENTRY"}]
  <2>1. a \in Ports /\ Alike(port, a)
    BY Turn, TakeAlike
  <2>2. Still(a) /\ OneVerdict(a) /\ InContract(a)
    BY <1>2, <2>1, AlikeSame DEF Still
  <2>3. Become(Goto("Wait_for_Capabilities", c))
    BY <1>3
  <2> HIDE DEF a
  <2>4. b \in Ports
    BY <2>1, HelperTypes DEF Flags
  <2>5. /\ b.sending = a.sending /\ b.prl = a.prl /\ b.hr = a.hr
        /\ b.flags = a.flags \cup {"IN_EPR_MODE"}
    BY <2>1, <2>4 DEF Set, Ports
  <2> HIDE DEF b
  <2>6. c \in Ports
    BY <2>4 DEF Ports
  <2>7. /\ c.sending = b.sending /\ c.prl = b.prl /\ c.hr = b.hr /\ c.flags = b.flags
    BY <2>4, <2>6 DEF Ports
  <2> HIDE DEF c
  <2>8. Still(c) /\ OneVerdict(c)
    BY <2>2, <2>5, <2>6, <2>7 DEF Still, Quiet, Verdicts, OnItsWay, OneVerdict, ModeFits, InEpr,
       InContract, Has
  <2>9. MayEnter("Wait_for_Capabilities", c)
    BY <2>8, StillMayEnter DEF States, Resetting, Entering
  <2> QED
    BY <2>3, <2>6, <2>9, GoesSound
<1>4. CASE Become(Goto("Send_Soft_Reset", port)) \/ Become(Goto("Send_Soft_Reset", Take(port)))
  <2>1. MayEnter("Send_Soft_Reset", port)
    BY <1>2, StillMayEnter DEF States, Entering
  <2>2. Take(port) \in Ports /\ MayEnter("Send_Soft_Reset", Take(port))
    BY <2>1, Turn, TakeAlike, AlikeMayEnter
  <2> QED
    BY <1>4, <2>1, <2>2, Turn, GoesSound
<1>5. CASE Become(port)
  BY <1>1, <1>5, Turn, StaysSound
<1> QED
  BY <1>3, <1>4, <1>5 DEF EPR_Mode_Entry_Wait_For_Response

LEMMA BistSteps ==
    ASSUME IInv, BIST_Activate \/ BIST_Carrier_Mode \/ BIST_Test_Mode PROVE IInv'
<1>1. /\ port.state \in {"BIST_Activate", "BIST_Carrier_Mode", "BIST_Test_Mode"}
      /\ port.state # "Uninitialized"
  BY DEF BIST_Activate, BIST_Carrier_Mode, BIST_Test_Mode, Run
<1>2. Still(port) /\ OneVerdict(port) /\ ListFits(port)
  BY <1>1, Turn, StillOutside DEF Talking, Asking, Replying, EprInv, Resetting
<1>3. CASE Become(port) \/ Become(Take(port))
  BY <1>1, <1>3, Turn, TakeSound, StaysSound
<1>4. CASE \E s \in {"BIST_Carrier_Mode", "BIST_Test_Mode", "Transition_to_default"} :
              Become(Goto(s, port))
  <2>1. PICK s \in {"BIST_Carrier_Mode", "BIST_Test_Mode", "Transition_to_default"} :
           Become(Goto(s, port))
    BY <1>4
  <2>2. MayEnter(s, port)
    BY <1>2, StillMayEnter DEF States, Entering
  <2> QED
    BY <2>1, <2>2, Turn, GoesSound
<1>5. CASE Become([Stop(port, "BISTCarrier") EXCEPT !.bist = TRUE])
  <2> DEFINE a == Stop(port, "BISTCarrier")
             b == [a EXCEPT !.bist = TRUE]
  <2>1. /\ a \in Ports /\ Alike(port, a)
        /\ \A u \in Timers \ {"BISTCarrier"} : a.timers[u] = port.timers[u]
    BY Turn, TimerAlike DEF Timers
  <2>2. Become(b)
    BY <1>5
  <2> HIDE DEF a
  <2>3. b \in Ports
    BY <2>1, BistType
  <2>4. /\ b.state = a.state /\ b.caps = a.caps /\ b.sending = a.sending
        /\ b.prl = a.prl /\ b.hr = a.hr /\ b.flags = a.flags /\ b.timers = a.timers
        /\ b.rdo_to_request = a.rdo_to_request /\ b.rdo_contracted = a.rdo_contracted
    BY <2>1, <2>3 DEF Ports
  <2> HIDE DEF b
  <2>5. Alike(port, b)
    BY <2>1, <2>4 DEF Alike, Has
  <2>6. Sound(b)
    BY <2>1, <2>3, <2>4, <2>5, Turn, AlikeSound DEF Timers
  <2> QED
    BY <1>1, <2>2, <2>5, <2>6, StaysSound DEF Alike
<1>6. CASE BIST_Activate
  BY <1>3, <1>4, <1>6 DEF BIST_Activate
<1>7. CASE BIST_Carrier_Mode
  BY <1>3, <1>4, <1>5, <1>7 DEF BIST_Carrier_Mode
<1>8. CASE BIST_Test_Mode
  BY <1>3, <1>8 DEF BIST_Test_Mode
<1> QED
  BY <1>6, <1>7, <1>8

-----------------------------------------------------------------------------
(* A turn of PRL                                                             *)

LEMMA Concludes ==
    ASSUME Sound(port'), turn' \in {"pe", "prl"}, wanted' \in Wanted, env' \in Envs,
           turn' = "prl" /\ env'.attached => port'.state # "Uninitialized"
    PROVE  IInv'
<1>1. TypeOK'
  BY DEF TypeOK, Sound, Ports, Envs
<1>2. (Sound(port))'
  BY DEF Sound, Ports, VerdictInv, EprInv, RefreshInv, OneVerdict, Quiet, OnItsWay,
       ModeFits, ListFits, InEpr, InContract, IsInPpsContract, Has
<1> QED
  BY <1>1, <1>2 DEF IInv

LEMMA PrlConcludes ==
    ASSUME IInv, PrlTurn, Sound(port'),
           \/ env' = env
           \/ env' = [env EXCEPT !.failures = @ + 1] /\ env.failures < MaxFailures
           \/ Surprise
    PROVE  IInv'
<1>1. env \in Envs /\ wanted' \in Wanted /\ turn' = "pe"
  BY DEF IInv, TypeOK, Envs, PrlTurn
<1>2. env' \in Envs
  <2>1. CASE env' = env
    BY <1>1, <2>1
  <2>2. CASE env' = [env EXCEPT !.failures = @ + 1] /\ env.failures < MaxFailures
    BY <1>1, <2>2, BoundsAssumption DEF Envs
  <2>3. CASE Surprise
    BY <1>1, <2>3, BoundsAssumption DEF Envs, Surprise
  <2> QED
    BY <2>1, <2>2, <2>3
<1> QED
  BY <1>1, <1>2, Concludes

LEMMA PreparedSound ==
    ASSUME IInv
    PROVE  /\ Sound(Prepared) /\ Prepared.state = port.state /\ Prepared.prl = "run"
           /\ Prepared.hr = "idle" \/ Prepared.sending = port.sending
<1>1. CASE port.prl = "run"
  BY <1>1, Turn DEF Prepared
<1>2. CASE port.prl # "run"
  <2> DEFINE q == [port EXCEPT !.prl = "run", !.hr = "idle", !.sending = FALSE]
  <2>1. Prepared = q
    BY <1>2 DEF Prepared
  <2>2. q \in Ports
    <3> DEFINE a == [port EXCEPT !.prl = "run"]
               b == [a EXCEPT !.hr = "idle"]
    <3>1. a \in Ports
      BY Turn DEF Ports
    <3> HIDE DEF a
    <3>2. b \in Ports
      BY <3>1 DEF Ports
    <3> HIDE DEF b
    <3>3. [b EXCEPT !.sending = FALSE] \in Ports
      BY <3>2 DEF Ports
    <3> QED
      BY <3>3 DEF a, b
  <2>3. /\ q.state = port.state /\ q.caps = port.caps /\ ~q.sending
        /\ q.prl = "run" /\ q.hr = "idle" /\ q.flags = port.flags /\ q.timers = port.timers
        /\ q.rdo_to_request = port.rdo_to_request /\ q.rdo_contracted = port.rdo_contracted
    BY Turn, <2>2 DEF Ports
  <2> HIDE DEF q
  <2>4. VerdictInv(q)
    BY <2>3, Turn DEF VerdictInv, OneVerdict, Quiet, OnItsWay, Has
  <2>5. EprInv(q) /\ RefreshInv(q)
    BY <2>3, Turn DEF Sound, EprInv, RefreshInv, ModeFits, ListFits, InEpr, InContract,
       IsInPpsContract, Has
  <2> QED
    BY <2>1, <2>2, <2>3, <2>4, <2>5 DEF Sound
<1> QED
  BY <1>1, <1>2

\* One verdict on the message that is on its way.
Told(p, q) ==
    /\ q.state = p.state /\ q.caps = p.caps /\ ~q.sending /\ q.timers = p.timers
    /\ q.rdo_to_request = p.rdo_to_request /\ q.rdo_contracted = p.rdo_contracted
    /\ q.prl = p.prl /\ q.hr = p.hr
    /\ \A f \in Watched \ Verdicts : Has(q, f) <=> Has(p, f)
    /\ \E f \in Verdicts : \A g \in Verdicts : Has(q, g) <=> (Has(p, g) \/ f = g)

LEMMA ToldSound ==
    ASSUME NEW p, Sound(p), OnItsWay(p), p.state # "Uninitialized", NEW q \in Ports, Told(p, q)
    PROVE  Sound(q)
<1>1. Quiet(p) /\ p.sending /\ p.state \in Talking \cup {"Src_Disabled"} /\ p.prl # "restart"
  BY DEF Sound, VerdictInv, OneVerdict, OnItsWay
<1>2. OneVerdict(q)
  BY <1>1 DEF Told, OneVerdict, Quiet
<1>3. VerdictInv(q)
  BY <1>1, <1>2 DEF Told, Sound, VerdictInv, OnItsWay, Watched, Verdicts
<1>4. EprInv(q)
  BY DEF Told, Sound, EprInv, ModeFits, ListFits, InEpr, InContract, Watched, Verdicts
<1> QED
  BY <1>1, <1>3, <1>4 DEF Sound, RefreshInv, Told, Talking, Asking, Replying

LEMMA QuietType == ASSUME NEW p \in Ports PROVE [p EXCEPT !.sending = FALSE] \in Ports
BY DEF Ports

LEMMA VerdictTold ==
    ASSUME NEW p \in Ports, NEW f \in Verdicts
    PROVE  LET q == [Set(p, f) EXCEPT !.sending = FALSE]
           IN  q \in Ports /\ Told(p, q)
<1> DEFINE a == Set(p, f)
           q == [a EXCEPT !.sending = FALSE]
<1>1. a \in Ports
  BY HelperTypes DEF Flags, Verdicts
<1>2. /\ a.state = p.state /\ a.caps = p.caps /\ a.timers = p.timers
      /\ a.prl = p.prl /\ a.hr = p.hr /\ a.flags = p.flags \cup {f}
      /\ a.rdo_to_request = p.rdo_to_request /\ a.rdo_contracted = p.rdo_contracted
  BY <1>1 DEF Set, Ports
<1> HIDE DEF a
<1>3. q \in Ports
  BY <1>1, QuietType
<1>4. /\ q.state = a.state /\ q.caps = a.caps /\ ~q.sending
      /\ q.prl = a.prl /\ q.hr = a.hr /\ q.flags = a.flags /\ q.timers = a.timers
      /\ q.rdo_to_request = a.rdo_to_request /\ q.rdo_contracted = a.rdo_contracted
  BY <1>1, <1>3 DEF Ports
<1> HIDE DEF q
<1>5. \A g \in Watched : Has(q, g) <=> (Has(p, g) \/ g = f)
  BY <1>2, <1>4 DEF Has
<1>6. Told(p, q)
  BY <1>2, <1>4, <1>5 DEF Told, Watched, Verdicts
<1> QED
  BY <1>3, <1>6 DEF q, a

LEMMA HearsErrorSound ==
    ASSUME NEW p, Sound(p), OnItsWay(p), p.state # "Uninitialized", wanted \in Wanted
    PROVE  Sound(HearsError(p))
<1> DEFINE q == [Set(p, "PROTOCOL_ERROR") EXCEPT !.sending = FALSE]
<1>1. q \in Ports /\ Told(p, q) /\ q.state = p.state
  BY VerdictTold DEF Sound, Told, Verdicts
<1>2. Sound(q)
  BY <1>1, ToldSound
<1>3. HearsError(p) = IF p.state \in Forwarding THEN q ELSE Goto("Send_Soft_Reset", q)
  BY DEF HearsError
<1>4. CASE p.state \in Forwarding
  BY <1>2, <1>3, <1>4
<1>5. CASE p.state \notin Forwarding
  <2>1. p.state \in Talking /\ Quiet(p)
    BY <1>5 DEF Sound, VerdictInv, OneVerdict, OnItsWay, Forwarding
  <2>2. ~Has(q, "TX_COMPLETE") /\ ~q.sending
    <3>1. Has(q, "PROTOCOL_ERROR")
      BY <1>1 DEF q, Set, Has, Sound, Ports
    <3> HIDE DEF q
    <3> QED
      BY <1>1, <1>2, <3>1 DEF Told, Sound, VerdictInv, OneVerdict, Verdicts
  <2> HIDE DEF q
  <2>3. ListFits(q)
    BY <1>1, <1>2, <1>5, <2>1 DEF Sound, EprInv, Talking, Asking, Replying, Forwarding, Resetting
  <2>4. MayEnter("Send_Soft_Reset", q)
    BY <1>2, <2>2, <2>3 DEF Sound, VerdictInv, EprInv, MayEnter, OnItsWay, States, Talking, Asking,
       Entering
  <2> QED
    BY <1>1, <1>3, <1>5, <2>4, Goes
<1> QED
  BY <1>4, <1>5

LEMMA HearsMessageSound ==
    ASSUME NEW p, Sound(p), NEW kind \in Kinds PROVE Sound(HearsMessage(p, kind))
<1> DEFINE a == Set(p, "MSG_RECEIVED")
           q == [a EXCEPT !.msg = kind]
<1>1. a \in Ports /\ Alike(p, a) /\ a.timers = p.timers
  <2>1. "MSG_RECEIVED" \in Flags \ Watched
    BY DEF Flags, Watched, Verdicts
  <2> QED
    BY <2>1, SetAlike DEF Sound
<1>2. HearsMessage(p, kind) = q
  BY DEF HearsMessage
<1> HIDE DEF a
<1>3. q \in Ports
  BY <1>1 DEF Ports
<1>4. /\ q.state = a.state /\ q.caps = a.caps /\ q.sending = a.sending
      /\ q.prl = a.prl /\ q.hr = a.hr /\ q.flags = a.flags /\ q.timers = a.timers
      /\ q.rdo_to_request = a.rdo_to_request /\ q.rdo_contracted = a.rdo_contracted
  BY <1>1, <1>3 DEF Ports
<1> HIDE DEF q
<1>5. Alike(p, q) /\ q.timers = p.timers
  BY <1>1, <1>4 DEF Alike, Has
<1> QED
  BY <1>2, <1>3, <1>5, AlikeSound

LEMMA PrlSendsPrepared ==
    ASSUME IInv, turn = "prl", env.attached, Prepared.sending, Prepared.hr = "idle"
    PROVE  OnItsWay(Prepared) /\ Prepared.state # "Uninitialized" /\ Sound(Prepared)
BY PreparedSound DEF IInv, OnItsWay

LEMMA PrlReportSteps == ASSUME IInv, PrlNothing \/ PrlSent \/ PrlFails PROVE IInv'
<1>1. PrlTurn /\ env.attached /\ turn = "prl"
  BY DEF PrlNothing, PrlSent, PrlFails, PrlSends, PrlTurn
<1>2. CASE PrlNothing
  BY <1>1, <1>2, PreparedSound, PrlConcludes DEF PrlNothing
<1>3. CASE PrlSent
  <2>1. OnItsWay(Prepared) /\ Prepared.state # "Uninitialized" /\ Sound(Prepared)
    BY <1>1, <1>3, PrlSendsPrepared DEF PrlSent, PrlSends
  <2>2. Sound(HearsSent(Prepared))
    BY <2>1, VerdictTold, ToldSound DEF Sound, HearsSent, Verdicts
  <2> QED
    BY <1>1, <1>3, <2>2, PrlConcludes DEF PrlSent
<1>4. CASE PrlFails
  <2>1. OnItsWay(Prepared) /\ Prepared.state # "Uninitialized" /\ Sound(Prepared)
    BY <1>1, <1>4, PrlSendsPrepared DEF PrlFails, PrlSends
  <2>2. Sound(HearsError(Prepared))
    BY <2>1, Turn, HearsErrorSound
  <2> QED
    BY <1>1, <1>4, <2>2, PrlConcludes DEF PrlFails
<1> QED
  BY <1>2, <1>3, <1>4

LEMMA PrlReceivesStep == ASSUME IInv, PrlReceives PROVE IInv'
<1>1. PrlTurn /\ env.attached /\ turn = "prl" /\ Prepared.hr = "idle"
  BY DEF PrlReceives, PrlTurn
<1>2. PICK kind \in PartnerMay :
          \/ /\ port' = HearsMessage(IF Prepared.sending THEN HearsSent(Prepared)
                                      ELSE Prepared, kind)
             /\ IF kind \in Answers THEN UNCHANGED env ELSE Surprise
          \/ /\ Prepared.sending
             /\ port' = HearsMessage(HearsDiscard(Prepared), kind)
             /\ Surprise
  BY DEF PrlReceives
<1>3. Sound(Prepared) /\ kind \in Kinds
  BY PreparedSound, KindsAssumption
<1>4. Prepared.sending => Sound(HearsSent(Prepared)) /\ Sound(HearsDiscard(Prepared))
  <2>1. ASSUME Prepared.sending
        PROVE  OnItsWay(Prepared) /\ Prepared.state # "Uninitialized" /\ Prepared \in Ports
    BY <1>1, <2>1, PrlSendsPrepared DEF Sound
  <2>2. ASSUME Prepared.sending PROVE Sound(HearsSent(Prepared))
    BY <1>3, <2>1, <2>2, VerdictTold, ToldSound DEF HearsSent, Verdicts
  <2>3. ASSUME Prepared.sending PROVE Sound(HearsDiscard(Prepared))
    <3>1. HearsDiscard(Prepared) \in Ports /\ Told(Prepared, HearsDiscard(Prepared))
      BY <2>1, <2>3, VerdictTold DEF HearsDiscard, Verdicts
    <3> QED
      BY <1>3, <2>1, <2>3, <3>1, ToldSound
  <2> QED
    BY <2>2, <2>3
<1>5. Sound(port')
  BY <1>2, <1>3, <1>4, HearsMessageSound
<1>6. env' = env \/ Surprise
  BY <1>2
<1> QED
  BY <1>1, <1>5, <1>6, PrlConcludes

LEMMA PrlHardResetSteps ==
    ASSUME IInv, PrlHardResetSent \/ PrlHardReset \/ PrlDetached PROVE IInv'
<1>1. ASSUME NEW p, Sound(p), NEW h \in {"waiting", "idle"}, NEW l \in {p.prl, "off"},
             h = "waiting" \/ l = "off"
      PROVE  LET q == [p EXCEPT !.prl = l, !.hr = h, !.sending = FALSE]
             IN  Sound(q) /\ q.state = p.state /\ ~OnItsWay(q)
  <2> DEFINE a == [p EXCEPT !.prl = l]
             b == [a EXCEPT !.hr = h]
             q == [p EXCEPT !.prl = l, !.hr = h, !.sending = FALSE]
  <2>1. p \in Ports /\ l \in {"off", "restart", "run"}
    BY <1>1 DEF Sound, Ports
  <2>2. a \in Ports
    BY <2>1 DEF Ports
  <2> HIDE DEF a
  <2>3. b \in Ports
    BY <2>2 DEF Ports
  <2> HIDE DEF b
  <2>4. [b EXCEPT !.sending = FALSE] \in Ports
    BY <2>3, QuietType
  <2>5. q \in Ports
    BY <2>4 DEF a, b
  <2>6. /\ q.state = p.state /\ q.caps = p.caps /\ ~q.sending
        /\ q.flags = p.flags /\ q.timers = p.timers
        /\ q.rdo_to_request = p.rdo_to_request /\ q.rdo_contracted = p.rdo_contracted
    BY <2>1, <2>5 DEF Ports
  <2> HIDE DEF q
  <2>7. VerdictInv(q)
    BY <1>1, <2>6 DEF Sound, VerdictInv, OneVerdict, Quiet, OnItsWay, Has
  <2>8. EprInv(q) /\ RefreshInv(q)
    BY <1>1, <2>6 DEF Sound, EprInv, RefreshInv, ModeFits, ListFits, InEpr, InContract,
       IsInPpsContract, Has
  <2> QED
    BY <2>5, <2>6, <2>7, <2>8 DEF Sound, OnItsWay, q
<1>2. ASSUME NEW p, Sound(p)
      PROVE  /\ Sound([p EXCEPT !.hr = "waiting", !.sending = FALSE])
             /\ Sound([p EXCEPT !.prl = "off", !.hr = "idle", !.sending = FALSE])
             /\ [p EXCEPT !.hr = "waiting", !.sending = FALSE].state = p.state
             /\ ~OnItsWay([p EXCEPT !.hr = "waiting", !.sending = FALSE])
  <2>1. [p EXCEPT !.prl = p.prl, !.hr = "waiting", !.sending = FALSE]
          = [p EXCEPT !.hr = "waiting", !.sending = FALSE]
    BY <1>2 DEF Sound, Ports
  <2> QED
    BY <1>1, <1>2, <2>1
<1>3. CASE PrlHardResetSent
  <2> DEFINE a == Clear(Prepared, {"PRL_HARD_RESET_PENDING"})
  <2>1. Sound(a)
    <3>1. {"PRL_HARD_RESET_PENDING"} \cap Watched = {}
      BY DEF Watched, Verdicts
    <3>2. a \in Ports /\ Alike(Prepared, a) /\ a.timers = Prepared.timers
      BY <3>1, PreparedSound, ClearAlike DEF Sound
    <3> QED
      BY <3>2, PreparedSound, AlikeSound
  <2> HIDE DEF a
  <2>2. Sound([a EXCEPT !.hr = "waiting", !.sending = FALSE])
    BY <1>2, <2>1
  <2>3. PrlTurn /\ env' = env /\ Sound(port')
    BY <1>3, <2>2 DEF PrlHardResetSent, a
  <2> QED
    BY <2>3, PrlConcludes
<1>4. CASE PrlHardReset
  <2> DEFINE p == [port EXCEPT !.hr = "waiting", !.sending = FALSE]
  <2>1. Sound(p) /\ ~OnItsWay(p)
    BY <1>2, Turn
  <2>2. port' = p \/ port' = Goto("Transition_to_default", p)
    BY <1>4 DEF PrlHardReset
  <2> HIDE DEF p
  <2>3. MayEnter("Transition_to_default", p) /\ p \in Ports
    BY <2>1 DEF Sound, VerdictInv, EprInv, MayEnter, States, Talking, Asking, Replying, Resetting,
       Entering
  <2>4. Sound(port')
    BY <2>1, <2>2, <2>3, Turn, Goes
  <2>5. PrlTurn /\ Surprise
    BY <1>4 DEF PrlHardReset
  <2> QED
    BY <2>4, <2>5, PrlConcludes
<1>5. CASE PrlDetached
  <2>1. PrlTurn /\ env' = env /\ Sound(port')
    BY <1>2, <1>5, Turn DEF PrlDetached
  <2> QED
    BY <2>1, PrlConcludes
<1> QED
  BY <1>3, <1>4, <1>5

-----------------------------------------------------------------------------
(* The application, the driver, the cable and the time                       *)

LEMMA TriggerStep == ASSUME IInv, NEW profile \in Wanted, Trigger(profile) PROVE IInv'
<1> DEFINE q == [port EXCEPT !.requests = @ \cup {"NEW_POWER_LEVEL"}]
<1>1. Sound(q) /\ q.state = port.state
  <2>1. q \in Ports
    BY Turn DEF Ports
  <2>2. /\ q.state = port.state /\ q.caps = port.caps /\ q.sending = port.sending
        /\ q.prl = port.prl /\ q.hr = port.hr /\ q.flags = port.flags /\ q.timers = port.timers
        /\ q.rdo_to_request = port.rdo_to_request /\ q.rdo_contracted = port.rdo_contracted
    BY Turn, <2>1 DEF Ports
  <2> HIDE DEF q
  <2>3. Alike(port, q)
    BY <2>2 DEF Alike, Has
  <2> QED
    BY <2>1, <2>2, <2>3, Turn, AlikeSound
<1>2. port' = q \/ port' = port
  BY DEF Trigger
<1> HIDE DEF q
<1>3. Sound(port') /\ port'.state = port.state
  BY <1>1, <1>2, Turn
<1>4. env \in Envs /\ turn \in {"pe", "prl"}
  BY DEF IInv, TypeOK, Envs
<1>5. env' \in Envs /\ env'.attached = env.attached /\ turn' = turn /\ wanted' \in Wanted
  BY <1>4, BoundsAssumption DEF Trigger, Envs
<1> QED
  BY <1>3, <1>4, <1>5, Concludes DEF IInv

LEMMA BistDoneStep == ASSUME IInv, BistDone PROVE IInv'
<1> DEFINE q == [port EXCEPT !.bist = FALSE]
<1>1. q \in Ports
  BY Turn, BistType
<1>2. /\ q.state = port.state /\ q.caps = port.caps /\ q.sending = port.sending
      /\ q.prl = port.prl /\ q.hr = port.hr /\ q.flags = port.flags /\ q.timers = port.timers
      /\ q.rdo_to_request = port.rdo_to_request /\ q.rdo_contracted = port.rdo_contracted
  BY Turn, <1>1 DEF Ports
<1>3. port' = q
  BY DEF BistDone
<1> HIDE DEF q
<1>4. Alike(port, q)
  BY <1>2 DEF Alike, Has
<1>5. Sound(port') /\ port'.state = port.state
  BY <1>1, <1>2, <1>3, <1>4, Turn, AlikeSound
<1> QED
  BY <1>5, Concludes DEF BistDone, IInv, TypeOK, Envs

LEMMA ElapseStep == ASSUME IInv, NEW t \in Timers, Elapse(t) PROVE IInv'
<1> DEFINE q == [port EXCEPT !.timers[t] = "expired"]
<1>1. q \in Ports
  BY Turn DEF Ports
<1>2. /\ q.state = port.state /\ q.caps = port.caps /\ q.sending = port.sending
      /\ q.prl = port.prl /\ q.hr = port.hr /\ q.flags = port.flags
      /\ q.rdo_to_request = port.rdo_to_request /\ q.rdo_contracted = port.rdo_contracted
      /\ \A u \in Timers : q.timers[u] = IF u = t THEN "expired" ELSE port.timers[u]
  BY Turn, <1>1 DEF Ports
<1>3. port' = q
  BY DEF Elapse
<1> HIDE DEF q
<1>4. Alike(port, q)
  BY <1>2 DEF Alike, Has
<1>5. Sound(port') /\ port'.state = port.state
  BY <1>1, <1>2, <1>3, <1>4, Turn, AlikeSound DEF Timers
<1> QED
  BY <1>5, Concludes DEF Elapse, IInv, TypeOK, Envs

LEMMA CableSteps == ASSUME IInv, SourceFallsSilent \/ Attach \/ Detach PROVE IInv'
<1>1. port' = port /\ wanted' = wanted /\ turn' = turn
  BY DEF SourceFallsSilent, Attach, Detach
<1>2. env \in Envs
  BY DEF IInv, TypeOK, Envs
<1>3. /\ env' \in Envs
      /\ env'.attached = env.attached \/ turn = "pe"
  <2>1. ASSUME NEW b \in BOOLEAN
        PROVE  /\ [env EXCEPT !.silent = b] \in Envs
               /\ [env EXCEPT !.silent = b].attached = env.attached
               /\ [env EXCEPT !.attached = b] \in Envs
               /\ \A n \in 0..MaxEvents : [env EXCEPT !.attached = b, !.events = n] \in Envs
    BY <1>2 DEF Envs
  <2>2. CASE SourceFallsSilent
    BY <2>1, <2>2 DEF SourceFallsSilent
  <2>3. CASE Attach
    BY <2>1, <2>3 DEF Attach
  <2>4. CASE Detach
    <3>1. env.events + 1 \in 0..MaxEvents /\ FALSE \in BOOLEAN
      BY <1>2, <2>4, BoundsAssumption DEF Detach, Envs
    <3>2. env' = [env EXCEPT !.attached = FALSE, !.events = env.events + 1] /\ turn = "pe"
      BY <2>4 DEF Detach
    <3> QED
      BY <2>1, <3>1, <3>2
  <2> QED
    BY <2>2, <2>3, <2>4
<1> QED
  BY <1>1, <1>3, Concludes DEF IInv, TypeOK, Envs

-----------------------------------------------------------------------------
(* Putting it together                                                       *)

LEMMA InvInit == ASSUME Init PROVE IInv
<1> DEFINE off == [t \in Timers |-> "off"]
<1>1. off \in [Timers -> {"off", "running", "expired"}]
  OBVIOUS
<1>2. port.timers = off
  BY DEF Init
<1> HIDE DEF off
<1>3. port \in Ports
  BY <1>1, <1>2 DEF Init, Ports, States
<1>4. env \in Envs /\ turn = "pe" /\ wanted \in Wanted
  BY BoundsAssumption, WantedAssumption DEF Init, Envs
<1>5. TypeOK
  BY <1>3, <1>4 DEF TypeOK, Ports, Envs
<1>6. Sound(port)
  BY <1>3 DEF Init, Sound, VerdictInv, EprInv, RefreshInv, OneVerdict, Quiet, OnItsWay, ModeFits,
     InEpr, InContract, Has, Asking, Entering, Resetting
<1> QED
  BY <1>4, <1>5, <1>6 DEF IInv

LEMMA InvStep == ASSUME IInv, [Next]_vars PROVE IInv'
<1>1. CASE PeRuns
  BY <1>1, PeInitStep, PeDetachedStep, SoftResetReceivedStep, StartupStep, WaitForCapabilitiesStep,
     SelectCapabilityStep, TransitionSinkStep, ReadyMessageStep, ReadyRunStep, ReadyRequestStep,
     EprKeepAliveStep, ReplyStep, ResetSteps, SoftResetStep, SendSoftResetStep,
     SendEprModeEntryStep, EprModeEntryWaitStep, BistSteps
  DEF PeRuns
<1>2. CASE PrlRuns
  BY <1>2, PrlReportSteps, PrlReceivesStep, PrlHardResetSteps DEF PrlRuns
<1>3. CASE \E profile \in Wanted : Trigger(profile)
  BY <1>3, TriggerStep
<1>4. CASE SourceFallsSilent \/ BistDone \/ Attach \/ Detach
  BY <1>4, CableSteps, BistDoneStep
<1>5. CASE \E t \in Timers : Elapse(t)
  BY <1>5, ElapseStep
<1>6. CASE UNCHANGED vars
  BY <1>6, Concludes DEF vars, IInv, TypeOK, Envs
<1> QED
  BY <1>1, <1>2, <1>3, <1>4, <1>5, <1>6 DEF Next

LEMMA Invariance == Spec => []IInv
BY InvInit, InvStep, PTL DEF Spec

\* The policy engine and its view of Port keep their types; the counter of hard resets
\* stays in its byte.
THEOREM TypeCorrect == Spec => []TypeOK
<1>1. IInv => TypeOK
  BY DEF IInv
<1> QED
  BY <1>1, Invariance, PTL

\* EPR mode needs a contract, and a profile above position 7 is requested and contracted
\* in EPR mode only, in whatever order lists, exits and resets come.
THEOREM EprIsConsistent == Spec => []EprConsistent
<1>1. IInv => EprConsistent
  BY DEF IInv, Sound, EprInv, ModeFits, InEpr, InContract, EprConsistent
<1> QED
  BY <1>1, Invariance, PTL

\* In Ready the timers of keep-alive and of the PPS request are armed.
THEOREM RefreshIsArmed == Spec => []RefreshArmed
<1>1. IInv => RefreshArmed
  BY DEF IInv, Sound, RefreshInv, InEpr, IsInPpsContract, RefreshArmed
<1> QED
  BY <1>1, Invariance, PTL

\* PRL tells PE one thing of each message of it, and nothing of none.
THEOREM OneReport == Spec => []OneVerdict(port)
<1>1. IInv => OneVerdict(port)
  BY DEF IInv, Sound, VerdictInv
<1> QED
  BY <1>1, Invariance, PTL

=============================================================================
