# A formal model of the PD sink stack

This directory holds a TLA+ model of the USB Power Delivery sink stack in
`src/src/pd`: its event loop, its protocol layer, its policy engine, its device policy
manager with the data objects it chooses from, its cable detection with the driver
below, its state machine framework, its timers, and the two lock-free structures
between the stack and the driver. TLC checks the model on small instances; TLAPS
proves, for every value of the constants, the safety properties the runs check and the
refinements: three of PRL have no proof, seven need a hypothesis, and the refinement of
the packet queue ends where its counter wraps (Section 4).

    cd tla
    tlc -config MCPrl.cfg PrlSystem.tla       # check a run (module named below)
    tlapm TaskProofs.tla                      # check the proofs (PrlProofs: 6 minutes)

All paths below are relative to `src/src/pd` unless they say otherwise.

## 1. The system

### Components, state and operations

| component | source | state it keeps | operations |
|---|---|---|---|
| event loop | `task.cpp`, `task.h`, `port.cpp` | the event group, the guard flags `IS_IN_TICK` and `HAS_DEFERRED_CALL` | `start`, `set_event`, `dispatch`, `tick`; `Port::wakeup`, `notify_task` |
| protocol layer PRL | `prl.cpp`, `prl.h` | five state machines (HR, Tx, Rx, RCH, TCH), four flag sets, message ids, chunk counters, `tx_emsg`, `tx_chunk`, `rx_chunk`, `rx_emsg` | one run of every machine in each tick; messages from PE (enqueue, restart, hard reset), reports to PE |
| policy engine PE | `pe.cpp`, `pe.h` | 27 states, `pe_flags`, source capabilities, the contract, counters | one run in each tick; reports of PRL; requests of DPM |
| cable detection TC | `tc.cpp`, `tc.h` | three states, the last two CC readings, `is_attached` | one run in each tick |
| device policy manager DPM | `dpm.cpp` | the trigger: voltage, current, kind or position; request flags | `trigger_any`, `trigger_variant`, `trigger_by_position`; `get_request_data_object`, called by PE |
| driver | `drivers/fusb302_rtos.*`, `idriver.h` | the call slots, the packet queue, `tcpc_tx_status`, the meter, polarity, VBUS | a task of its own: interrupts, calls, timer |
| call slots | `utils/leapsync.h` | state and parameter | `enqueue`, `get_job`, `job_finish`, `reset`, `is_idle` |
| packet queue | `utils/spsc_overwrite_queue.h` | head, tail, slots, reset position and version | `push`, `pop`, `clear_from_producer`, `clear_from_consumer` |
| timers | `utils/timer_pack.h`, `timers.h` | per timer: deadline, active, disabled | `start`, `stop`, `is_expired`, `get_next_expiration` |
| state machine framework | `utils/afsm.h` | current and previous state, whether a call is in progress | `run`, `change_state`, and the callbacks of states and interceptors they call |
| data objects | `data_objects.h`, `utils/dobj_utils.*` | none | units and layouts, limits of a profile, matching, the forms of a request |
| shared state | `port.h`, `messages.h`, `utils/atomic_bits.h` | the flags and buffers of all parts | messages between the parts |
| HAL and registers | `drivers/*_hal_esp32.*`, `fusb302_regs.h`, `pd_log.h` | the chip | I2C, GPIO, logging |

### How they interact

`Task::tick()` sends one `MsgSysUpdate` to TC, PE and PRL in this order; DPM is called by
PE. PE and PRL talk by messages, which are direct calls, and by flags and buffers in `Port`,
all within the tick. The driver is another thread: the stack calls it by `req_...`
functions, each of which fills a call slot and notifies the driver's task; the
driver answers by emptying the slot, by `tcpc_tx_status`, by pushing packets into
the queue, and by `port.wakeup()`, which sets an event of the loop. Hard resets of
the partner enter PRL directly from the driver.

### What is hard about it

* The loop is re-entered: by nested interrupts, by threads, and by its own handlers.
* The driver preempts a tick anywhere; what PRL read of it may be old a line later.
* A message received at the wrong moment discards one being sent, which may be in
  PE's flag, in TCH, in PRL_Tx or in the driver, and has to be reported exactly once.
* Transmissions fail and are retried; GoodCRC gets lost and messages are repeated;
  message ids wrap at 8 and restart at resets.
* Chunked messages of both directions share PRL_Tx and the buffers.
* A machine that postpones its work relies on somebody to wake the loop up again.
* The queue is read while it is overwritten and cleared.
* The application writes the trigger field by field, with no lock, while PE builds a
  request from it; the answer of the source comes later, and the list it was built from
  may be another by then.
* The driver has one comparator for two CC lines and three users of it, and each of its
  accesses to the chip may fail.
* A state's `on_enter` may go elsewhere before all its interceptors have been entered.

## 2. The modules

| module | models | built on |
|---|---|---|
| `Task` | the event loop, one access to an atomic per step | |
| `TaskProofs` | its invariants, proved | `Task`, TLAPS |
| `Prl` | the five machines of PRL, one `run()` per action | |
| `PrlSystem` | PRL with PE, the driver and the port partner around it | `Prl` |
| `PrlProofs` | its types, the ownership of PRL_Tx, the chunks, the order of messages, sleep and the reports, proved | `PrlSystem`, TLAPS |
| `Pe` | the policy engine over an abstract PRL, with the application's requests | |
| `PeProofs` | its types, EPR mode and the refresh timers, proved | `Pe`, TLAPS |
| `Mailbox` | what a call slot promises | |
| `LeapSync` | the call slot, one access to an atomic per step | `Mailbox` (refined) |
| `LossyFifo` | what the packet queue promises | |
| `SpscQueue` | the packet queue, one access to an atomic per step | `LossyFifo` (refined) |
| `LockFreeProofs` | the invariants of slot and queue and both refinements, proved | `LeapSync`, `SpscQueue`, TLAPS |
| `Tc` | cable detection as it sees the driver, and the cable | |
| `Fusb302` | the driver under it: VBUS, the meter and the polarity with their registers | `Tc` |
| `CableProofs` | types, the comparator, the debounce and the line found, proved | `Fusb302`, TLAPS |
| `Lifecycle` | what the framework promises its callbacks | |
| `Afsm` | `run()` and `change_state()`, one callback per step | `Lifecycle` (refined) |
| `MCAfsm` | three states with 0, 1 and 2 interceptors | `Afsm` |
| `AfsmProofs` | its invariants and the refinement, proved | `Afsm`, TLAPS |
| `DataObjects` | profiles, limits, matching, requests and the validation of a list | |
| `Dpm` | the trigger, read and written field by field, and the life of a request in PE | `DataObjects` |
| `MCDpm` | lists of profiles and calls for it | `Dpm` |
| `DpmProofs` | types, that requests are offered and wanted, and the last call, proved | `Dpm`, TLAPS |
| `Deadlines` | what the timers promise | |
| `TimerPack` | the virtual timers over a wrapping clock, with the tick and the driver's one-shot timer | `Deadlines` (refined) |
| `TimerProofs` | its arithmetic, its invariants and the refinement, proved | `TimerPack`, TLAPS |

**Task.** `event_group` and the two guard flags `is_in_tick`, `has_deferred` are the
atomics of `Task`; `pc` is the place of each context in `start()` and `dispatch()`,
`got` what its tick took; `soft`, `changed` and `hw` are the nearest deadline of
`TimerPack`, its `timers_changed` and the driver's one-shot timer. Contexts are nested interrupts
(`Nested`: a context runs only while no higher one is active, and one that preempts
runs to its end) or threads (any interleaving). Each step of `dispatch()` between two
accesses to `tick_guard_flags` or `event_group` is an action. The handlers of a tick
appear by what they do to the loop: they may call `wakeup()` themselves and start or
stop timers.

**Prl.** `loop.at` says whose turn it is within the tick: PE, then `HR`, `Tx`, `Rx`,
`RCH`, `TCH`, `Tx`, `TCH`, `TCH`, `RCH` (operator `After`, the calls of
`PRL_EventListener::on_receive`). An action is one `run()` of one machine, with the
states it enters and leaves on the way; a state that always leaves itself in
`on_enter_state()` has no value in `prl`. A message is a record of its kind (`ctl`
stands for every message that fits in a chunk, `ext` for a chunked one, `req` for a
chunk request, `ping` and `soft` for the two with a special treatment), chunk number
and id; `serial` numbers are history and no step depends on them. `flags` is the set
of the flags that are set, `status` is `tcpc_tx_status`. What PE does on a report
(restart after an error, `Soft_Reset`, waiting for another report) is in the `Hears...`
operators.

**PrlSystem.** PE takes its turn before PRL: it sends replies and messages of its own,
one at a time, begins an AMS, restarts PRL, asks for hard resets. The driver fills
`tcpc`: reception being switched, a transmission on air, the CC level, the queue of
packets. The partner sends anything at any moment and repeats messages. `Preemptive`
lets the driver run inside a tick; without it the driver runs between ticks, which is
what `Fusb302Rtos::task()` does when the loop is run by `port.wakeup()` in its own
thread.

**Pe.** `port` holds PE's state and its part of `Port`: `flags` are the `PE_FLAG`s that
are set, `requests` is `dpm_requests`, `active` is `active_dpm_request`, `resets` is
`hard_reset_counter`, `timers` says of each timer of PE whether it is off, running or
expired, `msg` is the kind of the message in `rx_emsg`. `caps` and the two `rdo_...`
keep what PE tells apart of them: the kind of the source's list and of the profile
(the first one, a PPS one, one above position 7). `from_caps` is the one use of
`get_previous_state_id()`. `prl`, `hr` and `sending` are PRL as PE sees it: off, asked to
restart or running; what became of a hard reset; a message on its way (`is_prl_busy()`).
A turn of PE is one `run()` of its state, with the states entered and left on the way
(`Goto`: `Exit`, then `Enter`; states that leave themselves at once, like
`PE_SNK_Evaluate_Capability`, have no value). A turn of PRL follows, and may report that
the message is sent, was discarded, failed, and hand up a message of the source, in the
combinations PRL has. `wanted` is DPM's trigger; the application calls `trigger_...` at
any moment, between the turns too. `Tidy` drops what is not read again: it keeps equal
states equal. A message comes in one piece, so the one error PRL reports is
`TCH_SEND_FAIL`, and PE answers it by a soft reset unless the state forwards it
(`HearsError`, `pe.cpp:1637`). What the code does about errors of chunks is left out, with the
two flags that serve nothing else in PE, `AMS_FIRST_MSG_SENT` and
`DO_SOFT_RESET_ON_UNSUPPORTED`; `AMS_ACTIVE`, by which PRL knows that an AMS begins, is in
`PrlSystem`. Messages of revision 3.0 are assumed, and the DPM that does not ask to
wait in `PE_SNK_Transition_to_default`.

**Tc, Fusb302.** One action of `Tc` is one `run()` of TC. `scan` and `set_polarity` are
the slots of those two calls, `timer` the one timer both timeouts share. The cable is
plugged in either way up, pulled, and its source switches VBUS on and off. `Fusb302`
puts the driver's task under it: `meter` is `meter_state`, `active_cc` the slot
`sync_active_cc`, `sw` the registers Switches0 and Switches1 and `meter_sw0_backup`. One
action is one state of `meter_tick()` or one job of `handle_tcpc_calls()`; TC and PRL run
between any two of them. An access that fails ends the action where the code returns,
with what was done until then (`AccessFails`, `SetPolarityFails`).

**Afsm.** `current_state_id` and `previous_state_id` are the members of `fsm`. The code
walks tables of function pointers, those of the interceptors first and the state's own
last; `at` and `element` are the table being walked and the place in it, so `is_busy` of
the code is `at # "idle"`. One action is a call from outside or one callback with what
`execute_run`, `execute_enter` or `execute_exit` does about its result. A callback may
return any id: a state, its own, none, or one that does not exist. `entered` counts for
each callback how often it was entered without being left; only properties and the
refinement read it, and `left`. Two results of `on_enter` are assumed away, which no
state of the stack returns (see *Disagreements*).

**DataObjects, Dpm.** A profile is a record of the fields of its data object in the units
of the object (50 mV, 10 mA, 1 W, ...), so that conversions round as they do in the code.
In `Dpm` the application's thread writes the members `mv`, `ma`, `variant`, `position`
and `match_type` one by one, in the order of the source, and then looks at the contract
and sets the request; PE's thread reads them one by one in `get_request_data_object()`,
`match_type` twice. `scan.at` is the place in that function. `pe` and `port` are what of
PE a request goes through: the list it is built from (kept, cut at position 7, refused),
the answers, Ready with what makes PE ask again, the entry to and exit from EPR mode and
the resets. The other states of PE lead from and to these and are in `Pe`, where a list
and a request are values of a small set instead. `Wanted` is what `dpm.h:53-73` says of a
trigger, computed by itself: the current of an EPR AVS profile from its power, in
milliamperes (`GivenMa`), where the code's own arithmetic is `MaLimit` and `match_limits`.
`Agrees` compares the two, and excepts by name what the code gets wrong for EPR AVS.
`memo` is history: whether nobody wrote since the scan began (`fresh`), and why the
contract may differ from the last call (`excuse`).

**TimerPack.** `clock` is what `get_time_func()` returns, `now` what the stack saw of
it last; `expire_at`, `active`, `disabled` and `timers_changed` are the fields of
`TimerPack`. A tick is the span between its first and its last access to the timers:
`TickTimer` or `TickWakeup`, any operations of the handlers, `TickEnd` with its
`rearm()`. The clock may move within a tick and wraps. The driver supports `rearm()` or
fires at each step of the clock.

**LeapSync, SpscQueue.** One action per atomic access, with the plain accesses between
two of them. A slot half written reads as `Torn`. The names every module has carry the
prefix `Slot` in `LeapSync`, as one module proves about both.

## 3. The runs

`pass` runs explore their instance to the end. Each property has a mutant: a second
version of one definition, in the same module and marked *Wrong*, that breaks it.

| run | module | what it shows | bounds |
|---|---|---|---|
| `MCTask` | Task | ticks exclude each other; no event and no timer is forgotten; every event gets a tick, unless the setup left it deferred | 3 nested contexts |
| `MCPrl` | PrlSystem | messages arrive in order, once and with no chunk left out; reports to PE are true, and about its latest message | 2 messages of PE, 2 of the partner, 2 chunks, ids modulo 4 |
| `MCPrlReset` | PrlSystem | nothing survives a soft or hard reset or a detach | 1 message of PE, 2 of the partner |
| `MCPrlFaults` | PrlSystem | preemption and failed transmissions with chunked messages | 2 and 2 messages, 3 chunks |
| `MCPrlLive` | PrlSystem | every message of PE and every hard reset is answered | 1 and 1 messages |
| `MCPe` | Pe | EPR mode, contract and requests agree; keep-alive and PPS refresh are armed in Ready; PE waits for a silent source in no state for ever, and a request of the application is settled | 21 kinds of messages, 3 profiles; 1 surprise (a message that answers nothing, a message that discards another, a hard reset of the partner, a cable pulled), 1 trigger, 1 failed transmission |
| `MCLeapSync` | LeapSync | the slots implement the mailbox, with and without a parameter, with and without resets; requests are served | 3 parameters |
| `MCQueue` | SpscQueue | the ring implements the lossy FIFO | 2 slots, 6 packets, 2 clears of the driver, any of the consumer |
| `MCTimers` | TimerPack | a timer fires when its period is over, never before, however the clock wraps | 2 timers, a clock of 4 bits (`Half = 8`), periods 2 and 5, 1 step of the clock in a tick |
| `MCCable` | Fusb302 | an attached port uses the cable's line; the comparator is where its users take it to be; VBUS is debounced; a source that stays is found, without one the port is detached | 2 CC levels, 1 reading wrong, 2 failed accesses, any number of measurements of PRL |
| `MCAfsm` | MCAfsm | a machine rests in whole states; callbacks are entered and left as a stack; the previous state is the one left last | a state with no interceptor, with one and with two, any result of any callback |
| `MCDpm` | MCDpm | a request is within an offered profile, it is the one wanted if nobody wrote meanwhile, and the last call is honoured, both but for the current of EPR AVS | 4 lists of up to 6 profiles (SPR up to position 4), 4 calls, 2 of them made; 2 events that are not the ordinary course |

Why the bounds are enough. In PRL an anomaly needs one message under way, one that
interrupts it and a tick order; two messages of each side give every pair, two chunks
a first and a last one, three (`MCPrlFaults`) one in the middle. Ids modulo 4 with
repetitions make an id meet an old one. In the queue two slots and six packets wrap
every slot twice, and two clears are one that the consumer has not seen yet and one
on top of it. A clock of 4 bits has room for a long and a short period on both sides
of the wrap and of the change of sign of a difference. One reading falsified is what
two scans are made to withstand, and two failing accesses are one in a scan and one in
the setting of the polarity, or both in one scan. Two calls of the application are an
older and a newer one, which is what a mixture or a loss takes, and two events put
a reset or a refusal before and after a request. The chains of transitions of `Afsm` have
no bound; its states are few enough for all of them. In `Pe` the answers of a source that
goes along are free (`Answers`), so one surprise comes at every point of every sequence up
to EPR mode; the safety properties were checked with two surprises as well (3.9 million states). The
PRL runs and the queue runs stop when the budget of messages is spent, so they do not
check for deadlock; the other runs do.

### Disagreements found

Places where the code and the words around it part, met while modelling. The runs in the
directory all pass; the first two items say how TLC shows the disagreement.

* `prl.cpp:994`: a transmission fails in the tick in which a message arrives. Discard_Message
  finds neither a chunk enqueued nor one in progress and reports nothing, TCH drops its
  message, and PE waits for a report that never comes (`prl.cpp:485`: "At this point,
  discard already reported by PRL_TX"). `RequestTracked` fails in `MCPrl.cfg` with
  `IdMod = 8`, `AutoRetry = FALSE`, `MaxPeMsgs = 1`, `PeMay = {"ctl"}`,
  `PartnerMay = {"ctl"}`, `MaxPartnerMsgs = 1` and `TxMayFail = TRUE`.
* `dpm.cpp:217`: a call of `trigger_...` between the reading of the trigger for the first
  request and its Accept is dropped: there is no contract yet, so no request is set, and
  the handshake does not look at the trigger again (`dpm.cpp:215`: "If not, the data will
  be used at the handshake."). `LastCallHonoured` excuses it (`missed`); with `TestContract`
  not setting that excuse TLC finds the run.
* `dpm.cpp:173`: the current for an EPR AVS profile is taken as `watts * 1000 / mv`, which
  is in amperes, and used in milliamperes (`match_limits`, `dobj_utils.cpp:120`, likewise):
  140 W at 28 V asks for 5 mA, and the "clamp to 5A" of `dpm.h:56-58` never takes effect.
  A profile whose lowest voltage is 0 divides by zero there. `DataObjects` computes as the
  code does, and assumes of valid lists that voltages are not 0 (`SoundPdo`).
  `RequestIsWanted` and `LastCallHonoured` compute as the comment says and make an exception
  of such a profile (`Agrees`): the current asked for is not compared, and when a current is
  named by the trigger, the profile may be passed over. Without the exception (`rdo = wanted`)
  TLC finds a request of 9 mA, rounded to 0, for 140 W at 15 V.
* `pe.cpp:236`: a list that is refused has replaced the valid one by then. Later requests
  (a trigger, the PPS refresh, a retry after Wait) are built from it, and the fallback to
  5 V (`dpm.cpp:203`: "Safe5V") is a fallback to whatever its first profile is.
  `RequestIsOffered` speaks of valid lists. The number of profiles is compared with the
  limit only after they were copied (`pe.cpp:1464`).
* `pe.cpp:336`: a request repeated after Wait (tSinkRequest) that is discarded by a message
  of the source leads to Ready and is not made again, unless DPM had asked for it
  (the excuse `interrupted` of `LastCallHonoured`).
* `pe.cpp:356`: `active_dpm_request` is cleared on entry to Ready only, so a reset during a
  request of DPM makes the first contract after it count as the answer to that request
  (`NewPowerLevelAccepted`).
* `afsm.h:407`: an `on_enter` that returns its state's own id has that state rolled back,
  and the machine then rests in it, left as it is; an interceptor whose `on_enter` returns
  an id that is ignored (`Self_Transition`, or none of the table) leaves the machine in a
  state entered in part. No state of the stack does either; `execute_enter` of
  `Afsm` leaves both out, and `RestsWhole` would fail with them. During a rollback
  `on_exit` sees the state before as the previous one, as that is noted afterwards.

* `task.cpp:71`: between threads an event is left in the group. A thread sets
  `IS_IN_TICK` and then `HAS_DEFERRED_CALL`; when the owner clears the first and tests
  the second in between, nobody runs a tick. `NoEventLeft` fails under `StartedSpec` with
  `N = 2`, `Nested = FALSE` and `RearmSupported = TRUE`, though `docs/README.md:107` calls
  the loop "suitable for both threaded and interrupt contexts". With a periodic timer the
  next tick picks the event up; with nested interrupts it does not happen (Section 4).
* `prl.cpp:770`: `PRL_Tx_Wait_for_Message_Request` returns early while reception is being
  enabled, before it looks at `START_OF_AMS`. When the message of that AMS is discarded in
  this state the flag stays, and the first message of the next AMS goes out without
  SinkTxOK (`prl.cpp:772`: "we need to wait"): `PeMay = {"ctl", "ams"}`,
  `PartnerMay = {"ctl"}`, two messages of each side and `Preemptive = FALSE` suffice.
* `task.cpp:93`: `start()` clears `IS_IN_TICK` and leaves `HAS_DEFERRED_CALL`, so an
  event of the driver during the setup waits for the next one (`task.cpp:68-70`: the
  loop "reruns ... to handle the deferred events"). `NoEventLeft` fails under `Spec` for
  this reason, and holds under `StartedSpec` between nested interrupts; `NoEventForgotten`
  is what is left of it.
* `task.cpp:18`: a tick that looked at the clock neither by a timer event nor by an
  operation that does may still stop timers and rearm the driver's timer from an old
  `now` ("The rest operations can use 'old' value safe."): the next timer then fires
  late by as much as the tick comes after the last look. `Punctual` fails with
  `Stale = TRUE` in `MCTimers.cfg`; the run assumes `Stale = FALSE`. In the stack the
  sink request timer is stopped that way when a message arrives in `PE_SNK_Ready`.
* `prl.cpp:1637`: with `Preemptive = TRUE` instead of the failure in the first item,
  `RequestTracked` fails once more, with both values of `AutoRetry`: GoodCRC and a message
  arrive between the runs of `Tx` and `Rx` ("ensure to react before discarding by RX").
  So `RequestTracked` is a property of the runs, which have neither, and of no theorem.
* `prl.cpp:331`: RCH follows the numbers of the chunks and nothing else. When the partner
  abandons a chunked message after its first chunk and begins another, of which the driver
  flushes chunk 0 (`fusb302_rtos.cpp:229`), the rest of the second is joined to the first.
  `MessagesWhole` therefore speaks of the numbers, and not of the message a chunk belongs to.
  A property that compares the `first` of the chunks fails in `MCPrl.cfg` with three messages
  of the partner, `PartnerMay = {"ext"}`, one message of PE and `PeMay = {"ctl"}`.
* `prl.cpp:267`: the chunk RCH asks for does not come, and tChunkSenderResponse ends in the
  tick in which PE has just enqueued a reply, 24 ms late. PE takes the error of RCH for
  one of its message and forgets that, and TCH sends it all the same. `OnlyAwaitedSent`
  fails so in `MCPrlReset.cfg` with `"ext"` added to `PartnerMay`; the run is without
  chunked messages. It fails with `Preemptive = TRUE`, too.
* A hard reset the driver has not begun when the cable is pulled stays pending over
  `PRL::init` (`prl.cpp:1448`) and is sent to the next source. If it begins between the
  runs of TCH and the second run of `Tx`, a chunk handed to TCH stays there for a tick and may
  be overwritten: `NoChunkOverwritten` fails with `PeMay = {"ctl", "hard"}`,
  `PartnerMay = {"ctl"}`, one message of PE and two of the partner, `Preemptive = TRUE` and
  `CanDetach = TRUE`; `MCPrlFaults` has no detach. The driver would have to be held up for as long
  as it takes to plug in another source.
* `fusb302_rtos.cpp:229` flushes the packets received when reception is switched on
  (`idriver.h:107`: "enable should flush the TX FIFO only"); `SetRxEnable` does so.
* `fusb302_rtos.cpp:638`: a failure to set the polarity is only logged, so a port may be
  attached with the old line, or none (`SetPolarityFails`).
* `pe.cpp:356`: `Accept` of a request clears `NEW_POWER_LEVEL`, a newer one included, so a
  trigger between a request of the application and its answer is lost like the one
  before the first Accept.
* `pe.cpp:748` and `:893`: the replies, and `PE_SNK_Soft_Reset` with its Accept, look at
  `TX_COMPLETE` only and stay when a message discards theirs, until PRL reports an error
  or the source resets ("No more checks - rely on standard error processing."). The
  liveness properties of `Pe` count this as left to the source (`LeftToSource`).
* `pe.cpp:437`: `Soft_Reset` of the partner between Accept and PS_RDY, then Reject or Wait
  for the new request, leads to Ready with a contract but without the report of the
  handshake to DPM (`HANDSHAKE_REPORTED` stays clear).
* `pe.cpp:245` and `:952`: capabilities that are not valid, and a `Soft_Reset` that is
  discarded, lead to Ready even with no contract.
* `pe.cpp:236`: capabilities that are not valid replace the valid ones before they are
  checked, and the PPS refresh, which looks the contracted position up in them, is not
  armed any more. `RefreshArmed` makes an exception for this case.
* `pe.cpp:128`: when RCH asks for a second chunk of an answer it stops tSenderResponse
  (`prl.cpp:267`) and starts it again only once that request is sent. If the request
  fails, PE gets `PROTOCOL_ERROR`, which it does not look at any more after its own message
  was marked as sent: `PE_SNK_Select_Capability` and `PE_SNK_EPR_Keep_Alive` wait on
  without a timer. Chunks are not in `Pe`; seen in the code.
* `prl.cpp:324`: RCH starts tSenderResponse for each chunk it waits for (`prl.cpp:266`: "Block PE timeout
  timer for multi-chunk responses"), also when PE has asked for nothing. Only a state that has
  asked stops it on exit, so after a chunked message in `PE_SNK_Ready` the timer runs down, and
  the next request finds it expired: `PE_SNK_Select_Capability` (`pe.cpp:393`) goes to a hard
  reset before the answer can come, unless GoodCRC is there by its next run and starts it anew. Seen
  in the code.
* `pe.cpp:1144`: `EPR_Mode` exit clears `IN_EPR_MODE` and leaves the EPR list in `source_caps`
  until SPR capabilities come. If an error of a chunk leads to `PE_SNK_Send_Soft_Reset`
  meanwhile and that is discarded, Ready takes up a request of DPM and may ask for a profile
  above position 7 in SPR mode (`pe.cpp:297` and `:315` look at the list and at the mode, each
  by itself). `EprConsistent` holds in `Pe` and by theorem as there are no such errors; seen in
  the code.
* `pe.cpp:406`: `PE_SNK_Transition_Sink` forwards errors to itself and never reads them
  ("Any PRL error at this stage should cause a hard reset."); its timer ends it.
* `pe.cpp:1189`: the BIST data object is parsed again a tick later, from a buffer the next
  message may have replaced ("it should not be corrupted in such a short time").
* `pe.cpp:829`: `hard_reset_counter` counts on over a detach; `init()` does not reset it.
* `spsc_overwrite_queue.h:54` subtracts a 32-bit tail from a 31-bit head: after 2^31
  packets an element may be delivered again. `:106`: what `clear_from_consumer()` drops
  comes back when a clear of the producer is still pending; the stack does not call it.

### Fairness

* *Task*: every step of `dispatch()`, and the end of `start()`, that is enabled again
  and again is taken (strong fairness: an interrupt that preempts a context disables
  its steps for a while). No interrupt or timer has to come.
* *PrlSystem*: ticks go on as long as there is a cause for one; the driver's task is
  scheduled again and again (strong fairness, since in the model it may have to find
  the loop at rest); the partner receives what is sent, a timer that runs expires, and
  a source that is asked again and again grants SinkTxOK. Failures of a transmission
  and messages of the partner are never required.
* *Pe*: turns alternate for ever, as PE and PRL run in every tick; what is sent is reported
  in the end, hard resets and BIST requests end, and a timer that is started again and
  again expires (`SF`, since it may be stopped in between). The source owes nothing: from
  some moment on it may be silent (`SourceFallsSilent`), and the liveness properties are
  about the time after. The application, the user and failures are never required. That a
  message is always reported is `RequestAnswered` of `PrlSystem`, without the failed
  transmission of the first disagreement above, which leaves PE with no report and no timer.
* *TimerPack*: none is needed: `Deadlines` bounds how late a timer may be noticed, and a
  pending timer event outside a tick is served before the clock moves on.
* *LeapSync*: both threads run on (`WF`); no producer has to call.
* *Fusb302*: TC runs in every tick, the driver's task takes its jobs and steps of the meter,
  its interrupts are served and timers end. Accesses fail `MaxFailures` times at most. The
  user and the source owe nothing, and PRL may ask for measurements for ever.
* *Afsm* and *Dpm* state safety only: `run()` is called by the tick, and whether the source
  answers is a matter of `Pe`.

### Assumptions about the surroundings

* A source waits at least tCCDebounce (100 ms) before it applies VBUS; by then the
  driver, the pause between two scans and a run of TC have come to an end (`Settled`
  in `Tc`). VBUS goes when the cable is pulled (see the TODO at `tc.cpp:138`).
* The chip sends GoodCRC by itself, and the partner takes a message unless its id is
  the one it has seen last.
* Memory is sequentially consistent. The orders given to the atomics are weaker; on a
  processor that reorders a plain store before the `fetch_add` in front of it,
  `spsc_overwrite_queue::push` would need a fence.

## 4. Proofs

Each theorem says `Spec => ...` for an invariant, an action property or a refinement, some
under a hypothesis on the constants; the argument is an inductive invariant, with a lemma
per action or per machine, which TLC checked on an instance before it was proved.

`TaskProofs` proves, for every number of contexts and both kinds of timer,

* `TypeCorrect`, the type invariant;
* `TickIsExclusive`: at most one context is inside `tick()`. `TickExclusive` is not
  inductive by itself; the strengthening ties `IS_IN_TICK` to the one context that is
  between `Enter` and `Clear`, or in `start()`;
* `NothingForgotten`: an event in the group implies somebody bound to look at it: a
  context that has set it and not tried the guard yet, a deferred call noted, the owner
  of the guard, or `start()`;
* `TimersKept`: a running timer has something behind it that will look at it: the
  driver's timer no later than the deadline, the timer event, or a tick that has yet to
  arm the driver's timer;
* `NothingLeft`: with nested interrupts and once `start()` is over, nothing is left
  behind when no context is active. It adds that an interrupt between its two accesses
  to the flags has everything below it suspended.

`PrlProofs` proves, for any number of chunks, ids, retries and messages, both kinds of
driver, and whatever PE and the partner may do,

* `TypeCorrect`. The invariant ties the number of the chunk RCH expects to the chunks it
  has (`ChunkInv`): the message put together never outgrows its buffer, in whatever order
  the chunks of a partner come;
* `OneOwner`: `TxHasOneOwner`. By itself it is not inductive, as TCH starts to send when
  RCH waits. `OwnerInv` adds that a message on its way to RCH keeps TCH idle, and that
  during TCH's turns such a message and one of PE's are never both waiting unless RCH is
  busy already;
* `ChunksAreRead`: `NoChunkOverwritten`, if hard resets end. `RouteInv` follows the message
  in `rx_chunk` through a tick: it is for TCH or for RCH, never both, and while it waits
  for TCH the turn is one from which TCH gets to read it. `TurnInv` and `ResetInv` say when
  a turn belongs to HR instead;
* `MessagesAreWhole`: `MessagesWhole`, if hard resets end. `CollectInv` says that the chunks
  collected are numbered as their places; `AskInv` that RCH is not told of an error while
  the chunk it asked for is already there;
* `InOrder`: `MessagesInOrder`, if hard resets end and repetitions are known. The messages of
  the partner still to come are newer than the one in `rx_chunk` (`NewerInv`), or repeat
  it and carry the id stored; those in the driver's queue are in order (`QueueInv`), none
  is newer than what the partner sent last (`LastInv`); PE has heard no message that is
  newer than `rx_chunk` (`HeardInv`), and the chunks being collected began after all it
  has heard (`FirstInv`, `BegunInv`);
* `NothingIsPostponed`: `NothingPostponed`, if hard resets end. `BusyInv` ties the state of
  `Tx` to the driver's result and to the machine it works for, `ReplyInv` says when PE may
  have enqueued a message and when RCH owes an answer to one it was handed, and `WakeInv`
  that whatever a machine leaves for the next tick has a wakeup behind it;
* `SentIsOfTheLatest`: `SentIsAwaited`, if hard resets end. PE may have forgotten the message
  TCH still sends (the disagreement at `prl.cpp:267`), and must not take its report for that
  of a later one. `AwaitInv` says that while TCH is at work `tx_chunk` is a chunk of the
  message in `tx_emsg`, and that this is PE's latest. It needs `ReplyInv`: what keeps PE from
  enqueuing meanwhile is `is_prl_busy()` in `PE_SNK_Ready`, and for a reply or an Accept that
  no message gets past TCH to PE.

The hypotheses have names:

* `HardResetsEnd`: the cable is not pulled, or PE asks for no hard resets of its own; else
  the driver may still have one to send for the next source. Without it
  `NoChunkOverwritten` and `NothingPostponed` fail (`MCPrlFaults.cfg` with 2 chunks,
  `PeMay = {"ctl", "hard"}`, one message of PE and `CanDetach = TRUE`). TLC finds nothing
  against `MessagesInOrder` and `MessagesWhole` in that instance, nor against `SentIsAwaited`
  in the part of it that it gets through in five minutes, but their proofs build on
  `RouteInv`.
* `RepeatsAreKnown`: with a partner that repeats messages nothing restarts PRL, since that
  makes it forget the id of the last one, and a message repeated across a restart is a new
  one to it. `MessagesInOrder` fails with a repetition and either a soft reset, a hard
  reset of PE or the cable pulled. A hard reset of the partner forgets on both sides; it
  is excluded with the others though TLC finds nothing against it.

`PeProofs` proves, for any number of surprises, calls and failures, and for a source that
sends any message at any moment,

* `TypeCorrect`; `EprIsConsistent`: `EprConsistent`; `RefreshIsArmed`: `RefreshArmed`;
* `OneReport`: of each message PE has one outcome noted at most, and none while it is on
  its way.

One `run()` of PE may enter several states, and each relies on what the one before left:
`MayEnter(s, p)` is what state `s` relies on when it is entered, and the lemmas show that
whoever goes to `s` provides it, and that on it `Enter` ends in a state that is `Sound`.
`EprConsistent` is not inductive: `EprInv` adds that the list kept has profiles above
position 7 in EPR mode only, unless PE is in one of the states that wait for another list,
and that EPR mode is entered from a contract. A report of PRL makes PE move on, so which
flags may be set in which state (`VerdictInv`) comes first.

`LockFreeProofs` proves, for any capacity of the queue, any number of packets below the
wrap of the 31-bit counter (`NoWrap`) and any number of clears,

* `TypeCorrect`;
* `QueueImplements`: `Spec => Implements`. The invariant says that every position not
  older than `Low` (the oldest one the producer leaves alone) holds its own element, that
  what the consumer has read is the element of its position unless the recheck will
  notice (`ReadInv`), and that a clear the consumer has not seen yet is ahead of it while it
  is in `pop()`. The arithmetic behind it: two positions less than `Cap` apart have
  different slots (`SlotsDiffer`).

And of the call slot, for every set of parameters, with or without a storage and with or
without resets,

* `SlotTypeCorrect`; `NoneForgotten`: a request waiting has a notification behind it;
* `Refinement`: `SlotSpec => ImplementsMailbox`. The inductive invariant has three parts
  beyond types: `SlotInv` (the state of the slot and the places of the two threads fit),
  `CopyInv` (a parameter the consumer is about to confirm was stored whole) and
  `KickInv` (a notification is pending or on its way).

`TimerProofs` proves, for any number of timers, any range of the clock, any periods below
half of it and any length of a tick below a quarter of it, unless `Stale`,

* `TypeCorrect` (with `Stale` as well);
* `TimersPunctual`: a timer that is due is noticed within the time of two ticks;
* `TimersImplement`: `Spec => Implements`, the timers over a clock that wraps do what those
  of `Deadlines` do over one that does not. The invariant bounds how late a timer may be
  (`LateInv`), how far the driver's timer may be behind it (`AlarmInv`), and how old the
  time is by which it gets armed (`SeenInv`). The lemmas on `TimeDiff` are those the
  cast of a difference of two unsigned times relies on: it is the true difference as long
  as that is less than half the range.

`AfsmProofs` proves, for any set of states and any number of interceptors of each,
`TypeCorrect`, `RestsInWholeStates`, `PreviousIsTheOneLeft` and `Implementation`
(`Spec => ImplementsLifecycle`). The inductive invariant says which elements are entered
at each place of a walk: all of the current state during `run`, those below `element`
during `enter`, those up to it during `exit` and `rollback`, and none of any other state.

`CableProofs` proves, for all levels of a CC line and any number of faults, `TypeCorrect`;
`ComparatorIsInPlace`, strengthened by what the backup of the switches holds while a scan
has the comparator; `VbusIsDebounced`: in Detached with the timer running or due, VBUS
was seen in every run since; and `RightLineFound`: `RightLine`, if one reading at most is
falsified (`MaxMisreads <= 1`; with two, TC compares two scans that are wrong in the same
way, and the property fails). `LineInv` says that of the two scans compared one is what the cable shows, and
that a wrong one has used the falsified reading up; `JobsInv`, that TC has one call with the
driver at a time; `QuietInv`, that no reading of an earlier cable is left when a source
applies VBUS.

`DpmProofs` proves, for all lists of profiles, all calls and any number of them,

* `TypeCorrect`;
* `ScanStaysInProfile`: at every read of the trigger the profile under consideration
  exists, and the voltage and the current already chosen are its own, whatever was
  written meanwhile;
* `RequestsAreOffered`: what is sent of a valid list is within the profile it names, and
  outside EPR mode is not for one above position 7. The invariant adds that every list
  kept is made of sound profiles and fits the mode; lemmas bound the clamped voltage, the
  current and the power, and show that rounding to the units of a request stays within;
* `RequestsAreWanted`: `RequestIsWanted`, so but for the current of EPR AVS. `FreshInv` follows
  the scan, as long as nobody writes the trigger: no profile before the one at hand matches
  by the code's arithmetic (`Progress`), and what is chosen so far is the voltage nearest and
  the current the code allows. So the request is `Made`, the one of the code. `MadeAgrees`
  compares it with `Wanted`: for every profile but an EPR AVS one the two ways of computing
  the current are the same, and for those the code's is the smaller, so a profile that
  matches suits (`MatchingSuits`);
* `LastCallIsHonoured`: `LastCallHonoured`. `HonourInv` says that a trigger written since the
  request under way was begun is still to be taken, or an excuse is noted.

The proofs assume only what the modules' named `ASSUME`s say of the constants, and the
hypotheses named above. TLC has checked every invariant first, and evaluates the assumptions in each run.

Out of the prover's reach, and checked by TLC only: liveness, `ENABLED`, and what a
recursive definition computes for every input. Three safety properties of PRL are checked by
TLC only because they do not hold for all constants: `RequestTracked`, which fails with
failed transmissions and with preemption, `OnlyAwaitedSent` (see the
disagreements), and `SentIsAccepted`, for which an id must not come round to the one the
partner has seen last: messages discarded in a row bring it there (`MCPrl.cfg` with
`IdMod = 2`, four messages of PE and three of the partner, `"ctl"` only). No theorem
speaks of the queue once its counter has wrapped.

## 5. Not modelled

* Of PE: chunks, so errors of chunked messages with `AMS_FIRST_MSG_SENT` and
  `DO_SOFT_RESET_ON_UNSUPPORTED`, and the timer a chunked answer stops (`prl.cpp:267`; `Settles`
  is about answers in one piece); revisions before 3.0, the wait for DPM in
  `PE_SNK_Transition_to_default`, and a message PRL never reports on. The composition of
  `Pe` with the machines of PRL: each is checked against what the other does, by itself.
* Of DPM: the events it publishes, and the list of the sink's own capabilities.
* Of the data objects: the places of the bits, the sink's profiles, status and version
  messages.
* Of the driver: the format of the FIFOs, the BIST modes, the set-up of the chip (a failure
  of which is never retried) and interrupts that are served late, so that the end of one
  transmission could pass for that of the next (`fusb302_rtos.cpp:240`). The flush of
  `fusb302_rtos.cpp:229` is modelled; no property speaks of the messages it loses.
* The HAL and logging; registers but for the switches of the comparator.

## 6. Plan

In this order; what is done is marked.

1. (done) `Task`: the loop everything relies on; its proofs.
2. (done) `Prl`, `PrlSystem`: the core of the stack; types, the
   ownership of PRL_Tx, whole messages, their order, sleep and true reports proved.
3. (done) `LeapSync` with `Mailbox`: the calls to the driver; the refinement proved.
4. (done) `SpscQueue` with `LossyFifo`; `Tc` and `Fusb302` with proofs.
   (The queue below the wrap of its counter; beyond it the model has no refinement mapping.)
5. (done) `Pe`: the policy engine over an abstract PRL (a message is answered with sent,
   discarded or error) with the application's requests. `EprConsistent` and
   `RefreshArmed` proved. To come: the errors of chunked messages and the older revisions.
6. (done) `TimerPack` with `Deadlines` and `Afsm` with `Lifecycle`, both with proofs.
7. (done) `DataObjects`, `Dpm` with proofs. To come: the events it is told of, in the order
   of a handshake, and the wait before a restart.
8. Compositions: PE with PRL for resets; PRL as an implementation of the abstract
   message service that `Pe` assumes.
