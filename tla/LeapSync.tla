------------------------------ MODULE LeapSync ------------------------------
(***************************************************************************)
(* src/src/pd/utils/leapsync.h: the lock-free slot through which the       *)
(* event loop (producer) passes a driver call to the driver's task         *)
(* (consumer), as used in src/src/pd/drivers/fusb302_rtos.h.  Every action *)
(* is one atomic access to `state`, or one access to the plain `storage`.  *)
(* The names common to all modules have the prefix Slot here, since the    *)
(* proofs are about this module and SpscQueue together.                    *)
(***************************************************************************)
CONSTANTS
    Params,  \* ParamType
    NoParam  \* no value

ASSUME NoParamAssumption == NoParam \notin Params
ASSUME ParamsAssumption == Params # {}

VARIABLES
    call,     \* the call the slot is for: "set", with a parameter (set_polarity,
              \* rx_enable, set_bist); "send", without (hr_send); "measure", without,
              \* and reset() by set_polarity (scan_cc, active_cc)
    state,    \* LeapSync::state
    storage,  \* LeapSync::storage
    ppc,      \* producer: "idle", "store", "commit" or "kick"
    arg,      \* the parameter of the enqueue() in progress
    cpc,      \* consumer: "wait", "get", "read", "confirm" or "work"
    tmp,      \* get_job()'s copy of storage
    job,      \* what the consumer executes
    kicked    \* MSK_API_CALL is set in the driver's task notification

slotVars == <<call, state, storage, ppc, arg, cpc, tmp, job, kicked>>
producerVars == <<ppc, arg>>
consumerVars == <<cpc, tmp, job>>

Values == Params \cup {NoParam}

SlotTypeOK ==
    /\ call \in {"set", "send", "measure"}
    /\ state \in {"IDLE", "ENQUEUED", "WORKING"}
    /\ storage \in Params
    /\ ppc \in {"idle", "store", "commit", "kick"}
    /\ arg \in Params
    /\ cpc \in {"wait", "get", "read", "confirm", "work"}
    /\ tmp \in Params
    /\ job \in Values
    /\ kicked \in BOOLEAN

SlotInit ==
    /\ call \in {"set", "send", "measure"}
    /\ state = "IDLE" /\ storage \in Params
    /\ ppc = "idle" /\ arg \in Params
    /\ cpc = "wait" /\ tmp \in Params /\ job = NoParam
    /\ kicked = FALSE

-----------------------------------------------------------------------------
(* Producer: req_...() is enqueue() and kick_task() *)

\* state.store(IDLE): a request waiting or executed is withdrawn.
EnqueueBegin ==
    /\ call = "set" /\ ppc = "idle"
    /\ \E p \in Params : arg' = p
    /\ state' = "IDLE"
    /\ ppc' = "store"
    /\ UNCHANGED <<call, storage, consumerVars, kicked>>

\* storage.value = params
EnqueueStore ==
    /\ ppc = "store"
    /\ storage' = arg
    /\ ppc' = "commit"
    /\ UNCHANGED <<call, state, arg, consumerVars, kicked>>

\* state.store(ENQUEUED)
EnqueueCommit ==
    /\ ppc = "commit"
    /\ state' = "ENQUEUED"
    /\ ppc' = "kick"
    /\ UNCHANGED <<call, storage, arg, consumerVars, kicked>>

EnqueueVoid ==
    /\ call # "set" /\ ppc = "idle"
    /\ state' = "ENQUEUED"
    /\ ppc' = "kick"
    /\ UNCHANGED <<call, storage, arg, consumerVars, kicked>>

\* Wrong: a task that is not waiting is not notified.
KickIfWaiting ==
    /\ ppc = "kick"
    /\ kicked' = (kicked \/ cpc = "wait")
    /\ ppc' = "idle"
    /\ UNCHANGED <<call, state, storage, arg, consumerVars>>

\* kick_task(MSK_API_CALL)
Kick ==
    /\ ppc = "kick"
    /\ kicked' = TRUE
    /\ ppc' = "idle"
    /\ UNCHANGED <<call, state, storage, arg, consumerVars>>

-----------------------------------------------------------------------------
(* Consumer: handle_tcpc_calls(), once per notification *)

TakeNotification ==
    /\ cpc = "wait" /\ kicked
    /\ kicked' = FALSE
    /\ cpc' = "get"
    /\ UNCHANGED <<call, state, storage, producerVars, tmp, job>>

\* compare_exchange(ENQUEUED, WORKING)
GetJobClaim ==
    /\ cpc = "get" /\ call = "set"
    /\ state' = IF state = "ENQUEUED" THEN "WORKING" ELSE state
    /\ cpc' = IF state = "ENQUEUED" THEN "read" ELSE "wait"
    /\ UNCHANGED <<call, storage, producerVars, tmp, job, kicked>>

\* T tmp = storage.value
GetJobRead ==
    /\ cpc = "read"
    /\ tmp' = storage
    /\ cpc' = "confirm"
    /\ UNCHANGED <<call, state, storage, producerVars, job, kicked>>

\* Wrong: the copy is taken without looking at the state again.
GetJobUnchecked ==
    /\ cpc = "confirm"
    /\ job' = tmp
    /\ cpc' = "work"
    /\ UNCHANGED <<call, state, storage, producerVars, tmp, kicked>>

\* Wrong: get_job() tries again until the state is WORKING.
GetJobSpin ==
    /\ cpc = "confirm"
    /\ job' = IF state = "WORKING" THEN tmp ELSE job
    /\ cpc' = IF state = "WORKING" THEN "work" ELSE cpc
    /\ UNCHANGED <<call, state, storage, producerVars, tmp, kicked>>

\* The copy is good if the state has not changed since.
GetJobConfirm ==
    /\ cpc = "confirm"
    /\ job' = IF state = "WORKING" THEN tmp ELSE job
    /\ cpc' = IF state = "WORKING" THEN "work" ELSE "wait"
    /\ UNCHANGED <<call, state, storage, producerVars, tmp, kicked>>

\* Wrong: the job is started even if the slot is empty.
GetJobBlindly ==
    /\ cpc = "get" /\ call # "set"
    /\ state' = "WORKING"
    /\ job' = storage
    /\ cpc' = "work"
    /\ UNCHANGED <<call, storage, producerVars, tmp, kicked>>

GetJobVoid ==
    /\ cpc = "get" /\ call # "set"
    /\ state' = IF state = "ENQUEUED" THEN "WORKING" ELSE state
    /\ job' = IF state = "ENQUEUED" THEN storage ELSE job
    /\ cpc' = IF state = "ENQUEUED" THEN "work" ELSE "wait"
    /\ UNCHANGED <<call, storage, producerVars, tmp, kicked>>

\* Wrong: job_finish() stores IDLE whatever the producer did meanwhile.
JobFinishStore ==
    /\ cpc = "work"
    /\ state' = "IDLE"
    /\ job' = NoParam
    /\ cpc' = "wait"
    /\ UNCHANGED <<call, storage, producerVars, tmp, kicked>>

\* compare_exchange(WORKING, IDLE)
JobFinish ==
    /\ cpc = "work"
    /\ state' = IF state = "WORKING" THEN "IDLE" ELSE state
    /\ job' = NoParam
    /\ cpc' = "wait"
    /\ UNCHANGED <<call, storage, producerVars, tmp, kicked>>

\* Wrong: the storage is wiped with the state.
ResetStorage ==
    /\ call = "measure" /\ cpc \in {"wait", "work"}
    /\ state' = "IDLE" /\ storage' = NoParam
    /\ job' = NoParam
    /\ cpc' = "wait"
    /\ UNCHANGED <<call, producerVars, tmp, kicked>>

\* reset() of a measurement, waiting or running, in the consumer's thread.
Reset ==
    /\ call = "measure" /\ cpc \in {"wait", "work"}
    /\ state' = "IDLE"
    /\ job' = NoParam
    /\ cpc' = "wait"
    /\ UNCHANGED <<call, storage, producerVars, tmp, kicked>>

-----------------------------------------------------------------------------
Producer == EnqueueBegin \/ EnqueueStore \/ EnqueueCommit \/ EnqueueVoid \/ Kick
Consumer ==
    TakeNotification \/ GetJobClaim \/ GetJobRead \/ GetJobConfirm \/ GetJobVoid \/ JobFinish

SlotNext == Producer \/ Consumer \/ Reset

SlotSpec == SlotInit /\ [][SlotNext]_slotVars

\* The driver's task runs when it is notified, and ends its jobs.
FairSpec == SlotSpec /\ WF_slotVars(Consumer) /\ WF_slotVars(Kick)

-----------------------------------------------------------------------------
(* Properties *)

\* get_job() has claimed the request, but may still lose it to the producer.
Claimed == cpc \in {"read", "confirm"} /\ state = "WORKING"

slotBar == IF state = "ENQUEUED" \/ Claimed THEN "posted"
           ELSE IF state = "IDLE" THEN "idle" ELSE "taken"
paramBar == IF slotBar = "posted" THEN storage ELSE NoParam

\* LeapSync behaves like the atomic mailbox: what the consumer executes is the
\* parameter of one complete enqueue(), the latest, and job_finish() never
\* wipes out a request that came in during the job.
Abstract == INSTANCE Mailbox WITH None <- NoParam, slot <- slotBar, param <- paramBar,
                                  resettable <- (call = "measure")
ImplementsMailbox == Abstract!Spec

\* A request is not left in the slot with everybody at rest: the consumer has
\* a notification to take or is on its way.
NoJobForgotten ==
    state = "ENQUEUED" /\ ppc = "idle" /\ cpc = "wait" => kicked

\* Every request is executed, replaced or reset.
RequestServed == state = "ENQUEUED" ~> state # "ENQUEUED"
=============================================================================
