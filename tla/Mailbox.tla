------------------------------ MODULE Mailbox ------------------------------
(***************************************************************************)
(* What LeapSync (src/src/pd/utils/leapsync.h) promises to the two sides   *)
(* of an asynchronous driver call: a slot for one request, which a newer   *)
(* request replaces, with enqueue(), get_job() and job_finish() as atomic  *)
(* operations.  LeapSync implements it without a lock.                     *)
(***************************************************************************)
CONSTANTS Params,  \* parameters of a call
          None     \* no parameter

VARIABLES slot,    \* "idle", "posted": waiting, "taken": being executed
          param,   \* of the request waiting
          job,     \* what the consumer executes, None between two jobs
          resettable  \* the consumer may reset() the slot

Init == slot = "idle" /\ param = None /\ job = None /\ resettable \in BOOLEAN

Enqueue(p) == slot' = "posted" /\ param' = p /\ UNCHANGED job

\* The request is withdrawn, by reset() or to be replaced.
Withdraw == slot' = "idle" /\ param' = None /\ UNCHANGED job

GetJob ==
    /\ slot = "posted" /\ job = None
    /\ slot' = "taken" /\ job' = param /\ param' = None

\* A request that came in the meantime stays.
JobFinish ==
    /\ job # None
    /\ job' = None
    /\ slot' = IF slot = "taken" THEN "idle" ELSE slot
    /\ UNCHANGED param

\* reset() by the consumer, which gives up its job and drops the request.
Abandon == resettable /\ slot' = "idle" /\ param' = None /\ job' = None

Next ==
    /\ Withdraw \/ GetJob \/ JobFinish \/ Abandon \/ \E p \in Params : Enqueue(p)
    /\ UNCHANGED resettable

Spec == Init /\ [][Next]_<<slot, param, job, resettable>>
=============================================================================
