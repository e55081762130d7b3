------------------------------ MODULE QueuedJob ------------------------------
(***************************************************************************)
(* One TradingView job in render-worker mode, from the POST that creates   *)
(* it to its terminal status: the web process (JobService.createJob,       *)
(* cancelJob), the worker processes (processQueuedJob, _runBackgroundJob,  *)
(* _sendQueuedNotification, the heartbeat), the failure handlers of        *)
(* jobWorker.js, the reconciliation loop, and the BullMQ entry they share  *)
(* (external).  Every action ends at an await of the code.                 *)
(*                                                                         *)
(* _persistJob (get, then save) is one step of a worker: a terminal write  *)
(* that falls between the two is refused by the second as by the first.    *)
(* Callbacks are abstracted to an awaited step that may throw.             *)
(***************************************************************************)
EXTENDS JobRepository

CONSTANTS
    MaxAttempts,  \* JOB_QUEUE_ATTEMPTS
    FinalTries,   \* FINAL_FAILURE_MAX_ATTEMPTS
    MaxCancels,   \* bound: requests to cancel the job, 0 or 1
    MaxExpiries,  \* bound: terminal documents deleted an hour after createdAt
    StallPoints,  \* where a live worker may pause for longer than its lease
    LossPoints    \* where the answer of a failed renewal may reach a worker

VARIABLES
    pc,         \* per worker: the await processQueuedJob is at
    job,        \* per worker: the job object of _runBackgroundJob
    claimed,    \* per worker: claimAttempt of processQueuedJob, 0 when null
    lost,       \* per worker: claimLost / claimRenewalError
    renewal,    \* per worker: an unsuccessful renewClaim not yet handled
    entry,      \* the BullMQ job: absent, waiting, active, completed, failed
    made,       \* its attemptsMade
    lock,       \* the worker that holds its lock
    handlers,   \* 'failed' handlers that have not run yet
    create,     \* the request that creates the job; "done" is any answer
    cancel,     \* a request that cancels it: step, object written, answer
    sends,      \* notifications handed to the channels
    expiries    \* documents deleted by retention

repositoryVars == <<doc, leaseLive, localTerminal, faults>>
runVars        == <<pc, job, claimed, lost, renewal>>
queueVars      == <<entry, made, lock, handlers>>
webVars        == <<create, cancel, expiries>>
vars == <<repositoryVars, runVars, queueVars, webVars, sends>>

\* "running" and "overdue" are the analysis before and after the job's own
\* timeout has aborted the signal.
Executing == {"running", "overdue", "prepared", "ready", "sending", "sent",
              "delivered", "finally", "closing"}
Busy      == {"claimed", "loaded"} \cup Executing
Points    == {"idle", "taken", "closed"} \cup Busy

ASSUME QueuedJobAssumption ==
    /\ MaxAttempts \in Nat \ {0} /\ FinalTries \in Nat \ {0} /\ MaxExpiries \in Nat
    /\ MaxCancels \in 0..1
    /\ StallPoints \subseteq Points \cup {"handler"} /\ LossPoints \subseteq Points

Handler == [worker : Workers, attempt : Nat, final : BOOLEAN, tries : 1..FinalTries]

Cancelled(j) == j.status = "cancelled"

NoRequest == [step |-> "idle", copy |-> Absent, code |-> "none", status |-> "absent"]

RunTypeOK ==
    /\ pc \in [Workers -> Points]
    /\ job \in [Workers -> Job \cup {Absent}]
    /\ \A w \in Workers : pc[w] \in Busy => job[w] \in Job
    /\ claimed \in [Workers -> Nat]
    /\ lost \in [Workers -> {"no", "lost", "error"}]
    /\ renewal \in [Workers -> {"none", "lost", "error"}]

QueueTypeOK ==
    /\ entry \in {"absent", "waiting", "active", "completed", "failed"}
    /\ made \in 0..MaxAttempts
    /\ lock \in Workers \cup {Nobody}
    /\ handlers \subseteq Handler

CancelRequest ==
    [step   : {"idle", "read", "checked", "refused", "done"},
     copy   : Job \cup {Absent},
     code   : {"none", "success", "TERMINAL_JOB", "CANCEL_REJECTED", "error", "missing"},
     status : {"absent", "processing"} \cup TerminalStatuses]

WebTypeOK ==
    /\ create \in {"new", "saved", "failing", "discarding", "done"}
    /\ cancel \in CancelRequest
    /\ expiries \in 0..MaxExpiries

TypeOK == RepositoryTypeOK /\ RunTypeOK /\ QueueTypeOK /\ WebTypeOK /\ sends \in Nat

Init ==
    /\ RepositoryInit
    /\ pc = [w \in Workers |-> "idle"]
    /\ job = [w \in Workers |-> Absent]
    /\ claimed = [w \in Workers |-> 0]
    /\ lost = [w \in Workers |-> "no"]
    /\ renewal = [w \in Workers |-> "none"]
    /\ entry = "absent" /\ made = 0 /\ lock = Nobody /\ handlers = {}
    /\ create = "new" /\ cancel = NoRequest
    /\ sends = 0 /\ expiries = 0

-----------------------------------------------------------------------------
(* The BullMQ entry (external).  add with a jobId that Redis still holds is *)
(* a no-op; completed and failed entries are retained.                      *)

Add == IF entry = "absent" THEN entry' = "waiting" /\ made' = 0 /\ UNCHANGED lock
                           ELSE UNCHANGED <<entry, made, lock>>

\* The delivery to w is over: w starts from nothing when it takes the next one.
Leave(w) ==
    /\ pc' = [pc EXCEPT ![w] = "idle"]
    /\ job' = [job EXCEPT ![w] = Absent]
    /\ claimed' = [claimed EXCEPT ![w] = 0]
    /\ lost' = [lost EXCEPT ![w] = "no"]
    /\ renewal' = [renewal EXCEPT ![w] = "none"]

\* The processor returns: the entry completes if w still holds its lock.
Return(w) ==
    /\ Leave(w)
    /\ IF lock = w THEN entry' = "completed" /\ lock' = Nobody
                   ELSE UNCHANGED <<entry, lock>>
    /\ UNCHANGED <<made, handlers>>

\* Mutant: one delivery too many.
ThrowOnceMore(w, attempt) ==
    /\ Leave(w)
    /\ IF lock = w
       THEN /\ made' = made + 1
            /\ entry' = IF made >= MaxAttempts THEN "failed" ELSE "waiting"
            /\ lock' = Nobody
            /\ UNCHANGED handlers
       ELSE UNCHANGED <<entry, made, lock, handlers>>

\* The processor throws: attemptsMade grows, the entry waits again or fails, and
\* the 'failed' event starts onFailed, which does nothing for an error without
\* claimAttempt while attempts remain.
Throw(w, attempt) ==
    /\ Leave(w)
    /\ IF lock = w
       THEN LET final == made + 1 >= MaxAttempts IN
            /\ made' = IF final THEN MaxAttempts ELSE made + 1
            /\ entry' = IF final THEN "failed" ELSE "waiting"
            /\ lock' = Nobody
            /\ handlers' = IF final \/ attempt # 0
                           THEN handlers \cup {[worker |-> w, attempt |-> attempt,
                                                final |-> final, tries |-> 1]}
                           ELSE handlers
       ELSE UNCHANGED <<entry, made, lock, handlers>>

\* The lock of a live worker runs out (a stalled event loop, a Redis outage).
LoseLock(w) ==
    /\ lock = w /\ Faulty("lock")
    /\ lock' = Nobody
    /\ UNCHANGED <<doc, leaseLive, localTerminal, runVars, entry, made, handlers, webVars, sends>>

\* The stalled check of BullMQ: the entry waits again, or fails when it has
\* stalled too often, in which case the checking worker sees an error that never
\* carried a claim.
Stalled(w) ==
    /\ entry = "active" /\ lock = Nobody
    /\ \/ entry' = "waiting" /\ UNCHANGED handlers
       \/ /\ entry' = "failed"
          /\ handlers' = IF made = MaxAttempts
                         THEN handlers \cup {[worker |-> w, attempt |-> 0,
                                              final |-> TRUE, tries |-> 1]}
                         ELSE handlers
    /\ UNCHANGED <<repositoryVars, runVars, made, lock, webVars, sends>>

Take(w) ==
    /\ pc[w] = "idle" /\ entry = "waiting"
    /\ pc' = [pc EXCEPT ![w] = "taken"]
    /\ entry' = "active" /\ lock' = w
    /\ UNCHANGED <<repositoryVars, job, claimed, lost, renewal, made, handlers, webVars, sends>>

-----------------------------------------------------------------------------
(* processQueuedJob: claim, then _runBackgroundJob reads the job again.     *)

At(w, point) == pc' = [pc EXCEPT ![w] = point]
With(w, j)   == job' = [job EXCEPT ![w] = j]

ClaimSkipped(w) ==
    /\ pc[w] = "taken"
    /\ \/ doc.status = "absent" /\ Return(w)
       \/ Terminal(doc) /\ At(w, "closed")
          /\ UNCHANGED <<job, claimed, lost, renewal, queueVars>>
    /\ UNCHANGED <<repositoryVars, webVars, sends>>

ClaimActive(w) ==
    /\ pc[w] = "taken"
    /\ ~Terminal(doc) /\ doc.exec \in ClaimStatuses /\ leaseLive
    /\ Throw(w, 0)
    /\ UNCHANGED <<repositoryVars, webVars, sends>>

ClaimJob(w) ==
    /\ pc[w] = "taken" /\ Claimable
    /\ Put(ClaimedBy(w))
    /\ With(w, ClaimedBy(w)) /\ At(w, "claimed")
    /\ claimed' = [claimed EXCEPT ![w] = doc.attempt + 1]
    /\ UNCHANGED <<localTerminal, faults, lost, renewal, queueVars, webVars, sends>>

ClaimUnavailable(w) ==
    /\ pc[w] = "taken" /\ Faulty("storage")
    /\ \/ UNCHANGED <<doc, leaseLive>>
       \/ Claimable /\ Put(ClaimedBy(w))
    /\ Throw(w, 0)
    /\ UNCHANGED <<localTerminal, webVars, sends>>

\* What get returns: the document, or this process's memory when the document
\* is gone or cannot be read.
Reads(w, seen) ==
    \/ seen = (IF View(w).status = "absent" THEN job[w] ELSE View(w)) /\ UNCHANGED faults
    \/ seen = job[w] /\ Faulty("storage")

\* Mutant: an interrupted delivery is not noticed.
LoadInFlight(w) ==
    /\ pc[w] = "claimed" /\ Reads(w, View(w))
    /\ With(w, [View(w) EXCEPT !.status = "processing", !.exec = "running", !.ckpt = "none"])
    /\ At(w, "loaded")
    /\ UNCHANGED <<doc, leaseLive, localTerminal, claimed, lost, renewal, queueVars, webVars, sends>>

Load(w) ==
    /\ pc[w] = "claimed"
    /\ \E seen \in {View(w), job[w]} :
         /\ Reads(w, seen)
         /\ IF seen.ckpt = "in_flight"
            THEN Throw(w, claimed[w])
            ELSE /\ With(w, [seen EXCEPT !.status = "processing", !.exec = "running"])
                 /\ At(w, "loaded")
                 /\ UNCHANGED <<claimed, lost, renewal, queueVars>>
    /\ UNCHANGED <<doc, leaseLive, localTerminal, webVars, sends>>

\* Mutant: a delivered job is analysed again.
StartOver(w) ==
    /\ pc[w] = "loaded" /\ PersistOk(w, job[w]) /\ At(w, "running")
    /\ UNCHANGED <<job, claimed, lost, renewal, queueVars, webVars, sends>>

Start(w) ==
    /\ pc[w] = "loaded"
    /\ \/ /\ PersistOk(w, job[w])
          /\ IF job[w].ckpt = "completed"
             THEN With(w, [job[w] EXCEPT !.status = "completed"]) /\ At(w, "finally")
             ELSE UNCHANGED job /\ At(w, "running")
          /\ UNCHANGED <<claimed, lost, renewal, queueVars>>
       \/ PersistRefused(w, job[w]) /\ Throw(w, claimed[w])
       \/ PersistFails(w, job[w]) /\ Throw(w, claimed[w])
    /\ UNCHANGED <<webVars, sends>>

-----------------------------------------------------------------------------
(* The claim heartbeat.                                                     *)

Pulse(w) ==
    /\ pc[w] \in Executing \ {"closing"} /\ renewal[w] = "none"
    /\ \/ /\ Renewable(w, job[w].attempt) /\ Renew
          /\ UNCHANGED <<faults, renewal>>
       \/ /\ ~Renewable(w, job[w].attempt)
          /\ renewal' = [renewal EXCEPT ![w] = "lost"]
          /\ UNCHANGED <<doc, leaseLive, faults>>
       \/ /\ Faulty("storage")
          /\ renewal' = [renewal EXCEPT ![w] = "error"]
          /\ \/ UNCHANGED <<doc, leaseLive>>
             \/ Renewable(w, job[w].attempt) /\ Renew
    /\ UNCHANGED <<localTerminal, pc, job, claimed, lost, queueVars, webVars, sends>>

\* markClaimLost
RenewalAnswer(w) ==
    /\ pc[w] \in LossPoints \cap Executing /\ renewal[w] # "none"
    /\ lost' = [lost EXCEPT ![w] = IF renewal[w] = "error" \/ lost[w] = "error"
                                   THEN "error" ELSE "lost"]
    /\ renewal' = [renewal EXCEPT ![w] = "none"]
    /\ UNCHANGED <<repositoryVars, pc, job, claimed, queueVars, webVars, sends>>

-----------------------------------------------------------------------------
(* The body of _runBackgroundJob.                                           *)

\* Mutant: any checkpoint counts as a finished delivery.
CaughtAnyCheckpoint(w, j) ==
    /\ At(w, "finally")
    /\ IF lost[w] # "no" \/ Cancelled(View(w))
       THEN With(w, j)
       ELSE \E s \in IF j.ckpt # "none" THEN {"completed"} ELSE {"failed", "timed_out"} :
              With(w, [j EXCEPT !.status = s])

\* The catch clause: a lost claim or a cancelled job returns, a finished
\* delivery completes the job, anything else fails it.
Caught(w, j) ==
    /\ At(w, "finally")
    /\ IF lost[w] # "no" \/ Cancelled(View(w))
       THEN With(w, j)
       ELSE \E s \in IF j.ckpt = "completed" THEN {"completed"} ELSE {"failed", "timed_out"} :
              With(w, [j EXCEPT !.status = s])

\* _persistJob inside the try block.  Once _claimLost is set it returns false
\* and the caller carries on.
Try(w, j, next) ==
    /\ \/ /\ lost[w] # "no"
          /\ With(w, j) /\ At(w, next)
          /\ UNCHANGED <<repositoryVars, lost>>
       \/ /\ lost[w] = "no" /\ PersistOk(w, j)
          /\ With(w, j) /\ At(w, next)
          /\ UNCHANGED lost
       \/ /\ lost[w] = "no" /\ PersistRefused(w, j)
          /\ With(w, j) /\ At(w, "finally")
          /\ lost' = [lost EXCEPT ![w] = "lost"]
       \/ /\ lost[w] = "no" /\ PersistFails(w, j)
          /\ Caught(w, j)
          /\ UNCHANGED lost
    /\ UNCHANGED <<claimed, renewal, queueVars, webVars, sends>>

\* _isClaimLost(signal): once the timeout has aborted the signal its reason is
\* the timeout, whatever happens later.
SeesLoss(w) == lost[w] # "no" /\ pc[w] # "overdue"

Analysing(w) == pc[w] \in {"running", "overdue"}

\* One symbol or scan: progress is persisted before the work.
Progress(w) ==
    /\ Analysing(w) /\ ~SeesLoss(w) /\ ~Cancelled(View(w))
    /\ Try(w, job[w], pc[w])

JobTimeout(w) ==
    /\ pc[w] = "running" /\ lost[w] = "no"
    /\ At(w, "overdue")
    /\ UNCHANGED <<repositoryVars, job, claimed, lost, renewal, queueVars, webVars, sends>>

\* The get that follows the last symbol, and the two checks after it.
Analysed(w) ==
    /\ Analysing(w)
    /\ At(w, IF SeesLoss(w) \/ Cancelled(View(w)) THEN "finally" ELSE "prepared")
    /\ UNCHANGED <<repositoryVars, job, claimed, lost, renewal, queueVars, webVars, sends>>

Summarise(w) == pc[w] = "prepared" /\ Try(w, job[w], "ready")

NothingAnalysed(w) ==
    /\ pc[w] = "ready"
    /\ \E s \in {"failed", "timed_out"} : Try(w, [job[w] EXCEPT !.status = s], "finally")

\* The report or the notification services throw before the checkpoint.
ReportFails(w) ==
    /\ pc[w] = "ready" /\ Caught(w, job[w])
    /\ UNCHANGED <<repositoryVars, claimed, lost, renewal, queueVars, webVars, sends>>

\* Mutant: the checkpoint is written with the result of the delivery.
SendBeforeCheckpoint(w) ==
    /\ pc[w] = "ready"
    /\ With(w, [job[w] EXCEPT !.ckpt = "in_flight"]) /\ At(w, "sending")
    /\ UNCHANGED <<repositoryVars, claimed, lost, renewal, queueVars, webVars, sends>>

\* _sendQueuedNotification: checkpoint, send, checkpoint.
MarkInFlight(w) ==
    pc[w] = "ready" /\ Try(w, [job[w] EXCEPT !.ckpt = "in_flight"], "sending")

Send(w) ==
    /\ pc[w] = "sending"
    /\ sends' = sends + 1
    /\ With(w, [job[w] EXCEPT !.ckpt = "completed"]) /\ At(w, "sent")
    /\ UNCHANGED <<repositoryVars, claimed, lost, renewal, queueVars, webVars>>

\* validateNotificationRouting rejects the channels: nothing is sent.
SendRejected(w) ==
    /\ pc[w] = "sending" /\ Caught(w, job[w])
    /\ UNCHANGED <<repositoryVars, claimed, lost, renewal, queueVars, webVars, sends>>

MarkSent(w) == pc[w] = "sent" /\ Try(w, job[w], "delivered")

Complete(w) ==
    pc[w] = "delivered" /\ Try(w, [job[w] EXCEPT !.status = "completed"], "finally")

-----------------------------------------------------------------------------
(* The finally clause: a lost claim leaves the job alone, a cancelled one    *)
(* is closed as such, any other is closed with the status reached.          *)

Finished(j) == [j EXCEPT !.exec = j.status]

LeaveLost(w) ==
    /\ pc[w] = "finally" /\ lost[w] # "no"
    /\ IF lost[w] = "error" THEN Throw(w, claimed[w]) ELSE Return(w)
    /\ UNCHANGED <<repositoryVars, webVars, sends>>

CloseCancelled(w) ==
    /\ pc[w] = "finally" /\ lost[w] = "no" /\ Cancelled(View(w))
    /\ \/ /\ PersistOk(w, Finished(View(w))) /\ At(w, "closed")
          /\ UNCHANGED <<job, claimed, lost, renewal, queueVars>>
       \/ PersistRefused(w, Finished(View(w))) /\ Throw(w, claimed[w])
       \/ PersistFails(w, Finished(View(w))) /\ Throw(w, claimed[w])
    /\ UNCHANGED <<webVars, sends>>

Finish(w) ==
    /\ pc[w] = "finally" /\ lost[w] = "no" /\ ~Cancelled(View(w))
    /\ With(w, Finished(job[w])) /\ At(w, "closing")
    /\ UNCHANGED <<repositoryVars, claimed, lost, renewal, queueVars, webVars, sends>>

Close(w) ==
    /\ pc[w] = "closing"
    /\ \/ /\ \/ lost[w] # "no" /\ UNCHANGED repositoryVars
             \/ lost[w] = "no" /\ PersistOk(w, job[w])
          /\ At(w, "closed")
          /\ UNCHANGED <<job, claimed, lost, renewal, queueVars>>
       \/ lost[w] = "no" /\ PersistRefused(w, job[w]) /\ Throw(w, claimed[w])
       \/ lost[w] = "no" /\ PersistFails(w, job[w]) /\ Throw(w, claimed[w])
    /\ UNCHANGED <<webVars, sends>>

\* The awaited callback: a claim or status write that fails makes the run throw.
Callback(w) ==
    /\ pc[w] = "closed"
    /\ \/ Return(w) /\ UNCHANGED faults
       \/ Faulty("callback") /\ Throw(w, claimed[w])
    /\ UNCHANGED <<doc, leaseLive, localTerminal, webVars, sends>>

-----------------------------------------------------------------------------
(* onFailed and finalizeFailedJob of jobWorker.js.                          *)

Done(h) == handlers' = handlers \ {h}

\* Attempts remain: releaseQueuedJob; its failure is only logged.
ReleaseClaim(h) ==
    /\ ~h.final
    /\ \/ UpdateClaim(h.worker, h.attempt, Released) /\ UNCHANGED faults
       \/ /\ Faulty("storage")
          /\ \/ UNCHANGED <<doc, leaseLive>>
             \/ UpdateClaim(h.worker, h.attempt, Released)
    /\ Done(h)
    /\ UNCHANGED <<localTerminal, runVars, entry, made, lock, webVars, sends>>

\* The last attempt failed after it had a claim: failQueuedJob, tried again while
\* storage fails, at most FinalTries times.
FailClaim(h) ==
    /\ h.final /\ h.attempt # 0
    /\ \/ UpdateClaim(h.worker, h.attempt, FailedJob) /\ UNCHANGED faults /\ Done(h)
       \/ /\ Faulty("storage")
          /\ \/ UNCHANGED <<doc, leaseLive>>
             \/ UpdateClaim(h.worker, h.attempt, FailedJob)
          /\ handlers' = IF h.tries < FinalTries
                         THEN (handlers \ {h}) \cup {[h EXCEPT !.tries = h.tries + 1]}
                         ELSE handlers \ {h}
    /\ UNCHANGED <<localTerminal, runVars, entry, made, lock, webVars, sends>>

\* The last attempt failed before it had a claim: job.retry('failed'), which
\* throws when the entry is not failed.
Requeue(h) ==
    /\ h.final /\ h.attempt = 0
    /\ entry' = IF entry = "failed" THEN "waiting" ELSE entry
    /\ Done(h)
    /\ UNCHANGED <<repositoryVars, runVars, made, lock, webVars, sends>>

\* Mutant: claims whose lease has expired are not reconciled.
ReconcileQueued ==
    /\ doc.status = "processing" /\ doc.exec = "queued"
    /\ IF entry = "failed" THEN entry' = "waiting" /\ UNCHANGED <<made, lock>>
                           ELSE Add
    /\ UNCHANGED <<repositoryVars, runVars, handlers, webVars, sends>>

\* reconcileQueuedJobs, at start and every thirty seconds.
Reconcile ==
    /\ doc.status = "processing"
    /\ doc.exec = "queued" \/ (doc.exec \in ClaimStatuses /\ ~leaseLive)
    /\ IF entry = "failed" THEN entry' = "waiting" /\ UNCHANGED <<made, lock>>
                           ELSE Add
    /\ UNCHANGED <<repositoryVars, runVars, handlers, webVars, sends>>

\* The process dies and restarts with the same identifier.
Crash(w) ==
    /\ \/ pc[w] # "idle" \/ Terminal(localTerminal[w])
       \/ \E h \in handlers : h.worker = w
    /\ Faulty("crash")
    /\ Leave(w)
    /\ localTerminal' = [localTerminal EXCEPT ![w] = Absent]
    /\ handlers' = {h \in handlers : h.worker # w}
    /\ lock' = IF lock = w THEN Nobody ELSE lock
    /\ UNCHANGED <<doc, leaseLive, entry, made, webVars, sends>>

-----------------------------------------------------------------------------
(* The web process: createJob in queue mode.                                *)

CreateSave ==
    /\ create = "new"
    /\ \/ SaveOk(Web, FreshJob) /\ create' = "saved"
       \/ SaveFails(Web, FreshJob) /\ create' = "done"
    /\ UNCHANGED <<runVars, queueVars, cancel, expiries, sends>>

\* enqueue: added; unknown, when neither add nor getJob answers; unavailable.
Enqueue ==
    /\ create = "saved"
    /\ \/ Add /\ create' = "done" /\ UNCHANGED faults
       \/ OutOrFaulty("redis") /\ create' = "done" /\ (Add \/ UNCHANGED <<entry, made, lock>>)
       \/ OutOrFaulty("redis") /\ create' = "failing" /\ UNCHANGED <<entry, made, lock>>
    /\ UNCHANGED <<doc, leaseLive, localTerminal, runVars, handlers, cancel, expiries, sends>>

Unqueued == [FreshJob EXCEPT !.status = "failed", !.exec = "failed"]

CreateFail ==
    /\ create = "failing"
    /\ \/ SaveOk(Web, Unqueued) /\ create' = "done"
       \/ SaveRefused(Web, Unqueued) /\ create' = "done"
       \/ SaveFails(Web, Unqueued) /\ create' = "discarding"
    /\ UNCHANGED <<runVars, queueVars, cancel, expiries, sends>>

\* A worker that has read the terminal document keeps it in memoryJobs, which get
\* falls back to once the document is gone.  That copy is not modelled: documents
\* are removed only while no worker can hold it.
Unread == \A w \in Workers : pc[w] \in {"idle", "taken", "claimed", "running",
                                       "overdue", "sending", "sent"}

Discard ==
    /\ create = "discarding" /\ create' = "done" /\ Unread
    /\ \/ Delete(Web) /\ UNCHANGED faults
       \/ OutOrFaulty("storage") /\ UNCHANGED <<doc, leaseLive>>
          /\ localTerminal' = [localTerminal EXCEPT ![Web] = Absent]
    /\ UNCHANGED <<runVars, queueVars, cancel, expiries, sends>>

(* cancelJob, and the get that follows a refused save.                      *)

Answer(code, status) ==
    cancel' = [step |-> "done", copy |-> Absent, code |-> code, status |-> status]

CancelRead ==
    /\ MaxCancels = 1 /\ cancel.step = "idle" /\ View(Web).status # "absent"
    /\ IF Terminal(View(Web))
       THEN Answer("TERMINAL_JOB", View(Web).status)
       ELSE cancel' = [NoRequest EXCEPT !.step = "read",
                         !.copy = [View(Web) EXCEPT !.status = "cancelled"]]
    /\ UNCHANGED <<repositoryVars, runVars, queueVars, create, expiries, sends>>

\* The get of _persistJob.
CancelCheck ==
    /\ cancel.step = "read"
    /\ cancel' = [cancel EXCEPT !.step = IF Overruled(Web, cancel.copy)
                                         THEN "refused" ELSE "checked"]
    /\ UNCHANGED <<repositoryVars, runVars, queueVars, create, expiries, sends>>

\* Mutant: a refused save is answered like any other.
CancelSaveUnchecked ==
    /\ cancel.step = "checked"
    /\ SaveOk(Web, cancel.copy) \/ SaveRefused(Web, cancel.copy)
    /\ Answer("success", "cancelled")
    /\ UNCHANGED <<runVars, queueVars, create, expiries, sends>>

CancelSave ==
    /\ cancel.step = "checked"
    /\ \/ SaveOk(Web, cancel.copy) /\ Answer("success", "cancelled")
       \/ SaveRefused(Web, cancel.copy) /\ cancel' = [cancel EXCEPT !.step = "refused"]
       \/ SaveFails(Web, cancel.copy) /\ Answer("error", "absent")
    /\ UNCHANGED <<runVars, queueVars, create, expiries, sends>>

CancelRefused ==
    /\ cancel.step = "refused"
    /\ Answer(IF View(Web).status = "absent" THEN "missing"
              ELSE IF Terminal(View(Web)) THEN "TERMINAL_JOB" ELSE "CANCEL_REJECTED",
              View(Web).status)
    /\ UNCHANGED <<repositoryVars, runVars, queueVars, create, expiries, sends>>

\* _getUnexpiredJob: a terminal job created more than an hour ago is deleted.  The
\* request that created it has been answered by then.
DeleteExpired ==
    /\ create = "done" /\ Terminal(View(Web)) /\ Unread /\ expiries < MaxExpiries
    /\ expiries' = expiries + 1
    /\ Delete(Web)
    /\ UNCHANGED <<faults, runVars, queueVars, create, cancel, sends>>

WebCrash ==
    /\ Faulty("crash")
    /\ create' = IF create \in {"saved", "failing", "discarding"} THEN "done" ELSE create
    /\ cancel' = IF cancel.step \in {"read", "checked", "refused"}
                 THEN [NoRequest EXCEPT !.step = "done"] ELSE cancel
    /\ localTerminal' = [localTerminal EXCEPT ![Web] = Absent]
    /\ <<create, cancel, localTerminal>>' # <<create, cancel, localTerminal>>
    /\ UNCHANGED <<doc, leaseLive, runVars, queueVars, expiries, sends>>

-----------------------------------------------------------------------------
\* Time: the lease runs out, unless its live holder is at a point where it does
\* not pause that long.
Holds(w) == claimed[w] # 0 /\ claimed[w] = doc.attempt /\ doc.worker = IdOf[w]

LeaseExpires ==
    /\ \A w \in Workers : Holds(w) => pc[w] \in StallPoints
    /\ \A h \in handlers : h.attempt = doc.attempt => "handler" \in StallPoints
    /\ Expire
    /\ UNCHANGED <<runVars, queueVars, webVars, sends>>

\* The steps a live worker takes once it has a delivery.
Advance(w) ==
    \/ ClaimSkipped(w) \/ ClaimActive(w) \/ ClaimJob(w) \/ ClaimUnavailable(w)
    \/ Load(w) \/ Start(w)
    \/ Analysed(w) \/ Summarise(w) \/ NothingAnalysed(w) \/ ReportFails(w)
    \/ MarkInFlight(w) \/ Send(w) \/ SendRejected(w) \/ MarkSent(w) \/ Complete(w)
    \/ LeaveLost(w) \/ CloseCancelled(w) \/ Finish(w) \/ Close(w) \/ Callback(w)

Background(w) ==
    \/ Progress(w) \/ JobTimeout(w) \/ Pulse(w) \/ RenewalAnswer(w)
    \/ LoseLock(w) \/ Stalled(w) \/ Crash(w)

HandleClaim == \E h \in handlers : ReleaseClaim(h) \/ FailClaim(h)
HandleEntry == \E h \in handlers : Requeue(h)

Creation     == CreateSave \/ Enqueue \/ CreateFail \/ Discard
Cancellation == CancelRead \/ CancelCheck \/ CancelSave \/ CancelRefused

Next ==
    \/ \E w \in Workers : Take(w) \/ Advance(w) \/ Background(w)
    \/ HandleClaim \/ HandleEntry \/ Reconcile
    \/ Creation \/ Cancellation \/ DeleteExpired \/ WebCrash
    \/ LeaseExpires

Spec == Init /\ [][Next]_vars

\* Processes are restarted, BullMQ delivers and recovers stalled entries, the
\* reconciliation timer fires, time passes, and the job's own timeout ends the
\* analysis.  Nobody has to cancel, to beat or to fail.
Fairness ==
    /\ \A w \in Workers : WF_vars(Advance(w))
    /\ WF_vars(\E w \in Workers : Take(w))
    /\ WF_vars(\E w \in Workers : Stalled(w))
    /\ WF_vars(HandleClaim) /\ WF_vars(HandleEntry) /\ WF_vars(Reconcile)
    /\ WF_vars(Creation) /\ WF_vars(LeaseExpires)

FairSpec == Spec /\ Fairness

-----------------------------------------------------------------------------
(* Properties                                                               *)

\* A durable terminal status is final: no worker, handler, cancellation or late
\* creation step replaces it; only retention removes the document.
TerminalStays == [][Terminal(doc) => doc'.status \in {doc.status, "absent"}]_vars

\* The alert of a job is handed to the channels at most once, whatever attempts,
\* takeovers and restarts there were.
AtMostOnce == sends <= 1

\* A worker begins to send only from a step that left the in-flight checkpoint in
\* the document of a job that is still open.  (Not so: a worker that has learnt of the
\* loss of its claim since it last looked at the signal skips the save, and sends.)
CheckpointedSend ==
    [][\A w \in Workers : pc[w] # "sending" /\ pc'[w] = "sending"
         => doc'.ckpt = "in_flight" /\ doc'.status = "processing"]_vars

\* While a worker sends that has not been told of the loss of its claim, the document
\* of the open job has the checkpoint, so that nobody who claims the job runs it
\* afresh, whatever other workers, handlers and requests write meanwhile.
MarkedWhileSending ==
    \A w \in Workers : pc[w] \in {"sending", "sent"} /\ lost[w] = "no"
        => doc.ckpt # "none" \/ doc.status # "processing"

\* While a job is open no whole-document write loses its delivery checkpoint.
CheckpointKept ==
    [][doc.status = "processing" /\ doc'.status = "processing"
         => /\ doc.ckpt = "in_flight" => doc'.ckpt # "none"
            /\ doc.ckpt = "completed" => doc'.ckpt = "completed"]_vars

\* Only a job whose alert was sent, and recorded as sent, is ever completed.
CompletedWasSent == doc.status = "completed" => sends > 0 /\ doc.ckpt = "completed"

\* A failure handler never releases or fails the job under a worker that is
\* executing the attempt it names, however late the handler runs.
NoClaimTheft ==
    [][handlers \ handlers' # {} /\ doc' # doc
         => \A w \in Workers : pc[w] \in Executing => ~Holds(w)]_vars

\* A cancellation that was answered with success stays, at least until retention
\* removes a document.
CancelDurable ==
    cancel.code = "success" /\ expiries = 0 => doc.status \in {"cancelled", "absent"}

\* A job whose delivery is durably recorded as completed ends completed, unless it
\* is cancelled: no later attempt fails it, but for one of a worker whose saveVersions
\* keeps a terminal copy that was refused; such a worker cannot start the job again.
DeliveredSurvives ==
    [][doc.status = "processing" /\ doc.ckpt = "completed"
         => \/ doc'.status \notin {"failed", "timed_out"}
            \/ \E h \in handlers \ handlers' : Terminal(localTerminal[h.worker])]_vars

\* A stored job is eventually settled (or removed).
JobSettles == doc.status = "processing" ~> doc.status # "processing"

\* The promise of the API, as the document and the workers implement it.
Contract == INSTANCE JobContract WITH
    TerminalOutcomes <- TerminalStatuses,
    outcome <- IF doc.status = "processing" THEN "open" ELSE doc.status,
    begun   <- \E w \in Workers : pc[w] = "sending",
    sent    <- sends

ImplementsContract == Contract!ContractSpec
=============================================================================
