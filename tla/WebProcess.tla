----------------------------- MODULE WebProcess -----------------------------
(***************************************************************************)
(* The web process with its jobs in local mode: requests that create and   *)
(* cancel jobs, the jobs it runs itself, the persistence tasks it tracks,  *)
(* and the shutdown that ends it all: index.js, processLifecycle.js,       *)
(* backgroundTaskTracker.js, JobService.  A timeout counts as a failure.   *)
(*                                                                         *)
(* jobDoc is the job as JobRepository shows it; save refuses to replace a  *)
(* terminal status by another one.                                         *)
(***************************************************************************)
EXTENDS Naturals, FiniteSets

CONSTANTS LocalJobs  \* jobs, each created at most once

VARIABLES
  life,         \* the lifecycle: phase, exit code, and whether a budget ran out
  serving,      \* the server still has connections
  jobDoc,       \* status of the stored job
  run,          \* what the process does for a job, and the status of its own copy
  closing,      \* finalisation of a job at the deadline
  called,       \* events whose callback was triggered
  tasks         \* jobs with a tracked background task

localVars == <<life, serving, jobDoc, run, closing, called, tasks>>

LocalTerminal == {"completed", "failed", "cancelled"}
Creating == {"saving", "announcing"}
LocalRunning == {"loading", "running", "ending", "completing", "discarding", "calling"}

WebInit ==
  /\ life = [phase |-> "up", code |-> 0, late |-> FALSE]
  /\ serving = TRUE
  /\ jobDoc = [j \in LocalJobs |-> "none"]
  /\ run = [j \in LocalJobs |-> [pc |-> "idle", own |-> "processing", shutdownFinalized |-> FALSE]]
  /\ closing = [j \in LocalJobs |-> "none"]
  /\ called = [j \in LocalJobs |-> {}]
  /\ tasks = {}

Alive == life.phase # "exited"
activeCreations == {j \in LocalJobs : run[j].pc \in Creating}
activeJobs == {j \in LocalJobs : run[j].pc \in LocalRunning}

LocalStep(j, pc) == run' = [run EXCEPT ![j].pc = pc]

\* save is fenced; where it fails it is logged, and the copy in memory shows the new status.
SaveLocal(j, status) ==
  jobDoc' = IF jobDoc[j] \in LocalTerminal THEN jobDoc ELSE [jobDoc EXCEPT ![j] = status]

-----------------------------------------------------------------------------
(* Jobs *)

\* createJob up to its save.
CreateJob(j) ==
  /\ Alive /\ serving /\ run[j].pc = "idle"
  /\ LocalStep(j, "saving")
  /\ UNCHANGED <<life, serving, jobDoc, closing, called, tasks>>

\* The first save settles; a creation that was finalised meanwhile ends.
SaveCreated(j) ==
  /\ Alive /\ run[j].pc = "saving"
  /\ SaveLocal(j, "processing")
  /\ LocalStep(j, IF run[j].shutdownFinalized THEN "done" ELSE "announcing")
  /\ UNCHANGED <<life, serving, closing, called, tasks>>

\* The processing callback is triggered in the background; the job becomes active.
Announce(j) ==
  /\ Alive /\ run[j].pc = "announcing"
  /\ LocalStep(j, IF run[j].shutdownFinalized THEN "done" ELSE "loading")
  /\ called' = [called EXCEPT ![j] = @ \cup {"processing"}]
  /\ UNCHANGED <<life, serving, jobDoc, closing, tasks>>

\* _runBackgroundJob: a refused save does not stop it.
LoadLocal(j) ==
  /\ Alive /\ run[j].pc = "loading"
  /\ SaveLocal(j, "processing")
  /\ LocalStep(j, "running")
  /\ UNCHANGED <<life, serving, closing, called, tasks>>

\* Mutant: only the finally block saves how the job has ended.
WorkUnsaved(j) ==
  /\ Alive /\ run[j].pc = "running"
  /\ \E own \in {"completed", "failed"} :
       run' = [run EXCEPT ![j].pc = "ending", ![j].own = own]
  /\ tasks' \in {tasks, tasks \cup {j}}
  /\ UNCHANGED <<life, serving, jobDoc, closing, called>>

\* It analyses and notifies, with a tracked task for failed channels, and saves how it has
\* ended; what it throws, as on an abort, is not saved yet.
WorkLocal(j) ==
  /\ Alive /\ run[j].pc = "running"
  /\ \E own \in {"completed", "failed"} :
       /\ run' = [run EXCEPT ![j].pc = "ending", ![j].own = own]
       /\ SaveLocal(j, own) \/ (own = "failed" /\ UNCHANGED jobDoc)
  /\ tasks' \in {tasks, tasks \cup {j}}
  /\ UNCHANGED <<life, serving, closing, called>>

\* The finally block looks at the stored status.
EndLocal(j) ==
  /\ Alive /\ run[j].pc = "ending"
  /\ LocalStep(j, IF jobDoc[j] = "cancelled" THEN "discarding" ELSE "completing")
  /\ UNCHANGED <<life, serving, jobDoc, closing, called, tasks>>

\* The status is saved, refused or not, and its callback triggered.
CompleteLocal(j) ==
  /\ Alive /\ run[j].pc = "completing"
  /\ SaveLocal(j, run[j].own)
  /\ LocalStep(j, "calling")
  /\ called' = [called EXCEPT ![j] = @ \cup {run[j].own}]
  /\ UNCHANGED <<life, serving, closing, tasks>>

\* A cancelled job: shutdownFinalized leaves the callback to the finalisation.
DiscardLocal(j) ==
  /\ Alive /\ run[j].pc = "discarding"
  /\ SaveLocal(j, "cancelled")
  /\ LocalStep(j, "calling")
  /\ called' = [called EXCEPT ![j] = IF run[j].shutdownFinalized THEN @ ELSE @ \cup {"cancelled"}]
  /\ UNCHANGED <<life, serving, closing, tasks>>

\* The callback has been delivered or given up.
LeaveLocal(j) ==
  /\ Alive /\ run[j].pc = "calling"
  /\ LocalStep(j, "done")
  /\ UNCHANGED <<life, serving, jobDoc, closing, called, tasks>>

\* cancelJob: a running job has a controller and calls back itself.
CancelLocal(j) ==
  /\ Alive /\ serving /\ jobDoc[j] = "processing"
  /\ SaveLocal(j, "cancelled")
  /\ called' = [called EXCEPT ![j] = IF run[j].pc = "running" THEN @ ELSE @ \cup {"cancelled"}]
  /\ UNCHANGED <<life, serving, run, closing, tasks>>

TaskDone(j) ==
  /\ Alive /\ j \in tasks /\ tasks' = tasks \ {j}
  /\ UNCHANGED <<life, serving, jobDoc, run, closing, called>>

-----------------------------------------------------------------------------
(* The lifecycle: each phase of cleanup waits for one thing. *)

LifePhase(from, to) == life.phase = from /\ life' = [life EXCEPT !.phase = to]

Shutdown ==
  /\ LifePhase("up", "closing")
  /\ UNCHANGED <<serving, jobDoc, run, closing, called, tasks>>

\* Server, bot and bootstrap have ended: no request is left.
CloseServer ==
  /\ LifePhase("closing", "jobs") /\ activeCreations = {}
  /\ serving' = FALSE
  /\ UNCHANGED <<jobDoc, run, closing, called, tasks>>

WaitForActiveJobs ==
  /\ LifePhase("jobs", "tasks") /\ activeJobs = {}
  /\ UNCHANGED <<serving, jobDoc, run, closing, called, tasks>>

WaitForBackgroundTasks ==
  /\ LifePhase("tasks", "stopping") /\ tasks = {}
  /\ UNCHANGED <<serving, jobDoc, run, closing, called, tasks>>

\* The outcome worker has drained, or its drain timed out; the process exits.
StopServices ==
  /\ life.phase = "stopping"
  /\ life' = [life EXCEPT !.phase = "exited"]
  /\ UNCHANGED <<serving, jobDoc, run, closing, called, tasks>>

\* The deadline wins the race against cleanup.
Deadline ==
  /\ life.phase \in {"closing", "jobs", "tasks", "stopping"}
  /\ life' = [life EXCEPT !.phase = "finalizing", !.code = 1]
  /\ UNCHANGED <<serving, jobDoc, run, closing, called, tasks>>

\* finalizeActiveJobsForShutdown takes a job: a creation is shutdownFinalized in its own object.
TakeForFinalization(j) ==
  LET creating == j \in activeCreations
  IN /\ life.phase = "finalizing" /\ closing[j] = "none"
     /\ creating \/ j \in activeJobs
     /\ closing' = [closing EXCEPT ![j] = IF creating THEN "marking" ELSE "reading"]
     /\ run' = IF creating THEN [run EXCEPT ![j].shutdownFinalized = TRUE] ELSE run
     /\ UNCHANGED <<life, serving, jobDoc, called, tasks>>

\* _finalizeCreationForShutdown saves at once, and again after the first save has settled.
FinalizeCreation(j) ==
  /\ life.phase = "finalizing"
  /\ \/ /\ closing[j] = "marking" /\ closing' = [closing EXCEPT ![j] = "waiting"]
        /\ SaveLocal(j, "cancelled") /\ UNCHANGED called
     \/ /\ closing[j] = "waiting" /\ run[j].pc # "saving"
        /\ SaveLocal(j, "cancelled") /\ closing' = [closing EXCEPT ![j] = "done"]
        /\ called' = [called EXCEPT ![j] = @ \cup {"cancelled"}]
  /\ UNCHANGED <<life, serving, run, tasks>>

\* _finalizeActiveJobForShutdown: read, then save; the controller is aborted.
FinalizeRead(j) ==
  /\ life.phase = "finalizing" /\ closing[j] = "reading"
  /\ closing' = [closing EXCEPT ![j] = IF jobDoc[j] \in LocalTerminal THEN "done" ELSE "cancelling"]
  /\ UNCHANGED <<life, serving, jobDoc, run, called, tasks>>

FinalizeSave(j) ==
  /\ life.phase = "finalizing" /\ closing[j] = "cancelling"
  /\ SaveLocal(j, "cancelled")
  /\ closing' = [closing EXCEPT ![j] = "done"]
  /\ IF jobDoc'[j] = "cancelled"
     THEN /\ called' = [called EXCEPT ![j] = @ \cup {"cancelled"}]
          /\ run' = [run EXCEPT ![j].shutdownFinalized = TRUE]
     ELSE UNCHANGED <<called, run>>
  /\ UNCHANGED <<life, serving, tasks>>

\* Mutant: only jobs that run are looked at.
FinalizedRunning ==
  /\ life.phase = "finalizing"
  /\ \A j \in activeJobs : closing[j] = "done"
  /\ life' = [life EXCEPT !.phase = "exited"]
  /\ UNCHANGED <<serving, jobDoc, run, closing, called, tasks>>

\* The loop ends when every active job has been finalised; the process is forced to exit.
Finalized ==
  /\ life.phase = "finalizing"
  /\ \A j \in activeJobs \cup activeCreations : closing[j] = "done"
  /\ \A j \in LocalJobs : closing[j] \in {"none", "done"}
  /\ life' = [life EXCEPT !.phase = "exited"]
  /\ UNCHANGED <<serving, jobDoc, run, closing, called, tasks>>

\* The budget of the finalisation ran out.
FinalizationTimeout ==
  /\ life.phase = "finalizing"
  /\ life' = [life EXCEPT !.phase = "exited", !.late = TRUE]
  /\ UNCHANGED <<serving, jobDoc, run, closing, called, tasks>>

WebNext ==
  \/ \E j \in LocalJobs :
       \/ CreateJob(j) \/ SaveCreated(j) \/ Announce(j) \/ LoadLocal(j) \/ WorkLocal(j)
       \/ EndLocal(j) \/ CompleteLocal(j) \/ DiscardLocal(j) \/ LeaveLocal(j) \/ CancelLocal(j)
       \/ TaskDone(j) \/ TakeForFinalization(j) \/ FinalizeCreation(j)
       \/ FinalizeRead(j) \/ FinalizeSave(j)
  \/ Shutdown \/ CloseServer \/ WaitForActiveJobs \/ WaitForBackgroundTasks
  \/ StopServices \/ Deadline \/ Finalized \/ FinalizationTimeout

WebSpec == WebInit /\ [][WebNext]_localVars

-----------------------------------------------------------------------------
WebTypeOK ==
  /\ life.phase \in {"up", "closing", "jobs", "tasks", "stopping", "finalizing", "exited"}
  /\ life.code \in {0, 1} /\ life.late \in BOOLEAN /\ serving \in BOOLEAN
  /\ jobDoc \in [LocalJobs -> {"none", "processing"} \cup LocalTerminal]
  /\ \A j \in LocalJobs : run[j].pc \in {"idle", "done"} \cup Creating \cup LocalRunning
  /\ closing \in [LocalJobs -> {"none", "marking", "waiting", "reading", "cancelling", "done"}]
  /\ tasks \subseteq LocalJobs

\* No job is left open by a shutdown: after an orderly exit every job and every tracked
\* task has ended, after a forced one with its finalisation in time every job the process
\* accepted has a terminal status (README: "persisted as retryable cancellations").
NoJobLeftOpen ==
  life.phase = "exited" =>
    /\ life.code = 0 => tasks = {} /\ activeJobs = {} /\ activeCreations = {}
    /\ ~life.late => \A j \in LocalJobs : run[j].pc # "idle" => jobDoc[j] \in LocalTerminal

\* The callback of a completed or cancelled job tells the status the job has, whatever its
\* run, cancelJob and the finalisation do meanwhile (_executeExpandedAnalysis,
\* _executeMarketScanner, _runBackgroundJob).  Not of a failed one: a job that throws may be
\* cancelled after the finally block has read its status, and both events are sent.
CallbackTellsStatus ==
  \A j \in LocalJobs : called[j] \cap {"completed", "cancelled"} \subseteq {jobDoc[j]}
=============================================================================
