---------------------------- MODULE MCSettlement ----------------------------
(* What must end: a queued job, or the signals of a sweeping process.  The two *)
(* share nothing, and one of them moves in each behaviour.                     *)
EXTENDS MCQueuedJob, SignalOutcomes

VARIABLE settling  \* the one that moves

settlementVars == <<vars, outcomeVars, settling>>

SettlementInit == settling \in {"job", "signals"} /\ Init /\ OutcomeInit

SettlementNext ==
  /\ UNCHANGED settling
  /\ \/ settling = "job" /\ Next /\ UNCHANGED outcomeVars
     \/ settling = "signals" /\ OutcomeNext /\ UNCHANGED vars

SettlementSpec ==
  /\ SettlementInit /\ [][SettlementNext]_settlementVars
  /\ settling = "job" => Fairness
  /\ settling = "signals" => OutcomeFairness

\* A job of the queue is settled in the end, whatever single fault happens
\* (jobWorker.js, reconcileQueuedJobs, JobRepository.claim).
JobsSettle == settling = "job" => JobSettles

\* The signals of a process that sweeps are closed in the end, whatever faults
\* happen (runScheduledSweep, evaluatePendingOutcomesInternal).
SignalsClosed == settling = "signals" => EventuallyClosed
=============================================================================
