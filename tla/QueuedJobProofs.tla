--------------------------- MODULE QueuedJobProofs ---------------------------
(***************************************************************************)
(* What QueuedJob guarantees for every number of workers, attempts, claims *)
(* and faults.                                                             *)
(***************************************************************************)
EXTENDS QueuedJob, TLAPS

-----------------------------------------------------------------------------
(* Job objects.                                                             *)

LEMMA AbsentIsNoJob == Absent \notin Job
BY DEF Absent, Job, TerminalStatuses

LEMMA FreshIsJob == FreshJob \in Job /\ Unqueued \in Job
BY DEF FreshJob, Unqueued, Job, TerminalStatuses, ExecStatuses, ClaimStatuses, Checkpoints

LEMMA JobUpdates ==
    ASSUME NEW j \in Job
    PROVE  /\ \A s \in {"processing"} \cup TerminalStatuses : [j EXCEPT !.status = s] \in Job
           /\ \A c \in Checkpoints : [j EXCEPT !.ckpt = c] \in Job
           /\ Finished(j) \in Job
BY DEF Finished, Job, TerminalStatuses, ExecStatuses, ClaimStatuses, Checkpoints

LEMMA RunningIsJob ==
    ASSUME NEW j \in Job \cup {Absent}
    PROVE  [j EXCEPT !.status = "processing", !.exec = "running"] \in Job
<1>1. CASE j \in Job
  BY <1>1 DEF Job, TerminalStatuses, ExecStatuses, ClaimStatuses, Checkpoints
<1>2. CASE j = Absent
  BY <1>2 DEF Absent, Job, TerminalStatuses, ExecStatuses, ClaimStatuses, Checkpoints
<1> QED BY <1>1, <1>2

LEMMA DocUpdates ==
    ASSUME doc \in Job, NEW w \in Workers
    PROVE  ClaimedBy(w) \in Job /\ Released \in Job /\ FailedJob \in Job
<1>1. IdOf[w] \in Ids
  BY RepositoryAssumption
<1>2. doc.attempt + 1 \in Nat
  BY DEF Job
<1>3. ClaimedBy(w) \in Job
  BY <1>1, <1>2 DEF ClaimedBy, Job, ExecStatuses, ClaimStatuses
<1>4. Released \in Job /\ FailedJob \in Job
  BY DEF Released, FailedJob, Job, ExecStatuses, TerminalStatuses
<1> QED BY <1>3, <1>4

LEMMA TerminalIsJob ==
    ASSUME NEW j \in Job \cup {Absent}
    PROVE  (Terminal(j) \/ j.status # "absent") => j \in Job
BY DEF Terminal, Absent, TerminalStatuses

LEMMA ViewType ==
    ASSUME RepositoryTypeOK, NEW p \in Procs
    PROVE  View(p) \in Job \cup {Absent}
BY DEF RepositoryTypeOK, View

-----------------------------------------------------------------------------
(* The operations of the repository keep its types.                         *)

LEMMA FaultyType ==
    ASSUME faults \in 0..MaxFaults, NEW k, Faulty(k)
    PROVE  faults' \in 0..MaxFaults
BY RepositoryAssumption DEF Faulty

LEMMA RememberType ==
    ASSUME RepositoryTypeOK, NEW p \in Procs, NEW j \in Job \cup {Absent}, Remember(p, j)
    PROVE  localTerminal' \in [Procs -> {i \in Job : Terminal(i)} \cup {Absent}]
BY TerminalIsJob DEF RepositoryTypeOK, Remember

LEMMA SaveType ==
    ASSUME RepositoryTypeOK, NEW p \in Procs, NEW j \in Job \cup {Absent},
           SaveOk(p, j) \/ SaveRefused(p, j) \/ SaveFails(p, j)
    PROVE  RepositoryTypeOK'
<1>1. CASE SaveOk(p, j)
  BY <1>1, RememberType DEF SaveOk, Put, RepositoryTypeOK
<1>2. CASE SaveRefused(p, j)
  BY <1>2, RememberType DEF SaveRefused, RepositoryTypeOK
<1>3. CASE SaveFails(p, j)
  BY <1>3, RememberType, FaultyType DEF SaveFails, Put, RepositoryTypeOK
<1> QED BY <1>1, <1>2, <1>3

LEMMA PersistType ==
    ASSUME RepositoryTypeOK, NEW p \in Procs, NEW j \in Job \cup {Absent},
           PersistOk(p, j) \/ PersistRefused(p, j) \/ PersistFails(p, j)
    PROVE  RepositoryTypeOK'
<1>1. CASE UNCHANGED repositoryVars
  BY <1>1 DEF repositoryVars, RepositoryTypeOK
<1>2. CASE SaveOk(p, j) \/ SaveRefused(p, j) \/ SaveFails(p, j)
  BY <1>2, SaveType
<1> QED BY <1>1, <1>2 DEF PersistOk, PersistRefused, PersistFails, repositoryVars

LEMMA UpdateClaimType ==
    ASSUME RepositoryTypeOK, NEW w \in Workers, NEW a,
           \/ UpdateClaim(w, a, Released)
           \/ UpdateClaim(w, a, FailedJob)
           \/ UNCHANGED <<doc, leaseLive>>
    PROVE  doc' \in Job \cup {Absent} /\ leaseLive' \in BOOLEAN
BY DocUpdates, TerminalIsJob
   DEF UpdateClaim, OwnsClaim, Put, RepositoryTypeOK


-----------------------------------------------------------------------------
(* The steps of a worker keep its types.                                    *)

LEMMA MoveType ==
    ASSUME RunTypeOK, NEW w \in Workers, NEW point \in Points, At(w, point),
           \/ UNCHANGED job /\ (point \in Busy => pc[w] \in Busy)
           \/ \E j \in Job : With(w, j),
           UNCHANGED <<claimed, renewal>>,
           \/ UNCHANGED lost
           \/ lost' = [lost EXCEPT ![w] = "lost"]
    PROVE  RunTypeOK'
BY DEF RunTypeOK, At, With

LEMMA LeaveType ==
    ASSUME RunTypeOK, NEW w \in Workers, Leave(w)
    PROVE  RunTypeOK'
BY DEF RunTypeOK, Leave, Busy, Executing, Points

LEMMA ReturnType ==
    ASSUME RunTypeOK, QueueTypeOK, NEW w \in Workers, Return(w)
    PROVE  RunTypeOK' /\ QueueTypeOK'
BY LeaveType DEF Return, QueueTypeOK

LEMMA ThrowType ==
    ASSUME RunTypeOK, QueueTypeOK, NEW w \in Workers, NEW a \in Nat, Throw(w, a)
    PROVE  RunTypeOK' /\ QueueTypeOK'
<1>1. RunTypeOK'
  BY LeaveType DEF Throw
<1>2. CASE lock # w
  BY <1>1, <1>2 DEF Throw, QueueTypeOK
<1>3. CASE lock = w
  <2> DEFINE final == made + 1 >= MaxAttempts
             h     == [worker |-> w, attempt |-> a, final |-> final, tries |-> 1]
  <2>1. h \in Handler
    BY QueuedJobAssumption DEF Handler
  <2>2. handlers' \subseteq Handler
    BY <1>3, <2>1 DEF Throw, QueueTypeOK
  <2>3. made' \in 0..MaxAttempts
    BY <1>3, QueuedJobAssumption DEF Throw, QueueTypeOK
  <2>4. entry' \in {"failed", "waiting"} /\ lock' = Nobody
    BY <1>3 DEF Throw
  <2> QED BY <1>1, <2>2, <2>3, <2>4 DEF QueueTypeOK
<1> QED BY <1>1, <1>2, <1>3

LEMMA CaughtType ==
    ASSUME RunTypeOK, NEW w \in Workers, NEW j \in Job, Caught(w, j),
           UNCHANGED <<claimed, renewal, lost>>
    PROVE  RunTypeOK'
<1>1. \E i \in Job : With(w, i)
  BY JobUpdates DEF Caught, TerminalStatuses
<1> QED BY <1>1, MoveType DEF Caught, Points, Busy, Executing

LEMMA TryType ==
    ASSUME TypeOK, NEW w \in Workers, NEW j \in Job, NEW next \in Points,
           Try(w, j, next)
    PROVE  TypeOK'
<1>1. RepositoryTypeOK'
  BY PersistType DEF Try, TypeOK, Procs, Caught, repositoryVars, RepositoryTypeOK
<1>2. RunTypeOK'
  BY MoveType, CaughtType DEF Try, TypeOK, Points, Busy, Executing
<1>3. QueueTypeOK' /\ WebTypeOK' /\ sends' \in Nat
  BY DEF Try, TypeOK, queueVars, webVars, QueueTypeOK, WebTypeOK
<1> QED BY <1>1, <1>2, <1>3 DEF TypeOK

LEMMA FrameType ==
    /\ RepositoryTypeOK /\ UNCHANGED repositoryVars => RepositoryTypeOK'
    /\ RunTypeOK /\ UNCHANGED runVars => RunTypeOK'
    /\ QueueTypeOK /\ UNCHANGED queueVars => QueueTypeOK'
    /\ WebTypeOK /\ UNCHANGED webVars => WebTypeOK'
BY DEF repositoryVars, runVars, queueVars, webVars,
       RepositoryTypeOK, RunTypeOK, QueueTypeOK, WebTypeOK

LEMMA ClaimStepsType ==
    ASSUME TypeOK, NEW w \in Workers,
           ClaimSkipped(w) \/ ClaimActive(w) \/ ClaimJob(w) \/ ClaimUnavailable(w)
    PROVE  TypeOK'
<1> USE FrameType DEF TypeOK
<1>1. CASE ClaimSkipped(w)
  <2>1. CASE Return(w)
    BY <1>1, <2>1, ReturnType DEF ClaimSkipped
  <2>2. CASE At(w, "closed") /\ UNCHANGED <<job, claimed, lost, renewal, queueVars>>
    BY <1>1, <2>2, MoveType DEF ClaimSkipped, Points, Busy, Executing
  <2> QED BY <1>1, <2>1, <2>2 DEF ClaimSkipped
<1>2. CASE ClaimActive(w)
  BY <1>2, ThrowType DEF ClaimActive
<1>3. CASE ClaimJob(w)
  <2>1. doc \in Job
    BY <1>3, TerminalIsJob DEF ClaimJob, Claimable, RepositoryTypeOK
  <2>2. ClaimedBy(w) \in Job /\ doc.attempt + 1 \in Nat
    BY <2>1, DocUpdates DEF Job
  <2>3. RepositoryTypeOK'
    BY <1>3, <2>2 DEF ClaimJob, Put, RepositoryTypeOK
  <2>4. RunTypeOK'
    BY <1>3, <2>2 DEF ClaimJob, RunTypeOK, With, At, Points, Busy
  <2> QED BY <1>3, <2>3, <2>4 DEF ClaimJob
<1>4. CASE ClaimUnavailable(w)
  <2>1. doc' \in Job \cup {Absent} /\ leaseLive' \in BOOLEAN
    <3>1. CASE UNCHANGED <<doc, leaseLive>>
      BY <3>1 DEF RepositoryTypeOK
    <3>2. CASE Claimable /\ Put(ClaimedBy(w))
      <4>1. doc \in Job
        BY <3>2, TerminalIsJob DEF Claimable, RepositoryTypeOK
      <4> QED BY <3>2, <4>1, DocUpdates DEF Put
    <3> QED BY <1>4, <3>1, <3>2 DEF ClaimUnavailable
  <2>2. RepositoryTypeOK'
    BY <1>4, <2>1, FaultyType DEF ClaimUnavailable, RepositoryTypeOK
  <2> QED BY <1>4, <2>2, ThrowType DEF ClaimUnavailable
<1> QED BY <1>1, <1>2, <1>3, <1>4

LEMMA LoadType ==
    ASSUME TypeOK, NEW w \in Workers, Load(w)
    PROVE  TypeOK'
<1> USE FrameType DEF TypeOK
<1>1. PICK seen \in {View(w), job[w]} :
        /\ Reads(w, seen)
        /\ \/ Throw(w, claimed[w])
           \/ /\ With(w, [seen EXCEPT !.status = "processing", !.exec = "running"])
              /\ At(w, "loaded")
              /\ UNCHANGED <<claimed, lost, renewal, queueVars>>
  BY DEF Load
<1>2. seen \in Job \cup {Absent} /\ claimed[w] \in Nat
  BY ViewType DEF Procs, RunTypeOK
<1>3. RepositoryTypeOK'
  BY <1>1, FaultyType DEF Load, Reads, RepositoryTypeOK
<1>4. CASE Throw(w, claimed[w])
  BY <1>2, <1>3, <1>4, ThrowType DEF Load
<1>5. CASE /\ With(w, [seen EXCEPT !.status = "processing", !.exec = "running"])
           /\ At(w, "loaded")
           /\ UNCHANGED <<claimed, lost, renewal, queueVars>>
  BY <1>2, <1>3, <1>5, RunningIsJob, MoveType DEF Load, Points, Busy
<1> QED BY <1>1, <1>4, <1>5

LEMMA StartType ==
    ASSUME TypeOK, NEW w \in Workers, Start(w)
    PROVE  TypeOK'
<1> USE FrameType DEF TypeOK
<1>1. job[w] \in Job /\ claimed[w] \in Nat /\ w \in Procs
  BY DEF Start, RunTypeOK, Busy, Procs
<1>2. RepositoryTypeOK'
  BY <1>1, PersistType DEF Start
<1>3. CASE Throw(w, claimed[w])
  BY <1>1, <1>2, <1>3, ThrowType DEF Start
<1>4. CASE \/ With(w, [job[w] EXCEPT !.status = "completed"]) /\ At(w, "finally")
              /\ UNCHANGED <<claimed, lost, renewal, queueVars>>
           \/ UNCHANGED job /\ At(w, "running")
              /\ UNCHANGED <<claimed, lost, renewal, queueVars>>
  <2>1. RunTypeOK'
    BY <1>1, <1>4, JobUpdates, MoveType
       DEF Start, Points, Busy, Executing, TerminalStatuses
  <2> QED BY <1>2, <1>4, <2>1 DEF Start
<1> QED BY <1>3, <1>4 DEF Start

LEMMA ExecutionType ==
    ASSUME TypeOK, NEW w \in Workers,
           \/ Analysed(w) \/ Summarise(w) \/ NothingAnalysed(w) \/ ReportFails(w)
           \/ MarkInFlight(w) \/ Send(w) \/ SendRejected(w) \/ MarkSent(w) \/ Complete(w)
           \/ Progress(w) \/ JobTimeout(w)
    PROVE  TypeOK'
<1> USE FrameType DEF TypeOK
<1>1. pc[w] \in Executing
  BY DEF Analysed, Summarise, NothingAnalysed, ReportFails, MarkInFlight, Send, SendRejected,
         MarkSent, Complete, Progress, JobTimeout, Analysing, Executing
<1>2. job[w] \in Job /\ pc[w] \in Points /\ pc[w] \in Busy
  BY <1>1 DEF RunTypeOK, Busy, Points
<1>3. /\ \A s \in {"processing"} \cup TerminalStatuses : [job[w] EXCEPT !.status = s] \in Job
      /\ \A c \in Checkpoints : [job[w] EXCEPT !.ckpt = c] \in Job
  BY <1>2, JobUpdates
<1>4. /\ {"prepared", "ready", "sending", "sent", "delivered", "finally", "overdue"} \subseteq Points
      /\ {"in_flight", "completed"} \subseteq Checkpoints
      /\ {"completed", "failed", "timed_out"} \subseteq TerminalStatuses
  BY DEF Points, Busy, Executing, Checkpoints, TerminalStatuses
<1>5. CASE Analysed(w) \/ JobTimeout(w)
  BY <1>2, <1>4, <1>5, MoveType DEF Analysed, JobTimeout
<1>6. CASE Summarise(w) \/ Progress(w)
  BY <1>2, <1>4, <1>6, TryType DEF Summarise, Progress
<1>7. CASE NothingAnalysed(w)
  BY <1>3, <1>4, <1>7, TryType DEF NothingAnalysed
<1>8. CASE ReportFails(w) \/ SendRejected(w)
  BY <1>2, <1>8, CaughtType DEF ReportFails, SendRejected
<1>9. CASE MarkInFlight(w) \/ MarkSent(w) \/ Complete(w)
  BY <1>2, <1>3, <1>4, <1>9, TryType DEF MarkInFlight, MarkSent, Complete
<1>10. CASE Send(w)
  BY <1>3, <1>4, <1>10, MoveType DEF Send
<1> QED BY <1>5, <1>6, <1>7, <1>8, <1>9, <1>10

LEMMA ClosingType ==
    ASSUME TypeOK, NEW w \in Workers,
           LeaveLost(w) \/ CloseCancelled(w) \/ Finish(w) \/ Close(w) \/ Callback(w)
    PROVE  TypeOK'
<1> USE FrameType DEF TypeOK
<1>1. claimed[w] \in Nat /\ w \in Procs /\ "closed" \in Points \ Busy
  BY DEF RunTypeOK, Procs, Points, Busy, Executing
<1>2. CASE LeaveLost(w)
  BY <1>1, <1>2, ReturnType, ThrowType DEF LeaveLost
<1>3. CASE CloseCancelled(w)
  <2>1. Finished(View(w)) \in Job
    BY <1>1, <1>3, ViewType, TerminalIsJob, JobUpdates DEF CloseCancelled, Cancelled
  <2>2. RepositoryTypeOK'
    BY <1>1, <1>3, <2>1, PersistType DEF CloseCancelled
  <2> QED BY <1>1, <1>3, <2>2, ThrowType, MoveType DEF CloseCancelled
<1>4. CASE Finish(w)
  <2>1. Finished(job[w]) \in Job /\ "closing" \in Points
    BY <1>4, JobUpdates DEF Finish, RunTypeOK, Points, Busy, Executing
  <2> QED BY <1>4, <2>1, MoveType DEF Finish
<1>5. CASE Close(w)
  <2>1. job[w] \in Job
    BY <1>5 DEF Close, RunTypeOK, Busy, Executing
  <2>2. RepositoryTypeOK'
    BY <1>1, <1>5, <2>1, PersistType DEF Close
  <2> QED BY <1>1, <1>5, <2>2, ThrowType, MoveType DEF Close
<1>6. CASE Callback(w)
  <2>1. RepositoryTypeOK'
    BY <1>6, FaultyType DEF Callback, RepositoryTypeOK
  <2> QED BY <1>1, <1>6, <2>1, ReturnType, ThrowType DEF Callback
<1> QED BY <1>2, <1>3, <1>4, <1>5, <1>6

LEMMA BackgroundType ==
    ASSUME TypeOK, NEW w \in Workers,
           \/ Take(w) \/ Pulse(w) \/ RenewalAnswer(w) \/ LoseLock(w) \/ Stalled(w) \/ Crash(w)
    PROVE  TypeOK'
<1> USE FrameType DEF TypeOK
<1>1. CASE Take(w)
  <2>1. RunTypeOK'
    BY <1>1 DEF Take, RunTypeOK, Points, Busy, Executing
  <2> QED BY <1>1, <2>1 DEF Take, QueueTypeOK
<1>2. CASE Pulse(w)
  <2>1. RepositoryTypeOK'
    BY <1>2, FaultyType DEF Pulse, Renew, RepositoryTypeOK
  <2>2. RunTypeOK'
    BY <1>2 DEF Pulse, RunTypeOK
  <2> QED BY <1>2, <2>1, <2>2 DEF Pulse
<1>3. CASE RenewalAnswer(w)
  <2>1. RunTypeOK'
    BY <1>3 DEF RenewalAnswer, RunTypeOK
  <2> QED BY <1>3, <2>1 DEF RenewalAnswer
<1>4. CASE LoseLock(w)
  <2>1. RepositoryTypeOK'
    BY <1>4, FaultyType DEF LoseLock, RepositoryTypeOK
  <2> QED BY <1>4, <2>1 DEF LoseLock, QueueTypeOK
<1>5. CASE Stalled(w)
  <2>1. [worker |-> w, attempt |-> 0, final |-> TRUE, tries |-> 1] \in Handler
    BY QueuedJobAssumption DEF Handler
  <2> QED BY <1>5, <2>1 DEF Stalled, QueueTypeOK
<1>6. CASE Crash(w)
  <2>1. RepositoryTypeOK'
    BY <1>6, FaultyType DEF Crash, RepositoryTypeOK
  <2>2. QueueTypeOK'
    BY <1>6 DEF Crash, QueueTypeOK
  <2> QED BY <1>6, <2>1, <2>2, LeaveType DEF Crash
<1> QED BY <1>1, <1>2, <1>3, <1>4, <1>5, <1>6

-----------------------------------------------------------------------------
(* The failure handlers, the reconciliation and the web process.            *)

LEMMA HandlerType ==
    ASSUME TypeOK, NEW h \in handlers, ReleaseClaim(h) \/ FailClaim(h) \/ Requeue(h)
    PROVE  TypeOK'
<1> USE FrameType DEF TypeOK
<1>1. h \in Handler /\ h.worker \in Workers
  BY DEF QueueTypeOK, Handler
<1>2. handlers \ {h} \subseteq Handler
  BY DEF QueueTypeOK
<1>3. CASE ReleaseClaim(h)
  <2>1. doc' \in Job \cup {Absent} /\ leaseLive' \in BOOLEAN
    BY <1>1, <1>3, UpdateClaimType DEF ReleaseClaim
  <2>2. RepositoryTypeOK'
    BY <1>3, <2>1, FaultyType DEF ReleaseClaim, RepositoryTypeOK
  <2> QED BY <1>2, <1>3, <2>2 DEF ReleaseClaim, Done, QueueTypeOK
<1>4. CASE FailClaim(h)
  <2>1. doc' \in Job \cup {Absent} /\ leaseLive' \in BOOLEAN
    BY <1>1, <1>4, UpdateClaimType DEF FailClaim
  <2>2. RepositoryTypeOK'
    BY <1>4, <2>1, FaultyType DEF FailClaim, RepositoryTypeOK
  <2>3. h.tries < FinalTries => [h EXCEPT !.tries = h.tries + 1] \in Handler
    BY <1>1, QueuedJobAssumption DEF Handler
  <2>4. handlers' \subseteq Handler
    BY <1>2, <1>4, <2>3 DEF FailClaim, Done
  <2> QED BY <1>4, <2>2, <2>4 DEF FailClaim, QueueTypeOK
<1>5. CASE Requeue(h)
  BY <1>2, <1>5 DEF Requeue, Done, QueueTypeOK
<1> QED BY <1>3, <1>4, <1>5

LEMMA CreationType ==
    ASSUME TypeOK, Creation \/ Reconcile \/ LeaseExpires \/ DeleteExpired \/ WebCrash
    PROVE  TypeOK'
<1> USE FrameType DEF TypeOK
<1>1. Web \in Procs
  BY DEF Procs
<1>2. CASE CreateSave
  BY <1>1, <1>2, FreshIsJob, SaveType DEF CreateSave, WebTypeOK
<1>3. CASE Enqueue
  <2>1. RepositoryTypeOK'
    BY <1>3, FaultyType DEF Enqueue, OutOrFaulty, RepositoryTypeOK
  <2>2. QueueTypeOK'
    BY <1>3, QueuedJobAssumption DEF Enqueue, Add, QueueTypeOK
  <2> QED BY <1>3, <2>1, <2>2 DEF Enqueue, WebTypeOK
<1>4. CASE CreateFail
  BY <1>1, <1>4, FreshIsJob, SaveType DEF CreateFail, WebTypeOK
<1>5. CASE Discard
  <2>1. RepositoryTypeOK'
    BY <1>1, <1>5, FaultyType DEF Discard, Delete, OutOrFaulty, RepositoryTypeOK
  <2> QED BY <1>5, <2>1 DEF Discard, WebTypeOK
<1>6. CASE Reconcile
  BY <1>6, QueuedJobAssumption DEF Reconcile, Add, QueueTypeOK
<1>7. CASE LeaseExpires
  BY <1>7 DEF LeaseExpires, Expire, RepositoryTypeOK
<1>8. CASE DeleteExpired
  <2>1. RepositoryTypeOK'
    BY <1>1, <1>8 DEF DeleteExpired, Delete, RepositoryTypeOK
  <2>2. WebTypeOK'
    BY <1>8, QueuedJobAssumption DEF DeleteExpired, WebTypeOK
  <2> QED BY <1>8, <2>1, <2>2 DEF DeleteExpired
<1>9. CASE WebCrash
  <2>1. RepositoryTypeOK'
    BY <1>1, <1>9, FaultyType DEF WebCrash, RepositoryTypeOK
  <2>2. [NoRequest EXCEPT !.step = "done"] \in CancelRequest
    BY DEF NoRequest, CancelRequest
  <2>3. WebTypeOK'
    BY <1>9, <2>2 DEF WebCrash, WebTypeOK
  <2> QED BY <1>9, <2>1, <2>3 DEF WebCrash
<1> QED BY <1>2, <1>3, <1>4, <1>5, <1>6, <1>7, <1>8, <1>9 DEF Creation

LEMMA CancellationType ==
    ASSUME TypeOK, Cancellation
    PROVE  TypeOK'
<1> USE FrameType DEF TypeOK
<1>1. View(Web) \in Job \cup {Absent} /\ cancel.copy \in Job \cup {Absent} /\ Web \in Procs
  BY ViewType DEF Procs, WebTypeOK, CancelRequest
<1>2. View(Web).status \in {"absent", "processing"} \cup TerminalStatuses
  BY <1>1 DEF Job, Absent
<1>3. ASSUME NEW c \in {"success", "TERMINAL_JOB", "CANCEL_REJECTED", "error", "missing"},
             NEW s \in {"absent", "processing"} \cup TerminalStatuses, Answer(c, s)
      PROVE  cancel' \in CancelRequest
  BY <1>3 DEF Answer, CancelRequest
<1>4. CASE CancelRead
  <2>1. cancel' \in CancelRequest
    <3>1. CASE Terminal(View(Web))
      BY <1>2, <1>3, <1>4, <3>1 DEF CancelRead
    <3>2. CASE ~Terminal(View(Web))
      <4>1. [View(Web) EXCEPT !.status = "cancelled"] \in Job
        BY <1>1, <1>4, TerminalIsJob, JobUpdates DEF CancelRead, TerminalStatuses
      <4> QED BY <1>4, <3>2, <4>1 DEF CancelRead, NoRequest, CancelRequest
    <3> QED BY <3>1, <3>2
  <2> QED BY <1>4, <2>1 DEF CancelRead, WebTypeOK
<1>5. CASE CancelCheck
  BY <1>5 DEF CancelCheck, WebTypeOK, CancelRequest
<1>6. CASE CancelSave
  <2>1. cancel' \in CancelRequest
    BY <1>3, <1>6 DEF CancelSave, WebTypeOK, CancelRequest, TerminalStatuses
  <2> QED BY <1>1, <1>6, <2>1, SaveType DEF CancelSave, WebTypeOK
<1>7. CASE CancelRefused
  <2>1. cancel' \in CancelRequest
    BY <1>2, <1>3, <1>7 DEF CancelRefused
  <2> QED BY <1>7, <2>1 DEF CancelRefused, WebTypeOK
<1> QED BY <1>4, <1>5, <1>6, <1>7 DEF Cancellation

-----------------------------------------------------------------------------
\* Every variable keeps its type, and a worker between its claim and the end of its
\* run always holds a job object.
THEOREM TypeCorrect == Spec => []TypeOK
<1>1. Init => TypeOK
  <2> SUFFICES ASSUME Init PROVE TypeOK
    OBVIOUS
  <2>1. RepositoryTypeOK
    <3>1. localTerminal \in [Procs -> {Absent}]
      BY DEF Init, RepositoryInit
    <3>2. faults \in 0..MaxFaults
      BY RepositoryAssumption DEF Init, RepositoryInit
    <3> QED BY <3>1, <3>2 DEF Init, RepositoryInit, RepositoryTypeOK
  <2>2. RunTypeOK
    BY DEF Init, RunTypeOK, Points, Busy, Executing
  <2>3. QueueTypeOK /\ WebTypeOK
    BY QueuedJobAssumption DEF Init, QueueTypeOK, WebTypeOK, NoRequest, CancelRequest
  <2> QED BY <2>1, <2>2, <2>3 DEF TypeOK, Init
<1>2. TypeOK /\ [Next]_vars => TypeOK'
  <2> SUFFICES ASSUME TypeOK, [Next]_vars PROVE TypeOK'
    OBVIOUS
  <2>1. CASE UNCHANGED vars
    BY <2>1, FrameType DEF vars, TypeOK
  <2>2. ASSUME NEW w \in Workers, Take(w) \/ Advance(w) \/ Background(w)
        PROVE  TypeOK'
    BY <2>2, ClaimStepsType, LoadType, StartType, ExecutionType, ClosingType, BackgroundType
       DEF Advance, Background
  <2>3. CASE HandleClaim \/ HandleEntry
    BY <2>3, HandlerType DEF HandleClaim, HandleEntry
  <2>4. CASE Creation \/ Reconcile \/ LeaseExpires \/ DeleteExpired \/ WebCrash
    BY <2>4, CreationType
  <2>5. CASE Cancellation
    BY <2>5, CancellationType
  <2> QED BY <2>1, <2>2, <2>3, <2>4, <2>5 DEF Next
<1> QED BY <1>1, <1>2, PTL DEF Spec

-----------------------------------------------------------------------------
(* A terminal status is final.                                              *)

LEMMA SaveKeepsStatus ==
    ASSUME Terminal(doc), NEW p, NEW j,
           \/ SaveOk(p, j) \/ SaveRefused(p, j) \/ SaveFails(p, j)
           \/ PersistOk(p, j) \/ PersistRefused(p, j) \/ PersistFails(p, j)
    PROVE  doc'.status = doc.status
BY DEF Terminal, TerminalStatuses, SaveOk, SaveRefused, SaveFails, PersistOk, PersistRefused,
       PersistFails, Fenced, Put

LEMMA TryKeepsStatus ==
    ASSUME Terminal(doc), NEW w, NEW j, NEW next, Try(w, j, next)
    PROVE  doc'.status = doc.status
BY SaveKeepsStatus DEF Try, repositoryVars

LEMMA WorkerKeepsStatus ==
    ASSUME Terminal(doc), NEW w \in Workers, Take(w) \/ Advance(w) \/ Background(w)
    PROVE  doc'.status = doc.status
<1>1. CASE ClaimSkipped(w) \/ ClaimActive(w) \/ ClaimJob(w) \/ ClaimUnavailable(w)
  BY <1>1 DEF ClaimSkipped, ClaimActive, ClaimJob, ClaimUnavailable, Claimable, repositoryVars
<1>2. CASE Load(w) \/ Analysed(w) \/ ReportFails(w) \/ Send(w) \/ SendRejected(w)
             \/ LeaveLost(w) \/ Finish(w) \/ Callback(w)
  BY <1>2 DEF Load, Analysed, ReportFails, Send, SendRejected, LeaveLost, Finish, Callback,
              repositoryVars
<1>3. CASE Start(w) \/ CloseCancelled(w) \/ Close(w)
  BY <1>3, SaveKeepsStatus DEF Start, CloseCancelled, Close, repositoryVars
<1>4. CASE Summarise(w) \/ NothingAnalysed(w) \/ MarkInFlight(w) \/ MarkSent(w) \/ Complete(w)
             \/ Progress(w)
  BY <1>4, TryKeepsStatus
     DEF Summarise, NothingAnalysed, MarkInFlight, MarkSent, Complete, Progress
<1>5. CASE Take(w) \/ JobTimeout(w) \/ Pulse(w) \/ RenewalAnswer(w) \/ LoseLock(w)
             \/ Stalled(w) \/ Crash(w)
  BY <1>5 DEF Take, JobTimeout, Pulse, Renew, RenewalAnswer, LoseLock, Stalled, Crash,
              repositoryVars
<1> QED BY <1>1, <1>2, <1>3, <1>4, <1>5 DEF Advance, Background

LEMMA HandlerKeepsStatus ==
    ASSUME Terminal(doc), HandleClaim \/ HandleEntry
    PROVE  doc'.status = doc.status
BY DEF HandleClaim, HandleEntry, ReleaseClaim, FailClaim, Requeue, UpdateClaim, OwnsClaim,
       repositoryVars

LEMMA WebKeepsStatus ==
    ASSUME Terminal(doc),
           \/ Creation \/ Cancellation \/ Reconcile \/ LeaseExpires \/ DeleteExpired \/ WebCrash
    PROVE  doc'.status \in {doc.status, "absent"}
<1>1. CASE CreateSave \/ CreateFail \/ CancelSave
  BY <1>1, SaveKeepsStatus DEF CreateSave, CreateFail, CancelSave
<1>2. CASE Discard \/ DeleteExpired
  BY <1>2 DEF Discard, DeleteExpired, Delete, Absent
<1>3. CASE Enqueue \/ CancelRead \/ CancelCheck \/ CancelRefused \/ Reconcile \/ WebCrash
  BY <1>3 DEF Enqueue, CancelRead, CancelCheck, CancelRefused, Reconcile, WebCrash, repositoryVars
<1>4. CASE LeaseExpires
  BY <1>4 DEF LeaseExpires, Expire
<1> QED BY <1>1, <1>2, <1>3, <1>4 DEF Creation, Cancellation

\* No step of any process replaces a durable terminal status by another one.
THEOREM TerminalIsFinal == Spec => TerminalStays
<1>1. [Next]_vars => [Terminal(doc) => doc'.status \in {doc.status, "absent"}]_vars
  <2> SUFFICES ASSUME Next, Terminal(doc) PROVE doc'.status \in {doc.status, "absent"}
    OBVIOUS
  <2> QED BY WorkerKeepsStatus, HandlerKeepsStatus, WebKeepsStatus DEF Next
<1> QED BY <1>1, PTL DEF Spec, TerminalStays

-----------------------------------------------------------------------------
(* A completed job is one whose alert was sent.  CompletedWasSent speaks of *)
(* the document; it is inductive only with the same promise for every copy  *)
(* of the job: the objects of the workers, what a process remembers as      *)
(* terminal, and the object of a cancellation.                              *)

Honest(j) == /\ j.ckpt = "completed" => sends > 0
             /\ j.status = "completed" => j.ckpt = "completed"

HonestStore == Honest(doc) /\ \A p \in Procs : Honest(localTerminal[p])

\* The awaits between _runBackgroundJob's own read and the end of the delivery.
Working == {"loaded", "running", "overdue", "prepared", "ready", "sending", "sent", "delivered"}

HonestRun(w) ==
    /\ Honest(job[w])
    /\ pc[w] \in Working => job[w].status = "processing"
    /\ pc[w] \in {"sent", "delivered"} => job[w].ckpt = "completed"

HonestCopies == HonestStore /\ (\A w \in Workers : HonestRun(w)) /\ Honest(cancel.copy)

HonestInv == TypeOK /\ HonestCopies

LEMMA HonestConstants == Honest(Absent) /\ Honest(FreshJob) /\ Honest(Unqueued)
BY DEF Honest, Absent, FreshJob, Unqueued

LEMMA HonestSave ==
    ASSUME TypeOK, HonestStore, NEW p \in Procs, NEW j, Honest(j), UNCHANGED sends,
           \/ SaveOk(p, j) \/ SaveRefused(p, j) \/ SaveFails(p, j)
           \/ PersistOk(p, j) \/ PersistRefused(p, j) \/ PersistFails(p, j)
           \/ UNCHANGED repositoryVars
    PROVE  HonestStore'
<1>1. doc' = doc \/ doc' = j
  BY DEF SaveOk, SaveRefused, SaveFails, PersistOk, PersistRefused, PersistFails, Put, repositoryVars
<1>2. localTerminal' = localTerminal \/ localTerminal' = [localTerminal EXCEPT ![p] = j]
  BY DEF SaveOk, SaveRefused, SaveFails, PersistOk, PersistRefused, PersistFails, Remember,
         repositoryVars
<1>3. localTerminal \in [Procs -> {i \in Job : Terminal(i)} \cup {Absent}]
  BY DEF TypeOK, RepositoryTypeOK
<1>4. Honest(doc)'
  BY <1>1 DEF HonestStore, Honest
<1>5. \A q \in Procs : Honest(localTerminal[q])'
  BY <1>2, <1>3 DEF HonestStore, Honest
<1> QED BY <1>4, <1>5 DEF HonestStore

LEMMA HonestMove ==
    ASSUME TypeOK, \A v \in Workers : HonestRun(v), NEW w \in Workers, NEW point, NEW j,
           At(w, point), With(w, j) \/ (UNCHANGED job /\ j = job[w]),
           UNCHANGED sends, Honest(j),
           point \in Working => j.status = "processing",
           point \in {"sent", "delivered"} => j.ckpt = "completed"
    PROVE  (\A v \in Workers : HonestRun(v))'
BY DEF TypeOK, RunTypeOK, At, With, HonestRun, Honest

LEMMA HonestLeave ==
    ASSUME TypeOK, \A v \in Workers : HonestRun(v), NEW w \in Workers, Leave(w), UNCHANGED sends
    PROVE  (\A v \in Workers : HonestRun(v))'
BY HonestConstants DEF TypeOK, RunTypeOK, Leave, HonestRun, Honest, Working

LEMMA HonestUpdates ==
    ASSUME NEW j \in Job, Honest(j)
    PROVE  /\ \A s \in TerminalStatuses \cup {"processing"} :
                (s = "completed" => j.ckpt = "completed") => Honest([j EXCEPT !.status = s])
           /\ \A s : [j EXCEPT !.status = s].status = s
           /\ \A s : [j EXCEPT !.status = s].ckpt = j.ckpt
           /\ Honest(Finished(j))
BY DEF Job, Honest, Finished

LEMMA HonestCaught ==
    ASSUME TypeOK, \A v \in Workers : HonestRun(v), NEW w \in Workers, NEW j \in Job,
           Caught(w, j), UNCHANGED sends, Honest(j)
    PROVE  (\A v \in Workers : HonestRun(v))'
<1>1. PICK i : With(w, i) /\ Honest(i)
  <2>1. CASE lost[w] # "no" \/ Cancelled(View(w))
    BY <2>1 DEF Caught
  <2>2. CASE ~(lost[w] # "no" \/ Cancelled(View(w)))
    <3>1. PICK s \in {"completed", "failed", "timed_out"} :
             /\ With(w, [j EXCEPT !.status = s])
             /\ s = "completed" => j.ckpt = "completed"
      BY <2>2 DEF Caught
    <3>2. Honest([j EXCEPT !.status = s])
      BY <3>1, HonestUpdates DEF TerminalStatuses
    <3> QED BY <3>1, <3>2
  <2> QED BY <2>1, <2>2
<1> QED BY <1>1, HonestMove DEF Caught, Working

LEMMA HonestTry ==
    ASSUME TypeOK, HonestCopies, NEW w \in Workers, NEW j \in Job, NEW next, Try(w, j, next),
           Honest(j), j.status = "processing" \/ next \notin Working,
           next \in {"sent", "delivered"} => j.ckpt = "completed"
    PROVE  HonestCopies'
<1> USE DEF HonestCopies
<1>1. HonestStore'
  BY HonestSave DEF Try, Procs
<1>2. (\A v \in Workers : HonestRun(v))'
  <2>1. CASE At(w, next) /\ With(w, j)
    BY <2>1, HonestMove DEF Try
  <2>2. CASE At(w, "finally") /\ With(w, j)
    BY <2>2, HonestMove DEF Try, Working
  <2>3. CASE Caught(w, j)
    BY <2>3, HonestCaught DEF Try
  <2> QED BY <2>1, <2>2, <2>3 DEF Try
<1>3. Honest(cancel.copy)'
  BY DEF Try, webVars, Honest
<1> QED BY <1>1, <1>2, <1>3

\* A step that leaves a part of the copies alone keeps it honest.
LEMMA HonestFrame ==
    ASSUME HonestCopies, UNCHANGED sends
    PROVE  /\ UNCHANGED <<doc, localTerminal>> => HonestStore'
           /\ UNCHANGED <<pc, job>> => (\A w \in Workers : HonestRun(w))'
           /\ UNCHANGED cancel => Honest(cancel.copy)'
BY DEF HonestCopies, HonestStore, HonestRun, Honest

LEMMA HonestDoc ==
    ASSUME HonestCopies, UNCHANGED <<sends, localTerminal>>,
           \/ \E w \in Workers : Claimable /\ doc' = ClaimedBy(w)
           \/ doc \in Job /\ (doc' = Released \/ doc' = FailedJob)
           \/ doc' = Absent
           \/ doc' = doc,
           TypeOK
    PROVE  HonestStore'
<1>1. CASE \E w \in Workers : Claimable /\ doc' = ClaimedBy(w)
  <2>1. doc \in Job
    BY <1>1, TerminalIsJob DEF Claimable, TypeOK, RepositoryTypeOK
  <2>2. doc'.ckpt = doc.ckpt /\ doc'.status = doc.status
    BY <1>1, <2>1 DEF ClaimedBy, Job
  <2> QED BY <2>2 DEF HonestCopies, HonestStore, Honest
<1>2. CASE doc \in Job /\ (doc' = Released \/ doc' = FailedJob)
  <2>1. doc'.ckpt = doc.ckpt /\ doc'.status \in {doc.status, "failed"}
    BY <1>2 DEF Released, FailedJob, Job
  <2> QED BY <2>1 DEF HonestCopies, HonestStore, Honest
<1>3. CASE doc' = Absent \/ doc' = doc
  BY <1>3, HonestConstants DEF HonestCopies, HonestStore, Honest
<1> QED BY <1>1, <1>2, <1>3

LEMMA HonestClaims ==
    ASSUME HonestInv, NEW w \in Workers,
           ClaimSkipped(w) \/ ClaimActive(w) \/ ClaimJob(w) \/ ClaimUnavailable(w)
    PROVE  HonestCopies'
<1> USE HonestFrame DEF HonestInv
<1>1. (\A v \in Workers : HonestRun(v))'
  <2> USE DEF HonestCopies
  <2>1. CASE Leave(w) /\ UNCHANGED sends
    BY <2>1, HonestLeave
  <2>2. CASE At(w, "closed") /\ UNCHANGED <<job, sends>>
    BY <2>2, HonestMove DEF HonestRun, Working
  <2>3. CASE ClaimJob(w)
    <3>1. doc \in Job
      BY <2>3, TerminalIsJob DEF ClaimJob, Claimable, TypeOK, RepositoryTypeOK
    <3>2. Honest(ClaimedBy(w))
      BY <3>1 DEF ClaimedBy, Honest, HonestStore, Job
    <3> QED BY <2>3, <3>2, HonestMove DEF ClaimJob, Working
  <2> QED BY <2>1, <2>2, <2>3
          DEF ClaimSkipped, ClaimActive, ClaimUnavailable, Return, Throw
<1>2. HonestStore'
  BY HonestDoc
     DEF ClaimSkipped, ClaimActive, ClaimJob, ClaimUnavailable, Put, repositoryVars
<1>3. Honest(cancel.copy)'
  BY DEF ClaimSkipped, ClaimActive, ClaimJob, ClaimUnavailable, webVars
<1> QED BY <1>1, <1>2, <1>3 DEF HonestCopies

LEMMA HonestLoad ==
    ASSUME HonestInv, NEW w \in Workers, Load(w) \/ Start(w)
    PROVE  HonestCopies'
<1> USE HonestFrame DEF HonestInv
<1>1. Honest(cancel.copy)' /\ UNCHANGED sends
  BY DEF Load, Start, webVars
<1>2. CASE Throw(w, claimed[w])
  <2>1. (\A v \in Workers : HonestRun(v))'
    BY <1>1, <1>2, HonestLeave DEF Throw, HonestCopies
  <2>2. HonestStore'
    <3>1. CASE Load(w)
      BY <1>1, <3>1 DEF Load
    <3>2. CASE Start(w)
      BY <1>1, <3>2, HonestSave DEF Start, HonestCopies, HonestRun, Procs
    <3> QED BY <3>1, <3>2
  <2> QED BY <1>1, <2>1, <2>2 DEF HonestCopies
<1>3. CASE Load(w) /\ ~Throw(w, claimed[w])
  <2>1. PICK seen \in {View(w), job[w]} :
          /\ With(w, [seen EXCEPT !.status = "processing", !.exec = "running"])
          /\ At(w, "loaded")
    BY <1>3 DEF Load
  <2>2. seen \in Job \cup {Absent} /\ Honest(seen)
    BY ViewType DEF Procs, TypeOK, RunTypeOK, HonestCopies, HonestStore, HonestRun, View
  <2> DEFINE j == [seen EXCEPT !.status = "processing", !.exec = "running"]
  <2>3. j.status = "processing" /\ j.ckpt = seen.ckpt
    BY <2>2 DEF Job, Absent
  <2>4. Honest(j)
    BY <2>2, <2>3 DEF Honest
  <2>5. (\A v \in Workers : HonestRun(v))'
    BY <1>1, <2>1, <2>3, <2>4, HonestMove DEF HonestCopies
  <2>6. HonestStore'
    BY <1>1, <1>3 DEF Load
  <2> QED BY <1>1, <2>5, <2>6 DEF HonestCopies
<1>4. CASE Start(w) /\ ~Throw(w, claimed[w])
  <2>1. job[w] \in Job /\ Honest(job[w]) /\ job[w].status = "processing"
    BY <1>4 DEF Start, TypeOK, RunTypeOK, Busy, HonestCopies, HonestRun, Working
  <2>2. HonestStore'
    BY <1>1, <1>4, <2>1, HonestSave DEF Start, HonestCopies, Procs
  <2>3. (\A v \in Workers : HonestRun(v))'
    <3>1. CASE job[w].ckpt = "completed"
      <4>1. Honest([job[w] EXCEPT !.status = "completed"])
        BY <2>1, <3>1, HonestUpdates DEF TerminalStatuses
      <4>2. With(w, [job[w] EXCEPT !.status = "completed"]) /\ At(w, "finally")
        BY <1>4, <3>1 DEF Start
      <4> QED BY <1>1, <4>1, <4>2, HonestMove DEF HonestCopies, Working
    <3>2. CASE job[w].ckpt # "completed"
      BY <1>1, <1>4, <2>1, <3>2, HonestMove DEF Start, HonestCopies
    <3> QED BY <3>1, <3>2
  <2> QED BY <1>1, <2>2, <2>3 DEF HonestCopies
<1> QED BY <1>2, <1>3, <1>4

LEMMA HonestExecution ==
    ASSUME HonestInv, NEW w \in Workers,
           \/ Analysed(w) \/ Summarise(w) \/ NothingAnalysed(w) \/ ReportFails(w)
           \/ MarkInFlight(w) \/ SendRejected(w) \/ MarkSent(w) \/ Complete(w)
           \/ Progress(w) \/ JobTimeout(w)
    PROVE  HonestCopies'
<1> USE HonestFrame DEF HonestInv
<1>1. pc[w] \in {"running", "overdue", "prepared", "ready", "sending", "sent", "delivered"}
  BY DEF Analysed, Summarise, NothingAnalysed, ReportFails, MarkInFlight, SendRejected,
         MarkSent, Complete, Progress, JobTimeout, Analysing
<1>2. /\ job[w] \in Job /\ Honest(job[w]) /\ job[w].status = "processing"
      /\ pc[w] \in {"sent", "delivered"} => job[w].ckpt = "completed"
  BY <1>1 DEF TypeOK, RunTypeOK, Busy, Executing, HonestCopies, HonestRun, Working
<1>3. CASE Analysed(w) \/ JobTimeout(w)
  <2>1. (\A v \in Workers : HonestRun(v))'
    BY <1>2, <1>3, HonestMove DEF Analysed, JobTimeout, HonestCopies
  <2> QED BY <1>3, <2>1
          DEF Analysed, JobTimeout, repositoryVars, webVars, HonestCopies
<1>4. CASE Summarise(w) \/ Progress(w)
  <2>1. CASE Summarise(w)
    BY <1>2, <2>1, HonestTry DEF Summarise
  <2>2. CASE Progress(w)
    BY <1>1, <1>2, <2>2, HonestTry DEF Progress, Analysing
  <2> QED BY <1>4, <2>1, <2>2
<1>5. CASE NothingAnalysed(w)
  <2>1. PICK s \in {"failed", "timed_out"} : Try(w, [job[w] EXCEPT !.status = s], "finally")
    BY <1>5 DEF NothingAnalysed
  <2>2. [job[w] EXCEPT !.status = s] \in Job /\ Honest([job[w] EXCEPT !.status = s])
    BY <1>2, JobUpdates, HonestUpdates DEF TerminalStatuses
  <2> QED BY <2>1, <2>2, HonestTry DEF Working
<1>6. CASE ReportFails(w) \/ SendRejected(w)
  <2>1. (\A v \in Workers : HonestRun(v))'
    BY <1>2, <1>6, HonestCaught DEF ReportFails, SendRejected, HonestCopies
  <2> QED BY <1>6, <2>1
          DEF ReportFails, SendRejected, repositoryVars, webVars, HonestCopies
<1>7. CASE MarkInFlight(w)
  <2> DEFINE j == [job[w] EXCEPT !.ckpt = "in_flight"]
  <2>1. j \in Job
    BY <1>2, JobUpdates DEF Checkpoints
  <2>2. j.status = "processing" /\ Honest(j)
    BY <1>2 DEF Job, Honest
  <2> QED BY <1>7, <2>1, <2>2, HonestTry DEF MarkInFlight
<1>8. CASE MarkSent(w)
  BY <1>2, <1>8, HonestTry DEF MarkSent
<1>9. CASE Complete(w)
  <2> DEFINE j == [job[w] EXCEPT !.status = "completed"]
  <2>1. j \in Job
    BY <1>2, JobUpdates DEF TerminalStatuses
  <2>2. Honest(j)
    BY <1>2, <1>9, HonestUpdates DEF Complete, TerminalStatuses
  <2> QED BY <1>9, <2>1, <2>2, HonestTry DEF Complete, Working
<1> QED BY <1>3, <1>4, <1>5, <1>6, <1>7, <1>8, <1>9

LEMMA HonestSend ==
    ASSUME HonestInv, NEW w \in Workers, Send(w)
    PROVE  HonestCopies'
<1> DEFINE j == [job[w] EXCEPT !.ckpt = "completed"]
<1>1. job[w] \in Job /\ job[w].status = "processing" /\ sends' > 0
  BY DEF Send, HonestInv, TypeOK, RunTypeOK, Busy, Executing, HonestCopies, HonestRun, Working
<1>2. j.status = "processing" /\ j.ckpt = "completed"
  BY <1>1 DEF Job
<1>3. (\A v \in Workers : HonestRun(v))'
  BY <1>1, <1>2
     DEF Send, At, With, HonestInv, TypeOK, RunTypeOK, HonestCopies, HonestRun, Honest
<1>4. HonestStore' /\ Honest(cancel.copy)'
  BY <1>1 DEF Send, repositoryVars, webVars, HonestInv, HonestCopies, HonestStore, Honest
<1> QED BY <1>3, <1>4 DEF HonestCopies

LEMMA HonestClosing ==
    ASSUME HonestInv, NEW w \in Workers,
           LeaveLost(w) \/ CloseCancelled(w) \/ Finish(w) \/ Close(w) \/ Callback(w)
    PROVE  HonestCopies'
<1> USE HonestFrame DEF HonestInv
<1>1. UNCHANGED sends /\ Honest(cancel.copy)'
  BY DEF LeaveLost, CloseCancelled, Finish, Close, Callback, webVars
<1>2. (\A v \in Workers : HonestRun(v))'
  <2> USE DEF HonestCopies
  <2>1. CASE Leave(w)
    BY <1>1, <2>1, HonestLeave
  <2>2. CASE At(w, "closed") /\ UNCHANGED job
    BY <1>1, <2>2, HonestMove DEF HonestRun, Working
  <2>3. CASE Finish(w)
    <3>1. job[w] \in Job
      BY <2>3 DEF Finish, TypeOK, RunTypeOK, Busy, Executing
    <3>2. Honest(Finished(job[w]))
      BY <3>1, HonestUpdates DEF HonestRun
    <3> QED BY <1>1, <2>3, <3>2, HonestMove DEF Finish, Working
  <2> QED BY <2>1, <2>2, <2>3
          DEF LeaveLost, CloseCancelled, Close, Callback, Return, Throw
<1>3. HonestStore'
  <2>1. CASE LeaveLost(w) \/ Finish(w) \/ Callback(w)
    BY <1>1, <2>1 DEF LeaveLost, Finish, Callback, repositoryVars
  <2>2. CASE CloseCancelled(w)
    <3>1. View(w) \in Job /\ Honest(View(w))
      BY <2>2, ViewType, TerminalIsJob
         DEF CloseCancelled, Cancelled, Procs, TypeOK, HonestCopies, HonestStore, View
    <3>2. Honest(Finished(View(w)))
      BY <3>1, HonestUpdates
    <3> QED BY <1>1, <2>2, <3>2, HonestSave DEF CloseCancelled, HonestCopies, Procs
  <2>3. CASE Close(w)
    BY <1>1, <2>3, HonestSave DEF Close, HonestCopies, HonestRun, Procs
  <2> QED BY <2>1, <2>2, <2>3
<1> QED BY <1>1, <1>2, <1>3 DEF HonestCopies

LEMMA HonestBackground ==
    ASSUME HonestInv, NEW w \in Workers,
           \/ Take(w) \/ Pulse(w) \/ RenewalAnswer(w) \/ LoseLock(w) \/ Stalled(w) \/ Crash(w)
    PROVE  HonestCopies'
<1> USE HonestFrame DEF HonestInv
<1>1. UNCHANGED sends /\ Honest(cancel.copy)'
  BY DEF Take, Pulse, RenewalAnswer, LoseLock, Stalled, Crash, webVars
<1>2. CASE Take(w)
  <2>1. (\A v \in Workers : HonestRun(v))'
    BY <1>1, <1>2, HonestMove DEF Take, At, HonestCopies, HonestRun, Working
  <2> QED BY <1>1, <1>2, <2>1 DEF Take, repositoryVars, HonestCopies
<1>3. CASE Pulse(w) \/ RenewalAnswer(w) \/ LoseLock(w) \/ Stalled(w)
  <2>1. UNCHANGED <<doc, localTerminal>> /\ UNCHANGED <<pc, job>>
    BY <1>3 DEF Pulse, Renew, RenewalAnswer, LoseLock, Stalled, repositoryVars, runVars
  <2> QED BY <1>1, <2>1 DEF HonestCopies
<1>4. CASE Crash(w)
  <2>1. HonestStore'
    BY <1>1, <1>4, HonestConstants
       DEF Crash, HonestCopies, HonestStore, Honest, TypeOK, RepositoryTypeOK
  <2>2. (\A v \in Workers : HonestRun(v))'
    BY <1>1, <1>4, HonestLeave DEF Crash, HonestCopies
  <2> QED BY <1>1, <2>1, <2>2 DEF HonestCopies
<1> QED BY <1>2, <1>3, <1>4

LEMMA HonestHandlers ==
    ASSUME HonestInv, HandleClaim \/ HandleEntry
    PROVE  HonestCopies'
<1> USE HonestFrame DEF HonestInv
<1>1. UNCHANGED <<sends, localTerminal, pc, job, cancel>>
  BY DEF HandleClaim, HandleEntry, ReleaseClaim, FailClaim, Requeue,
         runVars, webVars, repositoryVars
<1>2. HonestStore'
  <2>1. doc' = doc \/ (doc \in Job /\ (doc' = Released \/ doc' = FailedJob))
    BY TerminalIsJob
       DEF HandleClaim, HandleEntry, ReleaseClaim, FailClaim, Requeue, UpdateClaim, OwnsClaim,
           Put, repositoryVars, TypeOK, RepositoryTypeOK
  <2> QED BY <1>1, <2>1, HonestDoc
<1> QED BY <1>1, <1>2 DEF HonestCopies

LEMMA HonestWeb ==
    ASSUME HonestInv,
           \/ Creation \/ Cancellation \/ Reconcile \/ LeaseExpires \/ DeleteExpired \/ WebCrash
    PROVE  HonestCopies'
<1> USE HonestFrame, HonestConstants DEF HonestInv
<1>1. UNCHANGED <<sends, pc, job>> /\ Web \in Procs
  BY DEF Creation, CreateSave, Enqueue, CreateFail, Discard, Cancellation, CancelRead,
         CancelCheck, CancelSave, CancelRefused, Reconcile, LeaseExpires, DeleteExpired,
         WebCrash, runVars, Procs
<1>2. (\A v \in Workers : HonestRun(v))'
  BY <1>1
<1>3. HonestStore'
  <2>1. CASE CreateSave \/ CreateFail \/ CancelSave
    BY <1>1, <2>1, HonestSave DEF CreateSave, CreateFail, CancelSave, HonestCopies
  <2>2. CASE Discard \/ DeleteExpired \/ WebCrash
    <3>1. doc' \in {doc, Absent}
      BY <2>2 DEF Discard, DeleteExpired, WebCrash, Delete
    <3>2. localTerminal' = localTerminal \/ localTerminal' = [localTerminal EXCEPT ![Web] = Absent]
      BY <2>2 DEF Discard, DeleteExpired, WebCrash, Delete
    <3> QED BY <1>1, <3>1, <3>2
            DEF HonestCopies, HonestStore, Honest, TypeOK, RepositoryTypeOK
  <2>3. CASE Enqueue \/ CancelRead \/ CancelCheck \/ CancelRefused \/ Reconcile \/ LeaseExpires
    BY <1>1, <2>3
       DEF Enqueue, CancelRead, CancelCheck, CancelRefused, Reconcile, LeaseExpires, Expire,
           repositoryVars
  <2> QED BY <2>1, <2>2, <2>3 DEF Creation, Cancellation
<1>4. Honest(cancel.copy)'
  <2>1. CASE CancelRead
    <3>1. CASE Terminal(View(Web))
      <4>1. cancel'.copy = Absent
        BY <2>1, <3>1 DEF CancelRead, Answer
      <4> QED BY <1>1, <4>1 DEF Honest
    <3>2. CASE ~Terminal(View(Web))
      <4>1. View(Web) \in Job /\ Honest(View(Web))
        BY <1>1, <2>1, ViewType, TerminalIsJob
           DEF CancelRead, TypeOK, HonestCopies, HonestStore, View
      <4>2. Honest([View(Web) EXCEPT !.status = "cancelled"])
        BY <4>1, HonestUpdates DEF TerminalStatuses
      <4>3. cancel'.copy = [View(Web) EXCEPT !.status = "cancelled"]
        BY <2>1, <3>2 DEF CancelRead, NoRequest
      <4> QED BY <1>1, <4>2, <4>3 DEF Honest
    <3> QED BY <3>1, <3>2
  <2>2. CASE ~CancelRead
    <3>1. cancel'.copy \in {cancel.copy, Absent}
      BY <2>2 DEF Creation, CreateSave, Enqueue, CreateFail, Discard, Cancellation,
         CancelCheck, CancelSave, CancelRefused, Reconcile, LeaseExpires, DeleteExpired,
         WebCrash, Answer, NoRequest, webVars, TypeOK, WebTypeOK, CancelRequest
    <3> QED BY <1>1, <3>1 DEF HonestCopies, Honest
  <2> QED BY <2>1, <2>2
<1> QED BY <1>2, <1>3, <1>4 DEF HonestCopies

LEMMA HonestAlways == Spec => []HonestInv
<1>1. Init => HonestCopies
  BY HonestConstants
     DEF Init, RepositoryInit, NoRequest, HonestCopies, HonestStore, HonestRun, Working
<1>2. HonestInv /\ [Next]_vars => HonestCopies'
  <2> SUFFICES ASSUME HonestInv, [Next]_vars PROVE HonestCopies'
    OBVIOUS
  <2>1. CASE UNCHANGED vars
    BY <2>1 DEF vars, repositoryVars, runVars, webVars, HonestInv, HonestCopies, HonestStore,
                HonestRun, Honest
  <2>2. ASSUME NEW w \in Workers, Take(w) \/ Advance(w) \/ Background(w)
        PROVE  HonestCopies'
    BY <2>2, HonestClaims, HonestLoad, HonestExecution, HonestSend, HonestClosing,
       HonestBackground DEF Advance, Background
  <2>3. CASE HandleClaim \/ HandleEntry
    BY <2>3, HonestHandlers
  <2>4. CASE Creation \/ Cancellation \/ Reconcile \/ LeaseExpires \/ DeleteExpired \/ WebCrash
    BY <2>4, HonestWeb
  <2> QED BY <2>1, <2>2, <2>3, <2>4 DEF Next
<1> QED BY <1>1, <1>2, TypeCorrect, PTL DEF Spec, HonestInv

\* Whatever fails, restarts or is taken over: a job whose document says completed has
\* sent its alert and recorded that.
THEOREM CompletionIsEarned == Spec => []CompletedWasSent
<1>1. HonestInv => CompletedWasSent
  BY DEF HonestInv, HonestCopies, HonestStore, Honest, CompletedWasSent
<1> QED BY <1>1, HonestAlways, PTL

-----------------------------------------------------------------------------
(* _persistJob is skipped once the claim is known to be lost.  That the     *)
(* alert goes out once needs therefore that the answer of a failed renewal  *)
(* does not arrive between the last look at the signal and the checkpoint.  *)
(* It can: the run UncheckedSend shows what happens then.                   *)

Unwatched == {"overdue", "prepared", "ready"}

LossSeen == \A w \in Workers : pc[w] \in Unwatched => lost[w] = "no"

\* Where a step of w leaves it: where it was, or at an await other than the send.
Elsewhere(w) ==
    \/ pc' = pc /\ (lost' = lost \/ pc[w] \notin Unwatched)
    \/ \E point \in Points \ {"sending"} :
         At(w, point) /\ (point \in Unwatched => lost'[w] = "no")

LEMMA TryElsewhere ==
    ASSUME TypeOK, NEW w \in Workers, NEW j, NEW next \in Points \ {"sending"}, Try(w, j, next),
           next \in Unwatched => lost[w] = "no"
    PROVE  Elsewhere(w) /\ (\A v \in Workers \ {w} : lost'[v] = lost[v])
BY DEF Try, Caught, Elsewhere, TypeOK, RunTypeOK, Unwatched, Points, Busy, Executing

LEMMA WorkerElsewhere ==
    ASSUME TypeOK, LossSeen, LossPoints \cap Unwatched = {}, NEW w \in Workers,
           Take(w) \/ Advance(w) \/ Background(w), ~MarkInFlight(w)
    PROVE  Elsewhere(w) /\ (\A v \in Workers \ {w} : lost'[v] = lost[v])
<1> USE DEF LossSeen
<1>1. CASE Leave(w)
  BY <1>1 DEF Leave, Elsewhere, At, TypeOK, RunTypeOK, Points, Busy, Executing, Unwatched
<1>2. CASE /\ UNCHANGED lost
           /\ \E point \in {"taken", "closed", "claimed", "loaded", "running", "sent", "finally",
                            "closing"} : At(w, point)
  BY <1>2 DEF Elsewhere, Points, Busy, Executing, Unwatched
<1>3. CASE Progress(w)
  BY <1>3, TryElsewhere DEF Progress, Analysing, Points, Busy, Executing, Unwatched
<1>4. CASE Analysed(w) \/ JobTimeout(w)
  BY <1>4 DEF Analysed, Analysing, SeesLoss, JobTimeout, Elsewhere, TypeOK, RunTypeOK, Points,
              Busy, Executing, Unwatched
<1>5. CASE Summarise(w) \/ NothingAnalysed(w) \/ MarkSent(w) \/ Complete(w)
  BY <1>5, TryElsewhere
     DEF Summarise, NothingAnalysed, MarkSent, Complete, Points, Busy, Executing, Unwatched
<1>6. CASE Pulse(w) \/ RenewalAnswer(w) \/ LoseLock(w) \/ Stalled(w)
  BY <1>6 DEF Pulse, RenewalAnswer, LoseLock, Stalled, runVars, Elsewhere, TypeOK, RunTypeOK
<1>7. CASE ClaimSkipped(w) \/ ClaimActive(w) \/ ClaimJob(w) \/ ClaimUnavailable(w) \/ Load(w)
             \/ Start(w) \/ Take(w)
  BY <1>1, <1>2, <1>7
     DEF ClaimSkipped, ClaimActive, ClaimJob, ClaimUnavailable, Load, Start, Take, Return, Throw,
         At
<1>8. CASE ReportFails(w) \/ Send(w) \/ SendRejected(w)
  BY <1>2, <1>8 DEF ReportFails, Send, SendRejected, Caught
<1>9. CASE LeaveLost(w) \/ CloseCancelled(w) \/ Finish(w) \/ Close(w) \/ Callback(w) \/ Crash(w)
  BY <1>1, <1>2, <1>9
     DEF LeaveLost, CloseCancelled, Finish, Close, Callback, Crash, Return, Throw
<1> QED BY <1>3, <1>4, <1>5, <1>6, <1>7, <1>8, <1>9 DEF Advance, Background

LEMMA MarkedInFlight ==
    ASSUME HonestInv, LossSeen, NEW w \in Workers, MarkInFlight(w)
    PROVE  /\ \/ At(w, "finally")
              \/ At(w, "sending") /\ doc'.ckpt = "in_flight" /\ doc'.status = "processing"
           /\ \A v \in Workers \ {w} : lost'[v] = lost[v]
<1>1. lost[w] = "no" /\ job[w] \in Job /\ job[w].status = "processing"
  BY DEF MarkInFlight, LossSeen, Unwatched, HonestInv, TypeOK, RunTypeOK, Busy, Executing,
         HonestCopies, HonestRun, Working
<1> DEFINE j == [job[w] EXCEPT !.ckpt = "in_flight"]
<1>2. j.ckpt = "in_flight" /\ j.status = "processing"
  BY <1>1 DEF Job
<1>3. Try(w, j, "sending")
  BY DEF MarkInFlight
<1> HIDE DEF j
<1>4. CASE PersistOk(w, j) /\ At(w, "sending") /\ UNCHANGED lost
  BY <1>2, <1>4 DEF PersistOk, SaveOk, Put
<1>5. CASE At(w, "finally") /\ (UNCHANGED lost \/ lost' = [lost EXCEPT ![w] = "lost"])
  BY <1>5 DEF HonestInv, TypeOK, RunTypeOK
<1> QED BY <1>1, <1>3, <1>4, <1>5 DEF Try, Caught

LEMMA OthersStay ==
    ASSUME HandleClaim \/ HandleEntry \/ Reconcile \/ Creation \/ Cancellation
           \/ DeleteExpired \/ WebCrash \/ LeaseExpires
    PROVE  UNCHANGED <<pc, lost>>
BY DEF HandleClaim, HandleEntry, ReleaseClaim, FailClaim, Requeue, Reconcile, Creation,
       CreateSave, Enqueue, CreateFail, Discard, Cancellation, CancelRead, CancelCheck,
       CancelSave, CancelRefused, DeleteExpired, WebCrash, LeaseExpires, runVars

LEMMA LossSeenStep ==
    ASSUME LossPoints \cap Unwatched = {}, HonestInv, LossSeen, [Next]_vars
    PROVE  LossSeen'
<1>1. CASE UNCHANGED vars
  BY <1>1 DEF vars, runVars, LossSeen
<1>2. ASSUME NEW w \in Workers, Take(w) \/ Advance(w) \/ Background(w)
      PROVE  LossSeen'
  <2> USE DEF HonestInv, TypeOK, RunTypeOK, LossSeen, At, Unwatched
  <2>1. CASE MarkInFlight(w)
    BY <2>1, MarkedInFlight
  <2>2. CASE ~MarkInFlight(w)
    BY <1>2, <2>2, WorkerElsewhere DEF Elsewhere
  <2> QED BY <2>1, <2>2
<1>3. CASE UNCHANGED <<pc, lost>>
  BY <1>3 DEF LossSeen
<1> QED BY <1>1, <1>2, <1>3, OthersStay DEF Next

LEMMA LossSeenAlways ==
    ASSUME LossPoints \cap Unwatched = {}
    PROVE  Spec => [](HonestInv /\ LossSeen)
<1>1. Init => LossSeen
  BY DEF Init, LossSeen
<1>2. HonestInv /\ LossSeen /\ [Next]_vars => LossSeen'
  BY LossSeenStep
<1> QED BY <1>1, <1>2, HonestAlways, PTL DEF Spec

-----------------------------------------------------------------------------
(* A confirmed cancellation is durable.  What the web process remembers     *)
(* keeps its own late creation steps from deleting the cancelled document.  *)

Untouched ==
    /\ doc = Absent /\ entry = "absent" /\ handlers = {}
    /\ localTerminal[Web] = Absent
    /\ \A w \in Workers : pc[w] = "idle"
    /\ cancel = NoRequest

RequestInv ==
    /\ create = "new" => Untouched
    /\ create = "discarding" => localTerminal[Web].status = "failed"
    /\ cancel.step \in {"read", "checked"} => cancel.copy.status = "cancelled"
    /\ cancel.step # "done" => cancel.code = "none"

Confirmed ==
    /\ doc.status = "cancelled" /\ create # "discarding"
    /\ create \in {"saved", "failing"} => localTerminal[Web].status = "cancelled"

CancelInv == RequestInv /\ (cancel.code = "success" /\ expiries = 0 => Confirmed)

LEMMA PersistIsLocal ==
    ASSUME TypeOK, NEW w \in Workers, NEW j,
           \/ PersistOk(w, j) \/ PersistRefused(w, j) \/ PersistFails(w, j)
           \/ UNCHANGED repositoryVars
    PROVE  localTerminal'[Web] = localTerminal[Web]
<1>1. localTerminal' = localTerminal \/ localTerminal' = [localTerminal EXCEPT ![w] = j]
  BY DEF SaveOk, SaveRefused, SaveFails, PersistOk, PersistRefused, PersistFails, Remember,
         repositoryVars
<1> QED BY <1>1, RepositoryAssumption DEF TypeOK, RepositoryTypeOK, Procs

\* A worker keeps its memory to itself.
LEMMA WorkerIsLocal ==
    ASSUME TypeOK, NEW w \in Workers, Take(w) \/ Advance(w) \/ Background(w)
    PROVE  localTerminal'[Web] = localTerminal[Web] /\ UNCHANGED webVars
<1>1. CASE ClaimSkipped(w) \/ ClaimActive(w) \/ ClaimJob(w) \/ ClaimUnavailable(w) \/ Load(w)
  BY <1>1 DEF ClaimSkipped, ClaimActive, ClaimJob, ClaimUnavailable, Load, repositoryVars
<1>2. CASE Start(w) \/ CloseCancelled(w) \/ Close(w)
  BY <1>2, PersistIsLocal DEF Start, CloseCancelled, Close
<1>3. CASE Summarise(w) \/ NothingAnalysed(w) \/ MarkInFlight(w) \/ MarkSent(w) \/ Complete(w)
             \/ Progress(w)
  BY <1>3, PersistIsLocal
     DEF Summarise, NothingAnalysed, MarkInFlight, MarkSent, Complete, Progress, Try
<1>4. CASE Analysed(w) \/ ReportFails(w) \/ Send(w) \/ SendRejected(w) \/ LeaveLost(w)
             \/ Finish(w) \/ Callback(w) \/ Take(w) \/ JobTimeout(w) \/ Pulse(w)
             \/ RenewalAnswer(w) \/ LoseLock(w) \/ Stalled(w)
  BY <1>4 DEF Analysed, ReportFails, Send, SendRejected, LeaveLost, Finish, Callback, Take,
              JobTimeout, Pulse, RenewalAnswer, LoseLock, Stalled, repositoryVars
<1>5. CASE Crash(w)
  BY <1>5, RepositoryAssumption DEF Crash, TypeOK, RepositoryTypeOK, Procs
<1> QED BY <1>1, <1>2, <1>3, <1>4, <1>5 DEF Advance, Background

\* Nothing happens to a job before it is saved.
LEMMA UntouchedByWorkers ==
    ASSUME TypeOK, Untouched, NEW w \in Workers
    PROVE  /\ ~Take(w) /\ ~Advance(w)
           /\ Background(w) => UNCHANGED <<doc, entry, pc>> /\ handlers' = {}
<1>1. pc[w] = "idle" /\ entry = "absent" /\ handlers = {}
  BY DEF Untouched
<1>2. ~Take(w) /\ ~ClaimSkipped(w) /\ ~ClaimActive(w) /\ ~ClaimJob(w) /\ ~ClaimUnavailable(w)
      /\ ~Load(w) /\ ~Start(w) /\ ~Callback(w)
  BY <1>1 DEF Take, ClaimSkipped, ClaimActive, ClaimJob, ClaimUnavailable, Load, Start, Callback
<1>3. ~Analysed(w) /\ ~Summarise(w) /\ ~NothingAnalysed(w) /\ ~ReportFails(w)
      /\ ~MarkInFlight(w) /\ ~Send(w) /\ ~SendRejected(w) /\ ~MarkSent(w) /\ ~Complete(w)
      /\ ~LeaveLost(w) /\ ~CloseCancelled(w) /\ ~Finish(w) /\ ~Close(w)
  BY <1>1 DEF Analysed, Analysing, Summarise, NothingAnalysed, ReportFails, MarkInFlight, Send,
              SendRejected, MarkSent, Complete, LeaveLost, CloseCancelled, Finish, Close
<1>4. ~Progress(w) /\ ~JobTimeout(w) /\ ~Pulse(w) /\ ~RenewalAnswer(w) /\ ~Stalled(w)
  BY <1>1 DEF Progress, Analysing, JobTimeout, Pulse, RenewalAnswer, Stalled, Executing
<1>5. LoseLock(w) => UNCHANGED <<doc, entry, pc>> /\ handlers' = {}
  BY <1>1 DEF LoseLock, runVars
<1>6. Crash(w) => UNCHANGED <<doc, entry, pc>> /\ handlers' = {}
  BY <1>1 DEF Crash, Leave, TypeOK, RunTypeOK
<1> QED BY <1>2, <1>3, <1>4, <1>5, <1>6 DEF Advance, Background

LEMMA WorkerKeepsRequests ==
    ASSUME TypeOK, CancelInv, NEW w \in Workers, Take(w) \/ Advance(w) \/ Background(w)
    PROVE  CancelInv'
<1>1. UNCHANGED <<create, cancel, expiries>> /\ localTerminal'[Web] = localTerminal[Web]
  BY WorkerIsLocal DEF webVars
<1>2. create = "new" => Untouched'
  BY <1>1, UntouchedByWorkers DEF CancelInv, RequestInv, Untouched
<1>3. doc.status = "cancelled" => doc'.status = "cancelled"
  BY WorkerKeepsStatus DEF Terminal, TerminalStatuses
<1> QED BY <1>1, <1>2, <1>3 DEF CancelInv, RequestInv, Confirmed

LEMMA HandlerKeepsRequests ==
    ASSUME TypeOK, CancelInv, HandleClaim \/ HandleEntry
    PROVE  CancelInv'
<1>1. UNCHANGED <<create, cancel, expiries, localTerminal>> /\ handlers # {}
  BY DEF HandleClaim, HandleEntry, ReleaseClaim, FailClaim, Requeue, webVars, repositoryVars
<1>2. create # "new"
  BY <1>1 DEF CancelInv, RequestInv, Untouched
<1>3. doc.status = "cancelled" => doc'.status = "cancelled"
  BY HandlerKeepsStatus DEF Terminal, TerminalStatuses
<1> QED BY <1>1, <1>2, <1>3 DEF CancelInv, RequestInv, Confirmed

\* What a save leaves in the memory of the web process.
LEMMA WebRemembers ==
    ASSUME TypeOK, NEW j, Remember(Web, j)
    PROVE  localTerminal'[Web] = IF Terminal(j) THEN j ELSE localTerminal[Web]
BY DEF Remember, TypeOK, RepositoryTypeOK, Procs

LEMMA CreationKeepsRequests ==
    ASSUME TypeOK, CancelInv, Creation
    PROVE  CancelInv'
<1>1. UNCHANGED <<cancel, expiries>>
  BY DEF Creation, CreateSave, Enqueue, CreateFail, Discard
<1>2. create' # "new" /\ (create = "new" => cancel.code = "none")
  BY DEF Creation, CreateSave, Enqueue, CreateFail, Discard, CancelInv, RequestInv, Untouched,
         NoRequest
<1>3. CASE CreateSave
  BY <1>1, <1>2, <1>3 DEF CreateSave, CancelInv, RequestInv
<1>4. CASE Enqueue
  BY <1>1, <1>2, <1>4 DEF Enqueue, CancelInv, RequestInv, Confirmed
<1>5. CASE CreateFail
  <2>1. create' = "discarding" => localTerminal'[Web].status = "failed"
    <3>1. create' = "discarding" => Remember(Web, Unqueued)
      BY <1>5 DEF CreateFail, SaveFails
    <3>2. Terminal(Unqueued) /\ Unqueued.status = "failed"
      BY DEF Unqueued, FreshJob, Terminal, TerminalStatuses
    <3> QED BY <3>1, <3>2, WebRemembers
  <2>2. localTerminal[Web].status = "cancelled" => Blocked(Web, Unqueued)
    BY DEF Blocked, Unqueued, FreshJob, Terminal, TerminalStatuses
  <2>3. localTerminal[Web].status = "cancelled" => UNCHANGED doc /\ create' = "done"
    BY <1>5, <2>2 DEF CreateFail, SaveOk, SaveRefused, SaveFails
  <2> QED BY <1>1, <1>2, <1>5, <2>1, <2>3
          DEF CreateFail, CancelInv, RequestInv, Confirmed
<1>6. CASE Discard
  BY <1>1, <1>2, <1>6 DEF Discard, CancelInv, RequestInv, Confirmed
<1> QED BY <1>3, <1>4, <1>5, <1>6 DEF Creation

LEMMA CancellationKeepsRequests ==
    ASSUME TypeOK, CancelInv, Cancellation
    PROVE  CancelInv'
<1>1. UNCHANGED <<create, expiries>> /\ cancel.code = "none" /\ cancel \in CancelRequest
  BY DEF Cancellation, CancelRead, CancelCheck, CancelSave, CancelRefused, CancelInv, RequestInv,
         TypeOK, WebTypeOK
<1>2. create # "new"
  <2>1. Untouched => cancel.step = "idle" /\ View(Web).status = "absent"
    BY DEF Untouched, NoRequest, View, Absent, Terminal, TerminalStatuses
  <2>2. Cancellation => cancel.step # "idle" \/ View(Web).status # "absent"
    BY DEF Cancellation, CancelRead, CancelCheck, CancelSave, CancelRefused
  <2> QED BY <2>1, <2>2 DEF CancelInv, RequestInv
<1>3. ASSUME UNCHANGED <<doc, localTerminal>>,
             /\ cancel'.step \in {"read", "checked"} => cancel'.copy.status = "cancelled"
             /\ cancel'.step # "done" => cancel'.code = "none"
             /\ cancel'.code # "success"
      PROVE  CancelInv'
  BY <1>1, <1>2, <1>3 DEF CancelInv, RequestInv
<1>4. CASE CancelRead
  <2> DEFINE j == [View(Web) EXCEPT !.status = "cancelled"]
  <2>1. j.status = "cancelled"
    <3>1. View(Web) \in Job
      BY <1>4, ViewType, TerminalIsJob DEF CancelRead, Procs, TypeOK
    <3> QED BY <3>1 DEF Job
  <2>2. CASE Terminal(View(Web))
    <3>1. cancel'.step = "done" /\ cancel'.code = "TERMINAL_JOB"
      BY <1>4, <2>2 DEF CancelRead, Answer
    <3> QED BY <1>3, <1>4, <3>1 DEF CancelRead, repositoryVars
  <2>3. CASE ~Terminal(View(Web))
    <3>1. cancel' = [NoRequest EXCEPT !.step = "read", !.copy = j]
      BY <1>4, <2>3 DEF CancelRead
    <3> HIDE DEF j
    <3>2. cancel'.copy = j /\ cancel'.code = "none"
      BY <3>1 DEF NoRequest
    <3> QED BY <1>3, <1>4, <2>1, <3>2 DEF CancelRead, repositoryVars
  <2> QED BY <2>2, <2>3
<1>5. CASE CancelCheck
  <2>1. cancel'.copy = cancel.copy /\ cancel'.code = cancel.code
    BY <1>1, <1>5 DEF CancelCheck, CancelRequest
  <2> QED BY <1>1, <1>3, <1>5, <2>1 DEF CancelCheck, CancelInv, RequestInv, repositoryVars
<1>6. CASE CancelRefused
  <2>1. cancel'.step = "done" /\ cancel'.code # "success"
    BY <1>6 DEF CancelRefused, Answer
  <2> QED BY <1>3, <1>6, <2>1 DEF CancelRefused, repositoryVars
<1>7. CASE CancelSave
  <2>1. cancel.copy.status = "cancelled" /\ Terminal(cancel.copy)
    BY <1>7 DEF CancelSave, CancelInv, RequestInv, Terminal, TerminalStatuses
  <2>2. create = "discarding" => Blocked(Web, cancel.copy)
    BY <2>1 DEF CancelInv, RequestInv, Blocked, Terminal, TerminalStatuses
  <2>3. create = "discarding" => localTerminal'[Web].status = "failed"
    BY <1>7, <2>2 DEF CancelSave, SaveOk, SaveRefused, SaveFails, CancelInv, RequestInv
  <2>4. /\ cancel'.step \in {"done", "refused"}
        /\ cancel'.step # "done" => cancel'.code = "none"
        /\ cancel'.code = "success" => SaveOk(Web, cancel.copy)
    BY <1>1, <1>7 DEF CancelSave, Answer, CancelRequest
  <2>5. SaveOk(Web, cancel.copy) => Confirmed'
    BY <1>1, <2>1, <2>2, WebRemembers DEF SaveOk, Put, Confirmed
  <2> QED BY <1>1, <1>2, <2>3, <2>4, <2>5 DEF CancelInv, RequestInv
<1> QED BY <1>4, <1>5, <1>6, <1>7 DEF Cancellation

LEMMA OthersKeepRequests ==
    ASSUME TypeOK, CancelInv, Reconcile \/ DeleteExpired \/ WebCrash \/ LeaseExpires
    PROVE  CancelInv'
<1>1. CASE Reconcile \/ LeaseExpires
  <2>1. UNCHANGED <<doc, localTerminal, create, cancel, expiries, pc, handlers>>
    BY <1>1 DEF Reconcile, LeaseExpires, Expire, repositoryVars, runVars, queueVars, webVars
  <2>2. create = "new" => LeaseExpires
    BY <1>1 DEF Reconcile, CancelInv, RequestInv, Untouched, Absent
  <2>3. LeaseExpires => UNCHANGED entry
    BY DEF LeaseExpires, queueVars
  <2> QED BY <2>1, <2>2, <2>3 DEF CancelInv, RequestInv, Confirmed, Untouched
<1>2. CASE DeleteExpired
  <2>1. expiries' # 0
    BY <1>2 DEF DeleteExpired, TypeOK, WebTypeOK
  <2> QED BY <1>2, <2>1 DEF DeleteExpired, CancelInv, RequestInv
<1>3. CASE WebCrash
  <2>1. create = "new" => localTerminal[Web] = Absent /\ cancel = NoRequest
    BY DEF CancelInv, RequestInv, Untouched
  <2>2. create # "new"
    BY <1>3, <2>1 DEF WebCrash, NoRequest, TypeOK, RepositoryTypeOK
  <2>3. create' \notin {"new", "saved", "failing", "discarding"} /\ UNCHANGED <<doc, expiries>>
    BY <1>3, <2>2 DEF WebCrash, TypeOK, WebTypeOK
  <2>4. cancel' = cancel \/ cancel' = [NoRequest EXCEPT !.step = "done"]
    BY <1>3 DEF WebCrash
  <2>5. cancel'.step \in {cancel.step, "done"} /\ cancel'.code \in {cancel.code, "none"}
        /\ (cancel'.step # "done" => cancel' = cancel)
    BY <2>4 DEF NoRequest
  <2> QED BY <2>3, <2>4, <2>5 DEF CancelInv, RequestInv, Confirmed, NoRequest
<1> QED BY <1>1, <1>2, <1>3

LEMMA RequestsAlways == Spec => []CancelInv
<1>1. Init => CancelInv
  BY DEF Init, RepositoryInit, CancelInv, RequestInv, Untouched, NoRequest, Procs
<1>2. TypeOK /\ CancelInv /\ [Next]_vars => CancelInv'
  <2> SUFFICES ASSUME TypeOK, CancelInv, [Next]_vars PROVE CancelInv'
    OBVIOUS
  <2>1. CASE UNCHANGED vars
    BY <2>1 DEF vars, repositoryVars, runVars, queueVars, webVars, CancelInv, RequestInv,
                Confirmed, Untouched
  <2> QED BY <2>1, WorkerKeepsRequests, HandlerKeepsRequests, CreationKeepsRequests,
             CancellationKeepsRequests, OthersKeepRequests DEF Next
<1> QED BY <1>1, <1>2, TypeCorrect, PTL DEF Spec

\* A cancellation answered with success holds for every worker, attempt and fault: no
\* step of any process reopens or replaces the cancelled document, and the request that
\* created it does not discard it; only retention removes it.
THEOREM CancellationHolds == Spec => []CancelDurable
<1>1. CancelInv => CancelDurable
  BY DEF CancelInv, Confirmed, CancelDurable
<1> QED BY <1>1, RequestsAlways, PTL

-----------------------------------------------------------------------------
(* Claims and checkpoints.  A worker does not pause for a lease between      *)
(* claiming and reading the job, and the document is not removed under the  *)
(* workers (the README says what happens without each of these).  Then      *)
(* only the holder of the current claim can write an open document back,    *)
(* even if workers share an identifier, no write loses the checkpoint, and  *)
(* no handler names an attempt that is executed.  When in addition renewals *)
(* are answered where the code looks at them, only one worker ever gets     *)
(* past the checkpoint, and the alert goes out once.                        *)

KeptDocument == MaxExpiries = 0 /\ FaultKinds \cap {"redis", "outage"} = {}

Open       == doc.status = "processing"
Blind(w)   == Terminal(localTerminal[w])
BeforeSend == {"running", "overdue", "prepared", "ready"}

\* The checkpoint b is not behind the checkpoint a.
Keeps(a, b) == /\ a # "none" => b # "none"
               /\ a = "completed" => b = "completed"

\* The claim of a running worker.
OwnClaim(w) ==
    /\ pc[w] \in {"idle", "taken"} => claimed[w] = 0
    /\ pc[w] \in Busy => claimed[w] # 0
    /\ Open => claimed[w] <= doc.attempt
    /\ Open /\ pc[w] = "claimed" => Holds(w) /\ leaseLive /\ doc.exec \in ClaimStatuses

\* The job object of a running worker that can still write it.
OwnCopy(w) ==
    /\ pc[w] = "loaded" => job[w].ckpt # "in_flight"
    /\ pc[w] \in BeforeSend => job[w].ckpt = "none"
    /\ Open /\ pc[w] \in Busy /\ ~Blind(w) =>
         /\ job[w].worker = IdOf[w] /\ job[w].attempt = claimed[w]
         /\ Holds(w) => Keeps(doc.ckpt, job[w].ckpt)

\* No two workers run under one attempt.
Unique == Open => \A v, w \in Workers : claimed[v] = claimed[w] /\ claimed[v] # 0 => v = w

\* No failure handler names an attempt that a worker is still executing.
NoLateHandler ==
    Open => \A h \in handlers : /\ h.attempt <= doc.attempt
                                /\ h.attempt # 0 => \A w \in Workers : claimed[w] # h.attempt

SentOnce ==
    /\ sends \in {0, 1}
    /\ \A w \in Workers : pc[w] = "sending" => sends = 0
    /\ \A v, w \in Workers : pc[v] = "sending" /\ pc[w] = "sending" => v = w
    /\ Open /\ (sends # 0 \/ \E w \in Workers : pc[w] = "sending") => doc.ckpt # "none"

Stored ==
    /\ create \notin {"failing", "discarding"}
    /\ doc.status = "absent" => sends = 0 /\ \A w \in Workers : pc[w] \notin Busy

OwnInv   == \A w \in Workers : OwnClaim(w) /\ OwnCopy(w)
ClaimInv == OwnInv /\ Unique /\ NoLateHandler /\ Stored
OnceInv  == ClaimInv /\ SentOnce

\* What every step keeps: the invariant, the checkpoint of an open document and, but
\* for the step that writes the checkpoint before the send, what is said of the sends.
Advances == Open /\ Open' => Keeps(doc.ckpt, doc'.ckpt)
Kept     == ClaimInv' /\ Advances /\ (SentOnce => SentOnce')

\* What a step of worker w does to the document, as the others see it: nothing, or a
\* write under w's own claim that keeps the checkpoint.
Effect(w) ==
    /\ \A v \in Workers \ {w} : localTerminal'[v] = localTerminal[v]
    /\ doc'.status = "absent" => doc.status = "absent"
    /\ Open' => /\ Open
                /\ \/ UNCHANGED <<doc, leaseLive>>
                   \/ UNCHANGED doc /\ leaseLive'
                   \/ /\ doc'.worker = IdOf[w]
                      /\ \/ doc'.attempt = doc.attempt /\ Holds(w)
                         \/ doc'.attempt = doc.attempt + 1
                      /\ Keeps(doc.ckpt, doc'.ckpt)
                      /\ \A v \in Workers \ {w} : pc[v] # "claimed"

\* Only w itself changes.
OnlyMoves(w) ==
    \A v \in Workers \ {w} :
        pc'[v] = pc[v] /\ job'[v] = job[v] /\ claimed'[v] = claimed[v]

LEMMA AttemptIsNat ==
    ASSUME TypeOK
    PROVE  /\ doc.attempt \in Nat
           /\ \A w \in Workers : claimed[w] \in Nat
           /\ \A h \in handlers : h.attempt \in Nat /\ h.worker \in Workers
BY DEF TypeOK, RepositoryTypeOK, RunTypeOK, QueueTypeOK, Handler, Job, Absent

LEMMA KeepsSelf == \A a : Keeps(a, a)
BY DEF Keeps

LEMMA OthersOnce ==
    ASSUME TypeOK, ClaimInv, NEW w \in Workers, Effect(w), OnlyMoves(w),
           NEW v \in Workers \ {w}
    PROVE  (OwnClaim(v) /\ OwnCopy(v))'
<1>1. OwnClaim(v) /\ OwnCopy(v) /\ Unique
  BY DEF ClaimInv, OwnInv
<1>2. pc'[v] = pc[v] /\ job'[v] = job[v] /\ claimed'[v] = claimed[v]
      /\ localTerminal'[v] = localTerminal[v]
  BY DEF OnlyMoves, Effect
<1>3. claimed[v] \in Nat /\ doc.attempt \in Nat
  BY AttemptIsNat
<1>4. CASE ~Open'
  BY <1>1, <1>2, <1>4 DEF OwnClaim, OwnCopy
<1>5. CASE Open' /\ UNCHANGED doc /\ (leaseLive' = leaseLive \/ leaseLive')
  BY <1>1, <1>2, <1>5 DEF OwnClaim, OwnCopy, Open, Blind, Terminal, Holds
<1>6. CASE /\ Open' /\ Open
           /\ (doc'.attempt = doc.attempt /\ Holds(w)) \/ doc'.attempt = doc.attempt + 1
           /\ pc[v] # "claimed"
  <2>1. ~Holds(v)'
    <3>1. CASE doc'.attempt = doc.attempt /\ Holds(w)
      BY <1>1, <1>2, <1>6, <3>1 DEF Holds, Unique
    <3>2. CASE doc'.attempt = doc.attempt + 1
      BY <1>1, <1>2, <1>3, <1>6, <3>2 DEF Holds, OwnClaim
    <3> QED BY <1>6, <3>1, <3>2
  <2>2. claimed[v] <= doc'.attempt
    BY <1>1, <1>3, <1>6 DEF OwnClaim
  <2>3. OwnClaim(v)'
    BY <1>1, <1>2, <1>6, <2>2 DEF OwnClaim
  <2>4. OwnCopy(v)'
    BY <1>1, <1>2, <1>6, <2>1 DEF OwnCopy, Blind, Terminal
  <2> QED BY <2>3, <2>4
<1> QED BY <1>4, <1>5, <1>6 DEF Effect

\* A step of w that keeps its own facts, claims at most the next attempt, and leaves
\* handlers only for the claim it gives up, keeps the claims apart.
LEMMA WorkerOnce ==
    ASSUME TypeOK, ClaimInv, NEW w \in Workers, Effect(w), OnlyMoves(w),
           (OwnClaim(w) /\ OwnCopy(w))',
           \A h \in handlers' \ handlers :
              \/ h.attempt = 0
              \/ h.worker = w /\ h.attempt = claimed[w] /\ claimed'[w] = 0,
           claimed'[w] \in {0, claimed[w], doc.attempt + 1}
    PROVE  OwnInv' /\ Unique' /\ NoLateHandler'
<1>1. OwnInv'
  BY OthersOnce DEF OwnInv
<1>2. \A v \in Workers : claimed[v] \in Nat
  BY AttemptIsNat
<1>3. Open' => /\ Open /\ doc.attempt \in Nat /\ doc'.attempt \in {doc.attempt, doc.attempt + 1}
               /\ \A v \in Workers : claimed[v] <= doc.attempt
               /\ \A u, v \in Workers : claimed[u] = claimed[v] /\ claimed[u] # 0 => u = v
  BY AttemptIsNat DEF Effect, ClaimInv, OwnInv, OwnClaim, Unique
<1>4. \A v \in Workers \ {w} : claimed'[v] = claimed[v]
  BY DEF OnlyMoves
<1>5. Unique'
  BY <1>2, <1>3, <1>4 DEF Unique
<1>6. NoLateHandler'
  <2> SUFFICES ASSUME Open', NEW h \in handlers'
               PROVE  /\ h.attempt <= doc'.attempt
                      /\ h.attempt # 0 => \A v \in Workers : claimed'[v] # h.attempt
    BY DEF NoLateHandler
  <2>1. CASE h \in handlers
    <3>1. /\ h.attempt \in Nat /\ h.attempt <= doc.attempt
          /\ h.attempt # 0 => \A v \in Workers : claimed[v] # h.attempt
      BY <1>3, <2>1, AttemptIsNat DEF ClaimInv, NoLateHandler
    <3> QED BY <1>3, <1>4, <3>1
  <2>2. CASE h.attempt = 0
    BY <1>3, <2>2
  <2>3. CASE h.attempt = claimed[w] /\ claimed'[w] = 0
    BY <1>2, <1>3, <1>4, <2>3
  <2> QED BY <2>1, <2>2, <2>3
<1> QED BY <1>1, <1>5, <1>6

\* Such a step that neither sends nor begins to, and enters a run only of a stored job.
LEMMA QuietOnce ==
    ASSUME TypeOK, ClaimInv, NEW w \in Workers, Effect(w), OnlyMoves(w),
           pc'[w] \in {pc[w]} \cup (Points \ {"sending"}), UNCHANGED <<sends, create>>,
           pc'[w] \in Busy => doc.status # "absent",
           OwnInv' /\ Unique' /\ NoLateHandler'
    PROVE  Kept
<1>1. \A v \in Workers : pc'[v] = "sending" => pc[v] = "sending"
  BY DEF OnlyMoves
<1>2. Advances
  BY DEF Advances, Effect, Keeps
<1>3. SentOnce => SentOnce'
  <2>1. Open' /\ doc.ckpt # "none" => doc'.ckpt # "none"
    BY DEF Effect, Keeps
  <2>2. Open' => Open
    BY DEF Effect
  <2> QED BY <1>1, <2>1, <2>2 DEF SentOnce
<1>4. Stored'
  BY DEF ClaimInv, Stored, Effect, OnlyMoves
<1> QED BY <1>2, <1>3, <1>4 DEF Kept, ClaimInv

\* What w may write back: its own object, with its status or its checkpoint advanced.
Steady(w, j) ==
    /\ j.worker = job[w].worker /\ j.attempt = job[w].attempt
    /\ Keeps(job[w].ckpt, j.ckpt)

Saved(w, j) ==
    /\ Effect(w)
    /\ Blind(w) => Blind(w)'
    /\ Open' => doc' = doc \/ (doc' = j /\ Holds(w) /\ ~Blind(w))

LEMMA EffectFrame ==
    ASSUME UNCHANGED <<doc, localTerminal>>, leaseLive' = leaseLive \/ leaseLive', NEW w
    PROVE  Effect(w) /\ (Blind(w) => Blind(w)') /\ \A j : Saved(w, j)
BY DEF Effect, Saved, Open, Blind, Terminal

\* A persisted job object reopens nothing, and reaches an open document only under the
\* current claim.
LEMMA PersistOnce ==
    ASSUME TypeOK, ClaimInv, NEW w \in Workers, pc[w] \in Busy, NEW j \in Job,
           PersistOk(w, j) \/ PersistRefused(w, j) \/ PersistFails(w, j) \/ UNCHANGED repositoryVars,
           j.status = "processing" => Steady(w, j)
    PROVE  Saved(w, j)
<1>1. CASE UNCHANGED <<doc, leaseLive, localTerminal>>
  BY <1>1, EffectFrame
<1>2. localTerminal' = localTerminal
      \/ (localTerminal' = [localTerminal EXCEPT ![w] = j] /\ Terminal(j))
  BY DEF PersistOk, PersistRefused, PersistFails, SaveOk, SaveRefused, SaveFails, Remember,
         repositoryVars
<1>3. /\ \A v \in Workers \ {w} : localTerminal'[v] = localTerminal[v]
      /\ Blind(w) => Blind(w)'
  BY <1>2 DEF TypeOK, RepositoryTypeOK, Procs, Blind, Terminal
<1>4. CASE UNCHANGED <<doc, leaseLive>>
  BY <1>3, <1>4 DEF Saved, Effect, Open
<1>5. CASE ~UNCHANGED <<doc, leaseLive>>
  <2>1. Put(j) /\ ~Overruled(w, j) /\ ~Fenced(j)
    BY <1>5 DEF PersistOk, PersistRefused, PersistFails, SaveOk, SaveRefused, SaveFails,
                repositoryVars
  <2>2. doc' = j /\ j.status # "absent"
    BY <2>1 DEF Put, Job, TerminalStatuses
  <2>3. CASE ~Open'
    BY <1>3, <2>2, <2>3 DEF Saved, Effect
  <2>4. CASE Open'
    <3>1. j.status = "processing" /\ Steady(w, j)
      BY <2>2, <2>4 DEF Open
    <3>2. ~Terminal(View(w))
      BY <2>1, <3>1 DEF Overruled, Terminal, TerminalStatuses
    <3>3. ~Blind(w) /\ ~Terminal(doc)
      BY <3>2 DEF View, Blind
    <3>4. doc.status # "absent" /\ Open
      BY <3>3 DEF ClaimInv, Stored, Open, Terminal, TypeOK, RepositoryTypeOK, Job, Absent
    <3>5. /\ job[w].worker = IdOf[w] /\ job[w].attempt = claimed[w]
          /\ Holds(w) => Keeps(doc.ckpt, job[w].ckpt)
      BY <3>3, <3>4 DEF ClaimInv, OwnInv, OwnCopy
    <3>6. IdOf[w] # Nobody /\ claimed[w] # 0
      BY RepositoryAssumption DEF ClaimInv, OwnInv, OwnClaim
    <3>7. doc.worker = IdOf[w] /\ doc.attempt = claimed[w]
      BY <2>1, <3>1, <3>4, <3>5, <3>6 DEF Fenced, Steady
    <3>8. Holds(w)
      BY <3>6, <3>7 DEF Holds
    <3>9. \A v \in Workers \ {w} : pc[v] # "claimed"
      BY <3>4, <3>6, <3>7 DEF ClaimInv, OwnInv, OwnClaim, Holds, Unique
    <3> QED BY <1>3, <2>2, <3>1, <3>3, <3>4, <3>5, <3>7, <3>8, <3>9 DEF Saved, Effect, Steady, Keeps
  <2> QED BY <2>3, <2>4
<1> QED BY <1>4, <1>5

\* A step of a run keeps what is said of its own claim and copy.
LEMMA RunFacts ==
    ASSUME TypeOK, ClaimInv, NEW w \in Workers, pc[w] \in Busy,
           NEW point \in Points \ {"idle", "taken", "claimed", "loaded"}, At(w, point),
           NEW i, With(w, i) \/ (UNCHANGED job /\ i = job[w]), Steady(w, i),
           NEW j, Saved(w, j), j.status = "processing" => Keeps(j.ckpt, i.ckpt),
           point \in BeforeSend => i.ckpt = "none",
           UNCHANGED claimed
    PROVE  OnlyMoves(w) /\ (OwnClaim(w) /\ OwnCopy(w))'
<1>1. OwnClaim(w) /\ OwnCopy(w)
  BY DEF ClaimInv, OwnInv
<1>2. pc'[w] = point /\ job'[w] = i /\ claimed'[w] = claimed[w] /\ OnlyMoves(w)
  BY DEF At, With, OnlyMoves, TypeOK, RunTypeOK
<1>3. doc.attempt \in Nat /\ claimed[w] \in Nat
  BY AttemptIsNat
<1>4. Open' => /\ Open /\ doc'.attempt >= doc.attempt
               /\ doc' = doc \/ (doc' = j /\ Holds(w) /\ ~Blind(w))
  BY <1>3 DEF Saved, Effect
<1>5. OwnClaim(w)'
  BY <1>1, <1>2, <1>3, <1>4 DEF OwnClaim, Saved, Effect
<1>6. ASSUME Open', ~Blind(w)'
      PROVE  /\ i.worker = IdOf[w] /\ i.attempt = claimed[w]
             /\ Holds(w)' => Keeps(doc'.ckpt, i.ckpt)
  <2>1. Open /\ ~Blind(w)
    BY <1>4, <1>6 DEF Saved
  <2>2. /\ job[w].worker = IdOf[w] /\ job[w].attempt = claimed[w]
        /\ Holds(w) => Keeps(doc.ckpt, job[w].ckpt)
    BY <1>1, <2>1 DEF OwnCopy
  <2>3. CASE doc' = doc
    BY <1>2, <2>2, <2>3 DEF Steady, Holds, Keeps
  <2>4. CASE doc' = j
    BY <1>6, <2>2, <2>4 DEF Steady, Open
  <2> QED BY <1>4, <1>6, <2>3, <2>4
<1>7. OwnCopy(w)'
  BY <1>2, <1>6 DEF OwnCopy
<1> QED BY <1>2, <1>5, <1>7

LEMMA RunOnce ==
    ASSUME TypeOK, ClaimInv, NEW w \in Workers, pc[w] \in Busy,
           NEW point \in Points \ {"idle", "taken", "claimed", "loaded", "sending"}, At(w, point),
           NEW i, With(w, i) \/ (UNCHANGED job /\ i = job[w]), Steady(w, i),
           NEW j, Saved(w, j), j.status = "processing" => Keeps(j.ckpt, i.ckpt),
           point \in BeforeSend => i.ckpt = "none",
           UNCHANGED <<claimed, handlers, sends, create>>
    PROVE  Kept
<1>1. OnlyMoves(w) /\ (OwnClaim(w) /\ OwnCopy(w))' /\ Effect(w)
  BY RunFacts DEF Saved
<1>2. OwnInv' /\ Unique' /\ NoLateHandler'
  BY <1>1, WorkerOnce
<1>3. doc.status # "absent"
  BY DEF ClaimInv, Stored
<1>4. pc'[w] \in Points \ {"sending"}
  BY DEF At, TypeOK, RunTypeOK
<1> QED BY <1>1, <1>2, <1>3, <1>4, QuietOnce

\* The end of a run, whether it returns, throws or dies.
LEMMA QuitOnce ==
    ASSUME TypeOK, ClaimInv, NEW w \in Workers, Leave(w), Effect(w),
           \A h \in handlers' \ handlers :
              h.attempt = 0 \/ (h.worker = w /\ h.attempt = claimed[w]),
           UNCHANGED <<sends, create>>
    PROVE  Kept
<1>1. pc'[w] = "idle" /\ claimed'[w] = 0 /\ OnlyMoves(w)
  BY DEF Leave, OnlyMoves, TypeOK, RunTypeOK
<1>2. (OwnClaim(w) /\ OwnCopy(w))'
  <2>1. "idle" \notin Busy \cup BeforeSend \cup {"sending", "claimed"} /\ "idle" \in Points
    BY DEF Busy, Executing, BeforeSend, Points
  <2>2. Open' => doc'.attempt \in Nat
    BY AttemptIsNat DEF Effect
  <2> QED BY <1>1, <2>1, <2>2 DEF OwnClaim, OwnCopy
<1>3. OwnInv' /\ Unique' /\ NoLateHandler'
  BY <1>1, <1>2, WorkerOnce
<1>4. pc'[w] \in Points \ {"sending"} /\ pc'[w] \notin Busy
  BY <1>1 DEF Points, Busy, Executing
<1> QED BY <1>1, <1>3, <1>4, QuietOnce

LEMMA ThrowOnce ==
    ASSUME NEW w \in Workers, NEW a \in {0, claimed[w]}, Throw(w, a) \/ Return(w)
    PROVE  /\ Leave(w)
           /\ \A h \in handlers' \ handlers :
                 h.attempt = 0 \/ (h.worker = w /\ h.attempt = claimed[w])
BY DEF Throw, Return

LEMMA CaughtOnce ==
    ASSUME NEW w \in Workers, NEW j \in Job, Caught(w, j)
    PROVE  At(w, "finally") /\ \E i : /\ With(w, i)
                                      /\ i.worker = j.worker /\ i.attempt = j.attempt
                                      /\ i.ckpt = j.ckpt
<1>1. \A s : LET i == [j EXCEPT !.status = s]
             IN  i.worker = j.worker /\ i.attempt = j.attempt /\ i.ckpt = j.ckpt
  BY DEF Job
<1>2. CASE With(w, j)
  BY <1>2 DEF Caught
<1>3. CASE \E s : With(w, [j EXCEPT !.status = s])
  BY <1>1, <1>3 DEF Caught
<1> QED BY <1>2, <1>3 DEF Caught

LEMMA TryOnce ==
    ASSUME TypeOK, ClaimInv, NEW w \in Workers, pc[w] \in Busy, NEW j \in Job,
           NEW next \in Points \ {"idle", "taken", "claimed", "loaded", "sending"}, Try(w, j, next),
           Steady(w, j), next \in BeforeSend => j.ckpt = "none"
    PROVE  Kept
<1>1. UNCHANGED <<claimed, handlers, sends, create>>
  BY DEF Try, queueVars, webVars
<1>2. Saved(w, j)
  BY PersistOnce DEF Try, Caught, repositoryVars
<1>3. "finally" \in Points \ {"idle", "taken", "claimed", "loaded", "sending"} /\ "finally" \notin BeforeSend
  BY DEF Points, Busy, Executing, BeforeSend
<1>4. CASE With(w, j) /\ (At(w, next) \/ At(w, "finally"))
  BY <1>1, <1>2, <1>3, <1>4, RunOnce, KeepsSelf
<1>5. CASE Caught(w, j)
  <2>1. PICK i : At(w, "finally") /\ With(w, i) /\ i.worker = j.worker
                 /\ i.attempt = j.attempt /\ i.ckpt = j.ckpt
    BY <1>5, CaughtOnce
  <2>2. Steady(w, i)
    BY <2>1 DEF Steady
  <2> QED BY <1>1, <1>2, <1>3, <2>1, <2>2, RunOnce, KeepsSelf
<1> QED BY <1>4, <1>5 DEF Try

LEMMA ClaimEffect ==
    ASSUME TypeOK, ClaimInv, NEW w \in Workers, Claimable, Put(ClaimedBy(w)), UNCHANGED localTerminal
    PROVE  /\ Effect(w) /\ Open /\ ClaimedBy(w) \in Job /\ doc' = ClaimedBy(w)
           /\ doc'.attempt = doc.attempt + 1 /\ doc'.worker = IdOf[w] /\ doc'.ckpt = doc.ckpt
           /\ doc'.exec = "claimed" /\ doc'.status = doc.status /\ leaseLive'
<1>1. doc \in Job /\ Open
  BY TerminalIsJob DEF Claimable, TypeOK, RepositoryTypeOK, Open, Terminal, Job
<1>2. /\ doc'.attempt = doc.attempt + 1 /\ doc'.worker = IdOf[w] /\ doc'.ckpt = doc.ckpt
      /\ doc'.exec = "claimed" /\ doc'.status = doc.status
  BY <1>1 DEF Put, ClaimedBy, Job
<1>3. leaseLive'
  BY <1>1, <1>2 DEF Put, ClaimStatuses, Terminal, TerminalStatuses, Open
<1>4. \A v \in Workers : pc[v] # "claimed"
  BY <1>1 DEF Claimable, ClaimInv, OwnInv, OwnClaim
<1>5. ClaimedBy(w) \in Job /\ doc' = ClaimedBy(w)
  BY <1>1, DocUpdates DEF Put
<1> QED BY <1>1, <1>2, <1>3, <1>4, <1>5 DEF Effect, Open, Keeps

LEMMA ClaimsOnce ==
    ASSUME TypeOK, ClaimInv, NEW w \in Workers,
           ClaimSkipped(w) \/ ClaimActive(w) \/ ClaimJob(w) \/ ClaimUnavailable(w)
    PROVE  Kept
<1>1. pc[w] = "taken" /\ claimed[w] = 0 /\ UNCHANGED <<sends, create, localTerminal>>
  BY DEF ClaimSkipped, ClaimActive, ClaimJob, ClaimUnavailable, repositoryVars, webVars,
         ClaimInv, OwnInv, OwnClaim
<1>2. ASSUME Claimable, Put(ClaimedBy(w))
      PROVE  /\ Effect(w) /\ Open /\ ClaimedBy(w) \in Job /\ doc' = ClaimedBy(w)
             /\ doc'.attempt = doc.attempt + 1 /\ doc'.worker = IdOf[w] /\ doc'.ckpt = doc.ckpt
             /\ doc'.exec = "claimed" /\ leaseLive'
  BY <1>1, <1>2, ClaimEffect
<1>3. CASE ClaimJob(w)
  <2>1. /\ Effect(w) /\ Open /\ ClaimedBy(w) \in Job /\ doc' = ClaimedBy(w)
        /\ doc'.attempt = doc.attempt + 1 /\ doc'.worker = IdOf[w] /\ doc'.ckpt = doc.ckpt
        /\ doc'.exec = "claimed" /\ leaseLive'
    BY <1>2, <1>3 DEF ClaimJob
  <2>2. /\ pc'[w] = "claimed" /\ job'[w] = doc' /\ claimed'[w] = doc'.attempt /\ OnlyMoves(w)
        /\ UNCHANGED handlers
    BY <1>3, <2>1 DEF ClaimJob, At, With, OnlyMoves, TypeOK, RunTypeOK, queueVars
  <2>3. doc.attempt \in Nat
    BY AttemptIsNat
  <2>4. Holds(w)'
    BY <2>1, <2>2, <2>3 DEF Holds
  <2>5. (OwnClaim(w) /\ OwnCopy(w))'
    BY <2>1, <2>2, <2>3, <2>4 DEF OwnClaim, OwnCopy, BeforeSend, ClaimStatuses, Keeps
  <2>6. OwnInv' /\ Unique' /\ NoLateHandler'
    BY <2>1, <2>2, <2>5, WorkerOnce
  <2> QED BY <1>1, <2>1, <2>2, <2>6, QuietOnce DEF Open, Points, Busy
<1>4. CASE ClaimSkipped(w) /\ At(w, "closed") /\ UNCHANGED <<job, claimed, lost, renewal, queueVars>>
  <2>1. Effect(w)
    BY <1>4, EffectFrame DEF ClaimSkipped, repositoryVars
  <2>2. pc'[w] = "closed" /\ claimed'[w] = 0 /\ OnlyMoves(w) /\ UNCHANGED handlers
    BY <1>1, <1>4 DEF At, OnlyMoves, TypeOK, RunTypeOK, queueVars
  <2>3. (OwnClaim(w) /\ OwnCopy(w))'
    <3>1. "closed" \notin Busy \cup BeforeSend
      BY DEF Busy, Executing, BeforeSend
    <3>2. doc' = doc /\ doc.attempt \in Nat
      BY <1>4, AttemptIsNat DEF ClaimSkipped, repositoryVars
    <3> QED BY <2>2, <3>1, <3>2 DEF OwnClaim, OwnCopy
  <2>4. OwnInv' /\ Unique' /\ NoLateHandler'
    BY <2>1, <2>2, <2>3, WorkerOnce
  <2> QED BY <1>1, <2>1, <2>2, <2>4, QuietOnce DEF Points, Busy, Executing
<1>5. CASE (ClaimSkipped(w) /\ Return(w)) \/ ClaimActive(w)
  <2>1. Effect(w)
    BY <1>5, EffectFrame DEF ClaimSkipped, ClaimActive, repositoryVars
  <2> QED BY <1>1, <1>5, <2>1, ThrowOnce, QuitOnce DEF ClaimActive
<1>6. CASE ClaimUnavailable(w)
  <2>1. Effect(w)
    BY <1>1, <1>2, <1>6, EffectFrame DEF ClaimUnavailable
  <2> QED BY <1>1, <1>6, <2>1, ThrowOnce, QuitOnce DEF ClaimUnavailable
<1> QED BY <1>3, <1>4, <1>5, <1>6 DEF ClaimSkipped

LEMMA LoadOnce ==
    ASSUME TypeOK, ClaimInv, NEW w \in Workers, Load(w)
    PROVE  Kept
<1>1. /\ pc[w] = "claimed" /\ pc[w] \in Busy
      /\ UNCHANGED <<doc, leaseLive, localTerminal, sends, create>>
  BY DEF Load, webVars, Busy
<1>2. Effect(w)
  BY <1>1, EffectFrame
<1>3. CASE Throw(w, claimed[w])
  BY <1>1, <1>2, <1>3, ThrowOnce, QuitOnce
<1>4. CASE ~Throw(w, claimed[w])
  <2>1. PICK seen \in {View(w), job[w]} :
          /\ Reads(w, seen) /\ seen.ckpt # "in_flight"
          /\ With(w, [seen EXCEPT !.status = "processing", !.exec = "running"])
          /\ At(w, "loaded") /\ UNCHANGED <<claimed, lost, renewal, queueVars>>
    BY <1>4 DEF Load
  <2> DEFINE i == [seen EXCEPT !.status = "processing", !.exec = "running"]
  <2>2. /\ i.worker = seen.worker /\ i.attempt = seen.attempt /\ i.ckpt = seen.ckpt
    <3>1. seen \in Job \cup {Absent}
      BY ViewType DEF Procs, TypeOK, RunTypeOK
    <3> QED BY <3>1 DEF Job, Absent
  <2>3. pc'[w] = "loaded" /\ job'[w] = i /\ claimed'[w] = claimed[w] /\ OnlyMoves(w)
        /\ UNCHANGED handlers
    BY <2>1 DEF At, With, OnlyMoves, TypeOK, RunTypeOK, queueVars
  <2> HIDE DEF i
  <2>4. OwnClaim(w) /\ OwnCopy(w)
    BY DEF ClaimInv, OwnInv
  <2>5. OwnClaim(w)'
    BY <1>1, <2>3, <2>4 DEF OwnClaim, Open, Busy, Executing
  <2>6. ASSUME Open, ~Blind(w)
        PROVE  /\ seen.worker = IdOf[w] /\ seen.attempt = claimed[w]
               /\ Holds(w) => Keeps(doc.ckpt, seen.ckpt)
    <3>1. CASE seen = job[w]
      BY <1>1, <2>4, <2>6, <3>1 DEF OwnCopy
    <3>2. CASE seen = View(w)
      <4>1. seen = doc
        BY <2>6, <3>2 DEF View, Blind
      <4> QED BY <1>1, <2>4, <2>6, <4>1 DEF OwnClaim, Holds, Keeps
    <3> QED BY <3>1, <3>2
  <2>7. OwnCopy(w)'
    BY <1>1, <2>1, <2>2, <2>3, <2>6
       DEF OwnCopy, Open, Blind, Terminal, Holds, BeforeSend
  <2>8. OwnInv' /\ Unique' /\ NoLateHandler'
    BY <1>2, <2>3, <2>5, <2>7, WorkerOnce
  <2>9. doc.status # "absent"
    BY <1>1 DEF ClaimInv, Stored
  <2> QED BY <1>1, <1>2, <2>3, <2>8, <2>9, QuietOnce DEF Points, Busy, Executing
<1> QED BY <1>3, <1>4

LEMMA StartOnce ==
    ASSUME TypeOK, ClaimInv, NEW w \in Workers, Start(w)
    PROVE  Kept
<1>1. /\ pc[w] = "loaded" /\ pc[w] \in Busy /\ job[w] \in Job /\ Steady(w, job[w])
      /\ UNCHANGED <<sends, create>>
  BY DEF Start, TypeOK, RunTypeOK, Busy, Steady, webVars, Keeps
<1>2. Saved(w, job[w])
  BY <1>1, PersistOnce DEF Start
<1>3. CASE Throw(w, claimed[w])
  BY <1>1, <1>2, <1>3, ThrowOnce, QuitOnce DEF Saved
<1>4. CASE /\ job[w].ckpt = "completed"
           /\ With(w, [job[w] EXCEPT !.status = "completed"]) /\ At(w, "finally")
           /\ UNCHANGED <<claimed, lost, renewal, queueVars>>
  <2> DEFINE i == [job[w] EXCEPT !.status = "completed"]
  <2>1. i.worker = job[w].worker /\ i.attempt = job[w].attempt /\ i.ckpt = job[w].ckpt
    BY <1>1 DEF Job
  <2>2. With(w, i) /\ At(w, "finally") /\ UNCHANGED <<claimed, handlers>>
    BY <1>4 DEF queueVars
  <2> HIDE DEF i
  <2>3. Steady(w, i)
    BY <2>1 DEF Steady, Keeps
  <2>4. "finally" \in Points \ {"idle", "taken", "claimed", "loaded", "sending"}
        /\ "finally" \notin BeforeSend
    BY DEF Points, Busy, Executing, BeforeSend
  <2> QED BY <1>1, <1>2, <2>1, <2>2, <2>3, <2>4, RunOnce, KeepsSelf
<1>5. CASE /\ job[w].ckpt # "completed" /\ UNCHANGED job /\ At(w, "running")
           /\ UNCHANGED <<claimed, lost, renewal, queueVars>>
  <2>1. job[w].ckpt = "none"
    BY <1>1, <1>5 DEF ClaimInv, OwnInv, OwnCopy, Job, Checkpoints
  <2>2. "running" \in Points \ {"idle", "taken", "claimed", "loaded", "sending"}
    BY DEF Points, Busy, Executing
  <2>3. UNCHANGED handlers
    BY <1>5 DEF queueVars
  <2> QED BY <1>1, <1>2, <1>5, <2>1, <2>2, <2>3, RunOnce, KeepsSelf
<1> QED BY <1>3, <1>4, <1>5 DEF Start

\* The steps between the start and the end of the delivery that write, or only move.
LEMMA ExecutionOnce ==
    ASSUME TypeOK, ClaimInv, NEW w \in Workers,
           \/ Analysed(w) \/ Summarise(w) \/ NothingAnalysed(w) \/ ReportFails(w)
           \/ SendRejected(w) \/ MarkSent(w) \/ Complete(w) \/ Progress(w) \/ JobTimeout(w)
           \/ Finish(w)
    PROVE  Kept
<1>1. pc[w] \in Busy /\ job[w] \in Job /\ pc[w] \notin {"idle", "taken", "claimed", "loaded"}
  BY DEF Analysed, Summarise, NothingAnalysed, ReportFails, SendRejected, MarkSent, Complete,
         Progress, JobTimeout, Analysing, Finish, TypeOK, RunTypeOK, Busy, Executing
<1>2. /\ \A s : /\ [job[w] EXCEPT !.status = s].worker = job[w].worker
                /\ [job[w] EXCEPT !.status = s].attempt = job[w].attempt
                /\ [job[w] EXCEPT !.status = s].ckpt = job[w].ckpt
      /\ Finished(job[w]).worker = job[w].worker /\ Finished(job[w]).attempt = job[w].attempt
      /\ Finished(job[w]).ckpt = job[w].ckpt
  BY <1>1 DEF Job, Finished
<1>3. /\ Steady(w, job[w]) /\ Steady(w, Finished(job[w]))
      /\ \A s : Steady(w, [job[w] EXCEPT !.status = s])
  BY <1>2 DEF Steady, Keeps
<1>4. /\ {"overdue", "prepared", "ready", "sent", "delivered", "finally", "closing", "running"}
           \subseteq Points \ {"idle", "taken", "claimed", "loaded", "sending"}
      /\ {"delivered", "finally", "closing"} \cap BeforeSend = {}
  BY DEF Points, Busy, Executing, BeforeSend
<1>5. pc[w] \in BeforeSend => job[w].ckpt = "none"
  BY DEF ClaimInv, OwnInv, OwnCopy
<1>6. CASE Analysed(w) \/ JobTimeout(w)
  <2>1. PICK point \in {"overdue", "prepared", "finally"} : At(w, point)
    BY <1>6 DEF Analysed, JobTimeout
  <2>2. UNCHANGED <<doc, leaseLive, localTerminal, job, claimed, handlers, sends, create>>
        /\ pc[w] \in BeforeSend
    BY <1>6 DEF Analysed, Analysing, JobTimeout, repositoryVars, queueVars, webVars, BeforeSend
  <2> QED BY <1>1, <1>3, <1>4, <1>5, <2>1, <2>2, EffectFrame, RunOnce, KeepsSelf
<1>7. CASE Summarise(w) \/ Progress(w)
  <2>1. PICK next \in {"ready", "running", "overdue"} : Try(w, job[w], next)
    BY <1>7 DEF Summarise, Progress, Analysing
  <2>2. pc[w] \in BeforeSend
    BY <1>7 DEF Summarise, Progress, Analysing, BeforeSend
  <2> QED BY <1>1, <1>3, <1>4, <1>5, <2>1, <2>2, TryOnce
<1>8. CASE NothingAnalysed(w)
  <2>1. PICK s \in {"failed", "timed_out"} : Try(w, [job[w] EXCEPT !.status = s], "finally")
    BY <1>8 DEF NothingAnalysed
  <2>2. [job[w] EXCEPT !.status = s] \in Job
    BY <1>1, JobUpdates DEF TerminalStatuses
  <2> QED BY <1>1, <1>3, <1>4, <2>1, <2>2, TryOnce
<1>9. CASE MarkSent(w)
  BY <1>1, <1>3, <1>4, <1>9, TryOnce DEF MarkSent
<1>10. CASE Complete(w)
  <2>1. [job[w] EXCEPT !.status = "completed"] \in Job
    BY <1>1, JobUpdates DEF TerminalStatuses
  <2> QED BY <1>1, <1>3, <1>4, <1>10, <2>1, TryOnce DEF Complete
<1>11. CASE ReportFails(w) \/ SendRejected(w)
  <2>1. PICK i : At(w, "finally") /\ With(w, i) /\ i.worker = job[w].worker
                 /\ i.attempt = job[w].attempt /\ i.ckpt = job[w].ckpt
    BY <1>1, <1>11, CaughtOnce DEF ReportFails, SendRejected
  <2>2. Steady(w, i)
    BY <2>1 DEF Steady, Keeps
  <2>3. UNCHANGED <<doc, leaseLive, localTerminal, claimed, handlers, sends, create>>
    BY <1>11 DEF ReportFails, SendRejected, repositoryVars, queueVars, webVars
  <2>4. Saved(w, job[w])
    BY <2>3, EffectFrame
  <2> QED BY <1>1, <1>4, <2>1, <2>2, <2>3, <2>4, RunOnce, KeepsSelf
<1>12. CASE Finish(w)
  <2>1. UNCHANGED <<doc, leaseLive, localTerminal, claimed, handlers, sends, create>>
        /\ With(w, Finished(job[w])) /\ At(w, "closing")
    BY <1>12 DEF Finish, repositoryVars, queueVars, webVars
  <2>2. Saved(w, Finished(job[w]))
    BY <2>1, EffectFrame
  <2> QED BY <1>1, <1>3, <1>4, <2>1, <2>2, RunOnce, KeepsSelf
<1> QED BY <1>6, <1>7, <1>8, <1>9, <1>10, <1>11, <1>12

\* The checkpoint: it can be written only while the document has none, and then no
\* other worker is sending or has sent.
LEMMA MarkOnce ==
    ASSUME HonestInv, ClaimInv, NEW w \in Workers, MarkInFlight(w)
    PROVE  /\ ClaimInv' /\ Advances
           /\ SentOnce /\ lost[w] = "no" => SentOnce'
<1> USE DEF HonestInv
<1>1. /\ pc[w] = "ready" /\ pc[w] \in Busy
      /\ job[w] \in Job /\ job[w].status = "processing" /\ job[w].ckpt = "none"
  BY DEF MarkInFlight, TypeOK, RunTypeOK, Busy, Executing, HonestCopies,
         HonestRun, Working, ClaimInv, OwnInv, OwnCopy, BeforeSend
<1> DEFINE j == [job[w] EXCEPT !.ckpt = "in_flight"]
<1>2. /\ j \in Job /\ j.ckpt = "in_flight" /\ j.status = "processing"
      /\ j.worker = job[w].worker /\ j.attempt = job[w].attempt
  BY <1>1, JobUpdates DEF Job, Checkpoints
<1>3. Try(w, j, "sending") /\ UNCHANGED <<claimed, handlers, sends, create>>
  BY DEF MarkInFlight, Try, queueVars, webVars
<1> HIDE DEF j
<1>4. Steady(w, j)
  BY <1>1, <1>2 DEF Steady, Keeps
<1>5. Saved(w, j)
  BY <1>1, <1>2, <1>3, <1>4, PersistOnce DEF Try, Caught, repositoryVars
<1>6. /\ "sending" \in Points \ {"idle", "taken", "claimed", "loaded"}
      /\ "finally" \in Points \ {"idle", "taken", "claimed", "loaded", "sending"}
      /\ {"sending", "finally"} \cap BeforeSend = {}
  BY DEF Points, Busy, Executing, BeforeSend
<1>7. Keeps(j.ckpt, j.ckpt)
  BY DEF Keeps
<1>8. CASE With(w, j) /\ At(w, "finally")
  <2>1. Kept
    BY <1>1, <1>3, <1>4, <1>5, <1>6, <1>7, <1>8, RunOnce
  <2> QED BY <2>1 DEF Kept
<1>9. CASE Caught(w, j)
  <2>1. PICK i : At(w, "finally") /\ With(w, i) /\ i.worker = j.worker
                 /\ i.attempt = j.attempt /\ i.ckpt = j.ckpt
    BY <1>2, <1>9, CaughtOnce
  <2>2. Steady(w, i)
    BY <1>4, <2>1 DEF Steady
  <2>3. Kept
    BY <1>1, <1>3, <1>5, <1>6, <1>7, <2>1, <2>2, RunOnce
  <2> QED BY <2>3 DEF Kept
<1>10. CASE With(w, j) /\ At(w, "sending") /\ (PersistOk(w, j) \/ lost[w] # "no")
  <2>1. OnlyMoves(w) /\ (OwnClaim(w) /\ OwnCopy(w))' /\ Effect(w)
    BY <1>1, <1>3, <1>4, <1>5, <1>6, <1>7, <1>10, RunFacts DEF Saved
  <2>2. OwnInv' /\ Unique' /\ NoLateHandler'
    BY <1>3, <2>1, WorkerOnce
  <2>3. Stored'
    BY <1>1, <1>3, <2>1 DEF ClaimInv, Stored, Effect, OnlyMoves
  <2>4. Advances
    BY <2>1 DEF Advances, Effect, Keeps
  <2>5. ASSUME SentOnce, lost[w] = "no"
        PROVE  SentOnce'
    <3>1. doc' = j /\ Open' /\ Open
      BY <1>2, <1>10, <2>1, <2>5 DEF PersistOk, SaveOk, Put, Open, Effect
    <3>2. ~Terminal(View(w))
      BY <1>2, <1>10, <2>5 DEF PersistOk, Overruled, Terminal, TerminalStatuses
    <3>3. ~Blind(w)
      BY <3>2 DEF View, Blind
    <3>4. Holds(w) \/ doc = j
      BY <1>5, <3>1 DEF Saved
    <3>5. job[w].worker = IdOf[w] /\ job[w].attempt = claimed[w] /\ claimed[w] # 0
          /\ (Holds(w) => Keeps(doc.ckpt, job[w].ckpt))
      BY <1>1, <3>1, <3>3 DEF ClaimInv, OwnInv, OwnCopy, OwnClaim
    <3>6. Holds(w)
      BY <1>2, <3>4, <3>5 DEF Holds
    <3>7. doc.ckpt = "none"
      BY <1>1, <3>5, <3>6 DEF Keeps
    <3>8. sends = 0 /\ \A v \in Workers : pc[v] # "sending"
      BY <2>5, <3>1, <3>7 DEF SentOnce
    <3> QED BY <1>2, <1>3, <2>1, <3>1, <3>8 DEF SentOnce, OnlyMoves
  <2> QED BY <2>2, <2>3, <2>4, <2>5 DEF ClaimInv
<1> QED BY <1>3, <1>8, <1>9, <1>10 DEF Try

LEMMA SendOnce ==
    ASSUME TypeOK, ClaimInv, NEW w \in Workers, Send(w)
    PROVE  Kept
<1> DEFINE i == [job[w] EXCEPT !.ckpt = "completed"]
<1>1. /\ pc[w] = "sending" /\ pc[w] \in Busy /\ job[w] \in Job /\ sends' = sends + 1
      /\ UNCHANGED <<doc, leaseLive, localTerminal, claimed, handlers, create>>
  BY DEF Send, TypeOK, RunTypeOK, Busy, Executing, repositoryVars, queueVars, webVars
<1>2. i.worker = job[w].worker /\ i.attempt = job[w].attempt /\ i.ckpt = "completed"
  BY <1>1 DEF Job
<1>3. With(w, i) /\ At(w, "sent")
  BY DEF Send
<1> HIDE DEF i
<1>4. Steady(w, i) /\ Keeps(i.ckpt, i.ckpt)
  BY <1>2 DEF Steady, Keeps
<1>5. Saved(w, i)
  BY <1>1, EffectFrame
<1>6. "sent" \in Points \ {"idle", "taken", "claimed", "loaded"} /\ "sent" \notin BeforeSend
  BY DEF Points, Busy, Executing, BeforeSend
<1>7. OnlyMoves(w) /\ (OwnClaim(w) /\ OwnCopy(w))' /\ Effect(w)
  BY <1>1, <1>2, <1>3, <1>4, <1>5, <1>6, RunFacts DEF Saved
<1>8. OwnInv' /\ Unique' /\ NoLateHandler'
  BY <1>1, <1>7, WorkerOnce
<1>9. SentOnce => sends = 0 /\ \A v \in Workers : pc'[v] # "sending"
  BY <1>1, <1>3 DEF SentOnce, At, TypeOK, RunTypeOK
<1>10. SentOnce => SentOnce'
  BY <1>1, <1>9 DEF SentOnce, Open
<1>11. Stored' /\ Advances
  BY <1>1, <1>7 DEF ClaimInv, Stored, OnlyMoves, Advances, Keeps
<1> QED BY <1>8, <1>10, <1>11 DEF ClaimInv, Kept

LEMMA ClosingOnce ==
    ASSUME TypeOK, ClaimInv, NEW w \in Workers,
           LeaveLost(w) \/ CloseCancelled(w) \/ Close(w)
    PROVE  Kept
<1>1. pc[w] \in Busy /\ job[w] \in Job /\ Steady(w, job[w]) /\ UNCHANGED <<sends, create>>
  BY DEF LeaveLost, CloseCancelled, Close, TypeOK, RunTypeOK, Busy, Executing, Steady, webVars, Keeps
<1>2. PICK j \in Job : Saved(w, j) /\ (j.status = "processing" => j = job[w])
  <2>1. CASE LeaveLost(w)
    <3>1. UNCHANGED <<doc, leaseLive, localTerminal>>
      BY <2>1 DEF LeaveLost, repositoryVars
    <3> QED BY <1>1, <3>1, EffectFrame
  <2>2. CASE CloseCancelled(w)
    <3>1. View(w) \in Job /\ View(w).status = "cancelled"
      BY <2>2, ViewType, TerminalIsJob DEF CloseCancelled, Cancelled, Procs, TypeOK
    <3>2. Finished(View(w)) \in Job /\ Finished(View(w)).status = "cancelled"
      BY <3>1, JobUpdates DEF Finished, Job
    <3>3. Saved(w, Finished(View(w)))
      BY <1>1, <2>2, <3>2, PersistOnce DEF CloseCancelled
    <3> QED BY <3>2, <3>3
  <2>3. CASE Close(w)
    BY <1>1, <2>3, PersistOnce DEF Close
  <2> QED BY <2>1, <2>2, <2>3
<1>3. CASE Throw(w, claimed[w]) \/ Return(w)
  BY <1>1, <1>2, <1>3, ThrowOnce, QuitOnce DEF Saved
<1>4. CASE At(w, "closed") /\ UNCHANGED <<job, claimed, lost, renewal, queueVars>>
  <2>1. "closed" \in Points \ {"idle", "taken", "claimed", "loaded", "sending"}
        /\ "closed" \notin BeforeSend
    BY DEF Points, Busy, Executing, BeforeSend
  <2>2. UNCHANGED <<claimed, handlers, job>>
    BY <1>4 DEF queueVars
  <2> QED BY <1>1, <1>2, <1>4, <2>1, <2>2, RunOnce, KeepsSelf
<1> QED BY <1>3, <1>4 DEF LeaveLost, CloseCancelled, Close

LEMMA BackgroundOnce ==
    ASSUME TypeOK, ClaimInv, NEW w \in Workers,
           \/ Take(w) \/ Callback(w) \/ Pulse(w) \/ RenewalAnswer(w) \/ LoseLock(w)
           \/ Stalled(w) \/ Crash(w)
    PROVE  Kept
<1>1. CASE Callback(w)
  <2>1. Effect(w) /\ UNCHANGED <<sends, create>>
    BY <1>1, EffectFrame DEF Callback, webVars
  <2> QED BY <1>1, <2>1, ThrowOnce, QuitOnce DEF Callback
<1>2. CASE Crash(w)
  <2>1. Leave(w) /\ handlers' \subseteq handlers /\ UNCHANGED <<doc, leaseLive, sends, create>>
        /\ localTerminal' = [localTerminal EXCEPT ![w] = Absent]
    BY <1>2 DEF Crash, webVars
  <2>2. Effect(w)
    BY <2>1 DEF Effect, Open, TypeOK, RepositoryTypeOK, Procs
  <2> QED BY <2>1, <2>2, QuitOnce
<1>3. CASE Take(w) \/ Pulse(w) \/ RenewalAnswer(w) \/ LoseLock(w) \/ Stalled(w)
  <2>1. UNCHANGED <<doc, localTerminal>> /\ (leaseLive' = leaseLive \/ leaseLive')
    <3>1. CASE Pulse(w)
      <4>1. leaseLive' = (leaseLive \/ ~Terminal(doc)) => leaseLive' = leaseLive \/ leaseLive'
        BY DEF TypeOK, RepositoryTypeOK
      <4> QED BY <3>1, <4>1 DEF Pulse, Renew
    <3>2. CASE Take(w) \/ RenewalAnswer(w) \/ LoseLock(w) \/ Stalled(w)
      BY <3>2 DEF Take, RenewalAnswer, LoseLock, Stalled, repositoryVars
    <3> QED BY <1>3, <3>1, <3>2
  <2>2. /\ UNCHANGED <<job, claimed, sends, create, doc, localTerminal>>
        /\ \A h \in handlers' \ handlers : h.attempt = 0
    BY <1>3 DEF Take, Pulse, Renew, RenewalAnswer, LoseLock, Stalled, repositoryVars, runVars,
                queueVars, webVars
  <2>3. pc' = pc \/ (pc[w] = "idle" /\ At(w, "taken"))
    BY <1>3 DEF Take, Pulse, RenewalAnswer, LoseLock, Stalled, runVars, At
  <2>4. OnlyMoves(w) /\ pc'[w] \in {pc[w], "taken"} /\ (pc'[w] # pc[w] => pc[w] = "idle")
    BY <2>2, <2>3 DEF OnlyMoves, At, TypeOK, RunTypeOK
  <2>5. (OwnClaim(w) /\ OwnCopy(w))'
    <3>1. OwnClaim(w) /\ OwnCopy(w) /\ "taken" \notin Busy \cup BeforeSend
      BY DEF ClaimInv, OwnInv, Busy, Executing, BeforeSend
    <3>2. leaseLive => leaseLive'
      BY <2>1
    <3> QED BY <2>2, <2>4, <3>1, <3>2 DEF OwnClaim, OwnCopy, Open, Blind, Terminal, Holds
  <2>6. Effect(w)
    BY <2>1, EffectFrame
  <2>7. OwnInv' /\ Unique' /\ NoLateHandler'
    BY <2>2, <2>4, <2>5, <2>6, WorkerOnce
  <2>8. pc'[w] \in {pc[w]} \cup (Points \ {"sending"}) /\ (pc'[w] \in Busy => doc.status # "absent")
    BY <2>4 DEF ClaimInv, Stored, Points, Busy, Executing
  <2> QED BY <2>2, <2>4, <2>7, <2>8, <2>6, QuietOnce
<1> QED BY <1>1, <1>2, <1>3

\* A step of nobody's run: the document stays, is released by the handler of an attempt
\* that nobody executes, or is no longer open.
LEMMA FrameOnce ==
    ASSUME TypeOK, ClaimInv, UNCHANGED <<pc, job, claimed, sends>>,
           \A w \in Workers : localTerminal'[w] = localTerminal[w],
           \A h \in handlers' : \E g \in handlers : g.worker = h.worker /\ g.attempt = h.attempt,
           Stored',
           Open' => /\ Open
                    /\ \/ UNCHANGED <<doc, leaseLive>>
                       \/ UNCHANGED doc /\ \A w \in Workers : pc[w] # "claimed"
                       \/ /\ doc' = Released
                          /\ \A w \in Workers : pc[w] # "claimed"
    PROVE  Kept
<1>1. Open' => doc'.attempt = doc.attempt /\ doc'.ckpt = doc.ckpt
  BY DEF Released, Open, TypeOK, RepositoryTypeOK, Job, Absent
<1>2. OwnInv'
  <2> SUFFICES ASSUME NEW w \in Workers PROVE (OwnClaim(w) /\ OwnCopy(w))'
    BY DEF OwnInv
  <2>1. OwnClaim(w) /\ OwnCopy(w)
    BY DEF ClaimInv, OwnInv
  <2>2. Open' /\ doc' # doc => ~Holds(w)'
    <3>1. IdOf[w] # Nobody
      BY RepositoryAssumption
    <3>2. doc' = Released /\ doc \in Job => doc'.worker = Nobody
      BY DEF Released, Job
    <3>3. Open => doc \in Job
      BY DEF Open, TypeOK, RepositoryTypeOK, Absent
    <3> QED BY <3>1, <3>2, <3>3 DEF Holds
  <2>3. OwnClaim(w)'
    BY <1>1, <2>1 DEF OwnClaim, Holds
  <2>4. OwnCopy(w)'
    BY <1>1, <2>1, <2>2 DEF OwnCopy, Blind, Terminal, Holds
  <2> QED BY <2>3, <2>4
<1>3. NoLateHandler'
  <2> SUFFICES ASSUME Open', NEW h \in handlers'
               PROVE  /\ h.attempt <= doc'.attempt
                      /\ h.attempt # 0 => \A w \in Workers : claimed'[w] # h.attempt
    BY DEF NoLateHandler
  <2>1. PICK g \in handlers : g.worker = h.worker /\ g.attempt = h.attempt
    OBVIOUS
  <2> QED BY <1>1, <2>1 DEF ClaimInv, NoLateHandler
<1>4. Unique' /\ Advances /\ (SentOnce => SentOnce')
  BY <1>1 DEF ClaimInv, Unique, SentOnce, Advances, Keeps
<1> QED BY <1>2, <1>3, <1>4 DEF ClaimInv, Kept

LEMMA HandlersOnce ==
    ASSUME TypeOK, ClaimInv, HandleClaim \/ HandleEntry
    PROVE  Kept
<1>1. PICK h \in handlers : ReleaseClaim(h) \/ FailClaim(h) \/ Requeue(h)
  BY DEF HandleClaim, HandleEntry
<1>2. /\ UNCHANGED <<pc, job, claimed, sends, localTerminal, create>>
  BY <1>1 DEF ReleaseClaim, FailClaim, Requeue, repositoryVars, runVars, webVars
<1>3. \A k \in handlers' : \E g \in handlers : g.worker = k.worker /\ g.attempt = k.attempt
  <2>1. h \in Handler
    BY DEF TypeOK, QueueTypeOK
  <2>2. LET k == [h EXCEPT !.tries = h.tries + 1] IN k.worker = h.worker /\ k.attempt = h.attempt
    BY <2>1 DEF Handler
  <2>3. handlers' \subseteq handlers \cup {[h EXCEPT !.tries = h.tries + 1]}
    BY <1>1 DEF ReleaseClaim, FailClaim, Requeue, Done
  <2> QED BY <2>2, <2>3
<1>4. h.worker \in Workers /\ h.attempt \in Nat
  BY AttemptIsNat
<1>5. CASE UNCHANGED <<doc, leaseLive>>
  BY <1>2, <1>3, <1>5, FrameOnce DEF ClaimInv, Stored, Open
<1>6. CASE OwnsClaim(h.worker, h.attempt) /\ (Put(Released) \/ Put(FailedJob))
  <2>1. doc \in Job /\ doc.worker = IdOf[h.worker] /\ doc.attempt = h.attempt
    BY <1>6, TerminalIsJob DEF OwnsClaim, TypeOK, RepositoryTypeOK
  <2>2. Open /\ doc' \in {Released, FailedJob} /\ Released.status = doc.status
        /\ FailedJob.status = "failed"
    BY <1>6, <2>1 DEF OwnsClaim, Put, Released, FailedJob, Open, Terminal, Job
  <2>3. \A w \in Workers : pc[w] # "claimed"
    <3> SUFFICES ASSUME NEW w \in Workers, pc[w] = "claimed" PROVE FALSE
      OBVIOUS
    <3>1. claimed[w] = h.attempt /\ h.attempt # 0
      BY <2>1, <2>2 DEF ClaimInv, OwnInv, OwnClaim, Holds
    <3> QED BY <2>2, <3>1 DEF ClaimInv, NoLateHandler
  <2>4. Stored'
    BY <1>2, <2>2 DEF ClaimInv, Stored, Open
  <2> QED BY <1>2, <1>3, <2>2, <2>3, <2>4, FrameOnce DEF Open
<1> QED BY <1>1, <1>5, <1>6 DEF ReleaseClaim, FailClaim, Requeue, UpdateClaim, repositoryVars

LEMMA WebOnce ==
    ASSUME TypeOK, CancelInv, ClaimInv, KeptDocument, "claimed" \notin StallPoints,
           \/ Creation \/ Cancellation \/ Reconcile \/ LeaseExpires \/ DeleteExpired \/ WebCrash
    PROVE  Kept
<1>1. /\ UNCHANGED <<pc, job, claimed, sends, handlers>>
      /\ ~CreateFail /\ ~Discard /\ ~DeleteExpired
  <2>1. ~CreateFail /\ ~Discard /\ ~DeleteExpired
    BY DEF CreateFail, Discard, DeleteExpired, ClaimInv, Stored, KeptDocument, TypeOK, WebTypeOK
  <2> QED BY <2>1
          DEF Creation, CreateSave, Enqueue, Cancellation, CancelRead, CancelCheck, CancelSave,
              CancelRefused, Reconcile, LeaseExpires, WebCrash, runVars, queueVars
<1>2. CASE CreateSave
  <2>1. /\ doc = Absent /\ handlers = {} /\ \A w \in Workers : pc[w] = "idle"
    BY <1>2 DEF CreateSave, CancelInv, RequestInv, Untouched
  <2>2. doc' \in {doc, FreshJob} /\ UNCHANGED localTerminal /\ create' \notin {"failing", "discarding"}
    BY <1>2 DEF CreateSave, SaveOk, SaveFails, Put, Remember, FreshJob, Terminal, TerminalStatuses
  <2>3. sends = 0 /\ doc.attempt = 0 /\ \A w \in Workers : claimed[w] = 0
    BY <2>1 DEF ClaimInv, OwnInv, OwnClaim, Stored, Absent
  <2>4. "idle" \notin Busy \cup BeforeSend \cup {"sending", "claimed", "loaded"}
    BY DEF Busy, Executing, BeforeSend
  <2>5. doc'.attempt = 0
    BY <2>2, <2>3 DEF FreshJob
  <2>6. OwnInv'
    BY <1>1, <2>1, <2>3, <2>4, <2>5 DEF OwnInv, OwnClaim, OwnCopy
  <2>7. Unique' /\ NoLateHandler' /\ SentOnce' /\ Stored'
    BY <1>1, <2>1, <2>2, <2>3, <2>4 DEF Unique, NoLateHandler, SentOnce, Stored
  <2>8. Advances
    BY <2>1 DEF Advances, Open, Absent
  <2> QED BY <2>6, <2>7, <2>8 DEF ClaimInv, Kept
<1>3. CASE CancelSave
  <2>1. /\ UNCHANGED <<doc, leaseLive>> \/ (doc' = cancel.copy /\ doc'.status = "cancelled")
        /\ \A w \in Workers : localTerminal'[w] = localTerminal[w]
    <3>1. localTerminal' = localTerminal
          \/ localTerminal' = [localTerminal EXCEPT ![Web] = cancel.copy]
      BY <1>3 DEF CancelSave, SaveOk, SaveRefused, SaveFails, Remember
    <3>2. UNCHANGED <<doc, leaseLive>> \/ doc' = cancel.copy
      BY <1>3 DEF CancelSave, SaveOk, SaveRefused, SaveFails, Put
    <3>3. cancel.copy.status = "cancelled"
      BY <1>3 DEF CancelSave, CancelInv, RequestInv
    <3> QED BY <3>1, <3>2, <3>3, RepositoryAssumption DEF TypeOK, RepositoryTypeOK, Procs
  <2>2. Stored'
    BY <1>1, <1>3, <2>1 DEF CancelSave, ClaimInv, Stored
  <2> QED BY <1>1, <2>1, <2>2, FrameOnce DEF Open
<1>4. CASE Enqueue \/ CancelRead \/ CancelCheck \/ CancelRefused \/ Reconcile \/ WebCrash
  <2>1. UNCHANGED <<doc, leaseLive>> /\ \A w \in Workers : localTerminal'[w] = localTerminal[w]
    BY <1>4, RepositoryAssumption
       DEF Enqueue, CancelRead, CancelCheck, CancelRefused, Reconcile, WebCrash, repositoryVars,
           TypeOK, RepositoryTypeOK, Procs
  <2>2. create' \notin {"failing", "discarding"}
    BY <1>4 DEF Enqueue, OutOrFaulty, Faulty, KeptDocument, CancelRead, CancelCheck, CancelRefused,
                Reconcile, WebCrash, webVars, ClaimInv, Stored
  <2>3. Stored'
    BY <1>1, <2>1, <2>2 DEF ClaimInv, Stored
  <2> QED BY <1>1, <2>1, <2>3, FrameOnce DEF Open
<1>5. CASE LeaseExpires
  <2>1. UNCHANGED <<doc, localTerminal, create>>
    BY <1>5 DEF LeaseExpires, Expire, webVars
  <2>2. Open => \A w \in Workers : pc[w] # "claimed"
    BY <1>5 DEF LeaseExpires, ClaimInv, OwnInv, OwnClaim
  <2>3. Stored'
    BY <1>1, <2>1 DEF ClaimInv, Stored
  <2> QED BY <1>1, <2>1, <2>2, <2>3, FrameOnce DEF Open
<1> QED BY <1>1, <1>2, <1>3, <1>4, <1>5 DEF Creation, Cancellation

\* Every step keeps the claims apart and the checkpoint of an open document.
LEMMA ClaimsStep ==
    ASSUME HonestInv, CancelInv, ClaimInv, KeptDocument, "claimed" \notin StallPoints, [Next]_vars
    PROVE  ClaimInv' /\ Advances
<1>1. TypeOK
  BY DEF HonestInv
<1>2. CASE UNCHANGED vars
  <2>1. Kept
    BY <1>1, <1>2, FrameOnce
       DEF vars, repositoryVars, runVars, queueVars, webVars, ClaimInv, Stored, Open
  <2> QED BY <2>1 DEF Kept
<1>3. ASSUME NEW w \in Workers, Take(w) \/ Advance(w) \/ Background(w)
      PROVE  ClaimInv' /\ Advances
  BY <1>1, <1>3, ClaimsOnce, LoadOnce, StartOnce, ExecutionOnce, MarkOnce, SendOnce,
     ClosingOnce, BackgroundOnce DEF Advance, Background, Kept
<1>4. CASE HandleClaim \/ HandleEntry
  BY <1>1, <1>4, HandlersOnce DEF Kept
<1>5. CASE Creation \/ Cancellation \/ Reconcile \/ LeaseExpires \/ DeleteExpired \/ WebCrash
  BY <1>1, <1>5, WebOnce DEF Kept
<1> QED BY <1>2, <1>3, <1>4, <1>5 DEF Next

\* And what is said of the sends, when no loss of the claim goes unnoticed.
LEMMA SendsStep ==
    ASSUME HonestInv, LossSeen, CancelInv, OnceInv, KeptDocument, "claimed" \notin StallPoints,
           [Next]_vars
    PROVE  SentOnce'
<1>1. TypeOK /\ ClaimInv /\ SentOnce
  BY DEF HonestInv, OnceInv
<1>2. CASE UNCHANGED vars
  BY <1>1, <1>2 DEF vars, repositoryVars, runVars, SentOnce, Open
<1>3. ASSUME NEW w \in Workers, MarkInFlight(w)
      PROVE  SentOnce'
  <2>1. lost[w] = "no"
    BY <1>3 DEF MarkInFlight, LossSeen, Unwatched
  <2> QED BY <1>1, <1>3, <2>1, MarkOnce
<1>4. ASSUME NEW w \in Workers, Take(w) \/ Advance(w) \/ Background(w), ~MarkInFlight(w)
      PROVE  SentOnce'
  BY <1>1, <1>4, ClaimsOnce, LoadOnce, StartOnce, ExecutionOnce, SendOnce,
     ClosingOnce, BackgroundOnce DEF Advance, Background, Kept
<1>5. CASE HandleClaim \/ HandleEntry
  BY <1>1, <1>5, HandlersOnce DEF Kept
<1>6. CASE Creation \/ Cancellation \/ Reconcile \/ LeaseExpires \/ DeleteExpired \/ WebCrash
  BY <1>1, <1>6, WebOnce DEF Kept
<1> QED BY <1>2, <1>3, <1>4, <1>5, <1>6 DEF Next

LEMMA InitiallyOnce == Init => OnceInv
<1> SUFFICES ASSUME Init PROVE OnceInv
  OBVIOUS
<1>1. ~Open /\ handlers = {} /\ sends = 0 /\ create = "new"
      /\ \A w \in Workers : pc[w] = "idle" /\ claimed[w] = 0
  BY DEF Init, RepositoryInit, Open, Absent
<1>2. "idle" \notin Busy \cup BeforeSend \cup {"sending", "claimed", "loaded"}
  BY DEF Busy, Executing, BeforeSend
<1> QED BY <1>1, <1>2
        DEF OnceInv, ClaimInv, OwnInv, OwnClaim, OwnCopy, Unique, NoLateHandler, SentOnce, Stored

LEMMA ClaimsAlways ==
    ASSUME KeptDocument, "claimed" \notin StallPoints
    PROVE  Spec => []ClaimInv
<1>1. Init => ClaimInv
  BY InitiallyOnce DEF OnceInv
<1>2. HonestInv /\ CancelInv /\ ClaimInv /\ [Next]_vars => ClaimInv'
  BY ClaimsStep
<1> QED BY <1>1, <1>2, HonestAlways, RequestsAlways, PTL DEF Spec

LEMMA OnceAlways ==
    ASSUME KeptDocument, "claimed" \notin StallPoints, LossPoints \cap Unwatched = {}
    PROVE  Spec => []OnceInv
<1>1. Init => OnceInv
  BY InitiallyOnce
<1>2. HonestInv /\ LossSeen /\ CancelInv /\ OnceInv /\ [Next]_vars => OnceInv'
  BY ClaimsStep, SendsStep DEF OnceInv
<1> QED BY <1>1, <1>2, LossSeenAlways, HonestAlways, RequestsAlways, PTL DEF Spec

\* No whole-document write of a worker, a handler or a request loses the delivery
\* checkpoint of an open job, for every number of claims, workers and faults, and also
\* when workers share an identifier.
THEOREM CheckpointsKept ==
    ASSUME KeptDocument, "claimed" \notin StallPoints
    PROVE  Spec => CheckpointKept
<1>1. HonestInv /\ CancelInv /\ ClaimInv /\ [Next]_vars
      => [doc.status = "processing" /\ doc'.status = "processing"
            => /\ doc.ckpt = "in_flight" => doc'.ckpt # "none"
               /\ doc.ckpt = "completed" => doc'.ckpt = "completed"]_vars
  BY ClaimsStep DEF Advances, Keeps, Open
<1> QED BY <1>1, HonestAlways, RequestsAlways, ClaimsAlways, PTL DEF Spec, CheckpointKept

-----------------------------------------------------------------------------
(* A worker that has not been told of the loss of its claim sends under a    *)
(* checkpoint.  It gets there by MarkInFlight alone, whose save went through; *)
(* what the document says afterwards follows from CheckpointKept.            *)

SendPoints == {"sending", "sent"}

\* A step of w starts no send, warns w or not, and is not seen by the others.
StartsNoSend(w) ==
    /\ \A v \in Workers \ {w} : pc'[v] = pc[v] /\ lost'[v] = lost[v]
    /\ pc'[w] \in SendPoints /\ lost'[w] = "no" => pc[w] \in SendPoints /\ lost[w] = "no"

LEMMA TryStartsNoSend ==
    ASSUME TypeOK, NEW w \in Workers, NEW j, NEW next, next \notin SendPoints, Try(w, j, next)
    PROVE  StartsNoSend(w)
BY DEF Try, Caught, StartsNoSend, At, SendPoints, TypeOK, RunTypeOK

LEMMA WorkerStartsNoSend ==
    ASSUME TypeOK, NEW w \in Workers, Take(w) \/ Advance(w) \/ Background(w), ~MarkInFlight(w)
    PROVE  StartsNoSend(w)
<1>1. CASE Leave(w)
  BY <1>1 DEF Leave, StartsNoSend, SendPoints, TypeOK, RunTypeOK
<1>2. CASE /\ UNCHANGED lost
           /\ \E point \in {"taken", "closed", "claimed", "loaded", "running", "overdue",
                            "prepared", "finally", "closing"} : At(w, point)
  BY <1>2 DEF StartsNoSend, At, SendPoints, TypeOK, RunTypeOK
<1>3. CASE Progress(w)
  BY <1>3, TryStartsNoSend DEF Progress, Analysing, SendPoints
<1>4. CASE Analysed(w) \/ JobTimeout(w)
  BY <1>2, <1>4 DEF Analysed, JobTimeout
<1>5. CASE Summarise(w) \/ NothingAnalysed(w) \/ MarkSent(w) \/ Complete(w)
  BY <1>5, TryStartsNoSend DEF Summarise, NothingAnalysed, MarkSent, Complete, SendPoints
<1>6. CASE Pulse(w) \/ LoseLock(w) \/ Stalled(w)
  BY <1>6 DEF Pulse, LoseLock, Stalled, runVars, StartsNoSend
<1>7. CASE RenewalAnswer(w)
  BY <1>7 DEF RenewalAnswer, StartsNoSend, TypeOK, RunTypeOK
<1>8. CASE ClaimSkipped(w) \/ ClaimActive(w) \/ ClaimJob(w) \/ ClaimUnavailable(w) \/ Load(w)
             \/ Start(w) \/ Take(w)
  BY <1>1, <1>2, <1>8
     DEF ClaimSkipped, ClaimActive, ClaimJob, ClaimUnavailable, Load, Start, Take, Return, Throw,
         At
<1>9. CASE ReportFails(w) \/ SendRejected(w)
  BY <1>2, <1>9 DEF ReportFails, SendRejected, Caught
<1>10. CASE Send(w)
  BY <1>10 DEF Send, At, StartsNoSend, SendPoints, TypeOK, RunTypeOK
<1>11. CASE LeaveLost(w) \/ CloseCancelled(w) \/ Finish(w) \/ Close(w) \/ Callback(w) \/ Crash(w)
  BY <1>1, <1>2, <1>11
     DEF LeaveLost, CloseCancelled, Finish, Close, Callback, Crash, Return, Throw
<1> QED BY <1>3, <1>4, <1>5, <1>6, <1>7, <1>8, <1>9, <1>10, <1>11 DEF Advance, Background

\* The step that starts a send saves the checkpoint, or w knows of the lost claim.
LEMMA MarkingSaves ==
    ASSUME HonestInv, NEW w \in Workers, MarkInFlight(w)
    PROVE  /\ \A v \in Workers \ {w} : pc'[v] = pc[v] /\ lost'[v] = lost[v]
           /\ pc'[w] \in SendPoints /\ lost'[w] = "no" => doc'.ckpt = "in_flight"
<1>1. /\ pc \in [Workers -> Points] /\ lost \in [Workers -> {"no", "lost", "error"}]
      /\ job[w] \in Job
  BY DEF MarkInFlight, HonestInv, TypeOK, RunTypeOK, Busy, Executing
<1> DEFINE j == [job[w] EXCEPT !.ckpt = "in_flight"]
<1>2. j.ckpt = "in_flight"
  BY <1>1 DEF Job
<1>3. Try(w, j, "sending")
  BY DEF MarkInFlight
<1> HIDE DEF j
<1>4. \A v \in Workers \ {w} : pc'[v] = pc[v] /\ lost'[v] = lost[v]
  BY <1>1, <1>3 DEF Try, Caught, At
<1>5. CASE PersistOk(w, j)
  BY <1>2, <1>4, <1>5 DEF PersistOk, SaveOk, Put
<1>6. CASE lost[w] # "no" /\ UNCHANGED lost
  BY <1>4, <1>6
<1>7. CASE At(w, "finally")
  BY <1>1, <1>4, <1>7 DEF At, SendPoints
<1> QED BY <1>3, <1>5, <1>6, <1>7 DEF Try, Caught

\* An open document stays closed once it is, while a worker executes the job.
LEMMA StaysClosed ==
    ASSUME TypeOK, ClaimInv, NEW w \in Workers, pc[w] \in SendPoints, ~Open, Next
    PROVE  ~Open'
<1>1. doc.status # "absent"
  BY DEF ClaimInv, Stored, SendPoints, Busy, Executing
<1>2. Terminal(doc) /\ "processing" \notin TerminalStatuses
  BY <1>1 DEF Open, Terminal, TypeOK, RepositoryTypeOK, Job, Absent, TerminalStatuses
<1>3. doc'.status \in {doc.status, "absent"}
  BY <1>2, WorkerKeepsStatus, HandlerKeepsStatus, WebKeepsStatus DEF Next
<1> QED BY <1>2, <1>3 DEF Open, Terminal

LEMMA MarksStep ==
    ASSUME HonestInv, CancelInv, ClaimInv, MarkedWhileSending, KeptDocument,
           "claimed" \notin StallPoints, [Next]_vars
    PROVE  MarkedWhileSending'
<1> SUFFICES ASSUME NEW w \in Workers, pc'[w] \in SendPoints, lost'[w] = "no", Open'
             PROVE  doc'.ckpt # "none"
  BY DEF MarkedWhileSending, SendPoints, Open
<1>1. TypeOK /\ Advances
  BY ClaimsStep DEF HonestInv
<1>2. CASE pc[w] \in SendPoints /\ lost[w] = "no"
  <2>1. CASE UNCHANGED vars
    BY <1>2, <2>1 DEF vars, repositoryVars, MarkedWhileSending, SendPoints, Open
  <2>2. CASE Next
    <3>1. Open
      BY <1>1, <1>2, <2>2, StaysClosed
    <3>2. doc.ckpt # "none"
      BY <1>2, <3>1 DEF MarkedWhileSending, SendPoints, Open
    <3> QED BY <1>1, <3>1, <3>2 DEF Advances, Keeps
  <2> QED BY <2>1, <2>2
<1>3. CASE ~(pc[w] \in SendPoints /\ lost[w] = "no")
  <2>1. ~UNCHANGED <<pc, lost>>
    BY <1>3
  <2>2. PICK v \in Workers : Take(v) \/ Advance(v) \/ Background(v)
    BY <2>1, OthersStay DEF Next, vars, runVars
  <2>3. MarkInFlight(v)
    BY <1>1, <1>3, <2>2, WorkerStartsNoSend DEF StartsNoSend
  <2>4. v = w
    BY <1>3, <2>3, MarkingSaves
  <2> QED BY <2>3, <2>4, MarkingSaves
<1> QED BY <1>2, <1>3

\* While a worker sends that has not been told of the loss of its claim, the document of
\* the open job has the checkpoint: wherever the answers of failed renewals arrive, for
\* every number of workers, takeovers and faults, and also when workers share an identifier.
THEOREM SendsStayMarked ==
    ASSUME KeptDocument, "claimed" \notin StallPoints
    PROVE  Spec => []MarkedWhileSending
<1>1. Init => MarkedWhileSending
  BY DEF Init, MarkedWhileSending
<1>2. HonestInv /\ CancelInv /\ ClaimInv /\ MarkedWhileSending /\ [Next]_vars
        => MarkedWhileSending'
  BY MarksStep
<1> QED BY <1>1, <1>2, HonestAlways, RequestsAlways, ClaimsAlways, PTL DEF Spec

-----------------------------------------------------------------------------
LEMMA HandlersGrow ==
    ASSUME NEW w \in Workers, Take(w) \/ Advance(w) \/ Background(w)
    PROVE  Crash(w) \/ handlers \subseteq handlers'
BY DEF Take, Advance, Background, ClaimSkipped, ClaimActive, ClaimJob, ClaimUnavailable, Load,
       Start, Analysed, Summarise, NothingAnalysed, ReportFails, MarkInFlight, Send, SendRejected,
       MarkSent, Complete, LeaveLost, CloseCancelled, Finish, Close, Callback, Progress,
       JobTimeout, Try, Pulse, RenewalAnswer, LoseLock, Stalled, Throw, Return, queueVars

\* A failure handler releases or fails the job only when no worker executes the attempt
\* it names, however late it runs, and also when workers share an identifier.
THEOREM ClaimsAreNotStolen ==
    ASSUME KeptDocument, "claimed" \notin StallPoints
    PROVE  Spec => NoClaimTheft
<1>1. TypeOK /\ ClaimInv /\ [Next]_vars
      => [handlers \ handlers' # {} /\ doc' # doc
            => \A w \in Workers : pc[w] \in Executing => ~Holds(w)]_vars
  <2> SUFFICES ASSUME TypeOK, ClaimInv, Next, handlers \ handlers' # {}, doc' # doc,
                      NEW w \in Workers
               PROVE  ~Holds(w)
    OBVIOUS
  <2>1. HandleClaim \/ HandleEntry
    <3>1. ASSUME NEW v \in Workers, Take(v) \/ Advance(v) \/ Background(v)
          PROVE  FALSE
      <4>1. Crash(v) \/ handlers \subseteq handlers'
        BY <3>1, HandlersGrow
      <4> QED BY <4>1 DEF Crash
    <3>2. CASE Reconcile \/ Creation \/ Cancellation \/ DeleteExpired \/ WebCrash \/ LeaseExpires
      BY <3>2 DEF Reconcile, Creation, CreateSave, Enqueue, CreateFail, Discard, Cancellation,
                  CancelRead, CancelCheck, CancelSave, CancelRefused, DeleteExpired, WebCrash,
                  LeaseExpires, queueVars
    <3> QED BY <3>1, <3>2 DEF Next
  <2>2. PICK h \in handlers : ReleaseClaim(h) \/ FailClaim(h) \/ Requeue(h)
    BY <2>1 DEF HandleClaim, HandleEntry
  <2>3. OwnsClaim(h.worker, h.attempt)
    BY <2>2 DEF ReleaseClaim, FailClaim, Requeue, UpdateClaim, repositoryVars
  <2>4. Open /\ doc.attempt = h.attempt
    BY <2>3 DEF OwnsClaim, Open, Terminal, TypeOK, RepositoryTypeOK, Job, Absent
  <2> QED BY <2>4 DEF Holds, ClaimInv, NoLateHandler
<1> QED BY <1>1, TypeCorrect, ClaimsAlways, PTL DEF Spec, NoClaimTheft

\* The alert of a job is handed to the channels at most once, whatever crashes, lost
\* locks, storage faults, late handlers, takeovers and shared identifiers there are:
\* with a prompt read after the claim, and a document that stays.
THEOREM AlertsGoOutOnce ==
    ASSUME KeptDocument, "claimed" \notin StallPoints, LossPoints \cap Unwatched = {}
    PROVE  Spec => []AtMostOnce
<1>1. OnceInv => AtMostOnce
  BY DEF OnceInv, SentOnce, AtMostOnce
<1> QED BY <1>1, OnceAlways, PTL

-----------------------------------------------------------------------------
(* A delivered job is not failed.  Storage and callbacks answer here: what   *)
(* goes wrong is that processes die, lose their lock or pause.  A worker    *)
(* then throws under a claim it still owns only if it has found the         *)
(* delivery in flight, or if it keeps a terminal copy that was refused.     *)

OnlyRestarts == MaxExpiries = 0 /\ FaultKinds \subseteq {"crash", "lock"}

Failing == {"failed", "timed_out"}

NoErrors == \A w \in Workers : lost[w] # "error" /\ renewal[w] # "error"

\* A worker whose terminal write was refused under an open document knows that it has
\* lost its claim.
BlindIsLost == Open => \A w \in Workers : pc[w] \in Executing /\ Blind(w) => lost[w] # "no"

DeliveredCopies ==
    \A w \in Workers : pc[w] \in {"finally", "closing"} /\ job[w].ckpt = "completed"
                         => job[w].status \notin Failing

\* A handler that still owns the claim of a delivered job is that of a worker with a
\* refused terminal copy.
Harmless ==
    Open /\ doc.ckpt = "completed" =>
        \A h \in handlers : h.attempt # 0 /\ h.attempt = doc.attempt /\ doc.worker = IdOf[h.worker]
                              => Blind(h.worker)

DeliveryInv == NoErrors /\ BlindIsLost /\ DeliveredCopies /\ Harmless

\* Only w itself changes, and what it remembers.
Own(w) ==
    \A v \in Workers \ {w} :
        /\ pc'[v] = pc[v] /\ job'[v] = job[v] /\ lost'[v] = lost[v] /\ renewal'[v] = renewal[v]
        /\ localTerminal'[v] = localTerminal[v]

LEMMA NothingFails ==
    ASSUME OnlyRestarts
    PROVE  /\ ~Faulty("storage") /\ ~Faulty("callback") /\ KeptDocument
           /\ \A w, j : ~PersistFails(w, j)
BY DEF OnlyRestarts, Faulty, KeptDocument, PersistFails, SaveFails

LEMMA PersistOwn ==
    ASSUME TypeOK, NEW w \in Workers, NEW j,
           PersistOk(w, j) \/ PersistRefused(w, j) \/ PersistFails(w, j) \/ UNCHANGED repositoryVars
    PROVE  \A v \in Workers \ {w} : localTerminal'[v] = localTerminal[v]
<1>1. localTerminal' = localTerminal \/ localTerminal' = [localTerminal EXCEPT ![w] = j]
  BY DEF PersistOk, PersistRefused, PersistFails, SaveOk, SaveRefused, SaveFails, Remember,
         repositoryVars
<1> QED BY <1>1 DEF TypeOK, RepositoryTypeOK, Procs

LEMMA TryOwn ==
    ASSUME TypeOK, NEW w \in Workers, NEW j, NEW next, Try(w, j, next)
    PROVE  Own(w)
<1>1. \A v \in Workers \ {w} : localTerminal'[v] = localTerminal[v]
  BY PersistOwn DEF Try
<1>2. \A v \in Workers \ {w} : pc'[v] = pc[v] /\ job'[v] = job[v]
  BY DEF Try, Caught, At, With, TypeOK, RunTypeOK
<1>3. \A v \in Workers \ {w} : lost'[v] = lost[v] /\ renewal'[v] = renewal[v]
  BY DEF Try, TypeOK, RunTypeOK
<1> QED BY <1>1, <1>2, <1>3 DEF Own

LEMMA LeaveOwn ==
    ASSUME TypeOK, NEW w \in Workers, NEW a, Throw(w, a) \/ Return(w) \/ Leave(w),
           \A v \in Workers \ {w} : localTerminal'[v] = localTerminal[v]
    PROVE  Own(w) /\ pc'[w] = "idle" /\ lost'[w] = "no" /\ renewal'[w] = "none"
BY DEF Throw, Return, Leave, Own, TypeOK, RunTypeOK

LEMMA WorkerOwn ==
    ASSUME TypeOK, NEW w \in Workers, Take(w) \/ Advance(w) \/ Background(w)
    PROVE  Own(w)
<1>1. CASE Progress(w) \/ Summarise(w) \/ NothingAnalysed(w) \/ MarkInFlight(w) \/ MarkSent(w)
             \/ Complete(w)
  BY <1>1, TryOwn DEF Progress, Summarise, NothingAnalysed, MarkInFlight, MarkSent, Complete
<1>2. CASE Start(w) \/ Close(w) \/ CloseCancelled(w)
  <2>1. \A v \in Workers \ {w} : localTerminal'[v] = localTerminal[v]
    BY <1>2, PersistOwn DEF Start, Close, CloseCancelled
  <2>2. CASE Throw(w, claimed[w])
    BY <2>1, <2>2, LeaveOwn
  <2>3. CASE ~Throw(w, claimed[w])
    BY <1>2, <2>1, <2>3 DEF Start, Close, CloseCancelled, At, With, Own, TypeOK, RunTypeOK
  <2> QED BY <2>2, <2>3
<1>3. CASE ClaimSkipped(w) \/ ClaimActive(w) \/ ClaimJob(w) \/ ClaimUnavailable(w) \/ Load(w)
             \/ LeaveLost(w) \/ Callback(w)
  <2>1. UNCHANGED localTerminal
    BY <1>3 DEF ClaimSkipped, ClaimActive, ClaimJob, ClaimUnavailable, Load, LeaveLost, Callback,
                repositoryVars
  <2>2. CASE Throw(w, 0) \/ Throw(w, claimed[w]) \/ Return(w)
    BY <2>1, <2>2, LeaveOwn
  <2>3. CASE ~(Throw(w, 0) \/ Throw(w, claimed[w]) \/ Return(w))
    BY <1>3, <2>1, <2>3 DEF ClaimSkipped, ClaimActive, ClaimJob, ClaimUnavailable, Load, LeaveLost,
                            Callback, At, With, Own, TypeOK, RunTypeOK
  <2> QED BY <2>2, <2>3
<1>4. CASE Crash(w)
  <2>1. \A v \in Workers \ {w} : localTerminal'[v] = localTerminal[v]
    BY <1>4 DEF Crash, TypeOK, RepositoryTypeOK, Procs
  <2> QED BY <1>4, <2>1, LeaveOwn DEF Crash
<1>5. CASE Analysed(w) \/ ReportFails(w) \/ Send(w) \/ SendRejected(w) \/ Finish(w)
             \/ Take(w) \/ JobTimeout(w) \/ Pulse(w) \/ RenewalAnswer(w) \/ LoseLock(w) \/ Stalled(w)
  BY <1>5 DEF Analysed, ReportFails, Send, SendRejected, Finish, Take, JobTimeout, Pulse,
              RenewalAnswer, LoseLock, Stalled, Caught, At, With, Own, TypeOK, RunTypeOK,
              repositoryVars, runVars
<1> QED BY <1>1, <1>2, <1>3, <1>4, <1>5 DEF Advance, Background

\* What the actions inside the try block write: the worker's own job object.
LEMMA TryParts ==
    ASSUME HonestInv, ClaimInv, NEW w \in Workers,
           \/ Progress(w) \/ Summarise(w) \/ NothingAnalysed(w) \/ MarkInFlight(w) \/ MarkSent(w)
           \/ Complete(w)
    PROVE  /\ pc[w] \in Executing \ {"finally", "closing"} /\ pc[w] \in Busy
           /\ job[w] \in Job /\ job[w].status = "processing"
           /\ \E j \in Job, next \in Points :
                /\ Try(w, j, next) /\ Steady(w, j)
                /\ \/ j.status = "processing" /\ next \notin {"finally", "closing"}
                   \/ j.status = "completed"
                   \/ j.status \in Failing /\ job[w].ckpt = "none" /\ j.ckpt = "none"
<1>1. /\ pc[w] \in Working \ {"loaded"} /\ pc[w] \in Executing \ {"finally", "closing"}
      /\ pc[w] \in Busy
  BY DEF Progress, Analysing, Summarise, NothingAnalysed, MarkInFlight, MarkSent, Complete, Working,
         Busy, Executing
<1>2. job[w] \in Job /\ job[w].status = "processing"
  BY <1>1 DEF HonestInv, TypeOK, RunTypeOK, HonestCopies, HonestRun
<1>3. pc[w] = "ready" => job[w].ckpt = "none"
  BY DEF ClaimInv, OwnInv, OwnCopy, BeforeSend
<1>4. Steady(w, job[w])
  BY KeepsSelf DEF Steady
<1>5. CASE Progress(w) \/ Summarise(w) \/ MarkSent(w)
  <2>1. \E next \in Points \ {"finally", "closing"} : Try(w, job[w], next)
    BY <1>5 DEF Progress, Analysing, Summarise, MarkSent, Points, Busy, Executing
  <2> QED BY <1>1, <1>2, <1>4, <2>1
<1>6. CASE MarkInFlight(w)
  <2>1. LET j == [job[w] EXCEPT !.ckpt = "in_flight"]
        IN  /\ j \in Job /\ j.status = "processing" /\ j.ckpt = "in_flight"
            /\ j.worker = job[w].worker /\ j.attempt = job[w].attempt
    BY <1>2, JobUpdates DEF Job, Checkpoints
  <2>2. Steady(w, [job[w] EXCEPT !.ckpt = "in_flight"])
    BY <1>3, <1>6, <2>1 DEF MarkInFlight, Steady, Keeps
  <2>3. "sending" \in Points
    BY DEF Points, Busy, Executing
  <2> QED BY <1>1, <1>2, <1>6, <2>1, <2>2, <2>3 DEF MarkInFlight
<1>7. \A s \in TerminalStatuses :
        LET j == [job[w] EXCEPT !.status = s]
        IN  j \in Job /\ j.status = s /\ j.ckpt = job[w].ckpt /\ Steady(w, j)
  BY <1>2, <1>4, JobUpdates DEF Job, Steady
<1>8. CASE Complete(w)
  <2>1. "finally" \in Points /\ "completed" \in TerminalStatuses
    BY DEF Points, Busy, Executing, TerminalStatuses
  <2> QED BY <1>1, <1>2, <1>7, <1>8, <2>1 DEF Complete
<1>9. CASE NothingAnalysed(w)
  <2>1. PICK s \in Failing : Try(w, [job[w] EXCEPT !.status = s], "finally")
    BY <1>9 DEF NothingAnalysed, Failing
  <2>2. "finally" \in Points /\ s \in TerminalStatuses /\ pc[w] = "ready"
    BY <1>9 DEF Points, Busy, Executing, TerminalStatuses, Failing, NothingAnalysed
  <2> DEFINE j == [job[w] EXCEPT !.status = s]
  <2>3. j \in Job /\ j.status = s /\ j.ckpt = job[w].ckpt /\ Steady(w, j)
    BY <1>7, <2>2
  <2> HIDE DEF j
  <2>4. j.status \in Failing /\ job[w].ckpt = "none" /\ j.ckpt = "none"
    BY <1>3, <2>2, <2>3
  <2>5. Try(w, j, "finally")
    BY <2>1 DEF j
  <2> QED BY <1>1, <1>2, <2>2, <2>3, <2>4, <2>5
<1> QED BY <1>5, <1>6, <1>8, <1>9

\* What a step of a worker does to the document.
LEMMA WorkerEffect ==
    ASSUME HonestInv, ClaimInv, NEW w \in Workers, Take(w) \/ Advance(w) \/ Background(w)
    PROVE  Effect(w)
<1>1. TypeOK
  BY DEF HonestInv
<1>2. CASE ClaimSkipped(w) \/ ClaimActive(w) \/ ClaimJob(w) \/ ClaimUnavailable(w)
  BY <1>1, <1>2, ClaimEffect, EffectFrame
     DEF ClaimSkipped, ClaimActive, ClaimJob, ClaimUnavailable, repositoryVars
<1>3. CASE Start(w) \/ Close(w) \/ CloseCancelled(w)
  <2>1. /\ pc[w] \in Busy /\ job[w] \in Job /\ Steady(w, job[w])
        /\ CloseCancelled(w) => Finished(View(w)) \in Job /\ Finished(View(w)).status = "cancelled"
    BY <1>1, <1>3, ViewType, TerminalIsJob, JobUpdates, KeepsSelf
       DEF Start, Close, CloseCancelled, TypeOK, RunTypeOK, Busy, Executing, Steady, Cancelled,
           Procs, Finished, Job
  <2> QED BY <1>1, <1>3, <2>1, PersistOnce DEF Start, Close, CloseCancelled, Saved
<1>4. CASE Progress(w) \/ Summarise(w) \/ NothingAnalysed(w) \/ MarkInFlight(w) \/ MarkSent(w)
             \/ Complete(w)
  <2>1. PICK j \in Job, next \in Points : Try(w, j, next) /\ Steady(w, j)
    BY <1>4, TryParts
  <2>2. pc[w] \in Busy
    BY <1>4, TryParts
  <2> QED BY <1>1, <2>1, <2>2, PersistOnce DEF Try, Saved
<1>5. CASE Load(w) \/ Analysed(w) \/ ReportFails(w) \/ Send(w) \/ SendRejected(w) \/ LeaveLost(w)
             \/ Finish(w) \/ Callback(w) \/ Take(w) \/ JobTimeout(w) \/ RenewalAnswer(w)
             \/ LoseLock(w) \/ Stalled(w)
  BY <1>5, EffectFrame DEF Load, Analysed, ReportFails, Send, SendRejected, LeaveLost, Finish,
                           Callback, Take, JobTimeout, RenewalAnswer, LoseLock, Stalled,
                           repositoryVars
<1>6. CASE Pulse(w)
  <2>1. UNCHANGED <<doc, localTerminal>> /\ leaseLive' \in {leaseLive, leaseLive \/ ~Terminal(doc)}
    BY <1>6 DEF Pulse, Renew
  <2>2. leaseLive' = leaseLive \/ leaseLive'
    BY <1>1, <2>1 DEF TypeOK, RepositoryTypeOK
  <2> QED BY <2>1, <2>2, EffectFrame
<1>7. CASE Crash(w)
  BY <1>1, <1>7 DEF Crash, Effect, Open, TypeOK, RepositoryTypeOK, Procs
<1> QED BY <1>2, <1>3, <1>4, <1>5, <1>6, <1>7 DEF Advance, Background

\* The steps outside the execution of a job.
LEMMA WorkerLeaves ==
    ASSUME NEW w \in Workers,
           \/ ClaimSkipped(w) \/ ClaimActive(w) \/ ClaimJob(w) \/ ClaimUnavailable(w) \/ Load(w)
           \/ LeaveLost(w) \/ CloseCancelled(w) \/ Close(w) \/ Callback(w) \/ Take(w) \/ Crash(w)
    PROVE  \/ Leave(w) \/ At(w, "taken") \/ At(w, "closed") \/ At(w, "claimed") \/ At(w, "loaded")
<1>1. \A a : Throw(w, a) \/ Return(w) => Leave(w)
  BY DEF Throw, Return
<1>2. CASE ClaimSkipped(w) \/ ClaimActive(w) \/ ClaimJob(w) \/ ClaimUnavailable(w) \/ Load(w)
  BY <1>1, <1>2 DEF ClaimSkipped, ClaimActive, ClaimJob, ClaimUnavailable, Load
<1>3. CASE LeaveLost(w) \/ CloseCancelled(w) \/ Close(w)
  BY <1>1, <1>3 DEF LeaveLost, CloseCancelled, Close
<1>4. CASE Callback(w) \/ Take(w) \/ Crash(w)
  BY <1>1, <1>4 DEF Callback, Take, Crash, At
<1> QED BY <1>2, <1>3, <1>4

LEMMA RemembersTerminal ==
    ASSUME TypeOK, NEW w \in Workers, NEW j, \/ PersistOk(w, j) \/ PersistRefused(w, j)
                                             \/ PersistFails(w, j) \/ UNCHANGED repositoryVars
    PROVE  Blind(w) => Blind(w)'
<1>1. localTerminal' = localTerminal
      \/ (localTerminal' = [localTerminal EXCEPT ![w] = j] /\ Terminal(j))
  BY DEF PersistOk, PersistRefused, PersistFails, SaveOk, SaveRefused, SaveFails, Remember,
         repositoryVars
<1> QED BY <1>1 DEF TypeOK, RepositoryTypeOK, Procs, Blind, Terminal

\* A process that dies, and only it, forgets its terminal copy.
LEMMA BlindStays ==
    ASSUME HonestInv, ClaimInv, NEW w \in Workers, Take(w) \/ Advance(w) \/ Background(w)
    PROVE  Crash(w) \/ (Blind(w) => Blind(w)')
<1>1. TypeOK
  BY DEF HonestInv
<1>3. CASE Start(w) \/ Close(w) \/ CloseCancelled(w)
  BY <1>1, <1>3, RemembersTerminal DEF Start, Close, CloseCancelled
<1>4. CASE Progress(w) \/ Summarise(w) \/ NothingAnalysed(w) \/ MarkInFlight(w) \/ MarkSent(w)
             \/ Complete(w)
  <2>1. PICK j, next : Try(w, j, next)
    BY <1>4, TryParts
  <2> QED BY <1>1, <2>1, RemembersTerminal DEF Try
<1>5. CASE ClaimSkipped(w) \/ ClaimActive(w) \/ ClaimJob(w) \/ ClaimUnavailable(w) \/ Load(w)
             \/ Analysed(w) \/ ReportFails(w) \/ Send(w) \/ SendRejected(w) \/ LeaveLost(w)
             \/ Finish(w) \/ Callback(w) \/ Take(w) \/ JobTimeout(w) \/ RenewalAnswer(w)
             \/ LoseLock(w) \/ Stalled(w) \/ Pulse(w)
  BY <1>5 DEF ClaimSkipped, ClaimActive, ClaimJob, ClaimUnavailable, Load, Analysed, ReportFails,
              Send, SendRejected, LeaveLost, Finish, Callback, Take, JobTimeout, RenewalAnswer,
              LoseLock, Stalled, Pulse, repositoryVars, Blind, Terminal
<1> QED BY <1>3, <1>4, <1>5 DEF Advance, Background

LEMMA ErrorsStep ==
    ASSUME HonestInv, ClaimInv, NoErrors, OnlyRestarts, NEW w \in Workers,
           Take(w) \/ Advance(w) \/ Background(w)
    PROVE  NoErrors'
<1>1. Own(w) /\ TypeOK
  BY WorkerOwn DEF HonestInv
<1>2. lost'[w] # "error" /\ renewal'[w] # "error"
  <2>1. CASE Leave(w)
    BY <1>1, <2>1, LeaveOwn DEF Leave, TypeOK, RunTypeOK
  <2>2. CASE UNCHANGED <<lost, renewal>>
    BY <2>2 DEF NoErrors
  <2>3. CASE RenewalAnswer(w) \/ Pulse(w)
    BY <1>1, <2>3, NothingFails DEF RenewalAnswer, Pulse, NoErrors, TypeOK, RunTypeOK
  <2>4. ASSUME NEW j, NEW next, Try(w, j, next)
        PROVE  lost'[w] # "error" /\ renewal'[w] # "error"
    BY <1>1, <2>4 DEF Try, NoErrors, TypeOK, RunTypeOK
  <2>5. CASE Progress(w) \/ Summarise(w) \/ NothingAnalysed(w) \/ MarkInFlight(w) \/ MarkSent(w)
               \/ Complete(w)
    BY <2>4, <2>5, TryParts
  <2> QED BY <2>1, <2>2, <2>3, <2>5
          DEF Advance, Background, ClaimSkipped, ClaimActive, ClaimJob, ClaimUnavailable, Load,
              Start, Analysed, ReportFails, Send, SendRejected, LeaveLost, CloseCancelled, Finish,
              Close, Callback, Take, JobTimeout, LoseLock, Stalled, Crash, Throw, Return, runVars
<1> QED BY <1>1, <1>2 DEF NoErrors, Own

\* A write that is accepted was not overruled by the memory of its worker.
LEMMA AcceptedOpen ==
    ASSUME TypeOK, NEW w \in Workers, NEW j \in Job, PersistOk(w, j), Open'
    PROVE  j.status = "processing" /\ ~Blind(w) /\ ~Blind(w)'
<1>1. doc' = j /\ ~Overruled(w, j) /\ Remember(w, j)
  BY DEF PersistOk, SaveOk, Put
<1>2. j.status = "processing"
  BY <1>1 DEF Open
<1>3. ~Terminal(j) /\ ~Terminal(View(w))
  BY <1>1, <1>2 DEF Overruled, Terminal, TerminalStatuses
<1>4. ~Blind(w)
  BY <1>3 DEF View, Blind
<1> QED BY <1>1, <1>2, <1>3, <1>4 DEF Remember, Blind, Terminal

LEMMA BlindStep ==
    ASSUME HonestInv, ClaimInv, BlindIsLost, OnlyRestarts, NEW w \in Workers,
           Take(w) \/ Advance(w) \/ Background(w)
    PROVE  BlindIsLost'
<1>1. Own(w) /\ Effect(w) /\ TypeOK
  BY WorkerOwn, WorkerEffect DEF HonestInv
<1>2. Open' => Open
  BY <1>1 DEF Effect
<1>3. SUFFICES ASSUME Open', pc'[w] \in Executing, Blind(w)'
               PROVE  lost'[w] # "no"
  BY <1>1, <1>2 DEF BlindIsLost, Own, Blind
<1>4. ~Leave(w)
  BY <1>1, <1>3, LeaveOwn DEF Leave, TypeOK, RunTypeOK, Executing
<1>5. ~At(w, "taken") /\ ~At(w, "closed") /\ ~At(w, "claimed") /\ ~At(w, "loaded")
  BY <1>1, <1>3 DEF At, TypeOK, RunTypeOK, Executing
<1>6. CASE Start(w)
  <2>1. job[w] \in Job /\ PersistOk(w, job[w])
    BY <1>1, <1>4, <1>6, NothingFails DEF Start, Throw, TypeOK, RunTypeOK, Busy
  <2> QED BY <1>1, <1>3, <2>1, AcceptedOpen
<1>7. CASE Progress(w) \/ Summarise(w) \/ NothingAnalysed(w) \/ MarkInFlight(w) \/ MarkSent(w)
             \/ Complete(w)
  <2>1. PICK j \in Job, next \in Points : Try(w, j, next)
    BY <1>7, TryParts
  <2>2. ~PersistOk(w, j)
    BY <1>1, <1>3, <2>1, AcceptedOpen
  <2> QED BY <1>1, <2>1, <2>2, NothingFails DEF Try, TypeOK, RunTypeOK
<1>8. CASE /\ pc[w] \in Executing /\ UNCHANGED localTerminal
           /\ lost' = lost \/ lost'[w] # "no"
  BY <1>2, <1>3, <1>8 DEF BlindIsLost, Blind
<1>9. CASE UNCHANGED <<pc, localTerminal, lost>>
  BY <1>2, <1>3, <1>9 DEF BlindIsLost, Blind
<1>10. CASE Analysed(w) \/ ReportFails(w) \/ Send(w) \/ SendRejected(w) \/ Finish(w) \/ JobTimeout(w)
  <2>1. pc[w] \in Executing /\ UNCHANGED <<localTerminal, lost>>
    BY <1>10 DEF Analysed, Analysing, ReportFails, Send, SendRejected, Finish, JobTimeout,
                 Executing, repositoryVars
  <2> QED BY <1>8, <2>1
<1>11. CASE Pulse(w) \/ RenewalAnswer(w) \/ LoseLock(w) \/ Stalled(w)
  <2>1. UNCHANGED <<pc, localTerminal>> /\ (UNCHANGED lost \/ lost'[w] # "no")
    BY <1>1, <1>11 DEF Pulse, RenewalAnswer, LoseLock, Stalled, repositoryVars, runVars, TypeOK,
                       RunTypeOK
  <2> QED BY <1>3, <1>8, <1>9, <2>1
<1> QED BY <1>4, <1>5, <1>6, <1>7, <1>10, <1>11, WorkerLeaves DEF Advance, Background

\* What the catch clause leaves.
LEMMA CaughtDelivered ==
    ASSUME TypeOK, NEW w \in Workers, NEW j \in Job, j.status = "processing", Caught(w, j)
    PROVE  /\ pc'[w] = "finally"
           /\ job'[w].ckpt = "completed" => job'[w].status \notin Failing
<1>1. \A s : [j EXCEPT !.status = s].status = s /\ [j EXCEPT !.status = s].ckpt = j.ckpt
  BY DEF Job
<1>2. pc'[w] = "finally"
  BY DEF Caught, At, TypeOK, RunTypeOK
<1>3. CASE With(w, j)
  BY <1>2, <1>3 DEF With, Failing, TypeOK, RunTypeOK
<1>4. ASSUME NEW s \in IF j.ckpt = "completed" THEN {"completed"} ELSE {"failed", "timed_out"},
             With(w, [j EXCEPT !.status = s])
      PROVE  job'[w].ckpt = "completed" => job'[w].status \notin Failing
  <2>1. job'[w].ckpt = j.ckpt /\ job'[w].status = s
    BY <1>1, <1>4 DEF With, TypeOK, RunTypeOK
  <2> QED BY <1>4, <2>1 DEF Failing
<1> QED BY <1>2, <1>3, <1>4 DEF Caught

LEMMA CopiesStep ==
    ASSUME HonestInv, ClaimInv, DeliveredCopies, OnlyRestarts, NEW w \in Workers,
           Take(w) \/ Advance(w) \/ Background(w)
    PROVE  DeliveredCopies'
<1>1. Own(w) /\ TypeOK
  BY WorkerOwn DEF HonestInv
<1>2. SUFFICES ASSUME pc'[w] \in {"finally", "closing"}, job'[w].ckpt = "completed"
               PROVE  job'[w].status \notin Failing
  BY <1>1 DEF DeliveredCopies, Own
<1>3. \A point \in Points \ {"finally", "closing"} : ~At(w, point)
  BY <1>1, <1>2 DEF At, TypeOK, RunTypeOK
<1>4. ~Leave(w)
  BY <1>1, <1>2 DEF Leave, TypeOK, RunTypeOK
<1>5. pc[w] \in Working => job[w] \in Job /\ job[w].status = "processing"
  BY DEF HonestInv, TypeOK, RunTypeOK, HonestCopies, HonestRun, Working, Busy, Executing
<1>6. CASE Progress(w) \/ Summarise(w) \/ NothingAnalysed(w) \/ MarkInFlight(w) \/ MarkSent(w)
             \/ Complete(w)
  <2>1. PICK j \in Job, next \in Points :
          /\ Try(w, j, next)
          /\ \/ j.status = "processing" /\ next \notin {"finally", "closing"}
             \/ j.status = "completed"
             \/ j.status \in Failing /\ job[w].ckpt = "none" /\ j.ckpt = "none"
    BY <1>6, TryParts
  <2>2. job'[w] = j
    BY <1>1, <2>1, NothingFails DEF Try, With, TypeOK, RunTypeOK
  <2> QED BY <1>2, <2>1, <2>2 DEF Failing
<1>7. CASE ReportFails(w) \/ SendRejected(w)
  BY <1>1, <1>2, <1>5, <1>7, CaughtDelivered DEF ReportFails, SendRejected, Working
<1>8. CASE Start(w)
  <2>1. /\ pc[w] \in Working
        /\ With(w, [job[w] EXCEPT !.status = "completed"]) \/ UNCHANGED job
    BY <1>4, <1>8 DEF Start, Throw, Working
  <2> QED BY <1>1, <1>5, <2>1 DEF With, Failing, Job, TypeOK, RunTypeOK
<1>9. CASE Analysed(w) \/ JobTimeout(w)
  BY <1>5, <1>9 DEF Analysed, Analysing, JobTimeout, Working, Failing
<1>10. CASE Finish(w)
  <2>1. pc[w] = "finally" /\ job[w] \in Job /\ job'[w] = Finished(job[w])
    BY <1>1, <1>10 DEF Finish, With, TypeOK, RunTypeOK, Busy, Executing
  <2>2. job'[w].ckpt = job[w].ckpt /\ job'[w].status = job[w].status
    BY <2>1 DEF Finished, Job
  <2> QED BY <1>2, <2>1, <2>2 DEF DeliveredCopies
<1>11. CASE Send(w)
  BY <1>3, <1>11 DEF Send, Points, Busy, Executing
<1>12. CASE Pulse(w) \/ RenewalAnswer(w) \/ LoseLock(w) \/ Stalled(w)
  BY <1>2, <1>12 DEF Pulse, RenewalAnswer, LoseLock, Stalled, runVars, DeliveredCopies
<1>13. {"taken", "closed", "claimed", "loaded"} \subseteq Points \ {"finally", "closing"}
  BY DEF Points, Busy
<1> QED BY <1>3, <1>4, <1>6, <1>7, <1>8, <1>9, <1>10, <1>11, <1>12, <1>13, WorkerLeaves
        DEF Advance, Background

\* A run that throws under its claim owns the claim of a delivered job no longer, or is
\* blind.
Spent(w) ==
    Open' /\ doc'.ckpt = "completed" /\ doc'.attempt = claimed[w] /\ doc'.worker = IdOf[w]
      => Blind(w)'

LEMMA RefusedSpent ==
    ASSUME TypeOK, ClaimInv, NEW w \in Workers, pc[w] \in Busy, NEW j,
           j.worker = job[w].worker /\ j.attempt = job[w].attempt, PersistRefused(w, j)
    PROVE  Spent(w)
<1>1. UNCHANGED doc
  BY DEF PersistRefused, SaveRefused
<1>2. Blind(w) => Blind(w)'
  BY DEF PersistRefused, SaveRefused, Remember, TypeOK, RepositoryTypeOK, Procs, Blind, Terminal
<1>3. CASE Blind(w) \/ ~Open
  BY <1>1, <1>2, <1>3 DEF Spent, Open
<1>4. CASE ~Blind(w) /\ Open
  <2>1. ~Terminal(doc) /\ View(w) = doc
    BY <1>4 DEF Blind, View, Terminal, TerminalStatuses, Open
  <2>2. Fenced(j)
    BY <1>4, <2>1 DEF PersistRefused, Overruled, SaveRefused, Blocked, Blind
  <2>3. j.worker = IdOf[w] /\ j.attempt = claimed[w] /\ IdOf[w] # Nobody
    BY <1>4, RepositoryAssumption DEF ClaimInv, OwnInv, OwnCopy
  <2>4. doc.worker # IdOf[w] \/ doc.attempt # claimed[w]
    BY <2>1, <2>2, <2>3 DEF Fenced
  <2> QED BY <1>1, <2>4 DEF Spent
<1> QED BY <1>3, <1>4

\* New handlers are those of a throw.
LEMMA HandlersSpent ==
    ASSUME HonestInv, ClaimInv, NoErrors, OnlyRestarts, NEW w \in Workers,
           Take(w) \/ Advance(w) \/ Background(w)
    PROVE  \A h \in handlers' \ handlers : h.attempt = 0 \/ (h.worker = w /\ Spent(w)
                                                             /\ h.attempt = claimed[w])
<1>1. TypeOK
  BY DEF HonestInv
<1>2. \A a : Throw(w, a) => \A h \in handlers' \ handlers : h.worker = w /\ h.attempt = a
  BY DEF Throw
<1>3. Return(w) => UNCHANGED handlers
  BY DEF Return
<1>4. CASE UNCHANGED queueVars \/ Return(w) \/ handlers' \subseteq handlers
  BY <1>3, <1>4 DEF queueVars
<1>5. CASE Throw(w, 0)
  BY <1>2, <1>5
<1>6. CASE Throw(w, claimed[w]) /\ (Load(w) \/ Start(w) \/ CloseCancelled(w) \/ Close(w))
  <2>1. CASE Load(w)
    <3>1. UNCHANGED <<doc, leaseLive, localTerminal>>
      BY <2>1 DEF Load
    <3>2. ~Blind(w) /\ Open => doc.ckpt = "in_flight"
      <4> SUFFICES ASSUME ~Blind(w), Open PROVE doc.ckpt = "in_flight"
        OBVIOUS
      <4>1. View(w) = doc /\ doc.status # "absent"
        BY DEF Blind, View, Open
      <4>2. ~At(w, "loaded")
        BY <1>1, <1>6 DEF Throw, Leave, At, TypeOK, RunTypeOK
      <4>3. \E seen \in {View(w), job[w]} : Reads(w, seen) /\ seen.ckpt = "in_flight"
        BY <2>1, <4>2 DEF Load
      <4> QED BY <4>1, <4>3, NothingFails DEF Reads
    <3>3. Spent(w)
      BY <3>1, <3>2 DEF Spent, Blind, Terminal, Open
    <3> QED BY <1>2, <1>6, <3>3
  <2>2. CASE Start(w) \/ Close(w)
    <3>1. pc[w] \in Busy /\ PersistRefused(w, job[w])
      <4>1. ~At(w, "running") /\ ~At(w, "finally") /\ ~At(w, "closed")
        BY <1>1, <1>6 DEF Throw, Leave, At, TypeOK, RunTypeOK
      <4> QED BY <2>2, <4>1, NothingFails DEF Start, Close, Busy, Executing
    <3>2. Spent(w)
      BY <1>1, <3>1, RefusedSpent
    <3> QED BY <1>2, <1>6, <3>2
  <2>3. CASE CloseCancelled(w)
    <3>1. Cancelled(View(w)) /\ pc[w] \in Busy
          /\ (PersistOk(w, Finished(View(w))) \/ PersistRefused(w, Finished(View(w))))
      BY <2>3, NothingFails DEF CloseCancelled, Busy, Executing
    <3>2. Blind(w) \/ ~Open
      BY <3>1 DEF Blind, View, Cancelled, Open
    <3>3. Open' => Blind(w)'
      <4>1. Effect(w) /\ (Blind(w) => Blind(w)')
        BY <1>1, <2>3, <3>1, WorkerEffect, RemembersTerminal DEF Advance
      <4> QED BY <3>2, <4>1 DEF Effect
    <3>4. Spent(w)
      BY <3>3 DEF Spent
    <3> QED BY <1>2, <1>6, <3>4
  <2> QED BY <1>6, <2>1, <2>2, <2>3
<1>7. CASE Throw(w, claimed[w]) /\ (LeaveLost(w) \/ Callback(w))
  <2>1. CASE LeaveLost(w)
    BY <1>3, <2>1 DEF LeaveLost, NoErrors
  <2>2. CASE Callback(w)
    BY <1>3, <2>2, NothingFails DEF Callback
  <2> QED BY <1>7, <2>1, <2>2
<1>8. CASE Stalled(w)
  BY <1>8 DEF Stalled
<1>9. CASE Progress(w) \/ Summarise(w) \/ NothingAnalysed(w) \/ MarkInFlight(w) \/ MarkSent(w)
             \/ Complete(w)
  BY <1>4, <1>9 DEF Progress, Summarise, NothingAnalysed, MarkInFlight, MarkSent, Complete, Try
<1>10. CASE ClaimSkipped(w) \/ ClaimActive(w) \/ ClaimJob(w) \/ ClaimUnavailable(w)
  BY <1>4, <1>5, <1>10 DEF ClaimSkipped, ClaimActive, ClaimJob, ClaimUnavailable
<1>11. CASE Load(w) \/ Start(w) \/ CloseCancelled(w) \/ Close(w)
  BY <1>4, <1>6, <1>11 DEF Load, Start, CloseCancelled, Close
<1>12. CASE LeaveLost(w) \/ Callback(w)
  BY <1>4, <1>7, <1>12 DEF LeaveLost, Callback
<1>13. CASE Analysed(w) \/ ReportFails(w) \/ Send(w) \/ SendRejected(w) \/ Finish(w) \/ JobTimeout(w)
             \/ Take(w) \/ Pulse(w) \/ RenewalAnswer(w) \/ LoseLock(w) \/ Crash(w)
  BY <1>4, <1>13 DEF Analysed, ReportFails, Send, SendRejected, Finish, JobTimeout, Take, Pulse,
                     RenewalAnswer, LoseLock, Crash
<1> QED BY <1>8, <1>9, <1>10, <1>11, <1>12, <1>13 DEF Advance, Background

LEMMA HarmlessStep ==
    ASSUME HonestInv, ClaimInv, NoErrors, Harmless, OnlyRestarts, NEW w \in Workers,
           Take(w) \/ Advance(w) \/ Background(w)
    PROVE  Harmless'
<1>1. Own(w) /\ Effect(w) /\ TypeOK
  BY WorkerOwn, WorkerEffect DEF HonestInv
<1>2. SUFFICES ASSUME Open', doc'.ckpt = "completed", NEW h \in handlers', h.attempt # 0,
                      h.attempt = doc'.attempt, doc'.worker = IdOf[h.worker]
               PROVE  Blind(h.worker)'
  BY DEF Harmless
<1>3. CASE h \notin handlers
  BY <1>2, <1>3, HandlersSpent DEF Spent
<1>4. CASE h \in handlers
  <2>1. h.attempt \in Nat /\ h.worker \in Workers /\ doc.attempt \in Nat
    BY <1>1, <1>4, AttemptIsNat
  <2>2. /\ Open /\ h.attempt <= doc.attempt
        /\ \A v \in Workers : claimed[v] # h.attempt
    BY <1>1, <1>2, <1>4 DEF Effect, ClaimInv, NoLateHandler
  <2>3. doc' = doc
    BY <1>1, <1>2, <2>1, <2>2 DEF Effect, Holds
  <2>4. Blind(h.worker)
    BY <1>2, <1>4, <2>3 DEF Harmless, Open
  <2>5. CASE h.worker # w
    BY <1>1, <2>1, <2>4, <2>5 DEF Own, Blind, Terminal
  <2>6. CASE h.worker = w
    <3>1. ~Crash(w)
      BY <1>2, <2>6 DEF Crash
    <3> QED BY <2>4, <2>6, <3>1, BlindStays
  <2> QED BY <2>5, <2>6
<1> QED BY <1>3, <1>4

\* No worker writes a failure over a delivered job.
LEMMA WorkerSpares ==
    ASSUME HonestInv, ClaimInv, BlindIsLost, DeliveredCopies, OnlyRestarts, NEW w \in Workers,
           Take(w) \/ Advance(w) \/ Background(w), Open, doc.ckpt = "completed"
    PROVE  doc'.status \notin Failing
<1>1. TypeOK /\ doc.status \notin Failing
  BY DEF HonestInv, Open, Failing
<1>2. ASSUME NEW j, pc[w] \in Executing, pc[w] \in Busy, lost[w] = "no",
             PersistOk(w, j), j.worker = job[w].worker /\ j.attempt = job[w].attempt
      PROVE  doc' = j /\ job[w].ckpt = "completed"
  <2>1. doc' = j /\ ~Fenced(j) /\ ~Blind(w)
    BY <1>2 DEF PersistOk, SaveOk, Put, BlindIsLost
  <2>2. j.worker = IdOf[w] /\ j.attempt = claimed[w] /\ IdOf[w] # Nobody /\ claimed[w] # 0
    BY <1>2, <2>1, RepositoryAssumption DEF ClaimInv, OwnInv, OwnClaim, OwnCopy
  <2>3. Holds(w)
    BY <2>1, <2>2 DEF Fenced, Holds, Open
  <2>4. Keeps(doc.ckpt, job[w].ckpt)
    BY <1>2, <2>1, <2>3 DEF ClaimInv, OwnInv, OwnCopy
  <2> QED BY <2>1, <2>4 DEF Keeps
<1>3. \A j : PersistRefused(w, j) \/ UNCHANGED repositoryVars => doc' = doc
  BY DEF PersistRefused, SaveRefused, repositoryVars
<1>4. CASE Progress(w) \/ Summarise(w) \/ NothingAnalysed(w) \/ MarkInFlight(w) \/ MarkSent(w)
             \/ Complete(w)
  <2>1. /\ pc[w] \in Executing /\ pc[w] \in Busy
        /\ \E j \in Job, next \in Points :
             /\ Try(w, j, next) /\ Steady(w, j)
             /\ \/ j.status = "processing" /\ next \notin {"finally", "closing"}
                \/ j.status = "completed"
                \/ j.status \in Failing /\ job[w].ckpt = "none" /\ j.ckpt = "none"
    BY <1>4, TryParts
  <2>2. PICK j \in Job : /\ \E next : Try(w, j, next)
                         /\ Steady(w, j) /\ (j.status \in Failing => job[w].ckpt = "none")
    BY <2>1 DEF Failing
  <2>3. CASE lost[w] = "no" /\ PersistOk(w, j)
    BY <1>2, <2>1, <2>2, <2>3 DEF Steady
  <2> QED BY <1>1, <1>3, <2>2, <2>3, NothingFails DEF Try
<1>5. CASE Start(w)
  <2>1. job[w].status = "processing"
    BY <1>5 DEF Start, HonestInv, HonestCopies, HonestRun, Working
  <2>2. doc' = doc \/ doc' = job[w]
    BY <1>3, <1>5, NothingFails DEF Start, PersistOk, SaveOk, Put
  <2> QED BY <1>1, <2>1, <2>2 DEF Failing
<1>6. CASE Close(w)
  <2>1. pc[w] = "closing" /\ pc[w] \in Executing /\ pc[w] \in Busy
    BY <1>6 DEF Close, Busy, Executing
  <2>2. CASE lost[w] = "no" /\ PersistOk(w, job[w])
    <3>1. doc' = job[w] /\ job[w].ckpt = "completed"
      BY <1>2, <2>1, <2>2
    <3> QED BY <2>1, <3>1 DEF DeliveredCopies
  <2> QED BY <1>1, <1>3, <1>6, <2>2, NothingFails DEF Close
<1>7. CASE CloseCancelled(w)
  <2>1. doc' = doc \/ (doc' = Finished(View(w)) /\ View(w).status = "cancelled")
    BY <1>3, <1>7, NothingFails DEF CloseCancelled, PersistOk, SaveOk, Put, Cancelled
  <2>2. View(w).status = "cancelled" => Finished(View(w)).status = "cancelled"
    <3>1. View(w) \in Job \cup {Absent}
      BY <1>1, ViewType DEF Procs, TypeOK
    <3> QED BY <3>1 DEF Finished, Job, Absent
  <2> QED BY <1>1, <2>1, <2>2 DEF Failing
<1>8. CASE ClaimSkipped(w) \/ ClaimActive(w) \/ ClaimJob(w) \/ ClaimUnavailable(w)
  <2>1. doc' = doc \/ (Claimable /\ Put(ClaimedBy(w)) /\ UNCHANGED localTerminal)
    BY <1>8 DEF ClaimSkipped, ClaimActive, ClaimJob, ClaimUnavailable, repositoryVars
  <2> QED BY <1>1, <2>1, ClaimEffect
<1>9. CASE Load(w) \/ Analysed(w) \/ ReportFails(w) \/ Send(w) \/ SendRejected(w) \/ LeaveLost(w)
             \/ Finish(w) \/ Callback(w) \/ Take(w) \/ JobTimeout(w) \/ Pulse(w) \/ RenewalAnswer(w)
             \/ LoseLock(w) \/ Stalled(w) \/ Crash(w)
  <2>1. doc' = doc
    BY <1>9 DEF Load, Analysed, ReportFails, Send, SendRejected, LeaveLost, Finish, Callback, Take,
                JobTimeout, Pulse, Renew, RenewalAnswer, LoseLock, Stalled, Crash, repositoryVars
  <2> QED BY <1>1, <2>1
<1> QED BY <1>4, <1>5, <1>6, <1>7, <1>8, <1>9 DEF Advance, Background

\* A step of nobody's run that opens no document and leaves what workers remember.
LEMMA OthersDeliver ==
    ASSUME TypeOK, DeliveryInv, UNCHANGED <<pc, job, lost, renewal>>,
           \A w \in Workers : localTerminal'[w] = localTerminal[w],
           \A h \in handlers' : \E g \in handlers : g.worker = h.worker /\ g.attempt = h.attempt,
           Open' => Open /\ (doc' = doc \/ doc' = Released)
    PROVE  DeliveryInv'
<1>1. NoErrors' /\ DeliveredCopies'
  BY DEF DeliveryInv, NoErrors, DeliveredCopies
<1>2. BlindIsLost'
  BY DEF DeliveryInv, BlindIsLost, Blind, Terminal
<1>3. Harmless'
  <2> SUFFICES ASSUME Open', doc'.ckpt = "completed", NEW h \in handlers', h.attempt # 0,
                      h.attempt = doc'.attempt, doc'.worker = IdOf[h.worker]
               PROVE  Blind(h.worker)'
    BY DEF Harmless
  <2>1. PICK g \in handlers : g.worker = h.worker /\ g.attempt = h.attempt
    OBVIOUS
  <2>2. h.worker \in Workers /\ IdOf[h.worker] # Nobody /\ doc \in Job /\ Open
    BY <2>1, AttemptIsNat, RepositoryAssumption DEF Open, TypeOK, RepositoryTypeOK, Absent
  <2>3. doc' = doc
    BY <2>2 DEF Released, Job
  <2>4. Blind(g.worker)
    BY <2>1, <2>2, <2>3 DEF DeliveryInv, Harmless
  <2> QED BY <2>1, <2>2, <2>4 DEF Blind, Terminal
<1> QED BY <1>1, <1>2, <1>3 DEF DeliveryInv

\* A handler fails a delivered job only for a worker that is blind.
LEMMA HandlersDeliver ==
    ASSUME TypeOK, DeliveryInv, OnlyRestarts, HandleClaim \/ HandleEntry
    PROVE  /\ DeliveryInv'
           /\ Open /\ doc.ckpt = "completed" /\ doc'.status \in Failing
                => \E h \in handlers \ handlers' : Blind(h.worker)
<1>1. PICK h \in handlers : ReleaseClaim(h) \/ FailClaim(h) \/ Requeue(h)
  BY DEF HandleClaim, HandleEntry
<1>2. /\ UNCHANGED <<pc, job, lost, renewal, localTerminal>> /\ handlers' = handlers \ {h}
  BY <1>1, NothingFails DEF ReleaseClaim, FailClaim, Requeue, Done, repositoryVars, runVars
<1>3. \/ doc' = doc
      \/ OwnsClaim(h.worker, h.attempt) /\ doc' = Released
      \/ OwnsClaim(h.worker, h.attempt) /\ doc' = FailedJob /\ h.attempt # 0
  BY <1>1, NothingFails DEF ReleaseClaim, FailClaim, Requeue, UpdateClaim, Put, repositoryVars
<1>4. OwnsClaim(h.worker, h.attempt) => Open /\ doc \in Job /\ Released.status = "processing"
                                        /\ FailedJob.status = "failed"
  BY TerminalIsJob DEF OwnsClaim, Open, Terminal, TypeOK, RepositoryTypeOK, Job, Released, FailedJob
<1>5. DeliveryInv'
  BY <1>2, <1>3, <1>4, OthersDeliver DEF Open
<1>6. ASSUME Open, doc.ckpt = "completed", doc'.status \in Failing
      PROVE  Blind(h.worker)
  <2>1. OwnsClaim(h.worker, h.attempt) /\ h.attempt # 0
    BY <1>3, <1>4, <1>6 DEF Open, Failing
  <2> QED BY <1>6, <2>1 DEF DeliveryInv, Harmless, OwnsClaim
<1> QED BY <1>2, <1>5, <1>6

LEMMA WebDelivers ==
    ASSUME TypeOK, CancelInv, ClaimInv, DeliveryInv, OnlyRestarts,
           \/ Creation \/ Cancellation \/ Reconcile \/ LeaseExpires \/ DeleteExpired \/ WebCrash
    PROVE  DeliveryInv' /\ (Open => doc'.status \notin Failing)
<1>1. KeptDocument
  BY NothingFails
<1>2. /\ UNCHANGED <<pc, job, lost, renewal, handlers>>
      /\ ~CreateFail /\ ~Discard /\ ~DeleteExpired
  <2>1. ~CreateFail /\ ~Discard /\ ~DeleteExpired
    BY <1>1 DEF CreateFail, Discard, DeleteExpired, ClaimInv, Stored, KeptDocument, TypeOK, WebTypeOK
  <2> QED BY <2>1
          DEF Creation, CreateSave, Enqueue, Cancellation, CancelRead, CancelCheck, CancelSave,
              CancelRefused, Reconcile, LeaseExpires, WebCrash, runVars, queueVars
<1>3. CASE CreateSave
  <2>1. /\ ~Open /\ handlers = {} /\ \A w \in Workers : pc[w] = "idle"
        /\ \A w \in Workers : localTerminal'[w] = localTerminal[w]
    <3>1. doc = Absent /\ handlers = {} /\ \A w \in Workers : pc[w] = "idle"
      BY <1>3 DEF CreateSave, CancelInv, RequestInv, Untouched
    <3>2. UNCHANGED localTerminal
      BY <1>3 DEF CreateSave, SaveOk, SaveFails, Remember, FreshJob, Terminal, TerminalStatuses
    <3> QED BY <3>1, <3>2 DEF Open, Absent
  <2>2. NoErrors' /\ DeliveredCopies' /\ Harmless' /\ BlindIsLost'
    BY <1>2, <2>1 DEF DeliveryInv, NoErrors, DeliveredCopies, Harmless, BlindIsLost, Executing
  <2> QED BY <2>1, <2>2 DEF DeliveryInv
<1>4. CASE CancelSave
  <2>1. /\ doc' = doc \/ (doc' = cancel.copy /\ cancel.copy.status = "cancelled")
        /\ localTerminal' = localTerminal \/ localTerminal' = [localTerminal EXCEPT ![Web] = cancel.copy]
    BY <1>4 DEF CancelSave, SaveOk, SaveRefused, SaveFails, Put, Remember, CancelInv, RequestInv
  <2>2. \A w \in Workers : localTerminal'[w] = localTerminal[w]
    BY <2>1, RepositoryAssumption DEF TypeOK, RepositoryTypeOK, Procs
  <2> QED BY <1>2, <2>1, <2>2, OthersDeliver DEF Open, Failing
<1>5. CASE Enqueue \/ CancelRead \/ CancelCheck \/ CancelRefused \/ Reconcile \/ WebCrash
             \/ LeaseExpires
  <2>1. doc' = doc /\ \A w \in Workers : localTerminal'[w] = localTerminal[w]
    BY <1>5, RepositoryAssumption
       DEF Enqueue, CancelRead, CancelCheck, CancelRefused, Reconcile, WebCrash, LeaseExpires,
           Expire, repositoryVars, TypeOK, RepositoryTypeOK, Procs
  <2> QED BY <1>2, <2>1, OthersDeliver DEF Open, Failing
<1> QED BY <1>2, <1>3, <1>4, <1>5 DEF Creation, Cancellation

LEMMA DeliveriesAlways ==
    ASSUME OnlyRestarts, "claimed" \notin StallPoints
    PROVE  Spec => []DeliveryInv
<1>1. Init => DeliveryInv
  BY DEF Init, RepositoryInit, DeliveryInv, NoErrors, BlindIsLost, DeliveredCopies, Harmless, Open,
         Absent
<1>2. HonestInv /\ CancelInv /\ ClaimInv /\ DeliveryInv /\ [Next]_vars => DeliveryInv'
  <2> SUFFICES ASSUME HonestInv, CancelInv, ClaimInv, DeliveryInv, [Next]_vars PROVE DeliveryInv'
    OBVIOUS
  <2>1. TypeOK
    BY DEF HonestInv
  <2>2. CASE UNCHANGED vars
    BY <2>1, <2>2, OthersDeliver DEF vars, repositoryVars, runVars, queueVars, Open
  <2>3. ASSUME NEW w \in Workers, Take(w) \/ Advance(w) \/ Background(w)
        PROVE  DeliveryInv'
    BY <2>3, ErrorsStep, BlindStep, CopiesStep, HarmlessStep DEF DeliveryInv
  <2> QED BY <2>1, <2>2, <2>3, HandlersDeliver, WebDelivers DEF Next
<1>3. KeptDocument
  BY NothingFails
<1> QED BY <1>1, <1>2, <1>3, HonestAlways, RequestsAlways, ClaimsAlways, PTL DEF Spec

\* When processes only die, pause and lose locks, a job that is recorded as delivered is
\* not failed by any number of later attempts, except by the handler of a worker that
\* keeps a terminal copy whose write was refused.
THEOREM DeliveriesSurvive ==
    ASSUME OnlyRestarts, "claimed" \notin StallPoints
    PROVE  Spec => DeliveredSurvives
<1>1. HonestInv /\ CancelInv /\ ClaimInv /\ DeliveryInv /\ [Next]_vars
      => [doc.status = "processing" /\ doc.ckpt = "completed"
            => \/ doc'.status \notin {"failed", "timed_out"}
               \/ \E h \in handlers \ handlers' : Terminal(localTerminal[h.worker])]_vars
  <2> SUFFICES ASSUME HonestInv, CancelInv, ClaimInv, DeliveryInv, Next, Open,
                      doc.ckpt = "completed", doc'.status \in Failing
               PROVE  \E h \in handlers \ handlers' : Blind(h.worker)
    BY DEF Open, Failing, Blind
  <2>1. TypeOK
    BY DEF HonestInv
  <2>2. \A w \in Workers : ~(Take(w) \/ Advance(w) \/ Background(w))
    BY WorkerSpares DEF DeliveryInv
  <2>3. HandleClaim \/ HandleEntry
    BY <2>1, <2>2, WebDelivers DEF Next
  <2> QED BY <2>1, <2>3, HandlersDeliver
<1>2. KeptDocument
  BY NothingFails
<1> QED BY <1>1, <1>2, HonestAlways, RequestsAlways, ClaimsAlways, DeliveriesAlways, PTL
        DEF Spec, DeliveredSurvives

-----------------------------------------------------------------------------
(* The contract of a job.  Under the same assumptions every step of the      *)
(* processes is a step of JobContract or leaves what it speaks of alone.     *)

\* A cancellation that has read the job read it from its document.
CancelSeen == cancel.step \in {"read", "checked"} => doc.status # "absent"

\* A step that touches the document writes a job over a stored job.
Rewrites == doc' = doc \/ (doc.status # "absent" /\ doc' \in Job)

LEMMA PersistRewrites ==
    ASSUME OnceInv, NEW w \in Workers, pc[w] \in Busy, NEW j \in Job,
           PersistOk(w, j) \/ PersistRefused(w, j) \/ PersistFails(w, j) \/ UNCHANGED repositoryVars
    PROVE  Rewrites
<1>1. doc' = doc \/ doc' = j
  BY DEF PersistOk, PersistRefused, PersistFails, SaveOk, SaveRefused, SaveFails, Put,
         repositoryVars
<1> QED BY <1>1 DEF Rewrites, OnceInv, ClaimInv, Stored

LEMMA WorkerRewrites ==
    ASSUME TypeOK, OnceInv, NEW w \in Workers, Take(w) \/ Advance(w) \/ Background(w)
    PROVE  Rewrites
<1>1. CASE ClaimSkipped(w) \/ ClaimActive(w) \/ ClaimJob(w) \/ ClaimUnavailable(w)
  <2>1. doc' = doc \/ (Claimable /\ doc' = ClaimedBy(w))
    BY <1>1 DEF ClaimSkipped, ClaimActive, ClaimJob, ClaimUnavailable, Put, repositoryVars
  <2>2. Claimable => doc \in Job /\ doc.status # "absent"
    BY TerminalIsJob DEF Claimable, TypeOK, RepositoryTypeOK
  <2> QED BY <2>1, <2>2, DocUpdates DEF Rewrites
<1>2. CASE Start(w) \/ Close(w) \/ CloseCancelled(w)
  <2>1. pc[w] \in Busy /\ job[w] \in Job
    BY <1>2 DEF Start, Close, CloseCancelled, TypeOK, RunTypeOK, Busy, Executing
  <2>2. CloseCancelled(w) => Finished(View(w)) \in Job
    BY ViewType, TerminalIsJob, JobUpdates DEF CloseCancelled, Cancelled, Procs, TypeOK
  <2> QED BY <1>2, <2>1, <2>2, PersistRewrites DEF Start, Close, CloseCancelled
<1>3. CASE Summarise(w) \/ NothingAnalysed(w) \/ MarkInFlight(w) \/ MarkSent(w) \/ Complete(w)
             \/ Progress(w)
  <2>1. pc[w] \in Busy /\ job[w] \in Job
    BY <1>3 DEF Summarise, NothingAnalysed, MarkInFlight, MarkSent, Complete, Progress,
                Analysing, TypeOK, RunTypeOK, Busy, Executing
  <2>2. PICK j \in Job : \E next : Try(w, j, next)
    BY <1>3, <2>1, JobUpdates
       DEF Summarise, NothingAnalysed, MarkInFlight, MarkSent, Complete, Progress,
           TerminalStatuses, Checkpoints
  <2> QED BY <2>1, <2>2, PersistRewrites DEF Try
<1>4. CASE Load(w) \/ Analysed(w) \/ ReportFails(w) \/ Send(w) \/ SendRejected(w)
             \/ LeaveLost(w) \/ Finish(w) \/ Callback(w)
  BY <1>4 DEF Load, Analysed, ReportFails, Send, SendRejected, LeaveLost, Finish, Callback,
              repositoryVars, Rewrites
<1>5. CASE Take(w) \/ JobTimeout(w) \/ Pulse(w) \/ RenewalAnswer(w) \/ LoseLock(w)
             \/ Stalled(w) \/ Crash(w)
  BY <1>5 DEF Take, JobTimeout, Pulse, Renew, RenewalAnswer, LoseLock, Stalled, Crash,
              repositoryVars, Rewrites
<1> QED BY <1>1, <1>2, <1>3, <1>4, <1>5 DEF Advance, Background

LEMMA HandlerRewrites ==
    ASSUME TypeOK, HandleClaim \/ HandleEntry
    PROVE  Rewrites /\ UNCHANGED <<pc, sends, cancel>>
<1>1. PICK h \in handlers : ReleaseClaim(h) \/ FailClaim(h) \/ Requeue(h)
  BY DEF HandleClaim, HandleEntry
<1>2. doc' = doc \/ (OwnsClaim(h.worker, h.attempt) /\ (doc' = Released \/ doc' = FailedJob))
  BY <1>1 DEF ReleaseClaim, FailClaim, Requeue, UpdateClaim, Put, repositoryVars
<1>3. OwnsClaim(h.worker, h.attempt) => doc \in Job /\ doc.status # "absent"
  BY TerminalIsJob DEF OwnsClaim, TypeOK, RepositoryTypeOK
<1>4. h.worker \in Workers
  BY AttemptIsNat
<1>5. UNCHANGED <<pc, sends, cancel>>
  BY <1>1 DEF ReleaseClaim, FailClaim, Requeue, runVars, webVars
<1> QED BY <1>2, <1>3, <1>4, <1>5, DocUpdates DEF Rewrites

LEMMA WebRewrites ==
    ASSUME TypeOK, OnceInv, CancelInv, CancelSeen, KeptDocument,
           \/ Creation \/ Cancellation \/ Reconcile \/ LeaseExpires \/ DeleteExpired \/ WebCrash
    PROVE  /\ Rewrites \/ (doc.status = "absent" /\ doc' = FreshJob)
           /\ UNCHANGED <<pc, sends>> /\ CancelSeen'
<1>1. UNCHANGED <<pc, sends>> /\ ~CreateFail /\ ~Discard /\ ~DeleteExpired
  <2>1. ~CreateFail /\ ~Discard /\ ~DeleteExpired
    BY DEF CreateFail, Discard, DeleteExpired, OnceInv, ClaimInv, Stored, KeptDocument, TypeOK, WebTypeOK
  <2> QED BY <2>1
          DEF Creation, CreateSave, Enqueue, Cancellation, CancelRead, CancelCheck, CancelSave,
              CancelRefused, Reconcile, LeaseExpires, WebCrash, runVars
<1>2. CASE CreateSave
  <2>1. doc.status = "absent" /\ cancel.step = "idle" /\ UNCHANGED cancel
    BY <1>2 DEF CreateSave, CancelInv, RequestInv, Untouched, Absent, NoRequest
  <2>2. doc' \in {doc, FreshJob}
    BY <1>2 DEF CreateSave, SaveOk, SaveFails, Put
  <2> QED BY <1>1, <2>1, <2>2 DEF Rewrites, CancelSeen
<1>3. CASE CancelSave
  <2>1. doc.status # "absent" /\ cancel.copy \in Job
    <3>1. cancel.copy \in Job \cup {Absent} /\ cancel.copy.status = "cancelled"
      BY <1>3 DEF CancelSave, CancelInv, RequestInv, TypeOK, WebTypeOK, CancelRequest
    <3>2. cancel.copy \in Job
      BY <3>1, TerminalIsJob
    <3> QED BY <1>3, <3>2 DEF CancelSave, CancelSeen
  <2>2. doc' \in {doc, cancel.copy}
    BY <1>3 DEF CancelSave, SaveOk, SaveRefused, SaveFails, Put
  <2>3. doc'.status # "absent"
    BY <2>1, <2>2, AbsentIsNoJob DEF Job, TerminalStatuses
  <2> QED BY <1>1, <2>1, <2>2, <2>3 DEF Rewrites, CancelSeen
<1>4. CASE Enqueue \/ CancelRefused \/ Reconcile \/ LeaseExpires \/ WebCrash \/ CancelCheck
           \/ CancelRead
  <2>1. doc' = doc
    BY <1>4 DEF Enqueue, CancelRefused, Reconcile, LeaseExpires, Expire, WebCrash, CancelCheck,
                CancelRead, repositoryVars
  <2>2. CancelSeen'
    <3>1. CASE CancelRead
      <4>1. CASE Terminal(View(Web))
        BY <3>1, <4>1 DEF CancelRead, Answer, CancelSeen
      <4>2. CASE ~Terminal(View(Web))
        BY <2>1, <3>1, <4>2 DEF CancelRead, View, CancelSeen
      <4> QED BY <4>1, <4>2
    <3>2. CASE CancelCheck
      BY <2>1, <3>2 DEF CancelCheck, CancelSeen
    <3>3. CASE Enqueue \/ CancelRefused \/ Reconcile \/ LeaseExpires \/ WebCrash
      <4>1. cancel' = cancel \/ cancel'.step = "done"
        BY <3>3 DEF Enqueue, CancelRefused, Answer, Reconcile, LeaseExpires, WebCrash, NoRequest,
                    webVars
      <4> QED BY <2>1, <4>1 DEF CancelSeen
    <3> QED BY <1>4, <3>1, <3>2, <3>3
  <2> QED BY <1>1, <2>1, <2>2 DEF Rewrites
<1> QED BY <1>1, <1>2, <1>3, <1>4 DEF Creation, Cancellation

Begun == \E w \in Workers : pc[w] = "sending"

\* A worker that sends leaves the document alone until it is done.
LEMMA SendingStays ==
    ASSUME NEW w \in Workers, pc[w] = "sending", Take(w) \/ Advance(w) \/ Background(w)
    PROVE  UNCHANGED doc /\ (Send(w) \/ UNCHANGED sends)
<1>1. Send(w) \/ SendRejected(w) \/ Pulse(w) \/ RenewalAnswer(w) \/ LoseLock(w)
      \/ Stalled(w) \/ Crash(w)
  BY DEF Take, Advance, Background, ClaimSkipped, ClaimActive, ClaimJob, ClaimUnavailable, Load,
         Start, Analysed, Analysing, Summarise, NothingAnalysed, ReportFails, MarkInFlight,
         MarkSent, Complete, LeaveLost, CloseCancelled, Finish, Close, Callback, Progress,
         JobTimeout
<1> QED BY <1>1 DEF Send, SendRejected, Pulse, Renew, RenewalAnswer, LoseLock, Stalled, Crash,
                    repositoryVars

LEMMA OnlySendCounts ==
    ASSUME NEW w \in Workers, Take(w) \/ Advance(w) \/ Background(w), ~Send(w)
    PROVE  UNCHANGED sends
BY DEF Take, Advance, Background, ClaimSkipped, ClaimActive, ClaimJob, ClaimUnavailable, Load,
       Start, Analysed, Summarise, NothingAnalysed, ReportFails, MarkInFlight, SendRejected,
       MarkSent, Complete, LeaveLost, CloseCancelled, Finish, Close, Callback, Progress,
       JobTimeout, Try, Pulse, RenewalAnswer, LoseLock, Stalled, Crash

\* What a step of a worker does to the sends: nothing, or one step of the contract while
\* the document keeps its status.
LEMMA WorkerSends ==
    ASSUME HonestInv, LossSeen, OnceInv, OnceInv', LossPoints \cap Unwatched = {},
           NEW w \in Workers, Take(w) \/ Advance(w) \/ Background(w)
    PROVE  \/ Begun' = Begun /\ UNCHANGED sends
           \/ doc'.status = doc.status /\ sends = 0
              /\ \/ Open /\ ~Begun /\ Begun' /\ UNCHANGED sends
                 \/ Begun /\ ~Begun' /\ sends' \in {0, 1}
<1>1. \A v \in Workers \ {w} : pc'[v] = pc[v]
  <2>1. MarkInFlight(w) => At(w, "sending") \/ At(w, "finally")
    BY MarkedInFlight
  <2>2. ~MarkInFlight(w) => Elsewhere(w)
    BY WorkerElsewhere DEF HonestInv
  <2> QED BY <2>1, <2>2 DEF Elsewhere, At, HonestInv, TypeOK, RunTypeOK
<1>2. CASE pc[w] = "sending"
  <2>1. UNCHANGED doc /\ sends = 0 /\ Begun /\ \A v \in Workers \ {w} : pc'[v] # "sending"
    BY <1>1, <1>2, SendingStays DEF OnceInv, SentOnce, Begun
  <2>2. sends' \in {0, 1}
    BY DEF OnceInv, SentOnce
  <2>3. CASE pc'[w] = "sending"
    <3>1. Begun' /\ sends' = 0
      BY <2>3 DEF Begun, OnceInv, SentOnce
    <3> QED BY <2>1, <3>1 DEF Begun
  <2>4. CASE pc'[w] # "sending"
    <3>1. ~Begun'
      BY <2>1, <2>4 DEF Begun
    <3> QED BY <2>1, <2>2, <3>1
  <2> QED BY <2>3, <2>4
<1>3. CASE pc[w] # "sending" /\ pc'[w] # "sending"
  <2>1. UNCHANGED sends
    BY <1>3, OnlySendCounts DEF Send
  <2>2. Begun' = Begun
    BY <1>1, <1>3 DEF Begun
  <2> QED BY <2>1, <2>2
<1>4. CASE pc[w] # "sending" /\ pc'[w] = "sending"
  <2>1. MarkInFlight(w)
    <3>1. ~MarkInFlight(w) => Elsewhere(w)
      BY WorkerElsewhere DEF HonestInv
    <3> QED BY <1>4, <3>1 DEF Elsewhere, At, HonestInv, TypeOK, RunTypeOK
  <2>2. Open'
    BY <1>4, <2>1, MarkedInFlight DEF At, HonestInv, TypeOK, RunTypeOK, Open
  <2>3. Open
    <3>1. pc[w] \in Busy
      BY <2>1 DEF MarkInFlight, Busy, Executing
    <3>2. doc.status # "absent"
      BY <3>1 DEF OnceInv, ClaimInv, Stored
    <3>3. Terminal(doc) => ~Open'
      BY <2>2, WorkerKeepsStatus DEF Terminal, TerminalStatuses, Open
    <3> QED BY <2>2, <3>2, <3>3
            DEF HonestInv, TypeOK, RepositoryTypeOK, Job, Absent, Terminal, Open
  <2>4. UNCHANGED sends /\ Begun' /\ sends' = 0
    BY <1>4, <2>1, OnlySendCounts DEF MarkInFlight, Send, Begun, OnceInv, SentOnce
  <2>5. ~Begun
    BY <1>1, <1>4 DEF Begun, OnceInv, SentOnce
  <2> QED BY <2>2, <2>3, <2>4, <2>5 DEF Open
<1> QED BY <1>2, <1>3, <1>4

\* What any step does to the status of the document: nothing, or it accepts or settles
\* the job.
LEMMA StatusStep ==
    ASSUME TypeOK, TypeOK', Terminal(doc) => doc'.status \in {doc.status, "absent"},
           HonestInv', OnceInv',
           Rewrites \/ (doc.status = "absent" /\ doc' = FreshJob)
    PROVE  \/ doc'.status = doc.status
           \/ doc.status = "absent" /\ Open'
           \/ Open /\ doc'.status \in TerminalStatuses /\ (doc'.status = "completed" => sends' = 1)
<1>1. CASE doc' = doc
  BY <1>1
<1>2. CASE doc.status = "absent" /\ doc' = FreshJob
  BY <1>2 DEF FreshJob, Open
<1>3. CASE doc.status # "absent" /\ doc' \in Job
  <2>1. doc'.status \in {"processing"} \cup TerminalStatuses
    BY <1>3 DEF Job
  <2>2. doc.status \in {"processing"} \cup TerminalStatuses
    BY <1>3 DEF TypeOK, RepositoryTypeOK, Job, Absent
  <2>3. doc'.status = "completed" => sends' = 1
    BY DEF HonestInv, HonestCopies, HonestStore, Honest, OnceInv, SentOnce
  <2>4. "absent" \notin {"processing"} \cup TerminalStatuses
    BY DEF TerminalStatuses
  <2> QED BY <2>1, <2>2, <2>3, <2>4 DEF Terminal, Open
<1> QED BY <1>1, <1>2, <1>3 DEF Rewrites

\* These are steps of the contract.
LEMMA ContractStep ==
    ASSUME \/ /\ Begun' = Begun /\ UNCHANGED sends
              /\ \/ doc'.status = doc.status
                 \/ doc.status = "absent" /\ Open'
                 \/ Open /\ doc'.status \in TerminalStatuses
                    /\ (doc'.status = "completed" => sends' = 1)
           \/ doc'.status = doc.status /\ sends = 0
              /\ \/ Open /\ ~Begun /\ Begun' /\ UNCHANGED sends
                 \/ Begun /\ ~Begun' /\ sends' \in {0, 1}
    PROVE  [Contract!ContractNext]_(Contract!contractVars)
<1> USE DEF Contract!ContractNext, Contract!contractVars, Open, Begun
<1>1. CASE Begun' = Begun /\ UNCHANGED sends /\ doc'.status = doc.status
  BY <1>1
<1>2. CASE Begun' = Begun /\ UNCHANGED sends /\ doc.status = "absent" /\ Open'
  BY <1>2 DEF Contract!Accept
<1>3. CASE /\ Begun' = Begun /\ UNCHANGED sends
           /\ Open /\ doc'.status \in TerminalStatuses /\ (doc'.status = "completed" => sends' = 1)
  <2>1. Contract!Settle(doc'.status)
    BY <1>3 DEF Contract!Settle, TerminalStatuses
  <2> QED BY <1>3, <2>1
<1>4. CASE doc'.status = doc.status /\ sends = 0 /\ Open /\ ~Begun /\ Begun' /\ UNCHANGED sends
  BY <1>4 DEF Contract!Begin
<1>5. CASE doc'.status = doc.status /\ sends = 0 /\ Begun /\ ~Begun' /\ sends' = 1
  BY <1>5 DEF Contract!Deliver
<1>6. CASE doc'.status = doc.status /\ sends = 0 /\ Begun /\ ~Begun' /\ sends' = 0
  BY <1>6 DEF Contract!Abandon
<1> QED BY <1>1, <1>2, <1>3, <1>4, <1>5, <1>6

\* The processes keep the promise of the API: a job is accepted once, its alert is begun
\* only while it is open and handed over at most once, and it is settled once, as
\* completed only after its alert.
THEOREM JobKeepsContract ==
    ASSUME KeptDocument, "claimed" \notin StallPoints, LossPoints \cap Unwatched = {}
    PROVE  Spec => ImplementsContract
<1>1. Init => Contract!ContractInit /\ CancelSeen
  BY DEF Init, RepositoryInit, Absent, NoRequest, Contract!ContractInit, CancelSeen
<1>2. /\ HonestInv /\ HonestInv' /\ LossSeen /\ CancelInv /\ OnceInv /\ OnceInv' /\ CancelSeen
      /\ [Next]_vars
      => CancelSeen' /\ [Contract!ContractNext]_(Contract!contractVars)
  <2> SUFFICES ASSUME HonestInv, HonestInv', LossSeen, CancelInv, OnceInv, OnceInv', CancelSeen,
                      [Next]_vars
               PROVE  CancelSeen' /\ [Contract!ContractNext]_(Contract!contractVars)
    OBVIOUS
  <2>1. TypeOK /\ TypeOK'
    BY DEF HonestInv
  <2>2. CASE UNCHANGED vars
    <3>1. Begun' = Begun /\ UNCHANGED <<doc, sends, cancel>>
      BY <2>2 DEF vars, repositoryVars, runVars, webVars, Begun
    <3> QED BY <3>1, ContractStep DEF CancelSeen
  <2>3. ASSUME NEW w \in Workers, Take(w) \/ Advance(w) \/ Background(w)
        PROVE  CancelSeen' /\ [Contract!ContractNext]_(Contract!contractVars)
    <3>1. Rewrites /\ UNCHANGED cancel
      BY <2>1, <2>3, WorkerRewrites, WorkerIsLocal DEF webVars
    <3>2. CancelSeen'
      BY <3>1, AbsentIsNoJob DEF Rewrites, CancelSeen, Job, TerminalStatuses
    <3>3. \/ doc'.status = doc.status
          \/ doc.status = "absent" /\ Open'
          \/ Open /\ doc'.status \in TerminalStatuses /\ (doc'.status = "completed" => sends' = 1)
      BY <2>1, <2>3, <3>1, WorkerKeepsStatus, StatusStep
    <3>4. \/ Begun' = Begun /\ UNCHANGED sends
          \/ doc'.status = doc.status /\ sends = 0
             /\ \/ Open /\ ~Begun /\ Begun' /\ UNCHANGED sends
                \/ Begun /\ ~Begun' /\ sends' \in {0, 1}
      BY <2>3, WorkerSends
    <3> QED BY <3>2, <3>3, <3>4, ContractStep
  <2>4. CASE HandleClaim \/ HandleEntry
    <3>1. Rewrites /\ UNCHANGED <<pc, sends, cancel>>
      BY <2>1, <2>4, HandlerRewrites
    <3>2. CancelSeen'
      BY <3>1, AbsentIsNoJob DEF Rewrites, CancelSeen, Job, TerminalStatuses
    <3>3. Begun' = Begun
      BY <3>1 DEF Begun
    <3> QED BY <2>1, <2>4, <3>1, <3>2, <3>3, HandlerKeepsStatus, StatusStep, ContractStep
  <2>5. CASE Creation \/ Cancellation \/ Reconcile \/ LeaseExpires \/ DeleteExpired \/ WebCrash
    <3>1. /\ Rewrites \/ (doc.status = "absent" /\ doc' = FreshJob)
          /\ UNCHANGED <<pc, sends>> /\ CancelSeen'
      BY <2>1, <2>5, WebRewrites
    <3>2. Begun' = Begun
      BY <3>1 DEF Begun
    <3> QED BY <2>1, <2>5, <3>1, <3>2, WebKeepsStatus, StatusStep, ContractStep
  <2> QED BY <2>2, <2>3, <2>4, <2>5 DEF Next
<1> QED BY <1>1, <1>2, HonestAlways, LossSeenAlways, RequestsAlways, OnceAlways, PTL
        DEF Spec, ImplementsContract, Contract!ContractSpec

=============================================================================
