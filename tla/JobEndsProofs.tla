---------------------------- MODULE JobEndsProofs ----------------------------
(***************************************************************************)
(* How jobs end in the process that runs them and for who is told: in an   *)
(* orderly exit nothing runs, in a forced one every accepted job is        *)
(* terminal, and the receiver of a callback accepts an event once, for any *)
(* number of jobs, deliveries, processes, events, attempts and faults.     *)
(***************************************************************************)
EXTENDS WebProcess, JobCallbacks, FiniteSetTheorems, TLAPS

-----------------------------------------------------------------------------
(* The exit of the web process.                                             *)

Phases == {"up", "closing", "jobs", "tasks", "stopping", "finalizing", "exited"}
JobStatuses == {"none", "processing"} \cup LocalTerminal
RunPcs == {"idle", "done"} \cup Creating \cup LocalRunning
Runs == [pc : RunPcs, own : {"processing", "completed", "failed"}, shutdownFinalized : BOOLEAN]
Closings == {"none", "marking", "waiting", "reading", "cancelling", "done"}

WebTypes ==
  /\ life \in [phase : Phases, code : {0, 1}, late : BOOLEAN]
  /\ serving \in BOOLEAN
  /\ jobDoc \in [LocalJobs -> JobStatuses]
  /\ run \in [LocalJobs -> Runs]
  /\ closing \in [LocalJobs -> Closings]
  /\ tasks \subseteq LocalJobs

\* A job that has ended, or whose finalisation has saved it, is terminal; a creation that was
\* given up before its save may still have to be saved again by the finalisation.
JobInv(j) ==
  /\ closing[j] \in {"waiting", "done"} => jobDoc[j] \in LocalTerminal
  /\ run[j].shutdownFinalized = TRUE => closing[j] \in {"marking", "waiting", "done"}
  /\ run[j].pc \in {"ending", "completing"} => run[j].own \in {"completed", "failed"}
  /\ run[j].pc = "calling" => jobDoc[j] \in LocalTerminal
  /\ run[j].pc = "done" => jobDoc[j] \in LocalTerminal \/ closing[j] = "marking"

\* Each phase of the shutdown keeps what the phases before it waited for.
PhaseInv ==
  /\ life.phase \in {"jobs", "tasks", "stopping"} =>
       serving = FALSE /\ \A j \in LocalJobs : run[j].pc \notin Creating
  /\ life.phase \in {"tasks", "stopping"} => \A j \in LocalJobs : run[j].pc \in {"idle", "done"}
  /\ life.phase = "stopping" => tasks = {}
  /\ life.phase \in {"up", "closing", "jobs", "tasks", "stopping"} =>
       \A j \in LocalJobs : closing[j] = "none"
  /\ life.phase = "finalizing" => life.code = 1

WebInv == WebTypes /\ (\A j \in LocalJobs : JobInv(j)) /\ PhaseInv /\ NoJobLeftOpen

-----------------------------------------------------------------------------
LEMMA WebInvInit == WebInit => WebInv
<1> SUFFICES ASSUME WebInit PROVE WebInv
  OBVIOUS
<1>1. \A j \in LocalJobs : /\ run[j].pc = "idle" /\ run[j].shutdownFinalized = FALSE
                           /\ closing[j] = "none"
  BY DEF WebInit
<1>2. WebTypes
  <2>1. run \in [LocalJobs -> Runs]
    <3>1. [pc |-> "idle", own |-> "processing", shutdownFinalized |-> FALSE] \in Runs
      BY DEF Runs, RunPcs
    <3> QED BY <3>1 DEF WebInit
  <2>2. /\ jobDoc \in [LocalJobs -> JobStatuses] /\ closing \in [LocalJobs -> Closings]
        /\ tasks \subseteq LocalJobs
    BY DEF WebInit, JobStatuses, Closings
  <2>3. life \in [phase : Phases, code : {0, 1}, late : BOOLEAN]
    BY DEF WebInit, Phases
  <2>4. serving \in BOOLEAN
    BY DEF WebInit
  <2> QED BY <2>1, <2>2, <2>3, <2>4 DEF WebTypes
<1>3. \A j \in LocalJobs : JobInv(j)
  BY <1>1 DEF JobInv
<1>4. life.phase = "up"
  BY DEF WebInit
<1> QED BY <1>1, <1>2, <1>3, <1>4 DEF WebInv, PhaseInv, NoJobLeftOpen

\* save never replaces a terminal status, and a terminal status saved leaves a terminal one.
LEMMA SaveLocalFacts ==
    ASSUME jobDoc \in [LocalJobs -> JobStatuses], NEW j \in LocalJobs, NEW status \in JobStatuses,
           SaveLocal(j, status)
    PROVE  /\ jobDoc' \in [LocalJobs -> JobStatuses]
           /\ \A i \in LocalJobs : i # j => jobDoc'[i] = jobDoc[i]
           /\ jobDoc[j] \in LocalTerminal => jobDoc'[j] = jobDoc[j]
           /\ status \in LocalTerminal => jobDoc'[j] \in LocalTerminal
BY DEF SaveLocal

LEMMA LocalStepFacts ==
    ASSUME run \in [LocalJobs -> Runs], NEW j \in LocalJobs, NEW pc \in RunPcs, LocalStep(j, pc)
    PROVE  /\ run' \in [LocalJobs -> Runs]
           /\ \A i \in LocalJobs : i # j => run'[i] = run[i]
           /\ run'[j].pc = pc /\ run'[j].own = run[j].own
           /\ run'[j].shutdownFinalized = run[j].shutdownFinalized
BY DEF LocalStep, Runs

\* A job takes part in a step that leaves the others, and the lifecycle, alone.
LEMMA OneJobMoves ==
    ASSUME WebInv, WebTypes', NEW j \in LocalJobs, JobInv(j)', Alive,
           UNCHANGED <<life, serving>>,
           \A i \in LocalJobs :
             i # j => run'[i] = run[i] /\ jobDoc'[i] = jobDoc[i] /\ closing'[i] = closing[i],
           run'[j].pc \in Creating => run[j].pc \in Creating \/ serving = TRUE,
           run'[j].pc \notin {"idle", "done"} => run[j].pc \notin {"idle", "done"} \/ serving = TRUE,
           tasks' \subseteq tasks \/ run[j].pc = "running",
           closing'[j] = closing[j] \/ life.phase = "finalizing"
    PROVE  WebInv'
<1>1. \A i \in LocalJobs : JobInv(i)'
  <2> SUFFICES ASSUME NEW i \in LocalJobs PROVE JobInv(i)'
    OBVIOUS
  <2>1. CASE i = j
    BY <2>1
  <2>2. CASE i # j
    BY <2>2 DEF WebInv, JobInv
  <2> QED BY <2>1, <2>2
<1>2. PhaseInv'
  BY DEF WebInv, PhaseInv
<1>3. NoJobLeftOpen'
  BY DEF Alive, NoJobLeftOpen
<1> QED BY <1>1, <1>2, <1>3 DEF WebInv

-----------------------------------------------------------------------------
\* Steps of a job that only move it on.
LEMMA MoveStep ==
    ASSUME WebInv, NEW j \in LocalJobs, NEW pc \in RunPcs, LocalStep(j, pc), Alive,
           UNCHANGED <<life, serving, jobDoc, closing, tasks>>,
           pc \in Creating => run[j].pc \in Creating \/ serving = TRUE,
           pc \notin {"idle", "done"} => run[j].pc \notin {"idle", "done"} \/ serving = TRUE,
           pc \in {"ending", "completing"} => run[j].pc \in {"ending", "completing"},
           pc = "calling" => jobDoc[j] \in LocalTerminal,
           pc = "done" => jobDoc[j] \in LocalTerminal \/ closing[j] = "marking"
    PROVE  WebInv'
<1>1. /\ run' \in [LocalJobs -> Runs] /\ \A i \in LocalJobs : i # j => run'[i] = run[i]
      /\ run'[j].pc = pc /\ run'[j].own = run[j].own
      /\ run'[j].shutdownFinalized = run[j].shutdownFinalized
  BY LocalStepFacts DEF WebInv, WebTypes
<1>2. WebTypes'
  BY <1>1 DEF WebInv, WebTypes
<1>3. JobInv(j)'
  BY <1>1 DEF WebInv, JobInv
<1> QED BY <1>1, <1>2, <1>3, OneJobMoves

\* Steps of a job that save it and move it on.
LEMMA SaveStep ==
    ASSUME WebInv, NEW j \in LocalJobs, NEW pc \in RunPcs, NEW status \in JobStatuses,
           LocalStep(j, pc), SaveLocal(j, status), Alive,
           UNCHANGED <<life, serving, closing, tasks>>,
           pc \in Creating => run[j].pc \in Creating,
           run[j].pc \notin {"idle", "done"},
           pc \notin {"ending", "completing"},
           pc = "calling" => status \in LocalTerminal,
           pc = "done" => closing[j] \in {"marking", "waiting", "done"}
    PROVE  WebInv'
<1>1. /\ run' \in [LocalJobs -> Runs] /\ \A i \in LocalJobs : i # j => run'[i] = run[i]
      /\ run'[j].pc = pc /\ run'[j].own = run[j].own
      /\ run'[j].shutdownFinalized = run[j].shutdownFinalized
  BY LocalStepFacts DEF WebInv, WebTypes
<1>2. /\ jobDoc' \in [LocalJobs -> JobStatuses] /\ \A i \in LocalJobs : i # j => jobDoc'[i] = jobDoc[i]
      /\ jobDoc[j] \in LocalTerminal => jobDoc'[j] \in LocalTerminal
      /\ status \in LocalTerminal => jobDoc'[j] \in LocalTerminal
  BY SaveLocalFacts DEF WebInv, WebTypes
<1>3. WebTypes'
  BY <1>1, <1>2 DEF WebInv, WebTypes
<1>4. JobInv(j)'
  BY <1>1, <1>2 DEF WebInv, JobInv
<1> QED BY <1>1, <1>2, <1>3, <1>4, OneJobMoves

LEMMA CreationSteps ==
    ASSUME WebInv, NEW j \in LocalJobs, CreateJob(j) \/ SaveCreated(j) \/ Announce(j)
    PROVE  WebInv'
<1>1. CASE CreateJob(j)
  <2>1. serving = TRUE
    BY <1>1 DEF CreateJob, WebInv, WebTypes
  <2>2. "saving" \in RunPcs
    BY DEF RunPcs, Creating
  <2> QED BY <1>1, <2>1, <2>2, MoveStep DEF CreateJob
<1>2. CASE SaveCreated(j)
  <2> DEFINE pc == IF run[j].shutdownFinalized THEN "done" ELSE "announcing"
  <2>1. pc \in RunPcs /\ run[j].pc \in Creating /\ run[j].pc \notin {"idle", "done"}
    BY <1>2 DEF SaveCreated, RunPcs, Creating
  <2>2. pc = "done" => closing[j] \in {"marking", "waiting", "done"}
    <3>1. run[j].shutdownFinalized \in BOOLEAN
      BY DEF WebInv, WebTypes, Runs
    <3> QED BY <3>1 DEF WebInv, JobInv
  <2>3. "processing" \in JobStatuses /\ pc \notin {"ending", "completing", "calling"}
    BY DEF JobStatuses
  <2>4. /\ Alive /\ SaveLocal(j, "processing") /\ LocalStep(j, pc)
        /\ UNCHANGED <<life, serving, closing, tasks>>
    BY <1>2 DEF SaveCreated
  <2> HIDE DEF pc
  <2> QED BY <2>1, <2>2, <2>3, <2>4, SaveStep
<1>3. CASE Announce(j)
  <2> DEFINE pc == IF run[j].shutdownFinalized THEN "done" ELSE "loading"
  <2>1. /\ pc \in RunPcs /\ run[j].pc \notin {"idle", "done"}
        /\ pc \notin {"ending", "completing", "calling"} /\ pc \notin Creating
    BY <1>3 DEF Announce, RunPcs, Creating, LocalRunning
  <2>2. pc = "done" => jobDoc[j] \in LocalTerminal \/ closing[j] = "marking"
    <3>1. run[j].shutdownFinalized \in BOOLEAN
      BY DEF WebInv, WebTypes, Runs
    <3> QED BY <3>1 DEF WebInv, JobInv
  <2>3. /\ Alive /\ LocalStep(j, pc) /\ UNCHANGED <<life, serving, jobDoc, closing, tasks>>
    BY <1>3 DEF Announce
  <2> HIDE DEF pc
  <2> QED BY <2>1, <2>2, <2>3, MoveStep
<1> QED BY <1>1, <1>2, <1>3

LEMMA RunSteps ==
    ASSUME WebInv, NEW j \in LocalJobs,
           LoadLocal(j) \/ EndLocal(j) \/ CompleteLocal(j) \/ DiscardLocal(j) \/ LeaveLocal(j)
    PROVE  WebInv'
<1> USE DEF RunPcs, Creating, LocalRunning
<1>1. CASE LoadLocal(j)
  BY <1>1, SaveStep DEF LoadLocal, JobStatuses
<1>2. CASE EndLocal(j)
  <2> DEFINE pc == IF jobDoc[j] = "cancelled" THEN "discarding" ELSE "completing"
  <2>1. /\ pc \in RunPcs /\ pc \notin Creating /\ pc # "done" /\ pc # "calling"
        /\ run[j].pc = "ending"
    BY <1>2 DEF EndLocal
  <2>2. /\ Alive /\ LocalStep(j, pc) /\ UNCHANGED <<life, serving, jobDoc, closing, tasks>>
    BY <1>2 DEF EndLocal
  <2> HIDE DEF pc
  <2> QED BY <2>1, <2>2, MoveStep
<1>3. CASE CompleteLocal(j)
  <2>1. run[j].own \in LocalTerminal /\ run[j].own \in JobStatuses
    BY <1>3 DEF CompleteLocal, WebInv, JobInv, LocalTerminal, JobStatuses
  <2> QED BY <1>3, <2>1, SaveStep DEF CompleteLocal
<1>4. CASE DiscardLocal(j)
  <2>1. "cancelled" \in LocalTerminal /\ "cancelled" \in JobStatuses
    BY DEF LocalTerminal, JobStatuses
  <2> QED BY <1>4, <2>1, SaveStep DEF DiscardLocal
<1>5. CASE LeaveLocal(j)
  <2>1. jobDoc[j] \in LocalTerminal
    BY <1>5 DEF LeaveLocal, WebInv, JobInv
  <2> QED BY <1>5, <2>1, MoveStep DEF LeaveLocal
<1> QED BY <1>1, <1>2, <1>3, <1>4, <1>5

LEMMA WorkStep == ASSUME WebInv, NEW j \in LocalJobs, WorkLocal(j) PROVE WebInv'
<1>1. PICK own \in {"completed", "failed"} :
        /\ run' = [run EXCEPT ![j].pc = "ending", ![j].own = own]
        /\ SaveLocal(j, own) \/ UNCHANGED jobDoc
  BY DEF WorkLocal
<1>2. /\ Alive /\ run[j].pc = "running" /\ tasks' \in {tasks, tasks \cup {j}}
      /\ UNCHANGED <<life, serving, closing>>
  BY DEF WorkLocal
<1>3. run \in [LocalJobs -> Runs] /\ "ending" \in RunPcs
  BY DEF WebInv, WebTypes, RunPcs, LocalRunning
<1>4. /\ run' \in [LocalJobs -> Runs] /\ \A i \in LocalJobs : i # j => run'[i] = run[i]
      /\ run'[j].pc = "ending" /\ run'[j].own = own
      /\ run'[j].shutdownFinalized = run[j].shutdownFinalized
  BY <1>1, <1>3 DEF Runs
<1>5. /\ jobDoc' \in [LocalJobs -> JobStatuses] /\ \A i \in LocalJobs : i # j => jobDoc'[i] = jobDoc[i]
      /\ jobDoc[j] \in LocalTerminal => jobDoc'[j] \in LocalTerminal
  <2>1. jobDoc \in [LocalJobs -> JobStatuses] /\ own \in JobStatuses
    BY DEF WebInv, WebTypes, JobStatuses, LocalTerminal
  <2> QED BY <1>1, <2>1, SaveLocalFacts
<1>6. WebTypes'
  BY <1>2, <1>4, <1>5 DEF WebInv, WebTypes
<1>7. JobInv(j)'
  BY <1>2, <1>4, <1>5 DEF WebInv, JobInv
<1>8. "ending" \notin Creating
  BY DEF Creating
<1> QED BY <1>2, <1>4, <1>5, <1>6, <1>7, <1>8, OneJobMoves

LEMMA CancelSteps ==
    ASSUME WebInv, NEW j \in LocalJobs, CancelLocal(j) \/ TaskDone(j)
    PROVE  WebInv'
<1>1. CASE CancelLocal(j)
  <2>1. "cancelled" \in LocalTerminal /\ "cancelled" \in JobStatuses
    BY DEF LocalTerminal, JobStatuses
  <2>2. /\ jobDoc' \in [LocalJobs -> JobStatuses]
        /\ \A i \in LocalJobs : i # j => jobDoc'[i] = jobDoc[i]
        /\ jobDoc'[j] \in LocalTerminal
    BY <1>1, <2>1, SaveLocalFacts DEF CancelLocal, WebInv, WebTypes
  <2>3. Alive /\ UNCHANGED <<life, serving, run, closing, tasks>>
    BY <1>1 DEF CancelLocal
  <2>4. WebTypes'
    BY <2>2, <2>3 DEF WebInv, WebTypes
  <2>5. JobInv(j)'
    BY <2>2, <2>3 DEF WebInv, JobInv
  <2> QED BY <2>2, <2>3, <2>4, <2>5, OneJobMoves
<1>2. CASE TaskDone(j)
  <2>1. Alive /\ tasks' \subseteq tasks /\ UNCHANGED <<life, serving, jobDoc, run, closing>>
    BY <1>2 DEF TaskDone
  <2>2. WebTypes'
    BY <2>1 DEF WebInv, WebTypes
  <2>3. JobInv(j)'
    BY <2>1 DEF WebInv, JobInv
  <2> QED BY <2>1, <2>2, <2>3, OneJobMoves
<1> QED BY <1>1, <1>2

-----------------------------------------------------------------------------
\* The finalisation of a job.
LEMMA TakeStep == ASSUME WebInv, NEW j \in LocalJobs, TakeForFinalization(j) PROVE WebInv'
<1> DEFINE creating == j \in activeCreations
<1>1. /\ life.phase = "finalizing" /\ closing[j] = "none"
      /\ creating \/ j \in activeJobs
      /\ closing' = [closing EXCEPT ![j] = IF creating THEN "marking" ELSE "reading"]
      /\ run' = IF creating THEN [run EXCEPT ![j].shutdownFinalized = TRUE] ELSE run
      /\ UNCHANGED <<life, serving, jobDoc, tasks>>
  BY DEF TakeForFinalization
<1>2. run[j].pc # "done" /\ run[j].pc # "idle"
  BY <1>1 DEF activeCreations, activeJobs, Creating, LocalRunning
<1>3. /\ closing' \in [LocalJobs -> Closings]
      /\ closing'[j] = IF creating THEN "marking" ELSE "reading"
      /\ \A i \in LocalJobs : i # j => closing'[i] = closing[i]
  BY <1>1 DEF WebInv, WebTypes, Closings
<1>4. /\ run' \in [LocalJobs -> Runs] /\ \A i \in LocalJobs : i # j => run'[i] = run[i]
      /\ run'[j].pc = run[j].pc /\ run'[j].own = run[j].own
      /\ ~creating => run' = run
  <2>1. CASE creating
    BY <1>1, <2>1 DEF WebInv, WebTypes, Runs
  <2>2. CASE ~creating
    BY <1>1, <2>2 DEF WebInv, WebTypes
  <2> QED BY <2>1, <2>2
<1>5. WebTypes'
  BY <1>1, <1>3, <1>4 DEF WebInv, WebTypes
<1>6. JobInv(j)'
  <2>1. CASE creating
    BY <1>1, <1>2, <1>3, <1>4, <2>1 DEF WebInv, JobInv
  <2>2. CASE ~creating
    BY <1>1, <1>2, <1>3, <1>4, <2>2 DEF WebInv, JobInv
  <2> QED BY <2>1, <2>2
<1>7. Alive
  BY <1>1 DEF Alive
<1> HIDE DEF creating
<1> QED BY <1>1, <1>3, <1>4, <1>5, <1>6, <1>7, OneJobMoves

LEMMA FinalizeCreationStep == ASSUME WebInv, NEW j \in LocalJobs, FinalizeCreation(j) PROVE WebInv'
<1>1. "cancelled" \in LocalTerminal /\ "cancelled" \in JobStatuses
  BY DEF LocalTerminal, JobStatuses
<1>2. /\ life.phase = "finalizing" /\ SaveLocal(j, "cancelled")
      /\ UNCHANGED <<life, serving, run, tasks>>
      /\ \/ closing' = [closing EXCEPT ![j] = "waiting"]
         \/ closing' = [closing EXCEPT ![j] = "done"]
  BY DEF FinalizeCreation
<1>3. /\ jobDoc' \in [LocalJobs -> JobStatuses] /\ \A i \in LocalJobs : i # j => jobDoc'[i] = jobDoc[i]
      /\ jobDoc'[j] \in LocalTerminal
  BY <1>1, <1>2, SaveLocalFacts DEF WebInv, WebTypes
<1>4. /\ closing' \in [LocalJobs -> Closings] /\ closing'[j] \in {"waiting", "done"}
      /\ \A i \in LocalJobs : i # j => closing'[i] = closing[i]
  BY <1>2 DEF WebInv, WebTypes, Closings
<1>5. WebTypes'
  BY <1>2, <1>3, <1>4 DEF WebInv, WebTypes
<1>6. JobInv(j)'
  BY <1>2, <1>3, <1>4 DEF WebInv, JobInv
<1>7. Alive
  BY <1>2 DEF Alive
<1> QED BY <1>2, <1>3, <1>4, <1>5, <1>6, <1>7, OneJobMoves

LEMMA FinalizeReadStep == ASSUME WebInv, NEW j \in LocalJobs, FinalizeRead(j) PROVE WebInv'
<1>1. /\ life.phase = "finalizing" /\ closing[j] = "reading"
      /\ closing' = [closing EXCEPT ![j] = IF jobDoc[j] \in LocalTerminal THEN "done" ELSE "cancelling"]
      /\ UNCHANGED <<life, serving, jobDoc, run, tasks>>
  BY DEF FinalizeRead
<1>2. /\ closing' \in [LocalJobs -> Closings]
      /\ closing'[j] = IF jobDoc[j] \in LocalTerminal THEN "done" ELSE "cancelling"
      /\ \A i \in LocalJobs : i # j => closing'[i] = closing[i]
  BY <1>1 DEF WebInv, WebTypes, Closings
<1>3. WebTypes'
  BY <1>1, <1>2 DEF WebInv, WebTypes
<1>4. JobInv(j)'
  BY <1>1, <1>2 DEF WebInv, JobInv
<1>5. Alive
  BY <1>1 DEF Alive
<1> QED BY <1>1, <1>2, <1>3, <1>4, <1>5, OneJobMoves

LEMMA FinalizeSaveStep == ASSUME WebInv, NEW j \in LocalJobs, FinalizeSave(j) PROVE WebInv'
<1>1. "cancelled" \in LocalTerminal /\ "cancelled" \in JobStatuses
  BY DEF LocalTerminal, JobStatuses
<1>2. /\ life.phase = "finalizing" /\ SaveLocal(j, "cancelled")
      /\ closing' = [closing EXCEPT ![j] = "done"]
      /\ run' = run \/ run' = [run EXCEPT ![j].shutdownFinalized = TRUE]
      /\ UNCHANGED <<life, serving, tasks>>
  BY DEF FinalizeSave
<1>3. /\ jobDoc' \in [LocalJobs -> JobStatuses] /\ \A i \in LocalJobs : i # j => jobDoc'[i] = jobDoc[i]
      /\ jobDoc'[j] \in LocalTerminal
  BY <1>1, <1>2, SaveLocalFacts DEF WebInv, WebTypes
<1>4. /\ closing' \in [LocalJobs -> Closings] /\ closing'[j] = "done"
      /\ \A i \in LocalJobs : i # j => closing'[i] = closing[i]
  BY <1>2 DEF WebInv, WebTypes, Closings
<1>5. /\ run' \in [LocalJobs -> Runs] /\ \A i \in LocalJobs : i # j => run'[i] = run[i]
      /\ run'[j].pc = run[j].pc /\ run'[j].own = run[j].own
  <2>1. run \in [LocalJobs -> Runs]
    BY DEF WebInv, WebTypes
  <2>2. CASE run' = run
    BY <2>1, <2>2
  <2>3. CASE run' = [run EXCEPT ![j].shutdownFinalized = TRUE]
    BY <2>1, <2>3 DEF Runs
  <2> QED BY <1>2, <2>2, <2>3
<1>6. WebTypes'
  BY <1>2, <1>3, <1>4, <1>5 DEF WebInv, WebTypes
<1>7. JobInv(j)'
  BY <1>3, <1>4, <1>5 DEF WebInv, JobInv
<1>8. Alive
  BY <1>2 DEF Alive
<1> QED BY <1>2, <1>3, <1>4, <1>5, <1>6, <1>7, <1>8, OneJobMoves

-----------------------------------------------------------------------------
\* A step of the lifecycle leaves the jobs alone.
LEMMA PhaseStep ==
    ASSUME WebInv, UNCHANGED <<jobDoc, run, closing, tasks>>, serving' \in BOOLEAN,
           life' \in [phase : Phases, code : {0, 1}, late : BOOLEAN], PhaseInv', NoJobLeftOpen'
    PROVE  WebInv'
<1>1. WebTypes'
  BY DEF WebInv, WebTypes
<1>2. \A j \in LocalJobs : JobInv(j)'
  BY DEF WebInv, JobInv
<1> QED BY <1>1, <1>2 DEF WebInv

LEMMA OrderlySteps ==
    ASSUME WebInv,
           Shutdown \/ CloseServer \/ WaitForActiveJobs \/ WaitForBackgroundTasks \/ Deadline
    PROVE  WebInv'
<1>1. life \in [phase : Phases, code : {0, 1}, late : BOOLEAN]
  BY DEF WebInv, WebTypes
<1>2. \A j \in LocalJobs : run[j].pc \in RunPcs
  BY DEF WebInv, WebTypes, Runs
<1>3. UNCHANGED <<jobDoc, run, closing, tasks>> /\ serving' \in BOOLEAN
  BY DEF Shutdown, CloseServer, WaitForActiveJobs, WaitForBackgroundTasks, Deadline, LifePhase,
         WebInv, WebTypes
<1>4. life' \in [phase : Phases, code : {0, 1}, late : BOOLEAN] /\ life'.phase # "exited"
  BY <1>1 DEF Shutdown, CloseServer, WaitForActiveJobs, WaitForBackgroundTasks, Deadline, LifePhase,
              Phases
<1>5. PhaseInv'
  <2>1. CASE Shutdown
    BY <1>1, <2>1 DEF Shutdown, LifePhase, WebInv, PhaseInv
  <2>2. CASE CloseServer
    BY <1>1, <2>2 DEF CloseServer, LifePhase, WebInv, PhaseInv, activeCreations
  <2>3. CASE WaitForActiveJobs
    <3>1. \A j \in LocalJobs : run[j].pc \in {"idle", "done"}
      BY <1>2, <2>3 DEF WaitForActiveJobs, LifePhase, WebInv, PhaseInv, activeJobs, RunPcs
    <3> QED BY <1>1, <2>3, <3>1 DEF WaitForActiveJobs, LifePhase, WebInv, PhaseInv
  <2>4. CASE WaitForBackgroundTasks
    BY <1>1, <2>4 DEF WaitForBackgroundTasks, LifePhase, WebInv, PhaseInv
  <2>5. CASE Deadline
    BY <1>1, <2>5 DEF Deadline, WebInv, PhaseInv
  <2> QED BY <2>1, <2>2, <2>3, <2>4, <2>5
<1>6. NoJobLeftOpen'
  BY <1>4 DEF NoJobLeftOpen
<1> QED BY <1>3, <1>4, <1>5, <1>6, PhaseStep

\* The three ways to exit: nothing is left to run, every job is finalised, time is up.
LEMMA ExitSteps ==
    ASSUME WebInv, StopServices \/ Finalized \/ FinalizationTimeout
    PROVE  WebInv'
<1>1. life \in [phase : Phases, code : {0, 1}, late : BOOLEAN]
  BY DEF WebInv, WebTypes
<1>2. \A j \in LocalJobs : run[j].pc \in RunPcs
  BY DEF WebInv, WebTypes, Runs
<1>3. UNCHANGED <<serving, jobDoc, run, closing, tasks>>
  BY DEF StopServices, Finalized, FinalizationTimeout
<1>4. life' \in [phase : Phases, code : {0, 1}, late : BOOLEAN] /\ life'.phase = "exited"
  BY <1>1 DEF StopServices, Finalized, FinalizationTimeout, Phases
<1>5. PhaseInv'
  BY <1>4 DEF PhaseInv
<1>6. NoJobLeftOpen'
  <2>1. CASE StopServices
    <3>1. /\ \A j \in LocalJobs : run[j].pc \in {"idle", "done"} /\ closing[j] = "none"
          /\ tasks = {}
      BY <2>1 DEF StopServices, WebInv, PhaseInv
    <3>2. activeJobs' = {} /\ activeCreations' = {}
      BY <1>3, <3>1 DEF activeJobs, activeCreations, LocalRunning, Creating
    <3>3. \A j \in LocalJobs : run[j].pc # "idle" => jobDoc[j] \in LocalTerminal
      BY <3>1 DEF WebInv, JobInv
    <3> QED BY <1>3, <3>1, <3>2, <3>3 DEF NoJobLeftOpen
  <2>2. CASE Finalized
    <3>1. life'.code = 1
      BY <1>1, <2>2 DEF Finalized, WebInv, PhaseInv
    <3>2. ASSUME NEW j \in LocalJobs, run[j].pc # "idle" PROVE jobDoc[j] \in LocalTerminal
      <4>1. CASE run[j].pc = "done"
        BY <2>2, <4>1 DEF Finalized, WebInv, JobInv
      <4>2. CASE run[j].pc # "done"
        <5>1. j \in activeJobs \cup activeCreations
          BY <1>2, <3>2, <4>2 DEF RunPcs, activeJobs, activeCreations
        <5> QED BY <2>2, <5>1 DEF Finalized, WebInv, JobInv
      <4> QED BY <4>1, <4>2
    <3> QED BY <1>3, <3>1, <3>2 DEF NoJobLeftOpen
  <2>3. CASE FinalizationTimeout
    <3>1. life'.code = 1 /\ life'.late = TRUE
      BY <1>1, <2>3 DEF FinalizationTimeout, WebInv, PhaseInv
    <3> QED BY <3>1 DEF NoJobLeftOpen
  <2> QED BY <2>1, <2>2, <2>3
<1>7. serving' \in BOOLEAN
  BY <1>3 DEF WebInv, WebTypes
<1> QED BY <1>3, <1>4, <1>5, <1>6, <1>7, PhaseStep

-----------------------------------------------------------------------------
LEMMA WebInvStep == WebInv /\ [WebNext]_localVars => WebInv'
<1> SUFFICES ASSUME WebInv, [WebNext]_localVars PROVE WebInv'
  OBVIOUS
<1>1. ASSUME NEW j \in LocalJobs,
             \/ CreateJob(j) \/ SaveCreated(j) \/ Announce(j) \/ LoadLocal(j) \/ WorkLocal(j)
             \/ EndLocal(j) \/ CompleteLocal(j) \/ DiscardLocal(j) \/ LeaveLocal(j) \/ CancelLocal(j)
             \/ TaskDone(j) \/ TakeForFinalization(j) \/ FinalizeCreation(j)
             \/ FinalizeRead(j) \/ FinalizeSave(j)
      PROVE  WebInv'
  BY <1>1, CreationSteps, RunSteps, WorkStep, CancelSteps, TakeStep, FinalizeCreationStep,
     FinalizeReadStep, FinalizeSaveStep
<1>2. CASE \/ Shutdown \/ CloseServer \/ WaitForActiveJobs \/ WaitForBackgroundTasks \/ Deadline
  BY <1>2, OrderlySteps
<1>3. CASE StopServices \/ Finalized \/ FinalizationTimeout
  BY <1>3, ExitSteps
<1>4. CASE UNCHANGED localVars
  <2>1. WebTypes' /\ PhaseInv'
    BY <1>4 DEF WebInv, WebTypes, PhaseInv, localVars
  <2>2. \A j \in LocalJobs : JobInv(j)'
    BY <1>4 DEF WebInv, JobInv, localVars
  <2>3. NoJobLeftOpen'
    BY <1>4 DEF WebInv, NoJobLeftOpen, localVars, activeJobs, activeCreations
  <2> QED BY <2>1, <2>2, <2>3 DEF WebInv
<1> QED BY <1>1, <1>2, <1>3, <1>4 DEF WebNext

\* An exit of the process leaves no accepted job open, unless the budget of its finalisation
\* ran out, and an orderly one leaves nothing running (processLifecycle, JobService).
THEOREM NoJobStaysOpen == WebSpec => []NoJobLeftOpen
<1>1. WebInv => NoJobLeftOpen
  BY DEF WebInv
<1> QED BY <1>1, WebInvInit, WebInvStep, PTL DEF WebSpec

-----------------------------------------------------------------------------
(* What the callbacks of a job tell.                                        *)

Events == {"processing"} \cup LocalTerminal

\* How a job ends is stored before anyone is told: a job that is only created, waits or runs
\* is not completed, nor one whose creation is finalised, and one whose own copy is completed
\* is stored so, unless it was cancelled before.
TellInv(j) ==
  /\ "completed" \in called[j] => jobDoc[j] = "completed"
  /\ "cancelled" \in called[j] => jobDoc[j] = "cancelled"
  /\ run[j].pc \in {"idle", "loading", "running"} \cup Creating => jobDoc[j] \notin {"completed", "failed"}
  /\ run[j].pc = "ending" /\ run[j].own = "completed" => jobDoc[j] \in {"completed", "cancelled"}
  /\ run[j].pc = "completing" /\ run[j].own = "completed" => jobDoc[j] = "completed"
  /\ run[j].pc = "discarding" => jobDoc[j] = "cancelled"
  /\ closing[j] \in {"marking", "waiting"} =>
       jobDoc[j] \notin {"completed", "failed"} /\ run[j].shutdownFinalized
         /\ run[j].pc \in {"done"} \cup Creating

Telling == called \in [LocalJobs -> SUBSET Events] /\ \A j \in LocalJobs : TellInv(j)

\* A step of one job.
LEMMA TellOne ==
    ASSUME Telling, NEW j \in LocalJobs, TellInv(j)', called' \in [LocalJobs -> SUBSET Events],
           \A i \in LocalJobs : i # j => /\ run'[i] = run[i] /\ jobDoc'[i] = jobDoc[i]
                                         /\ closing'[i] = closing[i] /\ called'[i] = called[i]
    PROVE  Telling'
<1>1. ASSUME NEW i \in LocalJobs PROVE TellInv(i)'
  <2>1. CASE i = j
    BY <2>1
  <2>2. CASE i # j
    BY <2>2 DEF Telling, TellInv
  <2> QED BY <2>1, <2>2
<1> QED BY <1>1 DEF Telling

LEMMA SavedStatus ==
    ASSUME jobDoc \in [LocalJobs -> JobStatuses], NEW j \in LocalJobs, NEW status, SaveLocal(j, status)
    PROVE  /\ jobDoc'[j] = IF jobDoc[j] \in LocalTerminal THEN jobDoc[j] ELSE status
           /\ \A i \in LocalJobs : i # j => jobDoc'[i] = jobDoc[i]
BY DEF SaveLocal

\* The event of an ended job is added, or none.
LEMMA CalledWith ==
    ASSUME called \in [LocalJobs -> SUBSET Events], NEW j \in LocalJobs, NEW E \in SUBSET Events,
           called' = [called EXCEPT ![j] = @ \cup E]
    PROVE  /\ called' \in [LocalJobs -> SUBSET Events] /\ called'[j] = called[j] \cup E
           /\ \A i \in LocalJobs : i # j => called'[i] = called[i]
OBVIOUS

\* What a step of a job leaves alone, and the types it can rely on.
LEMMA TellTypes ==
    ASSUME WebInv, Telling, NEW j \in LocalJobs
    PROVE  /\ jobDoc \in [LocalJobs -> JobStatuses] /\ run \in [LocalJobs -> Runs]
           /\ closing \in [LocalJobs -> Closings] /\ called \in [LocalJobs -> SUBSET Events]
           /\ TellInv(j) /\ JobInv(j)
BY DEF WebInv, WebTypes, Telling

-----------------------------------------------------------------------------
\* Steps that only move the job on, and may tell that it is processed.
LEMMA TellMove ==
    ASSUME WebInv, Telling, NEW j \in LocalJobs,
           CreateJob(j) \/ Announce(j) \/ EndLocal(j) \/ LeaveLocal(j)
    PROVE  Telling'
<1>1. /\ jobDoc \in [LocalJobs -> JobStatuses] /\ run \in [LocalJobs -> Runs]
      /\ called \in [LocalJobs -> SUBSET Events] /\ TellInv(j) /\ JobInv(j)
  BY TellTypes
<1>2. UNCHANGED <<jobDoc, closing>>
  BY DEF CreateJob, Announce, EndLocal, LeaveLocal
<1>3. PICK pc : LocalStep(j, pc)
  BY DEF CreateJob, Announce, EndLocal, LeaveLocal
<1>4. /\ run'[j].pc = pc /\ run'[j].own = run[j].own
      /\ run'[j].shutdownFinalized = run[j].shutdownFinalized
      /\ \A i \in LocalJobs : i # j => run'[i] = run[i]
  BY <1>1, <1>3 DEF LocalStep, Runs
<1>5. /\ called' \in [LocalJobs -> SUBSET Events]
      /\ called'[j] = called[j] \/ called'[j] = called[j] \cup {"processing"}
      /\ \A i \in LocalJobs : i # j => called'[i] = called[i]
  <2>1. CASE called' = called
    BY <1>1, <2>1
  <2>2. CASE called' = [called EXCEPT ![j] = @ \cup {"processing"}]
    <3>1. {"processing"} \in SUBSET Events
      BY DEF Events
    <3> QED BY <1>1, <2>2, <3>1, CalledWith
  <2> QED BY <2>1, <2>2 DEF CreateJob, Announce, EndLocal, LeaveLocal
<1>6. TellInv(j)'
  <2>1. \/ run[j].pc = "idle" /\ pc = "saving"
        \/ run[j].pc = "announcing" /\ pc = (IF run[j].shutdownFinalized THEN "done" ELSE "loading")
        \/ run[j].pc = "ending" /\ pc = (IF jobDoc[j] = "cancelled" THEN "discarding" ELSE "completing")
        \/ run[j].pc = "calling" /\ pc = "done"
    BY <1>1, <1>4 DEF CreateJob, Announce, EndLocal, LeaveLocal, LocalStep, Runs
  <2> QED BY <1>1, <1>2, <1>4, <1>5, <2>1 DEF TellInv, Creating
<1> QED BY <1>2, <1>4, <1>5, <1>6, TellOne

\* A step that saves the job and may tell how it has ended.
LEMMA SavedAndTold ==
    ASSUME WebInv, Telling, NEW j \in LocalJobs, NEW pc, NEW status, NEW E \in SUBSET Events,
           LocalStep(j, pc), SaveLocal(j, status), UNCHANGED closing,
           called' = [called EXCEPT ![j] = @ \cup E],
           \/ /\ run[j].pc = "saving" /\ status = "processing" /\ E = {}
              /\ pc \in {"done", "announcing"} /\ (pc = "done" <=> run[j].shutdownFinalized)
           \/ run[j].pc = "loading" /\ status = "processing" /\ E = {} /\ pc = "running"
           \/ run[j].pc = "completing" /\ status = run[j].own /\ E = {run[j].own} /\ pc = "calling"
           \/ run[j].pc = "discarding" /\ status = "cancelled" /\ E \subseteq {"cancelled"} /\ pc = "calling"
    PROVE  Telling'
<1>1. /\ jobDoc \in [LocalJobs -> JobStatuses] /\ run \in [LocalJobs -> Runs]
      /\ called \in [LocalJobs -> SUBSET Events] /\ TellInv(j) /\ JobInv(j)
  BY TellTypes
<1>2. /\ run'[j].pc = pc /\ run'[j].own = run[j].own
      /\ run'[j].shutdownFinalized = run[j].shutdownFinalized
      /\ \A i \in LocalJobs : i # j => run'[i] = run[i]
  BY <1>1 DEF LocalStep, Runs
<1>3. /\ jobDoc'[j] = IF jobDoc[j] \in LocalTerminal THEN jobDoc[j] ELSE status
      /\ \A i \in LocalJobs : i # j => jobDoc'[i] = jobDoc[i]
  BY <1>1, SavedStatus
<1>4. /\ called' \in [LocalJobs -> SUBSET Events] /\ called'[j] = called[j] \cup E
      /\ \A i \in LocalJobs : i # j => called'[i] = called[i]
  BY <1>1, CalledWith
<1>5. TellInv(j)'
  <2>1. CASE run[j].pc = "saving"
    BY <1>1, <1>2, <1>3, <1>4, <2>1 DEF TellInv, Creating, LocalTerminal
  <2>2. CASE run[j].pc = "loading"
    BY <1>1, <1>2, <1>3, <1>4, <2>2 DEF TellInv, Creating, LocalTerminal
  <2>3. CASE run[j].pc = "completing"
    BY <1>1, <1>2, <1>3, <1>4, <2>3 DEF TellInv, Creating, LocalTerminal, JobInv
  <2>4. CASE run[j].pc = "discarding"
    BY <1>1, <1>2, <1>3, <1>4, <2>4 DEF TellInv, Creating, LocalTerminal
  <2> QED BY <2>1, <2>2, <2>3, <2>4
<1> QED BY <1>2, <1>3, <1>4, <1>5, TellOne

\* No event is an addition of no event.
LEMMA NothingTold ==
    ASSUME called \in [LocalJobs -> SUBSET Events], NEW j \in LocalJobs, called' = called
    PROVE  called' = [called EXCEPT ![j] = @ \cup {}]
<1>1. called[j] \cup {} = called[j]
  OBVIOUS
<1> QED BY <1>1

LEMMA TellSave ==
    ASSUME WebInv, Telling, NEW j \in LocalJobs,
           SaveCreated(j) \/ LoadLocal(j) \/ CompleteLocal(j) \/ DiscardLocal(j)
    PROVE  Telling'
<1>1. /\ called \in [LocalJobs -> SUBSET Events] /\ JobInv(j)
  BY TellTypes
<1>2. {} \in SUBSET Events /\ {"cancelled"} \in SUBSET Events
  BY DEF Events, LocalTerminal
<1>3. CASE SaveCreated(j)
  <2>1. /\ run[j].pc = "saving" /\ SaveLocal(j, "processing") /\ UNCHANGED closing
        /\ LocalStep(j, IF run[j].shutdownFinalized THEN "done" ELSE "announcing")
        /\ called' = [called EXCEPT ![j] = @ \cup {}]
    BY <1>1, <1>3, NothingTold DEF SaveCreated, LocalStep
  <2>2. CASE run[j].shutdownFinalized
    BY <1>2, <2>1, <2>2, SavedAndTold
  <2>3. CASE ~run[j].shutdownFinalized
    BY <1>2, <2>1, <2>3, SavedAndTold
  <2> QED BY <2>2, <2>3
<1>4. CASE LoadLocal(j)
  <2>1. /\ run[j].pc = "loading" /\ SaveLocal(j, "processing") /\ UNCHANGED closing
        /\ LocalStep(j, "running") /\ called' = [called EXCEPT ![j] = @ \cup {}]
    BY <1>1, <1>4, NothingTold DEF LoadLocal
  <2> QED BY <1>2, <2>1, SavedAndTold
<1>5. CASE CompleteLocal(j)
  <2>1. /\ run[j].pc = "completing" /\ SaveLocal(j, run[j].own) /\ UNCHANGED closing
        /\ LocalStep(j, "calling") /\ called' = [called EXCEPT ![j] = @ \cup {run[j].own}]
    BY <1>5 DEF CompleteLocal
  <2>2. {run[j].own} \in SUBSET Events
    BY <1>1, <2>1 DEF JobInv, Events, LocalTerminal
  <2> QED BY <2>1, <2>2, SavedAndTold
<1>6. CASE DiscardLocal(j)
  <2>1. /\ run[j].pc = "discarding" /\ SaveLocal(j, "cancelled") /\ UNCHANGED closing
        /\ LocalStep(j, "calling")
    BY <1>6 DEF DiscardLocal
  <2>2. CASE called' = [called EXCEPT ![j] = @ \cup {"cancelled"}]
    BY <1>2, <2>1, <2>2, SavedAndTold
  <2>3. CASE called' = called
    <3>1. called' = [called EXCEPT ![j] = @ \cup {}]
      BY <1>1, <2>3, NothingTold
    <3> QED BY <1>2, <2>1, <3>1, SavedAndTold
  <2>4. called' = called \/ called' = [called EXCEPT ![j] = @ \cup {"cancelled"}]
    BY <1>1, <1>6 DEF DiscardLocal
  <2> QED BY <2>2, <2>3, <2>4
<1> QED BY <1>3, <1>4, <1>5, <1>6

LEMMA TellWork == ASSUME WebInv, Telling, NEW j \in LocalJobs, WorkLocal(j) PROVE Telling'
<1>1. /\ jobDoc \in [LocalJobs -> JobStatuses] /\ run \in [LocalJobs -> Runs]
      /\ called \in [LocalJobs -> SUBSET Events] /\ TellInv(j)
  BY TellTypes
<1>2. PICK own \in {"completed", "failed"} :
        /\ run' = [run EXCEPT ![j].pc = "ending", ![j].own = own]
        /\ SaveLocal(j, own) \/ (own = "failed" /\ UNCHANGED jobDoc)
  BY DEF WorkLocal
<1>3. run[j].pc = "running" /\ UNCHANGED <<closing, called>>
  BY DEF WorkLocal
<1>4. /\ run'[j].pc = "ending" /\ run'[j].own = own
      /\ \A i \in LocalJobs : i # j => run'[i] = run[i]
  BY <1>1, <1>2 DEF Runs
<1>5. /\ \/ jobDoc'[j] = IF jobDoc[j] \in LocalTerminal THEN jobDoc[j] ELSE own
         \/ own = "failed" /\ jobDoc'[j] = jobDoc[j]
      /\ \A i \in LocalJobs : i # j => jobDoc'[i] = jobDoc[i]
  BY <1>1, <1>2, SavedStatus
<1>6. TellInv(j)'
  BY <1>1, <1>3, <1>4, <1>5 DEF TellInv, Creating, LocalTerminal
<1> QED BY <1>1, <1>3, <1>4, <1>5, <1>6, TellOne

LEMMA TellCancel ==
    ASSUME WebInv, Telling, NEW j \in LocalJobs, CancelLocal(j) \/ TaskDone(j)
    PROVE  Telling'
<1>1. /\ jobDoc \in [LocalJobs -> JobStatuses] /\ called \in [LocalJobs -> SUBSET Events] /\ TellInv(j)
  BY TellTypes
<1>2. CASE TaskDone(j)
  BY <1>2 DEF TaskDone, Telling, TellInv
<1>3. CASE CancelLocal(j)
  <2>1. /\ jobDoc[j] = "processing" /\ UNCHANGED <<run, closing>> /\ SaveLocal(j, "cancelled")
        /\ called' = called \/ called' = [called EXCEPT ![j] = @ \cup {"cancelled"}]
    BY <1>1, <1>3 DEF CancelLocal
  <2>2. jobDoc'[j] = "cancelled" /\ \A i \in LocalJobs : i # j => jobDoc'[i] = jobDoc[i]
    BY <1>1, <2>1, SavedStatus DEF LocalTerminal
  <2>3. /\ called' \in [LocalJobs -> SUBSET Events]
        /\ called'[j] \subseteq called[j] \cup {"cancelled"}
        /\ \A i \in LocalJobs : i # j => called'[i] = called[i]
    <3>1. {"cancelled"} \in SUBSET Events
      BY DEF Events, LocalTerminal
    <3> QED BY <1>1, <2>1, <3>1, CalledWith
  <2>4. TellInv(j)'
    BY <1>1, <2>1, <2>2, <2>3 DEF TellInv
  <2> QED BY <2>1, <2>2, <2>3, <2>4, TellOne
<1> QED BY <1>2, <1>3

LEMMA TellFinalization ==
    ASSUME WebInv, Telling, NEW j \in LocalJobs,
           TakeForFinalization(j) \/ FinalizeCreation(j) \/ FinalizeRead(j) \/ FinalizeSave(j)
    PROVE  Telling'
<1>1. /\ jobDoc \in [LocalJobs -> JobStatuses] /\ run \in [LocalJobs -> Runs]
      /\ closing \in [LocalJobs -> Closings] /\ called \in [LocalJobs -> SUBSET Events]
      /\ TellInv(j) /\ JobInv(j)
  BY TellTypes
<1>2. {"cancelled"} \in SUBSET Events
  BY DEF Events, LocalTerminal
<1>3. CASE TakeForFinalization(j)
  <2>1. /\ UNCHANGED <<jobDoc, called>>
        /\ \/ /\ j \in activeCreations /\ closing' = [closing EXCEPT ![j] = "marking"]
              /\ run' = [run EXCEPT ![j].shutdownFinalized = TRUE]
           \/ closing' = [closing EXCEPT ![j] = "reading"] /\ run' = run
    BY <1>3 DEF TakeForFinalization
  <2>2. /\ \A i \in LocalJobs : i # j => run'[i] = run[i] /\ closing'[i] = closing[i]
        /\ run'[j].pc = run[j].pc /\ run'[j].own = run[j].own
        /\ \/ closing'[j] = "marking" /\ run'[j].shutdownFinalized /\ run[j].pc \in Creating
           \/ closing'[j] = "reading"
    BY <1>1, <2>1 DEF Runs, activeCreations
  <2>3. TellInv(j)'
    BY <1>1, <2>1, <2>2 DEF TellInv
  <2> QED BY <1>1, <2>1, <2>2, <2>3, TellOne
<1>4. CASE FinalizeCreation(j)
  <2>1. /\ closing[j] \in {"marking", "waiting"} /\ UNCHANGED run /\ SaveLocal(j, "cancelled")
        /\ \/ closing' = [closing EXCEPT ![j] = "waiting"]
           \/ closing' = [closing EXCEPT ![j] = "done"]
        /\ called' = called \/ called' = [called EXCEPT ![j] = @ \cup {"cancelled"}]
    BY <1>1, <1>4 DEF FinalizeCreation
  <2>2. jobDoc'[j] = "cancelled" /\ \A i \in LocalJobs : i # j => jobDoc'[i] = jobDoc[i]
    BY <1>1, <2>1, SavedStatus DEF TellInv, LocalTerminal
  <2>3. /\ called' \in [LocalJobs -> SUBSET Events]
        /\ called'[j] \subseteq called[j] \cup {"cancelled"}
        /\ \A i \in LocalJobs : i # j => called'[i] = called[i]
    BY <1>1, <1>2, <2>1, CalledWith
  <2>4. \A i \in LocalJobs : i # j => closing'[i] = closing[i]
    BY <1>1, <2>1
  <2>5. TellInv(j)'
    BY <1>1, <2>1, <2>2, <2>3 DEF TellInv
  <2> QED BY <2>1, <2>2, <2>3, <2>4, <2>5, TellOne
<1>5. CASE FinalizeRead(j)
  <2>1. /\ UNCHANGED <<jobDoc, run, called>> /\ closing'[j] \in {"done", "cancelling"}
        /\ \A i \in LocalJobs : i # j => closing'[i] = closing[i]
    BY <1>1, <1>5 DEF FinalizeRead
  <2>2. TellInv(j)'
    BY <1>1, <2>1 DEF TellInv
  <2> QED BY <1>1, <2>1, <2>2, TellOne
<1>6. CASE FinalizeSave(j)
  <2>1. /\ SaveLocal(j, "cancelled") /\ closing' = [closing EXCEPT ![j] = "done"]
        /\ \/ /\ jobDoc'[j] = "cancelled" /\ run' = [run EXCEPT ![j].shutdownFinalized = TRUE]
              /\ called' = [called EXCEPT ![j] = @ \cup {"cancelled"}]
           \/ called' = called /\ run' = run
    BY <1>6 DEF FinalizeSave
  <2>2. /\ jobDoc'[j] = IF jobDoc[j] \in LocalTerminal THEN jobDoc[j] ELSE "cancelled"
        /\ \A i \in LocalJobs : i # j => jobDoc'[i] = jobDoc[i]
    BY <1>1, <2>1, SavedStatus
  <2>3. /\ called' \in [LocalJobs -> SUBSET Events]
        /\ \/ called'[j] = called[j]
           \/ called'[j] = called[j] \cup {"cancelled"} /\ jobDoc'[j] = "cancelled"
        /\ \A i \in LocalJobs : i # j => called'[i] = called[i]
    BY <1>1, <1>2, <2>1, CalledWith
  <2>4. /\ \A i \in LocalJobs : i # j => run'[i] = run[i] /\ closing'[i] = closing[i]
        /\ run'[j].pc = run[j].pc /\ run'[j].own = run[j].own /\ closing'[j] = "done"
    BY <1>1, <2>1 DEF Runs
  <2>5. TellInv(j)'
    BY <1>1, <2>2, <2>3, <2>4 DEF TellInv, LocalTerminal
  <2> QED BY <2>2, <2>3, <2>4, <2>5, TellOne
<1> QED BY <1>3, <1>4, <1>5, <1>6

LEMMA TellingStep == WebInv /\ Telling /\ [WebNext]_localVars => Telling'
<1> SUFFICES ASSUME WebInv, Telling, [WebNext]_localVars PROVE Telling'
  OBVIOUS
<1>1. ASSUME NEW j \in LocalJobs,
             \/ CreateJob(j) \/ SaveCreated(j) \/ Announce(j) \/ LoadLocal(j) \/ WorkLocal(j)
             \/ EndLocal(j) \/ CompleteLocal(j) \/ DiscardLocal(j) \/ LeaveLocal(j) \/ CancelLocal(j)
             \/ TaskDone(j) \/ TakeForFinalization(j) \/ FinalizeCreation(j)
             \/ FinalizeRead(j) \/ FinalizeSave(j)
      PROVE  Telling'
  BY <1>1, TellMove, TellSave, TellWork, TellCancel, TellFinalization
<1>2. CASE \/ Shutdown \/ CloseServer \/ WaitForActiveJobs \/ WaitForBackgroundTasks \/ Deadline
           \/ StopServices \/ Finalized \/ FinalizationTimeout \/ UNCHANGED localVars
  <2>1. UNCHANGED <<jobDoc, run, closing, called>>
    BY <1>2 DEF Shutdown, CloseServer, WaitForActiveJobs, WaitForBackgroundTasks, Deadline,
                StopServices, Finalized, FinalizationTimeout, localVars
  <2> QED BY <2>1 DEF Telling, TellInv
<1> QED BY <1>1, <1>2 DEF WebNext

\* Who is told that a job has completed or was cancelled is told what is stored, now and later
\* (_runBackgroundJob, cancelJob, finalizeActiveJobsForShutdown).
THEOREM CallbacksTellStatus == WebSpec => []CallbackTellsStatus
<1>1. WebInit => Telling
  BY DEF WebInit, Telling, TellInv
<1>2. Telling => CallbackTellsStatus
  BY DEF Telling, TellInv, CallbackTellsStatus
<1> QED BY <1>1, <1>2, TellingStep, WebInvInit, WebInvStep, PTL DEF WebSpec

-----------------------------------------------------------------------------
(* The callbacks.                                                           *)

Copies == [CallbackEvents -> CallbackRecord]

DeliverySteps == {"idle", "claiming", "sending", "recording", "done"}

DeliveryRecords ==
  [pc : DeliverySteps, event : CallbackEvents \cup {"processing"},
   proc : CallbackProcs \cup {NoDelivery}, tries : Nat, ok : BOOLEAN]

DataInv ==
  /\ callback \in Copies /\ leased \subseteq Deliveries
  /\ delivery \in [Deliveries -> DeliveryRecords]
  /\ saving \in [CallbackProcs -> [pc : {"none", "changing", "writing", "saved"},
                                   own : Copies, next : Copies]]
  /\ accepted \in [CallbackEvents -> Nat] /\ excused \in [CallbackEvents -> Nat]

\* Deliveries of an event that may still end without a record of a success.
Engaged(e) ==
  {d \in Deliveries : /\ delivery[d].event = e
                      /\ delivery[d].pc = "sending" \/ (delivery[d].pc = "recording" /\ ~delivery[d].ok)}

\* Nobody can claim an event that succeeded, or whose claim is live and in use.
Blocked(e) ==
  \/ callback[e].st = "success"
  \/ /\ callback[e].st = "in_flight" /\ callback[e].by \in leased
     /\ delivery[callback[e].by].event = e /\ delivery[callback[e].by].pc \in {"sending", "recording"}

\* An event has been accepted once, or may be by one delivery, and once more for each
\* excuse; while it can be claimed, one acceptance is still to come.
RoomFor(e) ==
  /\ IsFiniteSet(Engaged(e))
  /\ accepted[e] + Cardinality(Engaged(e)) + (IF Blocked(e) THEN 0 ELSE 1) <= 1 + excused[e]

CallbackInv == DataInv /\ \A e \in CallbackEvents : RoomFor(e)

LEMMA SetSizes ==
  ASSUME NEW S, IsFiniteSet(S)
  PROVE  /\ Cardinality(S) \in Nat
         /\ \A T : T \subseteq S => IsFiniteSet(T) /\ Cardinality(T) \in Nat /\ Cardinality(T) <= Cardinality(S)
         /\ \A T, d : T \subseteq S \cup {d} => /\ IsFiniteSet(T) /\ Cardinality(T) \in Nat
                                                /\ Cardinality(T) <= Cardinality(S) + 1
         /\ \A T, d : d \in S /\ T \subseteq S \ {d} => /\ IsFiniteSet(T) /\ Cardinality(T) \in Nat
                                                        /\ Cardinality(T) + 1 <= Cardinality(S)
<1>1. \A T : T \subseteq S => IsFiniteSet(T) /\ Cardinality(T) \in Nat /\ Cardinality(T) <= Cardinality(S)
  BY FS_Subset, FS_CardinalityType
<1>2. ASSUME NEW T, NEW d, T \subseteq S \cup {d}
      PROVE  IsFiniteSet(T) /\ Cardinality(T) \in Nat /\ Cardinality(T) <= Cardinality(S) + 1
  <2>1. /\ IsFiniteSet(S \cup {d}) /\ Cardinality(S) \in Nat
        /\ Cardinality(S \cup {d}) \in {Cardinality(S), Cardinality(S) + 1}
    BY FS_AddElement, FS_CardinalityType
  <2>2. IsFiniteSet(T) /\ Cardinality(T) <= Cardinality(S \cup {d}) /\ Cardinality(T) \in Nat
    BY <1>2, <2>1, FS_Subset, FS_CardinalityType
  <2> QED BY <2>1, <2>2
<1>3. ASSUME NEW T, NEW d, d \in S, T \subseteq S \ {d}
      PROVE  IsFiniteSet(T) /\ Cardinality(T) \in Nat /\ Cardinality(T) + 1 <= Cardinality(S)
  <2>1. /\ IsFiniteSet(S \ {d}) /\ Cardinality(S) \in Nat /\ Cardinality(S \ {d}) \in Nat
        /\ Cardinality(S \ {d}) = Cardinality(S) - 1
    BY <1>3, FS_RemoveElement, FS_CardinalityType
  <2>2. IsFiniteSet(T) /\ Cardinality(T) <= Cardinality(S \ {d}) /\ Cardinality(T) \in Nat
    BY <1>3, <2>1, FS_Subset, FS_CardinalityType
  <2> QED BY <2>1, <2>2
<1> QED BY <1>1, <1>2, <1>3, FS_CardinalityType

\* The ways in which a step may change the account of an event.
LEMMA Balance ==
  ASSUME DataInv, DataInv', NEW e \in CallbackEvents, RoomFor(e),
         excused'[e] >= excused[e],
         \/ /\ Engaged(e)' \subseteq Engaged(e) /\ accepted'[e] = accepted[e]
            /\ (Blocked(e) => Blocked(e)') \/ excused'[e] = excused[e] + 1
         \/ /\ Engaged(e)' \subseteq Engaged(e) /\ accepted'[e] = accepted[e] + 1
            /\ (Blocked(e) => Blocked(e)') /\ excused'[e] = excused[e] + 1
         \/ \E d \in Engaged(e) : /\ Engaged(e)' \subseteq Engaged(e) \ {d}
                                  /\ accepted'[e] = accepted[e]
         \/ \E d \in Engaged(e) : /\ Engaged(e)' \subseteq Engaged(e) \ {d}
                                  /\ accepted'[e] = accepted[e] + 1 /\ (Blocked(e) => Blocked(e)')
         \/ \E d \in Deliveries : /\ Engaged(e)' \subseteq Engaged(e) \cup {d} /\ accepted'[e] = accepted[e]
                                  /\ ~Blocked(e) /\ Blocked(e)'
  PROVE  RoomFor(e)'
<1> DEFINE S == Engaged(e)
           T == Engaged(e)'
<1>1. accepted[e] \in Nat /\ accepted'[e] \in Nat /\ excused[e] \in Nat /\ excused'[e] \in Nat
  BY DEF DataInv
<1>2. IsFiniteSet(S) /\ Cardinality(S) \in Nat
      /\ accepted[e] + Cardinality(S) + (IF Blocked(e) THEN 0 ELSE 1) <= 1 + excused[e]
  BY FS_CardinalityType DEF RoomFor
<1>3. /\ IsFiniteSet(T) /\ Cardinality(T) \in Nat
      /\ \/ /\ Cardinality(T) <= Cardinality(S) /\ accepted'[e] = accepted[e]
            /\ (Blocked(e) => Blocked(e)') \/ excused'[e] = excused[e] + 1
         \/ /\ Cardinality(T) <= Cardinality(S) /\ accepted'[e] = accepted[e] + 1
            /\ (Blocked(e) => Blocked(e)') /\ excused'[e] = excused[e] + 1
         \/ Cardinality(T) + 1 <= Cardinality(S) /\ accepted'[e] = accepted[e]
         \/ /\ Cardinality(T) + 1 <= Cardinality(S) /\ accepted'[e] = accepted[e] + 1
            /\ Blocked(e) => Blocked(e)'
         \/ /\ Cardinality(T) <= Cardinality(S) + 1 /\ accepted'[e] = accepted[e]
            /\ ~Blocked(e) /\ Blocked(e)'
  <2> HIDE DEF S, T
  <2>1. /\ \A X : X \subseteq S => IsFiniteSet(X) /\ Cardinality(X) \in Nat /\ Cardinality(X) <= Cardinality(S)
        /\ \A X, d : X \subseteq S \cup {d} => /\ IsFiniteSet(X) /\ Cardinality(X) \in Nat
                                               /\ Cardinality(X) <= Cardinality(S) + 1
        /\ \A X, d : d \in S /\ X \subseteq S \ {d} => /\ IsFiniteSet(X) /\ Cardinality(X) \in Nat
                                                       /\ Cardinality(X) + 1 <= Cardinality(S)
    BY <1>2, SetSizes
  <2> QED BY <2>1 DEF S, T
<1>4. accepted'[e] + Cardinality(T) + (IF Blocked(e)' THEN 0 ELSE 1) <= 1 + excused'[e]
  <2> HIDE DEF S, T
  <2> QED BY <1>1, <1>2, <1>3
<1> QED BY <1>3, <1>4 DEF RoomFor

LEMMA DeliveryTypes ==
  ASSUME DataInv, NEW d \in Deliveries, NEW pc \in DeliverySteps, NEW ok \in BOOLEAN
  PROVE  /\ [delivery EXCEPT ![d].pc = pc] \in [Deliveries -> DeliveryRecords]
         /\ [delivery EXCEPT ![d].tries = @ + 1, ![d].pc = pc, ![d].ok = ok] \in [Deliveries -> DeliveryRecords]
         /\ delivery[d] \in DeliveryRecords /\ delivery[d].ok \in BOOLEAN
<1>1. ASSUME NEW r \in DeliveryRecords
      PROVE  /\ [r EXCEPT !.pc = pc] \in DeliveryRecords
             /\ [r EXCEPT !.tries = @ + 1, !.pc = pc, !.ok = ok] \in DeliveryRecords
             /\ r.ok \in BOOLEAN
  <2>1. r.tries + 1 \in Nat /\ r.ok \in BOOLEAN /\ [r EXCEPT !.pc = pc] \in DeliveryRecords
    BY DEF DeliveryRecords
  <2>2. ASSUME NEW n \in Nat
        PROVE  [r EXCEPT !.tries = n, !.pc = pc, !.ok = ok] \in DeliveryRecords
    <3>1. [r EXCEPT !.tries = n] \in DeliveryRecords
      BY DEF DeliveryRecords
    <3>2. [[r EXCEPT !.tries = n] EXCEPT !.pc = pc] \in DeliveryRecords
      BY <3>1 DEF DeliveryRecords
    <3>3. [[[r EXCEPT !.tries = n] EXCEPT !.pc = pc] EXCEPT !.ok = ok] \in DeliveryRecords
      BY <3>2 DEF DeliveryRecords
    <3> QED BY <3>3
  <2> QED BY <2>1, <2>2
<1>2. delivery \in [Deliveries -> DeliveryRecords]
  BY DEF DataInv
<1>3. /\ [delivery EXCEPT ![d].pc = pc] = [delivery EXCEPT ![d] = [delivery[d] EXCEPT !.pc = pc]]
      /\ [delivery EXCEPT ![d].tries = @ + 1, ![d].pc = pc, ![d].ok = ok]
           = [delivery EXCEPT ![d] = [delivery[d] EXCEPT !.tries = @ + 1, !.pc = pc, !.ok = ok]]
  BY <1>2
<1> QED BY <1>1, <1>2, <1>3

LEMMA InitialRoom == CallbackInit => CallbackInv
<1> SUFFICES ASSUME CallbackInit PROVE CallbackInv
  OBVIOUS
<1>1. NoRecord \in CallbackRecord /\ NoRecord.st = "none"
  BY DEF NoRecord, CallbackRecord
<1>2. NoCopy \in Copies /\ \A e \in CallbackEvents : NoCopy[e] = NoRecord
  BY <1>1 DEF NoCopy, Copies
<1>3. DataInv
  BY <1>2 DEF CallbackInit, DataInv, DeliveryRecords, IdleDelivery, NoSave, DeliverySteps
<1>4. \A e \in CallbackEvents : Engaged(e) = {}
  BY DEF CallbackInit, Engaged, IdleDelivery
<1>5. IsFiniteSet({}) /\ Cardinality({}) = 0
  BY FS_EmptySet
<1>6. ASSUME NEW e \in CallbackEvents
      PROVE  RoomFor(e)
  <2>1. accepted[e] = 0 /\ excused[e] = 0
    BY DEF CallbackInit
  <2>2. IsFiniteSet(Engaged(e)) /\ Cardinality(Engaged(e)) = 0
    BY <1>4, <1>5
  <2> QED BY <2>1, <2>2 DEF RoomFor
<1> QED BY <1>3, <1>6 DEF CallbackInv

\* The account of an event is as it was when the step is about another one.
LEMMA OtherEvents ==
  ASSUME DataInv, DataInv', NEW e \in CallbackEvents, RoomFor(e), NEW d \in Deliveries,
         \A x \in Deliveries \ {d} : delivery'[x] = delivery[x],
         delivery[d].event # e \/ delivery[d].pc \notin {"sending", "recording"},
         delivery'[d].event # e \/ delivery'[d].pc \notin {"sending", "recording"},
         callback'[e] = callback[e], leased \subseteq leased' \/ leased \subseteq leased' \cup {d},
         accepted'[e] = accepted[e], excused'[e] >= excused[e]
  PROVE  RoomFor(e)'
<1>1. Engaged(e)' \subseteq Engaged(e)
  BY DEF Engaged
<1>2. Blocked(e) => Blocked(e)'
  BY DEF Blocked, DataInv
<1> QED BY <1>1, <1>2, Balance

LEMMA ExcuseType ==
  ASSUME DataInv, NEW events, Excuse(events)
  PROVE  /\ excused' \in [CallbackEvents -> Nat]
         /\ \A e \in CallbackEvents : excused'[e] = excused[e] + (IF e \in events THEN 1 ELSE 0)
BY DEF Excuse, DataInv

LEMMA TriggerRoom ==
  ASSUME CallbackInv, NEW d \in Deliveries, NEW p \in CallbackProcs, NEW ev \in CallbackEvents, Trigger(d, p, ev)
  PROVE  CallbackInv'
<1> USE DEF CallbackInv
<1>1. PICK knows \in BOOLEAN : delivery' = [delivery EXCEPT ![d] =
        [IdleDelivery EXCEPT !.event = ev, !.proc = p, !.pc = IF knows THEN "done" ELSE "claiming"]]
  BY DEF Trigger
<1>2. DataInv'
  BY <1>1 DEF Trigger, DataInv, IdleDelivery, DeliveryRecords, DeliverySteps
<1>3. /\ \A x \in Deliveries \ {d} : delivery'[x] = delivery[x]
      /\ delivery[d].pc = "idle" /\ delivery'[d].pc \in {"claiming", "done"}
      /\ UNCHANGED <<callback, leased, accepted, excused>>
  BY <1>1 DEF Trigger, DataInv, IdleDelivery
<1>4. \A e \in CallbackEvents : excused[e] \in Nat
  BY DEF DataInv
<1> QED BY <1>2, <1>3, <1>4, OtherEvents

LEMMA ClaimRoom ==
  ASSUME CallbackInv, NEW d \in Deliveries, NEW ev, ev = delivery[d].event, ClaimCallback(d)
  PROVE  CallbackInv'
<1> USE DEF CallbackInv
<1> DEFINE claimed == [callback EXCEPT ![ev] = [st |-> "in_flight", by |-> d]]
<1>1. /\ delivery[d].pc = "claiming" /\ UNCHANGED <<saving, accepted, excused>>
      /\ \/ /\ Free(ev) /\ callback' = claimed /\ leased' = leased \cup {d}
            /\ delivery' = [delivery EXCEPT ![d].pc = "sending"]
         \/ /\ delivery' = [delivery EXCEPT ![d].pc = "done"]
            /\ \/ Free(ev) /\ callback' = claimed /\ leased' = leased \cup {d}
               \/ UNCHANGED <<callback, leased>>
  BY DEF ClaimCallback
<1>2. claimed \in Copies
  BY DEF DataInv, Copies, CallbackRecord
<1>3. /\ \A x \in Deliveries \ {d} : delivery'[x] = delivery[x]
      /\ delivery'[d].event = ev
      /\ \/ delivery'[d].pc = "sending" /\ Free(ev) /\ callback' = claimed /\ leased' = leased \cup {d}
         \/ delivery'[d].pc = "done" /\ Free(ev) /\ callback' = claimed /\ leased' = leased \cup {d}
         \/ delivery'[d].pc = "done" /\ UNCHANGED <<callback, leased>>
  BY <1>1 DEF DataInv, DeliveryRecords
<1>4. DataInv'
  <2>1. callback' \in Copies /\ leased' \subseteq Deliveries
    BY <1>1, <1>2 DEF DataInv
  <2>2. \A step \in DeliverySteps : [delivery EXCEPT ![d].pc = step] \in [Deliveries -> DeliveryRecords]
    BY DeliveryTypes
  <2>3. delivery' \in [Deliveries -> DeliveryRecords]
    BY <1>1, <2>2 DEF DeliverySteps
  <2> QED BY <1>1, <2>1, <2>3 DEF DataInv
<1>5. ASSUME NEW e \in CallbackEvents, e # ev
      PROVE  RoomFor(e)'
  <2>1. callback'[e] = callback[e] /\ leased \subseteq leased' /\ excused[e] \in Nat
    BY <1>1, <1>5 DEF DataInv, Copies
  <2> QED BY <1>1, <1>3, <1>4, <1>5, <2>1, OtherEvents
<1>6. ASSUME ev \in CallbackEvents
      PROVE  RoomFor(ev)'
  <2>1. excused'[ev] >= excused[ev] /\ accepted'[ev] = accepted[ev]
    BY <1>1, <1>6 DEF DataInv
  <2>2. claimed[ev] = [st |-> "in_flight", by |-> d] /\ claimed[ev].by = d /\ claimed[ev].st = "in_flight"
    BY <1>6 DEF DataInv, Copies
  <2>3. Free(ev) => ~Blocked(ev)
    BY DEF Free, Blocked
  <2>4. CASE Free(ev) /\ callback' = claimed /\ leased' = leased \cup {d} /\ delivery'[d].pc = "sending"
    <3>1. Blocked(ev)'
      <4>1. callback'[ev].st = "in_flight" /\ callback'[ev].by = d /\ d \in leased'
        BY <2>2, <2>4
      <4>2. delivery'[callback'[ev].by].event = ev /\ delivery'[callback'[ev].by].pc = "sending"
        BY <1>3, <2>4, <4>1
      <4> QED BY <1>3, <4>1, <4>2 DEF Blocked
    <3>2. Engaged(ev)' \subseteq Engaged(ev) \cup {d}
      BY <1>3 DEF Engaged
    <3> QED BY <1>4, <1>6, <2>1, <2>3, <2>4, <3>1, <3>2, Balance
  <2>5. CASE Free(ev) /\ callback' = claimed /\ delivery'[d].pc = "done"
    <3>1. Engaged(ev)' \subseteq Engaged(ev)
      BY <1>3, <2>5 DEF Engaged
    <3> QED BY <1>4, <1>6, <2>1, <2>3, <2>5, <3>1, Balance
  <2>6. CASE UNCHANGED <<callback, leased>> /\ delivery'[d].pc = "done"
    <3>1. Engaged(ev)' \subseteq Engaged(ev)
      BY <1>3, <2>6 DEF Engaged
    <3>2. Blocked(ev) => Blocked(ev)'
      BY <1>1, <1>3, <2>6 DEF Blocked, DataInv
    <3> QED BY <1>4, <1>6, <2>1, <3>1, <3>2, Balance
  <2> QED BY <1>3, <2>4, <2>5, <2>6
<1> QED BY <1>4, <1>5, <1>6

LEMMA LeaseExpiresRoom ==
  ASSUME CallbackInv, NEW d \in Deliveries, CallbackLeaseExpires(d)
  PROVE  CallbackInv'
<1> USE DEF CallbackInv
<1>1. /\ leased' = leased \ {d} /\ UNCHANGED <<callback, delivery, saving, accepted>>
      /\ IF delivery[d].pc = "done" THEN UNCHANGED excused ELSE Excuse({delivery[d].event})
  BY DEF CallbackLeaseExpires
<1>2. /\ excused' \in [CallbackEvents -> Nat]
      /\ \A e \in CallbackEvents : /\ excused'[e] >= excused[e]
                                   /\ delivery[d].pc # "done" /\ e = delivery[d].event
                                        => excused'[e] = excused[e] + 1
  BY <1>1, ExcuseType DEF DataInv
<1>3. DataInv'
  BY <1>1, <1>2 DEF DataInv
<1>4. ASSUME NEW e \in CallbackEvents
      PROVE  RoomFor(e)'
  <2>1. Engaged(e)' \subseteq Engaged(e) /\ accepted'[e] = accepted[e] /\ excused'[e] >= excused[e]
    BY <1>1, <1>2 DEF Engaged
  <2>2. (Blocked(e) => Blocked(e)') \/ excused'[e] = excused[e] + 1
    BY <1>1, <1>2 DEF Blocked
  <2> QED BY <1>3, <2>1, <2>2, Balance
<1> QED BY <1>3, <1>4

LEMMA SendRoom ==
  ASSUME CallbackInv, NEW d \in Deliveries, NEW ev, ev = delivery[d].event, SendCallback(d)
  PROVE  CallbackInv'
<1> USE DEF CallbackInv
<1>1. PICK pc \in {"sending", "recording"}, ok \in BOOLEAN :
        /\ delivery[d].pc = "sending" /\ UNCHANGED <<callback, leased, saving>>
        /\ delivery' = [delivery EXCEPT ![d].tries = @ + 1, ![d].pc = pc, ![d].ok = ok]
        /\ \/ /\ pc = "recording" /\ ok
              /\ accepted' = [accepted EXCEPT ![ev] = @ + 1] /\ UNCHANGED excused
           \/ ~ok /\ UNCHANGED <<accepted, excused>>
           \/ ~ok /\ accepted' = [accepted EXCEPT ![ev] = @ + 1] /\ Excuse({ev})
  BY DEF SendCallback
<1>2. /\ \A x \in Deliveries \ {d} : delivery'[x] = delivery[x]
      /\ delivery'[d].event = ev /\ delivery'[d].pc = pc /\ delivery'[d].ok = ok
  BY <1>1 DEF DataInv, DeliveryRecords
<1>3. /\ excused' \in [CallbackEvents -> Nat] /\ accepted' \in [CallbackEvents -> Nat]
      /\ \A e \in CallbackEvents : excused'[e] >= excused[e]
      /\ \A e \in CallbackEvents \ {ev} : accepted'[e] = accepted[e]
  BY <1>1, ExcuseType DEF DataInv
<1>4. DataInv'
  <2>1. delivery' \in [Deliveries -> DeliveryRecords]
    BY <1>1, DeliveryTypes DEF DeliverySteps
  <2> QED BY <1>1, <1>3, <2>1 DEF DataInv
<1>5. ASSUME NEW e \in CallbackEvents, e # ev
      PROVE  RoomFor(e)'
  BY <1>1, <1>2, <1>3, <1>4, <1>5, OtherEvents
<1>6. ASSUME ev \in CallbackEvents
      PROVE  RoomFor(ev)'
  <2>1. Blocked(ev) => Blocked(ev)'
    <3>1. \A x \in Deliveries : /\ delivery'[x].event = delivery[x].event
                                /\ delivery[x].pc \in {"sending", "recording"}
                                     => delivery'[x].pc \in {"sending", "recording"}
      BY <1>1, <1>2
    <3> QED BY <1>1, <3>1 DEF Blocked, DataInv
  <2>2. d \in Engaged(ev) /\ Engaged(ev)' \subseteq Engaged(ev) /\ (ok => Engaged(ev)' \subseteq Engaged(ev) \ {d} \/ pc = "sending")
    BY <1>1, <1>2 DEF Engaged
  <2>3. CASE pc = "recording" /\ ok /\ accepted' = [accepted EXCEPT ![ev] = @ + 1] /\ UNCHANGED excused
    <3>1. accepted'[ev] = accepted[ev] + 1 /\ Engaged(ev)' \subseteq Engaged(ev) \ {d}
      BY <1>6, <2>2, <2>3 DEF DataInv
    <3> QED BY <1>3, <1>4, <1>6, <2>1, <2>2, <3>1, Balance
  <2>4. CASE UNCHANGED <<accepted, excused>>
    BY <1>3, <1>4, <1>6, <2>1, <2>2, <2>4, Balance
  <2>5. CASE accepted' = [accepted EXCEPT ![ev] = @ + 1] /\ Excuse({ev})
    <3>1. accepted'[ev] = accepted[ev] + 1 /\ excused'[ev] = excused[ev] + 1
      BY <1>6, <2>5, ExcuseType DEF DataInv
    <3> QED BY <1>3, <1>4, <1>6, <2>1, <2>2, <3>1, Balance
  <2> QED BY <1>1, <2>3, <2>4, <2>5
<1> QED BY <1>4, <1>5, <1>6

LEMMA RecordRoom ==
  ASSUME CallbackInv, NEW d \in Deliveries, NEW ev, ev = delivery[d].event, RecordCallback(d)
  PROVE  CallbackInv'
<1> USE DEF CallbackInv
<1> DEFINE result == [st |-> IF delivery[d].ok THEN "success" ELSE "failed", by |-> d]
           mine == callback[ev].by \in {d, NoDelivery}
<1>1. /\ delivery[d].pc = "recording" /\ UNCHANGED <<leased, saving, accepted>>
      /\ delivery' = [delivery EXCEPT ![d].pc = "done"]
      /\ \/ mine /\ callback' = [callback EXCEPT ![ev] = result] /\ UNCHANGED excused
         \/ ~mine /\ UNCHANGED <<callback, excused>>
         \/ UNCHANGED callback /\ Excuse(IF delivery[d].ok THEN {ev} ELSE {})
  BY DEF RecordCallback
<1>2. /\ \A x \in Deliveries \ {d} : delivery'[x] = delivery[x]
      /\ delivery'[d].event = ev /\ delivery'[d].pc = "done" /\ delivery[d].ok \in BOOLEAN
  BY <1>1 DEF DataInv, DeliveryRecords
<1>3. /\ excused' \in [CallbackEvents -> Nat]
      /\ \A e \in CallbackEvents : excused'[e] >= excused[e] /\ accepted'[e] = accepted[e]
  BY <1>1, ExcuseType DEF DataInv
<1>4. DataInv'
  <2>1. callback' \in Copies
    BY <1>1 DEF DataInv, Copies, CallbackRecord
  <2>2. delivery' \in [Deliveries -> DeliveryRecords]
    BY <1>1, DeliveryTypes DEF DeliverySteps
  <2> QED BY <1>1, <1>3, <2>1, <2>2 DEF DataInv
<1>5. ASSUME NEW e \in CallbackEvents, e # ev
      PROVE  RoomFor(e)'
  <2>1. callback'[e] = callback[e]
    BY <1>1, <1>5 DEF DataInv, Copies
  <2> QED BY <1>1, <1>2, <1>3, <1>4, <1>5, <2>1, OtherEvents
<1>6. ASSUME ev \in CallbackEvents
      PROVE  RoomFor(ev)'
  <2>1. /\ Engaged(ev)' \subseteq Engaged(ev) \ {d}
        /\ ~delivery[d].ok => d \in Engaged(ev)
    BY <1>1, <1>2 DEF Engaged
  <2>2. CASE ~delivery[d].ok
    BY <1>3, <1>4, <1>6, <2>1, <2>2, Balance
  <2>3. CASE delivery[d].ok /\ callback' = [callback EXCEPT ![ev] = result]
    <3>1. callback'[ev].st = "success"
      BY <1>6, <2>3 DEF DataInv, Copies
    <3>2. Blocked(ev)'
      BY <3>1 DEF Blocked
    <3> QED BY <1>3, <1>4, <1>6, <2>1, <3>2, Balance
  <2>4. CASE ~mine /\ UNCHANGED <<callback, excused>>
    <3>1. Blocked(ev) => Blocked(ev)'
      BY <1>1, <1>2, <2>4 DEF Blocked, DataInv
    <3> QED BY <1>3, <1>4, <1>6, <2>1, <3>1, Balance
  <2>5. CASE delivery[d].ok /\ Excuse({ev})
    <3>1. excused'[ev] = excused[ev] + 1
      BY <1>6, <2>5, ExcuseType
    <3> QED BY <1>3, <1>4, <1>6, <2>1, <3>1, Balance
  <2> QED BY <1>1, <1>2, <2>2, <2>3, <2>4, <2>5
<1> QED BY <1>4, <1>5, <1>6

\* A step that touches neither records nor deliveries nor counts.
LEMMA QuietRoom ==
  ASSUME CallbackInv, DataInv', UNCHANGED <<callback, leased, delivery, accepted, excused>>
  PROVE  CallbackInv'
<1> SUFFICES ASSUME NEW e \in CallbackEvents
             PROVE  RoomFor(e)'
  BY DEF CallbackInv
<1> QED BY DEF CallbackInv, RoomFor, Engaged, Blocked

LEMMA MergeTypes ==
  ASSUME NEW a \in Copies, NEW b \in Copies
  PROVE  /\ MergeRead(a, b) \in Copies /\ MergeStored(a, b) \in Copies
         /\ \A e \in CallbackEvents : a[e].st # "none" => MergeStored(a, b)[e] = a[e]
BY DEF Copies, MergeRead, MergeStored

LEMMA CopiesRoom ==
  ASSUME CallbackInv, NEW p \in CallbackProcs, TakeJob(p) \/ MergeJob(p)
  PROVE  CallbackInv'
<1>1. DataInv
  BY DEF CallbackInv
<1>2. NoCopy \in Copies
  BY DEF NoCopy, NoRecord, Copies, CallbackRecord
<1>3. /\ UNCHANGED <<callback, leased, delivery, accepted, excused>>
      /\ \/ saving' = [saving EXCEPT ![p] = [NoSave EXCEPT !.pc = "changing", !.own = callback]]
         \/ saving' = [saving EXCEPT ![p].pc = "writing", ![p].next = MergeRead(callback, saving[p].own)]
  BY DEF TakeJob, MergeJob
<1>4. saving' \in [CallbackProcs -> [pc : {"none", "changing", "writing", "saved"}, own : Copies, next : Copies]]
  <2>1. CASE saving' = [saving EXCEPT ![p] = [NoSave EXCEPT !.pc = "changing", !.own = callback]]
    BY <1>1, <1>2, <2>1 DEF DataInv, NoSave
  <2>2. CASE saving' = [saving EXCEPT ![p].pc = "writing", ![p].next = MergeRead(callback, saving[p].own)]
    <3>1. MergeRead(callback, saving[p].own) \in Copies
      BY <1>1, MergeTypes DEF DataInv
    <3>2. ASSUME NEW next \in Copies
          PROVE  [saving EXCEPT ![p].pc = "writing", ![p].next = next]
                   \in [CallbackProcs -> [pc : {"none", "changing", "writing", "saved"}, own : Copies, next : Copies]]
      BY <1>1 DEF DataInv
    <3> QED BY <2>2, <3>1, <3>2
  <2> QED BY <1>3, <2>1, <2>2
<1>5. DataInv'
  BY <1>1, <1>3, <1>4 DEF DataInv
<1> QED BY <1>3, <1>5, QuietRoom

\* A save with a claim adds records where there were none; one without is excused.
LEMMA SaveRoom ==
  ASSUME CallbackInv, NEW p \in CallbackProcs, SaveJob(p)
  PROVE  CallbackInv'
<1> DEFINE kept == MergeStored(callback, saving[p].next)
           next == IF p \in CallbackWorkers THEN kept ELSE saving[p].next
           lost == {e \in CallbackEvents : next[e] # callback[e]}
<1>1. DataInv
  BY DEF CallbackInv
<1>2. /\ saving' = [saving EXCEPT ![p] = [NoSave EXCEPT !.pc = "saved"]] /\ callback' = next
      /\ Excuse(IF p \in CallbackWebs THEN lost ELSE {})
      /\ UNCHANGED <<leased, delivery, accepted>>
  BY DEF SaveJob
<1>3. /\ saving[p].next \in Copies /\ callback \in Copies /\ kept \in Copies
      /\ \A e \in CallbackEvents : callback[e].st # "none" => kept[e] = callback[e]
  <2>1. saving[p].next \in Copies /\ callback \in Copies
    BY <1>1 DEF DataInv
  <2> QED BY <2>1, MergeTypes
<1>4. DataInv'
  <2>1. NoCopy \in Copies
    BY DEF NoCopy, NoRecord, Copies, CallbackRecord
  <2>2. saving' \in [CallbackProcs -> [pc : {"none", "changing", "writing", "saved"}, own : Copies, next : Copies]]
    BY <1>1, <1>2, <2>1 DEF DataInv, NoSave
  <2>3. callback' \in Copies
    BY <1>2, <1>3
  <2>4. excused' \in [CallbackEvents -> Nat]
    BY <1>1, <1>2, ExcuseType
  <2> QED BY <1>1, <1>2, <2>2, <2>3, <2>4 DEF DataInv
<1>5. ASSUME NEW e \in CallbackEvents
      PROVE  RoomFor(e)'
  <2>1. /\ Engaged(e)' \subseteq Engaged(e) /\ accepted'[e] = accepted[e]
        /\ RoomFor(e)
    BY <1>2 DEF Engaged, CallbackInv
  <2>2. /\ excused'[e] >= excused[e]
        /\ p \in CallbackWebs /\ e \in lost => excused'[e] = excused[e] + 1
    BY <1>1, <1>2, ExcuseType DEF DataInv
  <2>3. (Blocked(e) => Blocked(e)') \/ excused'[e] = excused[e] + 1
    <3>1. CASE callback'[e] = callback[e]
      BY <1>2, <3>1 DEF Blocked
    <3>2. CASE callback'[e] # callback[e] /\ p \in CallbackWorkers
      <4>1. callback[e].st = "none"
        BY <1>2, <1>3, <3>2
      <4> QED BY <4>1 DEF Blocked
    <3>3. CASE callback'[e] # callback[e] /\ p \in CallbackWebs
      BY <1>2, <2>2, <3>3
    <3> QED BY <3>1, <3>2, <3>3 DEF CallbackProcs
  <2> QED BY <1>1, <1>4, <2>1, <2>2, <2>3, Balance
<1> QED BY <1>4, <1>5 DEF CallbackInv

\* Who goes on after a crash is not engaged; what was accepted and not recorded is excused.
LEMMA CrashRoom ==
  ASSUME CallbackInv, NEW p \in CallbackProcs, CallbackCrash(p)
  PROVE  CallbackInv'
<1> DEFINE gone == {d \in Deliveries : delivery[d].proc = p /\ delivery[d].pc \notin {"idle", "done"}}
           unrecorded == {delivery[d].event : d \in {x \in gone : delivery[x].ok}}
<1>1. DataInv
  BY DEF CallbackInv
<1>2. /\ delivery' = [d \in Deliveries |-> IF d \in gone THEN [delivery[d] EXCEPT !.pc = "done"] ELSE delivery[d]]
      /\ saving' = [saving EXCEPT ![p] = [NoSave EXCEPT !.pc = "saved"]]
      /\ Excuse(unrecorded) /\ UNCHANGED <<callback, leased, accepted>>
  BY DEF CallbackCrash
<1>3. DataInv'
  <2>1. NoCopy \in Copies
    BY DEF NoCopy, NoRecord, Copies, CallbackRecord
  <2>2. saving' \in [CallbackProcs -> [pc : {"none", "changing", "writing", "saved"}, own : Copies, next : Copies]]
    BY <1>1, <1>2, <2>1 DEF DataInv, NoSave
  <2>3. excused' \in [CallbackEvents -> Nat]
    BY <1>1, <1>2, ExcuseType
  <2>4. \A d \in Deliveries : delivery[d] \in DeliveryRecords /\ [delivery[d] EXCEPT !.pc = "done"] \in DeliveryRecords
    BY <1>1, ZenonT(30) DEF DataInv, DeliveryRecords, DeliverySteps
  <2>5. delivery' \in [Deliveries -> DeliveryRecords]
    BY <1>2, <2>4
  <2> QED BY <1>1, <1>2, <2>2, <2>3, <2>5 DEF DataInv
<1>4. ASSUME NEW e \in CallbackEvents
      PROVE  RoomFor(e)'
  <2>1. \A d \in Deliveries : /\ delivery'[d].event = delivery[d].event /\ delivery'[d].ok = delivery[d].ok
                               /\ \/ delivery'[d].pc = delivery[d].pc /\ d \notin gone
                                  \/ delivery'[d].pc = "done" /\ d \in gone
    BY <1>1, <1>2 DEF DataInv, DeliveryRecords
  <2>2. /\ Engaged(e)' \subseteq Engaged(e) /\ accepted'[e] = accepted[e] /\ RoomFor(e)
    BY <1>2, <2>1 DEF Engaged, CallbackInv
  <2>3. /\ excused'[e] >= excused[e]
        /\ e \in unrecorded => excused'[e] = excused[e] + 1
    BY <1>1, <1>2, ExcuseType DEF DataInv
  <2>4. CASE (Blocked(e) => Blocked(e)') \/ e \in unrecorded
    BY <1>1, <1>3, <2>2, <2>3, <2>4, Balance
  <2>5. CASE Blocked(e) /\ ~Blocked(e)' /\ e \notin unrecorded
    <3>1. /\ callback[e].by \in Deliveries /\ delivery[callback[e].by].event = e
          /\ callback[e].by \in gone /\ delivery[callback[e].by].pc \in {"sending", "recording"}
      BY <1>1, <1>2, <2>1, <2>5 DEF Blocked, DataInv
    <3>2. ~delivery[callback[e].by].ok
      BY <2>5, <3>1
    <3>3. callback[e].by \in Engaged(e)
      BY <3>1, <3>2 DEF Engaged
    <3>4. Engaged(e)' \subseteq Engaged(e) \ {callback[e].by}
      BY <2>1, <2>2, <3>1 DEF Engaged
    <3> QED BY <1>1, <1>3, <2>2, <2>3, <3>3, <3>4, Balance
  <2> QED BY <2>4, <2>5
<1> QED BY <1>3, <1>4 DEF CallbackInv

LEMMA NextRoom == CallbackInv /\ [CallbackNext]_callbackVars => CallbackInv'
<1> SUFFICES ASSUME CallbackInv, [CallbackNext]_callbackVars
             PROVE  CallbackInv'
  OBVIOUS
<1>1. CASE Settle
  <2>1. UNCHANGED <<callback, leased, delivery, saving, accepted, excused>>
    BY <1>1 DEF Settle
  <2> QED BY <2>1, QuietRoom DEF CallbackInv, DataInv
<1>2. ASSUME NEW d \in Deliveries, NEW p \in CallbackProcs, NEW e \in CallbackEvents, Trigger(d, p, e)
      PROVE  CallbackInv'
  BY <1>2, TriggerRoom
<1>3. ASSUME NEW d \in Deliveries,
             ClaimCallback(d) \/ CallbackLeaseExpires(d) \/ SendCallback(d) \/ RecordCallback(d)
      PROVE  CallbackInv'
  <2>1. PICK ev : ev = delivery[d].event
    OBVIOUS
  <2> QED BY <1>3, <2>1, ClaimRoom, LeaseExpiresRoom, SendRoom, RecordRoom
<1>4. ASSUME NEW p \in CallbackProcs, TakeJob(p) \/ MergeJob(p) \/ SaveJob(p) \/ CallbackCrash(p)
      PROVE  CallbackInv'
  BY <1>4, CopiesRoom, SaveRoom, CrashRoom
<1>5. CASE UNCHANGED callbackVars
  <2>1. UNCHANGED <<callback, leased, delivery, saving, accepted, excused>>
    BY <1>5 DEF callbackVars
  <2> QED BY <2>1, QuietRoom DEF CallbackInv, DataInv
<1> QED BY <1>1, <1>2, <1>3, <1>4, <1>5 DEF CallbackNext

\* The receiver of a callback accepts an event once, and once more only for each time that
\* its acceptance could not be recorded (claimCallbackDelivery, updateCallbackStatus and
\* the saves of the job).
THEOREM EventsAcceptedOnce == CallbackSpec => []CallbackOnce
<1>1. CallbackInv => CallbackOnce
  <2> SUFFICES ASSUME CallbackInv, NEW e \in CallbackEvents
               PROVE  accepted[e] <= 1 + excused[e]
    BY DEF CallbackOnce
  <2>1. accepted[e] \in Nat /\ excused[e] \in Nat
    BY DEF CallbackInv, DataInv
  <2>2. PICK n \in Nat : n = Cardinality(Engaged(e))
    BY FS_CardinalityType DEF CallbackInv, RoomFor
  <2>3. accepted[e] + n + (IF Blocked(e) THEN 0 ELSE 1) <= 1 + excused[e]
    BY <2>2 DEF CallbackInv, RoomFor
  <2> QED BY <2>1, <2>2, <2>3
<1> QED BY <1>1, InitialRoom, NextRoom, PTL DEF CallbackSpec

-----------------------------------------------------------------------------
(* The chains of the processes: a claimed delivery waits in the chain of    *)
(* its process until it has been recorded, and the first one of it sends.   *)

StandsIn(d, line) == \E i \in 1..Len(line) : line[i] = d

InLine(d) ==
  /\ delivery[d].pc \in {"claiming", "sending", "recording"} => delivery[d].proc \in CallbackProcs
  /\ delivery[d].pc \in {"sending", "recording"} => StandsIn(d, chain[delivery[d].proc])
  /\ delivery[d].pc = "recording" => Head(chain[delivery[d].proc]) = d

LineInv ==
  /\ terminal \in BOOLEAN /\ chain \in [CallbackProcs -> Seq(Deliveries)]
  /\ \A d \in Deliveries : InLine(d)

LEMMA AppendedLine ==
  ASSUME NEW line \in Seq(Deliveries), NEW d \in Deliveries
  PROVE  /\ Append(line, d) \in Seq(Deliveries) /\ StandsIn(d, Append(line, d))
         /\ \A x : StandsIn(x, line) => /\ StandsIn(x, Append(line, d))
                                        /\ Head(Append(line, d)) = Head(line)
<1>1. /\ Append(line, d) \in Seq(Deliveries) /\ Len(Append(line, d)) = Len(line) + 1 /\ Len(line) \in Nat
      /\ Append(line, d)[Len(line) + 1] = d
      /\ \A i \in 1..Len(line) : Append(line, d)[i] = line[i]
  OBVIOUS
<1>2. StandsIn(d, Append(line, d))
  BY <1>1 DEF StandsIn
<1>3. ASSUME NEW x, StandsIn(x, line)
      PROVE  StandsIn(x, Append(line, d)) /\ Head(Append(line, d)) = Head(line)
  <2>1. PICK i \in 1..Len(line) : line[i] = x
    BY <1>3 DEF StandsIn
  <2>2. i \in 1..(Len(line) + 1) /\ 1 \in 1..Len(line)
    BY <1>1
  <2> QED BY <1>1, <2>1, <2>2 DEF StandsIn
<1> QED BY <1>1, <1>2, <1>3

LEMMA ShortenedLine ==
  ASSUME NEW line \in Seq(Deliveries), NEW d, StandsIn(d, line)
  PROVE  /\ Tail(line) \in Seq(Deliveries)
         /\ \A x : StandsIn(x, line) /\ x # Head(line) => StandsIn(x, Tail(line))
<1>1. line # <<>> /\ Len(line) \in Nat
  BY DEF StandsIn
<1>2. /\ Tail(line) \in Seq(Deliveries) /\ Len(Tail(line)) = Len(line) - 1 /\ Head(line) = line[1]
      /\ \A i \in 1..(Len(line) - 1) : Tail(line)[i] = line[i + 1]
  BY <1>1
<1>3. ASSUME NEW x, StandsIn(x, line), x # Head(line)
      PROVE  StandsIn(x, Tail(line))
  <2>1. PICK i \in 1..Len(line) : line[i] = x
    BY <1>3 DEF StandsIn
  <2>2. i # 1
    BY <1>2, <1>3, <2>1
  <2>3. i - 1 \in 1..(Len(line) - 1) /\ (i - 1) + 1 = i
    BY <1>1, <2>1, <2>2
  <2> QED BY <1>2, <2>1, <2>3 DEF StandsIn
<1> QED BY <1>2, <1>3

\* Steps that leave the chains and the deliveries.
LEMMA SameLines ==
  ASSUME LineInv, UNCHANGED <<chain, delivery>>, terminal' \in BOOLEAN
  PROVE  LineInv'
BY DEF LineInv, InLine

\* The chains stay, and one delivery goes on as it may.
LEMMA LineStays ==
  ASSUME LineInv, NEW d \in Deliveries, UNCHANGED <<chain, terminal>>,
         \A x \in Deliveries \ {d} : delivery'[x] = delivery[x],
         \/ delivery'[d].pc \in {"idle", "done"}
         \/ delivery'[d].pc = "claiming" /\ delivery'[d].proc \in CallbackProcs
         \/ /\ delivery[d].pc = "sending" /\ delivery'[d].proc = delivery[d].proc
            /\ Head(chain[delivery[d].proc]) = d
  PROVE  LineInv'
<1>1. ASSUME NEW x \in Deliveries PROVE InLine(x)'
  <2>1. InLine(x) /\ InLine(d)
    BY DEF LineInv
  <2>2. CASE x # d
    BY <2>1, <2>2 DEF InLine
  <2>3. CASE x = d
    BY <2>1, <2>3 DEF InLine
  <2> QED BY <2>2, <2>3
<1> QED BY <1>1 DEF LineInv

LEMMA ClaimedLine ==
  ASSUME DataInv, LineInv, NEW d \in Deliveries, ClaimCallback(d)
  PROVE  LineInv'
<1>1. /\ delivery[d].pc = "claiming" /\ UNCHANGED terminal
      /\ \/ /\ delivery' = [delivery EXCEPT ![d].pc = "sending"]
            /\ chain' = [chain EXCEPT ![delivery[d].proc] = Append(@, d)]
         \/ delivery' = [delivery EXCEPT ![d].pc = "done"] /\ UNCHANGED chain
  BY DEF ClaimCallback
<1>2. delivery \in [Deliveries -> DeliveryRecords] /\ delivery[d] \in DeliveryRecords
  BY DEF DataInv
<1>3. CASE delivery' = [delivery EXCEPT ![d].pc = "done"] /\ UNCHANGED chain
  <2>1. delivery'[d].pc = "done" /\ \A x \in Deliveries \ {d} : delivery'[x] = delivery[x]
    BY <1>2, <1>3 DEF DeliveryRecords
  <2> QED BY <1>1, <1>3, <2>1, LineStays
<1>4. CASE /\ delivery' = [delivery EXCEPT ![d].pc = "sending"]
           /\ chain' = [chain EXCEPT ![delivery[d].proc] = Append(@, d)]
  <2>1. PICK p \in CallbackProcs : p = delivery[d].proc
    BY <1>1 DEF LineInv, InLine
  <2>2. PICK line \in Seq(Deliveries) : line = chain[p]
    BY <2>1 DEF LineInv
  <2>3. /\ Append(line, d) \in Seq(Deliveries) /\ StandsIn(d, Append(line, d))
        /\ \A x : StandsIn(x, line) => /\ StandsIn(x, Append(line, d))
                                       /\ Head(Append(line, d)) = Head(line)
    BY <2>2, AppendedLine
  <2>4. /\ chain' \in [CallbackProcs -> Seq(Deliveries)] /\ chain'[p] = Append(line, d)
        /\ \A q \in CallbackProcs : q # p => chain'[q] = chain[q]
    BY <1>4, <2>1, <2>2, <2>3 DEF LineInv
  <2>5. /\ delivery'[d].pc = "sending" /\ delivery'[d].proc = p
        /\ \A x \in Deliveries \ {d} : delivery'[x] = delivery[x]
    BY <1>2, <1>4, <2>1 DEF DeliveryRecords
  <2>6. ASSUME NEW x \in Deliveries PROVE InLine(x)'
    <3>1. InLine(x)
      BY DEF LineInv
    <3>2. CASE x = d
      BY <2>3, <2>4, <2>5, <3>2 DEF InLine
    <3>3. CASE x # d /\ delivery[x].proc = p
      BY <2>2, <2>3, <2>4, <2>5, <3>1, <3>3 DEF InLine
    <3>4. CASE x # d /\ delivery[x].proc # p
      BY <2>4, <2>5, <3>1, <3>4 DEF InLine
    <3> QED BY <3>2, <3>3, <3>4
  <2> QED BY <1>1, <2>4, <2>6 DEF LineInv
<1> QED BY <1>1, <1>3, <1>4

LEMMA RecordedLine ==
  ASSUME DataInv, LineInv, NEW d \in Deliveries, RecordCallback(d)
  PROVE  LineInv'
<1>1. /\ delivery[d].pc = "recording" /\ UNCHANGED terminal
      /\ delivery' = [delivery EXCEPT ![d].pc = "done"]
      /\ chain' = [chain EXCEPT ![delivery[d].proc] = Tail(@)]
  BY DEF RecordCallback
<1>2. PICK p \in CallbackProcs : p = delivery[d].proc
  BY <1>1 DEF LineInv, InLine
<1>3. PICK line \in Seq(Deliveries) : line = chain[p]
  BY <1>2 DEF LineInv
<1>4. StandsIn(d, line) /\ Head(line) = d
  BY <1>1, <1>2, <1>3 DEF LineInv, InLine
<1>5. /\ Tail(line) \in Seq(Deliveries)
      /\ \A x : StandsIn(x, line) /\ x # d => StandsIn(x, Tail(line))
  BY <1>4, ShortenedLine
<1>6. /\ chain' \in [CallbackProcs -> Seq(Deliveries)] /\ chain'[p] = Tail(line)
      /\ \A q \in CallbackProcs : q # p => chain'[q] = chain[q]
  BY <1>1, <1>2, <1>3, <1>5 DEF LineInv
<1>7. delivery'[d].pc = "done" /\ \A x \in Deliveries \ {d} : delivery'[x] = delivery[x]
  BY <1>1 DEF DataInv, DeliveryRecords
<1>8. ASSUME NEW x \in Deliveries PROVE InLine(x)'
  <2>1. InLine(x)
    BY DEF LineInv
  <2>2. CASE x = d
    BY <1>7, <2>2 DEF InLine
  <2>3. CASE x # d /\ delivery[x].proc = p
    BY <1>3, <1>4, <1>5, <1>6, <1>7, <2>1, <2>3 DEF InLine
  <2>4. CASE x # d /\ delivery[x].proc # p
    BY <1>6, <1>7, <2>1, <2>4 DEF InLine
  <2> QED BY <2>2, <2>3, <2>4
<1> QED BY <1>1, <1>6, <1>8 DEF LineInv

LEMMA CrashedLine ==
  ASSUME DataInv, LineInv, NEW p \in CallbackProcs, CallbackCrash(p)
  PROVE  LineInv'
<1> DEFINE gone == {d \in Deliveries : delivery[d].proc = p /\ delivery[d].pc \notin {"idle", "done"}}
<1>1. /\ delivery' = [d \in Deliveries |-> IF d \in gone THEN [delivery[d] EXCEPT !.pc = "done"] ELSE delivery[d]]
      /\ chain' = [chain EXCEPT ![p] = <<>>] /\ UNCHANGED terminal
  BY DEF CallbackCrash
<1>2. /\ chain' \in [CallbackProcs -> Seq(Deliveries)]
      /\ \A q \in CallbackProcs : q # p => chain'[q] = chain[q]
  BY <1>1 DEF LineInv
<1>3. ASSUME NEW x \in Deliveries PROVE InLine(x)'
  <2>1. InLine(x) /\ delivery[x] \in DeliveryRecords
    BY DEF LineInv, DataInv
  <2>2. CASE x \in gone
    <3>1. delivery'[x].pc = "done"
      BY <1>1, <2>1, <2>2 DEF DeliveryRecords
    <3> QED BY <3>1 DEF InLine
  <2>3. CASE x \notin gone
    <3>1. delivery'[x] = delivery[x] /\ (delivery[x].proc # p \/ delivery[x].pc \in {"idle", "done"})
      BY <1>1, <2>3
    <3> QED BY <1>2, <2>1, <3>1 DEF InLine
  <2> QED BY <2>2, <2>3
<1> QED BY <1>1, <1>2, <1>3 DEF LineInv

LEMMA NextLine == DataInv /\ LineInv /\ [CallbackNext]_callbackVars => LineInv'
<1> SUFFICES ASSUME DataInv, LineInv, [CallbackNext]_callbackVars PROVE LineInv'
  OBVIOUS
<1>1. CASE Settle \/ UNCHANGED callbackVars
  <2>1. UNCHANGED <<chain, delivery>> /\ (terminal' = TRUE \/ terminal' = terminal)
    BY <1>1 DEF Settle, callbackVars
  <2> QED BY <2>1, SameLines DEF LineInv
<1>2. ASSUME NEW d \in Deliveries, NEW p \in CallbackProcs, NEW e \in CallbackEvents, Trigger(d, p, e)
      PROVE  LineInv'
  <2>1. PICK pc \in {"claiming", "done"} :
          delivery' = [delivery EXCEPT ![d] = [IdleDelivery EXCEPT !.event = e, !.proc = p, !.pc = pc]]
    BY <1>2 DEF Trigger
  <2>2. /\ delivery'[d].pc \in {"claiming", "done"} /\ delivery'[d].proc = p
        /\ \A x \in Deliveries \ {d} : delivery'[x] = delivery[x]
    BY <2>1 DEF DataInv, IdleDelivery
  <2>3. UNCHANGED <<chain, terminal>>
    BY <1>2 DEF Trigger
  <2> QED BY <2>2, <2>3, LineStays
<1>3. ASSUME NEW d \in Deliveries, CallbackLeaseExpires(d) PROVE LineInv'
  <2>1. UNCHANGED <<chain, delivery, terminal>>
    BY <1>3 DEF CallbackLeaseExpires
  <2> QED BY <2>1, SameLines DEF LineInv
<1>4. ASSUME NEW d \in Deliveries, SendCallback(d) PROVE LineInv'
  <2>1. PICK pc \in {"sending", "recording"}, ok \in BOOLEAN :
          delivery' = [delivery EXCEPT ![d].tries = @ + 1, ![d].pc = pc, ![d].ok = ok]
    BY <1>4 DEF SendCallback
  <2>2. /\ delivery[d].pc = "sending" /\ Head(chain[delivery[d].proc]) = d /\ UNCHANGED <<chain, terminal>>
    BY <1>4 DEF SendCallback
  <2>3. delivery'[d].proc = delivery[d].proc /\ \A x \in Deliveries \ {d} : delivery'[x] = delivery[x]
    BY <2>1 DEF DataInv, DeliveryRecords
  <2> QED BY <2>2, <2>3, LineStays
<1>5. ASSUME NEW p \in CallbackProcs, TakeJob(p) \/ MergeJob(p) \/ SaveJob(p) PROVE LineInv'
  <2>1. UNCHANGED <<chain, delivery, terminal>>
    BY <1>5 DEF TakeJob, MergeJob, SaveJob
  <2> QED BY <2>1, SameLines DEF LineInv
<1> QED BY <1>1, <1>2, <1>3, <1>4, <1>5, ClaimedLine, RecordedLine, CrashedLine DEF CallbackNext

\* The records, the leases, the chains and the counts are of their types: a delivery that
\* records finds its chain with itself in front (the promise chain of callbackChains).
THEOREM CallbackTypeCorrect == CallbackSpec => []CallbackTypeOK
<1>1. CallbackInit => LineInv
  <2> SUFFICES ASSUME CallbackInit PROVE LineInv
    OBVIOUS
  <2>1. terminal = FALSE /\ chain \in [CallbackProcs -> Seq(Deliveries)]
    BY DEF CallbackInit
  <2>2. \A d \in Deliveries : delivery[d].pc = "idle"
    BY DEF CallbackInit, IdleDelivery
  <2> QED BY <2>1, <2>2 DEF LineInv, InLine
<1>2. CallbackInv /\ LineInv /\ [CallbackNext]_callbackVars => LineInv'
  BY NextLine DEF CallbackInv
<1>3. CallbackInv /\ LineInv => CallbackTypeOK
  BY DEF CallbackInv, DataInv, Copies, LineInv, CallbackTypeOK
<1> QED BY <1>1, <1>2, <1>3, InitialRoom, NextRoom, PTL DEF CallbackSpec
==============================================================================
