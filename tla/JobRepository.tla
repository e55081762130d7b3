---------------------------- MODULE JobRepository ----------------------------
(***************************************************************************)
(* The durable document of one asynchronous TradingView job and the        *)
(* operations of src/services/jobs/JobRepository.js on it, for the         *)
(* render-worker mode (Firestore is enabled, every write is a              *)
(* transaction).  A module that EXTENDS this one supplies the processes.   *)
(*                                                                         *)
(* The clock is abstracted: a lease is live or not, and Expire may happen  *)
(* at any moment that the module which uses it allows.                     *)
(* memoryJobs is not a variable of its own.  It is consulted for a         *)
(* terminal status only when saveVersions has no entry, and then it holds  *)
(* what a transaction of this process read from or wrote to the document.  *)
(***************************************************************************)
EXTENDS Naturals, FiniteSets

CONSTANTS
    Workers,     \* worker processes (worker.js)
    Web,         \* the web process that creates, reads and cancels the job
    Ids,         \* worker identifiers
    IdOf,        \* RENDER_INSTANCE_ID || RENDER_SERVICE_ID || worker-<pid>
    Nobody,      \* execution.workerId = null
    FaultKinds,  \* the faults that happen: see Faulty
    MaxFaults,   \* bound: how many of them
    MaxClaims    \* bound: how often the job is claimed

ASSUME RepositoryAssumption ==
    /\ Web \notin Workers
    /\ IdOf \in [Workers -> Ids]
    /\ Nobody \notin Ids \cup Workers
    /\ FaultKinds \subseteq {"storage", "crash", "lock", "redis", "callback", "outage"}
    /\ MaxFaults \in Nat /\ MaxClaims \in Nat

VARIABLES
    doc,            \* the document tradingviewJobs/<jobId>
    leaseLive,      \* doc.execution.leaseUntil > now
    localTerminal,  \* per process: the terminal job in saveVersions, if any
    faults          \* how many faults have happened so far

Procs == Workers \cup {Web}

TerminalStatuses == {"completed", "failed", "cancelled", "timed_out"}
ClaimStatuses    == {"claimed", "running"}
ExecStatuses     == {"queued", "processing"} \cup ClaimStatuses \cup TerminalStatuses
Checkpoints      == {"none", "in_flight", "completed"}

\* A job object: what a process reads, changes in memory and writes back.
Job == [status  : {"processing"} \cup TerminalStatuses,
        exec    : ExecStatuses,
        worker  : Ids \cup {Nobody},
        attempt : Nat,
        ckpt    : Checkpoints]

Absent == [status |-> "absent", exec |-> "queued", worker |-> Nobody,
           attempt |-> 0, ckpt |-> "none"]

FreshJob == [status |-> "processing", exec |-> "queued", worker |-> Nobody,
             attempt |-> 0, ckpt |-> "none"]

Terminal(j) == j.status \in TerminalStatuses

RepositoryTypeOK ==
    /\ doc \in Job \cup {Absent}
    /\ leaseLive \in BOOLEAN
    /\ localTerminal \in [Procs -> {j \in Job : Terminal(j)} \cup {Absent}]
    /\ faults \in 0..MaxFaults

RepositoryInit ==
    /\ doc = Absent
    /\ leaseLive = FALSE
    /\ localTerminal = [p \in Procs |-> Absent]
    /\ faults = 0

-----------------------------------------------------------------------------
\* A fault of the environment: Firestore fails, a process dies, a queue lock runs
\* out, Redis fails, a callback cannot be recorded.
Faulty(kind) == kind \in FaultKinds /\ faults < MaxFaults /\ faults' = faults + 1

\* The same, or one call of an outage that makes every call of a request fail and
\* does not count.
OutOrFaulty(kind) == Faulty(kind) \/ ("outage" \in FaultKinds /\ UNCHANGED faults)

\* get: a terminal job this process once tried to save hides the document.
View(p) == IF Terminal(localTerminal[p]) THEN localTerminal[p] ELSE doc

\* transaction.set(docRef, job): the whole document is replaced.  Every write of
\* a claimed or running job carries a fresh lease; nobody asks for the lease of a
\* terminal one.
Put(j) == doc' = j /\ leaseLive' = (j.exec \in ClaimStatuses /\ ~Terminal(j))

\* saveVersions.set happens before the write, and survives its failure.
Remember(p, j) ==
    localTerminal' = IF Terminal(j) THEN [localTerminal EXCEPT ![p] = j]
                                    ELSE localTerminal

\* Mutant: the fences without the terminal status.
FencedIfOpen(j) ==
    /\ doc.status # "absent"
    /\ \/ doc.exec \in ClaimStatuses /\ doc.worker # Nobody
          /\ j.worker = Nobody /\ ~Terminal(j)
       \/ j.worker # Nobody /\ (doc.worker # j.worker \/ doc.attempt # j.attempt)

\* The conditions under which the save transaction returns false.  They are
\* examined only when the document exists.
Fenced(j) ==
    /\ doc.status # "absent"
    /\ \/ doc.exec \in ClaimStatuses /\ doc.worker # Nobody
          /\ j.worker = Nobody /\ ~Terminal(j)
       \/ j.worker # Nobody /\ doc.worker # j.worker
       \/ j.worker # Nobody /\ doc.attempt # j.attempt
       \/ Terminal(doc) /\ doc.status # j.status

\* save returns false before it writes anything.
Blocked(p, j) == Terminal(localTerminal[p]) /\ localTerminal[p].status # j.status

SaveOk(p, j) ==
    /\ ~Blocked(p, j) /\ ~Fenced(j)
    /\ Put(j) /\ Remember(p, j)
    /\ UNCHANGED faults

SaveRefused(p, j) ==
    /\ \/ Blocked(p, j) /\ UNCHANGED localTerminal
       \/ ~Blocked(p, j) /\ Fenced(j) /\ Remember(p, j)
    /\ UNCHANGED <<doc, leaseLive, faults>>

\* required: true and the transaction fails.  A commit whose acknowledgement
\* is lost has been applied.
SaveFails(p, j) ==
    /\ ~Blocked(p, j)
    /\ Faulty("storage") /\ Remember(p, j)
    /\ \/ UNCHANGED <<doc, leaseLive>>
       \/ ~Fenced(j) /\ Put(j)

-----------------------------------------------------------------------------
(* _persistJob of JobService: get, refuse when the job it read is terminal  *)
(* with another status, else refresh the lease and save.                    *)

Overruled(p, j) == Terminal(View(p)) /\ View(p).status # j.status

PersistOk(p, j)    == ~Overruled(p, j) /\ SaveOk(p, j)
PersistFails(p, j) == ~Overruled(p, j) /\ SaveFails(p, j)
PersistRefused(p, j) ==
    \/ Overruled(p, j) /\ UNCHANGED <<doc, leaseLive, localTerminal, faults>>
    \/ ~Overruled(p, j) /\ SaveRefused(p, j)

-----------------------------------------------------------------------------
\* Mutants: a claim that ignores the lease; a claim that starts a new job object.
ClaimableAnyLease == /\ doc.status # "absent" /\ ~Terminal(doc)
                     /\ doc.attempt < MaxClaims

ClaimedAfresh(w) == [FreshJob EXCEPT !.exec = "claimed", !.worker = IdOf[w],
                                     !.attempt = doc.attempt + 1]

Claimable == /\ doc.status # "absent" /\ ~Terminal(doc)
             /\ ~(doc.exec \in ClaimStatuses /\ leaseLive)
             /\ doc.attempt < MaxClaims

ClaimedBy(w) == [doc EXCEPT !.exec = "claimed", !.worker = IdOf[w],
                            !.attempt = doc.attempt + 1]

\* renewClaim: FALSE, or TRUE after the lease was extended when it may be.
Renewable(w, attempt) ==
    /\ doc.status # "absent"
    /\ doc.worker = IdOf[w] /\ doc.attempt = attempt
    /\ Terminal(doc) \/ doc.exec \in ClaimStatuses

Renew == leaseLive' = (leaseLive \/ ~Terminal(doc)) /\ UNCHANGED doc

\* Mutant: ownership without the attempt.
OwnsAnyAttempt(w, attempt) ==
    doc.status # "absent" /\ ~Terminal(doc) /\ doc.worker = IdOf[w]

\* _updateClaim, shared by releaseClaim and failClaim.
OwnsClaim(w, attempt) ==
    /\ doc.status # "absent" /\ ~Terminal(doc)
    /\ doc.worker = IdOf[w] /\ doc.attempt = attempt

Released  == [doc EXCEPT !.exec = "queued", !.worker = Nobody]
FailedJob == [doc EXCEPT !.status = "failed", !.exec = "failed", !.worker = Nobody]

\* _updateClaim writes `to` when the claim is still owned, and nothing else.
UpdateClaim(w, attempt, to) ==
    IF OwnsClaim(w, attempt) THEN Put(to) ELSE UNCHANGED <<doc, leaseLive>>

-----------------------------------------------------------------------------
Expire == leaseLive /\ leaseLive' = FALSE /\ UNCHANGED <<doc, localTerminal, faults>>

\* delete: the document and what this process remembers of it.
Delete(p) == /\ doc' = Absent /\ leaseLive' = FALSE
             /\ localTerminal' = [localTerminal EXCEPT ![p] = Absent]
=============================================================================
