---------------------------- MODULE JobCallbacks ----------------------------
(***************************************************************************)
(* Callbacks of one job with durable storage: the record of each event in  *)
(* the job document, the deliveries of several processes that claim, send  *)
(* and record it, and the saves of the whole job that carry a copy of the  *)
(* record along.  JobService and JobRepository.                            *)
(*                                                                         *)
(* The receiver is external: it accepts a request or not, and its answer   *)
(* may be lost.                                                            *)
(***************************************************************************)
EXTENDS Naturals, Sequences, FiniteSets

CONSTANTS Deliveries,       \* delivery ids, one for each trigger
          CallbackWorkers,  \* processes that run the job with a claim
          CallbackWebs,     \* processes that save it without one
          CallbackEvents,   \* "processing" and the terminal event
          NoDelivery,       \* not a delivery id
          MaxTries,         \* maxAttempts
          MaxCallbackFaults

ASSUME CallbackAssumption ==
  /\ NoDelivery \notin Deliveries
  /\ CallbackWorkers \cap CallbackWebs = {}
  /\ MaxTries \in Nat \ {0} /\ MaxCallbackFaults \in Nat

CallbackProcs == CallbackWorkers \cup CallbackWebs

VARIABLES
  callback,    \* the record of each event in the document
  terminal,    \* the document's status is terminal
  leased,      \* deliveries whose claim is less than 60 s old
  delivery,    \* the deliveries
  chain,       \* callbackChains of each process: claimed deliveries in order
  saving,      \* the save of the whole job of each process, with its copies
  accepted,    \* how often the receiver accepted each event
  excused,     \* how often the record of an accepted event was lost, see CallbackOnce
  callbackFaults

callbackVars == <<callback, terminal, leased, delivery, chain, saving, accepted, excused,
                  callbackFaults>>

NoRecord == [st |-> "none", by |-> NoDelivery]
NoCopy == [e \in CallbackEvents |-> NoRecord]
NoSave == [pc |-> "none", own |-> NoCopy, next |-> NoCopy]
IdleDelivery == [pc |-> "idle", event |-> "processing", proc |-> NoDelivery, tries |-> 0, ok |-> FALSE]

CallbackInit ==
  /\ callback = NoCopy
  /\ terminal = FALSE
  /\ leased = {}
  /\ delivery = [d \in Deliveries |-> IdleDelivery]
  /\ chain = [p \in CallbackProcs |-> <<>>]
  /\ saving = [p \in CallbackProcs |-> NoSave]
  /\ accepted = [e \in CallbackEvents |-> 0]
  /\ excused = [e \in CallbackEvents |-> 0]
  /\ callbackFaults = 0

CallbackFault == callbackFaults < MaxCallbackFaults /\ callbackFaults' = callbackFaults + 1
NoCallbackFault == UNCHANGED callbackFaults

Excuse(events) == excused' = [e \in CallbackEvents |-> excused[e] + IF e \in events THEN 1 ELSE 0]

\* The job reaches its terminal status; only then is the terminal event triggered.
Settle ==
  /\ ~terminal /\ terminal' = TRUE
  /\ UNCHANGED <<callback, leased, delivery, chain, saving, accepted, excused, callbackFaults>>

\* _triggerCallbackIfConfigured: the copy of the job at hand may already show the success.
Trigger(d, p, e) ==
  /\ delivery[d].pc = "idle"
  /\ e # "processing" => terminal
  /\ \E knows \in BOOLEAN :
       /\ knows => callback[e].st = "success"
       /\ delivery' = [delivery EXCEPT ![d] =
            [IdleDelivery EXCEPT !.event = e, !.proc = p, !.pc = IF knows THEN "done" ELSE "claiming"]]
  /\ UNCHANGED <<callback, terminal, leased, chain, saving, accepted, excused, callbackFaults>>

\* May an event be claimed: claimCallbackDelivery's transaction.
Free(e) ==
  /\ e = "processing" => ~terminal
  /\ callback[e].st # "success"
  /\ ~(callback[e].st = "in_flight" /\ callback[e].by \in leased)

ClaimCallback(d) ==
  LET e == delivery[d].event
      claimed == [callback EXCEPT ![e] = [st |-> "in_flight", by |-> d]]
      end == delivery' = [delivery EXCEPT ![d].pc = "done"]
  IN /\ delivery[d].pc = "claiming"
     /\ \/ /\ Free(e) /\ NoCallbackFault
           /\ callback' = claimed /\ leased' = leased \cup {d}
           /\ delivery' = [delivery EXCEPT ![d].pc = "sending"]
           /\ chain' = [chain EXCEPT ![delivery[d].proc] = Append(@, d)]
        \/ ~Free(e) /\ NoCallbackFault /\ end /\ UNCHANGED <<callback, leased, chain>>
        \/ /\ CallbackFault /\ end /\ UNCHANGED chain
           /\ \/ Free(e) /\ callback' = claimed /\ leased' = leased \cup {d}
              \/ UNCHANGED <<callback, leased>>
     /\ UNCHANGED <<terminal, saving, accepted, excused>>

\* A claim grows older than 60 s: waiting for the chain, the delays, the requests.
CallbackLeaseExpires(d) ==
  /\ d \in leased /\ leased' = leased \ {d}
  /\ IF delivery[d].pc = "done" THEN NoCallbackFault /\ UNCHANGED excused
     ELSE CallbackFault /\ Excuse({delivery[d].event})
  /\ UNCHANGED <<callback, terminal, delivery, chain, saving, accepted>>

\* One round of _sendCallbackWithRetry: URL check, request, answer, delay.
SendCallback(d) ==
  LET e == delivery[d].event
      p == delivery[d].proc
      last == delivery[d].tries + 1 = MaxTries
      to(pc, ok) == delivery' = [delivery EXCEPT ![d].tries = @ + 1, ![d].pc = pc, ![d].ok = ok]
      on == IF last THEN "recording" ELSE "sending"
  IN /\ delivery[d].pc = "sending" /\ Head(chain[p]) = d
     /\ \/ to("recording", TRUE) /\ accepted' = [accepted EXCEPT ![e] = @ + 1]
           /\ NoCallbackFault /\ UNCHANGED excused
        \/ to(on, FALSE) /\ CallbackFault /\ UNCHANGED <<accepted, excused>>
        \/ to("recording", FALSE) /\ CallbackFault /\ UNCHANGED <<accepted, excused>>
        \/ to(on, FALSE) /\ accepted' = [accepted EXCEPT ![e] = @ + 1]
           /\ CallbackFault /\ Excuse({e})
     /\ UNCHANGED <<callback, terminal, leased, chain, saving>>

\* updateCallbackStatus: a delivery whose claim was taken over records nothing.
RecordCallback(d) ==
  LET e == delivery[d].event
      p == delivery[d].proc
      mine == callback[e].by \in {d, NoDelivery}
      written == [callback EXCEPT ![e] = [st |-> IF delivery[d].ok THEN "success" ELSE "failed", by |-> d]]
  IN /\ delivery[d].pc = "recording"
     /\ delivery' = [delivery EXCEPT ![d].pc = "done"]
     /\ chain' = [chain EXCEPT ![p] = Tail(@)]
     /\ \/ /\ callback' = (IF mine THEN written ELSE callback)
           /\ NoCallbackFault /\ UNCHANGED excused
        \/ /\ CallbackFault
           /\ \/ callback' = (IF mine THEN written ELSE callback) /\ UNCHANGED excused
              \/ UNCHANGED callback /\ Excuse(IF delivery[d].ok THEN {e} ELSE {})
     /\ UNCHANGED <<terminal, leased, saving, accepted>>

-----------------------------------------------------------------------------
(* Saves of the whole job *)

\* JobService.mergeCallbackStatus: the job at hand beats the one read, but for a success.
MergeRead(read, own) ==
  [e \in CallbackEvents |->
     IF own[e].st # "none" /\ (read[e].st # "success" \/ own[e].st = "success") THEN own[e] ELSE read[e]]

\* Mutant: the save takes the record of the job at hand.
MergeIncoming(stored, incoming) ==
  [e \in CallbackEvents |-> IF incoming[e].st # "none" THEN incoming[e] ELSE stored[e]]

\* JobRepository.mergeCallbackStatus: the stored record beats the incoming one.
MergeStored(stored, incoming) ==
  [e \in CallbackEvents |-> IF stored[e].st # "none" THEN stored[e] ELSE incoming[e]]

\* The job is read to be changed: claimed, cancelled, finalised.  Bound: once a process.
TakeJob(p) ==
  /\ saving[p].pc = "none"
  /\ saving' = [saving EXCEPT ![p] = [NoSave EXCEPT !.pc = "changing", !.own = callback]]
  /\ UNCHANGED <<callback, terminal, leased, delivery, chain, accepted, excused, callbackFaults>>

\* _persistJob reads the job again and merges.
MergeJob(p) ==
  /\ saving[p].pc = "changing"
  /\ saving' = [saving EXCEPT ![p].pc = "writing", ![p].next = MergeRead(callback, saving[p].own)]
  /\ UNCHANGED <<callback, terminal, leased, delivery, chain, accepted, excused, callbackFaults>>

\* The transaction of save merges again for a worker with its claim, and only for it.
SaveJob(p) ==
  LET next == IF p \in CallbackWorkers THEN MergeStored(callback, saving[p].next) ELSE saving[p].next
      lost == {e \in CallbackEvents : next[e] # callback[e]}
  IN /\ saving[p].pc = "writing"
     /\ saving' = [saving EXCEPT ![p] = [NoSave EXCEPT !.pc = "saved"]]
     /\ callback' = next
     /\ Excuse(IF p \in CallbackWebs THEN lost ELSE {})
     /\ UNCHANGED <<terminal, leased, delivery, chain, accepted, callbackFaults>>

\* A process ends; a delivery that was accepted is not recorded.
CallbackCrash(p) ==
  LET gone == {d \in Deliveries : delivery[d].proc = p /\ delivery[d].pc \notin {"idle", "done"}}
  IN /\ CallbackFault
     /\ delivery' = [d \in Deliveries |-> IF d \in gone THEN [delivery[d] EXCEPT !.pc = "done"] ELSE delivery[d]]
     /\ chain' = [chain EXCEPT ![p] = <<>>]
     /\ saving' = [saving EXCEPT ![p] = [NoSave EXCEPT !.pc = "saved"]]
     /\ Excuse({delivery[d].event : d \in {x \in gone : delivery[x].ok}})
     /\ UNCHANGED <<callback, terminal, leased, accepted>>

CallbackNext ==
  \/ Settle
  \/ \E d \in Deliveries :
       \/ \E p \in CallbackProcs, e \in CallbackEvents : Trigger(d, p, e)
       \/ ClaimCallback(d) \/ CallbackLeaseExpires(d) \/ SendCallback(d) \/ RecordCallback(d)
  \/ \E p \in CallbackProcs : TakeJob(p) \/ MergeJob(p) \/ SaveJob(p) \/ CallbackCrash(p)

CallbackSpec == CallbackInit /\ [][CallbackNext]_callbackVars

-----------------------------------------------------------------------------
CallbackRecord == [st : {"none", "in_flight", "success", "failed"}, by : Deliveries \cup {NoDelivery}]

CallbackTypeOK ==
  /\ callback \in [CallbackEvents -> CallbackRecord]
  /\ terminal \in BOOLEAN /\ leased \subseteq Deliveries
  /\ chain \in [CallbackProcs -> Seq(Deliveries)]
  /\ accepted \in [CallbackEvents -> Nat] /\ excused \in [CallbackEvents -> Nat]

\* The receiver accepts an event once, and once more for each time its acceptance could not
\* be recorded: its answer was lost, the claim outlived its lease, the update failed, the
\* process ended, or a save without claim overwrote the record with an older copy.  In
\* particular a worker's saves, whose copies are as old, never undo a recorded success
\* (claimCallbackDelivery, updateCallbackStatus, JobRepository.mergeCallbackStatus).
CallbackOnce == \A e \in CallbackEvents : accepted[e] <= 1 + excused[e]
=============================================================================
