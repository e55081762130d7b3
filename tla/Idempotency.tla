----------------------------- MODULE Idempotency -----------------------------
(***************************************************************************)
(* One idempotency key: the requests that carry it, the middleware of      *)
(* src/lib/idempotency.js, the cache of IdempotencyService in every web    *)
(* replica and, when durable, the Firestore entry the replicas share       *)
(* (IdempotencyStorageService).                                            *)
(*                                                                         *)
(* A response is identified with the request that produced it, a claim     *)
(* token with the request that drew it, a payload hash with the payload.   *)
(* A request that follows another one's reservation or record continues in *)
(* the step that settles it, as promise reactions do.                      *)
(***************************************************************************)
EXTENDS Naturals, FiniteSets

CONSTANTS
    Requests,    \* the requests that carry the key
    Replicas,    \* web processes
    Bodies,      \* request fingerprints: method, path, body, query
    None,        \* no request, no body
    Modes,       \* the values ENABLE_FIRESTORE_IDEMPOTENCY may have
    FaultKinds,  \* the faults that happen: see Faulty
    MaxFaults,   \* bound: how many of them
    MaxLapses    \* bound: how often the replay TTL passes

ASSUME IdempotencyAssumption ==
    /\ None \notin Requests \cup Bodies
    /\ Modes \subseteq BOOLEAN
    /\ FaultKinds \subseteq {"storage", "crash", "full", "slow", "disconnect"}
    /\ MaxFaults \in Nat /\ MaxLapses \in Nat

VARIABLES
    durable,     \* ENABLE_FIRESTORE_IDEMPOTENCY: Firestore is used
    home, body,  \* per request: the replica that receives it, its fingerprint
    pc,          \* per request: where it is, or how it was answered
    on,          \* per request: whose record it waits for
    reply,       \* per request: whose response it was given
    cache,       \* per replica: the record of the key
    inFlight,    \* per replica: the request whose durable reservation is running
    polls,       \* requests whose record is polled for in Firestore
    entry,       \* the document idempotency_keys/<hash of the key>
    writes,      \* background writes that have not reached Firestore
    crashed,     \* replicas that have lost their memory
    faults, lapses

vars == <<durable, home, body, pc, on, reply, cache, inFlight, polls, entry, writes,
          crashed, faults, lapses>>
\* What a behaviour never changes: the setting, where requests go, what they ask.
arrivals == <<durable, home, body>>

Open     == {"new", "reserving", "queued", "waiting", "executing"}
Answers  == {"executed", "failed", "replayed", "conflict", "released", "limited"}

\* A local record; `token` says whether it carries its owner's claim token.  The
\* owner of a completed record is the request whose response it is.
Record == [state : {"none", "pending", "completed"}, body : Bodies \cup {None},
           owner : Requests \cup {None}, token : BOOLEAN, old : BOOLEAN]

Entry == [state : {"absent", "pending", "completed"}, body : Bodies \cup {None},
          owner : Requests \cup {None}, old : BOOLEAN]

Write == [op : {"set", "release"}, token : Requests, body : Bodies, owner : Requests]

NoRecord == [state |-> "none", body |-> None, owner |-> None, token |-> FALSE, old |-> FALSE]
NoEntry  == [state |-> "absent", body |-> None, owner |-> None, old |-> FALSE]

TypeOK ==
    /\ durable \in Modes
    /\ home \in [Requests -> Replicas] /\ body \in [Requests -> Bodies]
    /\ pc \in [Requests -> Open \cup Answers \cup {"lost"}]
    /\ on \in [Requests -> Requests \cup {None}]
    /\ reply \in [Requests -> Requests \cup {None}]
    /\ cache \in [Replicas -> Record]
    /\ inFlight \in [Replicas -> Requests \cup {None}]
    /\ polls \subseteq Requests
    /\ entry \in Entry
    /\ writes \subseteq Write /\ crashed \subseteq Replicas
    /\ faults \in 0..MaxFaults /\ lapses \in 0..MaxLapses

Init ==
    /\ durable \in Modes
    /\ home \in [Requests -> Replicas] /\ body \in [Requests -> Bodies]
    /\ pc = [r \in Requests |-> "new"]
    /\ on = [r \in Requests |-> None] /\ reply = [r \in Requests |-> None]
    /\ cache = [p \in Replicas |-> NoRecord]
    /\ inFlight = [p \in Replicas |-> None]
    /\ polls = {} /\ entry = NoEntry /\ writes = {} /\ crashed = {}
    /\ faults = 0 /\ lapses = 0

Faulty(kind) == kind \in FaultKinds /\ faults < MaxFaults /\ faults' = faults + 1

-----------------------------------------------------------------------------
(* How the requests of a step continue.                                     *)

Pending(r, token) == [state |-> "pending", body |-> body[r], owner |-> r,
                      token |-> token, old |-> FALSE]

\* A response as a record: of a request of this replica, or read from Firestore.
Completed(b, r, old) == [state |-> "completed", body |-> b, owner |-> r,
                         token |-> FALSE, old |-> old]

Keep(p, record) == cache' = [cache EXCEPT ![p] = record]

WaitingOn(p, owner) == {q \in Requests : pc[q] = "waiting" /\ home[q] = p /\ on[q] = owner}

\* The promise of the pending record c settles: its waiters are answered.
Settle(p, c, answer, from) ==
    LET W == IF c.state = "pending" THEN WaitingOn(p, c.owner) ELSE {} IN
    /\ pc'    = [q \in Requests |-> IF q \in W THEN answer ELSE pc[q]]
    /\ reply' = [q \in Requests |-> IF q \in W THEN from ELSE reply[q]]

\* r is answered by, or follows, the record c: getExistingLocalReservation.
Follow(r, c) ==
    /\ pc' = [pc EXCEPT ![r] = IF c.state = "completed" THEN "replayed" ELSE "waiting"]
    /\ reply' = [reply EXCEPT ![r] = IF c.state = "completed" THEN c.owner ELSE None]
    /\ on' = [on EXCEPT ![r] = IF c.state = "pending" THEN c.owner ELSE None]

Answer(r, answer) == pc' = [pc EXCEPT ![r] = answer] /\ UNCHANGED <<on, reply>>

-----------------------------------------------------------------------------
(* idempotencyMiddleware and IdempotencyService.reserve.                    *)

\* The record after cleanup: only completed ones expire.
Cleaned(p) == IF cache[p].state = "completed" /\ cache[p].old THEN NoRecord ELSE cache[p]

\* The timer of the cache, once a minute.
Cleanup(p) ==
    /\ cache[p] # Cleaned(p) /\ Keep(p, Cleaned(p))
    /\ UNCHANGED <<arrivals, crashed, pc, on, reply, inFlight, polls, entry, writes, faults, lapses>>

\* The key is in the local cache.
ArriveKnown(r) ==
    LET c == Cleaned(home[r]) IN
    /\ pc[r] = "new" /\ c.state # "none"
    /\ IF c.body # body[r] THEN Answer(r, "conflict") ELSE Follow(r, c)
    /\ UNCHANGED <<arrivals, crashed, cache, inFlight, polls, entry, writes, faults, lapses>>

\* Memory only: the first request with the key runs, unless 10000 others are pending.
ArriveFresh(r) ==
    /\ ~durable /\ pc[r] = "new" /\ Cleaned(home[r]) = NoRecord
    /\ \/ Keep(home[r], Pending(r, FALSE)) /\ Answer(r, "executing") /\ UNCHANGED faults
       \/ Faulty("full") /\ Keep(home[r], NoRecord) /\ Answer(r, "limited")
    /\ UNCHANGED <<arrivals, crashed, inFlight, polls, entry, writes, lapses>>

\* Durable: one reservation of a key at a time in every replica.
ArriveDurable(r) ==
    LET p == home[r] IN
    /\ durable /\ pc[r] = "new" /\ Cleaned(p) = NoRecord
    /\ Keep(p, NoRecord)
    /\ IF inFlight[p] = None
       THEN Answer(r, "reserving") /\ inFlight' = [inFlight EXCEPT ![p] = r]
       ELSE Answer(r, "queued") /\ UNCHANGED inFlight
    /\ UNCHANGED <<arrivals, crashed, polls, entry, writes, faults, lapses>>

-----------------------------------------------------------------------------
(* _reserveDurable: the transaction, what it leaves in the cache, and how   *)
(* the requests queued behind it go on.                                     *)

Claimable == entry.state = "absent" \/ entry.old

Claim(r) == entry' = [state |-> "pending", body |-> body[r], owner |-> r, old |-> FALSE]

\* Mutants: the leader's result is returned to the queue; any record is followed.
QueuedStart(p, r, c, answer, q) ==
    IF answer = "limited" THEN "limited"
    ELSE IF answer = "conflict" \/ c.body # body[q] THEN "reserving" ELSE answer

QueuedFollow(p, r, c, answer, q) ==
    IF answer = "limited" THEN "limited"
    ELSE IF answer = "conflict" THEN "reserving"
    ELSE IF c.state = "completed" THEN "replayed" ELSE "waiting"

\* How the request q goes on that was queued behind the reservation of r, which
\* ended with the given answer and left the record c.  "reserving" means again.
QueuedGoesOn(p, r, c, answer, q) ==
    IF answer = "limited" THEN "limited"
    ELSE IF answer = "conflict" \/ c.body # body[q] THEN "reserving"
    ELSE IF c.state = "completed" THEN "replayed" ELSE "waiting"

\* The reservation of r ends: r gets `answer`, c is the record of the key.  Of the
\* queued requests that have to reserve again one does, the others queue again.
Reserved(r, c, answer) ==
    LET p    == home[r]
        Q    == {q \in Requests : pc[q] = "queued" /\ home[q] = p}
        next == [q \in Q |-> QueuedGoesOn(p, r, c, answer, q)]
        again == {q \in Q : next[q] = "reserving"}
        given(q) == IF c.state = "completed" THEN c.owner ELSE None
        awaited(q) == IF c.state = "pending" THEN c.owner ELSE None
        Fed  == {q \in Q : next[q] \in {"replayed", "waiting"}}
                  \cup (IF answer \in {"replayed", "waiting"} THEN {r} ELSE {})
    IN \E leader \in IF again = {} THEN {None} ELSE again :
         /\ inFlight' = [inFlight EXCEPT ![p] = leader]
         /\ pc' = [q \in Requests |-> CASE q = r                  -> answer
                                        [] q \in again \ {leader} -> "queued"
                                        [] q \in Q \ again \/ q = leader -> next[q]
                                        [] OTHER                  -> pc[q]]
         /\ reply' = [q \in Requests |-> IF q \in Fed THEN given(q) ELSE reply[q]]
         /\ on'    = [q \in Requests |-> IF q \in Fed THEN awaited(q) ELSE on[q]]

Reserving(r) == pc[r] = "reserving" /\ inFlight[home[r]] = r

\* The local record a reservation may follow instead of its own.
Local(r) == LET c == cache[home[r]] IN c.state # "none" /\ c.body = body[r]

FollowLocal(r) ==
    /\ UNCHANGED cache
    /\ Reserved(r, cache[home[r]],
                IF cache[home[r]].state = "completed" THEN "replayed" ELSE "waiting")

Settled(r, c, answer) == Keep(home[r], c) /\ Reserved(r, c, answer)

\* 10000 keys, none of them completed: nothing to evict.
NoRoom(r) ==
    /\ cache[home[r]].state # "completed" /\ Faulty("full")
    /\ Reserved(r, NoRecord, "limited") /\ UNCHANGED cache

ReserveFresh(r) ==
    /\ Reserving(r) /\ Claimable
    /\ Claim(r)
    /\ \/ Settled(r, Pending(r, TRUE), "executing") /\ UNCHANGED faults
       \/ NoRoom(r)
    /\ UNCHANGED <<arrivals, crashed, polls, writes, lapses>>

ReserveConflict(r) ==
    /\ Reserving(r) /\ ~Claimable /\ entry.body # body[r]
    /\ Reserved(r, NoRecord, "conflict")
    /\ UNCHANGED <<arrivals, crashed, cache, polls, entry, writes, faults, lapses>>

ReserveCompleted(r) ==
    /\ Reserving(r) /\ ~Claimable /\ entry.body = body[r] /\ entry.state = "completed"
    /\ Settled(r, Completed(entry.body, entry.owner, FALSE), "replayed")
    /\ UNCHANGED <<arrivals, crashed, polls, entry, writes, faults, lapses>>

\* Another replica runs the request: follow the local record, or poll for the entry.
ReservePending(r) ==
    /\ Reserving(r) /\ ~Claimable /\ entry.body = body[r] /\ entry.state = "pending"
    /\ IF Local(r) THEN FollowLocal(r) /\ UNCHANGED <<polls, faults>>
       ELSE \/ /\ Settled(r, Pending(r, FALSE), "waiting")
               /\ polls' = polls \cup {r} /\ UNCHANGED faults
            \/ NoRoom(r) /\ UNCHANGED polls
    /\ UNCHANGED <<arrivals, crashed, entry, writes, lapses>>

\* Firestore fails, before or after the commit: fall back to memory.
ReserveFails(r) ==
    /\ Reserving(r) /\ Faulty("storage")
    /\ UNCHANGED entry \/ (Claimable /\ Claim(r))
    /\ IF Local(r) THEN FollowLocal(r)
       ELSE Settled(r, Pending(r, FALSE), "executing") \/ NoRoom(r)
    /\ UNCHANGED <<arrivals, crashed, polls, writes, lapses>>

-----------------------------------------------------------------------------
(* The response: cacheResponse and IdempotencyService.set, or the release of *)
(* the key after a 5xx response; and their background writes.               *)

\* Mutant: the token is looked up after the record was replaced.
SavingLate(op, c, r) == IF op = "set" THEN {} ELSE
    IF durable /\ c.state = "pending" /\ c.token
    THEN {[op |-> op, token |-> c.owner, body |-> body[r], owner |-> r]} ELSE {}

\* The write a pending record with a claim token asks for.
Saving(op, c, r) ==
    IF durable /\ c.state = "pending" /\ c.token
    THEN {[op |-> op, token |-> c.owner, body |-> body[r], owner |-> r]} ELSE {}

Answered(r, c, by, answer, from) ==
    LET W == IF c.state = "pending" THEN WaitingOn(home[r], c.owner) ELSE {} IN
    /\ pc' = [q \in Requests |-> IF q = r THEN by ELSE IF q \in W THEN answer ELSE pc[q]]
    /\ reply' = [q \in Requests |-> IF q \in W THEN from ELSE reply[q]]

\* Any response below 500, and the two 503 responses that leave something behind.
Succeed(r) ==
    LET c == cache[home[r]] IN
    /\ pc[r] = "executing"
    /\ Keep(home[r], Completed(body[r], r, FALSE))
    /\ Answered(r, c, "executed", "replayed", r)
    /\ writes' = writes \cup Saving("set", c, r)
    /\ UNCHANGED <<arrivals, crashed, on, inFlight, polls, entry, faults, lapses>>

\* Mutant: the waiters of a released key are forgotten.
FailSilently(r) ==
    LET c == cache[home[r]] IN
    /\ pc[r] = "executing"
    /\ IF c.state = "pending" /\ c.body = body[r] THEN Keep(home[r], NoRecord) ELSE UNCHANGED cache
    /\ Answer(r, "failed")
    /\ writes' = writes \cup Saving("release", c, r)
    /\ UNCHANGED <<arrivals, crashed, inFlight, polls, entry, faults, lapses>>

\* A response of 500 or above has been sent.
Fail(r) ==
    LET c == cache[home[r]] IN
    /\ pc[r] = "executing"
    /\ IF c.state = "pending" /\ c.body = body[r]
       THEN Keep(home[r], NoRecord) /\ Answered(r, c, "failed", "released", None)
       ELSE UNCHANGED cache /\ Answer(r, "failed") /\ UNCHANGED reply
    /\ writes' = writes \cup Saving("release", c, r)
    /\ UNCHANGED <<arrivals, crashed, on, inFlight, polls, entry, faults, lapses>>

\* The client is gone before such a response: 'finish' is not emitted.
Disconnect(r) ==
    /\ pc[r] = "executing" /\ Faulty("disconnect")
    /\ Answer(r, "failed")
    /\ UNCHANGED <<arrivals, crashed, cache, inFlight, polls, entry, writes, lapses>>

\* Mutant: any pending claim for the same request.
FitsAnyToken(w) == entry.state = "pending" /\ entry.body = w.body

\* The claim the write w names is still pending.
Fits(w) == entry.state = "pending" /\ entry.body = w.body /\ entry.owner = w.token

Stored(w) == IF w.op = "set"
             THEN [state |-> "completed", body |-> w.body, owner |-> w.owner, old |-> FALSE]
             ELSE NoEntry

\* setEntry and releaseEntry; their failure is only logged.
Store(w) ==
    /\ w \in writes /\ writes' = writes \ {w}
    /\ \/ entry' = (IF Fits(w) THEN Stored(w) ELSE entry) /\ UNCHANGED faults
       \/ Faulty("storage") /\ (UNCHANGED entry \/ (Fits(w) /\ entry' = Stored(w)))
    /\ UNCHANGED <<arrivals, crashed, pc, on, reply, cache, inFlight, polls, lapses>>

-----------------------------------------------------------------------------
(* waitForPendingCompletion, and what _reserveDurable does with its result.  *)

\* What a poll may come back with: released also after an error or the timeout.
PollResult(r, result) ==
    \/ result = "released"  /\ UNCHANGED faults
    \/ result = "conflict"  /\ entry.state # "absent" /\ entry.body # body[r] /\ UNCHANGED faults
    \/ result = "replayed"  /\ entry.state = "completed" /\ entry.body = body[r] /\ UNCHANGED faults

Poll(r) ==
    LET p == home[r]  c == cache[home[r]] IN
    /\ r \in polls /\ polls' = polls \ {r}
    /\ IF c.state # "pending" \/ c.owner # r
       THEN UNCHANGED <<pc, reply, cache, faults>>
       ELSE \E result \in {"replayed", "conflict", "released"} :
              /\ PollResult(r, result)
              /\ Keep(p, IF result = "replayed" THEN Completed(entry.body, entry.owner, entry.old)
                                               ELSE NoRecord)
              /\ Settle(p, c, result, IF result = "replayed" THEN entry.owner ELSE None)
    /\ UNCHANGED <<arrivals, crashed, on, inFlight, entry, writes, lapses>>

-----------------------------------------------------------------------------
(* Time, capacity and crashes.                                              *)

\* Mutant: a pending claim expires with the replay TTL.
LapseAll ==
    /\ lapses < MaxLapses /\ lapses' = lapses + 1
    /\ entry' = [entry EXCEPT !.old = entry.state # "absent"]
    /\ cache' = [p \in Replicas |-> [cache[p] EXCEPT !.old = cache[p].state = "completed"]]
    /\ UNCHANGED <<arrivals, crashed, pc, on, reply, inFlight, polls, writes, faults>>

\* WEBHOOK_IDEMPOTENCY_TTL_MS passes: completed records and entries expire.
Lapse ==
    /\ lapses < MaxLapses /\ lapses' = lapses + 1
    /\ entry' = [entry EXCEPT !.old = entry.old \/ entry.state = "completed"]
    /\ cache' = [p \in Replicas |-> [cache[p] EXCEPT !.old = cache[p].state = "completed"]]
    /\ UNCHANGED <<arrivals, crashed, pc, on, reply, inFlight, polls, writes, faults>>

\* PENDING_STALE_TIMEOUT_MS passes over a claim.  A request that is still running,
\* or whose response is still being stored, by then is slow.
Stale ==
    /\ entry.state = "pending" /\ ~entry.old
    /\ IF pc[entry.owner] = "executing" \/ \E w \in writes : w.token = entry.owner
       THEN Faulty("slow") ELSE UNCHANGED faults
    /\ entry' = [entry EXCEPT !.old = TRUE]
    /\ UNCHANGED <<arrivals, crashed, pc, on, reply, cache, inFlight, polls, writes, lapses>>

\* Other keys fill the cache: a completed record is evicted.
Evict(p) ==
    /\ cache[p].state = "completed" /\ Faulty("full")
    /\ Keep(p, NoRecord)
    /\ UNCHANGED <<arrivals, crashed, pc, on, reply, inFlight, polls, entry, writes, lapses>>

Crash(p) ==
    /\ \E r \in Requests : home[r] = p /\ pc[r] # "new"
    /\ Faulty("crash")
    /\ pc' = [r \in Requests |-> IF home[r] = p /\ pc[r] \in Open \ {"new"} THEN "lost" ELSE pc[r]]
    /\ Keep(p, NoRecord)
    /\ inFlight' = [inFlight EXCEPT ![p] = None]
    /\ polls' = {r \in polls : home[r] # p}
    /\ writes' = {w \in writes : home[w.owner] # p}
    /\ crashed' = crashed \cup {p}
    /\ UNCHANGED <<arrivals, on, reply, entry, lapses>>

-----------------------------------------------------------------------------
Arrive(r) == ArriveKnown(r) \/ ArriveFresh(r) \/ ArriveDurable(r)

Reserve(r) == ReserveFresh(r) \/ ReserveConflict(r) \/ ReserveCompleted(r)
              \/ ReservePending(r) \/ ReserveFails(r)

Respond(r) == Succeed(r) \/ Fail(r)

Next ==
    \/ \E r \in Requests : Arrive(r) \/ Reserve(r) \/ Respond(r) \/ Disconnect(r) \/ Poll(r)
    \/ \E w \in writes : Store(w)
    \/ \E p \in Replicas : Cleanup(p) \/ Evict(p) \/ Crash(p)
    \/ Lapse \/ Stale

Spec == Init /\ [][Next]_vars

\* Storage answers, handlers respond, and polls end after 15 seconds at the latest.
Fairness == \A r \in Requests : WF_vars(Reserve(r)) /\ WF_vars(Respond(r)) /\ WF_vars(Poll(r))

FairSpec == Spec /\ Fairness

-----------------------------------------------------------------------------
(* Properties                                                               *)

Running == {r \in Requests : pc[r] = "executing"}

\* Two requests with the same key never run at the same time, in one replica or in
\* two, as long as Firestore answers and requests end before their claim is stale.
Exclusive == durable => Cardinality(Running) <= 1

\* The record of r may have been replaced: in its replica a request of another fingerprint
\* has got a reservation.  After a reservation that failed open, it can.
Displaced(r) ==
    \E q \in Requests : /\ home[q] = home[r] /\ body[q] # body[r]
                        /\ pc[q] \notin {"new", "reserving", "queued", "conflict", "limited"}

\* In one replica two requests of one fingerprint do not run at the same time, even when
\* Firestore fails or a claim outlives its staleness, unless their record was replaced.
LocalExclusive ==
    \A r, q \in Running : home[r] = home[q] /\ body[r] = body[q] => r = q \/ Displaced(r)

\* A request takes effect once in a replay period: after a response below 500 no
\* other request with the key is run until the TTL has passed, unless the replica
\* that answered crashed before the response was stored.
EffectOnce ==
    durable => Cardinality({r \in Requests : pc[r] = "executed" /\ home[r] \notin crashed}) <= 1 + lapses

\* A replayed response was produced for the same fingerprint.
ReplayMatches == \A r \in Requests : reply[r] # None => body[reply[r]] = body[r]

\* Firestore keeps only responses of the request that holds the claim, or to the same
\* request from one whose record was replaced.
StoredByClaimant ==
    [][entry'.state = "completed" /\ entry # entry'
         => /\ entry.state \in {"pending", "completed"} /\ entry'.body = entry.body
            /\ entry'.owner = entry.owner \/ Displaced(entry'.owner)]_vars

\* r waits on a request that has lost its client before a response of 500 or above, for
\* which 'finish' is never emitted.
Abandoned(r) ==
    LET c == cache[home[r]] IN
    c.state = "pending" /\ c.owner = on[r] /\ pc[on[r]] = "failed"

\* Whoever waits for the response of another request gets an answer, but for the two cases
\* in which the code leaves it without one: another payload replaced the record, or the
\* owner's client left and its response was 500 or above.
WaitersAnswered ==
    \A r \in Requests : pc[r] = "waiting" ~> pc[r] # "waiting" \/ Displaced(r) \/ Abandoned(r)
=============================================================================
