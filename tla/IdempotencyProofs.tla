--------------------------- MODULE IdempotencyProofs ---------------------------
(***************************************************************************)
(* What one idempotency key promises, for any number of requests, replicas *)
(* and faults.                                                             *)
(***************************************************************************)
EXTENDS Idempotency, FiniteSetTheorems, TLAPS

Steps == Open \cup Answers \cup {"lost"}

\* A record or entry names the request that made it, and that request's fingerprint.
Vouched(c) == c.owner \in Requests /\ c.body = body[c.owner]

Known ==
    /\ \A p \in Replicas : cache[p].state # "none" => Vouched(cache[p])
    /\ entry.state # "absent" => Vouched(entry)
    /\ \A w \in writes : w.body = body[w.owner]

\* How a reservation of r that ended with the record c continues, request by request.
Continued(r, c, answer) ==
    /\ pc' \in [Requests -> Steps]
    /\ reply' \in [Requests -> Requests \cup {None}]
    /\ on' \in [Requests -> Requests \cup {None}]
    /\ inFlight' \in [Replicas -> Requests \cup {None}]
    /\ pc'[r] = answer
    /\ \A q \in Requests \ {r} :
         IF pc[q] = "queued" /\ home[q] = home[r]
         THEN \/ pc'[q] = QueuedGoesOn(home[r], r, c, answer, q)
              \/ QueuedGoesOn(home[r], r, c, answer, q) = "reserving" /\ pc'[q] = "queued"
         ELSE pc'[q] = pc[q]
    /\ \A q \in Requests :
         \/ reply'[q] = reply[q] /\ on'[q] = on[q]
            /\ (pc'[q] # pc[q] => pc'[q] \notin {"waiting", "replayed"})
         \/ /\ pc'[q] \in {"waiting", "replayed"}
            /\ q = r \/ (pc[q] = "queued" /\ home[q] = home[r] /\ c.body = body[q])
            /\ reply'[q] = IF c.state = "completed" THEN c.owner ELSE None
            /\ on'[q] = IF c.state = "pending" THEN c.owner ELSE None
    /\ \A p \in Replicas \ {home[r]} : inFlight'[p] = inFlight[p]
    /\ \A q \in Requests \ {r} :
         home[q] = home[r] /\ pc[q] = "queued" /\ pc'[q] = "reserving" => inFlight'[home[r]] = q

LEMMA QueueRules ==
    ASSUME NEW p, NEW r, NEW c, NEW answer, NEW q
    PROVE  LET to == QueuedGoesOn(p, r, c, answer, q) IN
           /\ to \in {"limited", "reserving", "replayed", "waiting"}
           /\ answer = "limited" => to = "limited"
           /\ answer # "limited" =>
                /\ answer = "conflict" \/ c.body # body[q] <=> to = "reserving"
                /\ answer # "conflict" /\ c.body = body[q] =>
                     to = IF c.state = "completed" THEN "replayed" ELSE "waiting"
BY DEF QueuedGoesOn

LEMMA ReservationContinues ==
    ASSUME TypeOK, NEW r \in Requests, NEW c \in Record, NEW answer \in Answers \cup {"executing", "waiting"},
           pc[r] = "reserving", Reserved(r, c, answer)
    PROVE  Continued(r, c, answer)
<1> DEFINE p       == home[r]
           Q       == {q \in Requests : pc[q] = "queued" /\ home[q] = p}
           next    == [q \in Q |-> QueuedGoesOn(p, r, c, answer, q)]
           again   == {q \in Q : next[q] = "reserving"}
           Fed     == {q \in Q : next[q] \in {"replayed", "waiting"}}
                        \cup (IF answer \in {"replayed", "waiting"} THEN {r} ELSE {})
<1>1. PICK leader \in IF again = {} THEN {None} ELSE again :
         /\ inFlight' = [inFlight EXCEPT ![p] = leader]
         /\ pc' = [q \in Requests |-> CASE q = r                  -> answer
                                        [] q \in again \ {leader} -> "queued"
                                        [] q \in Q \ again \/ q = leader -> next[q]
                                        [] OTHER                  -> pc[q]]
         /\ reply' = [q \in Requests |-> IF q \in Fed
                        THEN IF c.state = "completed" THEN c.owner ELSE None ELSE reply[q]]
         /\ on'    = [q \in Requests |-> IF q \in Fed
                        THEN IF c.state = "pending" THEN c.owner ELSE None ELSE on[q]]
  BY DEF Reserved
<1>2. r \notin Q /\ again \subseteq Q /\ Q \subseteq Requests /\ None \notin Requests
  BY IdempotencyAssumption
<1>3. \A q \in Q : next[q] \in {"limited", "reserving", "replayed", "waiting"}
  BY QueueRules
<1>4. leader \in Requests \cup {None} /\ (leader # None => leader \in again)
  BY <1>2
<1>5. \A q \in Requests :
        /\ q = r => pc'[q] = answer
        /\ q \in Q => \/ pc'[q] = next[q]
                      \/ next[q] = "reserving" /\ pc'[q] = "queued" /\ q # leader
        /\ q # r /\ q \notin Q => pc'[q] = pc[q]
  BY <1>1, <1>2, <1>4
<1>6. pc' \in [Requests -> Steps]
  <2>1. \A q \in Requests : pc'[q] \in Steps
    BY <1>3, <1>5 DEF Steps, Open, Answers, TypeOK
  <2> QED BY <1>1, <2>1
<1>7. /\ reply' \in [Requests -> Requests \cup {None}]
      /\ on' \in [Requests -> Requests \cup {None}]
      /\ inFlight' \in [Replicas -> Requests \cup {None}]
  BY <1>1, <1>4 DEF TypeOK, Record
<1>8. \A q \in Requests \ {r} :
         IF pc[q] = "queued" /\ home[q] = home[r]
         THEN \/ pc'[q] = QueuedGoesOn(home[r], r, c, answer, q)
              \/ QueuedGoesOn(home[r], r, c, answer, q) = "reserving" /\ pc'[q] = "queued"
         ELSE pc'[q] = pc[q]
  BY <1>5
<1>9. ASSUME NEW q \in Requests
      PROVE  \/ reply'[q] = reply[q] /\ on'[q] = on[q]
                /\ (pc'[q] # pc[q] => pc'[q] \notin {"waiting", "replayed"})
             \/ /\ pc'[q] \in {"waiting", "replayed"}
                /\ q = r \/ (pc[q] = "queued" /\ home[q] = home[r] /\ c.body = body[q])
                /\ reply'[q] = IF c.state = "completed" THEN c.owner ELSE None
                /\ on'[q] = IF c.state = "pending" THEN c.owner ELSE None
  <2>1. CASE q \in Fed
    <3>1. /\ reply'[q] = IF c.state = "completed" THEN c.owner ELSE None
          /\ on'[q] = IF c.state = "pending" THEN c.owner ELSE None
      BY <1>1, <2>1
    <3>2. q = r \/ (q \in Q /\ next[q] \in {"replayed", "waiting"})
      BY <2>1
    <3>3. pc'[q] \in {"waiting", "replayed"}
      BY <1>2, <1>5, <2>1, <3>2
    <3>4. q \in Q /\ next[q] \in {"replayed", "waiting"} => c.body = body[q]
      BY QueueRules
    <3>5. q = r \/ (pc[q] = "queued" /\ home[q] = home[r] /\ c.body = body[q])
      BY <3>2, <3>4
    <3> HIDE DEF Fed
    <3> QED BY <3>1, <3>3, <3>5
  <2>2. CASE q \notin Fed
    <3>1. reply'[q] = reply[q] /\ on'[q] = on[q]
      BY <1>1, <2>2
    <3>2. pc'[q] # pc[q] => pc'[q] \notin {"waiting", "replayed"}
      BY <1>3, <1>5, <2>2
    <3> QED BY <3>1, <3>2
  <2> QED BY <2>1, <2>2
<1>10. \A x \in Replicas \ {home[r]} : inFlight'[x] = inFlight[x]
  BY <1>1 DEF TypeOK
<1>11. \A q \in Requests \ {r} :
         home[q] = home[r] /\ pc[q] = "queued" /\ pc'[q] = "reserving" => inFlight'[home[r]] = q
  <2> SUFFICES ASSUME NEW q \in Requests \ {r}, home[q] = home[r], pc[q] = "queued",
                      pc'[q] = "reserving"
               PROVE  inFlight'[home[r]] = q
    OBVIOUS
  <2>1. q \in Q
    OBVIOUS
  <2>2. next[q] = "reserving" /\ q \in again
    BY <1>5, <2>1
  <2>3. q = leader
    BY <1>1, <2>2
  <2> QED BY <1>1, <2>3 DEF TypeOK
<1> QED
  BY <1>5, <1>6, <1>7, <1>8, <1>9, <1>10, <1>11 DEF Continued

-----------------------------------------------------------------------------
(* Types, and whose the fingerprints are: these hold whatever fails.        *)

TypeInv == TypeOK /\ Known

ClaimAnswers == {"executing", "limited", "conflict", "replayed", "waiting"}

\* What every outcome of a reservation has in common.
Reserves(r, c, answer) ==
    /\ pc[r] = "reserving" /\ Reserved(r, c, answer)
    /\ c \in Record /\ answer \in ClaimAnswers
    /\ c.state # "none" => Vouched(c)
    /\ c.state = "none" => c = NoRecord /\ answer \in {"limited", "conflict"}
    /\ answer \in {"limited", "conflict"} => c = NoRecord
    /\ answer \in {"executing", "waiting"} => c.state = "pending"
    /\ answer = "replayed" => c.state = "completed"
    /\ c.state # "none" => c.body = body[r]
    /\ cache' = cache \/ cache' = [cache EXCEPT ![home[r]] = c]
    /\ answer \in {"executing", "waiting", "replayed"} => cache'[home[r]] = c

LEMMA RecordsAreVouched ==
    ASSUME TypeInv, NEW r \in Requests, NEW t \in BOOLEAN, NEW old \in BOOLEAN
    PROVE  /\ Pending(r, t) \in Record /\ Vouched(Pending(r, t)) /\ Pending(r, t).state = "pending"
           /\ entry.state # "absent" =>
                LET c == Completed(entry.body, entry.owner, old) IN
                c \in Record /\ Vouched(c) /\ c.state = "completed" /\ c.body = entry.body
           /\ Completed(body[r], r, old) \in Record /\ Vouched(Completed(body[r], r, old))
           /\ NoRecord \in Record /\ NoRecord.state = "none"
BY DEF Pending, Completed, Vouched, Record, NoRecord, TypeInv, TypeOK, Known, Entry

LEMMA ReserveFreshOutcome ==
    ASSUME TypeInv, NEW r \in Requests, ReserveFresh(r)
    PROVE  \/ Reserves(r, Pending(r, TRUE), "executing") /\ UNCHANGED faults
           \/ Reserves(r, NoRecord, "limited") /\ Faulty("full") /\ UNCHANGED cache
<1>1. home[r] \in Replicas /\ cache \in [Replicas -> Record]
  BY DEF TypeInv, TypeOK
<1>2. CASE Settled(r, Pending(r, TRUE), "executing") /\ UNCHANGED faults
  BY <1>1, <1>2, RecordsAreVouched
     DEF ReserveFresh, Reserving, Settled, Keep, Reserves, ClaimAnswers, Pending
<1>3. CASE NoRoom(r)
  BY <1>1, <1>3, RecordsAreVouched DEF ReserveFresh, Reserving, NoRoom, Reserves, ClaimAnswers
<1> QED BY <1>2, <1>3 DEF ReserveFresh

LEMMA ReserveConflictOutcome ==
    ASSUME TypeInv, NEW r \in Requests, ReserveConflict(r)
    PROVE  Reserves(r, NoRecord, "conflict") /\ UNCHANGED cache
BY RecordsAreVouched DEF ReserveConflict, Reserving, Reserves, ClaimAnswers

LEMMA ReserveCompletedOutcome ==
    ASSUME TypeInv, NEW r \in Requests, ReserveCompleted(r)
    PROVE  Reserves(r, Completed(entry.body, entry.owner, FALSE), "replayed")
<1>1. home[r] \in Replicas /\ cache \in [Replicas -> Record]
  BY DEF TypeInv, TypeOK
<1> QED BY <1>1, RecordsAreVouched
        DEF ReserveCompleted, Reserving, Settled, Keep, Reserves, ClaimAnswers, Completed

LEMMA FollowLocalOutcome ==
    ASSUME TypeInv, NEW r \in Requests, Reserving(r), Local(r), FollowLocal(r)
    PROVE  /\ UNCHANGED cache
           /\ Reserves(r, cache[home[r]],
                       IF cache[home[r]].state = "completed" THEN "replayed" ELSE "waiting")
<1>1. /\ cache[home[r]] \in Record /\ cache[home[r]].state # "none"
      /\ Vouched(cache[home[r]]) /\ cache[home[r]].body = body[r]
  BY DEF TypeInv, TypeOK, Known, Local
<1> QED BY <1>1 DEF Reserving, FollowLocal, Reserves, ClaimAnswers, Record

LEMMA ReservePendingOutcome ==
    ASSUME TypeInv, NEW r \in Requests, ReservePending(r)
    PROVE  \/ /\ Local(r) /\ UNCHANGED <<cache, polls>>
              /\ Reserves(r, cache[home[r]],
                          IF cache[home[r]].state = "completed" THEN "replayed" ELSE "waiting")
           \/ ~Local(r) /\ Reserves(r, Pending(r, FALSE), "waiting") /\ polls' = polls \cup {r}
           \/ ~Local(r) /\ Reserves(r, NoRecord, "limited") /\ UNCHANGED <<cache, polls>>
<1>1. home[r] \in Replicas /\ cache \in [Replicas -> Record] /\ Reserving(r)
  BY DEF TypeInv, TypeOK, ReservePending
<1>2. CASE Local(r)
  BY <1>1, <1>2, FollowLocalOutcome DEF ReservePending
<1>3. CASE ~Local(r) /\ Settled(r, Pending(r, FALSE), "waiting") /\ polls' = polls \cup {r}
  BY <1>1, <1>3, RecordsAreVouched
     DEF Reserving, Settled, Keep, Reserves, ClaimAnswers, Pending
<1>4. CASE ~Local(r) /\ NoRoom(r) /\ UNCHANGED polls
  BY <1>1, <1>4, RecordsAreVouched DEF Reserving, NoRoom, Reserves, ClaimAnswers
<1> QED BY <1>2, <1>3, <1>4 DEF ReservePending

LEMMA ReserveFailsOutcome ==
    ASSUME TypeInv, NEW r \in Requests, ReserveFails(r)
    PROVE  \/ /\ Local(r) /\ UNCHANGED cache
              /\ Reserves(r, cache[home[r]],
                          IF cache[home[r]].state = "completed" THEN "replayed" ELSE "waiting")
           \/ ~Local(r) /\ Reserves(r, Pending(r, FALSE), "executing")
           \/ ~Local(r) /\ Reserves(r, NoRecord, "limited") /\ UNCHANGED cache
<1>1. home[r] \in Replicas /\ cache \in [Replicas -> Record] /\ Reserving(r)
  BY DEF TypeInv, TypeOK, ReserveFails
<1>2. CASE Local(r)
  BY <1>1, <1>2, FollowLocalOutcome DEF ReserveFails
<1>3. CASE ~Local(r) /\ Settled(r, Pending(r, FALSE), "executing")
  BY <1>1, <1>3, RecordsAreVouched
     DEF Reserving, Settled, Keep, Reserves, ClaimAnswers, Pending
<1>4. CASE ~Local(r) /\ NoRoom(r)
  BY <1>1, <1>4, RecordsAreVouched DEF Reserving, NoRoom, Reserves, ClaimAnswers
<1> QED BY <1>2, <1>3, <1>4 DEF ReserveFails

LEMMA FaultyCounts ==
    ASSUME faults \in 0..MaxFaults, NEW kind, Faulty(kind)
    PROVE  faults' \in 0..MaxFaults
BY IdempotencyAssumption DEF Faulty

LEMMA ReserveKeepsTypes ==
    ASSUME TypeInv, NEW r \in Requests, NEW c, NEW answer, Reserves(r, c, answer),
           entry' = entry \/ Claim(r), polls' = polls \/ polls' = polls \cup {r},
           faults' \in 0..MaxFaults, UNCHANGED <<arrivals, crashed, writes, lapses>>
    PROVE  TypeInv' /\ Continued(r, c, answer)
<1>1. Continued(r, c, answer)
  BY ReservationContinues DEF Reserves, ClaimAnswers, Answers, TypeInv
<1>2. cache' \in [Replicas -> Record] /\ \A p \in Replicas : cache'[p].state # "none" => Vouched(cache'[p])
  BY DEF TypeInv, TypeOK, Known, Reserves
<1>3. entry' \in Entry /\ (entry'.state # "absent" => Vouched(entry'))
  <2>1. CASE entry' = entry
    BY <2>1 DEF TypeInv, TypeOK, Known
  <2>2. CASE Claim(r)
    BY <2>2 DEF TypeInv, TypeOK, Claim, Entry, Vouched
  <2> QED BY <2>1, <2>2
<1>4. /\ pc' \in [Requests -> Steps] /\ reply' \in [Requests -> Requests \cup {None}]
      /\ on' \in [Requests -> Requests \cup {None}]
      /\ inFlight' \in [Replicas -> Requests \cup {None}]
  BY <1>1 DEF Continued
<1>6. TypeOK'
  BY <1>2, <1>3, <1>4 DEF TypeInv, TypeOK, arrivals, Steps
<1>5. Known'
  BY <1>2, <1>3 DEF TypeInv, Known, Vouched, arrivals
<1> QED BY <1>1, <1>5, <1>6 DEF TypeInv

\* Every reservation ends in one of these ways.
ReservationEnds(r) ==
    \E c \in Record, answer \in ClaimAnswers :
      Reserves(r, c, answer) /\ Continued(r, c, answer)

LEMMA ReservationTypes ==
    ASSUME TypeInv, NEW r \in Requests, Reserve(r)
    PROVE  TypeInv' /\ ReservationEnds(r)
<1>1. faults' \in 0..MaxFaults
  BY FaultyCounts DEF Reserve, ReserveFresh, ReserveConflict, ReserveCompleted, ReservePending,
       ReserveFails, NoRoom, Settled, FollowLocal, TypeInv, TypeOK
<1>2. /\ UNCHANGED <<arrivals, crashed, writes, lapses>>
      /\ entry' = entry \/ Claim(r)
      /\ polls' = polls \/ polls' = polls \cup {r}
  BY DEF Reserve, ReserveFresh, ReserveConflict, ReserveCompleted, ReservePending, ReserveFails
<1>3. \E c, answer : Reserves(r, c, answer)
  BY ReserveFreshOutcome, ReserveConflictOutcome, ReserveCompletedOutcome,
     ReservePendingOutcome, ReserveFailsOutcome DEF Reserve
<1>4. PICK c, answer : Reserves(r, c, answer)
  BY <1>3
<1>5. TypeInv' /\ Continued(r, c, answer)
  BY <1>1, <1>2, <1>4, ReserveKeepsTypes
<1> QED BY <1>4, <1>5 DEF ReservationEnds, Reserves

LEMMA ArriveTypes ==
    ASSUME TypeInv, NEW r \in Requests, Arrive(r)
    PROVE  TypeInv'
<1> DEFINE p == home[r]
           c == Cleaned(p)
<1>1. p \in Replicas /\ c \in Record /\ (c.state # "none" => Vouched(c))
  BY RecordsAreVouched DEF Cleaned, TypeInv, TypeOK, Known
<1>2. CASE ArriveKnown(r)
  <2>1. /\ pc' \in [Requests -> Steps] /\ reply' \in [Requests -> Requests \cup {None}]
        /\ on' \in [Requests -> Requests \cup {None}]
    BY <1>1, <1>2 DEF ArriveKnown, Follow, Answer, Record, TypeInv, TypeOK, Steps, Open, Answers
  <2> QED BY <1>2, <2>1 DEF ArriveKnown, TypeInv, TypeOK, Known, Vouched, arrivals, Steps
<1>3. ASSUME NEW record \in Record, Keep(p, record), record.state # "none" => Vouched(record)
      PROVE  cache' \in [Replicas -> Record] /\ \A x \in Replicas : cache'[x].state # "none" => Vouched(cache'[x])
  BY <1>1, <1>3 DEF Keep, TypeInv, TypeOK, Known
<1>4. CASE ArriveFresh(r)
  <2>1. cache' \in [Replicas -> Record] /\ \A x \in Replicas : cache'[x].state # "none" => Vouched(cache'[x])
    BY <1>3, <1>4, RecordsAreVouched DEF ArriveFresh
  <2>2. pc' \in [Requests -> Steps] /\ UNCHANGED <<reply, on>> /\ faults' \in 0..MaxFaults
    BY <1>4, FaultyCounts DEF ArriveFresh, Answer, TypeInv, TypeOK, Steps, Open, Answers
  <2> QED BY <1>4, <2>1, <2>2 DEF ArriveFresh, TypeInv, TypeOK, Known, Vouched, arrivals, Steps
<1>5. CASE ArriveDurable(r)
  <2>1. cache' \in [Replicas -> Record] /\ \A x \in Replicas : cache'[x].state # "none" => Vouched(cache'[x])
    BY <1>3, <1>5, RecordsAreVouched DEF ArriveDurable
  <2>2. /\ pc' \in [Requests -> Steps] /\ UNCHANGED <<reply, on>>
        /\ inFlight' \in [Replicas -> Requests \cup {None}]
    BY <1>1, <1>5 DEF ArriveDurable, Answer, TypeInv, TypeOK, Steps, Open
  <2> QED BY <1>5, <2>1, <2>2 DEF ArriveDurable, TypeInv, TypeOK, Known, Vouched, arrivals, Steps
<1> QED BY <1>2, <1>4, <1>5 DEF Arrive

LEMMA AnswersTyped ==
    ASSUME TypeInv, NEW r \in Requests, NEW c, NEW by \in Answers, NEW answer \in Answers,
           NEW from \in Requests \cup {None}, Answered(r, c, by, answer, from)
    PROVE  pc' \in [Requests -> Steps] /\ reply' \in [Requests -> Requests \cup {None}]
BY DEF Answered, Steps, TypeInv, TypeOK

LEMMA RespondTypes ==
    ASSUME TypeInv, NEW r \in Requests, Respond(r) \/ Disconnect(r)
    PROVE  TypeInv'
<1> DEFINE p == home[r]
           c == cache[home[r]]
<1>1. p \in Replicas /\ c \in Record /\ (c.state # "none" => Vouched(c))
  BY DEF TypeInv, TypeOK, Known
<1>2. ASSUME NEW op \in {"set", "release"}
      PROVE  Saving(op, c, r) \subseteq Write /\ \A w \in Saving(op, c, r) : w.body = body[w.owner]
  BY <1>1 DEF Saving, Write, Vouched, TypeInv, TypeOK
<1>3. CASE Succeed(r)
  <2>1. pc' \in [Requests -> Steps] /\ reply' \in [Requests -> Requests \cup {None}]
    BY <1>3, AnswersTyped DEF Succeed, Answers
  <2>2. cache' \in [Replicas -> Record] /\ \A x \in Replicas : cache'[x].state # "none" => Vouched(cache'[x])
    BY <1>1, <1>3, RecordsAreVouched DEF Succeed, Keep, TypeInv, TypeOK, Known
  <2>3. writes' \subseteq Write /\ \A w \in writes' : w.body = body[w.owner]
    BY <1>2, <1>3 DEF Succeed, TypeInv, TypeOK, Known
  <2> QED BY <1>3, <2>1, <2>2, <2>3 DEF Succeed, TypeInv, TypeOK, Known, Vouched, arrivals, Steps
<1>4. CASE Fail(r)
  <2>1. pc' \in [Requests -> Steps] /\ reply' \in [Requests -> Requests \cup {None}] /\ UNCHANGED on
    BY <1>4, AnswersTyped DEF Fail, Answers, Answer, Steps, TypeInv, TypeOK
  <2>2. cache' \in [Replicas -> Record] /\ \A x \in Replicas : cache'[x].state # "none" => Vouched(cache'[x])
    BY <1>1, <1>4, RecordsAreVouched DEF Fail, Keep, TypeInv, TypeOK, Known
  <2>3. writes' \subseteq Write /\ \A w \in writes' : w.body = body[w.owner]
    BY <1>2, <1>4 DEF Fail, TypeInv, TypeOK, Known
  <2> QED BY <1>4, <2>1, <2>2, <2>3 DEF Fail, TypeInv, TypeOK, Known, Vouched, arrivals, Steps
<1>5. CASE Disconnect(r)
  BY <1>5, FaultyCounts DEF Disconnect, Answer, Answers, TypeInv, TypeOK, Known, Vouched, arrivals
<1> QED BY <1>3, <1>4, <1>5 DEF Respond

LEMMA StoreTypes ==
    ASSUME TypeInv, NEW w \in writes, Store(w)
    PROVE  TypeInv'
<1>1. w \in Write /\ w.body = body[w.owner]
  BY DEF TypeInv, TypeOK, Known
<1>2. Stored(w) \in Entry /\ (Stored(w).state # "absent" => Vouched(Stored(w)))
  BY <1>1 DEF Stored, NoEntry, Entry, Vouched, Write
<1>3. entry' = entry \/ entry' = Stored(w)
  BY DEF Store
<1> QED BY <1>2, <1>3, FaultyCounts DEF Store, TypeInv, TypeOK, Known, Vouched, arrivals

LEMMA PollTypes ==
    ASSUME TypeInv, NEW r \in Requests, Poll(r)
    PROVE  TypeInv'
<1>1. CASE UNCHANGED <<pc, reply, cache, faults>>
  BY <1>1 DEF Poll, TypeInv, TypeOK, Known, Vouched, arrivals
<1>2. ASSUME NEW result \in {"replayed", "conflict", "released"}, PollResult(r, result),
             Keep(home[r], IF result = "replayed" THEN Completed(entry.body, entry.owner, entry.old)
                                                  ELSE NoRecord),
             Settle(home[r], cache[home[r]], result, IF result = "replayed" THEN entry.owner ELSE None)
      PROVE  TypeInv'
  <2>1. home[r] \in Replicas /\ entry.old \in BOOLEAN /\ entry.owner \in Requests \cup {None}
    BY DEF TypeInv, TypeOK, Entry
  <2>2. result = "replayed" => entry.state # "absent"
    BY <1>2 DEF PollResult
  <2>3. cache' \in [Replicas -> Record] /\ \A x \in Replicas : cache'[x].state # "none" => Vouched(cache'[x])
    BY <1>2, <2>1, <2>2, RecordsAreVouched DEF Keep, TypeInv, TypeOK, Known
  <2>4. pc' \in [Requests -> Steps] /\ reply' \in [Requests -> Requests \cup {None}]
    BY <1>2, <2>1 DEF Settle, Steps, Answers, TypeInv, TypeOK
  <2> QED BY <1>2, <2>3, <2>4
          DEF Poll, PollResult, TypeInv, TypeOK, Known, Vouched, arrivals, Steps
<1> QED BY <1>1, <1>2 DEF Poll

LEMMA WorldTypes ==
    ASSUME TypeInv, Lapse \/ Stale \/ \E p \in Replicas : Cleanup(p) \/ Evict(p) \/ Crash(p)
    PROVE  TypeInv'
<1>1. CASE Lapse
  <2>1. cache' \in [Replicas -> Record]
    <3> DEFINE aged(p) == [cache[p] EXCEPT !.old = cache[p].state = "completed"]
    <3>1. ASSUME NEW p \in Replicas
          PROVE  aged(p) \in Record
      BY DEF TypeInv, TypeOK, Record
    <3>2. cache' = [p \in Replicas |-> aged(p)]
      BY <1>1 DEF Lapse
    <3> HIDE DEF aged
    <3> QED BY <3>1, <3>2
  <2>2. \A p \in Replicas : /\ cache'[p].state = cache[p].state /\ cache'[p].owner = cache[p].owner
                            /\ cache'[p].body = cache[p].body
    BY <1>1 DEF Lapse, TypeInv, TypeOK, Record
  <2>3. entry' \in Entry /\ UNCHANGED <<entry.state, entry.owner, entry.body>>
    BY <1>1 DEF Lapse, Entry, TypeInv, TypeOK
  <2>4. lapses' \in 0..MaxLapses
    BY <1>1, IdempotencyAssumption DEF Lapse, TypeInv, TypeOK
  <2>5. UNCHANGED <<arrivals, crashed, pc, on, reply, inFlight, polls, writes, faults>>
    BY <1>1 DEF Lapse
  <2>6. TypeOK'
    BY <2>1, <2>3, <2>4, <2>5 DEF TypeInv, TypeOK, arrivals
  <2>7. Known'
    BY <2>2, <2>3, <2>5 DEF TypeInv, Known, Vouched, arrivals
  <2> QED BY <2>6, <2>7 DEF TypeInv
<1>2. CASE Stale
  BY <1>2, FaultyCounts DEF Stale, Entry, TypeInv, TypeOK, Known, Vouched, arrivals
<1>3. ASSUME NEW p \in Replicas, Cleanup(p)
      PROVE  TypeInv'
  BY <1>3 DEF Cleanup, Keep, Cleaned, TypeInv, TypeOK, Known, Vouched, arrivals, Record, NoRecord
<1>4. ASSUME NEW p \in Replicas, Evict(p)
      PROVE  TypeInv'
  BY <1>4, FaultyCounts DEF Evict, Keep, TypeInv, TypeOK, Known, Vouched, arrivals, Record, NoRecord
<1>5. ASSUME NEW p \in Replicas, Crash(p)
      PROVE  TypeInv'
  BY <1>5, FaultyCounts DEF Crash, Keep, TypeInv, TypeOK, Known, Vouched, arrivals, Record, NoRecord
<1> QED BY <1>1, <1>2, <1>3, <1>4, <1>5

LEMMA TypesAlways == Spec => []TypeInv
<1>1. Init => TypeInv
  BY IdempotencyAssumption
     DEF Init, TypeInv, TypeOK, Known, Open, NoRecord, NoEntry, Record, Entry
<1>2. TypeInv /\ [Next]_vars => TypeInv'
  <2> SUFFICES ASSUME TypeInv, [Next]_vars PROVE TypeInv'
    OBVIOUS
  <2>1. CASE UNCHANGED vars
    BY <2>1 DEF vars, TypeInv, TypeOK, Known, Vouched
  <2> QED BY <2>1, ArriveTypes, ReservationTypes, RespondTypes, PollTypes, StoreTypes, WorldTypes
          DEF Next
<1> QED BY <1>1, <1>2, PTL DEF Spec

\* The records of the cache and the entry are always well-formed.
THEOREM IdempotencyTypes == Spec => []TypeOK
<1>1. TypeInv => TypeOK
  BY DEF TypeInv
<1> QED BY <1>1, TypesAlways, PTL

-----------------------------------------------------------------------------
(* Who runs, and who waits for whom.  This holds when Firestore answers and *)
(* nobody outlives a claim, or when all requests with the key are the same  *)
(* request; the README says what happens otherwise.                         *)

OneFingerprint == \A b, c \in Bodies : b = c
Answering      == FaultKinds \cap {"storage", "slow"} = {}

\* A running request owns the record of its replica and, when Firestore can be relied
\* on, the claim.
Holds(r) ==
    /\ cache[home[r]].state = "pending" /\ cache[home[r]].owner = r
    /\ Answering /\ durable =>
         cache[home[r]].token /\ entry.state = "pending" /\ entry.owner = r /\ ~entry.old

RunInv == \A r \in Requests : pc[r] = "executing" => Holds(r)

QueueInv ==
    \A r \in Requests :
      /\ pc[r] \in {"reserving", "queued"} =>
           durable /\ (OneFingerprint => cache[home[r]].state # "pending")
      /\ pc[r] = "reserving" => inFlight[home[r]] = r

\* Who polls has its answer or waits; who writes has answered, under its own token.
DoneInv ==
    /\ \A r \in polls : pc[r] \notin {"new", "reserving", "queued", "executing"}
    /\ \A w \in writes : /\ w.token = w.owner
                         /\ pc[w.token] = IF w.op = "set" THEN "executed" ELSE "failed"

FollowInv ==
    \A r \in Requests :
      /\ pc[r] = "waiting" => on[r] \in Requests /\ body[on[r]] = body[r]
      /\ reply[r] # None => body[reply[r]] = body[r]

KeyInv == TypeInv /\ RunInv /\ QueueInv /\ DoneInv /\ FollowInv

\* With one fingerprint nobody reserves in a replica where somebody runs.
LEMMA NobodyRunsHere ==
    ASSUME KeyInv, OneFingerprint, NEW r \in Requests, pc[r] = "reserving",
           NEW q \in Requests, pc[q] = "executing"
    PROVE  home[q] # home[r]
BY DEF KeyInv, RunInv, QueueInv, Holds

LEMMA UntouchedHolds ==
    ASSUME TypeInv, NEW q \in Requests, Holds(q), UNCHANGED arrivals,
           cache'[home[q]] = cache[home[q]],
           Answering => UNCHANGED entry
    PROVE  Holds(q)'
BY DEF Holds, arrivals

\* What a reservation does to those who run: nothing.
RunnersStay(r) == \A q \in Requests \ {r} : pc[q] = "executing" => Holds(q)'

LEMMA ElsewhereStays ==
    ASSUME TypeInv, NEW r \in Requests, NEW c, NEW answer, Reserves(r, c, answer),
           NEW q \in Requests, home[q] # home[r]
    PROVE  cache'[home[q]] = cache[home[q]]
BY DEF Reserves, TypeInv, TypeOK

LEMMA RunnersStayWithOneFingerprint ==
    ASSUME KeyInv, OneFingerprint, ~Answering, UNCHANGED arrivals,
           NEW r \in Requests, NEW c, NEW answer, Reserves(r, c, answer)
    PROVE  RunnersStay(r)
<1> SUFFICES ASSUME NEW q \in Requests \ {r}, pc[q] = "executing"
             PROVE  Holds(q)'
  BY DEF RunnersStay
<1>1. home[q] # home[r]
  BY NobodyRunsHere DEF Reserves
<1>2. cache'[home[q]] = cache[home[q]]
  BY <1>1, ElsewhereStays DEF KeyInv
<1> QED BY <1>2, UntouchedHolds DEF KeyInv, RunInv

\* When Firestore can be relied on, a running request has the claim.
LEMMA RunnerHasClaim ==
    ASSUME KeyInv, Answering, NEW r \in Requests, Reserving(r), NEW q \in Requests, pc[q] = "executing"
    PROVE  /\ ~Claimable /\ entry.state = "pending" /\ entry.owner = q /\ entry.body = body[q]
           /\ cache[home[q]].owner = q /\ cache[home[q]].body = body[q] /\ cache[home[q]].state # "none"
BY DEF KeyInv, RunInv, QueueInv, Holds, Reserving, Claimable, TypeInv, Known, Vouched, TypeOK

\* How a reservation of r ends, with all that the invariant needs of it.
EndsWell(r, c, answer) ==
    /\ Reserves(r, c, answer) /\ RunnersStay(r)
    /\ answer = "executing" => Holds(r)'
    /\ answer = "conflict" => ~OneFingerprint
    /\ \/ UNCHANGED polls
       \/ answer = "waiting" /\ polls' = polls \cup {r}

LEMMA FreshEndsWell ==
    ASSUME KeyInv, OneFingerprint \/ Answering, NEW r \in Requests, ReserveFresh(r)
    PROVE  \E c, answer : EndsWell(r, c, answer)
<1>1. UNCHANGED <<arrivals, polls>> /\ Reserving(r) /\ Claimable /\ Claim(r)
  BY DEF ReserveFresh
<1>2. ASSUME NEW c, NEW answer, Reserves(r, c, answer)
      PROVE  RunnersStay(r)
  <2>1. CASE Answering
    BY <1>1, <2>1, RunnerHasClaim DEF RunnersStay
  <2>2. CASE ~Answering
    BY <1>1, <1>2, <2>2, RunnersStayWithOneFingerprint
  <2> QED BY <2>1, <2>2
<1>3. CASE Reserves(r, Pending(r, TRUE), "executing")
  <2>1. Holds(r)'
    BY <1>1, <1>3 DEF Reserves, Pending, Claim, Holds, arrivals
  <2> QED BY <1>1, <1>2, <1>3, <2>1 DEF EndsWell
<1>4. CASE Reserves(r, NoRecord, "limited")
  BY <1>1, <1>2, <1>4 DEF EndsWell
<1> QED BY <1>3, <1>4, ReserveFreshOutcome DEF KeyInv

LEMMA ConflictEndsWell ==
    ASSUME KeyInv, NEW r \in Requests, ReserveConflict(r)
    PROVE  \E c, answer : EndsWell(r, c, answer)
<1>1. UNCHANGED <<arrivals, polls, entry, cache>>
  BY DEF ReserveConflict
<1>2. RunnersStay(r)
  BY <1>1, UntouchedHolds DEF RunnersStay, KeyInv, RunInv
<1>3. ~OneFingerprint
  <2>1. entry.state # "absent" /\ entry.body # body[r]
    BY DEF ReserveConflict, Claimable
  <2>2. entry.body \in Bodies /\ body[r] \in Bodies
    BY <2>1 DEF KeyInv, TypeInv, TypeOK, Known, Vouched
  <2> QED BY <2>1, <2>2 DEF OneFingerprint
<1>4. Reserves(r, NoRecord, "conflict")
  BY ReserveConflictOutcome DEF KeyInv
<1>5. EndsWell(r, NoRecord, "conflict")
  BY <1>1, <1>2, <1>3, <1>4 DEF EndsWell
<1> QED BY <1>5

LEMMA CompletedEndsWell ==
    ASSUME KeyInv, OneFingerprint \/ Answering, NEW r \in Requests, ReserveCompleted(r)
    PROVE  \E c, answer : EndsWell(r, c, answer)
<1>1. UNCHANGED <<arrivals, polls>> /\ Reserving(r) /\ entry.state = "completed"
  BY DEF ReserveCompleted
<1>2. Reserves(r, Completed(entry.body, entry.owner, FALSE), "replayed")
  BY ReserveCompletedOutcome DEF KeyInv
<1>3. RunnersStay(r)
  <2>1. CASE Answering
    BY <1>1, <2>1, RunnerHasClaim DEF RunnersStay
  <2>2. CASE ~Answering
    BY <1>1, <1>2, <2>2, RunnersStayWithOneFingerprint
  <2> QED BY <2>1, <2>2
<1>4. EndsWell(r, Completed(entry.body, entry.owner, FALSE), "replayed")
  BY <1>1, <1>2, <1>3 DEF EndsWell
<1> QED BY <1>4

LEMMA PendingEndsWell ==
    ASSUME KeyInv, OneFingerprint \/ Answering, NEW r \in Requests, ReservePending(r)
    PROVE  \E c, answer : EndsWell(r, c, answer)
<1>1. UNCHANGED <<arrivals, entry>> /\ Reserving(r) /\ entry.body = body[r]
  BY DEF ReservePending
<1>2. ASSUME NEW c, NEW answer, Reserves(r, c, answer), UNCHANGED cache \/ ~Local(r)
      PROVE  RunnersStay(r)
  <2>1. CASE Answering
    <3> SUFFICES ASSUME NEW q \in Requests \ {r}, pc[q] = "executing"
                 PROVE  Holds(q)'
      BY DEF RunnersStay
    <3>1. home[q] = home[r] => Local(r)
      BY <1>1, <2>1, RunnerHasClaim DEF Local
    <3>2. cache'[home[q]] = cache[home[q]]
      BY <1>2, <3>1, ElsewhereStays DEF KeyInv
    <3> QED BY <1>1, <3>2, UntouchedHolds DEF KeyInv, RunInv
  <2>2. CASE ~Answering
    BY <1>1, <1>2, <2>2, RunnersStayWithOneFingerprint
  <2> QED BY <2>1, <2>2
<1>3. CASE /\ UNCHANGED <<cache, polls>>
           /\ Reserves(r, cache[home[r]],
                       IF cache[home[r]].state = "completed" THEN "replayed" ELSE "waiting")
  BY <1>2, <1>3 DEF EndsWell
<1>4. CASE ~Local(r) /\ Reserves(r, Pending(r, FALSE), "waiting") /\ polls' = polls \cup {r}
  BY <1>2, <1>4 DEF EndsWell
<1>5. CASE ~Local(r) /\ Reserves(r, NoRecord, "limited") /\ UNCHANGED <<cache, polls>>
  BY <1>2, <1>5 DEF EndsWell
<1> QED BY <1>3, <1>4, <1>5, ReservePendingOutcome DEF KeyInv

LEMMA FailEndsWell ==
    ASSUME KeyInv, OneFingerprint \/ Answering, NEW r \in Requests, ReserveFails(r)
    PROVE  \E c, answer : EndsWell(r, c, answer)
<1>1. UNCHANGED arrivals /\ polls' = polls /\ ~Answering
  BY DEF ReserveFails, Faulty, Answering
<1>2. ASSUME NEW c, NEW answer, Reserves(r, c, answer)
      PROVE  RunnersStay(r)
  BY <1>1, <1>2, RunnersStayWithOneFingerprint
<1>3. Reserves(r, Pending(r, FALSE), "executing") => Holds(r)'
  BY <1>1 DEF Reserves, Holds, Pending, arrivals
<1>4. \E c, answer : /\ Reserves(r, c, answer) /\ answer # "conflict"
                     /\ answer = "executing" => Holds(r)'
  <2>1. CASE Reserves(r, cache[home[r]],
                      IF cache[home[r]].state = "completed" THEN "replayed" ELSE "waiting")
    BY <2>1
  <2>2. CASE Reserves(r, Pending(r, FALSE), "executing")
    BY <1>3, <2>2
  <2>3. CASE Reserves(r, NoRecord, "limited")
    BY <2>3
  <2> QED BY <2>1, <2>2, <2>3, ReserveFailsOutcome DEF KeyInv
<1>5. PICK c, answer : /\ Reserves(r, c, answer) /\ answer # "conflict"
                       /\ answer = "executing" => Holds(r)'
  BY <1>4
<1>6. EndsWell(r, c, answer)
  BY <1>1, <1>2, <1>5 DEF EndsWell
<1> QED BY <1>6

LEMMA ReservationKeepsKey ==
    ASSUME KeyInv, OneFingerprint \/ Answering, NEW r \in Requests, Reserve(r)
    PROVE  KeyInv'
<1>1. TypeInv' /\ UNCHANGED <<arrivals, writes>>
  BY ReservationTypes DEF KeyInv, Reserve, ReserveFresh, ReserveConflict, ReserveCompleted,
                          ReservePending, ReserveFails
<1>2. \E c, answer : EndsWell(r, c, answer)
  BY FreshEndsWell, ConflictEndsWell, CompletedEndsWell, PendingEndsWell, FailEndsWell DEF Reserve
<1>3. PICK c, answer : EndsWell(r, c, answer)
  BY <1>2
<1>4. Reserves(r, c, answer) /\ pc[r] = "reserving" /\ home[r] \in Replicas
  BY <1>3 DEF EndsWell, Reserves, KeyInv, TypeInv, TypeOK
<1>5. Continued(r, c, answer)
  BY <1>4, ReservationContinues DEF Reserves, ClaimAnswers, Answers, KeyInv, TypeInv
<1>6. \A q \in Requests \ {r} :
        \/ pc'[q] = pc[q]
        \/ pc[q] = "queued" /\ home[q] = home[r]
           /\ pc'[q] \in {"limited", "reserving", "queued", "replayed", "waiting"}
  BY <1>5, QueueRules DEF Continued
<1>7. pc'[r] = answer /\ answer \in ClaimAnswers
  BY <1>4, <1>5 DEF Continued, Reserves
<1>8. RunInv'
  <2> SUFFICES ASSUME NEW q \in Requests, pc'[q] = "executing" PROVE Holds(q)'
    BY DEF RunInv
  <2>1. CASE q = r
    BY <1>3, <1>7, <2>1 DEF EndsWell
  <2>2. CASE q # r
    BY <1>3, <1>6, <2>2 DEF EndsWell, RunnersStay
  <2> QED BY <2>1, <2>2
<1>9. QueueInv'
  <2> SUFFICES ASSUME NEW q \in Requests, pc'[q] \in {"reserving", "queued"}
               PROVE  /\ durable' /\ (OneFingerprint => cache'[home'[q]].state # "pending")
                      /\ pc'[q] = "reserving" => inFlight'[home'[q]] = q
    BY DEF QueueInv
  <2>1. q # r /\ home' = home /\ durable' = durable
    BY <1>1, <1>7 DEF ClaimAnswers, arrivals
  <2>2. pc[q] \in {"reserving", "queued"} /\ durable
    BY <1>6, <2>1 DEF KeyInv, QueueInv
  <2>3. CASE home[q] = home[r]
    <3>1. pc[q] = "queued"
      BY <1>4, <2>1, <2>2, <2>3 DEF KeyInv, QueueInv
    <3>2. QueuedGoesOn(home[r], r, c, answer, q) = "reserving"
      BY <1>5, <2>1, <2>3, <3>1, QueueRules DEF Continued
    <3>3. answer # "limited" /\ (answer = "conflict" \/ c.body # body[q])
      BY <3>2 DEF QueuedGoesOn
    <3>4. ASSUME OneFingerprint PROVE FALSE
      <4>1. answer # "conflict" /\ answer # "limited"
        BY <1>3, <3>3, <3>4 DEF EndsWell
      <4>2. c.body = body[r]
        BY <1>4, <4>1 DEF Reserves
      <4>3. body[r] \in Bodies /\ body[q] \in Bodies
        BY DEF KeyInv, TypeInv, TypeOK
      <4> QED BY <3>3, <3>4, <4>1, <4>2, <4>3 DEF OneFingerprint
    <3>5. pc'[q] = "reserving" => inFlight'[home[q]] = q
      BY <1>5, <2>1, <2>3, <3>1 DEF Continued
    <3> QED BY <2>1, <2>2, <3>4, <3>5
  <2>4. CASE home[q] # home[r]
    <3>1. pc'[q] = pc[q] /\ cache'[home[q]] = cache[home[q]] /\ inFlight'[home[q]] = inFlight[home[q]]
      BY <1>4, <1>5, <1>6, <2>1, <2>4, ElsewhereStays DEF Continued, KeyInv, TypeInv, TypeOK
    <3> QED BY <2>1, <2>2, <3>1 DEF KeyInv, QueueInv
  <2> QED BY <2>3, <2>4
<1>10. DoneInv'
  <2>1. \A q \in polls' : pc'[q] \notin {"new", "reserving", "queued", "executing"}
    BY <1>3, <1>4, <1>6, <1>7 DEF EndsWell, KeyInv, DoneInv, TypeInv, TypeOK
  <2>2. \A w \in writes : pc'[w.token] = pc[w.token]
    BY <1>4, <1>6 DEF KeyInv, DoneInv, TypeInv, TypeOK, Write
  <2> QED BY <1>1, <2>1, <2>2 DEF KeyInv, DoneInv
<1>11. FollowInv'
  <2> SUFFICES ASSUME NEW q \in Requests
               PROVE  /\ pc'[q] = "waiting" => on'[q] \in Requests /\ body[on'[q]] = body[q]
                      /\ reply'[q] # None => body[reply'[q]] = body[q]
    BY <1>1 DEF FollowInv, arrivals
  <2>1. CASE /\ reply'[q] = reply[q] /\ on'[q] = on[q]
             /\ pc'[q] # pc[q] => pc'[q] \notin {"waiting", "replayed"}
    BY <2>1 DEF KeyInv, FollowInv
  <2>2. CASE /\ pc'[q] \in {"waiting", "replayed"}
             /\ q = r \/ (pc[q] = "queued" /\ home[q] = home[r] /\ c.body = body[q])
             /\ reply'[q] = IF c.state = "completed" THEN c.owner ELSE None
             /\ on'[q] = IF c.state = "pending" THEN c.owner ELSE None
    <3>1. c.state # "none" => c.owner \in Requests /\ body[c.owner] = c.body /\ c.body = body[r]
      BY <1>4 DEF Reserves, Vouched
    <3>2. CASE c.state = "none"
      <4>1. answer \in {"limited", "conflict"} /\ q # r
        BY <1>4, <1>7, <2>2, <3>2 DEF Reserves
      <4>2. pc[q] = pc'[q]
        BY <1>5, <1>6, <2>2, <4>1, QueueRules DEF Continued
      <4>3. c.body = None /\ body[q] \in Bodies
        BY <1>4, <3>2 DEF Reserves, NoRecord, KeyInv, TypeInv, TypeOK
      <4> QED BY <2>2, <4>1, <4>3, IdempotencyAssumption
    <3>3. CASE c.state = "completed"
      <4>1. pc'[q] # "waiting"
        <5>1. CASE q = r
          BY <1>4, <1>7, <3>3, <5>1 DEF Reserves
        <5>2. CASE q # r
          <6>1. pc'[q] \in {QueuedGoesOn(home[r], r, c, answer, q), "queued"}
            BY <1>5, <2>2, <5>2 DEF Continued
          <6> QED BY <2>2, <3>3, <5>2, <6>1 DEF QueuedGoesOn
        <5> QED BY <5>1, <5>2
      <4> QED BY <2>2, <3>1, <3>3, <4>1
    <3>4. CASE c.state = "pending"
      BY <2>2, <3>1, <3>4
    <3>5. c.state \in {"none", "completed", "pending"}
      BY <1>4 DEF Reserves, Record
    <3> QED BY <3>2, <3>3, <3>4, <3>5
  <2> QED BY <1>5, <2>1, <2>2 DEF Continued
<1> QED BY <1>1, <1>8, <1>9, <1>10, <1>11 DEF KeyInv

-----------------------------------------------------------------------------
(* The other steps.                                                         *)

\* Where the record is not pending, nobody runs.
LEMMA NobodyRunsWithout ==
    ASSUME KeyInv, NEW p, cache[p].state # "pending", NEW q \in Requests, pc[q] = "executing"
    PROVE  home[q] # p
BY DEF KeyInv, RunInv, Holds

LEMMA ArrivalKeepsKey ==
    ASSUME KeyInv, NEW r \in Requests, Arrive(r)
    PROVE  KeyInv'
<1>1. TypeInv' /\ UNCHANGED arrivals /\ entry' = entry /\ polls' = polls /\ writes' = writes
  BY ArriveTypes DEF KeyInv, Arrive, ArriveKnown, ArriveFresh, ArriveDurable
<1>2. pc[r] = "new" /\ home[r] \in Replicas
  BY DEF Arrive, ArriveKnown, ArriveFresh, ArriveDurable, KeyInv, TypeInv, TypeOK
<1>3. \A q \in Requests \ {r} : pc'[q] = pc[q] /\ on'[q] = on[q] /\ reply'[q] = reply[q]
  BY DEF Arrive, ArriveKnown, ArriveFresh, ArriveDurable, Answer, Follow, KeyInv, TypeInv, TypeOK
<1>4. CASE ArriveKnown(r)
  <2> DEFINE c == Cleaned(home[r])
  <2>1. c = cache[home[r]] /\ c.state # "none" /\ Vouched(c) /\ cache' = cache /\ inFlight' = inFlight
    BY <1>2, <1>4 DEF ArriveKnown, Cleaned, NoRecord, KeyInv, TypeInv, Known
  <2>2. \/ pc'[r] = "conflict" /\ on' = on /\ reply' = reply
        \/ /\ pc'[r] \in {"replayed", "waiting"} /\ c.body = body[r]
           /\ pc'[r] = "waiting" => c.state # "completed"
           /\ reply'[r] = IF c.state = "completed" THEN c.owner ELSE None
           /\ on'[r] = IF c.state = "pending" THEN c.owner ELSE None
    BY <1>4 DEF ArriveKnown, Answer, Follow, KeyInv, TypeInv, TypeOK
  <2>3. RunInv'
    BY <1>1, <1>3, <2>1, <2>2, UntouchedHolds DEF KeyInv, RunInv
  <2>4. QueueInv'
    BY <1>1, <1>3, <2>1, <2>2 DEF KeyInv, QueueInv, arrivals
  <2>5. DoneInv'
    BY <1>1, <1>2, <1>3, <2>2 DEF KeyInv, DoneInv, TypeInv, TypeOK, Write
  <2>6. c.state \in {"completed", "pending"}
    BY <1>2, <2>1 DEF KeyInv, TypeInv, TypeOK, Record
  <2>7. FollowInv'
    BY <1>1, <1>3, <2>1, <2>2, <2>6 DEF KeyInv, FollowInv, arrivals, Vouched
  <2> QED BY <1>1, <2>3, <2>4, <2>5, <2>7 DEF KeyInv
<1>5. CASE ArriveFresh(r) \/ ArriveDurable(r)
  <2>1. cache[home[r]].state # "pending" /\ on' = on /\ reply' = reply
    <3>1. Cleaned(home[r]) = NoRecord
      BY <1>5 DEF ArriveFresh, ArriveDurable
    <3>2. cache[home[r]].state # "pending"
      BY <3>1 DEF Cleaned, NoRecord
    <3>3. on' = on /\ reply' = reply
      BY <1>5 DEF ArriveFresh, ArriveDurable, Answer
    <3> QED BY <3>2, <3>3
  <2>2. pc'[r] \notin {"waiting", "new"}
    BY <1>2, <1>5 DEF ArriveFresh, ArriveDurable, Answer, KeyInv, TypeInv, TypeOK
  <2>3. ASSUME NEW q \in Requests, home[q] # home[r]
        PROVE  cache'[home[q]] = cache[home[q]]
    BY <1>5, <2>3 DEF ArriveFresh, ArriveDurable, Keep, KeyInv, TypeInv, TypeOK
  <2>4. \A q \in Requests \ {r} : pc[q] = "executing" => Holds(q)'
    BY <1>1, <2>1, <2>3, NobodyRunsWithout, UntouchedHolds DEF KeyInv, RunInv
  <2>5. CASE ArriveFresh(r)
    <3>1. ~durable /\ inFlight' = inFlight
      BY <2>5 DEF ArriveFresh
    <3>2. pc'[r] = "executing" => Holds(r)'
      BY <1>1, <1>2, <2>5, <3>1
         DEF ArriveFresh, Answer, Keep, Pending, Holds, arrivals, KeyInv, TypeInv, TypeOK
    <3>3. pc'[r] \in {"executing", "limited"}
      BY <2>5 DEF ArriveFresh, Answer, KeyInv, TypeInv, TypeOK
    <3>4. RunInv'
      BY <1>3, <2>4, <3>2 DEF RunInv
    <3>5. QueueInv'
      BY <1>1, <1>3, <3>1, <3>3 DEF KeyInv, QueueInv, arrivals
    <3>6. DoneInv'
      BY <1>1, <1>2, <1>3 DEF KeyInv, DoneInv, TypeInv, TypeOK, Write
    <3>7. FollowInv'
      BY <1>1, <1>3, <2>1, <2>2 DEF KeyInv, FollowInv, arrivals
    <3> QED BY <1>1, <3>4, <3>5, <3>6, <3>7 DEF KeyInv
  <2>6. CASE ArriveDurable(r)
    <3>1. durable /\ cache'[home[r]].state # "pending"
      BY <1>2, <2>6 DEF ArriveDurable, Keep, NoRecord, KeyInv, TypeInv, TypeOK
    <3>2. \/ inFlight[home[r]] = None /\ pc'[r] = "reserving" /\ inFlight' = [inFlight EXCEPT ![home[r]] = r]
          \/ pc'[r] = "queued" /\ inFlight' = inFlight
      BY <2>6 DEF ArriveDurable, Answer, KeyInv, TypeInv, TypeOK
    <3>3. RunInv'
      BY <1>3, <2>4, <3>2 DEF RunInv
    <3>4. QueueInv'
      <4> SUFFICES ASSUME NEW q \in Requests, pc'[q] \in {"reserving", "queued"}
                   PROVE  /\ cache'[home[q]].state # "pending" \/ ~OneFingerprint
                          /\ pc'[q] = "reserving" => inFlight'[home[q]] = q
        BY <1>1, <3>1 DEF QueueInv, arrivals
      <4>1. cache'[home[q]].state # "pending" \/ ~OneFingerprint
        BY <1>3, <2>3, <3>1 DEF KeyInv, QueueInv
      <4>2. CASE q = r
        BY <1>2, <3>2, <4>1, <4>2 DEF KeyInv, TypeInv, TypeOK
      <4>3. CASE q # r
        <5>1. pc[q] = pc'[q] /\ (pc[q] = "reserving" => inFlight[home[q]] = q /\ q # None)
          BY <1>3, <4>3, IdempotencyAssumption DEF KeyInv, QueueInv
        <5> QED BY <1>2, <3>2, <4>1, <5>1 DEF KeyInv, TypeInv, TypeOK
      <4> QED BY <4>2, <4>3
    <3>5. DoneInv'
      BY <1>1, <1>2, <1>3 DEF KeyInv, DoneInv, TypeInv, TypeOK, Write
    <3>6. FollowInv'
      BY <1>1, <1>3, <2>1, <2>2 DEF KeyInv, FollowInv, arrivals
    <3> QED BY <1>1, <3>3, <3>4, <3>5, <3>6 DEF KeyInv
  <2> QED BY <1>5, <2>5, <2>6
<1> QED BY <1>4, <1>5 DEF Arrive

LEMMA ResponseKeepsKey ==
    ASSUME KeyInv, NEW r \in Requests, Respond(r)
    PROVE  KeyInv'
<1> DEFINE c == cache[home[r]]
           W == WaitingOn(home[r], r)
<1>1. /\ TypeInv' /\ UNCHANGED arrivals /\ entry' = entry /\ polls' = polls
      /\ on' = on /\ inFlight' = inFlight
  BY RespondTypes DEF KeyInv, Respond, Succeed, Fail, Answer
<1>2. pc[r] = "executing" /\ home[r] \in Replicas
  BY DEF Respond, Succeed, Fail, KeyInv, TypeInv, TypeOK
<1>3. c.state = "pending" /\ c.owner = r /\ c.body = body[r]
  BY <1>2 DEF KeyInv, RunInv, Holds, TypeInv, Known, Vouched
\* A running request owns the pending record: the two responses differ in little.
<1>4. \E op \in {"set", "release"} :
        LET by     == IF op = "set" THEN "executed" ELSE "failed"
            answer == IF op = "set" THEN "replayed" ELSE "released"
            from   == IF op = "set" THEN r ELSE None
        IN /\ pc' = [q \in Requests |-> IF q = r THEN by ELSE IF q \in W THEN answer ELSE pc[q]]
           /\ reply' = [q \in Requests |-> IF q \in W THEN from ELSE reply[q]]
           /\ cache' = [cache EXCEPT ![home[r]] =
                          IF op = "set" THEN Completed(body[r], r, FALSE) ELSE NoRecord]
           /\ writes' = writes \cup Saving(op, c, r)
  <2>1. CASE Succeed(r)
    BY <1>3, <2>1 DEF Succeed, Answered, Keep
  <2>2. CASE Fail(r)
    BY <1>3, <2>2 DEF Fail, Answered, Keep
  <2> QED BY <2>1, <2>2 DEF Respond
<1>5. PICK op \in {"set", "release"} :
        LET by     == IF op = "set" THEN "executed" ELSE "failed"
            answer == IF op = "set" THEN "replayed" ELSE "released"
            from   == IF op = "set" THEN r ELSE None
        IN /\ pc' = [q \in Requests |-> IF q = r THEN by ELSE IF q \in W THEN answer ELSE pc[q]]
           /\ reply' = [q \in Requests |-> IF q \in W THEN from ELSE reply[q]]
           /\ cache' = [cache EXCEPT ![home[r]] =
                          IF op = "set" THEN Completed(body[r], r, FALSE) ELSE NoRecord]
           /\ writes' = writes \cup Saving(op, c, r)
  BY <1>4
<1>6. \A q \in Requests : /\ pc'[q] # pc[q] => pc'[q] \in {"executed", "failed", "replayed", "released"}
                          /\ pc'[q] # pc[q] => q = r \/ pc[q] = "waiting"
  BY <1>5 DEF WaitingOn
<1>7. cache'[home[r]].state # "pending" /\ \A p \in Replicas \ {home[r]} : cache'[p] = cache[p]
  BY <1>2, <1>5 DEF Completed, NoRecord, KeyInv, TypeInv, TypeOK
<1>8. RunInv'
  <2> SUFFICES ASSUME NEW q \in Requests, pc'[q] = "executing" PROVE Holds(q)'
    BY DEF RunInv
  <2>1. pc[q] = "executing" /\ q # r
    BY <1>5, <1>6
  <2>2. home[q] # home[r] /\ home[q] \in Replicas
    BY <1>3, <2>1 DEF KeyInv, RunInv, Holds, TypeInv, TypeOK
  <2> QED BY <1>1, <1>7, <2>1, <2>2, UntouchedHolds DEF KeyInv, RunInv
<1>9. QueueInv'
  <2> SUFFICES ASSUME NEW q \in Requests, pc'[q] \in {"reserving", "queued"}
               PROVE  /\ durable /\ (OneFingerprint => cache'[home[q]].state # "pending")
                      /\ pc'[q] = "reserving" => inFlight[home[q]] = q
    BY <1>1 DEF QueueInv, arrivals
  <2>1. pc[q] = pc'[q] /\ home[q] \in Replicas
    BY <1>6 DEF KeyInv, TypeInv, TypeOK
  <2> QED BY <1>7, <2>1 DEF KeyInv, QueueInv
<1>10. DoneInv'
  <2>1. ASSUME NEW w \in Saving(op, c, r)
        PROVE  w.token = r /\ w.owner = r /\ w.op = op
    BY <1>3, <2>1 DEF Saving
  <2>2. ASSUME NEW w \in writes
        PROVE  w.token = w.owner /\ pc'[w.token] = pc[w.token]
    BY <1>2, <1>6 DEF KeyInv, DoneInv, TypeInv, TypeOK, Write
  <2>3. \A w \in writes' : /\ w.token = w.owner
                           /\ pc'[w.token] = IF w.op = "set" THEN "executed" ELSE "failed"
    BY <1>5, <2>1, <2>2 DEF KeyInv, DoneInv
  <2>4. \A q \in polls : pc'[q] \notin {"new", "reserving", "queued", "executing"}
    BY <1>1, <1>6 DEF KeyInv, DoneInv, TypeInv, TypeOK
  <2> QED BY <1>1, <2>3, <2>4 DEF DoneInv
<1>11. FollowInv'
  BY <1>1, <1>5, <1>6 DEF KeyInv, FollowInv, WaitingOn, arrivals
<1> QED BY <1>1, <1>8, <1>9, <1>10, <1>11 DEF KeyInv

LEMMA DisconnectionKeepsKey ==
    ASSUME KeyInv, NEW r \in Requests, Disconnect(r)
    PROVE  KeyInv'
<1>1. TypeInv' /\ UNCHANGED <<arrivals, on, reply, cache, inFlight, polls, entry, writes>>
  BY RespondTypes DEF KeyInv, Disconnect, Answer
<1>2. pc[r] = "executing" /\ pc' = [pc EXCEPT ![r] = "failed"]
  BY DEF Disconnect, Answer
<1>3. \A q \in Requests : q # r => pc'[q] = pc[q]
  BY <1>2 DEF KeyInv, TypeInv, TypeOK
<1>4. pc'[r] = "failed"
  BY <1>2 DEF KeyInv, TypeInv, TypeOK
<1>5. RunInv'
  BY <1>1, <1>3, <1>4, UntouchedHolds DEF KeyInv, RunInv
<1>6. QueueInv'
  BY <1>1, <1>3, <1>4 DEF KeyInv, QueueInv, arrivals
<1>7. DoneInv'
  BY <1>1, <1>2, <1>3 DEF KeyInv, DoneInv, TypeInv, TypeOK, Write
<1>8. FollowInv'
  BY <1>1, <1>3, <1>4 DEF KeyInv, FollowInv, arrivals
<1> QED BY <1>1, <1>5, <1>6, <1>7, <1>8 DEF KeyInv

LEMMA StoreKeepsKey ==
    ASSUME KeyInv, NEW w \in writes, Store(w)
    PROVE  KeyInv'
<1>1. TypeInv' /\ UNCHANGED <<arrivals, pc, on, reply, cache, inFlight, polls>> /\ writes' = writes \ {w}
  BY StoreTypes DEF KeyInv, Store
<1>2. entry' # entry => entry.owner = w.token /\ pc[w.token] # "executing"
  BY DEF Store, Fits, KeyInv, DoneInv
<1>3. RunInv'
  <2> SUFFICES ASSUME NEW q \in Requests, pc[q] = "executing" PROVE Holds(q)'
    BY <1>1 DEF RunInv
  <2>1. CASE entry' = entry
    BY <1>1, <2>1, UntouchedHolds DEF KeyInv, RunInv
  <2>2. CASE entry' # entry
    BY <1>1, <1>2, <2>2 DEF KeyInv, RunInv, Holds, arrivals
  <2> QED BY <2>1, <2>2
<1> QED BY <1>1, <1>3 DEF KeyInv, QueueInv, DoneInv, FollowInv, arrivals

LEMMA PollKeepsKey ==
    ASSUME KeyInv, NEW r \in Requests, Poll(r)
    PROVE  KeyInv'
<1>1. TypeInv' /\ UNCHANGED <<arrivals, on, inFlight, entry, writes>> /\ polls' = polls \ {r} /\ r \in polls
  BY PollTypes DEF KeyInv, Poll
<1>2. CASE UNCHANGED <<pc, reply, cache>>
  <2>1. RunInv'
    BY <1>1, <1>2, UntouchedHolds DEF KeyInv, RunInv
  <2> QED BY <1>1, <1>2, <2>1 DEF KeyInv, QueueInv, DoneInv, FollowInv, arrivals
<1>3. ASSUME cache[home[r]].state = "pending", cache[home[r]].owner = r,
             NEW result \in {"replayed", "conflict", "released"}, PollResult(r, result),
             Keep(home[r], IF result = "replayed" THEN Completed(entry.body, entry.owner, entry.old)
                                                  ELSE NoRecord),
             Settle(home[r], cache[home[r]], result, IF result = "replayed" THEN entry.owner ELSE None)
      PROVE  KeyInv'
  <2> DEFINE W == WaitingOn(home[r], r)
  <2>1. /\ pc' = [q \in Requests |-> IF q \in W THEN result ELSE pc[q]]
        /\ reply' = [q \in Requests |-> IF q \in W THEN IF result = "replayed" THEN entry.owner ELSE None
                                                   ELSE reply[q]]
    BY <1>3 DEF Settle
  <2>2. \A q \in Requests : pc'[q] # pc[q] => pc[q] = "waiting" /\ pc'[q] = result
    BY <2>1 DEF WaitingOn
  <2>3. home[r] \in Replicas
    BY DEF KeyInv, TypeInv, TypeOK
  <2>4. cache'[home[r]].state # "pending" /\ \A p \in Replicas \ {home[r]} : cache'[p] = cache[p]
    BY <1>3, <2>3 DEF Keep, Completed, NoRecord, KeyInv, TypeInv, TypeOK
  <2>5. RunInv'
    <3> SUFFICES ASSUME NEW q \in Requests, pc'[q] = "executing" PROVE Holds(q)'
      BY DEF RunInv
    <3>1. pc[q] = "executing" /\ q # r
      BY <1>1, <1>3, <2>2 DEF KeyInv, DoneInv
    <3>2. home[q] # home[r] /\ home[q] \in Replicas
      BY <1>3, <3>1 DEF KeyInv, RunInv, Holds, TypeInv, TypeOK
    <3> QED BY <1>1, <2>4, <3>1, <3>2, UntouchedHolds DEF KeyInv, RunInv
  <2>6. QueueInv'
    <3> SUFFICES ASSUME NEW q \in Requests, pc'[q] \in {"reserving", "queued"}
                 PROVE  /\ durable /\ (OneFingerprint => cache'[home[q]].state # "pending")
                        /\ pc'[q] = "reserving" => inFlight[home[q]] = q
      BY <1>1 DEF QueueInv, arrivals
    <3>1. pc[q] = pc'[q] /\ home[q] \in Replicas
      BY <1>3, <2>2 DEF KeyInv, TypeInv, TypeOK
    <3> QED BY <2>4, <3>1 DEF KeyInv, QueueInv
  <2>7. DoneInv'
    <3>1. \A w \in writes : pc'[w.token] = pc[w.token]
      BY <2>2 DEF KeyInv, DoneInv, TypeInv, TypeOK, Write
    <3>2. \A q \in polls : pc'[q] \notin {"new", "reserving", "queued", "executing"}
      BY <1>3, <2>2 DEF KeyInv, DoneInv, TypeInv, TypeOK
    <3> QED BY <1>1, <3>1, <3>2 DEF KeyInv, DoneInv
  <2>8. FollowInv'
    <3>1. ASSUME result = "replayed"
          PROVE  entry.owner \in Requests /\ body[entry.owner] = body[r]
      BY <1>3, <3>1 DEF PollResult, KeyInv, TypeInv, Known, Vouched
    <3>2. \A q \in W : body[q] = body[r]
      BY DEF WaitingOn, KeyInv, FollowInv
    <3> QED BY <1>1, <1>3, <2>1, <2>2, <3>1, <3>2 DEF KeyInv, FollowInv, arrivals
  <2> QED BY <1>1, <2>5, <2>6, <2>7, <2>8 DEF KeyInv
<1> QED BY <1>2, <1>3 DEF Poll

LEMMA WorldKeepsKey ==
    ASSUME KeyInv, Lapse \/ Stale \/ \E p \in Replicas : Cleanup(p) \/ Evict(p) \/ Crash(p)
    PROVE  KeyInv'
<1>1. TypeInv'
  BY WorldTypes DEF KeyInv
<1>2. CASE Lapse
  <2>1. UNCHANGED <<arrivals, pc, on, reply, inFlight, polls, writes>>
    BY <1>2 DEF Lapse
  <2>2. \A p \in Replicas : /\ cache'[p].state = cache[p].state /\ cache'[p].owner = cache[p].owner
                            /\ cache'[p].token = cache[p].token
    BY <1>2 DEF Lapse, KeyInv, TypeInv, TypeOK, Record
  <2>3. entry'.state = entry.state /\ entry'.owner = entry.owner
        /\ (entry.state = "pending" => entry'.old = entry.old)
    BY <1>2 DEF Lapse, KeyInv, TypeInv, TypeOK, Entry
  <2>4. \A r \in Requests : home[r] \in Replicas
    BY DEF KeyInv, TypeInv, TypeOK
  <2>5. RunInv'
    BY <2>1, <2>2, <2>3, <2>4 DEF KeyInv, RunInv, Holds, arrivals
  <2> QED BY <1>1, <2>1, <2>2, <2>4, <2>5 DEF KeyInv, QueueInv, DoneInv, FollowInv, arrivals
<1>3. CASE Stale
  <2>1. UNCHANGED <<arrivals, pc, on, reply, cache, inFlight, polls, writes>>
    BY <1>3 DEF Stale
  <2>2. Answering => pc[entry.owner] # "executing"
    BY <1>3 DEF Stale, Faulty, Answering
  <2>3. RunInv'
    BY <2>1, <2>2 DEF KeyInv, RunInv, Holds, arrivals
  <2> QED BY <1>1, <2>1, <2>3 DEF KeyInv, QueueInv, DoneInv, FollowInv, arrivals
<1>4. ASSUME NEW p \in Replicas, Cleanup(p) \/ Evict(p)
      PROVE  KeyInv'
  <2>1. UNCHANGED <<arrivals, pc, on, reply, inFlight, polls, entry, writes>>
    BY <1>4 DEF Cleanup, Evict
  <2>2. cache[p].state = "completed" /\ cache' = [cache EXCEPT ![p] = NoRecord]
    BY <1>4 DEF Cleanup, Evict, Cleaned, Keep
  <2>3. cache'[p].state # "pending" /\ \A x \in Replicas \ {p} : cache'[x] = cache[x]
    BY <2>2 DEF NoRecord, KeyInv, TypeInv, TypeOK
  <2>4. \A r \in Requests : home[r] \in Replicas
    BY DEF KeyInv, TypeInv, TypeOK
  <2>5. RunInv'
    BY <2>1, <2>2, <2>3, <2>4, NobodyRunsWithout, UntouchedHolds DEF KeyInv, RunInv
  <2>6. QueueInv'
    BY <2>1, <2>3, <2>4 DEF KeyInv, QueueInv, arrivals
  <2> QED BY <1>1, <2>1, <2>5, <2>6 DEF KeyInv, DoneInv, FollowInv, arrivals
<1>5. ASSUME NEW p \in Replicas, Crash(p)
      PROVE  KeyInv'
  <2>1. UNCHANGED <<arrivals, on, reply, entry>>
    BY <1>5 DEF Crash
  <2>2. \A r \in Requests : /\ home[r] \in Replicas
                            /\ pc'[r] = IF home[r] = p /\ pc[r] \in Open \ {"new"} THEN "lost" ELSE pc[r]
    BY <1>5 DEF Crash, KeyInv, TypeInv, TypeOK
  <2>3. \A x \in Replicas \ {p} : cache'[x] = cache[x] /\ inFlight'[x] = inFlight[x]
    BY <1>5 DEF Crash, Keep, KeyInv, TypeInv, TypeOK
  <2>4. polls' \subseteq polls /\ writes' \subseteq writes
    BY <1>5 DEF Crash
  <2>5. RunInv'
    <3> SUFFICES ASSUME NEW q \in Requests, pc'[q] = "executing" PROVE Holds(q)'
      BY DEF RunInv
    <3>1. pc[q] = "executing" /\ home[q] # p
      BY <2>2 DEF Open
    <3> QED BY <2>1, <2>2, <2>3, <3>1, UntouchedHolds DEF KeyInv, RunInv
  <2>6. QueueInv'
    <3> SUFFICES ASSUME NEW q \in Requests, pc'[q] \in {"reserving", "queued"}
                 PROVE  /\ durable /\ (OneFingerprint => cache'[home[q]].state # "pending")
                        /\ pc'[q] = "reserving" => inFlight'[home[q]] = q
      BY <2>1 DEF QueueInv, arrivals
    <3>1. pc[q] = pc'[q] /\ home[q] # p
      BY <2>2 DEF Open
    <3> QED BY <2>2, <2>3, <3>1 DEF KeyInv, QueueInv
  <2>7. DoneInv'
    <3>1. \A q \in polls : pc'[q] \notin {"new", "reserving", "queued", "executing"}
      BY <2>2 DEF KeyInv, DoneInv, TypeInv, TypeOK
    <3>2. \A w \in writes : pc'[w.token] = pc[w.token]
      BY <2>2 DEF Open, KeyInv, DoneInv, TypeInv, TypeOK, Write
    <3> QED BY <2>4, <3>1, <3>2 DEF KeyInv, DoneInv
  <2>8. FollowInv'
    BY <2>1, <2>2 DEF KeyInv, FollowInv, arrivals
  <2> QED BY <1>1, <2>5, <2>6, <2>7, <2>8 DEF KeyInv
<1> QED BY <1>2, <1>3, <1>4, <1>5

LEMMA StepKeepsKey ==
    ASSUME OneFingerprint \/ Answering, KeyInv, [Next]_vars
    PROVE  KeyInv'
<1>1. CASE UNCHANGED vars
  BY <1>1 DEF vars, KeyInv, TypeInv, TypeOK, Known, Vouched, RunInv, Holds, QueueInv, DoneInv, FollowInv
<1> QED BY <1>1, ArrivalKeepsKey, ReservationKeepsKey, ResponseKeepsKey, DisconnectionKeepsKey,
           PollKeepsKey, StoreKeepsKey, WorldKeepsKey DEF Next

LEMMA KeyAlways == ASSUME OneFingerprint \/ Answering PROVE Spec => []KeyInv
<1>1. Init => KeyInv
  <2> SUFFICES ASSUME Init PROVE KeyInv
    OBVIOUS
  <2>1. TypeInv
    BY IdempotencyAssumption
       DEF Init, TypeInv, TypeOK, Known, Open, NoRecord, NoEntry, Record, Entry
  <2> QED BY <2>1 DEF Init, KeyInv, RunInv, QueueInv, DoneInv, FollowInv
<1>2. KeyInv /\ [Next]_vars => KeyInv'
  BY StepKeepsKey
<1> QED BY <1>1, <1>2, PTL DEF Spec

\* In one replica two requests of one fingerprint do not run at the same time, unless
\* their record was replaced.
THEOREM RunsOnceInAReplica ==
    ASSUME OneFingerprint \/ Answering PROVE Spec => []LocalExclusive
<1>1. KeyInv => LocalExclusive
  BY DEF KeyInv, RunInv, Holds, LocalExclusive, Running
<1> QED BY <1>1, KeyAlways, PTL

\* A request is only given the response of a request with the same fingerprint.
THEOREM ReplaysMatch ==
    ASSUME OneFingerprint \/ Answering PROVE Spec => []ReplayMatches
<1>1. KeyInv => ReplayMatches
  BY DEF KeyInv, FollowInv, ReplayMatches
<1> QED BY <1>1, KeyAlways, PTL

\* Firestore keeps only responses of the request that holds the claim, or to the same
\* request from one whose record was replaced.
THEOREM ClaimantStores ==
    ASSUME OneFingerprint \/ Answering PROVE Spec => StoredByClaimant
<1> DEFINE Step == entry'.state = "completed" /\ entry # entry'
                     => /\ entry.state \in {"pending", "completed"} /\ entry'.body = entry.body
                        /\ entry'.owner = entry.owner \/ Displaced(entry'.owner)
<1>1. KeyInv /\ [Next]_vars => [Step]_vars
  <2> SUFFICES ASSUME KeyInv, Next, entry'.state = "completed", entry # entry'
               PROVE  /\ entry.state \in {"pending", "completed"}
                      /\ entry'.body = entry.body /\ entry'.owner = entry.owner
    OBVIOUS
  <2>1. ASSUME NEW r \in Requests, Arrive(r) \/ Respond(r) \/ Disconnect(r) \/ Poll(r)
        PROVE  FALSE
    BY <2>1 DEF Arrive, ArriveKnown, ArriveFresh, ArriveDurable, Respond, Succeed, Fail, Disconnect, Poll
  <2>2. ASSUME NEW r \in Requests, Reserve(r)
        PROVE  FALSE
    <3>1. Claim(r)
      BY <2>2 DEF Reserve, ReserveFresh, ReserveConflict, ReserveCompleted, ReservePending, ReserveFails
    <3> QED BY <3>1 DEF Claim
  <2>3. ASSUME NEW w \in writes, Store(w)
        PROVE  entry.state = "pending" /\ entry'.body = entry.body /\ entry'.owner = entry.owner
    <3>1. Fits(w) /\ entry' = Stored(w)
      BY <2>3 DEF Store
    <3> QED BY <3>1 DEF Fits, Stored, NoEntry, KeyInv, DoneInv
  <2>4. CASE Lapse \/ Stale
    BY <2>4 DEF Lapse, Stale, KeyInv, TypeInv, TypeOK, Entry
  <2>5. ASSUME NEW p \in Replicas, Cleanup(p) \/ Evict(p) \/ Crash(p)
        PROVE  FALSE
    BY <2>5 DEF Cleanup, Evict, Crash
  <2> QED BY <2>1, <2>2, <2>3, <2>4, <2>5 DEF Next
<1> QED BY <1>1, KeyAlways, PTL DEF Spec, StoredByClaimant

\* Two requests with the same key never run at the same time, in one replica or in
\* two, as long as Firestore answers and nobody outlives its claim.
THEOREM RunsExclusively == ASSUME Answering PROVE Spec => []Exclusive
<1>1. KeyInv => Exclusive
  <2> SUFFICES ASSUME KeyInv, durable PROVE Cardinality(Running) <= 1
    BY DEF Exclusive
  <2>1. Running \subseteq {entry.owner}
    BY DEF KeyInv, RunInv, Holds, Running
  <2>2. IsFiniteSet({entry.owner}) /\ Cardinality({entry.owner}) = 1
    BY FS_Singleton
  <2>3. Cardinality(Running) <= Cardinality({entry.owner})
    BY <2>1, <2>2, FS_Subset
  <2> QED BY <2>2, <2>3
<1> QED BY <1>1, KeyAlways, PTL

-----------------------------------------------------------------------------
(* How often a request takes effect.  Each replay period has at most one    *)
(* response that counts; Spent says that the current one has had its own.   *)

Effective == {r \in Requests : pc[r] = "executed" /\ home[r] \notin crashed}

ToStore == entry.state = "pending" /\ entry.owner \in Effective

Spent == (entry.state = "completed" /\ ~entry.old) \/ ToStore

Counted == /\ IsFiniteSet(Effective)
           /\ Cardinality(Effective) <= lapses + (IF Spent THEN 1 ELSE 0)

\* A response that counts and is not stored yet is on its way.
OnItsWay == ToStore => ~entry.old /\ \E w \in writes : w.op = "set" /\ w.token = entry.owner

EffectInv == durable => Counted /\ OnItsWay

LEMMA CountedStays ==
    ASSUME TypeInv, TypeInv', Counted, Effective' \subseteq Effective,
           \/ lapses' = lapses /\ (Spent => Spent')
           \/ lapses' = lapses + 1
           \/ lapses' = lapses /\ \E r \in Effective : r \notin Effective'
    PROVE  Counted'
<1>1. IsFiniteSet(Effective') /\ Cardinality(Effective') <= Cardinality(Effective)
  BY FS_Subset DEF Counted
<1>2. Cardinality(Effective) \in Nat /\ Cardinality(Effective') \in Nat
  BY <1>1, FS_CardinalityType DEF Counted
<1>3. lapses \in Nat /\ lapses' \in Nat
  BY IdempotencyAssumption DEF TypeInv, TypeOK
<1>4. CASE \E r \in Effective : r \notin Effective'
  <2>1. Effective' # Effective
    BY <1>4
  <2>2. Cardinality(Effective') # Cardinality(Effective)
    BY <2>1, FS_Subset DEF Counted
  <2>3. Cardinality(Effective') + 1 <= lapses + 1
    BY <1>1, <1>2, <1>3, <2>2 DEF Counted
  <2> QED BY <1>1, <1>2, <1>3, <2>3 DEF Counted
<1>5. CASE lapses' = lapses /\ (Spent => Spent')
  BY <1>1, <1>2, <1>3, <1>5 DEF Counted
<1>6. CASE lapses' = lapses + 1
  BY <1>1, <1>2, <1>3, <1>6 DEF Counted
<1> QED BY <1>4, <1>5, <1>6

\* Steps that answer nobody with a response of their own leave the count alone.
LEMMA EffectStays ==
    ASSUME TypeInv, TypeInv', EffectInv, durable' = durable, Effective' = Effective,
           entry' = entry, writes \subseteq writes', lapses' = lapses
    PROVE  EffectInv'
<1>1. Spent' = Spent /\ ToStore' = ToStore
  BY DEF Spent, ToStore
<1>2. durable => Counted'
  BY <1>1, CountedStays DEF EffectInv
<1> QED BY <1>1, <1>2 DEF EffectInv, OnItsWay

LEMMA ReservationKeepsEffect ==
    ASSUME Answering, KeyInv, KeyInv', EffectInv, NEW r \in Requests, Reserve(r)
    PROVE  EffectInv'
<1>1. UNCHANGED <<arrivals, writes, crashed, lapses>> /\ pc[r] = "reserving"
  BY DEF Reserve, ReserveFresh, ReserveConflict, ReserveCompleted, ReservePending, ReserveFails, Reserving
<1>2. \E c, answer : EndsWell(r, c, answer)
  BY FreshEndsWell, ConflictEndsWell, CompletedEndsWell, PendingEndsWell, FailEndsWell DEF Reserve
<1>3. PICK c, answer : EndsWell(r, c, answer)
  BY <1>2
<1>4. Continued(r, c, answer) /\ answer \in ClaimAnswers
  BY <1>3, ReservationContinues DEF EndsWell, Reserves, ClaimAnswers, Answers, KeyInv, TypeInv
<1>5. \A q \in Requests : pc[q] = "executed" <=> pc'[q] = "executed"
  <2>1. pc'[r] # "executed"
    BY <1>4 DEF Continued, ClaimAnswers
  <2>2. \A q \in Requests \ {r} : pc'[q] = pc[q] \/ (pc[q] = "queued" /\ pc'[q] # "executed")
    BY <1>4, QueueRules DEF Continued
  <2> QED BY <1>1, <2>1, <2>2
<1>6. Effective' = Effective
  BY <1>1, <1>5 DEF Effective, arrivals
<1>7. \/ entry' = entry
      \/ Claimable /\ Claim(r)
  BY DEF Reserve, ReserveFresh, ReserveConflict, ReserveCompleted, ReservePending, ReserveFails
<1>8. CASE entry' = entry
  BY <1>1, <1>6, <1>8, EffectStays DEF KeyInv, arrivals
<1>9. CASE Claimable /\ Claim(r)
  <2>1. r \notin Effective' /\ entry'.state = "pending" /\ entry'.owner = r
    BY <1>1, <1>6, <1>9 DEF Effective, Claim
  <2>2. ~ToStore'
    BY <2>1 DEF ToStore
  <2>3. durable => ~Spent
    BY <1>9 DEF Claimable, Spent, EffectInv, OnItsWay, ToStore
  <2>4. durable => Counted'
    BY <1>1, <1>6, <2>3, CountedStays DEF EffectInv, KeyInv
  <2> QED BY <1>1, <2>2, <2>4 DEF EffectInv, OnItsWay, arrivals
<1> QED BY <1>7, <1>8, <1>9

LEMMA SuccessKeepsEffect ==
    ASSUME Answering, KeyInv, KeyInv', EffectInv, NEW r \in Requests, Succeed(r)
    PROVE  EffectInv'
<1>1. UNCHANGED <<arrivals, crashed, entry, lapses>> /\ pc[r] = "executing"
  BY DEF Succeed
<1> SUFFICES ASSUME durable PROVE Counted' /\ OnItsWay'
  BY <1>1 DEF EffectInv, arrivals
<1>2. /\ cache[home[r]].state = "pending" /\ cache[home[r]].owner = r /\ cache[home[r]].token
      /\ entry.state = "pending" /\ entry.owner = r /\ ~entry.old
  BY <1>1 DEF KeyInv, RunInv, Holds
<1>3. \A q \in Requests \ {r} : pc'[q] = "executed" <=> pc[q] = "executed"
  BY DEF Succeed, Answered, WaitingOn
<1>4. pc'[r] = "executed"
  BY DEF Succeed, Answered
<1>5. r \notin Effective /\ ~Spent
  BY <1>1, <1>2 DEF Effective, Spent, ToStore
<1>6. Effective' = IF home[r] \in crashed THEN Effective ELSE Effective \cup {r}
  BY <1>1, <1>3, <1>4 DEF Effective, arrivals
<1>7. \E w \in writes' : w.op = "set" /\ w.token = r
  <2> DEFINE w == [op |-> "set", token |-> r, body |-> body[r], owner |-> r]
  <2>1. Saving("set", cache[home[r]], r) = {w}
    BY <1>2 DEF Saving
  <2>2. w \in writes'
    BY <2>1 DEF Succeed
  <2> QED BY <2>2
<1>8. OnItsWay'
  BY <1>1, <1>2, <1>7 DEF OnItsWay
<1>9. CASE home[r] \in crashed
  BY <1>1, <1>5, <1>6, <1>8, <1>9, CountedStays DEF EffectInv, KeyInv
<1>10. CASE home[r] \notin crashed
  <2>1. IsFiniteSet(Effective') /\ Cardinality(Effective') = Cardinality(Effective) + 1
    BY <1>5, <1>6, <1>10, FS_AddElement DEF EffectInv, Counted
  <2>2. Spent'
    BY <1>1, <1>2, <1>6, <1>10 DEF Spent, ToStore
  <2>3. Cardinality(Effective) \in Nat /\ lapses \in Nat
    BY FS_CardinalityType, IdempotencyAssumption DEF EffectInv, Counted, KeyInv, TypeInv, TypeOK
  <2> QED BY <1>1, <1>5, <1>8, <2>1, <2>2, <2>3 DEF EffectInv, Counted
<1> QED BY <1>9, <1>10

LEMMA StoreKeepsEffect ==
    ASSUME Answering, KeyInv, KeyInv', EffectInv, NEW w \in writes, Store(w)
    PROVE  EffectInv'
<1>1. UNCHANGED <<arrivals, pc, crashed, lapses>> /\ writes' = writes \ {w} /\ Effective' = Effective
  BY DEF Store, Effective, arrivals
<1>2. entry' = IF Fits(w) THEN Stored(w) ELSE entry
  BY DEF Store, Faulty, Answering
<1> SUFFICES ASSUME durable PROVE Counted' /\ OnItsWay'
  BY <1>1 DEF EffectInv, arrivals
<1>3. w.token = w.owner /\ w.body = body[w.owner] /\ w.op \in {"set", "release"} /\ w.token \in Requests
  BY DEF KeyInv, DoneInv, TypeInv, TypeOK, Known, Write
<1>4. CASE ~Fits(w)
  <2>1. entry' = entry
    BY <1>2, <1>4
  <2>2. ToStore => entry.owner # w.token
    BY <1>3, <1>4 DEF ToStore, Fits, KeyInv, TypeInv, Known, Vouched
  <2>3. OnItsWay'
    BY <1>1, <2>1, <2>2 DEF EffectInv, OnItsWay, ToStore
  <2>4. Spent' = Spent
    BY <1>1, <2>1 DEF Spent, ToStore
  <2> QED BY <1>1, <2>3, <2>4, CountedStays DEF EffectInv, KeyInv
<1>5. CASE Fits(w) /\ w.op = "set"
  <2>1. entry'.state = "completed" /\ ~entry'.old
    BY <1>2, <1>5 DEF Stored
  <2>2. Spent' /\ ~ToStore'
    BY <2>1 DEF Spent, ToStore
  <2> QED BY <1>1, <2>2, CountedStays DEF EffectInv, KeyInv, OnItsWay
<1>6. CASE Fits(w) /\ w.op = "release"
  <2>1. entry' = NoEntry
    BY <1>2, <1>6 DEF Stored
  <2>2. entry.state = "pending" /\ pc[entry.owner] = "failed"
    BY <1>6 DEF Fits, KeyInv, DoneInv
  <2>3. ~Spent /\ ~ToStore'
    BY <2>1, <2>2 DEF Spent, ToStore, NoEntry, Effective
  <2> QED BY <1>1, <2>3, CountedStays DEF EffectInv, KeyInv, OnItsWay
<1> QED BY <1>3, <1>4, <1>5, <1>6

LEMMA CrashKeepsEffect ==
    ASSUME KeyInv, KeyInv', EffectInv, NEW p \in Replicas, Crash(p)
    PROVE  EffectInv'
<1>1. UNCHANGED <<arrivals, entry, lapses>> /\ crashed' = crashed \cup {p}
      /\ writes' = {w \in writes : home[w.owner] # p}
  BY DEF Crash
<1>2. \A q \in Requests : pc'[q] = "executed" <=> pc[q] = "executed"
  BY DEF Crash, Open
<1>3. Effective' = {q \in Effective : home[q] # p}
  BY <1>1, <1>2 DEF Effective, arrivals
<1> SUFFICES ASSUME durable PROVE Counted' /\ OnItsWay'
  BY <1>1 DEF EffectInv, arrivals
<1>4. OnItsWay'
  <2> SUFFICES ASSUME ToStore'
               PROVE  ~entry.old /\ \E w \in writes' : w.op = "set" /\ w.token = entry.owner
    BY <1>1 DEF OnItsWay
  <2>1. ToStore /\ home[entry.owner] # p
    BY <1>1, <1>3 DEF ToStore
  <2>2. PICK w \in writes : w.op = "set" /\ w.token = entry.owner
    BY <2>1 DEF EffectInv, OnItsWay
  <2>3. w \in writes'
    BY <1>1, <2>1, <2>2 DEF KeyInv, DoneInv
  <2> QED BY <2>1, <2>2, <2>3 DEF EffectInv, OnItsWay
<1>5. (Spent => Spent') \/ \E q \in Effective : q \notin Effective'
  BY <1>1, <1>3 DEF Spent, ToStore
<1>6. Effective' \subseteq Effective
  BY <1>3
<1> QED BY <1>1, <1>4, <1>5, <1>6, CountedStays DEF EffectInv, KeyInv

LEMMA StepKeepsEffect ==
    ASSUME Answering, KeyInv, KeyInv', EffectInv, [Next]_vars
    PROVE  EffectInv'
<1>1. CASE UNCHANGED vars
  <2>1. Effective' = Effective
    BY <1>1 DEF vars, Effective
  <2> QED BY <1>1, <2>1, EffectStays DEF vars, KeyInv
<1>2. ASSUME NEW r \in Requests, Arrive(r) \/ Fail(r) \/ Disconnect(r) \/ Poll(r)
      PROVE  EffectInv'
  <2>1. UNCHANGED <<arrivals, entry, crashed, lapses>> /\ writes \subseteq writes'
    BY <1>2 DEF Arrive, ArriveKnown, ArriveFresh, ArriveDurable, Fail, Disconnect, Poll
  <2>2. \A q \in Requests : pc'[q] = "executed" <=> pc[q] = "executed"
    <3>1. CASE Arrive(r)
      <4>1. pc[r] = "new" /\ \A q \in Requests \ {r} : pc'[q] = pc[q]
        BY <3>1 DEF Arrive, ArriveKnown, ArriveFresh, ArriveDurable, Answer, Follow, KeyInv, TypeInv, TypeOK
      <4>2. pc'[r] # "executed"
        BY <3>1 DEF Arrive, ArriveKnown, ArriveFresh, ArriveDurable, Answer, Follow, KeyInv, TypeInv, TypeOK
      <4> QED BY <4>1, <4>2
    <3>2. CASE Fail(r) \/ Disconnect(r)
      BY <3>2 DEF Fail, Disconnect, Answer, Answered, WaitingOn, KeyInv, TypeInv, TypeOK
    <3>3. CASE Poll(r)
      BY <3>3 DEF Poll, Settle, WaitingOn, KeyInv, TypeInv, TypeOK
    <3> QED BY <1>2, <3>1, <3>2, <3>3
  <2>3. Effective' = Effective
    BY <2>1, <2>2 DEF Effective, arrivals
  <2> QED BY <2>1, <2>3, EffectStays DEF KeyInv, arrivals
<1>3. ASSUME NEW p \in Replicas, Cleanup(p) \/ Evict(p)
      PROVE  EffectInv'
  <2>1. UNCHANGED <<arrivals, pc, entry, writes, crashed, lapses>>
    BY <1>3 DEF Cleanup, Evict
  <2>2. Effective' = Effective
    BY <2>1 DEF Effective, arrivals
  <2> QED BY <2>1, <2>2, EffectStays DEF KeyInv, arrivals
<1>4. CASE Lapse
  <2>1. UNCHANGED <<arrivals, pc, writes, crashed>> /\ lapses' = lapses + 1
    BY <1>4 DEF Lapse
  <2>2. Effective' = Effective
    BY <2>1 DEF Effective, arrivals
  <2>3. entry'.state = entry.state /\ entry'.owner = entry.owner
        /\ (entry.state = "pending" => entry'.old = entry.old)
    BY <1>4 DEF Lapse, KeyInv, TypeInv, TypeOK, Entry
  <2>4. durable => OnItsWay'
    BY <2>1, <2>2, <2>3 DEF EffectInv, OnItsWay, ToStore
  <2> QED BY <2>1, <2>2, <2>4, CountedStays DEF EffectInv, KeyInv, arrivals
<1>5. CASE Stale
  <2>1. UNCHANGED <<arrivals, pc, writes, crashed, lapses>>
    BY <1>5 DEF Stale
  <2>2. Effective' = Effective
    BY <2>1 DEF Effective, arrivals
  <2>3. entry.state = "pending" /\ entry'.state = "pending" /\ entry'.owner = entry.owner
    BY <1>5 DEF Stale, KeyInv, TypeInv, TypeOK, Entry
  <2>4. ~\E w \in writes : w.token = entry.owner
    BY <1>5 DEF Stale, Faulty, Answering
  <2>5. durable => ~ToStore /\ ~Spent /\ ~ToStore'
    BY <2>2, <2>3, <2>4 DEF EffectInv, OnItsWay, ToStore, Spent
  <2> QED BY <2>1, <2>2, <2>5, CountedStays DEF EffectInv, OnItsWay, KeyInv, arrivals
<1> QED BY <1>1, <1>2, <1>3, <1>4, <1>5, ReservationKeepsEffect, SuccessKeepsEffect,
           StoreKeepsEffect, CrashKeepsEffect DEF Next, Respond

\* In a replay period a request takes effect once, unless the replica that answered
\* crashed, as long as Firestore answers and nobody outlives its claim.
THEOREM TakesEffectOnce == ASSUME Answering PROVE Spec => []EffectOnce
<1>1. Init => EffectInv
  <2> SUFFICES ASSUME Init PROVE EffectInv
    OBVIOUS
  <2>1. Effective = {} /\ ~ToStore /\ lapses = 0
    BY DEF Init, Effective, ToStore, NoEntry
  <2>2. IsFiniteSet(Effective) /\ Cardinality(Effective) = 0
    BY <2>1, FS_EmptySet
  <2>3. Counted
    BY <2>1, <2>2 DEF Counted
  <2> QED BY <2>1, <2>3 DEF EffectInv, OnItsWay
<1>2. EffectInv /\ KeyInv /\ KeyInv' /\ [Next]_vars => EffectInv'
  BY StepKeepsEffect
<1>3. EffectInv /\ KeyInv => EffectOnce
  <2> SUFFICES ASSUME EffectInv, KeyInv, durable PROVE Cardinality(Effective) <= 1 + lapses
    BY DEF EffectOnce, Effective
  <2> QED BY FS_CardinalityType, IdempotencyAssumption
          DEF EffectInv, Counted, KeyInv, TypeInv, TypeOK
<1> QED BY <1>1, <1>2, <1>3, KeyAlways, PTL DEF Spec
=============================================================================
