--------------------------- MODULE NewsDedupProofs ---------------------------
(***************************************************************************)
(* What the deduplication of the news monitor guarantees for any number of *)
(* requests, replicas and channels.  The types come first, then who holds  *)
(* the locks and leases of a channel, then how often an alert is produced, *)
(* where it is known and who may still deliver it.                         *)
(***************************************************************************)
EXTENDS NewsDedup, FiniteSetTheorems, TLAPS

-----------------------------------------------------------------------------
(* Types.                                                                   *)

LEMMA DataTypes ==
    /\ NoResults \in Results /\ Nothing \in Data /\ Claimed \in Data /\ NoLock \in Lock
    /\ NoWork \in Work /\ Claimed # Nothing
    /\ Nothing.status = "none" /\ Nothing.alert = None /\ Nothing.results = NoResults
    /\ Claimed.status = "claiming" /\ Claimed.alert = None /\ Claimed.results = NoResults
    /\ [Nothing EXCEPT !.status = "final"] =
         [status |-> "final", alert |-> None, results |-> NoResults]
<1>1. NoResults \in Results
  BY DEF NoResults, Results
<1>2. Nothing \in Data /\ Claimed \in Data
  BY <1>1 DEF Nothing, Claimed, Data
<1>3. NoLock \in Lock
  BY DEF NoLock, Lock
<1>4. NoWork \in Work
  BY <1>1, <1>2 DEF NoWork, Work
<1> QED BY <1>1, <1>2, <1>3, <1>4 DEF Nothing, Claimed

LEMMA FaultyCounts ==
    ASSUME Types, NEW k, Faulty(k)
    PROVE  /\ k \in FaultKinds /\ faults' \in [FaultKinds -> Nat] /\ faults'[k] = faults[k] + 1
           /\ \A x \in FaultKinds : faults'[x] >= faults[x] /\ (x # k => faults'[x] = faults[x])
           /\ \A x \in FaultKinds : faults'[x] \in Nat /\ faults[x] \in Nat
BY DEF Faulty, Types

\* How r goes on claiming: of the channels of todo it gets mine, asks for next, and
\* leaves the rest; L are the locks it starts from.
Leased(r, data, L, todo, owned, mine, next) ==
    /\ mine \subseteq todo /\ next \in todo \cup {None} /\ next \notin mine
    /\ \A c \in mine : ~L[c].active /\ (L[c].live \/ ~persistent)
    /\ next # None => ~L[next].active /\ ~L[next].live /\ persistent
    /\ \A p \in Replicas \ {home[r]} : locks'[p] = locks[p]
    /\ \A c \in Channels : locks'[home[r]][c] = IF c \in mine \cup {next} THEN Grab(r, L[c]) ELSE L[c]
    /\ \A q \in Requests \ {r} : pc'[q] = pc[q] /\ work'[q] = work[q]
    /\ work'[r].owned = owned \cup mine /\ work'[r].trying = next /\ work'[r].todo \subseteq todo
    /\ \/ pc'[r] = "done" /\ work'[r] = NoWork /\ next = None
       \/ /\ pc'[r] = IF next = None THEN "resending" ELSE "leasing"
          /\ work'[r].data = data /\ work'[r].results = NoResults

LEMMA GrabIsLock ==
    ASSUME NEW r \in Requests, NEW l \in Lock
    PROVE  Grab(r, l) \in Lock /\ Grab(r, l).active /\ Grab(r, l).live = l.live
           /\ Grab(r, l).token = IF l.live THEN l.token ELSE r
BY DEF Grab, Lock

LEMMA LeasesOutcome ==
    ASSUME Types, NEW r \in Requests, NEW data \in Data, NEW L \in [Channels -> Lock],
           NEW todo \in SUBSET Channels, NEW owned \in SUBSET Channels,
           Leases(r, data, L, todo, owned)
    PROVE  /\ locks' \in [Replicas -> [Channels -> Lock]]
           /\ work' \in [Requests -> Work] /\ pc' \in [Requests -> Steps]
           /\ \E mine, next : Leased(r, data, L, todo, owned, mine, next)
<1>1. PICK now \in SUBSET todo, next \in todo \cup {None} :
        LET mine == {c \in now : ~L[c].active} IN
        /\ \A c \in now : Immediate(L[c])
        /\ IF next = None THEN now = todo ELSE next \notin now /\ ~Immediate(L[next])
        /\ locks' = [locks EXCEPT ![home[r]] =
                     [c \in Channels |-> IF c \in mine \cup {next} THEN Grab(r, L[c]) ELSE L[c]]]
        /\ IF next = None /\ owned \cup mine = {}
           THEN Ends(r)
           ELSE /\ Goes(r, IF next = None THEN "resending" ELSE "leasing")
                /\ work' = [work EXCEPT ![r] = [NoWork EXCEPT !.data = data,
                            !.todo = todo \ (now \cup {next}), !.trying = next,
                            !.owned = owned \cup mine]]
  BY DEF Leases
<1> DEFINE mine == {c \in now : ~L[c].active}
           left == todo \ (now \cup {next})
           got  == [NoWork EXCEPT !.data = data, !.todo = left, !.trying = next,
                                  !.owned = owned \cup mine]
<1>2. home[r] \in Replicas /\ persistent \in BOOLEAN
  BY NewsDedupAssumption DEF Types
<1>3. [c \in Channels |-> IF c \in mine \cup {next} THEN Grab(r, L[c]) ELSE L[c]] \in [Channels -> Lock]
  BY GrabIsLock
<1>4. locks' \in [Replicas -> [Channels -> Lock]]
  BY <1>1, <1>3 DEF Types
<1>5. /\ \A p \in Replicas \ {home[r]} : locks'[p] = locks[p]
      /\ \A c \in Channels : locks'[home[r]][c] = IF c \in mine \cup {next} THEN Grab(r, L[c]) ELSE L[c]
  BY <1>1, <1>2 DEF Types
<1>6. /\ got \in Work /\ got.data = data /\ got.todo = left /\ got.trying = next
      /\ got.owned = owned \cup mine /\ got.results = NoResults
  BY DataTypes DEF Work, NoWork
<1> HIDE DEF got
<1>7. work' \in [Requests -> Work] /\ pc' \in [Requests -> Steps]
  <2>1. work' = [work EXCEPT ![r] = NoWork] \/ work' = [work EXCEPT ![r] = got]
    BY <1>1 DEF Ends, got
  <2>2. \E step \in Steps : pc' = [pc EXCEPT ![r] = step]
    BY <1>1 DEF Ends, Goes, Steps
  <2> QED BY <1>6, <2>1, <2>2, DataTypes DEF Types
<1>8. \A q \in Requests \ {r} : pc'[q] = pc[q] /\ work'[q] = work[q]
  BY <1>1 DEF Types, Ends, Goes
<1>9. CASE next = None /\ owned \cup mine = {}
  <2>1. pc'[r] = "done" /\ work'[r] = NoWork
    BY <1>1, <1>9 DEF Types, Ends, Goes
  <2>2. work'[r].owned = owned \cup mine /\ work'[r].trying = next /\ work'[r].todo \subseteq todo
    BY <1>9, <2>1 DEF NoWork
  <2>3. Leased(r, data, L, todo, owned, mine, next)
    BY <1>1, <1>5, <1>8, <1>9, <2>1, <2>2 DEF Leased, Immediate
  <2> QED BY <1>4, <1>7, <2>3
<1>10. CASE ~(next = None /\ owned \cup mine = {})
  <2>1. work'[r] = got /\ pc'[r] = IF next = None THEN "resending" ELSE "leasing"
    BY <1>1, <1>10 DEF Types, Goes, got
  <2>2. Leased(r, data, L, todo, owned, mine, next)
    <3>1. next \notin mine /\ left \subseteq todo /\ mine \subseteq todo
      BY <1>1, NewsDedupAssumption
    <3>2. \A c \in mine : ~L[c].active /\ (L[c].live \/ ~persistent)
      BY <1>1 DEF Immediate
    <3>3. next # None => ~L[next].active /\ ~L[next].live /\ persistent
      BY <1>1 DEF Immediate
    <3> QED BY <1>5, <1>6, <1>8, <2>1, <3>1, <3>2, <3>3 DEF Leased
  <2> QED BY <1>4, <1>7, <2>2
<1> QED BY <1>9, <1>10

LEMMA WorkKeepsType ==
    ASSUME NEW w \in Work
    PROVE  /\ \A d \in Data : [w EXCEPT !.data = d] \in Work
           /\ \A S \in SUBSET Channels : [w EXCEPT !.kept = S] \in Work
           /\ \A R \in Results : [w EXCEPT !.results = R] \in Work
BY DEF Work

\* What a request does with the result of get.
LEMMA ProceedOutcome ==
    ASSUME Types, NEW r \in Requests, NEW data \in Data, Proceed(r, data)
    PROVE  /\ locks' \in [Replicas -> [Channels -> Lock]]
           /\ work' \in [Requests -> Work] /\ pc' \in [Requests -> Steps]
           /\ \/ /\ work' = [work EXCEPT ![r] = NoWork] /\ locks' = locks
                 /\ pc' = [pc EXCEPT ![r] = IF data.status = "none" THEN "analysing" ELSE "done"]
                 /\ data.status = "none" \/ data.alert = None
              \/ /\ data.status # "none" /\ data.alert # None
                 /\ \E mine, next : Leased(r, data, locks[home[r]], {c \in wants[r] : data.results[c] # "ok"},
                                           {}, mine, next)
<1>1. CASE data.status = "none" \/ data.alert = None
  <2>1. /\ work' = [work EXCEPT ![r] = NoWork] /\ locks' = locks
        /\ pc' = [pc EXCEPT ![r] = IF data.status = "none" THEN "analysing" ELSE "done"]
    BY <1>1 DEF Proceed, Goes, Ends
  <2> QED BY <1>1, <2>1, DataTypes DEF Types, Steps
<1>2. CASE data.status # "none" /\ data.alert # None
  <2> DEFINE todo == {c \in wants[r] : data.results[c] # "ok"}
  <2>1. Leases(r, data, locks[home[r]], todo, {})
    BY <1>2 DEF Proceed
  <2>2. locks[home[r]] \in [Channels -> Lock] /\ todo \in SUBSET Channels /\ {} \in SUBSET Channels
    BY DEF Types
  <2> HIDE DEF todo
  <2>3. /\ locks' \in [Replicas -> [Channels -> Lock]]
        /\ work' \in [Requests -> Work] /\ pc' \in [Requests -> Steps]
        /\ \E mine, next : Leased(r, data, locks[home[r]], todo, {}, mine, next)
    BY <2>1, <2>2, LeasesOutcome
  <2> QED BY <1>2, <2>3 DEF todo
<1> QED BY <1>1, <1>2

LEMMA FetchTypes ==
    ASSUME Types, NEW r \in Requests, NEW data \in {work[r].data, stored}, Fetch(r, data)
    PROVE  /\ data \in Data /\ local' \in [Replicas -> Data] /\ stored' \in Data /\ expired' \in BOOLEAN
           /\ faults' \in [FaultKinds -> Nat]
<1>1. work[r] \in Work /\ stored \in Data
  BY DEF Types
<1>2. data \in Data
  BY <1>1 DEF Work
<1>3. stored' \in Data /\ expired' \in BOOLEAN
  BY DataTypes DEF Fetch, Clean, Types
<1>4. local' \in [Replicas -> Data]
  BY <1>1 DEF Fetch, Keep, Types
<1>5. faults' \in [FaultKinds -> Nat]
  BY FaultyCounts DEF Fetch, Types
<1> QED BY <1>2, <1>3, <1>4, <1>5

LEMMA ReadTypes ==
    ASSUME Types, NEW r \in Requests, Read(r)
    PROVE  Types'
<1>1. home[r] \in Replicas /\ local[home[r]] \in Data /\ work[r] \in Work
  BY DEF Types
<1>2. CASE persistent
  <2>1. work' = [work EXCEPT ![r].data = local[home[r]]] /\ pc' = [pc EXCEPT ![r] = "reading"] /\ locks' = locks
    BY <1>2 DEF Read, Goes
  <2>2. work' \in [Requests -> Work]
    BY <1>1, <2>1, WorkKeepsType DEF Types
  <2>3. pc' \in [Requests -> Steps]
    BY <2>1 DEF Types, Steps
  <2> QED BY <2>1, <2>2, <2>3 DEF Read, Types, setting, cloud, ghosts
<1>3. CASE ~persistent
  <2>1. Proceed(r, local[home[r]])
    BY <1>3 DEF Read
  <2>2. /\ locks' \in [Replicas -> [Channels -> Lock]]
        /\ work' \in [Requests -> Work] /\ pc' \in [Requests -> Steps]
    BY <1>1, <2>1, ProceedOutcome
  <2> QED BY <2>2 DEF Read, Types, setting, cloud, ghosts
<1> QED BY <1>2, <1>3

LEMMA ReadAnswerTypes ==
    ASSUME Types, NEW r \in Requests, ReadAnswer(r)
    PROVE  Types'
<1>1. PICK data \in {work[r].data, stored} : Fetch(r, data) /\ Proceed(r, data)
  BY DEF ReadAnswer
<1>2. /\ data \in Data /\ local' \in [Replicas -> Data] /\ stored' \in Data /\ expired' \in BOOLEAN
      /\ faults' \in [FaultKinds -> Nat]
  BY <1>1, FetchTypes
<1>3. /\ locks' \in [Replicas -> [Channels -> Lock]]
      /\ work' \in [Requests -> Work] /\ pc' \in [Requests -> Steps]
  BY <1>1, <1>2, ProceedOutcome
<1> QED BY <1>2, <1>3 DEF ReadAnswer, Types, setting, ghosts

LEMMA RereadAnswerTypes ==
    ASSUME Types, NEW r \in Requests, RereadAnswer(r)
    PROVE  Types'
<1>1. PICK data \in {work[r].data, stored} : Fetch(r, data)
  BY DEF RereadAnswer
<1>2. /\ local' \in [Replicas -> Data] /\ stored' \in Data /\ expired' \in BOOLEAN
      /\ faults' \in [FaultKinds -> Nat]
  BY <1>1, FetchTypes
<1>3. work' \in [Requests -> Work] /\ pc' \in [Requests -> Steps]
  BY DataTypes DEF RereadAnswer, Ends, Goes, Types, Steps
<1> QED BY <1>2, <1>3 DEF RereadAnswer, Types, setting, ghosts

\* Where a request is, and what it has in hand there.
Idle         == {"new", "analysing", "claiming", "sending", "done", "lost"}
Redeliveries == {"leasing", "resending", "renewing", "recording"}

StepOf(r) ==
    /\ pc[r] \in Idle => work[r] = NoWork
    /\ pc[r] \notin Redeliveries => work[r].owned = {} /\ work[r].trying = None /\ work[r].todo = {}
    /\ (pc[r] = "leasing") <=> (work[r].trying # None)
    /\ pc[r] \in Redeliveries => work[r].data.alert # None
    /\ pc[r] \in {"reading", "claiming", "rereading", "recording", "leasing"} => persistent
    /\ pc[r] = "recording" => work[r].kept \subseteq work[r].owned

StepInv == \A r \in Requests : StepOf(r)

LEMMA AnalysisTypes ==
    ASSUME Types, NEW r \in Requests, Analyse(r)
    PROVE  Types'
<1>1. home[r] \in Replicas /\ local[home[r]] \in Data /\ work[r] \in Work
  BY DEF Types
<1>2. ASSUME Ends(r)
      PROVE  work' \in [Requests -> Work] /\ pc' \in [Requests -> Steps]
  BY <1>2, DataTypes DEF Ends, Goes, Types, Steps
<1>3. ASSUME Refused(r)
      PROVE  work' \in [Requests -> Work] /\ pc' \in [Requests -> Steps]
  <2>1. CASE persistent
    <3>1. work' = [work EXCEPT ![r].data = local[home[r]]] /\ pc' = [pc EXCEPT ![r] = "rereading"]
      BY <1>3, <2>1 DEF Refused, Goes
    <3>2. work' \in [Requests -> Work]
      BY <1>1, <3>1, WorkKeepsType DEF Types
    <3> QED BY <3>1, <3>2 DEF Types, Steps
  <2> QED BY <1>2, <1>3, <2>1 DEF Refused
<1>4. ASSUME Wins(r)
      PROVE  /\ work' \in [Requests -> Work] /\ pc' \in [Requests -> Steps]
             /\ local' \in [Replicas -> Data] /\ alerted' \subseteq Requests
  BY <1>4, DataTypes DEF Wins, Goes, Keep, Types, Steps
<1>5. ASSUME NEW data \in Data, SetFinal(r, data)
      PROVE  /\ local' \in [Replicas -> Data] /\ writes' \subseteq [owner : Requests, data : Data]
             /\ UNCHANGED <<stored, expired, lease>>
  BY <1>5 DEF SetFinal, Keep, Types
<1>6. CASE Quiet(r)
  <2>1. [Nothing EXCEPT !.status = "final"] \in Data
    BY DataTypes DEF Data
  <2> QED BY <1>2, <1>5, <1>6, <2>1 DEF Quiet, Types, setting, cloud, ghosts
<1>7. CASE Elsewhere(r)
  BY <1>2, <1>7 DEF Elsewhere, Types, setting, cloud, ghosts
<1>8. CASE ClaimKey(r)
  <2>1. /\ work' \in [Requests -> Work] /\ pc' \in [Requests -> Steps]
        /\ local' \in [Replicas -> Data] /\ alerted' \subseteq Requests
    BY <1>3, <1>4, <1>8 DEF ClaimKey, Goes, Types, Steps
  <2> QED BY <1>8, <2>1 DEF ClaimKey, Types, setting, cloud
<1>9. CASE ClaimAnswer(r)
  <2>1. /\ work' \in [Requests -> Work] /\ pc' \in [Requests -> Steps]
        /\ local' \in [Replicas -> Data] /\ alerted' \subseteq Requests
    BY <1>3, <1>4, <1>9 DEF ClaimAnswer, Types
  <2>2. stored' \in Data /\ expired' \in BOOLEAN /\ faults' \in [FaultKinds -> Nat]
    BY <1>9, DataTypes, FaultyCounts DEF ClaimAnswer, Types
  <2> QED BY <1>9, <2>1, <2>2 DEF ClaimAnswer, Types, setting
<1>10. CASE Deliver(r)
  <2>1. PICK reached \in SUBSET wants[r] :
          /\ SetFinal(r, [status |-> "final", alert |-> r,
                         results |-> [c \in Channels |-> CASE c \in reached  -> "ok"
                                                           [] c \in wants[r] \ reached -> "failed"
                                                           [] OTHER -> "none"]])
          /\ delivered' = delivered \cup {<<r, c, r>> : c \in reached}
    BY <1>10 DEF Deliver
  <2> DEFINE results == [c \in Channels |-> CASE c \in reached  -> "ok"
                                              [] c \in wants[r] \ reached -> "failed"
                                              [] OTHER -> "none"]
  <2>2. results \in Results
    BY DEF Results
  <2> HIDE DEF results
  <2>3. [status |-> "final", alert |-> r, results |-> results] \in Data
    BY <2>2 DEF Data
  <2>4. /\ local' \in [Replicas -> Data] /\ writes' \subseteq [owner : Requests, data : Data]
        /\ UNCHANGED <<stored, expired, lease>>
    BY <1>5, <2>1, <2>3 DEF results
  <2>5. reached \subseteq Channels
    BY DEF Types
  <2>6. delivered' \subseteq Requests \X Channels \X Requests
    BY <2>1, <2>5 DEF Types
  <2> QED BY <1>2, <1>10, <2>4, <2>6 DEF Deliver, Types, setting
<1> QED BY <1>6, <1>7, <1>8, <1>9, <1>10 DEF Analyse

LEMMA StoreTypes ==
    ASSUME Types, NEW w \in writes, Store(w)
    PROVE  Types'
<1>1. stored' \in Data /\ expired' \in BOOLEAN /\ faults' \in [FaultKinds -> Nat]
  BY FaultyCounts DEF Store, Types
<1> QED BY <1>1 DEF Store, Types, setting, ghosts

LEMMA LockKeepsType ==
    ASSUME Types, NEW p \in Replicas, NEW c \in Channels
    PROVE  /\ [locks[p] EXCEPT ![c].live = TRUE] \in [Channels -> Lock]
           /\ [locks[p] EXCEPT ![c] = NoLock] \in [Channels -> Lock]
<1>1. locks[p] \in [Channels -> Lock] /\ locks[p][c] \in Lock
  BY DEF Types
<1>2. ASSUME NEW l \in Lock
      PROVE  [l EXCEPT !.live = TRUE] \in Lock
  BY DEF Lock
<1> QED BY <1>1, <1>2, DataTypes

\* What a request does with the answer to its claim of a channel.
LEMMA LeaseOutcome ==
    ASSUME Types, StepInv, NEW r \in Requests, LeaseAnswer(r)
    PROVE  LET p == home[r]
               c == work[r].trying
           IN /\ Types' /\ c \in Channels /\ pc[r] = "leasing" /\ persistent
              /\ UNCHANGED <<setting, local, stored, expired, writes, ghosts, lapses>>
              /\ \/ /\ lease[c] = None /\ lease' = [lease EXCEPT ![c] = r] /\ faults' = faults
                    /\ \E mine, next : Leased(r, work[r].data, [locks[p] EXCEPT ![c].live = TRUE],
                                              work[r].todo, work[r].owned \cup {c}, mine, next)
                 \/ /\ lease[c] # None /\ lease' = lease /\ faults' = faults
                    /\ \E mine, next : Leased(r, work[r].data, [locks[p] EXCEPT ![c] = NoLock],
                                              work[r].todo, work[r].owned, mine, next)
                 \/ /\ Faulty("storage")
                    /\ lease' = lease \/ (lease[c] = None /\ lease' = [lease EXCEPT ![c] = r])
                    /\ \E mine, next : Leased(r, work[r].data, [locks[p] EXCEPT ![c].live = TRUE],
                                              work[r].todo, work[r].owned \cup {c}, mine, next)
<1> DEFINE p == home[r]
           c == work[r].trying
           granted == [locks[p] EXCEPT ![c].live = TRUE]
           refused == [locks[p] EXCEPT ![c] = NoLock]
<1>1. work[r] \in Work /\ p \in Replicas /\ pc[r] = "leasing" /\ persistent
  BY DEF LeaseAnswer, Types, StepInv, StepOf
<1>2. c \in Channels
  BY <1>1 DEF StepInv, StepOf, Work
<1>3. /\ work[r].data \in Data /\ work[r].todo \in SUBSET Channels
      /\ work[r].owned \in SUBSET Channels /\ work[r].owned \cup {c} \in SUBSET Channels
  BY <1>1, <1>2 DEF Work
<1>4. granted \in [Channels -> Lock] /\ refused \in [Channels -> Lock]
  BY <1>1, <1>2, LockKeepsType
<1>5. /\ UNCHANGED <<setting, local, stored, expired, writes, ghosts, lapses>>
      /\ \/ /\ lease[c] = None /\ lease' = [lease EXCEPT ![c] = r] /\ faults' = faults
            /\ Leases(r, work[r].data, granted, work[r].todo, work[r].owned \cup {c})
         \/ /\ lease[c] # None /\ lease' = lease /\ faults' = faults
            /\ Leases(r, work[r].data, refused, work[r].todo, work[r].owned)
         \/ /\ Faulty("storage")
            /\ lease' = lease \/ (lease[c] = None /\ lease' = [lease EXCEPT ![c] = r])
            /\ Leases(r, work[r].data, granted, work[r].todo, work[r].owned \cup {c})
  BY DEF LeaseAnswer
<1> HIDE DEF granted, refused
<1>6. ASSUME Leases(r, work[r].data, granted, work[r].todo, work[r].owned \cup {c})
      PROVE  /\ locks' \in [Replicas -> [Channels -> Lock]]
             /\ work' \in [Requests -> Work] /\ pc' \in [Requests -> Steps]
             /\ \E mine, next : Leased(r, work[r].data, granted, work[r].todo,
                                       work[r].owned \cup {c}, mine, next)
  BY <1>3, <1>4, <1>6, LeasesOutcome
<1>7. ASSUME Leases(r, work[r].data, refused, work[r].todo, work[r].owned)
      PROVE  /\ locks' \in [Replicas -> [Channels -> Lock]]
             /\ work' \in [Requests -> Work] /\ pc' \in [Requests -> Steps]
             /\ \E mine, next : Leased(r, work[r].data, refused, work[r].todo, work[r].owned, mine, next)
  BY <1>3, <1>4, <1>7, LeasesOutcome
<1>8. lease' \in [Channels -> Requests \cup {None}] /\ faults' \in [FaultKinds -> Nat]
  BY <1>5, FaultyCounts DEF Types
<1>9. Types'
  BY <1>5, <1>6, <1>7, <1>8 DEF Types, setting, ghosts
<1> QED BY <1>1, <1>2, <1>5, <1>6, <1>7, <1>9 DEF granted, refused

LEMMA ReleaseOutcome ==
    ASSUME Types, NEW r \in Requests, Release(r)
    PROVE  /\ locks' \in [Replicas -> [Channels -> Lock]]
           /\ \A p \in Replicas \ {home[r]} : locks'[p] = locks[p]
           /\ \A c \in Channels :
                IF c \notin work[r].owned THEN locks'[home[r]][c] = locks[home[r]][c]
                ELSE /\ ~locks'[home[r]][c].active
                     /\ locks'[home[r]][c].live => /\ locks[home[r]][c].live
                                                   /\ locks'[home[r]][c].token = locks[home[r]][c].token
<1> DEFINE p == home[r]
           free(c) == IF c \notin work[r].owned THEN locks[p][c]
                      ELSE IF locks[p][c].live THEN [locks[p][c] EXCEPT !.active = FALSE]
                      ELSE NoLock
<1>1. p \in Replicas /\ \A c \in Channels : locks[p][c] \in Lock
  BY DEF Types
<1>2. ASSUME NEW c \in Channels
      PROVE  free(c) \in Lock
  <2>1. ASSUME NEW l \in Lock PROVE [l EXCEPT !.active = FALSE] \in Lock
    BY DEF Lock
  <2> QED BY <1>1, <2>1, DataTypes
<1>3. ASSUME NEW c \in Channels, c \in work[r].owned
      PROVE  ~free(c).active /\ (free(c).live => locks[p][c].live /\ free(c).token = locks[p][c].token)
  BY <1>1, <1>3 DEF Lock, NoLock
<1>4. ASSUME NEW c \in Channels, c \notin work[r].owned
      PROVE  free(c) = locks[p][c]
  BY <1>4
<1>5. locks' = [locks EXCEPT ![p] = [c \in Channels |-> free(c)]]
  BY DEF Release
<1> HIDE DEF free
<1> QED BY <1>1, <1>2, <1>3, <1>4, <1>5 DEF Types

LEMMA MergedType ==
    ASSUME Types, NEW r \in Requests, NEW kept
    PROVE  /\ Merged(r, kept) \in Results
           /\ \A c \in Channels : Merged(r, kept)[c] =
                IF c \in kept THEN work[r].results[c]
                ELSE IF c \in wants[r] THEN work[r].data.results[c] ELSE "none"
<1>1. work[r].results \in Results /\ work[r].data.results \in Results
  BY DEF Types, Work, Data
<1> QED BY <1>1 DEF Merged, Results

LEMMA OverlayType ==
    ASSUME NEW old \in Results, NEW new \in Results, NEW kept
    PROVE  Overlay(old, new, kept) \in Results
BY DEF Overlay, Results

LEMMA DeltaType ==
    ASSUME Types, NEW r \in Requests
    PROVE  Delta(r) \in Results
<1>1. work[r].results \in Results
  BY DEF Types, Work
<1> QED BY <1>1 DEF Delta, Results

\* What the end of a redelivery writes into the cache.
LEMMA SetResultsOutcome ==
    ASSUME Types, NEW r \in Requests, NEW kept, SetResults(r, kept)
    PROVE  /\ local' \in [Replicas -> Data]
           /\ \A p \in Replicas \ {home[r]} : local'[p] = local[p]
           /\ local'[home[r]].status \in {"claiming", "final"}
           /\ local'[home[r]].alert = work[r].data.alert
           /\ local'[home[r]] # Nothing
<1> DEFINE new == [status  |-> IF "claiming" \in {local[home[r]].status, work[r].data.status}
                               THEN "claiming" ELSE "final",
                   alert   |-> work[r].data.alert,
                   results |-> Overlay(local[home[r]].results, Merged(r, kept), kept)]
<1>1. /\ home[r] \in Replicas /\ local[home[r]].results \in Results
      /\ work[r].data.alert \in Requests \cup {None}
  BY DEF Types, Work, Data
<1>2. Overlay(local[home[r]].results, Merged(r, kept), kept) \in Results
  BY <1>1, MergedType, OverlayType
<1>3. new \in Data /\ new.status \in {"claiming", "final"} /\ new.alert = work[r].data.alert
  BY <1>1, <1>2 DEF Data
<1>4. local' = [local EXCEPT ![home[r]] = new]
  BY DEF SetResults, Keep
<1> HIDE DEF new
<1> QED BY <1>1, <1>3, <1>4, DataTypes DEF Types

LEMMA ResendOutcome ==
    ASSUME Types, StepInv, NEW r \in Requests, Resend(r)
    PROVE  /\ Types' /\ pc[r] = "resending" /\ pc' = [pc EXCEPT ![r] = "renewing"]
           /\ UNCHANGED <<setting, local, locks, cloud, alerted, retracted, crashed, faults, lapses>>
           /\ \A q \in Requests \ {r} : work'[q] = work[q]
           /\ UNCHANGED <<work[r].data, work[r].todo, work[r].trying, work[r].owned>>
           /\ \E reached \in SUBSET work[r].owned :
                /\ delivered' = delivered \cup {<<work[r].data.alert, c, r>> : c \in reached}
                /\ \A c \in Channels : work'[r].results[c] = "ok" <=> c \in reached
<1>1. PICK reached \in SUBSET work[r].owned :
        /\ work' = [work EXCEPT ![r].results = [c \in Channels |->
                      CASE c \in reached -> "ok"
                        [] c \in work[r].owned \ reached -> "failed"
                        [] OTHER -> "none"]]
        /\ delivered' = delivered \cup {<<work[r].data.alert, c, r>> : c \in reached}
  BY DEF Resend
<1> DEFINE results == [c \in Channels |-> CASE c \in reached -> "ok"
                                            [] c \in work[r].owned \ reached -> "failed"
                                            [] OTHER -> "none"]
<1>2. work[r] \in Work /\ work[r].owned \subseteq Channels /\ work[r].data.alert \in Requests
  BY DEF Resend, Types, StepInv, StepOf, Redeliveries, Work, Data
<1>3. results \in Results /\ \A c \in Channels : results[c] = "ok" <=> c \in reached
  BY DEF Results
<1>4. work' = [work EXCEPT ![r] = [work[r] EXCEPT !.results = results]]
  BY <1>1
<1> HIDE DEF results
<1>5. work' \in [Requests -> Work]
  BY <1>2, <1>3, <1>4, WorkKeepsType DEF Types
<1>6. /\ \A q \in Requests \ {r} : work'[q] = work[q]
      /\ UNCHANGED <<work[r].data, work[r].todo, work[r].trying, work[r].owned>>
      /\ work'[r].results = results
  BY <1>2, <1>4 DEF Types, Work
<1>7. delivered' \subseteq Requests \X Channels \X Requests
  BY <1>1, <1>2 DEF Types
<1>8. pc' \in [Requests -> Steps] /\ pc[r] = "resending" /\ pc' = [pc EXCEPT ![r] = "renewing"]
  BY DEF Resend, Goes, Types, Steps
<1>9. UNCHANGED <<setting, local, locks, cloud, alerted, retracted, crashed, faults, lapses>>
  BY DEF Resend
<1>10. Types'
  BY <1>5, <1>7, <1>8, <1>9 DEF Types, setting, cloud
<1> QED BY <1>1, <1>3, <1>6, <1>8, <1>9, <1>10

\* What a request does when its leases have been renewed for the last time.
LEMMA RenewedOutcome ==
    ASSUME Types, NEW r \in Requests, Renewed(r)
    PROVE  /\ Types' /\ pc[r] = "renewing"
           /\ UNCHANGED <<setting, cloud, ghosts, lapses>>
           /\ \E kept \in SUBSET work[r].owned :
                /\ \/ ~persistent /\ kept = work[r].owned /\ UNCHANGED faults
                   \/ persistent /\ kept = StillHeld(r) /\ UNCHANGED faults
                   \/ persistent /\ kept = Unexpired(r) /\ Faulty("storage")
                /\ \/ /\ kept = {} \/ local[home[r]] = Nothing
                      /\ Ends(r) /\ Release(r) /\ UNCHANGED local
                   \/ /\ ~(kept = {} \/ local[home[r]] = Nothing) /\ ~persistent
                      /\ SetResults(r, kept) /\ Ends(r) /\ Release(r)
                   \/ /\ ~(kept = {} \/ local[home[r]] = Nothing) /\ persistent
                      /\ SetResults(r, kept) /\ Goes(r, "recording") /\ UNCHANGED locks
                      /\ work' = [work EXCEPT ![r] = [work[r] EXCEPT !.kept = kept]]
<1>1. PICK kept \in SUBSET work[r].owned :
        /\ \/ ~persistent /\ kept = work[r].owned /\ UNCHANGED faults
           \/ persistent /\ kept = StillHeld(r) /\ UNCHANGED faults
           \/ persistent /\ kept = Unexpired(r) /\ Faulty("storage")
        /\ IF kept = {} \/ local[home[r]] = Nothing
           THEN Ends(r) /\ Release(r) /\ UNCHANGED local
           ELSE /\ SetResults(r, kept)
                /\ IF persistent
                   THEN /\ Goes(r, "recording") /\ UNCHANGED locks
                        /\ work' = [work EXCEPT ![r].kept = kept]
                   ELSE Ends(r) /\ Release(r)
  BY DEF Renewed
<1>2. \/ /\ kept = {} \/ local[home[r]] = Nothing
         /\ Ends(r) /\ Release(r) /\ UNCHANGED local
      \/ /\ ~(kept = {} \/ local[home[r]] = Nothing) /\ ~persistent
         /\ SetResults(r, kept) /\ Ends(r) /\ Release(r)
      \/ /\ ~(kept = {} \/ local[home[r]] = Nothing) /\ persistent
         /\ SetResults(r, kept) /\ Goes(r, "recording") /\ UNCHANGED locks
         /\ work' = [work EXCEPT ![r] = [work[r] EXCEPT !.kept = kept]]
  BY <1>1
<1>3. work[r] \in Work /\ kept \in SUBSET Channels
  BY DEF Types, Work
<1>4. work' \in [Requests -> Work] /\ pc' \in [Requests -> Steps]
  <2>1. CASE Ends(r)
    BY <2>1, DataTypes DEF Ends, Goes, Types, Steps
  <2>2. CASE Goes(r, "recording") /\ work' = [work EXCEPT ![r] = [work[r] EXCEPT !.kept = kept]]
    BY <1>3, <2>2, WorkKeepsType DEF Goes, Types, Steps
  <2> QED BY <1>2, <2>1, <2>2
<1>5. locks' \in [Replicas -> [Channels -> Lock]]
  BY <1>2, ReleaseOutcome DEF Types
<1>6. local' \in [Replicas -> Data]
  BY <1>2, SetResultsOutcome DEF Types
<1>7. faults' \in [FaultKinds -> Nat]
  BY <1>1, FaultyCounts DEF Types
<1>8. UNCHANGED <<setting, cloud, ghosts, lapses>> /\ pc[r] = "renewing"
  BY DEF Renewed
<1>9. Types'
  BY <1>4, <1>5, <1>6, <1>7, <1>8 DEF Types, setting, cloud, ghosts
<1> QED BY <1>1, <1>2, <1>8, <1>9

\* What a request does when Firestore has its results.
LEMMA RecordedOutcome ==
    ASSUME Types, NEW r \in Requests, Recorded(r)
    PROVE  /\ Types' /\ pc[r] = "recording" /\ Release(r) /\ Ends(r)
           /\ UNCHANGED <<setting, local, expired, lease, writes, alerted, delivered, crashed, lapses>>
           /\ "late_write" \in Windows \/ \A w \in writes : w.data.alert # work[r].data.alert
           /\ stored'.status = stored.status /\ stored'.alert = stored.alert
           /\ \/ faults' = faults
                 /\ IF Present
                    THEN stored'.results = Overlay(stored.results, Delta(r), work[r].kept)
                    ELSE stored' = stored
              \/ Faulty("storage")
           /\ retracted \subseteq retracted'
           /\ \A c \in Channels : stored.results[c] = "ok" /\ stored'.results[c] # "ok"
                => <<stored.alert, c>> \in retracted'
<1> DEFINE new == [stored EXCEPT !.results = Overlay(stored.results, Delta(r), work[r].kept)]
<1>1. /\ pc[r] = "recording" /\ Release(r) /\ Ends(r)
      /\ UNCHANGED <<setting, local, expired, lease, writes, alerted, delivered, crashed, lapses>>
      /\ "late_write" \in Windows \/ \A w \in writes : w.data.alert # work[r].data.alert
      /\ retracted' = retracted \cup {<<stored.alert, c>> : c \in
                         {x \in Channels : stored.results[x] = "ok" /\ stored'.results[x] # "ok"}}
      /\ \/ faults' = faults /\ stored' = IF Present THEN new ELSE stored
         \/ Faulty("storage") /\ (stored' = stored \/ stored' = new)
  BY DEF Recorded
<1>2. stored.results \in Results /\ stored \in Data
  BY DEF Types, Data
<1>3. /\ new \in Data /\ new.status = stored.status /\ new.alert = stored.alert
      /\ new.results = Overlay(stored.results, Delta(r), work[r].kept)
  BY <1>2, DeltaType, OverlayType DEF Data
<1> HIDE DEF new
<1>4. stored' \in Data /\ stored'.status = stored.status /\ stored'.alert = stored.alert
  BY <1>1, <1>2, <1>3
<1>5. work' \in [Requests -> Work] /\ pc' \in [Requests -> Steps]
  BY <1>1, DataTypes DEF Ends, Goes, Types, Steps
<1>6. locks' \in [Replicas -> [Channels -> Lock]]
  BY <1>1, ReleaseOutcome
<1>7. faults' \in [FaultKinds -> Nat]
  BY <1>1, FaultyCounts DEF Types
<1>8. retracted' \subseteq (Requests \cup {None}) \X Channels
  BY <1>1, <1>2 DEF Types, Data
<1>9. Types'
  BY <1>1, <1>4, <1>5, <1>6, <1>7, <1>8 DEF Types, setting
<1>10. \A c \in Channels : stored.results[c] = "ok" /\ stored'.results[c] # "ok"
          => <<stored.alert, c>> \in retracted'
  BY <1>1
<1> QED BY <1>1, <1>3, <1>4, <1>9, <1>10

LEMMA LeaseExpiresOutcome ==
    ASSUME Types, NEW c \in Channels, LeaseExpires(c)
    PROVE  /\ Types'
           /\ UNCHANGED <<setting, pc, work, local, stored, expired, writes, ghosts, lapses>>
           /\ \A r \in Requests : pc[r] # "reading" /\ c \notin work[r].todo \cup {work[r].trying}
           /\ IF \E r \in Requests : Redelivering(r, c) THEN Faulty("slow") ELSE UNCHANGED faults
           /\ lease'[c] = None /\ \A x \in Channels \ {c} : lease'[x] = lease[x]
           /\ \A p \in Replicas : /\ ~locks'[p][c].live /\ locks'[p][c].active = locks[p][c].active
                                  /\ \A x \in Channels \ {c} : locks'[p][x] = locks[p][x]
<1> DEFINE spent(p) == IF locks[p][c].active THEN [locks[p][c] EXCEPT !.live = FALSE] ELSE NoLock
<1>1. /\ UNCHANGED <<setting, pc, work, local, stored, expired, writes, ghosts, lapses>>
      /\ \A r \in Requests : pc[r] # "reading" /\ c \notin work[r].todo \cup {work[r].trying}
      /\ IF \E r \in Requests : Redelivering(r, c) THEN Faulty("slow") ELSE UNCHANGED faults
      /\ lease' = [lease EXCEPT ![c] = None]
      /\ locks' = [p \in Replicas |-> [locks[p] EXCEPT ![c] = spent(p)]]
  BY DEF LeaseExpires
<1>2. ASSUME NEW p \in Replicas
      PROVE  /\ spent(p) \in Lock /\ ~spent(p).live /\ spent(p).active = locks[p][c].active
             /\ locks[p] \in [Channels -> Lock]
  <2>1. locks[p][c] \in Lock /\ locks[p] \in [Channels -> Lock]
    BY DEF Types
  <2>2. ASSUME NEW l \in Lock
        PROVE  LET m == [l EXCEPT !.live = FALSE] IN m \in Lock /\ ~m.live /\ m.active = l.active
    BY DEF Lock
  <2>3. CASE locks[p][c].active
    BY <2>1, <2>2, <2>3 DEF Lock
  <2>4. CASE ~locks[p][c].active
    BY <2>1, <2>4, DataTypes DEF Lock, NoLock
  <2> QED BY <2>1, <2>3, <2>4
<1> HIDE DEF spent
<1>3. /\ locks' \in [Replicas -> [Channels -> Lock]]
      /\ \A p \in Replicas : locks'[p][c] = spent(p) /\ \A x \in Channels \ {c} : locks'[p][x] = locks[p][x]
  BY <1>1, <1>2
<1>4. lease' \in [Channels -> Requests \cup {None}]
      /\ lease'[c] = None /\ \A x \in Channels \ {c} : lease'[x] = lease[x]
  BY <1>1 DEF Types
<1>5. faults' \in [FaultKinds -> Nat]
  BY <1>1, FaultyCounts DEF Types
<1>6. Types'
  BY <1>1, <1>3, <1>4, <1>5 DEF Types, setting, ghosts
<1> QED BY <1>1, <1>2, <1>3, <1>4, <1>6

LEMMA LapseTypes ==
    ASSUME Types, Lapse
    PROVE  Types'
<1>1. lapses' \in 0..MaxLapses
  BY NewsDedupAssumption DEF Lapse, Types
<1> QED BY <1>1, DataTypes DEF Lapse, Types, setting, ghosts

LEMMA CrashOutcome ==
    ASSUME Types, NEW p \in Replicas, Crash(p)
    PROVE  /\ Types' /\ Faulty("crash")
           /\ UNCHANGED <<setting, stored, expired, lease, alerted, retracted, lapses>>
           /\ \A r \in Requests :
                IF home[r] = p /\ pc[r] \notin {"new", "done", "lost"}
                THEN pc'[r] = "lost" /\ work'[r] = NoWork
                ELSE pc'[r] = pc[r] /\ work'[r] = work[r]
           /\ local'[p] = Nothing /\ \A q \in Replicas \ {p} : local'[q] = local[q] /\ locks'[q] = locks[q]
           /\ \A c \in Channels : locks'[p][c] = NoLock
           /\ writes' = {w \in writes : home[w.owner] # p} /\ crashed' = crashed \cup {p}
           /\ delivered \subseteq delivered'
           /\ \A d \in delivered' \ delivered :
                d[1] \in Requests /\ d[3] = d[1] /\ home[d[3]] = p /\ pc[d[1]] = "sending"
<1> DEFINE R == {r \in Requests : home[r] = p /\ pc[r] \notin {"new", "done", "lost"}}
<1>1. /\ Faulty("crash")
      /\ pc' = [r \in Requests |-> IF r \in R THEN "lost" ELSE pc[r]]
      /\ work' = [r \in Requests |-> IF r \in R THEN NoWork ELSE work[r]]
      /\ local' = [local EXCEPT ![p] = Nothing]
      /\ locks' = [locks EXCEPT ![p] = [c \in Channels |-> NoLock]]
      /\ writes' = {w \in writes : home[w.owner] # p} /\ crashed' = crashed \cup {p}
      /\ UNCHANGED <<setting, stored, expired, lease, alerted, retracted, lapses>>
  BY DEF Crash, Keep
<1>2. PICK sent \in SUBSET {d \in CutOff(R) : d[2] \in wants[d[1]]} : delivered' = delivered \cup sent
  BY DEF Crash
<1>3. ASSUME NEW d \in sent
      PROVE  /\ d \in Requests \X Channels \X Requests
             /\ d[1] \in Requests /\ d[3] = d[1] /\ home[d[3]] = p /\ pc[d[1]] = "sending"
  <2>1. PICK r \in {q \in R : pc[q] = "sending"}, c \in Channels : d = <<r, c, r>>
    BY DEF CutOff
  <2> QED BY <2>1
<1>4. delivered' \subseteq Requests \X Channels \X Requests
  BY <1>2, <1>3 DEF Types
<1>5. pc' \in [Requests -> Steps] /\ work' \in [Requests -> Work]
  BY <1>1, DataTypes DEF Types, Steps
<1>6. local' \in [Replicas -> Data] /\ locks' \in [Replicas -> [Channels -> Lock]]
  BY <1>1, DataTypes DEF Types
<1>7. faults' \in [FaultKinds -> Nat]
  BY <1>1, FaultyCounts
<1>8. Types'
  BY <1>1, <1>4, <1>5, <1>6, <1>7 DEF Types, setting
<1> QED BY <1>1, <1>2, <1>3, <1>8 DEF Types

-----------------------------------------------------------------------------
(* The steps of a request.                                                  *)

\* Only the request r moves.
Alone(r) == \A q \in Requests \ {r} : pc'[q] = pc[q] /\ work'[q] = work[q]

LEMMA EndsOutcome ==
    ASSUME Types, NEW r \in Requests, Ends(r)
    PROVE  Alone(r) /\ pc'[r] = "done" /\ work'[r] = NoWork
BY DEF Ends, Goes, Types, Alone

LEMMA OthersKeepStep ==
    ASSUME StepInv, persistent' = persistent, NEW r \in Requests, Alone(r), StepOf(r)'
    PROVE  StepInv'
<1>1. ASSUME NEW q \in Requests \ {r}
      PROVE  StepOf(q)'
  BY <1>1 DEF StepInv, StepOf, Alone
<1> QED BY <1>1 DEF StepInv

LEMMA IdleKeepsStep ==
    ASSUME NEW r \in Requests, pc'[r] \in Idle, work'[r] = NoWork, pc'[r] = "claiming" => persistent'
    PROVE  StepOf(r)'
BY DEF StepOf, Idle, Redeliveries, NoWork

LEMMA LeasedKeepsStep ==
    ASSUME StepInv, persistent' = persistent, NEW r \in Requests, NEW data, NEW L, NEW todo, NEW owned,
           NEW mine, NEW next, Leased(r, data, L, todo, owned, mine, next), data.alert # None
    PROVE  StepInv'
<1>1. Alone(r)
  BY DEF Leased, Alone
<1>2. CASE pc'[r] = "done" /\ work'[r] = NoWork
  BY <1>1, <1>2, OthersKeepStep, IdleKeepsStep DEF Idle
<1>3. CASE pc'[r] = (IF next = None THEN "resending" ELSE "leasing") /\ work'[r].data = data
  <2>1. StepOf(r)'
    BY <1>3 DEF Leased, StepOf, Idle, Redeliveries
  <2> QED BY <1>1, <2>1, OthersKeepStep
<1> QED BY <1>2, <1>3 DEF Leased

LEMMA ReadsKeepStep ==
    ASSUME Types, StepInv, NEW r \in Requests, Read(r) \/ ReadAnswer(r) \/ RereadAnswer(r)
    PROVE  StepInv'
<1>1. persistent' = persistent
  BY DEF Read, ReadAnswer, RereadAnswer, setting
<1>2. ASSUME NEW data \in Data, Proceed(r, data)
      PROVE  StepInv'
  <2>1. CASE /\ work' = [work EXCEPT ![r] = NoWork]
             /\ pc' = [pc EXCEPT ![r] = IF data.status = "none" THEN "analysing" ELSE "done"]
    <3>1. Alone(r) /\ pc'[r] \in {"analysing", "done"} /\ work'[r] = NoWork
      BY <2>1 DEF Types, Alone
    <3> QED BY <1>1, <3>1, OthersKeepStep, IdleKeepsStep DEF Idle
  <2>2. CASE data.alert # None /\ \E mine, next :
               Leased(r, data, locks[home[r]], {c \in wants[r] : data.results[c] # "ok"}, {}, mine, next)
    BY <1>1, <2>2, LeasedKeepsStep
  <2> QED BY <1>2, <2>1, <2>2, ProceedOutcome
<1>3. CASE Read(r) /\ persistent
  <2>1. work' = [work EXCEPT ![r].data = local[home[r]]] /\ pc' = [pc EXCEPT ![r] = "reading"]
    BY <1>3 DEF Read, Goes
  <2>2. pc[r] = "new" /\ work[r] = NoWork
    BY <1>3 DEF Read, StepInv, StepOf, Idle
  <2>3. Alone(r) /\ pc'[r] = "reading"
    BY <2>1 DEF Alone, Types
  <2>4. work'[r].owned = {} /\ work'[r].trying = None /\ work'[r].todo = {}
    BY <2>1, <2>2 DEF Types, NoWork
  <2>5. StepOf(r)'
    BY <1>1, <1>3, <2>3, <2>4 DEF StepOf, Idle, Redeliveries
  <2> QED BY <1>1, <2>3, <2>5, OthersKeepStep
<1>4. CASE Read(r) /\ ~persistent
  BY <1>2, <1>4 DEF Read, Types
<1>5. CASE ReadAnswer(r)
  <2>1. PICK data \in {work[r].data, stored} : Fetch(r, data) /\ Proceed(r, data)
    BY <1>5 DEF ReadAnswer
  <2> QED BY <1>2, <2>1, FetchTypes
<1>6. CASE RereadAnswer(r)
  <2>1. Ends(r)
    BY <1>6 DEF RereadAnswer
  <2> QED BY <1>1, <2>1, EndsOutcome, OthersKeepStep, IdleKeepsStep DEF Idle
<1> QED BY <1>3, <1>4, <1>5, <1>6

LEMMA AnalysisKeepsStep ==
    ASSUME Types, StepInv, NEW r \in Requests, Analyse(r)
    PROVE  StepInv' /\ Alone(r) /\ work[r] = NoWork
           /\ work'[r].owned = {} /\ work'[r].trying = None /\ pc[r] \in {"analysing", "claiming", "sending"}
<1>1. persistent' = persistent
  BY DEF Analyse, Quiet, Elsewhere, ClaimKey, ClaimAnswer, Deliver, setting
<1>2. pc[r] \in {"analysing", "claiming", "sending"} /\ work[r] = NoWork
  BY DEF Analyse, Quiet, Elsewhere, ClaimKey, ClaimAnswer, Deliver, StepInv, StepOf, Idle
<1>3. \/ Ends(r)
      \/ pc' = [pc EXCEPT ![r] = "claiming"] /\ work' = work /\ persistent
      \/ pc' = [pc EXCEPT ![r] = "sending"] /\ work' = work
      \/ pc' = [pc EXCEPT ![r] = "rereading"] /\ work' = [work EXCEPT ![r].data = local[home[r]]] /\ persistent
  BY DEF Analyse, Quiet, Elsewhere, ClaimKey, ClaimAnswer, Deliver, Refused, Wins, Goes
<1>4. CASE Ends(r)
  BY <1>1, <1>2, <1>4, EndsOutcome, OthersKeepStep, IdleKeepsStep DEF Idle, NoWork
<1>5. CASE \/ pc' = [pc EXCEPT ![r] = "claiming"] /\ work' = work /\ persistent
           \/ pc' = [pc EXCEPT ![r] = "sending"] /\ work' = work
  <2>1. Alone(r) /\ pc'[r] \in {"claiming", "sending"} /\ work'[r] = NoWork
        /\ (pc'[r] = "claiming" => persistent')
    BY <1>1, <1>2, <1>5 DEF Types, Alone
  <2> QED BY <1>1, <1>2, <2>1, OthersKeepStep, IdleKeepsStep DEF Idle, NoWork
<1>6. CASE pc' = [pc EXCEPT ![r] = "rereading"] /\ work' = [work EXCEPT ![r].data = local[home[r]]] /\ persistent
  <2>1. Alone(r) /\ pc'[r] = "rereading"
    BY <1>6 DEF Alone, Types
  <2>2. work'[r].owned = {} /\ work'[r].trying = None /\ work'[r].todo = {}
    BY <1>2, <1>6 DEF Types, NoWork
  <2>3. StepOf(r)'
    BY <1>1, <1>6, <2>1, <2>2 DEF StepOf, Idle, Redeliveries
  <2> QED BY <1>1, <1>2, <2>1, <2>2, <2>3, OthersKeepStep
<1> QED BY <1>3, <1>4, <1>5, <1>6

LEMMA RedeliveryKeepsStep ==
    ASSUME Types, StepInv, NEW r \in Requests, Redeliver(r)
    PROVE  StepInv'
<1>1. CASE LeaseAnswer(r)
  <2>1. pc[r] = "leasing" /\ persistent' = persistent /\ work[r].data.alert # None
    BY <1>1 DEF LeaseAnswer, setting, StepInv, StepOf, Redeliveries
  <2>2. \E L, owned, mine, next : Leased(r, work[r].data, L, work[r].todo, owned, mine, next)
    BY <1>1, LeaseOutcome
  <2> QED BY <2>1, <2>2, LeasedKeepsStep
<1>2. CASE Resend(r)
  <2>1. /\ pc[r] = "resending" /\ pc' = [pc EXCEPT ![r] = "renewing"] /\ persistent' = persistent
        /\ \A q \in Requests \ {r} : work'[q] = work[q]
        /\ UNCHANGED <<work[r].data, work[r].todo, work[r].trying, work[r].owned>>
    BY <1>2, ResendOutcome DEF setting
  <2>2. Alone(r) /\ pc'[r] = "renewing"
    BY <2>1 DEF Alone, Types
  <2>3. StepOf(r)'
    BY <2>1, <2>2 DEF StepInv, StepOf, Idle, Redeliveries
  <2> QED BY <2>1, <2>2, <2>3, OthersKeepStep
<1>3. CASE Renewed(r)
  <2>1. persistent' = persistent /\ pc[r] = "renewing"
    BY <1>3 DEF Renewed, setting
  <2>2. CASE Ends(r)
    BY <2>1, <2>2, EndsOutcome, OthersKeepStep, IdleKeepsStep DEF Idle
  <2>3. ASSUME NEW kept \in SUBSET work[r].owned, persistent, Goes(r, "recording"),
               work' = [work EXCEPT ![r] = [work[r] EXCEPT !.kept = kept]]
        PROVE  StepInv'
    <3>1. work[r] \in Work
      BY DEF Types
    <3>2. /\ work'[r].data = work[r].data /\ work'[r].owned = work[r].owned
          /\ work'[r].trying = work[r].trying /\ work'[r].kept = kept
      BY <2>3, <3>1 DEF Types, Work
    <3>3. Alone(r) /\ pc'[r] = "recording"
      BY <2>3 DEF Alone, Types, Goes
    <3>4. StepOf(r)'
      BY <2>1, <2>3, <3>2, <3>3 DEF StepInv, StepOf, Idle, Redeliveries
    <3> QED BY <2>1, <3>3, <3>4, OthersKeepStep
  <2> QED BY <1>3, <2>2, <2>3, RenewedOutcome
<1>4. CASE Recorded(r)
  <2>1. Ends(r) /\ persistent' = persistent
    BY <1>4 DEF Recorded, setting
  <2> QED BY <2>1, EndsOutcome, OthersKeepStep, IdleKeepsStep DEF Idle
<1> QED BY <1>1, <1>2, <1>3, <1>4 DEF Redeliver

LEMMA CrashKeepsStep ==
    ASSUME Types, StepInv, NEW p \in Replicas, Crash(p)
    PROVE  StepInv'
<1>1. persistent' = persistent
  BY DEF Crash, setting
<1>2. ASSUME NEW r \in Requests
      PROVE  StepOf(r)'
  <2>1. CASE pc'[r] = "lost" /\ work'[r] = NoWork
    BY <2>1, IdleKeepsStep DEF Idle
  <2>2. CASE pc'[r] = pc[r] /\ work'[r] = work[r]
    BY <1>1, <2>2 DEF StepInv, StepOf
  <2> QED BY <2>1, <2>2, CrashOutcome
<1> QED BY <1>2 DEF StepInv

-----------------------------------------------------------------------------
(* Locks and leases.                                                        *)

Held(r) == work[r].owned \cup ({work[r].trying} \ {None})

\* A channel of a process is locked exactly while one of its requests holds it.
LockInv ==
    /\ \A r \in Requests : \A c \in Held(r) : locks[home[r]][c].active
    /\ \A r, q \in Requests : home[r] = home[q] /\ r # q => Held(r) \cap Held(q) = {}
    /\ \A r \in Requests : work[r].trying \notin work[r].owned
    /\ \A p \in Replicas, c \in Channels : locks[p][c].active =>
         \E r \in Requests : home[r] = p /\ c \in Held(r)

\* A live lock has the token of a request of its process, which is that of the lease
\* while leases can be relied on; then, what a request owns is live.
TokenOf(p, c) ==
    locks[p][c].live => /\ locks[p][c].token \in Requests /\ home[locks[p][c].token] = p
                        /\ Reliable => lease[c] = locks[p][c].token

TryOf(r) ==
    work[r].trying # None => /\ locks[home[r]][work[r].trying].token = r
                             /\ ~locks[home[r]][work[r].trying].live

Trusted == persistent /\ Reliable

LiveInv ==
    /\ \A p \in Replicas, c \in Channels : TokenOf(p, c)
    /\ \A r \in Requests : TryOf(r)
    /\ Trusted => \A r \in Requests : \A c \in work[r].owned : locks[home[r]][c].live

HoldInv == LockInv /\ LiveInv

\* Leases that can be relied on could always be relied on.
LEMMA ReliableStays ==
    ASSUME Types, faults' = faults \/ \E k \in {"storage", "slow", "crash"} : Faulty(k)
    PROVE  /\ Reliable' => Reliable
           /\ Faulty("storage") \/ Faulty("slow") => ~Reliable'
<1>1. CASE faults' = faults
  <2>1. Reliable' <=> Reliable
    BY <1>1 DEF Reliable, Had
  <2>2. ~Faulty("storage") /\ ~Faulty("slow")
    <3>1. ASSUME NEW k, Faulty(k) PROVE FALSE
      <4>1. k \in FaultKinds /\ faults'[k] = faults[k] + 1 /\ faults[k] \in Nat
        BY <3>1, FaultyCounts
      <4> QED BY <1>1, <4>1
    <3> QED BY <3>1
  <2> QED BY <2>1, <2>2
<1>2. ASSUME NEW k \in {"storage", "slow", "crash"}, Faulty(k)
      PROVE  (Reliable' => Reliable) /\ (k # "crash" => ~Reliable')
  <2>1. /\ k \in FaultKinds /\ faults'[k] = faults[k] + 1
        /\ \A x \in FaultKinds : faults'[x] >= faults[x] /\ faults'[x] \in Nat /\ faults[x] \in Nat
    BY <1>2, FaultyCounts
  <2>2. \A kind \in {"storage", "slow"} : Had(kind)' = 0 => Had(kind) = 0
    BY <2>1 DEF Had
  <2>3. k # "crash" => Had(k)' # 0
    BY <2>1 DEF Had
  <2> QED BY <2>2, <2>3 DEF Reliable
<1> QED BY <1>1, <1>2

\* A step of one request leaves the locks in order if it gives them to those it
\* holds afterwards, takes none from anybody else, and moves no lease of another.
LEMMA RequestKeepsHolds ==
    ASSUME Types, HoldInv, setting' = setting, NEW r \in Requests, Alone(r),
           \A p \in Replicas \ {home[r]} : locks'[p] = locks[p],
           \A c \in Held(r)' : locks'[home[r]][c].active,
           work'[r].trying \notin work'[r].owned,
           \A c \in Channels : locks'[home[r]][c].active /\ c \notin Held(r)'
             => locks[home[r]][c].active /\ c \notin Held(r),
           \A c \in Channels : locks[home[r]][c].active /\ c \notin Held(r)
             => locks'[home[r]][c] = locks[home[r]][c] /\ c \notin Held(r)',
           Reliable' => Reliable,
           \A c \in Channels : lease'[c] = lease[c] \/ lease[c] = None,
           \A c \in Channels : TokenOf(home[r], c)', TryOf(r)',
           Trusted' => \A c \in work'[r].owned : locks'[home[r]][c].live,
           \A q \in Requests : work[q].trying \in Channels \cup {None} /\ work[q].owned \subseteq Channels
    PROVE  HoldInv'
<1>1. home' = home /\ persistent' = persistent /\ None \notin Requests \cup Channels
  BY NewsDedupAssumption DEF setting
<1>2. \A q \in Requests \ {r} : work'[q] = work[q] /\ Held(q)' = Held(q) /\ Held(q) \subseteq Channels
  BY DEF Alone, Held
<1>3. \A q \in Requests \ {r} : home[q] = home[r] => \A c \in Held(q) :
        c \notin Held(r) /\ locks'[home[r]][c] = locks[home[r]][c] /\ c \notin Held(r)'
  BY <1>2 DEF HoldInv, LockInv
<1>4. \A q \in Requests \ {r} : \A c \in Held(q) : locks'[home[q]][c] = locks[home[q]][c]
  BY <1>3 DEF Types
<1>5. LockInv'
  <2>1. ASSUME NEW q \in Requests, NEW c \in Held(q)'
        PROVE  locks'[home'[q]][c].active
    BY <1>1, <1>2, <1>4 DEF HoldInv, LockInv
  <2>2. ASSUME NEW q1 \in Requests, NEW q2 \in Requests, home'[q1] = home'[q2], q1 # q2
        PROVE  Held(q1)' \cap Held(q2)' = {}
    BY <1>1, <1>2, <1>3, <2>2 DEF HoldInv, LockInv
  <2>3. ASSUME NEW q \in Requests
        PROVE  work'[q].trying \notin work'[q].owned
    BY <1>2 DEF HoldInv, LockInv
  <2>4. ASSUME NEW p \in Replicas, NEW c \in Channels, locks'[p][c].active
        PROVE  \E q \in Requests : home'[q] = p /\ c \in Held(q)'
    <3>1. CASE p = home[r] /\ c \in Held(r)'
      BY <1>1, <3>1
    <3>2. CASE p = home[r] /\ c \notin Held(r)'
      <4>1. PICK q \in Requests : home[q] = p /\ c \in Held(q)
        BY <2>4, <3>2 DEF HoldInv, LockInv
      <4>2. q # r
        BY <2>4, <3>2, <4>1
      <4> QED BY <1>1, <1>2, <4>1, <4>2
    <3>3. CASE p # home[r]
      <4>1. PICK q \in Requests : home[q] = p /\ c \in Held(q)
        BY <2>4, <3>3 DEF HoldInv, LockInv
      <4> QED BY <1>1, <1>2, <3>3, <4>1
    <3> QED BY <3>1, <3>2, <3>3
  <2> QED BY <2>1, <2>2, <2>3, <2>4 DEF LockInv
<1>6. LiveInv'
  <2>1. ASSUME NEW p \in Replicas, NEW c \in Channels
        PROVE  TokenOf(p, c)'
    <3>1. CASE p # home[r]
      <4>1. locks'[p] = locks[p] /\ TokenOf(p, c) /\ (lease'[c] = lease[c] \/ lease[c] = None)
        BY <3>1 DEF HoldInv, LiveInv
      <4> QED BY <1>1, <4>1 DEF TokenOf
    <3> QED BY <1>1, <3>1 DEF TokenOf
  <2>2. ASSUME NEW q \in Requests
        PROVE  TryOf(q)'
    <3>1. CASE q # r
      <4>1. work'[q] = work[q] /\ (work[q].trying # None => work[q].trying \in Held(q))
        BY <1>2, <3>1 DEF Held
      <4> QED BY <1>1, <1>4, <3>1, <4>1 DEF HoldInv, LiveInv, TryOf
    <3> QED BY <3>1
  <2>3. ASSUME Trusted', NEW q \in Requests, NEW c \in work'[q].owned
        PROVE  locks'[home'[q]][c].live
    <3>1. Trusted
      BY <1>1, <2>3 DEF Trusted
    <3>2. CASE q # r
      BY <1>1, <1>2, <1>4, <2>3, <3>1, <3>2 DEF HoldInv, LiveInv, Held
    <3> QED BY <1>1, <2>3, <3>2
  <2> QED BY <2>1, <2>2, <2>3 DEF LiveInv
<1> QED BY <1>5, <1>6 DEF HoldInv

\* So does a step that touches none of this.
LEMMA UntouchedHolds ==
    ASSUME Types, HoldInv, setting' = setting, locks' = locks, lease' = lease,
           Reliable' => Reliable,
           \A q \in Requests : work'[q].owned = work[q].owned /\ work'[q].trying = work[q].trying
    PROVE  HoldInv'
<1>1. home' = home /\ persistent' = persistent /\ (Trusted' => Trusted)
  BY DEF setting, Trusted
<1>2. \A q \in Requests : Held(q)' = Held(q)
  BY DEF Held
<1>3. LockInv'
  BY <1>1, <1>2 DEF HoldInv, LockInv
<1>4. \A q \in Requests : TryOf(q)'
  BY <1>1 DEF HoldInv, LiveInv, TryOf
<1>5. \A p \in Replicas, c \in Channels : TokenOf(p, c)'
  BY <1>1 DEF HoldInv, LiveInv, TokenOf
<1>6. Trusted' => \A q \in Requests : \A c \in work'[q].owned : locks'[home'[q]][c].live
  BY <1>1 DEF HoldInv, LiveInv
<1> QED BY <1>3, <1>4, <1>5, <1>6 DEF HoldInv, LiveInv

LEMMA HeldTypes ==
    ASSUME Types
    PROVE  \A q \in Requests : /\ work[q].trying \in Channels \cup {None}
                               /\ work[q].owned \subseteq Channels /\ work[q].todo \subseteq Channels
BY DEF Types, Work

\* How a request goes on claiming, from the locks L, in which it holds owned.
LEMMA LeasedKeepsHolds ==
    ASSUME Types, HoldInv, setting' = setting, Reliable' => Reliable,
           \A c \in Channels : lease'[c] = lease[c] \/ lease[c] = None,
           NEW r \in Requests, NEW data, NEW L \in [Channels -> Lock], NEW todo \in SUBSET Channels,
           NEW owned \in SUBSET Channels, NEW mine, NEW next,
           Leased(r, data, L, todo, owned, mine, next),
           \A c \in owned : L[c].active /\ (Trusted' => L[c].live),
           \A c \in Channels : L[c].active /\ c \notin owned
             => locks[home[r]][c].active /\ c \notin Held(r),
           \A c \in Channels : locks[home[r]][c].active /\ c \notin Held(r)
             => L[c] = locks[home[r]][c] /\ c \notin owned,
           \A c \in Channels : L[c].live => /\ L[c].token \in Requests /\ home[L[c].token] = home[r]
                                            /\ Reliable' => lease'[c] = L[c].token
    PROVE  HoldInv'
<1> DEFINE p == home[r]
<1>1. home' = home /\ persistent' = persistent /\ None \notin Requests \cup Channels /\ p \in Replicas
  BY NewsDedupAssumption DEF setting, Types
<1>2. /\ mine \subseteq Channels /\ next \in Channels \cup {None}
      /\ \A c \in mine : ~L[c].active /\ (L[c].live \/ ~persistent)
      /\ next # None => ~L[next].active /\ ~L[next].live
      /\ \A c \in Channels : locks'[p][c] = IF c \in mine \cup {next} THEN Grab(r, L[c]) ELSE L[c]
      /\ work'[r].owned = owned \cup mine /\ work'[r].trying = next /\ next \notin mine
  BY DEF Leased
<1>3. Held(r)' = owned \cup mine \cup ({next} \ {None})
  BY <1>2 DEF Held
<1>4. \A c \in Channels : /\ Grab(r, L[c]).active /\ Grab(r, L[c]).live = L[c].live
                          /\ Grab(r, L[c]).token = IF L[c].live THEN L[c].token ELSE r
  BY GrabIsLock
<1>5. \A c \in Held(r)' : locks'[p][c].active
  BY <1>2, <1>3, <1>4
<1>6. next \notin owned \cup mine
  BY <1>1, <1>2
<1>7. \A c \in Channels : locks'[p][c].active /\ c \notin Held(r)' => locks[p][c].active /\ c \notin Held(r)
  BY <1>1, <1>2, <1>3
<1>8. \A c \in Channels : locks[p][c].active /\ c \notin Held(r)
         => locks'[p][c] = locks[p][c] /\ c \notin Held(r)'
  BY <1>1, <1>2, <1>3
<1>9. ASSUME NEW c \in Channels
      PROVE  TokenOf(p, c)'
  <2>1. locks'[p][c].live = L[c].live /\ (L[c].live => locks'[p][c].token = L[c].token)
    BY <1>2, <1>4
  <2> QED BY <1>1, <2>1 DEF TokenOf
<1>10. TryOf(r)'
  BY <1>1, <1>2, <1>4 DEF TryOf
<1>11. ASSUME Trusted', NEW c \in work'[r].owned
       PROVE  locks'[p][c].live
  BY <1>1, <1>2, <1>4, <1>11 DEF Trusted
<1>12. Alone(r) /\ \A q \in Replicas \ {p} : locks'[q] = locks[q]
  BY DEF Leased, Alone
<1> HIDE DEF p
<1>13. work'[r].trying \notin work'[r].owned
  BY <1>2, <1>6
<1> QED BY <1>5, <1>7, <1>8, <1>9, <1>10, <1>11, <1>12, <1>13, RequestKeepsHolds, HeldTypes DEF p

LEMMA ReadsKeepHolds ==
    ASSUME Types, StepInv, HoldInv, NEW r \in Requests, Read(r) \/ ReadAnswer(r) \/ RereadAnswer(r)
    PROVE  HoldInv'
<1>1. /\ setting' = setting /\ lease' = lease
      /\ faults' = faults \/ \E k \in {"storage", "slow", "crash"} : Faulty(k)
  BY DEF Read, ReadAnswer, RereadAnswer, Fetch, cloud
<1>2. Reliable' => Reliable
  BY <1>1, ReliableStays
<1>3. work[r].owned = {} /\ work[r].trying = None /\ None \notin Channels /\ home[r] \in Replicas
  BY NewsDedupAssumption DEF StepInv, StepOf, Redeliveries, Read, ReadAnswer, RereadAnswer, Types
<1>4. ASSUME NEW data \in Data, Proceed(r, data)
      PROVE  HoldInv'
  <2> DEFINE todo == {c \in wants[r] : data.results[c] # "ok"}
             L == locks[home[r]]
  <2>1. CASE /\ work' = [work EXCEPT ![r] = NoWork] /\ locks' = locks
    <3>1. \A q \in Requests : work'[q].owned = work[q].owned /\ work'[q].trying = work[q].trying
      BY <1>3, <2>1 DEF Types, NoWork
    <3> QED BY <1>1, <1>2, <2>1, <3>1, UntouchedHolds
  <2>2. ASSUME NEW mine, NEW next, Leased(r, data, L, todo, {}, mine, next)
        PROVE  HoldInv'
    <3>1. L \in [Channels -> Lock] /\ todo \in SUBSET Channels /\ {} \in SUBSET Channels
      BY <1>3 DEF Types
    <3>2. Held(r) = {}
      BY <1>3 DEF Held
    <3>3. \A c \in Channels : L[c].live => /\ L[c].token \in Requests /\ home[L[c].token] = home[r]
                                           /\ Reliable' => lease'[c] = L[c].token
      BY <1>1, <1>2, <1>3 DEF HoldInv, LiveInv, TokenOf
    <3> HIDE DEF todo
    <3> QED BY <1>1, <1>2, <2>2, <3>1, <3>2, <3>3, LeasedKeepsHolds
  <2> QED BY <1>4, <2>1, <2>2, ProceedOutcome
<1>5. ASSUME \/ Read(r) /\ persistent /\ work' = [work EXCEPT ![r] = [work[r] EXCEPT !.data = local[home[r]]]]
             \/ RereadAnswer(r)
      PROVE  HoldInv'
  <2>1. locks' = locks /\ \A q \in Requests \ {r} : work'[q] = work[q]
    BY <1>5 DEF Read, RereadAnswer, Ends, Types
  <2>2. work'[r].owned = {} /\ work'[r].trying = None
    BY <1>3, <1>5 DEF RereadAnswer, Ends, NoWork, Types, Work
  <2> QED BY <1>1, <1>2, <1>3, <2>1, <2>2, UntouchedHolds
<1>6. CASE Read(r) /\ persistent
  BY <1>5, <1>6 DEF Read
<1>7. CASE Read(r) /\ ~persistent
  BY <1>4, <1>7 DEF Read, Types
<1>8. CASE ReadAnswer(r)
  <2>1. PICK data \in {work[r].data, stored} : Fetch(r, data) /\ Proceed(r, data)
    BY <1>8 DEF ReadAnswer
  <2> QED BY <1>4, <2>1, FetchTypes
<1> QED BY <1>5, <1>6, <1>7, <1>8

LEMMA AnalysisKeepsHolds ==
    ASSUME Types, StepInv, HoldInv, NEW r \in Requests, Analyse(r)
    PROVE  HoldInv'
<1>1. /\ setting' = setting /\ locks' = locks
      /\ lease' = lease
      /\ faults' = faults \/ \E k \in {"storage", "slow", "crash"} : Faulty(k)
  BY DEF Analyse, Quiet, Elsewhere, ClaimKey, ClaimAnswer, Deliver, SetFinal, cloud
<1>2. \A q \in Requests : work'[q].owned = work[q].owned /\ work'[q].trying = work[q].trying
  BY AnalysisKeepsStep DEF Alone, NoWork
<1> QED BY <1>1, <1>2, ReliableStays, UntouchedHolds

\* A request that ends gives back all it owned.
LEMMA ReleaseKeepsHolds ==
    ASSUME Types, HoldInv, setting' = setting, lease' = lease, Reliable' => Reliable,
           NEW r \in Requests, work[r].trying = None, Ends(r), Release(r)
    PROVE  HoldInv'
<1>1. home' = home /\ persistent' = persistent /\ None \notin Channels /\ home[r] \in Replicas
  BY NewsDedupAssumption DEF setting, Types
<1>2. Alone(r) /\ work'[r] = NoWork /\ work'[r].owned = {} /\ work'[r].trying = None
  BY EndsOutcome DEF NoWork
<1>3. Held(r)' = {} /\ Held(r) = work[r].owned
  BY <1>2 DEF Held
<1>4. /\ \A p \in Replicas \ {home[r]} : locks'[p] = locks[p]
      /\ \A c \in Channels :
           IF c \notin work[r].owned THEN locks'[home[r]][c] = locks[home[r]][c]
           ELSE /\ ~locks'[home[r]][c].active
                /\ locks'[home[r]][c].live => /\ locks[home[r]][c].live
                                              /\ locks'[home[r]][c].token = locks[home[r]][c].token
  BY ReleaseOutcome
<1>5. ASSUME NEW c \in Channels
      PROVE  TokenOf(home[r], c)'
  <2>1. TokenOf(home[r], c)
    BY <1>1 DEF HoldInv, LiveInv
  <2> QED BY <1>1, <1>4, <2>1 DEF TokenOf
<1>6. TryOf(r)'
  BY <1>2 DEF TryOf
<1> QED BY <1>2, <1>3, <1>4, <1>5, <1>6, RequestKeepsHolds, HeldTypes

LEMMA LeaseAnswerKeepsHolds ==
    ASSUME Types, StepInv, HoldInv, NEW r \in Requests, LeaseAnswer(r)
    PROVE  HoldInv'
<1> DEFINE p == home[r]
           c == work[r].trying
           granted == [locks[p] EXCEPT ![c].live = TRUE]
           refused == [locks[p] EXCEPT ![c] = NoLock]
<1>1. /\ c \in Channels /\ p \in Replicas /\ persistent /\ setting' = setting
      /\ None \notin Requests \cup Channels
  BY LeaseOutcome, NewsDedupAssumption DEF Types
<1>2. /\ \/ faults' = faults /\ (lease[c] # None => lease' = lease)
         \/ Faulty("storage")
      /\ lease' = lease \/ (lease[c] = None /\ lease' = [lease EXCEPT ![c] = r])
      /\ \/ /\ lease'[c] = r \/ Faulty("storage")
            /\ \E mine, next : Leased(r, work[r].data, granted, work[r].todo,
                                      work[r].owned \cup {c}, mine, next)
         \/ /\ lease' = lease
            /\ \E mine, next : Leased(r, work[r].data, refused, work[r].todo, work[r].owned, mine, next)
  BY LeaseOutcome DEF Types
<1>3. Reliable' => Reliable
  BY <1>2, ReliableStays
<1>4. Faulty("storage") => ~Reliable'
  BY ReliableStays
<1>5. \A x \in Channels : lease'[x] = lease[x] \/ lease[x] = None
  BY <1>2 DEF Types
<1>6. /\ locks[p] \in [Channels -> Lock] /\ granted \in [Channels -> Lock] /\ refused \in [Channels -> Lock]
      /\ work[r].todo \in SUBSET Channels /\ work[r].owned \in SUBSET Channels
      /\ work[r].owned \cup {c} \in SUBSET Channels
  BY <1>1, LockKeepsType, HeldTypes DEF Types
<1>7. /\ Held(r) = work[r].owned \cup {c} /\ c \notin work[r].owned
      /\ \A x \in Held(r) : locks[p][x].active
      /\ locks[p][c].token = r /\ ~locks[p][c].live
      /\ persistent /\ Reliable => \A x \in work[r].owned : locks[p][x].live
  BY <1>1 DEF Held, HoldInv, LockInv, LiveInv, TryOf, Trusted
<1>8. \A x \in Channels : TokenOf(p, x)
  BY <1>1 DEF HoldInv, LiveInv
<1>9. persistent' = persistent
  BY <1>1 DEF setting
<1>10. ASSUME lease'[c] = r \/ Faulty("storage"), NEW mine, NEW next,
              Leased(r, work[r].data, granted, work[r].todo, work[r].owned \cup {c}, mine, next)
       PROVE  HoldInv'
  <2>1. /\ \A x \in Channels \ {c} : granted[x] = locks[p][x]
        /\ granted[c].active = locks[p][c].active /\ granted[c].live /\ granted[c].token = r
    <3>1. locks[p][c] \in Lock
      BY <1>1, <1>6
    <3>2. granted[c] = [locks[p][c] EXCEPT !.live = TRUE] /\ \A x \in Channels \ {c} : granted[x] = locks[p][x]
      BY <1>1, <1>6
    <3>3. /\ [locks[p][c] EXCEPT !.live = TRUE].active = locks[p][c].active
          /\ [locks[p][c] EXCEPT !.live = TRUE].live
          /\ [locks[p][c] EXCEPT !.live = TRUE].token = locks[p][c].token
      BY <3>1 DEF Lock
    <3> HIDE DEF granted
    <3> QED BY <1>7, <3>2, <3>3
  <2> HIDE DEF granted, refused
  <2>2. \A x \in work[r].owned \cup {c} : granted[x].active /\ (Trusted' => granted[x].live)
    BY <1>3, <1>6, <1>7, <1>9, <2>1 DEF Trusted
  <2>3. \A x \in Channels : granted[x].active /\ x \notin work[r].owned \cup {c}
          => locks[p][x].active /\ x \notin Held(r)
    BY <1>7, <2>1
  <2>4. \A x \in Channels : locks[p][x].active /\ x \notin Held(r)
          => granted[x] = locks[p][x] /\ x \notin work[r].owned \cup {c}
    BY <1>7, <2>1
  <2>5. ASSUME NEW x \in Channels, granted[x].live
        PROVE  /\ granted[x].token \in Requests /\ home[granted[x].token] = p
               /\ Reliable' => lease'[x] = granted[x].token
    <3>1. CASE x = c
      BY <1>4, <1>10, <2>1, <3>1
    <3>2. CASE x # c
      <4>1. lease'[x] = lease[x] \/ lease[x] = None
        BY <1>5
      <4> QED BY <1>1, <1>3, <1>8, <2>1, <2>5, <3>2, <4>1 DEF TokenOf
    <3> QED BY <3>1, <3>2
  <2> HIDE DEF c, p
  <2> QED BY <1>1, <1>3, <1>5, <1>6, <1>10, <2>2, <2>3, <2>4, <2>5, LeasedKeepsHolds DEF p
<1>11. ASSUME lease' = lease, NEW mine, NEW next,
              Leased(r, work[r].data, refused, work[r].todo, work[r].owned, mine, next)
       PROVE  HoldInv'
  <2>1. refused[c] = NoLock /\ ~refused[c].active /\ ~refused[c].live
        /\ \A x \in Channels \ {c} : refused[x] = locks[p][x]
    BY <1>1, <1>6 DEF NoLock
  <2> HIDE DEF granted, refused
  <2>2. \A x \in work[r].owned : refused[x].active /\ (Trusted' => refused[x].live)
    BY <1>3, <1>6, <1>7, <1>9, <2>1 DEF Trusted
  <2>3. \A x \in Channels : refused[x].active /\ x \notin work[r].owned
          => locks[p][x].active /\ x \notin Held(r)
    BY <1>7, <2>1
  <2>4. \A x \in Channels : locks[p][x].active /\ x \notin Held(r)
          => refused[x] = locks[p][x] /\ x \notin work[r].owned
    BY <1>7, <2>1
  <2>5. \A x \in Channels : refused[x].live => /\ refused[x].token \in Requests /\ home[refused[x].token] = p
                                               /\ Reliable' => lease'[x] = refused[x].token
    BY <1>3, <1>8, <1>11, <2>1 DEF TokenOf
  <2> HIDE DEF c, p
  <2> QED BY <1>1, <1>3, <1>5, <1>6, <1>11, <2>2, <2>3, <2>4, <2>5, LeasedKeepsHolds DEF p
<1> QED BY <1>2, <1>10, <1>11

LEMMA RedeliveryKeepsHolds ==
    ASSUME Types, StepInv, HoldInv, NEW r \in Requests, Redeliver(r)
    PROVE  HoldInv'
<1>1. /\ setting' = setting
      /\ pc[r] # "leasing" => lease' = lease
      /\ faults' = faults \/ \E k \in {"storage", "slow", "crash"} : Faulty(k)
  BY DEF Redeliver, LeaseAnswer, Resend, Renewed, Recorded, cloud
<1>2. Reliable' => Reliable
  BY <1>1, ReliableStays
<1>3. pc[r] # "leasing" => work[r].trying = None
  BY DEF StepInv, StepOf
<1>4. CASE LeaseAnswer(r)
  BY <1>4, LeaseAnswerKeepsHolds
<1>5. CASE Resend(r)
  <2>1. /\ pc[r] = "resending" /\ locks' = locks
        /\ \A q \in Requests \ {r} : work'[q] = work[q]
        /\ work'[r].owned = work[r].owned /\ work'[r].trying = work[r].trying
    BY <1>5, ResendOutcome
  <2> QED BY <1>1, <1>2, <2>1, UntouchedHolds
<1>6. CASE Renewed(r)
  <2>1. pc[r] = "renewing" /\ work[r] \in Work
    BY <1>6 DEF Renewed, Types
  <2>2. CASE Ends(r) /\ Release(r)
    BY <1>1, <1>2, <1>3, <2>1, <2>2, ReleaseKeepsHolds
  <2>3. ASSUME NEW kept, work' = [work EXCEPT ![r] = [work[r] EXCEPT !.kept = kept]], locks' = locks
        PROVE  HoldInv'
    <3>1. work'[r].owned = work[r].owned /\ work'[r].trying = work[r].trying
          /\ \A q \in Requests \ {r} : work'[q] = work[q]
      BY <2>1, <2>3 DEF Types, Work
    <3> QED BY <1>1, <1>2, <2>1, <2>3, <3>1, UntouchedHolds
  <2> QED BY <1>6, <2>2, <2>3, RenewedOutcome
<1>7. CASE Recorded(r)
  <2>1. pc[r] = "recording" /\ Ends(r) /\ Release(r)
    BY <1>7 DEF Recorded
  <2> QED BY <1>1, <1>2, <1>3, <2>1, ReleaseKeepsHolds
<1> QED BY <1>4, <1>5, <1>6, <1>7 DEF Redeliver

LEMMA LeaseExpiresKeepsHolds ==
    ASSUME Types, StepInv, HoldInv, NEW c \in Channels, LeaseExpires(c)
    PROVE  HoldInv'
<1>1. /\ home' = home /\ persistent' = persistent /\ work' = work
      /\ \A r \in Requests : work[r].trying # c
      /\ IF \E r \in Requests : Redelivering(r, c) THEN Faulty("slow") ELSE UNCHANGED faults
      /\ lease'[c] = None /\ \A x \in Channels \ {c} : lease'[x] = lease[x]
      /\ \A p \in Replicas : /\ ~locks'[p][c].live /\ locks'[p][c].active = locks[p][c].active
                             /\ \A x \in Channels \ {c} : locks'[p][x] = locks[p][x]
  BY LeaseExpiresOutcome DEF setting
<1>2. Reliable' => Reliable
  BY <1>1, ReliableStays
<1>3. Faulty("slow") => ~Reliable'
  BY ReliableStays
<1>4. \A p \in Replicas, x \in Channels : locks'[p][x].active = locks[p][x].active
  BY <1>1
<1>5. LockInv'
  <2>1. \A r \in Requests : Held(r)' = Held(r) /\ Held(r) \subseteq Channels /\ home[r] \in Replicas
    BY <1>1, HeldTypes DEF Held, Types
  <2> QED BY <1>1, <1>4, <2>1 DEF HoldInv, LockInv
<1>6. ASSUME NEW p \in Replicas, NEW x \in Channels
      PROVE  TokenOf(p, x)'
  <2>1. CASE x = c
    BY <1>1, <2>1 DEF TokenOf
  <2>2. CASE x # c
    <3>1. locks'[p][x] = locks[p][x] /\ lease'[x] = lease[x] /\ TokenOf(p, x)
      BY <1>1, <2>2 DEF HoldInv, LiveInv
    <3> QED BY <1>1, <1>2, <3>1 DEF TokenOf
  <2> QED BY <2>1, <2>2
<1>7. ASSUME NEW r \in Requests
      PROVE  TryOf(r)'
  <2>1. work[r].trying \in Channels \cup {None} /\ home[r] \in Replicas /\ work[r].trying # c
    BY <1>1, HeldTypes DEF Types
  <2> QED BY <1>1, <2>1 DEF HoldInv, LiveInv, TryOf
<1>8. ASSUME Trusted', NEW r \in Requests, NEW x \in work'[r].owned
      PROVE  locks'[home'[r]][x].live
  <2>1. Trusted /\ x \in work[r].owned /\ x \in Channels /\ home[r] \in Replicas
    BY <1>1, <1>2, <1>8, HeldTypes DEF Trusted, Types
  <2>2. x # c
    <3>1. SUFFICES ASSUME x = c PROVE FALSE
      OBVIOUS
    <3>2. Redelivering(r, c)
      BY <2>1, <3>1 DEF StepInv, StepOf, Redeliveries, Redelivering
    <3> QED BY <1>1, <1>3, <1>8, <3>2 DEF Trusted
  <2> QED BY <1>1, <2>1, <2>2 DEF HoldInv, LiveInv
<1> QED BY <1>5, <1>6, <1>7, <1>8 DEF HoldInv, LiveInv

LEMMA CrashKeepsHolds ==
    ASSUME Types, StepInv, HoldInv, NEW p \in Replicas, Crash(p)
    PROVE  HoldInv'
<1>1. /\ home' = home /\ persistent' = persistent /\ lease' = lease
      /\ \A q \in Replicas \ {p} : locks'[q] = locks[q]
      /\ \A c \in Channels : locks'[p][c] = NoLock /\ ~NoLock.active /\ ~NoLock.live
      /\ Faulty("crash")
  <2>1. ~NoLock.active /\ ~NoLock.live
    BY DEF NoLock
  <2> QED BY <2>1, CrashOutcome DEF setting
<1>2. Reliable' => Reliable
  BY <1>1, ReliableStays
<1>3. ASSUME NEW r \in Requests, home[r] = p
      PROVE  work'[r] = NoWork /\ Held(r)' = {} /\ work'[r].owned = {} /\ work'[r].trying = None
  <2>1. work'[r] = NoWork
    <3>1. pc[r] \in {"new", "done", "lost"} => work[r] = NoWork
      BY DEF StepInv, StepOf, Idle
    <3> QED BY <1>3, <3>1, CrashOutcome
  <2> QED BY <2>1 DEF Held, NoWork
<1>4. ASSUME NEW r \in Requests, home[r] # p
      PROVE  /\ work'[r] = work[r] /\ Held(r)' = Held(r) /\ home[r] \in Replicas
             /\ locks'[home[r]] = locks[home[r]]
  <2>1. work'[r] = work[r]
    BY <1>4, CrashOutcome
  <2> QED BY <1>1, <1>4, <2>1 DEF Held, Types
<1>5. LockInv'
  <2>1. \A r \in Requests : \A c \in Held(r)' : locks'[home'[r]][c].active
    BY <1>1, <1>3, <1>4 DEF HoldInv, LockInv
  <2>2. \A r, q \in Requests : home'[r] = home'[q] /\ r # q => Held(r)' \cap Held(q)' = {}
    BY <1>1, <1>3, <1>4 DEF HoldInv, LockInv
  <2>3. \A r \in Requests : work'[r].trying \notin work'[r].owned
    BY <1>3, <1>4 DEF HoldInv, LockInv
  <2>4. ASSUME NEW q \in Replicas, NEW c \in Channels, locks'[q][c].active
        PROVE  \E r \in Requests : home'[r] = q /\ c \in Held(r)'
    <3>1. q # p /\ locks[q][c].active
      BY <1>1, <2>4
    <3>2. PICK r \in Requests : home[r] = q /\ c \in Held(r)
      BY <3>1 DEF HoldInv, LockInv
    <3> QED BY <1>1, <1>4, <3>1, <3>2
  <2> QED BY <2>1, <2>2, <2>3, <2>4 DEF LockInv
<1>6. ASSUME NEW q \in Replicas, NEW c \in Channels
      PROVE  TokenOf(q, c)'
  <2>1. CASE q = p
    BY <1>1, <2>1 DEF TokenOf
  <2>2. CASE q # p
    <3>1. locks'[q] = locks[q] /\ TokenOf(q, c)
      BY <1>1, <2>2 DEF HoldInv, LiveInv
    <3> QED BY <1>1, <1>2, <3>1 DEF TokenOf
  <2> QED BY <2>1, <2>2
<1>7. ASSUME NEW r \in Requests
      PROVE  TryOf(r)'
  <2>1. CASE home[r] = p
    BY <1>3, <2>1 DEF TryOf
  <2>2. CASE home[r] # p
    BY <1>1, <1>4, <2>2 DEF TryOf, HoldInv, LiveInv
  <2> QED BY <2>1, <2>2
<1>8. ASSUME Trusted', NEW r \in Requests, NEW c \in work'[r].owned
      PROVE  locks'[home'[r]][c].live
  <2>1. Trusted
    BY <1>1, <1>2, <1>8 DEF Trusted
  <2>2. home[r] # p /\ c \in work[r].owned
    BY <1>3, <1>4, <1>8
  <2> QED BY <1>1, <1>4, <2>1, <2>2 DEF HoldInv, LiveInv
<1> QED BY <1>5, <1>6, <1>7, <1>8 DEF HoldInv, LiveInv

\* Who works on what, and who holds which locks, in every step.
LockingInv == Types /\ StepInv /\ HoldInv

LEMMA InitLocking ==
    ASSUME Init
    PROVE  LockingInv
<1>1. None \notin Requests \cup Channels
  BY NewsDedupAssumption
<1>2. Types
  <2>1. /\ persistent \in Modes /\ home \in [Requests -> Replicas] /\ wants \in [Requests -> SUBSET Channels]
        /\ pc \in [Requests -> Steps] /\ work \in [Requests -> Work]
        /\ local \in [Replicas -> Data] /\ locks \in [Replicas -> [Channels -> Lock]]
    BY DataTypes DEF Init, Steps
  <2>2. /\ stored \in Data /\ expired \in BOOLEAN /\ lease \in [Channels -> Requests \cup {None}]
        /\ writes = {} /\ alerted = {} /\ crashed = {} /\ delivered = {} /\ retracted = {}
    BY DataTypes DEF Init
  <2>3. faults \in [FaultKinds -> Nat] /\ lapses \in 0..MaxLapses
    BY NewsDedupAssumption DEF Init
  <2> QED BY <2>1, <2>2, <2>3 DEF Types
<1>3. \A r \in Requests : pc[r] = "new" /\ work[r] = NoWork
  BY DEF Init
<1>4. StepInv
  BY <1>3 DEF StepInv, StepOf, Idle, Redeliveries, NoWork
<1>5. \A r \in Requests : Held(r) = {} /\ work[r].owned = {} /\ work[r].trying = None
  BY <1>3 DEF Held, NoWork
<1>6. \A p \in Replicas, c \in Channels : ~locks[p][c].active /\ ~locks[p][c].live
  BY DEF Init, NoLock
<1>7. LockInv
  BY <1>1, <1>5, <1>6 DEF LockInv
<1>8. LiveInv
  BY <1>5, <1>6 DEF LiveInv, TokenOf, TryOf
<1> QED BY <1>2, <1>4, <1>7, <1>8 DEF LockingInv, HoldInv

LEMMA NextLocking ==
    ASSUME LockingInv, [Next]_vars
    PROVE  LockingInv'
<1> USE DEF LockingInv
<1>1. ASSUME NEW r \in Requests, Read(r)
      PROVE  LockingInv'
  BY <1>1, ReadTypes, ReadsKeepStep, ReadsKeepHolds
<1>2. ASSUME NEW r \in Requests, ReadAnswer(r)
      PROVE  LockingInv'
  BY <1>2, ReadAnswerTypes, ReadsKeepStep, ReadsKeepHolds
<1>3. ASSUME NEW r \in Requests, RereadAnswer(r)
      PROVE  LockingInv'
  BY <1>3, RereadAnswerTypes, ReadsKeepStep, ReadsKeepHolds
<1>4. ASSUME NEW r \in Requests, Analyse(r)
      PROVE  LockingInv'
  BY <1>4, AnalysisTypes, AnalysisKeepsStep, AnalysisKeepsHolds
<1>5. ASSUME NEW r \in Requests, Redeliver(r)
      PROVE  LockingInv'
  <2>1. Types'
    BY <1>5, LeaseOutcome, ResendOutcome, RenewedOutcome, RecordedOutcome DEF Redeliver
  <2> QED BY <1>5, <2>1, RedeliveryKeepsStep, RedeliveryKeepsHolds
<1>6. ASSUME NEW w \in writes, Store(w)
      PROVE  LockingInv'
  <2>1. /\ UNCHANGED <<setting, pc, work, locks, lease>>
        /\ faults' = faults \/ \E k \in {"storage", "slow", "crash"} : Faulty(k)
    BY <1>6 DEF Store
  <2>2. StepInv'
    BY <2>1 DEF StepInv, StepOf, setting
  <2>3. HoldInv'
    BY <2>1, ReliableStays, UntouchedHolds
  <2> QED BY <1>6, <2>2, <2>3, StoreTypes
<1>7. ASSUME NEW c \in Channels, LeaseExpires(c)
      PROVE  LockingInv'
  <2>1. StepInv'
    BY <1>7, LeaseExpiresOutcome DEF StepInv, StepOf, setting
  <2> QED BY <1>7, <2>1, LeaseExpiresOutcome, LeaseExpiresKeepsHolds
<1>8. ASSUME NEW p \in Replicas, Crash(p)
      PROVE  LockingInv'
  BY <1>8, CrashOutcome, CrashKeepsStep, CrashKeepsHolds
<1>9. CASE Lapse
  <2>1. UNCHANGED <<setting, pc, work, locks, lease, faults>>
    BY <1>9 DEF Lapse
  <2>2. StepInv'
    BY <2>1 DEF StepInv, StepOf, setting
  <2>3. HoldInv'
    BY <2>1, ReliableStays, UntouchedHolds
  <2> QED BY <1>9, <2>2, <2>3, LapseTypes
<1>10. CASE UNCHANGED vars
  <2>1. Types'
    BY <1>10 DEF vars, setting, cloud, ghosts, Types
  <2>2. StepInv'
    BY <1>10 DEF StepInv, StepOf, vars, setting
  <2>3. HoldInv'
    BY <1>10, ReliableStays, UntouchedHolds DEF vars, cloud
  <2> QED BY <2>1, <2>2, <2>3
<1> QED BY <1>1, <1>2, <1>3, <1>4, <1>5, <1>6, <1>7, <1>8, <1>9, <1>10 DEF Next

\* Requests, caches, locks and documents keep their types, and a channel is locked
\* in a process only while one of its requests claims or redelivers it.
THEOREM NewsDedupTypes == Spec => []TypeOK
<1>1. LockingInv => TypeOK
  BY DEF LockingInv, HoldInv, LockInv, Held, TypeOK, LocksHeld
<1> QED BY <1>1, InitLocking, NextLocking, PTL DEF Spec

\* Two requests that redeliver to one channel at the same time are in two processes,
\* and then leases could not be relied on.
LEMMA HoldersDiffer ==
    ASSUME LockingInv
    PROVE  OneSender
<1> SUFFICES ASSUME NEW c \in Channels, NEW r \in Requests, NEW q \in Requests,
                    c \in work[r].owned, c \in work[q].owned, r # q,
                    home[r] = home[q] \/ (persistent /\ Reliable)
             PROVE  FALSE
  BY DEF OneSender
<1>1. c \in Held(r) /\ c \in Held(q) /\ home[r] \in Replicas /\ home[q] \in Replicas
  BY DEF Held, LockingInv, Types
<1>2. CASE home[r] = home[q]
  BY <1>1, <1>2 DEF LockingInv, HoldInv, LockInv
<1>3. CASE home[r] # home[q] /\ Trusted
  <2>1. locks[home[r]][c].live /\ locks[home[q]][c].live
    BY <1>3 DEF LockingInv, HoldInv, LiveInv
  <2>2. TokenOf(home[r], c) /\ TokenOf(home[q], c)
    BY <1>1 DEF LockingInv, HoldInv, LiveInv
  <2>3. home[lease[c]] = home[r] /\ home[lease[c]] = home[q]
    BY <1>3, <2>1, <2>2 DEF TokenOf, Trusted
  <2> QED BY <1>3, <2>3
<1> QED BY <1>2, <1>3 DEF Trusted

\* Two requests never redeliver to the same channel at the same time: not in one
\* process, whatever happens, and not in two while leases can be relied on.
THEOREM RedeliversAlone == Spec => []OneSender
BY InitLocking, NextLocking, HoldersDiffer, PTL DEF Spec

-----------------------------------------------------------------------------
(* How often an alert is produced.                                          *)

\* Only final entries are written in the background, each with what its writer made.
WritesInv == \A w \in writes : w.data.status = "final" /\ w.data.alert \in {None, w.owner}

LEMMA SetFinalKeepsWrites ==
    ASSUME WritesInv, NEW r \in Requests, NEW data \in Data, data.status = "final",
           data.alert \in {None, r}, SetFinal(r, data)
    PROVE  /\ WritesInv' /\ UNCHANGED <<stored, expired, lease>>
           /\ writes' \subseteq writes \cup {[owner |-> r, data |-> data]}
<1>1. writes' \subseteq writes \cup {[owner |-> r, data |-> data]}
  BY DEF SetFinal
<1>2. WritesInv'
  BY <1>1 DEF WritesInv
<1> QED BY <1>1, <1>2 DEF SetFinal

\* What the end of an analysis caches.
LEMMA DeliverOutcome ==
    ASSUME Types, NEW r \in Requests, Deliver(r)
    PROVE  /\ pc[r] = "sending" /\ Ends(r)
           /\ \E reached \in SUBSET wants[r], data \in Data :
                /\ SetFinal(r, data) /\ data.status = "final" /\ data.alert = r
                /\ \A c \in Channels : data.results[c] = "ok" <=> c \in reached
                /\ delivered' = delivered \cup {<<r, c, r>> : c \in reached}
           /\ UNCHANGED <<setting, locks, alerted, retracted, crashed, faults, lapses>>
<1>1. PICK reached \in SUBSET wants[r] :
        /\ SetFinal(r, [status |-> "final", alert |-> r,
                         results |-> [c \in Channels |-> CASE c \in reached  -> "ok"
                                                           [] c \in wants[r] \ reached -> "failed"
                                                           [] OTHER -> "none"]])
        /\ delivered' = delivered \cup {<<r, c, r>> : c \in reached}
  BY DEF Deliver
<1> DEFINE results == [c \in Channels |-> CASE c \in reached  -> "ok"
                                            [] c \in wants[r] \ reached -> "failed"
                                            [] OTHER -> "none"]
           data == [status |-> "final", alert |-> r, results |-> results]
<1>2. results \in Results /\ \A c \in Channels : results[c] = "ok" <=> c \in reached
  BY DEF Results
<1>3. SetFinal(r, data)
  BY <1>1
<1> HIDE DEF results
<1>4. data \in Data /\ data.status = "final" /\ data.alert = r /\ data.results = results
  BY <1>2 DEF Data
<1>5. /\ pc[r] = "sending" /\ Ends(r)
      /\ UNCHANGED <<setting, locks, alerted, retracted, crashed, faults, lapses>>
  BY DEF Deliver
<1> HIDE DEF data
<1> QED BY <1>1, <1>2, <1>3, <1>4, <1>5

LEMMA QuietOutcome ==
    ASSUME Types, NEW r \in Requests, Quiet(r)
    PROVE  /\ pc[r] = "analysing" /\ Ends(r)
           /\ \E data \in Data : /\ SetFinal(r, data) /\ data.status = "final" /\ data.alert = None
                                 /\ data.results = NoResults
           /\ UNCHANGED <<setting, locks, ghosts, faults, lapses>>
<1> DEFINE data == [Nothing EXCEPT !.status = "final"]
<1>1. data \in Data /\ data.status = "final" /\ data.alert = None /\ data.results = NoResults
  BY DataTypes DEF Data
<1>2. SetFinal(r, data)
  BY DEF Quiet
<1> HIDE DEF data
<1> QED BY <1>1, <1>2 DEF Quiet

LEMMA NextWrites ==
    ASSUME LockingInv, WritesInv, [Next]_vars
    PROVE  WritesInv'
<1>1. ASSUME writes' \subseteq writes
      PROVE  WritesInv'
  BY <1>1 DEF WritesInv
<1>2. ASSUME NEW r \in Requests, Read(r) \/ ReadAnswer(r) \/ RereadAnswer(r)
      PROVE  WritesInv'
  BY <1>1, <1>2 DEF Read, ReadAnswer, RereadAnswer, cloud
<1>3. ASSUME NEW r \in Requests, Analyse(r)
      PROVE  WritesInv'
  <2>1. CASE Quiet(r)
    BY <2>1, QuietOutcome, SetFinalKeepsWrites DEF LockingInv
  <2>2. CASE Deliver(r)
    BY <2>2, DeliverOutcome, SetFinalKeepsWrites DEF LockingInv
  <2>3. CASE Elsewhere(r) \/ ClaimKey(r) \/ ClaimAnswer(r)
    BY <1>1, <2>3 DEF Elsewhere, ClaimKey, ClaimAnswer, cloud
  <2> QED BY <1>3, <2>1, <2>2, <2>3 DEF Analyse
<1>4. ASSUME NEW r \in Requests, Redeliver(r)
      PROVE  WritesInv'
  BY <1>1, <1>4 DEF Redeliver, LeaseAnswer, Resend, Renewed, Recorded, cloud
<1>5. CASE \/ \E w \in writes : Store(w)
           \/ \E c \in Channels : LeaseExpires(c)
           \/ \E p \in Replicas : Crash(p)
           \/ Lapse \/ UNCHANGED vars
  BY <1>1, <1>5 DEF Store, LeaseExpires, Crash, Lapse, vars, cloud
<1> QED BY <1>2, <1>3, <1>4, <1>5 DEF Next

LEMMA HadStays ==
    ASSUME Types, faults' = faults \/ \E k \in {"storage", "slow", "crash"} : Faulty(k)
    PROVE  /\ Had("storage") \in Nat /\ Had("storage")' \in Nat /\ Had("storage")' >= Had("storage")
           /\ Faulty("storage") => Had("storage")' = Had("storage") + 1
<1>1. CASE faults' = faults
  <2>1. Had("storage") \in Nat /\ Had("storage")' = Had("storage")
    BY <1>1 DEF Had, Types
  <2>2. ~Faulty("storage")
    <3>1. SUFFICES ASSUME Faulty("storage") PROVE FALSE
      OBVIOUS
    <3>2. "storage" \in FaultKinds /\ faults'["storage"] = faults["storage"] + 1 /\ faults["storage"] \in Nat
      BY <3>1, FaultyCounts
    <3> QED BY <1>1, <3>2
  <2> QED BY <2>1, <2>2
<1>2. ASSUME NEW k \in {"storage", "slow", "crash"}, Faulty(k)
      PROVE  /\ Had("storage") \in Nat /\ Had("storage")' \in Nat /\ Had("storage")' >= Had("storage")
             /\ Faulty("storage") => Had("storage")' = Had("storage") + 1
  <2>1. \A x \in FaultKinds : faults'[x] >= faults[x] /\ faults'[x] \in Nat /\ faults[x] \in Nat
    BY <1>2, FaultyCounts
  <2>2. Faulty("storage") => "storage" \in FaultKinds /\ faults'["storage"] = faults["storage"] + 1
    BY FaultyCounts
  <2> QED BY <2>1, <2>2 DEF Had
<1> QED BY <1>1, <1>2

\* What a step makes of the alerts and of what is known of the key.
LEMMA AlertedStep ==
    ASSUME LockingInv, WritesInv, [Next]_vars
    PROVE  /\ UNCHANGED <<persistent, home>> /\ crashed \subseteq crashed'
           /\ faults' = faults \/ \E k \in {"storage", "slow", "crash"} : Faulty(k)
           /\ \/ /\ UNCHANGED <<alerted, lapses>>
                 /\ Present => Present'
                 /\ ~persistent => \A p \in Replicas \ crashed' : local[p] # Nothing => local'[p] # Nothing
              \/ /\ UNCHANGED lapses
                 /\ Present => Present'
                 /\ \E r \in Requests :
                      /\ alerted' = alerted \cup {r} /\ local' = [local EXCEPT ![home[r]] = Claimed]
                      /\ IF persistent THEN Faulty("storage") \/ (~Present /\ Present')
                                       ELSE local[home[r]] = Nothing
              \/ UNCHANGED alerted /\ lapses' = lapses + 1
<1> DEFINE Calm == /\ UNCHANGED <<alerted, lapses>>
                   /\ Present => Present'
                   /\ ~persistent => \A p \in Replicas \ crashed' : local[p] # Nothing => local'[p] # Nothing
           Wise == /\ UNCHANGED <<persistent, home>> /\ crashed \subseteq crashed'
                   /\ faults' = faults \/ \E k \in {"storage", "slow", "crash"} : Faulty(k)
           Won  == /\ UNCHANGED lapses
                   /\ Present => Present'
                   /\ \E r \in Requests :
                        /\ alerted' = alerted \cup {r} /\ local' = [local EXCEPT ![home[r]] = Claimed]
                        /\ IF persistent THEN Faulty("storage") \/ (~Present /\ Present')
                                         ELSE local[home[r]] = Nothing
           Goal == Wise /\ (Calm \/ Won \/ (UNCHANGED alerted /\ lapses' = lapses + 1))
<1> SUFFICES Goal
  OBVIOUS
<1> USE DEF LockingInv
<1>1. ASSUME NEW r \in Requests, Read(r) \/ ReadAnswer(r) \/ RereadAnswer(r)
      PROVE  Goal
  <2>1. Wise /\ UNCHANGED <<alerted, lapses>>
    BY <1>1 DEF Read, ReadAnswer, RereadAnswer, Fetch, setting, ghosts
  <2>2. Present => Present'
    BY <1>1 DEF Read, ReadAnswer, RereadAnswer, Fetch, Clean, Present, cloud
  <2>3. ~persistent => local' = local
    BY <1>1 DEF Read, ReadAnswer, RereadAnswer, StepInv, StepOf
  <2> QED BY <2>1, <2>2, <2>3
<1>2. ASSUME NEW r \in Requests, NEW data \in Data, SetFinal(r, data), data.status = "final"
      PROVE  /\ Present => Present'
             /\ \A p \in Replicas : local[p] # Nothing => local'[p] # Nothing
  <2>1. data # Nothing
    BY <1>2, DataTypes
  <2>2. UNCHANGED <<stored, expired>> /\ local' = [local EXCEPT ![home[r]] = data]
    BY <1>2 DEF SetFinal, Keep
  <2> QED BY <2>1, <2>2 DEF Present, Types
<1>3. ASSUME NEW r \in Requests, Quiet(r)
      PROVE  Goal
  BY <1>2, <1>3, QuietOutcome DEF setting, ghosts
<1>4. ASSUME NEW r \in Requests, Deliver(r)
      PROVE  Goal
  BY <1>2, <1>4, DeliverOutcome DEF setting
<1>5. ASSUME NEW r \in Requests, Elsewhere(r)
      PROVE  Goal
  BY <1>5 DEF Elsewhere, setting, ghosts, cloud, Present
<1>6. ASSUME NEW r \in Requests, ClaimKey(r)
      PROVE  Goal
  <2>1. Wise /\ UNCHANGED lapses /\ (Present => Present')
    BY <1>6 DEF ClaimKey, setting, cloud, Present
  <2>2. \/ UNCHANGED <<local, alerted>>
        \/ /\ ~persistent /\ local[home[r]] = Nothing
           /\ alerted' = alerted \cup {r} /\ local' = [local EXCEPT ![home[r]] = Claimed]
    BY <1>6 DEF ClaimKey, Wins, Keep
  <2> QED BY <2>1, <2>2
<1>7. ASSUME NEW r \in Requests, ClaimAnswer(r)
      PROVE  Goal
  <2>1. Wise /\ UNCHANGED lapses
    BY <1>7 DEF ClaimAnswer, setting
  <2>2. persistent
    BY <1>7 DEF ClaimAnswer, StepInv, StepOf
  <2>3. \/ UNCHANGED <<stored, expired>>
        \/ stored' = Claimed /\ expired' = FALSE
    BY <1>7 DEF ClaimAnswer
  <2>4. (Present => Present') /\ (stored' = Claimed /\ expired' = FALSE => Present')
    BY <2>3, DataTypes DEF Present
  <2>5. \/ UNCHANGED <<local, alerted>>
        \/ /\ alerted' = alerted \cup {r} /\ local' = [local EXCEPT ![home[r]] = Claimed]
           /\ Faulty("storage") \/ (~Present /\ stored' = Claimed /\ expired' = FALSE)
    BY <1>7 DEF ClaimAnswer, Wins, Keep
  <2> QED BY <2>1, <2>2, <2>4, <2>5
<1>8. ASSUME NEW r \in Requests, LeaseAnswer(r)
      PROVE  Goal
  BY <1>8 DEF LeaseAnswer, setting, ghosts, Present
<1>9. ASSUME NEW r \in Requests, Resend(r)
      PROVE  Goal
  BY <1>9 DEF Resend, setting, cloud, Present
<1>10. ASSUME NEW r \in Requests, Renewed(r)
       PROVE  Goal
  <2>1. Wise /\ UNCHANGED <<alerted, lapses>> /\ (Present => Present')
    BY <1>10 DEF Renewed, setting, cloud, ghosts, Present
  <2>2. \A p \in Replicas : local[p] # Nothing => local'[p] # Nothing
    BY <1>10, RenewedOutcome, SetResultsOutcome
  <2> QED BY <2>1, <2>2
<1>11. ASSUME NEW r \in Requests, Recorded(r)
       PROVE  Goal
  <2>1. UNCHANGED <<setting, local, expired, alerted, crashed, lapses>> /\ stored'.status = stored.status
    BY <1>11, RecordedOutcome
  <2>2. faults' = faults \/ Faulty("storage")
    BY <1>11, RecordedOutcome
  <2> QED BY <2>1, <2>2 DEF setting, Present
<1>12. ASSUME NEW w \in writes, Store(w)
       PROVE  Goal
  <2>1. w.data.status = "final"
    BY DEF WritesInv
  <2> QED BY <1>12, <2>1 DEF Store, setting, ghosts, Present
<1>13. ASSUME NEW c \in Channels, LeaseExpires(c)
       PROVE  Goal
  BY <1>13 DEF LeaseExpires, setting, ghosts, Present
<1>14. ASSUME NEW p \in Replicas, Crash(p)
       PROVE  Goal
  <2>1. Wise /\ UNCHANGED <<alerted, lapses, stored, expired>>
    BY <1>14, CrashOutcome DEF setting
  <2>2. p \in crashed' /\ \A q \in Replicas \ {p} : local'[q] = local[q]
    BY <1>14, CrashOutcome
  <2> QED BY <2>1, <2>2 DEF Present
<1>15. CASE Lapse
  BY <1>15 DEF Lapse, setting, ghosts
<1>16. CASE UNCHANGED vars
  BY <1>16 DEF vars, setting, cloud, ghosts, Present
<1> QED BY <1>1, <1>3, <1>4, <1>5, <1>6, <1>7, <1>8, <1>9, <1>10, <1>11, <1>12, <1>13, <1>14, <1>15, <1>16
        DEF Next, Analyse, Redeliver

\* The alerts of S are no more than n, and one while the key is known: in Firestore,
\* or in the process when that is not used.
Counted(S, n, known) == IsFiniteSet(S) /\ Cardinality(S) <= n + (IF known THEN 1 ELSE 0)

\* The TTLs that have passed and the errors that have let a request through.
Spent == lapses + Had("storage")

Alerts(p) == {r \in alerted : home[r] = p}

CountInv ==
    IF persistent THEN Counted(alerted, Spent, Present)
    ELSE \A p \in Replicas \ crashed : Counted(Alerts(p), Spent, local[p] # Nothing)

LEMMA CountedMore ==
    ASSUME NEW S, IsFiniteSet(S), NEW T, NEW r, T \subseteq S \cup {r}
    PROVE  IsFiniteSet(T) /\ Cardinality(T) \in Nat /\ Cardinality(S) \in Nat
           /\ Cardinality(T) <= Cardinality(S) + 1
<1>1. /\ IsFiniteSet(S \cup {r}) /\ Cardinality(S) \in Nat
      /\ Cardinality(S \cup {r}) \in {Cardinality(S), Cardinality(S) + 1}
  BY FS_AddElement, FS_CardinalityType
<1>2. IsFiniteSet(T) /\ Cardinality(T) <= Cardinality(S \cup {r}) /\ Cardinality(T) \in Nat
  BY <1>1, FS_Subset, FS_CardinalityType
<1> QED BY <1>1, <1>2

LEMMA CountedStays ==
    ASSUME NEW S, NEW before \in BOOLEAN, NEW after \in BOOLEAN, NEW n \in Nat, NEW m \in Nat,
           Counted(S, n, before), m >= n, (before => after) \/ m >= n + 1
    PROVE  Counted(S, m, after)
<1>1. IsFiniteSet(S) /\ Cardinality(S) \in Nat /\ Cardinality(S) <= n + (IF before THEN 1 ELSE 0)
  BY FS_CardinalityType DEF Counted
<1>2. Cardinality(S) <= m + (IF after THEN 1 ELSE 0)
  BY <1>1
<1> QED BY <1>1, <1>2 DEF Counted

LEMMA CountedGrows ==
    ASSUME NEW S, NEW before \in BOOLEAN, NEW after \in BOOLEAN, NEW n \in Nat, NEW m \in Nat,
           Counted(S, n, before), NEW T, NEW r, T \subseteq S \cup {r}, m >= n,
           (~before /\ after) \/ (m >= n + 1 /\ (before => after))
    PROVE  Counted(T, m, after)
<1>1. IsFiniteSet(S) /\ Cardinality(S) <= n + (IF before THEN 1 ELSE 0)
  BY DEF Counted
<1>2. /\ IsFiniteSet(T) /\ Cardinality(T) \in Nat /\ Cardinality(S) \in Nat
      /\ Cardinality(T) <= Cardinality(S) + 1
  BY <1>1, CountedMore
<1>3. Cardinality(T) <= m + (IF after THEN 1 ELSE 0)
  BY <1>1, <1>2
<1> QED BY <1>2, <1>3 DEF Counted

LEMMA NextCounts ==
    ASSUME LockingInv, WritesInv, CountInv, [Next]_vars
    PROVE  CountInv'
<1> USE DEF LockingInv
<1>1. /\ UNCHANGED <<persistent, home>> /\ crashed \subseteq crashed'
      /\ faults' = faults \/ \E k \in {"storage", "slow", "crash"} : Faulty(k)
  BY AlertedStep
<1>2. /\ Spent \in Nat /\ Spent' \in Nat
      /\ lapses' = lapses => Spent' >= Spent
      /\ lapses' = lapses /\ Faulty("storage") => Spent' >= Spent + 1
      /\ lapses' = lapses + 1 => Spent' >= Spent + 1
  <2>1. /\ Had("storage") \in Nat /\ Had("storage")' \in Nat /\ Had("storage")' >= Had("storage")
        /\ Faulty("storage") => Had("storage")' = Had("storage") + 1
    BY <1>1, HadStays
  <2>2. lapses \in Nat /\ lapses' \in Nat
    BY NewsDedupAssumption, NextLocking DEF Types
  <2> QED BY <2>1, <2>2 DEF Spent
<1>3. Present \in BOOLEAN /\ Present' \in BOOLEAN
  BY DEF Present
<1>4. ASSUME UNCHANGED alerted,
             \/ /\ UNCHANGED lapses
                /\ Present => Present'
                /\ ~persistent => \A p \in Replicas \ crashed' : local[p] # Nothing => local'[p] # Nothing
             \/ lapses' = lapses + 1
      PROVE  CountInv'
  <2>1. Spent' >= Spent /\ (lapses' = lapses \/ Spent' >= Spent + 1)
    BY <1>2, <1>4
  <2>2. CASE persistent
    <3>1. Counted(alerted, Spent, Present) /\ ((Present => Present') \/ Spent' >= Spent + 1)
      BY <1>2, <1>4, <2>2 DEF CountInv
    <3>2. Counted(alerted, Spent', Present')
      BY <1>2, <1>3, <2>1, <3>1, CountedStays
    <3> QED BY <1>1, <1>4, <2>2, <3>2 DEF CountInv
  <2>3. ASSUME ~persistent, NEW p \in Replicas \ crashed'
        PROVE  Counted(Alerts(p)', Spent', local'[p] # Nothing)
    <3>1. Counted(Alerts(p), Spent, local[p] # Nothing) /\ Alerts(p)' = Alerts(p)
      BY <1>1, <1>4, <2>3 DEF CountInv, Alerts
    <3>2. (local[p] # Nothing => local'[p] # Nothing) \/ Spent' >= Spent + 1
      BY <1>2, <1>4, <2>3
    <3> QED BY <1>2, <2>1, <3>1, <3>2, CountedStays
  <2> QED BY <1>1, <2>2, <2>3 DEF CountInv
<1>5. ASSUME UNCHANGED lapses, Present => Present', NEW r \in Requests,
             alerted' = alerted \cup {r}, local' = [local EXCEPT ![home[r]] = Claimed],
             IF persistent THEN Faulty("storage") \/ (~Present /\ Present') ELSE local[home[r]] = Nothing
      PROVE  CountInv'
  <2>1. Spent' >= Spent /\ (Faulty("storage") => Spent' >= Spent + 1)
    BY <1>2, <1>5
  <2>2. CASE persistent
    <3>1. Counted(alerted, Spent, Present) /\ alerted' \subseteq alerted \cup {r}
      BY <1>5, <2>2 DEF CountInv
    <3>2. (~Present /\ Present') \/ (Spent' >= Spent + 1 /\ (Present => Present'))
      BY <1>5, <2>1, <2>2
    <3>3. ASSUME NEW n \in Nat, NEW m \in Nat, NEW before \in BOOLEAN, NEW after \in BOOLEAN,
                 Counted(alerted, n, before), m >= n,
                 (~before /\ after) \/ (m >= n + 1 /\ (before => after))
          PROVE  Counted(alerted', m, after)
      BY <3>1, <3>3, CountedGrows
    <3>4. Counted(alerted', Spent', Present')
      BY <1>2, <1>3, <2>1, <3>1, <3>2, <3>3
    <3> QED BY <1>1, <2>2, <3>4 DEF CountInv
  <2>3. ASSUME ~persistent, NEW p \in Replicas \ crashed'
        PROVE  Counted(Alerts(p)', Spent', local'[p] # Nothing)
    <3>1. Counted(Alerts(p), Spent, local[p] # Nothing) /\ p \in Replicas /\ Claimed # Nothing
      BY <1>1, <2>3, DataTypes DEF CountInv
    <3>2. CASE p = home[r]
      <4>1. Alerts(p)' \subseteq Alerts(p) \cup {r} /\ local[p] = Nothing /\ local'[p] # Nothing
        BY <1>1, <1>5, <2>3, <3>1, <3>2 DEF Alerts, Types
      <4> QED BY <1>2, <2>1, <3>1, <4>1, CountedGrows
    <3>3. CASE p # home[r]
      <4>1. Alerts(p)' = Alerts(p) /\ local'[p] = local[p]
        BY <1>1, <1>5, <3>1, <3>3 DEF Alerts, Types
      <4> QED BY <1>2, <2>1, <3>1, <4>1, CountedStays
    <3> QED BY <3>2, <3>3
  <2> QED BY <1>1, <2>2, <2>3 DEF CountInv
<1> QED BY <1>4, <1>5, AlertedStep

LEMMA InitCounts ==
    ASSUME Init
    PROVE  WritesInv /\ CountInv
<1>1. WritesInv
  BY DEF Init, WritesInv
<1>2. IsFiniteSet({}) /\ Cardinality({}) = 0
  BY FS_EmptySet
<1>3. Had("storage") \in Nat /\ lapses = 0
  BY DEF Init, Had
<1>4. alerted = {} /\ \A p \in Replicas : Alerts(p) = {}
  BY DEF Init, Alerts
<1>5. \A known \in BOOLEAN : Counted({}, Spent, known)
  BY <1>2, <1>3 DEF Counted, Spent
<1>6. Counted(alerted, Spent, Present) /\ \A p \in Replicas : Counted(Alerts(p), Spent, local[p] # Nothing)
  BY <1>4, <1>5 DEF Present
<1> QED BY <1>1, <1>6 DEF CountInv

LEMMA CountBoundsAlerts ==
    ASSUME LockingInv, CountInv
    PROVE  AlertOnce
<1>1. lapses \in Nat /\ Had("storage") \in Nat
  BY NewsDedupAssumption DEF LockingInv, Types, Had
<1>2. ASSUME NEW S, NEW known, Counted(S, Spent, known)
      PROVE  Cardinality(S) <= 1 + lapses + Had("storage")
  <2>1. Cardinality(S) \in Nat /\ Cardinality(S) <= lapses + Had("storage") + (IF known THEN 1 ELSE 0)
    BY <1>2, FS_CardinalityType DEF Counted, Spent
  <2> QED BY <1>1, <2>1
<1> QED BY <1>2 DEF CountInv, AlertOnce, Alerts

\* An alert is produced once per TTL, by one replica of all when deduplication is
\* persistent, by each replica otherwise; every error of Firestore costs at most one
\* more.
THEOREM AlertsOnce == Spec => []AlertOnce
<1> DEFINE Inv == LockingInv /\ WritesInv /\ CountInv
<1>1. Init => Inv
  BY InitLocking, InitCounts
<1>2. Inv /\ [Next]_vars => Inv'
  BY NextLocking, NextWrites, NextCounts
<1>3. Inv => AlertOnce
  BY CountBoundsAlerts
<1> QED BY <1>1, <1>2, <1>3, PTL DEF Spec

-----------------------------------------------------------------------------
(* Where an alert is: in the caches and requests of a replica, on its way to  *)
(* Firestore, in the document, at the channels.                              *)

At(a, p)   == \/ local[p].alert = a
              \/ \E r \in Requests : home[r] = p /\ work[r].data.alert = a
Pending(a) == \E w \in writes : w.data.alert = a
Shown(a)   == Present /\ stored.alert = a
Sent(a)    == \E d \in delivered : d[1] = a
Known(a)   == Pending(a) \/ stored.alert = a \/ Sent(a) \/ \E p \in Replicas : At(a, p)

LEMMA AlertsAreRequests ==
    ASSUME Types
    PROVE  /\ None \notin Requests /\ None \notin Channels
           /\ \A p \in Replicas : local[p] \in Data
           /\ \A q \in Requests : work[q] \in Work /\ work[q].data \in Data /\ home[q] \in Replicas
           /\ stored \in Data
BY NewsDedupAssumption DEF Types, Work

\* A request without redelivery to do.
Resting(r) == work[r].owned = {} /\ work[r].trying = None /\ work[r].todo = {}

\* What the cached data of a request may become.
NextData(q) ==
    \/ work'[q].data = work[q].data
    \/ work'[q] = NoWork
    \/ work'[q].data = local[home[q]] /\ (persistent => Resting(q)')
    \/ ReadAnswer(q) /\ work'[q].data = stored /\ Present /\ local'[home[q]] = stored

LEMMA ProceedData ==
    ASSUME Types, NEW r \in Requests, NEW data \in Data, Proceed(r, data)
    PROVE  work'[r] = NoWork \/ work'[r].data = data
<1>1. CASE work' = [work EXCEPT ![r] = NoWork]
  BY <1>1 DEF Types
<1>2. ASSUME NEW todo, NEW mine, NEW next, Leased(r, data, locks[home[r]], todo, {}, mine, next)
      PROVE  work'[r] = NoWork \/ work'[r].data = data
  BY <1>2 DEF Leased
<1> QED BY <1>1, <1>2, ProceedOutcome

LEMMA OthersRest ==
    ASSUME Types, StepInv, NEW r \in Requests,
           Read(r) \/ ReadAnswer(r) \/ RereadAnswer(r) \/ Analyse(r) \/ Redeliver(r)
    PROVE  Alone(r)
<1>1. ASSUME NEW data \in Data, Proceed(r, data)
      PROVE  Alone(r)
  <2>1. CASE /\ work' = [work EXCEPT ![r] = NoWork]
             /\ pc' = [pc EXCEPT ![r] = IF data.status = "none" THEN "analysing" ELSE "done"]
    BY <2>1 DEF Alone, Types
  <2>2. ASSUME NEW todo, NEW mine, NEW next, Leased(r, data, locks[home[r]], todo, {}, mine, next)
        PROVE  Alone(r)
    BY <2>2 DEF Leased, Alone
  <2> QED BY <1>1, <2>1, <2>2, ProceedOutcome
<1>2. ASSUME Ends(r)
      PROVE  Alone(r)
  BY <1>2, EndsOutcome
<1>3. CASE Read(r)
  <2>1. CASE persistent
    BY <1>3, <2>1 DEF Read, Goes, Alone, Types
  <2> QED BY <1>1, <1>3, <2>1, AlertsAreRequests DEF Read
<1>4. CASE ReadAnswer(r)
  BY <1>1, <1>4, AlertsAreRequests DEF ReadAnswer
<1>5. CASE RereadAnswer(r) \/ Quiet(r) \/ Elsewhere(r) \/ Deliver(r) \/ Recorded(r)
  BY <1>2, <1>5 DEF RereadAnswer, Quiet, Elsewhere, Deliver, Recorded
<1>6. CASE ClaimKey(r) \/ ClaimAnswer(r)
  <2>1. Refused(r) => Alone(r)
    BY <1>2 DEF Refused, Goes, Alone, Types
  <2>2. Wins(r) => Alone(r)
    BY DEF Wins, Goes, Alone, Types
  <2>3. Goes(r, "claiming") /\ UNCHANGED work => Alone(r)
    BY DEF Goes, Alone, Types
  <2> QED BY <1>6, <2>1, <2>2, <2>3 DEF ClaimKey, ClaimAnswer
<1>7. CASE LeaseAnswer(r)
  <2>1. ASSUME NEW L, NEW todo, NEW owned, NEW mine, NEW next,
               Leased(r, work[r].data, L, todo, owned, mine, next)
        PROVE  Alone(r)
    BY <2>1 DEF Leased, Alone
  <2> QED BY <1>7, <2>1, LeaseOutcome
<1>8. CASE Resend(r)
  BY <1>8 DEF Resend, Goes, Alone, Types
<1>9. CASE Renewed(r)
  <2>1. Ends(r) => Alone(r)
    BY <1>2
  <2>2. ASSUME NEW kept, Goes(r, "recording"), work' = [work EXCEPT ![r].kept = kept]
        PROVE  Alone(r)
    BY <2>2 DEF Goes, Alone, Types
  <2> QED BY <1>9, <2>1, <2>2 DEF Renewed
<1> QED BY <1>3, <1>4, <1>5, <1>6, <1>7, <1>8, <1>9 DEF Analyse, Redeliver

LEMMA RestsOutside ==
    ASSUME LockingInv, [Next]_vars, NEW q \in Requests, pc'[q] \notin Redeliveries
    PROVE  Resting(q)'
BY NextLocking DEF LockingInv, StepInv, StepOf, Resting

\* What a request does to its own data.
LEMMA OwnData ==
    ASSUME LockingInv, [Next]_vars, NEW q \in Requests,
           Read(q) \/ ReadAnswer(q) \/ RereadAnswer(q) \/ Analyse(q) \/ Redeliver(q)
    PROVE  NextData(q)
<1>1. Ends(q) => work'[q] = NoWork
  BY EndsOutcome DEF LockingInv
<1>2. work \in [Requests -> Work] /\ pc \in [Requests -> Steps] /\ local[home[q]] \in Data
  BY AlertsAreRequests DEF LockingInv, Types
<1>3. CASE Read(q)
  <2>1. CASE persistent
    <3>1. work'[q].data = local[home[q]] /\ pc'[q] = "reading"
      BY <1>2, <1>3, <2>1, WorkKeepsType DEF Read, Goes, Work
    <3> QED BY <3>1, RestsOutside DEF NextData, Redeliveries
  <2>2. CASE ~persistent
    BY <1>2, <1>3, <2>2, ProceedData DEF Read, NextData, LockingInv
  <2> QED BY <2>1, <2>2
<1>4. CASE ReadAnswer(q)
  <2>1. PICK data \in {work[q].data, stored} : Fetch(q, data) /\ Proceed(q, data)
    BY <1>4 DEF ReadAnswer
  <2>2. work'[q] = NoWork \/ work'[q].data = data
    BY <2>1, AlertsAreRequests, ProceedData DEF LockingInv
  <2>3. data = work[q].data \/ (data = stored /\ Present /\ local'[home[q]] = stored)
    BY <1>2, <2>1, AlertsAreRequests DEF Fetch, Prefers, Keep, LockingInv, Types
  <2> QED BY <1>4, <2>2, <2>3 DEF NextData
<1>5. CASE RereadAnswer(q) \/ Quiet(q) \/ Elsewhere(q) \/ Deliver(q) \/ Recorded(q)
  BY <1>1, <1>5 DEF RereadAnswer, Quiet, Elsewhere, Deliver, Recorded, NextData
<1>6. CASE ClaimKey(q) \/ ClaimAnswer(q)
  <2>1. ASSUME Refused(q) PROVE NextData(q)
    <3>1. CASE persistent
      <4>1. work'[q].data = local[home[q]] /\ pc'[q] = "rereading"
        BY <1>2, <2>1, <3>1, WorkKeepsType DEF Refused, Goes, Work
      <4> QED BY <4>1, RestsOutside DEF NextData, Redeliveries
    <3> QED BY <1>1, <2>1, <3>1 DEF Refused, NextData
  <2> QED BY <1>6, <2>1 DEF ClaimKey, ClaimAnswer, Wins, NextData
<1>7. CASE LeaseAnswer(q)
  <2>1. ASSUME NEW L, NEW todo, NEW owned, NEW mine, NEW next,
               Leased(q, work[q].data, L, todo, owned, mine, next)
        PROVE  NextData(q)
    BY <2>1 DEF Leased, NextData
  <2> QED BY <1>7, <2>1, LeaseOutcome DEF LockingInv
<1>8. CASE Resend(q)
  BY <1>8, ResendOutcome DEF LockingInv, NextData
<1>9. CASE Renewed(q)
  <2>1. ASSUME NEW kept, work' = [work EXCEPT ![q] = [work[q] EXCEPT !.kept = kept]]
        PROVE  NextData(q)
    BY <1>2, <2>1 DEF Work, NextData
  <2> QED BY <1>1, <1>9, <2>1, RenewedOutcome DEF LockingInv, NextData
<1> QED BY <1>3, <1>4, <1>5, <1>6, <1>7, <1>8, <1>9 DEF Analyse, Redeliver

LEMMA DataMoves ==
    ASSUME LockingInv, [Next]_vars, NEW q \in Requests
    PROVE  NextData(q)
<1>1. ASSUME NEW r \in Requests,
             Read(r) \/ ReadAnswer(r) \/ RereadAnswer(r) \/ Analyse(r) \/ Redeliver(r)
      PROVE  NextData(q)
  BY <1>1, OwnData, OthersRest DEF LockingInv, Alone, NextData
<1>2. ASSUME NEW w \in writes, Store(w)
      PROVE  NextData(q)
  BY <1>2 DEF Store, NextData
<1>3. ASSUME NEW c \in Channels, LeaseExpires(c)
      PROVE  NextData(q)
  BY <1>3 DEF LeaseExpires, NextData
<1>4. ASSUME NEW p \in Replicas, Crash(p)
      PROVE  NextData(q)
  BY <1>4, CrashOutcome DEF LockingInv, NextData
<1>5. CASE Lapse \/ UNCHANGED vars
  BY <1>5 DEF Lapse, vars, NextData
<1> QED BY <1>1, <1>2, <1>3, <1>4, <1>5 DEF Next

\* What the cache of a replica may hold next.
NextLocal(p) ==
    \/ local'[p] = local[p] \/ local'[p] = Nothing \/ local'[p].alert = None
    \/ local'[p] = stored /\ Present
    \/ \E r \in Requests : home[r] = p /\ local'[p].alert = work[r].data.alert
    \/ \E r \in Requests : home[r] = p /\ Deliver(r) /\ local'[p].alert = r

LEMMA LocalMoves ==
    ASSUME LockingInv, [Next]_vars, NEW p \in Replicas
    PROVE  NextLocal(p)
<1>1. local' = local => NextLocal(p)
  BY DEF NextLocal
<1>2. ASSUME NEW r \in Requests, NEW data, Keep(home[r], data)
      PROVE  local'[p] = local[p] \/ (p = home[r] /\ local'[p] = data)
  BY <1>2 DEF Keep, LockingInv, Types
<1>3. ASSUME NEW r \in Requests, NEW data, Fetch(r, data)
      PROVE  NextLocal(p)
  BY <1>2, <1>3 DEF Fetch, NextLocal
<1>4. ASSUME NEW r \in Requests, Read(r) \/ ReadAnswer(r) \/ RereadAnswer(r)
      PROVE  NextLocal(p)
  BY <1>1, <1>3, <1>4 DEF Read, ReadAnswer, RereadAnswer
<1>5. ASSUME NEW r \in Requests, Quiet(r)
      PROVE  NextLocal(p)
  <2>1. PICK data \in Data : SetFinal(r, data) /\ data.alert = None
    BY <1>5, QuietOutcome DEF LockingInv
  <2> QED BY <1>2, <2>1 DEF SetFinal, NextLocal
<1>6. ASSUME NEW r \in Requests, Deliver(r)
      PROVE  NextLocal(p)
  <2>1. PICK data \in Data : SetFinal(r, data) /\ data.alert = r
    BY <1>6, DeliverOutcome DEF LockingInv
  <2> QED BY <1>2, <1>6, <2>1 DEF SetFinal, NextLocal
<1>7. ASSUME NEW r \in Requests, Elsewhere(r) \/ ClaimKey(r) \/ ClaimAnswer(r)
      PROVE  NextLocal(p)
  <2>1. UNCHANGED local \/ Keep(home[r], Claimed)
    BY <1>7 DEF Elsewhere, ClaimKey, ClaimAnswer, Wins
  <2> QED BY <1>1, <1>2, <2>1, DataTypes DEF NextLocal
<1>8. ASSUME NEW r \in Requests, Redeliver(r)
      PROVE  NextLocal(p)
  <2>1. CASE LeaseAnswer(r) \/ Resend(r) \/ Recorded(r)
    BY <1>1, <2>1 DEF LeaseAnswer, Resend, Recorded
  <2>2. CASE Renewed(r)
    BY <1>1, <2>2, RenewedOutcome, SetResultsOutcome DEF LockingInv, NextLocal
  <2> QED BY <1>8, <2>1, <2>2 DEF Redeliver
<1>9. CASE \/ \E w \in writes : Store(w)
           \/ \E c \in Channels : LeaseExpires(c)
           \/ UNCHANGED vars
  BY <1>1, <1>9 DEF Store, LeaseExpires, vars
<1>10. ASSUME NEW s \in Replicas, Crash(s)
       PROVE  NextLocal(p)
  BY <1>10, CrashOutcome DEF LockingInv, NextLocal
<1>11. CASE Lapse
  BY <1>11 DEF Lapse, NextLocal
<1> QED BY <1>4, <1>5, <1>6, <1>7, <1>8, <1>9, <1>10, <1>11 DEF Next, Analyse

\* An alert comes to a replica from its own requests or from the document.
LEMMA AtMoves ==
    ASSUME LockingInv, [Next]_vars, home' = home, NEW a \in Requests, NEW p \in Replicas, At(a, p)'
    PROVE  At(a, p) \/ Shown(a) \/ (Deliver(a) /\ home[a] = p)
<1>1. None \notin Requests /\ Nothing.alert = None /\ NoWork.data = Nothing
  BY NewsDedupAssumption, DataTypes DEF NoWork
<1>2. CASE local'[p].alert = a
  BY <1>1, <1>2, LocalMoves DEF NextLocal, At, Shown
<1>3. ASSUME NEW q \in Requests, home[q] = p, work'[q].data.alert = a
      PROVE  At(a, p) \/ Shown(a)
  BY <1>1, <1>3, DataMoves DEF NextData, At, Shown
<1> QED BY <1>2, <1>3 DEF At

\* What r hands over to Firestore when it has delivered its alert.
Handed(r, data) ==
    /\ data.alert = r
    /\ \A c \in Channels : /\ data.results[c] = "ok" => <<r, c, r>> \in delivered'
                           /\ <<r, c, r>> \in delivered' \ delivered => data.results[c] = "ok"

\* What may be on its way to Firestore next.
NextWrite(w) ==
    \/ w \in writes
    \/ persistent /\ w.data.alert = None /\ w.data.results = NoResults
    \/ persistent /\ w.owner \in Requests /\ Deliver(w.owner) /\ Handed(w.owner, w.data)

LEMMA WritesMove ==
    ASSUME LockingInv, [Next]_vars
    PROVE  /\ \A v, w \in writes' : v \in writes \/ w \in writes \/ v = w
           /\ \A w \in writes' : NextWrite(w)
<1> DEFINE Goal == /\ \A v, w \in writes' : v \in writes \/ w \in writes \/ v = w
                   /\ \A w \in writes' : NextWrite(w)
<1> SUFFICES Goal
  OBVIOUS
<1>1. writes' \subseteq writes => Goal
  BY DEF NextWrite
<1>2. ASSUME NEW r \in Requests, NEW data, SetFinal(r, data),
             NextWrite([owner |-> r, data |-> data]) \/ ~persistent
      PROVE  Goal
  <2>1. writes' = (IF persistent THEN writes \cup {[owner |-> r, data |-> data]} ELSE writes)
    BY <1>2 DEF SetFinal
  <2>2. \A w \in writes : NextWrite(w)
    BY DEF NextWrite
  <2> QED BY <1>2, <2>1, <2>2
<1>3. ASSUME NEW r \in Requests, Quiet(r)
      PROVE  Goal
  <2>1. PICK data \in Data : SetFinal(r, data) /\ data.alert = None /\ data.results = NoResults
    BY <1>3, QuietOutcome DEF LockingInv
  <2>2. NextWrite([owner |-> r, data |-> data]) \/ ~persistent
    BY <2>1 DEF NextWrite
  <2> QED BY <1>2, <2>1, <2>2
<1>4. ASSUME NEW r \in Requests, Deliver(r)
      PROVE  Goal
  <2>1. PICK data \in Data, reached \in SUBSET wants[r] :
          /\ SetFinal(r, data) /\ data.alert = r
          /\ \A c \in Channels : data.results[c] = "ok" <=> c \in reached
          /\ delivered' = delivered \cup {<<r, c, r>> : c \in reached}
    BY <1>4, DeliverOutcome DEF LockingInv
  <2>2. Handed(r, data)
    BY <2>1 DEF Handed
  <2>3. NextWrite([owner |-> r, data |-> data]) \/ ~persistent
    BY <1>4, <2>2 DEF NextWrite
  <2> QED BY <1>2, <2>1, <2>3
<1>5. ASSUME NEW r \in Requests, Read(r) \/ ReadAnswer(r) \/ RereadAnswer(r)
      PROVE  Goal
  BY <1>1, <1>5 DEF Read, ReadAnswer, RereadAnswer, cloud
<1>6. ASSUME NEW r \in Requests, Elsewhere(r) \/ ClaimKey(r) \/ ClaimAnswer(r)
      PROVE  Goal
  BY <1>1, <1>6 DEF Elsewhere, ClaimKey, ClaimAnswer, cloud
<1>7. ASSUME NEW r \in Requests, Redeliver(r)
      PROVE  Goal
  BY <1>1, <1>7 DEF Redeliver, LeaseAnswer, Resend, Renewed, Recorded, cloud
<1>8. CASE \/ \E w \in writes : Store(w)
           \/ \E c \in Channels : LeaseExpires(c)
           \/ \E p \in Replicas : Crash(p)
           \/ Lapse \/ UNCHANGED vars
  BY <1>1, <1>8 DEF Store, LeaseExpires, Crash, Lapse, vars, cloud
<1> QED BY <1>3, <1>4, <1>5, <1>6, <1>7, <1>8 DEF Next, Analyse

\* What the document may become.
NextStored ==
    \/ stored' = stored /\ (Present' => Present)
    \/ ~Present /\ stored' \in {Nothing, Claimed}
    \/ \E w \in writes : writes' = writes \ {w} /\ stored' = w.data
    \/ \E r \in Requests : Recorded(r) /\ stored'.status = stored.status /\ stored'.alert = stored.alert
                           /\ (Present' <=> Present)

LEMMA StoredMoves ==
    ASSUME LockingInv, WritesInv, [Next]_vars
    PROVE  NextStored /\ (Lapse \/ (Present => Present'))
<1> DEFINE Goal == NextStored /\ (Lapse \/ (Present => Present'))
<1> SUFFICES Goal
  OBVIOUS
<1>1. UNCHANGED <<stored, expired>> => Goal
  BY DEF NextStored, Present
<1>2. ~Present /\ stored' \in {Nothing, Claimed} => Goal
  BY DEF NextStored
<1>3. ASSUME NEW r, NEW data, Fetch(r, data)
      PROVE  Goal
  BY <1>1, <1>2, <1>3 DEF Fetch, Clean, Present
<1>4. ASSUME NEW r \in Requests, Read(r) \/ ReadAnswer(r) \/ RereadAnswer(r)
      PROVE  Goal
  BY <1>1, <1>3, <1>4 DEF Read, ReadAnswer, RereadAnswer, cloud
<1>5. ASSUME NEW r \in Requests, Quiet(r) \/ Elsewhere(r) \/ ClaimKey(r) \/ Deliver(r)
      PROVE  Goal
  BY <1>1, <1>5 DEF Quiet, Elsewhere, ClaimKey, Deliver, SetFinal, cloud
<1>6. ASSUME NEW r \in Requests, ClaimAnswer(r)
      PROVE  Goal
  BY <1>1, <1>2, <1>6 DEF ClaimAnswer
<1>7. ASSUME NEW r \in Requests, LeaseAnswer(r) \/ Resend(r) \/ Renewed(r)
      PROVE  Goal
  BY <1>1, <1>7 DEF LeaseAnswer, Resend, Renewed, cloud
<1>8. ASSUME NEW r \in Requests, Recorded(r)
      PROVE  Goal
  <2>1. expired' = expired /\ stored'.status = stored.status /\ stored'.alert = stored.alert
    BY <1>8, RecordedOutcome DEF LockingInv
  <2> QED BY <1>8, <2>1 DEF NextStored, Present
<1>9. ASSUME NEW w \in writes, Store(w)
      PROVE  Goal
  <2>1. CASE stored' = w.data /\ expired' = FALSE
    <3>1. Present'
      BY <2>1 DEF Present, WritesInv
    <3>2. \E v \in writes : writes' = writes \ {v} /\ stored' = v.data
      BY <1>9, <2>1 DEF Store
    <3> QED BY <3>1, <3>2 DEF NextStored
  <2> QED BY <1>1, <1>9, <2>1 DEF Store
<1>10. CASE \/ \E c \in Channels : LeaseExpires(c)
            \/ \E p \in Replicas : Crash(p)
            \/ UNCHANGED vars
  BY <1>1, <1>10 DEF LeaseExpires, Crash, vars, cloud
<1>11. CASE Lapse
  BY <1>11 DEF Lapse, NextStored, Present
<1> QED BY <1>4, <1>5, <1>6, <1>7, <1>8, <1>9, <1>10, <1>11 DEF Next, Analyse, Redeliver

\* The deliveries of a step.
NextDelivery(d) ==
    \/ \E r \in Requests : Deliver(r) /\ d[1] = r /\ d[3] = r
    \/ \E r \in Requests : Resend(r) /\ d[1] = work[r].data.alert /\ d[3] = r /\ d[2] \in work[r].owned
    \/ /\ d[1] \in Requests /\ d[3] = d[1] /\ pc[d[1]] = "sending" /\ pc'[d[1]] = "lost"
       /\ home[d[1]] \in crashed'

LEMMA DeliveriesMove ==
    ASSUME LockingInv, [Next]_vars
    PROVE  /\ delivered \subseteq delivered' /\ crashed \subseteq crashed'
           /\ \A d \in delivered' \ delivered : NextDelivery(d)
<1> DEFINE Goal == /\ delivered \subseteq delivered' /\ crashed \subseteq crashed'
                   /\ \A d \in delivered' \ delivered : NextDelivery(d)
<1> SUFFICES Goal
  OBVIOUS
<1>1. UNCHANGED <<delivered, crashed>> => Goal
  OBVIOUS
<1>2. ASSUME NEW r \in Requests, Read(r) \/ ReadAnswer(r) \/ RereadAnswer(r)
      PROVE  Goal
  BY <1>1, <1>2 DEF Read, ReadAnswer, RereadAnswer, ghosts
<1>3. ASSUME NEW r \in Requests, Quiet(r) \/ Elsewhere(r) \/ ClaimKey(r) \/ ClaimAnswer(r)
      PROVE  Goal
  BY <1>1, <1>3 DEF Quiet, Elsewhere, ClaimKey, ClaimAnswer, ghosts
<1>4. ASSUME NEW r \in Requests, Deliver(r)
      PROVE  Goal
  <2>1. PICK reached \in SUBSET wants[r] : delivered' = delivered \cup {<<r, c, r>> : c \in reached}
    BY <1>4, DeliverOutcome DEF LockingInv
  <2>2. crashed' = crashed
    BY <1>4 DEF Deliver
  <2> QED BY <1>4, <2>1, <2>2 DEF NextDelivery
<1>5. ASSUME NEW r \in Requests, LeaseAnswer(r) \/ Renewed(r) \/ Recorded(r)
      PROVE  Goal
  BY <1>1, <1>5 DEF LeaseAnswer, Renewed, Recorded, ghosts
<1>6. ASSUME NEW r \in Requests, Resend(r)
      PROVE  Goal
  <2>1. PICK reached \in SUBSET work[r].owned :
          delivered' = delivered \cup {<<work[r].data.alert, c, r>> : c \in reached}
    BY <1>6, ResendOutcome DEF LockingInv
  <2>2. crashed' = crashed
    BY <1>6 DEF Resend
  <2> QED BY <1>6, <2>1, <2>2 DEF NextDelivery
<1>7. ASSUME NEW p \in Replicas, Crash(p)
      PROVE  Goal
  <2>1. /\ crashed' = crashed \cup {p} /\ delivered \subseteq delivered'
        /\ \A d \in delivered' \ delivered :
             d[1] \in Requests /\ d[3] = d[1] /\ home[d[3]] = p /\ pc[d[1]] = "sending"
    BY <1>7, CrashOutcome DEF LockingInv
  <2>2. \A r \in Requests : home[r] = p /\ pc[r] = "sending" => pc'[r] = "lost"
    BY <1>7, CrashOutcome DEF LockingInv
  <2> QED BY <2>1, <2>2 DEF NextDelivery
<1>8. CASE \/ \E w \in writes : Store(w)
           \/ \E c \in Channels : LeaseExpires(c)
           \/ Lapse \/ UNCHANGED vars
  BY <1>1, <1>8 DEF Store, LeaseExpires, Lapse, vars, ghosts
<1> QED BY <1>2, <1>3, <1>4, <1>5, <1>6, <1>7, <1>8 DEF Next, Analyse, Redeliver

LEMMA EndedStays ==
    ASSUME LockingInv, [Next]_vars, NEW a \in Requests
    PROVE  /\ pc[a] \in {"done", "lost"} => pc'[a] \in {"done", "lost"}
           /\ Deliver(a) => pc'[a] = "done"
           /\ setting' = setting
<1>1. pc \in [Requests -> Steps]
  BY DEF LockingInv, Types
<1>2. ASSUME NEW r \in Requests,
             Read(r) \/ ReadAnswer(r) \/ RereadAnswer(r) \/ Analyse(r) \/ Redeliver(r)
      PROVE  pc[r] \notin {"done", "lost"} /\ Alone(r) /\ setting' = setting
  <2>1. pc[r] \notin {"done", "lost"} /\ setting' = setting
    BY <1>2 DEF Read, ReadAnswer, RereadAnswer, Analyse, Quiet, Elsewhere, ClaimKey, ClaimAnswer, Deliver,
                Redeliver, LeaseAnswer, Resend, Renewed, Recorded
  <2> QED BY <1>2, <2>1, OthersRest DEF LockingInv
<1>3. ASSUME \/ \E w \in writes : Store(w)
             \/ \E c \in Channels : LeaseExpires(c)
             \/ Lapse \/ UNCHANGED vars
      PROVE  /\ pc[a] \in {"done", "lost"} => pc'[a] \in {"done", "lost"}
             /\ setting' = setting
  <2>1. pc' = pc /\ setting' = setting
    BY <1>3 DEF Store, LeaseExpires, Lapse, vars, setting
  <2> QED BY <2>1
<1>4. ASSUME NEW p \in Replicas, Crash(p)
      PROVE  /\ pc[a] \in {"done", "lost"} => pc'[a] \in {"done", "lost"}
             /\ setting' = setting
  BY <1>4, CrashOutcome DEF LockingInv
<1>5. Deliver(a) => pc'[a] = "done"
  BY DeliverOutcome, EndsOutcome DEF LockingInv
<1>6. /\ pc[a] \in {"done", "lost"} => pc'[a] \in {"done", "lost"}
      /\ setting' = setting
  BY <1>2, <1>3, <1>4 DEF Next, Alone
<1> QED BY <1>5, <1>6

\* Only what has been sent is known of an alert, and by then its request has ended.
KnownInv == \A a \in Requests : Known(a) => pc[a] \in {"done", "lost"}

\* While the entry of an alert is on its way only the replica of its request knows it.
PendingInv ==
    \A a \in Requests : Pending(a) =>
        /\ stored.alert # a
        /\ \A p \in Replicas : At(a, p) => p = home[a]
        /\ \A d \in delivered : d[1] = a => home[d[3]] = home[a]

\* Results tell what was delivered.
ResultInv ==
    /\ \A v, w \in writes : v.data.alert = w.data.alert /\ w.data.alert # None => v = w
    /\ \A w \in writes, c \in Channels :
         w.data.results[c] = "ok" => <<w.owner, c, w.owner>> \in delivered
    /\ \A r \in Requests, c \in Channels :
         pc[r] \in {"renewing", "recording"} /\ work[r].results[c] = "ok"
           => <<work[r].data.alert, c, r>> \in delivered
    /\ stored.alert # None => stored.status = "final"

\* Without Firestore a replica knows its own alerts only.
ApartInv == ~persistent =>
    /\ stored = Nothing /\ writes = {}
    /\ \A a \in Requests, p \in Replicas : At(a, p) => home[a] = p
    /\ \A d \in delivered : home[d[1]] = home[d[3]]

LEMMA DeliveredTypes ==
    ASSUME Types, NEW d \in delivered
    PROVE  d[1] \in Requests /\ d[2] \in Channels /\ d[3] \in Requests /\ d = <<d[1], d[2], d[3]>>
BY DEF Types

LEMMA KnownStep ==
    ASSUME LockingInv, WritesInv, KnownInv, [Next]_vars
    PROVE  KnownInv'
<1> SUFFICES ASSUME NEW a \in Requests, Known(a)'
             PROVE  pc'[a] \in {"done", "lost"}
  BY DEF KnownInv
<1>1. Known(a) => pc'[a] \in {"done", "lost"}
  BY EndedStays DEF KnownInv
<1>2. Deliver(a) => pc'[a] \in {"done", "lost"}
  BY EndedStays
<1>3. None \notin Requests /\ Nothing.alert = None /\ Claimed.alert = None /\ home' = home
  BY NewsDedupAssumption, DataTypes, EndedStays DEF setting
<1>4. Pending(a)' => Known(a) \/ Deliver(a)
  BY <1>3, WritesMove DEF Pending, Known, NextWrite, Handed
<1>5. stored'.alert = a => Known(a)
  BY <1>3, StoredMoves DEF NextStored, Known, Pending
<1>6. ASSUME NEW p \in Replicas, At(a, p)'
      PROVE  Known(a) \/ Deliver(a)
  BY <1>3, <1>6, AtMoves DEF Known, Shown
<1>7. ASSUME NEW d \in delivered', d[1] = a
      PROVE  Known(a) \/ Deliver(a) \/ pc'[a] \in {"done", "lost"}
  <2>1. CASE d \in delivered
    BY <1>7, <2>1 DEF Known, Sent
  <2>2. ASSUME NEW r \in Requests, Resend(r), a = work[r].data.alert
        PROVE  Known(a)
    <3>1. At(a, home[r]) /\ home[r] \in Replicas
      BY <2>2, AlertsAreRequests DEF At, LockingInv
    <3> QED BY <3>1 DEF Known
  <2>3. CASE d \notin delivered
    BY <1>7, <2>2, <2>3, DeliveriesMove DEF NextDelivery
  <2> QED BY <2>1, <2>3
<1> QED BY <1>1, <1>2, <1>4, <1>5, <1>6, <1>7 DEF Known, Sent

LEMMA FreshDelivery ==
    ASSUME LockingInv, KnownInv, NEW a \in Requests, Deliver(a)
    PROVE  ~Known(a) /\ pc[a] = "sending" /\ setting' = setting /\ stored' = stored
BY DeliverOutcome DEF LockingInv, KnownInv, SetFinal

LEMMA PendingStep ==
    ASSUME LockingInv, WritesInv, KnownInv, ResultInv, PendingInv, [Next]_vars
    PROVE  PendingInv'
<1> SUFFICES ASSUME NEW a \in Requests, Pending(a)'
             PROVE  /\ stored'.alert # a
                    /\ \A p \in Replicas : At(a, p)' => p = home[a]
                    /\ \A d \in delivered' : d[1] = a => home[d[3]] = home[a]
  BY EndedStays DEF PendingInv, setting
<1>1. None \notin Requests /\ Nothing.alert = None /\ Claimed.alert = None /\ home' = home
  BY NewsDedupAssumption, DataTypes, EndedStays DEF setting
<1>2. CASE Deliver(a)
  <2>1. ~Known(a) /\ stored' = stored
    BY <1>2, FreshDelivery
  <2>2. \A p \in Replicas : At(a, p)' => p = home[a]
    BY <1>1, <2>1, AtMoves DEF Known, Shown
  <2>3. ASSUME NEW d \in delivered', d[1] = a
        PROVE  home[d[3]] = home[a]
    <3>1. d \notin delivered
      BY <2>1, <2>3 DEF Known, Sent
    <3>2. \A r \in Requests : ~(Resend(r) /\ a = work[r].data.alert)
      BY <2>1, AlertsAreRequests DEF Known, At, LockingInv
    <3> QED BY <2>3, <3>1, <3>2, DeliveriesMove DEF NextDelivery
  <2> QED BY <2>1, <2>2, <2>3 DEF Known
<1>3. CASE ~Deliver(a)
  <2>1. Pending(a)
    BY <1>1, <1>3, WritesMove DEF Pending, NextWrite, Handed
  <2>2. stored'.alert # a
    <3>1. ASSUME NEW w \in writes, writes' = writes \ {w}, w.data.alert = a
          PROVE  FALSE
      BY <1>1, <3>1 DEF Pending, ResultInv
    <3> QED BY <1>1, <2>1, <3>1, StoredMoves DEF NextStored, PendingInv
  <2>3. \A p \in Replicas : At(a, p)' => p = home[a]
    BY <1>1, <1>3, <2>1, AtMoves DEF PendingInv, Shown
  <2>4. ASSUME NEW d \in delivered', d[1] = a
        PROVE  home[d[3]] = home[a]
    <3>1. ASSUME NEW r \in Requests, Resend(r), a = work[r].data.alert
          PROVE  home[r] = home[a]
      BY <2>1, <3>1, AlertsAreRequests DEF PendingInv, At, LockingInv
    <3> QED BY <1>3, <2>1, <2>4, <3>1, DeliveriesMove DEF NextDelivery, PendingInv
  <2> QED BY <2>2, <2>3, <2>4
<1> QED BY <1>2, <1>3

\* Where a request that has sent again gets its results from.
LEMMA ResultsMove ==
    ASSUME LockingInv, [Next]_vars, NEW r \in Requests, pc'[r] \in {"renewing", "recording"}
    PROVE  \/ /\ pc[r] \in {"renewing", "recording"}
              /\ work'[r].results = work[r].results /\ work'[r].data = work[r].data
              /\ work'[r].owned = work[r].owned
           \/ /\ Resend(r) /\ work'[r].data = work[r].data /\ work'[r].owned = work[r].owned
              /\ \A c \in Channels : work'[r].results[c] = "ok" => <<work[r].data.alert, c, r>> \in delivered'
<1> DEFINE Stays == /\ pc[r] \in {"renewing", "recording"}
                    /\ work'[r].results = work[r].results /\ work'[r].data = work[r].data
                    /\ work'[r].owned = work[r].owned
           Goal == \/ Stays
                   \/ /\ Resend(r) /\ work'[r].data = work[r].data /\ work'[r].owned = work[r].owned
                      /\ \A c \in Channels : work'[r].results[c] = "ok"
                                               => <<work[r].data.alert, c, r>> \in delivered'
<1> SUFFICES Goal
  OBVIOUS
<1>1. pc'[r] = pc[r] /\ work'[r] = work[r] => Goal
  OBVIOUS
<1>2. pc \in [Requests -> Steps] /\ work \in [Requests -> Work]
  BY DEF LockingInv, Types
<1>3. Ends(r) => FALSE
  BY EndsOutcome DEF LockingInv
<1>4. ASSUME NEW data \in Data, Proceed(r, data)
      PROVE  FALSE
  <2>1. ~(pc' = [pc EXCEPT ![r] = IF data.status = "none" THEN "analysing" ELSE "done"])
    BY <1>2
  <2>2. ASSUME NEW todo, NEW mine, NEW next, Leased(r, data, locks[home[r]], todo, {}, mine, next)
        PROVE  FALSE
    BY <2>2 DEF Leased
  <2> QED BY <1>4, <2>1, <2>2, ProceedOutcome DEF LockingInv
<1>5. CASE Read(r)
  <2>1. local[home[r]] \in Data
    BY AlertsAreRequests DEF LockingInv
  <2> QED BY <1>2, <1>4, <1>5, <2>1 DEF Read, Goes
<1>6. CASE ReadAnswer(r)
  BY <1>4, <1>6, AlertsAreRequests DEF ReadAnswer, LockingInv
<1>7. CASE RereadAnswer(r) \/ Quiet(r) \/ Elsewhere(r) \/ Deliver(r) \/ Recorded(r)
  BY <1>3, <1>7 DEF RereadAnswer, Quiet, Elsewhere, Deliver, Recorded
<1>8. CASE ClaimKey(r) \/ ClaimAnswer(r)
  BY <1>2, <1>3, <1>8 DEF ClaimKey, ClaimAnswer, Refused, Wins, Goes
<1>9. CASE LeaseAnswer(r)
  <2>1. ASSUME NEW L, NEW todo, NEW owned, NEW mine, NEW next,
               Leased(r, work[r].data, L, todo, owned, mine, next)
        PROVE  FALSE
    BY <2>1 DEF Leased
  <2> QED BY <1>9, <2>1, LeaseOutcome DEF LockingInv
<1>10. CASE Resend(r)
  <2>1. PICK reached \in SUBSET work[r].owned :
          /\ delivered' = delivered \cup {<<work[r].data.alert, c, r>> : c \in reached}
          /\ \A c \in Channels : work'[r].results[c] = "ok" <=> c \in reached
    BY <1>10, ResendOutcome DEF LockingInv
  <2>2. work'[r].data = work[r].data /\ work'[r].owned = work[r].owned
    BY <1>10, ResendOutcome DEF LockingInv
  <2> QED BY <1>10, <2>1, <2>2
<1>11. CASE Renewed(r)
  <2>1. ASSUME NEW kept, work' = [work EXCEPT ![r] = [work[r] EXCEPT !.kept = kept]]
        PROVE  /\ work'[r].results = work[r].results /\ work'[r].data = work[r].data
               /\ work'[r].owned = work[r].owned
    BY <1>2, <2>1 DEF Work
  <2> QED BY <1>3, <1>11, <2>1, RenewedOutcome DEF LockingInv
<1>12. ASSUME NEW q \in Requests \ {r},
              Read(q) \/ ReadAnswer(q) \/ RereadAnswer(q) \/ Analyse(q) \/ Redeliver(q)
       PROVE  Goal
  BY <1>1, <1>12, OthersRest DEF LockingInv, Alone
<1>13. CASE \/ \E w \in writes : Store(w)
            \/ \E c \in Channels : LeaseExpires(c)
            \/ Lapse \/ UNCHANGED vars
  BY <1>1, <1>13 DEF Store, LeaseExpires, Lapse, vars
<1>14. ASSUME NEW p \in Replicas, Crash(p)
       PROVE  Goal
  BY <1>1, <1>14, CrashOutcome DEF LockingInv
<1>15. ASSUME Read(r) \/ ReadAnswer(r) \/ RereadAnswer(r) \/ Analyse(r) \/ Redeliver(r)
       PROVE  Goal
  BY <1>5, <1>6, <1>7, <1>8, <1>9, <1>10, <1>11, <1>15 DEF Analyse, Redeliver
<1> QED BY <1>12, <1>13, <1>14, <1>15 DEF Next

LEMMA ResultStep ==
    ASSUME LockingInv, WritesInv, KnownInv, ResultInv, [Next]_vars
    PROVE  ResultInv'
<1>1. /\ None \notin Requests /\ Nothing.alert = None /\ Claimed.alert = None
      /\ \A c \in Channels : NoResults[c] # "ok"
  BY NewsDedupAssumption, DataTypes DEF NoResults
<1>2. delivered \subseteq delivered'
  BY DeliveriesMove
<1>3. ASSUME NEW v \in writes', NEW w \in writes', v.data.alert = w.data.alert, w.data.alert # None
      PROVE  v = w
  <2>1. ASSUME NEW x \in writes, NEW y \in writes', x.data.alert = y.data.alert, y.data.alert # None
        PROVE  y \in writes
    <3>1. SUFFICES ASSUME Deliver(y.owner), y.owner \in Requests, y.data.alert = y.owner PROVE FALSE
      BY <2>1, WritesMove DEF NextWrite, Handed
    <3> QED BY <2>1, <3>1, FreshDelivery DEF Known, Pending
  <2>2. (v \in writes /\ w \in writes) \/ v = w
    BY <1>3, <2>1, WritesMove
  <2> QED BY <1>3, <2>2 DEF ResultInv
<1>4. ASSUME NEW w \in writes', NEW c \in Channels, w.data.results[c] = "ok"
      PROVE  <<w.owner, c, w.owner>> \in delivered'
  <2>1. CASE w \in writes
    BY <1>2, <1>4, <2>1 DEF ResultInv
  <2> QED BY <1>1, <1>4, <2>1, WritesMove DEF NextWrite, Handed
<1>5. ASSUME NEW r \in Requests, NEW c \in Channels,
             pc'[r] \in {"renewing", "recording"}, work'[r].results[c] = "ok"
      PROVE  <<work'[r].data.alert, c, r>> \in delivered'
  BY <1>2, <1>5, ResultsMove DEF ResultInv
<1>6. ASSUME stored'.alert # None
      PROVE  stored'.status = "final"
  <2>1. \A w \in writes : w.data.status = "final"
    BY DEF WritesInv
  <2> QED BY <1>1, <1>6, <2>1, StoredMoves DEF NextStored, ResultInv
<1> QED BY <1>3, <1>4, <1>5, <1>6 DEF ResultInv

LEMMA ApartStep ==
    ASSUME LockingInv, WritesInv, ApartInv, [Next]_vars
    PROVE  ApartInv'
<1>1. home' = home /\ persistent' = persistent
  BY AlertedStep
<1> SUFFICES ASSUME ~persistent
             PROVE  /\ stored' = Nothing /\ writes' = {}
                    /\ \A a \in Requests, p \in Replicas : At(a, p)' => home[a] = p
                    /\ \A d \in delivered' : home[d[1]] = home[d[3]]
  BY <1>1 DEF ApartInv
<1>2. stored = Nothing /\ writes = {} /\ None \notin Requests /\ Nothing.alert = None
  BY NewsDedupAssumption, DataTypes DEF ApartInv
<1>3. stored' = stored
  <2>1. ASSUME NEW r \in Requests, Read(r) \/ Analyse(r)
        PROVE  stored' = stored
    <3>1. ~ClaimAnswer(r)
      BY DEF ClaimAnswer, LockingInv, StepInv, StepOf
    <3> QED BY <2>1, <3>1 DEF Read, Analyse, Quiet, Elsewhere, ClaimKey, Deliver, SetFinal, cloud
  <2>2. ASSUME NEW r \in Requests
        PROVE  ~ReadAnswer(r) /\ ~RereadAnswer(r) /\ ~Recorded(r)
    BY DEF ReadAnswer, RereadAnswer, Recorded, LockingInv, StepInv, StepOf
  <2>3. ASSUME NEW r \in Requests, LeaseAnswer(r) \/ Resend(r) \/ Renewed(r)
        PROVE  stored' = stored
    BY <2>3 DEF LeaseAnswer, Resend, Renewed, cloud
  <2>4. CASE \/ \E c \in Channels : LeaseExpires(c)
             \/ \E p \in Replicas : Crash(p)
             \/ Lapse \/ UNCHANGED vars
    BY <2>4 DEF LeaseExpires, Crash, Lapse, vars, cloud
  <2> QED BY <1>2, <2>1, <2>2, <2>3, <2>4 DEF Next, Redeliver
<1>4. writes' = {}
  BY <1>2, WritesMove DEF NextWrite
<1>5. \A a \in Requests, p \in Replicas : At(a, p)' => home[a] = p
  BY <1>1, <1>2, AtMoves DEF ApartInv, Shown
<1>6. ASSUME NEW d \in delivered'
      PROVE  home[d[1]] = home[d[3]]
  <2>1. d[1] \in Requests
    BY NextLocking DEF LockingInv, Types
  <2>2. ASSUME NEW r \in Requests, Resend(r), d[1] = work[r].data.alert
        PROVE  home[d[1]] = home[r]
    BY <2>1, <2>2, AlertsAreRequests DEF At, ApartInv, LockingInv
  <2> QED BY <2>2, DeliveriesMove DEF NextDelivery, ApartInv
<1> QED BY <1>2, <1>3, <1>4, <1>5, <1>6

\* What a request has read stays in the cache of its replica meanwhile.
CachedInv == \A r \in Requests : work[r].data # Nothing => local[home[r]] # Nothing

LEMMA CacheKept ==
    ASSUME LockingInv, [Next]_vars, NEW p \in Replicas, local[p] # Nothing
    PROVE  local'[p] # Nothing \/ Crash(p) \/ Lapse
<1>1. local \in [Replicas -> Data]
  BY DEF LockingInv, Types
<1>2. ASSUME NEW r \in Requests, NEW data, Keep(home[r], data), data # Nothing
      PROVE  local'[p] # Nothing
  BY <1>1, <1>2 DEF Keep
<1>3. ASSUME NEW r \in Requests, Read(r) \/ ReadAnswer(r) \/ RereadAnswer(r)
      PROVE  local'[p] # Nothing
  <2>1. Present => stored # Nothing
    BY DataTypes DEF Present
  <2>2. UNCHANGED local \/ (Present /\ Keep(home[r], stored))
    BY <1>3 DEF Read, ReadAnswer, RereadAnswer, Fetch
  <2> QED BY <1>2, <2>1, <2>2
<1>4. ASSUME NEW r \in Requests, Analyse(r)
      PROVE  local'[p] # Nothing
  <2>1. ASSUME NEW data \in Data, SetFinal(r, data), data.status = "final"
        PROVE  local'[p] # Nothing
    BY <1>2, <2>1, DataTypes DEF SetFinal
  <2>2. CASE Quiet(r)
    BY <2>1, <2>2, QuietOutcome DEF LockingInv
  <2>3. CASE Deliver(r)
    BY <2>1, <2>3, DeliverOutcome DEF LockingInv
  <2>4. CASE Elsewhere(r) \/ ClaimKey(r) \/ ClaimAnswer(r)
    <3>1. UNCHANGED local \/ Keep(home[r], Claimed)
      BY <2>4 DEF Elsewhere, ClaimKey, ClaimAnswer, Wins
    <3> QED BY <1>2, <3>1, DataTypes
  <2> QED BY <1>4, <2>2, <2>3, <2>4 DEF Analyse
<1>5. ASSUME NEW r \in Requests, Redeliver(r)
      PROVE  local'[p] # Nothing
  <2>1. CASE LeaseAnswer(r) \/ Resend(r) \/ Recorded(r)
    BY <2>1 DEF LeaseAnswer, Resend, Recorded
  <2>2. CASE Renewed(r)
    BY <2>2, RenewedOutcome, SetResultsOutcome DEF LockingInv
  <2> QED BY <1>5, <2>1, <2>2 DEF Redeliver
<1>6. CASE \/ \E w \in writes : Store(w)
           \/ \E c \in Channels : LeaseExpires(c)
           \/ UNCHANGED vars
  BY <1>6 DEF Store, LeaseExpires, vars
<1>7. ASSUME NEW s \in Replicas, Crash(s)
      PROVE  local'[p] # Nothing \/ Crash(p)
  BY <1>7, CrashOutcome DEF LockingInv
<1> QED BY <1>3, <1>4, <1>5, <1>6, <1>7 DEF Next

LEMMA CrashedForget ==
    ASSUME LockingInv, NEW p \in Replicas, Crash(p)
    PROVE  /\ \A q \in Requests : home[q] = p => work'[q] = NoWork
           /\ local'[p] = Nothing
BY CrashOutcome DEF LockingInv, StepInv, StepOf, Idle

LEMMA CachedStep ==
    ASSUME "boundary" \notin Windows, LockingInv, CachedInv, [Next]_vars
    PROVE  CachedInv'
<1> SUFFICES ASSUME NEW q \in Requests, work'[q].data # Nothing
             PROVE  local'[home[q]] # Nothing
  BY EndedStays DEF CachedInv, setting
<1>1. NoWork.data = Nothing /\ home[q] \in Replicas
  BY AlertsAreRequests DEF NoWork, LockingInv
<1>2. ~Crash(home[q])
  BY <1>1, CrashedForget
<1>3. CASE local[home[q]] # Nothing
  <2>1. CASE Lapse
    BY <2>1 DEF Lapse
  <2> QED BY <1>1, <1>2, <1>3, <2>1, CacheKept
<1>4. CASE local[home[q]] = Nothing
  <2>1. Present => stored # Nothing
    BY DataTypes DEF Present
  <2> QED BY <1>1, <1>4, <2>1, DataMoves DEF NextData, CachedInv
<1> QED BY <1>3, <1>4

-----------------------------------------------------------------------------
(* While leases can be relied on there is one alert at a time, the one of   *)
(* the entry, and while it is only claimed its replica alone knows it.      *)

Live(a) == pc[a] = "sending" \/ Pending(a) \/ Shown(a) \/ \E p \in Replicas : At(a, p)

AliveInv ==
    Trusted => \A a \in Requests : Live(a) => Present /\ \A b \in Requests : Live(b) => b = a

ClaimedInv ==
    Trusted => \A a \in Requests, p \in Replicas :
        At(a, p) => stored.status = "final" \/ (p = home[a] /\ Pending(a))

LEMMA TrustStays ==
    ASSUME LockingInv, WritesInv, [Next]_vars, Trusted'
    PROVE  Trusted /\ ~Faulty("storage") /\ ~Faulty("slow")
BY AlertedStep, ReliableStays DEF LockingInv, Trusted

LEMMA Starts ==
    ASSUME LockingInv, WritesInv, [Next]_vars, Trusted', NEW a \in Requests,
           pc'[a] = "sending", pc[a] # "sending"
    PROVE  ClaimAnswer(a) /\ ~Present /\ Present' /\ Alone(a)
<1>1. pc \in [Requests -> Steps] /\ work \in [Requests -> Work]
  BY DEF LockingInv, Types
<1>2. ~Faulty("storage") /\ persistent
  BY TrustStays DEF Trusted
<1>3. ~Ends(a)
  BY EndsOutcome DEF LockingInv
<1>4. ASSUME NEW data \in Data, Proceed(a, data)
      PROVE  FALSE
  <2>1. ~(pc' = [pc EXCEPT ![a] = IF data.status = "none" THEN "analysing" ELSE "done"])
    BY <1>1
  <2>2. ASSUME NEW todo, NEW mine, NEW next, Leased(a, data, locks[home[a]], todo, {}, mine, next)
        PROVE  FALSE
    BY <2>2 DEF Leased
  <2> QED BY <1>4, <2>1, <2>2, ProceedOutcome DEF LockingInv
<1>5. ~Read(a)
  BY <1>1, <1>2 DEF Read, Goes
<1>6. ~ReadAnswer(a)
  BY <1>4, AlertsAreRequests DEF ReadAnswer, LockingInv
<1>7. ~RereadAnswer(a) /\ ~Quiet(a) /\ ~Elsewhere(a) /\ ~Deliver(a) /\ ~Recorded(a)
  BY <1>3 DEF RereadAnswer, Quiet, Elsewhere, Deliver, Recorded
<1>8. ~ClaimKey(a)
  BY <1>1, <1>2, <1>3 DEF ClaimKey, Refused, Goes
<1>9. ~LeaseAnswer(a)
  <2>1. ASSUME NEW L, NEW todo, NEW owned, NEW mine, NEW next,
               Leased(a, work[a].data, L, todo, owned, mine, next)
        PROVE  FALSE
    BY <2>1 DEF Leased
  <2> QED BY <2>1, LeaseOutcome DEF LockingInv
<1>10. ~Resend(a)
  BY <1>1, ResendOutcome DEF LockingInv
<1>11. ~Renewed(a)
  BY <1>1, <1>3, RenewedOutcome DEF LockingInv, Goes
<1>12. ASSUME NEW q \in Requests \ {a}
       PROVE  ~(Read(q) \/ ReadAnswer(q) \/ RereadAnswer(q) \/ Analyse(q) \/ Redeliver(q))
  BY OthersRest DEF LockingInv, Alone
<1>13. ~ \/ \E w \in writes : Store(w)
         \/ \E c \in Channels : LeaseExpires(c)
         \/ Lapse \/ UNCHANGED vars
  BY DEF Store, LeaseExpires, Lapse, vars
<1>14. \A p \in Replicas : ~Crash(p)
  BY CrashOutcome DEF LockingInv
<1>15. ClaimAnswer(a)
  BY <1>5, <1>6, <1>7, <1>8, <1>9, <1>10, <1>11, <1>12, <1>13, <1>14 DEF Next, Analyse, Redeliver
<1>16. Alone(a)
  BY <1>15, OthersRest DEF Analyse, LockingInv
<1>17. ~Refused(a)
  BY <1>1, <1>2, <1>3 DEF Refused, Goes
<1>18. ~Present /\ stored' = Claimed /\ expired' = FALSE
  BY <1>2, <1>15, <1>17 DEF ClaimAnswer
<1> QED BY <1>15, <1>16, <1>18, DataTypes DEF Present

\* The TTL passes when nobody works on an entry, and then nothing is known of it.
LEMMA LapseEnds ==
    ASSUME "boundary" \notin Windows, LockingInv, Lapse, NEW a \in Requests
    PROVE  ~Live(a)'
<1>1. None \notin Requests /\ Nothing.alert = None
  BY NewsDedupAssumption, DataTypes
<1>2. pc'[a] # "sending" /\ ~Pending(a)'
  BY DEF Lapse, Pending
<1>3. ~Shown(a)'
  BY DEF Lapse, Shown, Present
<1>4. \A p \in Replicas : ~At(a, p)'
  BY <1>1 DEF Lapse, At
<1> QED BY <1>2, <1>3, <1>4 DEF Live

LEMMA LiveComes ==
    ASSUME LockingInv, WritesInv, [Next]_vars, NEW a \in Requests, Live(a)'
    PROVE  Live(a) \/ (pc'[a] = "sending" /\ pc[a] # "sending")
<1>1. None \notin Requests /\ Nothing.alert = None /\ Claimed.alert = None /\ home' = home
  BY NewsDedupAssumption, DataTypes, EndedStays DEF setting
<1>2. Deliver(a) => Live(a)
  BY DEF Deliver, Live
<1>3. Pending(a)' => Live(a)
  BY <1>1, <1>2, WritesMove DEF Pending, Live, NextWrite, Handed
<1>4. Shown(a)' => Live(a)
  BY <1>1, StoredMoves DEF NextStored, Live, Pending, Shown
<1>5. ASSUME NEW p \in Replicas, At(a, p)'
      PROVE  Live(a)
  BY <1>1, <1>2, <1>5, AtMoves DEF Live
<1> QED BY <1>3, <1>4, <1>5 DEF Live

LEMMA AliveStep ==
    ASSUME "boundary" \notin Windows, LockingInv, WritesInv, AliveInv, [Next]_vars
    PROVE  AliveInv'
<1> SUFFICES ASSUME Trusted', NEW a \in Requests, Live(a)'
             PROVE  Present' /\ \A b \in Requests : Live(b)' => b = a
  BY DEF AliveInv
<1>1. Trusted /\ ~Lapse
  BY TrustStays, LapseEnds
<1>2. ASSUME NEW b \in Requests, Live(b)
      PROVE  Present /\ Present'
  BY <1>1, <1>2, StoredMoves DEF AliveInv
<1>3. ASSUME NEW b \in Requests, pc'[b] = "sending", pc[b] # "sending"
      PROVE  ~Present /\ Present' /\ Alone(b)
  BY <1>3, Starts
<1>4. Present'
  BY <1>2, <1>3, LiveComes
<1>5. ASSUME NEW b \in Requests, Live(b)'
      PROVE  b = a
  <2>1. CASE Live(a) /\ Live(b)
    BY <1>1, <2>1 DEF AliveInv
  <2>2. CASE ~(Live(a) /\ Live(b))
    BY <1>2, <1>3, <1>5, <2>2, LiveComes DEF Alone
  <2> QED BY <2>1, <2>2
<1> QED BY <1>4, <1>5

LEMMA PendingEnds ==
    ASSUME LockingInv, WritesInv, [Next]_vars, Trusted', NEW a \in Requests, Pending(a), ~Pending(a)',
           NEW s \in Replicas, s = home[a]
    PROVE  stored'.status = "final" \/ ~At(a, s)'
<1>1. PICK w \in writes : w.data.alert = a /\ w \notin writes'
  BY DEF Pending
<1>2. w.owner = a /\ None \notin Requests /\ home' = home
  BY <1>1, AlertsAreRequests, EndedStays DEF WritesInv, LockingInv, setting
<1>3. ~(writes \subseteq writes')
  BY <1>1
<1>4. ASSUME NEW r \in Requests
      PROVE  ~(Read(r) \/ ReadAnswer(r) \/ RereadAnswer(r) \/ Analyse(r) \/ Redeliver(r))
  BY <1>3 DEF Read, ReadAnswer, RereadAnswer, Analyse, Quiet, Elsewhere, ClaimKey, ClaimAnswer, Deliver,
              SetFinal, Redeliver, LeaseAnswer, Resend, Renewed, Recorded, cloud
<1>5. ASSUME NEW v \in writes, Store(v)
      PROVE  stored'.status = "final"
  BY <1>5, TrustStays DEF Store, WritesInv
<1>6. ASSUME NEW p \in Replicas, Crash(p)
      PROVE  ~At(a, s)'
  <2>1. s = p
    BY <1>1, <1>2, <1>6, CrashOutcome DEF LockingInv
  <2>2. NoWork.data.alert = None /\ Nothing.alert = None
    BY DataTypes DEF NoWork
  <2> QED BY <1>2, <1>6, <2>1, <2>2, CrashedForget, AlertsAreRequests DEF At, LockingInv
<1>7. ~((\E c \in Channels : LeaseExpires(c)) \/ Lapse \/ UNCHANGED vars)
  BY <1>1 DEF LeaseExpires, Lapse, vars, cloud
<1> QED BY <1>4, <1>5, <1>6, <1>7 DEF Next

LEMMA ClaimedStep ==
    ASSUME "boundary" \notin Windows, LockingInv, WritesInv, KnownInv, ResultInv, AliveInv, ClaimedInv,
           [Next]_vars
    PROVE  ClaimedInv'
<1> SUFFICES ASSUME Trusted', NEW a \in Requests, NEW p \in Replicas, At(a, p)'
             PROVE  stored'.status = "final" \/ (p = home[a] /\ Pending(a)')
  BY EndedStays DEF ClaimedInv, setting
<1>1. Trusted /\ home' = home /\ None \notin Requests
  BY TrustStays, EndedStays, AlertsAreRequests DEF setting, LockingInv
<1>2. ASSUME Present, stored.status = "final"
      PROVE  stored'.status = "final"
  BY <1>2, StoredMoves DEF NextStored, WritesInv
<1>3. CASE At(a, p)
  <2>1. Present
    BY <1>1, <1>3 DEF AliveInv, Live
  <2>2. CASE p = home[a] /\ Pending(a)
    BY <2>2, PendingEnds
  <2> QED BY <1>1, <1>2, <1>3, <2>1, <2>2 DEF ClaimedInv
<1>4. CASE Shown(a)
  BY <1>1, <1>2, <1>4 DEF Shown, ResultInv
<1>5. CASE Deliver(a) /\ home[a] = p
  <2>1. PICK data \in Data : SetFinal(a, data) /\ data.alert = a
    BY <1>5, DeliverOutcome DEF LockingInv
  <2>2. [owner |-> a, data |-> data] \in writes'
    BY <1>1, <2>1 DEF SetFinal, Trusted
  <2>3. Pending(a)'
    BY <2>1, <2>2 DEF Pending
  <2> QED BY <1>5, <2>3
<1> QED BY <1>1, <1>3, <1>4, <1>5, AtMoves

-----------------------------------------------------------------------------
(* Who may still send an alert once more.                                   *)

\* As long as leases can be relied on, all of them are renewed.
KeptInv == Trusted => \A r \in Requests : pc[r] = "recording" => work[r].kept = work[r].owned

LEMMA OwnsLease ==
    ASSUME LockingInv, Trusted, NEW r \in Requests, NEW c \in work[r].owned
    PROVE  /\ c \in Channels /\ locks[home[r]][c].live /\ lease[c] = locks[home[r]][c].token
           /\ lease[c] # None /\ home[lease[c]] = home[r]
<1>1. c \in Channels /\ home[r] \in Replicas /\ None \notin Requests
  BY AlertsAreRequests, HeldTypes DEF LockingInv
<1>2. locks[home[r]][c].live
  BY DEF LockingInv, HoldInv, LiveInv
<1>3. TokenOf(home[r], c)
  BY <1>1 DEF LockingInv, HoldInv, LiveInv
<1> QED BY <1>1, <1>2, <1>3 DEF TokenOf, Trusted

LEMMA RecordingMoves ==
    ASSUME LockingInv, [Next]_vars, NEW r \in Requests, pc'[r] = "recording"
    PROVE  (pc[r] = "recording" /\ work'[r] = work[r]) \/ Renewed(r)
<1>1. pc[r] \in {"renewing", "recording"}
  BY ResultsMove, ResendOutcome DEF LockingInv, Types
<1>2. ~Recorded(r)
  BY RecordedOutcome, EndsOutcome DEF LockingInv
<1>3. ~(Read(r) \/ ReadAnswer(r) \/ RereadAnswer(r) \/ Analyse(r) \/ LeaseAnswer(r) \/ Resend(r))
  BY <1>1 DEF Read, ReadAnswer, RereadAnswer, Analyse, Quiet, Elsewhere, ClaimKey, ClaimAnswer, Deliver,
              LeaseAnswer, Resend
<1>4. ASSUME pc'[r] = pc[r], work'[r] = work[r]
      PROVE  (pc[r] = "recording" /\ work'[r] = work[r]) \/ Renewed(r)
  BY <1>4
<1>5. ASSUME NEW q \in Requests \ {r},
             Read(q) \/ ReadAnswer(q) \/ RereadAnswer(q) \/ Analyse(q) \/ Redeliver(q)
      PROVE  pc'[r] = pc[r] /\ work'[r] = work[r]
  BY <1>5, OthersRest DEF LockingInv, Alone
<1>6. ASSUME \/ \E w \in writes : Store(w)
             \/ \E c \in Channels : LeaseExpires(c)
             \/ Lapse \/ UNCHANGED vars
      PROVE  pc'[r] = pc[r] /\ work'[r] = work[r]
  BY <1>6 DEF Store, LeaseExpires, Lapse, vars
<1>7. ASSUME NEW p \in Replicas, Crash(p)
      PROVE  pc'[r] = pc[r] /\ work'[r] = work[r]
  BY <1>7, CrashOutcome DEF LockingInv
<1> QED BY <1>2, <1>3, <1>4, <1>5, <1>6, <1>7 DEF Next, Redeliver

LEMMA KeptStep ==
    ASSUME LockingInv, WritesInv, KeptInv, [Next]_vars
    PROVE  KeptInv'
<1> SUFFICES ASSUME Trusted', NEW r \in Requests, pc'[r] = "recording"
             PROVE  work'[r].kept = work'[r].owned
  BY DEF KeptInv
<1>1. Trusted /\ persistent /\ ~Faulty("storage")
  BY TrustStays DEF Trusted
<1>2. CASE Renewed(r)
  <2>1. PICK kept \in SUBSET work[r].owned :
          /\ kept = StillHeld(r)
          /\ Ends(r) \/ work' = [work EXCEPT ![r] = [work[r] EXCEPT !.kept = kept]]
    BY <1>1, <1>2, RenewedOutcome DEF LockingInv
  <2>2. StillHeld(r) = work[r].owned
    BY <1>1, OwnsLease DEF StillHeld
  <2>3. ~Ends(r)
    BY EndsOutcome DEF LockingInv
  <2>4. work \in [Requests -> Work] /\ work[r] \in Work
    BY DEF LockingInv, Types
  <2> QED BY <2>1, <2>2, <2>3, <2>4 DEF Work
<1> QED BY <1>1, <1>2, RecordingMoves DEF KeptInv

\* The replicas of P hold the lease of c.
LeasedIn(c, P) == lease[c] # None /\ home[lease[c]] \in P

\* The request q does not send to c: the replicas of P do.
Barred(q, c, P) ==
    /\ c \notin work[q].owned
    /\ c \in work[q].todo \cup {work[q].trying} => LeasedIn(c, P)

\* Going on with its claims a request outside P does not get a channel leased in P.
LEMMA LeasesBarred ==
    ASSUME LockingInv, Trusted, home' = home, NEW q \in Requests, NEW data, NEW L, NEW todo \in SUBSET Channels,
           NEW owned, NEW mine, NEW next, Leased(q, data, L, todo, owned, mine, next),
           NEW c \in Channels, NEW P, home[q] \notin P, c \notin owned,
           c \in todo => LeasedIn(c, P) /\ LeasedIn(c, P)',
           c \in todo /\ L[c].live => locks[home[q]][c].live
    PROVE  Barred(q, c, P)'
<1>1. None \notin Channels /\ home[q] \in Replicas
  BY AlertsAreRequests DEF LockingInv
<1>2. ASSUME c \in mine
      PROVE  FALSE
  <2>1. c \in todo /\ locks[home[q]][c].live
    BY <1>2 DEF Leased, Trusted
  <2>2. home[lease[c]] = home[q]
    BY <1>1, <2>1 DEF LockingInv, HoldInv, LiveInv, TokenOf, Trusted
  <2> QED BY <2>1, <2>2 DEF LeasedIn
<1>3. CASE work'[q] = NoWork
  BY <1>1, <1>3 DEF Barred, NoWork
<1>4. CASE work'[q] # NoWork
  BY <1>1, <1>2, <1>4 DEF Leased, Barred
<1> QED BY <1>3, <1>4

LEMMA RestingBarred ==
    ASSUME NEW q \in Requests, NEW c \in Channels, NEW P, Resting(q), None \notin Channels
    PROVE  Barred(q, c, P)
BY DEF Resting, Barred

\* No step but the reading of the entry changes that.
LEMMA BarredStays ==
    ASSUME LockingInv, WritesInv, [Next]_vars, Trusted', NEW q \in Requests, NEW c \in Channels,
           NEW P, home[q] \notin P, Barred(q, c, P), ~ReadAnswer(q)
    PROVE  Barred(q, c, P)'
<1>1. None \notin Channels /\ home' = home /\ Trusted /\ ~Faulty("storage") /\ persistent
  BY AlertsAreRequests, EndedStays, TrustStays DEF LockingInv, setting, Trusted
<1>2. ASSUME Resting(q)'
      PROVE  Barred(q, c, P)'
  BY <1>1, <1>2 DEF Resting, Barred
<1>3. ASSUME lease'[c] = lease[c], work'[q].owned = work[q].owned, work'[q].todo = work[q].todo,
             work'[q].trying = work[q].trying
      PROVE  Barred(q, c, P)'
  BY <1>1, <1>3 DEF Barred, LeasedIn
<1>4. ASSUME pc'[q] \notin Redeliveries
      PROVE  Barred(q, c, P)'
  BY <1>2, <1>4, RestsOutside
<1>5. work \in [Requests -> Work] /\ pc \in [Requests -> Steps] /\ lease \in [Channels -> Requests \cup {None}]
  BY DEF LockingInv, Types
<1>6. ASSUME NEW r \in Requests,
             Read(r) \/ ReadAnswer(r) \/ RereadAnswer(r) \/ Analyse(r) \/ Resend(r) \/ Renewed(r) \/ Recorded(r)
      PROVE  Barred(q, c, P)'
  <2>1. lease' = lease
    BY <1>6 DEF Read, ReadAnswer, RereadAnswer, Analyse, Quiet, Elsewhere, ClaimKey, ClaimAnswer, Deliver,
                SetFinal, Resend, Renewed, Recorded, cloud
  <2>2. CASE r # q
    BY <1>3, <1>6, <2>1, <2>2, OthersRest DEF LockingInv, Alone, Redeliver
  <2>3. CASE r = q
    <3>1. Ends(q) => pc'[q] \notin Redeliveries
      BY EndsOutcome DEF LockingInv, Redeliveries
    <3>2. CASE Read(q)
      BY <1>1, <1>4, <1>5, <3>2 DEF Read, Goes, Redeliveries
    <3>3. CASE RereadAnswer(q) \/ Quiet(q) \/ Elsewhere(q) \/ Deliver(q) \/ Recorded(q)
      BY <1>4, <3>1, <3>3 DEF RereadAnswer, Quiet, Elsewhere, Deliver, Recorded
    <3>4. CASE ClaimKey(q) \/ ClaimAnswer(q)
      BY <1>4, <1>5, <3>1, <3>4 DEF ClaimKey, ClaimAnswer, Refused, Wins, Goes, Redeliveries
    <3>5. CASE Resend(q)
      BY <1>3, <2>1, <3>5, ResendOutcome DEF LockingInv
    <3>6. CASE Renewed(q)
      <4>1. ASSUME NEW kept, work' = [work EXCEPT ![q] = [work[q] EXCEPT !.kept = kept]]
            PROVE  /\ work'[q].owned = work[q].owned /\ work'[q].todo = work[q].todo
                   /\ work'[q].trying = work[q].trying
        BY <1>5, <4>1 DEF Work
      <4> QED BY <1>3, <1>4, <2>1, <3>1, <3>6, <4>1, RenewedOutcome DEF LockingInv
    <3> QED BY <1>6, <2>3, <3>2, <3>3, <3>4, <3>5, <3>6 DEF Analyse
  <2> QED BY <2>2, <2>3
<1>7. ASSUME NEW r \in Requests, LeaseAnswer(r)
      PROVE  Barred(q, c, P)'
  <2> DEFINE x == work[r].trying
             s == home[r]
  <2>1. /\ x \in Channels /\ s \in Replicas
        /\ \/ /\ lease[x] = None /\ lease' = [lease EXCEPT ![x] = r]
              /\ \E mine, next : Leased(r, work[r].data, [locks[s] EXCEPT ![x].live = TRUE],
                                        work[r].todo, work[r].owned \cup {x}, mine, next)
           \/ /\ lease[x] # None /\ lease' = lease
              /\ \E mine, next : Leased(r, work[r].data, [locks[s] EXCEPT ![x] = NoLock],
                                        work[r].todo, work[r].owned, mine, next)
    BY <1>1, <1>7, LeaseOutcome, AlertsAreRequests DEF LockingInv
  <2>2. lease[c] # None => lease'[c] = lease[c]
    BY <1>5, <2>1
  <2>3. LeasedIn(c, P) => LeasedIn(c, P)'
    BY <1>1, <2>2 DEF LeasedIn
  <2>4. CASE r # q
    <3>1. work'[q] = work[q]
      BY <1>7, <2>4, OthersRest DEF LockingInv, Alone, Redeliver
    <3> QED BY <2>3, <3>1 DEF Barred
  <2>5. CASE r = q
    <3>1. /\ work[r].todo \in SUBSET Channels /\ locks[s] \in [Channels -> Lock]
          /\ c \notin work[q].owned /\ (c \in work[q].todo \/ c = x => LeasedIn(c, P))
      BY <2>1, <2>5, AlertsAreRequests DEF LockingInv, Types, Work, Barred
    <3>2. ASSUME lease[x] = None
          PROVE  c # x
      BY <2>5, <3>1, <3>2 DEF LeasedIn
    <3>3. ~NoLock.live
      BY DEF NoLock
    <3>4. ASSUME lease[x] = None, NEW mine, NEW next,
                 Leased(r, work[r].data, [locks[s] EXCEPT ![x].live = TRUE],
                        work[r].todo, work[r].owned \cup {x}, mine, next)
          PROVE  Barred(q, c, P)'
      <4>1. c # x /\ [locks[s] EXCEPT ![x].live = TRUE][c] = locks[s][c]
        BY <3>1, <3>2, <3>4
      <4> HIDE DEF x, s
      <4> QED BY <1>1, <2>3, <2>5, <3>1, <3>4, <4>1, LeasesBarred DEF s
    <3>5. ASSUME NEW mine, NEW next,
                 Leased(r, work[r].data, [locks[s] EXCEPT ![x] = NoLock],
                        work[r].todo, work[r].owned, mine, next)
          PROVE  Barred(q, c, P)'
      <4>1. [locks[s] EXCEPT ![x] = NoLock][c].live => locks[s][c].live
        BY <3>1, <3>3
      <4> HIDE DEF x, s
      <4> QED BY <1>1, <2>3, <2>5, <3>1, <3>5, <4>1, LeasesBarred DEF s
    <3> QED BY <2>1, <3>4, <3>5
  <2> QED BY <2>4, <2>5
<1>8. ASSUME NEW x \in Channels, LeaseExpires(x)
      PROVE  Barred(q, c, P)'
  <2>1. work' = work /\ x \notin work[q].todo \cup {work[q].trying} /\ (c # x => lease'[c] = lease[c])
    BY <1>8, LeaseExpiresOutcome DEF LockingInv
  <2> QED BY <1>1, <2>1 DEF Barred, LeasedIn
<1>9. CASE (\E w \in writes : Store(w)) \/ Lapse \/ UNCHANGED vars
  <2>1. work' = work /\ lease' = lease
    BY <1>9 DEF Store, Lapse, vars, cloud
  <2> QED BY <1>3, <2>1
<1>10. ASSUME NEW p \in Replicas, Crash(p)
       PROVE  Barred(q, c, P)'
  <2>1. lease' = lease /\ (work'[q] = work[q] \/ work'[q] = NoWork)
    BY <1>10, CrashOutcome DEF LockingInv
  <2>2. work'[q] = NoWork => Resting(q)'
    BY DEF Resting, NoWork
  <2> QED BY <1>2, <1>3, <2>1, <2>2
<1> QED BY <1>6, <1>7, <1>8, <1>9, <1>10 DEF Next, Redeliver

\* Where the entry has a delivery on record the others do not send it once more.
ShownInv ==
    Trusted => \A a \in Requests, c \in Channels : Shown(a) /\ stored.results[c] = "ok" =>
        \A q \in Requests : work[q].data.alert = a /\ home[q] \notin Deliverers(a, c)
                              => Barred(q, c, Deliverers(a, c))

\* Reading the entry a request takes no channel that has been reached or is leased in P.
LEMMA ReadBarred ==
    ASSUME LockingInv, Trusted, home' = home, lease' = lease, NEW q \in Requests,
           NEW data \in Data, Proceed(q, data), NEW c \in Channels, NEW P, home[q] \notin P,
           data.results[c] # "ok" => LeasedIn(c, P)
    PROVE  Barred(q, c, P)'
<1>1. None \notin Channels /\ work \in [Requests -> Work] /\ wants[q] \in SUBSET Channels
  BY AlertsAreRequests DEF LockingInv, Types
<1>2. CASE work' = [work EXCEPT ![q] = NoWork]
  BY <1>1, <1>2 DEF Barred, NoWork
<1>3. ASSUME NEW todo, NEW owned, NEW L, todo = {x \in wants[q] : data.results[x] # "ok"}, owned = {},
             L = locks[home[q]], NEW mine, NEW next, Leased(q, data, L, todo, owned, mine, next)
      PROVE  Barred(q, c, P)'
  <2>1. todo \in SUBSET Channels /\ (c \in todo => LeasedIn(c, P) /\ LeasedIn(c, P)')
    BY <1>1, <1>3 DEF LeasedIn
  <2>2. c \notin owned /\ (c \in todo /\ L[c].live => locks[home[q]][c].live)
    BY <1>3
  <2> QED BY <1>3, <2>1, <2>2, LeasesBarred
<1> QED BY <1>2, <1>3, ProceedOutcome DEF LockingInv

\* What a request reads while Firestore answers.
LEMMA AnswerRead ==
    ASSUME LockingInv, NEW q \in Requests, ReadAnswer(q), ~Faulty("storage")
    PROVE  /\ lease' = lease
           /\ \E data \in Data :
                /\ Proceed(q, data) /\ (work'[q] = NoWork \/ work'[q].data = data)
                /\ \/ data = stored /\ Present
                   \/ /\ data = work[q].data
                      /\ ~Present \/ stored.status = "claiming"
<1>1. PICK data \in {work[q].data, stored} : Fetch(q, data) /\ Proceed(q, data)
  BY DEF ReadAnswer
<1>2. data \in Data /\ lease' = lease
  BY AlertsAreRequests DEF LockingInv, ReadAnswer
<1>3. \/ data = stored /\ Present
      \/ data = work[q].data /\ (~Present \/ stored.status = "claiming")
  BY <1>1 DEF Fetch, Prefers
<1>4. work'[q] = NoWork \/ work'[q].data = data
  BY <1>1, <1>2, ProceedData DEF LockingInv
<1> QED BY <1>1, <1>2, <1>3, <1>4

LEMMA DeliverersGrow ==
    ASSUME LockingInv, [Next]_vars, NEW a \in Requests, NEW c \in Channels
    PROVE  Deliverers(a, c) \subseteq Deliverers(a, c)'
BY DeliveriesMove, EndedStays DEF Deliverers, setting

LEMMA DelivererIs ==
    ASSUME LockingInv, NEW r \in Requests, NEW a \in Requests, NEW c \in Channels, <<a, c, r>> \in delivered
    PROVE  home[r] \in Deliverers(a, c)
<1>1. <<a, c, r>> \in {e \in delivered : e[1] = a /\ e[2] = c} /\ <<a, c, r>>[3] = r
  OBVIOUS
<1> QED BY <1>1 DEF Deliverers

\* A request that records results works on the alert of the entry.
LEMMA RecordsShown ==
    ASSUME LockingInv, AliveInv, Trusted, NEW a \in Requests, Live(a), NEW r \in Requests, pc[r] \in Redeliveries
    PROVE  work[r].data.alert = a /\ At(a, home[r])
<1>1. work[r].data.alert \in Requests
  BY AlertsAreRequests DEF LockingInv, StepInv, StepOf, Data
<1>2. home[r] \in Replicas /\ At(work[r].data.alert, home[r])
  BY AlertsAreRequests DEF LockingInv, At
<1> QED BY <1>1, <1>2 DEF AliveInv, Live

\* A recorded result: of a channel that was redelivered, or it stays what it was.
LEMMA RecordedResult ==
    ASSUME LockingInv, NEW r \in Requests, Recorded(r), ~Faulty("storage"), Present, NEW c \in Channels
    PROVE  IF c \in work[r].kept THEN stored'.results[c] = work[r].results[c]
           ELSE stored'.results[c] \in {stored.results[c], "none"}
<1>1. stored'.results = Overlay(stored.results, Delta(r), work[r].kept)
  BY RecordedOutcome DEF LockingInv
<1> QED BY <1>1 DEF Overlay, Delta

\* A request that has recorded a delivery of the entry's alert made it, and has the lease.
LEMMA RecorderLeases ==
    ASSUME LockingInv, ResultInv, AliveInv, KeptInv, Trusted, NEW a \in Requests, Shown(a),
           NEW r \in Requests, pc[r] = "recording", NEW c \in work[r].kept, work[r].results[c] = "ok",
           NEW P, Deliverers(a, c) \subseteq P, NEW q \in Requests, home[q] \notin P
    PROVE  LeasedIn(c, P) /\ c \notin work[q].owned
<1>1. c \in work[r].owned /\ c \in Channels
  BY HeldTypes DEF KeptInv, LockingInv
<1>2. work[r].data.alert = a
  BY RecordsShown DEF Live, Redeliveries
<1>3. <<a, c, r>> \in delivered
  BY <1>1, <1>2 DEF ResultInv
<1>4. home[r] \in P
  BY <1>1, <1>3, DelivererIs
<1>5. lease[c] # None /\ home[lease[c]] = home[r]
  BY <1>1, OwnsLease
<1>6. c \in work[q].owned => home[lease[c]] = home[q]
  BY OwnsLease
<1> QED BY <1>4, <1>5, <1>6 DEF LeasedIn

LEMMA ShownStep ==
    ASSUME "boundary" \notin Windows, LockingInv, WritesInv, KnownInv, PendingInv, ResultInv, AliveInv, KeptInv,
           ShownInv, [Next]_vars
    PROVE  ShownInv'
<1> SUFFICES ASSUME Trusted', NEW a \in Requests, NEW c \in Channels, Shown(a)', stored'.results[c] = "ok",
                    NEW q \in Requests, work'[q].data.alert = a, NEW P, P = Deliverers(a, c)', home'[q] \notin P
             PROVE  Barred(q, c, P)'
  BY DEF ShownInv, Barred, LeasedIn
<1>1. /\ Trusted /\ ~Faulty("storage") /\ home' = home
      /\ None \notin Requests /\ None \notin Channels /\ home[q] \notin P
      /\ NoWork.data.alert = None /\ Nothing.alert = None /\ Claimed.alert = None
  BY AlertsAreRequests, TrustStays, EndedStays, DataTypes DEF LockingInv, setting, NoWork
<1>2. PICK O : O = Deliverers(a, c)
  OBVIOUS
<1>3. O \subseteq P
  BY <1>2, DeliverersGrow
<1>4. CASE ReadAnswer(q)
  <2>1. PICK data \in Data :
          /\ Proceed(q, data) /\ (work'[q] = NoWork \/ work'[q].data = data)
          /\ (data = stored /\ Present) \/ (data = work[q].data /\ (~Present \/ stored.status = "claiming"))
    BY <1>1, <1>4, AnswerRead
  <2>2. Shown(a) /\ stored' = stored
    BY <1>1, <1>4 DEF ReadAnswer, Fetch, Clean, Shown, Present
  <2>3. data = stored
    BY <1>1, <2>1, <2>2 DEF Shown, ResultInv
  <2> QED BY <1>1, <1>4, <2>1, <2>2, <2>3, AnswerRead, ReadBarred
<1>5. CASE ~ReadAnswer(q)
  <2>1. ASSUME Resting(q)'
        PROVE  Barred(q, c, P)'
    BY <1>1, <2>1 DEF Resting, Barred
  <2>2. CASE work'[q].data # work[q].data
    BY <1>1, <1>5, <2>1, <2>2, DataMoves DEF NextData, Trusted
  <2>3. CASE work'[q].data = work[q].data
    <3>1. At(a, home[q]) /\ home[q] \in Replicas
      BY <2>3, AlertsAreRequests DEF At, LockingInv
    <3>2. ASSUME Shown(a), stored.results[c] = "ok"
          PROVE  Barred(q, c, P)
      <4>1. Barred(q, c, O)
        BY <1>1, <1>2, <1>3, <2>3, <3>2 DEF ShownInv
      <4> QED BY <1>3, <4>1 DEF Barred, LeasedIn
    <3>3. ASSUME NEW w \in writes, stored' = w.data
          PROVE  FALSE
      <4>1. w.owner = a /\ Pending(a)
        BY <1>1, <3>3 DEF WritesInv, Shown, Pending
      <4>2. <<a, c, a>> \in delivered
        BY <3>3, <4>1 DEF ResultInv
      <4>3. home[a] \in O
        BY <1>2, <4>2, DelivererIs
      <4>4. home[q] = home[a]
        BY <3>1, <4>1 DEF PendingInv
      <4> QED BY <1>1, <1>3, <4>3, <4>4
    <3>4. ASSUME NEW r \in Requests, Recorded(r), Shown(a), stored.results[c] # "ok"
          PROVE  Barred(q, c, P)
      <4>1. pc[r] = "recording" /\ c \in work[r].kept /\ work[r].results[c] = "ok"
        BY <1>1, <3>4, RecordedResult, RecordedOutcome DEF LockingInv, Shown
      <4> QED BY <1>1, <1>2, <1>3, <3>4, <4>1, RecorderLeases DEF Barred
    <3>5. Barred(q, c, P)
      <4>1. stored'.alert = a /\ Present'
        BY DEF Shown
      <4>2. CASE stored' = stored /\ (Present' => Present)
        BY <3>2, <4>1, <4>2 DEF Shown
      <4>3. CASE ~Present /\ stored' \in {Nothing, Claimed}
        BY <1>1, <4>1, <4>3
      <4>4. CASE \E r \in Requests : Recorded(r) /\ stored'.alert = stored.alert /\ (Present' <=> Present)
        BY <3>2, <3>4, <4>1, <4>4 DEF Shown
      <4> QED BY <3>3, <4>2, <4>3, <4>4, StoredMoves DEF NextStored
    <3> QED BY <1>1, <1>5, <3>5, BarredStays
  <2> QED BY <2>2, <2>3
<1> QED BY <1>4, <1>5

-----------------------------------------------------------------------------
(* One replica delivers an alert to a channel.                              *)

\* The entry, or what is to be written to it, lacks the delivery.
Stale(a, c) ==
    \/ Shown(a) /\ stored.results[c] # "ok"
    \/ \E w \in writes : w.data.alert = a /\ w.data.results[c] # "ok"

\* A request of p still has to record that it has delivered a to c.
Says(r, a, c, p) ==
    /\ home[r] = p /\ pc[r] \in {"renewing", "recording"} /\ c \in work[r].owned
    /\ work[r].results[c] = "ok" /\ work[r].data.alert = a

\* Of the replicas that remember, p alone has delivered a to c: either that is on record,
\* or p has the lease that keeps the others from c until it is.
Only(a, c, p) ==
    /\ \A s \in Deliverers(a, c) \ crashed : s = p
    /\ Stale(a, c) => \E r \in Requests : Says(r, a, c, p)
    /\ \A q \in Requests : work[q].data.alert = a /\ home[q] # p => Barred(q, c, {p})

ReplicaInv ==
    Trusted => \A a \in Requests, c \in Channels : <<a, c>> \notin retracted =>
        \A p \in Deliverers(a, c) \ crashed : Only(a, c, p)

\* A request delivers the alert a to c once more.
SendsAgain(r, a, c) == /\ Resend(r) /\ work[r].data.alert = a /\ c \in work[r].owned
                       /\ work'[r].results[c] = "ok"

\* A replica that delivers an alert to a channel for the first time.
LEMMA DeliverersMove ==
    ASSUME LockingInv, [Next]_vars, NEW a \in Requests, NEW c \in Channels, NEW p,
           p \in (Deliverers(a, c) \ crashed)'
    PROVE  \/ p \in Deliverers(a, c) \ crashed
           \/ Deliver(a) /\ p = home[a] /\ <<a, c, a>> \in delivered' \ delivered
           \/ \E r \in Requests : p = home[r] /\ SendsAgain(r, a, c)
<1>1. home' = home /\ crashed \subseteq crashed'
  BY EndedStays, DeliveriesMove DEF setting
<1>2. PICK d \in delivered' : d[1] = a /\ d[2] = c /\ p = home[d[3]]
  BY <1>1 DEF Deliverers
<1>3. d = <<a, c, d[3]>> /\ d[3] \in Requests
  BY <1>2, NextLocking DEF LockingInv, Types
<1>4. CASE d \in delivered
  BY <1>1, <1>2, <1>3, <1>4, DelivererIs
<1>5. ASSUME NEW r \in Requests, Resend(r), d[1] = work[r].data.alert, d[3] = r, d \notin delivered
      PROVE  SendsAgain(r, a, c) /\ p = home[r]
  <2>1. PICK reached \in SUBSET work[r].owned :
          /\ delivered' = delivered \cup {<<work[r].data.alert, x, r>> : x \in reached}
          /\ \A x \in Channels : work'[r].results[x] = "ok" <=> x \in reached
    BY <1>5, ResendOutcome DEF LockingInv
  <2>2. c \in reached
    BY <1>2, <1>3, <1>5, <2>1
  <2> QED BY <1>2, <1>5, <2>1, <2>2 DEF SendsAgain
<1> QED BY <1>1, <1>2, <1>3, <1>4, <1>5, DeliveriesMove DEF NextDelivery

LEMMA StaleMoves ==
    ASSUME LockingInv, WritesInv, [Next]_vars, NEW a \in Requests, NEW c \in Channels, Stale(a, c)', ~Deliver(a),
           <<a, c>> \notin retracted'
    PROVE  Stale(a, c)
<1>1. None \notin Requests /\ Nothing.alert = None /\ Claimed.alert = None
  BY NewsDedupAssumption, DataTypes
<1>2. ASSUME NEW w \in writes', w.data.alert = a, w.data.results[c] # "ok"
      PROVE  Stale(a, c)
  BY <1>1, <1>2, WritesMove DEF NextWrite, Handed, Stale
<1>3. ASSUME Shown(a)', stored'.results[c] # "ok"
      PROVE  Stale(a, c)
  <2>1. ASSUME NEW r \in Requests, Recorded(r), Shown(a)
        PROVE  stored.results[c] # "ok"
    BY <1>3, <2>1, RecordedOutcome DEF LockingInv, Shown
  <2> QED BY <1>1, <1>3, <2>1, StoredMoves DEF NextStored, Stale, Shown
<1> QED BY <1>2, <1>3 DEF Stale

LEMMA RetractedStays ==
    ASSUME LockingInv, [Next]_vars
    PROVE  retracted \subseteq retracted'
<1>1. ASSUME NEW r \in Requests,
             Read(r) \/ ReadAnswer(r) \/ RereadAnswer(r) \/ Analyse(r) \/ Redeliver(r)
      PROVE  retracted \subseteq retracted'
  <2>1. Recorded(r) => retracted \subseteq retracted'
    BY RecordedOutcome DEF LockingInv
  <2> QED BY <1>1, <2>1 DEF Read, ReadAnswer, RereadAnswer, Analyse, Quiet, Elsewhere, ClaimKey, ClaimAnswer,
                            Deliver, Redeliver, LeaseAnswer, Resend, Renewed, ghosts
<1>2. CASE \/ \E w \in writes : Store(w)
           \/ \E c \in Channels : LeaseExpires(c)
           \/ \E p \in Replicas : Crash(p)
           \/ Lapse \/ UNCHANGED vars
  BY <1>2 DEF Store, LeaseExpires, Crash, Lapse, vars, ghosts
<1> QED BY <1>1, <1>2 DEF Next

\* What a request that has sent does next: renew its leases, record, unless it crashes.
LEMMA SayerMoves ==
    ASSUME LockingInv, [Next]_vars, NEW r \in Requests, pc[r] \in {"renewing", "recording"}
    PROVE  \/ pc'[r] = pc[r] /\ work'[r] = work[r]
           \/ Renewed(r) \/ Recorded(r) \/ Crash(home[r])
<1>1. ~(Read(r) \/ ReadAnswer(r) \/ RereadAnswer(r) \/ Analyse(r) \/ LeaseAnswer(r) \/ Resend(r))
  BY DEF Read, ReadAnswer, RereadAnswer, Analyse, Quiet, Elsewhere, ClaimKey, ClaimAnswer, Deliver,
         LeaseAnswer, Resend
<1>2. ASSUME NEW q \in Requests \ {r},
             Read(q) \/ ReadAnswer(q) \/ RereadAnswer(q) \/ Analyse(q) \/ Redeliver(q)
      PROVE  pc'[r] = pc[r] /\ work'[r] = work[r]
  BY <1>2, OthersRest DEF LockingInv, Alone
<1>3. ASSUME \/ \E w \in writes : Store(w)
             \/ \E c \in Channels : LeaseExpires(c)
             \/ Lapse \/ UNCHANGED vars
      PROVE  pc'[r] = pc[r] /\ work'[r] = work[r]
  BY <1>3 DEF Store, LeaseExpires, Lapse, vars
<1>4. ASSUME NEW p \in Replicas, Crash(p), p # home[r]
      PROVE  pc'[r] = pc[r] /\ work'[r] = work[r]
  BY <1>4, CrashOutcome DEF LockingInv
<1> QED BY <1>1, <1>2, <1>3, <1>4 DEF Next, Redeliver

\* What a request has to say it says: unless its replica crashes the entry has it then.
LEMMA SaysStays ==
    ASSUME "late_write" \notin Windows, LockingInv, CachedInv, KeptInv, WritesInv, [Next]_vars, Trusted',
           NEW a \in Requests, NEW c \in Channels, NEW p \in Replicas, p \notin crashed', NEW r \in Requests,
           Says(r, a, c, p), Stale(a, c)'
    PROVE  Says(r, a, c, p)'
<1>1. /\ Trusted /\ persistent /\ ~Faulty("storage") /\ home' = home
      /\ None \notin Requests /\ Nothing.alert = None
      /\ pc \in [Requests -> Steps] /\ work \in [Requests -> Work] /\ work[r] \in Work
  BY TrustStays, EndedStays, AlertsAreRequests, DataTypes DEF LockingInv, setting, Types, Trusted
<1>2. CASE pc'[r] = pc[r] /\ work'[r] = work[r]
  BY <1>1, <1>2 DEF Says
<1>3. CASE Renewed(r)
  <2>1. StillHeld(r) = work[r].owned
    BY <1>1, OwnsLease DEF StillHeld
  <2>2. local[home[r]] # Nothing /\ c \in work[r].owned
    BY <1>1 DEF Says, CachedInv
  <2>3. PICK kept : Goes(r, "recording") /\ work' = [work EXCEPT ![r] = [work[r] EXCEPT !.kept = kept]]
    BY <1>1, <1>3, <2>1, <2>2, RenewedOutcome DEF LockingInv
  <2>4. /\ pc'[r] = "recording" /\ work'[r].owned = work[r].owned
        /\ work'[r].results = work[r].results /\ work'[r].data = work[r].data
    BY <1>1, <2>3 DEF Goes, Work
  <2> QED BY <1>1, <2>4 DEF Says
<1>4. CASE Recorded(r)
  <2>1. pc[r] = "recording" /\ c \in work[r].kept /\ work[r].results[c] = "ok" /\ work[r].data.alert = a
    BY <1>1, <1>4, RecordedOutcome DEF LockingInv, Says, KeptInv
  <2>2. expired' = expired /\ writes' = writes /\ stored'.status = stored.status
        /\ \A w \in writes : w.data.alert # a
    BY <1>4, <2>1, RecordedOutcome DEF LockingInv
  <2>3. Shown(a)' => Present
    BY <2>2 DEF Shown, Present
  <2>4. Present => stored'.results[c] = "ok"
    BY <1>1, <1>4, <2>1, RecordedResult
  <2> QED BY <2>2, <2>3, <2>4 DEF Stale
<1>5. CASE Crash(home[r])
  BY <1>5, CrashOutcome DEF LockingInv, Says, Types
<1> QED BY <1>2, <1>3, <1>4, <1>5, SayerMoves DEF Says

\* The replica of a new alert is the first to deliver it.
LEMMA FirstIsOnly ==
    ASSUME LockingInv, WritesInv, KnownInv, [Next]_vars, NEW a \in Requests, NEW c \in Channels,
           Deliver(a), NEW p, p \in (Deliverers(a, c) \ crashed)'
    PROVE  Only(a, c, p)'
<1>1. ~Known(a) /\ stored' = stored /\ home' = home /\ None \notin Requests
  BY FreshDelivery, EndedStays, AlertsAreRequests DEF setting, LockingInv
<1>2. ASSUME NEW s, s \in (Deliverers(a, c) \ crashed)'
      PROVE  s = home[a] /\ <<a, c, a>> \in delivered' \ delivered
  <2>1. s \notin Deliverers(a, c)
    BY <1>1 DEF Deliverers, Known, Sent
  <2>2. \A r \in Requests : work[r].data.alert # a
    BY <1>1, AlertsAreRequests DEF Known, At, LockingInv
  <2> QED BY <1>2, <2>1, <2>2, DeliverersMove DEF SendsAgain
<1>3. p = home[a] /\ <<a, c, a>> \in delivered' \ delivered
  BY <1>2
<1>4. ~Stale(a, c)'
  <2>1. ~Shown(a)'
    BY <1>1 DEF Known, Shown
  <2>2. ASSUME NEW w \in writes', w.data.alert = a
        PROVE  w.data.results[c] = "ok"
    BY <1>1, <1>3, <2>2, WritesMove DEF NextWrite, Handed, Known, Pending
  <2> QED BY <2>1, <2>2 DEF Stale
<1>5. ASSUME NEW q \in Requests, work'[q].data.alert = a, home[q] # p
      PROVE  FALSE
  <2>1. At(a, home[q])' /\ home[q] \in Replicas
    BY <1>1, <1>5, AlertsAreRequests DEF At, LockingInv
  <2> QED BY <1>1, <1>3, <1>5, <2>1, AtMoves DEF Known, Shown
<1> QED BY <1>1, <1>2, <1>3, <1>4, <1>5 DEF Only

\* A replica that delivers an alert once more has the lease, and nobody else delivered it.
LEMMA NextIsOnly ==
    ASSUME LockingInv, ReplicaInv, Trusted, [Next]_vars, NEW a \in Requests, NEW c \in Channels,
           <<a, c>> \notin retracted, ~Deliver(a), NEW r \in Requests, SendsAgain(r, a, c)
    PROVE  Only(a, c, home[r])'
<1> USE DEF SendsAgain
<1>1. home' = home /\ Alone(r) /\ lease' = lease
  BY EndedStays, OthersRest DEF Redeliver, Resend, cloud, setting, LockingInv
<1>2. /\ pc[r] = "resending" /\ pc'[r] = "renewing"
      /\ work'[r].data = work[r].data /\ work'[r].owned = work[r].owned
  BY ResendOutcome DEF LockingInv, Types
<1>3. ASSUME NEW s, s \in (Deliverers(a, c) \ crashed)', s # home[r]
      PROVE  FALSE
  <2>1. ASSUME s \in Deliverers(a, c) \ crashed
        PROVE  FALSE
    <3>1. Only(a, c, s)
      BY <2>1 DEF ReplicaInv
    <3> QED BY <1>3, <3>1 DEF Only, Barred
  <2>2. PICK q \in Requests : s = home[q] /\ SendsAgain(q, a, c)
    <3> HIDE DEF SendsAgain
    <3> QED BY <1>3, <2>1, DeliverersMove
  <2>3. pc[q] = "resending" /\ pc'[q] = "renewing"
    BY <2>2, ResendOutcome DEF LockingInv, Types
  <2> QED BY <1>1, <1>3, <2>2, <2>3 DEF Alone
<1>4. Says(r, a, c, home[r])'
  BY <1>1, <1>2 DEF Says
<1>5. ASSUME NEW q \in Requests, work'[q].data.alert = a, home[q] # home[r], NEW P, P = {home[r]}
      PROVE  Barred(q, c, P)'
  <2>1. work'[q] = work[q]
    BY <1>1, <1>5 DEF Alone
  <2>2. lease[c] # None /\ home[lease[c]] = home[r]
    BY OwnsLease
  <2>3. c \notin work[q].owned
    BY <1>5, <2>2, OwnsLease
  <2> QED BY <1>1, <1>5, <2>1, <2>2, <2>3 DEF Barred, LeasedIn
<1>6. \A q \in Requests : work'[q].data.alert = a /\ home[q] # home[r] => Barred(q, c, {home[r]})'
  BY <1>1, <1>5 DEF Barred, LeasedIn
<1> QED BY <1>1, <1>3, <1>4, <1>6 DEF Only

\* A request of another replica that reads the entry takes no channel p has delivered to.
LEMMA ReaderBarred ==
    ASSUME LockingInv, WritesInv, PendingInv, ResultInv, AliveInv, ClaimedInv, [Next]_vars, Trusted',
           NEW a \in Requests, NEW c \in Channels, NEW p \in Deliverers(a, c), Only(a, c, p),
           NEW q \in Requests, ReadAnswer(q), work'[q].data.alert = a, home[q] # p, NEW P, P = {p}
    PROVE  Barred(q, c, P)'
<1>1. /\ Trusted /\ ~Faulty("storage") /\ home' = home /\ None \notin Requests
      /\ NoWork.data.alert = None
  BY AlertsAreRequests, TrustStays, EndedStays, DataTypes DEF LockingInv, setting, NoWork
<1>2. PICK data \in Data :
        /\ Proceed(q, data) /\ (work'[q] = NoWork \/ work'[q].data = data)
        /\ (data = stored /\ Present) \/ (data = work[q].data /\ (~Present \/ stored.status = "claiming"))
  BY <1>1, AnswerRead
<1>3. lease' = lease /\ data.alert = a
  BY <1>1, <1>2, AnswerRead
<1>4. CASE data = stored /\ Present
  <2>1. ASSUME data.results[c] # "ok"
        PROVE  LeasedIn(c, P)
    <3>1. PICK r \in Requests : Says(r, a, c, p)
      BY <1>3, <1>4, <2>1 DEF Only, Stale, Shown
    <3> QED BY <1>1, <3>1, OwnsLease DEF Says, LeasedIn
  <2> QED BY <1>1, <1>2, <1>3, <2>1, ReadBarred
<1>5. CASE data = work[q].data /\ (~Present \/ stored.status = "claiming")
  <2>1. At(a, home[q]) /\ home[q] \in Replicas
    BY <1>3, <1>5, AlertsAreRequests DEF At, LockingInv
  <2>2. home[q] = home[a] /\ Pending(a)
    BY <1>1, <1>5, <2>1 DEF AliveInv, Live, ClaimedInv
  <2>3. p = home[a]
    BY <2>2 DEF Deliverers, PendingInv
  <2> QED BY <2>2, <2>3
<1> QED BY <1>2, <1>4, <1>5

\* Once p alone has delivered to a channel the others do not.
LEMMA OnlyStays ==
    ASSUME Windows = {}, LockingInv, WritesInv, PendingInv, ResultInv, CachedInv, AliveInv, ClaimedInv, KeptInv,
           [Next]_vars, Trusted', NEW a \in Requests, NEW c \in Channels, <<a, c>> \notin retracted',
           ~Deliver(a), NEW p, p \in Deliverers(a, c) \ crashed, p \notin crashed', Only(a, c, p)
    PROVE  Only(a, c, p)'
<1>1. /\ Trusted /\ persistent /\ home' = home
      /\ None \notin Requests /\ None \notin Channels
      /\ NoWork.data.alert = None /\ Nothing.alert = None
  BY AlertsAreRequests, TrustStays, EndedStays, DataTypes DEF LockingInv, setting, Trusted, NoWork
<1>2. p \in Replicas
  BY DEF Deliverers, LockingInv, Types
<1>3. ASSUME NEW s, s \in (Deliverers(a, c) \ crashed)'
      PROVE  s = p
  <2>1. ASSUME NEW r \in Requests, s = home[r], SendsAgain(r, a, c)
        PROVE  s = p
    BY <2>1 DEF Only, Barred, SendsAgain
  <2>2. s \in Deliverers(a, c) \ crashed => s = p
    BY DEF Only
  <2> QED BY <1>3, <2>1, <2>2, DeliverersMove
<1>4. ASSUME Stale(a, c)'
      PROVE  \E r \in Requests : Says(r, a, c, p)'
  <2>1. PICK r \in Requests : Says(r, a, c, p)
    BY <1>4, StaleMoves DEF Only
  <2> QED BY <1>2, <1>4, <2>1, SaysStays
<1>5. ASSUME NEW q \in Requests, work'[q].data.alert = a, home[q] # p, NEW P, P = {p}
      PROVE  Barred(q, c, P)'
  <2>1. CASE ReadAnswer(q)
    BY <1>5, <2>1, ReaderBarred
  <2>2. CASE ~ReadAnswer(q) /\ work'[q].data = work[q].data
    <3>1. Barred(q, c, P)
      BY <1>5, <2>2 DEF Only
    <3> QED BY <1>5, <2>2, <3>1, BarredStays
  <2>3. CASE ~ReadAnswer(q) /\ work'[q].data # work[q].data
    <3>1. Resting(q)'
      BY <1>1, <1>5, <2>3, DataMoves DEF NextData
    <3> QED BY <1>1, <3>1 DEF Resting, Barred
  <2> QED BY <2>1, <2>2, <2>3
<1>6. \A q \in Requests : work'[q].data.alert = a /\ home[q] # p => Barred(q, c, {p})'
  BY <1>5 DEF Barred, LeasedIn
<1> QED BY <1>1, <1>3, <1>4, <1>6 DEF Only

LEMMA ReplicaStep ==
    ASSUME Windows = {}, LockingInv, WritesInv, KnownInv, PendingInv, ResultInv, CachedInv, AliveInv, ClaimedInv,
           KeptInv, ReplicaInv, [Next]_vars
    PROVE  ReplicaInv'
<1> SUFFICES ASSUME Trusted', NEW a \in Requests, NEW c \in Channels, <<a, c>> \notin retracted',
                    NEW p, p \in (Deliverers(a, c) \ crashed)'
             PROVE  Only(a, c, p)'
  BY DEF ReplicaInv, Only, Barred, LeasedIn, Says
<1>1. Trusted /\ <<a, c>> \notin retracted
  BY TrustStays, RetractedStays
<1>2. CASE Deliver(a)
  BY <1>2, FirstIsOnly
<1>3. CASE ~Deliver(a) /\ p \in Deliverers(a, c) \ crashed
  <2>1. Only(a, c, p)
    BY <1>1, <1>3 DEF ReplicaInv
  <2> QED BY <1>3, <2>1, OnlyStays
<1>4. ASSUME ~Deliver(a), NEW r \in Requests, p = home[r], SendsAgain(r, a, c)
      PROVE  Only(a, c, p)'
  <2>1. Only(a, c, home[r])'
    BY <1>1, <1>4, NextIsOnly
  <2>2. home'[r] = home[r]
    BY EndedStays DEF setting
  <2> QED BY <1>4, <2>1, <2>2 DEF Only, Barred, LeasedIn, Says
<1> QED BY <1>2, <1>3, <1>4, DeliverersMove

\* Where an alert is, what is known of it and who may still send it.
EntryInv ==
    /\ LockingInv /\ WritesInv /\ KnownInv /\ PendingInv /\ ResultInv /\ ApartInv /\ CachedInv
    /\ AliveInv /\ ClaimedInv /\ KeptInv /\ ShownInv

LEMMA InitEntry ==
    ASSUME Init
    PROVE  EntryInv /\ ReplicaInv
<1>1. LockingInv /\ WritesInv
  BY InitLocking, InitCounts
<1>2. /\ None \notin Requests /\ Nothing.alert = None /\ Nothing.status = "none" /\ NoWork.data = Nothing
  BY NewsDedupAssumption, DataTypes DEF NoWork
<1>3. /\ writes = {} /\ stored = Nothing /\ delivered = {} /\ ~Present
      /\ \A q \in Requests : pc[q] = "new" /\ work[q] = NoWork
      /\ \A p \in Replicas : local[p] = Nothing
  BY <1>2 DEF Init, Present
<1>4. \A a \in Requests : /\ ~Pending(a) /\ ~Shown(a) /\ ~Sent(a) /\ ~Known(a) /\ ~Live(a)
                          /\ \A p \in Replicas : ~At(a, p)
  BY <1>2, <1>3 DEF Pending, Shown, Sent, At, Known, Live
<1>5. \A a \in Requests, c \in Channels : Deliverers(a, c) = {}
  BY <1>3 DEF Deliverers
<1>6. KnownInv /\ PendingInv /\ ApartInv /\ AliveInv /\ ClaimedInv /\ ShownInv
  BY <1>3, <1>4 DEF KnownInv, PendingInv, ApartInv, AliveInv, ClaimedInv, ShownInv
<1>7. ResultInv /\ CachedInv /\ KeptInv
  BY <1>2, <1>3 DEF ResultInv, CachedInv, KeptInv
<1>8. ReplicaInv
  BY <1>5 DEF ReplicaInv
<1> QED BY <1>1, <1>6, <1>7, <1>8 DEF EntryInv

LEMMA NextEntry ==
    ASSUME "boundary" \notin Windows, EntryInv, [Next]_vars
    PROVE  EntryInv'
<1> USE DEF EntryInv
<1>1. LockingInv' /\ WritesInv'
  BY NextLocking, NextWrites
<1>2. KnownInv' /\ PendingInv' /\ ResultInv' /\ ApartInv'
  BY KnownStep, PendingStep, ResultStep, ApartStep
<1>3. CachedInv' /\ AliveInv' /\ ClaimedInv'
  BY CachedStep, AliveStep, ClaimedStep
<1>4. KeptInv' /\ ShownInv'
  BY KeptStep, ShownStep
<1> QED BY <1>1, <1>2, <1>3, <1>4

LEMMA EntryKeepsResults ==
    ASSUME EntryInv, [Next]_vars, NEW c \in Channels, Reliable, stored.results[c] = "ok",
           stored'.results[c] # "ok", stored.alert # None, stored'.alert = stored.alert
    PROVE  \E r \in Requests : /\ pc[r] = "recording" /\ pc'[r] # pc[r] /\ c \in work[r].kept
                               /\ home[r] \in Deliverers(stored.alert, c)
<1>1. PICK a \in Requests : a = stored.alert
  BY AlertsAreRequests DEF EntryInv, LockingInv, Data
<1>2. /\ None \notin Requests /\ Nothing.alert = None /\ Claimed.alert = None
      /\ NoResults[c] # "ok"
  BY NewsDedupAssumption, DataTypes DEF NoResults
<1>3. Trusted
  BY <1>1, <1>2 DEF EntryInv, ApartInv, Trusted
<1>4. ~ \E w \in writes : stored' = w.data
  BY <1>1 DEF EntryInv, PendingInv, Pending
<1>5. PICK r \in Requests : Recorded(r)
  BY <1>1, <1>2, <1>4, StoredMoves DEF NextStored, EntryInv
<1>6. Present /\ stored'.results = Overlay(stored.results, Delta(r), work[r].kept)
  BY <1>5, AlertsAreRequests DEF Recorded, EntryInv, LockingInv, Data
<1>7. c \in work[r].kept /\ work[r].kept \subseteq work[r].owned /\ pc[r] = "recording" /\ pc'[r] # pc[r]
  <2>1. pc[r] = "recording" /\ pc'[r] = "done"
    BY <1>5, RecordedOutcome, EndsOutcome DEF EntryInv, LockingInv
  <2>2. c \in work[r].kept
    BY <1>2, <1>6 DEF Overlay
  <2> QED BY <1>3, <2>1, <2>2 DEF EntryInv, KeptInv
<1>8. Shown(a) /\ Live(a)
  BY <1>1, <1>6 DEF Shown, Live
<1>9. work[r].data.alert = a
  BY <1>3, <1>7, <1>8, RecordsShown DEF EntryInv, Redeliveries
<1>10. home[r] \in Deliverers(a, c)
  BY <1>3, <1>7, <1>8, <1>9 DEF EntryInv, ShownInv, Barred, Shown
<1> QED BY <1>1, <1>7, <1>10

\* A delivery recorded in Firestore is not lost from it while the entry is that of the
\* same alert, unless the replica that made it sends once more: mergeDeliveryData only
\* replaces results of channels whose lease the recording request has, and while leases
\* can be relied on no other replica gets the lease of a channel that has been reached.
\* The TTL passing under a request that has read the entry is set aside.
THEOREM RecordsAreKept ==
    ASSUME "boundary" \notin Windows
    PROVE  Spec => ResultsKept
<1> DEFINE Kept == \A c \in Channels :
                     /\ Reliable /\ stored.results[c] = "ok" /\ stored'.results[c] # "ok"
                     /\ stored.alert # None /\ stored'.alert = stored.alert
                     => \E r \in Requests : /\ pc[r] = "recording" /\ pc'[r] # pc[r] /\ c \in work[r].kept
                                            /\ home[r] \in Deliverers(stored.alert, c)
<1>1. Init => EntryInv
  BY InitEntry
<1>2. EntryInv /\ [Next]_vars => EntryInv'
  BY NextEntry
<1>3. EntryInv /\ [Next]_vars => [Kept]_vars
  BY EntryKeepsResults
<1> QED BY <1>1, <1>2, <1>3, PTL DEF Spec, ResultsKept

LEMMA OneDeliverer ==
    ASSUME EntryInv, ReplicaInv
    PROVE  OneReplica
<1> SUFFICES ASSUME Reliable, NEW a \in Requests, NEW c \in Channels, <<a, c>> \notin retracted
             PROVE  Cardinality(Deliverers(a, c) \ crashed) <= 1
  BY DEF OneReplica
<1> DEFINE D == Deliverers(a, c) \ crashed
<1>1. \A s, p \in D : s = p
  <2>1. CASE persistent
    BY <2>1 DEF ReplicaInv, Only, Trusted
  <2>2. CASE ~persistent
    BY <2>2 DEF EntryInv, ApartInv, Deliverers
  <2> QED BY <2>1, <2>2
<1>2. CASE D = {}
  BY <1>2, FS_EmptySet
<1>3. ASSUME NEW p \in D
      PROVE  Cardinality(D) <= 1
  <2>1. D = {p}
    BY <1>1, <1>3
  <2>2. Cardinality({p}) = 1
    BY FS_Singleton
  <2> HIDE DEF D
  <2> QED BY <2>1, <2>2
<1> QED BY <1>2, <1>3

\* While leases can be relied on two replicas do not both deliver an alert to the same
\* channel, unless one of them crashed before it could say so, or sent it once more,
\* failed, and recorded that instead.  The two narrow races of Windows are set aside:
\* with either of them it does not hold.
THEOREM DeliversFromOneReplica ==
    ASSUME Windows = {}
    PROVE  Spec => []OneReplica
<1>1. Init => EntryInv /\ ReplicaInv
  BY InitEntry
<1>2. EntryInv /\ ReplicaInv /\ [Next]_vars => (EntryInv /\ ReplicaInv)'
  <2> SUFFICES ASSUME EntryInv, ReplicaInv, [Next]_vars
               PROVE  EntryInv' /\ ReplicaInv'
    OBVIOUS
  <2>1. EntryInv'
    BY NextEntry
  <2>2. ReplicaInv'
    BY ReplicaStep DEF EntryInv
  <2> QED BY <2>1, <2>2
<1>3. EntryInv /\ ReplicaInv => OneReplica
  BY OneDeliverer
<1> QED BY <1>1, <1>2, <1>3, PTL DEF Spec
==============================================================================
