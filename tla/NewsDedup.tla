------------------------------- MODULE NewsDedup -------------------------------
(***************************************************************************)
(* One deduplication key (symbol, event category) of the news monitor: the *)
(* analyses that may produce its alert (NewsAnalyzer.analyzeSymbolInternal)*)
(* the NewsCache of every replica and, when persistent, the Firestore      *)
(* entry and the delivery leases they share (NewsDedupStorageService).     *)
(*                                                                         *)
(* An alert is identified with the request that produced it.  A request    *)
(* that is answered TIMEOUT goes on all the same: answers are not modelled.*)
(* Every request sends to the same destination of a channel.  Without      *)
(* persistence a whole chain of awaits is one step: nothing it awaits      *)
(* leaves the process.                                                     *)
(***************************************************************************)
EXTENDS Naturals, FiniteSets, FiniteSetsExt

CONSTANTS
    Requests,    \* analyses of the symbol that are not dry runs
    Replicas,    \* web processes
    Channels,    \* telegram, whatsapp, discord
    None,        \* no request, no channel
    Modes,       \* the values persistent deduplication may have
    FaultKinds,  \* the faults that happen: see Faulty
    MaxFaults,   \* bound: how many of them
    MaxLapses,   \* bound: how often NEWS_CACHE_TTL_HOURS passes
    Windows      \* the narrow races that happen: a detached write that lands after a
                 \* redelivery of the same alert ("late_write"), the TTL passing under a
                 \* request that has read the entry ("boundary")

ASSUME NewsDedupAssumption ==
    /\ None \notin Requests \cup Channels
    /\ Modes \subseteq BOOLEAN
    /\ FaultKinds \subseteq {"storage", "crash", "slow"}
    /\ MaxFaults \in Nat /\ MaxLapses \in Nat
    /\ Windows \subseteq {"late_write", "boundary"}

VARIABLES
    persistent,   \* ENABLE_NEWS_MONITOR_PERSISTENT_DEDUP, and Firestore is ready
    home, wants,  \* per request: its replica, the channels of its routing
    pc,           \* per request: the await it is at
    work,         \* per request: the cached data it read, its leases and results
    local,        \* per replica: the live entry of the key in NewsCache.cache
    locks,        \* per replica and channel: NewsCache.deliveryLocks
    stored,       \* the document news-monitor-dedup/<key>
    expired,      \* its expiresAt has passed
    lease,        \* per channel: the token of the live lease document
    writes,       \* setEntry calls that have not landed
    alerted,      \* requests that claimed the key
    delivered,    \* <<alert, channel, request>> of every successful delivery
    retracted,    \* <<alert, channel>> whose recorded delivery a failed one has replaced
    crashed,      \* replicas that have lost their memory
    faults, lapses

setting == <<persistent, home, wants>>
cloud   == <<stored, expired, lease, writes>>
ghosts  == <<alerted, delivered, retracted, crashed>>
vars == <<setting, pc, work, local, locks, cloud, ghosts, faults, lapses>>

Results == [Channels -> {"none", "ok", "failed"}]

\* The data of an entry; status "none" is no entry, alert None an analysis without
\* an alert, results with "none" only an absent deliveryResults.
Data == [status : {"none", "claiming", "final"}, alert : Requests \cup {None},
         results : Results]

NoResults == [c \in Channels |-> "none"]
Nothing   == [status |-> "none", alert |-> None, results |-> NoResults]
Claimed   == [Nothing EXCEPT !.status = "claiming"]

Lock == [active : BOOLEAN, token : Requests \cup {None}, live : BOOLEAN]
NoLock == [active |-> FALSE, token |-> None, live |-> FALSE]

Work == [data : Data, todo : SUBSET Channels, trying : Channels \cup {None},
         owned : SUBSET Channels, kept : SUBSET Channels, results : Results]

NoWork == [data |-> Nothing, todo |-> {}, trying |-> None, owned |-> {}, kept |-> {},
           results |-> NoResults]

Steps == {"new", "reading", "analysing", "claiming", "rereading", "sending", "leasing",
          "resending", "renewing", "recording", "done", "lost"}

Types ==
    /\ persistent \in Modes
    /\ home \in [Requests -> Replicas] /\ wants \in [Requests -> SUBSET Channels]
    /\ pc \in [Requests -> Steps] /\ work \in [Requests -> Work]
    /\ local \in [Replicas -> Data] /\ locks \in [Replicas -> [Channels -> Lock]]
    /\ stored \in Data /\ expired \in BOOLEAN
    /\ lease \in [Channels -> Requests \cup {None}]
    /\ writes \subseteq [owner : Requests, data : Data]
    /\ alerted \subseteq Requests /\ crashed \subseteq Replicas
    /\ delivered \subseteq Requests \X Channels \X Requests
    /\ retracted \subseteq (Requests \cup {None}) \X Channels
    /\ faults \in [FaultKinds -> Nat] /\ lapses \in 0..MaxLapses

\* A channel is locked only by a request that claims or redelivers it.
LocksHeld == \A p \in Replicas, c \in Channels : locks[p][c].active =>
                 \E r \in Requests : home[r] = p /\ c \in work[r].owned \cup {work[r].trying}

TypeOK == Types /\ LocksHeld

Init ==
    /\ persistent \in Modes
    /\ home \in [Requests -> Replicas]
    /\ wants \in [Requests -> (SUBSET Channels) \ {{}}]
    /\ pc = [r \in Requests |-> "new"] /\ work = [r \in Requests |-> NoWork]
    /\ local = [p \in Replicas |-> Nothing]
    /\ locks = [p \in Replicas |-> [c \in Channels |-> NoLock]]
    /\ stored = Nothing /\ expired = FALSE
    /\ lease = [c \in Channels |-> None] /\ writes = {}
    /\ alerted = {} /\ delivered = {} /\ retracted = {} /\ crashed = {}
    /\ faults = [k \in FaultKinds |-> 0] /\ lapses = 0

Faulty(kind) ==
    /\ kind \in FaultKinds
    /\ MapThenSumSet(LAMBDA k : faults[k], FaultKinds) < MaxFaults
    /\ faults' = [faults EXCEPT ![kind] = @ + 1]

Present == stored.status # "none" /\ ~expired

Goes(r, step) == pc' = [pc EXCEPT ![r] = step]
Ends(r)       == Goes(r, "done") /\ work' = [work EXCEPT ![r] = NoWork]
Keep(p, data) == local' = [local EXCEPT ![p] = data]

-----------------------------------------------------------------------------
(* Redelivery of a cached alert: claimDelivery of one channel after another. *)

\* claimDelivery answers at once: the channel is being sent to, a lease of this
\* process is still live, or there is no Firestore to ask.
Immediate(lock) == lock.active \/ lock.live \/ ~persistent

Grab(r, lock) == [active |-> TRUE, token |-> IF lock.live THEN lock.token ELSE r,
                  live |-> lock.live]

\* From here r claims the channels of todo in some order, until one has to be
\* asked for in Firestore or all are decided; L are the locks of its replica.
Leases(r, data, L, todo, owned) ==
    \E now \in SUBSET todo, next \in todo \cup {None} :
      LET mine == {c \in now : ~L[c].active} IN
      /\ \A c \in now : Immediate(L[c])
      /\ IF next = None THEN now = todo ELSE next \notin now /\ ~Immediate(L[next])
      /\ locks' = [locks EXCEPT ![home[r]] =
                     [c \in Channels |-> IF c \in mine \cup {next} THEN Grab(r, L[c]) ELSE L[c]]]
      /\ IF next = None /\ owned \cup mine = {}
         THEN Ends(r)
         ELSE /\ Goes(r, IF next = None THEN "resending" ELSE "leasing")
              /\ work' = [work EXCEPT ![r] = [NoWork EXCEPT !.data = data,
                            !.todo = todo \ (now \cup {next}), !.trying = next,
                            !.owned = owned \cup mine]]

\* Mutant: channels that were reached are sent to again.
ProceedAnyChannel(r, data) ==
    IF data.status = "none"
    THEN Goes(r, "analysing") /\ work' = [work EXCEPT ![r] = NoWork] /\ UNCHANGED locks
    ELSE IF data.alert = None
    THEN Ends(r) /\ UNCHANGED locks
    ELSE Leases(r, data, locks[home[r]], wants[r], {})

\* What r does with the result of get.
Proceed(r, data) ==
    IF data.status = "none"
    THEN Goes(r, "analysing") /\ work' = [work EXCEPT ![r] = NoWork] /\ UNCHANGED locks
    ELSE IF data.alert = None
    THEN Ends(r) /\ UNCHANGED locks
    ELSE Leases(r, data, locks[home[r]], {c \in wants[r] : data.results[c] # "ok"}, {})

-----------------------------------------------------------------------------
(* NewsCache.get.                                                           *)

Read(r) ==
    /\ pc[r] = "new"
    /\ IF persistent
       THEN /\ Goes(r, "reading")
            /\ work' = [work EXCEPT ![r].data = local[home[r]]]
            /\ UNCHANGED locks
       ELSE Proceed(r, local[home[r]])
    /\ UNCHANGED <<setting, local, cloud, ghosts, faults, lapses>>

\* What the document makes of the local data r has read.
Prefers(seen) ==
    IF ~Present \/ (seen.status = "final" /\ stored.status = "claiming") THEN seen ELSE stored

\* An expired document is deleted.  The request does not wait for the deletion, which
\* is taken to land before anybody claims the key again: see the README.
Clean ==
    IF stored.status # "none" /\ expired
    THEN stored' = Nothing /\ expired' = FALSE
    ELSE UNCHANGED <<stored, expired>>

\* The answer of Firestore to get, which warms the local cache.
Fetch(r, data) ==
    \/ /\ data = Prefers(work[r].data)
       /\ IF Present /\ data = stored THEN Keep(home[r], stored) ELSE UNCHANGED local
       /\ Clean /\ UNCHANGED faults
    \/ /\ data = work[r].data /\ Faulty("storage")
       /\ UNCHANGED <<local, stored, expired>>

ReadAnswer(r) ==
    /\ pc[r] = "reading"
    /\ \E data \in {work[r].data, stored} : Fetch(r, data) /\ Proceed(r, data)
    /\ UNCHANGED <<setting, lease, writes, ghosts, lapses>>

\* The get of a request whose claim was refused: it only reports what is cached.
RereadAnswer(r) ==
    /\ pc[r] = "rereading"
    /\ \E data \in {work[r].data, stored} : Fetch(r, data)
    /\ Ends(r)
    /\ UNCHANGED <<setting, locks, lease, writes, ghosts, lapses>>

-----------------------------------------------------------------------------
(* The analysis, and NewsCache.claim.                                       *)

\* set, without preserveTtl: this process at once, Firestore in the background.
SetFinal(r, data) ==
    /\ Keep(home[r], data)
    /\ writes' = IF persistent THEN writes \cup {[owner |-> r, data |-> data]} ELSE writes
    /\ UNCHANGED <<stored, expired, lease>>

\* Below the threshold: cached without a claim.
Quiet(r) ==
    /\ pc[r] = "analysing"
    /\ SetFinal(r, [Nothing EXCEPT !.status = "final"])
    /\ Ends(r)
    /\ UNCHANGED <<setting, locks, ghosts, faults, lapses>>

\* Another category, an error, or an enrichment that lowers the confidence.
Elsewhere(r) ==
    /\ pc[r] = "analysing" /\ Ends(r)
    /\ UNCHANGED <<setting, local, locks, cloud, ghosts, faults, lapses>>

Refused(r) ==
    IF persistent
    THEN Goes(r, "rereading") /\ work' = [work EXCEPT ![r].data = local[home[r]]]
    ELSE Ends(r)

Wins(r) ==
    /\ Keep(home[r], Claimed)
    /\ Goes(r, "sending") /\ alerted' = alerted \cup {r}
    /\ UNCHANGED work

ClaimKey(r) ==
    /\ pc[r] = "analysing"
    /\ \/ local[home[r]] # Nothing /\ Refused(r) /\ UNCHANGED <<local, alerted>>
       \/ local[home[r]] = Nothing /\ persistent /\ Goes(r, "claiming")
          /\ UNCHANGED <<work, local, alerted>>
       \/ local[home[r]] = Nothing /\ ~persistent /\ Wins(r)
    /\ UNCHANGED <<setting, locks, cloud, delivered, retracted, crashed, faults, lapses>>

\* Mutant: claimEntry looks first and writes afterwards whatever it saw.
ClaimBlindly(r) ==
    /\ pc[r] = "claiming" /\ Wins(r)
    /\ stored' = Claimed /\ expired' = FALSE
    /\ UNCHANGED <<setting, locks, lease, writes, delivered, retracted, crashed, faults, lapses>>

\* The transaction of claimEntry; an error counts as a claim.
ClaimAnswer(r) ==
    /\ pc[r] = "claiming"
    /\ \/ Present /\ Refused(r) /\ UNCHANGED <<local, alerted, stored, expired, faults>>
       \/ ~Present /\ Wins(r) /\ stored' = Claimed /\ expired' = FALSE /\ UNCHANGED faults
       \/ /\ Faulty("storage") /\ Wins(r)
          /\ \/ UNCHANGED <<stored, expired>>
             \/ ~Present /\ stored' = Claimed /\ expired' = FALSE
    /\ UNCHANGED <<setting, locks, lease, writes, delivered, retracted, crashed, lapses>>

\* All channels of the routing at once, and the final set.
Deliver(r) ==
    /\ pc[r] = "sending"
    /\ \E reached \in SUBSET wants[r] :
         /\ SetFinal(r, [status |-> "final", alert |-> r,
                         results |-> [c \in Channels |-> CASE c \in reached  -> "ok"
                                                           [] c \in wants[r] \ reached -> "failed"
                                                           [] OTHER -> "none"]])
         /\ delivered' = delivered \cup {<<r, c, r>> : c \in reached}
    /\ Ends(r)
    /\ UNCHANGED <<setting, locks, alerted, retracted, crashed, faults, lapses>>

\* A background write lands, or fails and is only logged.
Store(w) ==
    /\ w \in writes /\ writes' = writes \ {w}
    /\ \/ stored' = w.data /\ expired' = FALSE /\ UNCHANGED faults
       \/ Faulty("storage") /\ UNCHANGED <<stored, expired>>
    /\ UNCHANGED <<setting, pc, work, local, locks, lease, ghosts, lapses>>

-----------------------------------------------------------------------------
(* Redelivery: leases, send, renewal, record, release.                      *)

\* Mutant: the lease document is written whatever it holds.
LeaseBlindly(r) ==
    LET p == home[r]  c == work[r].trying IN
    /\ pc[r] = "leasing" /\ lease' = [lease EXCEPT ![c] = r]
    /\ Leases(r, work[r].data, [locks[p] EXCEPT ![c].live = TRUE], work[r].todo,
              work[r].owned \cup {c})
    /\ UNCHANGED <<setting, local, stored, expired, writes, ghosts, faults, lapses>>

\* The transaction of claimEntry on the lease document; an error counts as a claim.
LeaseAnswer(r) ==
    LET p == home[r]  c == work[r].trying
        granted == Leases(r, work[r].data, [locks[p] EXCEPT ![c].live = TRUE],
                          work[r].todo, work[r].owned \cup {c})
        refused == Leases(r, work[r].data, [locks[p] EXCEPT ![c] = NoLock],
                          work[r].todo, work[r].owned)
        take    == lease' = [lease EXCEPT ![c] = r]
    IN
    /\ pc[r] = "leasing"
    /\ \/ lease[c] = None /\ take /\ granted /\ UNCHANGED faults
       \/ lease[c] # None /\ refused /\ UNCHANGED <<lease, faults>>
       \/ /\ Faulty("storage") /\ granted
          /\ UNCHANGED lease \/ (lease[c] = None /\ take)
    /\ UNCHANGED <<setting, local, stored, expired, writes, ghosts, lapses>>

Resend(r) ==
    /\ pc[r] = "resending"
    /\ \E reached \in SUBSET work[r].owned :
         /\ work' = [work EXCEPT ![r].results = [c \in Channels |->
                       CASE c \in reached -> "ok"
                         [] c \in work[r].owned \ reached -> "failed"
                         [] OTHER -> "none"]]
         /\ delivered' = delivered \cup {<<work[r].data.alert, c, r>> : c \in reached}
    /\ Goes(r, "renewing")
    /\ UNCHANGED <<setting, local, locks, cloud, alerted, retracted, crashed, faults, lapses>>

Release(r) ==
    LET p == home[r] IN
    locks' = [locks EXCEPT ![p] = [c \in Channels |->
                IF c \notin work[r].owned THEN locks[p][c]
                ELSE IF locks[p][c].live THEN [locks[p][c] EXCEPT !.active = FALSE]
                ELSE NoLock]]

\* The last renewal of every lease; an error leaves the ownership as it was.
StillHeld(r) == {c \in work[r].owned : locks[home[r]][c].live /\ lease[c] = locks[home[r]][c].token}

Unexpired(r) == {c \in work[r].owned : locks[home[r]][c].live}

\* mergeDeliveryResults: what the request reports and caches for its channels.
Merged(r, kept) == [c \in Channels |-> IF c \in kept THEN work[r].results[c]
                                       ELSE IF c \in wants[r] THEN work[r].data.results[c]
                                       ELSE "none"]

\* mergeDeliveryData: of old results, those of the claimed channels are replaced.
Overlay(old, new, kept) ==
    [c \in Channels |-> IF old = NoResults \/ c \in kept THEN new[c] ELSE old[c]]

\* set with preserveTtl: nothing without a live entry.
SetResults(r, kept) ==
    LET old == local[home[r]]  read == work[r].data IN
    Keep(home[r], [status  |-> IF "claiming" \in {old.status, read.status} THEN "claiming" ELSE "final",
                   alert   |-> read.alert,
                   results |-> Overlay(old.results, Merged(r, kept), kept)])

Renewed(r) ==
    /\ pc[r] = "renewing"
    /\ \E kept \in SUBSET work[r].owned :
         /\ \/ ~persistent /\ kept = work[r].owned /\ UNCHANGED faults
            \/ persistent /\ kept = StillHeld(r) /\ UNCHANGED faults
            \/ persistent /\ kept = Unexpired(r) /\ Faulty("storage")
         /\ IF kept = {} \/ local[home[r]] = Nothing
            THEN Ends(r) /\ Release(r) /\ UNCHANGED local
            ELSE /\ SetResults(r, kept)
                 /\ IF persistent
                    THEN /\ Goes(r, "recording") /\ UNCHANGED locks
                         /\ work' = [work EXCEPT ![r].kept = kept]
                    ELSE Ends(r) /\ Release(r)
    /\ UNCHANGED <<setting, cloud, ghosts, lapses>>

\* The results of the claimed channels, as getDeliveryDelta passes them on.
Delta(r) == [c \in Channels |-> IF c \in work[r].kept THEN work[r].results[c] ELSE "none"]

\* Mutant: the whole entry is written as the request has it.
RecordedWhole(r) ==
    /\ pc[r] = "recording"
    /\ stored' = IF Present THEN [stored EXCEPT !.results = Merged(r, work[r].kept)] ELSE stored
    /\ Release(r) /\ Ends(r)
    /\ UNCHANGED <<setting, local, expired, lease, writes, ghosts, faults, lapses>>

\* updateEntry, awaited; then the local part of the leases is released.
Recorded(r) ==
    LET merge == IF Present
                 THEN stored' = [stored EXCEPT !.results =
                                   Overlay(stored.results, Delta(r), work[r].kept)]
                 ELSE UNCHANGED stored
    IN
    /\ pc[r] = "recording"
    /\ "late_write" \in Windows \/ \A w \in writes : w.data.alert # work[r].data.alert
    /\ \/ merge /\ UNCHANGED faults
       \/ Faulty("storage") /\ (UNCHANGED stored \/ merge)
    /\ retracted' = retracted \cup {<<stored.alert, c>> : c \in
                       {x \in Channels : stored.results[x] = "ok" /\ stored'.results[x] # "ok"}}
    /\ Release(r) /\ Ends(r)
    /\ UNCHANGED <<setting, local, expired, lease, writes, alerted, delivered, crashed, lapses>>

-----------------------------------------------------------------------------
(* Time and crashes.                                                        *)

Redelivering(r, c) ==
    pc[r] \in {"leasing", "resending", "renewing", "recording"} /\ c \in work[r].owned

\* DELIVERY_LOCK_TTL_MS passes since the last renewal.  No request takes that long
\* from its get to its last claim; a delivery that does, in spite of the renewals
\* every DELIVERY_LOCK_RENEW_INTERVAL_MS, is slow.
LeaseExpires(c) ==
    /\ lease[c] # None \/ \E p \in Replicas : locks[p][c].live
    /\ \A r \in Requests : pc[r] # "reading" /\ c \notin work[r].todo \cup {work[r].trying}
    /\ IF \E r \in Requests : Redelivering(r, c) THEN Faulty("slow") ELSE UNCHANGED faults
    /\ lease' = [lease EXCEPT ![c] = None]
    /\ locks' = [p \in Replicas |-> [locks[p] EXCEPT ![c] =
                   IF locks[p][c].active THEN [locks[p][c] EXCEPT !.live = FALSE] ELSE NoLock]]
    /\ UNCHANGED <<setting, pc, work, local, stored, expired, writes, ghosts, lapses>>

\* NEWS_CACHE_TTL_HOURS pass, which no first delivery takes.  The boundary may fall
\* into the two lookups of a get or into a redelivery.
Lapse ==
    /\ lapses < MaxLapses /\ lapses' = lapses + 1
    /\ writes = {} /\ \A r \in Requests : pc[r] # "sending"
    /\ "boundary" \in Windows \/ \A r \in Requests : pc[r] # "reading" /\ work[r].data = Nothing
    /\ local' = [p \in Replicas |-> Nothing]
    /\ expired' = (stored.status # "none")
    /\ UNCHANGED <<setting, pc, work, locks, stored, lease, writes, ghosts, faults>>

\* What the requests of R may have sent when they are cut off before the final set.
CutOff(R) == {<<r, c, r>> : r \in {q \in R : pc[q] = "sending"}, c \in Channels}

Crash(p) ==
    LET R == {r \in Requests : home[r] = p /\ pc[r] \notin {"new", "done", "lost"}} IN
    /\ R # {} \/ local[p] # Nothing
    /\ Faulty("crash")
    /\ pc' = [r \in Requests |-> IF r \in R THEN "lost" ELSE pc[r]]
    /\ work' = [r \in Requests |-> IF r \in R THEN NoWork ELSE work[r]]
    /\ Keep(p, Nothing)
    /\ locks' = [locks EXCEPT ![p] = [c \in Channels |-> NoLock]]
    /\ writes' = {w \in writes : home[w.owner] # p}
    /\ crashed' = crashed \cup {p}
    /\ \E sent \in SUBSET {d \in CutOff(R) : d[2] \in wants[d[1]]} :
         delivered' = delivered \cup sent
    /\ UNCHANGED <<setting, stored, expired, lease, alerted, retracted, lapses>>

-----------------------------------------------------------------------------
Analyse(r) == Quiet(r) \/ Elsewhere(r) \/ ClaimKey(r) \/ ClaimAnswer(r) \/ Deliver(r)

Redeliver(r) == LeaseAnswer(r) \/ Resend(r) \/ Renewed(r) \/ Recorded(r)

Next ==
    \/ \E r \in Requests : Read(r) \/ ReadAnswer(r) \/ RereadAnswer(r) \/ Analyse(r) \/ Redeliver(r)
    \/ \E w \in writes : Store(w)
    \/ \E c \in Channels : LeaseExpires(c)
    \/ \E p \in Replicas : Crash(p)
    \/ Lapse

Spec == Init /\ [][Next]_vars

-----------------------------------------------------------------------------
(* Properties                                                               *)

\* How often a fault of a kind has happened.
Had(kind) == IF kind \in FaultKinds THEN faults[kind] ELSE 0

\* An alert is produced once per TTL, by one replica of all when deduplication is
\* persistent, by each replica otherwise; every error of Firestore, which lets a
\* request through, costs at most one more.
AlertOnce ==
    LET bound == 1 + lapses + Had("storage") IN
    IF persistent THEN Cardinality(alerted) <= bound
    ELSE \A p \in Replicas \ crashed : Cardinality({r \in alerted : home[r] = p}) <= bound

\* Leases can be relied on: Firestore has answered, no delivery outlived its lease.
Reliable == Had("storage") = 0 /\ Had("slow") = 0

\* Two requests never redeliver to the same channel at the same time: not in one
\* process, whatever happens, and not in two while leases can be relied on.
OneSender ==
    \A c \in Channels : \A r, q \in Requests :
      /\ pc[r] = "resending" /\ c \in work[r].owned
      /\ pc[q] = "resending" /\ c \in work[q].owned
      /\ home[r] = home[q] \/ (persistent /\ Reliable)
      => r = q

\* The replicas that delivered the alert a to the channel c.
Deliverers(a, c) == {home[d[3]] : d \in {e \in delivered : e[1] = a /\ e[2] = c}}

\* Two replicas do not both deliver an alert to the same channel, unless one of them
\* crashed before it could say so, or sent it once more, failed, and said that instead.
OneReplica ==
    Reliable => \A a \in Requests, c \in Channels :
      <<a, c>> \notin retracted => Cardinality(Deliverers(a, c) \ crashed) <= 1

\* A delivery recorded in Firestore is not lost from it while the entry is that of
\* the same alert, unless the replica that made it sends once more.
ResultsKept ==
    [][\A c \in Channels :
         /\ Reliable /\ stored.results[c] = "ok" /\ stored'.results[c] # "ok"
         /\ stored.alert # None /\ stored'.alert = stored.alert
         => \E r \in Requests : /\ pc[r] = "recording" /\ pc'[r] # pc[r] /\ c \in work[r].kept
                                /\ home[r] \in Deliverers(stored.alert, c)]_vars

\* A channel gets an alert once, as long as nothing fails: "Local leases suppress
\* same-process races" (cache.js:314) and the persistent ones those of two replicas.
DeliveredOnce ==
    Reliable /\ crashed = {} => \A d, e \in delivered : d[1] = e[1] /\ d[2] = e[2] => d = e
=============================================================================
