--------------------------- MODULE ProvidersProofs ---------------------------
(***************************************************************************)
(* What holds towards the providers, for every number of requests,         *)
(* attempts, orders and lost calls: how often a part of a message arrives  *)
(* and that an abort stops its delivery, what placeOrder promises, how old *)
(* a remote value in use may be, and that with one evaluating process an   *)
(* outcome that was found stays.                                           *)
(***************************************************************************)
EXTENDS Notifications, BinanceOrders, RemoteConfig, SignalOutcomes, FiniteSetTheorems,
        WellFoundedInduction, TLAPS

-----------------------------------------------------------------------------
(* Notifications.                                                           *)

Sends == [pc : {"out", "ready", "asked", "done"}, parts : 0..MaxParts, part : 1..MaxParts,
          tries : Nat, result : {"none", "success", "failed", "aborted"}]
Counts == [Channels -> [1..MaxParts -> Nat]]

SendTypes ==
  /\ sending \in [Channels -> Sends]
  /\ delivered \in Counts /\ doubts \in Counts
  /\ aborted \in BOOLEAN /\ enabled \subseteq Channels

\* A part arrives once more than its requests left in doubt at most, and the part a channel
\* is at, like those behind it, does not arrive at all but in a request left in doubt.
PartInv(c) ==
  \A k \in 1..MaxParts :
    /\ delivered[c][k] <= doubts[c][k] + 1
    /\ k > sending[c].part \/ (k = sending[c].part /\ sending[c].pc # "done") =>
         delivered[c][k] <= doubts[c][k]

SendInv ==
  /\ SendTypes
  /\ \A c \in Channels : PartInv(c) /\ (sending[c].pc = "out" => sending[c].part = 1)

-----------------------------------------------------------------------------
LEMMA Bounds == MaxParts \in Nat /\ MaxParts >= 1 /\ WhatsAppTries \in Nat /\ DiscordRetries \in Nat
BY NotificationAssumption

LEMMA NotRoutedType == NotRouted \in Sends
<1>1. 0 \in 0..MaxParts /\ 1 \in 1..MaxParts
  BY Bounds
<1> QED BY <1>1 DEF NotRouted, Sends

LEMMA SendInvInit == NotificationInit => SendInv
<1> SUFFICES ASSUME NotificationInit PROVE SendInv
  OBVIOUS
<1>1. sending \in [Channels -> Sends] /\ \A c \in Channels : sending[c] = NotRouted
  BY NotRoutedType DEF NotificationInit
<1>2. /\ delivered \in Counts /\ doubts \in Counts
      /\ \A c \in Channels, k \in 1..MaxParts : delivered[c][k] = 0 /\ doubts[c][k] = 0
  BY DEF NotificationInit, Counts
<1>3. aborted \in BOOLEAN /\ enabled \subseteq Channels
  BY DEF NotificationInit
<1>4. \A c \in Channels : sending[c].part = 1
  BY <1>1 DEF NotRouted
<1>5. \A c \in Channels : PartInv(c)
  BY <1>2 DEF PartInv
<1> QED BY <1>1, <1>2, <1>3, <1>4, <1>5 DEF SendInv, SendTypes

\* How a failed request goes on: with the same part, or not at all.
LEMMA GoesOnType ==
    ASSUME NEW c \in Channels, NEW kind, NEW next \in GoesOn(c, kind)
    PROVE  next \in {"again", "failed", "aborted"}
BY DEF GoesOn, Channels, TelegramGoesOn, WhatsAppGoesOn, DiscordGoesOn

LEMMA ThenType ==
    ASSUME NEW c \in Channels, sending \in [Channels -> Sends], NEW next \in {"again", "failed", "aborted"}
    PROVE  /\ Then(c, next) \in Sends
           /\ Then(c, next).part = sending[c].part
           /\ Then(c, next).pc \in {"ready", "done"}
<1>1. sending[c] \in Sends /\ sending[c].tries + 1 \in Nat
  BY DEF Sends
<1>2. CASE next = "again"
  <2>1. Then(c, next) = [sending[c] EXCEPT !.pc = "ready", !.tries = @ + 1]
    BY <1>2 DEF Then, Again
  <2> QED BY <1>1, <2>1 DEF Sends
<1>3. CASE next # "again"
  <2>1. Then(c, next) = [sending[c] EXCEPT !.pc = "done", !.result = next]
    BY <1>3 DEF Then, End
  <2>2. next \in {"none", "success", "failed", "aborted"}
    BY <1>3
  <2> QED BY <1>1, <2>1, <2>2 DEF Sends
<1> QED BY <1>2, <1>3

\* One channel moves: its new record is s.
LEMMA ChannelStep ==
    ASSUME SendInv, NEW c \in Channels, NEW s \in Sends, sending' = [sending EXCEPT ![c] = s],
           s.pc # "out", delivered' \in Counts, doubts' \in Counts, UNCHANGED <<aborted, enabled>>,
           \A b \in Channels : b # c => delivered'[b] = delivered[b] /\ doubts'[b] = doubts[b],
           \A k \in 1..MaxParts :
             /\ delivered'[c][k] <= doubts'[c][k] + 1
             /\ k > s.part \/ (k = s.part /\ s.pc # "done") => delivered'[c][k] <= doubts'[c][k]
    PROVE  SendInv'
<1>1. /\ sending' \in [Channels -> Sends] /\ sending'[c] = s
      /\ \A b \in Channels : b # c => sending'[b] = sending[b]
  BY DEF SendInv, SendTypes
<1>2. ASSUME NEW b \in Channels
      PROVE  PartInv(b)' /\ (sending'[b].pc = "out" => sending'[b].part = 1)
  <2>1. CASE b = c
    BY <1>1, <2>1 DEF PartInv
  <2>2. CASE b # c
    BY <1>1, <2>2 DEF SendInv, PartInv
  <2> QED BY <2>1, <2>2
<1> QED BY <1>1, <1>2 DEF SendInv, SendTypes

\* Nothing arrived, nothing new is in doubt, and the channel is at the part it was at.
LEMMA SamePartStep ==
    ASSUME SendInv, NEW c \in Channels, NEW s \in Sends, sending' = [sending EXCEPT ![c] = s],
           sending[c].pc # "done", s.pc # "out", s.part = sending[c].part,
           UNCHANGED <<delivered, doubts, aborted, enabled>>
    PROVE  SendInv'
<1>1. delivered' \in Counts /\ doubts' \in Counts
  BY DEF SendInv, SendTypes
<1>2. \A k \in 1..MaxParts :
        /\ delivered'[c][k] <= doubts'[c][k] + 1
        /\ k > s.part \/ (k = s.part /\ s.pc # "done") => delivered'[c][k] <= doubts'[c][k]
  BY DEF SendInv, PartInv
<1> QED BY <1>1, <1>2, ChannelStep

-----------------------------------------------------------------------------
LEMMA DispatchStep ==
    ASSUME SendInv, Idle, NEW S \in SUBSET Channels, Dispatch(S),
           UNCHANGED <<delivered, doubts, aborted, enabled>>
    PROVE  SendInv'
<1>1. PICK parts \in [S -> 1..MaxParts] :
        sending' = [c \in Channels |-> IF c \in S THEN [NotRouted EXCEPT !.pc = "ready", !.parts = parts[c]]
                                       ELSE sending[c]]
  BY DEF Dispatch
<1>2. ASSUME NEW c \in Channels
      PROVE  sending'[c] \in Sends /\ sending'[c].part = 1
  <2>1. CASE c \in S
    <3>1. parts[c] \in 0..MaxParts /\ 1 \in 1..MaxParts
      BY <2>1, Bounds
    <3>2. sending'[c] = [NotRouted EXCEPT !.pc = "ready", !.parts = parts[c]]
      BY <1>1, <2>1
    <3>3. sending'[c] = [pc |-> "ready", parts |-> parts[c], part |-> 1, tries |-> 0, result |-> "none"]
      BY <3>2 DEF NotRouted
    <3> QED BY <3>1, <3>3 DEF Sends
  <2>2. CASE c \notin S
    <3>1. sending'[c] = sending[c]
      BY <1>1, <2>2
    <3> QED BY <3>1 DEF SendInv, SendTypes, Idle
  <2> QED BY <2>1, <2>2
<1>3. sending' \in [Channels -> Sends]
  <2>1. DOMAIN sending' = Channels /\ sending' = [c \in Channels |-> sending'[c]]
    BY <1>1
  <2> QED BY <1>2, <2>1
<1>4. ASSUME NEW c \in Channels PROVE PartInv(c)'
  <2>1. sending[c].part = 1 /\ sending[c].pc # "done"
    BY DEF Idle, SendInv
  <2> QED BY <1>2, <2>1 DEF SendInv, PartInv
<1> QED BY <1>2, <1>3, <1>4 DEF SendInv, SendTypes

LEMMA RequestStep == ASSUME SendInv, NEW c \in Channels, Request(c) PROVE SendInv'
<1> DEFINE s == IF aborted THEN End(c, "aborted") ELSE [sending[c] EXCEPT !.pc = "asked"]
<1>1. /\ sending[c].pc = "ready" /\ UNCHANGED <<delivered, doubts, aborted, enabled>>
      /\ sending' = [sending EXCEPT ![c] = s]
  BY DEF Request
<1>2. s \in Sends /\ s.part = sending[c].part /\ s.pc # "out"
  BY DEF SendInv, SendTypes, Sends, End
<1> HIDE DEF s
<1> QED BY <1>1, <1>2, SamePartStep

LEMMA RefuseStep == ASSUME SendInv, NEW c \in Channels, Refuse(c) PROVE SendInv'
<1>1. PICK next \in GoesOn(c, "refused") : sending' = [sending EXCEPT ![c] = Then(c, next)]
  BY DEF Refuse
<1>2. sending[c].pc = "asked" /\ UNCHANGED <<delivered, doubts, aborted, enabled>>
  BY DEF Refuse
<1>3. next \in {"again", "failed", "aborted"}
  BY <1>1, GoesOnType
<1>4. Then(c, next) \in Sends /\ Then(c, next).part = sending[c].part /\ Then(c, next).pc # "out"
  BY <1>3, ThenType DEF SendInv, SendTypes
<1> QED BY <1>1, <1>2, <1>4, SamePartStep

\* The count of one part of one channel goes up.
Counted(f, c, k, n) == [f EXCEPT ![c][k] = @ + n]

LEMMA CountUp ==
    ASSUME NEW f \in Counts, NEW c \in Channels, NEW k \in 1..MaxParts, NEW n \in Nat
    PROVE  /\ Counted(f, c, k, n) \in Counts /\ Counted(f, c, k, n)[c][k] = f[c][k] + n
           /\ \A i \in 1..MaxParts : i # k => Counted(f, c, k, n)[c][i] = f[c][i]
           /\ \A b \in Channels : b # c => Counted(f, c, k, n)[b] = f[b]
<1> DEFINE g == Counted(f, c, k, n)
           row == [f[c] EXCEPT ![k] = @ + n]
<1>1. f \in [Channels -> [1..MaxParts -> Nat]] /\ f[c] \in [1..MaxParts -> Nat]
  BY DEF Counts
<1>2. row \in [1..MaxParts -> Nat] /\ row[k] = f[c][k] + n
      /\ \A i \in 1..MaxParts : i # k => row[i] = f[c][i]
  BY <1>1
<1>3. g = [f EXCEPT ![c] = row]
  BY <1>1 DEF Counted
<1> HIDE DEF row, g
<1>4. /\ g \in Counts /\ g[c][k] = f[c][k] + n
      /\ \A i \in 1..MaxParts : i # k => g[c][i] = f[c][i]
      /\ \A b \in Channels : b # c => g[b] = f[b]
  BY <1>1, <1>2, <1>3 DEF Counts
<1> QED BY <1>4 DEF g

LEMMA AcceptStep == ASSUME SendInv, NEW c \in Channels, Accept(c) PROVE SendInv'
<1> DEFINE k == sending[c].part
           s == IF LastPart(sending[c]) THEN End(c, "success") ELSE NextPart(c)
<1>1. /\ sending[c].pc = "asked" /\ UNCHANGED <<doubts, aborted, enabled>>
      /\ delivered' = Counted(delivered, c, k, 1)
      /\ sending' = [sending EXCEPT ![c] = s]
  BY DEF Accept, Counted
<1>2. /\ sending[c] \in Sends /\ k \in 1..MaxParts /\ sending[c].parts \in 0..MaxParts
      /\ delivered \in Counts /\ doubts \in Counts /\ aborted \in BOOLEAN
  BY DEF SendInv, SendTypes, Sends
<1>3. /\ s \in Sends /\ s.pc # "out"
      /\ s.part = k + 1 \/ (s.part = k /\ s.pc = "done")
  <2>1. CASE LastPart(sending[c])
    <3>1. s = [sending[c] EXCEPT !.pc = "done", !.result = "success"]
      BY <2>1 DEF End
    <3> QED BY <1>2, <3>1 DEF Sends
  <2>2. CASE ~LastPart(sending[c])
    <3>1. s = [sending[c] EXCEPT !.pc = "ready", !.part = @ + 1, !.tries = 0]
      BY <2>2 DEF NextPart
    <3>2. k + 1 \in 1..MaxParts
      BY <1>2, <2>2, Bounds DEF LastPart
    <3>3. s = [pc |-> "ready", parts |-> sending[c].parts, part |-> k + 1, tries |-> 0,
               result |-> sending[c].result]
      BY <1>2, <3>1 DEF Sends
    <3>4. sending[c].result \in {"none", "success", "failed", "aborted"}
      BY <1>2 DEF Sends
    <3> HIDE DEF s, k
    <3> QED BY <1>2, <3>2, <3>3, <3>4 DEF Sends
  <2> QED BY <2>1, <2>2
<1>4. /\ delivered' \in Counts /\ delivered'[c][k] = delivered[c][k] + 1
      /\ \A i \in 1..MaxParts : i # k => delivered'[c][i] = delivered[c][i]
      /\ \A b \in Channels : b # c => delivered'[b] = delivered[b]
  <2> DEFINE one == 1
  <2>1. /\ delivered \in Counts /\ k \in 1..MaxParts /\ one \in Nat
        /\ delivered' = Counted(delivered, c, k, one)
    BY <1>1, <1>2
  <2> HIDE DEF k, one
  <2>2. /\ delivered' \in Counts /\ delivered'[c][k] = delivered[c][k] + one
        /\ \A i \in 1..MaxParts : i # k => delivered'[c][i] = delivered[c][i]
        /\ \A b \in Channels : b # c => delivered'[b] = delivered[b]
    BY <2>1, CountUp, Z3
  <2> QED BY <2>2 DEF one
<1>5. ASSUME NEW i \in 1..MaxParts
      PROVE  /\ delivered'[c][i] <= doubts[c][i] + 1
             /\ i > s.part \/ (i = s.part /\ s.pc # "done") => delivered'[c][i] <= doubts[c][i]
  <2>1. /\ delivered[c][i] <= doubts[c][i] + 1
        /\ i > k \/ (i = k /\ sending[c].pc # "done") => delivered[c][i] <= doubts[c][i]
    BY DEF SendInv, PartInv
  <2>2. delivered[c][i] \in Nat /\ doubts[c][i] \in Nat
    BY <1>2 DEF Counts
  <2>3. CASE i = k
    BY <1>1, <1>2, <1>3, <1>4, <2>1, <2>2, <2>3
  <2>4. CASE i # k
    BY <1>2, <1>3, <1>4, <2>1, <2>2, <2>4
  <2> QED BY <2>3, <2>4
<1> HIDE DEF k, s
<1>6. doubts' \in Counts /\ \A b \in Channels : doubts'[b] = doubts[b]
  BY <1>1, <1>2
<1>7. \A i \in 1..MaxParts :
        /\ delivered'[c][i] <= doubts'[c][i] + 1
        /\ i > s.part \/ (i = s.part /\ s.pc # "done") => delivered'[c][i] <= doubts'[c][i]
  BY <1>1, <1>5
<1> QED BY <1>1, <1>3, <1>4, <1>6, <1>7, ChannelStep

LEMMA DoubtStep == ASSUME SendInv, NEW c \in Channels, Doubt(c) PROVE SendInv'
<1> DEFINE k == sending[c].part
<1>1. PICK next \in GoesOn(c, "unknown") : sending' = [sending EXCEPT ![c] = Then(c, next)]
  BY DEF Doubt
<1>2. PICK n \in {0, 1} : delivered' = Counted(delivered, c, k, n)
  BY DEF Doubt, Counted
<1>3. /\ sending[c].pc = "asked" /\ UNCHANGED <<aborted, enabled>>
      /\ doubts' = Counted(doubts, c, k, 1)
  BY DEF Doubt, Counted
<1>4. /\ k \in 1..MaxParts /\ delivered \in Counts /\ doubts \in Counts /\ aborted \in BOOLEAN
  BY DEF SendInv, SendTypes, Sends
<1>5. next \in {"again", "failed", "aborted"}
  BY <1>1, GoesOnType
<1>6. Then(c, next) \in Sends /\ Then(c, next).part = k /\ Then(c, next).pc # "out"
  BY <1>5, ThenType DEF SendInv, SendTypes
<1>7. /\ delivered' \in Counts /\ delivered'[c][k] = delivered[c][k] + n
      /\ \A i \in 1..MaxParts : i # k => delivered'[c][i] = delivered[c][i]
      /\ \A b \in Channels : b # c => delivered'[b] = delivered[b]
  <2> HIDE DEF k
  <2>1. n \in Nat
    OBVIOUS
  <2> QED BY <1>2, <1>4, <2>1, CountUp
<1>8. /\ doubts' \in Counts /\ doubts'[c][k] = doubts[c][k] + 1
      /\ \A i \in 1..MaxParts : i # k => doubts'[c][i] = doubts[c][i]
      /\ \A b \in Channels : b # c => doubts'[b] = doubts[b]
  <2> HIDE DEF k
  <2>1. 1 \in Nat
    OBVIOUS
  <2> QED BY <1>3, <1>4, <2>1, CountUp
<1>9. ASSUME NEW i \in 1..MaxParts
      PROVE  /\ delivered'[c][i] <= doubts'[c][i] + 1
             /\ i > k \/ (i = k /\ Then(c, next).pc # "done") => delivered'[c][i] <= doubts'[c][i]
  <2>1. /\ delivered[c][i] <= doubts[c][i] + 1
        /\ i > k \/ (i = k /\ sending[c].pc # "done") => delivered[c][i] <= doubts[c][i]
    BY DEF SendInv, PartInv
  <2>2. delivered[c][i] \in Nat /\ doubts[c][i] \in Nat
    BY <1>4 DEF Counts
  <2>3. CASE i = k
    <3> DEFINE d == delivered[c][i]
               q == doubts[c][i]
    <3>1. delivered'[c][i] = d + n /\ doubts'[c][i] = q + 1
      BY <1>7, <1>8, <2>3
    <3>2. d \in Nat /\ q \in Nat /\ d <= q
      BY <1>3, <2>1, <2>2, <2>3
    <3> HIDE DEF d, q
    <3>3. d + n <= q + 1
      BY <3>2
    <3> QED BY <3>1, <3>2, <3>3
  <2>4. CASE i # k
    BY <1>7, <1>8, <2>1, <2>4
  <2> QED BY <2>3, <2>4
<1> HIDE DEF k
<1>10. \A i \in 1..MaxParts :
         /\ delivered'[c][i] <= doubts'[c][i] + 1
         /\ i > Then(c, next).part \/ (i = Then(c, next).part /\ Then(c, next).pc # "done") =>
              delivered'[c][i] <= doubts'[c][i]
  BY <1>6, <1>9
<1> QED BY <1>1, <1>6, <1>7, <1>3, <1>8, <1>10, ChannelStep

LEMMA SendInvStep == SendInv /\ [NotificationNext]_notificationVars => SendInv'
<1> SUFFICES ASSUME SendInv, [NotificationNext]_notificationVars PROVE SendInv'
  OBVIOUS
<1>1. ASSUME NEW S \in SUBSET Channels, SendToChannels(S) PROVE SendInv'
  BY <1>1, DispatchStep DEF SendToChannels
<1>2. CASE SendToAll
  <2>1. enabled \in SUBSET Channels
    BY DEF SendInv, SendTypes
  <2> QED BY <1>2, <2>1, DispatchStep DEF SendToAll
<1>3. ASSUME NEW c \in Channels, Request(c) \/ Accept(c) \/ Refuse(c) \/ Doubt(c) PROVE SendInv'
  BY <1>3, RequestStep, AcceptStep, RefuseStep, DoubtStep
<1>4. CASE ValidateAll \/ Abort \/ NotifyAdmin \/ UNCHANGED notificationVars
  <2>1. aborted' \in BOOLEAN /\ enabled' \subseteq Channels
    BY <1>4 DEF ValidateAll, Abort, NotifyAdmin, notificationVars, SendInv, SendTypes
  <2>2. UNCHANGED <<sending, delivered, doubts>>
    BY <1>4 DEF ValidateAll, Abort, NotifyAdmin, notificationVars
  <2> QED BY <2>1, <2>2 DEF SendInv, SendTypes, PartInv
<1> QED BY <1>1, <1>2, <1>3, <1>4 DEF NotificationNext

\* A part arrives once, and once more for each request left in doubt (sendWithRetry,
\* sendAlert of the channels).
THEOREM PartsArriveOnce == NotificationSpec => []PartOnce
<1>1. SendInv => PartOnce
  <2> SUFFICES ASSUME SendInv, NEW c \in Channels, NEW k \in 1..MaxParts
               PROVE  delivered[c][k] <= 1 + doubts[c][k]
    BY DEF PartOnce
  <2>1. delivered[c][k] \in Nat /\ doubts[c][k] \in Nat
    BY DEF SendInv, SendTypes, Counts
  <2> QED BY <2>1 DEF SendInv, PartInv
<1> QED BY <1>1, SendInvInit, SendInvStep, PTL DEF NotificationSpec

\* Only an attempt asks a provider, and it looks at the signal first.
LEMMA AskedByRequest ==
    ASSUME SendInv, NEW c \in Channels, NotificationNext \/ UNCHANGED notificationVars,
           Asked(c)', ~Asked(c)
    PROVE  ~aborted
<1>1. sending \in [Channels -> Sends]
  BY DEF SendInv, SendTypes
<1>2. ASSUME NEW b \in Channels, NEW s, sending' = [sending EXCEPT ![b] = s], s.pc # "asked"
      PROVE  FALSE
  BY <1>1, <1>2 DEF Asked
<1>3. ASSUME NEW S \in SUBSET Channels, Dispatch(S) PROVE FALSE
  BY <1>1, <1>3 DEF Dispatch, NotRouted, Asked
<1>4. ASSUME NEW b \in Channels, NEW kind, NEW next \in GoesOn(b, kind),
             sending' = [sending EXCEPT ![b] = Then(b, next)]
      PROVE  FALSE
  <2>1. Then(b, next).pc \in {"ready", "done"}
    BY <1>1, GoesOnType, ThenType
  <2> QED BY <1>2, <1>4, <2>1
<1>5. ASSUME NEW b \in Channels, Refuse(b) \/ Doubt(b) PROVE FALSE
  BY <1>4, <1>5 DEF Refuse, Doubt
<1>6. ASSUME NEW b \in Channels, Accept(b) PROVE FALSE
  <2> DEFINE s == IF LastPart(sending[b]) THEN End(b, "success")
                  ELSE NextPart(b)
  <2>1. s.pc # "asked"
    BY <1>1 DEF End, NextPart, Sends
  <2>2. sending' = [sending EXCEPT ![b] = s]
    BY <1>6 DEF Accept
  <2> HIDE DEF s
  <2> QED BY <1>2, <2>1, <2>2
<1>7. ASSUME NEW b \in Channels, Request(b), aborted PROVE FALSE
  <2>1. sending' = [sending EXCEPT ![b] = End(b, "aborted")]
    BY <1>7 DEF Request
  <2>2. End(b, "aborted").pc # "asked"
    BY <1>1 DEF End, Sends
  <2> QED BY <1>2, <2>1, <2>2
<1>8. ASSUME ValidateAll \/ Abort \/ NotifyAdmin \/ UNCHANGED notificationVars PROVE FALSE
  BY <1>8 DEF ValidateAll, Abort, NotifyAdmin, notificationVars, Asked
<1>9. ASSUME SendToAll PROVE FALSE
  <2>1. enabled \in SUBSET Channels
    BY DEF SendInv, SendTypes
  <2> QED BY <1>3, <1>9, <2>1 DEF SendToAll
<1> QED BY <1>3, <1>5, <1>6, <1>7, <1>8, <1>9 DEF NotificationNext, SendToChannels

\* An aborted delivery asks no provider again (sendWithRetry, sendChunk, send).
THEOREM AbortEndsRequests == NotificationSpec => AbortStops
<1>1. SendInv /\ [NotificationNext]_notificationVars
        => [\A c \in Channels : aborted /\ Asked(c)' => Asked(c)]_notificationVars
  BY AskedByRequest
<1> QED BY <1>1, SendInvInit, SendInvStep, PTL DEF NotificationSpec, AbortStops

-----------------------------------------------------------------------------
(* Orders.                                                                  *)

\* A request that has not been answered has no answer, and only live orders are
\* looked up and submitted.
UnansweredInv ==
  \A r \in OrderRequests :
    /\ order[r].pc # "done" => order[r].answer = "none"
    /\ order[r].pc \in {"reconciling", "reconciled", "submitting"} => ~order[r].dry
    /\ order[r].pc # "idle" => order[r].id \in OrderIds /\ order[r].body \in OrderBodies
    /\ order[r].pc = "idle" => order[r].seen = {}

\* What the exchange has, or may still get, comes from requests whose answer allows it.
SourceInv ==
  /\ \A x \in exchange : /\ order[x.by].pc = "done"
                         /\ order[x.by].answer \in {"created", "unknown"}
                         /\ x = Executed(x.by)
  /\ \A r \in late : order[r].pc = "done" /\ order[r].answer = "unknown"

\* A success has an order behind it.
SuccessInv ==
  \A r \in OrderRequests : order[r].answer \in {"created", "found"} =>
    \E x \in exchange : x.id = order[r].id /\ x.body = order[r].body

SeenInv ==
  \A r \in OrderRequests : \A x \in order[r].seen : x \in exchange /\ x.id = order[r].id

AnswerInv == OrderTypeOK /\ UnansweredInv /\ SourceInv /\ SuccessInv /\ SeenInv

-----------------------------------------------------------------------------
LEMMA DoubtIsNoRejection ==
    ASSUME NEW e \in Doubts
    PROVE  ~Definitive(e[1], e[2])
BY DEF Doubts, Definitive, ErrorCodes, HttpStatuses

LEMMA AnswerInit == OrderInit => AnswerInv
<1> SUFFICES ASSUME OrderInit PROVE AnswerInv
  OBVIOUS
<1>1. OrderTypeOK
  BY OrderAssumption DEF OrderInit, OrderTypeOK, OrderPcs, OrderAnswers, ExchangeOrder
<1>2. UnansweredInv /\ SourceInv /\ SuccessInv /\ SeenInv
  BY DEF OrderInit, UnansweredInv, SourceInv, SuccessInv, SeenInv
<1> QED BY <1>1, <1>2 DEF AnswerInv

LEMMA StartAnswer ==
    ASSUME AnswerInv, NEW r \in OrderRequests, StartOrder(r)
    PROVE  AnswerInv'
<1>1. PICK id \in OrderIds, body \in OrderBodies, dry \in BOOLEAN :
        order' = [order EXCEPT ![r] = [@ EXCEPT !.pc = IF dry THEN "validating" ELSE "reconciling",
                                                !.id = id, !.body = body, !.dry = dry]]
  BY DEF StartOrder
<1>2. order[r].pc = "idle" /\ UNCHANGED <<exchange, late, orderFaults>> /\ onceAlone' \subseteq onceAlone
  BY DEF StartOrder
<1>3. OrderTypeOK'
  <2> DEFINE begun == [order[r] EXCEPT !.pc = IF dry THEN "validating" ELSE "reconciling",
                                       !.id = id, !.body = body, !.dry = dry]
  <2>1. order' = [order EXCEPT ![r] = begun]
    BY <1>1
  <2>2. begun \in [pc : OrderPcs, id : OrderIds \cup {NoId}, body : OrderBodies \cup {NoBody},
                   dry : BOOLEAN, seen : SUBSET ExchangeOrder, answer : OrderAnswers]
    <3>1. CASE dry
      BY <3>1 DEF AnswerInv, OrderTypeOK, OrderPcs
    <3>2. CASE ~dry
      BY <3>2 DEF AnswerInv, OrderTypeOK, OrderPcs
    <3> QED BY <3>1, <3>2
  <2> QED BY <1>2, <2>1, <2>2 DEF AnswerInv, OrderTypeOK
<1>4. UnansweredInv'
  BY <1>1, <1>2 DEF AnswerInv, UnansweredInv, OrderTypeOK, OrderPcs
<1>5. SourceInv'
  BY <1>1, <1>2 DEF AnswerInv, SourceInv, Executed, OrderTypeOK, ExchangeOrder
<1>6. SuccessInv'
  BY <1>1, <1>2 DEF AnswerInv, SuccessInv, UnansweredInv, OrderTypeOK
<1>7. SeenInv'
  BY <1>1, <1>2 DEF AnswerInv, SeenInv, UnansweredInv, OrderTypeOK
<1> QED BY <1>3, <1>4, <1>5, <1>6, <1>7 DEF AnswerInv

\* A request goes on, and the others stay.
Moves(r) ==
  /\ \A q \in OrderRequests \ {r} : order'[q] = order[q]
  /\ order'[r].id = order[r].id /\ order'[r].body = order[r].body /\ order'[r].dry = order[r].dry

LEMMA GotoMoves ==
    ASSUME OrderTypeOK, NEW r \in OrderRequests, NEW pc \in OrderPcs, OrderGoto(r, pc)
    PROVE  /\ Moves(r) /\ order'[r].pc = pc /\ order'[r].answer = order[r].answer
           /\ order'[r].seen = order[r].seen
           /\ (exchange' = exchange /\ late' = late /\ onceAlone' = onceAlone) => OrderTypeOK'
BY DEF OrderTypeOK, OrderGoto, Moves

LEMMA ConcludeMoves ==
    ASSUME OrderTypeOK, NEW r \in OrderRequests, NEW a \in OrderAnswers, Conclude(r, a)
    PROVE  /\ Moves(r) /\ order'[r].pc = "done" /\ order'[r].answer = a /\ order'[r].seen = {}
           /\ order' \in [OrderRequests -> [pc : OrderPcs, id : OrderIds \cup {NoId},
                                  body : OrderBodies \cup {NoBody}, dry : BOOLEAN,
                                  seen : SUBSET ExchangeOrder, answer : OrderAnswers]]
<1> DEFINE ended == [order[r] EXCEPT !.pc = "done", !.answer = a, !.seen = {}]
<1>1. order' = [order EXCEPT ![r] = ended]
  BY DEF Conclude
<1>2. ended \in [pc : OrderPcs, id : OrderIds \cup {NoId}, body : OrderBodies \cup {NoBody},
                dry : BOOLEAN, seen : SUBSET ExchangeOrder, answer : OrderAnswers]
  BY DEF OrderTypeOK, OrderPcs
<1>3. /\ ended.pc = "done" /\ ended.answer = a /\ ended.seen = {}
      /\ ended.id = order[r].id /\ ended.body = order[r].body /\ ended.dry = order[r].dry
  BY DEF OrderTypeOK
<1>4. order'[r] = ended /\ \A q \in OrderRequests \ {r} : order'[q] = order[q]
  BY <1>1 DEF OrderTypeOK
<1> QED BY <1>1, <1>2, <1>3, <1>4 DEF OrderTypeOK, Moves

\* A step of a request that leaves the exchange alone.
LEMMA AsideStep ==
    ASSUME AnswerInv, NEW r \in OrderRequests, order[r].pc \notin {"idle", "done"},
           OrderTypeOK', Moves(r), exchange' = exchange, late' = late,
           order'[r].pc # "idle",
           order'[r].pc # "done" => order'[r].answer = "none",
           order'[r].pc \in {"reconciling", "reconciled", "submitting"} => ~order[r].dry,
           order'[r].answer \in {"created", "found"} =>
             \E x \in exchange : x.id = order[r].id /\ x.body = order[r].body,
           \A x \in order'[r].seen : x \in exchange /\ x.id = order[r].id
    PROVE  AnswerInv'
<1>1. UnansweredInv'
  BY DEF AnswerInv, UnansweredInv, Moves
<1>2. SourceInv'
  BY DEF AnswerInv, SourceInv, Moves, Executed, OrderTypeOK, ExchangeOrder
<1>3. SuccessInv'
  BY DEF AnswerInv, SuccessInv, Moves
<1>4. SeenInv'
  BY DEF AnswerInv, SeenInv, Moves
<1> QED BY <1>1, <1>2, <1>3, <1>4 DEF AnswerInv

LEMMA LookUpAnswer ==
    ASSUME AnswerInv, NEW r \in OrderRequests, LookUp(r)
    PROVE  AnswerInv'
<1>1. Moves(r) /\ order'[r].pc = "reconciled" /\ order'[r].answer = order[r].answer
      /\ order'[r].seen = Under(Identity(order[r]))
  BY DEF AnswerInv, OrderTypeOK, LookUp, Moves
<1>2. OrderTypeOK'
  <2> DEFINE found == Under(Identity(order[r]))
             looked == [order[r] EXCEPT !.pc = "reconciled", !.seen = found]
  <2>1. found \subseteq ExchangeOrder /\ "reconciled" \in OrderPcs
    BY DEF AnswerInv, OrderTypeOK, Under, OrderPcs
  <2>2. order' = [order EXCEPT ![r] = looked] /\ UNCHANGED <<exchange, late, onceAlone, orderFaults>>
    BY DEF LookUp, AnswerInv, OrderTypeOK
  <2> HIDE DEF found
  <2>3. looked \in [pc : OrderPcs, id : OrderIds \cup {NoId}, body : OrderBodies \cup {NoBody},
                    dry : BOOLEAN, seen : SUBSET ExchangeOrder, answer : OrderAnswers]
    BY <2>1 DEF AnswerInv, OrderTypeOK
  <2> HIDE DEF looked
  <2> QED BY <2>2, <2>3 DEF AnswerInv, OrderTypeOK
<1>3. /\ order[r].pc = "reconciling" /\ UNCHANGED <<exchange, late>>
      /\ order[r].answer = "none" /\ ~order[r].dry
  BY DEF LookUp, AnswerInv, UnansweredInv
<1>4. \A x \in Under(Identity(order[r])) : x \in exchange /\ x.id = order[r].id
  BY DEF Under, Identity
<1> QED BY <1>1, <1>2, <1>3, <1>4, AsideStep

LEMMA ReconcileAnswer ==
    ASSUME AnswerInv, NEW r \in OrderRequests, Reconcile(r)
    PROVE  AnswerInv'
<1>1. order[r].pc = "reconciled" /\ UNCHANGED <<exchange, late, onceAlone>> /\ OrderTypeOK
  BY DEF Reconcile, AnswerInv
<1>2. CASE order[r].seen = {} /\ OrderGoto(r, "validating")
  BY <1>1, <1>2, GotoMoves, AsideStep DEF AnswerInv, UnansweredInv, OrderPcs
<1>3. CASE \E x \in order[r].seen : Conclude(r, IF x.body = order[r].body THEN "found" ELSE "conflict")
  <2>1. PICK x \in order[r].seen : Conclude(r, IF x.body = order[r].body THEN "found" ELSE "conflict")
    BY <1>3
  <2>2. x \in exchange /\ x.id = order[r].id
    BY DEF AnswerInv, SeenInv
  <2>3. CASE x.body = order[r].body
    <3>1. Conclude(r, "found")
      BY <2>1, <2>3
    <3>2. "found" \in OrderAnswers
      BY DEF OrderAnswers
    <3>3. OrderTypeOK'
      BY <1>1, <3>1, <3>2, ConcludeMoves DEF OrderTypeOK
    <3> QED BY <1>1, <2>2, <2>3, <3>1, <3>2, <3>3, ConcludeMoves, AsideStep
  <2>4. CASE x.body # order[r].body
    <3>1. Conclude(r, "conflict")
      BY <2>1, <2>4
    <3>2. "conflict" \in OrderAnswers
      BY DEF OrderAnswers
    <3>3. OrderTypeOK'
      BY <1>1, <3>1, <3>2, ConcludeMoves DEF OrderTypeOK
    <3> QED BY <1>1, <3>1, <3>2, <3>3, ConcludeMoves, AsideStep
  <2> QED BY <2>3, <2>4
<1>4. CASE Conclude(r, "unknown")
  <2>1. "unknown" \in OrderAnswers
    BY DEF OrderAnswers
  <2>2. OrderTypeOK'
    BY <1>1, <1>4, <2>1, ConcludeMoves DEF OrderTypeOK
  <2> QED BY <1>1, <1>4, <2>1, <2>2, ConcludeMoves, AsideStep
<1> QED BY <1>2, <1>3, <1>4 DEF Reconcile

LEMMA ConcludeAnswer ==
    ASSUME AnswerInv, NEW r \in OrderRequests, order[r].pc \notin {"idle", "done"},
           NEW a \in OrderAnswers \ {"created", "found"}, Conclude(r, a),
           UNCHANGED <<exchange, late, onceAlone>>
    PROVE  AnswerInv'
<1>1. OrderTypeOK'
  BY ConcludeMoves DEF AnswerInv, OrderTypeOK
<1> QED BY <1>1, ConcludeMoves, AsideStep DEF AnswerInv

LEMMA ValidateAnswer ==
    ASSUME AnswerInv, NEW r \in OrderRequests, Validate(r)
    PROVE  AnswerInv'
<1>1. order[r].pc = "validating" /\ UNCHANGED <<exchange, late, onceAlone>> /\ OrderTypeOK
  BY DEF Validate, AnswerInv
<1>2. CASE OrderGoto(r, "testing")
  BY <1>1, <1>2, GotoMoves, AsideStep DEF AnswerInv, UnansweredInv, SeenInv, OrderPcs
<1>3. CASE Conclude(r, "invalid") \/ Conclude(r, "unavailable")
  BY <1>1, <1>3, ConcludeAnswer DEF OrderAnswers
<1> QED BY <1>2, <1>3 DEF Validate

LEMMA TestAnswer ==
    ASSUME AnswerInv, NEW r \in OrderRequests, TestOrder(r)
    PROVE  AnswerInv'
<1>1. order[r].pc = "testing" /\ UNCHANGED <<exchange, late, onceAlone>> /\ OrderTypeOK
  BY DEF TestOrder, AnswerInv
<1>2. CASE ~order[r].dry /\ OrderGoto(r, "submitting")
  BY <1>1, <1>2, GotoMoves, AsideStep DEF AnswerInv, UnansweredInv, SeenInv, OrderPcs
<1>3. CASE Conclude(r, "dry") \/ Conclude(r, "invalid") \/ Conclude(r, "unavailable")
  BY <1>1, <1>3, ConcludeAnswer DEF OrderAnswers
<1> QED BY <1>2, <1>3 DEF TestOrder

\* An order of r reaches the exchange, now or later.
LEMMA ExecutionStep ==
    ASSUME AnswerInv, NEW r \in OrderRequests, order[r].pc # "idle",
           OrderTypeOK', Moves(r), order[r].pc = "done" => order' = order,
           order'[r].pc = "done", order'[r].answer \in {"created", "unknown"},
           order'[r].seen = {} \/ order' = order,
           exchange' = exchange \cup {Executed(r)}, late' \subseteq late
    PROVE  AnswerInv'
<1>1. \A q \in OrderRequests : Executed(q)' = Executed(q)
  BY DEF Executed, Moves
<1>2. UnansweredInv'
  BY DEF AnswerInv, UnansweredInv, Moves
<1>3. SourceInv'
  <2>1. ASSUME NEW x \in exchange' PROVE order'[x.by].pc = "done" /\ order'[x.by].answer \in {"created", "unknown"} /\ x = Executed(x.by)'
    <3>1. CASE x = Executed(r)
      <4>1. x.by = r
        BY <3>1 DEF Executed
      <4> QED BY <3>1, <4>1, <1>1
    <3>2. CASE x \in exchange
      <4>1. x.by \in OrderRequests
        BY <3>2 DEF AnswerInv, OrderTypeOK, ExchangeOrder
      <4> QED BY <1>1, <3>2, <4>1 DEF AnswerInv, SourceInv, Moves
    <3> QED BY <3>1, <3>2
  <2>2. \A q \in late' : order'[q].pc = "done" /\ order'[q].answer = "unknown"
    BY DEF AnswerInv, SourceInv, Moves, OrderTypeOK
  <2> QED BY <2>1, <2>2 DEF SourceInv
<1>4. SuccessInv'
  <2>1. Executed(r) \in exchange' /\ Executed(r).id = order'[r].id /\ Executed(r).body = order'[r].body
    BY DEF Executed, Moves
  <2> QED BY <2>1 DEF AnswerInv, SuccessInv, Moves
<1>5. SeenInv'
  BY DEF AnswerInv, SeenInv, Moves
<1> QED BY <1>2, <1>3, <1>4, <1>5 DEF AnswerInv

LEMMA ExecutedType ==
    ASSUME AnswerInv, NEW r \in OrderRequests, order[r].pc # "idle"
    PROVE  Executed(r) \in ExchangeOrder
BY DEF AnswerInv, UnansweredInv, Executed, ExchangeOrder

LEMMA SubmitAnswer ==
    ASSUME AnswerInv, NEW r \in OrderRequests, Submit(r)
    PROVE  AnswerInv'
<1>1. order[r].pc = "submitting" /\ UNCHANGED onceAlone /\ OrderTypeOK
  BY DEF Submit, AnswerInv
<1>2. ASSUME NEW a \in {"created", "unknown"}, Conclude(r, a),
             exchange' = exchange \cup {Executed(r)}, late' = late
      PROVE  AnswerInv'
  <2>1. a \in OrderAnswers
    BY DEF OrderAnswers
  <2>2. OrderTypeOK'
    BY <1>1, <1>2, <2>1, ConcludeMoves, ExecutedType DEF OrderTypeOK
  <2> QED BY <1>1, <1>2, <2>1, <2>2, ConcludeMoves, ExecutionStep
<1>3. CASE /\ \E e \in Refusals : Conclude(r, IF Definitive(e[1], e[2]) THEN "rejected" ELSE "unknown")
           /\ UNCHANGED <<exchange, late>>
  BY <1>1, <1>3, ConcludeAnswer DEF OrderAnswers
<1>4. CASE \E e \in Doubts : Conclude(r, IF Definitive(e[1], e[2]) THEN "rejected" ELSE "unknown")
  <2>1. Conclude(r, "unknown")
    BY <1>4, DoubtIsNoRejection
  <2>2. CASE UNCHANGED <<exchange, late>>
    BY <1>1, <2>1, <2>2, ConcludeAnswer DEF OrderAnswers
  <2>3. CASE exchange' = exchange \cup {Executed(r)} /\ UNCHANGED late
    BY <1>2, <2>1, <2>3
  <2>4. CASE late' = late \cup {r} /\ UNCHANGED exchange
    <3>1. "unknown" \in OrderAnswers
      BY DEF OrderAnswers
    <3>2. OrderTypeOK'
      BY <1>1, <2>1, <2>4, <3>1, ConcludeMoves DEF OrderTypeOK
    <3>3. /\ Moves(r) /\ order'[r].pc = "done" /\ order'[r].answer = "unknown" /\ order'[r].seen = {}
      BY <1>1, <2>1, <3>1, ConcludeMoves
    <3>4. UnansweredInv' /\ SuccessInv' /\ SeenInv'
      BY <1>1, <2>4, <3>3 DEF AnswerInv, UnansweredInv, SuccessInv, SeenInv, Moves
    <3>5. SourceInv'
      <4>1. ASSUME NEW x \in exchange PROVE x.by \in OrderRequests /\ x.by # r
        BY <1>1 DEF AnswerInv, SourceInv, OrderTypeOK, ExchangeOrder
      <4>2. ASSUME NEW q \in OrderRequests \ {r} PROVE Executed(q)' = Executed(q) /\ order'[q] = order[q]
        BY <3>3 DEF Executed, Moves
      <4> QED BY <2>4, <3>3, <4>1, <4>2 DEF AnswerInv, SourceInv, OrderTypeOK
    <3> QED BY <3>2, <3>4, <3>5 DEF AnswerInv
  <2> QED BY <1>4, <2>2, <2>3, <2>4 DEF Submit
<1> QED BY <1>2, <1>3, <1>4 DEF Submit

LEMMA ArriveAnswer ==
    ASSUME AnswerInv, NEW r \in OrderRequests, ArriveLate(r)
    PROVE  AnswerInv'
<1>1. /\ order[r].pc = "done" /\ order[r].answer = "unknown"
      /\ UNCHANGED <<order, onceAlone>> /\ late' = late \ {r} /\ OrderTypeOK
  BY DEF ArriveLate, AnswerInv, SourceInv
<1>2. Moves(r)
  BY <1>1 DEF Moves
<1>3. CASE exchange' = exchange
  <2>1. OrderTypeOK'
    BY <1>1, <1>3 DEF OrderTypeOK
  <2>2. UnansweredInv' /\ SuccessInv' /\ SeenInv'
    BY <1>1, <1>3 DEF AnswerInv, UnansweredInv, SuccessInv, SeenInv
  <2>3. SourceInv'
    BY <1>1, <1>3 DEF AnswerInv, SourceInv, Executed
  <2> QED BY <2>1, <2>2, <2>3 DEF AnswerInv
<1>4. CASE exchange' = exchange \cup {Executed(r)}
  <2>1. OrderTypeOK'
    BY <1>1, <1>4, ExecutedType DEF OrderTypeOK
  <2> QED BY <1>1, <1>2, <1>4, <2>1, ExecutionStep
<1> QED BY <1>3, <1>4 DEF ArriveLate

LEMMA AnswerInvStep == AnswerInv /\ [OrderNext]_orderVars => AnswerInv'
<1> SUFFICES ASSUME AnswerInv, [OrderNext]_orderVars PROVE AnswerInv'
  OBVIOUS
<1>1. CASE OrderNext
  BY <1>1, StartAnswer, LookUpAnswer, ReconcileAnswer, ValidateAnswer, TestAnswer, SubmitAnswer,
     ArriveAnswer DEF OrderNext
<1>2. CASE UNCHANGED orderVars
  BY <1>2 DEF orderVars, AnswerInv, OrderTypeOK, UnansweredInv, SourceInv, SuccessInv, SeenInv, Executed
<1> QED BY <1>1, <1>2

-----------------------------------------------------------------------------
(* At most one order under an identity whose requests came one by one.      *)

\* r may still place an order under the identity.
MayPlace(r, known) == (LiveOrder(r) \/ r \in late) /\ Identity(order[r]) = known

Committed(r) == r \in late \/ order[r].pc \in {"validating", "testing", "submitting"}

SoloInv ==
  \A known \in onceAlone :
    /\ \A r, q \in OrderRequests : MayPlace(r, known) /\ MayPlace(q, known) => r = q
    /\ \A r \in OrderRequests : MayPlace(r, known) =>
         /\ Committed(r) => Under(known) = {}
         /\ order[r].pc = "reconciled" => order[r].seen = Under(known)
    /\ \A x, y \in Under(known) : x = y

\* A step that changes no order of the exchange keeps the invariant if nobody else
\* becomes engaged and r commits itself only where the exchange has nothing.
LEMMA SoloStep ==
    ASSUME AnswerInv, SoloInv, NEW r \in OrderRequests, order[r].pc \notin {"idle", "done"},
           Moves(r), exchange' = exchange, onceAlone' = onceAlone,
           late' = late \/ (late' = late \cup {r} /\ order[r].pc = "submitting" /\ ~order[r].dry),
           order'[r].pc # "idle",
           order'[r].pc = "reconciled" => order'[r].seen = Under(Identity(order[r])),
           order'[r].pc \in {"validating", "testing", "submitting"} =>
             \/ order[r].pc \in {"validating", "testing"}
             \/ order[r].pc = "reconciled" /\ order[r].seen = {}
    PROVE  SoloInv'
<1>0. \A q \in OrderRequests : Identity(order'[q]) = Identity(order[q])
  BY DEF Moves, Identity
<1>1. ASSUME NEW q \in OrderRequests, NEW known, MayPlace(q, known)' PROVE MayPlace(q, known)
  BY <1>0, <1>1 DEF MayPlace, LiveOrder, Moves
<1>2. \A known : Under(known)' = Under(known)
  BY DEF Under
<1>3. ASSUME NEW known \in onceAlone, NEW q \in OrderRequests, MayPlace(q, known)',
             Committed(q)' \/ order'[q].pc = "reconciled"
      PROVE  /\ Committed(q)' => Under(known) = {}
             /\ order'[q].pc = "reconciled" => order'[q].seen = Under(known)
  <2>1. MayPlace(q, known)
    BY <1>1, <1>3
  <2>2. CASE q # r
    BY <2>1, <2>2, <1>3 DEF SoloInv, Committed, Moves
  <2>3. CASE q = r
    <3>1. Identity(order[r]) = known
      BY <2>1, <2>3 DEF MayPlace
    <3>2. r \notin late
      BY DEF AnswerInv, SourceInv
    <3>3. ASSUME Committed(r)' PROVE Under(known) = {}
      <4>1. \/ order[r].pc \in {"validating", "testing", "submitting"}
            \/ order[r].pc = "reconciled" /\ order[r].seen = {}
        BY <3>2, <3>3 DEF Committed
      <4> QED BY <2>1, <2>3, <4>1 DEF SoloInv, Committed
    <3> QED BY <2>3, <3>1, <3>3
  <2> QED BY <2>2, <2>3
<1> QED BY <1>1, <1>2, <1>3 DEF SoloInv

\* An order of the engaged r is the first under its identity, and the last.
LEMMA SoloExecution ==
    ASSUME AnswerInv, SoloInv, NEW r \in OrderRequests, MayPlace(r, Identity(order[r])), Committed(r),
           Moves(r), order'[r].pc = "done", r \notin late', late' \subseteq late,
           exchange' = exchange \cup {Executed(r)}, onceAlone' = onceAlone
    PROVE  SoloInv'
<1>0. \A q \in OrderRequests : Identity(order'[q]) = Identity(order[q])
  BY DEF Moves, Identity
<1>1. ASSUME NEW q \in OrderRequests, NEW known, MayPlace(q, known)' PROVE MayPlace(q, known) /\ q # r
  BY <1>0, <1>1 DEF MayPlace, LiveOrder, Moves
<1>2. ASSUME NEW known, known # Identity(order[r]) PROVE Under(known)' = Under(known)
  BY <1>2 DEF Under, Executed, Identity
<1>3. ASSUME NEW known \in onceAlone, known = Identity(order[r])
      PROVE  /\ \A x, y \in Under(known)' : x = y
             /\ \A q \in OrderRequests : ~MayPlace(q, known)'
  <2>1. Under(known) = {}
    BY <1>3 DEF SoloInv
  <2>2. \A x \in Under(known)' : x = Executed(r)
    BY <2>1 DEF Under
  <2>3. \A q \in OrderRequests : ~MayPlace(q, known)'
    BY <1>1, <1>3 DEF SoloInv
  <2> QED BY <2>2, <2>3
<1>4. \A q \in OrderRequests \ {r} : (Committed(q)' => Committed(q)) /\ order'[q] = order[q]
  BY DEF Committed, Moves
<1>5. ASSUME NEW known \in onceAlone, known # Identity(order[r])
      PROVE  /\ \A q, p \in OrderRequests : MayPlace(q, known)' /\ MayPlace(p, known)' => q = p
             /\ \A q \in OrderRequests : MayPlace(q, known)' =>
                  /\ Committed(q)' => Under(known)' = {}
                  /\ order'[q].pc = "reconciled" => order'[q].seen = Under(known)'
             /\ \A x, y \in Under(known)' : x = y
  BY <1>1, <1>2, <1>4, <1>5 DEF SoloInv
<1> QED BY <1>3, <1>5 DEF SoloInv

LEMMA StartSolo ==
    ASSUME AnswerInv, SoloInv, NEW r \in OrderRequests, StartOrder(r)
    PROVE  SoloInv'
<1>1. PICK id \in OrderIds, body \in OrderBodies, dry \in BOOLEAN :
        LET known == <<SymbolOf[body], id>>
            others == {q \in OrderRequests \ {r} : LiveOrder(q) /\ Identity(order[q]) = known}
            crowded == ~dry /\ (others # {} \/ \E q \in late : Identity(order[q]) = known)
        IN /\ order' = [order EXCEPT ![r] = [@ EXCEPT !.pc = IF dry THEN "validating" ELSE "reconciling",
                                                     !.id = id, !.body = body, !.dry = dry]]
           /\ onceAlone' = IF crowded THEN onceAlone \ {known} ELSE onceAlone
  BY DEF StartOrder
<1>2. order[r].pc = "idle" /\ UNCHANGED <<exchange, late>>
  BY DEF StartOrder
<1>3. /\ \A q \in OrderRequests \ {r} : order'[q] = order[q]
      /\ Identity(order'[r]) = <<SymbolOf[body], id>> /\ order'[r].dry = dry
      /\ order'[r].pc = IF dry THEN "validating" ELSE "reconciling"
  BY <1>1 DEF AnswerInv, OrderTypeOK, Identity
<1>4. r \notin late /\ late \subseteq OrderRequests
  BY <1>2 DEF AnswerInv, SourceInv, OrderTypeOK
<1>5. \A i : Under(i)' = Under(i)
  BY <1>2 DEF Under
<1>6. ASSUME NEW q \in OrderRequests \ {r}, NEW i
      PROVE  (MayPlace(q, i)' <=> MayPlace(q, i)) /\ (Committed(q)' <=> Committed(q)) /\ order'[q] = order[q]
  BY <1>2, <1>3 DEF MayPlace, LiveOrder, Committed
<1>7. ASSUME NEW i, MayPlace(r, i)' PROVE ~dry /\ i = <<SymbolOf[body], id>> /\ ~Committed(r)' /\ order'[r].pc # "reconciled"
  BY <1>2, <1>3, <1>4, <1>7 DEF MayPlace, LiveOrder, Committed
<1>8. ASSUME NEW i \in onceAlone', MayPlace(r, i)', NEW q \in OrderRequests \ {r}
      PROVE  ~MayPlace(q, i)
  <2>1. ~dry /\ i = <<SymbolOf[body], id>>
    BY <1>7, <1>8
  <2>2. /\ {p \in OrderRequests \ {r} : LiveOrder(p) /\ Identity(order[p]) = i} = {}
        /\ ~\E p \in late : Identity(order[p]) = i
    BY <1>1, <1>8, <2>1
  <2> QED BY <2>1, <2>2 DEF MayPlace
<1>9. onceAlone' \subseteq onceAlone
  BY <1>1
<1> QED BY <1>5, <1>6, <1>7, <1>8, <1>9 DEF SoloInv

LEMMA ConcludeSolo ==
    ASSUME AnswerInv, SoloInv, NEW r \in OrderRequests, order[r].pc \notin {"idle", "done"},
           NEW a, Conclude(r, a), UNCHANGED <<exchange, late, onceAlone>>
    PROVE  SoloInv'
<1>1. Moves(r) /\ order'[r].pc = "done"
  BY DEF AnswerInv, OrderTypeOK, Conclude, Moves
<1> QED BY <1>1, SoloStep

LEMMA LookUpSolo ==
    ASSUME AnswerInv, SoloInv, NEW r \in OrderRequests, LookUp(r)
    PROVE  SoloInv'
<1>1. Moves(r) /\ order'[r].pc = "reconciled" /\ order'[r].seen = Under(Identity(order[r]))
  BY DEF AnswerInv, OrderTypeOK, LookUp, Moves
<1>2. order[r].pc = "reconciling" /\ UNCHANGED <<exchange, late, onceAlone>>
  BY DEF LookUp
<1> QED BY <1>1, <1>2, SoloStep

LEMMA QuietSolo ==
    ASSUME AnswerInv, SoloInv, NEW r \in OrderRequests,
           Reconcile(r) \/ Validate(r) \/ TestOrder(r)
    PROVE  SoloInv'
<1>1. /\ order[r].pc \in {"reconciled", "validating", "testing"}
      /\ UNCHANGED <<exchange, late, onceAlone>> /\ OrderTypeOK
  BY DEF Reconcile, Validate, TestOrder, AnswerInv
<1>2. CASE \E a : Conclude(r, a)
  BY <1>1, <1>2, ConcludeSolo
<1>3. CASE \/ order[r].pc = "reconciled" /\ order[r].seen = {} /\ OrderGoto(r, "validating")
           \/ order[r].pc = "validating" /\ OrderGoto(r, "testing")
           \/ order[r].pc = "testing" /\ OrderGoto(r, "submitting")
  <2>1. PICK to \in {"validating", "testing", "submitting"} : OrderGoto(r, to)
    BY <1>3
  <2>2. to \in OrderPcs
    BY DEF OrderPcs
  <2>3. Moves(r) /\ order'[r].pc = to
    BY <1>1, <2>1, <2>2, GotoMoves
  <2> QED BY <1>1, <1>3, <2>3, SoloStep
<1> QED BY <1>1, <1>2, <1>3 DEF Reconcile, Validate, TestOrder

LEMMA SubmitSolo ==
    ASSUME AnswerInv, SoloInv, NEW r \in OrderRequests, Submit(r)
    PROVE  SoloInv'
<1>1. order[r].pc = "submitting" /\ UNCHANGED onceAlone /\ ~order[r].dry /\ r \notin late
  BY DEF Submit, AnswerInv, UnansweredInv, SourceInv
<1>2. PICK a : Conclude(r, a)
  BY DEF Submit
<1>3. Moves(r) /\ order'[r].pc = "done"
  BY <1>2 DEF AnswerInv, OrderTypeOK, Conclude, Moves
<1>4. CASE UNCHANGED <<exchange, late>>
  BY <1>1, <1>2, <1>4, ConcludeSolo
<1>5. CASE exchange' = exchange \cup {Executed(r)} /\ UNCHANGED late
  <2>1. MayPlace(r, Identity(order[r])) /\ Committed(r)
    BY <1>1 DEF MayPlace, LiveOrder, Committed
  <2> QED BY <1>1, <1>3, <1>5, <2>1, SoloExecution
<1>6. CASE late' = late \cup {r} /\ UNCHANGED exchange
  BY <1>1, <1>3, <1>6, SoloStep
<1> QED BY <1>4, <1>5, <1>6 DEF Submit

LEMMA ArriveSolo ==
    ASSUME AnswerInv, SoloInv, NEW r \in OrderRequests, ArriveLate(r)
    PROVE  SoloInv'
<1>1. r \in late /\ UNCHANGED <<order, onceAlone>> /\ late' = late \ {r} /\ order[r].pc = "done"
  BY DEF ArriveLate, AnswerInv, SourceInv
<1>2. CASE exchange' = exchange
  <2>1. \A q \in OrderRequests : \A known : MayPlace(q, known)' => MayPlace(q, known)
    BY <1>1 DEF MayPlace, LiveOrder
  <2>2. \A q \in OrderRequests : Committed(q)' => Committed(q)
    BY <1>1 DEF Committed
  <2>3. \A known : Under(known)' = Under(known)
    BY <1>2 DEF Under
  <2> QED BY <1>1, <2>1, <2>2, <2>3 DEF SoloInv
<1>3. CASE exchange' = exchange \cup {Executed(r)}
  BY <1>1, <1>3, SoloExecution DEF Moves, MayPlace, Committed
<1> QED BY <1>2, <1>3 DEF ArriveLate

LEMMA SoloNext == AnswerInv /\ SoloInv /\ [OrderNext]_orderVars => SoloInv'
<1> SUFFICES ASSUME AnswerInv, SoloInv, [OrderNext]_orderVars PROVE SoloInv'
  OBVIOUS
<1>1. CASE OrderNext
  BY <1>1, StartSolo, LookUpSolo, QuietSolo, SubmitSolo, ArriveSolo DEF OrderNext
<1>2. CASE UNCHANGED orderVars
  <2>1. \A known : Under(known)' = Under(known)
    BY <1>2 DEF orderVars, Under
  <2> QED BY <1>2, <2>1 DEF orderVars, SoloInv, MayPlace, LiveOrder, Committed
<1> QED BY <1>1, <1>2

LEMMA SoloMeansOne == SoloInv => OneOrderPerId
<1> SUFFICES ASSUME SoloInv, NEW known \in onceAlone PROVE Cardinality(Under(known)) <= 1
  BY DEF OneOrderPerId
<1>1. CASE Under(known) = {}
  BY <1>1, FS_EmptySet
<1>2. CASE Under(known) # {}
  <2>1. PICK x \in Under(known) : TRUE
    BY <1>2
  <2>2. Under(known) = {x}
    BY <2>1 DEF SoloInv
  <2>3. Cardinality({x}) = 1
    BY FS_Singleton
  <2>4. Cardinality(Under(known)) = 1
    BY <2>2, <2>3
  <2> QED BY <2>4
<1> QED BY <1>1, <1>2

\* What placeOrder answers is so, a success with an order of the exchange behind it and
\* a refusal without; and asking again under one client order known, one request after the
\* other, places no second order (reconcileOrder, isDefinitiveBinanceRejection).
THEOREM OrdersAreSafe == OrderSpec => []OrdersSafe
<1>1. OrderInit => SoloInv
  BY DEF OrderInit, SoloInv, MayPlace, LiveOrder, Under
<1>2. AnswerInv /\ SoloInv => OrdersSafe
  BY SoloMeansOne DEF AnswerInv, SourceInv, SuccessInv, AnswersTrue, OrdersSafe
<1> QED BY <1>1, <1>2, AnswerInit, AnswerInvStep, SoloNext, PTL DEF OrderSpec

-----------------------------------------------------------------------------
(* Remote configuration.                                                    *)

RemoteTypes ==
  /\ seconds \in Times /\ version \in 1..MaxVersion
  /\ templates \in [1..MaxVersion -> [value : RemoteValues, until : Times \cup {Never}]]
  /\ overrides \in [value : {"none", "remote"}, from : 0..MaxVersion, loadedAt : Times \cup {Never}]
  /\ load \in [pc : {"none", "asked", "fetched"}, since : Times, got : 0..MaxVersion]
  /\ refresh \in Nat /\ starting \in BOOLEAN

\* A template that is published, or will be, has not been replaced.
PublishedInv == \A v \in 1..MaxVersion : v >= version => templates[v].until = Never

\* A load takes LoadTimeout at most, and what it has fetched was published after it began.
LoadInv ==
  /\ load.pc # "none" => load.since <= seconds /\ seconds <= load.since + LoadTimeout
  /\ load.pc = "fetched" =>
       /\ load.got \in 1..version
       /\ templates[load.got].until = Never \/ load.since <= templates[load.got].until

\* An override comes from a template that held the value one load before it was set.
OverrideInv ==
  overrides.value = "remote" =>
    /\ overrides.from \in 1..version /\ overrides.loadedAt \in 0..seconds
    /\ templates[overrides.from].value = "inside"
    /\ \/ templates[overrides.from].until = Never
       \/ overrides.loadedAt <= templates[overrides.from].until + LoadTimeout

RemoteInv == RemoteTypes /\ PublishedInv /\ LoadInv /\ OverrideInv

-----------------------------------------------------------------------------
LEMMA ClockFacts ==
  /\ LastSecond \in Nat /\ Never = LastSecond + 1 /\ Times = 0..LastSecond
  /\ RefreshInterval \in Nat /\ LoadTimeout \in Nat /\ MaxAge \in Nat /\ MaxVersion \in Nat
  /\ MaxVersion >= 1 /\ LoadTimeout >= 1
BY RemoteConfigAssumption DEF Never, Times

\* The records that stand for nothing.
LEMMA NothingType ==
  /\ NoOverride \in [value : {"none", "remote"}, from : 0..MaxVersion, loadedAt : Times \cup {Never}]
  /\ NoLoad \in [pc : {"none", "asked", "fetched"}, since : Times, got : 0..MaxVersion]
<1>1. 0 \in 0..MaxVersion /\ 0 \in Times
  BY ClockFacts
<1> QED BY <1>1 DEF NoOverride, NoLoad

LEMMA RemoteInvInit == RemoteInit => RemoteInv
<1> SUFFICES ASSUME RemoteInit PROVE RemoteInv
  OBVIOUS
<1>1. PICK value \in RemoteValues : templates = [v \in 1..MaxVersion |-> [value |-> value, until |-> Never]]
  BY DEF RemoteInit
<1>2. RemoteTypes
  <2>1. templates \in [1..MaxVersion -> [value : RemoteValues, until : Times \cup {Never}]]
    BY <1>1
  <2>2. 0 \in Times /\ 1 \in 1..MaxVersion /\ Never \in Nat
    BY ClockFacts
  <2>3. seconds \in Times /\ version \in 1..MaxVersion /\ refresh \in Nat
    BY <2>2 DEF RemoteInit
  <2>4. starting \in BOOLEAN
    BY DEF RemoteInit
  <2> QED BY <2>1, <2>3, <2>4, NothingType DEF RemoteInit, RemoteTypes
<1>3. PublishedInv
  BY <1>1 DEF PublishedInv
<1>4. LoadInv /\ OverrideInv
  BY DEF RemoteInit, LoadInv, OverrideInv, NoOverride, NoLoad
<1> QED BY <1>2, <1>3, <1>4 DEF RemoteInv

\* Nothing but the load, the refresh timer and the request to start changes.
LEMMA LoadStep ==
    ASSUME RemoteInv, LoadNow, UNCHANGED <<seconds, templates, version, overrides>>,
           refresh' \in Nat, starting' \in BOOLEAN
    PROVE  RemoteInv'
<1>1. RemoteTypes'
  BY ClockFacts DEF RemoteInv, RemoteTypes, LoadNow
<1>2. LoadInv'
  BY ClockFacts DEF RemoteInv, RemoteTypes, LoadInv, LoadNow
<1>3. PublishedInv' /\ OverrideInv'
  BY DEF RemoteInv, PublishedInv, OverrideInv
<1> QED BY <1>1, <1>2, <1>3 DEF RemoteInv

LEMMA LoadOverType ==
    ASSUME RemoteInv, LoadOver
    PROVE  /\ UNCHANGED <<seconds, templates, version>>
           /\ load' = NoLoad /\ refresh' \in Nat /\ starting' \in BOOLEAN
<1>1. seconds + RefreshInterval \in Nat /\ refresh \in Nat
  BY ClockFacts DEF RemoteInv, RemoteTypes
<1>2. refresh' \in Nat
  BY <1>1 DEF LoadOver
<1> QED BY <1>2 DEF LoadOver

\* A load is over, without overrides.
LEMMA LoadLost ==
    ASSUME RemoteInv, LoadOver, overrides' = NoOverride
    PROVE  RemoteInv'
<1>1. RemoteTypes'
  BY LoadOverType, NothingType DEF RemoteInv, RemoteTypes
<1>2. PublishedInv' /\ LoadInv' /\ OverrideInv'
  BY DEF RemoteInv, PublishedInv, LoadInv, OverrideInv, LoadOver, NoLoad, NoOverride
<1> QED BY <1>1, <1>2 DEF RemoteInv

LEMMA EvaluatedType ==
    ASSUME NEW v
    PROVE  /\ Evaluated(v).override \in {"none", "remote"}
           /\ Evaluated(v).override = "remote" => templates[v].value = "inside"
BY DEF Evaluated, ParsedValue

LEMMA LoadEndsStep == ASSUME RemoteInv, LoadEnds PROVE RemoteInv'
<1>1. /\ overrides' = [value |-> Evaluated(load.got).override, from |-> load.got, loadedAt |-> seconds]
      /\ LoadOver /\ load.pc = "fetched"
  BY DEF LoadEnds
<1>2. RemoteTypes'
  <2>1. load.got \in 0..MaxVersion /\ seconds \in Times \cup {Never}
    BY DEF RemoteInv, RemoteTypes
  <2>2. overrides' \in [value : {"none", "remote"}, from : 0..MaxVersion, loadedAt : Times \cup {Never}]
    BY <1>1, <2>1, EvaluatedType
  <2> QED BY <1>1, <2>2, LoadOverType, NothingType DEF RemoteInv, RemoteTypes
<1>3. PublishedInv' /\ LoadInv'
  BY <1>1 DEF RemoteInv, PublishedInv, LoadInv, LoadOver, NoLoad
<1>4. OverrideInv'
  <2> SUFFICES ASSUME overrides'.value = "remote"
               PROVE  /\ overrides'.from \in 1..version /\ overrides'.loadedAt \in 0..seconds
                      /\ templates[overrides'.from].value = "inside"
                      /\ \/ templates[overrides'.from].until = Never
                         \/ overrides'.loadedAt <= templates[overrides'.from].until + LoadTimeout
    BY <1>1 DEF OverrideInv, LoadOver
  <2>1. overrides'.from = load.got /\ overrides'.loadedAt = seconds /\ templates[load.got].value = "inside"
    BY <1>1, EvaluatedType
  <2>2. load.got \in 1..version /\ load.got \in 1..MaxVersion /\ seconds \in 0..seconds
    BY <1>1, ClockFacts DEF RemoteInv, RemoteTypes, LoadInv
  <2>3. templates[load.got].until = Never \/ seconds <= templates[load.got].until + LoadTimeout
    BY <1>1, <2>2, ClockFacts DEF RemoteInv, RemoteTypes, LoadInv
  <2> QED BY <2>1, <2>2, <2>3
<1> QED BY <1>2, <1>3, <1>4 DEF RemoteInv

LEMMA FetchStep == ASSUME RemoteInv, FetchTemplate PROVE RemoteInv'
<1>1. /\ load' = [load EXCEPT !.pc = "fetched", !.got = version] /\ load.pc = "asked"
      /\ UNCHANGED <<seconds, templates, version, overrides, refresh, starting>>
  BY DEF FetchTemplate
<1>2. version \in 1..MaxVersion /\ version \in 0..MaxVersion /\ version \in 1..version
  BY ClockFacts DEF RemoteInv, RemoteTypes
<1>3. /\ load' \in [pc : {"none", "asked", "fetched"}, since : Times, got : 0..MaxVersion]
      /\ load'.got = version /\ load'.since = load.since /\ load'.pc = "fetched"
  BY <1>1, <1>2 DEF RemoteInv, RemoteTypes
<1>5. RemoteTypes'
  BY <1>1, <1>3 DEF RemoteInv, RemoteTypes
<1>6. LoadInv'
  <2>1. templates[version].until = Never
    BY <1>2, ClockFacts DEF RemoteInv, PublishedInv
  <2> QED BY <1>1, <1>2, <1>3, <2>1 DEF RemoteInv, LoadInv
<1>4. PublishedInv' /\ OverrideInv'
  BY <1>1 DEF RemoteInv, PublishedInv, OverrideInv
<1> QED BY <1>4, <1>5, <1>6 DEF RemoteInv

LEMMA PublishStep == ASSUME RemoteInv, PublishTemplate PROVE RemoteInv'
<1>1. PICK value \in RemoteValues :
        templates' = [templates EXCEPT ![version].until = seconds, ![version + 1].value = value]
  BY DEF PublishTemplate
<1>2. /\ version < MaxVersion /\ version' = version + 1
      /\ UNCHANGED <<seconds, overrides, load, refresh, starting>>
  BY DEF PublishTemplate
<1>3. /\ version \in 1..MaxVersion /\ version + 1 \in 1..MaxVersion /\ version # version + 1
      /\ version \in Nat
  BY <1>2, ClockFacts DEF RemoteInv, RemoteTypes
<1>4. /\ templates'[version].until = seconds /\ templates'[version].value = templates[version].value
      /\ templates'[version + 1].until = templates[version + 1].until
      /\ \A v \in 1..MaxVersion : v # version /\ v # version + 1 => templates'[v] = templates[v]
  BY <1>1, <1>3 DEF RemoteInv, RemoteTypes
<1>5. RemoteTypes'
  BY <1>1, <1>2, <1>3 DEF RemoteInv, RemoteTypes
<1>6. PublishedInv'
  BY <1>2, <1>3, <1>4, ClockFacts DEF RemoteInv, PublishedInv
<1>7. LoadInv'
  <2>1. ASSUME load.pc = "fetched"
        PROVE  /\ load.got \in 1..(version + 1)
               /\ templates'[load.got].until = Never \/ load.since <= templates'[load.got].until
    <3>1. load.got \in 1..version /\ load.got \in 1..MaxVersion
      BY <1>3, <2>1, ClockFacts DEF RemoteInv, LoadInv
    <3>2. CASE load.got = version
      BY <1>3, <1>4, <2>1, <3>2, ClockFacts DEF RemoteInv, LoadInv
    <3>3. CASE load.got # version
      <4>1. templates'[load.got] = templates[load.got]
        BY <1>3, <1>4, <3>1, <3>3, ClockFacts
      <4> QED BY <1>3, <2>1, <3>1, <4>1, ClockFacts DEF RemoteInv, LoadInv
    <3> QED BY <3>2, <3>3
  <2> QED BY <1>2, <2>1 DEF RemoteInv, LoadInv
<1>8. OverrideInv'
  <2>1. ASSUME overrides.value = "remote"
        PROVE  /\ overrides.from \in 1..(version + 1) /\ overrides.loadedAt \in 0..seconds
               /\ templates'[overrides.from].value = "inside"
               /\ \/ templates'[overrides.from].until = Never
                  \/ overrides.loadedAt <= templates'[overrides.from].until + LoadTimeout
    <3>1. /\ overrides.from \in 1..version /\ overrides.from \in 1..MaxVersion
          /\ overrides.loadedAt \in 0..seconds
      BY <1>3, <2>1, ClockFacts DEF RemoteInv, OverrideInv
    <3>2. CASE overrides.from = version
      BY <1>3, <1>4, <2>1, <3>1, <3>2, ClockFacts DEF RemoteInv, OverrideInv, RemoteTypes
    <3>3. CASE overrides.from # version
      <4>1. templates'[overrides.from] = templates[overrides.from]
        BY <1>3, <1>4, <3>1, <3>3, ClockFacts
      <4> QED BY <1>3, <2>1, <3>1, <4>1, ClockFacts DEF RemoteInv, OverrideInv
    <3> QED BY <3>2, <3>3
  <2> QED BY <1>2, <2>1 DEF OverrideInv
<1> QED BY <1>5, <1>6, <1>7, <1>8 DEF RemoteInv

LEMMA SecondStep == ASSUME RemoteInv, RemoteTick PROVE RemoteInv'
<1>1. /\ seconds < LastSecond /\ seconds' = seconds + 1
      /\ load.pc # "none" => seconds < load.since + LoadTimeout
      /\ UNCHANGED <<templates, version, overrides, load, refresh, starting>>
  BY DEF RemoteTick
<1>2. RemoteTypes'
  BY <1>1, ClockFacts DEF RemoteInv, RemoteTypes
<1>3. LoadInv'
  <2>1. seconds \in Nat /\ load.since \in Nat
    BY ClockFacts DEF RemoteInv, RemoteTypes
  <2> QED BY <1>1, <2>1, ClockFacts DEF RemoteInv, LoadInv
<1>4. PublishedInv' /\ OverrideInv'
  BY <1>1, ClockFacts DEF RemoteInv, RemoteTypes, PublishedInv, OverrideInv
<1> QED BY <1>2, <1>3, <1>4 DEF RemoteInv

LEMMA RemoteInvStep == RemoteInv /\ [RemoteNext]_remoteVars => RemoteInv'
<1> SUFFICES ASSUME RemoteInv, [RemoteNext]_remoteVars PROVE RemoteInv'
  OBVIOUS
<1>1. Never \in Nat /\ seconds + RefreshInterval \in Nat
  BY ClockFacts DEF RemoteInv, RemoteTypes
<1>2. CASE StartRemoteConfig
  BY <1>1, <1>2, LoadStep DEF StartRemoteConfig
<1>3. CASE FetchTemplate
  BY <1>3, FetchStep
<1>4. CASE LoadEnds
  BY <1>4, LoadEndsStep
<1>5. CASE LoadFails \/ LoadTimesOut
  BY <1>5, LoadLost DEF LoadFails, LoadTimesOut
<1>6. CASE Refresh
  BY <1>1, <1>6, LoadStep DEF Refresh, RemoteInv, RemoteTypes
<1>7. CASE StopRefresh \/ UNCHANGED remoteVars
  BY <1>1, <1>7 DEF StopRefresh, remoteVars, RemoteInv, RemoteTypes, PublishedInv, LoadInv, OverrideInv
<1>8. CASE PublishTemplate
  BY <1>8, PublishStep
<1>9. CASE RemoteTick
  BY <1>9, SecondStep
<1> QED BY <1>2, <1>3, <1>4, <1>5, <1>6, <1>7, <1>8, <1>9 DEF RemoteNext

\* A remote value in use is one the schema accepts and that a template held less than
\* MaxAge and one load ago (getRuntimeConfig, loadNow).
THEOREM OverridesAreFresh == RemoteSpec => []OverridesFresh
<1>1. ASSUME RemoteInv, RuntimeValue = "remote"
      PROVE  /\ templates[overrides.from].value = "inside"
             /\ \/ templates[overrides.from].until = Never
                \/ seconds <= templates[overrides.from].until + LoadTimeout + MaxAge
  <2>1. hasFreshRemoteConfig /\ overrides.value = "remote"
    BY <1>1 DEF RuntimeValue
  <2>2. /\ overrides.from \in 1..version /\ overrides.loadedAt \in 0..seconds
        /\ templates[overrides.from].value = "inside"
        /\ \/ templates[overrides.from].until = Never
           \/ overrides.loadedAt <= templates[overrides.from].until + LoadTimeout
    BY <1>1, <2>1 DEF RemoteInv, OverrideInv
  <2>3. overrides.from \in 1..MaxVersion
    BY <1>1, <2>2, ClockFacts DEF RemoteInv, RemoteTypes
  <2>4. templates[overrides.from].until \in Nat /\ overrides.loadedAt \in Nat /\ seconds \in Nat
    BY <1>1, <2>2, <2>3, ClockFacts DEF RemoteInv, RemoteTypes
  <2>5. seconds <= overrides.loadedAt + MaxAge
    BY <2>1, <2>4, ClockFacts DEF hasFreshRemoteConfig
  <2> DEFINE until == templates[overrides.from].until
             loadedAt == overrides.loadedAt
  <2>6. /\ until \in Nat /\ loadedAt \in Nat /\ seconds \in Nat /\ seconds <= loadedAt + MaxAge
        /\ until = Never \/ loadedAt <= until + LoadTimeout
    BY <2>2, <2>4, <2>5
  <2> HIDE DEF until, loadedAt
  <2>7. until = Never \/ seconds <= until + LoadTimeout + MaxAge
    BY <2>6, ClockFacts
  <2> QED BY <2>2, <2>7 DEF until
<1>2. ASSUME RemoteInv PROVE (SourceShown = "remote") = (RuntimeValue = "remote")
  <2>1. overrides.value \in {"none", "remote"}
    BY <1>2 DEF RemoteInv, RemoteTypes
  <2> QED BY <2>1 DEF SourceShown, RuntimeValue
<1>3. RemoteInv => OverridesFresh
  <2> SUFFICES ASSUME RemoteInv PROVE OverridesFresh
    OBVIOUS
  <2>1. RuntimeValue = "remote" =>
          /\ templates[overrides.from].value = "inside"
          /\ \/ templates[overrides.from].until = Never
             \/ seconds <= templates[overrides.from].until + LoadTimeout + MaxAge
    BY <1>1
  <2> QED BY <1>2, <2>1 DEF OverridesFresh
<1> QED BY <1>3, RemoteInvInit, RemoteInvStep, PTL DEF RemoteSpec

-----------------------------------------------------------------------------
(* The outcomes of signals.                                                 *)

Sweeps == [on : BOOLEAN, cursor : 0..SignalCount, todo : SUBSET Signals,
           read : [Signals -> SignalDocument], now : [Signals -> 0..WindowCount],
           writing : BOOLEAN, cut : BOOLEAN]

\* A sweep under way has a document to deal with.
TypeInv ==
  /\ outcomes \in [Signals -> SignalDocument]
  /\ matured \in [Signals -> 0..WindowCount]
  /\ sweep \in [Sweepers -> Sweeps]
  /\ \A p \in Sweepers : sweep[p].on = TRUE => sweep[p].todo # {}

\* A copy of a document has every outcome that the document has.
Covers(copy, s) ==
  \A w \in Windows : outcomes[s].window[w] # "pending" => copy.window[w] = outcomes[s].window[w]

\* The copies a sweep still has to write are of recorded documents, and cover them.
Current(r) ==
  r.on = TRUE =>
    \A s \in r.todo : outcomes[s].recorded = TRUE /\ Covers(r.read[s], s)

OutcomeInv == TypeInv /\ \A p \in Sweepers : Current(sweep[p])

-----------------------------------------------------------------------------
LEMMA MinIsIn == ASSUME NEW T \in SUBSET Signals, T # {} PROVE Min(T) \in T
<1>1. T \subseteq Nat
  BY DEF Signals
<1> DEFINE Less == {pair \in Nat \X Nat : pair[1] < pair[2]}
<1>2. IsWellFoundedOn(Less, Nat)
  BY NatLessThanWellFounded DEF OpToRel
<1> HIDE DEF Less
<1>3. \E x \in T : \A y \in T : ~(<<y, x>> \in Less)
  BY <1>1, <1>2, WFMin
<1>4. \A x, y \in T : <<y, x>> \notin Less => x =< y
  BY <1>1 DEF Less
<1>5. \E x \in T : \A y \in T : x =< y
  BY <1>3, <1>4
<1> QED BY <1>5 DEF Min

\* Only one process evaluates outcomes.
OneEvaluator == \A p, q \in Sweepers : p = q

LEMMA NothingTypes == NoSignal \in SignalDocument /\ NoSweep \in Sweeps
<1>1. NoSignal \in SignalDocument
  BY DEF NoSignal, SignalDocument, OutcomeStates
<1>2. [s \in Signals |-> NoSignal] \in [Signals -> SignalDocument]
  BY <1>1
<1>3. 0 \in 0..SignalCount /\ 0 \in 0..WindowCount
  BY OutcomeAssumption
<1> QED BY <1>1, <1>2, <1>3 DEF NoSweep, Sweeps

LEMMA OutcomeInvInit == OutcomeInit => OutcomeInv
<1> SUFFICES ASSUME OutcomeInit PROVE OutcomeInv
  OBVIOUS
<1>1. /\ outcomes \in [Signals -> SignalDocument] /\ matured \in [Signals -> 0..WindowCount]
      /\ sweep \in [Sweepers -> Sweeps] /\ \A p \in Sweepers : sweep[p] = NoSweep
  BY NothingTypes, OutcomeAssumption DEF OutcomeInit
<1>2. \A p \in Sweepers : sweep[p].on = FALSE /\ Current(sweep[p])
  BY <1>1 DEF Current, NoSweep
<1> QED BY <1>1, <1>2 DEF OutcomeInv, TypeInv

\* A sweep moves and the collection stays.
LEMMA SweepMoves ==
    ASSUME TypeInv, NEW p \in Sweepers, NEW r \in Sweeps, r.on = TRUE => r.todo # {},
           sweep' = [sweep EXCEPT ![p] = r], UNCHANGED <<outcomes, matured>>
    PROVE  TypeInv' /\ (OutcomeInv /\ Current(r) => OutcomeInv')
<1>1. /\ sweep' \in [Sweepers -> Sweeps] /\ sweep'[p] = r
      /\ \A q \in Sweepers : q # p => sweep'[q] = sweep[q]
  BY DEF TypeInv
<1>2. TypeInv'
  BY <1>1 DEF TypeInv
<1>3. ASSUME OutcomeInv, Current(r) PROVE \A q \in Sweepers : Current(sweep[q])'
  <2>1. \A q \in Sweepers : Current(sweep'[q])
    BY <1>1, <1>3 DEF OutcomeInv
  <2> QED BY <2>1 DEF Current, Covers
<1> QED BY <1>2, <1>3 DEF OutcomeInv

\* The rest of a sweep covers what it covered.
LEMMA AdvanceType ==
    ASSUME TypeInv, NEW p \in Sweepers, NEW s \in Signals, NEW cut
    PROVE  /\ AdvanceSweep(p, s, cut) \in Sweeps
           /\ AdvanceSweep(p, s, cut).on = TRUE =>
                /\ AdvanceSweep(p, s, cut).todo # {}
                /\ AdvanceSweep(p, s, cut).todo \subseteq sweep[p].todo \ {s}
                /\ AdvanceSweep(p, s, cut).read = sweep[p].read /\ sweep[p].on = TRUE
<1> DEFINE rest == sweep[p].todo \ {s}
           cursor == IF cut THEN sweep[p].cursor ELSE s
           r == AdvanceSweep(p, s, cut)
<1>1. sweep[p] \in Sweeps /\ cursor \in 0..SignalCount /\ rest \in SUBSET Signals
  BY OutcomeAssumption DEF TypeInv, Sweeps, Signals
<1>2. CASE cut \/ rest = {}
  <2>1. r = [NoSweep EXCEPT !.cursor = cursor]
    BY <1>2 DEF AdvanceSweep
  <2> HIDE DEF r, cursor
  <2>2. r \in Sweeps /\ r.on = NoSweep.on
    BY <1>1, <2>1, NothingTypes DEF Sweeps
  <2>3. NoSweep.on = FALSE
    BY DEF NoSweep
  <2> QED BY <2>2, <2>3 DEF r
<1>3. CASE ~(cut \/ rest = {})
  <2>1. r = [sweep[p] EXCEPT !.cursor = cursor, !.todo = rest, !.writing = FALSE]
    BY <1>3 DEF AdvanceSweep
  <2> HIDE DEF r, cursor
  <2>2. r \in Sweeps
    BY <1>1, <2>1 DEF Sweeps
  <2>3. r.todo = rest /\ r.read = sweep[p].read /\ r.on = sweep[p].on
    BY <1>1, <2>1 DEF Sweeps
  <2> QED BY <1>3, <2>2, <2>3 DEF r
<1> QED BY <1>2, <1>3

\* The copy of one document changes, and keeps the outcomes it has.
LEMMA CopyChanges ==
    ASSUME TypeInv, NEW p \in Sweepers, sweep[p].on = TRUE,
           NEW s \in Signals, NEW copy \in SignalDocument,
           \A w \in Windows :
             sweep[p].read[s].window[w] # "pending" => copy.window[w] = sweep[p].read[s].window[w],
           NEW cut \in BOOLEAN,
           sweep' = [sweep EXCEPT ![p].writing = TRUE, ![p].cut = cut, ![p].read[s] = copy],
           UNCHANGED <<outcomes, matured>>
    PROVE  TypeInv' /\ (OutcomeInv => OutcomeInv')
<1> DEFINE read == [sweep[p].read EXCEPT ![s] = copy]
           r == [sweep[p] EXCEPT !.writing = TRUE, !.cut = cut, !.read = read]
<1>1. /\ sweep \in [Sweepers -> Sweeps] /\ sweep[p] \in Sweeps /\ sweep[p].todo # {}
      /\ sweep[p].read \in [Signals -> SignalDocument]
  BY DEF TypeInv, Sweeps
<1>2. sweep' = [sweep EXCEPT ![p] = r]
  BY <1>1
<1>3. /\ read \in [Signals -> SignalDocument] /\ read[s] = copy
      /\ \A t \in Signals : t # s => read[t] = sweep[p].read[t]
  BY <1>1
<1> HIDE DEF read
<1>4. r \in Sweeps /\ r.read = read /\ r.todo = sweep[p].todo /\ r.on = sweep[p].on
  BY <1>1, <1>3 DEF Sweeps
<1> HIDE DEF r
<1>5. ASSUME OutcomeInv PROVE Current(r)
  <2> SUFFICES ASSUME NEW t \in r.todo PROVE outcomes[t].recorded = TRUE /\ Covers(read[t], t)
    BY <1>4 DEF Current
  <2>1. outcomes[t].recorded = TRUE /\ Covers(sweep[p].read[t], t) /\ t \in Signals
    BY <1>1, <1>4, <1>5 DEF OutcomeInv, Current, Sweeps
  <2>2. CASE t = s
    BY <1>3, <2>1, <2>2 DEF Covers
  <2>3. CASE t # s
    BY <1>3, <2>1, <2>3
  <2> QED BY <2>1, <2>2, <2>3
<1> QED BY <1>1, <1>2, <1>4, <1>5, SweepMoves

-----------------------------------------------------------------------------
LEMMA RecordStep ==
    ASSUME TypeInv, NEW s \in Signals, RecordSignal(s)
    PROVE  TypeInv' /\ (OutcomeInv => OutcomeInv')
<1>1. PICK st \in {"pending", "unavailable"} :
        outcomes' = [outcomes EXCEPT ![s] = [recorded |-> TRUE, evaluated |-> st # "pending",
                                             window |-> [w \in Windows |-> st]]]
  BY DEF RecordSignal
<1>2. ~outcomes[s].recorded /\ UNCHANGED <<matured, sweep>>
  BY DEF RecordSignal
<1>3. [recorded |-> TRUE, evaluated |-> st # "pending", window |-> [w \in Windows |-> st]] \in SignalDocument
  BY DEF SignalDocument, OutcomeStates
<1>4. /\ outcomes' \in [Signals -> SignalDocument]
      /\ \A t \in Signals : t # s => outcomes'[t] = outcomes[t]
  BY <1>1, <1>3 DEF TypeInv
<1>5. ASSUME OutcomeInv, NEW p \in Sweepers PROVE Current(sweep[p])'
  <2>1. s \notin sweep[p].todo \/ sweep[p].on # TRUE
    BY <1>2, <1>5 DEF OutcomeInv, Current
  <2>2. sweep[p].todo \subseteq Signals
    BY DEF TypeInv, Sweeps
  <2> QED BY <1>2, <1>4, <1>5, <2>1, <2>2 DEF OutcomeInv, Current, Covers
<1>6. TypeInv'
  BY <1>2, <1>4 DEF TypeInv
<1> QED BY <1>5, <1>6 DEF OutcomeInv

LEMMA MatureStep ==
    ASSUME TypeInv, NEW s \in Signals, Mature(s)
    PROVE  TypeInv' /\ (OutcomeInv => OutcomeInv')
<1>1. /\ matured' = [matured EXCEPT ![s] = @ + 1] /\ matured[s] < WindowCount
      /\ UNCHANGED <<outcomes, sweep>>
  BY DEF Mature
<1>2. matured' \in [Signals -> 0..WindowCount]
  BY <1>1, OutcomeAssumption DEF TypeInv
<1>3. TypeInv'
  BY <1>1, <1>2 DEF TypeInv
<1> QED BY <1>1, <1>3 DEF OutcomeInv, Current, Covers

LEMMA StartStep ==
    ASSUME TypeInv, NEW p \in Sweepers, StartSweep(p)
    PROVE  TypeInv' /\ (OutcomeInv => OutcomeInv')
<1> DEFINE c == IF BatchAfter(sweep[p].cursor) = {} THEN 0 ELSE sweep[p].cursor
           r == SweepFrom(c, BatchAfter(c))
<1>1. sweep' = [sweep EXCEPT ![p] = r] /\ BatchAfter(c) # {} /\ UNCHANGED <<outcomes, matured>>
  BY DEF StartSweep
<1>2. c \in 0..SignalCount
  BY OutcomeAssumption DEF TypeInv, Sweeps
<1> HIDE DEF c
<1>3. /\ BatchAfter(c) \in SUBSET Signals
      /\ \A s \in BatchAfter(c) : outcomes[s].recorded = TRUE
  <2>1. \A s \in Signals : outcomes[s].recorded \in BOOLEAN
    BY DEF TypeInv, SignalDocument
  <2> QED BY <2>1 DEF BatchAfter, OpenAfter
<1>4. /\ r \in Sweeps /\ r.todo = BatchAfter(c) /\ r.read = outcomes
  BY <1>2, <1>3, NothingTypes DEF SweepFrom, Sweeps, TypeInv
<1> HIDE DEF r
<1>5. Current(r)
  BY <1>1, <1>3, <1>4 DEF Current, Covers
<1> QED BY <1>1, <1>4, <1>5, SweepMoves

LEMMA EvaluateStep ==
    ASSUME TypeInv, NEW p \in Sweepers, EvaluateNext(p)
    PROVE  TypeInv' /\ (OutcomeInv => OutcomeInv')
<1> DEFINE s == Min(sweep[p].todo)
           doc == sweep[p].read[s]
           due == DueWindows(doc, sweep[p].now[s])
<1>1. PICK answer \in [due -> MarketAnswers], last \in Windows \cup {0} :
        LET cut == last # WindowCount
            reached == {w \in due : w <= last}
            new == [doc EXCEPT !.window =
                     [w \in Windows |-> IF w \in reached THEN OutcomeOf(s, answer[w]) ELSE @[w]]]
        IN sweep' = [sweep EXCEPT ![p] =
             IF new # doc
             THEN [@ EXCEPT !.read[s] = [new EXCEPT !.evaluated = Resolved(new)],
                            !.writing = TRUE, !.cut = cut]
             ELSE AdvanceSweep(p, s, cut)]
  BY DEF EvaluateNext
<1> DEFINE cut == last # WindowCount
           reached == {w \in due : w <= last}
           window == [w \in Windows |-> IF w \in reached THEN OutcomeOf(s, answer[w]) ELSE doc.window[w]]
           new == [doc EXCEPT !.window = window]
           copy == [new EXCEPT !.evaluated = Resolved(new)]
<1>2. sweep[p].on = TRUE /\ UNCHANGED <<outcomes, matured>>
  BY DEF EvaluateNext, TypeInv, Sweeps
<1>3. s \in Signals /\ s \in sweep[p].todo /\ doc \in SignalDocument /\ sweep[p] \in Sweeps
  <2>1. sweep[p] \in Sweeps /\ sweep[p].todo # {}
    BY <1>2 DEF TypeInv
  <2>2. sweep[p].todo \in SUBSET Signals /\ sweep[p].read \in [Signals -> SignalDocument]
    BY <2>1 DEF Sweeps
  <2>3. s \in sweep[p].todo
    BY <2>1, <2>2, MinIsIn
  <2> QED BY <2>1, <2>2, <2>3
<1>4. CASE new # doc
  <2>1. sweep' = [sweep EXCEPT ![p].writing = TRUE, ![p].cut = cut, ![p].read[s] = copy]
    BY <1>1, <1>4, Zenon DEF TypeInv
  <2>2. window \in [Windows -> OutcomeStates]
    <3>1. \A a : OutcomeOf(s, a) \in OutcomeStates
      BY DEF OutcomeOf, OutcomeStates
    <3>2. doc.window \in [Windows -> OutcomeStates]
      BY <1>3 DEF SignalDocument
    <3> QED BY <3>1, <3>2
  <2>3. \A w \in Windows : doc.window[w] # "pending" => window[w] = doc.window[w]
    BY DEF DueWindows
  <2> HIDE DEF window
  <2>4. new \in SignalDocument /\ new.window = window
    BY <1>3, <2>2 DEF SignalDocument
  <2> HIDE DEF new
  <2>5. Resolved(new) \in BOOLEAN
    BY DEF Resolved
  <2>6. copy \in SignalDocument /\ copy.window = window
    BY <2>4, <2>5 DEF SignalDocument
  <2>7. cut \in BOOLEAN
    OBVIOUS
  <2> HIDE DEF copy, cut
  <2>8. \A w \in Windows :
          sweep[p].read[s].window[w] # "pending" => copy.window[w] = sweep[p].read[s].window[w]
    BY <2>3, <2>6
  <2> HIDE DEF doc, s
  <2> QED BY <1>2, <1>3, <2>1, <2>6, <2>7, <2>8, CopyChanges, Zenon
<1>5. CASE new = doc
  <2> DEFINE r == AdvanceSweep(p, s, cut)
  <2>1. sweep' = [sweep EXCEPT ![p] = r]
    BY <1>1, <1>5, Zenon
  <2> HIDE DEF s, cut, doc, new
  <2>2. /\ AdvanceSweep(p, s, cut) \in Sweeps
        /\ AdvanceSweep(p, s, cut).on = TRUE =>
             /\ AdvanceSweep(p, s, cut).todo # {}
             /\ AdvanceSweep(p, s, cut).todo \subseteq sweep[p].todo \ {s}
             /\ AdvanceSweep(p, s, cut).read = sweep[p].read /\ sweep[p].on = TRUE
    BY <1>3, AdvanceType
  <2>3. /\ r \in Sweeps
        /\ r.on = TRUE => /\ r.todo # {} /\ r.todo \subseteq sweep[p].todo
                         /\ r.read = sweep[p].read /\ sweep[p].on = TRUE
    BY <2>2
  <2> HIDE DEF r
  <2>4. OutcomeInv => Current(r)
    BY <2>3 DEF OutcomeInv, Current
  <2> QED BY <1>2, <2>1, <2>3, <2>4, SweepMoves
<1> QED BY <1>4, <1>5

LEMMA CloseStep ==
    ASSUME TypeInv, NEW p \in Sweepers, CloseSignal(p)
    PROVE  TypeInv' /\ (OutcomeInv => OutcomeInv')
<1> DEFINE s == Min(sweep[p].todo)
           open == {w \in Windows : sweep[p].read[s].window[w] = "pending"}
           window == [w \in Windows |-> IF w \in open THEN "unavailable" ELSE sweep[p].read[s].window[w]]
           closed == [sweep[p].read[s] EXCEPT !.evaluated = TRUE, !.window = window]
<1>1. /\ sweep' = [sweep EXCEPT ![p].writing = TRUE, ![p].cut = FALSE, ![p].read[s] = closed]
      /\ UNCHANGED <<outcomes, matured>>
  BY DEF CloseSignal
<1>2. sweep[p].on = TRUE
  BY DEF CloseSignal, TypeInv, Sweeps
<1>3. s \in Signals /\ sweep[p].read[s] \in SignalDocument
  <2>1. sweep[p] \in Sweeps /\ sweep[p].todo # {}
    BY <1>2 DEF TypeInv
  <2>2. sweep[p].todo \in SUBSET Signals /\ sweep[p].read \in [Signals -> SignalDocument]
    BY <2>1 DEF Sweeps
  <2> QED BY <2>1, <2>2, MinIsIn
<1>4. /\ window \in [Windows -> OutcomeStates]
      /\ \A w \in Windows :
           sweep[p].read[s].window[w] # "pending" => window[w] = sweep[p].read[s].window[w]
  BY <1>3 DEF SignalDocument, OutcomeStates
<1> HIDE DEF window, s
<1>5. closed \in SignalDocument /\ closed.window = window
  BY <1>3, <1>4 DEF SignalDocument
<1> HIDE DEF closed
<1>6. FALSE \in BOOLEAN
  OBVIOUS
<1>7. \A w \in Windows :
        sweep[p].read[s].window[w] # "pending" => closed.window[w] = sweep[p].read[s].window[w]
  BY <1>4, <1>5
<1> QED BY <1>1, <1>2, <1>3, <1>5, <1>6, <1>7, CopyChanges

LEMMA EndStep ==
    ASSUME TypeInv, NEW p \in Sweepers, HaltSweep(p) \/ RestartSweeper(p)
    PROVE  TypeInv' /\ (OutcomeInv => OutcomeInv')
<1> DEFINE halted == [NoSweep EXCEPT !.cursor = sweep[p].cursor]
<1>1. halted \in Sweeps /\ halted.on = FALSE /\ NoSweep.on = FALSE
  <2>1. sweep[p].cursor \in 0..SignalCount
    BY DEF TypeInv, Sweeps
  <2>2. NoSweep.on = FALSE
    BY DEF NoSweep
  <2> QED BY <2>1, <2>2, NothingTypes DEF Sweeps
<1> HIDE DEF halted
<1>2. Current(halted) /\ Current(NoSweep)
  BY <1>1 DEF Current
<1>3. sweep' = [sweep EXCEPT ![p] = halted] \/ sweep' = [sweep EXCEPT ![p] = NoSweep]
  BY DEF HaltSweep, RestartSweeper, halted
<1>4. UNCHANGED <<outcomes, matured>>
  BY DEF HaltSweep, RestartSweeper
<1> QED BY <1>1, <1>2, <1>3, <1>4, NothingTypes, SweepMoves

\* What a write does to the collection: it adds outcomes and replaces none.
LEMMA WriteFacts ==
    ASSUME TypeInv, NEW p \in Sweepers, WriteOutcomes(p)
    PROVE  LET s == Min(sweep[p].todo) IN
           /\ s \in Signals /\ s \in sweep[p].todo /\ sweep[p].on = TRUE /\ sweep[p].cut \in BOOLEAN
           /\ outcomes' \in [Signals -> SignalDocument]
           /\ \A t \in Signals : t # s => outcomes'[t] = outcomes[t]
           /\ OutcomeInv =>
                \A w \in Windows :
                  outcomes[s].window[w] # "pending" => outcomes'[s].window[w] = outcomes[s].window[w]
           /\ \/ sweep' = [sweep EXCEPT ![p] = AdvanceSweep(p, s, sweep[p].cut)]
              \/ sweep' = [sweep EXCEPT ![p] = [NoSweep EXCEPT !.cursor = sweep[p].cursor]]
           /\ UNCHANGED matured
<1> DEFINE s == Min(sweep[p].todo)
           copy == sweep[p].read[s]
           written == [outcomes EXCEPT ![s].window = copy.window, ![s].evaluated = @ \/ copy.evaluated]
<1>1. sweep[p].on = TRUE /\ sweep[p] \in Sweeps /\ sweep[p].cut \in BOOLEAN
  BY DEF WriteOutcomes, TypeInv, Sweeps
<1>2. /\ s \in Signals /\ s \in sweep[p].todo /\ copy \in SignalDocument
      /\ outcomes[s] \in SignalDocument /\ (OutcomeInv => Covers(copy, s))
  <2>1. sweep[p].todo # {} /\ sweep[p].todo \in SUBSET Signals
    BY <1>1 DEF TypeInv, Sweeps
  <2>2. s \in sweep[p].todo
    BY <2>1, MinIsIn
  <2> QED BY <1>1, <2>1, <2>2 DEF OutcomeInv, TypeInv, Current, Sweeps
<1>3. outcomes' = written \/ outcomes' = outcomes
  BY DEF WriteOutcomes
<1>4. /\ \/ sweep' = [sweep EXCEPT ![p] = AdvanceSweep(p, s, sweep[p].cut)]
         \/ sweep' = [sweep EXCEPT ![p] = [NoSweep EXCEPT !.cursor = sweep[p].cursor]]
      /\ UNCHANGED matured
  BY DEF WriteOutcomes
<1> HIDE DEF s, copy
<1> DEFINE document == [outcomes[s] EXCEPT !.window = copy.window,
                                           !.evaluated = outcomes[s].evaluated \/ copy.evaluated]
<1>5. outcomes \in [Signals -> SignalDocument] /\ written = [outcomes EXCEPT ![s] = document]
  BY <1>2 DEF TypeInv
<1>6. document \in SignalDocument /\ document.window = copy.window
  <2>1. (outcomes[s].evaluated \/ copy.evaluated) \in BOOLEAN
    OBVIOUS
  <2>2. copy.window \in [Windows -> OutcomeStates]
    BY <1>2 DEF SignalDocument
  <2> QED BY <1>2, <2>1, <2>2 DEF SignalDocument
<1> HIDE DEF document
<1>7. /\ written \in [Signals -> SignalDocument] /\ written[s].window = copy.window
      /\ \A t \in Signals : t # s => written[t] = outcomes[t]
  BY <1>2, <1>5, <1>6
<1> HIDE DEF written
<1>8. /\ outcomes' \in [Signals -> SignalDocument]
      /\ \A t \in Signals : t # s => outcomes'[t] = outcomes[t]
      /\ OutcomeInv =>
           \A w \in Windows :
             outcomes[s].window[w] # "pending" => outcomes'[s].window[w] = outcomes[s].window[w]
  BY <1>2, <1>3, <1>5, <1>7 DEF Covers
<1> QED BY <1>1, <1>2, <1>4, <1>8 DEF s

LEMMA WriteStep ==
    ASSUME TypeInv, NEW p \in Sweepers, WriteOutcomes(p)
    PROVE  TypeInv' /\ (OneEvaluator /\ OutcomeInv => OutcomeInv')
<1> DEFINE s == Min(sweep[p].todo)
           advanced == AdvanceSweep(p, s, sweep[p].cut)
           ended == [NoSweep EXCEPT !.cursor = sweep[p].cursor]
<1>1. /\ s \in Signals /\ sweep[p].cut \in BOOLEAN
      /\ outcomes' \in [Signals -> SignalDocument]
      /\ \A t \in Signals : t # s => outcomes'[t] = outcomes[t]
      /\ sweep' = [sweep EXCEPT ![p] = advanced] \/ sweep' = [sweep EXCEPT ![p] = ended]
      /\ UNCHANGED matured
  BY WriteFacts
<1>2. /\ advanced \in Sweeps
      /\ advanced.on = TRUE =>
           /\ advanced.todo # {} /\ advanced.todo \subseteq sweep[p].todo \ {s}
           /\ advanced.read = sweep[p].read /\ sweep[p].on = TRUE
  <2> DEFINE cut == sweep[p].cut
  <2>1. s \in Signals /\ cut \in BOOLEAN /\ advanced = AdvanceSweep(p, s, cut)
    BY <1>1, Zenon
  <2> HIDE DEF s, advanced, cut
  <2>2. /\ AdvanceSweep(p, s, cut) \in Sweeps
        /\ AdvanceSweep(p, s, cut).on = TRUE =>
             /\ AdvanceSweep(p, s, cut).todo # {}
             /\ AdvanceSweep(p, s, cut).todo \subseteq sweep[p].todo \ {s}
             /\ AdvanceSweep(p, s, cut).read = sweep[p].read /\ sweep[p].on = TRUE
    BY <2>1, AdvanceType
  <2> QED BY <2>1, <2>2
<1>3. ended \in Sweeps /\ ended.on = FALSE
  <2>1. sweep[p].cursor \in 0..SignalCount
    BY DEF TypeInv, Sweeps
  <2>2. NoSweep.on = FALSE
    BY DEF NoSweep
  <2> QED BY <2>1, <2>2, NothingTypes DEF Sweeps
<1> HIDE DEF s, advanced, ended
<1>4. PICK r \in {advanced, ended} : sweep' = [sweep EXCEPT ![p] = r]
  BY <1>1
<1>5. /\ r \in Sweeps /\ sweep' \in [Sweepers -> Sweeps] /\ sweep'[p] = r
      /\ \A q \in Sweepers : q # p => sweep'[q] = sweep[q]
  BY <1>2, <1>3, <1>4 DEF TypeInv
<1>6. r.on = TRUE =>
        r.todo # {} /\ r.todo \subseteq sweep[p].todo \ {s} /\ r.read = sweep[p].read /\ sweep[p].on = TRUE
  BY <1>2, <1>3, <1>4
<1>7. TypeInv'
  BY <1>1, <1>5, <1>6 DEF TypeInv
<1>8. ASSUME OneEvaluator, OutcomeInv, NEW q \in Sweepers PROVE Current(sweep[q])'
  <2>1. sweep'[q] = r
    BY <1>5, <1>8 DEF OneEvaluator
  <2> SUFFICES ASSUME r.on = TRUE, NEW t \in r.todo
               PROVE  outcomes'[t].recorded = TRUE /\ Covers(r.read[t], t)'
    BY <2>1 DEF Current
  <2>2. t \in sweep[p].todo /\ t # s /\ r.read[t] = sweep[p].read[t] /\ sweep[p].on = TRUE
    BY <1>6
  <2>3. t \in Signals
    BY <2>2 DEF TypeInv, Sweeps
  <2>4. outcomes'[t] = outcomes[t]
    BY <1>1, <2>2, <2>3
  <2> QED BY <1>8, <2>2, <2>4 DEF OutcomeInv, Current, Covers
<1> QED BY <1>7, <1>8 DEF OutcomeInv

-----------------------------------------------------------------------------
LEMMA OutcomeStep ==
    ASSUME TypeInv, [OutcomeNext]_outcomeVars
    PROVE  TypeInv' /\ (OneEvaluator /\ OutcomeInv => OutcomeInv')
<1>1. ASSUME NEW s \in Signals, RecordSignal(s) \/ Mature(s)
      PROVE  TypeInv' /\ (OutcomeInv => OutcomeInv')
  BY <1>1, RecordStep, MatureStep
<1>2. ASSUME NEW p \in Sweepers,
             \/ StartSweep(p) \/ EvaluateNext(p) \/ CloseSignal(p) \/ WriteOutcomes(p)
             \/ HaltSweep(p) \/ RestartSweeper(p)
      PROVE  TypeInv' /\ (OneEvaluator /\ OutcomeInv => OutcomeInv')
  BY <1>2, StartStep, EvaluateStep, CloseStep, WriteStep, EndStep
<1>3. CASE UNCHANGED outcomeVars
  BY <1>3 DEF outcomeVars, OutcomeInv, TypeInv, Current, Covers
<1> QED BY <1>1, <1>2, <1>3 DEF OutcomeNext

\* The collection, what a sweep has read of it and where it stands are of their types,
\* however many processes evaluate: a sweep under way has a document to deal with.
THEOREM OutcomesTypeCorrect == OutcomeSpec => []OutcomeTypeOK
<1>1. TypeInv => OutcomeTypeOK
  BY DEF TypeInv, Sweeps, OutcomeTypeOK
<1>2. OutcomeInit => TypeInv
  BY OutcomeInvInit DEF OutcomeInv
<1>3. TypeInv /\ [OutcomeNext]_outcomeVars => TypeInv'
  BY OutcomeStep
<1> QED BY <1>1, <1>2, <1>3, PTL DEF OutcomeSpec

\* A step leaves an outcome that is there.
LEMMA FoundStays ==
    ASSUME OutcomeInv, OutcomeNext \/ UNCHANGED outcomeVars, NEW s \in Signals, NEW w \in Windows,
           outcomes[s].recorded, outcomes[s].window[w] # "pending"
    PROVE  outcomes'[s].window[w] = outcomes[s].window[w]
<1>1. ASSUME NEW t \in Signals, RecordSignal(t)
      PROVE  outcomes'[s].window[w] = outcomes[s].window[w]
  <2>1. PICK d : outcomes' = [outcomes EXCEPT ![t] = d]
    BY <1>1 DEF RecordSignal
  <2>2. s # t
    BY <1>1 DEF RecordSignal
  <2> QED BY <2>1, <2>2 DEF OutcomeInv, TypeInv
<1>2. ASSUME NEW p \in Sweepers, WriteOutcomes(p)
      PROVE  outcomes'[s].window[w] = outcomes[s].window[w]
  BY <1>2, WriteFacts DEF OutcomeInv
<1>3. CASE UNCHANGED outcomes
  BY <1>3
<1>4. ASSUME NEW t \in Signals, Mature(t) PROVE UNCHANGED outcomes
  BY <1>4 DEF Mature
<1>5. ASSUME NEW p \in Sweepers,
             StartSweep(p) \/ EvaluateNext(p) \/ CloseSignal(p) \/ HaltSweep(p) \/ RestartSweeper(p)
      PROVE  UNCHANGED outcomes
  BY <1>5 DEF StartSweep, EvaluateNext, CloseSignal, HaltSweep, RestartSweeper
<1>6. CASE UNCHANGED outcomeVars
  BY <1>6 DEF outcomeVars
<1> QED BY <1>1, <1>2, <1>3, <1>4, <1>5, <1>6 DEF OutcomeNext

\* With one evaluating process, no write of the whole map takes back an outcome that an
\* earlier sweep found (evaluatePendingOutcomes, doc.ref.update).
THEOREM OutcomesStay == ASSUME OneEvaluator PROVE OutcomeSpec => ResolvedStays
<1>1. OutcomeInv /\ [OutcomeNext]_outcomeVars
        => [\A s \in Signals, w \in Windows :
              outcomes[s].recorded /\ outcomes[s].window[w] # "pending" =>
                outcomes'[s].window[w] = outcomes[s].window[w]]_outcomeVars
  BY FoundStays
<1>2. OutcomeInv /\ [OutcomeNext]_outcomeVars => OutcomeInv'
  BY OutcomeStep DEF OutcomeInv
<1> QED BY <1>1, <1>2, OutcomeInvInit, PTL DEF OutcomeSpec, ResolvedStays
=============================================================================
