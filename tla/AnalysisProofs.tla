--------------------------- MODULE AnalysisProofs ----------------------------
(***************************************************************************)
(* What an analysis promises, for any number of symbols and retries, every *)
(* timeout, delay and budget: a request is answered in time, Gemini is left *)
(* in peace for as long as it asked for, no alert is made of nothing, what *)
(* is answered, stored and shown of an enrichment is what happened, and an *)
(* export or a summary leaves no alert out.                                *)
(***************************************************************************)
EXTENDS NewsAnalysis, AlertEnrichment, AlertPages, FiniteSetTheorems, WellFoundedInduction, TLAPS

-----------------------------------------------------------------------------
(* The analysis of news.                                                    *)

NewsStatuses == {"none", "analyzed", "cached", "timeout", "quota", "error"}

OuterRecords ==
  [pc : {"queued", "waiting", "running", "answered"}, wake : Nat, attempt : 0..QuotaRetries,
   status : NewsStatuses]
InnerRecords ==
  [step : {"none", "cache", "enrich", "deliver"} \cup GeminiSteps, sent : BOOLEAN, found : 0..2,
   tries : 0..AzureTries, bar : 0..100]

\* What a symbol waits for lies within the deadline.
Outers == {o \in OuterRecords : o.pc \in {"waiting", "running"} => o.wake <= NewsDeadline}

\* What gets as far as an alert over a high threshold has a source.
Sourced(i) == i.step \in {"enrich", "deliver"} /\ i.bar > 50 => i.found > 0

Inners == {i \in InnerRecords : Sourced(i)}

ClockInv ==
  /\ now \in Nat
  /\ batch \in [pc : {"none", "refused", "running", "failed", "partial", "complete"}, limit : Symbols]
  /\ batch.pc = "none" => now = 0
  /\ BatchInTime

QuotaInv == cooldown \in Nat /\ asked \in Nat /\ asked <= cooldown

NewsInv ==
  /\ ClockInv /\ QuotaInv
  /\ outer \in [Symbols -> Outers] /\ inner \in [Symbols -> Inners]

\* A step that asks Gemini nothing.
Silent == \A s \in Symbols : inner'[s].sent = TRUE => inner[s].sent = TRUE

\* A step of the symbols.
Kept ==
  /\ outer' \in [Symbols -> Outers] /\ inner' \in [Symbols -> Inners]

-----------------------------------------------------------------------------
\* Without a source half of the confidence is lost, whatever the market data give back.
LEMMA SourcesCount == \A bar \in Thresholds : bar > 50 => 0 \notin Alerting[bar]
<1>1. ASSUME NEW base \in {40, 100}, NEW dated, NEW fresh, NEW quality, NEW doubt, NEW hint
      PROVE  /\ CalibratedConfidence(base, 0, dated, fresh, quality, doubt, hint) \in Nat
             /\ CalibratedConfidence(base, 0, dated, fresh, quality, doubt, hint) <= 35
  BY DEF CalibratedConfidence, Less, CountPenalty, FreshnessPenalty, QualityPenalty
<1>2. ASSUME NEW c \in Nat, c <= 35, NEW volume, NEW rsi
      PROVE  AdjustedConfidence(c, volume, rsi) \in Int /\ AdjustedConfidence(c, volume, rsi) <= 50
  BY <1>2 DEF AdjustedConfidence, Less
<1>3. ASSUME NEW c \in Confidences(0) PROVE c \in Int /\ c <= 50
  <2>1. PICK base \in {40, 100}, dated \in BOOLEAN, fresh \in Grades, quality \in Grades, doubt \in BOOLEAN,
             hint \in BOOLEAN, volume \in {"unknown", "expanding", "fading"},
             rsi \in {"unknown", "calm", "extreme"} :
          c = AdjustedConfidence(CalibratedConfidence(base, 0, dated, fresh, quality, doubt, hint), volume, rsi)
    BY DEF Confidences
  <2> DEFINE calibrated == CalibratedConfidence(base, 0, dated, fresh, quality, doubt, hint)
  <2>2. calibrated \in Nat /\ calibrated <= 35
    BY <1>1
  <2> HIDE DEF calibrated
  <2> QED BY <1>2, <2>1, <2>2 DEF calibrated
<1>4. ASSUME NEW bar \in Thresholds, bar > 50, NEW c \in Confidences(0) PROVE ~(c >= bar)
  BY <1>3, <1>4, NewsAssumption
<1> QED BY <1>4 DEF Alerting

LEMMA DelayIsInt ==
    ASSUME NEW delay \in QuotaDelays \cup {NoDelay}, NEW nth \in Nat
    PROVE  RetryDelay(delay, nth) \in Int
<1>1. ASSUME nth > 1 PROVE 2 ^ (nth - 1) \in Int
  <2>1. nth - 1 \in Nat
    BY <1>1
  <2> QED BY <2>1, SMT
<1>2. delay \in Nat
  BY NewsAssumption DEF NoDelay
<1> QED BY <1>1, <1>2 DEF RetryDelay

LEMMA EmptyRecords ==
  /\ NotStarted \in Outers /\ NotStarted \in OuterRecords
  /\ NoAnalysis \in Inners /\ NoAnalysis \in InnerRecords /\ NoAnalysis.sent = FALSE
<1>1. 0 \in 0..QuotaRetries /\ 0 \in 0..AzureTries /\ NewsDeadline \in Nat
  BY NewsAssumption DEF NewsDeadline
<1>2. NotStarted \in OuterRecords /\ NotStarted.pc = "queued"
  BY <1>1 DEF NotStarted, OuterRecords, NewsStatuses
<1>3. NoAnalysis \in InnerRecords /\ NoAnalysis.step = "none" /\ NoAnalysis.sent = FALSE
  BY <1>1 DEF NoAnalysis, InnerRecords
<1> QED BY <1>2, <1>3 DEF Outers, Inners, Sourced

LEMMA AnswerKeeps ==
    ASSUME outer \in [Symbols -> Outers], NEW s \in Symbols, NEW status \in NewsStatuses,
           AnswerSymbol(s, status)
    PROVE  outer' \in [Symbols -> Outers]
<1> DEFINE answered == [NotStarted EXCEPT !.pc = "answered", !.status = status]
<1>1. answered \in OuterRecords
  BY EmptyRecords DEF OuterRecords
<1>2. answered.pc = "answered"
  BY DEF NotStarted
<1>3. outer' = [outer EXCEPT ![s] = answered]
  BY DEF AnswerSymbol
<1> HIDE DEF answered
<1>4. answered \in Outers
  BY <1>1, <1>2 DEF Outers
<1> QED BY <1>3, <1>4

\* Replacing the analysis of one symbol.
LEMMA InnerKeeps ==
    ASSUME inner \in [Symbols -> Inners], NEW s \in Symbols, NEW i \in Inners,
           inner' = [inner EXCEPT ![s] = i]
    PROVE  /\ inner' \in [Symbols -> Inners] /\ inner'[s] = i
           /\ \A t \in Symbols \ {s} : inner'[t] = inner[t]
OBVIOUS

LEMMA SilentKeeps ==
    ASSUME inner \in [Symbols -> Inners], NEW s \in Symbols, NEW i \in Inners, i.sent = FALSE,
           inner' = [inner EXCEPT ![s] = i]
    PROVE  inner' \in [Symbols -> Inners] /\ Silent
<1>1. /\ inner' \in [Symbols -> Inners] /\ inner'[s].sent = FALSE
      /\ \A t \in Symbols \ {s} : inner'[t] = inner[t]
  BY InnerKeeps
<1> QED BY <1>1 DEF Silent

LEMMA ReturnsKeeps ==
    ASSUME NewsInv, NEW s \in Symbols, NEW status \in NewsStatuses, Returns(s, status)
    PROVE  Kept /\ Silent
<1>1. outer' \in [Symbols -> Outers]
  BY AnswerKeeps DEF Returns, NewsInv
<1>2. inner' \in [Symbols -> Inners] /\ Silent
  BY EmptyRecords, SilentKeeps DEF Returns, NewsInv
<1> QED BY <1>1, <1>2 DEF Kept

\* A symbol waits, gives up, or is analysed anew.
LEMMA ProceedKeeps ==
    ASSUME NewsInv, NEW s \in Symbols, NEW until \in Nat, NEW nth \in 0..QuotaRetries,
           Proceed(s, until, nth)
    PROVE  Kept /\ Silent
<1>1. outer \in [Symbols -> Outers] /\ inner \in [Symbols -> Inners] /\ now \in Nat
  BY DEF NewsInv, ClockInv
<1>2. NewsDeadline \in Nat
  BY NewsAssumption DEF NewsDeadline
<1> DEFINE waiting == [NotStarted EXCEPT !.pc = "waiting", !.wake = until, !.attempt = nth]
           running == [NotStarted EXCEPT !.pc = "running", !.wake = NewsDeadline, !.attempt = nth]
           begun == [NoAnalysis EXCEPT !.step = "cache"]
<1>3. ASSUME until <= NewsDeadline PROVE waiting \in Outers
  <2>1. waiting \in OuterRecords
    BY EmptyRecords DEF OuterRecords
  <2>2. waiting.wake = until
    BY DEF NotStarted
  <2> HIDE DEF waiting
  <2> QED BY <1>3, <2>1, <2>2 DEF Outers
<1>4. running \in Outers
  <2>1. running \in OuterRecords
    BY <1>2, EmptyRecords DEF OuterRecords
  <2>2. running.wake = NewsDeadline
    BY DEF NotStarted
  <2>3. NewsDeadline <= NewsDeadline
    BY <1>2
  <2> HIDE DEF running
  <2> QED BY <2>1, <2>2, <2>3 DEF Outers
<1>5. begun \in Inners /\ begun.sent = FALSE
  <2>1. begun \in InnerRecords
    BY EmptyRecords DEF InnerRecords
  <2>2. begun.step = "cache" /\ begun.sent = FALSE
    BY DEF NoAnalysis
  <2> HIDE DEF begun
  <2> QED BY <2>1, <2>2 DEF Inners, Sourced
<1>6. /\ \/ outer' = [outer EXCEPT ![s] = waiting] /\ until <= NewsDeadline
         \/ AnswerSymbol(s, "quota") \/ AnswerSymbol(s, "timeout")
         \/ outer' = [outer EXCEPT ![s] = running]
      /\ inner' = [inner EXCEPT ![s] = NoAnalysis] \/ inner' = [inner EXCEPT ![s] = begun]
  BY DEF Proceed
<1> HIDE DEF waiting, running, begun
<1>7. outer' \in [Symbols -> Outers]
  BY <1>1, <1>3, <1>4, <1>6, AnswerKeeps DEF NewsStatuses
<1>8. inner' \in [Symbols -> Inners] /\ Silent
  BY <1>1, <1>5, <1>6, EmptyRecords, SilentKeeps
<1> QED BY <1>7, <1>8 DEF Kept

\* A quota error leaves the cooldown at until, or later.
LEMMA QuotaFailureKeeps ==
    ASSUME NewsInv, NEW s \in Symbols, NEW until \in Nat, NEW delay \in Nat,
           QuotaFailure(s, until, delay),
           \A nth \in Nat : RetryDelay(delay, nth) \in Int
    PROVE  Kept /\ Silent /\ cooldown' \in Nat /\ until <= cooldown'
<1> DEFINE nth == outer[s].attempt + 1
           wait == RetryDelay(delay, nth)
<1>1. nth \in Nat \ {0} /\ now \in Nat /\ QuotaRetries \in Nat
  BY NewsAssumption DEF NewsInv, ClockInv, Outers, OuterRecords
<1>2. wait \in Int
  BY <1>1
<1>3. \/ Returns(s, "quota") /\ cooldown' = until
      \/ /\ cooldown' = Later(until, now + wait) /\ nth <= QuotaRetries
         /\ Returns(s, "quota") \/ Proceed(s, cooldown', nth)
  BY <1>1 DEF QuotaFailure
<1> HIDE DEF wait
<1>4. Later(until, now + wait) \in Nat /\ until <= Later(until, now + wait)
  BY <1>1, <1>2 DEF Later
<1>5. cooldown' \in Nat /\ until <= cooldown'
  BY <1>3, <1>4
<1> HIDE DEF nth
<1>6. CASE Returns(s, "quota")
  BY <1>5, <1>6, ReturnsKeeps DEF NewsStatuses
<1>7. CASE nth <= QuotaRetries /\ Proceed(s, cooldown', nth)
  <2>1. nth \in 0..QuotaRetries
    BY <1>1, <1>7
  <2> QED BY <1>5, <1>7, <2>1, ProceedKeeps
<1> QED BY <1>3, <1>6, <1>7

-----------------------------------------------------------------------------
\* Steps that leave the clock, the batch and the cooldown alone.
LEMMA QuietKeeps ==
    ASSUME NewsInv, Kept, UNCHANGED <<now, cooldown, asked, batch>>
    PROVE  NewsInv'
BY DEF NewsInv, Kept, ClockInv, QuotaInv, BatchInTime

\* What the analysis of s can change to.
LEMMA StepKeeps ==
    ASSUME NewsInv, NEW s \in Symbols,
           NEW next \in {"none", "cache", "enrich", "deliver"} \cup GeminiSteps,
           next \in {"enrich", "deliver"} => inner[s].step \in {"enrich", "deliver"},
           Step(s, next), UNCHANGED outer
    PROVE  Kept /\ Silent
<1> DEFINE stepped == [inner[s] EXCEPT !.step = next, !.sent = FALSE]
<1>1. inner[s] \in InnerRecords /\ Sourced(inner[s])
  BY DEF NewsInv, Inners
<1>2. stepped \in InnerRecords /\ stepped.step = next /\ stepped.sent = FALSE
      /\ stepped.found = inner[s].found /\ stepped.bar = inner[s].bar
  BY <1>1 DEF InnerRecords
<1>3. inner' = [inner EXCEPT ![s] = stepped]
  BY DEF Step, NewsInv
<1> HIDE DEF stepped
<1>4. stepped \in Inners
  BY <1>1, <1>2 DEF Inners, Sourced
<1>5. inner' \in [Symbols -> Inners] /\ Silent
  BY <1>2, <1>3, <1>4, SilentKeeps DEF NewsInv
<1> QED BY <1>5 DEF Kept, NewsInv

LEMMA StartSteps ==
    ASSUME NewsInv, NEW s \in Symbols, BeginSymbol(s) \/ WakeSymbol(s) \/ LoseRace(s)
    PROVE  NewsInv' /\ Silent
<1>1. cooldown \in Nat /\ outer[s].attempt \in 0..QuotaRetries /\ 0 \in 0..QuotaRetries
  BY NewsAssumption DEF NewsInv, QuotaInv, Outers, OuterRecords
<1>2. UNCHANGED <<now, cooldown, asked, batch>>
  BY DEF BeginSymbol, WakeSymbol, LoseRace
<1>3. \/ AnswerSymbol(s, "timeout") /\ UNCHANGED inner
      \/ Proceed(s, cooldown, 0) \/ Proceed(s, cooldown, outer[s].attempt)
  BY DEF BeginSymbol, WakeSymbol, LoseRace
<1>4. CASE AnswerSymbol(s, "timeout") /\ UNCHANGED inner
  BY <1>2, <1>4, AnswerKeeps, QuietKeeps DEF NewsStatuses, Kept, Silent, NewsInv
<1>5. CASE Proceed(s, cooldown, 0)
  BY <1>1, <1>2, <1>5, ProceedKeeps, QuietKeeps
<1>6. CASE Proceed(s, cooldown, outer[s].attempt)
  BY <1>1, <1>2, <1>6, ProceedKeeps, QuietKeeps
<1> QED BY <1>3, <1>4, <1>5, <1>6

LEMMA AnalysisSteps ==
    ASSUME NewsInv, NEW s \in Symbols,
           \/ CheckCache(s) \/ BinancePrice(s) \/ PriceAnswered(s) \/ ModelOverloaded(s)
           \/ ModelFails(s) \/ DeliverAlert(s)
    PROVE  NewsInv' /\ Silent
<1>1. UNCHANGED <<now, cooldown, asked, batch>>
  BY DEF CheckCache, BinancePrice, PriceAnswered, ModelOverloaded, ModelFails, DeliverAlert
<1>2. \/ \E status \in {"cached", "error", "analyzed"} : Returns(s, status)
      \/ \E next \in {"price", "news", "spare"} : Step(s, next) /\ UNCHANGED outer
  BY DEF CheckCache, BinancePrice, PriceAnswered, ModelOverloaded, ModelFails, DeliverAlert
<1>3. CASE \E status \in {"cached", "error", "analyzed"} : Returns(s, status)
  BY <1>1, <1>3, ReturnsKeeps, QuietKeeps DEF NewsStatuses
<1>4. CASE \E next \in {"price", "news", "spare"} : Step(s, next) /\ UNCHANGED outer
  BY <1>1, <1>4, StepKeeps, QuietKeeps DEF GeminiSteps
<1> QED BY <1>2, <1>3, <1>4

LEMMA NewsStep == ASSUME NewsInv, NEW s \in Symbols, NewsAnswered(s) PROVE NewsInv' /\ Silent
<1>1. UNCHANGED <<now, cooldown, asked, batch, outer>>
  BY DEF NewsAnswered
<1>2. PICK n \in 0..2 : inner' = [inner EXCEPT ![s] = [NoAnalysis EXCEPT !.step = "model", !.found = n]]
  BY DEF NewsAnswered
<1> DEFINE asking == [NoAnalysis EXCEPT !.step = "model", !.found = n]
<1>3. asking \in InnerRecords
  BY EmptyRecords DEF InnerRecords, GeminiSteps
<1>4. asking.step = "model" /\ asking.sent = FALSE
  BY DEF NoAnalysis
<1>5. inner' = [inner EXCEPT ![s] = asking]
  BY <1>2
<1> HIDE DEF asking
<1>6. asking \in Inners
  BY <1>3, <1>4 DEF Inners, Sourced
<1>7. inner' \in [Symbols -> Inners] /\ Silent
  BY <1>4, <1>5, <1>6, SilentKeeps DEF NewsInv
<1>8. Kept
  BY <1>1, <1>7 DEF Kept, NewsInv
<1> QED BY <1>1, <1>7, <1>8, QuietKeeps

LEMMA ModelStep ==
    ASSUME NewsInv, NEW s \in Symbols, ModelAnswers(s)
    PROVE  NewsInv' /\ Silent
<1>1. UNCHANGED <<now, cooldown, asked, batch>>
  BY DEF ModelAnswers
<1>2. inner[s] \in InnerRecords /\ inner[s].found \in 0..2 /\ 1 \in 0..AzureTries /\ 0 \in 0..AzureTries
  BY NewsAssumption DEF NewsInv, Inners, InnerRecords
<1>3. CASE Returns(s, "analyzed")
  BY <1>1, <1>3, ReturnsKeeps, QuietKeeps DEF NewsStatuses
<1>4. CASE ~Returns(s, "analyzed")
  <2>1. PICK bar \in {b \in Thresholds : inner[s].found \in Alerting[b]},
             next \in {[step |-> "deliver", tries |-> 0], [step |-> "enrich", tries |-> 1]} :
          inner' = [inner EXCEPT ![s].step = next.step, ![s].sent = FALSE,
                                 ![s].tries = next.tries, ![s].bar = bar]
    BY <1>4 DEF ModelAnswers
  <2>2. next.step \in {"deliver", "enrich"} /\ next.tries \in {0, 1} /\ UNCHANGED outer
    BY <1>4 DEF ModelAnswers
  <2> DEFINE promising == [inner[s] EXCEPT !.step = next.step, !.sent = FALSE, !.tries = next.tries,
                                           !.bar = bar]
  <2>3. inner' = [inner EXCEPT ![s] = promising]
    BY <2>1 DEF NewsInv
  <2>4. bar \in 0..100 /\ (bar > 50 => inner[s].found > 0)
    BY <1>2, NewsAssumption, SourcesCount
  <2>5. /\ promising \in InnerRecords /\ promising.sent = FALSE
        /\ promising.found = inner[s].found /\ promising.bar = bar
    BY <1>2, <2>2, <2>4 DEF InnerRecords
  <2> HIDE DEF promising
  <2>6. promising \in Inners
    BY <2>4, <2>5 DEF Inners, Sourced
  <2>7. inner' \in [Symbols -> Inners] /\ Silent
    BY <2>3, <2>5, <2>6, SilentKeeps DEF NewsInv
  <2>8. Kept
    BY <2>2, <2>7 DEF Kept, NewsInv
  <2> QED BY <1>1, <2>7, <2>8, QuietKeeps
<1> QED BY <1>3, <1>4

LEMMA EnrichStep ==
    ASSUME NewsInv, NEW s \in Symbols, EnrichAttempt(s)
    PROVE  NewsInv' /\ Silent
<1>1. UNCHANGED <<now, cooldown, asked, batch>> /\ inner[s].step = "enrich"
  BY DEF EnrichAttempt
<1>2. inner[s] \in InnerRecords /\ Sourced(inner[s])
  BY <1>1 DEF NewsInv, Inners
<1> DEFINE again == [inner[s] EXCEPT !.tries = inner[s].tries + 1]
<1>3. \/ inner[s].tries < AzureTries /\ inner' = [inner EXCEPT ![s] = again] /\ UNCHANGED outer
      \/ Step(s, "deliver") /\ UNCHANGED outer
      \/ Returns(s, "analyzed")
  BY DEF EnrichAttempt, NewsInv
<1>4. CASE inner[s].tries < AzureTries /\ inner' = [inner EXCEPT ![s] = again] /\ UNCHANGED outer
  <2>1. inner[s].tries + 1 \in 0..AzureTries
    BY <1>2, <1>4, NewsAssumption DEF InnerRecords
  <2>2. /\ again \in InnerRecords /\ again.sent = inner[s].sent /\ again.found = inner[s].found
        /\ again.bar = inner[s].bar /\ again.step = inner[s].step
    BY <1>2, <2>1 DEF InnerRecords
  <2> HIDE DEF again
  <2>3. again \in Inners
    BY <1>2, <2>2 DEF Inners, Sourced
  <2>4. inner' \in [Symbols -> Inners] /\ Silent
    BY <1>4, <2>2, <2>3, InnerKeeps DEF NewsInv, Silent
  <2>5. Kept
    BY <1>4, <2>4 DEF Kept, NewsInv
  <2> QED BY <1>1, <2>4, <2>5, QuietKeeps
<1>5. CASE Step(s, "deliver") /\ UNCHANGED outer
  BY <1>1, <1>2, <1>5, StepKeeps, QuietKeeps
<1>6. CASE Returns(s, "analyzed")
  BY <1>1, <1>6, ReturnsKeeps, QuietKeeps DEF NewsStatuses
<1> QED BY <1>3, <1>4, <1>5, <1>6

-----------------------------------------------------------------------------
(* Gemini.                                                                  *)

\* An explicit delay, or the default one, from now on.
LEMMA ExtendedIs ==
    ASSUME NewsInv, NEW delay \in QuotaDelays \cup {NoDelay}
    PROVE  /\ Extended(RetryDelay(delay, 1)) \in Nat /\ cooldown <= Extended(RetryDelay(delay, 1))
           /\ delay # NoDelay => now + delay <= Extended(RetryDelay(delay, 1))
<1>1. cooldown \in Nat /\ now \in Nat /\ delay \in Nat
  BY NewsAssumption DEF NewsInv, ClockInv, QuotaInv, NoDelay
<1>2. RetryDelay(delay, 1) = IF delay # NoDelay THEN delay ELSE 1
  BY DEF RetryDelay
<1> QED BY <1>1, <1>2 DEF Extended, Later

\* What Gemini has asked for is counted in the cooldown.
LEMMA AskedIs ==
    ASSUME NewsInv, NEW delay \in QuotaDelays \cup {NoDelay},
           asked' = (IF delay = NoDelay THEN asked ELSE Later(asked, now + delay)),
           cooldown' \in Nat, Extended(RetryDelay(delay, 1)) <= cooldown'
    PROVE  QuotaInv'
<1>1. asked \in Nat /\ asked <= cooldown /\ cooldown \in Nat /\ now \in Nat /\ delay \in Nat
  BY NewsAssumption DEF NewsInv, ClockInv, QuotaInv, NoDelay
<1>2. /\ Extended(RetryDelay(delay, 1)) \in Nat /\ cooldown <= Extended(RetryDelay(delay, 1))
      /\ delay # NoDelay => now + delay <= Extended(RetryDelay(delay, 1))
  BY ExtendedIs
<1> DEFINE until == Extended(RetryDelay(delay, 1))
<1>3. until \in Nat /\ cooldown <= until /\ until <= cooldown'
      /\ (delay # NoDelay => now + delay <= until)
  BY <1>2
<1> HIDE DEF until
<1>4. CASE delay = NoDelay
  BY <1>1, <1>3, <1>4 DEF QuotaInv
<1>5. CASE delay # NoDelay
  <2>1. asked' \in Nat /\ asked' <= until
    BY <1>1, <1>3, <1>5 DEF Later
  <2> QED BY <1>3, <2>1 DEF QuotaInv
<1> QED BY <1>4, <1>5

\* During a cooldown nothing is sent; otherwise Gemini's own silence is over as well.
LEMMA AskStep ==
    ASSUME NewsInv, NEW s \in Symbols, AskGemini(s)
    PROVE  NewsInv' /\ (Silent \/ now >= asked)
<1>1. UNCHANGED <<now, asked, batch>> /\ now \in Nat /\ cooldown \in Nat /\ asked \in Nat /\ asked <= cooldown
  BY DEF AskGemini, NewsInv, ClockInv, QuotaInv
<1>2. CASE isCooldownActive
  <2> DEFINE delay == IF inner[s].step \in {"price", "news"} THEN cooldown - now ELSE NoDelay
  <2>1. QuotaFailure(s, cooldown, delay)
    BY <1>2 DEF AskGemini
  <2>2. delay \in Nat
    BY <1>1, <1>2, NewsAssumption DEF isCooldownActive, NoDelay
  <2>3. ASSUME NEW nth \in Nat PROVE RetryDelay(delay, nth) \in Int
    <3>1. ASSUME nth > 1 PROVE 2 ^ (nth - 1) \in Int
      <4>1. nth - 1 \in Nat
        BY <3>1
      <4> QED BY <4>1, SMT
    <3> HIDE DEF delay
    <3> QED BY <2>2, <3>1 DEF RetryDelay
  <2> HIDE DEF delay
  <2>4. Kept /\ Silent /\ cooldown' \in Nat /\ cooldown <= cooldown'
    BY <1>1, <2>1, <2>2, <2>3, QuotaFailureKeeps
  <2>5. QuotaInv'
    BY <1>1, <2>4 DEF QuotaInv
  <2>6. ClockInv'
    BY <1>1 DEF NewsInv, ClockInv, BatchInTime
  <2> QED BY <2>4, <2>5, <2>6 DEF NewsInv, Kept
<1>3. CASE ~isCooldownActive
  <2> DEFINE sent == [inner[s] EXCEPT !.sent = TRUE]
  <2>1. inner' = [inner EXCEPT ![s] = sent] /\ UNCHANGED <<cooldown, outer>>
    BY <1>3 DEF AskGemini, NewsInv
  <2>2. inner[s] \in InnerRecords /\ Sourced(inner[s])
    BY DEF NewsInv, Inners
  <2>3. /\ sent \in InnerRecords /\ sent.step = inner[s].step /\ sent.found = inner[s].found
        /\ sent.bar = inner[s].bar
    BY <2>2 DEF InnerRecords
  <2> HIDE DEF sent
  <2>4. sent \in Inners
    BY <2>2, <2>3 DEF Inners, Sourced
  <2>5. inner' \in [Symbols -> Inners]
    BY <2>1, <2>4, InnerKeeps DEF NewsInv
  <2>6. Kept
    BY <2>1, <2>5 DEF Kept, NewsInv
  <2>7. now >= asked
    BY <1>1, <1>3 DEF isCooldownActive
  <2> QED BY <1>1, <2>1, <2>6, <2>7, QuietKeeps
<1> QED BY <1>2, <1>3

LEMMA Quota429Step ==
    ASSUME NewsInv, NEW s \in Symbols, Quota429(s)
    PROVE  NewsInv' /\ Silent
<1>1. PICK delay \in QuotaDelays \cup {NoDelay} :
        /\ QuotaFailure(s, Extended(RetryDelay(delay, 1)), delay)
        /\ asked' = (IF delay = NoDelay THEN asked ELSE Later(asked, now + delay))
  BY DEF Quota429
<1>2. delay \in Nat
  BY NewsAssumption DEF NoDelay
<1>3. \A nth \in Nat : RetryDelay(delay, nth) \in Int
  BY DelayIsInt
<1>4. Extended(RetryDelay(delay, 1)) \in Nat
  BY ExtendedIs
<1> DEFINE until == Extended(RetryDelay(delay, 1))
<1>5. until \in Nat /\ QuotaFailure(s, until, delay)
  BY <1>1, <1>4
<1> HIDE DEF until
<1>6. Kept /\ Silent /\ cooldown' \in Nat /\ until <= cooldown'
  BY <1>2, <1>3, <1>5, QuotaFailureKeeps
<1>7. QuotaInv'
  BY <1>1, <1>6, AskedIs DEF until
<1>8. ClockInv'
  BY DEF Quota429, NewsInv, ClockInv, BatchInTime
<1> QED BY <1>6, <1>7, <1>8 DEF NewsInv, Kept

LEMMA OtherStep == ASSUME NewsInv, OtherQuota429 PROVE NewsInv' /\ Silent
<1>1. PICK delay \in QuotaDelays \cup {NoDelay} :
        /\ cooldown' = Extended(RetryDelay(delay, 1))
        /\ asked' = (IF delay = NoDelay THEN asked ELSE Later(asked, now + delay))
  BY DEF OtherQuota429
<1>2. cooldown' \in Nat /\ Extended(RetryDelay(delay, 1)) <= cooldown'
  BY <1>1, ExtendedIs
<1>3. QuotaInv'
  BY <1>1, <1>2, AskedIs
<1> QED BY <1>3 DEF OtherQuota429, NewsInv, ClockInv, BatchInTime, Silent

-----------------------------------------------------------------------------
(* The clock.                                                               *)

\* A set of symbols that is not empty has a first one.
LEMMA FirstSymbol ==
    ASSUME NEW S \in SUBSET Symbols, S # {}
    PROVE  \E s \in S : \A t \in 1..(s - 1) : t \notin S
<1>1. S \subseteq Nat
  BY NewsAssumption DEF Symbols
<1> DEFINE Before == {pair \in Nat \X Nat : pair[1] < pair[2]}
<1>2. IsWellFoundedOn(Before, Nat)
  BY NatLessThanWellFounded DEF OpToRel
<1> HIDE DEF Before
<1>3. PICK s \in S : \A t \in S : ~(<<t, s>> \in Before)
  BY <1>1, <1>2, WFMin
<1>4. \A t \in S : ~(t < s)
  BY <1>1, <1>3 DEF Before
<1>5. \A t \in 1..(s - 1) : t \notin S
  BY <1>1, <1>4
<1> QED BY <1>5

\* At the deadline nothing is left to wait for: what is pending is due, and once
\* nothing is pending the next symbol has its turn.
LEMMA TickStep == ASSUME NewsInv, NewsTick PROVE NewsInv' /\ Silent
<1>1. /\ now' = now + 1 /\ UNCHANGED <<cooldown, asked, batch, outer, inner>>
      /\ batch.pc # "none" /\ now \in Nat
  BY DEF NewsTick, NewsInv, ClockInv
<1>2. BatchInTime'
  <2> SUFFICES ASSUME batch.pc = "running", now >= NewsDeadline PROVE FALSE
    BY <1>1, NewsAssumption DEF BatchInTime, NewsDeadline
  <2>1. \A t \in Symbols : ~Pending(t)
    <3> SUFFICES ASSUME NEW t \in Symbols, Pending(t) PROVE FALSE
      OBVIOUS
    <3>1. outer[t].wake \in Nat /\ outer[t].wake <= NewsDeadline
      BY DEF NewsInv, Outers, OuterRecords, Pending
    <3>2. now >= outer[t].wake
      BY <1>1, <3>1, NewsAssumption DEF NewsDeadline
    <3> QED BY <3>2 DEF NewsTick
  <2> DEFINE waiting == {t \in Symbols : outer[t].pc = "queued"}
  <2>2. waiting # {}
    <3>1. PICK t \in Symbols : ~Answered(t)
      BY DEF NewsTick
    <3>2. outer[t].pc = "queued"
      BY <2>1, <3>1 DEF NewsInv, Outers, OuterRecords, Pending, Answered
    <3> QED BY <3>2
  <2>3. PICK s \in waiting : \A t \in 1..(s - 1) : t \notin waiting
    BY <2>2, FirstSymbol
  <2>4. s \in Nat /\ 1..(s - 1) \subseteq Symbols
    BY NewsAssumption DEF Symbols
  <2>5. \A t \in 1..(s - 1) : outer[t].pc # "queued"
    BY <2>3, <2>4
  <2>6. {t \in Symbols : Pending(t)} = {}
    BY <2>1
  <2>7. Cardinality({t \in Symbols : Pending(t)}) < batch.limit
    <3>1. batch.limit \in Nat /\ batch.limit > 0
      BY NewsAssumption DEF NewsInv, ClockInv, Symbols
    <3>2. Cardinality({t \in Symbols : Pending(t)}) = 0
      BY <2>6, FS_EmptySet
    <3> QED BY <3>1, <3>2
  <2>8. Turn(s)
    BY <2>5, <2>7 DEF Turn
  <2> QED BY <2>8 DEF NewsTick
<1> QED BY <1>1, <1>2 DEF NewsInv, ClockInv, QuotaInv, Silent

LEMMA BatchStep == ASSUME NewsInv, StartBatch \/ ReplyBatch PROVE NewsInv' /\ Silent
<1>1. UNCHANGED <<now, cooldown, asked, outer, inner>>
  BY DEF StartBatch, ReplyBatch
<1>2. ClockInv'
  <2>1. CASE StartBatch
    <3>1. now = 0 /\ now \in Nat
      BY <2>1 DEF StartBatch, NewsInv, ClockInv
    <3>2. /\ batch' \in [pc : {"none", "refused", "running", "failed", "partial", "complete"}, limit : Symbols]
          /\ batch'.pc # "none"
      BY <2>1 DEF StartBatch, NewsInv, ClockInv
    <3> QED BY <1>1, <3>1, <3>2, NewsAssumption DEF ClockInv, BatchInTime
  <2>2. CASE ReplyBatch
    <3> DEFINE pc == IF ~Summary.success THEN "failed" ELSE IF Summary.partial THEN "partial" ELSE "complete"
    <3>1. batch' = [batch EXCEPT !.pc = pc] /\ pc \in {"failed", "partial", "complete"}
      BY <2>2 DEF ReplyBatch
    <3> HIDE DEF pc
    <3>2. /\ batch' \in [pc : {"none", "refused", "running", "failed", "partial", "complete"}, limit : Symbols]
          /\ batch'.pc \notin {"none", "running"}
      BY <3>1 DEF NewsInv, ClockInv
    <3> QED BY <1>1, <3>2 DEF NewsInv, ClockInv, BatchInTime
  <2> QED BY <2>1, <2>2
<1> QED BY <1>1, <1>2 DEF NewsInv, QuotaInv, Silent

-----------------------------------------------------------------------------
LEMMA NewsInvInit == NewsInit => NewsInv
<1> SUFFICES ASSUME NewsInit PROVE NewsInv
  OBVIOUS
<1>1. 1 \in Symbols
  BY NewsAssumption DEF Symbols
<1>2. ClockInv /\ QuotaInv
  BY <1>1 DEF NewsInit, ClockInv, QuotaInv, BatchInTime
<1>3. outer \in [Symbols -> Outers] /\ inner \in [Symbols -> Inners]
  BY EmptyRecords DEF NewsInit
<1> QED BY <1>2, <1>3 DEF NewsInv

\* Every step keeps the invariant, and asks Gemini only when it may be asked.
LEMMA NewsInvStep ==
    ASSUME NewsInv, NewsNext
    PROVE  NewsInv' /\ (Silent \/ now >= asked)
<1>1. CASE StartBatch \/ ReplyBatch
  BY <1>1, BatchStep
<1>2. CASE OtherQuota429
  BY <1>2, OtherStep
<1>3. CASE NewsTick
  BY <1>3, TickStep
<1>4. ASSUME NEW s \in Symbols, BeginSymbol(s) \/ WakeSymbol(s) \/ LoseRace(s)
      PROVE  NewsInv' /\ Silent
  BY <1>4, StartSteps
<1>5. ASSUME NEW s \in Symbols,
             \/ CheckCache(s) \/ BinancePrice(s) \/ PriceAnswered(s) \/ ModelOverloaded(s)
             \/ ModelFails(s) \/ DeliverAlert(s)
      PROVE  NewsInv' /\ Silent
  BY <1>5, AnalysisSteps
<1>6. ASSUME NEW s \in Symbols, AskGemini(s)
      PROVE  NewsInv' /\ (Silent \/ now >= asked)
  BY <1>6, AskStep
<1>7. ASSUME NEW s \in Symbols, NewsAnswered(s) PROVE NewsInv' /\ Silent
  BY <1>7, NewsStep
<1>8. ASSUME NEW s \in Symbols, Quota429(s) PROVE NewsInv' /\ Silent
  BY <1>8, Quota429Step
<1>9. ASSUME NEW s \in Symbols, ModelAnswers(s) PROVE NewsInv' /\ Silent
  BY <1>9, ModelStep
<1>10. ASSUME NEW s \in Symbols, EnrichAttempt(s) PROVE NewsInv' /\ Silent
  BY <1>10, EnrichStep
<1> QED BY <1>1, <1>2, <1>3, <1>4, <1>5, <1>6, <1>7, <1>8, <1>9, <1>10 DEF NewsNext

LEMMA NewsInvHolds == NewsSpec => []NewsInv
<1>1. ASSUME NewsInv, [NewsNext]_newsVars PROVE NewsInv'
  <2>1. CASE UNCHANGED newsVars
    <3>1. UNCHANGED <<now, cooldown, asked, batch>> /\ outer' = outer /\ inner' = inner
      BY <2>1 DEF newsVars
    <3>2. Kept
      BY <1>1, <3>1 DEF NewsInv, Kept
    <3> QED BY <1>1, <3>1, <3>2, QuietKeeps
  <2> QED BY <1>1, <2>1, NewsInvStep
<1> QED BY <1>1, NewsInvInit, PTL DEF NewsSpec

\* The request is answered within NEWS_TIMEOUT_MS (analyzeSymbols).
THEOREM BatchesEndInTime == NewsSpec => []BatchInTime
<1>1. NewsInv => BatchInTime
  BY DEF NewsInv, ClockInv
<1> QED BY <1>1, NewsInvHolds, PTL

\* Gemini is not asked before the moment it named (geminiQuotaManager).
THEOREM QuotasAreRespected == NewsSpec => QuotaRespected
<1>1. ASSUME NewsInv, [NewsNext]_newsVars
      PROVE  [\A s \in Symbols : ~inner[s].sent /\ inner'[s].sent => now >= asked]_newsVars
  <2>1. CASE UNCHANGED newsVars
    BY <2>1
  <2>2. CASE NewsNext
    <3>1. NewsInv' /\ (Silent \/ now >= asked)
      BY <1>1, <2>2, NewsInvStep
    <3>2. \A s \in Symbols : inner[s].sent \in BOOLEAN /\ inner'[s].sent \in BOOLEAN
      BY <1>1, <3>1 DEF NewsInv, Inners, InnerRecords
    <3> QED BY <3>1, <3>2 DEF Silent
  <2> QED BY <1>1, <2>1, <2>2
<1> QED BY <1>1, NewsInvHolds, PTL DEF NewsSpec, QuotaRespected

\* With NEWS_ALERT_THRESHOLD above a half an alert has at least one source
\* (calibrateNewsConfidence, calculateAdjustedConfidence).
THEOREM EveryAlertHasSources == NewsSpec => []AlertsHaveSources
<1>1. NewsInv => AlertsHaveSources
  BY DEF NewsInv, Inners, Sourced, AlertsHaveSources
<1> QED BY <1>1, NewsInvHolds, PTL

-----------------------------------------------------------------------------
(* The enrichment of an alert.                                              *)

Stages == {"received", "base", "backoff", "volume", "confluence", "enriched", "gemini", "answered"}
Outcomes == {"none", "ok", "bad"}

AlertTypes ==
  /\ webhook \in Webhooks /\ stage \in Stages
  /\ parts \in [Parts -> Outcomes] /\ partial \in BOOLEAN
  /\ health \in [mcp : {"unknown", "ready", "degraded"}, volume : {"unknown", "ready", "degraded"},
                 last : {"none", "full", "partial", "failed"}]

\* The alert has a signal that TradingView is asked about.
Signalled == webhook.asked = TRUE /\ webhook.side # "none"

\* The enabled extras that were not added; a second confluence needs the first.
VolumeMissing == "volume" \in webhook.options /\ parts["volume"] # "ok"
ConfluenceMissing ==
  "confluence" \in webhook.options /\
    (parts["confluence"] # "ok" \/ ("multi" \in webhook.options /\ parts["multi"] # "ok"))
Missing == VolumeMissing \/ ConfluenceMissing

Truth ==
  IF ~webhook.asked THEN "none" ELSE IF webhook.side = "none" THEN "not_applicable"
  ELSE IF parts["base"] # "ok" THEN "failed" ELSE IF Missing THEN "partial" ELSE "full"

\* TradingView gave nothing, because it was not asked or because it failed.
NothingGiven ==
  /\ mcp = NoMcp
  /\ Signalled => parts["base"] # "ok" /\ health.last = "failed"

\* TradingView gave an alert, complete or not.
AlertGiven ==
  /\ Signalled /\ parts["base"] = "ok"
  /\ mcp.status = (IF Missing THEN "partial" ELSE "full") /\ health.last = mcp.status
  /\ mcp.opposed = TRUE => mcp.priority = TRUE /\ mcp.sentiment = "NEUTRAL"

\* What is known at each stage.
StageInv ==
  /\ stage = "received" => mcp = NoMcp /\ parts["base"] = "none" /\ partial = FALSE
  /\ stage \in {"base", "backoff"} =>
       mcp = NoMcp /\ Signalled /\ parts["base"] = "none" /\ partial = FALSE
  /\ stage \in {"volume", "confluence", "enriched"} => Signalled /\ parts["base"] = "ok"
  /\ stage \in {"received", "base", "backoff", "volume", "confluence"} => parts["confluence"] = "none"
  /\ stage = "volume" => partial = FALSE
  /\ stage = "confluence" => (partial = TRUE <=> VolumeMissing)
  /\ stage = "enriched" => (partial = TRUE <=> Missing)
  /\ stage = "gemini" => NothingGiven \/ AlertGiven

AlertInv == AlertTypes /\ StageInv /\ AlertTellsTruth

-----------------------------------------------------------------------------
LEMMA AlertInvInit == EnrichmentInit => AlertInv
<1> SUFFICES ASSUME EnrichmentInit PROVE AlertInv
  OBVIOUS
<1>1. parts \in [Parts -> Outcomes] /\ parts["base"] = "none" /\ parts["confluence"] = "none"
  BY DEF EnrichmentInit, Parts, Outcomes
<1>2. webhook \in Webhooks /\ stage \in Stages /\ stage = "received"
  BY DEF EnrichmentInit, Stages
<1>3. partial = FALSE /\ mcp = NoMcp
  BY DEF EnrichmentInit
<1>4. health \in [mcp : {"unknown", "ready", "degraded"}, volume : {"unknown", "ready", "degraded"},
                  last : {"none", "full", "partial", "failed"}]
  BY DEF EnrichmentInit
<1>5. partial \in BOOLEAN
  BY <1>3
<1>6. StageInv
  BY <1>1, <1>2, <1>3 DEF StageInv
<1> QED BY <1>1, <1>2, <1>4, <1>5, <1>6 DEF AlertInv, AlertTypes, AlertTellsTruth

LEMMA CallResult ==
    ASSUME NEW timeout, NEW call \in CallOutcomes(timeout)
    PROVE  call.result \in {"ok", "bad"}
BY DEF CallOutcomes

\* The truth of an answer, in the words of the property.
LEMMA TruthIsTold ==
    ASSUME AlertTypes', answer'.status = Truth', answer'.applied = (Truth' \in {"full", "partial"}),
           Signalled' => health'.last = Truth',
           mcp'.opposed => answer'.sentiment = "NEUTRAL"
    PROVE  AlertTellsTruth'
<1> DEFINE wanted == {p \in webhook.options \cap {"volume", "confluence", "multi"} :
                        p = "multi" => "confluence" \in webhook.options}
<1>1. ((\E p \in wanted : parts[p] # "ok") <=> Missing)'
  BY DEF Missing, VolumeMissing, ConfluenceMissing
<1> HIDE DEF wanted
<1>2. ((IF ~webhook.asked THEN "none" ELSE IF webhook.side = "none" THEN "not_applicable"
        ELSE IF parts["base"] # "ok" THEN "failed"
        ELSE IF \E p \in wanted : parts[p] # "ok" THEN "partial" ELSE "full") = Truth)'
  BY <1>1 DEF Truth
<1>3. (webhook.asked \in BOOLEAN)'
  BY DEF AlertTypes, Webhooks
<1> QED BY <1>2, <1>3 DEF AlertTellsTruth, Signalled, wanted

-----------------------------------------------------------------------------
\* Before the answer nothing is told yet.
LEMMA NotYet == ASSUME stage' # "answered" PROVE AlertTellsTruth'
BY DEF AlertTellsTruth

LEMMA ReceiveStep == ASSUME AlertInv, ReceiveAlert PROVE AlertInv'
<1>1. /\ stage = "received" /\ UNCHANGED <<webhook, parts, partial, mcp, health>>
      /\ webhook.asked \in BOOLEAN
  BY DEF ReceiveAlert, AlertInv, AlertTypes, Webhooks
<1>2. stage' = IF Signalled THEN "base" ELSE "gemini"
  BY <1>1 DEF ReceiveAlert, Signalled
<1>3. AlertTypes'
  BY <1>1, <1>2 DEF AlertInv, AlertTypes, Stages
<1>4. StageInv'
  <2>1. CASE Signalled
    BY <1>1, <1>2, <2>1 DEF AlertInv, StageInv, Signalled
  <2>2. CASE ~Signalled
    BY <1>1, <1>2, <2>2 DEF AlertInv, StageInv, Signalled, NothingGiven
  <2> QED BY <2>1, <2>2
<1> QED BY <1>2, <1>3, <1>4, NotYet DEF AlertInv

\* The base analysis ends, with or without a result, or waits for the next attempt.
LEMMA BaseStep ==
    ASSUME AlertInv, CallCoinAnalysis \/ Backoff
    PROVE  AlertInv'
<1>1. /\ stage \in {"base", "backoff"} /\ UNCHANGED <<webhook, partial, mcp>>
      /\ mcp = NoMcp /\ Signalled /\ parts["base"] = "none" /\ parts["confluence"] = "none"
      /\ partial = FALSE
  BY DEF CallCoinAnalysis, Backoff, AlertInv, StageInv
<1>2. \/ stage' = "volume" /\ parts' = [parts EXCEPT !["base"] = "ok"] /\ health'.last = health.last
      \/ stage' = "gemini" /\ parts' = [parts EXCEPT !["base"] = "bad"] /\ health'.last = "failed"
      \/ stage' \in {"base", "backoff"} /\ parts' = parts
  <2>1. CASE CallCoinAnalysis
    <3>1. PICK call \in CallOutcomes(AttemptTimeout) :
            /\ IF call.result = "ok"
               THEN Ended("base", "ok") /\ stage' = "volume" /\ UNCHANGED attempt
               ELSE IF attempt = webhook.retries \/ ms' >= BaseBudget
               THEN BaseFails
               ELSE stage' = "backoff" /\ UNCHANGED <<parts, attempt>>
            /\ health' = [health EXCEPT !.mcp = Readiness(call.result),
                                        !.last = IF stage' = "gemini" THEN "failed" ELSE @]
      BY <2>1 DEF CallCoinAnalysis
    <3>2. health'.last = IF stage' = "gemini" THEN "failed" ELSE health.last
      BY <3>1 DEF AlertInv, AlertTypes
    <3> QED BY <3>1, <3>2 DEF Ended, BaseFails
  <2>2. CASE Backoff
    <3>1. \/ BaseFails /\ health' = [health EXCEPT !.last = "failed"]
          \/ stage' = "base" /\ UNCHANGED parts
      BY <2>2 DEF Backoff
    <3>2. CASE BaseFails /\ health' = [health EXCEPT !.last = "failed"]
      BY <3>2 DEF BaseFails, Ended, AlertInv, AlertTypes
    <3> QED BY <3>1, <3>2
  <2> QED BY <2>1, <2>2
<1>3. parts' \in [Parts -> Outcomes] /\ stage' \in Stages
  BY <1>2 DEF AlertInv, AlertTypes, Outcomes, Stages
<1>4. health' \in [mcp : {"unknown", "ready", "degraded"}, volume : {"unknown", "ready", "degraded"},
                   last : {"none", "full", "partial", "failed"}]
  <2>1. \A result : Readiness(result) \in {"ready", "degraded"}
    BY DEF Readiness
  <2>2. CASE CallCoinAnalysis
    <3>1. PICK call : health' = [health EXCEPT !.mcp = Readiness(call.result),
                                              !.last = IF stage' = "gemini" THEN "failed" ELSE @]
      BY <2>2 DEF CallCoinAnalysis
    <3> QED BY <2>1, <3>1 DEF AlertInv, AlertTypes
  <2>3. CASE Backoff
    BY <2>3 DEF Backoff, AlertInv, AlertTypes
  <2> QED BY <2>2, <2>3
<1>5. AlertTypes'
  BY <1>1, <1>3, <1>4 DEF AlertInv, AlertTypes
<1>6. Signalled'
  BY <1>1 DEF Signalled
<1>7. StageInv'
  <2>1. CASE stage' = "volume" /\ parts' = [parts EXCEPT !["base"] = "ok"]
    <3>1. parts'["base"] = "ok" /\ parts'["confluence"] = "none"
      BY <1>1, <2>1 DEF AlertInv, AlertTypes, Parts
    <3> QED BY <1>1, <1>6, <2>1, <3>1 DEF StageInv
  <2>2. CASE stage' = "gemini" /\ parts' = [parts EXCEPT !["base"] = "bad"] /\ health'.last = "failed"
    <3>1. parts'["base"] = "bad"
      BY <2>2 DEF AlertInv, AlertTypes, Parts
    <3> QED BY <1>1, <1>6, <2>2, <3>1 DEF StageInv, NothingGiven
  <2>3. CASE stage' \in {"base", "backoff"} /\ parts' = parts
    BY <1>1, <1>6, <2>3 DEF StageInv
  <2> QED BY <1>2, <2>1, <2>2, <2>3
<1>8. stage' # "answered"
  BY <1>2
<1> QED BY <1>5, <1>7, <1>8, NotYet DEF AlertInv

LEMMA VolumeStep == ASSUME AlertInv, CallVolumeConfirmation PROVE AlertInv'
<1>1. /\ stage = "volume" /\ stage' = "confluence" /\ UNCHANGED <<webhook, mcp>>
      /\ Signalled /\ parts["base"] = "ok" /\ parts["confluence"] = "none" /\ partial = FALSE
  BY DEF CallVolumeConfirmation, AlertInv, StageInv
<1>2. \/ "volume" \notin webhook.options /\ UNCHANGED <<parts, partial, health>>
      \/ /\ "volume" \in webhook.options
         /\ \E call \in CallOutcomes(Least(5000, webhook.budget - ms)) : VolumeOver(call)
  BY DEF CallVolumeConfirmation
<1>3. CASE "volume" \notin webhook.options /\ UNCHANGED <<parts, partial, health>>
  <2>1. AlertTypes'
    BY <1>1, <1>3 DEF AlertInv, AlertTypes, Stages
  <2>2. StageInv'
    BY <1>1, <1>3 DEF StageInv, VolumeMissing, Signalled
  <2> QED BY <1>1, <2>1, <2>2, NotYet DEF AlertInv
<1>4. ASSUME "volume" \in webhook.options,
             NEW call, call.result \in {"ok", "bad"}, VolumeOver(call)
      PROVE  AlertInv'
  <2>1. call.result \in {"ok", "bad"}
    BY <1>4
  <2>2. /\ parts' \in [Parts -> Outcomes] /\ parts'["base"] = "ok" /\ parts'["volume"] = call.result
        /\ parts'["confluence"] = "none"
    BY <1>1, <1>4, <2>1 DEF VolumeOver, Ended, AlertInv, AlertTypes, Outcomes, Parts
  <2>3. /\ partial' \in BOOLEAN /\ (partial' = TRUE <=> call.result # "ok")
        /\ health' \in [mcp : {"unknown", "ready", "degraded"}, volume : {"unknown", "ready", "degraded"},
                        last : {"none", "full", "partial", "failed"}]
    <3>1. partial' = (call.result = "bad")
      BY <1>4, Zenon DEF VolumeOver
    <3>2. partial' \in BOOLEAN /\ (partial' = TRUE <=> call.result # "ok")
      <4>1. CASE call.result = "bad"
        BY <3>1, <4>1, Zenon
      <4>2. CASE call.result = "ok"
        BY <3>1, <4>2, Zenon
      <4> QED BY <2>1, <4>1, <4>2
    <3>3. health' = [health EXCEPT !.mcp = Readiness(call.result), !.volume = Readiness(call.result)]
      BY <1>4, Zenon DEF VolumeOver
    <3>4. health' \in [mcp : {"unknown", "ready", "degraded"}, volume : {"unknown", "ready", "degraded"},
                      last : {"none", "full", "partial", "failed"}]
      BY <3>3 DEF Readiness, AlertInv, AlertTypes
    <3> QED BY <3>2, <3>4
  <2>4. AlertTypes'
    BY <1>1, <2>2, <2>3 DEF AlertInv, AlertTypes, Stages
  <2>5. StageInv'
    BY <1>1, <1>4, <2>2, <2>3 DEF StageInv, VolumeMissing, Signalled
  <2> QED BY <1>1, <2>4, <2>5, NotYet DEF AlertInv
<1>5. \/ "volume" \notin webhook.options /\ UNCHANGED <<parts, partial, health>>
      \/ "volume" \in webhook.options /\ \E call : call.result \in {"ok", "bad"} /\ VolumeOver(call)
  BY <1>2, CallResult
<1> QED BY <1>3, <1>4, <1>5

\* A confluence ends, the last of the two or the only one: nothing else is missing then.
LEMMA ConfluenceEnds ==
    ASSUME AlertInv, stage = "confluence", stage' = "enriched", UNCHANGED <<webhook, mcp>>,
           parts' \in [Parts -> Outcomes], parts'["base"] = parts["base"],
           parts'["volume"] = parts["volume"],
           partial' \in BOOLEAN, partial' = TRUE <=> (partial = TRUE \/ ConfluenceMissing'),
           UNCHANGED health \/ \E outcome : Checked(outcome)
    PROVE  AlertInv'
<1>1. Signalled /\ parts["base"] = "ok" /\ (partial = TRUE <=> VolumeMissing)
  BY DEF AlertInv, StageInv
<1>2. health' \in [mcp : {"unknown", "ready", "degraded"}, volume : {"unknown", "ready", "degraded"},
                   last : {"none", "full", "partial", "failed"}]
  BY DEF Checked, Readiness, AlertInv, AlertTypes
<1>3. AlertTypes'
  BY <1>2 DEF AlertInv, AlertTypes, Stages
<1>4. VolumeMissing' <=> VolumeMissing
  BY DEF VolumeMissing
<1>5. partial' = TRUE <=> Missing'
  BY <1>1, <1>4 DEF Missing
<1>6. StageInv'
  BY <1>1, <1>5 DEF StageInv, Signalled
<1> QED BY <1>3, <1>6, NotYet DEF AlertInv

LEMMA ConfluenceStep == ASSUME AlertInv, CallConfluence PROVE AlertInv'
<1>1. /\ stage = "confluence" /\ stage' = "enriched" /\ UNCHANGED <<webhook, mcp>>
      /\ parts \in [Parts -> Outcomes] /\ partial \in BOOLEAN
  BY DEF CallConfluence, AlertInv, AlertTypes
<1> DEFINE limit == Least(8000, webhook.budget - ms)
<1>2. \/ "confluence" \notin webhook.options /\ UNCHANGED <<parts, partial, health>>
      \/ /\ "confluence" \in webhook.options
         /\ \/ partial' = TRUE /\ UNCHANGED <<parts, health>> /\ BudgetSpent
            \/ \E call \in CallOutcomes(limit) :
                 \/ /\ call.result = "bad" \/ "multi" \notin webhook.options
                    /\ ConfluenceOver(call)
                 \/ /\ call.result # "bad" /\ "multi" \in webhook.options
                    /\ \E second \in CallOutcomes(limit - call.took) : SecondOver(call, second)
  BY DEF CallConfluence
<1> HIDE DEF limit
<1>3. CASE "confluence" \notin webhook.options /\ UNCHANGED <<parts, partial, health>>
  <2>1. ~ConfluenceMissing'
    BY <1>1, <1>3 DEF ConfluenceMissing
  <2> QED BY <1>1, <1>3, <2>1, ConfluenceEnds
<1>4. CASE "confluence" \in webhook.options /\ partial' = TRUE /\ UNCHANGED <<parts, health>> /\ BudgetSpent
  <2>1. parts["confluence"] = "none"
    BY <1>1 DEF AlertInv, StageInv
  <2>2. ConfluenceMissing'
    BY <1>1, <1>4, <2>1 DEF ConfluenceMissing
  <2>3. partial' \in BOOLEAN
    BY <1>4
  <2> QED BY <1>1, <1>4, <2>2, <2>3, ConfluenceEnds
<1>5. ASSUME "confluence" \in webhook.options, NEW call \in CallOutcomes(limit),
             call.result = "bad" \/ "multi" \notin webhook.options, ConfluenceOver(call)
      PROVE  AlertInv'
  <2>1. call.result \in {"ok", "bad"}
    BY CallResult
  <2>2. /\ parts' \in [Parts -> Outcomes] /\ parts'["base"] = parts["base"]
        /\ parts'["volume"] = parts["volume"] /\ parts'["confluence"] = call.result
    BY <1>1, <1>5, <2>1 DEF ConfluenceOver, Ended, Outcomes, Parts
  <2>3. partial' \in BOOLEAN /\ (partial' = TRUE <=> (partial = TRUE \/ call.result = "bad"))
    BY <1>1, <1>5 DEF ConfluenceOver
  <2>4. ConfluenceMissing' <=> call.result = "bad"
    BY <1>1, <1>5, <2>1, <2>2 DEF ConfluenceMissing
  <2>5. Checked(call.result)
    BY <1>5 DEF ConfluenceOver
  <2> QED BY <1>1, <2>2, <2>3, <2>4, <2>5, ConfluenceEnds
<1>6. ASSUME "confluence" \in webhook.options, NEW call \in CallOutcomes(limit),
             "multi" \in webhook.options, NEW second \in CallOutcomes(limit - call.took),
             SecondOver(call, second)
      PROVE  AlertInv'
  <2>1. second.result \in {"ok", "bad"}
    BY CallResult
  <2>2. /\ parts' \in [Parts -> Outcomes] /\ parts'["base"] = parts["base"]
        /\ parts'["volume"] = parts["volume"] /\ parts'["confluence"] = "ok"
        /\ parts'["multi"] = second.result
    BY <1>1, <1>6, <2>1 DEF SecondOver, Outcomes, Parts
  <2>3. partial' \in BOOLEAN /\ (partial' = TRUE <=> (partial = TRUE \/ second.result = "bad"))
    BY <1>1, <1>6 DEF SecondOver
  <2>4. ConfluenceMissing' <=> second.result = "bad"
    BY <1>1, <1>6, <2>1, <2>2 DEF ConfluenceMissing
  <2>5. Checked(second.result)
    BY <1>6 DEF SecondOver
  <2> QED BY <1>1, <2>2, <2>3, <2>4, <2>5, ConfluenceEnds
<1> QED BY <1>2, <1>3, <1>4, <1>5, <1>6

-----------------------------------------------------------------------------
\* The score of a contradicted signal is capped where the sentiment is neutral.
LEMMA ContradictedIsNeutral ==
    ASSUME NEW side, NEW bias \in RatingBiases
    PROVE  SentimentOf(ScoreOf(side, bias, TRUE)) = "NEUTRAL"
<1> DEFINE score == (IF side = "SELL" THEN -5500 ELSE 5500) + bias
           capped == Most(-1500, Least(1500, (score * 15) \div 100))
<1>1. score \in Int
  BY DEF RatingBiases
<1>2. (score * 15) \div 100 \in Int
  BY <1>1
<1> HIDE DEF score
<1>3. capped \in Int /\ capped <= 1500 /\ capped >= -1500
  BY <1>2 DEF Most, Least
<1>4. ScoreOf(side, bias, TRUE) = capped
  BY DEF ScoreOf, score
<1> HIDE DEF capped
<1>5. SentimentOf(capped) = "NEUTRAL"
  BY <1>3 DEF SentimentOf
<1> QED BY <1>4, <1>5, Zenon

LEMMA EnrichedStep == ASSUME AlertInv, ToEnrichedAlert PROVE AlertInv'
<1> DEFINE status == IF partial THEN "partial" ELSE "full"
<1>1. /\ stage = "enriched" /\ stage' = "gemini" /\ UNCHANGED <<webhook, parts, partial>>
      /\ health' = [health EXCEPT !.last = status]
  BY DEF ToEnrichedAlert
<1>2. PICK rec \in Recommendations, agree \in BOOLEAN, bias \in RatingBiases :
        mcp' = EnrichedBy(rec, agree, bias, status)
  BY DEF ToEnrichedAlert
<1>3. Signalled /\ parts["base"] = "ok" /\ (partial = TRUE <=> Missing) /\ partial \in BOOLEAN
  BY <1>1 DEF AlertInv, AlertTypes, StageInv
<1>4. status = (IF Missing THEN "partial" ELSE "full") /\ status \in {"full", "partial"}
  BY <1>3
<1> HIDE DEF status
<1>5. health' \in [mcp : {"unknown", "ready", "degraded"}, volume : {"unknown", "ready", "degraded"},
                   last : {"none", "full", "partial", "failed"}] /\ health'.last = status
  BY <1>1, <1>4 DEF AlertInv, AlertTypes
<1>6. AlertTypes'
  BY <1>1, <1>5 DEF AlertInv, AlertTypes, Stages
<1>7. mcp'.status = status
  BY <1>2 DEF EnrichedBy
<1>8. ASSUME mcp'.opposed = TRUE PROVE mcp'.priority = TRUE /\ mcp'.sentiment = "NEUTRAL"
  <2> DEFINE contradictory == parts.confluence = "ok" /\ IsContradictory(webhook.side, rec, agree)
  <2>1. parts.confluence = "ok" /\ {webhook.side, rec} = {"BUY", "SELL"}
    BY <1>2, <1>8 DEF EnrichedBy
  <2>2. contradictory = TRUE /\ rec # "none"
    BY <2>1 DEF IsContradictory
  <2>3. /\ mcp'.priority = (contradictory /\ rec # "none")
        /\ mcp'.sentiment = SentimentOf(ScoreOf(webhook.side, bias, contradictory))
    BY <1>2 DEF EnrichedBy
  <2> HIDE DEF contradictory
  <2> QED BY <2>2, <2>3, ContradictedIsNeutral
<1>9. AlertGiven'
  BY <1>1, <1>3, <1>4, <1>5, <1>7, <1>8
     DEF AlertGiven, Signalled, Missing, VolumeMissing, ConfluenceMissing
<1>10. StageInv'
  BY <1>1, <1>9 DEF StageInv
<1> QED BY <1>1, <1>6, <1>10, NotYet DEF AlertInv

\* The answer tells the truth about what was given.
LEMMA AnswerStep ==
    ASSUME AlertInv, stage = "gemini", NEW enriched, NEW sentiment, Answer(enriched, sentiment),
           mcp # NoMcp => enriched,
           mcp.opposed /\ mcp.priority => sentiment = mcp.sentiment
    PROVE  AlertInv'
<1>1. /\ stage' = "answered" /\ UNCHANGED <<webhook, parts, partial, mcp, health>>
      /\ answer' = [enriched |-> enriched, sentiment |-> sentiment, status |-> StatusFor(mcp.status),
                    applied |-> enriched /\ StatusFor(mcp.status) \in {"full", "partial"}]
  BY DEF Answer
<1>2. webhook.asked \in BOOLEAN
  BY DEF AlertInv, AlertTypes, Webhooks
<1>3. NothingGiven \/ AlertGiven
  BY DEF AlertInv, StageInv
<1>4. StatusFor(mcp.status) = Truth
  <2>1. CASE NothingGiven
    BY <1>2, <2>1 DEF NothingGiven, NoMcp, StatusFor, Truth, Signalled
  <2>2. CASE AlertGiven
    BY <1>2, <2>2 DEF AlertGiven, StatusFor, Truth, Signalled
  <2> QED BY <1>3, <2>1, <2>2
<1>5. Truth \in {"full", "partial"} => enriched
  <2>1. CASE NothingGiven
    BY <1>2, <2>1 DEF NothingGiven, Truth, Signalled
  <2>2. CASE AlertGiven
    BY <2>2 DEF AlertGiven, NoMcp
  <2> QED BY <1>3, <2>1, <2>2
<1>6. answer'.status = Truth
  BY <1>1, <1>4
<1>7. answer'.applied = (Truth \in {"full", "partial"})
  BY <1>1, <1>4, <1>5
<1>8. Signalled => health.last = Truth
  <2>1. CASE NothingGiven
    BY <1>2, <2>1 DEF NothingGiven, Truth, Signalled
  <2>2. CASE AlertGiven
    BY <1>2, <2>2 DEF AlertGiven, Truth, Signalled
  <2> QED BY <1>3, <2>1, <2>2
<1>9. mcp.opposed => answer'.sentiment = "NEUTRAL"
  <2>1. CASE NothingGiven
    BY <2>1 DEF NothingGiven, NoMcp
  <2>2. CASE AlertGiven
    BY <1>1, <2>2 DEF AlertGiven
  <2> QED BY <1>3, <2>1, <2>2
<1>10. AlertTypes'
  BY <1>1 DEF AlertInv, AlertTypes, Stages
<1>11. Truth' = Truth /\ Signalled' = Signalled
  BY <1>1 DEF Truth, Signalled, Missing, VolumeMissing, ConfluenceMissing
<1>12. AlertTellsTruth'
  <2>1. /\ answer'.status = Truth' /\ answer'.applied = (Truth' \in {"full", "partial"})
        /\ (Signalled' => health'.last = Truth')
        /\ (mcp'.opposed => answer'.sentiment = "NEUTRAL")
    BY <1>1, <1>6, <1>7, <1>8, <1>9, <1>11
  <2> QED BY <1>10, <2>1, TruthIsTold
<1>13. StageInv'
  BY <1>1 DEF StageInv
<1> QED BY <1>10, <1>12, <1>13 DEF AlertInv

-----------------------------------------------------------------------------
LEMMA AlertInvStep == AlertInv /\ [EnrichmentNext]_enrichmentVars => AlertInv'
<1> SUFFICES ASSUME AlertInv, [EnrichmentNext]_enrichmentVars PROVE AlertInv'
  OBVIOUS
<1>1. CASE ReceiveAlert
  BY <1>1, ReceiveStep
<1>2. CASE CallCoinAnalysis \/ Backoff
  BY <1>2, BaseStep
<1>3. CASE CallVolumeConfirmation
  BY <1>3, VolumeStep
<1>4. CASE CallConfluence
  BY <1>4, ConfluenceStep
<1>5. CASE ToEnrichedAlert
  BY <1>5, EnrichedStep
<1>6. CASE WithoutGemini
  <2> DEFINE enriched == mcp # NoMcp
  <2>1. stage = "gemini" /\ Answer(enriched, mcp.sentiment) /\ (mcp # NoMcp => enriched)
    BY <1>6 DEF WithoutGemini
  <2> HIDE DEF enriched
  <2> QED BY <2>1, AnswerStep, Zenon
<1>7. CASE WithGemini
  <2> DEFINE told(gemini) == IF mcp # NoMcp THEN MergedSentiment(gemini) ELSE gemini
  <2>1. PICK gemini \in Sentiments : stage = "gemini" /\ Answer(TRUE, told(gemini))
    BY <1>7 DEF WithGemini
  <2>2. mcp.opposed /\ mcp.priority => mcp # NoMcp
    BY DEF NoMcp
  <2>3. mcp.opposed /\ mcp.priority => told(gemini) = mcp.sentiment
    BY <2>2 DEF MergedSentiment
  <2> HIDE DEF told
  <2> QED BY <2>1, <2>3, AnswerStep, Zenon
<1>8. CASE UNCHANGED enrichmentVars
  BY <1>8 DEF enrichmentVars, AlertInv, AlertTypes, StageInv, AlertTellsTruth, Signalled, NothingGiven,
              AlertGiven, Missing, VolumeMissing, ConfluenceMissing
<1> QED BY <1>1, <1>2, <1>3, <1>4, <1>5, <1>6, <1>7, <1>8 DEF EnrichmentNext

\* The answer, the stored document and the telemetry tell what the enrichment did
\* (processEnrichment, mergeEnrichmentData, enrichFromSignal).
THEOREM AlertsTellTruth == EnrichmentSpec => []AlertTellsTruth
<1>1. AlertInv => AlertTellsTruth
  BY DEF AlertInv
<1> QED BY <1>1, AlertInvInit, AlertInvStep, PTL DEF EnrichmentSpec

-----------------------------------------------------------------------------
(* The budget of the enrichment.                                            *)

\* What a retry costs: its delay, when there is one after attempt n.
DelayAfter(n, a) == IF n >= a /\ n < webhook.retries THEN LongestBackoff(n) ELSE 0

\* What is left of the base budget for the attempts from a on.
BudgetLeft(a) == BaseBudget - ms - RetryReserve(a)

\* Enough is left for every attempt still to come, however long one takes.
BudgetInv ==
  /\ webhook \in Webhooks /\ parts \in [Parts -> Outcomes]
  /\ ms \in Nat /\ attempt \in Nat
  /\ stage = "received" => ms = 0
  /\ stage \in {"received", "base", "backoff"} => parts["base"] = "none"
  /\ stage = "base" =>
       attempt \in 1..webhook.retries /\ BudgetLeft(attempt) >= 30 * (webhook.retries - attempt + 1)
  /\ stage = "backoff" =>
       attempt \in 1..(webhook.retries - 1) /\ BudgetLeft(attempt) >= 30 * (webhook.retries - attempt)
  /\ RetriesFitBudget

LEMMA EqualShares ==
    ASSUME NEW whole \in Nat, whole >= 750, NEW n \in 1..5
    PROVE  /\ whole \div n \in Nat /\ whole \div n >= 1
           /\ whole - (n - 1) * (whole \div n) >= 30 * n
<1>1. CASE n = 1 BY <1>1
<1>2. CASE n = 2 BY <1>2
<1>3. CASE n = 3 BY <1>3
<1>4. CASE n = 4 BY <1>4
<1>5. CASE n = 5 BY <1>5
<1> QED BY <1>1, <1>2, <1>3, <1>4, <1>5

LEMMA ThreeQuarters ==
    ASSUME NEW whole \in Nat, whole >= 1000
    PROVE  /\ (3 * whole) \div 4 \in Nat /\ (3 * whole) \div 4 >= 750 /\ (3 * whole) \div 4 <= whole
OBVIOUS

LEMMA WebhookTypes ==
    ASSUME webhook \in Webhooks
    PROVE  /\ webhook.budget \in Nat /\ webhook.timeout \in Nat /\ webhook.retries \in 1..5
           /\ BaseBudget \in Nat /\ BaseBudget >= 750 /\ BaseBudget <= webhook.budget
<1>1. webhook.budget \in Budgets /\ webhook.timeout \in CallTimeouts /\ webhook.retries \in RetryLimits
  BY DEF Webhooks
<1>2. /\ \A b \in Budgets : b \in Nat /\ b >= 1000
      /\ \A t \in CallTimeouts : t \in Nat
      /\ \A r \in RetryLimits : r \in 1..5
  BY EnrichmentAssumption
<1>3. PICK whole \in Nat : whole = webhook.budget /\ whole >= 1000
  BY <1>1, <1>2
<1>4. \/ BaseBudget = whole
      \/ BaseBudget = (3 * whole) \div 4
  BY <1>3 DEF BaseBudget
<1>5. BaseBudget \in Nat /\ BaseBudget >= 750 /\ BaseBudget <= whole
  BY <1>3, <1>4, ThreeQuarters
<1> QED BY <1>1, <1>2, <1>3, <1>5

LEMMA DelayBounds ==
    ASSUME webhook \in Webhooks, NEW n \in 1..5
    PROVE  /\ LongestBackoff(n) \in Nat /\ LongestBackoff(n) <= RetryDelayCap
           /\ \A delay \in BackoffDelays(n) : delay \in Nat /\ delay <= LongestBackoff(n)
           /\ RetryDelayCap \in Nat /\ RetryDelayCap = BaseBudget \div webhook.retries
<1>1. BaseBudget \in Nat /\ BaseBudget >= 750 /\ webhook.retries \in 1..5
  BY WebhookTypes
<1>2. BaseBudget \div webhook.retries \in Nat /\ BaseBudget \div webhook.retries >= 1
  <2>1. PICK whole \in Nat, k \in 1..5 : whole = BaseBudget /\ k = webhook.retries /\ whole >= 750
    BY <1>1, SMT
  <2>2. whole \div k \in Nat /\ whole \div k >= 1
    BY <2>1, EqualShares, SMT
  <2> QED BY <2>1, <2>2, SMT
<1>3. RetryDelayCap \in Nat /\ RetryDelayCap = BaseBudget \div webhook.retries
  BY <1>2 DEF RetryDelayCap, Most
<1>4. PICK power \in Nat : power = 2 ^ (n - 1)
  <2>1. CASE n = 1 BY <2>1
  <2>2. CASE n = 2 BY <2>2
  <2>3. CASE n = 3 BY <2>3
  <2>4. CASE n = 4 BY <2>4
  <2>5. CASE n = 5 BY <2>5
  <2> QED BY <2>1, <2>2, <2>3, <2>4, <2>5
<1>5. /\ LongestBackoff(n) = Least(1100 * power, RetryDelayCap)
      /\ BackoffDelays(n) = {Least(share * power, RetryDelayCap) : share \in {900, 1100}}
  BY <1>4 DEF LongestBackoff, BackoffDelays
<1>6. LongestBackoff(n) \in Nat /\ LongestBackoff(n) <= RetryDelayCap
  BY <1>3, <1>4, <1>5 DEF Least
<1>7. ASSUME NEW delay \in BackoffDelays(n)
      PROVE  delay \in Nat /\ delay <= LongestBackoff(n)
  <2>1. PICK share \in {900, 1100} : delay = Least(share * power, RetryDelayCap)
    BY <1>5
  <2>2. CASE share = 900
    BY <1>3, <1>4, <1>5, <2>1, <2>2 DEF Least
  <2>3. CASE share = 1100
    BY <1>3, <1>4, <1>5, <2>1, <2>3 DEF Least
  <2> QED BY <2>1, <2>2, <2>3
<1> QED BY <1>3, <1>6, <1>7

\* The recursive sum, written out.
LEMMA ReserveIs ==
    ASSUME webhook \in Webhooks, NEW a \in 1..5
    PROVE  /\ RetryReserve(a) =
                DelayAfter(1, a) + DelayAfter(2, a) + DelayAfter(3, a) + DelayAfter(4, a) + DelayAfter(5, a)
           /\ \A n \in 1..5 : DelayAfter(n, a) \in Nat
<1> DEFINE step(f) == [n \in 0..5 |-> IF n = 0 THEN 0 ELSE f[n - 1] + DelayAfter(n, a)]
           sum == CHOOSE f : f = step(f)
           d(n) == DelayAfter(n, a)
           written == [n \in 0..5 |-> IF n = 0 THEN 0 ELSE IF n = 1 THEN d(1) ELSE IF n = 2 THEN d(1) + d(2)
                        ELSE IF n = 3 THEN d(1) + d(2) + d(3) ELSE IF n = 4 THEN d(1) + d(2) + d(3) + d(4)
                        ELSE d(1) + d(2) + d(3) + d(4) + d(5)]
<1>1. \A n \in 1..5 : d(n) \in Nat
  BY DelayBounds, SMT DEF DelayAfter
<1>2. RetryReserve(a) = sum[5]
  BY DEF RetryReserve, DelayAfter
<1> HIDE DEF d
<1>3. \A f : step(f) = [n \in 0..5 |-> IF n = 0 THEN 0 ELSE f[n - 1] + d(n)]
  BY DEF d
<1> HIDE DEF step
<1>4. written = step(written)
  BY <1>1, <1>3
<1> HIDE DEF written
<1>5. sum = step(sum)
  BY <1>4
<1> HIDE DEF sum
<1>6. sum = [n \in 0..5 |-> IF n = 0 THEN 0 ELSE sum[n - 1] + d(n)]
  BY <1>3, <1>5
<1>7. /\ sum[0] = 0 /\ sum[1] = sum[0] + d(1) /\ sum[2] = sum[1] + d(2) /\ sum[3] = sum[2] + d(3)
      /\ sum[4] = sum[3] + d(4) /\ sum[5] = sum[4] + d(5)
  BY <1>6
<1>8. RetryReserve(a) = d(1) + d(2) + d(3) + d(4) + d(5)
  BY <1>1, <1>2, <1>7
<1> QED BY <1>1, <1>8 DEF d

\* The delay after an attempt is part of its reserve and not of the next one's; after
\* the last attempt there is none; the first attempt has a share of the budget at least.
LEMMA Reserves ==
    ASSUME webhook \in Webhooks
    PROVE  /\ \A a \in 1..webhook.retries : RetryReserve(a) \in Nat
           /\ \A a \in 1..(webhook.retries - 1) : RetryReserve(a) = LongestBackoff(a) + RetryReserve(a + 1)
           /\ BaseBudget - RetryReserve(1) >= 30 * webhook.retries
<1>1. webhook.retries \in 1..5 /\ BaseBudget \in Nat /\ BaseBudget >= 750
  BY WebhookTypes
<1>2. \A n \in 1..5 : LongestBackoff(n) \in Nat /\ LongestBackoff(n) <= RetryDelayCap
  BY DelayBounds
<1>3. \A a \in 1..webhook.retries : RetryReserve(a) \in Nat
  <2> SUFFICES ASSUME NEW a \in 1..webhook.retries PROVE RetryReserve(a) \in Nat
    OBVIOUS
  <2>1. a \in 1..5
    BY <1>1
  <2>2. /\ RetryReserve(a) =
             DelayAfter(1, a) + DelayAfter(2, a) + DelayAfter(3, a) + DelayAfter(4, a) + DelayAfter(5, a)
        /\ \A n \in 1..5 : DelayAfter(n, a) \in Nat
    BY <2>1, ReserveIs
  <2> QED BY <2>2
<1>4. ASSUME NEW a \in 1..(webhook.retries - 1)
      PROVE  RetryReserve(a) = LongestBackoff(a) + RetryReserve(a + 1)
  <2>1. /\ RetryReserve(a) =
             DelayAfter(1, a) + DelayAfter(2, a) + DelayAfter(3, a) + DelayAfter(4, a) + DelayAfter(5, a)
        /\ \A n \in 1..5 : DelayAfter(n, a) \in Nat
    <3>1. a \in 1..5
      BY <1>1
    <3> QED BY <3>1, ReserveIs
  <2>2. PICK b \in 1..5 : b = a + 1
    BY <1>1
  <2>3. /\ RetryReserve(b) =
             DelayAfter(1, b) + DelayAfter(2, b) + DelayAfter(3, b) + DelayAfter(4, b) + DelayAfter(5, b)
        /\ \A n \in 1..5 : DelayAfter(n, b) \in Nat
    BY ReserveIs
  <2>4. \A n \in 1..5 : IF n = a THEN DelayAfter(n, a) = LongestBackoff(a) /\ DelayAfter(n, b) = 0
                        ELSE DelayAfter(n, b) = DelayAfter(n, a)
    BY <1>1, <2>2 DEF DelayAfter
  <2>5. LongestBackoff(a) \in Nat
    BY <1>1, <1>2
  <2>6. RetryReserve(a) = LongestBackoff(a) + RetryReserve(b)
    BY <1>1, <2>1, <2>3, <2>4, <2>5
  <2> QED BY <2>2, <2>6
<1>5. BaseBudget - RetryReserve(1) >= 30 * webhook.retries
  <2>1. /\ RetryReserve(1) =
             DelayAfter(1, 1) + DelayAfter(2, 1) + DelayAfter(3, 1) + DelayAfter(4, 1) + DelayAfter(5, 1)
        /\ \A n \in 1..5 : DelayAfter(n, 1) \in Nat
    BY ReserveIs
  <2>2. \A n \in 1..5 : DelayAfter(n, 1) <= IF n < webhook.retries THEN RetryDelayCap ELSE 0
    BY <1>1, <1>2 DEF DelayAfter
  <2>3. PICK n \in 1..5, cap \in Nat :
          n = webhook.retries /\ cap = RetryDelayCap /\ BaseBudget - (n - 1) * cap >= 30 * n
    <3>1. /\ RetryDelayCap \in Nat /\ RetryDelayCap = BaseBudget \div webhook.retries
      BY DelayBounds, SMT
    <3>2. PICK whole \in Nat, k \in 1..5 : whole = BaseBudget /\ k = webhook.retries /\ whole >= 750
      BY <1>1, SMT
    <3>3. whole - (k - 1) * (whole \div k) >= 30 * k
      BY <3>2, EqualShares, SMT
    <3> QED BY <3>1, <3>2, <3>3, SMT
  <2>4. \A m \in 1..5 : DelayAfter(m, 1) <= IF m < n THEN cap ELSE 0
    BY <2>2, <2>3
  <2>5. RetryReserve(1) <= (n - 1) * cap /\ RetryReserve(1) \in Nat
    <3>1. CASE n = 1 BY <2>1, <2>3, <2>4, <3>1
    <3>2. CASE n = 2 BY <2>1, <2>3, <2>4, <3>2
    <3>3. CASE n = 3 BY <2>1, <2>3, <2>4, <3>3
    <3>4. CASE n = 4 BY <2>1, <2>3, <2>4, <3>4
    <3>5. CASE n = 5 BY <2>1, <2>3, <2>4, <3>5
    <3> QED BY <3>1, <3>2, <3>3, <3>4, <3>5
  <2>6. (n - 1) * cap \in Nat
    BY <2>3
  <2> QED BY <1>1, <2>3, <2>5, <2>6
<1> QED BY <1>3, <1>4, <1>5

\* A fair share of what is left leaves enough for the others.
LEMMA FairShare ==
    ASSUME NEW left \in Nat, NEW k \in 1..5, left >= 30 * k
    PROVE  left \div k \in Nat /\ left \div k >= 1 /\ left - (left \div k) >= 30 * (k - 1)
<1>1. CASE k = 1 BY <1>1
<1>2. CASE k = 2 BY <1>2
<1>3. CASE k = 3 BY <1>3
<1>4. CASE k = 4 BY <1>4
<1>5. CASE k = 5 BY <1>5
<1> QED BY <1>1, <1>2, <1>3, <1>4, <1>5

LEMMA CallTakes ==
    ASSUME NEW timeout \in Nat, NEW call \in CallOutcomes(timeout)
    PROVE  call.took \in Nat /\ call.took <= timeout
<1>1. timeout \div 2 \in Nat /\ timeout \div 2 <= timeout
  OBVIOUS
<1> QED BY <1>1 DEF CallOutcomes

-----------------------------------------------------------------------------
LEMMA BudgetInit == EnrichmentInit => BudgetInv
<1> SUFFICES ASSUME EnrichmentInit PROVE BudgetInv
  OBVIOUS
<1>1. parts \in [Parts -> Outcomes] /\ parts["base"] = "none"
  BY DEF EnrichmentInit, Parts, Outcomes
<1>2. webhook \in Webhooks /\ stage = "received" /\ ms = 0 /\ attempt = 0
  BY DEF EnrichmentInit
<1>3. webhook.budget \in Nat
  BY <1>2, WebhookTypes
<1> QED BY <1>1, <1>2, <1>3 DEF BudgetInv, RetriesFitBudget

\* The first attempt finds enough for all.
LEMMA BudgetReceive == ASSUME BudgetInv, ReceiveAlert PROVE BudgetInv'
<1>1. /\ stage = "received" /\ ms = 0 /\ UNCHANGED <<webhook, ms, parts>>
      /\ parts \in [Parts -> Outcomes] /\ parts["base"] = "none"
      /\ webhook \in Webhooks /\ attempt \in Nat
  BY DEF ReceiveAlert, BudgetInv
<1>2. /\ webhook.budget \in Nat /\ webhook.retries \in 1..5 /\ BaseBudget \in Nat
      /\ RetryReserve(1) \in Nat /\ BaseBudget - RetryReserve(1) >= 30 * webhook.retries
  BY <1>1, WebhookTypes, Reserves
<1>3. \/ stage' = "base" /\ attempt' = 1
      \/ stage' = "gemini" /\ attempt' = attempt
  BY DEF ReceiveAlert
<1>4. RetriesFitBudget'
  BY <1>1, <1>2 DEF RetriesFitBudget
<1>5. CASE stage' = "base" /\ attempt' = 1
  <2>1. BudgetLeft(attempt)' = BaseBudget - ms - RetryReserve(1)
    BY <1>1, <1>5 DEF BudgetLeft, BaseBudget, OptionalEnrichment, RetryReserve, LongestBackoff, RetryDelayCap
  <2>2. BudgetLeft(attempt)' >= 30 * (webhook.retries - 1 + 1)
    BY <1>1, <1>2, <2>1
  <2> QED BY <1>1, <1>2, <1>4, <1>5, <2>2 DEF BudgetInv
<1>6. CASE stage' = "gemini" /\ attempt' = attempt
  BY <1>1, <1>4, <1>6 DEF BudgetInv
<1> QED BY <1>3, <1>5, <1>6

LEMMA BudgetStays ==
    ASSUME UNCHANGED webhook, NEW a
    PROVE  attempt' = a => BudgetLeft(attempt)' = BaseBudget - ms' - RetryReserve(a)
<1>1. BaseBudget' = BaseBudget
  BY DEF BaseBudget, OptionalEnrichment
<1>2. RetryReserve(a)' = RetryReserve(a)
  BY <1>1 DEF RetryReserve, LongestBackoff, RetryDelayCap
<1> QED BY <1>1, <1>2 DEF BudgetLeft

\* An attempt, however long it takes, leaves enough for those after it.
LEMMA BudgetAttempt == ASSUME BudgetInv, CallCoinAnalysis PROVE BudgetInv'
<1>1. /\ stage = "base" /\ UNCHANGED webhook /\ webhook \in Webhooks
      /\ parts \in [Parts -> Outcomes] /\ parts["base"] = "none" /\ ms \in Nat
      /\ attempt \in 1..webhook.retries
      /\ BudgetLeft(attempt) >= 30 * (webhook.retries - attempt + 1)
  BY DEF CallCoinAnalysis, BudgetInv
<1>2. PICK k \in 1..5, reserve \in Nat, whole \in Nat :
        /\ k = webhook.retries - attempt + 1 /\ reserve = RetryReserve(attempt) /\ whole = BaseBudget
        /\ whole - ms - reserve >= 30 * k /\ whole <= webhook.budget
  <2>1. RetryReserve(attempt) \in Nat /\ BaseBudget \in Nat /\ webhook.retries \in 1..5
        /\ BaseBudget <= webhook.budget
    BY <1>1, Reserves, WebhookTypes
  <2> QED BY <1>1, <2>1 DEF BudgetLeft
<1>3. PICK left \in Nat : left = whole - ms - reserve
  BY <1>1, <1>2
<1>4. webhook.budget \in Nat /\ webhook.timeout \in Nat /\ webhook.retries \in 1..5
  BY <1>1, WebhookTypes
<1>5. AttemptTimeout \in Nat /\ AttemptTimeout <= left \div k
  <2>1. left \div k \in Nat /\ left \div k >= 1 /\ left >= 1
    BY <1>2, <1>3, FairShare
  <2>2. AttemptTimeout = Least(webhook.timeout, Most(1, Most(1, left) \div k))
    BY <1>2, <1>3 DEF AttemptTimeout
  <2>3. Most(1, left) = left /\ Most(1, left \div k) = left \div k
    BY <2>1 DEF Most
  <2> QED BY <1>4, <2>1, <2>2, <2>3 DEF Least
<1>6. PICK call \in CallOutcomes(AttemptTimeout) :
        /\ ms' = ms + call.took
        /\ \/ Ended("base", "ok") /\ stage' = "volume"
           \/ BaseFails /\ (attempt = webhook.retries \/ ms' >= BaseBudget)
           \/ /\ stage' = "backoff" /\ UNCHANGED <<parts, attempt>>
              /\ attempt # webhook.retries /\ ~(ms' >= BaseBudget)
  BY DEF CallCoinAnalysis
<1>7. call.took \in Nat /\ left - call.took >= 30 * (k - 1)
  <2>1. call.took \in Nat /\ call.took <= AttemptTimeout
    BY <1>5, CallTakes
  <2>2. left \div k \in Nat /\ left - (left \div k) >= 30 * (k - 1)
    BY <1>2, <1>3, FairShare
  <2> QED BY <1>5, <2>1, <2>2
<1>8. ms' \in Nat /\ whole - ms' - reserve >= 30 * (k - 1) /\ ms' <= whole
  BY <1>1, <1>2, <1>3, <1>6, <1>7
<1>9. attempt \in Nat /\ ms' <= webhook.budget
  <2>1. attempt \in Nat
    BY <1>1, <1>4
  <2>2. ms' <= webhook.budget
    BY <1>2, <1>4, <1>8
  <2> QED BY <2>1, <2>2
<1>11. CASE Ended("base", "ok") /\ stage' = "volume"
  <2>1. parts' \in [Parts -> Outcomes] /\ parts'["base"] = "ok"
    BY <1>1, <1>11 DEF Ended, Outcomes, Parts
  <2>2. attempt' \in Nat
    <3>1. attempt' = attempt
      BY <1>11 DEF CallCoinAnalysis, BaseFails
    <3> QED BY <1>9, <3>1
  <2>3. RetriesFitBudget'
    BY <1>1, <1>9, <2>1 DEF RetriesFitBudget
  <2> QED BY <1>1, <1>8, <1>11, <2>1, <2>2, <2>3 DEF BudgetInv
<1>12. CASE BaseFails /\ (attempt = webhook.retries \/ ms' >= BaseBudget)
  <2>1. parts' \in [Parts -> Outcomes] /\ stage' = "gemini" /\ attempt' = attempt
    BY <1>1, <1>12 DEF BaseFails, Ended, Outcomes
  <2>2. attempt = webhook.retries
    <3>1. CASE k = 1
      <4>1. webhook.retries - attempt + 1 = 1
        BY <1>2, <3>1
      <4>2. PICK a \in Nat, n \in Nat : a = attempt /\ n = webhook.retries
        BY <1>4, <1>9
      <4>3. n - a + 1 = 1
        BY <4>1, <4>2
      <4>4. a = n
        BY <4>2, <4>3
      <4> QED BY <4>2, <4>4
    <3>2. CASE k > 1
      BY <1>1, <1>2, <1>8, <1>12, <3>2
    <3> QED BY <1>2, <3>1, <3>2
  <2>3. RetriesFitBudget'
    BY <1>1, <1>9, <2>1, <2>2 DEF RetriesFitBudget
  <2> QED BY <1>1, <1>8, <1>9, <2>1, <2>3 DEF BudgetInv
<1>13. CASE stage' = "backoff" /\ UNCHANGED <<parts, attempt>> /\ attempt # webhook.retries
  <2>1. attempt \in 1..(webhook.retries - 1)
    BY <1>1, <1>4, <1>13
  <2>2. BudgetLeft(attempt)' = whole - ms' - reserve
    <3>1. PICK a : a = attempt /\ a = attempt'
      BY <1>13
    <3> QED BY <1>1, <1>2, <3>1, BudgetStays
  <2>3. BudgetLeft(attempt)' >= 30 * (webhook.retries - attempt)
    BY <1>1, <1>2, <1>4, <1>8, <2>2
  <2>4. RetriesFitBudget'
    BY <1>1, <1>9, <1>13 DEF RetriesFitBudget
  <2> QED BY <1>1, <1>8, <1>9, <1>13, <2>1, <2>3, <2>4 DEF BudgetInv
<1> QED BY <1>6, <1>11, <1>12, <1>13

\* The delay was reserved: it does not end early.
LEMMA BudgetBackoff == ASSUME BudgetInv, Backoff PROVE BudgetInv'
<1>1. /\ stage = "backoff" /\ UNCHANGED webhook /\ webhook \in Webhooks
      /\ parts \in [Parts -> Outcomes] /\ parts["base"] = "none" /\ ms \in Nat
      /\ attempt \in 1..(webhook.retries - 1)
      /\ BudgetLeft(attempt) >= 30 * (webhook.retries - attempt)
  BY DEF Backoff, BudgetInv
<1>2. /\ webhook.budget \in Nat /\ webhook.retries \in 1..5 /\ BaseBudget \in Nat
      /\ BaseBudget <= webhook.budget
  BY <1>1, WebhookTypes
<1>3. PICK a \in 1..5 : a = attempt /\ a + 1 \in 1..webhook.retries
  BY <1>1, <1>2
<1>4. PICK delay \in BackoffDelays(a) :
        \/ ms + delay >= BaseBudget
        \/ ms' = ms + delay /\ stage' = "base" /\ attempt' = attempt + 1 /\ UNCHANGED parts
  BY <1>3 DEF Backoff
<1>5. PICK longest \in Nat, reserve \in Nat :
        /\ longest = LongestBackoff(a) /\ reserve = RetryReserve(a + 1)
        /\ RetryReserve(a) = longest + reserve /\ delay \in Nat /\ delay <= longest
  <2>1. a \in 1..(webhook.retries - 1)
    BY <1>1, <1>3
  <2>2. RetryReserve(a + 1) \in Nat /\ RetryReserve(a) = LongestBackoff(a) + RetryReserve(a + 1)
    BY <1>1, <1>3, <2>1, Reserves
  <2>3. LongestBackoff(a) \in Nat /\ delay \in Nat /\ delay <= LongestBackoff(a)
    BY <1>1, DelayBounds
  <2> QED BY <2>2, <2>3
<1>6. /\ ms + delay \in Nat /\ ms + delay < BaseBudget
      /\ BaseBudget - (ms + delay) - reserve >= 30 * (webhook.retries - attempt)
  BY <1>1, <1>2, <1>3, <1>5 DEF BudgetLeft
<1>7. ms' = ms + delay /\ stage' = "base" /\ attempt' = attempt + 1 /\ UNCHANGED parts
  BY <1>1, <1>2, <1>4, <1>6
<1>8. BudgetLeft(attempt)' = BaseBudget - (ms + delay) - reserve
  <2>1. PICK b : b = a + 1 /\ b = attempt'
    BY <1>3, <1>7
  <2> QED BY <1>1, <1>5, <1>7, <2>1, BudgetStays
<1>9. BudgetLeft(attempt)' >= 30 * (webhook.retries - attempt' + 1)
  BY <1>1, <1>2, <1>6, <1>7, <1>8
<1>10. attempt' \in 1..webhook.retries
  BY <1>3, <1>7
<1>11. ms' \in Nat /\ attempt' \in Nat /\ ms' <= webhook.budget
  BY <1>1, <1>2, <1>6, <1>7
<1>12. RetriesFitBudget'
  BY <1>1, <1>7, <1>11 DEF RetriesFitBudget
<1> QED BY <1>1, <1>7, <1>9, <1>10, <1>11, <1>12 DEF BudgetInv

\* After the base analysis only the time still counts.
LEMMA BudgetAfter ==
    ASSUME BudgetInv, UNCHANGED <<webhook, attempt>>, stage' \in {"confluence", "enriched", "gemini", "answered"},
           parts' \in [Parts -> Outcomes], parts'["base"] = parts["base"],
           ms' \in Nat, ms' <= webhook.budget
    PROVE  BudgetInv'
<1>1. RetriesFitBudget'
  BY DEF BudgetInv, RetriesFitBudget
<1> QED BY <1>1 DEF BudgetInv

LEMMA BudgetVolume == ASSUME BudgetInv, CallVolumeConfirmation PROVE BudgetInv'
<1>1. /\ stage = "volume" /\ stage' = "confluence" /\ UNCHANGED <<webhook, attempt>>
      /\ webhook \in Webhooks /\ parts \in [Parts -> Outcomes] /\ ms \in Nat /\ ms <= webhook.budget
  BY DEF CallVolumeConfirmation, BudgetInv, RetriesFitBudget
<1>2. PICK left \in Nat : left = webhook.budget - ms
  BY <1>1, WebhookTypes
<1>3. PICK limit \in Nat : limit = Least(5000, webhook.budget - ms) /\ limit <= left
  BY <1>2, SMT DEF Least
<1>4. \/ UNCHANGED <<ms, parts>>
      \/ \E call \in CallOutcomes(limit) : VolumeOver(call)
  BY <1>3 DEF CallVolumeConfirmation
<1>5. CASE UNCHANGED <<ms, parts>>
  BY <1>1, <1>5, BudgetAfter
<1>6. ASSUME NEW call \in CallOutcomes(limit), VolumeOver(call)
      PROVE  BudgetInv'
  <2>1. call.took \in Nat /\ call.took <= limit /\ call.result \in {"ok", "bad"}
    BY CallTakes, CallResult
  <2>2. parts' \in [Parts -> Outcomes] /\ parts'["base"] = parts["base"] /\ ms' = ms + call.took
    BY <1>1, <1>6, <2>1 DEF VolumeOver, Ended, Outcomes, Parts
  <2>3. ms' \in Nat /\ ms' <= webhook.budget
    BY <1>1, <1>2, <1>3, <2>1, <2>2, WebhookTypes
  <2> QED BY <1>1, <2>2, <2>3, BudgetAfter
<1> QED BY <1>4, <1>5, <1>6

LEMMA BudgetConfluence == ASSUME BudgetInv, CallConfluence PROVE BudgetInv'
<1>1. /\ stage = "confluence" /\ stage' = "enriched" /\ UNCHANGED <<webhook, attempt>>
      /\ webhook \in Webhooks /\ parts \in [Parts -> Outcomes] /\ ms \in Nat /\ ms <= webhook.budget
  BY DEF CallConfluence, BudgetInv, RetriesFitBudget
<1>2. PICK left \in Nat : left = webhook.budget - ms
  BY <1>1, WebhookTypes
<1>3. PICK limit \in Nat : limit = Least(8000, webhook.budget - ms) /\ limit <= left
  BY <1>2, SMT DEF Least
<1>4. \/ UNCHANGED <<ms, parts>>
      \/ \E call \in CallOutcomes(limit) :
           \/ ConfluenceOver(call)
           \/ \E second \in CallOutcomes(limit - call.took) : SecondOver(call, second)
  BY <1>3 DEF CallConfluence
<1>5. CASE UNCHANGED <<ms, parts>>
  BY <1>1, <1>5, BudgetAfter
<1>6. ASSUME NEW call \in CallOutcomes(limit), ConfluenceOver(call)
      PROVE  BudgetInv'
  <2>1. call.took \in Nat /\ call.took <= limit /\ call.result \in {"ok", "bad"}
    BY CallTakes, CallResult
  <2>2. parts' \in [Parts -> Outcomes] /\ parts'["base"] = parts["base"] /\ ms' = ms + call.took
    BY <1>1, <1>6, <2>1 DEF ConfluenceOver, Ended, Outcomes, Parts
  <2>3. ms' \in Nat /\ ms' <= webhook.budget
    BY <1>1, <1>2, <1>3, <2>1, <2>2, WebhookTypes
  <2> QED BY <1>1, <2>2, <2>3, BudgetAfter
<1>7. ASSUME NEW call \in CallOutcomes(limit), NEW second \in CallOutcomes(limit - call.took),
             SecondOver(call, second)
      PROVE  BudgetInv'
  <2>1. call.took \in Nat /\ call.took <= limit /\ second.result \in {"ok", "bad"}
    BY CallTakes, CallResult
  <2>2. PICK rest \in Nat : rest = limit - call.took
    BY <1>3, <2>1
  <2>3. second.took \in Nat /\ second.took <= rest
    BY <2>2, CallTakes
  <2>4. parts' \in [Parts -> Outcomes] /\ parts'["base"] = parts["base"] /\ ms' = ms + call.took + second.took
    BY <1>1, <1>7, <2>1 DEF SecondOver, Outcomes, Parts
  <2>5. ms' \in Nat /\ ms' <= webhook.budget
    BY <1>1, <1>2, <1>3, <2>1, <2>2, <2>3, <2>4, WebhookTypes
  <2> QED BY <1>1, <2>4, <2>5, BudgetAfter
<1> QED BY <1>4, <1>5, <1>6, <1>7

LEMMA BudgetStep == BudgetInv /\ [EnrichmentNext]_enrichmentVars => BudgetInv'
<1> SUFFICES ASSUME BudgetInv, [EnrichmentNext]_enrichmentVars PROVE BudgetInv'
  OBVIOUS
<1>1. CASE ReceiveAlert
  BY <1>1, BudgetReceive
<1>2. CASE CallCoinAnalysis
  BY <1>2, BudgetAttempt
<1>3. CASE Backoff
  BY <1>3, BudgetBackoff
<1>4. CASE CallVolumeConfirmation
  BY <1>4, BudgetVolume
<1>5. CASE CallConfluence
  BY <1>5, BudgetConfluence
<1>6. CASE ToEnrichedAlert \/ WithoutGemini \/ WithGemini
  <2>1. UNCHANGED <<webhook, attempt, ms, parts>> /\ stage' \in {"gemini", "answered"}
    BY <1>6 DEF ToEnrichedAlert, WithoutGemini, WithGemini, Answer
  <2> QED BY <2>1, BudgetAfter DEF BudgetInv, RetriesFitBudget
<1>7. CASE UNCHANGED enrichmentVars
  BY <1>7 DEF enrichmentVars, BudgetInv, RetriesFitBudget, BudgetLeft, BaseBudget, OptionalEnrichment,
              RetryReserve, LongestBackoff, RetryDelayCap
<1> QED BY <1>1, <1>2, <1>3, <1>4, <1>5, <1>6, <1>7 DEF EnrichmentNext

\* The enrichment keeps its budget, and no attempt of the base analysis is lost to it
\* (enrichFromSignal, retryReserveMs).
THEOREM AttemptsFitBudget == EnrichmentSpec => []RetriesFitBudget
<1>1. BudgetInv => RetriesFitBudget
  BY DEF BudgetInv
<1> QED BY <1>1, BudgetInit, BudgetStep, PTL DEF EnrichmentSpec

-----------------------------------------------------------------------------
(* The collection of alerts and its readers.                                *)

AlertDocs == [state : {"none", "live", "expired", "deleted"}, tick : 0..LastTick,
              matching : BOOLEAN]
AlertCursors == [tick : Nat, id : Nat]
AlertReaders == [pc : {"idle", "reading", "done", "failed"}, kind : {"list", "export", "summary"},
                 cursor : AlertCursors, matches : SUBSET AlertIds, shown : SUBSET AlertIds,
                 from : Nat, to : Nat, known : SUBSET AlertIds]

AlertData ==
  /\ tick \in 0..LastTick
  /\ alert \in [AlertIds -> AlertDocs]
  /\ reader \in AlertReaders

\* The place of a document among those of S, from 0.
Place(S, i) == Cardinality({j \in S : Newer(j, i)})

\* A set of documents is finite.
LEMMA DocumentsFinite == ASSUME NEW S \in SUBSET AlertIds PROVE IsFiniteSet(S)
<1>1. AlertCount \in Nat
  BY AlertAssumption
<1>2. IsFiniteSet(AlertIds)
  BY <1>1, FS_Interval, SMT DEF AlertIds
<1> QED BY <1>2, FS_Subset

\* Newer is a strict total order of the documents.
LEMMA NewerOrder ==
  ASSUME alert \in [AlertIds -> AlertDocs]
  PROVE  /\ \A i \in AlertIds : ~Newer(i, i)
         /\ \A i, j \in AlertIds : i # j => Newer(i, j) \/ Newer(j, i)
         /\ \A i, j \in AlertIds : ~(Newer(i, j) /\ Newer(j, i))
         /\ \A i, j, k \in AlertIds : Newer(i, j) /\ Newer(j, k) => Newer(i, k)
<1>1. \A i \in AlertIds : i \in Nat /\ alert[i].tick \in Nat
  BY AlertAssumption DEF AlertIds, AlertDocs
<1> QED BY <1>1 DEF Newer

\* A document's place is a number below the size of the set.
LEMMA PlaceBound ==
  ASSUME alert \in [AlertIds -> AlertDocs], NEW S \in SUBSET AlertIds, NEW i \in S
  PROVE  /\ Place(S, i) \in Nat /\ Cardinality(S) \in Nat
         /\ Place(S, i) < Cardinality(S)
<1> DEFINE Before == {j \in S : Newer(j, i)}
<1>1. IsFiniteSet(S) /\ Before \subseteq S /\ i \notin Before
  BY DocumentsFinite, NewerOrder
<1>2. IsFiniteSet(Before) /\ Cardinality(Before) <= Cardinality(S)
  BY <1>1, FS_Subset
<1>3. Cardinality(Before) \in Nat /\ Cardinality(S) \in Nat
  BY <1>1, <1>2, FS_CardinalityType
<1>4. Cardinality(Before) # Cardinality(S)
  BY <1>1, FS_Subset
<1> HIDE DEF Before
<1>5. Cardinality(Before) < Cardinality(S)
  BY <1>2, <1>3, <1>4
<1> QED BY <1>3, <1>5 DEF Place, Before

\* A newer document comes first.
LEMMA PlaceGrows ==
  ASSUME alert \in [AlertIds -> AlertDocs], NEW S \in SUBSET AlertIds, NEW i \in S, NEW k \in S,
         Newer(k, i)
  PROVE  Place(S, k) < Place(S, i)
<1> DEFINE Before == {j \in S : Newer(j, i)}
           BeforeK == {j \in S : Newer(j, k)}
<1>1. BeforeK \subseteq Before /\ k \in Before /\ k \notin BeforeK
  BY NewerOrder
<1>2. IsFiniteSet(Before)
  BY DocumentsFinite
<1>3. IsFiniteSet(BeforeK) /\ Cardinality(BeforeK) <= Cardinality(Before)
  BY <1>1, <1>2, FS_Subset
<1>4. Cardinality(BeforeK) # Cardinality(Before)
  BY <1>1, <1>2, FS_Subset
<1>5. Cardinality(BeforeK) \in Nat /\ Cardinality(Before) \in Nat
  BY <1>2, <1>3, FS_CardinalityType
<1> HIDE DEF Before, BeforeK
<1>6. Cardinality(BeforeK) < Cardinality(Before)
  BY <1>3, <1>4, <1>5
<1> QED BY <1>6 DEF Place, Before, BeforeK

\* Every place is taken, once.
LEMMA PlacesFilled ==
  ASSUME alert \in [AlertIds -> AlertDocs], NEW S \in SUBSET AlertIds
  PROVE  [i \in S |-> Place(S, i)] \in Bijection(S, 0..(Cardinality(S) - 1))
<1> DEFINE f == [i \in S |-> Place(S, i)]
           T == 0..(Cardinality(S) - 1)
<1>1. IsFiniteSet(S)
  BY DocumentsFinite
<1>2. Cardinality(S) \in Nat
  BY <1>1, FS_CardinalityType
<1>3. \A i \in S : Place(S, i) \in T
  BY <1>2, PlaceBound
<1>4. \A i, k \in S : i # k => Place(S, i) # Place(S, k)
  <2> SUFFICES ASSUME NEW i \in S, NEW k \in S, i # k
               PROVE  Place(S, i) # Place(S, k)
    OBVIOUS
  <2>1. Place(S, i) \in Nat /\ Place(S, k) \in Nat
    BY PlaceBound
  <2>2. Newer(i, k) \/ Newer(k, i)
    BY NewerOrder
  <2>3. Place(S, i) < Place(S, k) \/ Place(S, k) < Place(S, i)
    BY <2>2, PlaceGrows
  <2> QED BY <2>1, <2>3
<1>5. f \in Injection(S, T)
  BY <1>3, <1>4 DEF Injection, IsInjective
<1>6. IsFiniteSet(T) /\ Cardinality(T) = Cardinality(S)
  <2>1. Cardinality(S) - 1 \in Int /\ 0 \in Int
    BY <1>2
  <2>2. IsFiniteSet(T) /\ Cardinality(T) = IF 0 > Cardinality(S) - 1 THEN 0
                                           ELSE (Cardinality(S) - 1) - 0 + 1
    BY <2>1, FS_Interval
  <2> QED BY <1>2, <2>2
<1>7. f \in Surjection(S, T)
  BY <1>5, <1>6, FS_Injection
<1> QED BY <1>5, <1>7 DEF Bijection

\* Of the n newest there are at most n; and when one is left out there are n, all newer.
LEMMA NewestCut ==
  ASSUME alert \in [AlertIds -> AlertDocs], NEW S \in SUBSET AlertIds, NEW n \in Nat
  PROVE  /\ NewestOf(S, n) \subseteq S
         /\ IsFiniteSet(NewestOf(S, n))
         /\ Cardinality(NewestOf(S, n)) \in Nat
         /\ Cardinality(NewestOf(S, n)) <= n
         /\ \A i \in S \ NewestOf(S, n) : /\ Cardinality(NewestOf(S, n)) = n
                                        /\ \A j \in NewestOf(S, n) : Newer(j, i)
<1> DEFINE N == NewestOf(S, n)
           f == [i \in S |-> Place(S, i)]
           g == [i \in N |-> Place(S, i)]
           T == 0..(n - 1)
<1>1. N = {i \in S : Place(S, i) < n}
  BY DEF NewestOf, Place
<1> HIDE DEF N
<1>2. N \subseteq S /\ IsFiniteSet(S) /\ IsFiniteSet(N)
  BY <1>1, DocumentsFinite
<1>3. Cardinality(S) \in Nat /\ Cardinality(N) \in Nat
  BY <1>2, FS_CardinalityType
<1>4. f \in Bijection(S, 0..(Cardinality(S) - 1))
  BY PlacesFilled
<1>5. \A i \in S : Place(S, i) \in Nat /\ Place(S, i) < Cardinality(S)
  BY PlaceBound
<1>6. \A i, k \in S : i # k => Place(S, i) # Place(S, k)
  BY <1>4 DEF Bijection, Injection, IsInjective
<1>7. g \in Injection(N, T)
  BY <1>1, <1>2, <1>5, <1>6 DEF Injection, IsInjective
<1>8. IsFiniteSet(T) /\ Cardinality(T) = n
  <2>1. n - 1 \in Int /\ 0 \in Int
    OBVIOUS
  <2>2. IsFiniteSet(T) /\ Cardinality(T) = IF 0 > n - 1 THEN 0 ELSE (n - 1) - 0 + 1
    BY <2>1, FS_Interval
  <2> QED BY <2>2
<1>9. Cardinality(N) <= n
  BY <1>7, <1>8, FS_Injection
<1>10. ASSUME NEW i \in S \ N
       PROVE  Cardinality(N) = n /\ \A j \in N : Newer(j, i)
  <2>1. n <= Place(S, i)
    BY <1>1, <1>5
  <2>2. \A p \in T : \E j \in N : Place(S, j) = p
    <3> SUFFICES ASSUME NEW p \in T PROVE \E j \in N : Place(S, j) = p
      OBVIOUS
    <3>1. p \in 0..(Cardinality(S) - 1) /\ p < n /\ p \in Nat
      BY <1>3, <1>5, <2>1
    <3>2. PICK j \in S : f[j] = p
      BY <1>4, <3>1 DEF Bijection, Surjection
    <3> QED BY <1>1, <3>1, <3>2
  <2>3. g \in Surjection(N, T)
    BY <1>7, <2>2 DEF Injection, Surjection
  <2>4. Cardinality(N) = n
    BY <1>7, <1>8, <2>3, FS_Injection
  <2>5. ASSUME NEW j \in N PROVE Newer(j, i)
    <3>1. Place(S, j) < Place(S, i) /\ j # i /\ j \in S
      BY <1>1, <1>2, <1>5, <2>1
    <3>2. ~Newer(i, j)
      <4> SUFFICES ASSUME Newer(i, j) PROVE FALSE
        OBVIOUS
      <4>1. Place(S, i) < Place(S, j)
        BY <1>2, PlaceGrows
      <4> QED BY <1>2, <1>5, <3>1, <4>1
    <3> QED BY <3>1, <3>2, NewerOrder
  <2> QED BY <2>4, <2>5
<1> QED BY <1>2, <1>3, <1>9, <1>10 DEF N

\* Documents that are not none have an oldest.
LEMMA OldestIs ==
  ASSUME alert \in [AlertIds -> AlertDocs], NEW S \in SUBSET AlertIds, S # {}
  PROVE  OldestOf(S) \in S /\ \A j \in S : j = OldestOf(S) \/ Newer(j, OldestOf(S))
<1> DEFINE f == [i \in S |-> Place(S, i)]
<1>1. f \in Bijection(S, 0..(Cardinality(S) - 1))
  BY PlacesFilled
<1>2. Cardinality(S) \in Nat /\ Cardinality(S) - 1 \in 0..(Cardinality(S) - 1)
  <2>1. PICK i \in S : TRUE
    OBVIOUS
  <2> QED BY PlaceBound
<1>3. PICK i \in S : f[i] = Cardinality(S) - 1
  BY <1>1, <1>2 DEF Bijection, Surjection
<1>4. \A j \in S \ {i} : Newer(j, i)
  <2> SUFFICES ASSUME NEW j \in S \ {i} PROVE Newer(j, i)
    OBVIOUS
  <2>1. ~Newer(i, j)
    <3> SUFFICES ASSUME Newer(i, j) PROVE FALSE
      OBVIOUS
    <3>1. Place(S, i) < Place(S, j) /\ Place(S, j) \in Nat /\ Place(S, j) < Cardinality(S)
      BY PlaceGrows, PlaceBound
    <3>2. Place(S, i) = Cardinality(S) - 1
      BY <1>3
    <3> HIDE DEF f
    <3> QED BY <1>2, <3>1, <3>2
  <2> QED BY <2>1, NewerOrder
<1> QED BY <1>4 DEF OldestOf

Saved(i) == alert[i].state # "none"

\* What an export or a summary has found and what it has still to find.
ReportKnown ==
  reader.kind # "list" => \A i \in reader.known : Saved(i) /\ InWindow(i, reader.from, reader.to)
ReportShown ==
  reader.kind # "list" => \A i \in reader.shown : Saved(i)
ReportAhead ==
  reader.kind # "list" /\ reader.pc = "reading" =>
    /\ \A i \in reader.shown : ~Behind(i, reader.cursor)
    /\ \A i \in reader.known \ reader.shown : Wanted(i) => Behind(i, reader.cursor)

ReportInv == ReportKnown /\ ReportShown /\ ReportAhead

\* The inductive invariant of the collection and its readers.
PagesInv == AlertData /\ ReportInv /\ ReportComplete

LEMMA MsType == ASSUME NEW t \in Nat PROVE Ms(t) \in Nat
BY AlertAssumption DEF Ms

LEMMA PagesInitInv == AlertInit => PagesInv
<1> SUFFICES ASSUME AlertInit PROVE PagesInv
  OBVIOUS
<1>1. LastTick \in Nat /\ Ms(LastTick) \in Nat
  BY AlertAssumption, MsType
<1>2. NoReader \in AlertReaders /\ reader = NoReader
  BY <1>1 DEF NoReader, AlertReaders, AlertCursors, Top, AlertInit
<1>3. AlertData
  BY <1>1, <1>2 DEF AlertData, AlertDocs, AlertInit
<1>4. reader.kind = "list"
  BY <1>2 DEF NoReader
<1> QED BY <1>3, <1>4 DEF PagesInv, ReportInv, ReportKnown, ReportShown, ReportAhead, ReportComplete

-----------------------------------------------------------------------------
(* What the collection does: the time of a saved document stays *)

Frozen ==
  \A i \in AlertIds : Saved(i) => /\ Saved(i)' /\ alert'[i].tick = alert[i].tick
                                  /\ (Wanted(i)' => Wanted(i))

LEMMA CollectionSteps ==
  ASSUME PagesInv, alert' \in [AlertIds -> AlertDocs], tick' \in 0..LastTick, Frozen,
         UNCHANGED reader
  PROVE  PagesInv'
<1>1. AlertData'
  BY DEF PagesInv, AlertData
<1>2. reader.shown \subseteq AlertIds /\ reader.known \subseteq AlertIds
  BY DEF PagesInv, AlertData, AlertReaders
<1>3. ReportKnown' /\ ReportShown'
  BY <1>2 DEF PagesInv, ReportInv, ReportKnown, ReportShown, Frozen, InWindow
<1>4. ReportAhead'
  BY <1>2 DEF PagesInv, ReportInv, ReportKnown, ReportShown, ReportAhead, Frozen, Behind
<1>5. ReportComplete'
  <2> SUFFICES ASSUME reader.pc = "done", reader.kind # "list",
                      NEW i \in reader.known, Wanted(i)', i \notin reader.shown
               PROVE  /\ Cardinality(reader.shown) = ReportLimit
                      /\ \A j \in reader.shown : Newer(j, i)'
    BY DEF ReportComplete
  <2>1. Saved(i) /\ Wanted(i)
    BY <1>2 DEF PagesInv, ReportInv, ReportKnown, Frozen
  <2>2. Cardinality(reader.shown) = ReportLimit /\ \A j \in reader.shown : Newer(j, i)
    BY <2>1 DEF PagesInv, ReportComplete
  <2>3. \A j \in reader.shown : Saved(j)
    BY DEF PagesInv, ReportInv, ReportShown
  <2> QED BY <1>2, <2>1, <2>2, <2>3 DEF Frozen, Newer
<1> QED BY <1>1, <1>3, <1>4, <1>5 DEF PagesInv, ReportInv

LEMMA PagesSave == ASSUME PagesInv, NEW i \in AlertIds, SaveAlert(i) PROVE PagesInv'
<1>1. PICK matching \in BOOLEAN :
        alert' = [alert EXCEPT ![i] = [state |-> "live", tick |-> tick, matching |-> matching]]
  BY DEF SaveAlert
<1>2. alert \in [AlertIds -> AlertDocs] /\ tick \in 0..LastTick /\ alert[i].state = "none"
  BY DEF PagesInv, AlertData, SaveAlert
<1>3. alert' \in [AlertIds -> AlertDocs]
  BY <1>1, <1>2 DEF AlertDocs
<1>4. Frozen
  BY <1>1, <1>2 DEF Frozen, Saved, Wanted
<1> QED BY <1>2, <1>3, <1>4, CollectionSteps DEF SaveAlert

LEMMA PagesAge == ASSUME PagesInv, NEW i \in AlertIds, Age(i) PROVE PagesInv'
<1>1. alert \in [AlertIds -> AlertDocs] /\ tick \in 0..LastTick
      /\ alert[i].state \in {"live", "expired"}
  BY DEF PagesInv, AlertData, Age
<1>2. alert' = [alert EXCEPT ![i].state = IF @ = "live" THEN "expired" ELSE "deleted"]
  BY DEF Age
<1>3. alert' \in [AlertIds -> AlertDocs]
  BY <1>1, <1>2 DEF AlertDocs
<1>4. Frozen
  BY <1>1, <1>2 DEF Frozen, Saved, Wanted, AlertDocs
<1> QED BY <1>1, <1>3, <1>4, CollectionSteps DEF Age

LEMMA PagesTime == ASSUME PagesInv, PassTime PROVE PagesInv'
<1>1. alert' \in [AlertIds -> AlertDocs] /\ tick' \in 0..LastTick
  BY AlertAssumption DEF PagesInv, AlertData, PassTime
<1>2. Frozen
  BY DEF Frozen, Saved, Wanted, PassTime
<1> QED BY <1>1, <1>2, CollectionSteps DEF PassTime

-----------------------------------------------------------------------------
(* The list, whose types alone matter here *)

LEMMA ScanType == /\ ListScan \in Nat \ {0} /\ ReportScan \in Nat \ {0}
                  /\ TargetCount \in Nat \ {0} /\ PageSize \in Nat \ {0}
                  /\ ReportLimit \in Nat \ {0}
BY AlertAssumption DEF ListScan, ReportScan, TargetCount, Larger

LEMMA MsCursorType ==
  ASSUME alert \in [AlertIds -> AlertDocs], NEW i \in AlertIds
  PROVE  MsCursor(i) \in AlertCursors
<1>1. alert[i].tick \in Nat /\ i \in Nat
  BY AlertAssumption DEF AlertDocs, AlertIds
<1>2. PICK m \in Nat : m = Ms(alert[i].tick)
  BY <1>1, MsType
<1>3. m * TicksPerMs \in Nat
  BY AlertAssumption
<1> QED BY <1>1, <1>2, <1>3 DEF MsCursor, AlertCursors

\* A step of a list leaves the collection alone and a reader of its type.
LEMMA ListSteps ==
  ASSUME PagesInv, reader' \in AlertReaders, reader'.kind = "list", UNCHANGED <<tick, alert>>
  PROVE  PagesInv'
BY DEF PagesInv, AlertData, ReportInv, ReportKnown, ReportShown, ReportAhead, ReportComplete

LEMMA PagesStartList == ASSUME PagesInv, StartList PROVE PagesInv'
<1>1. LastTick \in Nat /\ Ms(LastTick) \in Nat
  BY AlertAssumption, MsType
<1>2. PICK known \in SUBSET AlertIds : known = {i \in AlertIds : Wanted(i)}
  OBVIOUS
<1>3. Top \in AlertCursors
  BY <1>1 DEF Top, AlertCursors
<1>4. reader' = [NoReader EXCEPT !.pc = "reading", !.known = known]
  BY <1>2 DEF StartList
<1>5. reader' \in AlertReaders /\ reader'.kind = "list"
  BY <1>1, <1>3, <1>4 DEF NoReader, AlertReaders
<1> QED BY <1>5, ListSteps DEF StartList

LEMMA PagesReadFails == ASSUME PagesInv, ReadFails PROVE PagesInv'
<1>1. LastTick \in Nat /\ Ms(LastTick) \in Nat
  BY AlertAssumption, MsType
<1>2. reader' \in AlertReaders /\ reader'.kind = "list"
  BY <1>1 DEF ReadFails, NoReader, AlertReaders, AlertCursors, Top
<1> QED BY <1>2, ListSteps DEF ReadFails

LEMMA PagesListQuery == ASSUME PagesInv, ListQuery PROVE PagesInv'
<1> DEFINE behind == {i \in Stored : Behind(i, reader.cursor)}
           fetched == NewestOf(behind, ListScan)
           all == reader.matches \cup WantedOf(fetched)
           found == NewestOf(all, TargetCount)
           page == NewestOf(found, PageSize)
           more == Cardinality(found) > PageSize
           ended == Cardinality(found) >= TargetCount \/ Cardinality(fetched) < ListScan
           last == IF ended THEN page ELSE fetched
           edge == OldestOf(last)
<1>1. /\ alert \in [AlertIds -> AlertDocs] /\ reader \in AlertReaders
      /\ reader.kind = "list" /\ behind \in SUBSET AlertIds
  BY DEF PagesInv, AlertData, ListQuery, Stored
<1>2. /\ fetched \subseteq behind /\ IsFiniteSet(fetched)
      /\ Cardinality(fetched) \in Nat /\ fetched \in SUBSET AlertIds
  BY <1>1, ScanType, NewestCut
<1>3. all \in SUBSET AlertIds
  BY <1>1, <1>2 DEF AlertReaders, WantedOf
<1> HIDE DEF behind, fetched, all
<1>4. /\ found \in SUBSET AlertIds /\ IsFiniteSet(found) /\ Cardinality(found) \in Nat
  BY <1>1, <1>3, ScanType, NewestCut
<1> HIDE DEF found
<1>5. /\ page \in SUBSET AlertIds /\ IsFiniteSet(page) /\ Cardinality(page) \in Nat
      /\ page # found => Cardinality(page) = PageSize
  <2>1. /\ page \subseteq found /\ IsFiniteSet(page) /\ Cardinality(page) \in Nat
        /\ \A i \in found \ page : Cardinality(page) = PageSize
    BY <1>1, <1>4, ScanType, NewestCut
  <2> HIDE DEF page
  <2> QED BY <1>4, <2>1
<1> HIDE DEF page
<1>6. ~(ended /\ ~more) => last # {}
  <2>1. CASE ended /\ more
    <3>1. Cardinality(page) > 0
      BY <1>4, <1>5, <2>1, ScanType
    <3> QED BY <2>1, <3>1, FS_EmptySet
  <2>2. CASE ~ended
    <3>1. Cardinality(fetched) > 0
      BY <1>2, <2>2, ScanType
    <3> QED BY <2>2, <3>1, FS_EmptySet
  <2> QED BY <2>1, <2>2
<1>7. last \in SUBSET AlertIds
  BY <1>2, <1>5
<1>8. ~(ended /\ ~more) => MsCursor(edge) \in AlertCursors
  <2> HIDE DEF last
  <2> SUFFICES ASSUME ~(ended /\ ~more) PROVE MsCursor(edge) \in AlertCursors
    OBVIOUS
  <2>1. edge \in AlertIds
    BY <1>1, <1>6, <1>7, OldestIs
  <2> HIDE DEF edge
  <2> QED BY <1>1, <2>1, MsCursorType
<1>9. reader' =
          IF ended /\ ~more
          THEN [reader EXCEPT !.pc = "done", !.shown = @ \cup page, !.matches = {}]
          ELSE [reader EXCEPT !.shown = IF ended THEN @ \cup page ELSE @,
                              !.matches = IF ended THEN {} ELSE found,
                              !.cursor = MsCursor(edge)]
  BY DEF ListQuery, behind, fetched, all, found, page
<1> HIDE DEF ended, more, edge
<1>10. reader' \in AlertReaders /\ reader'.kind = "list"
  <2>1. CASE ended /\ ~more
    BY <1>1, <1>5, <1>9, <2>1 DEF AlertReaders
  <2>2. CASE ~(ended /\ ~more)
    BY <1>1, <1>4, <1>5, <1>8, <1>9, <2>2 DEF AlertReaders
  <2> QED BY <2>1, <2>2
<1> QED BY <1>10, ListSteps DEF ListQuery

-----------------------------------------------------------------------------
(* The export and the summary *)

\* A reader that starts knows the alerts it has to find; all are ahead of it.
LEMMA ReportStarts ==
  ASSUME PagesInv, NEW kind \in {"export", "summary"}, NEW from \in Nat, NEW to \in Nat,
         reader' = [NoReader EXCEPT !.pc = "reading", !.kind = kind, !.from = from, !.to = to,
                                    !.known = {i \in AlertIds : Wanted(i) /\ InWindow(i, from, to)}],
         UNCHANGED <<tick, alert>>
  PROVE  PagesInv'
<1>1. LastTick \in Nat /\ Ms(LastTick) \in Nat
  BY AlertAssumption, MsType
<1>2. /\ reader' \in AlertReaders /\ reader'.pc = "reading" /\ reader'.shown = {}
      /\ reader'.cursor = Top /\ reader'.from = from /\ reader'.to = to
      /\ reader'.known = {i \in AlertIds : Wanted(i) /\ InWindow(i, from, to)}
  <2>1. PICK known \in SUBSET AlertIds :
          known = {i \in AlertIds : Wanted(i) /\ InWindow(i, from, to)}
    OBVIOUS
  <2>2. Top \in AlertCursors
    BY <1>1 DEF Top, AlertCursors
  <2>3. reader' = [NoReader EXCEPT !.pc = "reading", !.kind = kind, !.from = from, !.to = to,
                                   !.known = known]
    BY <2>1
  <2> QED BY <1>1, <2>1, <2>2, <2>3 DEF NoReader, AlertReaders
<1>3. AlertData'
  BY <1>2 DEF PagesInv, AlertData
<1>4. ReportKnown' /\ ReportShown'
  BY <1>2 DEF ReportKnown, ReportShown, Saved, Wanted, InWindow
<1>5. \A i \in AlertIds : Behind(i, Top)'
  BY <1>1 DEF Behind, Top, PagesInv, AlertData, AlertDocs
<1>6. ReportAhead'
  BY <1>2, <1>5 DEF ReportAhead
<1> QED BY <1>2, <1>3, <1>4, <1>6 DEF PagesInv, ReportInv, ReportComplete

LEMMA PagesStartReport ==
  ASSUME PagesInv, NEW from \in Milliseconds, NEW to \in Milliseconds,
         StartExport(from, to) \/ StartSummary(from, to)
  PROVE  PagesInv'
<1>1. from \in Nat /\ to \in Nat
  BY AlertAssumption, MsType DEF Milliseconds
<1>2. CASE StartExport(from, to)
  BY <1>1, <1>2, ReportStarts DEF StartExport
<1>3. CASE StartSummary(from, to)
  <2>1. SummaryFrom(from, to) \in Nat
    <3>1. MaxWindow \in Nat
      BY AlertAssumption
    <3> QED BY <1>1, <3>1 DEF SummaryFrom
  <2>2. PICK start \in Nat : start = SummaryFrom(from, to)
    BY <2>1
  <2> QED BY <1>1, <1>3, <2>2, ReportStarts DEF StartSummary
<1> QED BY <1>2, <1>3

LEMMA PagesReportQuery ==
  ASSUME PagesInv, NEW kind \in {"export", "summary"}, ReportQuery(kind)
  PROVE  PagesInv'
<1> DEFINE ahead == {i \in Stored : /\ InWindow(i, reader.from, reader.to)
                                    /\ Behind(i, reader.cursor)}
           fetched == NewestOf(ahead, ReportScan)
           all == reader.shown \cup WantedOf(fetched)
           docs == NewestOf(all, ReportLimit)
           ended == Cardinality(docs) >= ReportLimit \/ Cardinality(fetched) < ReportScan
           edge == OldestOf(fetched)
<1>1. /\ alert \in [AlertIds -> AlertDocs] /\ reader \in AlertReaders
      /\ reader.pc = "reading" /\ reader.kind = kind /\ reader.kind # "list"
      /\ ahead \in SUBSET AlertIds
      /\ UNCHANGED <<tick, alert>>
      /\ reader' = [reader EXCEPT !.shown = docs,
                                 !.pc = IF ended THEN "done" ELSE @,
                                 !.cursor = IF ended THEN @ ELSE RawCursor(edge)]
  BY DEF PagesInv, AlertData, ReportQuery, Stored
<1>2. \A i \in ahead : Saved(i) /\ InWindow(i, reader.from, reader.to) /\ Behind(i, reader.cursor)
  BY DEF Stored, Saved
<1>3. \A i \in AlertIds : Wanted(i) /\ InWindow(i, reader.from, reader.to)
                          /\ Behind(i, reader.cursor) => i \in ahead
  BY DEF Stored, Wanted
<1> HIDE DEF ahead
<1>4. /\ fetched \subseteq ahead /\ fetched \in SUBSET AlertIds /\ IsFiniteSet(fetched)
      /\ Cardinality(fetched) \in Nat /\ Cardinality(fetched) <= ReportScan
      /\ \A i \in ahead \ fetched : /\ Cardinality(fetched) = ReportScan
                                  /\ \A j \in fetched : Newer(j, i)
  BY <1>1, ScanType, NewestCut
<1> HIDE DEF fetched
<1>5. /\ all \in SUBSET AlertIds /\ reader.shown \subseteq all
      /\ \A i \in fetched : Wanted(i) => i \in all
      /\ \A i \in all : i \in reader.shown \/ i \in fetched
  BY <1>1, <1>4 DEF AlertReaders, WantedOf
<1> HIDE DEF all
<1>6. /\ docs \subseteq all /\ docs \in SUBSET AlertIds
      /\ Cardinality(docs) \in Nat /\ Cardinality(docs) <= ReportLimit
      /\ \A i \in all \ docs : /\ Cardinality(docs) = ReportLimit
                               /\ \A j \in docs : Newer(j, i)
  BY <1>1, <1>5, ScanType, NewestCut
<1> HIDE DEF docs
<1>7. ReportKnown /\ ReportShown /\ ReportAhead
  BY DEF PagesInv, ReportInv
<1>8. /\ reader.known \subseteq AlertIds /\ reader.shown \subseteq AlertIds
      /\ reader.cursor \in AlertCursors
      /\ \A i \in AlertIds : i \in Nat /\ alert[i].tick \in Nat
  BY <1>1, AlertAssumption DEF AlertReaders, AlertDocs, AlertIds
<1>9. /\ \A i \in docs : Saved(i)
      /\ \A i \in reader.known : Saved(i) /\ InWindow(i, reader.from, reader.to)
      /\ \A i \in reader.shown : ~Behind(i, reader.cursor)
      /\ \A i \in reader.known \ reader.shown : Wanted(i) => i \in ahead
  BY <1>1, <1>2, <1>3, <1>4, <1>5, <1>6, <1>7, <1>8 DEF ReportKnown, ReportShown, ReportAhead
<1>10. \A i \in ahead, j \in reader.shown : Newer(j, i)
  BY <1>1, <1>2, <1>8, <1>9 DEF Newer, Behind, AlertCursors
<1>11. ASSUME ~ended
       PROVE  /\ RawCursor(edge) \in AlertCursors
              /\ docs = all
              /\ \A i \in docs : ~Behind(i, RawCursor(edge))
              /\ \A i \in ahead \ fetched : Behind(i, RawCursor(edge))
  <2>1. Cardinality(fetched) > 0 /\ Cardinality(docs) # ReportLimit
    BY <1>4, <1>6, <1>11, ScanType
  <2>2. fetched # {}
    BY <2>1, FS_EmptySet
  <2>3. edge \in fetched /\ \A j \in fetched : j = edge \/ Newer(j, edge)
    BY <1>1, <1>4, <2>2, OldestIs
  <2> HIDE DEF edge
  <2>4. docs = all
    BY <1>6, <2>1
  <2>5. \A i \in docs : i = edge \/ Newer(i, edge)
    BY <1>4, <1>5, <1>10, <2>3, <2>4
  <2>6. \A i \in ahead \ fetched : Newer(edge, i)
    BY <1>4, <2>3
  <2>7. edge \in AlertIds /\ RawCursor(edge) \in AlertCursors
    BY <1>4, <1>8, <2>3 DEF RawCursor, AlertCursors
  <2>8. \A i \in AlertIds : i = edge \/ Newer(i, edge) => ~Behind(i, RawCursor(edge))
    BY <1>8, <2>7 DEF Newer, Behind, RawCursor
  <2>9. \A i \in AlertIds : Newer(edge, i) => Behind(i, RawCursor(edge))
    BY <1>8, <2>7 DEF Newer, Behind, RawCursor
  <2> QED BY <1>1, <1>6, <2>4, <2>5, <2>6, <2>7, <2>8, <2>9
<1> HIDE DEF edge
<1>12. reader' \in AlertReaders
  <2>1. CASE ended
    BY <1>1, <1>6, <2>1 DEF AlertReaders
  <2>2. CASE ~ended
    BY <1>1, <1>6, <1>11, <2>2 DEF AlertReaders
  <2> QED BY <2>1, <2>2
<1>13. /\ reader'.shown = docs /\ reader'.known = reader.known /\ reader'.kind = reader.kind
       /\ reader'.from = reader.from /\ reader'.to = reader.to
       /\ reader'.pc = (IF ended THEN "done" ELSE "reading")
       /\ ~ended => reader'.cursor = RawCursor(edge)
  BY <1>1 DEF AlertReaders
<1>14. AlertData'
  BY <1>1, <1>12 DEF PagesInv, AlertData
<1>15. ReportKnown' /\ ReportShown'
  BY <1>1, <1>9, <1>13 DEF ReportKnown, ReportShown, Saved, InWindow
<1>16. ReportAhead'
  <2> SUFFICES ASSUME ~ended
               PROVE  /\ \A i \in docs : ~Behind(i, RawCursor(edge))
                      /\ \A i \in reader.known \ docs : Wanted(i) => Behind(i, RawCursor(edge))
    BY <1>1, <1>13 DEF ReportAhead, Behind, Wanted
  <2> QED BY <1>5, <1>9, <1>11
<1>17. ReportComplete'
  <2> SUFFICES ASSUME ended, NEW i \in reader.known, Wanted(i), i \notin docs
               PROVE  Cardinality(docs) = ReportLimit /\ \A j \in docs : Newer(j, i)
    BY <1>1, <1>13 DEF ReportComplete, Newer, Wanted
  <2>1. CASE i \in all
    BY <1>6, <2>1
  <2>2. CASE i \notin all
    <3>1. i \in ahead \ fetched
      BY <1>5, <1>9, <2>2
    <3>2. Cardinality(docs) = ReportLimit
      <4>1. Cardinality(docs) >= ReportLimit
        BY <1>4, <3>1
      <4> QED BY <1>6, <4>1, ScanType
    <3> QED BY <1>4, <1>5, <1>6, <1>10, <3>1, <3>2
  <2> QED BY <2>1, <2>2
<1> QED BY <1>14, <1>15, <1>16, <1>17 DEF PagesInv, ReportInv

LEMMA PagesNextInv == PagesInv /\ [AlertNext]_alertVars => PagesInv'
<1> SUFFICES ASSUME PagesInv, [AlertNext]_alertVars PROVE PagesInv'
  OBVIOUS
<1>1. ASSUME NEW i \in AlertIds, SaveAlert(i) \/ Age(i) PROVE PagesInv'
  BY <1>1, PagesSave, PagesAge
<1>2. ASSUME NEW from \in Milliseconds, NEW to \in Milliseconds,
             StartExport(from, to) \/ StartSummary(from, to)
      PROVE  PagesInv'
  BY <1>2, PagesStartReport
<1>3. CASE ExportQuery \/ SummaryQuery
  BY <1>3, PagesReportQuery DEF ExportQuery, SummaryQuery
<1>4. CASE UNCHANGED alertVars
  BY <1>4 DEF alertVars, PagesInv, AlertData, ReportInv, ReportKnown, ReportShown, ReportAhead,
              ReportComplete, Saved, Wanted, InWindow, Behind, Newer
<1> QED BY <1>1, <1>2, <1>3, <1>4, PagesTime, PagesStartList, PagesListQuery, PagesReadFails
        DEF AlertNext

LEMMA PagesInvariant == AlertSpec => []PagesInv
BY PagesInitInv, PagesNextInv, PTL DEF AlertSpec

\* The collection and its readers have their types in every state.
THEOREM AlertTypeCorrect == AlertSpec => []AlertTypeOK
<1>1. PagesInv => AlertTypeOK
  BY DEF PagesInv, AlertData, AlertTypeOK, AlertDocs, AlertReaders
<1> QED BY <1>1, PagesInvariant, PTL

\* An export and a summary leave out no alert that was there when they started and still is:
\* only older ones, where the limit is reached (exportAlerts, summarizeAlerts,
\* getRawDocCursorValues), however documents arrive and expire between two queries.
THEOREM ReportsAreComplete == AlertSpec => []ReportComplete
<1>1. PagesInv => ReportComplete
  BY DEF PagesInv
<1> QED BY <1>1, PagesInvariant, PTL
=============================================================================
