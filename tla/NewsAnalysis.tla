---------------------------- MODULE NewsAnalysis ----------------------------
(***************************************************************************)
(* One news monitor request: analyzeSymbols with its runners and shared    *)
(* deadline, the retry loop of each symbol, the analysis that goes on      *)
(* after its race is lost, and the process-wide Gemini cooldown.           *)
(*                                                                         *)
(* Gemini, Brave, Binance and Azure are external.  The cache and the claim *)
(* of a delivery are modelled in NewsDedup: here they succeed or not.      *)
(* Times are in units of NEWS_GEMINI_QUOTA_RETRY_BASE_MS, which is also    *)
(* the default delay of triggerQuotaCooldown.  A timer runs at its time.   *)
(***************************************************************************)
EXTENDS Naturals, FiniteSets

CONSTANTS
  SymbolCount,   \* symbols of the request
  NewsTimeout,   \* NEWS_TIMEOUT_MS
  QuotaRetries,  \* NEWS_GEMINI_QUOTA_MAX_RETRIES
  QuotaDelays,   \* delays Gemini may ask for
  AzureTries,    \* maxRetries of enrichAlert
  Thresholds,    \* what NEWS_ALERT_THRESHOLD may be, in hundredths
  MaxOther429,   \* bound: quota failures of other requests
  LastNow        \* bound: the clock

ASSUME NewsAssumption ==
  /\ {SymbolCount, NewsTimeout, AzureTries} \subseteq Nat \ {0}
  /\ QuotaDelays \subseteq Nat /\ Thresholds \subseteq 0..100
  /\ {QuotaRetries, MaxOther429, LastNow} \subseteq Nat

Symbols == 1..SymbolCount
Later(a, b) == IF a > b THEN a ELSE b

VARIABLES
  now,       \* Date.now()
  cooldown,  \* quotaCooldownUntil
  asked,     \* until when Gemini has explicitly asked for silence
  batch,     \* the request and its options
  outer,     \* runSymbolAnalysisWithRetry of each symbol
  inner,     \* analyzeSymbolInternal of each symbol
  others     \* quota failures of other requests so far

newsVars == <<now, cooldown, asked, batch, outer, inner, others>>

NotStarted == [pc |-> "queued", wake |-> 0, attempt |-> 0, status |-> "none"]
NoAnalysis == [step |-> "none", sent |-> FALSE, found |-> 0, tries |-> 0, bar |-> 0]

NewsInit ==
  /\ now = 0 /\ cooldown = 0 /\ asked = 0
  /\ batch = [pc |-> "none", limit |-> 1]
  /\ outer = [s \in Symbols |-> NotStarted]
  /\ inner = [s \in Symbols |-> NoAnalysis]
  /\ others = 0

\* Mutant: every attempt has the whole budget.
BudgetAfresh == now + NewsTimeout

\* The clock counts from batchStartedAt.
NewsDeadline == NewsTimeout

Answered(s) == outer[s].pc = "answered"

-----------------------------------------------------------------------------
(* geminiQuotaManager                                                       *)

isCooldownActive == now < cooldown
NoDelay == LastNow + 1  \* the error names no delay

\* extractRetryDelayMs
RetryDelay(delay, attempt) ==
  IF delay # NoDelay THEN delay ELSE IF attempt <= 1 THEN 1 ELSE 2 ^ (attempt - 1)

\* Mutant: the last delay replaces the one that runs.
Shortened(delay) == now + delay

\* triggerQuotaCooldown never shortens a cooldown.
Extended(delay) == Later(cooldown, now + delay)

-----------------------------------------------------------------------------
(* The end of a symbol, and the beginning or repetition of its analysis.    *)

AnswerSymbol(s, status) ==
  outer' = [outer EXCEPT ![s] = [NotStarted EXCEPT !.pc = "answered", !.status = status]]

\* waitForCooldownIfNeeded within the budget, then the race of the analysis with
\* what is left of it; until is the cooldown, attempt the number of the retry.
Proceed(s, until, attempt) ==
  IF until > now /\ until <= NewsDeadline
  THEN /\ outer' = [outer EXCEPT ![s] = [NotStarted EXCEPT !.pc = "waiting", !.wake = until,
                                           !.attempt = attempt]]
       /\ inner' = [inner EXCEPT ![s] = NoAnalysis]
  ELSE IF until > now
  THEN AnswerSymbol(s, "quota") /\ inner' = [inner EXCEPT ![s] = NoAnalysis]
  ELSE IF now >= NewsDeadline
  THEN AnswerSymbol(s, "timeout") /\ inner' = [inner EXCEPT ![s] = NoAnalysis]
  ELSE /\ outer' = [outer EXCEPT ![s] = [NotStarted EXCEPT !.pc = "running", !.wake = NewsDeadline,
                                           !.attempt = attempt]]
       /\ inner' = [inner EXCEPT ![s] = [NoAnalysis EXCEPT !.step = "cache"]]

Pending(s) == outer[s].pc \in {"waiting", "running"}

Turn(s) ==
  /\ batch.pc = "running" /\ outer[s].pc = "queued"
  /\ \A t \in 1..(s - 1) : outer[t].pc # "queued"
  /\ Cardinality({t \in Symbols : Pending(t)}) < batch.limit

\* The next symbol of a free runner: queued symbols start in order.
BeginSymbol(s) ==
  /\ Turn(s)
  /\ IF now >= NewsDeadline THEN AnswerSymbol(s, "timeout") /\ UNCHANGED inner
                        ELSE Proceed(s, cooldown, 0)
  /\ UNCHANGED <<now, cooldown, asked, batch, others>>

WakeSymbol(s) ==
  /\ outer[s].pc = "waiting" /\ now >= outer[s].wake
  /\ Proceed(s, cooldown, outer[s].attempt)
  /\ UNCHANGED <<now, cooldown, asked, batch, others>>

\* The timeout of the race.  The analysis carries on.
LoseRace(s) ==
  /\ outer[s].pc = "running" /\ now >= outer[s].wake
  /\ AnswerSymbol(s, "timeout")
  /\ UNCHANGED <<now, cooldown, asked, batch, inner, others>>

\* The analysis of s returns.
Returns(s, status) ==
  /\ IF outer[s].pc = "running" THEN AnswerSymbol(s, status) ELSE UNCHANGED outer
  /\ inner' = [inner EXCEPT ![s] = NoAnalysis]

\* It throws a quota error, after until has become the cooldown: the catch clause of
\* the retry loop, if anyone still listens.
QuotaFailure(s, until, delay) ==
  LET attempt == outer[s].attempt + 1
      wait == RetryDelay(delay, attempt) IN
  IF outer[s].pc # "running" \/ attempt > QuotaRetries
  THEN Returns(s, "quota") /\ cooldown' = until
  ELSE /\ cooldown' = Later(until, now + wait)
       /\ IF wait >= NewsDeadline - now THEN Returns(s, "quota")
                                    ELSE Proceed(s, cooldown', attempt)

-----------------------------------------------------------------------------
(* analyzeSymbolInternal, step by step.                                     *)

Step(s, next) == inner' = [inner EXCEPT ![s].step = next, ![s].sent = FALSE]

\* A cached result is returned, redelivered where it has to be.
CheckCache(s) ==
  /\ inner[s].step = "cache"
  /\ \/ Returns(s, "cached")
     \/ Step(s, "price") /\ UNCHANGED outer
  /\ UNCHANGED <<now, cooldown, asked, batch, others>>

\* fetchBinancePrice answers; otherwise the price is asked of Gemini.
BinancePrice(s) ==
  /\ inner[s].step = "price" /\ ~inner[s].sent
  /\ Step(s, "news")
  /\ UNCHANGED <<now, cooldown, asked, batch, outer, others>>

GeminiSteps == {"price", "news", "model", "spare"}

\* search and llmCall: nothing is sent during a cooldown.  What llmCallv2 throws
\* then names no delay that extractRetryDelayMs could find.
AskGemini(s) ==
  /\ inner[s].step \in GeminiSteps /\ ~inner[s].sent
  /\ IF isCooldownActive
     THEN QuotaFailure(s, cooldown, IF inner[s].step \in {"price", "news"}
                                    THEN cooldown - now ELSE NoDelay)
     ELSE inner' = [inner EXCEPT ![s].sent = TRUE] /\ UNCHANGED <<cooldown, outer>>
  /\ UNCHANGED <<now, asked, batch, others>>

Asking(s, step) == inner[s].step = step /\ inner[s].sent

\* Whatever the price search gives, nothing included, is the market context.
PriceAnswered(s) ==
  /\ Asking(s, "price") /\ Step(s, "news")
  /\ UNCHANGED <<now, cooldown, asked, batch, outer, others>>

\* The news of Google; where it fails or finds nothing, of Brave, which may find
\* nothing either.
NewsAnswered(s) ==
  /\ Asking(s, "news")
  /\ \E n \in 0..2 :
       inner' = [inner EXCEPT ![s] = [NoAnalysis EXCEPT !.step = "model", !.found = n]]
  /\ UNCHANGED <<now, cooldown, asked, batch, outer, others>>

\* 429, with the delay it asks for or without.
Quota429(s) ==
  /\ inner[s].step \in GeminiSteps /\ inner[s].sent
  /\ \E delay \in QuotaDelays \cup {NoDelay} :
       /\ QuotaFailure(s, Extended(RetryDelay(delay, 1)), delay)
       /\ asked' = IF delay = NoDelay THEN asked ELSE Later(asked, now + delay)
  /\ UNCHANGED <<now, batch, others>>

\* Another request of the process meets a 429.
OtherQuota429 ==
  /\ \E delay \in QuotaDelays \cup {NoDelay} :
       /\ cooldown' = Extended(RetryDelay(delay, 1))
       /\ asked' = IF delay = NoDelay THEN asked ELSE Later(asked, now + delay)
  /\ others < MaxOther429 /\ others' = others + 1
  /\ UNCHANGED <<now, batch, outer, inner>>

\* The primary model is overloaded.
ModelOverloaded(s) ==
  /\ Asking(s, "model") /\ Step(s, "spare")
  /\ UNCHANGED <<now, cooldown, asked, batch, outer, others>>

\* Any other failure of the model, or an answer that is not the JSON asked for.
ModelFails(s) ==
  /\ inner[s].step \in {"model", "spare"} /\ inner[s].sent
  /\ Returns(s, "error")
  /\ UNCHANGED <<now, cooldown, asked, batch, others>>

-----------------------------------------------------------------------------
(* Confidence, in hundredths.                                               *)

Grades == {"bad", "fair", "good"}  \* below 0.3, below 0.6, above

Less(c, penalty) == IF c > penalty THEN c - penalty ELSE 0

CountPenalty(n) == IF n = 0 THEN 30 ELSE IF n = 1 THEN 15 ELSE 0
FreshnessPenalty(n, dated, fresh) ==
  IF n > 0 /\ ~dated THEN 12 ELSE IF fresh = "bad" THEN 15 ELSE IF fresh = "fair" THEN 8 ELSE 0
QualityPenalty(quality) == IF quality = "bad" THEN 20 ELSE IF quality = "fair" THEN 10 ELSE 0

\* Mutant: without sources only their number is penalised.
CountedOnce(base, n, dated, fresh, quality, doubt, hint) ==
  Less(base, CountPenalty(n)
             + (IF n = 0 THEN 0 ELSE FreshnessPenalty(n, dated, fresh) + QualityPenalty(quality))
             + (IF doubt THEN 10 ELSE 0) + (IF hint THEN 15 ELSE 0))

\* calibrateNewsConfidence with the sources that grounding returned.  Without any,
\* deriveGroundingCalibration gives quality and freshness 0.
CalibratedConfidence(base, n, dated, fresh, quality, doubt, hint) ==
  Less(base, CountPenalty(n)
             + FreshnessPenalty(n, dated, IF n = 0 THEN "bad" ELSE fresh)
             + QualityPenalty(IF n = 0 THEN "bad" ELSE quality)
             + (IF doubt THEN 10 ELSE 0) + (IF hint THEN 15 ELSE 0))

\* calculateAdjustedConfidence: volume expansion and RSI.
AdjustedConfidence(c, volume, rsi) ==
  LET up == (IF volume = "expanding" THEN 10 ELSE 0) + (IF rsi = "calm" THEN 5 ELSE 0)
      down == (IF volume = "fading" THEN 10 ELSE 0) + (IF rsi = "extreme" THEN 15 ELSE 0)
      sum == Less(c + up, down) IN
  IF sum > 100 THEN 100 ELSE sum

\* The confidences an answer with n sources can end with.
Confidences(n) ==
  {AdjustedConfidence(CalibratedConfidence(base, n, dated, fresh, quality, doubt, hint), volume, rsi) :
     base \in {40, 100}, dated \in BOOLEAN, fresh \in Grades, quality \in Grades,
     doubt \in BOOLEAN, hint \in BOOLEAN,
     volume \in {"unknown", "expanding", "fading"}, rsi \in {"unknown", "calm", "extreme"}}

\* Per alertThreshold: the numbers of sources with which it can be enough.
Alerting == [bar \in Thresholds |-> {n \in 0..2 : \E c \in Confidences(n) : c >= bar}]

-----------------------------------------------------------------------------
\* The model answers: no event or too little confidence ends the analysis.  The
\* second opinion of Azure is asked for where it is enabled.
ModelAnswers(s) ==
  /\ inner[s].step \in {"model", "spare"} /\ inner[s].sent
  /\ \/ Returns(s, "analyzed")
     \/ /\ \E bar \in {b \in Thresholds : inner[s].found \in Alerting[b]},
              next \in {[step |-> "deliver", tries |-> 0], [step |-> "enrich", tries |-> 1]} :
             inner' = [inner EXCEPT ![s].step = next.step, ![s].sent = FALSE,
                                    ![s].tries = next.tries, ![s].bar = bar]
        /\ UNCHANGED outer
  /\ UNCHANGED <<now, cooldown, asked, batch, others>>

\* enrichAlert: no answer has the success that sendWithRetry looks for, so the
\* model is asked AzureTries times; the lower confidence counts.
EnrichAttempt(s) ==
  /\ inner[s].step = "enrich"
  /\ \/ /\ inner[s].tries < AzureTries
        /\ inner' = [inner EXCEPT ![s].tries = @ + 1] /\ UNCHANGED outer
     \/ inner[s].tries = AzureTries /\ Step(s, "deliver") /\ UNCHANGED outer
     \/ inner[s].tries = AzureTries /\ Returns(s, "analyzed")
  /\ UNCHANGED <<now, cooldown, asked, batch, others>>

\* The alert is claimed and sent, unless this is a dry run, no channel is set up yet,
\* or another request has claimed it.
DeliverAlert(s) ==
  /\ inner[s].step = "deliver"
  /\ \/ Returns(s, "analyzed")
     \/ Returns(s, "cached")
  /\ UNCHANGED <<now, cooldown, asked, batch, others>>

-----------------------------------------------------------------------------
(* The handler.                                                             *)

\* A request that is disabled, misrouted or invalid is answered without analysis.
StartBatch ==
  /\ batch.pc = "none"
  /\ \/ batch' = [batch EXCEPT !.pc = "refused"]
     \/ batch' \in [pc : {"running"}, limit : Symbols]
  /\ UNCHANGED <<now, cooldown, asked, outer, inner, others>>

\* generateSummary
CountOf(S) == Cardinality({s \in Symbols : outer[s].status \in S})
Summary ==
  [success |-> CountOf({"analyzed", "cached"}) > 0,
   partial |-> CountOf({"timeout", "error", "quota"}) > 0]

ReplyBatch ==
  /\ batch.pc = "running" /\ \A s \in Symbols : Answered(s)
  /\ batch' = [batch EXCEPT !.pc = IF ~Summary.success THEN "failed"
                                   ELSE IF Summary.partial THEN "partial" ELSE "complete"]
  /\ UNCHANGED <<now, cooldown, asked, outer, inner, others>>

\* Time passes once every runner and timer that is due has had its turn.
NewsTick ==
  /\ now < LastNow /\ batch.pc \notin {"none", "refused"}
  /\ \A s \in Symbols : ~Turn(s) /\ ~(Pending(s) /\ now >= outer[s].wake)
  /\ batch.pc = "running" => \E s \in Symbols : ~Answered(s)
  /\ now' = now + 1
  /\ UNCHANGED <<cooldown, asked, batch, outer, inner, others>>

NewsNext ==
  \/ StartBatch \/ ReplyBatch \/ OtherQuota429 \/ NewsTick
  \/ \E s \in Symbols :
       \/ BeginSymbol(s) \/ WakeSymbol(s) \/ LoseRace(s)
       \/ CheckCache(s) \/ BinancePrice(s) \/ AskGemini(s) \/ PriceAnswered(s)
       \/ NewsAnswered(s) \/ Quota429(s) \/ ModelOverloaded(s) \/ ModelFails(s)
       \/ ModelAnswers(s) \/ EnrichAttempt(s) \/ DeliverAlert(s)

NewsSpec == NewsInit /\ [][NewsNext]_newsVars

-----------------------------------------------------------------------------
NewsTypeOK ==
  /\ now \in 0..LastNow /\ cooldown \in Nat /\ asked \in Nat
  /\ batch \in [pc : {"none", "refused", "running", "failed", "partial", "complete"}, limit : Symbols]
  /\ outer \in [Symbols -> [pc : {"queued", "waiting", "running", "answered"}, wake : Nat,
                            attempt : 0..QuotaRetries,
                            status : {"none", "analyzed", "cached", "timeout", "quota", "error"}]]
  /\ inner \in [Symbols -> [step : {"none", "cache", "enrich", "deliver"} \cup GeminiSteps,
                            sent : BOOLEAN, found : 0..2, tries : 0..AzureTries, bar : 0..100]]
  /\ others \in 0..MaxOther429

\* The request is answered within NEWS_TIMEOUT_MS of its start, however many symbols
\* share the runners, retry, or wait for a cooldown that others extend
\* (analyzeSymbols, runSymbolAnalysisWithRetry).
BatchInTime == batch.pc = "running" => now <= NewsTimeout

\* No request to Gemini begins before the moment until which Gemini has asked for
\* silence, whatever shorter delays later failures bring (geminiQuotaManager).
QuotaRespected ==
  [][\A s \in Symbols : ~inner[s].sent /\ inner'[s].sent => now >= asked]_newsVars

\* No analysis gets as far as an alert on news without a single source, for the search
\* behind it may have failed on both providers, unless NEWS_ALERT_THRESHOLD is half or
\* less: then it may (calibrateNewsConfidence, calculateAdjustedConfidence).
AlertsHaveSources ==
  \A s \in Symbols :
    inner[s].step \in {"enrich", "deliver"} /\ inner[s].bar > 50 => inner[s].found > 0
=============================================================================
