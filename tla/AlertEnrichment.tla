-------------------------- MODULE AlertEnrichment --------------------------
(***************************************************************************)
(* One alert of the webhook: the enrichment by TradingView with its budget, *)
(* retries and optional calls, the one by Gemini, their merge, and the      *)
(* status that is answered, stored and shown.                               *)
(*                                                                          *)
(* The MCP server and Gemini are external.  The steps of an alert follow    *)
(* one another, so that the clock jumps from one to the next; a timer runs  *)
(* at its time.  Times are in milliseconds.                                 *)
(***************************************************************************)
EXTENDS Integers

CONSTANTS
  Budgets,      \* TRADINGVIEW_MCP_ENRICHMENT_BUDGET_MS
  RetryLimits,  \* TRADINGVIEW_MCP_MAX_RETRIES
  CallTimeouts  \* TRADINGVIEW_MCP_TIMEOUT_MS

\* PARAMETER_SCHEMA
ASSUME EnrichmentAssumption ==
  /\ Budgets \cup CallTimeouts \subseteq Nat /\ RetryLimits \subseteq 1..5
  /\ \A t \in Budgets \cup CallTimeouts : 1000 <= t /\ t <= 120000

VARIABLES
  webhook,    \* the request and the configuration it meets
  stage,    \* the await it is at
  ms,       \* since the enrichment began
  attempt,  \* of the base analysis
  parts,    \* what became of each call
  partial,  \* optionalEnrichmentPartial
  mcp,      \* mcpEnrichedAlert
  answer,   \* the response, and the document that is stored
  health    \* runtimeStatus, volumeRuntimeStatus and enrichment.lastStatus

enrichmentVars == <<webhook, stage, ms, attempt, parts, partial, mcp, answer, health>>

Parts == {"base", "volume", "confluence", "multi"}
Webhooks == [asked : BOOLEAN, side : {"none", "BUY", "SELL"}, options : SUBSET (Parts \ {"base"}),
             budget : Budgets, retries : RetryLimits, timeout : CallTimeouts]
Sentiments == {"BULLISH", "BEARISH", "NEUTRAL"}
NoMcp == [sentiment |-> "none", priority |-> FALSE, opposed |-> FALSE, status |-> "none"]
NoAnswer == [enriched |-> FALSE, sentiment |-> "none", status |-> "none", applied |-> FALSE]

EnrichmentInit ==
  /\ webhook \in Webhooks
  /\ stage = "received" /\ ms = 0 /\ attempt = 0 /\ partial = FALSE
  /\ parts = [p \in Parts |-> "none"]
  /\ mcp = NoMcp /\ answer = NoAnswer
  /\ health = [mcp |-> "unknown", volume |-> "unknown", last |-> "none"]

Least(a, b) == IF a < b THEN a ELSE b
Most(a, b) == IF a > b THEN a ELSE b

-----------------------------------------------------------------------------
(* The budget of the base analysis.                                         *)

OptionalEnrichment == webhook.options \cap {"volume", "confluence"} # {}
BaseBudget == IF OptionalEnrichment THEN (3 * webhook.budget) \div 4 ELSE webhook.budget
RetryDelayCap == Most(1, BaseBudget \div webhook.retries)

\* calculateBackoffDelay with jitter, at its shortest and longest.
BackoffDelays(a) == {Least(share * 2 ^ (a - 1), RetryDelayCap) : share \in {900, 1100}}
LongestBackoff(a) == Least(1100 * 2 ^ (a - 1), RetryDelayCap)

\* Mutant: no time is kept for the delays.
ReserveNothing(a) == 0

\* The delays still to come after attempt a.
RetryReserve(a) ==
  LET upTo[n \in 0..5] == IF n = 0 THEN 0
                          ELSE upTo[n - 1] + IF n >= a /\ n < webhook.retries THEN LongestBackoff(n) ELSE 0
  IN upTo[5]

AttemptTimeout ==
  Least(webhook.timeout,
        Most(1, Most(1, BaseBudget - ms - RetryReserve(attempt)) \div (webhook.retries - attempt + 1)))

-----------------------------------------------------------------------------
(* The alert that TradingView gives; scores are in ten-thousandths.         *)

Recommendations == {"none", "BUY", "SELL", "HOLD"}
RatingBiases == {-3500, 0, 3500}

IsContradictory(side, rec, agree) == {side, rec} = {"BUY", "SELL"} \/ ~agree

ScoreOf(side, bias, contradictory) ==
  LET score == (IF side = "SELL" THEN -5500 ELSE 5500) + bias IN
  IF contradictory THEN Most(-1500, Least(1500, (score * 15) \div 100)) ELSE score

SentimentOf(score) ==
  IF score > 1500 THEN "BULLISH" ELSE IF score < -1500 THEN "BEARISH" ELSE "NEUTRAL"

\* _toEnrichedAlert.  The insight names a contradiction first only with a
\* recommendation, and only then it has priority in the merge.
EnrichedBy(rec, agree, bias, status) ==
  LET contradictory == parts.confluence = "ok" /\ IsContradictory(webhook.side, rec, agree) IN
  [sentiment |-> SentimentOf(ScoreOf(webhook.side, bias, contradictory)),
   priority |-> contradictory /\ rec # "none",
   opposed |-> parts.confluence = "ok" /\ {webhook.side, rec} = {"BUY", "SELL"}, status |-> status]

\* Mutant: the sentiment of Gemini counts whatever TradingView says.
GeminiFirst(gemini) == gemini

\* mergeEnrichmentData: the sentiment.
MergedSentiment(gemini) == IF mcp.priority THEN mcp.sentiment ELSE gemini

-----------------------------------------------------------------------------
(* TradingViewMcpService.enrichFromSignal.                                  *)

Ended(part, outcome) == parts' = [parts EXCEPT ![part] = outcome]
Readiness(outcome) == IF outcome = "ok" THEN "ready" ELSE "degraded"
Checked(outcome) == health' = [health EXCEPT !.mcp = Readiness(outcome)]

\* The outcomes of a call that is aborted after timeout: it fails or answers earlier,
\* or hangs.
CallOutcomes(timeout) ==
  {[result |-> "ok", took |-> took] : took \in {0, timeout \div 2}}
    \cup {[result |-> "bad", took |-> took] : took \in {0, timeout}}

\* Without TradingView, or without a signal in the text, Gemini is asked.
ReceiveAlert ==
  /\ stage = "received"
  /\ IF webhook.asked /\ webhook.side # "none"
     THEN stage' = "base" /\ attempt' = 1
     ELSE stage' = "gemini" /\ UNCHANGED attempt
  /\ UNCHANGED <<webhook, ms, parts, partial, mcp, answer, health>>

BaseFails ==
  /\ Ended("base", "bad") /\ stage' = "gemini" /\ UNCHANGED attempt

\* Every attempt begins before the base budget is spent: Backoff sees to that.
CallCoinAnalysis ==
  /\ stage = "base" /\ ms < BaseBudget
  /\ \E call \in CallOutcomes(AttemptTimeout) :
       /\ ms' = ms + call.took
       /\ IF call.result = "ok"
          THEN Ended("base", "ok") /\ stage' = "volume" /\ UNCHANGED attempt
          ELSE IF attempt = webhook.retries \/ ms' >= BaseBudget
          THEN BaseFails
          ELSE stage' = "backoff" /\ UNCHANGED <<parts, attempt>>
       /\ health' = [health EXCEPT !.mcp = Readiness(call.result),
                                   !.last = IF stage' = "gemini" THEN "failed" ELSE @]
  /\ UNCHANGED <<webhook, partial, mcp, answer>>

\* The delay ends early when the base budget does.
Backoff ==
  /\ stage = "backoff"
  /\ \E delay \in BackoffDelays(attempt) :
       IF ms + delay >= BaseBudget
       THEN /\ ms' = BaseBudget /\ BaseFails
            /\ health' = [health EXCEPT !.last = "failed"]
       ELSE /\ ms' = ms + delay /\ stage' = "base" /\ attempt' = attempt + 1
            /\ UNCHANGED <<parts, health>>
  /\ UNCHANGED <<webhook, partial, mcp, answer>>

VolumeOver(call) ==
  /\ ms' = ms + call.took /\ Ended("volume", call.result)
  /\ partial' = (call.result = "bad")
  /\ health' = [health EXCEPT !.mcp = Readiness(call.result), !.volume = Readiness(call.result)]

\* The base analysis leaves a quarter of the budget, so that some is left here.
CallVolumeConfirmation ==
  /\ stage = "volume" /\ stage' = "confluence"
  /\ IF "volume" \in webhook.options
     THEN \E call \in CallOutcomes(Least(5000, webhook.budget - ms)) : VolumeOver(call)
     ELSE UNCHANGED <<ms, parts, partial, health>>
  /\ UNCHANGED <<webhook, attempt, mcp, answer>>

\* budgetController.signal.aborted
BudgetSpent == ms >= webhook.budget

ConfluenceOver(call) ==
  /\ ms' = ms + call.took /\ Ended("confluence", call.result)
  /\ partial' = (partial \/ call.result = "bad") /\ Checked(call.result)

\* The confluence succeeded; the second one ends.
SecondOver(call, second) ==
  /\ ms' = ms + call.took + second.took
  /\ parts' = [parts EXCEPT !["confluence"] = "ok", !["multi"] = second.result]
  /\ partial' = (partial \/ second.result = "bad") /\ Checked(second.result)

\* combined_analysis, and within its timeout multi_timeframe_analysis.
CallConfluence ==
  /\ stage = "confluence" /\ stage' = "enriched"
  /\ IF "confluence" \notin webhook.options
     THEN UNCHANGED <<ms, parts, partial, health>>
     ELSE IF BudgetSpent
     THEN partial' = TRUE /\ UNCHANGED <<ms, parts, health>>
     ELSE LET limit == Least(8000, webhook.budget - ms) IN
          \E call \in CallOutcomes(limit) :
            IF call.result = "bad" \/ "multi" \notin webhook.options
            THEN ConfluenceOver(call)
            ELSE \E second \in CallOutcomes(limit - call.took) : SecondOver(call, second)
  /\ UNCHANGED <<webhook, attempt, mcp, answer>>

ToEnrichedAlert ==
  /\ stage = "enriched" /\ stage' = "gemini"
  /\ LET status == IF partial THEN "partial" ELSE "full" IN
     /\ \E rec \in Recommendations, agree \in BOOLEAN, bias \in RatingBiases :
          mcp' = EnrichedBy(rec, agree, bias, status)
     /\ health' = [health EXCEPT !.last = status]
  /\ UNCHANGED <<webhook, ms, attempt, parts, partial, answer>>

-----------------------------------------------------------------------------
(* enrichAlert, mergeEnrichmentData and processEnrichment.                  *)

\* processEnrichment: the status of an alert with enrichment status s, or without.
StatusFor(s) ==
  IF ~webhook.asked THEN "none" ELSE IF s # "none" THEN s
  ELSE IF webhook.side # "none" THEN "failed" ELSE "not_applicable"

Answer(enriched, sentiment) ==
  LET status == StatusFor(mcp.status) IN
  /\ stage' = "answered"
  /\ answer' = [enriched |-> enriched, sentiment |-> sentiment, status |-> status,
                applied |-> enriched /\ status \in {"full", "partial"}]
  /\ UNCHANGED <<webhook, ms, attempt, parts, partial, mcp, health>>

\* Gemini is disabled, or its search or generation fails or runs into its timeout:
\* what TradingView gave counts alone.
WithoutGemini ==
  /\ stage = "gemini"
  /\ Answer(mcp # NoMcp, mcp.sentiment)

\* Gemini answers; an answer that cannot be read, and a refusal that no model would
\* change, are neutral.
WithGemini ==
  /\ stage = "gemini"
  /\ \E gemini \in Sentiments :
       Answer(TRUE, IF mcp # NoMcp THEN MergedSentiment(gemini) ELSE gemini)

EnrichmentNext ==
  \/ ReceiveAlert \/ CallCoinAnalysis \/ Backoff \/ CallVolumeConfirmation \/ CallConfluence
  \/ ToEnrichedAlert \/ WithoutGemini \/ WithGemini

EnrichmentSpec == EnrichmentInit /\ [][EnrichmentNext]_enrichmentVars

-----------------------------------------------------------------------------
EnrichmentTypeOK ==
  /\ webhook \in Webhooks
  /\ stage \in {"received", "base", "backoff", "volume", "confluence", "enriched", "gemini", "answered"}
  /\ ms \in Nat /\ ms <= 120000 /\ attempt \in 0..webhook.retries
  /\ parts \in [Parts -> {"none", "ok", "bad"}] /\ partial \in BOOLEAN
  /\ mcp \in [sentiment : Sentiments \cup {"none"}, priority : BOOLEAN, opposed : BOOLEAN,
              status : {"none", "full", "partial"}]
  /\ answer \in [enriched : BOOLEAN, sentiment : Sentiments \cup {"none"},
                 status : {"none", "full", "partial", "failed", "not_applicable"}, applied : BOOLEAN]
  /\ health \in [mcp : {"unknown", "ready", "degraded"}, volume : {"unknown", "ready", "degraded"},
                 last : {"none", "full", "partial", "failed"}]

\* The budget is kept, and yet no attempt of the base analysis is lost to it: however
\* long the earlier ones hang and the delays turn out, all of them are made before it
\* is given up (enrichFromSignal, retryReserveMs).
RetriesFitBudget ==
  /\ ms <= webhook.budget
  /\ parts.base = "bad" => attempt = webhook.retries

\* What the user and the storage are told is what happened: full when everything that
\* is enabled was added, partial when something optional was not, failed or not
\* applicable; applied or not; and the same in the telemetry of the service.  A
\* confluence that recommends the opposite of the signal makes the alert neutral,
\* whatever Gemini thinks (processEnrichment, mergeEnrichmentData, enrichFromSignal).
AlertTellsTruth ==
  LET wanted == {p \in webhook.options \cap {"volume", "confluence", "multi"} :
                   p = "multi" => "confluence" \in webhook.options}
      truth == IF ~webhook.asked THEN "none" ELSE IF webhook.side = "none" THEN "not_applicable"
               ELSE IF parts.base # "ok" THEN "failed"
               ELSE IF \E p \in wanted : parts[p] # "ok" THEN "partial" ELSE "full"
  IN stage = "answered" =>
       /\ answer.status = truth
       /\ answer.applied = (truth \in {"full", "partial"})
       /\ webhook.asked /\ webhook.side # "none" => health.last = truth
       /\ mcp.opposed => answer.sentiment = "NEUTRAL"
=============================================================================
