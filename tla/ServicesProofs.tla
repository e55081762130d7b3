---------------------------- MODULE ServicesProofs ----------------------------
(***************************************************************************)
(* The services of the web process together.  A behaviour of MCServices is *)
(* one of each service by itself, so that what is proved of a service      *)
(* holds in the module that the runs check, and the state of all of them   *)
(* has its type, for all values of the constants.                          *)
(***************************************************************************)
EXTENDS MCServices, ScannerPresetsProofs, ProvidersProofs, JobEndsProofs, AnalysisProofs

-----------------------------------------------------------------------------
(* Each service takes its own steps.                                        *)

LEMMA ServicesBegin ==
  ServicesInit => /\ PresetInit /\ OrderInit /\ OutcomeInit /\ CallbackInit /\ WebInit
                  /\ AlertInit /\ NotificationInit /\ NewsInit /\ RemoteInit /\ EnrichmentInit
BY DEF ServicesInit

LEMMA PresetTurn == [ServicesNext]_serviceVars => [PresetNext]_presetVars
BY DEF ServicesNext, OthersStay, serviceVars

LEMMA OrderTurn == [ServicesNext]_serviceVars => [OrderNext]_orderVars
BY DEF ServicesNext, OthersStay, serviceVars

LEMMA OutcomeTurn == [ServicesNext]_serviceVars => [OutcomeNext]_outcomeVars
BY DEF ServicesNext, OthersStay, serviceVars

LEMMA CallbackTurn == [ServicesNext]_serviceVars => [CallbackNext]_callbackVars
BY DEF ServicesNext, OthersStay, serviceVars

LEMMA WebTurn == [ServicesNext]_serviceVars => [WebNext]_localVars
BY DEF ServicesNext, OthersStay, serviceVars

LEMMA AlertTurn == [ServicesNext]_serviceVars => [AlertNext]_alertVars
BY DEF ServicesNext, OthersStay, serviceVars

LEMMA NotificationTurn == [ServicesNext]_serviceVars => [NotificationNext]_notificationVars
BY DEF ServicesNext, OthersStay, serviceVars

LEMMA RemoteTurn == [ServicesNext]_serviceVars => [RemoteNext]_remoteVars
BY DEF ServicesNext, OthersStay, serviceVars

LEMMA NewsTurn == [ServicesNext]_serviceVars => [NewsNext]_newsVars
BY DEF ServicesNext, OthersStay, serviceVars

LEMMA EnrichmentTurn == [ServicesNext]_serviceVars => [EnrichmentNext]_enrichmentVars
BY DEF ServicesNext, OthersStay, serviceVars

\* In a behaviour of the services together each of them does what its own specification
\* allows: none writes the state of another.
THEOREM ServicesFollowSpecs ==
  ServicesSpec => /\ PresetSpec /\ OrderSpec /\ OutcomeSpec /\ CallbackSpec /\ WebSpec
                  /\ AlertSpec /\ NotificationSpec /\ NewsSpec /\ RemoteSpec /\ EnrichmentSpec
<1>1. ServicesSpec => PresetSpec
  BY ServicesBegin, PresetTurn, PTL DEF ServicesSpec, PresetSpec
<1>2. ServicesSpec => OrderSpec
  BY ServicesBegin, OrderTurn, PTL DEF ServicesSpec, OrderSpec
<1>3. ServicesSpec => OutcomeSpec
  BY ServicesBegin, OutcomeTurn, PTL DEF ServicesSpec, OutcomeSpec
<1>4. ServicesSpec => CallbackSpec
  BY ServicesBegin, CallbackTurn, PTL DEF ServicesSpec, CallbackSpec
<1>5. ServicesSpec => WebSpec
  BY ServicesBegin, WebTurn, PTL DEF ServicesSpec, WebSpec
<1>6. ServicesSpec => AlertSpec
  BY ServicesBegin, AlertTurn, PTL DEF ServicesSpec, AlertSpec
<1>7. ServicesSpec => NotificationSpec
  BY ServicesBegin, NotificationTurn, PTL DEF ServicesSpec, NotificationSpec
<1>8. ServicesSpec => NewsSpec
  BY ServicesBegin, NewsTurn, PTL DEF ServicesSpec, NewsSpec
<1>9. ServicesSpec => RemoteSpec
  BY ServicesBegin, RemoteTurn, PTL DEF ServicesSpec, RemoteSpec
<1>10. ServicesSpec => EnrichmentSpec
  BY ServicesBegin, EnrichmentTurn, PTL DEF ServicesSpec, EnrichmentSpec
<1> QED BY <1>1, <1>2, <1>3, <1>4, <1>5, <1>6, <1>7, <1>8, <1>9, <1>10

-----------------------------------------------------------------------------
(* The types of each service, where its invariant does not have them all.   *)

LEMMA WebTypesHold == WebSpec => []WebTypeOK
<1>1. WebInv => WebTypeOK
  BY DEF WebInv, WebTypes, WebTypeOK, Phases, JobStatuses, Runs, RunPcs, Closings
<1> QED BY <1>1, WebInvInit, WebInvStep, PTL DEF WebSpec

LEMMA OrderTypesHold == OrderSpec => []OrderTypeOK
<1>1. AnswerInv => OrderTypeOK
  BY DEF AnswerInv
<1> QED BY <1>1, AnswerInit, AnswerInvStep, PTL DEF OrderSpec

-----------------------------------------------------------------------------
(* Notifications: the report to the administrator.                          *)

ReportType == report \in {"none", "none needed", "sent", "skipped"}

LEMMA NotificationTypesHold == NotificationSpec => []NotificationTypeOK
<1>1. NotificationInit => ReportType
  BY DEF NotificationInit, ReportType
<1>2. ReportType /\ [NotificationNext]_notificationVars => ReportType'
  <2> SUFFICES ASSUME ReportType, [NotificationNext]_notificationVars PROVE ReportType'
    OBVIOUS
  <2>1. CASE NotifyAdmin
    BY <2>1 DEF NotifyAdmin, ReportType
  <2>2. CASE NotificationNext /\ ~NotifyAdmin
    <3>1. report' = report
      BY <2>2 DEF NotificationNext, ValidateAll, SendToAll, Abort, SendToChannels, Request, Accept,
                  Refuse, Doubt
    <3> QED BY <3>1 DEF ReportType
  <2>3. CASE UNCHANGED notificationVars
    BY <2>3 DEF notificationVars, ReportType
  <2> QED BY <2>1, <2>2, <2>3
<1>3. SendInv /\ ReportType => NotificationTypeOK
  <2> SUFFICES ASSUME SendInv, ReportType, NEW c \in Channels
               PROVE  /\ sending[c].pc \in {"out", "ready", "asked", "done"}
                      /\ sending[c].result \in {"none", "success", "failed", "aborted"}
                      /\ sending[c].part \in 1..MaxParts /\ sending[c].tries \in Nat
                      /\ delivered[c] \in [1..MaxParts -> Nat] /\ doubts[c] \in [1..MaxParts -> Nat]
    BY DEF NotificationTypeOK, ReportType, SendInv, SendTypes
  <2>1. sending[c] \in Sends /\ delivered \in Counts /\ doubts \in Counts
    BY DEF SendInv, SendTypes
  <2> QED BY <2>1 DEF Sends, Counts
<1> QED BY <1>1, <1>2, <1>3, SendInvInit, SendInvStep, PTL DEF NotificationSpec

-----------------------------------------------------------------------------
(* The remote configuration: its timer and the error it shows.              *)

RemoteRest ==
  /\ refresh \in 0..(LastSecond + RefreshInterval)
  /\ errorShown \in {"none", "invalid_value", "timeout", "credentials", "load_failed"}

LEMMA RemoteRestStep == RemoteInv /\ RemoteRest /\ [RemoteNext]_remoteVars => RemoteRest'
<1> SUFFICES ASSUME RemoteInv, RemoteRest, [RemoteNext]_remoteVars PROVE RemoteRest'
  OBVIOUS
<1>1. /\ RefreshInterval \in Nat \ {0} /\ LastSecond \in Nat /\ seconds \in 0..LastSecond
      /\ Never = LastSecond + 1
  BY RemoteConfigAssumption DEF RemoteInv, RemoteTypes, Times, Never
<1>2. refresh' \in {refresh, seconds + RefreshInterval, Never}
  BY DEF RemoteNext, StartRemoteConfig, FetchTemplate, LoadEnds, LoadFails, LoadTimesOut, LoadOver,
         Refresh, StopRefresh, PublishTemplate, RemoteTick, remoteVars
<1>3. errorShown' \in {errorShown, "none", "invalid_value", "timeout", "credentials", "load_failed"}
  BY DEF RemoteNext, StartRemoteConfig, FetchTemplate, LoadEnds, LoadFails, LoadTimesOut,
         Refresh, StopRefresh, PublishTemplate, RemoteTick, remoteVars, Evaluated
<1>4. refresh' \in 0..(LastSecond + RefreshInterval)
  BY <1>1, <1>2 DEF RemoteRest
<1> QED BY <1>3, <1>4 DEF RemoteRest

LEMMA RemoteTypesHold == RemoteSpec => []RemoteTypeOK
<1>1. RemoteInit => RemoteRest
  BY RemoteConfigAssumption DEF RemoteInit, RemoteRest, Never
<1>2. RemoteInv /\ RemoteRest => RemoteTypeOK
  BY DEF RemoteInv, RemoteTypes, RemoteRest, RemoteTypeOK, StatusError
<1> QED BY <1>1, <1>2, RemoteInvInit, RemoteInvStep, RemoteRestStep, PTL DEF RemoteSpec

-----------------------------------------------------------------------------
(* The analysis of news: its clock and the failures of other requests.      *)

NewsRest == now \in 0..LastNow /\ others \in 0..MaxOther429

LEMMA NewsRestStep == NewsRest /\ [NewsNext]_newsVars => NewsRest'
<1> SUFFICES ASSUME NewsRest, [NewsNext]_newsVars PROVE NewsRest'
  OBVIOUS
<1>1. LastNow \in Nat /\ MaxOther429 \in Nat
  BY NewsAssumption
<1>2. CASE NewsTick
  BY <1>1, <1>2 DEF NewsTick, NewsRest
<1>3. CASE OtherQuota429
  BY <1>1, <1>3 DEF OtherQuota429, NewsRest
<1>4. CASE [NewsNext]_newsVars /\ ~NewsTick /\ ~OtherQuota429
  <2>1. UNCHANGED <<now, others>>
    BY <1>4 DEF NewsNext, StartBatch, ReplyBatch, BeginSymbol, WakeSymbol, LoseRace, CheckCache,
                BinancePrice, AskGemini, PriceAnswered, NewsAnswered, Quota429, ModelOverloaded,
                ModelFails, ModelAnswers, EnrichAttempt, DeliverAlert, newsVars
  <2> QED BY <2>1 DEF NewsRest
<1> QED BY <1>2, <1>3, <1>4

LEMMA NewsTypesHold == NewsSpec => []NewsTypeOK
<1>1. NewsInit => NewsRest
  BY NewsAssumption DEF NewsInit, NewsRest
<1>2. NewsInv /\ NewsRest => NewsTypeOK
  BY DEF NewsInv, ClockInv, QuotaInv, Outers, Inners, OuterRecords, InnerRecords, NewsStatuses,
         NewsRest, NewsTypeOK
<1>3. NewsSpec => []NewsRest
  BY <1>1, NewsRestStep, PTL DEF NewsSpec
<1> QED BY <1>2, <1>3, NewsInvHolds, PTL

-----------------------------------------------------------------------------
(* The enrichment of an alert: its attempts, the alert and the answer.      *)

EnrichedAlerts == [sentiment : Sentiments \cup {"none"}, priority : BOOLEAN, opposed : BOOLEAN,
                   status : {"none", "full", "partial"}]
EnrichmentAnswers ==
  [enriched : BOOLEAN, sentiment : Sentiments \cup {"none"},
   status : {"none", "full", "partial", "failed", "not_applicable"}, applied : BOOLEAN]

EnrichmentRest ==
  attempt \in 0..webhook.retries /\ mcp \in EnrichedAlerts /\ answer \in EnrichmentAnswers

LEMMA AnswerTypes ==
  ASSUME EnrichmentRest, NEW enriched \in BOOLEAN, NEW sentiment \in Sentiments \cup {"none"},
         Answer(enriched, sentiment)
  PROVE  EnrichmentRest'
<1>1. StatusFor(mcp.status) \in {"none", "full", "partial", "failed", "not_applicable"}
  BY DEF EnrichmentRest, EnrichedAlerts, StatusFor
<1>2. answer' \in EnrichmentAnswers
  BY <1>1 DEF Answer, EnrichmentAnswers
<1>3. UNCHANGED <<webhook, attempt, mcp>>
  BY DEF Answer
<1> QED BY <1>2, <1>3 DEF EnrichmentRest

LEMMA EnrichmentRestStep ==
  AlertInv /\ BudgetInv /\ EnrichmentRest /\ [EnrichmentNext]_enrichmentVars => EnrichmentRest'
<1> SUFFICES ASSUME AlertInv, BudgetInv, EnrichmentRest, [EnrichmentNext]_enrichmentVars
             PROVE  EnrichmentRest'
  OBVIOUS
<1>1. webhook.retries \in 1..5 /\ attempt \in Nat
  BY WebhookTypes DEF BudgetInv
<1>2. CASE ReceiveAlert
  <2>1. attempt' \in {attempt, 1} /\ UNCHANGED <<webhook, mcp, answer>>
    BY <1>2 DEF ReceiveAlert
  <2> QED BY <1>1, <2>1 DEF EnrichmentRest
<1>3. CASE Backoff
  <2>1. attempt' \in {attempt, attempt + 1} /\ UNCHANGED <<webhook, mcp, answer>>
    BY <1>3 DEF Backoff, BaseFails
  <2>2. attempt \in 1..(webhook.retries - 1)
    BY <1>3 DEF BudgetInv, Backoff
  <2> QED BY <1>1, <2>1, <2>2 DEF EnrichmentRest
<1>4. CASE ToEnrichedAlert
  <2>1. UNCHANGED <<webhook, attempt, answer>>
    BY <1>4 DEF ToEnrichedAlert
  <2>2. PICK status \in {"partial", "full"}, rec \in Recommendations, agree \in BOOLEAN,
             bias \in RatingBiases : mcp' = EnrichedBy(rec, agree, bias, status)
    BY <1>4 DEF ToEnrichedAlert
  <2>3. \A score : SentimentOf(score) \in Sentiments
    BY DEF SentimentOf, Sentiments
  <2>4. mcp' \in EnrichedAlerts
    BY <2>2, <2>3 DEF EnrichedBy, EnrichedAlerts
  <2> QED BY <2>1, <2>4 DEF EnrichmentRest
<1>5. CASE WithoutGemini
  <2>1. mcp.sentiment \in Sentiments \cup {"none"} /\ (mcp # NoMcp) \in BOOLEAN
    BY DEF EnrichmentRest, EnrichedAlerts
  <2> QED BY <1>5, <2>1, AnswerTypes DEF WithoutGemini
<1>6. CASE WithGemini
  <2>1. PICK gemini \in Sentiments :
          Answer(TRUE, IF mcp # NoMcp THEN MergedSentiment(gemini) ELSE gemini)
    BY <1>6 DEF WithGemini
  <2>2. PICK sentiment : sentiment = IF mcp # NoMcp THEN MergedSentiment(gemini) ELSE gemini
    OBVIOUS
  <2>3. sentiment \in Sentiments \cup {"none"}
    BY <2>2 DEF EnrichmentRest, EnrichedAlerts, MergedSentiment
  <2>4. TRUE \in BOOLEAN /\ Answer(TRUE, sentiment)
    BY <2>1, <2>2
  <2> QED BY <2>3, <2>4, AnswerTypes
<1>7. CASE CallCoinAnalysis \/ CallVolumeConfirmation \/ CallConfluence \/ UNCHANGED enrichmentVars
  <2>1. CallCoinAnalysis => UNCHANGED <<webhook, attempt, mcp, answer>>
    BY DEF CallCoinAnalysis, BaseFails
  <2>2. CallVolumeConfirmation => UNCHANGED <<webhook, attempt, mcp, answer>>
    BY DEF CallVolumeConfirmation
  <2>3. CallConfluence => UNCHANGED <<webhook, attempt, mcp, answer>>
    BY DEF CallConfluence
  <2>4. UNCHANGED enrichmentVars => UNCHANGED <<webhook, attempt, mcp, answer>>
    BY DEF enrichmentVars
  <2>5. UNCHANGED <<webhook, attempt, mcp, answer>>
    BY <1>7, <2>1, <2>2, <2>3, <2>4
  <2> QED BY <2>5 DEF EnrichmentRest
<1> QED BY <1>2, <1>3, <1>4, <1>5, <1>6, <1>7 DEF EnrichmentNext

LEMMA EnrichmentTypesHold == EnrichmentSpec => []EnrichmentTypeOK
<1>1. EnrichmentInit => EnrichmentRest
  <2> SUFFICES ASSUME EnrichmentInit PROVE EnrichmentRest
    OBVIOUS
  <2>1. webhook.retries \in 1..5 /\ attempt = 0 /\ mcp = NoMcp /\ answer = NoAnswer
    BY WebhookTypes DEF EnrichmentInit
  <2>2. NoMcp \in EnrichedAlerts
    BY DEF NoMcp, EnrichedAlerts
  <2>3. NoAnswer \in EnrichmentAnswers
    BY DEF NoAnswer, EnrichmentAnswers
  <2>4. attempt \in 0..webhook.retries
    BY <2>1
  <2> QED BY <2>1, <2>2, <2>3, <2>4 DEF EnrichmentRest
<1>2. AlertInv /\ BudgetInv /\ EnrichmentRest => EnrichmentTypeOK
  <2> SUFFICES ASSUME AlertInv, BudgetInv, EnrichmentRest PROVE EnrichmentTypeOK
    OBVIOUS
  <2>1. webhook.budget \in Budgets /\ webhook.budget \in Nat
    BY WebhookTypes DEF BudgetInv, Webhooks
  <2>2. \A budget \in Budgets : budget <= 120000
    BY EnrichmentAssumption
  <2>3. ms \in Nat /\ ms <= webhook.budget
    BY DEF BudgetInv, RetriesFitBudget
  <2>4. ms \in Nat /\ ms <= 120000
    BY <2>1, <2>2, <2>3
  <2> QED BY <2>4 DEF AlertInv, AlertTypes, Stages, Outcomes, EnrichmentRest, EnrichedAlerts,
                      EnrichmentAnswers, EnrichmentTypeOK
<1> QED BY <1>1, <1>2, AlertInvInit, AlertInvStep, BudgetInit, BudgetStep, EnrichmentRestStep,
        PTL DEF EnrichmentSpec

-----------------------------------------------------------------------------
(* All of them together.                                                    *)

\* The state of every service has its type: documents, maps and copies, the counters and
\* clocks within their bounds, and the place of each activity in its code.
THEOREM ServicesTypes == ServicesSpec => []ServicesTypeOK
BY ServicesFollowSpecs, PresetMapTypes, OrderTypesHold, OutcomesTypeCorrect, CallbackTypeCorrect,
   WebTypesHold, AlertTypeCorrect, NotificationTypesHold, RemoteTypesHold, NewsTypesHold,
   EnrichmentTypesHold, PTL DEF ServicesTypeOK

\* What is proved of each service holds of the services together: the invariants of the
\* run Services.
THEOREM ServicesStaySafe ==
  ServicesSpec => [](/\ PresetsSafe /\ OrdersSafe /\ CallbackOnce /\ NoJobLeftOpen
                     /\ CallbackTellsStatus /\ ReportComplete /\ PartOnce
                     /\ OverridesFresh /\ BatchInTime /\ AlertsHaveSources /\ RetriesFitBudget /\ AlertTellsTruth)
BY ServicesFollowSpecs, PresetsStaySafe, OrdersAreSafe, EventsAcceptedOnce, NoJobStaysOpen,
   CallbacksTellStatus, ReportsAreComplete, PartsArriveOnce, OverridesAreFresh, BatchesEndInTime,
   EveryAlertHasSources, AttemptsFitBudget, AlertsTellTruth, PTL

\* And the action properties of that run; an outcome stays when one process evaluates.
THEOREM ServicesKeepTheirWord ==
  ServicesSpec => NoOlderWrite /\ AbortStops /\ QuotaRespected /\ (OneEvaluator => ResolvedStays)
<1>1. ASSUME OneEvaluator PROVE OutcomeSpec => ResolvedStays
  BY <1>1, OutcomesStay
<1> QED BY <1>1, ServicesFollowSpecs, PresetsGrow, AbortEndsRequests, QuotasAreRespected
=============================================================================
