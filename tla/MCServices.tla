----------------------------- MODULE MCServices -----------------------------
(* The services of the web process that share no state, one of them moving in *)
(* each behaviour: interleaving their steps would show nothing more.          *)
EXTENDS ScannerPresets, BinanceOrders, SignalOutcomes, JobCallbacks, WebProcess,
        AlertPages, Notifications, RemoteConfig, NewsAnalysis, AlertEnrichment

\* One of the order bodies is for another symbol.
BodySymbol == [body \in OrderBodies |-> IF body = "other" THEN "ETHUSDT" ELSE "BTCUSDT"]

VARIABLE focus  \* the service that moves

serviceVars == <<presetVars, orderVars, outcomeVars, callbackVars, localVars,
                 alertVars, notificationVars, remoteVars, newsVars, enrichmentVars,
                 focus>>

ServicesInit ==
  /\ focus \in {"presets", "orders", "outcomes", "callbacks", "web", "alerts",
               "notifications", "remote", "news", "enrichment"}
  /\ PresetInit /\ OrderInit /\ OutcomeInit /\ CallbackInit /\ WebInit
  /\ AlertInit /\ NotificationInit /\ NewsInit
  /\ RemoteInit /\ (focus # "remote" => templates[1].value = "absent")
  /\ EnrichmentInit
  /\ focus # "enrichment" => webhook = CHOOSE w \in Webhooks : ~w.asked

OthersStay ==
  /\ focus # "presets" => UNCHANGED presetVars
  /\ focus # "orders" => UNCHANGED orderVars
  /\ focus # "outcomes" => UNCHANGED outcomeVars
  /\ focus # "callbacks" => UNCHANGED callbackVars
  /\ focus # "web" => UNCHANGED localVars
  /\ focus # "alerts" => UNCHANGED alertVars
  /\ focus # "notifications" => UNCHANGED notificationVars
  /\ focus # "remote" => UNCHANGED remoteVars
  /\ focus # "news" => UNCHANGED newsVars
  /\ focus # "enrichment" => UNCHANGED enrichmentVars

ServicesNext ==
  /\ UNCHANGED focus
  /\ \/ focus = "presets" /\ PresetNext
     \/ focus = "orders" /\ OrderNext
     \/ focus = "outcomes" /\ OutcomeNext
     \/ focus = "callbacks" /\ CallbackNext
     \/ focus = "web" /\ WebNext
     \/ focus = "alerts" /\ AlertNext
     \/ focus = "notifications" /\ NotificationNext
     \/ focus = "remote" /\ RemoteNext
     \/ focus = "news" /\ NewsNext
     \/ focus = "enrichment" /\ EnrichmentNext
  /\ OthersStay

ServicesSpec == ServicesInit /\ [][ServicesNext]_serviceVars

ServicesTypeOK ==
  /\ PresetTypeOK /\ OrderTypeOK /\ OutcomeTypeOK /\ CallbackTypeOK
  /\ WebTypeOK /\ AlertTypeOK /\ NotificationTypeOK /\ RemoteTypeOK /\ NewsTypeOK
  /\ EnrichmentTypeOK
=============================================================================
