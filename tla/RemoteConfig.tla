---------------------------- MODULE RemoteConfig ----------------------------
(***************************************************************************)
(* RemoteConfigService: one allow-listed parameter of the published        *)
(* template (external), the loads that fetch it, their timeout, the        *)
(* refresh timer, and the configuration every reader gets.  The feature is *)
(* enabled; RefreshInterval, LoadTimeout and MaxAge are in clock units.    *)
(* A timer runs at its time: the event loop is not blocked for long.       *)
(***************************************************************************)
EXTENDS Naturals

CONSTANTS RefreshInterval, LoadTimeout, MaxAge,  \* getLoaderOption
          MaxVersion,                            \* bound: templates published
          LastSecond                             \* bound: the clock

ASSUME RemoteConfigAssumption ==
  /\ {RefreshInterval, LoadTimeout, MaxAge, MaxVersion} \subseteq Nat \ {0}
  /\ LastSecond \in Nat

VARIABLES
  seconds,    \* Date.now()
  templates,  \* the value each published version gives, and when it was replaced
  version,    \* of the published template
  overrides,  \* remoteOverrides, the version they come from, remoteLoadedAt
  errorShown, \* lastErrorCategory
  load,       \* loadingPromise: start, and the version fetched
  refresh,    \* when refreshTimer is due
  starting    \* start() awaits its load

remoteVars == <<seconds, templates, version, overrides, errorShown, load, refresh, starting>>

Never == LastSecond + 1
Times == 0..LastSecond

\* What the template holds for the parameter, as a string of its author.
RemoteValues == {"absent", "malformed", "outside", "inside"}

NoOverride == [value |-> "none", from |-> 0, loadedAt |-> Never]
NoLoad == [pc |-> "none", since |-> 0, got |-> 0]

RemoteInit ==
  /\ seconds = 0 /\ version = 1
  /\ \E value \in RemoteValues :
       templates = [v \in 1..MaxVersion |-> [value |-> value, until |-> Never]]
  /\ overrides = NoOverride /\ errorShown = "none"
  /\ load = NoLoad /\ refresh = Never /\ starting = FALSE

-----------------------------------------------------------------------------
\* parseValue with fallback undefined, for an integer with bounds.
ParsedValue(value) == IF value = "inside" THEN "remote" ELSE "undefined"

\* getRemoteValue for the parameter, and what loadNow makes of it.
Evaluated(v) ==
  LET value == templates[v].value IN
  [override |-> IF value = "absent" \/ ParsedValue(value) = "undefined" THEN "none" ELSE "remote",
   error    |-> IF value # "absent" /\ ParsedValue(value) = "undefined" THEN "invalid_value"
                ELSE "none"]

\* Mutant: overrides are used at any age.
LoadedOnce == overrides.loadedAt # Never

hasFreshRemoteConfig ==
  overrides.loadedAt # Never /\ seconds - overrides.loadedAt <= MaxAge

\* getRuntimeConfig: the value of the parameter.
RuntimeValue ==
  IF hasFreshRemoteConfig /\ overrides.value # "none" THEN overrides.value ELSE "environment"

\* getSource
SourceShown ==
  IF hasFreshRemoteConfig /\ overrides.value # "none" THEN "remote" ELSE "environment"

\* lastErrorCategory of getStatus
StatusError ==
  IF overrides.loadedAt # Never /\ ~hasFreshRemoteConfig THEN "stale" ELSE errorShown

-----------------------------------------------------------------------------
\* loadNow: a load that runs is shared.
LoadNow == load' = IF load.pc # "none" THEN load ELSE [pc |-> "asked", since |-> seconds, got |-> 0]

\* start, called once by bootstrapApplication.
StartRemoteConfig ==
  /\ refresh = Never /\ ~starting /\ load.pc = "none" /\ overrides = NoOverride
  /\ LoadNow /\ starting' = TRUE
  /\ UNCHANGED <<seconds, templates, version, overrides, errorShown, refresh>>

\* Firebase reads the published template (external).
FetchTemplate ==
  /\ load.pc = "asked"
  /\ load' = [load EXCEPT !.pc = "fetched", !.got = version]
  /\ UNCHANGED <<seconds, templates, version, overrides, errorShown, refresh, starting>>

\* The load is over; start goes on to set the interval.
LoadOver ==
  /\ load' = NoLoad /\ starting' = FALSE
  /\ refresh' = IF starting THEN seconds + RefreshInterval ELSE refresh
  /\ UNCHANGED <<seconds, templates, version>>

LoadEnds ==
  /\ load.pc = "fetched"
  /\ overrides' = [value |-> Evaluated(load.got).override, from |-> load.got,
                   loadedAt |-> seconds]
  /\ errorShown' = Evaluated(load.got).error
  /\ LoadOver

\* A failure, no credentials, or no support in the SDK.
LoadFails ==
  /\ load.pc # "none"
  /\ errorShown' \in {"credentials", "load_failed"}
  /\ overrides' = NoOverride /\ LoadOver

\* withTimeout; an answer that comes later is ignored.
LoadTimesOut ==
  /\ load.pc # "none" /\ seconds >= load.since + LoadTimeout
  /\ errorShown' = "timeout"
  /\ overrides' = NoOverride /\ LoadOver

Refresh ==
  /\ refresh # Never /\ seconds >= refresh
  /\ refresh' = seconds + RefreshInterval
  /\ LoadNow
  /\ UNCHANGED <<seconds, templates, version, overrides, errorShown, starting>>

\* stop, at the shutdown: no further refresh, but the process still serves, and a
\* first load that ends later sets the interval again.
StopRefresh ==
  /\ refresh # Never /\ refresh' = Never
  /\ UNCHANGED <<seconds, templates, version, overrides, errorShown, load, starting>>

\* The author of the template publishes another one (external).
PublishTemplate ==
  /\ version < MaxVersion
  /\ \E value \in RemoteValues :
       templates' = [templates EXCEPT ![version].until = seconds, ![version + 1].value = value]
  /\ version' = version + 1
  /\ UNCHANGED <<seconds, overrides, errorShown, load, refresh, starting>>

\* Time stops for a load timeout that is due.
RemoteTick ==
  /\ seconds < LastSecond
  /\ load.pc # "none" => seconds < load.since + LoadTimeout
  /\ seconds' = seconds + 1
  /\ UNCHANGED <<templates, version, overrides, errorShown, load, refresh, starting>>

RemoteNext ==
  \/ StartRemoteConfig \/ FetchTemplate \/ LoadEnds \/ LoadFails \/ LoadTimesOut
  \/ Refresh \/ StopRefresh \/ PublishTemplate \/ RemoteTick

RemoteSpec == RemoteInit /\ [][RemoteNext]_remoteVars

-----------------------------------------------------------------------------
RemoteTypeOK ==
  /\ seconds \in Times /\ version \in 1..MaxVersion
  /\ templates \in [1..MaxVersion -> [value : RemoteValues, until : Times \cup {Never}]]
  /\ overrides \in [value : {"none", "remote"}, from : 0..MaxVersion, loadedAt : Times \cup {Never}]
  /\ load \in [pc : {"none", "asked", "fetched"}, since : Times, got : 0..MaxVersion]
  /\ refresh \in 0..(LastSecond + RefreshInterval) /\ starting \in BOOLEAN
  /\ StatusError \in {"none", "invalid_value", "stale", "timeout", "credentials", "load_failed"}

\* A remote value is used, and shown as used, only while it is one that the schema
\* accepts and that some template contained less than MaxAge and one load ago,
\* whatever loads fail, hang or are given up (getRuntimeConfig, loadNow, start, stop).
OverridesFresh ==
  /\ RuntimeValue = "remote" =>
       LET used == templates[overrides.from] IN
       used.value = "inside" /\ (used.until = Never \/ seconds <= used.until + LoadTimeout + MaxAge)
  /\ (SourceShown = "remote") = (RuntimeValue = "remote")
=============================================================================
