---------------------------- MODULE Notifications ----------------------------
(***************************************************************************)
(* The delivery of one alert: routing, the channels in parallel, each with *)
(* the parts of its message in order, and the retries, delays and abort    *)
(* signal of each.  NotificationManager, requestRouting, retryHelper and   *)
(* the Telegram, WhatsApp and Discord services.                            *)
(*                                                                         *)
(* The providers are external: a request is accepted, refused, or of       *)
(* unknown outcome (timeout, lost answer, answer without a message id).    *)
(***************************************************************************)
EXTENDS Naturals, FiniteSets

CONSTANTS MaxParts,         \* of a message
          WhatsAppTries,    \* attempts of sendWithRetry
          DiscordRetries,   \* DISCORD_MAX_RETRIES
          MaxSendFaults     \* bound on requests that are not accepted

ASSUME NotificationAssumption ==
  /\ {MaxParts, WhatsAppTries} \subseteq Nat \ {0}
  /\ DiscordRetries \in Nat /\ MaxSendFaults \in Nat

Channels == {"telegram", "whatsapp", "discord"}

VARIABLES
  enabled,     \* channels that validated
  sending,     \* the send of each channel
  delivered,   \* how often the provider accepted each part
  doubts,      \* how often the outcome of a part's request was unknown
  aborted,     \* the signal of the caller
  report,      \* the notification of the administrator
  sendFaults

notificationVars == <<enabled, sending, delivered, doubts, aborted, report, sendFaults>>

NotRouted == [pc |-> "out", parts |-> 0, part |-> 1, tries |-> 0, result |-> "none"]

NotificationInit ==
  /\ enabled = {}
  /\ sending = [c \in Channels |-> NotRouted]
  /\ delivered = [c \in Channels |-> [k \in 1..MaxParts |-> 0]]
  /\ doubts = [c \in Channels |-> [k \in 1..MaxParts |-> 0]]
  /\ aborted = FALSE
  /\ report = "none"
  /\ sendFaults = 0

SendFault == sendFaults < MaxSendFaults /\ sendFaults' = sendFaults + 1
NoSendFault == UNCHANGED sendFaults

-----------------------------------------------------------------------------
\* validateAll, at the start.
ValidateAll ==
  /\ enabled = {} /\ \E E \in SUBSET Channels \ {{}} : enabled' = E
  /\ UNCHANGED <<sending, delivered, doubts, aborted, report, sendFaults>>

\* Every channel formats and splits the message by its own limit.
Dispatch(S) ==
  \E parts \in [S -> 1..MaxParts] :
    sending' = [c \in Channels |-> IF c \in S THEN [NotRouted EXCEPT !.pc = "ready", !.parts = parts[c]]
                                   ELSE sending[c]]

Idle == \A c \in Channels : sending[c].pc = "out"

\* Channels in the request: all of them have to be enabled (validateNotificationRouting).
SendToChannels(S) ==
  /\ Idle /\ report = "none" /\ S # {} /\ S \subseteq enabled
  /\ Dispatch(S)
  /\ UNCHANGED <<enabled, delivered, doubts, aborted, report, sendFaults>>

SendToAll ==
  /\ Idle /\ report = "none" /\ enabled # {}
  /\ Dispatch(enabled)
  /\ UNCHANGED <<enabled, delivered, doubts, aborted, report, sendFaults>>

\* The caller lost its claim, its lease or its time.
Abort ==
  /\ ~aborted /\ aborted' = TRUE
  /\ UNCHANGED <<enabled, sending, delivered, doubts, report, sendFaults>>

End(c, result) == [sending[c] EXCEPT !.pc = "done", !.result = result]
Again(c) == [sending[c] EXCEPT !.pc = "ready", !.tries = @ + 1]
NextPart(c) == [sending[c] EXCEPT !.pc = "ready", !.part = @ + 1, !.tries = 0]

\* Mutant: the attempts are not preceded by a look at the signal.
RequestAnyway(c) ==
  /\ sending[c].pc = "ready"
  /\ sending' = [sending EXCEPT ![c].pc = "asked"]
  /\ UNCHANGED <<enabled, delivered, doubts, aborted, report, sendFaults>>

\* An attempt looks at the signal and, at once, asks the provider.
Request(c) ==
  /\ sending[c].pc = "ready"
  /\ sending' = [sending EXCEPT ![c] = IF aborted THEN End(c, "aborted") ELSE [@ EXCEPT !.pc = "asked"]]
  /\ UNCHANGED <<enabled, delivered, doubts, aborted, report, sendFaults>>

\* Mutant: the comparison is off by one.
BeyondLast(s) == s.part > s.parts

LastPart(s) == s.part >= s.parts

Accept(c) ==
  /\ sending[c].pc = "asked" /\ NoSendFault
  /\ delivered' = [delivered EXCEPT ![c][sending[c].part] = @ + 1]
  /\ sending' = [sending EXCEPT ![c] =
       IF LastPart(@) THEN End(c, "success") ELSE NextPart(c)]
  /\ UNCHANGED <<enabled, doubts, aborted, report>>

\* Telegram repeats only a message whose markup it refused, as plain text.
TelegramGoesOn(kind, s) == IF kind = "refused" /\ s.tries = 0 THEN {"again", "failed"} ELSE {"failed"}

\* Mutant: a message in parts is repeated from its first part.
WhatsAppRestarts(kind, s) == IF s.tries + 1 < WhatsAppTries THEN {"restart"} ELSE {"failed"}

\* sendWithRetry repeats the part whatever the failure was.
WhatsAppGoesOn(kind, s) == IF s.tries + 1 < WhatsAppTries THEN {"again"} ELSE {"failed"}

\* Discord repeats on 429, unless the delay is beyond its limits.
DiscordGoesOn(kind, s) ==
  IF kind = "refused" /\ s.tries < DiscordRetries THEN {"again", "failed"} ELSE {"failed"}

GoesOn(c, kind) ==
  CASE aborted -> {"aborted"}
    [] ~aborted /\ c = "telegram" -> TelegramGoesOn(kind, sending[c])
    [] ~aborted /\ c = "whatsapp" -> WhatsAppGoesOn(kind, sending[c])
    [] ~aborted /\ c = "discord" -> DiscordGoesOn(kind, sending[c])

Then(c, next) ==
  CASE next = "again" -> Again(c)
    [] next = "restart" -> [Again(c) EXCEPT !.part = 1]
    [] OTHER -> End(c, next)

Refuse(c) ==
  /\ sending[c].pc = "asked" /\ SendFault
  /\ \E next \in GoesOn(c, "refused") : sending' = [sending EXCEPT ![c] = Then(c, next)]
  /\ UNCHANGED <<enabled, delivered, doubts, aborted, report>>

\* No usable answer; an abort ends a request like that too.
Doubt(c) ==
  LET k == sending[c].part
  IN /\ sending[c].pc = "asked"
     /\ IF aborted THEN NoSendFault ELSE SendFault
     /\ \E next \in GoesOn(c, "unknown") : sending' = [sending EXCEPT ![c] = Then(c, next)]
     /\ \E n \in {0, 1} : delivered' = [delivered EXCEPT ![c][k] = @ + n]
     /\ doubts' = [doubts EXCEPT ![c][k] = @ + 1]
     /\ UNCHANGED <<enabled, aborted, report>>

Results == {c \in Channels : sending[c].pc = "done"}
Settled == ~Idle /\ \A c \in Channels : sending[c].pc \in {"out", "done"}

\* notifyAdminOfFailures, in the background: a message of its own, by Telegram.
NotifyAdmin ==
  /\ Settled /\ report = "none"
  /\ report' = IF \A c \in Results : sending[c].result = "success" THEN "none needed"
               ELSE IF "telegram" \in enabled THEN "sent" ELSE "skipped"
  /\ UNCHANGED <<enabled, sending, delivered, doubts, aborted, sendFaults>>

NotificationNext ==
  \/ ValidateAll \/ SendToAll \/ Abort \/ NotifyAdmin
  \/ \E S \in SUBSET Channels : SendToChannels(S)
  \/ \E c \in Channels : Request(c) \/ Accept(c) \/ Refuse(c) \/ Doubt(c)

NotificationSpec == NotificationInit /\ [][NotificationNext]_notificationVars

-----------------------------------------------------------------------------
NotificationTypeOK ==
  /\ enabled \subseteq Channels
  /\ \A c \in Channels :
       /\ sending[c].pc \in {"out", "ready", "asked", "done"}
       /\ sending[c].result \in {"none", "success", "failed", "aborted"}
       /\ sending[c].part \in 1..MaxParts /\ sending[c].tries \in Nat
       /\ delivered[c] \in [1..MaxParts -> Nat] /\ doubts[c] \in [1..MaxParts -> Nat]
  /\ aborted \in BOOLEAN /\ report \in {"none", "none needed", "sent", "skipped"}

\* A part arrives once, and once more for each request of unknown outcome that is repeated:
\* the retries of a part never repeat another ("Each chunk retries independently to avoid
\* duplicating already delivered parts", WhatsAppService.js).
PartOnce ==
  \A c \in Channels, k \in 1..MaxParts : delivered[c][k] <= 1 + doubts[c][k]

Asked(c) == sending[c].pc = "asked"

\* Once its signal is aborted, a delivery asks no provider again: the worker that lost its
\* claim, or the request that lost its lease, stops sending (sendWithRetry, sendChunk, send).
AbortStops == [][\A c \in Channels : aborted /\ Asked(c)' => Asked(c)]_notificationVars
=============================================================================
