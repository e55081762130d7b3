----------------------------- MODULE AlertPages -----------------------------
(***************************************************************************)
(* The collection of received alerts and its readers: the list, page by    *)
(* page, the export and the summary.  AlertStorageService and the handlers *)
(* of controllers/alerts; alerts arrive and expire between two queries.    *)
(*                                                                         *)
(* Firestore stamps a document with its own clock, finer than the          *)
(* milliseconds of the service; documents come newest first, those of one  *)
(* time by their identifier.                                               *)
(***************************************************************************)
EXTENDS Naturals, FiniteSets

CONSTANTS AlertCount,   \* documents, their identifiers in no order of time
          TicksPerMs,   \* the clock of Firestore
          LastTick,     \* bound on time
          PageSize,     \* limit of a list
          MaxPageSize,  \* MAX_PAGE_SIZE
          ReportLimit,  \* limit of an export or a summary
          MaxWindow,    \* its longest window, in milliseconds
          MaxAged       \* bound on the documents that retention takes

ASSUME AlertAssumption ==
  /\ AlertCount \in Nat /\ LastTick \in Nat /\ MaxWindow \in Nat /\ MaxAged \in Nat
  /\ {TicksPerMs, PageSize, MaxPageSize, ReportLimit} \subseteq Nat \ {0}

AlertIds == 1..AlertCount
Ms(tick) == tick \div TicksPerMs
Milliseconds == 0..Ms(LastTick)

VARIABLES
  tick,    \* Firestore's clock
  alert,   \* the collection
  reader   \* a client that lists the alerts, exports them or asks for the summary

alertVars == <<tick, alert, reader>>

\* A position in the query: before every document, or behind (tick, id).
Top == [tick |-> LastTick + 1, id |-> 0]

NoReader == [pc |-> "idle", kind |-> "list", cursor |-> Top, matches |-> {}, shown |-> {},
             from |-> 0, to |-> Ms(LastTick), known |-> {}]

AlertInit ==
  /\ tick = 0
  /\ alert = [i \in AlertIds |-> [state |-> "none", tick |-> 0, matching |-> FALSE]]
  /\ reader = NoReader

Stored == {i \in AlertIds : alert[i].state \in {"live", "expired"}}

\* matchesFilters, of a document that retention has not passed (isRetentionExpired).
Wanted(i) == alert[i].state = "live" /\ alert[i].matching

Newer(i, j) == alert[i].tick > alert[j].tick \/ (alert[i].tick = alert[j].tick /\ i > j)

-----------------------------------------------------------------------------
\* saveAlert: one add, whose id and time are Firestore's.
SaveAlert(i) ==
  /\ alert[i].state = "none"
  /\ \E matching \in BOOLEAN :
       alert' = [alert EXCEPT ![i] = [state |-> "live", tick |-> tick, matching |-> matching]]
  /\ UNCHANGED <<tick, reader>>

PassTime == tick < LastTick /\ tick' = tick + 1 /\ UNCHANGED <<alert, reader>>

\* Retention, the oldest first: the readers ignore the document, later Firestore deletes it.
Age(i) ==
  /\ alert[i].state \in {"live", "expired"}
  /\ \A j \in AlertIds : alert[j].state = "live" => alert[j].tick >= alert[i].tick
  /\ Cardinality({j \in AlertIds \ {i} : alert[j].state \in {"expired", "deleted"}}) < MaxAged
  /\ alert' = [alert EXCEPT ![i].state = IF @ = "live" THEN "expired" ELSE "deleted"]
  /\ UNCHANGED <<tick, reader>>

-----------------------------------------------------------------------------
(* Queries *)

\* startAfter(receivedAt, documentId)
Behind(i, c) == alert[i].tick < c.tick \/ (alert[i].tick = c.tick /\ i < c.id)

\* The window compares the document's own time with two times in milliseconds.
InWindow(i, from, to) == from * TicksPerMs <= alert[i].tick /\ alert[i].tick <= to * TicksPerMs

\* A query has one order, and what a reader has found is newer than what it still reads:
\* a page is the set of its documents, the first n of a query are its n newest.
NewestOf(S, n) == {i \in S : Cardinality({j \in S : Newer(j, i)}) < n}
OldestOf(S) == CHOOSE i \in S : \A j \in S \ {i} : Newer(j, i)
WantedOf(batch) == {i \in batch : Wanted(i)}

\* getDocCursorValues, encodeAlertPaginationCursor, buildParsedCursorTimestamp: the
\* time in milliseconds.
MsCursor(i) == [tick |-> Ms(alert[i].tick) * TicksPerMs, id |-> i]

\* Mutant: the export goes on from a cursor in milliseconds.
RoundedCursor(i) == MsCursor(i)

\* getRawDocCursorValues: the time as Firestore has it.
RawCursor(i) == [tick |-> alert[i].tick, id |-> i]

TargetCount == PageSize + 1
Larger(a, b) == IF a < b THEN b ELSE a
ListScan == Larger(TargetCount, MaxPageSize)
ReportScan == Larger(ReportLimit, MaxPageSize)

-----------------------------------------------------------------------------
(* The list: a client follows nextBefore as long as there is more. *)

StartList ==
  /\ reader.pc = "idle"
  /\ reader' = [NoReader EXCEPT !.pc = "reading", !.known = {i \in AlertIds : Wanted(i)}]
  /\ UNCHANGED <<tick, alert>>

\* One query of listAlerts: the page is full, the collection read through, or the
\* loop goes on behind the last document read.
ListQuery ==
  LET batch == NewestOf({i \in Stored : Behind(i, reader.cursor)}, ListScan)
      found == NewestOf(reader.matches \cup WantedOf(batch), TargetCount)
      page == NewestOf(found, PageSize)
      more == Cardinality(found) > PageSize
      ended == Cardinality(found) >= TargetCount \/ Cardinality(batch) < ListScan
      edge == OldestOf(IF ended THEN page ELSE batch)
  IN /\ reader.pc = "reading" /\ reader.kind = "list"
     /\ reader' =
          IF ended /\ ~more
          THEN [reader EXCEPT !.pc = "done", !.shown = @ \cup page, !.matches = {}]
          ELSE [reader EXCEPT !.shown = IF ended THEN @ \cup page ELSE @,
                              !.matches = IF ended THEN {} ELSE found,
                              !.cursor = MsCursor(edge)]
     /\ UNCHANGED <<tick, alert>>

-----------------------------------------------------------------------------
(* The export and the summary *)

\* buildSummaryWindow moves the start of a long window.
SummaryFrom(from, to) == IF to - from > MaxWindow THEN to - MaxWindow ELSE from

\* buildExportWindow refuses a long window.
ExportAllowed(from, to) == from <= to /\ to - from <= MaxWindow

StartExport(from, to) ==
  /\ reader.pc = "idle" /\ ExportAllowed(from, to)
  /\ reader' = [NoReader EXCEPT !.pc = "reading", !.kind = "export", !.from = from, !.to = to,
                                !.known = {i \in AlertIds : Wanted(i) /\ InWindow(i, from, to)}]
  /\ UNCHANGED <<tick, alert>>

StartSummary(from, to) ==
  LET start == SummaryFrom(from, to)
  IN /\ reader.pc = "idle" /\ from <= to
     /\ reader' = [NoReader EXCEPT !.pc = "reading", !.kind = "summary", !.from = start, !.to = to,
                                   !.known = {i \in AlertIds : Wanted(i) /\ InWindow(i, start, to)}]
     /\ UNCHANGED <<tick, alert>>

\* One query of exportAlerts or summarizeAlerts.
ReportQuery(kind) ==
  LET batch == NewestOf({i \in Stored : /\ InWindow(i, reader.from, reader.to)
                                        /\ Behind(i, reader.cursor)}, ReportScan)
      docs == NewestOf(reader.shown \cup WantedOf(batch), ReportLimit)
      ended == Cardinality(docs) >= ReportLimit \/ Cardinality(batch) < ReportScan
  IN /\ reader.pc = "reading" /\ reader.kind = kind
     /\ reader' = [reader EXCEPT !.shown = docs,
                                 !.pc = IF ended THEN "done" ELSE @,
                                 !.cursor = IF ended THEN @ ELSE RawCursor(OldestOf(batch))]
     /\ UNCHANGED <<tick, alert>>

ExportQuery == ReportQuery("export")
SummaryQuery == ReportQuery("summary")

\* Firestore is unavailable: 503, and the client gives up.
ReadFails ==
  /\ reader.pc = "reading"
  /\ reader' = [NoReader EXCEPT !.pc = "failed"]
  /\ UNCHANGED <<tick, alert>>

AlertNext ==
  \/ \E i \in AlertIds : SaveAlert(i) \/ Age(i)
  \/ PassTime \/ StartList \/ ListQuery \/ ExportQuery \/ SummaryQuery \/ ReadFails
  \/ \E from, to \in Milliseconds : StartExport(from, to) \/ StartSummary(from, to)

AlertSpec == AlertInit /\ [][AlertNext]_alertVars

-----------------------------------------------------------------------------
AlertTypeOK ==
  /\ tick \in 0..LastTick
  /\ alert \in [AlertIds -> [state : {"none", "live", "expired", "deleted"}, tick : 0..LastTick,
                             matching : BOOLEAN]]
  /\ reader.pc \in {"idle", "reading", "done", "failed"}
  /\ reader.shown \subseteq AlertIds /\ reader.known \subseteq AlertIds

\* An export and a summary leave out no alert that was there when they started and still
\* is: only those older than the last one where the limit is reached (exportAlerts,
\* summarizeAlerts, getRawDocCursorValues).
ReportComplete ==
  reader.pc = "done" /\ reader.kind # "list" =>
    \A i \in {j \in reader.known : Wanted(j)} \ reader.shown :
      Cardinality(reader.shown) = ReportLimit /\ \A j \in reader.shown : Newer(j, i)

\* A client that follows nextBefore to the end misses no alert (tests: "uses the opaque nextBefore cursor to continue within
\* tied timestamps").
ListComplete ==
  reader.pc = "done" /\ reader.kind = "list" =>
    {j \in reader.known : Wanted(j)} \subseteq reader.shown
=============================================================================
