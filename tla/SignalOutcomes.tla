--------------------------- MODULE SignalOutcomes ---------------------------
(***************************************************************************)
(* Outcomes of recorded signals.  A document has one outcome per window;   *)
(* a sweep reads a batch of documents with open windows, evaluates those   *)
(* whose time has come and writes the whole map of outcomes back.  The     *)
(* next batch starts after the last document a sweep dealt with.           *)
(*                                                                         *)
(* SignalOutcomeService, one process per member of Sweepers; documents are *)
(* numbered in the order of the query, windows by their length.            *)
(***************************************************************************)
EXTENDS Naturals, FiniteSets, FiniteSetsExt

CONSTANTS Sweepers,         \* processes whose role evaluates outcomes
          SignalCount,      \* documents
          WindowCount,      \* windows of a document: 1h, 4h, 1D, 1W
          BatchLimit,       \* SIGNAL_OUTCOME_EVALUATION_BATCH_LIMIT
          EquitySignals,    \* documents evaluated by the equity provider
          MaxOutcomeFaults  \* bound on failing calls, deadlines and crashes

ASSUME OutcomeAssumption ==
  /\ SignalCount \in Nat /\ WindowCount \in Nat
  /\ BatchLimit \in Nat \ {0} /\ MaxOutcomeFaults \in Nat

Signals == 1..SignalCount
Windows == 1..WindowCount
OutcomeStates == {"pending", "evaluated", "unavailable"}

VARIABLES
  outcomes,       \* the collection
  matured,        \* number of windows of each document whose target time has passed
  sweep,          \* what each process does
  outcomeFaults

outcomeVars == <<outcomes, matured, sweep, outcomeFaults>>

NoSignal == [recorded |-> FALSE, evaluated |-> FALSE, window |-> [w \in Windows |-> "pending"]]

\* isEvaluating, lastEvaluatedDoc (0 when null) and the locals of the sweep.
NoSweep == [on |-> FALSE, cursor |-> 0, todo |-> {}, read |-> [s \in Signals |-> NoSignal],
            now |-> [s \in Signals |-> 0], writing |-> FALSE, cut |-> FALSE]

OutcomeInit ==
  /\ outcomes = [s \in Signals |-> NoSignal]
  /\ matured = [s \in Signals |-> 0]
  /\ sweep = [p \in Sweepers |-> NoSweep]
  /\ outcomeFaults = 0

OutcomeFault(n) == outcomeFaults + n <= MaxOutcomeFaults /\ outcomeFaults' = outcomeFaults + n

-----------------------------------------------------------------------------
\* recordSignal: pending windows, or a closed document when there is no price.
RecordSignal(s) ==
  /\ ~outcomes[s].recorded
  /\ outcomes' \in
       {[outcomes EXCEPT ![s] = [recorded |-> TRUE, evaluated |-> st # "pending",
                                 window |-> [w \in Windows |-> st]]] : st \in {"pending", "unavailable"}}
  /\ UNCHANGED <<matured, sweep, outcomeFaults>>

\* The target time of the next window passes.
Mature(s) ==
  /\ outcomes[s].recorded /\ matured[s] < WindowCount
  /\ matured' = [matured EXCEPT ![s] = @ + 1]
  /\ UNCHANGED <<outcomes, sweep, outcomeFaults>>

OpenAfter(c) == {s \in Signals : s > c /\ outcomes[s].recorded /\ ~outcomes[s].evaluated}
BatchAfter(c) ==
  {s \in OpenAfter(c) : Cardinality({t \in OpenAfter(c) : t < s}) < BatchLimit}

SweepFrom(c, todo) ==
  [NoSweep EXCEPT !.on = TRUE, !.cursor = c, !.todo = todo, !.read = outcomes, !.now = matured]

\* Mutant: the query does not start again from the first document.
StartSweepOnce(p) ==
  LET c == sweep[p].cursor
  IN /\ ~sweep[p].on /\ BatchAfter(c) # {}
     /\ sweep' = [sweep EXCEPT ![p] = SweepFrom(c, BatchAfter(c))]
     /\ UNCHANGED <<outcomes, matured, outcomeFaults>>

\* evaluatePendingOutcomes up to its query, started again from the first document when
\* nothing is left after the cursor.
StartSweep(p) ==
  LET c == IF BatchAfter(sweep[p].cursor) = {} THEN 0 ELSE sweep[p].cursor
  IN /\ ~sweep[p].on /\ BatchAfter(c) # {}
     /\ sweep' = [sweep EXCEPT ![p] = SweepFrom(c, BatchAfter(c))]
     /\ UNCHANGED <<outcomes, matured, outcomeFaults>>

\* What the market data says of a window, and what becomes of it.
MarketAnswers == {"bars", "empty", "badSymbol", "network"}
OutcomeOf(s, a) ==
  CASE a = "bars" -> "evaluated"
    [] a = "network" /\ s \notin EquitySignals -> "pending"
    [] OTHER -> "unavailable"

Resolved(doc) == \A w \in Windows : doc.window[w] # "pending"

\* The sweep goes on behind document s, or ends.
AdvanceSweep(p, s, cut) ==
  LET rest == sweep[p].todo \ {s}
      cursor == IF cut THEN sweep[p].cursor ELSE s
  IN IF cut \/ rest = {}
     THEN [NoSweep EXCEPT !.cursor = cursor]
     ELSE [sweep[p] EXCEPT !.cursor = cursor, !.todo = rest, !.writing = FALSE]

\* Mutant: windows that have an outcome are evaluated again.
ReachedWindows(doc, n) == {w \in Windows : w <= n}

\* The pending windows whose target time had passed when the sweep began.
DueWindows(doc, n) == {w \in Windows : doc.window[w] = "pending" /\ w <= n}

\* The windows of the next document whose time has come are evaluated one by one; at the
\* deadline the sweep leaves the rest of them.
EvaluateNext(p) ==
  LET s == Min(sweep[p].todo)
      doc == sweep[p].read[s]
      due == DueWindows(doc, sweep[p].now[s])
  IN /\ sweep[p].on /\ ~sweep[p].writing
     /\ \E answer \in [due -> MarketAnswers], last \in Windows \cup {0} :
          LET cut == last # WindowCount
              reached == {w \in due : w <= last}
              new == [doc EXCEPT !.window =
                       [w \in Windows |-> IF w \in reached THEN OutcomeOf(s, answer[w]) ELSE @[w]]]
              faults == Cardinality({w \in reached : answer[w] = "network"})
          IN /\ cut => \E w \in due : w > last
             /\ OutcomeFault(faults + IF cut THEN 1 ELSE 0)
             /\ sweep' = [sweep EXCEPT ![p] =
                  IF new # doc
                  THEN [@ EXCEPT !.read[s] = [new EXCEPT !.evaluated = Resolved(new)],
                                 !.writing = TRUE, !.cut = cut]
                  ELSE AdvanceSweep(p, s, cut)]
     /\ UNCHANGED <<outcomes, matured>>

\* A document without a price, or whose exchange no provider covers, is closed as a whole.
CloseSignal(p) ==
  LET s == Min(sweep[p].todo)
      open == {w \in Windows : sweep[p].read[s].window[w] = "pending"}
      closed == [sweep[p].read[s] EXCEPT !.evaluated = TRUE,
                   !.window = [w \in Windows |-> IF w \in open THEN "unavailable" ELSE @[w]]]
  IN /\ sweep[p].on /\ ~sweep[p].writing
     /\ sweep' = [sweep EXCEPT ![p].writing = TRUE, ![p].cut = FALSE, ![p].read[s] = closed]
     /\ UNCHANGED <<outcomes, matured, outcomeFaults>>

\* doc.ref.update: the whole map as the sweep has it; outcomeEvaluated is only ever set.
\* A failed update, executed or not, ends the sweep.
WriteOutcomes(p) ==
  LET s == Min(sweep[p].todo)
      copy == sweep[p].read[s]
      written == [outcomes EXCEPT ![s].window = copy.window, ![s].evaluated = @ \/ copy.evaluated]
  IN /\ sweep[p].on /\ sweep[p].writing
     /\ \/ /\ outcomes' = written /\ OutcomeFault(0)
           /\ sweep' = [sweep EXCEPT ![p] = AdvanceSweep(p, s, sweep[p].cut)]
        \/ /\ outcomes' \in {outcomes, written} /\ OutcomeFault(1)
           /\ sweep' = [sweep EXCEPT ![p] = [NoSweep EXCEPT !.cursor = sweep[p].cursor]]
     /\ UNCHANGED matured

\* The sweep's time is over before the next document.
HaltSweep(p) ==
  /\ sweep[p].on /\ ~sweep[p].writing /\ OutcomeFault(1)
  /\ sweep' = [sweep EXCEPT ![p] = [NoSweep EXCEPT !.cursor = sweep[p].cursor]]
  /\ UNCHANGED <<outcomes, matured>>

\* The process ends, after stopWorker or not: the cursor is forgotten.
RestartSweeper(p) ==
  /\ sweep[p] # NoSweep /\ OutcomeFault(1)
  /\ sweep' = [sweep EXCEPT ![p] = NoSweep]
  /\ UNCHANGED <<outcomes, matured>>

OutcomeNext ==
  \/ \E s \in Signals : RecordSignal(s) \/ Mature(s)
  \/ \E p \in Sweepers : StartSweep(p) \/ EvaluateNext(p) \/ CloseSignal(p) \/ WriteOutcomes(p)
                         \/ HaltSweep(p) \/ RestartSweeper(p)

OutcomeSpec == OutcomeInit /\ [][OutcomeNext]_outcomeVars

\* Time passes, the timer of the worker fires, and calls are answered or fail.
OutcomeFairness ==
  /\ \A s \in Signals : WF_outcomeVars(Mature(s))
  /\ \A p \in Sweepers : WF_outcomeVars(StartSweep(p) \/ EvaluateNext(p) \/ CloseSignal(p) \/ WriteOutcomes(p))

-----------------------------------------------------------------------------
SignalDocument == [recorded : BOOLEAN, evaluated : BOOLEAN, window : [Windows -> OutcomeStates]]

OutcomeTypeOK ==
  /\ outcomes \in [Signals -> SignalDocument]
  /\ matured \in [Signals -> 0..WindowCount]
  /\ \A p \in Sweepers : /\ sweep[p].cursor \in 0..SignalCount
                         /\ sweep[p].todo \subseteq Signals
                         /\ sweep[p].read \in [Signals -> SignalDocument]

\* With one evaluator, an outcome once resolved stays: a write of the whole map never
\* takes back what an earlier sweep found (doc.ref.update).
ResolvedStays ==
  [][\A s \in Signals, w \in Windows :
       outcomes[s].recorded /\ outcomes[s].window[w] # "pending" =>
         outcomes'[s].window[w] = outcomes[s].window[w]]_outcomeVars

\* Every recorded signal is closed in the end: batches, deadlines and restarts leave no
\* document behind the cursor for good (lastEvaluatedDoc).
EventuallyClosed ==
  \A s \in Signals : outcomes[s].recorded ~> outcomes[s].evaluated
=============================================================================
