---------------------------- MODULE BinanceOrders ----------------------------
(***************************************************************************)
(* Spot orders: BinanceOrderService.placeOrder.  A live order is looked up *)
(* by its symbol and client order id, validated, tested and submitted; the *)
(* answer of the exchange may be lost, and a request it took as lost may   *)
(* still reach it.  The filters of the symbol (lot size, tick size,       *)
(* notional) are arithmetic on decimals: a body passes them when it is in  *)
(* GoodOrders.                                                             *)
(*                                                                         *)
(* The exchange is external.  It refuses a client order id only while an   *)
(* order of the symbol with it is open, so a second one may be accepted.   *)
(***************************************************************************)
EXTENDS Naturals, Sequences, FiniteSets

CONSTANTS OrderRequests,   \* requests, each used once
          OrderIds,        \* client order ids, given or derived from the idempotency key
          OrderBodies,     \* symbol, side, type, quantities, price
          SymbolOf,        \* per body: its symbol
          GoodOrders,      \* the bodies that pass every filter
          NoId, NoBody,    \* of a request that has not come
          MaxOrderFaults   \* bound on lost calls and answers

ASSUME OrderAssumption ==
  /\ DOMAIN SymbolOf = OrderBodies
  /\ GoodOrders \subseteq OrderBodies /\ MaxOrderFaults \in Nat
  /\ NoId \notin OrderIds /\ NoBody \notin OrderBodies

VARIABLES
  exchange,     \* orders the exchange has executed: [id, body, by]
  order,        \* the requests
  late,         \* requests whose submission may still reach the exchange
  onceAlone,    \* identities that never had two requests, or a late submission, at once
  orderFaults

orderVars == <<exchange, order, late, onceAlone, orderFaults>>

\* What the exchange knows an order by: its symbol and its client order id.
Identity(o) == <<SymbolOf[o.body], o.id>>

Identities == {SymbolOf[body] : body \in OrderBodies} \X OrderIds

OrderPcs == {"idle", "reconciling", "reconciled", "validating", "testing", "submitting", "done"}
OrderAnswers == {"none", "invalid", "unavailable", "found", "conflict", "dry", "created",
                 "rejected", "unknown"}

OrderInit ==
  /\ exchange = {}
  /\ order = [r \in OrderRequests |-> [pc |-> "idle", id |-> NoId, body |-> NoBody,
                                      dry |-> FALSE, seen |-> {}, answer |-> "none"]]
  /\ late = {}
  /\ onceAlone = Identities
  /\ orderFaults = 0

LiveOrder(r) == order[r].pc \notin {"idle", "done"} /\ ~order[r].dry

Conclude(r, a) == order' = [order EXCEPT ![r].pc = "done", ![r].answer = a, ![r].seen = {}]
OrderGoto(r, pc) == order' = [order EXCEPT ![r].pc = pc]

OrderFault == orderFaults < MaxOrderFaults /\ orderFaults' = orderFaults + 1
NoOrderFault == UNCHANGED orderFaults

\* The orders the exchange has under an identity.
Under(known) == {x \in exchange : Identity(x) = known}

\* Errors by their Binance code and HTTP status: the lists of the service.
ErrorCodes == {"none", "-1006", "-1007", "-1021", "-2010"}
HttpStatuses == {"none", "400", "408", "429", "500"}

\* isDefinitiveBinanceRejection
Definitive(code, http) ==
  \/ code = "-1021"
  \/ code \notin {"none", "-1006", "-1007"} /\ http \notin {"408", "429", "500"}

\* What the exchange can answer: an order it executed is not refused with a code that
\* says so; an outcome it does not know itself carries -1006 or -1007, as a 400 even.
Refusals == {e \in ErrorCodes \X HttpStatuses :
              e[1] \in {"-1021", "-2010"} /\ e[2] \in {"none", "400"}}
Doubts == {e \in ErrorCodes \X HttpStatuses : e[1] \in {"none", "-1006", "-1007"}}
            \cup {"-2010"} \X {"500", "408", "429"}

-----------------------------------------------------------------------------
\* normalizeRequest has accepted the body; a live order asks for its id first.
StartOrder(r) ==
  \E id \in OrderIds, body \in OrderBodies, dry \in BOOLEAN :
    LET known == <<SymbolOf[body], id>>
        others == {q \in OrderRequests \ {r} : LiveOrder(q) /\ Identity(order[q]) = known}
        crowded == ~dry /\ (others # {} \/ \E q \in late : Identity(order[q]) = known)
    IN /\ order[r].pc = "idle"
       /\ order' = [order EXCEPT ![r] = [@ EXCEPT !.pc = IF dry THEN "validating" ELSE "reconciling",
                                                 !.id = id, !.body = body, !.dry = dry]]
       /\ onceAlone' = IF crowded THEN onceAlone \ {known} ELSE onceAlone
       /\ UNCHANGED <<exchange, late, orderFaults>>

\* The exchange looks the client order id up, among the orders of the symbol.
LookUp(r) ==
  /\ order[r].pc = "reconciling"
  /\ order' = [order EXCEPT ![r].pc = "reconciled", ![r].seen = Under(Identity(order[r]))]
  /\ UNCHANGED <<exchange, late, onceAlone, orderFaults>>

\* Mutant: a failed look-up counts as no order.
LookUpIgnored(r) ==
  /\ order[r].pc = "reconciled"
  /\ \/ /\ NoOrderFault
        /\ \/ order[r].seen = {} /\ OrderGoto(r, "validating")
           \/ \E x \in order[r].seen :
                Conclude(r, IF x.body = order[r].body THEN "found" ELSE "conflict")
     \/ OrderFault /\ OrderGoto(r, "validating")
  /\ UNCHANGED <<exchange, late, onceAlone>>

\* Its answer: nothing, an order that matches the request or not, or an error.
Reconcile(r) ==
  /\ order[r].pc = "reconciled"
  /\ \/ /\ NoOrderFault
        /\ \/ order[r].seen = {} /\ OrderGoto(r, "validating")
           \/ \E x \in order[r].seen :
                Conclude(r, IF x.body = order[r].body THEN "found" ELSE "conflict")
     \/ OrderFault /\ Conclude(r, "unknown")
  /\ UNCHANGED <<exchange, late, onceAlone>>

\* Allow-list, symbol status, lot size, tick size and notional; the exchange
\* information or the average price may be unavailable.
Validate(r) ==
  /\ order[r].pc = "validating"
  /\ \/ NoOrderFault /\ IF order[r].body \in GoodOrders THEN OrderGoto(r, "testing") ELSE Conclude(r, "invalid")
     \/ OrderFault /\ Conclude(r, "unavailable")
  /\ UNCHANGED <<exchange, late, onceAlone>>

\* validateOrderTestFilters: the test passes, refuses or fails; a dry run ends here.
TestOrder(r) ==
  /\ order[r].pc = "testing"
  /\ \/ NoOrderFault /\ IF order[r].dry THEN Conclude(r, "dry") ELSE OrderGoto(r, "submitting")
     \/ /\ OrderFault
        /\ \E e \in Refusals \cup Doubts :
             Conclude(r, IF Definitive(e[1], e[2]) THEN "invalid" ELSE "unavailable")
  /\ UNCHANGED <<exchange, late, onceAlone>>

Executed(r) == [id |-> order[r].id, body |-> order[r].body, by |-> r]

\* submitNewOrder answers: executed, refused, or in doubt, executed, not, or not yet.
Submit(r) ==
  /\ order[r].pc = "submitting"
  /\ UNCHANGED onceAlone
  /\ \/ /\ exchange' = exchange \cup {Executed(r)}
        /\ Conclude(r, "created") /\ NoOrderFault
        /\ UNCHANGED late
     \/ /\ \E e \in Refusals :
             Conclude(r, IF Definitive(e[1], e[2]) THEN "rejected" ELSE "unknown")
        /\ OrderFault
        /\ UNCHANGED <<exchange, late>>
     \/ /\ \E e \in Doubts :
             Conclude(r, IF Definitive(e[1], e[2]) THEN "rejected" ELSE "unknown")
        /\ OrderFault
        /\ \/ exchange' = exchange \cup {Executed(r)} /\ UNCHANGED late
           \/ UNCHANGED <<exchange, late>>
           \/ late' = late \cup {r} /\ UNCHANGED exchange

\* A submission that the service took as lost arrives, or never does.
ArriveLate(r) ==
  /\ r \in late
  /\ late' = late \ {r}
  /\ exchange' \in {exchange, exchange \cup {Executed(r)}}
  /\ UNCHANGED <<order, onceAlone, orderFaults>>

OrderNext == \E r \in OrderRequests :
  \/ StartOrder(r) \/ LookUp(r) \/ Reconcile(r) \/ Validate(r)
  \/ TestOrder(r) \/ Submit(r) \/ ArriveLate(r)

OrderSpec == OrderInit /\ [][OrderNext]_orderVars

-----------------------------------------------------------------------------
ExchangeOrder == [id : OrderIds, body : OrderBodies, by : OrderRequests]

OrderTypeOK ==
  /\ exchange \subseteq ExchangeOrder
  /\ order \in [OrderRequests -> [pc : OrderPcs, id : OrderIds \cup {NoId},
                                  body : OrderBodies \cup {NoBody}, dry : BOOLEAN,
                                  seen : SUBSET ExchangeOrder, answer : OrderAnswers]]
  /\ late \subseteq OrderRequests
  /\ onceAlone \subseteq Identities

\* An answer says what happened at the exchange: a success, new or found again, has an
\* order with the id and the body of the request behind it; a refused, dry or invalid
\* request placed none (placeOrder, isDefinitiveBinanceRejection).
AnswersTrue ==
  \A r \in OrderRequests :
    /\ order[r].answer \in {"created", "found"} =>
         \E x \in exchange : x.id = order[r].id /\ x.body = order[r].body
    /\ order[r].answer \in {"rejected", "invalid", "conflict", "dry", "unavailable"} =>
         r \notin late /\ ~\E x \in exchange : x.by = r

\* Retries are safe: as long as the requests for a symbol with a client order id come one
\* after the other and none is still on its way, there is at most one order under the two
\* (reconcileOrder).  Not under the id alone: a request that reuses it for another symbol
\* finds nothing and places its order.
OneOrderPerId == \A known \in onceAlone : Cardinality(Under(known)) <= 1

\* What a client is told is so, and asking again places no second order
\* (placeOrder, reconcileOrder).
OrdersSafe == AnswersTrue /\ OneOrderPerId
=============================================================================
