---------------------------- MODULE TradeEngine ----------------------------
(***************************************************************************)
(* The trading client's engine for one ticker: MarketMaker quotes around   *)
(* the best bid and offer or LiquidityTaker follows large trades, both on  *)
(* features that FeatureEngine works out, OrderManager keeps one order a   *)
(* side in a slot of its own, RiskManager lets an order pass or not,       *)
(* PositionKeeper books the executions.  All of it runs on the thread of   *)
(* TradeEngine::run, which takes responses and market updates from two     *)
(* queues; requests and responses are on their way while it works.         *)
(*                                                                         *)
(* The way to the exchange and back keeps the order (OrderEntry), and the  *)
(* exchange is what OrderBook says of one client's orders: it executes     *)
(* them when it pleases.  Its ACCEPTED response has client and ticker id   *)
(* swapped, so that it reaches the client whose id is the ticker's, under  *)
(* the ticker whose id is the owner's.                                     *)
(*                                                                         *)
(* Profits are kept in units of 1/Unit, which makes the quotients exact.   *)
(***************************************************************************)
EXTENDS Integers, Sequences, SequencesExt, FiniteSetsExt

CONSTANTS
    ClientId,           \* this client's id
    Tickers,            \* the ids the modelled ticker may have
    Algos,              \* the AlgoTypes in question: "MAKER", "TAKER"
    Prices,             \* prices of the best bid and offer
    Quantities,         \* their quantities, and the ones of trades
    Threshold,          \* TradeEngineConfig::threshold, in halves
    Clip,               \* quantity of an order
    MaxOrderSize, MaxPosition, MaxLoss,     \* RiskConfig
    Uninitialised,      \* what position and open_vwap may hold at the start:
                        \* the code gives them no value
    Unit,
    MaxOrders,          \* bound on the orders made by each of Algos
    MaxInFlight,        \* bound on the requests on their way when the market
                        \* moves
    MaxStray            \* bound on the responses on their way when another
                        \* client's is added to them

ASSUME EngineAssumption ==
    /\ {ClientId, Clip, MaxOrderSize, MaxPosition} \subseteq Nat
    /\ {MaxInFlight, MaxStray} \subseteq Nat /\ Tickers \subseteq Nat
    /\ MaxOrders \in [Algos -> Nat]
    /\ Clip > 0 /\ MaxLoss \in Int
    /\ Algos \subseteq {"MAKER", "TAKER"} /\ Threshold \in Int
    /\ Prices \subseteq Nat /\ Uninitialised \subseteq Int
    /\ Quantities \subseteq Nat \ {0}
    /\ Unit \in Nat /\ Unit % 2 = 0
    /\ \A n \in 1 .. MaxPosition : Unit % n = 0

Sides == {"BUY", "SELL"}
Value(side) == IF side = "BUY" THEN 1 ELSE -1           \* sideToValue
Opposite(side) == IF side = "BUY" THEN "SELL" ELSE "BUY"
Abs(n) == IF n < 0 THEN -n ELSE n

VARIABLES
    ticker,     \* the ticker's id, which never changes
    algo,       \* the client's AlgoType, which never changes
    slot,       \* ticker_side_orders of this ticker
    nextId,     \* next_order_id
    position, openVwap, realPnl, unrealPnl,     \* PositionInfo
    requests,   \* requests on their way to the exchange
    responses,  \* responses on their way back
    resting,    \* the client's orders in the exchange's book
    exchange,   \* "running" or "terminated"
    traded,     \* history: the position as the exchange knows it
    reduced,    \* history: a fill has closed a part of a position
    cash        \* history: what the fills have paid or cost until then

orderVars == <<ticker, algo, slot, nextId>>
positionVars == <<position, openVwap, realPnl, unrealPnl, reduced, cash>>
exchangeVars == <<resting, exchange, traded>>
vars == <<orderVars, positionVars, requests, responses, exchangeVars>>

NoId == 0               \* ORDER_ID_INVALID
NoPrice == -1           \* PRICE_INVALID
NoOrder == [state |-> "INVALID", id |-> NoId, price |-> 0, quantity |-> 0]

Init ==
    /\ ticker \in Tickers /\ algo \in Algos
    /\ slot = [s \in Sides |-> NoOrder]
    /\ nextId = 1
    /\ position \in Uninitialised
    /\ openVwap \in [Sides -> Uninitialised]
    /\ realPnl = 0 /\ unrealPnl = 0
    /\ requests = <<>> /\ responses = <<>>
    /\ resting = {} /\ exchange = "running" /\ traded = 0
    /\ reduced = FALSE /\ cash = 0

-----------------------------------------------------------------------------
(* RiskManager and OrderManager. *)

\* checkPreTradeRisk(): the order's size, the position if all of it trades, and
\* the profit, in this order.
CheckPreTradeRisk(pnl, side, quantity) ==
    IF quantity > MaxOrderSize THEN "ORDER_LIMIT_EXCEEDED"
    ELSE IF Abs(position + Value(side) * quantity) > MaxPosition
    THEN "POSITION_LIMIT_EXCEEDED"
    ELSE IF pnl < MaxLoss * Unit THEN "LOSS_LIMIT_EXCEEDED"
    ELSE "ALLOWED"

\* newOrder() in w, the slots, next_order_id and the requests sent so far.
NewOrder(w, side, price) ==
    [slot |-> [w.slot EXCEPT ![side] =
                 [state |-> "PENDING_NEW", id |-> w.nextId, price |-> price,
                  quantity |-> Clip]],
     nextId |-> w.nextId + 1,
     requests |-> Append(w.requests, [type |-> "NEW", id |-> w.nextId,
                     side |-> side, price |-> price, quantity |-> Clip])]

\* cancelOrder()
CancelOrder(w, side) ==
    [w EXCEPT !.slot[side].state = "PENDING_CANCEL",
              !.requests = Append(@, [type |-> "CANCEL", id |-> w.slot[side].id])]

\* Fault: an order whose cancel is on its way is replaced at once.
MoveOrder_Impatient(w, pnl, side, price) ==
    LET order == w.slot[side] IN
    IF order.state = "LIVE" /\ (order.price # price \/ order.quantity # Clip)
    THEN CancelOrder(w, side)
    ELSE IF /\ order.state \in {"INVALID", "DEAD", "PENDING_CANCEL"}
            /\ price # NoPrice
            /\ CheckPreTradeRisk(pnl, side, Clip) = "ALLOWED"
    THEN NewOrder(w, side, price)
    ELSE w

\* moveOrder(): a live order in the wrong place is cancelled, a new one made
\* where there is none and a price is given; an order with a request on its
\* way is left alone.
MoveOrder(w, pnl, side, price) ==
    LET order == w.slot[side] IN
    IF order.state = "LIVE" /\ (order.price # price \/ order.quantity # Clip)
    THEN CancelOrder(w, side)
    ELSE IF /\ order.state \in {"INVALID", "DEAD"} /\ price # NoPrice
            /\ CheckPreTradeRisk(pnl, side, Clip) = "ALLOWED"
    THEN NewOrder(w, side, price)
    ELSE w

\* moveOrders(): the bid, then the offer, with the profit as it stands.
MoveOrders(pnl, bid, ask) ==
    LET before == [slot |-> slot, nextId |-> nextId, requests |-> requests]
        after == MoveOrder(MoveOrder(before, pnl, "BUY", bid), pnl, "SELL", ask)
    IN  /\ slot' = after.slot /\ nextId' = after.nextId
        /\ requests' = after.requests

\* Fault: CANCEL_REJECTED, which names no side, frees the slots.
OrderUpdate_FreesSlot(r) ==
    CASE r.type = "ACCEPTED" -> [slot EXCEPT ![r.side].state = "LIVE"]
      [] r.type = "CANCELLED" -> [slot EXCEPT ![r.side].state = "DEAD"]
      [] r.type = "FILLED" ->
            [slot EXCEPT ![r.side].quantity = r.leaves,
                         ![r.side].state = IF r.leaves = 0 THEN "DEAD" ELSE @]
      [] OTHER -> [s \in Sides |-> [slot[s] EXCEPT !.state = "DEAD"]]

\* Fault: a fill leaves the order's quantity alone.
OrderUpdate_KeepsQuantity(r) ==
    CASE r.type = "ACCEPTED" -> [slot EXCEPT ![r.side].state = "LIVE"]
      [] r.type = "CANCELLED" -> [slot EXCEPT ![r.side].state = "DEAD"]
      [] r.type = "FILLED" ->
            [slot EXCEPT ![r.side].state = IF r.leaves = 0 THEN "DEAD" ELSE @]
      [] OTHER -> slot

\* Fault: only a cancel that was carried out frees the slot.
OrderUpdate_WaitsForCancel(r) ==
    CASE r.type = "ACCEPTED" -> [slot EXCEPT ![r.side].state = "LIVE"]
      [] r.type = "CANCELLED" -> [slot EXCEPT ![r.side].state = "DEAD"]
      [] r.type = "FILLED" ->
            [slot EXCEPT ![r.side].quantity = r.leaves,
                         ![r.side].state = IF r.leaves = 0 /\ @ = "LIVE"
                                           THEN "DEAD" ELSE @]
      [] OTHER -> slot

\* onOrderUpdate(): the slot is found by the side, the order id is not looked
\* at.  CANCEL_REJECTED changes nothing.
OrderUpdate(r) ==
    CASE r.type = "ACCEPTED" -> [slot EXCEPT ![r.side].state = "LIVE"]
      [] r.type = "CANCELLED" -> [slot EXCEPT ![r.side].state = "DEAD"]
      [] r.type = "FILLED" ->
            [slot EXCEPT ![r.side].quantity = r.leaves,
                         ![r.side].state = IF r.leaves = 0 THEN "DEAD" ELSE @]
      [] OTHER -> slot

-----------------------------------------------------------------------------
(* PositionKeeper. *)

\* The profit on pos units bought or sold for open_vwap, at price m / 2.
Unrealised(pos, vwap, m) ==
    IF pos > 0 THEN (Unit \div 2) * (m * pos - 2 * vwap["BUY"])
    ELSE (Unit \div 2) * (2 * vwap["SELL"] + m * pos)

\* Fault: a closing fill is taken off the wrong side.
VwapAfter_WrongSide(side, price, exec) ==
    LET pos == position + Value(side) * exec IN
    CASE pos = 0 -> [s \in Sides |-> 0]
      [] pos # 0 /\ position * Value(side) >= 0 ->
            [openVwap EXCEPT ![side] = @ + price * exec]
      [] pos * position < 0 ->
            [openVwap EXCEPT ![side] = price * Abs(pos), ![Opposite(side)] = 0]
      [] OTHER -> [openVwap EXCEPT ![side] = @ - price * exec]

\* open_vwap after a fill.  A fill that only lowers the position leaves it.
VwapAfter(side, price, exec) ==
    LET pos == position + Value(side) * exec IN
    CASE pos = 0 -> [s \in Sides |-> 0]
      [] pos # 0 /\ position * Value(side) >= 0 ->
            [openVwap EXCEPT ![side] = @ + price * exec]
      [] pos * position < 0 ->
            [openVwap EXCEPT ![side] = price * Abs(pos), ![Opposite(side)] = 0]
      [] OTHER -> openVwap

\* Fault: a fill that turns the position realises all of its quantity.
Realised_WholeFill(side, price, exec) ==
    IF position * Value(side) >= 0 THEN 0
    ELSE Value(side) * exec *
            (openVwap[Opposite(side)] * (Unit \div Abs(position)) - price * Unit)

\* What a fill against the position realises.
Realised(side, price, exec) ==
    LET old == Abs(position)
        closed == Min({exec, old})
    IN  IF position * Value(side) >= 0 THEN 0
        ELSE Value(side) * closed *
                (openVwap[Opposite(side)] * (Unit \div old) - price * Unit)

\* addFill()
AddFill(side, price, exec) ==
    LET pos == position + Value(side) * exec
        vwap == VwapAfter(side, price, exec)
        lowers == pos * position > 0 /\ position * Value(side) < 0
    IN  /\ position' = pos
        /\ openVwap' = vwap
        /\ realPnl' = realPnl + Realised(side, price, exec)
        /\ unrealPnl' = IF pos = 0 THEN 0 ELSE Unrealised(pos, vwap, 2 * price)
        /\ reduced' = (reduced \/ lowers)
        /\ cash' = IF reduced' THEN 0 ELSE cash - Value(side) * exec * price

-----------------------------------------------------------------------------
(* FeatureEngine.  A quote is the best bid and offer with their quantities.  *)
(* Nothing says that the bid is below the offer: one of them may be from     *)
(* before a CLEAR and the other from after it (MarketOrderBook).             *)

Quotes == [bid : Prices, ask : Prices, bidQty : Quantities, askQty : Quantities]

\* The market price, each side weighted with the quantity of the other, times
\* the total quantity.
MarketPrice(q) == q.bid * q.askQty + q.ask * q.bidQty
Total(q) == q.bidQty + q.askQty

\* A trade's quantity against what is on the side that is named: is the ratio
\* as large as the threshold?
IsLarge(q, side, size) ==
    2 * size >= Threshold * (IF side = "BUY" THEN q.bidQty ELSE q.askQty)

-----------------------------------------------------------------------------
(* TradeEngine::run. *)

\* onOrderUpdate() on the next response.
OnOrderUpdate ==
    /\ responses # <<>>
    /\ LET r == Head(responses)
       IN  /\ slot' = OrderUpdate(r)
           /\ IF r.type = "FILLED" THEN AddFill(r.side, r.price, r.exec)
              ELSE UNCHANGED positionVars
    /\ responses' = Tail(responses)
    /\ UNCHANGED <<ticker, algo, nextId, requests, exchangeVars>>

\* MarketMaker: quote at the best bid and offer or, where the market price is
\* too near, one tick behind.
MakerBid(q) ==
    IF 2 * (MarketPrice(q) - q.bid * Total(q)) >= Threshold * Total(q)
    THEN q.bid ELSE q.bid - 1
MakerAsk(q) ==
    IF 2 * (q.ask * Total(q) - MarketPrice(q)) >= Threshold * Total(q)
    THEN q.ask ELSE q.ask + 1

WithinBounds == nextId < MaxOrders[algo] /\ Len(requests) < MaxInFlight

\* algoOnOrderBookUpdate: MarketMaker moves its orders, LiquidityTaker does
\* nothing.
AlgoOnOrderBookUpdate(pnl, q) ==
    IF algo = "MAKER" THEN MoveOrders(pnl, MakerBid(q), MakerAsk(q))
    ELSE UNCHANGED <<slot, nextId, requests>>

\* onOrderBookUpdate() after a market update: the position is valued at the
\* middle of the best bid and offer before the algorithm acts.  Without a best
\* bid or offer the update has no effect.
OnOrderBookUpdate(q) ==
    LET unreal == IF position = 0 THEN unrealPnl
                  ELSE Unrealised(position, openVwap, q.bid + q.ask)
    IN  /\ WithinBounds
        /\ unrealPnl' = unreal
        /\ AlgoOnOrderBookUpdate(unreal + realPnl, q)
        /\ UNCHANGED <<ticker, algo, position, openVwap, realPnl, reduced, cash,
                       responses, exchangeVars>>

\* algoOnTradeUpdate: LiquidityTaker follows a large trade with an order that
\* takes the other side's best price, and withdraws the order of the other
\* side.
AlgoOnTradeUpdate(pnl, q, side, size) ==
    /\ algo = "TAKER" /\ IsLarge(q, side, size)
    /\ IF side = "BUY" THEN MoveOrders(pnl, q.ask, NoPrice)
       ELSE MoveOrders(pnl, NoPrice, q.bid)

\* onTradeUpdate().  The exchange of this repository publishes no TRADE update,
\* the protocol has it.
OnTradeUpdate(q, side, size) ==
    /\ WithinBounds
    /\ AlgoOnTradeUpdate(unrealPnl + realPnl, q, side, size)
    /\ UNCHANGED <<ticker, algo, positionVars, responses, exchangeVars>>

-----------------------------------------------------------------------------
(* The exchange. *)

\* A NEW request is accepted.  The client sees that only if its id is the
\* ticker's.
ExchangeAdds ==
    /\ exchange = "running"
    /\ requests # <<>> /\ Head(requests).type = "NEW"
    /\ LET q == Head(requests)
       IN  /\ resting' = resting \cup {[id |-> q.id, side |-> q.side,
                                         price |-> q.price,
                                         leaves |-> q.quantity]}
           /\ responses' = IF ClientId # ticker THEN responses
                           ELSE Append(responses, [type |-> "ACCEPTED",
                                                   side |-> q.side])
    /\ requests' = Tail(requests)
    /\ UNCHANGED <<orderVars, positionVars, exchange, traded>>

\* A CANCEL request: done, rejected or, with ORDER_ID_INVALID, the end.
ExchangeCancels ==
    /\ exchange = "running"
    /\ requests # <<>> /\ Head(requests).type = "CANCEL"
    /\ LET id == Head(requests).id
           mine == {o \in resting : o.id = id}
       IN  /\ resting' = resting \ mine
           /\ exchange' = IF id = NoId THEN "terminated" ELSE "running"
           /\ responses' =
                CASE id = NoId -> responses
                  [] id # NoId /\ mine = {} ->
                        Append(responses, [type |-> "CANCEL_REJECTED"])
                  [] OTHER ->
                        Append(responses, [type |-> "CANCELLED",
                                   side |-> (CHOOSE o \in mine : TRUE).side])
    /\ requests' = Tail(requests)
    /\ UNCHANGED <<orderVars, positionVars, traded>>

\* An order trades at its limit or, when it has just come in, at a better
\* price.
ExchangeFills(o, exec, price) ==
    /\ exchange = "running"
    /\ exec <= o.leaves
    /\ Value(o.side) * price <= Value(o.side) * o.price
    /\ resting' = (resting \ {o}) \cup
                  {r \in {[o EXCEPT !.leaves = @ - exec]} : r.leaves > 0}
    /\ traded' = traded + Value(o.side) * exec
    /\ responses' = Append(responses, [type |-> "FILLED", side |-> o.side,
                              price |-> price, exec |-> exec,
                              leaves |-> o.leaves - exec])
    /\ UNCHANGED <<orderVars, positionVars, requests, exchange>>

\* The client whose id is ticker has an order accepted for the ticker whose
\* id is ClientId: the response comes here, and names this ticker.
ForeignAccepted(side) ==
    /\ exchange = "running"
    /\ ClientId # ticker
    /\ Len(responses) < MaxStray
    /\ responses' = Append(responses, [type |-> "ACCEPTED", side |-> side])
    /\ UNCHANGED <<orderVars, positionVars, requests, exchangeVars>>

Exchange == ExchangeAdds \/ ExchangeCancels

Next ==
    \/ OnOrderUpdate
    \/ \E q \in Quotes : OnOrderBookUpdate(q)
    \/ \E q \in Quotes, side \in Sides, n \in Quantities : OnTradeUpdate(q, side, n)
    \/ Exchange
    \/ \E o \in resting, exec \in 1 .. Clip, price \in Prices :
          ExchangeFills(o, exec, price)
    \/ \E side \in Sides : ForeignAccepted(side)

Spec == Init /\ [][Next]_vars

\* Both threads poll their queues for ever.  Nothing makes an order trade, and
\* nothing makes the market move.
FairSpec == Spec /\ WF_vars(OnOrderUpdate) /\ WF_vars(Exchange)

-----------------------------------------------------------------------------
(* Properties. *)

NewOnTheWay(side) ==
    {i \in DOMAIN requests : requests[i].type = "NEW" /\ requests[i].side = side}
RestingOn(side) == {o \in resting : o.side = side}

\* What the orders of a side that the client has open can still buy or sell.
Open(side) ==
    MapThenSumSet(LAMBDA o : o.leaves, RestingOn(side))
    + MapThenSumSet(LAMBDA i : requests[i].quantity, NewOnTheWay(side))

TypeOK ==
    /\ slot \in [Sides -> [state : {"INVALID", "PENDING_NEW", "LIVE",
                                    "PENDING_CANCEL", "DEAD"},
                           id : 0 .. MaxOrders[algo], price : Nat,
                           quantity : 0 .. Clip]]
    /\ nextId \in 1 .. MaxOrders[algo] + 1
    /\ position \in Int /\ openVwap \in [Sides -> Nat]
    /\ realPnl \in Int /\ unrealPnl \in Int
    /\ exchange \in {"running", "terminated"}

\* RiskManager's promise: whatever becomes of the orders that are open, the
\* position does not leave the limit, although the check sees neither the
\* orders of the other side nor the executions that are on their way, and
\* although an acknowledgement may be another client's.
PositionLimited ==
    /\ traded + Open("BUY") <= MaxPosition
    /\ traded - Open("SELL") >= -MaxPosition

\* A side has one order at most, at the exchange or on its way there, and none
\* when OrderManager takes the slot to be free.
OneOrderASide ==
    \A s \in Sides :
        Cardinality(RestingOn(s)) + Cardinality(NewOnTheWay(s))
            <= IF slot[s].state \in {"INVALID", "DEAD"} THEN 0 ELSE 1

\* With no response on its way the client's books are the exchange's: its
\* position is what it traded and, where acknowledgements do not go astray, a
\* live order rests as the slot says.
BooksAgree ==
    responses = <<>> =>
        /\ position = traded
        /\ \A s \in Sides : ticker = ClientId /\ slot[s].state = "LIVE" =>
              RestingOn(s) = {[id |-> slot[s].id, side |-> s,
                               price |-> slot[s].price,
                               leaves |-> slot[s].quantity]}

\* Where acknowledgements do not go astray no slot waits for ever: every order
\* is acknowledged, and every cancel ends with the order cancelled or filled,
\* also when it crossed with a fill.
PendingEnds ==
    \A s \in Sides :
        ticker = ClientId /\ slot[s].state \in {"PENDING_NEW", "PENDING_CANCEL"}
            ~> slot[s].state \in {"LIVE", "DEAD"}

\* PositionKeeper's account is the money: as long as no fill has closed a part
\* of a position, the profit it has realised is what the fills have paid, less
\* what the open position cost, through every fill that opens, enlarges, closes
\* or turns the position.
ProfitIsCash ==
    LET cost == IF position > 0 THEN openVwap["BUY"]
                ELSE IF position < 0 THEN -openVwap["SELL"] ELSE 0
    IN  ~reduced => realPnl = Unit * (cash + cost)

=============================================================================
