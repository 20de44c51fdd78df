----------------------------- MODULE OrderBook -----------------------------
(***************************************************************************)
(* The limit order book of one ticker (exchange/matching/OrderBook.cc and  *)
(* OrderBook.hpp) as MatchingEngine::processClientRequest drives it.       *)
(*                                                                         *)
(* A request is handled on the engine's thread alone.  A NEW request is    *)
(* begun by Add, goes round the loop of checkForMatch once per Match, and  *)
(* is ended by EndAddFilled or by EndAddRests, which lets what is left     *)
(* rest in the book; a CANCEL request is one step.  The responses and      *)
(* market updates a step sends reach other threads, so they are recorded   *)
(* as the ledger of what each client has been told and as the mirror of    *)
(* the book that a subscriber, the SnapshotSynthesizer for one, keeps.     *)
(*                                                                         *)
(* The levels of a side are kept by PriceLevels' ring, sorted by price, so *)
(* that the level at the head of the ring is the best one.                 *)
(***************************************************************************)
EXTENDS Integers, Sequences, FiniteSets, Functions

CONSTANTS
    Clients,        \* client ids
    Ticker,         \* the id of this book's ticker
    Prices,         \* limit prices used
    Quantities,     \* quantities ordered
    MaxLevels,      \* MATCHING_ENGINE_MAX_PRICE_LEVELS
    MinPrice,       \* numeric_limits<Price>::min()
    MaxOrders       \* bound on the NEW requests of one behaviour

ASSUME BookAssumption ==
    /\ Clients \subseteq Nat /\ Ticker \in Nat
    /\ Prices \subseteq Int /\ Quantities \subseteq Nat
    /\ MaxLevels \in Nat \ {0} /\ MaxOrders \in Nat
    /\ MinPrice \in Int /\ \A p \in Prices : MinPrice < p

Sides == {"BUY", "SELL"}
Ids == 1 .. MaxOrders
Slots == 0 .. MaxLevels - 1

VARIABLES
    level,      \* price_orders_at_price: each level's side, price and orders
                \* from first_order to the last; no orders for a null pointer
    orderOf,    \* cid_oid_to_order: the market order id, 0 for a null pointer
    nextMarketOrderId,
    busy, cur,  \* is a NEW request at work, and which
    status,     \* "running", "stopped" by a shutdown, or the exit's cause
    sent,       \* NEW requests each client has sent
    ledger,     \* per client and order: quantity ordered, executions reported,
                \* leaves last reported
    connected,  \* clients that have sent a request
    addressed,  \* client ids that responses were addressed to
    mirror      \* the book as rebuilt from the market updates

bookVars == <<level, orderOf, nextMarketOrderId>>
outVars == <<sent, ledger, connected, addressed, mirror>>
vars == <<bookVars, busy, cur, status, outVars>>

NoSide == "INVALID"
NoLevel == [side |-> NoSide, price |-> 0, orders |-> <<>>]
NoRequest == [client |-> 0, oid |-> 0, moid |-> 0, side |-> NoSide,
              price |-> 0, leaves |-> 0]
NoEntry == [ordered |-> 0, executed |-> 0, leaves |-> 0]
NotListed == [side |-> NoSide, price |-> 0, quantity |-> 0]

-----------------------------------------------------------------------------
(* Helpers. *)

\* price_orders_at_price is indexed by the price modulo its length.
PriceToIndex(price) == price % MaxLevels

Opposite(side) == IF side = "BUY" THEN "SELL" ELSE "BUY"

\* Price p stands ahead of price q on side s.
Better(s, p, q) == IF s = "BUY" THEN p > q ELSE p < q

\* An order to s at limit `price' can trade against a resting order.
Crosses(s, price, resting) ==
    IF s = "BUY" THEN price >= resting ELSE price <= resting

IsLevel(lv) == lv.orders # <<>>

LevelsOf(s) == {i \in Slots : IsLevel(level[i]) /\ level[i].side = s}

\* Fault: the head of the ring is its last level.
IsBest_Worst(s, i) ==
    /\ i \in LevelsOf(s)
    /\ \A j \in LevelsOf(s) : ~Better(s, level[i].price, level[j].price)

\* bids_by_price or asks_by_price: slot i holds the head of side s's ring.
IsBest(s, i) ==
    /\ i \in LevelsOf(s)
    /\ \A j \in LevelsOf(s) : ~Better(s, level[j].price, level[i].price)

\* Fault: the fill is not limited by the resting order.
FillQuantity_Unlimited(resting, leaves) == leaves

\* std::min(order_quantity, *leaves_quantity)
FillQuantity(resting, leaves) == IF resting < leaves THEN resting ELSE leaves

\* A sequence without its k-th element.
Without(q, k) == [i \in 1 .. Len(q) - 1 |-> IF i < k THEN q[i] ELSE q[i + 1]]

\* removeOrder and removeOrderAtPrice: the k-th order leaves the level in slot
\* i, and with the last order goes the level.
RemoveOrder(lv, i, k) ==
    IF Len(lv[i].orders) = 1 THEN [lv EXCEPT ![i] = NoLevel]
    ELSE [lv EXCEPT ![i].orders = Without(@, k)]

\* Fault: a new order goes to the head of its level.
AddOrder_AtHead(lv, o) ==
    LET i == PriceToIndex(o.price) IN
    IF IsLevel(lv[i]) THEN [lv EXCEPT ![i].orders = <<o>> \o @]
    ELSE [lv EXCEPT ![i] = [side |-> o.side, price |-> o.price, orders |-> <<o>>]]

\* addOrder: behind the last order of whatever level is in the price's slot,
\* or in a level of its own.
AddOrder(lv, o) ==
    LET i == PriceToIndex(o.price) IN
    IF IsLevel(lv[i]) THEN [lv EXCEPT ![i].orders = Append(@, o)]
    ELSE [lv EXCEPT ![i] = [side |-> o.side, price |-> o.price, orders |-> <<o>>]]

GetNextPriority(price) ==
    LET lv == level[PriceToIndex(price)]
    IN  IF IsLevel(lv) THEN lv.orders[Len(lv.orders)].priority + 1 ELSE 1

\* What a subscriber keeps of an order.
Public(o) == [side |-> o.side, price |-> o.price, quantity |-> o.quantity]

\* A FILLED response in the books of the client it is addressed to.
Fill(l, client, oid, executed, leaves) ==
    [l EXCEPT ![client][oid].executed = @ + executed,
              ![client][oid].leaves = leaves]

-----------------------------------------------------------------------------
Orders == [client : Clients, oid : Ids, moid : Ids, side : Sides,
           price : Prices, quantity : Nat \ {0}, priority : Nat \ {0}]

TypeOK ==
    /\ level \in [Slots -> [side : Sides \cup {NoSide}, price : Int,
                            orders : Seq(Orders)]]
    /\ orderOf \in [Clients -> [Ids -> Ids \cup {0}]]
    /\ nextMarketOrderId \in 1 .. MaxOrders + 1
    /\ busy \in BOOLEAN
    /\ cur \in [client : Nat, oid : Nat, moid : Nat,
                side : Sides \cup {NoSide}, price : Int, leaves : Nat]
    /\ status \in {"running", "stopped", "validity check", "out of levels"}
    /\ sent \in [Clients -> 0 .. MaxOrders]
    /\ ledger \in [Clients -> [Ids -> [ordered : Nat, executed : Nat,
                                       leaves : Nat]]]
    /\ connected \subseteq Clients
    /\ addressed \subseteq Nat
    /\ mirror \in [Ids -> [side : Sides \cup {NoSide}, price : Int,
                           quantity : Nat]]

Init ==
    /\ level = [i \in Slots |-> NoLevel]
    /\ orderOf = [c \in Clients |-> [o \in Ids |-> 0]]
    /\ nextMarketOrderId = 1
    /\ busy = FALSE /\ cur = NoRequest /\ status = "running"
    /\ sent = [c \in Clients |-> 0]
    /\ ledger = [c \in Clients |-> [o \in Ids |-> NoEntry]]
    /\ connected = {} /\ addressed = {}
    /\ mirror = [m \in Ids |-> NotListed]

-----------------------------------------------------------------------------
(* add. *)

\* A NEW request is given its market order id and acknowledged.  The fields
\* of the ACCEPTED response are filled in with the ticker's id in the place
\* of the client's.  OrderManager numbers a client's orders consecutively.
Add(client, side, price, quantity) ==
    LET oid == sent[client] + 1 IN
    /\ status = "running" /\ ~busy
    /\ nextMarketOrderId <= MaxOrders
    /\ nextMarketOrderId' = nextMarketOrderId + 1
    /\ busy' = TRUE
    /\ cur' = [client |-> client, oid |-> oid, moid |-> nextMarketOrderId,
               side |-> side, price |-> price, leaves |-> quantity]
    /\ sent' = [sent EXCEPT ![client] = oid]
    /\ ledger' = [ledger EXCEPT ![client][oid] =
                    [ordered |-> quantity, executed |-> 0, leaves |-> quantity]]
    /\ connected' = connected \cup {client}
    /\ addressed' = addressed \cup {Ticker}
    /\ UNCHANGED <<level, orderOf, status, mirror>>

\* Fault: the limit price of the request is not looked at.
CanMatch_AnyPrice(i) ==
    cur.leaves > 0 /\ IsBest(Opposite(cur.side), i)

\* Fault: the loop does not notice that nothing is left.
CanMatch_Exhausted(i) ==
    /\ IsBest(Opposite(cur.side), i)
    /\ Crosses(cur.side, cur.price, level[i].orders[1].price)

\* The loop condition of checkForMatch holds, and slot i has the best level.
CanMatch(i) ==
    /\ cur.leaves > 0
    /\ IsBest(Opposite(cur.side), i)
    /\ Crosses(cur.side, cur.price, level[i].orders[1].price)

LoopIsOver == \A i \in Slots : ~CanMatch(i)

\* Fault: the resting order's owner is told the leaves of the incoming order.
ReportFill_SameLeaves(order, fill) ==
    Fill(Fill(ledger, cur.client, cur.oid, fill, cur.leaves - fill),
         order.client, order.oid, fill, cur.leaves - fill)

\* The two FILLED responses of match, to the incoming order's owner first.
ReportFill(order, fill) ==
    Fill(Fill(ledger, cur.client, cur.oid, fill, cur.leaves - fill),
         order.client, order.oid, fill, order.quantity - fill)

\* Fault: a partial fill is published with the quantity before the fill.
PublishFill_StaleQuantity(order, fill) ==
    [mirror EXCEPT ![order.moid] =
        IF fill = order.quantity THEN NotListed ELSE Public(order)]

\* The market update of match: CANCEL when the resting order is done, MODIFY
\* to the new quantity otherwise.
PublishFill(order, fill) ==
    IF fill = order.quantity THEN [mirror EXCEPT ![order.moid] = NotListed]
    ELSE [mirror EXCEPT ![order.moid].quantity = order.quantity - fill]

\* match: the first order of the best level is filled as far as it goes, both
\* owners are told, and the change to the book is published.
Match(i) ==
    LET order == level[i].orders[1]
        fill == FillQuantity(order.quantity, cur.leaves)
    IN  /\ status = "running" /\ busy /\ CanMatch(i)
        /\ cur' = [cur EXCEPT !.leaves = @ - fill]
        /\ IF fill = order.quantity
           THEN /\ level' = RemoveOrder(level, i, 1)
                /\ orderOf' = [orderOf EXCEPT ![order.client][order.oid] = 0]
           ELSE /\ level' = [level EXCEPT ![i].orders[1].quantity = @ - fill]
                /\ UNCHANGED orderOf
        /\ mirror' = PublishFill(order, fill)
        /\ ledger' = ReportFill(order, fill)
        /\ addressed' = addressed \cup {cur.client, order.client}
        /\ UNCHANGED <<nextMarketOrderId, busy, status, sent, connected>>

\* The loop is over and the order is filled.
EndAddFilled ==
    /\ status = "running" /\ busy /\ LoopIsOver /\ cur.leaves = 0
    /\ busy' = FALSE /\ cur' = NoRequest
    /\ UNCHANGED <<bookVars, status, outVars>>

\* The level pool has MaxLevels blocks and, as MemPool shows, ends the process
\* when the last one is taken.
OutOfLevels(price) ==
    /\ ~IsLevel(level[PriceToIndex(price)])
    /\ Cardinality({i \in Slots : IsLevel(level[i])}) = MaxLevels - 1

\* The loop is over and the rest of the order rests in the book.
EndAddRests ==
    LET order == [client |-> cur.client, oid |-> cur.oid, moid |-> cur.moid,
                  side |-> cur.side, price |-> cur.price,
                  quantity |-> cur.leaves,
                  priority |-> GetNextPriority(cur.price)]
    IN  /\ status = "running" /\ busy /\ LoopIsOver /\ cur.leaves > 0
        /\ IF OutOfLevels(order.price)
           THEN /\ status' = "out of levels"
                /\ UNCHANGED <<bookVars, busy, cur, outVars>>
           ELSE /\ level' = AddOrder(level, order)
                /\ orderOf' = [orderOf EXCEPT ![order.client][order.oid] =
                                  order.moid]
                /\ mirror' = [mirror EXCEPT ![order.moid] = Public(order)]
                /\ busy' = FALSE /\ cur' = NoRequest
                /\ UNCHANGED <<nextMarketOrderId, status, sent, ledger,
                               connected, addressed>>

-----------------------------------------------------------------------------
(* cancel. *)

\* The order client knows as oid rests as the k-th order in slot i.
RestsAt(client, oid, i, k) ==
    /\ orderOf[client][oid] # 0
    /\ k \in 1 .. Len(level[i].orders)
    /\ level[i].orders[k].moid = orderOf[client][oid]

\* Fault: the client's index keeps pointing at the order.
Cancel_KeepsIndex(client, oid, i, k) ==
    LET order == level[i].orders[k] IN
    /\ level' = RemoveOrder(level, i, k)
    /\ mirror' = [mirror EXCEPT ![order.moid] = NotListed]
    /\ ledger' = [ledger EXCEPT ![client][oid].leaves = order.quantity]
    /\ UNCHANGED orderOf

\* The order is unlinked, the CANCEL is published, CANCELLED is sent.
DoCancel(client, oid, i, k) ==
    LET order == level[i].orders[k] IN
    /\ level' = RemoveOrder(level, i, k)
    /\ orderOf' = [orderOf EXCEPT ![order.client][order.oid] = 0]
    /\ mirror' = [mirror EXCEPT ![order.moid] = NotListed]
    /\ ledger' = [ledger EXCEPT ![client][oid].leaves = order.quantity]

Cancel(client, oid) ==
    /\ status = "running" /\ ~busy
    /\ \E i \in Slots, k \in Ids :
          RestsAt(client, oid, i, k) /\ DoCancel(client, oid, i, k)
    /\ connected' = connected \cup {client}
    /\ addressed' = addressed \cup {client}
    /\ UNCHANGED <<nextMarketOrderId, busy, cur, status, sent>>

\* The order is not in the book any more, or was never known: CANCEL_REJECTED.
CancelRejected(client, oid) ==
    /\ status = "running" /\ ~busy
    /\ orderOf[client][oid] = 0
    /\ connected' = connected \cup {client}
    /\ addressed' = addressed \cup {client}
    /\ UNCHANGED <<bookVars, busy, cur, status, sent, ledger, mirror>>

-----------------------------------------------------------------------------
(* Shutdown. *)

\* toString with validity_check walks a side from its best level; last_price
\* starts at MinPrice on both sides.  The sides are sorted, so the walk fails
\* exactly if the first comparison or one between neighbours does.
ValidityCheckFails(side) ==
    LET prices == {level[i].price : i \in LevelsOf(side)}
        Bad(last, p) == IF side = "SELL" THEN last >= p ELSE last <= p
    IN  \/ \E i \in Slots : IsBest(side, i) /\ Bad(MinPrice, level[i].price)
        \/ \E p, q \in prices : Better(side, p, q) /\ Bad(p, q)

\* ~MatchingEngineOrderBook prints the book with the validity check.
Destroy ==
    /\ status = "running" /\ ~busy
    /\ status' = IF \E s \in Sides : ValidityCheckFails(s)
                 THEN "validity check" ELSE "stopped"
    /\ UNCHANGED <<bookVars, busy, cur, outVars>>

-----------------------------------------------------------------------------
Next ==
    \/ \E c \in Clients, s \in Sides, p \in Prices, q \in Quantities :
          Add(c, s, p, q)
    \/ \E i \in Slots : Match(i)
    \/ EndAddFilled
    \/ EndAddRests
    \/ \E c \in Clients, o \in Ids : Cancel(c, o) \/ CancelRejected(c, o)
    \/ Destroy

Spec == Init /\ [][Next]_vars

\* The engine's thread does not stop within a request.
FairSpec ==
    Spec /\ WF_vars((\E i \in Slots : Match(i)) \/ EndAddFilled \/ EndAddRests)

-----------------------------------------------------------------------------
(* Properties. *)

\* All resting orders.
Resting == UNION {Range(level[i].orders) : i \in Slots}

\* The book never stays crossed: every bid is below every ask, also while a
\* request is being matched.
Uncrossed ==
    \A b, a \in Resting : b.side = "BUY" /\ a.side = "SELL" => b.price < a.price

\* A level holds the orders of one side at one price, in order of arrival with
\* rising priorities, and sits in its price's slot.
LevelsAreSound ==
    \A i \in Slots : IsLevel(level[i]) =>
        /\ PriceToIndex(level[i].price) = i
        /\ \A k \in 1 .. Len(level[i].orders) :
              LET o == level[i].orders[k] IN
              /\ o.side = level[i].side /\ o.price = level[i].price
              /\ k > 1 => /\ level[i].orders[k - 1].priority < o.priority
                          /\ level[i].orders[k - 1].moid < o.moid

\* cid_oid_to_order holds exactly the resting orders, each under its owner's
\* name: a cancel never reaches a freed or a foreign order.
IndexIsExact ==
    \A c \in Clients, id \in Ids, m \in Ids :
        orderOf[c][id] = m <=>
            \E o \in Resting : o.client = c /\ o.oid = id /\ o.moid = m

\* Price-time priority: an order is filled only when no order of its side has a
\* better price, or the same price and an earlier arrival; and only against an
\* order of the other side whose limit admits the price.
TradeStep ==
    busy =>
        \A o \in Resting :
            (\A n \in Resting' : n.moid = o.moid => n.quantity < o.quantity) =>
                /\ o.side # cur.side
                /\ Crosses(cur.side, cur.price, o.price)
                /\ \A n \in Resting :
                      n.side = o.side /\ n # o =>
                          \/ Better(o.side, o.price, n.price)
                          \/ n.price = o.price /\ o.moid < n.moid
PriceTimePriority == [][TradeStep]_vars

\* What the clients were told adds up: executions and last leaves make the
\* quantity ordered, and the leaves of a resting order are what rests.
LedgerAddsUp ==
    /\ \A c \in Clients, id \in Ids :
          ledger[c][id].executed + ledger[c][id].leaves
              = ledger[c][id].ordered
    /\ \A o \in Resting : ledger[o.client][o.oid].leaves = o.quantity

\* The market updates, replayed, give the book: nobody who follows them sees
\* an order that is gone or a quantity that is not there.
MirrorIsBook ==
    \A m \in Ids :
        IF \E o \in Resting : o.moid = m
        THEN mirror[m] = Public(CHOOSE o \in Resting : o.moid = m)
        ELSE mirror[m] = NotListed

\* The loop of checkForMatch ends: every NEW request is done with.
RequestsEnd == busy ~> ~busy \/ status # "running"

\* ASSERT in OrderServer::run, "Do not have a TCPSocket for ClientID": every
\* response is addressed to a client that has connected.
RespondsToConnected == addressed \subseteq connected

=============================================================================
