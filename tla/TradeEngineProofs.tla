------------------------- MODULE TradeEngineProofs -------------------------
(***************************************************************************)
(* The trading client for every quote, size, limit and number of orders:   *)
(* one order a side, a position within the limit whatever becomes of the   *)
(* open orders, books that agree with the exchange's once no response is   *)
(* on its way, and a profit that is the money paid - if the memory that    *)
(* PositionInfo does not initialise happens to hold zeros.                 *)
(***************************************************************************)
EXTENDS TradeEngine, FiniteSetTheorems, TLAPS

\* position and open_vwap start as zero.
CleanStart == Uninitialised = {0}

-----------------------------------------------------------------------------
(* The inductive invariant.  It speaks of w, the slots, next_order_id and the *)
(* requests on their way, as MoveOrder does.                                  *)

Work == [slot |-> slot, nextId |-> nextId, requests |-> requests]

States == {"INVALID", "PENDING_NEW", "LIVE", "PENDING_CANCEL", "DEAD"}
Free(order) == order.state \in {"INVALID", "DEAD"}

SlotType == [state : States, id : Nat, price : Nat, quantity : 0 .. Clip]
RequestType ==
    [type : {"NEW"}, id : Nat, side : Sides, price : Nat, quantity : {Clip}]
    \cup [type : {"CANCEL"}, id : Nat]
ResponseType ==
    [type : {"ACCEPTED", "CANCELLED"}, side : Sides]
    \cup [type : {"CANCEL_REJECTED"}]
    \cup [type : {"FILLED"}, side : Sides, price : Nat, exec : 1 .. Clip,
          leaves : 0 .. Clip]
OrderType == [id : Nat, side : Sides, price : Nat, leaves : 1 .. Clip]
WorkType == [slot : [Sides -> SlotType], nextId : Nat, requests : Seq(RequestType)]

\* The messages that concern side s: its order, its acknowledgement, one of its
\* executions, and the message its order ends with.
IsNew(q, s) == q.type = "NEW" /\ q.side = s
IsAck(r, s) == r.type = "ACCEPTED" /\ r.side = s
IsFill(r, s) == r.type = "FILLED" /\ r.side = s
IsEnd(r, s) == \/ r.type = "CANCELLED" /\ r.side = s
               \/ r.type = "FILLED" /\ r.side = s /\ r.leaves = 0

Quiet(s) == \A j \in 1 .. Len(responses) :
                ~IsFill(responses[j], s) /\ ~IsEnd(responses[j], s)

\* Side s has one order at most, and nothing of an earlier order of the side is
\* on its way when a new one is.
OneOrder(w, s) ==
    /\ \A i, j \in 1 .. Len(w.requests) :
          IsNew(w.requests[i], s) /\ IsNew(w.requests[j], s) => i = j
    /\ \A o, p \in resting : o.side = s /\ p.side = s => o = p
    /\ \A i, j \in 1 .. Len(responses) :
          /\ IsEnd(responses[i], s)
          /\ IsEnd(responses[j], s) \/ IsFill(responses[j], s)
          => j <= i
    /\ Free(w.slot[s]) => Quiet(s)

\* An order on its way to the exchange is the one in the slot.
NewInv(w, s) ==
    \A i \in 1 .. Len(w.requests) : IsNew(w.requests[i], s) =>
        /\ w.requests[i].id = w.slot[s].id
        /\ w.requests[i].price = w.slot[s].price
        /\ w.slot[s].quantity = Clip /\ ~Free(w.slot[s])
        /\ \A o \in resting : o.side # s
        /\ Quiet(s)

\* So is a resting order, and the executions that are on their way, applied to
\* the slot, give what is left of it.
RestInv(w, s) ==
    \A o \in resting : o.side = s =>
        /\ o.id = w.slot[s].id /\ o.price = w.slot[s].price /\ ~Free(w.slot[s])
        /\ \A j \in 1 .. Len(responses) : ~IsEnd(responses[j], s)
        /\ (\A j \in 1 .. Len(responses) : ~IsFill(responses[j], s)) =>
              w.slot[s].quantity = o.leaves
        /\ \A j \in 1 .. Len(responses) :
              /\ IsFill(responses[j], s)
              /\ \A k \in 1 .. Len(responses) : k > j => ~IsFill(responses[k], s)
              => responses[j].leaves = o.leaves

\* The order of side s has come to the exchange and its end is not known yet.
Alive(s) == \/ \E o \in resting : o.side = s
            \/ \E j \in 1 .. Len(responses) : IsEnd(responses[j], s)

\* Where acknowledgements do not go astray a live order is one that rests or
\* whose end is on its way, and an acknowledgement comes before everything
\* else that concerns its order.
AckInv(w, s) == ticker = ClientId =>
    /\ \A i \in 1 .. Len(w.requests) : IsNew(w.requests[i], s) =>
          /\ w.slot[s].state = "PENDING_NEW"
          /\ \A j \in 1 .. Len(responses) : ~IsAck(responses[j], s)
    /\ w.slot[s].state = "LIVE" =>
          /\ Alive(s)
          /\ \A j \in 1 .. Len(responses) : ~IsAck(responses[j], s)
    /\ \A i \in 1 .. Len(responses) : IsAck(responses[i], s) =>
          /\ w.slot[s].state = "PENDING_NEW" /\ Alive(s)
          /\ \A j \in 1 .. Len(responses) :
                \/ IsAck(responses[j], s) \/ IsEnd(responses[j], s)
                \/ IsFill(responses[j], s)
                => i <= j

\* Order ids are given once.
IdsInv(w) ==
    /\ w.nextId >= 1
    /\ \A s \in Sides : w.slot[s].id < w.nextId
    /\ w.slot["BUY"].id = w.slot["SELL"].id => w.slot["BUY"].id = 0
    /\ \A o \in resting : o.id >= 1
    /\ \A i \in 1 .. Len(w.requests) : w.requests[i].type = "NEW" => w.requests[i].id >= 1

\* Whatever is open may trade.
LimitInv(w) ==
    /\ traded <= MaxPosition /\ traded >= -MaxPosition
    /\ \A o \in resting :
          /\ o.side = "BUY" => traded + o.leaves <= MaxPosition
          /\ o.side = "SELL" => traded - o.leaves >= -MaxPosition
    /\ \A i \in 1 .. Len(w.requests) :
          /\ IsNew(w.requests[i], "BUY") => traded + Clip <= MaxPosition
          /\ IsNew(w.requests[i], "SELL") => traded - Clip >= -MaxPosition

WorkInv(w) ==
    /\ w \in WorkType
    /\ \A s \in Sides : OneOrder(w, s) /\ NewInv(w, s) /\ RestInv(w, s) /\ AckInv(w, s)
    /\ IdsInv(w)
    /\ LimitInv(w)

-----------------------------------------------------------------------------
(* Lemmas about queues. *)

LEMMA TailFacts ==
    ASSUME NEW S, NEW q \in Seq(S), q # <<>>
    PROVE  /\ Len(q) \in Nat /\ Len(q) >= 1 /\ q[1] \in S /\ Head(q) = q[1]
           /\ Tail(q) \in Seq(S) /\ Len(Tail(q)) = Len(q) - 1
           /\ \A i \in 1 .. Len(q) - 1 : Tail(q)[i] = q[i + 1]
           /\ \A i \in 1 .. Len(q) - 1 : i + 1 \in 1 .. Len(q)
OBVIOUS

LEMMA AppendFacts ==
    ASSUME NEW S, NEW q \in Seq(S), NEW x \in S
    PROVE  /\ Len(q) \in Nat /\ Append(q, x) \in Seq(S)
           /\ Len(Append(q, x)) = Len(q) + 1
           /\ Append(q, x)[Len(q) + 1] = x
           /\ \A i \in 1 .. Len(q) : Append(q, x)[i] = q[i]
           /\ \A i \in 1 .. Len(q) + 1 : i = Len(q) + 1 \/ i \in 1 .. Len(q)
           /\ \A i \in 1 .. Len(q) : i \in 1 .. Len(q) + 1
OBVIOUS

\* The constants that are numbers.
LEMMA Numbers ==
    /\ ClientId \in Nat /\ Clip \in Nat /\ Clip >= 1
    /\ MaxPosition \in Nat /\ MaxOrderSize \in Nat /\ MaxLoss \in Int
    /\ Unit \in Nat /\ Prices \subseteq Nat
BY EngineAssumption

-----------------------------------------------------------------------------
(* moveOrder(). *)

\* Executions that are on their way, the side's own apart, can only make the
\* room for an order larger than the check takes it to be.
LagInv ==
    /\ position \in Int /\ traded \in Int
    /\ (\A j \in 1 .. Len(responses) : ~IsFill(responses[j], "BUY")) =>
          traded <= position
    /\ (\A j \in 1 .. Len(responses) : ~IsFill(responses[j], "SELL")) =>
          position <= traded

\* cancelOrder() on a live order.
LEMMA CancelOrderKeeps ==
    ASSUME NEW w, WorkInv(w), NEW side \in Sides, w.slot[side].state = "LIVE"
    PROVE  LET r == CancelOrder(w, side)
           IN  WorkInv(r) /\ r.nextId = w.nextId
<1> DEFINE r == CancelOrder(w, side)
           new == [type |-> "CANCEL", id |-> w.slot[side].id]
           n == Len(w.requests)
           slot1 == [w.slot[side] EXCEPT !.state = "PENDING_CANCEL"]
<1>1. /\ w \in WorkType /\ w.slot \in [Sides -> SlotType] /\ w.nextId \in Nat
      /\ w.requests \in Seq(RequestType) /\ w.slot[side] \in SlotType
      /\ w.slot[side].id \in Nat
  BY DEF WorkInv, WorkType, SlotType
<1>2. /\ slot1 \in SlotType /\ slot1.state = "PENDING_CANCEL"
      /\ slot1.id = w.slot[side].id /\ slot1.price = w.slot[side].price
      /\ slot1.quantity = w.slot[side].quantity
  BY <1>1 DEF SlotType, States
<1>3. new \in RequestType /\ new.type = "CANCEL"
  BY <1>1 DEF RequestType
<1>4. r = [slot |-> [w.slot EXCEPT ![side] = slot1], nextId |-> w.nextId,
           requests |-> Append(w.requests, new)]
  <2> DEFINE sl == [w.slot EXCEPT ![side] = slot1]
             rq == Append(w.requests, new)
             mid == [slot |-> sl, nextId |-> w.nextId, requests |-> w.requests]
  <2>1. [w EXCEPT !.slot[side].state = "PENDING_CANCEL"] = mid
    BY <1>1 DEF WorkType
  <2>2. r = [mid EXCEPT !.requests = rq]
    BY <2>1 DEF CancelOrder
  <2> HIDE DEF sl, rq, r
  <2>3. [mid EXCEPT !.requests = rq] = [slot |-> sl, nextId |-> w.nextId, requests |-> rq]
    OBVIOUS
  <2>4. QED
    BY <2>2, <2>3 DEF sl, rq
<1> HIDE DEF slot1, new, r
<1>5. /\ r.nextId = w.nextId /\ r.requests \in Seq(RequestType)
      /\ Len(r.requests) = n + 1 /\ n \in Nat
      /\ r.requests[n + 1] = new
      /\ \A i \in 1 .. n : r.requests[i] = w.requests[i] /\ i \in 1 .. Len(w.requests)
      /\ \A i \in 1 .. Len(r.requests) : i = n + 1 \/ i \in 1 .. n
  BY <1>1, <1>3, <1>4, AppendFacts
<1>6. /\ r.slot \in [Sides -> SlotType] /\ r.slot[side] = slot1
      /\ \A s \in Sides : s # side => r.slot[s] = w.slot[s]
      /\ \A s \in Sides : /\ r.slot[s].id = w.slot[s].id
                          /\ r.slot[s].price = w.slot[s].price
                          /\ r.slot[s].quantity = w.slot[s].quantity
  BY <1>1, <1>2, <1>4
<1>7. r \in WorkType
  BY <1>1, <1>4, <1>5, <1>6 DEF WorkType
<1>8. /\ ~Free(r.slot[side])
      /\ \A s \in Sides : Free(r.slot[s]) => Free(w.slot[s])
      /\ \A s \in Sides : r.slot[s].state = "LIVE" => w.slot[s].state = "LIVE"
      /\ \A s \in Sides : w.slot[s].state = "PENDING_NEW" => r.slot[s].state = "PENDING_NEW"
      /\ \A s \in Sides : ~Free(w.slot[s]) => ~Free(r.slot[s])
  BY <1>2, <1>6 DEF Free
<1>9. \A s \in Sides, i \in 1 .. Len(r.requests) :
          IsNew(r.requests[i], s) => /\ i \in 1 .. Len(w.requests)
                                     /\ r.requests[i] = w.requests[i]
                                     /\ IsNew(w.requests[i], s)
  BY <1>3, <1>5 DEF IsNew
<1>10. ASSUME NEW s \in Sides
       PROVE  OneOrder(r, s) /\ NewInv(r, s) /\ RestInv(r, s) /\ AckInv(r, s)
  <2>1. OneOrder(r, s)
    BY <1>8, <1>9 DEF WorkInv, OneOrder
  <2>2. NewInv(r, s)
    BY <1>6, <1>8, <1>9 DEF WorkInv, NewInv
  <2>3. RestInv(r, s)
    BY <1>6, <1>8 DEF WorkInv, RestInv
  <2>4. AckInv(r, s)
    BY <1>8, <1>9 DEF WorkInv, AckInv
  <2>5. QED
    BY <2>1, <2>2, <2>3, <2>4
<1>11. IdsInv(r)
  <2>1. \A i \in 1 .. Len(r.requests) : r.requests[i].type = "NEW" =>
            i \in 1 .. Len(w.requests) /\ r.requests[i] = w.requests[i]
    BY <1>3, <1>5
  <2>2. QED
    BY <1>5, <1>6, <2>1 DEF WorkInv, IdsInv, Sides
<1>12. LimitInv(r)
  BY <1>9 DEF WorkInv, LimitInv, Sides
<1>13. WorkInv(r)
  BY <1>7, <1>10, <1>11, <1>12 DEF WorkInv
<1>14. QED
  BY <1>5, <1>13 DEF r

\* newOrder() into a free slot, after the check.
LEMMA NewOrderKeeps ==
    ASSUME NEW w, WorkInv(w), LagInv, NEW side \in Sides, NEW price \in Nat,
           Free(w.slot[side]),
           Abs(position + Value(side) * Clip) <= MaxPosition
    PROVE  LET r == NewOrder(w, side, price)
           IN  WorkInv(r) /\ r.nextId = w.nextId + 1
<1> DEFINE r == NewOrder(w, side, price)
           new == [type |-> "NEW", id |-> w.nextId, side |-> side,
                   price |-> price, quantity |-> Clip]
           n == Len(w.requests)
           slot1 == [state |-> "PENDING_NEW", id |-> w.nextId, price |-> price,
                     quantity |-> Clip]
<1>1. /\ w \in WorkType /\ w.slot \in [Sides -> SlotType] /\ w.nextId \in Nat
      /\ w.requests \in Seq(RequestType) /\ w.nextId >= 1
      /\ \A s \in Sides : w.slot[s].id \in Nat
  BY DEF WorkInv, WorkType, SlotType, IdsInv
<1>2. /\ slot1 \in SlotType /\ slot1.state = "PENDING_NEW"
      /\ slot1.id = w.nextId /\ slot1.price = price /\ slot1.quantity = Clip
  BY <1>1, Numbers DEF SlotType, States
<1>3. /\ new \in RequestType /\ new.type = "NEW" /\ new.side = side
      /\ new.id = w.nextId /\ new.price = price
  BY <1>1 DEF RequestType
<1>4. r = [slot |-> [w.slot EXCEPT ![side] = slot1], nextId |-> w.nextId + 1,
           requests |-> Append(w.requests, new)]
  BY DEF NewOrder
<1> HIDE DEF slot1, new, r
<1>5. /\ r.nextId = w.nextId + 1 /\ r.requests \in Seq(RequestType)
      /\ Len(r.requests) = n + 1 /\ n \in Nat
      /\ r.requests[n + 1] = new
      /\ \A i \in 1 .. n : r.requests[i] = w.requests[i] /\ i \in 1 .. Len(w.requests)
      /\ \A i \in 1 .. Len(r.requests) : i = n + 1 \/ i \in 1 .. n
  BY <1>1, <1>3, <1>4, AppendFacts
<1>6. /\ r.slot \in [Sides -> SlotType] /\ r.slot[side] = slot1
      /\ \A s \in Sides : s # side => r.slot[s] = w.slot[s]
  BY <1>1, <1>2, <1>4
<1>7. r \in WorkType
  BY <1>1, <1>4, <1>5, <1>6 DEF WorkType
<1>8. ~Free(r.slot[side]) /\ r.slot[side].state = "PENDING_NEW"
  BY <1>2, <1>6 DEF Free
<1>9. \A s \in Sides, i \in 1 .. Len(r.requests) :
          IsNew(r.requests[i], s) =>
              \/ i = n + 1 /\ s = side
              \/ /\ i \in 1 .. Len(w.requests)
                 /\ r.requests[i] = w.requests[i]
                 /\ IsNew(w.requests[i], s)
  BY <1>3, <1>5 DEF IsNew
<1>10. \A i \in 1 .. Len(w.requests) : ~IsNew(w.requests[i], side)
  BY DEF WorkInv, NewInv
<1>11. /\ \A o \in resting : o.side # side
       /\ Quiet(side)
  BY DEF WorkInv, RestInv, OneOrder
<1>12. ticker = ClientId => \A j \in 1 .. Len(responses) : ~IsAck(responses[j], side)
  BY DEF WorkInv, AckInv, Free
<1>13. OneOrder(r, side) /\ NewInv(r, side) /\ RestInv(r, side) /\ AckInv(r, side)
  <2>1. \A i \in 1 .. Len(r.requests) : IsNew(r.requests[i], side) =>
            i = n + 1 /\ r.requests[i] = new
    BY <1>5, <1>9, <1>10
  <2>2. OneOrder(r, side)
    BY <1>8, <2>1 DEF WorkInv, OneOrder
  <2>3. NewInv(r, side)
    BY <1>2, <1>3, <1>6, <1>8, <1>11, <2>1 DEF NewInv
  <2>4. RestInv(r, side)
    BY <1>11 DEF RestInv
  <2>5. AckInv(r, side)
    BY <1>8, <1>12 DEF AckInv
  <2>6. QED
    BY <2>2, <2>3, <2>4, <2>5
<1>14. ASSUME NEW s \in Sides, s # side
       PROVE  OneOrder(r, s) /\ NewInv(r, s) /\ RestInv(r, s) /\ AckInv(r, s)
  <2>1. r.slot[s] = w.slot[s]
    BY <1>6, <1>14
  <2>2. \A i \in 1 .. Len(r.requests) : IsNew(r.requests[i], s) =>
            /\ i \in 1 .. Len(w.requests)
            /\ r.requests[i] = w.requests[i]
            /\ IsNew(w.requests[i], s)
    BY <1>9, <1>14
  <2>3. OneOrder(r, s)
    BY <2>1, <2>2 DEF WorkInv, OneOrder
  <2>4. NewInv(r, s)
    BY <2>1, <2>2 DEF WorkInv, NewInv
  <2>5. RestInv(r, s)
    BY <2>1 DEF WorkInv, RestInv
  <2>6. AckInv(r, s)
    BY <2>1, <2>2 DEF WorkInv, AckInv
  <2>7. QED
    BY <2>3, <2>4, <2>5, <2>6
<1>15. IdsInv(r)
  <2>1. \A i \in 1 .. Len(r.requests) : r.requests[i].type = "NEW" =>
            \/ r.requests[i].id = w.nextId
            \/ i \in 1 .. Len(w.requests) /\ r.requests[i] = w.requests[i]
    BY <1>3, <1>5
  <2>2. \A i \in 1 .. Len(r.requests) : r.requests[i].type = "NEW" => r.requests[i].id >= 1
    BY <1>1, <2>1 DEF WorkInv, IdsInv
  <2>3. \A s \in Sides : r.slot[s].id = w.nextId \/ r.slot[s] = w.slot[s]
    BY <1>2, <1>6
  <2>4. \A s \in Sides : w.slot[s].id < w.nextId
    BY DEF WorkInv, IdsInv
  <2>5. \A s \in Sides : r.slot[s].id < r.nextId
    BY <1>1, <1>5, <2>3, <2>4
  <2>6. r.slot["BUY"].id = r.slot["SELL"].id => r.slot["BUY"].id = 0
    <3>1. CASE side = "BUY"
      <4>1. r.slot["BUY"].id = w.nextId /\ r.slot["SELL"].id < w.nextId
        BY <1>2, <1>6, <2>4, <3>1 DEF Sides
      <4>2. QED
        BY <1>1, <4>1
    <3>2. CASE side = "SELL"
      <4>1. r.slot["SELL"].id = w.nextId /\ r.slot["BUY"].id < w.nextId
        BY <1>2, <1>6, <2>4, <3>2 DEF Sides
      <4>2. QED
        BY <1>1, <4>1
    <3>3. QED
      BY <3>1, <3>2 DEF Sides
  <2>7. \A o \in resting : o.id >= 1
    BY DEF WorkInv, IdsInv
  <2>8. QED
    BY <1>1, <1>5, <2>2, <2>5, <2>6, <2>7 DEF IdsInv
<1>16. LimitInv(r)
  <2>1. side = "BUY" => traded + Clip <= MaxPosition
    <3>1. side = "BUY" => traded <= position
      BY <1>11 DEF LagInv, Quiet
    <3>2. QED
      BY <3>1, Numbers DEF LagInv, Abs, Value
  <2>2. side = "SELL" => traded - Clip >= -MaxPosition
    <3>1. side = "SELL" => position <= traded
      BY <1>11 DEF LagInv, Quiet
    <3>2. QED
      BY <3>1, Numbers DEF LagInv, Abs, Value
  <2>3. LimitInv(w)
    BY DEF WorkInv
  <2>4. QED
    BY <1>9, <2>1, <2>2, <2>3 DEF LimitInv, Sides
<1>17. WorkInv(r)
  BY <1>7, <1>13, <1>14, <1>15, <1>16 DEF WorkInv
<1>18. QED
  BY <1>5, <1>17 DEF r

\* moveOrder() keeps the invariant and makes one order at most.
LEMMA MoveOrderKeeps ==
    ASSUME NEW w, WorkInv(w), LagInv, NEW pnl, NEW side \in Sides, NEW price \in Int,
           price >= -1
    PROVE  /\ WorkInv(MoveOrder(w, pnl, side, price))
           /\ \/ MoveOrder(w, pnl, side, price).nextId = w.nextId
              \/ MoveOrder(w, pnl, side, price).nextId = w.nextId + 1
<1> DEFINE order == w.slot[side]
<1>1. CASE order.state = "LIVE" /\ (order.price # price \/ order.quantity # Clip)
  <2>1. MoveOrder(w, pnl, side, price) = CancelOrder(w, side)
    BY <1>1 DEF MoveOrder
  <2>2. QED
    BY <1>1, <2>1, CancelOrderKeeps
<1>2. CASE /\ ~(order.state = "LIVE" /\ (order.price # price \/ order.quantity # Clip))
           /\ order.state \in {"INVALID", "DEAD"} /\ price # NoPrice
           /\ CheckPreTradeRisk(pnl, side, Clip) = "ALLOWED"
  <2>1. MoveOrder(w, pnl, side, price) = NewOrder(w, side, price)
    BY <1>2 DEF MoveOrder
  <2>2. price \in Nat
    BY <1>2 DEF NoPrice
  <2>3. Abs(position + Value(side) * Clip) <= MaxPosition
    <3>1. ~(Abs(position + Value(side) * Clip) > MaxPosition)
      BY <1>2 DEF CheckPreTradeRisk
    <3>2. Value(side) * Clip \in Int /\ position \in Int
      BY Numbers DEF LagInv, Value
    <3>3. QED
      BY <3>1, <3>2, Numbers DEF Abs
  <2>4. QED
    BY <1>2, <2>1, <2>2, <2>3, NewOrderKeeps DEF Free
<1>3. CASE /\ ~(order.state = "LIVE" /\ (order.price # price \/ order.quantity # Clip))
           /\ ~(/\ order.state \in {"INVALID", "DEAD"} /\ price # NoPrice
                /\ CheckPreTradeRisk(pnl, side, Clip) = "ALLOWED")
  <2>1. MoveOrder(w, pnl, side, price) = w
    BY <1>3 DEF MoveOrder
  <2>2. QED
    BY <2>1
<1>4. QED
  BY <1>1, <1>2, <1>3

-----------------------------------------------------------------------------
(* Executions on their way. *)

\* u[i] is the quantity executed on side s by the responses of q behind the i-th.
Unseen(u, s, q) ==
    /\ u \in [0 .. Len(q) -> Nat]
    /\ \A i \in 1 .. Len(q) :
          u[i - 1] = u[i] + (IF IsFill(q[i], s) THEN q[i].exec ELSE 0)
    /\ \A i \in 0 .. Len(q) :
          (\A j \in 1 .. Len(q) : j > i => ~IsFill(q[j], s)) => u[i] = 0

\* The client's position and the executions on their way make the exchange's,
\* and the position stays within the limit while they come in.
FlowInv ==
    \E b, l \in [0 .. Len(responses) -> Nat] :
        /\ Unseen(b, "BUY", responses) /\ Unseen(l, "SELL", responses)
        /\ traded = position + b[0] - l[0]
        /\ \A i \in 0 .. Len(responses) :
              /\ traded - b[i] + l[i] <= MaxPosition
              /\ traded - b[i] + l[i] >= -MaxPosition

\* PositionKeeper's variables.
AccountInv ==
    /\ openVwap \in [Sides -> Nat] /\ realPnl \in Int /\ unrealPnl \in Int
    /\ reduced \in BOOLEAN /\ cash \in Int
    /\ position = 0 => openVwap["BUY"] = 0 /\ openVwap["SELL"] = 0
    /\ ProfitIsCash

EngineInv ==
    /\ algo \in Algos /\ nextId <= MaxOrders[algo] + 1
    /\ responses \in Seq(ResponseType) /\ resting \subseteq OrderType
    /\ exchange \in {"running", "terminated"}
    /\ position \in Int /\ traded \in Int
    /\ WorkInv(Work)
    /\ FlowInv
    /\ AccountInv

\* What a response says is executed on side s.
Executed(r, s) == IF IsFill(r, s) THEN r.exec ELSE 0

LEMMA ExecutedIsNat ==
    ASSUME NEW r \in ResponseType, NEW s
    PROVE  Executed(r, s) \in Nat /\ (~IsFill(r, s) => Executed(r, s) = 0)
BY Numbers DEF Executed, IsFill, ResponseType

LEMMA FlowLags ==
    ASSUME FlowInv, position \in Int, traded \in Int, responses \in Seq(ResponseType)
    PROVE  /\ LagInv
           /\ position <= MaxPosition /\ position >= -MaxPosition
           /\ responses = <<>> => position = traded
<1>1. PICK b, l \in [0 .. Len(responses) -> Nat] :
          /\ Unseen(b, "BUY", responses) /\ Unseen(l, "SELL", responses)
          /\ traded = position + b[0] - l[0]
          /\ \A i \in 0 .. Len(responses) :
                /\ traded - b[i] + l[i] <= MaxPosition
                /\ traded - b[i] + l[i] >= -MaxPosition
  BY DEF FlowInv
<1>2. Len(responses) \in Nat /\ 0 \in 0 .. Len(responses)
  OBVIOUS
<1>3. b[0] \in Nat /\ l[0] \in Nat
  BY <1>2
<1>4. (\A j \in 1 .. Len(responses) : ~IsFill(responses[j], "BUY")) => b[0] = 0
  BY <1>1, <1>2 DEF Unseen
<1>5. (\A j \in 1 .. Len(responses) : ~IsFill(responses[j], "SELL")) => l[0] = 0
  BY <1>1, <1>2 DEF Unseen
<1>6. LagInv
  <2>1. traded = position + b[0] - l[0]
    BY <1>1
  <2>2. (b[0] = 0 => traded <= position) /\ (l[0] = 0 => position <= traded)
    BY <1>3, <2>1
  <2>3. QED
    BY <1>4, <1>5, <2>2 DEF LagInv
<1>7. position <= MaxPosition /\ position >= -MaxPosition
  <2>1. /\ traded - b[0] + l[0] <= MaxPosition
        /\ traded - b[0] + l[0] >= -MaxPosition
    BY <1>1, <1>2
  <2>2. traded - b[0] + l[0] = position
    BY <1>1, <1>3
  <2>3. QED
    BY <2>1, <2>2
<1>8. ASSUME responses = <<>> PROVE position = traded
  <2>1. b[0] = 0 /\ l[0] = 0
    BY <1>4, <1>5, <1>8
  <2>2. QED
    BY <1>1, <2>1
<1>9. QED
  BY <1>6, <1>7, <1>8

\* The exchange sends a response.
LEMMA UnseenAppend ==
    ASSUME NEW q \in Seq(ResponseType), NEW r \in ResponseType, NEW s, NEW u,
           Unseen(u, s, q)
    PROVE  LET v == [i \in 0 .. Len(q) + 1 |->
                        IF i = Len(q) + 1 THEN 0 ELSE u[i] + Executed(r, s)]
           IN  Unseen(v, s, Append(q, r))
<1> DEFINE n == Len(q)
           t == Append(q, r)
           d == Executed(r, s)
           v == [i \in 0 .. n + 1 |-> IF i = n + 1 THEN 0 ELSE u[i] + d]
<1>1. /\ n \in Nat /\ Len(t) = n + 1 /\ t[n + 1] = r
      /\ \A i \in 1 .. n : t[i] = q[i]
      /\ \A i \in 1 .. n + 1 : i = n + 1 \/ i \in 1 .. n
  BY AppendFacts
<1>2. d \in Nat /\ u \in [0 .. n -> Nat]
  BY ExecutedIsNat DEF Unseen
<1>3. /\ v \in [0 .. n + 1 -> Nat] /\ v[n + 1] = 0
      /\ \A i \in 0 .. n : v[i] = u[i] + d
  BY <1>1, <1>2
<1> HIDE DEF v, t
<1>4. ASSUME NEW i \in 1 .. n + 1
      PROVE  v[i - 1] = v[i] + (IF IsFill(t[i], s) THEN t[i].exec ELSE 0)
  <2>1. CASE i = n + 1
    <3>1. v[i - 1] = u[n] + d
      BY <1>1, <1>3, <2>1
    <3>2. u[n] = 0
      BY <1>1 DEF Unseen
    <3>3. v[i] = 0 /\ d = IF IsFill(t[i], s) THEN t[i].exec ELSE 0
      BY <1>1, <1>3, <2>1 DEF Executed
    <3>4. QED
      BY <1>2, <3>1, <3>2, <3>3
  <2>2. CASE i # n + 1
    <3> DEFINE e == IF IsFill(q[i], s) THEN q[i].exec ELSE 0
    <3>1. i \in 1 .. n /\ i \in 0 .. n /\ i - 1 \in 0 .. n
      BY <1>1, <2>2
    <3>2. u[i - 1] = u[i] + e
      BY <3>1 DEF Unseen
    <3>3. v[i - 1] = u[i - 1] + d /\ v[i] = u[i] + d
      BY <1>3, <3>1
    <3>4. e \in Nat
      <4>1. q[i] \in ResponseType
        BY <3>1
      <4>2. QED
        BY <4>1, ExecutedIsNat DEF Executed
    <3>5. e = IF IsFill(t[i], s) THEN t[i].exec ELSE 0
      BY <1>1, <3>1
    <3>6. u[i] \in Nat
      BY <1>2, <3>1
    <3> HIDE DEF e
    <3>7. QED
      BY <1>2, <3>2, <3>3, <3>4, <3>5, <3>6
  <2>3. QED
    BY <2>1, <2>2
<1>5. ASSUME NEW i \in 0 .. n + 1,
             \A j \in 1 .. n + 1 : j > i => ~IsFill(t[j], s)
      PROVE  v[i] = 0
  <2>1. CASE i = n + 1
    BY <1>3, <2>1
  <2>2. CASE i # n + 1
    <3>1. i \in 0 .. n /\ n + 1 > i
      BY <1>1, <2>2
    <3>2. ~IsFill(r, s)
      BY <1>1, <1>5, <3>1
    <3>3. d = 0
      BY <3>2, ExecutedIsNat
    <3>4. u[i] = 0
      <4>1. \A j \in 1 .. n : j > i => ~IsFill(q[j], s)
        BY <1>1, <1>5
      <4>2. QED
        BY <3>1, <4>1 DEF Unseen
    <3>5. QED
      BY <1>3, <3>1, <3>3, <3>4
  <2>3. QED
    BY <2>1, <2>2
<1>6. Unseen(v, s, t)
  BY <1>1, <1>3, <1>4, <1>5 DEF Unseen
<1>7. QED
  BY <1>6 DEF v, t

\* The client takes a response.
LEMMA UnseenTail ==
    ASSUME NEW q \in Seq(ResponseType), q # <<>>, NEW s, NEW u, Unseen(u, s, q)
    PROVE  LET v == [i \in 0 .. Len(q) - 1 |-> u[i + 1]]
           IN  Unseen(v, s, Tail(q)) /\ u[0] = v[0] + Executed(q[1], s)
<1> DEFINE n == Len(q)
           t == Tail(q)
           v == [i \in 0 .. n - 1 |-> u[i + 1]]
<1>1. /\ n \in Nat /\ n >= 1 /\ Len(t) = n - 1
      /\ \A i \in 1 .. n - 1 : t[i] = q[i + 1] /\ i + 1 \in 1 .. n
  BY TailFacts
<1>2. u \in [0 .. n -> Nat]
  BY DEF Unseen
<1>3. v \in [0 .. n - 1 -> Nat] /\ \A i \in 0 .. n - 1 : v[i] = u[i + 1]
  BY <1>1, <1>2
<1> HIDE DEF v, t
<1>4. ASSUME NEW i \in 1 .. n - 1
      PROVE  v[i - 1] = v[i] + (IF IsFill(t[i], s) THEN t[i].exec ELSE 0)
  <2>1. v[i - 1] = u[i] /\ v[i] = u[i + 1]
    BY <1>1, <1>3
  <2>2. u[(i + 1) - 1] = u[i + 1] +
            (IF IsFill(q[i + 1], s) THEN q[i + 1].exec ELSE 0)
    BY <1>1 DEF Unseen
  <2>3. QED
    BY <1>1, <2>1, <2>2
<1>5. ASSUME NEW i \in 0 .. n - 1,
             \A j \in 1 .. n - 1 : j > i => ~IsFill(t[j], s)
      PROVE  v[i] = 0
  <2>1. ASSUME NEW j \in 1 .. n, j > i + 1 PROVE ~IsFill(q[j], s)
    <3>1. j - 1 \in 1 .. n - 1 /\ j - 1 > i /\ (j - 1) + 1 = j
      BY <1>1, <2>1
    <3>2. t[j - 1] = q[j]
      BY <1>1, <3>1
    <3>3. QED
      BY <1>5, <3>1, <3>2
  <2>2. i + 1 \in 0 .. n
    BY <1>1
  <2>3. u[i + 1] = 0
    BY <2>1, <2>2 DEF Unseen
  <2>4. QED
    BY <1>3, <2>3
<1>6. Unseen(v, s, t)
  BY <1>1, <1>3, <1>4, <1>5 DEF Unseen
<1>7. u[0] = v[0] + Executed(q[1], s)
  <2>1. 1 \in 1 .. n /\ 0 \in 0 .. n - 1
    BY <1>1
  <2>2. u[1 - 1] = u[1] + (IF IsFill(q[1], s) THEN q[1].exec ELSE 0)
    BY <2>1 DEF Unseen
  <2>3. QED
    BY <1>3, <2>1, <2>2 DEF Executed
<1>8. QED
  BY <1>6, <1>7 DEF v, t

\* FlowInv after the exchange has sent r, traded on by what r says.
LEMMA FlowAppend ==
    ASSUME EngineInv, NEW r \in ResponseType, responses' = Append(responses, r),
           position' = position,
           traded' = traded + Executed(r, "BUY") - Executed(r, "SELL"),
           traded' <= MaxPosition, traded' >= -MaxPosition
    PROVE  FlowInv'
<1> DEFINE n == Len(responses)
           V(u, s) == [i \in 0 .. n + 1 |-> IF i = n + 1 THEN 0 ELSE u[i] + Executed(r, s)]
<1>1. responses \in Seq(ResponseType) /\ position \in Int /\ traded \in Int
  BY DEF EngineInv
<1>2. PICK b, l \in [0 .. n -> Nat] :
          /\ Unseen(b, "BUY", responses) /\ Unseen(l, "SELL", responses)
          /\ traded = position + b[0] - l[0]
          /\ \A i \in 0 .. n :
                /\ traded - b[i] + l[i] <= MaxPosition
                /\ traded - b[i] + l[i] >= -MaxPosition
  BY DEF EngineInv, FlowInv
<1> DEFINE b1 == V(b, "BUY")
           l1 == V(l, "SELL")
           x == Executed(r, "BUY")
           y == Executed(r, "SELL")
<1>3. Unseen(b1, "BUY", responses') /\ Unseen(l1, "SELL", responses')
  BY <1>1, <1>2, UnseenAppend
<1>4. n \in Nat /\ Len(responses') = n + 1
  BY <1>1, AppendFacts
<1>5. x \in Nat /\ y \in Nat
  BY ExecutedIsNat
<1>6. /\ b1[n + 1] = 0 /\ \A i \in 0 .. n : b1[i] = b[i] + x /\ b[i] \in Nat
      /\ l1[n + 1] = 0 /\ \A i \in 0 .. n : l1[i] = l[i] + y /\ l[i] \in Nat
  <2>1. n + 1 \in 0 .. n + 1 /\ \A i \in 0 .. n : i \in 0 .. n + 1 /\ i # n + 1
    BY <1>4
  <2> HIDE DEF x, y
  <2>2. b1[n + 1] = 0 /\ \A i \in 0 .. n : b1[i] = b[i] + x /\ b[i] \in Nat
    BY <2>1 DEF x
  <2>3. l1[n + 1] = 0 /\ \A i \in 0 .. n : l1[i] = l[i] + y /\ l[i] \in Nat
    BY <2>1 DEF y
  <2>4. QED
    BY <2>2, <2>3
<1> HIDE DEF x, y, b1, l1, V
<1>7. b1 \in [0 .. Len(responses') -> Nat] /\ l1 \in [0 .. Len(responses') -> Nat]
  BY <1>3 DEF Unseen
<1>8. traded' = traded + x - y
  BY DEF x, y
<1>9. traded' = position' + b1[0] - l1[0]
  <2>1. b1[0] = b[0] + x /\ l1[0] = l[0] + y /\ b[0] \in Nat /\ l[0] \in Nat
    BY <1>4, <1>6
  <2>2. traded = position + b[0] - l[0]
    BY <1>2
  <2>3. QED
    BY <1>1, <1>5, <1>8, <2>1, <2>2, SMTT(30)
<1>10. ASSUME NEW i \in 0 .. n + 1
       PROVE  /\ traded' - b1[i] + l1[i] <= MaxPosition
              /\ traded' - b1[i] + l1[i] >= -MaxPosition
  <2>1. CASE i = n + 1
    <3>1. b1[i] = 0 /\ l1[i] = 0 /\ traded' \in Int
      BY <1>1, <1>5, <1>6, <1>8, <2>1
    <3>2. QED
      BY <3>1, Numbers
  <2>2. CASE i # n + 1
    <3>1. i \in 0 .. n
      BY <1>4, <2>2
    <3>2. b1[i] = b[i] + x /\ l1[i] = l[i] + y /\ b[i] \in Nat /\ l[i] \in Nat
      BY <1>6, <3>1
    <3>3. /\ traded - b[i] + l[i] <= MaxPosition
          /\ traded - b[i] + l[i] >= -MaxPosition
      BY <1>2, <3>1
    <3>4. traded' - b1[i] + l1[i] = traded - b[i] + l[i]
      <4>1. \A f, g, h, j, k \in Int : (f + j - k) - (g + j) + (h + k) = f - g + h
        OBVIOUS
      <4>2. traded' - b1[i] + l1[i] = (traded + x - y) - (b[i] + x) + (l[i] + y)
        BY <1>8, <3>2
      <4>3. traded \in Int /\ b[i] \in Int /\ l[i] \in Int /\ x \in Int /\ y \in Int
        BY <1>1, <1>5, <3>2
      <4>4. (traded + x - y) - (b[i] + x) + (l[i] + y) = traded - b[i] + l[i]
        BY <4>1, <4>3, SMTT(30)
      <4>5. QED
        BY <4>2, <4>4
    <3>5. QED
      BY <3>3, <3>4
  <2>3. QED
    BY <2>1, <2>2
<1>11. QED
  BY <1>3, <1>4, <1>7, <1>9, <1>10 DEF FlowInv

\* FlowInv after the client has taken a response into its position.
LEMMA FlowTail ==
    ASSUME EngineInv, responses # <<>>, responses' = Tail(responses), traded' = traded,
           position' = position + Executed(responses[1], "BUY")
                                - Executed(responses[1], "SELL")
    PROVE  FlowInv'
<1> DEFINE n == Len(responses)
           V(u) == [i \in 0 .. n - 1 |-> u[i + 1]]
<1>1. responses \in Seq(ResponseType) /\ position \in Int /\ traded \in Int
  BY DEF EngineInv
<1>2. PICK b, l \in [0 .. n -> Nat] :
          /\ Unseen(b, "BUY", responses) /\ Unseen(l, "SELL", responses)
          /\ traded = position + b[0] - l[0]
          /\ \A i \in 0 .. n :
                /\ traded - b[i] + l[i] <= MaxPosition
                /\ traded - b[i] + l[i] >= -MaxPosition
  BY DEF EngineInv, FlowInv
<1> DEFINE b1 == V(b)
           l1 == V(l)
           x == Executed(responses[1], "BUY")
           y == Executed(responses[1], "SELL")
<1>3. /\ Unseen(b1, "BUY", responses') /\ b[0] = b1[0] + x
      /\ Unseen(l1, "SELL", responses') /\ l[0] = l1[0] + y
  BY <1>1, <1>2, UnseenTail
<1>4. /\ n \in Nat /\ n >= 1 /\ Len(responses') = n - 1
      /\ responses[1] \in ResponseType
  BY <1>1, TailFacts
<1>5. x \in Nat /\ y \in Nat
  BY <1>4, ExecutedIsNat
<1>6. /\ \A i \in 0 .. n - 1 : /\ b1[i] = b[i + 1] /\ l1[i] = l[i + 1]
                               /\ i + 1 \in 0 .. n
      /\ 0 \in 0 .. n - 1
  BY <1>4
<1> HIDE DEF x, y, b1, l1, V
<1>7. /\ b1 \in [0 .. Len(responses') -> Nat] /\ l1 \in [0 .. Len(responses') -> Nat]
      /\ b1[0] \in Nat /\ l1[0] \in Nat
  BY <1>3, <1>4, <1>6 DEF Unseen
<1>8. position' = position + x - y
  BY DEF x, y
<1>9. traded' = position' + b1[0] - l1[0]
  <2>1. traded = position + (b1[0] + x) - (l1[0] + y)
    BY <1>2, <1>3
  <2>2. QED
    BY <1>1, <1>5, <1>7, <1>8, <2>1, SMTT(30)
<1>10. \A i \in 0 .. n - 1 : /\ traded' - b1[i] + l1[i] <= MaxPosition
                             /\ traded' - b1[i] + l1[i] >= -MaxPosition
  BY <1>2, <1>6
<1>11. QED
  BY <1>3, <1>4, <1>7, <1>9, <1>10 DEF FlowInv

-----------------------------------------------------------------------------
(* onOrderUpdate(). *)

\* What a response does to the slots.
LEMMA OrderUpdateFacts ==
    ASSUME slot \in [Sides -> SlotType], NEW r \in ResponseType
    PROVE  /\ OrderUpdate(r) \in [Sides -> SlotType]
           /\ \A s \in Sides :
                 /\ OrderUpdate(r)[s].id = slot[s].id
                 /\ OrderUpdate(r)[s].price = slot[s].price
                 /\ IsAck(r, s) => /\ OrderUpdate(r)[s].state = "LIVE"
                                   /\ OrderUpdate(r)[s].quantity = slot[s].quantity
                 /\ IsEnd(r, s) => OrderUpdate(r)[s].state = "DEAD"
                 /\ IsFill(r, s) => OrderUpdate(r)[s].quantity = r.leaves
                 /\ IsFill(r, s) /\ ~IsEnd(r, s) =>
                       OrderUpdate(r)[s].state = slot[s].state
                 /\ ~IsAck(r, s) /\ ~IsEnd(r, s) /\ ~IsFill(r, s) =>
                       OrderUpdate(r)[s] = slot[s]
<1>1. \A s \in Sides : slot[s] \in SlotType
  OBVIOUS
<1>2. CASE r.type = "ACCEPTED"
  <2>1. r.side \in Sides
    BY <1>2 DEF ResponseType
  <2>2. OrderUpdate(r) = [slot EXCEPT ![r.side] = [slot[r.side] EXCEPT !.state = "LIVE"]]
    BY <1>2 DEF OrderUpdate
  <2>3. QED
    BY <1>1, <1>2, <2>1, <2>2 DEF SlotType, States, IsAck, IsEnd, IsFill
<1>3. CASE r.type = "CANCELLED"
  <2>1. r.side \in Sides
    BY <1>3 DEF ResponseType
  <2>2. OrderUpdate(r) = [slot EXCEPT ![r.side] = [slot[r.side] EXCEPT !.state = "DEAD"]]
    BY <1>3 DEF OrderUpdate
  <2>3. QED
    BY <1>1, <1>3, <2>1, <2>2 DEF SlotType, States, IsAck, IsEnd, IsFill
<1>4. CASE r.type = "FILLED"
  <2>1. r.side \in Sides /\ r.leaves \in 0 .. Clip
    BY <1>4 DEF ResponseType
  <2> DEFINE st == IF r.leaves = 0 THEN "DEAD" ELSE slot[r.side].state
             new == [state |-> st, id |-> slot[r.side].id,
                     price |-> slot[r.side].price, quantity |-> r.leaves]
  <2>2. OrderUpdate(r) = [slot EXCEPT ![r.side] = new]
    <3> DEFINE old == slot[r.side]
               filled == [state |-> old.state, id |-> old.id, price |-> old.price,
                          quantity |-> r.leaves]
               mid == [slot EXCEPT ![r.side] = filled]
    <3>1. [old EXCEPT !.quantity = r.leaves] = filled
      BY <1>1, <2>1 DEF SlotType
    <3>2. mid[r.side] = filled
      BY <2>1
    <3>3. OrderUpdate(r) =
              [[slot EXCEPT ![r.side] = [old EXCEPT !.quantity = r.leaves]]
                  EXCEPT ![r.side] =
                  [[slot EXCEPT ![r.side] = [old EXCEPT !.quantity = r.leaves]][r.side]
                      EXCEPT !.state = st]]
      BY <1>4 DEF OrderUpdate
    <3>4. OrderUpdate(r) = [mid EXCEPT ![r.side] = [filled EXCEPT !.state = st]]
      BY <3>1, <3>2, <3>3
    <3> HIDE DEF st
    <3>5. [filled EXCEPT !.state = st] = new
      OBVIOUS
    <3> HIDE DEF filled, new
    <3>6. [mid EXCEPT ![r.side] = new] = [slot EXCEPT ![r.side] = new]
      BY <2>1
    <3>7. QED
      BY <3>4, <3>5, <3>6
  <2>3. new \in SlotType
    BY <1>1, <2>1 DEF SlotType, States
  <2>4. QED
    BY <1>1, <1>4, <2>1, <2>2, <2>3 DEF IsAck, IsEnd, IsFill
<1>5. CASE r.type = "CANCEL_REJECTED"
  <2>1. OrderUpdate(r) = slot
    BY <1>5 DEF OrderUpdate
  <2>2. QED
    BY <1>5, <2>1 DEF IsAck, IsEnd, IsFill
<1>6. r.type \in {"ACCEPTED", "CANCELLED", "FILLED", "CANCEL_REJECTED"}
  BY DEF ResponseType
<1>7. QED
  BY <1>2, <1>3, <1>4, <1>5, <1>6

LEMMA WorkFields ==
    /\ Work.slot = slot /\ Work.nextId = nextId /\ Work.requests = requests
    /\ Work'.slot = slot' /\ Work'.nextId = nextId' /\ Work'.requests = requests'
BY DEF Work

LEMMA EngineTypes ==
    ASSUME EngineInv
    PROVE  /\ slot \in [Sides -> SlotType] /\ nextId \in Nat
           /\ requests \in Seq(RequestType) /\ responses \in Seq(ResponseType)
           /\ resting \subseteq OrderType /\ position \in Int /\ traded \in Int
           /\ \A s \in Sides : /\ OneOrder(Work, s) /\ NewInv(Work, s)
                               /\ RestInv(Work, s) /\ AckInv(Work, s)
           /\ IdsInv(Work) /\ LimitInv(Work)
BY WorkFields DEF EngineInv, WorkInv, WorkType

\* A response taken from the queue: the orders of side s, seen through it.
LEMMA OnOrderUpdateSide ==
    ASSUME EngineInv, responses # <<>>, responses' = Tail(responses),
           slot' = OrderUpdate(responses[1]),
           UNCHANGED <<ticker, requests, resting>>, NEW s \in Sides
    PROVE  OneOrder(Work, s)' /\ NewInv(Work, s)' /\ RestInv(Work, s)' /\ AckInv(Work, s)'
<1> DEFINE r == responses[1]
           n == Len(responses)
<1>1. /\ OneOrder(Work, s) /\ NewInv(Work, s) /\ RestInv(Work, s) /\ AckInv(Work, s)
      /\ slot \in [Sides -> SlotType] /\ responses \in Seq(ResponseType)
  BY EngineTypes
<1>2. /\ n \in Nat /\ n >= 1 /\ r \in ResponseType /\ Len(responses') = n - 1
      /\ \A j \in 1 .. n - 1 : responses'[j] = responses[j + 1] /\ j + 1 \in 1 .. n
      /\ 1 \in 1 .. n
  BY <1>1, TailFacts
<1>3. \A j \in 1 .. n : j # 1 => j - 1 \in 1 .. n - 1 /\ responses'[j - 1] = responses[j]
  BY <1>2
<1>4. /\ slot'[s].id = slot[s].id /\ slot'[s].price = slot[s].price
      /\ IsAck(r, s) => slot'[s].state = "LIVE" /\ slot'[s].quantity = slot[s].quantity
      /\ IsEnd(r, s) => slot'[s].state = "DEAD"
      /\ IsFill(r, s) => slot'[s].quantity = r.leaves
      /\ IsFill(r, s) /\ ~IsEnd(r, s) => slot'[s].state = slot[s].state
      /\ ~IsAck(r, s) /\ ~IsEnd(r, s) /\ ~IsFill(r, s) => slot'[s] = slot[s]
  BY <1>1, <1>2, OrderUpdateFacts
<1>5. IsAck(r, s) => ~IsEnd(r, s) /\ ~IsFill(r, s)
  BY DEF IsAck, IsEnd, IsFill
<1>6. \A i, j \in 1 .. n - 1 :
          /\ IsEnd(responses'[i], s)
          /\ IsEnd(responses'[j], s) \/ IsFill(responses'[j], s)
          => j <= i
  <2> SUFFICES ASSUME NEW i \in 1 .. n - 1, NEW j \in 1 .. n - 1,
                      IsEnd(responses'[i], s),
                      IsEnd(responses'[j], s) \/ IsFill(responses'[j], s)
               PROVE  j <= i
    OBVIOUS
  <2>1. j + 1 <= i + 1
    BY <1>1, <1>2 DEF OneOrder
  <2>2. QED
    BY <2>1
<1>7. Quiet(s) => Quiet(s)'
  BY <1>2 DEF Quiet
<1>8. /\ Work'.slot = slot' /\ Work'.requests = requests /\ Work.slot = slot
      /\ Work.requests = requests /\ resting' = resting /\ ticker' = ticker
  BY WorkFields
<1>9. CASE IsEnd(r, s)
  <2>1. \A j \in 1 .. n : j # 1 => ~IsEnd(responses[j], s) /\ ~IsFill(responses[j], s)
    BY <1>1, <1>2, <1>9 DEF OneOrder
  <2>2. Quiet(s)'
    <3>1. \A j \in 1 .. n - 1 : j + 1 # 1
      BY <1>2
    <3>2. QED
      BY <1>2, <2>1, <3>1 DEF Quiet
  <2>3. ~Quiet(s)
    BY <1>2, <1>9 DEF Quiet
  <2>4. \A i \in 1 .. Len(requests) : ~IsNew(requests[i], s)
    BY <1>1, <1>8, <2>3 DEF NewInv
  <2>5. \A o \in resting : o.side # s
    BY <1>1, <1>2, <1>9 DEF RestInv
  <2>6. OneOrder(Work, s)'
    BY <1>1, <1>2, <1>6, <1>8, <2>2 DEF OneOrder
  <2>7. NewInv(Work, s)' /\ RestInv(Work, s)'
    BY <1>8, <2>4, <2>5 DEF NewInv, RestInv
  <2>8. AckInv(Work, s)'
    <3>1. ticker = ClientId =>
              \A i \in 1 .. n : IsAck(responses[i], s) => i = 1
      BY <1>1, <1>2, <1>9 DEF AckInv
    <3>2. ticker = ClientId =>
              \A i \in 1 .. n - 1 : ~IsAck(responses'[i], s)
      <4>1. \A i \in 1 .. n - 1 : i + 1 # 1
        BY <1>2
      <4>2. QED
        BY <1>2, <3>1, <4>1
    <3>3. slot'[s].state = "DEAD"
      BY <1>4, <1>9
    <3>4. QED
      BY <1>2, <1>8, <2>4, <3>2, <3>3 DEF AckInv
  <2>9. QED
    BY <2>6, <2>7, <2>8
<1>10. CASE IsFill(r, s) /\ ~IsEnd(r, s)
  <2>1. ~Quiet(s)
    BY <1>2, <1>10 DEF Quiet
  <2>2. \A i \in 1 .. Len(requests) : ~IsNew(requests[i], s)
    BY <1>1, <1>8, <2>1 DEF NewInv
  <2>3. slot'[s].state = slot[s].state /\ ~Free(slot[s]) /\ ~Free(slot'[s])
    BY <1>1, <1>4, <1>8, <1>10, <2>1 DEF OneOrder, Free
  <2>4. OneOrder(Work, s)'
    BY <1>1, <1>2, <1>6, <1>8, <2>3 DEF OneOrder
  <2>5. NewInv(Work, s)'
    BY <1>8, <2>2 DEF NewInv
  <2>6. RestInv(Work, s)'
    <3> SUFFICES ASSUME NEW o \in resting, o.side = s
                 PROVE  /\ o.id = slot'[s].id /\ o.price = slot'[s].price
                        /\ ~Free(slot'[s])
                        /\ \A j \in 1 .. n - 1 : ~IsEnd(responses'[j], s)
                        /\ (\A j \in 1 .. n - 1 : ~IsFill(responses'[j], s)) =>
                              slot'[s].quantity = o.leaves
                        /\ \A j \in 1 .. n - 1 :
                              /\ IsFill(responses'[j], s)
                              /\ \A k \in 1 .. n - 1 : k > j => ~IsFill(responses'[k], s)
                              => responses'[j].leaves = o.leaves
      BY <1>2, <1>8 DEF RestInv
    <3>1. /\ o.id = slot[s].id /\ o.price = slot[s].price
          /\ \A j \in 1 .. n : ~IsEnd(responses[j], s)
          /\ \A j \in 1 .. n :
                /\ IsFill(responses[j], s)
                /\ \A k \in 1 .. n : k > j => ~IsFill(responses[k], s)
                => responses[j].leaves = o.leaves
      BY <1>1, <1>8 DEF RestInv
    <3>2. ASSUME \A j \in 1 .. n - 1 : ~IsFill(responses'[j], s)
          PROVE  slot'[s].quantity = o.leaves
      <4>1. \A k \in 1 .. n : k > 1 => ~IsFill(responses[k], s)
        <5> SUFFICES ASSUME NEW k \in 1 .. n, k > 1
                     PROVE  ~IsFill(responses[k], s)
          OBVIOUS
        <5>1. k # 1
          OBVIOUS
        <5>2. QED
          BY <1>3, <3>2, <5>1
      <4>2. QED
        BY <1>2, <1>4, <1>10, <3>1, <4>1
    <3>3. ASSUME NEW j \in 1 .. n - 1, IsFill(responses'[j], s),
                 \A k \in 1 .. n - 1 : k > j => ~IsFill(responses'[k], s)
          PROVE  responses'[j].leaves = o.leaves
      <4>1. \A k \in 1 .. n : k > j + 1 => ~IsFill(responses[k], s)
        <5> SUFFICES ASSUME NEW k \in 1 .. n, k > j + 1
                     PROVE  ~IsFill(responses[k], s)
          OBVIOUS
        <5>1. k # 1 /\ k - 1 > j
          OBVIOUS
        <5>2. QED
          BY <1>3, <3>3, <5>1
      <4>2. QED
        BY <1>2, <3>1, <3>3, <4>1
    <3>4. \A j \in 1 .. n - 1 : ~IsEnd(responses'[j], s)
      BY <1>2, <3>1
    <3>5. QED
      BY <1>4, <2>3, <3>1, <3>2, <3>3, <3>4
  <2>7. AckInv(Work, s)'
    <3>1. ticker = ClientId => \A i \in 1 .. n : IsAck(responses[i], s) => i = 1
      BY <1>1, <1>2, <1>10 DEF AckInv
    <3>2. ~IsAck(r, s)
      BY <1>5, <1>10
    <3>3. ticker = ClientId => \A i \in 1 .. n - 1 : ~IsAck(responses'[i], s)
      <4>1. \A i \in 1 .. n - 1 : i + 1 # 1
        BY <1>2
      <4>2. QED
        BY <1>2, <3>1, <4>1
    <3>4. Alive(s) => Alive(s)'
      BY <1>2, <1>3, <1>8, <1>10 DEF Alive
    <3>5. QED
      BY <1>1, <1>2, <1>8, <2>2, <2>3, <3>3, <3>4 DEF AckInv
  <2>8. QED
    BY <2>4, <2>5, <2>6, <2>7
<1>11. CASE ~IsFill(r, s) /\ ~IsEnd(r, s)
  <2>1. /\ slot'[s].quantity = slot[s].quantity
        /\ ~IsAck(r, s) => slot'[s].state = slot[s].state
    BY <1>4, <1>11
  <2>2. /\ Free(slot'[s]) => Free(slot[s])
        /\ ~Free(slot[s]) => ~Free(slot'[s])
    BY <1>4, <2>1 DEF Free
  <2>3. OneOrder(Work, s)'
    BY <1>1, <1>2, <1>6, <1>7, <1>8, <2>2 DEF OneOrder
  <2>4. NewInv(Work, s)'
    BY <1>1, <1>4, <1>7, <1>8, <2>1, <2>2 DEF NewInv
  <2>5. RestInv(Work, s)'
    <3> SUFFICES ASSUME NEW o \in resting, o.side = s
                 PROVE  /\ o.id = slot'[s].id /\ o.price = slot'[s].price
                        /\ ~Free(slot'[s])
                        /\ \A j \in 1 .. n - 1 : ~IsEnd(responses'[j], s)
                        /\ (\A j \in 1 .. n - 1 : ~IsFill(responses'[j], s)) =>
                              slot'[s].quantity = o.leaves
                        /\ \A j \in 1 .. n - 1 :
                              /\ IsFill(responses'[j], s)
                              /\ \A k \in 1 .. n - 1 : k > j => ~IsFill(responses'[k], s)
                              => responses'[j].leaves = o.leaves
      BY <1>2, <1>8 DEF RestInv
    <3>1. /\ o.id = slot[s].id /\ o.price = slot[s].price /\ ~Free(slot[s])
          /\ \A j \in 1 .. n : ~IsEnd(responses[j], s)
          /\ (\A j \in 1 .. n : ~IsFill(responses[j], s)) => slot[s].quantity = o.leaves
          /\ \A j \in 1 .. n :
                /\ IsFill(responses[j], s)
                /\ \A k \in 1 .. n : k > j => ~IsFill(responses[k], s)
                => responses[j].leaves = o.leaves
      BY <1>1, <1>8 DEF RestInv
    <3>2. ASSUME \A j \in 1 .. n - 1 : ~IsFill(responses'[j], s)
          PROVE  slot'[s].quantity = o.leaves
      <4>1. \A k \in 1 .. n : ~IsFill(responses[k], s)
        BY <1>3, <1>11, <3>2
      <4>2. QED
        BY <2>1, <3>1, <4>1
    <3>3. ASSUME NEW j \in 1 .. n - 1, IsFill(responses'[j], s),
                 \A k \in 1 .. n - 1 : k > j => ~IsFill(responses'[k], s)
          PROVE  responses'[j].leaves = o.leaves
      <4>1. \A k \in 1 .. n : k > j + 1 => ~IsFill(responses[k], s)
        <5> SUFFICES ASSUME NEW k \in 1 .. n, k > j + 1
                     PROVE  ~IsFill(responses[k], s)
          OBVIOUS
        <5>1. k # 1 /\ k - 1 > j
          OBVIOUS
        <5>2. QED
          BY <1>3, <3>3, <5>1
      <4>2. QED
        BY <1>2, <3>1, <3>3, <4>1
    <3>4. \A j \in 1 .. n - 1 : ~IsEnd(responses'[j], s)
      BY <1>2, <3>1
    <3>5. QED
      BY <1>4, <2>2, <3>1, <3>2, <3>3, <3>4
  <2>6. Alive(s) => Alive(s)'
    BY <1>2, <1>3, <1>8, <1>11 DEF Alive
  <2>7. ASSUME ticker = ClientId
        PROVE  /\ \A i \in 1 .. Len(requests) : IsNew(requests[i], s) =>
                     /\ slot'[s].state = "PENDING_NEW"
                     /\ \A j \in 1 .. n - 1 : ~IsAck(responses'[j], s)
               /\ slot'[s].state = "LIVE" =>
                     /\ Alive(s)'
                     /\ \A j \in 1 .. n - 1 : ~IsAck(responses'[j], s)
               /\ \A i \in 1 .. n - 1 : IsAck(responses'[i], s) =>
                     /\ slot'[s].state = "PENDING_NEW" /\ Alive(s)'
                     /\ \A j \in 1 .. n - 1 :
                           \/ IsAck(responses'[j], s) \/ IsEnd(responses'[j], s)
                           \/ IsFill(responses'[j], s)
                           => i <= j
    <3>1. /\ \A i \in 1 .. Len(requests) : IsNew(requests[i], s) =>
                /\ slot[s].state = "PENDING_NEW"
                /\ \A j \in 1 .. n : ~IsAck(responses[j], s)
          /\ slot[s].state = "LIVE" =>
                /\ Alive(s)
                /\ \A j \in 1 .. n : ~IsAck(responses[j], s)
          /\ \A i \in 1 .. n : IsAck(responses[i], s) =>
                /\ slot[s].state = "PENDING_NEW" /\ Alive(s)
                /\ \A j \in 1 .. n :
                      \/ IsAck(responses[j], s) \/ IsEnd(responses[j], s)
                      \/ IsFill(responses[j], s)
                      => i <= j
      BY <1>1, <1>8, <2>7 DEF AckInv
    <3>2. CASE IsAck(r, s)
      <4>1. \A j \in 1 .. n : IsAck(responses[j], s) => j = 1
        BY <1>2, <3>1, <3>2
      <4>2. \A j \in 1 .. n - 1 : ~IsAck(responses'[j], s)
        <5>1. \A j \in 1 .. n - 1 : j + 1 # 1
          BY <1>2
        <5>2. QED
          BY <1>2, <4>1, <5>1
      <4>3. Alive(s)' /\ \A i \in 1 .. Len(requests) : ~IsNew(requests[i], s)
        BY <1>2, <2>6, <3>1, <3>2
      <4>4. QED
        BY <4>2, <4>3
    <3>3. CASE ~IsAck(r, s)
      <4>1. slot'[s].state = slot[s].state
        BY <2>1, <3>3
      <4>2. ASSUME NEW i \in 1 .. n - 1, IsAck(responses'[i], s), NEW j \in 1 .. n - 1,
                   \/ IsAck(responses'[j], s) \/ IsEnd(responses'[j], s)
                   \/ IsFill(responses'[j], s)
            PROVE  i <= j
        <5>1. i + 1 <= j + 1
          BY <1>2, <3>1, <4>2
        <5>2. QED
          BY <5>1
      <4>3. \A j \in 1 .. n - 1 : IsAck(responses'[j], s) =>
                j + 1 \in 1 .. n /\ IsAck(responses[j + 1], s)
        BY <1>2
      <4>4. QED
        BY <2>6, <3>1, <4>1, <4>2, <4>3
    <3>4. QED
      BY <3>2, <3>3
  <2>8. AckInv(Work, s)'
    BY <1>2, <1>8, <2>7 DEF AckInv
  <2>9. QED
    BY <2>3, <2>4, <2>5, <2>8
<1>12. QED
  BY <1>9, <1>10, <1>11


-----------------------------------------------------------------------------
(* addFill(). *)

LEMMA Division ==
    ASSUME NEW a \in Int, NEW b \in Int, b > 0
    PROVE  a \div b \in Int /\ (a % b = 0 => (a \div b) * b = a)
OBVIOUS

\* The quotient that Realised forms is exact.
LEMMA ExactQuotient ==
    ASSUME NEW k \in 1 .. MaxPosition
    PROVE  Unit \div k \in Int /\ (Unit \div k) * k = Unit
<1>1. Unit % k = 0 /\ Unit \in Int /\ k \in Int /\ k > 0
  BY EngineAssumption
<1>2. QED
  BY <1>1, Division

\* Closing k units that cost v: the profit, with an exact quotient x.
LEMMA ClosingPays ==
    ASSUME NEW U \in Int, NEW x \in Int, NEW k \in Int, x * k = U,
           NEW v \in Int, NEW p \in Int
    PROVE  k * (v * x - p * U) = U * (v - p * k)
<1>1. k * (v * x - p * U) = v * (x * k) - (p * k) * U
  OBVIOUS
<1>2. \A a, b, c \in Int : a * c - b * c = c * (a - b)
  OBVIOUS
<1>3. p * k \in Int
  OBVIOUS
<1>4. QED
  BY <1>1, <1>2, <1>3

LEMMA MinOfTwo ==
    ASSUME NEW a \in Int, NEW b \in Int
    PROVE  Min({a, b}) = IF a <= b THEN a ELSE b
<1> DEFINE m == IF a <= b THEN a ELSE b
<1>1. m \in {a, b} /\ \A y \in {a, b} : m <= y
  OBVIOUS
<1>2. \A x \in {a, b} : (\A y \in {a, b} : x <= y) => x = m
  OBVIOUS
<1>3. QED
  BY <1>1, <1>2, Zenon DEF Min


LEMMA Signs ==
    ASSUME NEW a \in Int, NEW b \in Int
    PROVE  /\ a * b \in Int
           /\ a * b < 0 <=> (a < 0 /\ b > 0) \/ (a > 0 /\ b < 0)
           /\ a * b > 0 <=> (a > 0 /\ b > 0) \/ (a < 0 /\ b < 0)
OBVIOUS

\* What the position of size pos cost, as the books have it.
Cost(pos, vwap) == IF pos > 0 THEN vwap["BUY"]
                   ELSE IF pos < 0 THEN -vwap["SELL"] ELSE 0

LEMMA CostOfSide ==
    ASSUME NEW pos \in Int, NEW vwap \in [Sides -> Nat], NEW side \in Sides
    PROVE  /\ pos * Value(side) > 0 => Cost(pos, vwap) = Value(side) * vwap[side]
           /\ pos * Value(side) < 0 =>
                 Cost(pos, vwap) = -(Value(side) * vwap[Opposite(side)])
           /\ pos = 0 => Cost(pos, vwap) = 0
           /\ Cost(pos, vwap) \in Int
<1>1. vwap["BUY"] \in Nat /\ vwap["SELL"] \in Nat
  BY DEF Sides
<1>2. CASE side = "BUY"
  <2>1. Value(side) = 1 /\ Opposite(side) = "SELL"
    BY <1>2 DEF Value, Opposite
  <2>2. QED
    BY <1>1, <1>2, <2>1 DEF Cost
<1>3. CASE side = "SELL"
  <2>1. Value(side) = -1 /\ Opposite(side) = "BUY"
    BY <1>3 DEF Value, Opposite
  <2>2. QED
    BY <1>1, <1>3, <2>1 DEF Cost
<1>4. QED
  BY <1>2, <1>3 DEF Sides

\* A fill on side v = 1 or -1 of a position x, with the position as the side
\* sees it: what enlarges it, closes it, turns it or lowers it.
LEMMA FillCases ==
    ASSUME NEW side \in Sides, NEW x \in Int, NEW e \in Nat, e >= 1
    PROVE  LET v == Value(side)
               pos == x + v * e
           IN  /\ v \in Int /\ v * v = 1 /\ pos \in Int
               /\ x * v \in Int /\ pos * v = x * v + e
               /\ x * v < 0 => Abs(x) = -(x * v) /\ x # 0
               /\ pos * v > 0 => Abs(pos) = pos * v /\ pos # 0
               /\ pos = 0 <=> pos * v = 0
               /\ x * v < 0 => /\ pos * x < 0 <=> pos * v > 0
                               /\ pos * x > 0 <=> pos * v < 0
               /\ x * v >= 0 => ~(pos * x < 0)
               /\ pos = 0 => ~(pos * x < 0)
<1>1. CASE side = "BUY"
  <2>1. Value(side) = 1
    BY <1>1 DEF Value
  <2>2. x + 1 * e \in Int /\ (x + 1 * e) * 1 = x + e /\ x * 1 = x
    OBVIOUS
  <2>3. QED
    BY <2>1, <2>2, Signs DEF Abs
<1>2. CASE side = "SELL"
  <2>1. Value(side) = -1
    BY <1>2 DEF Value
  <2>2. x + (-1) * e \in Int /\ (x + (-1) * e) * (-1) = -x + e /\ x * (-1) = -x
    OBVIOUS
  <2>3. QED
    BY <2>1, <2>2, Signs DEF Abs
<1>3. QED
  BY <1>1, <1>2 DEF Sides


LEMMA AddFillKeeps ==
    ASSUME AccountInv, position \in Int, position <= MaxPosition, position >= -MaxPosition,
           NEW side \in Sides, NEW p \in Nat, NEW e \in Nat, e >= 1,
           AddFill(side, p, e)
    PROVE  AccountInv' /\ position' = position + Value(side) * e
<1> DEFINE v == Value(side)
           opp == Opposite(side)
           pos == position + v * e
           old == Abs(position)
           lowers == pos * position > 0 /\ position * v < 0
<1>1. /\ openVwap \in [Sides -> Nat] /\ realPnl \in Int /\ unrealPnl \in Int
      /\ reduced \in BOOLEAN /\ cash \in Int
      /\ position = 0 => openVwap["BUY"] = 0 /\ openVwap["SELL"] = 0
      /\ ~reduced => realPnl = Unit * (cash + Cost(position, openVwap))
  BY DEF AccountInv, ProfitIsCash, Cost
<1>2. /\ side \in Sides /\ opp \in Sides /\ opp # side
      /\ openVwap[side] \in Nat /\ openVwap[opp] \in Nat
      /\ position = 0 => openVwap[side] = 0
  BY <1>1 DEF Sides, Opposite
<1>3. /\ v \in Int /\ v * v = 1 /\ pos \in Int /\ position * v \in Int
      /\ pos * v = position * v + e
      /\ position * v < 0 => old = -(position * v) /\ position # 0
      /\ pos * v > 0 => Abs(pos) = pos * v /\ pos # 0
      /\ pos = 0 <=> pos * v = 0
      /\ position * v < 0 => /\ pos * position < 0 <=> pos * v > 0
                             /\ pos * position > 0 <=> pos * v < 0
      /\ position * v >= 0 => ~(pos * position < 0)
      /\ pos = 0 => ~(pos * position < 0)
  BY FillCases, ZenonT(60)
<1>4. /\ position' = pos /\ openVwap' = VwapAfter(side, p, e)
      /\ realPnl' = realPnl + Realised(side, p, e)
      /\ unrealPnl' = IF pos = 0 THEN 0 ELSE Unrealised(pos, openVwap', 2 * p)
      /\ reduced' = (reduced \/ lowers)
      /\ cash' = IF reduced' THEN 0 ELSE cash - v * e * p
  BY DEF AddFill
<1>5. Unit \in Nat /\ Unit \div 2 \in Int
  BY Numbers, Division
<1>6. /\ position * v >= 0 => Realised(side, p, e) = 0
      /\ position * v < 0 =>
            Realised(side, p, e) =
                v * Min({e, old}) * (openVwap[opp] * (Unit \div old) - p * Unit)
  BY <1>3 DEF Realised
<1>7. /\ position * v < 0 => /\ old \in 1 .. MaxPosition
                             /\ Unit \div old \in Int /\ (Unit \div old) * old = Unit
                             /\ Min({e, old}) = IF e <= old THEN e ELSE old
  <2> SUFFICES ASSUME position * v < 0
               PROVE  /\ old \in 1 .. MaxPosition
                      /\ Unit \div old \in Int /\ (Unit \div old) * old = Unit
                      /\ Min({e, old}) = IF e <= old THEN e ELSE old
    OBVIOUS
  <2>1. old \in 1 .. MaxPosition
    BY <1>3, Numbers, SMTT(30) DEF Abs
  <2> HIDE DEF old
  <2>2. QED
    BY <2>1, ExactQuotient, MinOfTwo, Numbers
<1>8. LET after == VwapAfter(side, p, e)
      IN  /\ pos = 0 => after = [s \in Sides |-> 0]
          /\ pos # 0 /\ position * v >= 0 =>
                after = [openVwap EXCEPT ![side] = openVwap[side] + p * e]
          /\ pos # 0 /\ position * v < 0 /\ pos * position < 0 =>
                after = [openVwap EXCEPT ![side] = p * Abs(pos), ![opp] = 0]
          /\ pos # 0 /\ position * v < 0 /\ ~(pos * position < 0) => after = openVwap
  <2>1. pos = 0 => VwapAfter(side, p, e) = [s \in Sides |-> 0]
    BY <1>3 DEF VwapAfter
  <2>2. pos # 0 /\ position * v >= 0 =>
            VwapAfter(side, p, e) = [openVwap EXCEPT ![side] = openVwap[side] + p * e]
    BY <1>3 DEF VwapAfter
  <2>3. ASSUME pos # 0, position * v < 0, pos * position < 0
        PROVE  VwapAfter(side, p, e) =
                  [openVwap EXCEPT ![side] = p * Abs(pos), ![opp] = 0]
    <3>1. ~(position * v >= 0)
      BY <1>3, <2>3
    <3>2. QED
      BY <2>3, <3>1 DEF VwapAfter
  <2>4. ASSUME pos # 0, position * v < 0, ~(pos * position < 0)
        PROVE  VwapAfter(side, p, e) = openVwap
    <3>1. ~(position * v >= 0)
      BY <1>3, <2>4
    <3>2. QED
      BY <2>4, <3>1 DEF VwapAfter
  <2>5. QED
    BY <2>1, <2>2, <2>3, <2>4
<1> HIDE DEF v, opp, pos, old
<1>9. /\ p * e \in Nat /\ v * e * p \in Int
  BY <1>3
\* What the cases have to show.
<1> DEFINE Kept == /\ openVwap' \in [Sides -> Nat] /\ realPnl' \in Int /\ cash' \in Int
                   /\ pos = 0 => openVwap'["BUY"] = 0 /\ openVwap'["SELL"] = 0
                   /\ ~reduced' => realPnl' = Unit * (cash' + Cost(pos, openVwap'))
<1>10. ASSUME position * v >= 0 PROVE Kept
  <2>1. pos * v > 0 /\ pos # 0 /\ ~lowers
    BY <1>3, <1>10
  <2>2. openVwap' = [openVwap EXCEPT ![side] = openVwap[side] + p * e]
    BY <1>4, <1>8, <1>10, <2>1
  <2>3. /\ openVwap' \in [Sides -> Nat] /\ openVwap'[side] = openVwap[side] + p * e
    BY <1>1, <1>2, <1>9, <2>2
  <2>4. realPnl' = realPnl
    BY <1>1, <1>4, <1>6, <1>10
  <2>5. /\ reduced' = reduced /\ (~reduced => cash' = cash - v * e * p)
        /\ cash' \in Int
    BY <1>1, <1>4, <1>9, <2>1
  <2>6. Cost(position, openVwap) = v * openVwap[side]
    <3>1. CASE position * v > 0
      BY <1>1, <1>2, <3>1, CostOfSide DEF v
    <3>2. CASE position * v = 0
      <4>1. position = 0
        BY <1>3, <3>2, Signs
      <4>2. v * openVwap[side] = 0
        BY <1>2, <1>3, <4>1
      <4>3. QED
        BY <4>1, <4>2, <1>1, CostOfSide
    <3>3. QED
      BY <1>3, <1>10, <3>1, <3>2
  <2>7. Cost(pos, openVwap') = v * (openVwap[side] + p * e)
    BY <1>2, <1>3, <2>1, <2>3, CostOfSide DEF v
  <2>8. ~reduced => realPnl' = Unit * (cash' + Cost(pos, openVwap'))
    <3>1. \A o, c \in Int : c + v * o = (c - v * e * p) + v * (o + p * e)
      BY <1>3
    <3>2. QED
      BY <1>1, <1>2, <2>4, <2>5, <2>6, <2>7, <3>1
  <2>9. QED
    BY <2>1, <2>3, <2>4, <2>5, <2>8, <1>1
\* The position is closed, and perhaps turned.
<1>11. ASSUME position * v < 0, pos * v >= 0 PROVE Kept
  <2>1. e >= old /\ Min({e, old}) = old /\ pos * v = e - old /\ ~lowers
        /\ old \in Nat
    BY <1>3, <1>7, <1>11
  <2>2. old * (openVwap[opp] * (Unit \div old) - p * Unit) = Unit * (openVwap[opp] - p * old)
    BY <1>2, <1>5, <1>7, <1>11, <2>1, ClosingPays
  <2>3. Realised(side, p, e) = v * (Unit * (openVwap[opp] - p * old))
    <3> DEFINE y == openVwap[opp] * (Unit \div old) - p * Unit
    <3>1. y \in Int
      BY <1>2, <1>5, <1>7, <1>11
    <3>2. Realised(side, p, e) = v * old * y
      BY <1>6, <1>11, <2>1
    <3> HIDE DEF y
    <3>3. v * old * y = v * (old * y)
      BY <1>3, <2>1, <3>1
    <3>4. QED
      BY <2>2, <3>2, <3>3 DEF y
  <2>4. Cost(position, openVwap) = -(v * openVwap[opp])
    BY <1>1, <1>11, CostOfSide DEF v, opp
  <2>5. /\ reduced' = reduced /\ (~reduced => cash' = cash - v * e * p)
        /\ cash' \in Int
    BY <1>1, <1>4, <1>9, <2>1
  <2>6. realPnl' \in Int
    BY <1>1, <1>2, <1>3, <1>4, <1>5, <2>1, <2>3
  <2>7. ASSUME ~reduced
        PROVE  realPnl' = Unit * (cash' + v * (p * (e - old)))
    <3> DEFINE o == openVwap[opp]
    <3>1. realPnl' = Unit * (cash + -(v * o)) + v * (Unit * (o - p * old))
      BY <1>1, <1>4, <2>3, <2>4, <2>7
    <3>2. /\ o \in Int /\ cash \in Int /\ v \in Int /\ old \in Int /\ Unit \in Int
          /\ e \in Int /\ p \in Int
      BY <1>1, <1>2, <1>3, <1>5, <2>1
    <3> HIDE DEF o
    <3>3. Unit * (cash + -(v * o)) + v * (Unit * (o - p * old))
             = Unit * ((cash - v * e * p) + v * (p * (e - old)))
      BY <3>2
    <3>4. QED
      BY <2>5, <2>7, <3>1, <3>3
  <2>8. CASE pos = 0
    <3>1. openVwap' = [s \in Sides |-> 0]
      BY <1>4, <1>8, <2>8
    <3>2. openVwap' \in [Sides -> Nat] /\ openVwap'["BUY"] = 0 /\ openVwap'["SELL"] = 0
      BY <3>1 DEF Sides
    <3>3. Cost(pos, openVwap') = 0 /\ v * (p * (e - old)) = 0
      <4>1. e - old = 0
        BY <1>3, <2>1, <2>8
      <4>2. QED
        BY <1>3, <2>8, <3>2, <4>1, CostOfSide
    <3>4. QED
      BY <2>5, <2>6, <2>7, <3>2, <3>3
  <2>9. CASE pos # 0
    <3>1. pos * v > 0 /\ pos * position < 0 /\ Abs(pos) = e - old
      BY <1>3, <1>11, <2>1, <2>9
    <3>2. openVwap' = [openVwap EXCEPT ![side] = p * (e - old), ![opp] = 0]
      BY <1>4, <1>8, <1>11, <2>9, <3>1
    <3>3. p * (e - old) \in Nat
      BY <2>1
    <3>4. openVwap' \in [Sides -> Nat] /\ openVwap'[side] = p * (e - old)
      BY <1>1, <1>2, <3>2, <3>3
    <3>5. Cost(pos, openVwap') = v * (p * (e - old))
      BY <1>3, <3>1, <3>4, CostOfSide DEF v
    <3>6. QED
      BY <2>5, <2>6, <2>7, <2>9, <3>4, <3>5
  <2>10. QED
    BY <2>8, <2>9
\* A part of the position is closed.
<1>12. ASSUME position * v < 0, pos * v < 0 PROVE Kept
  <2>1. lowers /\ pos # 0 /\ ~(pos * position < 0)
    BY <1>3, <1>12
  <2>2. reduced' = TRUE /\ cash' = 0
    BY <1>4, <2>1
  <2>3. openVwap' = openVwap
    BY <1>4, <1>8, <1>12, <2>1
  <2>4. Realised(side, p, e) \in Int
    BY <1>2, <1>3, <1>5, <1>6, <1>7, <1>12
  <2>5. QED
    BY <1>1, <1>4, <2>1, <2>2, <2>3, <2>4
<1>13. Kept
  BY <1>3, <1>10, <1>11, <1>12
<1>14. unrealPnl' \in Int
  <2>1. openVwap'["BUY"] \in Nat /\ openVwap'["SELL"] \in Nat
    BY <1>13 DEF Sides
  <2>2. Unrealised(pos, openVwap', 2 * p) \in Int
    BY <1>3, <1>5, <2>1 DEF Unrealised
  <2>3. QED
    BY <1>4, <2>2
<1>15. reduced' \in BOOLEAN
  BY <1>1, <1>4
<1>16. ProfitIsCash'
  BY <1>4, <1>13 DEF ProfitIsCash, Cost
<1>17. AccountInv'
  BY <1>4, <1>13, <1>14, <1>15, <1>16 DEF AccountInv
<1>18. QED
  BY <1>4, <1>17 DEF pos, v


-----------------------------------------------------------------------------
(* The steps. *)

LEMMA OnOrderUpdateKeeps ==
    ASSUME EngineInv, OnOrderUpdate
    PROVE  EngineInv'
<1> DEFINE r == responses[1]
<1>1. /\ slot \in [Sides -> SlotType] /\ nextId \in Nat
      /\ requests \in Seq(RequestType) /\ responses \in Seq(ResponseType)
      /\ resting \subseteq OrderType /\ position \in Int /\ traded \in Int
      /\ IdsInv(Work) /\ LimitInv(Work)
  BY EngineTypes
<1>2. /\ responses # <<>> /\ Head(responses) = r /\ r \in ResponseType
      /\ responses' \in Seq(ResponseType) /\ responses' = Tail(responses)
  BY <1>1, TailFacts DEF OnOrderUpdate
<1>3. /\ slot' = OrderUpdate(r)
      /\ IF r.type = "FILLED" THEN AddFill(r.side, r.price, r.exec)
         ELSE UNCHANGED positionVars
      /\ ticker' = ticker /\ algo' = algo /\ nextId' = nextId /\ requests' = requests
      /\ resting' = resting /\ exchange' = exchange /\ traded' = traded
  BY <1>2 DEF OnOrderUpdate, exchangeVars
<1>4. slot' \in [Sides -> SlotType] /\ \A s \in Sides : slot'[s].id = slot[s].id
  BY <1>1, <1>2, <1>3, OrderUpdateFacts
<1>5. WorkInv(Work)'
  <2>1. (Work \in WorkType)'
    BY <1>1, <1>3, <1>4 DEF Work, WorkType
  <2>2. \A s \in Sides : /\ OneOrder(Work, s)' /\ NewInv(Work, s)'
                         /\ RestInv(Work, s)' /\ AckInv(Work, s)'
    BY <1>2, <1>3, OnOrderUpdateSide
  <2>3. IdsInv(Work)'
    BY <1>1, <1>3, <1>4, WorkFields DEF IdsInv, Sides
  <2>4. LimitInv(Work)'
    BY <1>1, <1>3, WorkFields DEF LimitInv
  <2>5. QED
    BY <2>1, <2>2, <2>3, <2>4 DEF WorkInv
<1>6. AccountInv' /\ position' = position + Executed(r, "BUY") - Executed(r, "SELL")
  <2>1. CASE r.type = "FILLED"
    <3>1. /\ r.side \in Sides /\ r.price \in Nat /\ r.exec \in Nat /\ r.exec >= 1
      BY <1>2, <2>1, Numbers DEF ResponseType
    <3>2. AccountInv /\ position <= MaxPosition /\ position >= -MaxPosition
      BY FlowLags DEF EngineInv
    <3>3. AccountInv' /\ position' = position + Value(r.side) * r.exec
      BY <1>1, <1>3, <2>1, <3>1, <3>2, AddFillKeeps
    <3>4. position + Value(r.side) * r.exec
            = position + Executed(r, "BUY") - Executed(r, "SELL")
      BY <1>1, <2>1, <3>1 DEF Sides, Value, Executed, IsFill
    <3>5. QED
      BY <3>3, <3>4
  <2>2. CASE r.type # "FILLED"
    <3>1. UNCHANGED positionVars /\ Executed(r, "BUY") = 0 /\ Executed(r, "SELL") = 0
      BY <1>3, <2>2 DEF Executed, IsFill
    <3>2. AccountInv'
      BY <3>1 DEF EngineInv, AccountInv, ProfitIsCash, positionVars
    <3>3. QED
      BY <1>1, <3>1, <3>2 DEF positionVars
  <2>3. QED
    BY <2>1, <2>2
<1>7. FlowInv'
  BY <1>2, <1>3, <1>6, FlowTail
<1>8. position' \in Int
  BY <1>1, <1>2, <1>6, ExecutedIsNat
<1>9. QED
  BY <1>1, <1>2, <1>3, <1>5, <1>6, <1>7, <1>8 DEF EngineInv


\* moveOrders(), with nothing happening on the way to the exchange and back.
LEMMA MoveOrdersKeep ==
    ASSUME EngineInv, NEW pnl, NEW bid \in Int, bid >= -1, NEW ask \in Int, ask >= -1,
           MoveOrders(pnl, bid, ask), UNCHANGED <<ticker, responses, resting, traded>>
    PROVE  WorkInv(Work)' /\ nextId' \in Nat /\ nextId' <= nextId + 2
<1> DEFINE mid == MoveOrder(Work, pnl, "BUY", bid)
           after == MoveOrder(mid, pnl, "SELL", ask)
<1>1. LagInv /\ WorkInv(Work) /\ nextId \in Nat
  BY FlowLags, EngineTypes DEF EngineInv
<1>2. "BUY" \in Sides /\ "SELL" \in Sides
  BY DEF Sides
<1>3. WorkInv(mid) /\ (mid.nextId = nextId \/ mid.nextId = nextId + 1)
  BY <1>1, <1>2, MoveOrderKeeps, WorkFields
<1> HIDE DEF mid
<1>4. WorkInv(after) /\ (after.nextId = mid.nextId \/ after.nextId = mid.nextId + 1)
  BY <1>1, <1>2, <1>3, MoveOrderKeeps
<1>5. slot' = after.slot /\ nextId' = after.nextId /\ requests' = after.requests
  BY DEF MoveOrders, mid, Work
<1> HIDE DEF after
<1>6. after = Work'
  <2>1. after \in WorkType
    BY <1>4 DEF WorkInv
  <2>2. after = [slot |-> after.slot, nextId |-> after.nextId, requests |-> after.requests]
    BY <2>1 DEF WorkType
  <2>3. QED
    BY <1>5, <2>2 DEF Work
<1>7. WorkInv(Work)'
  <2>1. WorkType' = WorkType /\ Work' \in WorkType
    BY <1>4, <1>6 DEF WorkInv, WorkType, SlotType, RequestType, States, Sides
  <2>2. ASSUME NEW s \in Sides
        PROVE  /\ OneOrder(Work, s)' /\ NewInv(Work, s)'
               /\ RestInv(Work, s)' /\ AckInv(Work, s)'
    <3>1. /\ OneOrder(after, s) /\ NewInv(after, s) /\ RestInv(after, s) /\ AckInv(after, s)
      BY <1>4 DEF WorkInv
    <3>2. OneOrder(Work, s)'
      BY <1>6, <3>1 DEF OneOrder, Quiet
    <3>3. NewInv(Work, s)'
      BY <1>6, <3>1 DEF NewInv, Quiet
    <3>4. RestInv(Work, s)'
      BY <1>6, <3>1 DEF RestInv
    <3>5. AckInv(Work, s)'
      BY <1>6, <3>1 DEF AckInv, Alive
    <3>6. QED
      BY <3>2, <3>3, <3>4, <3>5
  <2>3. IdsInv(Work)'
    BY <1>4, <1>6 DEF WorkInv, IdsInv
  <2>4. LimitInv(Work)'
    BY <1>4, <1>6 DEF WorkInv, LimitInv
  <2>5. QED
    BY <2>1, <2>2, <2>3, <2>4 DEF WorkInv
<1>8. QED
  BY <1>1, <1>3, <1>4, <1>5, <1>7

\* The market's updates leave the responses and the exchange alone.
LEMMA FlowStays ==
    ASSUME FlowInv, UNCHANGED <<responses, position, traded>>
    PROVE  FlowInv'
BY DEF FlowInv

LEMMA BoundHolds ==
    ASSUME EngineInv, WithinBounds, algo' = algo, nextId' \in Nat, nextId' <= nextId + 2
    PROVE  nextId' <= MaxOrders[algo'] + 1
<1>1. MaxOrders[algo] \in Nat /\ nextId \in Nat
  BY EngineAssumption, EngineTypes DEF EngineInv
<1>2. nextId < MaxOrders[algo]
  BY DEF WithinBounds
<1>3. QED
  BY <1>1, <1>2

LEMMA OnOrderBookUpdateKeeps ==
    ASSUME EngineInv, NEW q \in Quotes, OnOrderBookUpdate(q)
    PROVE  EngineInv'
<1> DEFINE unreal == IF position = 0 THEN unrealPnl
                     ELSE Unrealised(position, openVwap, q.bid + q.ask)
<1>1. /\ WithinBounds /\ unrealPnl' = unreal
      /\ AlgoOnOrderBookUpdate(unreal + realPnl, q)
      /\ ticker' = ticker /\ algo' = algo /\ position' = position /\ openVwap' = openVwap
      /\ realPnl' = realPnl /\ reduced' = reduced /\ cash' = cash
      /\ responses' = responses /\ resting' = resting /\ exchange' = exchange
      /\ traded' = traded
  BY DEF OnOrderBookUpdate, exchangeVars
<1>2. q.bid \in Nat /\ q.ask \in Nat
  BY Numbers DEF Quotes
<1>3. WorkInv(Work)' /\ nextId' \in Nat /\ nextId' <= nextId + 2
  <2>1. CASE algo = "MAKER"
    <3>1. MoveOrders(unreal + realPnl, MakerBid(q), MakerAsk(q))
      BY <1>1, <2>1 DEF AlgoOnOrderBookUpdate
    <3>2. /\ MakerBid(q) \in Int /\ MakerBid(q) >= -1
          /\ MakerAsk(q) \in Int /\ MakerAsk(q) >= -1
      BY <1>2 DEF MakerBid, MakerAsk
    <3> HIDE DEF unreal
    <3>3. QED
      BY <1>1, <3>1, <3>2, MoveOrdersKeep
  <2>2. CASE algo # "MAKER"
    <3>1. slot' = slot /\ nextId' = nextId /\ requests' = requests
      BY <1>1, <2>2 DEF AlgoOnOrderBookUpdate
    <3>2. nextId' \in Nat /\ nextId' <= nextId + 2
      BY <3>1, EngineTypes
    <3>3. Work' = Work
      BY <3>1 DEF Work
    <3>4. WorkInv(Work)'
      BY <1>1, <3>3 DEF EngineInv, WorkInv, WorkType, SlotType, RequestType, States, Sides,
             OneOrder, NewInv, RestInv, AckInv, Quiet, Alive, IdsInv, LimitInv
    <3>5. QED
      BY <3>2, <3>4
  <2>3. QED
    BY <2>1, <2>2
<1>4. AccountInv'
  <2>1. AccountInv /\ position \in Int
    BY DEF EngineInv
  <2>2. unreal \in Int
    <3>1. /\ openVwap["BUY"] \in Nat /\ openVwap["SELL"] \in Nat /\ unrealPnl \in Int
          /\ Unit \div 2 \in Int
      BY <2>1, Numbers, Division DEF AccountInv, Sides
    <3>2. QED
      BY <1>2, <2>1, <3>1 DEF Unrealised
  <2>3. QED
    BY <1>1, <2>1, <2>2 DEF AccountInv, ProfitIsCash
<1>5. FlowInv' /\ nextId' <= MaxOrders[algo'] + 1
  BY <1>1, <1>3, FlowStays, BoundHolds DEF EngineInv
<1>6. QED
  BY <1>1, <1>3, <1>4, <1>5 DEF EngineInv

LEMMA OnTradeUpdateKeeps ==
    ASSUME EngineInv, NEW q \in Quotes, NEW side \in Sides, NEW size,
           OnTradeUpdate(q, side, size)
    PROVE  EngineInv'
<1>1. /\ WithinBounds
      /\ \E bid, ask \in Int :
            bid >= -1 /\ ask >= -1 /\ MoveOrders(unrealPnl + realPnl, bid, ask)
      /\ ticker' = ticker /\ algo' = algo /\ UNCHANGED positionVars
      /\ responses' = responses /\ resting' = resting /\ exchange' = exchange
      /\ traded' = traded
  <2>1. q.bid \in Int /\ q.ask \in Int /\ q.bid >= -1 /\ q.ask >= -1
    <3>1. q.bid \in Nat /\ q.ask \in Nat
      BY Numbers DEF Quotes
    <3>2. QED
      BY <3>1
  <2>2. NoPrice \in Int /\ NoPrice >= -1
    BY DEF NoPrice
  <2>3. \/ MoveOrders(unrealPnl + realPnl, q.ask, NoPrice)
        \/ MoveOrders(unrealPnl + realPnl, NoPrice, q.bid)
    BY DEF OnTradeUpdate, AlgoOnTradeUpdate
  <2>4. \E bid, ask \in Int :
            bid >= -1 /\ ask >= -1 /\ MoveOrders(unrealPnl + realPnl, bid, ask)
    BY <2>1, <2>2, <2>3
  <2>5. QED
    BY <2>4 DEF OnTradeUpdate, exchangeVars
<1>2. WorkInv(Work)' /\ nextId' \in Nat /\ nextId' <= nextId + 2
  BY <1>1, MoveOrdersKeep
<1>3. position' = position /\ AccountInv'
  BY <1>1 DEF EngineInv, AccountInv, ProfitIsCash, positionVars
<1>4. FlowInv' /\ nextId' <= MaxOrders[algo'] + 1
  BY <1>1, <1>2, <1>3, FlowStays, BoundHolds DEF EngineInv
<1>5. QED
  BY <1>1, <1>2, <1>3, <1>4 DEF EngineInv


\* The exchange takes a request or none, and answers with x or not at all.
Takes == \/ requests' = requests
         \/ requests # <<>> /\ requests' = Tail(requests)
Answers(x) == responses' = responses \/ responses' = Append(responses, x)

LEMMA TakesFacts ==
    ASSUME requests \in Seq(RequestType), Takes
    PROVE  /\ requests' \in Seq(RequestType)
           /\ \E d \in {0, 1} : \A i \in 1 .. Len(requests') :
                 i + d \in 1 .. Len(requests) /\ requests'[i] = requests[i + d]
<1>1. CASE requests' = requests
  <2>1. \A i \in 1 .. Len(requests') :
            i + 0 \in 1 .. Len(requests) /\ requests'[i] = requests[i + 0]
    BY <1>1
  <2>2. QED
    BY <1>1, <2>1
<1>2. CASE requests # <<>> /\ requests' = Tail(requests)
  BY <1>2, TailFacts
<1>3. QED
  BY <1>1, <1>2 DEF Takes

LEMMA AnswersFacts ==
    ASSUME responses \in Seq(ResponseType), NEW x \in ResponseType, Answers(x)
    PROVE  /\ responses' \in Seq(ResponseType) /\ Len(responses) \in Nat
           /\ \A j \in 1 .. Len(responses) :
                 j \in 1 .. Len(responses') /\ responses'[j] = responses[j]
           /\ \A j \in 1 .. Len(responses') :
                 j \in 1 .. Len(responses) \/ (j = Len(responses) + 1 /\ responses'[j] = x)
<1>1. CASE responses' = responses
  BY <1>1
<1>2. CASE responses' = Append(responses, x)
  BY <1>2, AppendFacts
<1>3. QED
  BY <1>1, <1>2 DEF Answers

\* A side that the exchange's step does not concern.
LEMMA SideUntouched ==
    ASSUME EngineInv, NEW s \in Sides, NEW x \in ResponseType,
           UNCHANGED <<ticker, slot>>, Takes, Answers(x),
           ticker = ClientId => ~IsAck(x, s), ~IsFill(x, s), ~IsEnd(x, s),
           \A o \in resting' : o.side = s => o \in resting,
           \A o \in resting : o.side = s => o \in resting'
    PROVE  OneOrder(Work, s)' /\ NewInv(Work, s)' /\ RestInv(Work, s)' /\ AckInv(Work, s)'
<1> DEFINE n == Len(responses)
           n1 == Len(responses')
<1>1. /\ OneOrder(Work, s) /\ NewInv(Work, s) /\ RestInv(Work, s) /\ AckInv(Work, s)
      /\ requests \in Seq(RequestType) /\ responses \in Seq(ResponseType)
  BY EngineTypes
<1>2. PICK d \in {0, 1} : \A i \in 1 .. Len(requests') :
          i + d \in 1 .. Len(requests) /\ requests'[i] = requests[i + d]
  BY <1>1, TakesFacts
<1>3. /\ n \in Nat
      /\ \A j \in 1 .. n : j \in 1 .. n1 /\ responses'[j] = responses[j]
      /\ \A j \in 1 .. n1 : j \in 1 .. n \/ (j = n + 1 /\ responses'[j] = x)
  BY <1>1, AnswersFacts
<1>4. \A j \in 1 .. n1 :
          /\ IsEnd(responses'[j], s) =>
                j \in 1 .. n /\ responses'[j] = responses[j] /\ IsEnd(responses[j], s)
          /\ IsFill(responses'[j], s) =>
                j \in 1 .. n /\ responses'[j] = responses[j] /\ IsFill(responses[j], s)
          /\ ticker = ClientId /\ IsAck(responses'[j], s) =>
                j \in 1 .. n /\ responses'[j] = responses[j] /\ IsAck(responses[j], s)
  BY <1>3
<1>5. \A i \in 1 .. Len(requests') : IsNew(requests'[i], s) =>
          /\ i + d \in 1 .. Len(requests) /\ requests'[i] = requests[i + d]
          /\ IsNew(requests[i + d], s)
  BY <1>2
<1>6. /\ Work'.slot = slot /\ Work'.requests = requests' /\ Work.slot = slot
      /\ Work.requests = requests /\ ticker' = ticker
  BY WorkFields
<1>7. Quiet(s) => Quiet(s)'
  BY <1>4 DEF Quiet
<1>8. Alive(s) => Alive(s)'
  BY <1>3 DEF Alive
<1>9. OneOrder(Work, s)'
  <2>1. \A i, j \in 1 .. Len(requests') :
            IsNew(requests'[i], s) /\ IsNew(requests'[j], s) => i = j
    <3> SUFFICES ASSUME NEW i \in 1 .. Len(requests'), NEW j \in 1 .. Len(requests'),
                        IsNew(requests'[i], s), IsNew(requests'[j], s)
                 PROVE  i = j
      OBVIOUS
    <3>1. i + d = j + d
      BY <1>1, <1>5, <1>6 DEF OneOrder
    <3>2. QED
      BY <3>1
  <2>2. \A o, p \in resting' : o.side = s /\ p.side = s => o = p
    BY <1>1 DEF OneOrder
  <2>3. \A i, j \in 1 .. n1 :
            /\ IsEnd(responses'[i], s)
            /\ IsEnd(responses'[j], s) \/ IsFill(responses'[j], s)
            => j <= i
    BY <1>1, <1>4 DEF OneOrder
  <2>4. QED
    BY <1>1, <1>6, <1>7, <2>1, <2>2, <2>3 DEF OneOrder
<1>10. NewInv(Work, s)'
  BY <1>1, <1>5, <1>6, <1>7 DEF NewInv
<1>11. RestInv(Work, s)'
  <2> SUFFICES ASSUME NEW o \in resting', o.side = s
               PROVE  /\ o.id = slot[s].id /\ o.price = slot[s].price
                      /\ ~Free(slot[s])
                      /\ \A j \in 1 .. n1 : ~IsEnd(responses'[j], s)
                      /\ (\A j \in 1 .. n1 : ~IsFill(responses'[j], s)) =>
                            slot[s].quantity = o.leaves
                      /\ \A j \in 1 .. n1 :
                            /\ IsFill(responses'[j], s)
                            /\ \A k \in 1 .. n1 : k > j => ~IsFill(responses'[k], s)
                            => responses'[j].leaves = o.leaves
    BY <1>6 DEF RestInv
  <2>1. /\ o.id = slot[s].id /\ o.price = slot[s].price /\ ~Free(slot[s])
        /\ \A j \in 1 .. n : ~IsEnd(responses[j], s)
        /\ (\A j \in 1 .. n : ~IsFill(responses[j], s)) => slot[s].quantity = o.leaves
        /\ \A j \in 1 .. n :
              /\ IsFill(responses[j], s)
              /\ \A k \in 1 .. n : k > j => ~IsFill(responses[k], s)
              => responses[j].leaves = o.leaves
    BY <1>1, <1>6 DEF RestInv
  <2>2. QED
    BY <1>3, <1>4, <2>1, SMTT(30)
<1>12. AckInv(Work, s)'
  <2> SUFFICES ASSUME ticker = ClientId
               PROVE  AckInv(Work, s)'
    BY <1>6 DEF AckInv
  <2>1. /\ \A i \in 1 .. Len(requests) : IsNew(requests[i], s) =>
              /\ slot[s].state = "PENDING_NEW"
              /\ \A j \in 1 .. n : ~IsAck(responses[j], s)
        /\ slot[s].state = "LIVE" =>
              /\ Alive(s)
              /\ \A j \in 1 .. n : ~IsAck(responses[j], s)
        /\ \A i \in 1 .. n : IsAck(responses[i], s) =>
              /\ slot[s].state = "PENDING_NEW" /\ Alive(s)
              /\ \A j \in 1 .. n :
                    \/ IsAck(responses[j], s) \/ IsEnd(responses[j], s)
                    \/ IsFill(responses[j], s)
                    => i <= j
    BY <1>1, <1>6 DEF AckInv
  <2>2. QED
    BY <1>4, <1>5, <1>6, <1>8, <2>1 DEF AckInv
<1>13. QED
  BY <1>9, <1>10, <1>11, <1>12


LEMMA ExchangeStep ==
    ASSUME EngineInv, NEW x \in ResponseType, UNCHANGED <<orderVars, positionVars>>,
           Takes, Answers(x), resting' \subseteq OrderType, \A o \in resting' : o.id >= 1,
           exchange' \in {"running", "terminated"}, traded' \in Int,
           \A s \in Sides : /\ OneOrder(Work, s)' /\ NewInv(Work, s)'
                            /\ RestInv(Work, s)' /\ AckInv(Work, s)',
           LimitInv(Work)', FlowInv'
    PROVE  EngineInv'
<1>1. /\ slot \in [Sides -> SlotType] /\ nextId \in Nat
      /\ requests \in Seq(RequestType) /\ responses \in Seq(ResponseType)
      /\ position \in Int /\ IdsInv(Work)
  BY EngineTypes
<1>2. /\ slot' = slot /\ nextId' = nextId /\ algo' = algo /\ ticker' = ticker
      /\ position' = position
  BY DEF orderVars, positionVars
<1>3. requests' \in Seq(RequestType) /\ responses' \in Seq(ResponseType)
  BY <1>1, TakesFacts, AnswersFacts
<1>4. (Work \in WorkType)'
  BY <1>1, <1>2, <1>3 DEF Work, WorkType
<1>5. IdsInv(Work)'
  <2>1. PICK d \in {0, 1} : \A i \in 1 .. Len(requests') :
            i + d \in 1 .. Len(requests) /\ requests'[i] = requests[i + d]
    BY <1>1, TakesFacts
  <2>2. QED
    BY <1>1, <1>2, <2>1, WorkFields DEF IdsInv
<1>6. WorkInv(Work)'
  BY <1>4, <1>5 DEF WorkInv
<1>7. AccountInv'
  BY DEF EngineInv, AccountInv, ProfitIsCash, positionVars
<1>8. QED
  BY <1>1, <1>2, <1>3, <1>6, <1>7 DEF EngineInv

\* An answer that tells of no execution.
LEMMA QuietAnswer ==
    ASSUME EngineInv, NEW x \in ResponseType, Answers(x), x.type # "FILLED",
           UNCHANGED <<traded, position>>
    PROVE  FlowInv'
<1>1. CASE responses' = responses
  BY <1>1, FlowStays DEF EngineInv
<1>2. CASE responses' = Append(responses, x)
  <2>1. Executed(x, "BUY") = 0 /\ Executed(x, "SELL") = 0
    BY DEF Executed, IsFill
  <2>2. traded \in Int /\ traded <= MaxPosition /\ traded >= -MaxPosition
    BY EngineTypes DEF LimitInv
  <2>3. traded' = traded + Executed(x, "BUY") - Executed(x, "SELL")
    BY <2>1, <2>2
  <2>4. QED
    BY <1>2, <2>2, <2>3, FlowAppend
<1>3. QED
  BY <1>1, <1>2 DEF Answers

LEMMA ForeignAcceptedKeeps ==
    ASSUME EngineInv, NEW side \in Sides, ForeignAccepted(side)
    PROVE  EngineInv'
<1> DEFINE x == [type |-> "ACCEPTED", side |-> side]
<1>1. x \in ResponseType /\ x.type = "ACCEPTED"
  BY DEF ResponseType
<1>2. /\ ClientId # ticker /\ responses' = Append(responses, x) /\ requests' = requests
      /\ UNCHANGED <<orderVars, positionVars>>
      /\ resting' = resting /\ exchange' = exchange /\ traded' = traded
      /\ ticker' = ticker /\ slot' = slot /\ position' = position
  BY DEF ForeignAccepted, exchangeVars, orderVars, positionVars
<1> HIDE DEF x
<1>3. Takes /\ Answers(x)
  BY <1>2 DEF Takes, Answers
<1>4. \A s \in Sides : ~IsFill(x, s) /\ ~IsEnd(x, s)
  BY <1>1 DEF IsFill, IsEnd
<1>5. \A s \in Sides : /\ OneOrder(Work, s)' /\ NewInv(Work, s)'
                       /\ RestInv(Work, s)' /\ AckInv(Work, s)'
  BY <1>1, <1>2, <1>3, <1>4, SideUntouched
<1>6. FlowInv'
  BY <1>1, <1>2, <1>3, QuietAnswer
<1>7. LimitInv(Work)'
  BY <1>2, EngineTypes, WorkFields DEF LimitInv
<1>8. /\ resting \subseteq OrderType /\ traded \in Int
      /\ \A o \in resting : o.id >= 1
      /\ exchange \in {"running", "terminated"}
  BY EngineTypes DEF IdsInv, EngineInv
<1>9. QED
  BY <1>1, <1>2, <1>3, <1>5, <1>6, <1>7, <1>8, ExchangeStep

\* The order comes to the exchange.
LEMMA AddedSide ==
    ASSUME EngineInv, NEW x \in ResponseType, UNCHANGED <<ticker, slot>>,
           requests # <<>>, requests[1].type = "NEW", requests' = Tail(requests),
           NEW s \in Sides, s = requests[1].side, x.type = "ACCEPTED", x.side = s,
           responses' = IF ClientId # ticker THEN responses ELSE Append(responses, x),
           resting' = resting \cup {[id |-> requests[1].id, side |-> requests[1].side,
                                     price |-> requests[1].price,
                                     leaves |-> requests[1].quantity]}
    PROVE  OneOrder(Work, s)' /\ NewInv(Work, s)' /\ RestInv(Work, s)' /\ AckInv(Work, s)'
<1> DEFINE q == requests[1]
           new == [id |-> q.id, side |-> s, price |-> q.price, leaves |-> q.quantity]
           n == Len(responses)
           n1 == Len(responses')
<1>1. /\ requests \in Seq(RequestType) /\ responses \in Seq(ResponseType)
  BY EngineTypes
<1>2. /\ q \in RequestType /\ q.quantity = Clip /\ IsNew(q, s)
      /\ 1 \in 1 .. Len(requests)
      /\ Len(requests') = Len(requests) - 1 /\ Len(requests) \in Nat
      /\ \A i \in 1 .. Len(requests) - 1 :
            requests'[i] = requests[i + 1] /\ i + 1 \in 1 .. Len(requests)
  <2>1. q \in RequestType
    BY <1>1, TailFacts
  <2>2. q.quantity = Clip
    BY <2>1 DEF RequestType
  <2>3. QED
    BY <1>1, <2>1, <2>2, TailFacts DEF IsNew
<1>3. /\ new.side = s /\ new.id = q.id /\ new.price = q.price /\ new.leaves = Clip
  BY <1>2
<1>4. resting' = resting \cup {new}
  OBVIOUS
<1> HIDE DEF q, new
<1>5. /\ OneOrder(Work, s) /\ NewInv(Work, s) /\ RestInv(Work, s) /\ AckInv(Work, s)
  BY <1>2, EngineTypes
<1>6. /\ Work'.slot = slot /\ Work'.requests = requests' /\ Work.slot = slot
      /\ Work.requests = requests /\ ticker' = ticker
  BY WorkFields
<1>7. /\ q.id = slot[s].id /\ q.price = slot[s].price /\ slot[s].quantity = Clip
      /\ ~Free(slot[s]) /\ (\A o \in resting : o.side # s) /\ Quiet(s)
  BY <1>2, <1>5, <1>6 DEF NewInv, q
<1>8. \A i \in 1 .. Len(requests') : ~IsNew(requests'[i], s)
  <2> SUFFICES ASSUME NEW i \in 1 .. Len(requests'), IsNew(requests'[i], s)
               PROVE  FALSE
    OBVIOUS
  <2>1. i \in 1 .. Len(requests) - 1 /\ IsNew(requests[i + 1], s) /\ i + 1 \in 1 .. Len(requests)
    BY <1>2
  <2>2. i + 1 = 1
    BY <1>2, <1>5, <1>6, <2>1 DEF OneOrder, q
  <2>3. QED
    BY <2>1, <2>2
<1>9. \A o \in resting' : o.side = s => o = new
  BY <1>4, <1>7
<1>10. ~IsFill(x, s) /\ ~IsEnd(x, s)
  BY DEF IsFill, IsEnd
<1>11. /\ n \in Nat
       /\ \A j \in 1 .. n1 : \/ j \in 1 .. n /\ responses'[j] = responses[j]
                             \/ j = n + 1 /\ responses'[j] = x
  <2>1. Answers(x)
    BY DEF Answers
  <2>2. QED
    BY <1>1, <2>1, AnswersFacts
<1>12. \A j \in 1 .. n1 : ~IsFill(responses'[j], s) /\ ~IsEnd(responses'[j], s)
  BY <1>7, <1>10, <1>11 DEF Quiet
<1>13. OneOrder(Work, s)'
  BY <1>6, <1>8, <1>9, <1>12 DEF OneOrder, Quiet
<1>14. NewInv(Work, s)'
  BY <1>6, <1>8 DEF NewInv
<1>15. RestInv(Work, s)'
  BY <1>3, <1>6, <1>7, <1>9, <1>12 DEF RestInv
<1>16. AckInv(Work, s)'
  <2> SUFFICES ASSUME ticker = ClientId
               PROVE  AckInv(Work, s)'
    BY <1>6 DEF AckInv
  <2>1. slot[s].state = "PENDING_NEW" /\ \A j \in 1 .. n : ~IsAck(responses[j], s)
    BY <1>2, <1>5, <1>6 DEF AckInv, q
  <2>2. Alive(s)'
    BY <1>3, <1>4 DEF Alive
  <2>3. \A j \in 1 .. n1 : IsAck(responses'[j], s) => j = n + 1
    BY <1>11, <2>1
  <2>4. n + 1 <= n + 1
    BY <1>11
  <2>5. QED
    BY <1>6, <1>8, <1>12, <2>1, <2>2, <2>3, <2>4 DEF AckInv
<1>17. QED
  BY <1>13, <1>14, <1>15, <1>16


LEMMA ExchangeAddsKeeps ==
    ASSUME EngineInv, ExchangeAdds
    PROVE  EngineInv'
<1> DEFINE q == requests[1]
           s0 == q.side
           x == [type |-> "ACCEPTED", side |-> s0]
           new == [id |-> q.id, side |-> q.side, price |-> q.price, leaves |-> q.quantity]
<1>1. /\ requests \in Seq(RequestType) /\ resting \subseteq OrderType /\ traded \in Int
      /\ IdsInv(Work) /\ LimitInv(Work)
  BY EngineTypes
<1>2. /\ requests # <<>> /\ Head(requests) = q /\ q \in RequestType /\ q.type = "NEW"
      /\ 1 \in 1 .. Len(requests)
  BY <1>1, TailFacts DEF ExchangeAdds
<1>3. /\ requests' = Tail(requests) /\ UNCHANGED <<orderVars, positionVars>>
      /\ resting' = resting \cup {new}
      /\ responses' = IF ClientId # ticker THEN responses ELSE Append(responses, x)
      /\ exchange' = exchange /\ exchange = "running" /\ traded' = traded
      /\ ticker' = ticker /\ slot' = slot /\ position' = position
  BY <1>2 DEF ExchangeAdds, orderVars, positionVars
<1>4. /\ s0 \in Sides /\ q.quantity = Clip /\ q.id \in Nat /\ q.price \in Nat
  BY <1>2 DEF RequestType
<1>5. x \in ResponseType /\ x.type = "ACCEPTED" /\ x.side = s0
  BY <1>4 DEF ResponseType
<1>6. /\ new \in OrderType /\ new.side = s0 /\ new.leaves = Clip /\ new.id = q.id
  BY <1>4, Numbers DEF OrderType
<1>7. Takes /\ Answers(x)
  BY <1>2, <1>3 DEF Takes, Answers
<1>8. PICK d \in {0, 1} : \A i \in 1 .. Len(requests') :
          i + d \in 1 .. Len(requests) /\ requests'[i] = requests[i + d]
  BY <1>1, <1>7, TakesFacts
<1>9. \E s \in Sides : s = s0
  BY <1>4
<1>10. PICK s \in Sides : s = s0
  BY <1>9
<1> HIDE DEF x
<1>11. OneOrder(Work, s)' /\ NewInv(Work, s)' /\ RestInv(Work, s)' /\ AckInv(Work, s)'
  BY <1>2, <1>3, <1>5, <1>10, AddedSide
<1> HIDE DEF q, new, s0
<1>12. ASSUME NEW t \in Sides, t # s
       PROVE  OneOrder(Work, t)' /\ NewInv(Work, t)' /\ RestInv(Work, t)' /\ AckInv(Work, t)'
  <2>1. ~IsAck(x, t) /\ ~IsFill(x, t) /\ ~IsEnd(x, t)
    BY <1>5, <1>10, <1>12 DEF IsAck, IsFill, IsEnd
  <2>2. /\ \A o \in resting' : o.side = t => o \in resting
        /\ \A o \in resting : o \in resting'
    BY <1>3, <1>6, <1>10, <1>12
  <2>3. QED
    BY <1>3, <1>5, <1>7, <2>1, <2>2, SideUntouched
<1>13. \A t \in Sides : /\ OneOrder(Work, t)' /\ NewInv(Work, t)'
                        /\ RestInv(Work, t)' /\ AckInv(Work, t)'
  BY <1>11, <1>12
<1>14. LimitInv(Work)'
  <2>1. IsNew(q, "BUY") \/ IsNew(q, "SELL")
    BY <1>2, <1>4 DEF IsNew, Sides, s0
  <2>2. /\ q.side = "BUY" => traded + Clip <= MaxPosition
        /\ q.side = "SELL" => traded - Clip >= -MaxPosition
    BY <1>1, <1>2, WorkFields DEF LimitInv, IsNew, q
  <2>3. \A o \in resting' : /\ o.side = "BUY" => traded + o.leaves <= MaxPosition
                            /\ o.side = "SELL" => traded - o.leaves >= -MaxPosition
    BY <1>1, <1>3, <1>6, <2>2 DEF LimitInv, s0
  <2>4. QED
    BY <1>1, <1>3, <1>8, <2>3, WorkFields DEF LimitInv
<1>15. FlowInv'
  BY <1>3, <1>5, <1>7, QuietAnswer
<1>16. resting' \subseteq OrderType /\ \A o \in resting' : o.id >= 1
  <2>1. q.id >= 1 /\ \A o \in resting : o.id >= 1
    BY <1>1, <1>2, WorkFields DEF IdsInv, q
  <2>2. QED
    BY <1>1, <1>3, <1>6, <2>1
<1>17. QED
  BY <1>1, <1>3, <1>5, <1>7, <1>13, <1>14, <1>15, <1>16, ExchangeStep

\* The order ends at the exchange.
LEMMA EndedSide ==
    ASSUME EngineInv, NEW s \in Sides, NEW x \in ResponseType, IsEnd(x, s),
           NEW o \in resting, o.side = s,
           UNCHANGED <<ticker, slot>>, Takes, responses' = Append(responses, x),
           \A p \in resting' : p.side # s
    PROVE  OneOrder(Work, s)' /\ NewInv(Work, s)' /\ RestInv(Work, s)' /\ AckInv(Work, s)'
<1> DEFINE n == Len(responses)
<1>1. /\ OneOrder(Work, s) /\ NewInv(Work, s) /\ RestInv(Work, s) /\ AckInv(Work, s)
      /\ requests \in Seq(RequestType) /\ responses \in Seq(ResponseType)
  BY EngineTypes
<1>2. /\ Work'.slot = slot /\ Work'.requests = requests' /\ Work.slot = slot
      /\ Work.requests = requests /\ ticker' = ticker
  BY WorkFields
<1>3. /\ n \in Nat /\ Len(responses') = n + 1 /\ responses'[n + 1] = x
      /\ \A j \in 1 .. n : responses'[j] = responses[j]
      /\ \A j \in 1 .. n + 1 : j = n + 1 \/ j \in 1 .. n
      /\ \A j \in 1 .. n + 1 : j <= n + 1
      /\ n + 1 \in 1 .. n + 1
  BY <1>1, AppendFacts
<1>4. /\ ~Free(slot[s]) /\ \A j \in 1 .. n : ~IsEnd(responses[j], s)
  BY <1>1, <1>2 DEF RestInv
<1>5. \A i \in 1 .. Len(requests) : ~IsNew(requests[i], s)
  BY <1>1, <1>2 DEF NewInv
<1>6. \A i \in 1 .. Len(requests') : ~IsNew(requests'[i], s)
  BY <1>1, <1>5, TakesFacts
<1>7. \A i \in 1 .. n + 1 : IsEnd(responses'[i], s) => i = n + 1
  BY <1>3, <1>4
<1>8. OneOrder(Work, s)'
  BY <1>2, <1>3, <1>4, <1>6, <1>7 DEF OneOrder
<1>9. NewInv(Work, s)' /\ RestInv(Work, s)'
  BY <1>2, <1>6 DEF NewInv, RestInv
<1>10. AckInv(Work, s)'
  <2> SUFFICES ASSUME ticker = ClientId
               PROVE  AckInv(Work, s)'
    BY <1>2 DEF AckInv
  <2>1. Alive(s)'
    BY <1>3 DEF Alive
  <2>2. \A j \in 1 .. n + 1 : IsAck(responses'[j], s) =>
            j \in 1 .. n /\ IsAck(responses[j], s)
    BY <1>3 DEF IsAck, IsEnd
  <2>3. ASSUME NEW i \in 1 .. n + 1, IsAck(responses'[i], s), NEW j \in 1 .. n + 1,
               \/ IsAck(responses'[j], s) \/ IsEnd(responses'[j], s)
               \/ IsFill(responses'[j], s)
        PROVE  i <= j
    <3>1. i \in 1 .. n /\ IsAck(responses[i], s)
      BY <2>2, <2>3
    <3>2. CASE j \in 1 .. n
      BY <1>1, <1>3, <2>3, <3>1, <3>2 DEF AckInv
    <3>3. CASE j = n + 1
      BY <1>3, <3>1, <3>3
    <3>4. QED
      BY <1>3, <3>2, <3>3
  <2>4. \A i \in 1 .. n + 1 : IsAck(responses'[i], s) => slot[s].state = "PENDING_NEW"
    BY <1>1, <1>2, <2>2 DEF AckInv
  <2>5. slot[s].state = "LIVE" => \A j \in 1 .. n + 1 : ~IsAck(responses'[j], s)
    BY <1>1, <1>2, <2>2 DEF AckInv
  <2>6. QED
    BY <1>2, <1>3, <1>6, <2>1, <2>3, <2>4, <2>5 DEF AckInv
<1>11. QED
  BY <1>8, <1>9, <1>10


\* Order ids tell the resting orders apart.
LEMMA IdsAreUnique ==
    ASSUME EngineInv, NEW o \in resting, NEW p \in resting, o.id = p.id
    PROVE  o = p
<1>1. /\ resting \subseteq OrderType /\ IdsInv(Work)
      /\ \A s \in Sides : OneOrder(Work, s) /\ RestInv(Work, s)
  BY EngineTypes
<1>2. o.side \in Sides /\ p.side \in Sides /\ o.id \in Nat
  BY <1>1 DEF OrderType
<1>3. o.id = slot[o.side].id /\ p.id = slot[p.side].id
  BY <1>1, <1>2, WorkFields DEF RestInv
<1>4. o.id >= 1 /\ (slot["BUY"].id = slot["SELL"].id => slot["BUY"].id = 0)
  BY <1>1, WorkFields DEF IdsInv
<1>5. o.side = p.side
  <2>1. \A a, b \in Sides : a # b /\ slot[a].id = slot[b].id => slot[a].id = 0
    BY <1>4 DEF Sides
  <2>2. slot[o.side].id # 0 /\ slot[o.side].id = slot[p.side].id
    <3>1. o.id # 0
      BY <1>2, <1>4
    <3>2. QED
      BY <1>3, <3>1, Zenon
  <2>3. QED
    BY <1>2, <2>1, <2>2
<1>6. QED
  BY <1>1, <1>2, <1>5 DEF OneOrder

LEMMA ExchangeCancelsKeeps ==
    ASSUME EngineInv, ExchangeCancels
    PROVE  EngineInv'
<1> DEFINE id == requests[1].id
           mine == {o \in resting : o.id = id}
<1>1. /\ requests \in Seq(RequestType) /\ resting \subseteq OrderType /\ traded \in Int
      /\ IdsInv(Work) /\ LimitInv(Work)
  BY EngineTypes
<1>2. requests # <<>> /\ Head(requests) = requests[1]
  BY <1>1, TailFacts DEF ExchangeCancels
<1>3. /\ requests' = Tail(requests) /\ UNCHANGED <<orderVars, positionVars>>
      /\ resting' = resting \ mine
      /\ exchange' = IF id = NoId THEN "terminated" ELSE "running"
      /\ responses' =
            CASE id = NoId -> responses
              [] id # NoId /\ mine = {} -> Append(responses, [type |-> "CANCEL_REJECTED"])
              [] OTHER -> Append(responses, [type |-> "CANCELLED",
                                             side |-> (CHOOSE o \in mine : TRUE).side])
      /\ traded' = traded /\ ticker' = ticker /\ slot' = slot /\ position' = position
  BY <1>2 DEF ExchangeCancels, orderVars, positionVars
<1>4. Takes
  BY <1>2, <1>3 DEF Takes
<1>5. PICK d \in {0, 1} : \A i \in 1 .. Len(requests') :
          i + d \in 1 .. Len(requests) /\ requests'[i] = requests[i + d]
  BY <1>1, <1>4, TakesFacts
<1>6. /\ resting' \subseteq OrderType /\ (\A o \in resting' : o.id >= 1)
      /\ exchange' \in {"running", "terminated"} /\ traded' \in Int
  BY <1>1, <1>3 DEF IdsInv
<1>7. LimitInv(Work)'
  BY <1>1, <1>3, <1>5, WorkFields DEF LimitInv
<1> DEFINE Sound == \A s \in Sides : /\ OneOrder(Work, s)' /\ NewInv(Work, s)'
                                     /\ RestInv(Work, s)' /\ AckInv(Work, s)'
<1>8. id = NoId => mine = {}
  BY <1>1 DEF IdsInv, NoId
<1>9. CASE mine = {}
  <2> DEFINE x == [type |-> "CANCEL_REJECTED"]
  <2>1. x \in ResponseType /\ x.type = "CANCEL_REJECTED"
    BY DEF ResponseType
  <2>2. resting' = resting /\ Answers(x)
    BY <1>3, <1>9 DEF Answers
  <2> HIDE DEF x
  <2>3. \A s \in Sides : ~IsAck(x, s) /\ ~IsFill(x, s) /\ ~IsEnd(x, s)
    BY <2>1 DEF IsAck, IsFill, IsEnd
  <2>4. Sound
    BY <1>3, <1>4, <2>1, <2>2, <2>3, SideUntouched
  <2>5. FlowInv'
    BY <1>3, <2>1, <2>2, QuietAnswer
  <2>6. QED
    BY <1>3, <1>4, <1>6, <1>7, <2>1, <2>2, <2>4, <2>5, ExchangeStep
<1>10. CASE mine # {}
  <2>1. PICK o \in mine : o = CHOOSE p \in mine : TRUE
    BY <1>10
  <2>2. o \in resting /\ o.side \in Sides /\ mine = {o} /\ id # NoId
    <3>1. o \in resting /\ o.side \in Sides
      BY <1>1 DEF OrderType
    <3>2. \A p \in mine : p = o
      BY IdsAreUnique
    <3>3. QED
      BY <1>8, <1>10, <3>1, <3>2
  <2> DEFINE x == [type |-> "CANCELLED", side |-> o.side]
  <2>3. x \in ResponseType /\ x.type = "CANCELLED" /\ x.side = o.side
    BY <2>2 DEF ResponseType
  <2>4. responses' = Append(responses, x) /\ resting' = resting \ {o}
    BY <1>3, <1>10, <2>1, <2>2
  <2>5. Answers(x)
    BY <2>4 DEF Answers
  <2> HIDE DEF x, mine
  <2>6. Sound
    <3> SUFFICES ASSUME NEW s \in Sides
                 PROVE  /\ OneOrder(Work, s)' /\ NewInv(Work, s)'
                        /\ RestInv(Work, s)' /\ AckInv(Work, s)'
      OBVIOUS
    <3>1. CASE s = o.side
      <4>1. IsEnd(x, s)
        BY <2>3, <3>1 DEF IsEnd
      <4>2. \A p \in resting' : p.side # s
        <5>1. OneOrder(Work, s)
          BY EngineTypes
        <5>2. QED
          BY <2>2, <2>4, <3>1, <5>1 DEF OneOrder
      <4>3. QED
        BY <1>3, <1>4, <2>2, <2>3, <2>4, <3>1, <4>1, <4>2, EndedSide
    <3>2. CASE s # o.side
      <4>1. ~IsAck(x, s) /\ ~IsFill(x, s) /\ ~IsEnd(x, s)
        BY <2>3, <3>2 DEF IsAck, IsFill, IsEnd
      <4>2. /\ \A p \in resting' : p.side = s => p \in resting
            /\ \A p \in resting : p.side = s => p \in resting'
        BY <2>4, <3>2
      <4>3. QED
        BY <1>3, <1>4, <2>3, <2>5, <4>1, <4>2, SideUntouched
    <3>3. QED
      BY <3>1, <3>2
  <2>7. FlowInv'
    BY <1>3, <2>3, <2>5, QuietAnswer
  <2>8. QED
    BY <1>3, <1>4, <1>6, <1>7, <2>3, <2>5, <2>6, <2>7, ExchangeStep
<1>11. QED
  BY <1>9, <1>10

\* A part of the order trades.
LEMMA FilledSide ==
    ASSUME EngineInv, NEW s \in Sides, NEW x \in ResponseType,
           IsFill(x, s), ~IsEnd(x, s), NEW o \in resting, o.side = s,
           UNCHANGED <<ticker, slot>>, Takes, responses' = Append(responses, x),
           NEW o1 \in resting', \A p \in resting' : p.side = s => p = o1,
           o1.side = s, o1.id = o.id, o1.price = o.price, o1.leaves = x.leaves
    PROVE  OneOrder(Work, s)' /\ NewInv(Work, s)' /\ RestInv(Work, s)' /\ AckInv(Work, s)'
<1> DEFINE n == Len(responses)
<1>1. /\ OneOrder(Work, s) /\ NewInv(Work, s) /\ RestInv(Work, s) /\ AckInv(Work, s)
      /\ requests \in Seq(RequestType) /\ responses \in Seq(ResponseType)
  BY EngineTypes
<1>2. /\ Work'.slot = slot /\ Work'.requests = requests' /\ Work.slot = slot
      /\ Work.requests = requests /\ ticker' = ticker
  BY WorkFields
<1>3. /\ n \in Nat /\ Len(responses') = n + 1 /\ responses'[n + 1] = x
      /\ \A j \in 1 .. n : responses'[j] = responses[j]
      /\ \A j \in 1 .. n + 1 : j = n + 1 \/ j \in 1 .. n
      /\ \A j \in 1 .. n : n + 1 > j
      /\ n + 1 \in 1 .. n + 1
  BY <1>1, AppendFacts
<1>4. /\ o.id = slot[s].id /\ o.price = slot[s].price
      /\ ~Free(slot[s]) /\ \A j \in 1 .. n : ~IsEnd(responses[j], s)
  BY <1>1, <1>2 DEF RestInv
<1>5. \A i \in 1 .. Len(requests) : ~IsNew(requests[i], s)
  BY <1>1, <1>2 DEF NewInv
<1>6. \A i \in 1 .. Len(requests') : ~IsNew(requests'[i], s)
  BY <1>1, <1>5, TakesFacts
<1>7. \A i \in 1 .. n + 1 : ~IsEnd(responses'[i], s)
  BY <1>3, <1>4
<1>8. OneOrder(Work, s)'
  BY <1>2, <1>3, <1>4, <1>6, <1>7 DEF OneOrder
<1>9. NewInv(Work, s)'
  BY <1>2, <1>6 DEF NewInv
<1>10. RestInv(Work, s)'
  <2>1. \A j \in 1 .. n + 1 :
            (\A k \in 1 .. n + 1 : k > j => ~IsFill(responses'[k], s)) =>
                responses'[j].leaves = o1.leaves
    BY <1>3
  <2>2. QED
    BY <1>2, <1>3, <1>4, <1>7, <2>1 DEF RestInv
<1>11. AckInv(Work, s)'
  <2> SUFFICES ASSUME ticker = ClientId
               PROVE  AckInv(Work, s)'
    BY <1>2 DEF AckInv
  <2>1. Alive(s)'
    BY DEF Alive
  <2>2. \A j \in 1 .. n + 1 : IsAck(responses'[j], s) =>
            j \in 1 .. n /\ IsAck(responses[j], s)
    BY <1>3 DEF IsAck, IsFill
  <2>3. ASSUME NEW i \in 1 .. n + 1, IsAck(responses'[i], s), NEW j \in 1 .. n + 1,
               \/ IsAck(responses'[j], s) \/ IsEnd(responses'[j], s)
               \/ IsFill(responses'[j], s)
        PROVE  i <= j
    <3>1. i \in 1 .. n /\ IsAck(responses[i], s)
      BY <2>2, <2>3
    <3>2. CASE j \in 1 .. n
      BY <1>1, <1>3, <2>3, <3>1, <3>2 DEF AckInv
    <3>3. CASE j = n + 1
      BY <1>3, <3>1, <3>3
    <3>4. QED
      BY <1>3, <3>2, <3>3
  <2>4. \A i \in 1 .. n + 1 : IsAck(responses'[i], s) => slot[s].state = "PENDING_NEW"
    BY <1>1, <1>2, <2>2 DEF AckInv
  <2>5. slot[s].state = "LIVE" => \A j \in 1 .. n + 1 : ~IsAck(responses'[j], s)
    BY <1>1, <1>2, <2>2 DEF AckInv
  <2>6. QED
    BY <1>2, <1>3, <1>6, <2>1, <2>3, <2>4, <2>5 DEF AckInv
<1>12. QED
  BY <1>8, <1>9, <1>10, <1>11


LEMMA ExchangeFillsKeeps ==
    ASSUME EngineInv, NEW o \in resting, NEW exec \in 1 .. Clip, NEW price \in Prices,
           ExchangeFills(o, exec, price)
    PROVE  EngineInv'
<1> DEFINE left == o.leaves - exec
           o1 == [o EXCEPT !.leaves = left]
           x == [type |-> "FILLED", side |-> o.side, price |-> price, exec |-> exec,
                 leaves |-> left]
<1>1. /\ requests \in Seq(RequestType) /\ resting \subseteq OrderType /\ traded \in Int
      /\ IdsInv(Work) /\ LimitInv(Work) /\ exchange \in {"running", "terminated"}
      /\ \A s \in Sides : OneOrder(Work, s) /\ NewInv(Work, s)
  BY EngineTypes DEF EngineInv
<1>2. /\ o \in OrderType /\ o.side \in Sides /\ o.leaves \in 1 .. Clip /\ o.id \in Nat
      /\ o.price \in Nat /\ price \in Nat /\ Clip \in Nat /\ exec \in Nat /\ exec >= 1
      /\ exec <= o.leaves
  BY <1>1, Numbers, SMTT(30) DEF OrderType, ExchangeFills
<1>3. left \in Nat /\ left < o.leaves /\ left \in 0 .. Clip
  BY <1>2
<1>4. /\ o1.side = o.side /\ o1.id = o.id /\ o1.price = o.price /\ o1.leaves = left
      /\ left > 0 => o1 \in OrderType
  <2> HIDE DEF left
  <2>1. QED
    BY <1>2, <1>3 DEF OrderType
<1>5. /\ x \in ResponseType /\ x.type = "FILLED" /\ x.side = o.side /\ x.exec = exec
      /\ x.leaves = left
  <2> HIDE DEF left
  <2>1. QED
    BY <1>2, <1>3 DEF ResponseType
<1>6. /\ resting' = (resting \ {o}) \cup {r \in {o1} : r.leaves > 0}
      /\ traded' = traded + Value(o.side) * exec
      /\ responses' = Append(responses, x) /\ requests' = requests
      /\ UNCHANGED <<orderVars, positionVars>> /\ exchange' = exchange
      /\ ticker' = ticker /\ slot' = slot /\ position' = position
  BY DEF ExchangeFills, orderVars, positionVars
<1> HIDE DEF x, o1, left
<1>7. Takes /\ Answers(x)
  BY <1>6 DEF Takes, Answers
<1>8. \A p \in resting : p.side = o.side => p = o
  BY <1>1, <1>2 DEF OneOrder
<1>9. ASSUME NEW s \in Sides
      PROVE  /\ OneOrder(Work, s)' /\ NewInv(Work, s)'
             /\ RestInv(Work, s)' /\ AckInv(Work, s)'
  <2>1. CASE s # o.side
    <3>1. ~IsAck(x, s) /\ ~IsFill(x, s) /\ ~IsEnd(x, s)
      BY <1>5, <2>1 DEF IsAck, IsFill, IsEnd
    <3>2. /\ \A p \in resting' : p.side = s => p \in resting
          /\ \A p \in resting : p.side = s => p \in resting'
      BY <1>4, <1>6, <2>1
    <3>3. QED
      BY <1>5, <1>6, <1>7, <3>1, <3>2, SideUntouched
  <2>2. CASE s = o.side /\ left = 0
    <3>1. IsEnd(x, s)
      BY <1>5, <2>2 DEF IsEnd
    <3>2. \A p \in resting' : p.side # s
      <4>1. \A p \in resting' : p \in resting /\ p # o
        BY <1>4, <1>6, <2>2
      <4>2. QED
        BY <1>8, <2>2, <4>1
    <3>3. QED
      BY <1>5, <1>6, <1>7, <2>2, <3>1, <3>2, EndedSide
  <2>3. CASE s = o.side /\ left # 0
    <3>1. IsFill(x, s) /\ ~IsEnd(x, s)
      BY <1>5, <2>3 DEF IsEnd, IsFill
    <3>2. left > 0
      BY <1>3, <2>3
    <3>3. o1 \in resting' /\ \A p \in resting' : p.side = s => p = o1
      BY <1>4, <1>6, <1>8, <2>3, <3>2
    <3>4. QED
      BY <1>4, <1>5, <1>6, <1>7, <2>3, <3>1, <3>3, FilledSide
  <2>4. QED
    BY <2>1, <2>2, <2>3
<1>10. resting' \subseteq OrderType /\ \A p \in resting' : p.id >= 1
  BY <1>1, <1>4, <1>6 DEF IdsInv
<1>11. \A p \in resting' : \/ p \in resting /\ p.side # o.side
                           \/ p.side = o.side /\ p.leaves = left
  BY <1>4, <1>6, <1>8
<1>12. /\ \A i \in 1 .. Len(requests) : ~IsNew(requests[i], o.side)
  BY <1>1, <1>2, WorkFields DEF NewInv
<1>13. traded' \in Int /\ LimitInv(Work)'
  <2>1. /\ traded <= MaxPosition /\ traded >= -MaxPosition
        /\ o.side = "BUY" => traded + o.leaves <= MaxPosition
        /\ o.side = "SELL" => traded - o.leaves >= -MaxPosition
        /\ \A p \in resting : /\ p.side = "BUY" => traded + p.leaves <= MaxPosition
                              /\ p.side = "SELL" => traded - p.leaves >= -MaxPosition
        /\ \A i \in 1 .. Len(requests) :
              /\ IsNew(requests[i], "BUY") => traded + Clip <= MaxPosition
              /\ IsNew(requests[i], "SELL") => traded - Clip >= -MaxPosition
    BY <1>1, WorkFields DEF LimitInv
  <2>2. \A p \in resting : p.leaves \in Nat
    BY <1>1, Numbers DEF OrderType
  <2>3. left = o.leaves - exec /\ MaxPosition \in Nat /\ o.leaves \in Nat
    BY <1>2, Numbers DEF left
  <2>4. CASE o.side = "BUY"
    <3>1. traded' = traded + exec /\ traded' \in Int
      BY <1>1, <1>2, <1>6, <2>4 DEF Value
    <3>2. traded' <= MaxPosition /\ traded' >= -MaxPosition /\ traded' + left <= MaxPosition
      BY <1>1, <1>2, <1>3, <2>1, <2>3, <2>4, <3>1, SMTT(30)
    <3>3. \A p \in resting' : /\ p.side = "BUY" => traded' + p.leaves <= MaxPosition
                              /\ p.side = "SELL" => traded' - p.leaves >= -MaxPosition
      <4> SUFFICES ASSUME NEW p \in resting'
                   PROVE  /\ p.side = "BUY" => traded' + p.leaves <= MaxPosition
                          /\ p.side = "SELL" => traded' - p.leaves >= -MaxPosition
        OBVIOUS
      <4>1. CASE p \in resting /\ p.side # o.side
        <5>1. p.side # "BUY" /\ p.leaves \in Nat
          BY <2>2, <2>4, <4>1
        <5>2. p.side = "SELL" => traded - p.leaves >= -MaxPosition
          BY <2>1, <4>1
        <5>3. \A a \in Nat : traded - a >= -MaxPosition => traded' - a >= -MaxPosition
          BY <1>1, <1>2, <2>3, <3>1
        <5>4. QED
          BY <5>1, <5>2, <5>3
      <4>2. CASE p.side = o.side /\ p.leaves = left
        BY <2>4, <3>2, <4>2
      <4>3. QED
        BY <1>11, <4>1, <4>2
    <3>4. \A i \in 1 .. Len(requests) :
              /\ ~IsNew(requests[i], "BUY")
              /\ IsNew(requests[i], "SELL") => traded' - Clip >= -MaxPosition
      BY <1>1, <1>2, <1>12, <2>1, <2>3, <2>4, <3>1
    <3>5. QED
      BY <1>6, <3>1, <3>2, <3>3, <3>4, WorkFields DEF LimitInv
  <2>5. CASE o.side = "SELL"
    <3>1. traded' = traded - exec /\ traded' \in Int
      BY <1>1, <1>2, <1>6, <2>5 DEF Value
    <3>2. traded' <= MaxPosition /\ traded' >= -MaxPosition /\ traded' - left >= -MaxPosition
      BY <1>1, <1>2, <1>3, <2>1, <2>3, <2>5, <3>1, SMTT(30)
    <3>3. \A p \in resting' : /\ p.side = "BUY" => traded' + p.leaves <= MaxPosition
                              /\ p.side = "SELL" => traded' - p.leaves >= -MaxPosition
      <4> SUFFICES ASSUME NEW p \in resting'
                   PROVE  /\ p.side = "BUY" => traded' + p.leaves <= MaxPosition
                          /\ p.side = "SELL" => traded' - p.leaves >= -MaxPosition
        OBVIOUS
      <4>1. CASE p \in resting /\ p.side # o.side
        <5>1. p.side # "SELL" /\ p.leaves \in Nat
          BY <2>2, <2>5, <4>1
        <5>2. p.side = "BUY" => traded + p.leaves <= MaxPosition
          BY <2>1, <4>1
        <5>3. \A a \in Nat : traded + a <= MaxPosition => traded' + a <= MaxPosition
          BY <1>1, <1>2, <2>3, <3>1
        <5>4. QED
          BY <5>1, <5>2, <5>3
      <4>2. CASE p.side = o.side /\ p.leaves = left
        BY <2>5, <3>2, <4>2
      <4>3. QED
        BY <1>11, <4>1, <4>2
    <3>4. \A i \in 1 .. Len(requests) :
              /\ ~IsNew(requests[i], "SELL")
              /\ IsNew(requests[i], "BUY") => traded' + Clip <= MaxPosition
      BY <1>1, <1>2, <1>12, <2>1, <2>3, <2>5, <3>1
    <3>5. QED
      BY <1>6, <3>1, <3>2, <3>3, <3>4, WorkFields DEF LimitInv
  <2>6. QED
    BY <1>2, <2>4, <2>5 DEF Sides
<1>14. FlowInv'
  <2>1. traded' = traded + Executed(x, "BUY") - Executed(x, "SELL")
    BY <1>1, <1>2, <1>5, <1>6 DEF Executed, IsFill, Value, Sides
  <2>2. traded' <= MaxPosition /\ traded' >= -MaxPosition
    BY <1>13 DEF LimitInv
  <2>3. QED
    BY <1>5, <1>6, <2>1, <2>2, FlowAppend
<1>15. QED
  BY <1>1, <1>5, <1>6, <1>7, <1>9, <1>10, <1>13, <1>14, ExchangeStep

-----------------------------------------------------------------------------
(* The invariant holds. *)

LEMMA EngineStarts ==
    ASSUME CleanStart, Init
    PROVE  EngineInv
<1>1. /\ slot = [s \in Sides |-> NoOrder] /\ nextId = 1 /\ position = 0
      /\ openVwap \in [Sides -> {0}] /\ realPnl = 0 /\ unrealPnl = 0
      /\ requests = <<>> /\ responses = <<>> /\ resting = {} /\ exchange = "running"
      /\ traded = 0 /\ reduced = FALSE /\ cash = 0 /\ algo \in Algos
  BY DEF Init, CleanStart
<1>2. /\ NoOrder \in SlotType /\ Free(NoOrder) /\ NoOrder.id = 0 /\ NoOrder.state = "INVALID"
  BY Numbers DEF NoOrder, NoId, SlotType, States, Free
<1>3. /\ slot \in [Sides -> SlotType]
      /\ \A s \in Sides : /\ slot[s].id = 0 /\ Free(slot[s]) /\ slot[s].state = "INVALID"
  BY <1>1, <1>2
<1>4. /\ Len(requests) = 0 /\ Len(responses) = 0
      /\ requests \in Seq(RequestType) /\ responses \in Seq(ResponseType)
      /\ 1 .. Len(requests) = {} /\ 1 .. Len(responses) = {}
  BY <1>1
<1>5. Work \in WorkType
  BY <1>1, <1>3, <1>4 DEF Work, WorkType
<1>6. \A s \in Sides : /\ OneOrder(Work, s) /\ NewInv(Work, s)
                       /\ RestInv(Work, s) /\ AckInv(Work, s)
  BY <1>1, <1>3, <1>4, WorkFields DEF OneOrder, NewInv, RestInv, AckInv, Quiet
<1>7. IdsInv(Work)
  BY <1>1, <1>3, <1>4, WorkFields DEF IdsInv, Sides
<1>8. LimitInv(Work)
  BY <1>1, <1>4, WorkFields, Numbers DEF LimitInv
<1>9. WorkInv(Work)
  BY <1>5, <1>6, <1>7, <1>8 DEF WorkInv
<1>10. FlowInv
  <2> DEFINE z == [i \in 0 .. 0 |-> 0]
  <2>1. z \in [0 .. Len(responses) -> Nat] /\ z[0] = 0 /\ \A i \in 0 .. Len(responses) : z[i] = 0
    BY <1>4
  <2> HIDE DEF z
  <2>2. Unseen(z, "BUY", responses) /\ Unseen(z, "SELL", responses)
    BY <1>4, <2>1 DEF Unseen
  <2>3. /\ traded = position + z[0] - z[0]
        /\ \A i \in 0 .. Len(responses) :
              /\ traded - z[i] + z[i] <= MaxPosition
              /\ traded - z[i] + z[i] >= -MaxPosition
    BY <1>1, <2>1, Numbers
  <2>4. QED
    BY <2>1, <2>2, <2>3 DEF FlowInv
<1>11. AccountInv
  <2>1. openVwap \in [Sides -> Nat] /\ openVwap["BUY"] = 0 /\ openVwap["SELL"] = 0
    BY <1>1 DEF Sides
  <2>2. ProfitIsCash
    BY <1>1, Numbers DEF ProfitIsCash
  <2>3. reduced \in BOOLEAN
    BY <1>1
  <2>4. QED
    BY <1>1, <2>1, <2>2, <2>3 DEF AccountInv
<1>12. nextId <= MaxOrders[algo] + 1
  <2>1. MaxOrders[algo] \in Nat
    BY <1>1, EngineAssumption
  <2>2. QED
    BY <1>1, <2>1
<1>13. QED
  BY <1>1, <1>4, <1>9, <1>10, <1>11, <1>12 DEF EngineInv

LEMMA EngineStutters ==
    ASSUME EngineInv, UNCHANGED vars
    PROVE  EngineInv'
<1>1. /\ slot' = slot /\ nextId' = nextId /\ requests' = requests /\ ticker' = ticker
      /\ algo' = algo /\ responses' = responses /\ resting' = resting
      /\ exchange' = exchange /\ traded' = traded /\ position' = position
      /\ UNCHANGED positionVars
  BY DEF vars, orderVars, exchangeVars, positionVars
<1>2. Work' = Work
  BY <1>1 DEF Work
<1>3. WorkInv(Work)'
  BY <1>1, <1>2 DEF EngineInv, WorkInv, WorkType, SlotType, RequestType, States, Sides,
     OneOrder, NewInv, RestInv, AckInv, Quiet, Alive, IdsInv, LimitInv
<1>4. AccountInv'
  BY <1>1 DEF EngineInv, AccountInv, ProfitIsCash, positionVars
<1>5. FlowInv'
  BY <1>1, FlowStays DEF EngineInv
<1>6. QED
  BY <1>1, <1>3, <1>4, <1>5 DEF EngineInv

LEMMA EngineSteps ==
    ASSUME EngineInv, [Next]_vars
    PROVE  EngineInv'
<1>1. CASE Next
  BY <1>1, OnOrderUpdateKeeps, OnOrderBookUpdateKeeps, OnTradeUpdateKeeps,
     ExchangeAddsKeeps, ExchangeCancelsKeeps, ExchangeFillsKeeps, ForeignAcceptedKeeps
     DEF Next, Exchange
<1>2. CASE UNCHANGED vars
  BY <1>2, EngineStutters
<1>3. QED
  BY <1>1, <1>2

LEMMA EngineHolds ==
    ASSUME CleanStart
    PROVE  Spec => []EngineInv
<1>1. Init => EngineInv
  BY EngineStarts
<1>2. EngineInv /\ [Next]_vars => EngineInv'
  BY EngineSteps
<1>3. QED
  BY <1>1, <1>2, PTL DEF Spec


-----------------------------------------------------------------------------
(* What is open on a side. *)

\* Open adds up what rests and what is on its way.
LeavesOf(S) == MapThenSumSet(LAMBDA o : o.leaves, S)
QuantityOf(S) == MapThenSumSet(LAMBDA i : requests[i].quantity, S)

LEMMA LeavesOfNone == LeavesOf({}) = 0
<1> DEFINE It(f) == f = [s \in SUBSET {} |->
               IF s = {} THEN 0
               ELSE LET x == CHOOSE y \in s : TRUE IN x.leaves + f[s \ {x}]]
           g == [s \in {{}} |-> 0]
           h == CHOOSE f : It(f)
<1>1. LeavesOf({}) = h[{}]
  BY DEF LeavesOf, MapThenSumSet, MapThenFoldSet
<1>2. It(g)
  OBVIOUS
<1>3. It(h)
  BY <1>2
<1> HIDE DEF h
<1>4. h[{}] = 0
  BY <1>3
<1>5. QED
  BY <1>1, <1>4

LEMMA LeavesOfOne ==
    ASSUME NEW o, o.leaves \in Int
    PROVE  LeavesOf({o}) = o.leaves
<1> DEFINE It(f) == f = [s \in SUBSET {o} |->
               IF s = {} THEN 0
               ELSE LET x == CHOOSE y \in s : TRUE IN x.leaves + f[s \ {x}]]
           g == [s \in SUBSET {o} |-> IF s = {} THEN 0 ELSE o.leaves]
           h == CHOOSE f : It(f)
<1>1. LeavesOf({o}) = h[{o}]
  BY DEF LeavesOf, MapThenSumSet, MapThenFoldSet
<1>2. ASSUME NEW s \in SUBSET {o}, s # {}
      PROVE  (CHOOSE y \in s : TRUE) = o /\ s \ {o} = {} /\ {} \in SUBSET {o}
  BY <1>2
<1>3. It(g)
  <2>1. g[{}] = 0
    OBVIOUS
  <2>2. ASSUME NEW s \in SUBSET {o}, s # {}
        PROVE  (LET x == CHOOSE y \in s : TRUE IN x.leaves + g[s \ {x}]) = o.leaves
    BY <1>2, <2>1, <2>2
  <2>3. QED
    BY <2>2
<1>4. It(h)
  BY <1>3
<1> HIDE DEF h
<1>5. h[{}] = 0 /\ h[{o}] = o.leaves + h[{}]
  <2>1. {o} # {} /\ {o} \in SUBSET {o} /\ {o} \ {o} = {} /\ (CHOOSE y \in {o} : TRUE) = o
    OBVIOUS
  <2>2. QED
    BY <1>4, <2>1
<1>6. QED
  BY <1>1, <1>5

LEMMA QuantityOfNone == QuantityOf({}) = 0
<1> DEFINE It(f) == f = [s \in SUBSET {} |->
               IF s = {} THEN 0
               ELSE LET x == CHOOSE y \in s : TRUE IN requests[x].quantity + f[s \ {x}]]
           g == [s \in {{}} |-> 0]
           h == CHOOSE f : It(f)
<1>1. QuantityOf({}) = h[{}]
  BY DEF QuantityOf, MapThenSumSet, MapThenFoldSet
<1>2. It(g)
  OBVIOUS
<1>3. It(h)
  BY <1>2
<1> HIDE DEF h
<1>4. h[{}] = 0
  BY <1>3
<1>5. QED
  BY <1>1, <1>4

LEMMA QuantityOfOne ==
    ASSUME NEW i, requests[i].quantity \in Int
    PROVE  QuantityOf({i}) = requests[i].quantity
<1> DEFINE It(f) == f = [s \in SUBSET {i} |->
               IF s = {} THEN 0
               ELSE LET x == CHOOSE y \in s : TRUE IN requests[x].quantity + f[s \ {x}]]
           g == [s \in SUBSET {i} |-> IF s = {} THEN 0 ELSE requests[i].quantity]
           h == CHOOSE f : It(f)
<1>1. QuantityOf({i}) = h[{i}]
  BY DEF QuantityOf, MapThenSumSet, MapThenFoldSet
<1>2. ASSUME NEW s \in SUBSET {i}, s # {}
      PROVE  (CHOOSE y \in s : TRUE) = i /\ s \ {i} = {} /\ {} \in SUBSET {i}
  BY <1>2
<1>3. It(g)
  <2>1. g[{}] = 0
    OBVIOUS
  <2>2. ASSUME NEW s \in SUBSET {i}, s # {}
        PROVE  (LET x == CHOOSE y \in s : TRUE IN requests[x].quantity + g[s \ {x}])
                  = requests[i].quantity
    BY <1>2, <2>1, <2>2
  <2>3. QED
    BY <2>2
<1>4. It(h)
  BY <1>3
<1> HIDE DEF h
<1>5. h[{}] = 0 /\ h[{i}] = requests[i].quantity + h[{}]
  <2>1. {i} # {} /\ {i} \in SUBSET {i} /\ {i} \ {i} = {} /\ (CHOOSE y \in {i} : TRUE) = i
    OBVIOUS
  <2>2. QED
    BY <1>4, <2>1
<1>6. QED
  BY <1>1, <1>5

\* A side has nothing open, or an order on its way, or one that rests.
LEMMA OpenOrders ==
    ASSUME EngineInv, NEW s \in Sides
    PROVE  \/ RestingOn(s) = {} /\ NewOnTheWay(s) = {}
           \/ /\ ~Free(slot[s]) /\ NewOnTheWay(s) = {}
              /\ \E o \in resting : o.side = s /\ RestingOn(s) = {o}
           \/ /\ ~Free(slot[s]) /\ RestingOn(s) = {}
              /\ \E i \in 1 .. Len(requests) :
                    IsNew(requests[i], s) /\ NewOnTheWay(s) = {i}
<1>1. /\ OneOrder(Work, s) /\ NewInv(Work, s) /\ RestInv(Work, s)
      /\ requests \in Seq(RequestType)
      /\ Work.slot = slot /\ Work.requests = requests
  BY EngineTypes, WorkFields
<1>2. DOMAIN requests = 1 .. Len(requests)
  BY <1>1
<1>3. NewOnTheWay(s) = {i \in 1 .. Len(requests) : IsNew(requests[i], s)}
  BY <1>2 DEF NewOnTheWay, IsNew
<1>4. CASE \E o \in resting : o.side = s
  <2>1. PICK o \in resting : o.side = s
    BY <1>4
  <2>2. RestingOn(s) = {o} /\ ~Free(slot[s])
    BY <1>1, <2>1 DEF RestingOn, OneOrder, RestInv
  <2>3. NewOnTheWay(s) = {}
    BY <1>1, <1>3, <2>1 DEF NewInv
  <2>4. QED
    BY <2>1, <2>2, <2>3
<1>5. CASE ~\E o \in resting : o.side = s
  <2>1. RestingOn(s) = {}
    BY <1>5 DEF RestingOn
  <2>2. CASE \E i \in 1 .. Len(requests) : IsNew(requests[i], s)
    <3>1. PICK i \in 1 .. Len(requests) : IsNew(requests[i], s)
      BY <2>2
    <3>2. NewOnTheWay(s) = {i} /\ ~Free(slot[s])
      BY <1>1, <1>3, <3>1 DEF OneOrder, NewInv
    <3>3. QED
      BY <2>1, <3>1, <3>2
  <2>3. CASE ~\E i \in 1 .. Len(requests) : IsNew(requests[i], s)
    BY <1>3, <2>1, <2>3
  <2>4. QED
    BY <2>2, <2>3
<1>6. QED
  BY <1>4, <1>5

-----------------------------------------------------------------------------
(* The theorems. *)

\* Every variable keeps its type: a slot's order is one that was made, of at
\* most the clip, and open_vwap is never negative.
THEOREM EngineTypeOK ==
    ASSUME CleanStart
    PROVE  Spec => []TypeOK
<1>1. EngineInv => TypeOK
  <2> SUFFICES ASSUME EngineInv PROVE TypeOK
    OBVIOUS
  <2>1. /\ slot \in [Sides -> SlotType] /\ nextId \in Nat /\ nextId >= 1
        /\ \A s \in Sides : slot[s].id < nextId
    BY EngineTypes, WorkFields DEF IdsInv
  <2>2. MaxOrders[algo] \in Nat /\ nextId <= MaxOrders[algo] + 1
    BY EngineAssumption DEF EngineInv
  <2>3. \A s \in Sides : slot[s].id \in 0 .. MaxOrders[algo]
    <3> SUFFICES ASSUME NEW s \in Sides PROVE slot[s].id \in 0 .. MaxOrders[algo]
      OBVIOUS
    <3>1. slot[s].id \in Nat /\ slot[s].id < nextId
      BY <2>1 DEF SlotType
    <3>2. QED
      BY <2>1, <2>2, <3>1
  <2>4. \A s \in Sides : slot[s] \in [state : States, id : 0 .. MaxOrders[algo],
                                      price : Nat, quantity : 0 .. Clip]
    BY <2>1, <2>3 DEF SlotType
  <2>5. nextId \in 1 .. MaxOrders[algo] + 1
    BY <2>1, <2>2
  <2>6. QED
    BY <2>1, <2>4, <2>5 DEF TypeOK, States, EngineInv, AccountInv
<1>2. QED
  BY <1>1, EngineHolds, PTL

\* moveOrder() and onOrderUpdate(), which finds the slot by the side and never
\* looks at the order id, keep one order a side, at the exchange or on its way
\* there, whichever responses are still to come and although acknowledgements
\* may be another client's.
THEOREM EngineOneOrder ==
    ASSUME CleanStart
    PROVE  Spec => []OneOrderASide
<1>1. EngineInv => OneOrderASide
  <2> SUFFICES ASSUME EngineInv, NEW s \in Sides
               PROVE  Cardinality(RestingOn(s)) + Cardinality(NewOnTheWay(s))
                        <= IF slot[s].state \in {"INVALID", "DEAD"} THEN 0 ELSE 1
    BY DEF OneOrderASide
  <2>1. /\ Cardinality({}) = 0
        /\ \A y : Cardinality({y}) = 1
    BY FS_EmptySet, FS_Singleton
  <2>2. CASE RestingOn(s) = {} /\ NewOnTheWay(s) = {}
    BY <2>1, <2>2
  <2>3. CASE /\ ~Free(slot[s]) /\ NewOnTheWay(s) = {}
             /\ \E o \in resting : o.side = s /\ RestingOn(s) = {o}
    <3>1. Cardinality(RestingOn(s)) = 1 /\ Cardinality(NewOnTheWay(s)) = 0
      BY <2>1, <2>3
    <3>2. slot[s].state \notin {"INVALID", "DEAD"}
      BY <2>3 DEF Free
    <3>3. QED
      BY <3>1, <3>2
  <2>4. CASE /\ ~Free(slot[s]) /\ RestingOn(s) = {}
             /\ \E i \in 1 .. Len(requests) :
                   IsNew(requests[i], s) /\ NewOnTheWay(s) = {i}
    <3>1. Cardinality(RestingOn(s)) = 0 /\ Cardinality(NewOnTheWay(s)) = 1
      BY <2>1, <2>4
    <3>2. slot[s].state \notin {"INVALID", "DEAD"}
      BY <2>4 DEF Free
    <3>3. QED
      BY <3>1, <3>2
  <2>5. QED
    BY <2>2, <2>3, <2>4, OpenOrders
<1>2. QED
  BY <1>1, EngineHolds, PTL

\* checkPreTradeRisk() sees the position as the client knows it and one order;
\* still no execution of what is open takes the position out of the limit.
THEOREM EnginePosition ==
    ASSUME CleanStart
    PROVE  Spec => []PositionLimited
<1>1. EngineInv => PositionLimited
  <2> SUFFICES ASSUME EngineInv PROVE PositionLimited
    OBVIOUS
  <2>1. /\ LimitInv(Work) /\ traded \in Int /\ resting \subseteq OrderType
        /\ requests \in Seq(RequestType) /\ Work.requests = requests
        /\ Clip \in Nat /\ MaxPosition \in Nat
    BY EngineTypes, WorkFields, Numbers
  <2>2. ASSUME NEW s \in Sides
        PROVE  \/ Open(s) = 0
               \/ \E o \in resting : o.side = s /\ Open(s) = o.leaves
               \/ \E i \in 1 .. Len(requests) : IsNew(requests[i], s) /\ Open(s) = Clip
    <3>1. Open(s) = LeavesOf(RestingOn(s)) + QuantityOf(NewOnTheWay(s))
      BY DEF Open, LeavesOf, QuantityOf
    <3>2. CASE RestingOn(s) = {} /\ NewOnTheWay(s) = {}
      BY <3>1, <3>2, LeavesOfNone, QuantityOfNone
    <3>3. CASE /\ NewOnTheWay(s) = {}
               /\ \E o \in resting : o.side = s /\ RestingOn(s) = {o}
      <4>1. PICK o \in resting : o.side = s /\ RestingOn(s) = {o}
        BY <3>3
      <4>2. o.leaves \in Int
        BY <2>1 DEF OrderType
      <4>3. Open(s) = o.leaves
        BY <3>1, <3>3, <4>1, <4>2, LeavesOfOne, QuantityOfNone
      <4>4. QED
        BY <4>1, <4>3
    <3>4. CASE /\ RestingOn(s) = {}
               /\ \E i \in 1 .. Len(requests) :
                     IsNew(requests[i], s) /\ NewOnTheWay(s) = {i}
      <4>1. PICK i \in 1 .. Len(requests) :
                IsNew(requests[i], s) /\ NewOnTheWay(s) = {i}
        BY <3>4
      <4>2. requests[i].quantity = Clip
        <5>1. requests[i] \in RequestType
          BY <2>1
        <5>2. QED
          BY <4>1, <5>1 DEF RequestType, IsNew
      <4>3. Open(s) = Clip
        <5>1. LeavesOf(RestingOn(s)) = 0
          BY <3>4, LeavesOfNone
        <5>2. QuantityOf({i}) = requests[i].quantity
          BY <2>1, <4>2, QuantityOfOne
        <5>3. QuantityOf(NewOnTheWay(s)) = Clip
          BY <4>1, <4>2, <5>2
        <5>4. QED
          BY <2>1, <3>1, <5>1, <5>3
      <4>4. QED
        BY <4>1, <4>3
    <3>5. QED
      BY <3>2, <3>3, <3>4, OpenOrders
  <2>3. "BUY" \in Sides /\ "SELL" \in Sides
    BY DEF Sides
  <2>4. traded + Open("BUY") <= MaxPosition
    BY <2>1, <2>2, <2>3 DEF LimitInv
  <2>5. traded - Open("SELL") >= -MaxPosition
    BY <2>1, <2>2, <2>3 DEF LimitInv
  <2>6. QED
    BY <2>4, <2>5 DEF PositionLimited
<1>2. QED
  BY <1>1, EngineHolds, PTL

\* With no response on its way PositionKeeper and OrderManager know what the
\* exchange knows.
THEOREM EngineBooks ==
    ASSUME CleanStart
    PROVE  Spec => []BooksAgree
<1>1. EngineInv => BooksAgree
  <2> SUFFICES ASSUME EngineInv, responses = <<>>
               PROVE  /\ position = traded
                      /\ \A s \in Sides : ticker = ClientId /\ slot[s].state = "LIVE" =>
                            RestingOn(s) = {[id |-> slot[s].id, side |-> s,
                                             price |-> slot[s].price,
                                             leaves |-> slot[s].quantity]}
    BY DEF BooksAgree
  <2>1. position = traded
    BY FlowLags DEF EngineInv
  <2>2. ASSUME NEW s \in Sides, ticker = ClientId, slot[s].state = "LIVE"
        PROVE  RestingOn(s) = {[id |-> slot[s].id, side |-> s,
                                price |-> slot[s].price, leaves |-> slot[s].quantity]}
    <3>1. /\ OneOrder(Work, s) /\ RestInv(Work, s) /\ AckInv(Work, s)
          /\ Work.slot = slot /\ resting \subseteq OrderType
          /\ Len(responses) = 0 /\ 1 .. Len(responses) = {}
      BY EngineTypes, WorkFields
    <3>2. PICK o \in resting : o.side = s
      BY <2>2, <3>1 DEF AckInv, Alive
    <3>3. RestingOn(s) = {o}
      BY <3>1, <3>2 DEF RestingOn, OneOrder
    <3>4. o.id = slot[s].id /\ o.price = slot[s].price /\ o.leaves = slot[s].quantity
      BY <3>1, <3>2 DEF RestInv
    <3>5. o = [id |-> o.id, side |-> o.side, price |-> o.price, leaves |-> o.leaves]
      BY <3>1 DEF OrderType
    <3>6. QED
      BY <3>2, <3>3, <3>4, <3>5
  <2>3. QED
    BY <2>1, <2>2
<1>2. QED
  BY <1>1, EngineHolds, PTL

\* addFill()'s profit is the money, for every fill that opens, enlarges, closes
\* or turns the position.
THEOREM EngineProfit ==
    ASSUME CleanStart
    PROVE  Spec => []ProfitIsCash
<1>1. EngineInv => ProfitIsCash
  BY DEF EngineInv, AccountInv
<1>2. QED
  BY <1>1, EngineHolds, PTL

=============================================================================
