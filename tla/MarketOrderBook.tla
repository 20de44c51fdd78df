-------------------------- MODULE MarketOrderBook --------------------------
(***************************************************************************)
(* The trading client's copy of a book, pointer by pointer:                *)
(* trading/strategy/MarketOrderBook.{hpp,cc} for one ticker.  Levels are   *)
(* blocks of a pool, on one ring a side and in price_orders_at_price;      *)
(* orders are on one ring a level and in oid_to_order.  An update from     *)
(* MarketDataConsumer is applied in one step, the refresh of the best bid  *)
(* and offer included.                                                     *)
(*                                                                         *)
(* The updates are those of a book as OrderBook keeps it.  After a lost    *)
(* datagram the consumer hands on a CLEAR and the orders that rest by then *)
(* (Resync, then SnapshotOrder for each of them).                          *)
(*                                                                         *)
(* Memory of a pool stays readable when its block is free.  A block of the *)
(* order pool is used again only after a million allocations, so an order  *)
(* is named by the number of its allocation.  Pointers that were never     *)
(* written are null: the book is so large that its memory comes zeroed.    *)
(***************************************************************************)
EXTENDS Integers, Sequences, SequencesExt, FiniteSetsExt

CONSTANTS
    Prices,         \* the prices in use
    Quantities,     \* quantities of orders
    MaxLevels,      \* MATCHING_ENGINE_MAX_PRICE_LEVELS
    MaxOrderId,     \* bound on the market order ids
    MaxClears,      \* bound on the recoveries
    Null            \* nullptr

ASSUME MarketOrderBookAssumption ==
    /\ Prices \subseteq Nat
    /\ Quantities \subseteq Nat \ {0}
    /\ MaxLevels \in Nat \ {0}
    /\ {MaxOrderId, MaxClears} \subseteq Nat
    /\ Null \notin Nat

Sides == {"BUY", "SELL"}
Ids == 1 .. MaxOrderId
Blocks == 0 .. MaxLevels - 1

VARIABLES
    mob,        \* the book's memory, see Empty
    bbo,        \* best price and quantity of each side
    feed,       \* the exchange's book: the orders that rest, by id
    nextId,     \* the exchange's next market order id
    toCome,     \* ids of the snapshot's orders that are still to come
    clears,     \* recoveries so far
    misled,     \* history: an order was put into a level that is not its own
    outdated    \* history: sides whose best was last written before a CLEAR

feedVars == <<feed, nextId, toCome, clears>>
vars == <<mob, bbo, feedVars, misled, outdated>>

NoLevel == [side |-> Null, price |-> Null, first |-> Null, next |-> Null,
            prev |-> Null]
Invalid == [price |-> Null, quantity |-> Null]      \* a side of an empty BBO

\* level, free, cursor: orders_at_price_pool and its next_free_index_; index:
\* price_orders_at_price; best: bids_by_price and asks_by_price; order: the
\* orders by allocation; byId: oid_to_order; status: "running" or how it ended.
Empty ==
    [level |-> [b \in Blocks |-> NoLevel],
     free |-> [b \in Blocks |-> TRUE],
     cursor |-> 0,
     index |-> [i \in Blocks |-> Null],
     best |-> [s \in Sides |-> Null],
     order |-> <<>>,
     byId |-> [i \in Ids |-> Null],
     status |-> "running"]

Ended(m, how) == [m EXCEPT !.status = how]
PriceToIndex(price) == price % MaxLevels
LevelAt(m, price) == m.index[PriceToIndex(price)]       \* getOrdersAtPrice

\* Price p stands behind price q on side s.
Worse(s, p, q) == (s = "SELL" /\ p > q) \/ (s = "BUY" /\ p < q)

-----------------------------------------------------------------------------
(* Walks along pointers. *)

\* The first n steps of a walk that starts at from.
Walk(succ, from, n) ==
    LET w[k \in 0 .. n] ==
            IF k = 0 THEN from
            ELSE IF w[k - 1] = Null THEN Null ELSE succ[w[k - 1]]
    IN  w

LevelNext(m) == [b \in Blocks |-> m.level[b].next]
OrderNext(m) == [o \in DOMAIN m.order |-> m.order[o].next]

\* The nodes on the way from a node back to it: <<>> if the walk meets null or
\* goes round without coming back.
Ring(succ, from) ==
    LET size == Cardinality(DOMAIN succ)
        w == Walk(succ, from, size)
        back == {k \in 1 .. size : w[k] = from}
    IN  IF from = Null \/ back = {} THEN <<>>
        ELSE [k \in 1 .. Min(back) |-> w[k - 1]]

LevelRing(m, s) == Ring(LevelNext(m), m.best[s])
OrderRing(m, b) == Ring(OrderNext(m), m.level[b].first)

-----------------------------------------------------------------------------
(* orders_at_price_pool. *)

\* The first free block from the cursor on, round the store.
NextFreeIndex(m) ==
    LET steps(b) == (b + MaxLevels - m.cursor) % MaxLevels
    IN  CHOOSE b \in Blocks :
            m.free[b] /\ \A c \in Blocks : m.free[c] => steps(b) <= steps(c)

\* allocate(): the block at the cursor, with its new content.
Allocate(m, content) ==
    LET taken == [m EXCEPT !.free[m.cursor] = FALSE,
                           !.level[m.cursor] = content]
    IN  IF \A b \in Blocks : ~taken.free[b] THEN Ended(taken, "out_of_space")
        ELSE [taken EXCEPT !.cursor = NextFreeIndex(taken)]

\* deallocate(): the block keeps its content.
Deallocate(m, b) ==
    IF b = Null THEN Ended(m, "not_in_pool")
    ELSE IF m.free[b] THEN Ended(m, "not_in_use")
    ELSE [m EXCEPT !.free[b] = TRUE]

-----------------------------------------------------------------------------
(* addOrder and addOrderAtPrice. *)

\* Level b goes behind the last level of its side ...
LinkLast(m, b, head) ==
    LET last == m.level[head].prev
        after == m.level[last].next
    IN  IF last = Null \/ after = Null THEN Ended(m, "null_pointer")
        ELSE [m EXCEPT !.level = [[@ EXCEPT ![b].prev = last, ![b].next = after,
                                            ![after].prev = b]
                                     EXCEPT ![last].next = b]]

\* ... or in front of level t, and becomes the best of its side if it is.
LinkBefore(m, b, t, head) ==
    LET s == m.level[b].side
        before == m.level[t].prev
        linked == [[m.level EXCEPT ![b].prev = before, ![b].next = t]
                      EXCEPT ![before].next = b, ![t].prev = b]
        better == Worse(s, m.level[head].price, m.level[b].price)
    IN  IF before = Null THEN Ended(m, "null_pointer")
        ELSE [m EXCEPT
                !.level = IF better /\ linked[t].next = head
                          THEN [linked EXCEPT ![t].next = b] ELSE linked,
                !.best[s] = IF better THEN b ELSE @]

\* Where the search for the place of level b stops: at null, back at the best
\* level, or at a level that is not better than b.
Stops(m, b, w, head) ==
    {k \in DOMAIN w :
        \/ w[k] = Null
        \/ k > 0 /\ w[k] = head
        \/ ~Worse(m.level[b].side, m.level[b].price, m.level[w[k]].price)}

AddOrderAtPrice(m0, b) ==
    LET s == m0.level[b].side
        m == [m0 EXCEPT !.index[PriceToIndex(m0.level[b].price)] = b]
        head == m.best[s]
        w == Walk(LevelNext(m), head, MaxLevels)
        stops == Stops(m, b, w, head)
        t == w[Min(stops)]
    IN  IF head = Null
        THEN [m EXCEPT !.best[s] = b, !.level[b].next = b, !.level[b].prev = b]
        ELSE IF stops = {} THEN Ended(m, "endless")
        ELSE IF t = Null THEN Ended(m, "null_pointer")
        ELSE IF Min(stops) > 0 /\ t = head THEN LinkLast(m, b, head)
        ELSE LinkBefore(m, b, t, head)

\* Fault: the new order goes in front of the level's orders.
AddOrder_First(m, o) ==
    LET x == m.order[o]
        b == LevelAt(m, x.price)
        first == m.level[b].first
        last == m.order[first].prev
        known == [m EXCEPT !.byId[x.id] = o]
    IN  IF b = Null
        THEN LET alone == [known EXCEPT !.order[o].next = o, !.order[o].prev = o]
                 new == Allocate(alone, [side |-> x.side, price |-> x.price,
                            first |-> o, next |-> Null, prev |-> Null])
             IN  IF new.status # "running" THEN new
                 ELSE AddOrderAtPrice(new, m.cursor)
        ELSE IF last = Null THEN Ended(known, "null_pointer")
        ELSE [known EXCEPT
                !.level[b].first = o,
                !.order = [[@ EXCEPT ![last].next = o]
                              EXCEPT ![o].prev = last, ![o].next = first,
                                     ![first].prev = o]]

\* A level that price_orders_at_price knows takes the order behind its last;
\* nobody looks at its price and its side.
AddOrder(m, o) ==
    LET x == m.order[o]
        b == LevelAt(m, x.price)
        first == m.level[b].first
        last == m.order[first].prev
        known == [m EXCEPT !.byId[x.id] = o]
    IN  IF b = Null
        THEN LET alone == [known EXCEPT !.order[o].next = o, !.order[o].prev = o]
                 new == Allocate(alone, [side |-> x.side, price |-> x.price,
                            first |-> o, next |-> Null, prev |-> Null])
             IN  IF new.status # "running" THEN new
                 ELSE AddOrderAtPrice(new, m.cursor)
        ELSE IF last = Null THEN Ended(known, "null_pointer")
        ELSE [known EXCEPT
                !.order = [[@ EXCEPT ![last].next = o]
                              EXCEPT ![o].prev = last, ![o].next = first,
                                     ![first].prev = o]]

-----------------------------------------------------------------------------
(* removeOrder and removeOrderAtPrice. *)

\* Fault: with its best level a side loses the others.
RemoveOrderAtPrice_DropsSide(m, s, price) ==
    LET b == LevelAt(m, price)
        x == m.level[b]
        unlinked == [[[m.level EXCEPT ![x.prev].next = x.next]
                         EXCEPT ![x.next].prev = x.prev]
                         EXCEPT ![b].next = Null, ![b].prev = Null]
        left == [m EXCEPT !.index[PriceToIndex(price)] = Null]
    IN  IF b = Null THEN Ended(m, "null_pointer")
        ELSE IF x.next = b THEN Deallocate([left EXCEPT !.best[s] = Null], b)
        ELSE IF Null \in {x.next, x.prev} THEN Ended(m, "null_pointer")
        ELSE Deallocate([left EXCEPT !.level = unlinked,
                                     !.best[s] = IF b = @ THEN Null ELSE @], b)

\* The level is the one at the order's price, the best level to correct is the
\* one of the order's side.
RemoveOrderAtPrice(m, s, price) ==
    LET b == LevelAt(m, price)
        x == m.level[b]
        unlinked == [[[m.level EXCEPT ![x.prev].next = x.next]
                         EXCEPT ![x.next].prev = x.prev]
                         EXCEPT ![b].next = Null, ![b].prev = Null]
        left == [m EXCEPT !.index[PriceToIndex(price)] = Null]
    IN  IF b = Null THEN Ended(m, "null_pointer")
        ELSE IF x.next = b THEN Deallocate([left EXCEPT !.best[s] = Null], b)
        ELSE IF Null \in {x.next, x.prev} THEN Ended(m, "null_pointer")
        ELSE Deallocate([left EXCEPT !.level = unlinked,
                                     !.best[s] = IF b = @ THEN x.next ELSE @], b)

\* Fault: the order stays in oid_to_order.
RemoveOrder_KeepsId(m, o) ==
    LET x == m.order[o]
        b == LevelAt(m, x.price)
        unlinked == [[[m.order EXCEPT ![x.prev].next = x.next]
                         EXCEPT ![x.next].prev = x.prev]
                         EXCEPT ![o].next = Null, ![o].prev = Null]
    IN  IF x.prev = o THEN RemoveOrderAtPrice(m, x.side, x.price)
        ELSE IF Null \in {x.prev, x.next, b} THEN Ended(m, "null_pointer")
        ELSE [m EXCEPT !.order = unlinked,
                       !.level[b].first = IF @ = o THEN x.next ELSE @]

RemoveOrder(m, o) ==
    LET x == m.order[o]
        b == LevelAt(m, x.price)
        forgot == [m EXCEPT !.byId[x.id] = Null]
        unlinked == [[[m.order EXCEPT ![x.prev].next = x.next]
                         EXCEPT ![x.next].prev = x.prev]
                         EXCEPT ![o].next = Null, ![o].prev = Null]
    IN  IF x.prev = o THEN RemoveOrderAtPrice(forgot, x.side, x.price)
        ELSE IF Null \in {x.prev, x.next, b} THEN Ended(m, "null_pointer")
        ELSE [forgot EXCEPT !.order = unlinked,
                            !.level[b].first = IF @ = o THEN x.next ELSE @]

-----------------------------------------------------------------------------
(* onMarketUpdate.  A TRADE goes to the strategy and leaves the book alone.   *)

Update(type, id, side, price, quantity) ==
    [type |-> type, id |-> id, side |-> side, price |-> price,
     quantity |-> quantity]

\* The levels of a side go back to the pool one by one, the best one last;
\* the walk stops at the first assertion that fails.
FreeSide(m, s) ==
    LET head == m.best[s]
        w == Walk(LevelNext(m), head, MaxLevels)
        met == {k \in 1 .. MaxLevels : w[k] = head}
        upTo == IF met = {} THEN MaxLevels ELSE Min(met)
        freed[k \in 0 .. upTo] ==
            IF k = 0 THEN m
            ELSE IF freed[k - 1].status # "running" THEN freed[k - 1]
            ELSE Deallocate(freed[k - 1], w[k])
    IN  IF head = Null \/ m.status # "running" THEN m ELSE freed[upTo]

\* CLEAR: price_orders_at_price keeps its pointers.
Clear(m) ==
    LET freed == FreeSide(FreeSide(m, "BUY"), "SELL")
    IN  IF freed.status # "running" THEN freed
        ELSE [freed EXCEPT !.byId = [i \in Ids |-> Null],
                           !.best = [s \in Sides |-> Null]]

\* The switch over the type of the update, with its assertions.
Applied(m, u) ==
    CASE u.type = "CLEAR" -> Clear(m)
      [] u.type = "ADD" /\ m.byId[u.id] = Null ->
            AddOrder([m EXCEPT !.order = Append(@,
                        [id |-> u.id, side |-> u.side, price |-> u.price,
                         quantity |-> u.quantity, next |-> Null, prev |-> Null])],
                     Len(m.order) + 1)
      [] u.type = "MODIFY" /\ m.byId[u.id] # Null ->
            [m EXCEPT !.order[m.byId[u.id]].quantity = u.quantity]
      [] u.type = "CANCEL" /\ m.byId[u.id] # Null -> RemoveOrder(m, m.byId[u.id])
      [] OTHER -> Ended(m, "order_id")

\* Fault: an update at the best price itself is not one of the best level.
Updates_OnlyBetter(m, u, s) ==
    /\ m.best[s] # Null /\ u.side = s
    /\ Worse(s, m.level[m.best[s]].price, u.price)

\* bid_updated and ask_updated, which are worked out before the update is
\* applied: an empty side is never found to change.
Updates(m, u, s) ==
    /\ m.best[s] # Null /\ u.side = s
    /\ ~Worse(s, u.price, m.level[m.best[s]].price)

\* updateBBO() for one side: price and total quantity of its best level.
BestOf(m, s) ==
    IF m.best[s] = Null THEN Invalid
    ELSE LET ring == OrderRing(m, m.best[s])
         IN  [price |-> m.level[m.best[s]].price,
              quantity |->
                  SumFunction([k \in DOMAIN ring |-> m.order[ring[k]].quantity])]

\* The walk of updateBBO() over the orders does not come to its end.
Strays(m, s) == m.best[s] # Null /\ OrderRing(m, m.best[s]) = <<>>

\* The order joins a level that is free or has another price or side.
Misplaces(m, u) ==
    LET b == LevelAt(m, u.price) IN
    /\ u.type = "ADD" /\ b # Null
    /\ \/ m.free[b]
       \/ m.level[b].side # u.side
       \/ m.level[b].price # u.price

OnMarketUpdate(u) ==
    LET updated == {s \in Sides : Updates(mob, u, s)}
        done == Applied(mob, u)
        stray == \E s \in updated : Strays(done, s)
    IN  /\ mob.status = "running"
        /\ misled' = (misled \/ Misplaces(mob, u))
        /\ IF done.status # "running" \/ stray
           THEN /\ mob' = IF done.status = "running" THEN Ended(done, "endless")
                          ELSE done
                /\ UNCHANGED <<bbo, outdated>>
           ELSE /\ mob' = done
                /\ bbo' = [s \in Sides |-> IF s \in updated THEN BestOf(done, s)
                                           ELSE bbo[s]]
                /\ outdated' = IF u.type = "CLEAR" THEN Sides
                               ELSE outdated \ updated

-----------------------------------------------------------------------------
(* The updates that come. *)

NotResting == [side |-> Null, price |-> Null, quantity |-> 0]
Resting == {i \in Ids : feed[i] # NotResting}

\* A new order rests without crossing the other side.
Add(side, price, quantity) ==
    /\ toCome = <<>> /\ nextId <= MaxOrderId
    /\ \A i \in Resting : feed[i].side # side => Worse(side, price, feed[i].price)
    /\ OnMarketUpdate(Update("ADD", nextId, side, price, quantity))
    /\ feed' = [feed EXCEPT ![nextId] =
                   [side |-> side, price |-> price, quantity |-> quantity]]
    /\ nextId' = nextId + 1
    /\ UNCHANGED <<toCome, clears>>

Modify(id, quantity) ==
    /\ toCome = <<>> /\ quantity < feed[id].quantity
    /\ OnMarketUpdate(Update("MODIFY", id, feed[id].side, feed[id].price, quantity))
    /\ feed' = [feed EXCEPT ![id].quantity = quantity]
    /\ UNCHANGED <<nextId, toCome, clears>>

Cancel(id) ==
    /\ toCome = <<>> /\ id \in Resting
    /\ OnMarketUpdate(Update("CANCEL", id, feed[id].side, feed[id].price, 0))
    /\ feed' = [feed EXCEPT ![id] = NotResting]
    /\ UNCHANGED <<nextId, toCome, clears>>

\* A set of ids, from the lowest to the highest.
InOrder(ids) ==
    CHOOSE f \in [1 .. Cardinality(ids) -> ids] :
        \A i, j \in DOMAIN f : i < j => f[i] < f[j]

\* Updates were lost; by the time of the snapshot the orders of kept still
\* rest.  Orders that came in meanwhile follow as additions.
Resync(kept) ==
    /\ toCome = <<>> /\ clears < MaxClears
    /\ OnMarketUpdate(Update("CLEAR", Null, Null, Null, Null))
    /\ feed' = [i \in Ids |-> IF i \in kept THEN feed[i] ELSE NotResting]
    /\ toCome' = InOrder(kept)
    /\ clears' = clears + 1
    /\ UNCHANGED nextId

\* The snapshot lists the orders by their ids.
SnapshotOrder ==
    /\ toCome # <<>>
    /\ LET id == Head(toCome)
       IN  OnMarketUpdate(Update("ADD", id, feed[id].side, feed[id].price,
                                 feed[id].quantity))
    /\ toCome' = Tail(toCome)
    /\ UNCHANGED <<feed, nextId, clears>>

\* The prices of the levels along a side's ring, best first.
RingPrices(m, s) ==
    LET ring == LevelRing(m, s) IN [k \in DOMAIN ring |-> m.level[ring[k]].price]

\* The destructor prints and checks the book.  Its walk over the bids starts
\* from the least of all prices, so that it fails on every bid.
Printable(m, s) ==
    LET ring == LevelRing(m, s) IN
    m.best[s] # Null =>
        /\ ring # <<>>
        /\ \A k \in DOMAIN ring : OrderRing(m, ring[k]) # <<>>
        /\ \A k \in 1 .. Len(ring) - 1 :
               Worse(s, RingPrices(m, s)[k + 1], RingPrices(m, s)[k])

Destroy ==
    /\ mob.status = "running"
    /\ mob' = Ended(mob, IF Printable(mob, "SELL") /\ mob.best["BUY"] = Null
                         THEN "destroyed" ELSE "validity_check")
    /\ UNCHANGED <<bbo, feedVars, misled, outdated>>

-----------------------------------------------------------------------------
Init ==
    /\ mob = Empty
    /\ bbo = [s \in Sides |-> Invalid]
    /\ feed = [i \in Ids |-> NotResting]
    /\ nextId = 1 /\ toCome = <<>> /\ clears = 0
    /\ misled = FALSE /\ outdated = {}

Next ==
    \/ \E s \in Sides, p \in Prices, q \in Quantities : Add(s, p, q)
    \/ \E i \in Ids, q \in Quantities : Modify(i, q)
    \/ \E i \in Ids : Cancel(i)
    \/ \E kept \in SUBSET Resting : Resync(kept)
    \/ SnapshotOrder
    \/ Destroy

Spec == Init /\ [][Next]_vars

-----------------------------------------------------------------------------
(* Properties. *)

Running == mob.status = "running"

\* The ids that the client should know by now.
Known == Resting \ ToSet(toCome)
On(s) == {i \in Known : feed[i].side = s}

\* oid_to_order names exactly the orders that rest and that the client was told
\* of, each as it rests, so that neither assertion on an order id fails: also
\* after a recovery, and even where the levels are no longer right.
KnownById ==
    /\ mob.status # "order_id"
    /\ Running => \A i \in Ids :
          IF i \in Known
          THEN /\ mob.byId[i] # Null
               /\ LET o == mob.order[mob.byId[i]]
                  IN  feed[i] = [side |-> o.side, price |-> o.price,
                                 quantity |-> o.quantity]
          ELSE mob.byId[i] = Null

\* The orders that rest on side s at a price, oldest first.
Queue(s, price) ==
    InOrder({i \in On(s) : feed[i].price = price})

\* A set of prices of side s, from the best to the worst.
BestFirst(s, prices) ==
    CHOOSE f \in [1 .. Cardinality(prices) -> prices] :
        \A i, j \in DOMAIN f : i < j => Worse(s, f[j], f[i])

\* The ids along the ring of level b.
QueueOf(m, b) ==
    LET ring == OrderRing(m, b) IN [k \in DOMAIN ring |-> m.order[ring[k]].id]

\* As long as no order was put into a level that CLEAR left behind, each side's
\* ring lists the prices of the exchange's book from the best to the worst, each
\* level its orders in the order of their times, and the blocks that are on no
\* ring are exactly the free ones.
BookIsFeed ==
    Running /\ ~misled =>
        /\ \A s \in Sides :
              LET prices == {feed[i].price : i \in On(s)}
                  ring == LevelRing(mob, s)
              IN  /\ RingPrices(mob, s) = BestFirst(s, prices)
                  /\ \A k \in DOMAIN ring :
                        QueueOf(mob, ring[k]) =
                            Queue(s, mob.level[ring[k]].price)
        /\ {b \in Blocks : ~mob.free[b]} =
              UNION {ToSet(LevelRing(mob, s)) : s \in Sides}

\* The best of side s in the exchange's book: price and total quantity.
FeedBest(s) ==
    LET best == CHOOSE p \in {feed[i].price : i \in On(s)} :
                    \A i \in On(s) : ~Worse(s, p, feed[i].price)
    IN  IF On(s) = {} THEN Invalid
        ELSE LET queue == Queue(s, best)
             IN  [price |-> best,
                  quantity |->
                      SumFunction([k \in DOMAIN queue |-> feed[queue[k]].quantity])]

\* What the strategies trade on: unless it was written before a CLEAR, a side's
\* best price and quantity are those of the exchange's book or unknown, although
\* the code decides whether they change before it applies the update.
BboIsSound ==
    Running /\ ~misled =>
        \A s \in Sides \ outdated : bbo[s] \in {Invalid, FeedBest(s)}

\* A best price that is known stays known until its side is empty.
BboStaysStep ==
    mob'.status = "running" /\ ~misled' =>
        \A s \in Sides \ outdated' :
            bbo[s] # Invalid /\ bbo'[s] = Invalid => On(s)' = {}
BboStays == [][BboStaysStep]_vars

\* The pool's assertion "Expected in use Object block" never fails: no level is
\* given back twice.
NoLevelFreedTwice == mob.status # "not_in_use"

=============================================================================
