-------------------------- MODULE OrderBookProofs --------------------------
(***************************************************************************)
(* The order book stays uncrossed, keeps its levels, its index, the        *)
(* clients' books and the subscribers' books right and trades in           *)
(* price-time priority, for every set of clients, prices and quantities,   *)
(* as long as no two prices in use share a slot of price_orders_at_price.  *)
(***************************************************************************)
EXTENDS OrderBook, FiniteSetTheorems, TLAPS

\* PriceToIndex tells the prices in use apart.
DistinctSlots ==
    \A p, q \in Prices : PriceToIndex(p) = PriceToIndex(q) => p = q

LevelType == [Slots -> [side : Sides \cup {NoSide}, price : Int,
                        orders : Seq(Orders)]]
LedgerType == [Clients -> [Ids -> [ordered : Nat, executed : Nat, leaves : Nat]]]

-----------------------------------------------------------------------------
(* The inductive invariant, first what it says of the levels lv.             *)

OrdersOf(lv) == UNION {Range(lv[i].orders) : i \in Slots}

\* A level holds orders of its side and price, and is in its price's slot.
Sound(lv) ==
    \A i \in Slots : \A k \in 1 .. Len(lv[i].orders) :
        /\ PriceToIndex(lv[i].price) = i
        /\ lv[i].orders[k].side = lv[i].side
        /\ lv[i].orders[k].price = lv[i].price

\* Orders of a level stand in order of arrival.
InOrder(lv) ==
    \A i \in Slots : \A k, n \in 1 .. Len(lv[i].orders) :
        k < n => /\ lv[i].orders[k].priority < lv[i].orders[n].priority
                 /\ lv[i].orders[k].moid < lv[i].orders[n].moid

\* No order is in two places.
OnePlace(lv) ==
    \A i, j \in Slots : \A k \in 1 .. Len(lv[i].orders), n \in 1 .. Len(lv[j].orders) :
        lv[i].orders[k].moid = lv[j].orders[n].moid => i = j /\ k = n

LevelsInv(lv) == lv \in LevelType /\ Sound(lv) /\ InOrder(lv) /\ OnePlace(lv)

\* No client has two resting orders of one name, and the ids of requests to
\* come are above those of the resting orders.
OwnersInv ==
    /\ \A o, n \in Resting : o.client = n.client /\ o.oid = n.oid => o = n
    /\ \A o \in Resting : /\ o.moid < nextMarketOrderId
                          /\ o.oid <= sent[o.client]
    /\ \A c \in Clients : sent[c] < nextMarketOrderId

\* The request at work is newer than every resting order, and its client has
\* been told what is left of it.
RequestInv ==
    busy =>
        /\ cur \in [client : Clients, oid : Ids, moid : Ids, side : Sides,
                    price : Prices, leaves : Nat]
        /\ cur.moid < nextMarketOrderId /\ cur.oid <= sent[cur.client]
        /\ \A o \in Resting : /\ o.moid < cur.moid
                              /\ ~(o.client = cur.client /\ o.oid = cur.oid)
        /\ ledger[cur.client][cur.oid].leaves = cur.leaves

\* The mirror lists the resting orders and nothing else.
MirrorInv ==
    /\ \A o \in Resting : mirror[o.moid] = Public(o)
    /\ \A m \in Ids : (\A o \in Resting : o.moid # m) => mirror[m] = NotListed

BookInv ==
    /\ TypeOK
    /\ LevelsInv(level)
    /\ OwnersInv
    /\ RequestInv
    /\ Uncrossed
    /\ IndexIsExact
    /\ LedgerAddsUp
    /\ MirrorInv

-----------------------------------------------------------------------------
(* Lemmas about the levels. *)

\* The remainder of any price, also of a negative one, is a slot.
LEMMA PriceToIndexInSlots == \A p \in Int : PriceToIndex(p) \in Slots
<1>1. MaxLevels \in Int /\ MaxLevels > 0
  BY BookAssumption
<1>2. QED
  BY <1>1, Z3 DEF PriceToIndex, Slots

\* The fields of an order.
LEMMA OrderFields ==
    \A o \in Orders : /\ o.price \in Int /\ o.moid \in Nat /\ o.oid \in Nat
                      /\ o.quantity \in Nat /\ o.priority \in Nat
<1>1. Ids \subseteq Nat /\ Prices \subseteq Int
  BY BookAssumption DEF Ids
<1>2. QED
  BY <1>1 DEF Orders

\* An order of a book has a level and a place in it.
LEMMA OrdersOfPlaces ==
    ASSUME NEW lv \in LevelType
    PROVE  /\ \A o \in OrdersOf(lv) :
                 o \in Orders
                 /\ \E i \in Slots : \E k \in 1 .. Len(lv[i].orders) :
                       o = lv[i].orders[k]
           /\ \A i \in Slots : \A k \in 1 .. Len(lv[i].orders) :
                 lv[i].orders[k] \in OrdersOf(lv)
<1>1. \A i \in Slots : lv[i].orders \in Seq(Orders)
  BY DEF LevelType
<1>2. \A i \in Slots : Range(lv[i].orders) =
          {lv[i].orders[k] : k \in 1 .. Len(lv[i].orders)}
  BY <1>1 DEF Range
<1>3. \A i \in Slots : \A k \in 1 .. Len(lv[i].orders) : lv[i].orders[k] \in Orders
  BY <1>1
<1>4. \A o : o \in OrdersOf(lv) <=> \E i \in Slots : o \in Range(lv[i].orders)
  BY Zenon DEF OrdersOf
<1>5. ASSUME NEW o \in OrdersOf(lv)
      PROVE  /\ o \in Orders
             /\ \E i \in Slots : \E k \in 1 .. Len(lv[i].orders) :
                   o = lv[i].orders[k]
  <2>1. PICK i \in Slots : o \in Range(lv[i].orders)
    BY <1>4, <1>5
  <2>2. PICK k \in 1 .. Len(lv[i].orders) : o = lv[i].orders[k]
    BY <1>2, <2>1
  <2>3. QED
    BY <1>3, <2>2
<1>6. ASSUME NEW i \in Slots, NEW k \in 1 .. Len(lv[i].orders)
      PROVE  lv[i].orders[k] \in OrdersOf(lv)
  <2>1. lv[i].orders[k] \in Range(lv[i].orders)
    BY <1>2
  <2>2. QED
    BY <1>4, <2>1
<1>7. QED
  BY <1>5, <1>6

\* What is left of a sequence without its k-th element.
LEMMA WithoutElement ==
    ASSUME NEW S, NEW q \in Seq(S), NEW k \in 1 .. Len(q)
    PROVE  /\ Without(q, k) \in Seq(S)
           /\ Len(Without(q, k)) = Len(q) - 1
           /\ \A n \in 1 .. Len(q) - 1 :
                 Without(q, k)[n] = IF n < k THEN q[n] ELSE q[n + 1]
<1>1. Len(q) \in Nat /\ Len(q) - 1 \in Nat
  OBVIOUS
<1>2. \A n \in 1 .. Len(q) - 1 : (IF n < k THEN q[n] ELSE q[n + 1]) \in S
  BY <1>1
<1>3. QED
  BY <1>1, <1>2 DEF Without

\* removeOrder() and removeOrderAtPrice() keep the levels right and take out
\* exactly the order in question.
LEMMA RemoveOrderKeeps ==
    ASSUME NEW lv, LevelsInv(lv), NEW i \in Slots, NEW k \in 1 .. Len(lv[i].orders)
    PROVE  /\ LevelsInv(RemoveOrder(lv, i, k))
           /\ OrdersOf(RemoveOrder(lv, i, k)) = OrdersOf(lv) \ {lv[i].orders[k]}
<1> DEFINE r == RemoveOrder(lv, i, k)
           old == lv[i].orders
           At(n) == IF n < k THEN n ELSE n + 1
<1>1. /\ lv \in LevelType /\ Sound(lv) /\ InOrder(lv) /\ OnePlace(lv)
      /\ old \in Seq(Orders) /\ Len(old) \in Nat
  BY DEF LevelsInv, LevelType
<1>2. /\ r \in LevelType
      /\ \A j \in Slots : j # i => r[j] = lv[j]
      /\ Len(r[i].orders) = Len(old) - 1
      /\ \A n \in 1 .. Len(old) - 1 : r[i].orders[n] = old[At(n)]
      /\ Len(old) > 1 => r[i].side = lv[i].side /\ r[i].price = lv[i].price
  <2>1. CASE Len(old) = 1
    <3>1. r = [lv EXCEPT ![i] = NoLevel]
      BY <2>1 DEF RemoveOrder
    <3>2. /\ NoLevel \in [side : Sides \cup {NoSide}, price : Int, orders : Seq(Orders)]
          /\ Len(NoLevel.orders) = 0
      BY DEF NoLevel
    <3>3. QED
      BY <1>1, <2>1, <3>1, <3>2 DEF LevelType
  <2>2. CASE Len(old) # 1
    <3>1. r = [lv EXCEPT ![i].orders = Without(old, k)]
      BY <1>1, <2>2 DEF RemoveOrder, LevelType
    <3>2. /\ Without(old, k) \in Seq(Orders)
          /\ Len(Without(old, k)) = Len(old) - 1
          /\ \A n \in 1 .. Len(old) - 1 :
                Without(old, k)[n] = IF n < k THEN old[n] ELSE old[n + 1]
      BY <1>1, WithoutElement
    <3>3. /\ r[i].orders = Without(old, k)
          /\ r[i].side = lv[i].side /\ r[i].price = lv[i].price
          /\ r \in LevelType
          /\ \A j \in Slots : j # i => r[j] = lv[j]
      BY <1>1, <3>1, <3>2, ZenonT(60) DEF LevelType
    <3>4. QED
      BY <3>2, <3>3
  <2>3. QED
    BY <2>1, <2>2
<1>3. /\ \A n \in 1 .. Len(old) - 1 : At(n) \in 1 .. Len(old) /\ At(n) # k
      /\ \A n \in 1 .. Len(old) : n # k => \E m \in 1 .. Len(old) - 1 : At(m) = n
      /\ \A m, n \in 1 .. Len(old) - 1 : m < n => At(m) < At(n)
      /\ \A m, n \in 1 .. Len(old) - 1 : At(m) = At(n) => m = n
  <2>1. \A n \in 1 .. Len(old) : n # k =>
            IF n < k THEN n \in 1 .. Len(old) - 1 /\ At(n) = n
            ELSE n - 1 \in 1 .. Len(old) - 1 /\ At(n - 1) = n
    BY <1>1
  <2>2. QED
    BY <1>1, <2>1
<1> HIDE DEF r, At
<1>4. Sound(r)
  <2> SUFFICES ASSUME NEW j \in Slots, NEW n \in 1 .. Len(r[j].orders)
               PROVE  /\ PriceToIndex(r[j].price) = j
                      /\ r[j].orders[n].side = r[j].side
                      /\ r[j].orders[n].price = r[j].price
    BY DEF Sound
  <2>1. CASE j = i
    <3>1. n \in 1 .. Len(old) - 1 /\ Len(old) > 1
      BY <1>1, <1>2, <2>1, SMTT(30)
    <3>2. At(n) \in 1 .. Len(lv[i].orders) /\ r[i].orders[n] = lv[i].orders[At(n)]
      BY <1>2, <1>3, <3>1
    <3>3. /\ PriceToIndex(lv[i].price) = i
          /\ lv[i].orders[At(n)].side = lv[i].side
          /\ lv[i].orders[At(n)].price = lv[i].price
      BY <1>1, <3>2 DEF Sound
    <3>4. QED
      BY <1>2, <2>1, <3>1, <3>2, <3>3
  <2>2. CASE j # i
    BY <1>1, <1>2, <2>2 DEF Sound
  <2>3. QED
    BY <2>1, <2>2
<1>5. InOrder(r)
  <2> SUFFICES ASSUME NEW j \in Slots, NEW m \in 1 .. Len(r[j].orders),
                      NEW n \in 1 .. Len(r[j].orders), m < n
               PROVE  /\ r[j].orders[m].priority < r[j].orders[n].priority
                      /\ r[j].orders[m].moid < r[j].orders[n].moid
    BY DEF InOrder
  <2>1. CASE j = i
    <3>1. m \in 1 .. Len(old) - 1 /\ n \in 1 .. Len(old) - 1
      BY <1>2, <2>1
    <3>2. QED
      BY <1>1, <1>2, <1>3, <2>1, <3>1, ZenonT(60) DEF InOrder
  <2>2. CASE j # i
    BY <1>1, <1>2, <2>2 DEF InOrder
  <2>3. QED
    BY <2>1, <2>2
<1>6. OnePlace(r)
  <2> SUFFICES ASSUME NEW j \in Slots, NEW h \in Slots,
                      NEW m \in 1 .. Len(r[j].orders),
                      NEW n \in 1 .. Len(r[h].orders),
                      r[j].orders[m].moid = r[h].orders[n].moid
               PROVE  j = h /\ m = n
    BY DEF OnePlace
  <2> DEFINE was(g, x) == IF g = i THEN At(x) ELSE x
  <2>1. /\ was(j, m) \in 1 .. Len(lv[j].orders)
        /\ r[j].orders[m] = lv[j].orders[was(j, m)]
    BY <1>2, <1>3
  <2>2. /\ was(h, n) \in 1 .. Len(lv[h].orders)
        /\ r[h].orders[n] = lv[h].orders[was(h, n)]
    BY <1>2, <1>3
  <2>3. (j = i => m \in 1 .. Len(old) - 1) /\ (h = i => n \in 1 .. Len(old) - 1)
    BY <1>2
  <2> HIDE DEF was
  <2>4. lv[j].orders[was(j, m)].moid = lv[h].orders[was(h, n)].moid
    BY <2>1, <2>2
  <2>5. OnePlace(lv)
    BY <1>1
  <2>6. j = h /\ was(j, m) = was(h, n)
    BY <2>1, <2>2, <2>4, <2>5, SMTT(30) DEF OnePlace
  <2>7. QED
    BY <1>3, <2>3, <2>6 DEF was
<1>7. OrdersOf(r) = OrdersOf(lv) \ {old[k]}
  <2>1. ASSUME NEW o \in OrdersOf(r) PROVE o \in OrdersOf(lv) /\ o # old[k]
    <3>1. PICK j \in Slots : \E n \in 1 .. Len(r[j].orders) : o = r[j].orders[n]
      BY <1>2, <2>1, OrdersOfPlaces
    <3>2. PICK n \in 1 .. Len(r[j].orders) : o = r[j].orders[n]
      BY <3>1
    <3>3. PICK m \in 1 .. Len(lv[j].orders) :
              o = lv[j].orders[m] /\ ~(j = i /\ m = k)
      <4>1. CASE j = i
        <5>1. n \in 1 .. Len(old) - 1
          BY <1>2, <4>1
        <5>2. At(n) \in 1 .. Len(lv[i].orders) /\ At(n) # k /\ o = lv[i].orders[At(n)]
          BY <1>2, <1>3, <3>2, <4>1, <5>1
        <5>3. QED
          BY <4>1, <5>2
      <4>2. CASE j # i
        BY <1>2, <3>2, <4>2
      <4>3. QED
        BY <4>1, <4>2
    <3>4. o \in OrdersOf(lv)
      BY <1>1, <3>3, OrdersOfPlaces
    <3>5. o # old[k]
      BY <1>1, <3>3 DEF OnePlace
    <3>6. QED
      BY <3>4, <3>5
  <2>2. ASSUME NEW o \in OrdersOf(lv), o # old[k] PROVE o \in OrdersOf(r)
    <3>1. PICK j \in Slots : \E n \in 1 .. Len(lv[j].orders) : o = lv[j].orders[n]
      BY <1>1, <2>2, OrdersOfPlaces
    <3>2. PICK n \in 1 .. Len(lv[j].orders) : o = lv[j].orders[n]
      BY <3>1
    <3>3. \E m \in 1 .. Len(r[j].orders) : o = r[j].orders[m]
      <4>1. CASE j = i
        <5>1. PICK m \in 1 .. Len(old) - 1 : At(m) = n
          BY <1>3, <2>2, <3>2, <4>1
        <5>2. QED
          BY <1>2, <3>2, <4>1, <5>1
      <4>2. CASE j # i
        BY <1>2, <3>2, <4>2
      <4>3. QED
        BY <4>1, <4>2
    <3>4. QED
      BY <1>2, <3>3, OrdersOfPlaces
  <2>3. QED
    BY <2>1, <2>2
<1>8. QED
  BY <1>2, <1>4, <1>5, <1>6, <1>7 DEF LevelsInv, r

\* The partial fill of match(): the first order of slot i is reduced by q.
ReduceFirst(lv, i, q) == [lv EXCEPT ![i].orders[1].quantity = @ - q]

\* The order stays where it is with a smaller quantity.
LEMMA ReduceOrderKeeps ==
    ASSUME NEW lv, LevelsInv(lv), NEW i \in Slots, 1 \in 1 .. Len(lv[i].orders),
           NEW q \in Nat, 0 < q, q < lv[i].orders[1].quantity
    PROVE  LET o == lv[i].orders[1]
           IN  /\ LevelsInv(ReduceFirst(lv, i, q))
               /\ OrdersOf(ReduceFirst(lv, i, q)) =
                      (OrdersOf(lv) \ {o}) \cup {[o EXCEPT !.quantity = @ - q]}
<1> DEFINE r == ReduceFirst(lv, i, q)
           old == lv[i].orders
           o == old[1]
           less == [o EXCEPT !.quantity = @ - q]
<1>1. /\ lv \in LevelType /\ Sound(lv) /\ InOrder(lv) /\ OnePlace(lv)
      /\ old \in Seq(Orders) /\ Len(old) \in Nat /\ o \in Orders
  BY DEF LevelsInv, LevelType
<1>2. /\ less \in Orders
      /\ less.moid = o.moid /\ less.side = o.side /\ less.price = o.price
      /\ less.priority = o.priority
  <2>1. o.quantity \in Nat /\ o.quantity - q \in Nat \ {0}
    BY <1>1, SMTT(30) DEF Orders
  <2>2. QED
    BY <1>1, <2>1 DEF Orders
<1>3. r = [lv EXCEPT ![i] = [lv[i] EXCEPT !.orders = [old EXCEPT ![1] = less]]]
  BY <1>1 DEF LevelType, ReduceFirst
<1>4. /\ [old EXCEPT ![1] = less] \in Seq(Orders)
      /\ Len([old EXCEPT ![1] = less]) = Len(old)
      /\ [old EXCEPT ![1] = less][1] = less
      /\ \A n \in 1 .. Len(old) : n # 1 => [old EXCEPT ![1] = less][n] = old[n]
  BY <1>1, <1>2
<1>5. /\ r \in LevelType
      /\ r[i].side = lv[i].side /\ r[i].price = lv[i].price
      /\ \A j \in Slots : j # i => r[j] = lv[j]
      /\ Len(r[i].orders) = Len(lv[i].orders)
      /\ r[i].orders[1] = less
      /\ \A n \in 1 .. Len(lv[i].orders) : n # 1 => r[i].orders[n] = lv[i].orders[n]
  BY <1>1, <1>3, <1>4, ZenonT(60) DEF LevelType
<1> HIDE DEF r, less
<1>6. \A j \in Slots :
          /\ r[j].side = lv[j].side /\ r[j].price = lv[j].price
          /\ Len(r[j].orders) = Len(lv[j].orders)
          /\ \A n \in 1 .. Len(lv[j].orders) :
                /\ r[j].orders[n].moid = lv[j].orders[n].moid
                /\ r[j].orders[n].side = lv[j].orders[n].side
                /\ r[j].orders[n].price = lv[j].orders[n].price
                /\ r[j].orders[n].priority = lv[j].orders[n].priority
                /\ r[j].orders[n] = IF j = i /\ n = 1 THEN less ELSE lv[j].orders[n]
  BY <1>2, <1>5, SMTT(30)
<1>7. Sound(r) /\ InOrder(r) /\ OnePlace(r)
  <2>1. Sound(r)
    BY <1>1, <1>6 DEF Sound
  <2>2. InOrder(r)
    BY <1>1, <1>6 DEF InOrder
  <2>3. OnePlace(r)
    <3> SUFFICES ASSUME NEW j \in Slots, NEW h \in Slots,
                        NEW m \in 1 .. Len(r[j].orders),
                        NEW n \in 1 .. Len(r[h].orders),
                        r[j].orders[m].moid = r[h].orders[n].moid
                 PROVE  j = h /\ m = n
      BY DEF OnePlace
    <3>1. /\ m \in 1 .. Len(lv[j].orders) /\ n \in 1 .. Len(lv[h].orders)
          /\ lv[j].orders[m].moid = lv[h].orders[n].moid
      BY <1>6
    <3>2. QED
      BY <1>1, <3>1 DEF OnePlace
  <2>4. QED
    BY <2>1, <2>2, <2>3
<1>8. OrdersOf(r) = (OrdersOf(lv) \ {o}) \cup {less}
  <2>1. ASSUME NEW x \in OrdersOf(r)
        PROVE  x = less \/ (x \in OrdersOf(lv) /\ x # o)
    <3>1. PICK j \in Slots : \E n \in 1 .. Len(r[j].orders) : x = r[j].orders[n]
      BY <1>5, <2>1, OrdersOfPlaces
    <3>2. PICK n \in 1 .. Len(lv[j].orders) : x = r[j].orders[n]
      BY <1>6, <3>1
    <3>3. CASE j = i /\ n = 1
      BY <1>6, <3>2, <3>3
    <3>4. CASE ~(j = i /\ n = 1)
      <4>1. x = lv[j].orders[n]
        BY <1>6, <3>2, <3>4
      <4>2. x # o
        BY <1>1, <3>4, <4>1 DEF OnePlace
      <4>3. QED
        BY <1>1, <4>1, <4>2, OrdersOfPlaces
    <3>5. QED
      BY <3>3, <3>4
  <2>2. ASSUME NEW x \in OrdersOf(lv), x # o PROVE x \in OrdersOf(r)
    <3>1. PICK j \in Slots : \E n \in 1 .. Len(lv[j].orders) : x = lv[j].orders[n]
      BY <1>1, <2>2, OrdersOfPlaces
    <3>2. PICK n \in 1 .. Len(lv[j].orders) : x = lv[j].orders[n]
      BY <3>1
    <3>3. x = r[j].orders[n] /\ n \in 1 .. Len(r[j].orders)
      BY <1>6, <2>2, <3>2
    <3>4. QED
      BY <1>5, <3>3, OrdersOfPlaces
  <2>3. less \in OrdersOf(r)
    BY <1>5, OrdersOfPlaces
  <2>4. QED
    BY <2>1, <2>2, <2>3
<1>9. QED
  BY <1>5, <1>7, <1>8 DEF LevelsInv, r, less

\* addOrder() puts a new order into its level, behind the others.
LEMMA AddOrderKeeps ==
    ASSUME NEW lv, LevelsInv(lv), NEW o \in Orders,
           \A n \in OrdersOf(lv) : n.moid < o.moid,
           LET at == lv[PriceToIndex(o.price)]
           IN  IsLevel(at) => /\ at.side = o.side /\ at.price = o.price
                              /\ \A k \in 1 .. Len(at.orders) :
                                    at.orders[k].priority < o.priority
    PROVE  /\ LevelsInv(AddOrder(lv, o))
           /\ OrdersOf(AddOrder(lv, o)) = OrdersOf(lv) \cup {o}
<1> DEFINE r == AddOrder(lv, o)
           i == PriceToIndex(o.price)
           len == Len(lv[i].orders)
<1>1. /\ lv \in LevelType /\ Sound(lv) /\ InOrder(lv) /\ OnePlace(lv)
      /\ o.price \in Int /\ o.moid \in Nat /\ o.priority \in Nat
  BY OrderFields DEF LevelsInv
<1>2. i \in Slots
  BY <1>1, PriceToIndexInSlots
<1>3. lv[i].orders \in Seq(Orders) /\ len \in Nat
  BY <1>1, <1>2 DEF LevelType
<1>4. /\ r \in LevelType
      /\ \A j \in Slots : j # i => r[j] = lv[j]
      /\ Len(r[i].orders) = len + 1
      /\ r[i].orders[len + 1] = o
      /\ \A n \in 1 .. len : r[i].orders[n] = lv[i].orders[n]
      /\ r[i].side = o.side /\ r[i].price = o.price
  <2>1. CASE IsLevel(lv[i])
    <3>1. r = [lv EXCEPT ![i].orders = Append(lv[i].orders, o)]
      BY <2>1 DEF AddOrder
    <3>2. /\ Append(lv[i].orders, o) \in Seq(Orders)
          /\ Len(Append(lv[i].orders, o)) = len + 1
          /\ Append(lv[i].orders, o)[len + 1] = o
          /\ \A n \in 1 .. len : Append(lv[i].orders, o)[n] = lv[i].orders[n]
      BY <1>3
    <3>3. /\ r[i].orders = Append(lv[i].orders, o)
          /\ r[i].side = lv[i].side /\ r[i].price = lv[i].price
          /\ \A j \in Slots : j # i => r[j] = lv[j]
          /\ r \in LevelType
      BY <1>1, <1>2, <3>1, <3>2, ZenonT(60) DEF LevelType
    <3>4. QED
      BY <2>1, <3>2, <3>3
  <2>2. CASE ~IsLevel(lv[i])
    <3>1. r = [lv EXCEPT ![i] = [side |-> o.side, price |-> o.price,
                                 orders |-> <<o>>]]
      BY <1>1, <1>2, <2>2 DEF AddOrder, LevelType
    <3>2. len = 0 /\ o.side \in Sides
      BY <2>2 DEF IsLevel, Orders
    <3>3. <<o>> \in Seq(Orders) /\ Len(<<o>>) = 1 /\ <<o>>[1] = o
      OBVIOUS
    <3>4. QED
      BY <1>1, <1>2, <3>1, <3>2, <3>3 DEF LevelType
  <2>3. QED
    BY <2>1, <2>2
<1> HIDE DEF r
<1>5. \A n \in 1 .. len :
          /\ lv[i].side = o.side /\ lv[i].price = o.price
          /\ lv[i].orders[n].priority < o.priority
          /\ lv[i].orders[n].moid < o.moid
  <2> SUFFICES ASSUME NEW n \in 1 .. len
               PROVE  /\ lv[i].side = o.side /\ lv[i].price = o.price
                      /\ lv[i].orders[n].priority < o.priority
                      /\ lv[i].orders[n].moid < o.moid
    OBVIOUS
  <2>1. IsLevel(lv[i])
    BY <1>3 DEF IsLevel
  <2>2. QED
    BY <1>1, <1>2, <2>1, OrdersOfPlaces
<1>6. Sound(r)
  <2> SUFFICES ASSUME NEW j \in Slots, NEW n \in 1 .. Len(r[j].orders)
               PROVE  /\ PriceToIndex(r[j].price) = j
                      /\ r[j].orders[n].side = r[j].side
                      /\ r[j].orders[n].price = r[j].price
    BY DEF Sound
  <2>1. CASE j = i /\ n = len + 1
    BY <1>4, <2>1
  <2>2. CASE j = i /\ n # len + 1
    <3>1. n \in 1 .. len
      BY <1>3, <1>4, <2>2
    <3>2. QED
      BY <1>1, <1>2, <1>4, <1>5, <2>2, <3>1, ZenonT(60) DEF Sound
  <2>3. CASE j # i
    BY <1>1, <1>4, <2>3 DEF Sound
  <2>4. QED
    BY <2>1, <2>2, <2>3
<1>7. InOrder(r)
  <2> SUFFICES ASSUME NEW j \in Slots, NEW m \in 1 .. Len(r[j].orders),
                      NEW n \in 1 .. Len(r[j].orders), m < n
               PROVE  /\ r[j].orders[m].priority < r[j].orders[n].priority
                      /\ r[j].orders[m].moid < r[j].orders[n].moid
    BY DEF InOrder
  <2>1. CASE j = i /\ n = len + 1
    <3>1. m \in 1 .. len
      BY <1>3, <1>4, <2>1
    <3>2. QED
      BY <1>4, <1>5, <2>1, <3>1
  <2>2. CASE j = i /\ n # len + 1
    <3>1. m \in 1 .. len /\ n \in 1 .. len
      BY <1>3, <1>4, <2>2
    <3>2. QED
      BY <1>1, <1>2, <1>4, <2>2, <3>1 DEF InOrder
  <2>3. CASE j # i
    BY <1>1, <1>4, <2>3 DEF InOrder
  <2>4. QED
    BY <2>1, <2>2, <2>3
<1>8. ASSUME NEW j \in Slots, NEW n \in 1 .. Len(r[j].orders)
      PROVE  \/ j = i /\ n = len + 1 /\ r[j].orders[n] = o
             \/ /\ n \in 1 .. Len(lv[j].orders)
                /\ r[j].orders[n] = lv[j].orders[n]
                /\ r[j].orders[n] \in OrdersOf(lv)
                /\ r[j].orders[n].moid < o.moid
  <2>1. \/ j = i /\ n = len + 1 /\ r[j].orders[n] = o
        \/ n \in 1 .. Len(lv[j].orders) /\ r[j].orders[n] = lv[j].orders[n]
    BY <1>3, <1>4, <1>8, SMTT(30)
  <2>2. QED
    BY <1>1, <2>1, OrdersOfPlaces
<1>9. OnePlace(r)
  <2> SUFFICES ASSUME NEW j \in Slots, NEW h \in Slots,
                      NEW m \in 1 .. Len(r[j].orders),
                      NEW n \in 1 .. Len(r[h].orders),
                      r[j].orders[m].moid = r[h].orders[n].moid
               PROVE  j = h /\ m = n
    BY DEF OnePlace
  <2>1. CASE j = i /\ m = len + 1
    <3>1. r[j].orders[m].moid = o.moid
      BY <1>4, <2>1
    <3>2. ~(r[h].orders[n].moid < o.moid)
      BY <1>1, <3>1
    <3>3. h = i /\ n = len + 1
      BY <1>8, <3>2
    <3>4. QED
      BY <2>1, <3>3
  <2>2. CASE h = i /\ n = len + 1
    <3>1. r[h].orders[n].moid = o.moid
      BY <1>4, <2>2
    <3>2. ~(r[j].orders[m].moid < o.moid)
      BY <1>1, <3>1
    <3>3. j = i /\ m = len + 1
      BY <1>8, <3>2
    <3>4. QED
      BY <2>2, <3>3
  <2>3. CASE ~(j = i /\ m = len + 1) /\ ~(h = i /\ n = len + 1)
    <3>1. m \in 1 .. Len(lv[j].orders) /\ r[j].orders[m] = lv[j].orders[m]
      BY <1>8, <2>3
    <3>2. n \in 1 .. Len(lv[h].orders) /\ r[h].orders[n] = lv[h].orders[n]
      BY <1>8, <2>3
    <3>3. QED
      BY <1>1, <3>1, <3>2 DEF OnePlace
  <2>4. QED
    BY <2>1, <2>2, <2>3
<1>10. OrdersOf(r) = OrdersOf(lv) \cup {o}
  <2>1. ASSUME NEW x \in OrdersOf(r) PROVE x = o \/ x \in OrdersOf(lv)
    BY <1>4, <1>8, <2>1, OrdersOfPlaces
  <2>2. o \in OrdersOf(r)
    <3>1. len + 1 \in 1 .. Len(r[i].orders)
      BY <1>3, <1>4
    <3>2. QED
      BY <1>2, <1>4, <3>1, OrdersOfPlaces
  <2>3. ASSUME NEW x \in OrdersOf(lv) PROVE x \in OrdersOf(r)
    <3>1. PICK j \in Slots : \E n \in 1 .. Len(lv[j].orders) : x = lv[j].orders[n]
      BY <1>1, <2>3, OrdersOfPlaces
    <3>2. PICK n \in 1 .. Len(lv[j].orders) : x = lv[j].orders[n]
      BY <3>1
    <3>3. n \in 1 .. Len(r[j].orders) /\ x = r[j].orders[n]
      BY <1>3, <1>4, <3>2
    <3>4. QED
      BY <1>4, <3>3, OrdersOfPlaces
  <2>4. QED
    BY <2>1, <2>2, <2>3
<1>11. QED
  BY <1>4, <1>6, <1>7, <1>9, <1>10 DEF LevelsInv, r

-----------------------------------------------------------------------------
(* Lemmas about the best level and about the clients' books. *)

\* A number for each member of a finite set: one of them is the largest.
LEMMA FiniteMaximum ==
    ASSUME NEW S, IsFiniteSet(S), S # {}, NEW f \in [S -> Int]
    PROVE  \E x \in S : \A y \in S : f[y] <= f[x]
<1> DEFINE HasMax(T) == \E x \in T : \A y \in T : f[y] <= f[x]
           Bad == {T \in SUBSET S : T # {} /\ ~HasMax(T)}
           R == StrictSubsetOrdering(S)
<1>1. SUFFICES ASSUME Bad # {} PROVE FALSE
  OBVIOUS
<1>2. IsWellFoundedOn(R, SUBSET S)
  BY FS_StrictSubsetOrderingWellFounded, FS_FiniteSubsetsOfFinite
<1> HIDE DEF R
<1>3. PICK T \in Bad : \A U \in Bad : ~(<<U, T>> \in R)
  BY <1>1, <1>2, WFMin
<1>4. PICK x \in T : TRUE
  OBVIOUS
<1>5. T \ {x} \notin Bad
  <2>1. <<T \ {x}, T>> \in R
    BY DEF R, StrictSubsetOrdering
  <2>2. QED
    BY <1>3, <2>1
<1>6. CASE T \ {x} = {}
  <2>1. \A y \in T : f[y] <= f[x]
    BY <1>6
  <2>2. QED
    BY <2>1
<1>7. CASE T \ {x} # {}
  <2>1. PICK z \in T \ {x} : \A y \in T \ {x} : f[y] <= f[z]
    BY <1>5, <1>7
  <2>2. f[x] \in Int /\ f[z] \in Int /\ \A y \in T : f[y] \in Int
    OBVIOUS
  <2>3. CASE f[z] <= f[x]
    <3>1. \A y \in T : f[y] <= f[x]
      BY <2>1, <2>2, <2>3
    <3>2. QED
      BY <3>1
  <2>4. CASE f[x] <= f[z]
    <3>1. \A y \in T : f[y] <= f[z]
      BY <2>1, <2>4
    <3>2. QED
      BY <3>1
  <2>5. QED
    BY <2>2, <2>3, <2>4
<1>8. QED
  BY <1>6, <1>7

\* A side that is not empty has a best level, the head of its ring.
LEMMA BestExists ==
    ASSUME level \in LevelType, NEW s \in Sides, LevelsOf(s) # {}
    PROVE  \E i \in Slots : IsBest(s, i)
<1> DEFINE L == LevelsOf(s)
           rank == [i \in L |-> IF s = "BUY" THEN level[i].price ELSE -level[i].price]
<1>1. L \subseteq Slots /\ \A i \in L : level[i].price \in Int
  BY DEF LevelsOf, LevelType
<1>2. IsFiniteSet(L)
  <2>1. IsFiniteSet(Slots)
    BY BookAssumption, FS_Interval DEF Slots
  <2>2. QED
    BY <1>1, <2>1, FS_Subset
<1>3. rank \in [L -> Int]
  BY <1>1
<1>4. PICK i \in L : \A j \in L : rank[j] <= rank[i]
  BY <1>2, <1>3, FiniteMaximum
<1>5. \A j \in L : ~Better(s, level[j].price, level[i].price)
  BY <1>1, <1>4 DEF Better, Sides
<1>6. QED
  BY <1>1, <1>5 DEF IsBest

\* A FILLED response changes one entry of the clients' books.
LEMMA FillEntry ==
    ASSUME NEW l \in LedgerType, NEW c \in Clients, NEW id \in Ids,
           NEW e \in Nat, NEW v \in Nat
    PROVE  /\ Fill(l, c, id, e, v) \in LedgerType
           /\ Fill(l, c, id, e, v)[c][id] =
                  [ordered |-> l[c][id].ordered,
                   executed |-> l[c][id].executed + e, leaves |-> v]
           /\ \A d \in Clients, j \in Ids :
                 ~(d = c /\ j = id) => Fill(l, c, id, e, v)[d][j] = l[d][j]
<1>1. l[c][id] \in [ordered : Nat, executed : Nat, leaves : Nat]
  BY DEF LedgerType
<1> DEFINE new == [ordered |-> l[c][id].ordered,
                   executed |-> l[c][id].executed + e, leaves |-> v]
<1>2. [[l[c][id] EXCEPT !.executed = l[c][id].executed + e] EXCEPT !.leaves = v] = new
  <2> DEFINE x == l[c][id]
             y == [ordered |-> x.ordered, executed |-> x.executed + e, leaves |-> x.leaves]
  <2>1. [x EXCEPT !.executed = x.executed + e] = y
    BY <1>1
  <2>2. [y EXCEPT !.leaves = v] = new
    OBVIOUS
  <2>3. QED
    BY <2>1, <2>2
<1>3. Fill(l, c, id, e, v) = [l EXCEPT ![c] = [l[c] EXCEPT ![id] = new]]
  <2>1. Fill(l, c, id, e, v) =
            [l EXCEPT ![c] = [l[c] EXCEPT ![id] =
               [[l[c][id] EXCEPT !.executed = l[c][id].executed + e] EXCEPT !.leaves = v]]]
    BY DEF Fill, LedgerType
  <2>2. QED
    BY <1>2, <2>1
<1>4. new \in [ordered : Nat, executed : Nat, leaves : Nat]
  BY <1>1
<1> HIDE DEF new
<1>5. /\ Fill(l, c, id, e, v) \in LedgerType
      /\ Fill(l, c, id, e, v)[c][id] = new
      /\ \A d \in Clients, j \in Ids :
            ~(d = c /\ j = id) => Fill(l, c, id, e, v)[d][j] = l[d][j]
  BY <1>3, <1>4 DEF LedgerType
<1>6. QED
  BY <1>5 DEF new

\* Market order ids name resting orders, as owner and client order id do.
LEMMA OneOrderPerId ==
    ASSUME LevelsInv(level)
    PROVE  /\ Resting = OrdersOf(level)
           /\ Resting \subseteq Orders
           /\ \A o, n \in Resting : o.moid = n.moid => o = n
<1>1. Resting = OrdersOf(level)
  BY DEF Resting, OrdersOf
<1>2. level \in LevelType
  BY DEF LevelsInv
<1>3. ASSUME NEW o \in Resting, NEW n \in Resting, o.moid = n.moid PROVE o = n
  <2>1. PICK i \in Slots : \E k \in 1 .. Len(level[i].orders) : o = level[i].orders[k]
    BY <1>1, <1>2, OrdersOfPlaces
  <2>2. PICK k \in 1 .. Len(level[i].orders) : o = level[i].orders[k]
    BY <2>1
  <2>3. PICK j \in Slots : \E m \in 1 .. Len(level[j].orders) : n = level[j].orders[m]
    BY <1>1, <1>2, OrdersOfPlaces
  <2>4. PICK m \in 1 .. Len(level[j].orders) : n = level[j].orders[m]
    BY <2>3
  <2>5. i = j /\ k = m
    BY <1>3, <2>2, <2>4 DEF LevelsInv, OnePlace
  <2>6. QED
    BY <2>2, <2>4, <2>5
<1>4. QED
  BY <1>1, <1>2, <1>3, OrdersOfPlaces

-----------------------------------------------------------------------------
(* The invariant holds at first and is kept by every action. *)

\* The facts about the resting orders that the steps need.
LEMMA RestingFacts ==
    ASSUME BookInv
    PROVE  /\ level \in LevelType /\ ledger \in LedgerType
           /\ Resting = OrdersOf(level)
           /\ \A o \in Resting :
                 /\ o \in Orders
                 /\ o.client \in Clients /\ o.oid \in Ids /\ o.moid \in Ids
                 /\ o.side \in Sides /\ o.price \in Int
                 /\ o.quantity \in Nat /\ o.quantity > 0
<1>1. LevelsInv(level) /\ level \in LevelType /\ ledger \in LedgerType
  BY DEF BookInv, TypeOK, LevelType, LedgerType
<1>2. Resting = OrdersOf(level) /\ Resting \subseteq Orders
  BY <1>1, OneOrderPerId
<1>3. \A o \in Orders : /\ o.client \in Clients /\ o.oid \in Ids /\ o.moid \in Ids
                        /\ o.side \in Sides /\ o.price \in Prices
                        /\ o.quantity \in Nat /\ o.quantity > 0
  BY DEF Orders
<1>4. QED
  BY <1>1, <1>2, <1>3, BookAssumption

LEMMA InitBook == Init => BookInv
<1> SUFFICES ASSUME Init PROVE BookInv
  OBVIOUS
<1>1. /\ \A i \in Slots : level[i] = NoLevel
      /\ \A i \in Slots : Len(level[i].orders) = 0 /\ level[i].orders = <<>>
  BY DEF Init, NoLevel
<1>2. TypeOK
  <2>1. level \in LevelType
    <3>1. NoLevel \in [side : Sides \cup {NoSide}, price : Int, orders : Seq(Orders)]
      BY DEF NoLevel
    <3>2. QED
      BY <3>1 DEF Init, LevelType
  <2>2. MaxOrders \in Nat
    BY BookAssumption
  <2>3. cur \in [client : Nat, oid : Nat, moid : Nat,
                 side : Sides \cup {NoSide}, price : Int, leaves : Nat]
    BY DEF Init, NoRequest
  <2>4. ledger \in LedgerType
    BY DEF Init, LedgerType, NoEntry
  <2>5. mirror \in [Ids -> [side : Sides \cup {NoSide}, price : Int, quantity : Nat]]
    BY DEF Init, NotListed
  <2>6. /\ orderOf \in [Clients -> [Ids -> Ids \cup {0}]]
        /\ sent \in [Clients -> 0 .. MaxOrders]
    BY <2>2 DEF Init
  <2>7. /\ nextMarketOrderId \in 1 .. MaxOrders + 1 /\ busy \in BOOLEAN
        /\ connected \subseteq Clients /\ addressed \subseteq Nat
        /\ status \in {"running", "stopped", "validity check", "out of levels"}
    <3>1. nextMarketOrderId \in 1 .. MaxOrders + 1
      BY <2>2 DEF Init
    <3>2. /\ busy \in BOOLEAN
          /\ status \in {"running", "stopped", "validity check", "out of levels"}
      BY DEF Init
    <3>3. connected \subseteq Clients /\ addressed \subseteq Nat
      BY DEF Init
    <3>4. QED
      BY <3>1, <3>2, <3>3
  <2>8. QED
    BY <2>1, <2>3, <2>4, <2>5, <2>6, <2>7 DEF TypeOK, LevelType, LedgerType
<1>3. LevelsInv(level)
  <2>1. Sound(level) /\ InOrder(level) /\ OnePlace(level)
    BY <1>1 DEF Sound, InOrder, OnePlace
  <2>2. QED
    BY <1>2, <2>1 DEF LevelsInv, TypeOK, LevelType
<1>4. Resting = {}
  <2>1. Resting = OrdersOf(level) /\ level \in LevelType
    BY <1>3, OneOrderPerId DEF LevelsInv
  <2>2. QED
    BY <1>1, <2>1, OrdersOfPlaces
<1>5. OwnersInv /\ RequestInv /\ Uncrossed
  BY <1>4 DEF Init, OwnersInv, RequestInv, Uncrossed
<1>6. IndexIsExact
  BY <1>4 DEF Init, IndexIsExact, Ids
<1>7. LedgerAddsUp
  BY <1>4 DEF Init, LedgerAddsUp, NoEntry
<1>8. MirrorInv
  BY <1>4 DEF Init, MirrorInv
<1>9. QED
  BY <1>2, <1>3, <1>5, <1>6, <1>7, <1>8 DEF BookInv

\* A step that leaves the book alone leaves what depends on it alone.
LEMMA SameBook ==
    ASSUME BookInv, UNCHANGED <<level, orderOf, mirror>>
    PROVE  /\ Resting' = Resting
           /\ LevelsInv(level)' /\ Uncrossed' /\ IndexIsExact' /\ MirrorInv'
<1>1. Resting' = Resting
  BY DEF Resting
<1>2. LevelsInv(level)'
  BY DEF BookInv, LevelsInv, LevelType, Sound, InOrder, OnePlace
<1>3. Uncrossed' /\ IndexIsExact' /\ MirrorInv'
  BY <1>1 DEF BookInv, Uncrossed, IndexIsExact, MirrorInv
<1>4. QED
  BY <1>1, <1>2, <1>3

LEMMA AddKeeps ==
    ASSUME BookInv, NEW c \in Clients, NEW s \in Sides, NEW p \in Prices,
           NEW q \in Quantities, Add(c, s, p, q)
    PROVE  BookInv'
<1> DEFINE oid == sent[c] + 1
           entry == [ordered |-> q, executed |-> 0, leaves |-> q]
<1>1. /\ Resting' = Resting
      /\ LevelsInv(level)' /\ Uncrossed' /\ IndexIsExact' /\ MirrorInv'
  BY SameBook DEF Add
<1>2. /\ nextMarketOrderId \in 1 .. MaxOrders /\ MaxOrders \in Nat
      /\ nextMarketOrderId' = nextMarketOrderId + 1
      /\ sent \in [Clients -> 0 .. MaxOrders] /\ sent[c] < nextMarketOrderId
      /\ oid \in Ids /\ oid \in Nat /\ oid <= nextMarketOrderId
      /\ nextMarketOrderId \in Ids /\ nextMarketOrderId \in Nat
      /\ p \in Int /\ q \in Nat /\ c \in Nat
  <2>1. /\ nextMarketOrderId \in 1 .. MaxOrders + 1 /\ nextMarketOrderId <= MaxOrders
        /\ sent \in [Clients -> 0 .. MaxOrders] /\ sent[c] < nextMarketOrderId
        /\ nextMarketOrderId' = nextMarketOrderId + 1
    BY DEF Add, BookInv, TypeOK, OwnersInv
  <2>2. /\ MaxOrders \in Nat /\ sent[c] \in Nat
        /\ p \in Int /\ q \in Nat /\ c \in Nat
    BY <2>1, BookAssumption
  <2>3. QED
    BY <2>1, <2>2 DEF Ids
<1>3. /\ ledger \in LedgerType /\ entry \in [ordered : Nat, executed : Nat, leaves : Nat]
      /\ ledger' = [ledger EXCEPT ![c] = [ledger[c] EXCEPT ![oid] = entry]]
  BY <1>2, RestingFacts DEF Add, LedgerType
<1> HIDE DEF entry
<1>4. /\ ledger' \in LedgerType
      /\ ledger'[c][oid] = entry
      /\ \A d \in Clients, j \in Ids :
            ~(d = c /\ j = oid) => ledger'[d][j] = ledger[d][j]
  BY <1>2, <1>3 DEF LedgerType
<1>5. cur' = [client |-> c, oid |-> oid, moid |-> nextMarketOrderId,
              side |-> s, price |-> p, leaves |-> q]
  BY DEF Add
<1>6. \A o \in Resting : /\ o.moid < nextMarketOrderId /\ o.oid <= sent[o.client]
                         /\ o.client \in Clients /\ o.oid \in Ids /\ o.oid \in Nat
                         /\ o.moid \in Nat
  BY RestingFacts, OrderFields DEF BookInv, OwnersInv
<1>7. /\ sent' = [sent EXCEPT ![c] = oid]
      /\ sent' \in [Clients -> 0 .. MaxOrders]
      /\ sent'[c] = oid
      /\ \A d \in Clients : d # c => sent'[d] = sent[d]
  BY <1>2 DEF Add, Ids
<1>8. TypeOK'
  <2>1. cur' \in [client : Nat, oid : Nat, moid : Nat,
                  side : Sides \cup {NoSide}, price : Int, leaves : Nat]
    BY <1>2, <1>5
  <2>2. /\ level' = level /\ orderOf' = orderOf /\ status' = status
        /\ mirror' = mirror /\ busy' = TRUE
        /\ connected' \subseteq Clients /\ addressed' \subseteq Nat
    BY BookAssumption DEF Add, BookInv, TypeOK
  <2>3. nextMarketOrderId' \in 1 .. MaxOrders + 1
    BY <1>2
  <2>4. QED
    BY <1>4, <1>7, <2>1, <2>2, <2>3 DEF BookInv, TypeOK, LedgerType
<1>9. OwnersInv'
  <2>1. \A o \in Resting : o.moid < nextMarketOrderId' /\ o.oid <= sent'[o.client]
    <3> SUFFICES ASSUME NEW o \in Resting
                 PROVE  o.moid < nextMarketOrderId' /\ o.oid <= sent'[o.client]
      OBVIOUS
    <3>1. o.moid < nextMarketOrderId'
      BY <1>2, <1>6
    <3>2. sent[o.client] \in Nat /\ sent[o.client] <= sent'[o.client]
      <4>1. o.client \in Clients
        BY <1>6
      <4>2. \A d \in Clients : sent[d] \in Nat /\ sent'[d] \in Nat
        BY <1>2, <1>7
      <4>3. QED
        BY <1>7, <4>1, <4>2
    <3>3. o.oid <= sent'[o.client]
      <4>1. o.oid \in Nat /\ o.oid <= sent[o.client] /\ o.client \in Clients
        BY <1>6
      <4>2. \A d \in Clients : sent'[d] \in Nat
        BY <1>2, <1>7
      <4>3. QED
        BY <3>2, <4>1, <4>2
    <3>4. QED
      BY <3>1, <3>3
  <2>2. \A d \in Clients : sent'[d] < nextMarketOrderId'
    BY <1>2, <1>7 DEF BookInv, OwnersInv
  <2>3. QED
    BY <1>1, <2>1, <2>2 DEF BookInv, OwnersInv
<1>10. RequestInv'
  <2>1. cur' \in [client : Clients, oid : Ids, moid : Ids, side : Sides,
                  price : Prices, leaves : Nat]
    BY <1>2, <1>5
  <2>2. cur'.moid < nextMarketOrderId' /\ cur'.oid <= sent'[cur'.client]
    BY <1>2, <1>5, <1>7
  <2>3. \A o \in Resting : /\ o.moid < cur'.moid
                           /\ ~(o.client = cur'.client /\ o.oid = cur'.oid)
    BY <1>2, <1>5, <1>6
  <2>4. ledger'[cur'.client][cur'.oid].leaves = cur'.leaves
    BY <1>4, <1>5 DEF entry
  <2>5. QED
    BY <1>1, <2>1, <2>2, <2>3, <2>4 DEF RequestInv
<1>11. LedgerAddsUp'
  <2>1. entry.executed + entry.leaves = entry.ordered
    BY <1>2 DEF entry
  <2>2. ASSUME NEW o \in Resting PROVE ledger'[o.client][o.oid] = ledger[o.client][o.oid]
    <3>1. ~(o.client = c /\ o.oid = oid)
      BY <1>2, <1>6
    <3>2. QED
      BY <1>4, <1>6, <3>1
  <2>3. \A d \in Clients, j \in Ids :
            ledger'[d][j].executed + ledger'[d][j].leaves = ledger'[d][j].ordered
    BY <1>4, <2>1 DEF BookInv, LedgerAddsUp
  <2>4. \A o \in Resting' : ledger'[o.client][o.oid].leaves = o.quantity
    BY <1>1, <2>2 DEF BookInv, LedgerAddsUp
  <2>5. QED
    BY <2>3, <2>4 DEF LedgerAddsUp
<1>12. QED
  BY <1>1, <1>8, <1>9, <1>10, <1>11 DEF BookInv

\* An order leaves the book, the index and the mirror.
LEMMA RemovalKeeps ==
    ASSUME BookInv, NEW o \in Resting, Resting' = Resting \ {o},
           orderOf' = [orderOf EXCEPT ![o.client][o.oid] = 0],
           mirror' = [mirror EXCEPT ![o.moid] = NotListed]
    PROVE  /\ Uncrossed' /\ IndexIsExact' /\ MirrorInv'
           /\ orderOf' \in [Clients -> [Ids -> Ids \cup {0}]]
           /\ mirror' \in [Ids -> [side : Sides \cup {NoSide}, price : Int, quantity : Nat]]
<1>1. /\ o.client \in Clients /\ o.oid \in Ids /\ o.moid \in Ids
      /\ orderOf \in [Clients -> [Ids -> Ids \cup {0}]]
      /\ mirror \in [Ids -> [side : Sides \cup {NoSide}, price : Int, quantity : Nat]]
  BY RestingFacts DEF BookInv, TypeOK
<1>2. /\ \A n \in Resting' : n \in Resting /\ n # o
      /\ \A n \in Resting : n = o \/ n \in Resting'
      /\ \A n \in Resting' : n.moid # o.moid
      /\ \A n \in Resting' : ~(n.client = o.client /\ n.oid = o.oid)
  BY OneOrderPerId DEF BookInv, OwnersInv
<1>3. Uncrossed'
  BY <1>2 DEF BookInv, Uncrossed
<1>4. /\ orderOf' \in [Clients -> [Ids -> Ids \cup {0}]]
      /\ orderOf'[o.client][o.oid] = 0
      /\ \A c \in Clients, id \in Ids :
            ~(c = o.client /\ id = o.oid) => orderOf'[c][id] = orderOf[c][id]
  BY <1>1
<1>5. IndexIsExact'
  <2> SUFFICES ASSUME NEW c \in Clients, NEW id \in Ids, NEW m \in Ids
               PROVE  orderOf'[c][id] = m <=>
                        \E n \in Resting' : n.client = c /\ n.oid = id /\ n.moid = m
    BY DEF IndexIsExact
  <2>1. CASE c = o.client /\ id = o.oid
    <3>1. m # 0
      BY DEF Ids
    <3>2. QED
      BY <1>2, <1>4, <2>1, <3>1
  <2>2. CASE ~(c = o.client /\ id = o.oid)
    <3>1. orderOf'[c][id] = orderOf[c][id]
      BY <1>4, <2>2
    <3>2. orderOf[c][id] = m <=>
              \E n \in Resting : n.client = c /\ n.oid = id /\ n.moid = m
      BY DEF BookInv, IndexIsExact
    <3>3. QED
      BY <1>2, <2>2, <3>1, <3>2
  <2>3. QED
    BY <2>1, <2>2
<1>6. NotListed \in [side : Sides \cup {NoSide}, price : Int, quantity : Nat]
  BY DEF NotListed
<1>7. /\ mirror' \in [Ids -> [side : Sides \cup {NoSide}, price : Int, quantity : Nat]]
      /\ mirror'[o.moid] = NotListed
      /\ \A m \in Ids : m # o.moid => mirror'[m] = mirror[m]
  BY <1>1, <1>6
<1>8. MirrorInv'
  <2>1. ASSUME NEW n \in Resting' PROVE mirror'[n.moid] = Public(n)
    <3>1. n \in Resting /\ n.moid \in Ids /\ n.moid # o.moid
      BY <1>2, RestingFacts
    <3>2. QED
      BY <1>7, <3>1 DEF BookInv, MirrorInv
  <2>2. ASSUME NEW m \in Ids, \A n \in Resting' : n.moid # m
        PROVE  mirror'[m] = NotListed
    <3>1. CASE m = o.moid
      BY <1>7, <3>1
    <3>2. CASE m # o.moid
      BY <1>2, <1>7, <2>2, <3>2 DEF BookInv, MirrorInv
    <3>3. QED
      BY <3>1, <3>2
  <2>3. QED
    BY <2>1, <2>2 DEF MirrorInv
<1>9. QED
  BY <1>3, <1>4, <1>5, <1>7, <1>8

\* An order stays in the book with less quantity.
LEMMA ReductionKeeps ==
    ASSUME BookInv, NEW o \in Resting, NEW q \in Nat,
           Resting' = (Resting \ {o}) \cup {[o EXCEPT !.quantity = q]},
           orderOf' = orderOf,
           mirror' = [mirror EXCEPT ![o.moid].quantity = q]
    PROVE  /\ Uncrossed' /\ IndexIsExact' /\ MirrorInv'
           /\ mirror' \in [Ids -> [side : Sides \cup {NoSide}, price : Int, quantity : Nat]]
<1> DEFINE less == [o EXCEPT !.quantity = q]
<1>1. /\ o \in Orders /\ o.client \in Clients /\ o.oid \in Ids /\ o.moid \in Ids
      /\ o.side \in Sides /\ o.price \in Int
      /\ mirror \in [Ids -> [side : Sides \cup {NoSide}, price : Int, quantity : Nat]]
      /\ mirror[o.moid] = Public(o)
  BY RestingFacts DEF BookInv, TypeOK, MirrorInv
<1>2. /\ less.client = o.client /\ less.oid = o.oid /\ less.moid = o.moid
      /\ less.side = o.side /\ less.price = o.price /\ less.quantity = q
  BY <1>1 DEF Orders
<1> HIDE DEF less
<1>3. /\ \A n \in Resting' : n = less \/ (n \in Resting /\ n # o)
      /\ \A n \in Resting : n = o \/ n \in Resting'
      /\ less \in Resting'
      /\ \A n \in Resting : n # o => n.moid # o.moid
  BY OneOrderPerId DEF BookInv, less
<1>4. Uncrossed'
  <2> SUFFICES ASSUME NEW b \in Resting', NEW a \in Resting',
                      b.side = "BUY", a.side = "SELL"
               PROVE  b.price < a.price
    BY DEF Uncrossed
  <2>1. PICK x \in Resting : x.side = b.side /\ x.price = b.price
    BY <1>2, <1>3
  <2>2. PICK y \in Resting : y.side = a.side /\ y.price = a.price
    BY <1>2, <1>3
  <2>3. QED
    BY <2>1, <2>2 DEF BookInv, Uncrossed
<1>5. IndexIsExact'
  <2> SUFFICES ASSUME NEW c \in Clients, NEW id \in Ids, NEW m \in Ids
               PROVE  orderOf[c][id] = m <=>
                        \E n \in Resting' : n.client = c /\ n.oid = id /\ n.moid = m
    BY DEF IndexIsExact
  <2>1. orderOf[c][id] = m <=>
              \E n \in Resting : n.client = c /\ n.oid = id /\ n.moid = m
    BY DEF BookInv, IndexIsExact
  <2>2. QED
    BY <1>2, <1>3, <2>1
<1>6. /\ Public(less) \in [side : Sides \cup {NoSide}, price : Int, quantity : Nat]
      /\ Public(less) = [Public(o) EXCEPT !.quantity = q]
  BY <1>1, <1>2 DEF Public
<1>7. mirror' = [mirror EXCEPT ![o.moid] = Public(less)]
  BY <1>1, <1>6
<1>8. /\ mirror' \in [Ids -> [side : Sides \cup {NoSide}, price : Int, quantity : Nat]]
      /\ mirror'[o.moid] = Public(less)
      /\ \A m \in Ids : m # o.moid => mirror'[m] = mirror[m]
  BY <1>1, <1>6, <1>7
<1>9. MirrorInv'
  <2>1. ASSUME NEW n \in Resting' PROVE mirror'[n.moid] = Public(n)
    <3>1. CASE n = less
      BY <1>2, <1>8, <3>1
    <3>2. CASE n \in Resting /\ n # o
      <4>1. n.moid \in Ids /\ n.moid # o.moid
        BY <1>3, <3>2, RestingFacts
      <4>2. QED
        BY <1>8, <3>2, <4>1 DEF BookInv, MirrorInv
    <3>3. QED
      BY <1>3, <3>1, <3>2
  <2>2. ASSUME NEW m \in Ids, \A n \in Resting' : n.moid # m
        PROVE  mirror'[m] = NotListed
    <3>1. m # o.moid
      BY <1>2, <1>3, <2>2
    <3>2. QED
      BY <1>3, <1>8, <2>2, <3>1 DEF BookInv, MirrorInv
  <2>3. QED
    BY <2>1, <2>2 DEF MirrorInv
<1>10. QED
  BY <1>4, <1>5, <1>8, <1>9

\* What holds when match() is called: the order it fills is the first of the
\* best level of the other side, and something of it is filled.
LEMMA MatchFacts ==
    ASSUME BookInv, NEW i \in Slots, Match(i)
    PROVE  LET order == level[i].orders[1]
               fill == FillQuantity(order.quantity, cur.leaves)
           IN  /\ 1 \in 1 .. Len(level[i].orders) /\ Len(level[i].orders) \in Nat
               /\ order \in Resting /\ order.side = level[i].side
               /\ order.price = level[i].price
               /\ order.side = Opposite(cur.side) /\ order.side # cur.side
               /\ fill \in Nat /\ 0 < fill
               /\ fill <= order.quantity /\ fill <= cur.leaves
               /\ cur \in [client : Clients, oid : Ids, moid : Ids, side : Sides,
                           price : Prices, leaves : Nat]
<1> DEFINE order == level[i].orders[1]
           fill == FillQuantity(order.quantity, cur.leaves)
<1>1. /\ i \in LevelsOf(Opposite(cur.side)) /\ cur.leaves > 0 /\ busy
  BY DEF Match, CanMatch, IsBest
<1>2. cur \in [client : Clients, oid : Ids, moid : Ids, side : Sides,
               price : Prices, leaves : Nat]
  BY <1>1 DEF BookInv, RequestInv
<1>3. level[i].orders \in Seq(Orders) /\ level[i].orders # <<>>
      /\ level[i].side = Opposite(cur.side) /\ level \in LevelType
  BY <1>1, RestingFacts DEF LevelsOf, IsLevel, LevelType
<1>4. Len(level[i].orders) \in Nat /\ 1 \in 1 .. Len(level[i].orders)
  BY <1>3
<1>5. order \in Resting
  BY <1>3, <1>4, RestingFacts, OrdersOfPlaces
<1>6. order.side = level[i].side /\ order.price = level[i].price
  BY <1>4 DEF BookInv, LevelsInv, Sound
<1>7. order.quantity \in Nat /\ order.quantity > 0 /\ cur.leaves \in Nat
  BY <1>2, <1>5, RestingFacts
<1>8. fill \in Nat /\ 0 < fill /\ fill <= order.quantity /\ fill <= cur.leaves
  BY <1>1, <1>7 DEF FillQuantity
<1>9. order.side # cur.side
  BY <1>2, <1>3, <1>6 DEF Opposite, Sides
<1>10. QED
  BY <1>2, <1>3, <1>4, <1>5, <1>6, <1>8, <1>9, SMTT(30)

\* What match() does to the book: the order goes when it is filled, and stays
\* in its place with the rest of its quantity when it is not.
LEMMA MatchChanges ==
    ASSUME BookInv, NEW i \in Slots, Match(i)
    PROVE  LET order == level[i].orders[1]
               fill == FillQuantity(order.quantity, cur.leaves)
               left == order.quantity - fill
           IN  /\ LevelsInv(level)'
               /\ \/ /\ fill = order.quantity
                     /\ Resting' = Resting \ {order}
                  \/ /\ fill < order.quantity
                     /\ Resting' = (Resting \ {order})
                                   \cup {[order EXCEPT !.quantity = left]}
<1> DEFINE order == level[i].orders[1]
           fill == FillQuantity(order.quantity, cur.leaves)
           left == order.quantity - fill
<1>1. /\ 1 \in 1 .. Len(level[i].orders) /\ order \in Resting
      /\ fill \in Nat /\ 0 < fill /\ fill <= order.quantity
      /\ order.quantity \in Nat /\ order \in Orders
  BY MatchFacts, RestingFacts
<1>2. LevelsInv(level) /\ Resting = OrdersOf(level)
  BY OneOrderPerId DEF BookInv
<1>3. Resting' = OrdersOf(level')
  BY DEF Resting, OrdersOf
<1>4. CASE fill = order.quantity
  <2>1. level' = RemoveOrder(level, i, 1)
    BY <1>4 DEF Match
  <2>2. LevelsInv(level') /\ OrdersOf(level') = OrdersOf(level) \ {order}
    BY <1>1, <1>2, <2>1, RemoveOrderKeeps
  <2>3. LevelsInv(level)'
    BY <2>2 DEF LevelsInv, LevelType, Sound, InOrder, OnePlace
  <2>4. QED
    BY <1>2, <1>3, <1>4, <2>2, <2>3
<1>5. CASE fill # order.quantity
  <2>1. level' = [level EXCEPT ![i].orders[1].quantity = @ - fill]
    BY <1>5 DEF Match
  <2>2. fill < order.quantity
    BY <1>1, <1>5
  <2> HIDE DEF fill
  <2>3. LevelsInv(level') /\ OrdersOf(level') = (OrdersOf(level) \ {order})
                                  \cup {[order EXCEPT !.quantity = @ - fill]}
    <3> DEFINE r == ReduceFirst(level, i, fill)
    <3>1. LevelsInv(r) /\ OrdersOf(r) = (OrdersOf(level) \ {order})
                                  \cup {[order EXCEPT !.quantity = @ - fill]}
      BY <1>1, <1>2, <2>2, ReduceOrderKeeps
    <3>2. level' = r
      BY <2>1 DEF ReduceFirst
    <3> HIDE DEF r
    <3>3. QED
      BY <3>1, <3>2
  <2>4. [order EXCEPT !.quantity = @ - fill] = [order EXCEPT !.quantity = left]
    OBVIOUS
  <2>5. LevelsInv(level)'
    BY <2>3 DEF LevelsInv, LevelType, Sound, InOrder, OnePlace
  <2>6. Resting' = (Resting \ {order}) \cup {[order EXCEPT !.quantity = left]}
    BY <1>2, <1>3, <2>3, <2>4
  <2>7. QED
    BY <2>2, <2>5, <2>6 DEF fill
<1>6. QED
  BY <1>4, <1>5

\* The two FILLED responses of match() change two different entries.
LEMMA MatchLedger ==
    ASSUME BookInv, NEW i \in Slots, Match(i)
    PROVE  LET order == level[i].orders[1]
               fill == FillQuantity(order.quantity, cur.leaves)
           IN  /\ ledger' \in LedgerType
               /\ ledger'[cur.client][cur.oid] =
                     [ordered |-> ledger[cur.client][cur.oid].ordered,
                      executed |-> ledger[cur.client][cur.oid].executed + fill,
                      leaves |-> cur.leaves - fill]
               /\ ledger'[order.client][order.oid] =
                     [ordered |-> ledger[order.client][order.oid].ordered,
                      executed |-> ledger[order.client][order.oid].executed + fill,
                      leaves |-> order.quantity - fill]
               /\ \A d \in Clients, j \in Ids :
                     \/ d = cur.client /\ j = cur.oid
                     \/ d = order.client /\ j = order.oid
                     \/ ledger'[d][j] = ledger[d][j]
               /\ ~(order.client = cur.client /\ order.oid = cur.oid)
<1> DEFINE order == level[i].orders[1]
           fill == FillQuantity(order.quantity, cur.leaves)
           first == Fill(ledger, cur.client, cur.oid, fill, cur.leaves - fill)
<1>1. /\ order \in Resting /\ fill \in Nat
      /\ fill <= order.quantity /\ fill <= cur.leaves
      /\ cur \in [client : Clients, oid : Ids, moid : Ids, side : Sides,
                  price : Prices, leaves : Nat]
  BY MatchFacts
<1>2. /\ order.client \in Clients /\ order.oid \in Ids /\ order.quantity \in Nat
      /\ ledger \in LedgerType
  BY <1>1, RestingFacts, SMTT(30)
<1>3. ~(order.client = cur.client /\ order.oid = cur.oid)
  BY <1>1, SMTT(30) DEF BookInv, RequestInv, Match
<1>4. ledger' = Fill(first, order.client, order.oid, fill, order.quantity - fill)
  BY DEF Match, ReportFill
<1> HIDE DEF fill, order
<1>5. cur.client \in Clients /\ cur.oid \in Ids /\ cur.leaves - fill \in Nat
  BY <1>1
<1>6. /\ first \in LedgerType
      /\ first[cur.client][cur.oid] =
             [ordered |-> ledger[cur.client][cur.oid].ordered,
              executed |-> ledger[cur.client][cur.oid].executed + fill,
              leaves |-> cur.leaves - fill]
      /\ \A d \in Clients, j \in Ids :
            ~(d = cur.client /\ j = cur.oid) => first[d][j] = ledger[d][j]
  BY <1>1, <1>2, <1>5, FillEntry
<1> HIDE DEF first
<1>7. order.quantity - fill \in Nat
  BY <1>1, <1>2
<1>8. /\ ledger' \in LedgerType
      /\ ledger'[order.client][order.oid] =
             [ordered |-> first[order.client][order.oid].ordered,
              executed |-> first[order.client][order.oid].executed + fill,
              leaves |-> order.quantity - fill]
      /\ \A d \in Clients, j \in Ids :
            ~(d = order.client /\ j = order.oid) => ledger'[d][j] = first[d][j]
  <2> DEFINE second == Fill(first, order.client, order.oid, fill, order.quantity - fill)
  <2>1. first \in LedgerType /\ fill \in Nat
    BY <1>1, <1>6
  <2>2. /\ second \in LedgerType
        /\ second[order.client][order.oid] =
             [ordered |-> first[order.client][order.oid].ordered,
              executed |-> first[order.client][order.oid].executed + fill,
              leaves |-> order.quantity - fill]
        /\ \A d \in Clients, j \in Ids :
            ~(d = order.client /\ j = order.oid) => second[d][j] = first[d][j]
    BY <1>2, <1>7, <2>1, FillEntry, SMTT(30)
  <2>3. QED
    BY <1>4, <2>2, Zenon
<1>9. first[order.client][order.oid] = ledger[order.client][order.oid]
  BY <1>2, <1>3, <1>6
<1>10. ledger'[cur.client][cur.oid] = first[cur.client][cur.oid]
  BY <1>3, <1>5, <1>8
<1>11. \A d \in Clients, j \in Ids :
          \/ d = cur.client /\ j = cur.oid
          \/ d = order.client /\ j = order.oid
          \/ ledger'[d][j] = ledger[d][j]
  BY <1>6, <1>8
<1>12. ledger'[cur.client][cur.oid] =
           [ordered |-> ledger[cur.client][cur.oid].ordered,
            executed |-> ledger[cur.client][cur.oid].executed + fill,
            leaves |-> cur.leaves - fill]
  BY <1>6, <1>10
<1>13. ledger'[order.client][order.oid] =
           [ordered |-> ledger[order.client][order.oid].ordered,
            executed |-> ledger[order.client][order.oid].executed + fill,
            leaves |-> order.quantity - fill]
  BY <1>8, <1>9
<1>14. QED
  BY <1>3, <1>8, <1>11, <1>12, <1>13, Zenon DEF fill, order

LEMMA MatchKeeps ==
    ASSUME BookInv, NEW i \in Slots, Match(i)
    PROVE  BookInv'
<1> DEFINE order == level[i].orders[1]
           fill == FillQuantity(order.quantity, cur.leaves)
           left == order.quantity - fill
           less == [order EXCEPT !.quantity = left]
<1>1. /\ order \in Resting /\ fill \in Nat /\ 0 < fill
      /\ fill <= order.quantity /\ fill <= cur.leaves
      /\ cur \in [client : Clients, oid : Ids, moid : Ids, side : Sides,
                  price : Prices, leaves : Nat]
  BY MatchFacts
<1>2. /\ order.client \in Clients /\ order.oid \in Ids /\ order.quantity \in Nat
      /\ order.moid \in Ids /\ order \in Orders
  BY <1>1, RestingFacts
<1>3. /\ LevelsInv(level)'
      /\ \/ fill = order.quantity /\ Resting' = Resting \ {order}
         \/ fill < order.quantity /\ Resting' = (Resting \ {order}) \cup {less}
  BY MatchChanges, SMTT(30)
<1>4. /\ ledger' \in LedgerType
      /\ ledger'[cur.client][cur.oid] =
            [ordered |-> ledger[cur.client][cur.oid].ordered,
             executed |-> ledger[cur.client][cur.oid].executed + fill,
             leaves |-> cur.leaves - fill]
      /\ ledger'[order.client][order.oid] =
            [ordered |-> ledger[order.client][order.oid].ordered,
             executed |-> ledger[order.client][order.oid].executed + fill,
             leaves |-> order.quantity - fill]
      /\ \A d \in Clients, j \in Ids :
            \/ d = cur.client /\ j = cur.oid
            \/ d = order.client /\ j = order.oid
            \/ ledger'[d][j] = ledger[d][j]
      /\ ~(order.client = cur.client /\ order.oid = cur.oid)
  BY MatchLedger
<1>5. /\ busy /\ busy' = busy /\ status' = status /\ sent' = sent
      /\ nextMarketOrderId' = nextMarketOrderId /\ connected' = connected
      /\ cur' = [cur EXCEPT !.leaves = @ - fill]
      /\ addressed' = addressed \cup {cur.client, order.client}
      /\ mirror' = PublishFill(order, fill)
      /\ fill = order.quantity =>
            orderOf' = [orderOf EXCEPT ![order.client][order.oid] = 0]
      /\ fill # order.quantity => orderOf' = orderOf
  BY DEF Match
<1> HIDE DEF fill, order
<1>6. left \in Nat
  BY <1>1, <1>2
<1>7. /\ Uncrossed' /\ IndexIsExact' /\ MirrorInv'
      /\ orderOf' \in [Clients -> [Ids -> Ids \cup {0}]]
      /\ mirror' \in [Ids -> [side : Sides \cup {NoSide}, price : Int, quantity : Nat]]
  <2>1. CASE fill = order.quantity /\ Resting' = Resting \ {order}
    <3>1. mirror' = [mirror EXCEPT ![order.moid] = NotListed]
      BY <1>5, <2>1 DEF PublishFill
    <3>2. QED
      BY <1>1, <1>5, <2>1, <3>1, RemovalKeeps
  <2>2. CASE fill < order.quantity /\ Resting' = (Resting \ {order}) \cup {less}
    <3>1. fill # order.quantity
      BY <1>1, <1>2, <2>2
    <3>2. mirror' = [mirror EXCEPT ![order.moid].quantity = left]
      BY <1>5, <3>1 DEF PublishFill
    <3>3. orderOf' = orderOf /\ orderOf \in [Clients -> [Ids -> Ids \cup {0}]]
      BY <1>5, <3>1 DEF BookInv, TypeOK
    <3> HIDE DEF left
    <3>4. QED
      BY <1>1, <1>6, <2>2, <3>2, <3>3, ReductionKeeps
  <2>3. QED
    BY <1>3, <2>1, <2>2
<1>8. /\ less.client = order.client /\ less.oid = order.oid
      /\ less.moid = order.moid /\ less.quantity = left
  BY <1>2 DEF Orders
<1> HIDE DEF less
<1>9. \A n \in Resting' :
          \/ n \in Resting /\ n # order
          \/ n = less
  BY <1>3
<1>10. /\ cur' \in [client : Clients, oid : Ids, moid : Ids, side : Sides,
                    price : Prices, leaves : Nat]
       /\ cur'.client = cur.client /\ cur'.oid = cur.oid /\ cur'.moid = cur.moid
       /\ cur'.leaves = cur.leaves - fill
  BY <1>1, <1>5
<1>11. TypeOK'
  <2>1. cur' \in [client : Nat, oid : Nat, moid : Nat,
                  side : Sides \cup {NoSide}, price : Int, leaves : Nat]
    <3>1. Clients \subseteq Nat /\ Ids \subseteq Nat /\ Prices \subseteq Int
      BY BookAssumption DEF Ids
    <3>2. QED
      BY <1>10, <3>1
  <2>2. addressed' \subseteq Nat
    BY <1>1, <1>2, <1>5, BookAssumption DEF BookInv, TypeOK
  <2>3. level' \in LevelType
    BY <1>3 DEF LevelsInv, LevelType
  <2>4. QED
    BY <1>4, <1>5, <1>7, <2>1, <2>2, <2>3 DEF BookInv, TypeOK, LevelType, LedgerType
<1>12. \A n \in Resting' : \E o \in Resting :
          n.client = o.client /\ n.oid = o.oid /\ n.moid = o.moid
  BY <1>1, <1>8, <1>9
<1>13. OwnersInv'
  <2>1. ASSUME NEW o \in Resting', NEW n \in Resting',
               o.client = n.client, o.oid = n.oid
        PROVE  o = n
    <3>1. \A x \in Resting : x.client = order.client /\ x.oid = order.oid => x = order
      BY <1>1 DEF BookInv, OwnersInv
    <3>2. QED
      BY <1>8, <1>9, <2>1, <3>1 DEF BookInv, OwnersInv
  <2>2. \A o \in Resting' : /\ o.moid < nextMarketOrderId'
                            /\ o.oid <= sent'[o.client]
    BY <1>5, <1>12 DEF BookInv, OwnersInv
  <2>3. \A c \in Clients : sent'[c] < nextMarketOrderId'
    BY <1>5 DEF BookInv, OwnersInv
  <2>4. QED
    BY <2>1, <2>2, <2>3 DEF OwnersInv
<1>14. RequestInv'
  <2>1. /\ cur'.moid < nextMarketOrderId' /\ cur'.oid <= sent'[cur'.client]
    BY <1>5, <1>10 DEF BookInv, RequestInv
  <2>2. \A o \in Resting' : /\ o.moid < cur'.moid
                            /\ ~(o.client = cur'.client /\ o.oid = cur'.oid)
    BY <1>5, <1>10, <1>12 DEF BookInv, RequestInv
  <2>3. ledger'[cur'.client][cur'.oid].leaves = cur'.leaves
    BY <1>4, <1>10
  <2>4. QED
    BY <1>10, <2>1, <2>2, <2>3 DEF RequestInv
<1>15. LedgerAddsUp'
  <2>1. ASSUME NEW d \in Clients, NEW j \in Ids
        PROVE  ledger'[d][j].executed + ledger'[d][j].leaves = ledger'[d][j].ordered
    <3>1. /\ ledger[d][j] \in [ordered : Nat, executed : Nat, leaves : Nat]
          /\ ledger[d][j].executed + ledger[d][j].leaves = ledger[d][j].ordered
      BY RestingFacts DEF BookInv, LedgerAddsUp, LedgerType
    <3>2. CASE d = cur.client /\ j = cur.oid
      <4>1. /\ ledger[d][j].leaves = cur.leaves
            /\ ledger'[d][j].executed = ledger[d][j].executed + fill
            /\ ledger'[d][j].leaves = cur.leaves - fill
            /\ ledger'[d][j].ordered = ledger[d][j].ordered
        BY <1>4, <1>5, <3>2 DEF BookInv, RequestInv
      <4>2. QED
        BY <1>1, <3>1, <4>1
    <3>3. CASE d = order.client /\ j = order.oid
      <4>1. /\ ledger[d][j].leaves = order.quantity
            /\ ledger'[d][j].executed = ledger[d][j].executed + fill
            /\ ledger'[d][j].leaves = order.quantity - fill
            /\ ledger'[d][j].ordered = ledger[d][j].ordered
        BY <1>1, <1>4, <3>3 DEF BookInv, LedgerAddsUp
      <4>2. QED
        BY <1>1, <1>2, <3>1, <4>1
    <3>4. CASE ~(d = cur.client /\ j = cur.oid) /\ ~(d = order.client /\ j = order.oid)
      BY <1>4, <3>1, <3>4
    <3>5. QED
      BY <3>2, <3>3, <3>4
  <2>2. ASSUME NEW n \in Resting'
        PROVE  ledger'[n.client][n.oid].leaves = n.quantity
    <3>1. CASE n \in Resting /\ n # order
      <4>1. /\ n.client \in Clients /\ n.oid \in Ids
            /\ ~(n.client = cur.client /\ n.oid = cur.oid)
            /\ ~(n.client = order.client /\ n.oid = order.oid)
            /\ ledger[n.client][n.oid].leaves = n.quantity
        BY <1>1, <1>5, <3>1, RestingFacts
           DEF BookInv, OwnersInv, RequestInv, LedgerAddsUp
      <4>2. QED
        BY <1>4, <4>1
    <3>2. CASE n = less
      BY <1>4, <1>8, <3>2
    <3>3. QED
      BY <1>9, <3>1, <3>2
  <2>3. QED
    BY <2>1, <2>2 DEF LedgerAddsUp
<1>16. QED
  BY <1>3, <1>7, <1>11, <1>13, <1>14, <1>15 DEF BookInv

LEMMA EndAddFilledKeeps ==
    ASSUME BookInv, EndAddFilled
    PROVE  BookInv'
<1>1. /\ level' = level /\ orderOf' = orderOf /\ mirror' = mirror
      /\ nextMarketOrderId' = nextMarketOrderId /\ status' = status
      /\ sent' = sent /\ ledger' = ledger /\ connected' = connected
      /\ addressed' = addressed /\ busy' = FALSE /\ cur' = NoRequest
  BY DEF EndAddFilled, bookVars, outVars
<1>2. /\ Resting' = Resting
      /\ LevelsInv(level)' /\ Uncrossed' /\ IndexIsExact' /\ MirrorInv'
  BY <1>1, SameBook
<1>3. TypeOK'
  <2>1. NoRequest \in [client : Nat, oid : Nat, moid : Nat,
                       side : Sides \cup {NoSide}, price : Int, leaves : Nat]
    BY DEF NoRequest
  <2>2. QED
    BY <1>1, <2>1 DEF BookInv, TypeOK
<1>4. OwnersInv' /\ RequestInv' /\ LedgerAddsUp'
  BY <1>1, <1>2 DEF BookInv, OwnersInv, RequestInv, LedgerAddsUp
<1>5. QED
  BY <1>2, <1>3, <1>4 DEF BookInv

\* When the loop of checkForMatch ends with something left, no order of the
\* other side admits the limit of the request: the head of the ring, which the
\* loop looked at, is the best of them.
LEMMA LoopEnds ==
    ASSUME BookInv, busy, LoopIsOver, cur.leaves > 0
    PROVE  \A o \in Resting :
              o.side = Opposite(cur.side) => ~Crosses(cur.side, cur.price, o.price)
<1> SUFFICES ASSUME NEW o \in Resting, o.side = Opposite(cur.side)
             PROVE  ~Crosses(cur.side, cur.price, o.price)
  OBVIOUS
<1> DEFINE opp == Opposite(cur.side)
<1>1. cur \in [client : Clients, oid : Ids, moid : Ids, side : Sides,
               price : Prices, leaves : Nat]
  BY DEF BookInv, RequestInv
<1>2. cur.side \in Sides /\ opp \in Sides /\ cur.price \in Int
  BY <1>1, BookAssumption DEF Opposite, Sides
<1>3. level \in LevelType /\ Resting = OrdersOf(level)
  BY RestingFacts
<1>4. PICK j \in Slots : \E k \in 1 .. Len(level[j].orders) : o = level[j].orders[k]
  BY <1>3, OrdersOfPlaces
<1>5. PICK k \in 1 .. Len(level[j].orders) : o = level[j].orders[k]
  BY <1>4
<1>6. level[j].side = opp /\ level[j].price = o.price
  BY <1>5 DEF BookInv, LevelsInv, Sound
<1>7. \A h \in Slots : level[h].orders \in Seq(Orders) /\ level[h].price \in Int
  BY <1>3 DEF LevelType
<1>8. j \in LevelsOf(opp)
  <2>1. level[j].orders # <<>>
    BY <1>5, <1>7
  <2>2. QED
    BY <1>6, <2>1 DEF LevelsOf, IsLevel
<1>9. PICK i \in Slots : IsBest(opp, i)
  BY <1>2, <1>3, <1>8, BestExists
<1>10. ~Crosses(cur.side, cur.price, level[i].orders[1].price)
  BY <1>9 DEF LoopIsOver, CanMatch
<1>11. level[i].orders[1].price = level[i].price
  <2>1. level[i].orders # <<>>
    BY <1>9 DEF IsBest, LevelsOf, IsLevel
  <2>2. 1 \in 1 .. Len(level[i].orders)
    BY <1>7, <2>1
  <2>3. QED
    BY <2>2 DEF BookInv, LevelsInv, Sound
<1>12. ~Better(opp, level[j].price, level[i].price)
  BY <1>8, <1>9 DEF IsBest
<1>13. level[i].price \in Int /\ level[j].price \in Int
  BY <1>7
<1> DEFINE a == level[i].price  b == level[j].price  c == cur.price
<1>14. ~Crosses(cur.side, c, a) /\ ~Better(opp, b, a)
  BY <1>10, <1>11, <1>12
<1>15. a \in Int /\ b \in Int /\ c \in Int
  BY <1>2, <1>13
<1> HIDE DEF a, b, c
<1>16. ~Crosses(cur.side, c, b)
  BY <1>2, <1>14, <1>15 DEF Crosses, Better, Opposite, Sides
<1>17. QED
  BY <1>6, <1>16 DEF b, c

\* The level in the slot of the request's price is one of the request's own
\* side and price, and the new order's priority is the largest in it.
LEMMA OwnLevel ==
    ASSUME DistinctSlots, BookInv, busy, LoopIsOver, cur.leaves > 0
    PROVE  LET at == level[PriceToIndex(cur.price)]
           IN  /\ GetNextPriority(cur.price) \in Nat \ {0}
               /\ IsLevel(at) =>
                     /\ at.side = cur.side /\ at.price = cur.price
                     /\ \A k \in 1 .. Len(at.orders) :
                           at.orders[k].priority < GetNextPriority(cur.price)
<1> DEFINE i == PriceToIndex(cur.price)
           len == Len(level[i].orders)
<1>1. cur \in [client : Clients, oid : Ids, moid : Ids, side : Sides,
               price : Prices, leaves : Nat]
  BY DEF BookInv, RequestInv
<1>2. cur.side \in Sides /\ cur.price \in Prices /\ cur.price \in Int
  BY <1>1, BookAssumption
<1>3. i \in Slots
  BY <1>2, PriceToIndexInSlots
<1>4. level \in LevelType /\ Resting = OrdersOf(level)
  BY RestingFacts
<1>5. level[i].orders \in Seq(Orders) /\ len \in Nat
  BY <1>3, <1>4 DEF LevelType
<1>6. CASE ~IsLevel(level[i])
  BY <1>6 DEF GetNextPriority
<1>7. CASE IsLevel(level[i])
  <2>1. /\ len \in 1 .. len /\ 1 \in 1 .. len
        /\ GetNextPriority(cur.price) = level[i].orders[len].priority + 1
    BY <1>5, <1>7 DEF IsLevel, GetNextPriority
  <2>2. \A k \in 1 .. len : /\ level[i].orders[k] \in Orders
                            /\ level[i].orders[k] \in Resting
                            /\ level[i].orders[k].priority \in Nat
    BY <1>3, <1>4, <1>5, OrdersOfPlaces, OrderFields
  <2>3. \A k \in 1 .. len : /\ level[i].orders[k].side = level[i].side
                            /\ level[i].orders[k].price = level[i].price
                            /\ PriceToIndex(level[i].price) = i
    BY <1>3 DEF BookInv, LevelsInv, Sound
  <2>4. level[i].price = cur.price
    <3>1. level[i].orders[1].price \in Prices
      BY <2>1, <2>2 DEF Orders
    <3>2. QED
      BY <1>2, <2>1, <2>3, <3>1 DEF DistinctSlots
  <2>5. level[i].side = cur.side
    <3>1. level[i].orders[1].side \in Sides
      BY <2>1, <2>2 DEF Orders
    <3>2. Crosses(cur.side, cur.price, level[i].orders[1].price)
      BY <1>2, <2>1, <2>3, <2>4 DEF Crosses
    <3>3. level[i].orders[1].side # Opposite(cur.side)
      BY <2>1, <2>2, <3>2, LoopEnds
    <3>4. QED
      BY <1>2, <2>1, <2>3, <3>1, <3>3 DEF Sides, Opposite
  <2>6. \A k \in 1 .. len : level[i].orders[k].priority < GetNextPriority(cur.price)
    <3> SUFFICES ASSUME NEW k \in 1 .. len
                 PROVE  level[i].orders[k].priority < level[i].orders[len].priority + 1
      BY <2>1
    <3>1. k < len => level[i].orders[k].priority < level[i].orders[len].priority
      BY <1>3, <2>1 DEF BookInv, LevelsInv, InOrder
    <3>2. level[i].orders[k].priority \in Nat /\ level[i].orders[len].priority \in Nat
      BY <2>1, <2>2
    <3>3. k < len \/ k = len
      BY <1>5
    <3>4. QED
      BY <3>1, <3>2, <3>3
  <2>7. GetNextPriority(cur.price) \in Nat \ {0}
    BY <2>1, <2>2
  <2>8. QED
    BY <2>4, <2>5, <2>6, <2>7
<1>8. QED
  BY <1>6, <1>7

\* A step that changes the status only.
LEMMA StatusOnlyKeeps ==
    ASSUME BookInv, UNCHANGED <<bookVars, busy, cur, outVars>>,
           status' \in {"running", "stopped", "validity check", "out of levels"}
    PROVE  BookInv'
<1>1. /\ level' = level /\ orderOf' = orderOf /\ mirror' = mirror
      /\ nextMarketOrderId' = nextMarketOrderId /\ cur' = cur /\ busy' = busy
      /\ sent' = sent /\ ledger' = ledger /\ connected' = connected
      /\ addressed' = addressed
  BY DEF bookVars, outVars
<1>2. /\ Resting' = Resting
      /\ LevelsInv(level)' /\ Uncrossed' /\ IndexIsExact' /\ MirrorInv'
  BY <1>1, SameBook
<1>3. TypeOK'
  BY <1>1 DEF BookInv, TypeOK
<1>4. OwnersInv' /\ RequestInv' /\ LedgerAddsUp'
  <2>1. OwnersInv'
    BY <1>1, <1>2 DEF BookInv, OwnersInv
  <2>2. RequestInv'
    <3>1. CASE busy
      BY <1>1, <1>2, <3>1 DEF BookInv, RequestInv
    <3>2. CASE ~busy
      <4>1. busy = FALSE
        BY <3>2 DEF BookInv, TypeOK
      <4>2. busy' = FALSE
        BY <1>1, <4>1
      <4>3. QED
        BY <4>2 DEF RequestInv
    <3>3. QED
      BY <3>1, <3>2
  <2>3. LedgerAddsUp'
    BY <1>1, <1>2 DEF BookInv, LedgerAddsUp
  <2>4. QED
    BY <2>1, <2>2, <2>3
<1>5. QED
  BY <1>2, <1>3, <1>4 DEF BookInv

\* EndAddRests leaves the book as it is or adds the request's order to it.
LEMMA RestsAdds ==
    ASSUME DistinctSlots, BookInv, EndAddRests
    PROVE  LET o == [client |-> cur.client, oid |-> cur.oid, moid |-> cur.moid,
                     side |-> cur.side, price |-> cur.price, quantity |-> cur.leaves,
                     priority |-> GetNextPriority(cur.price)]
           IN  IF OutOfLevels(o.price) THEN Resting' = Resting
               ELSE /\ o \in Orders /\ LevelsInv(level)'
                    /\ Resting' = Resting \cup {o}
<1> DEFINE o == [client |-> cur.client, oid |-> cur.oid, moid |-> cur.moid,
                 side |-> cur.side, price |-> cur.price, quantity |-> cur.leaves,
                 priority |-> GetNextPriority(cur.price)]
<1>1. busy /\ LoopIsOver /\ cur.leaves > 0
  BY DEF EndAddRests
<1>2. CASE OutOfLevels(o.price)
  <2>1. level' = level
    BY <1>2 DEF EndAddRests, bookVars
  <2>2. Resting' = Resting
    BY <2>1 DEF Resting
  <2>3. QED
    BY <1>2, <2>2
<1>3. CASE ~OutOfLevels(o.price)
  <2>1. level' = AddOrder(level, o)
    BY <1>3 DEF EndAddRests
  <2>2. /\ cur \in [client : Clients, oid : Ids, moid : Ids, side : Sides,
                    price : Prices, leaves : Nat]
        /\ \A n \in Resting : n.moid < cur.moid
    BY <1>1 DEF BookInv, RequestInv
  <2>3. /\ GetNextPriority(cur.price) \in Nat \ {0}
        /\ LET at == level[PriceToIndex(cur.price)]
           IN  IsLevel(at) =>
                     /\ at.side = cur.side /\ at.price = cur.price
                     /\ \A k \in 1 .. Len(at.orders) :
                           at.orders[k].priority < GetNextPriority(cur.price)
    BY <1>1, OwnLevel
  <2>4. /\ o \in Orders
        /\ o.moid = cur.moid /\ o.side = cur.side /\ o.price = cur.price
        /\ o.priority = GetNextPriority(cur.price)
    BY <1>1, <2>2, <2>3 DEF Orders
  <2> HIDE DEF o
  <2>5. LevelsInv(level) /\ Resting = OrdersOf(level)
    BY RestingFacts DEF BookInv
  <2>6. \A n \in OrdersOf(level) : n.moid < o.moid
    BY <2>2, <2>4, <2>5
  <2>7. LET at == level[PriceToIndex(o.price)]
        IN  IsLevel(at) => /\ at.side = o.side /\ at.price = o.price
                           /\ \A k \in 1 .. Len(at.orders) :
                                 at.orders[k].priority < o.priority
    BY <2>3, <2>4
  <2>8. /\ LevelsInv(AddOrder(level, o))
        /\ OrdersOf(AddOrder(level, o)) = OrdersOf(level) \cup {o}
    BY <2>4, <2>5, <2>6, <2>7, AddOrderKeeps
  <2>9. LevelsInv(level)'
    BY <2>1, <2>8, ZenonT(60) DEF LevelsInv, LevelType, Sound, InOrder, OnePlace
  <2>10. Resting' = OrdersOf(level')
    BY DEF Resting, OrdersOf
  <2>11. Resting' = Resting \cup {o}
    BY <2>1, <2>5, <2>8, <2>10
  <2>12. QED
    BY <1>3, <2>4, <2>9, <2>11 DEF o
<1>4. QED
  BY <1>2, <1>3

LEMMA EndAddRestsKeeps ==
    ASSUME DistinctSlots, BookInv, EndAddRests
    PROVE  BookInv'
<1> DEFINE o == [client |-> cur.client, oid |-> cur.oid, moid |-> cur.moid,
                 side |-> cur.side, price |-> cur.price, quantity |-> cur.leaves,
                 priority |-> GetNextPriority(cur.price)]
<1>1. busy /\ LoopIsOver /\ cur.leaves > 0
  BY DEF EndAddRests
<1>2. CASE OutOfLevels(o.price)
  <2>1. /\ UNCHANGED <<bookVars, busy, cur, outVars>>
        /\ status' = "out of levels"
    BY <1>2 DEF EndAddRests
  <2>2. QED
    BY <2>1, StatusOnlyKeeps
<1>3. CASE ~OutOfLevels(o.price)
  <2>1. /\ level' = AddOrder(level, o)
        /\ orderOf' = [orderOf EXCEPT ![o.client][o.oid] = o.moid]
        /\ mirror' = [mirror EXCEPT ![o.moid] = Public(o)]
        /\ busy' = FALSE /\ cur' = NoRequest /\ status' = status
        /\ nextMarketOrderId' = nextMarketOrderId /\ sent' = sent
        /\ ledger' = ledger /\ connected' = connected /\ addressed' = addressed
    BY <1>3 DEF EndAddRests
  <2>2. /\ cur \in [client : Clients, oid : Ids, moid : Ids, side : Sides,
                    price : Prices, leaves : Nat]
        /\ cur.moid < nextMarketOrderId /\ cur.oid <= sent[cur.client]
        /\ \A n \in Resting : /\ n.moid < cur.moid
                              /\ ~(n.client = cur.client /\ n.oid = cur.oid)
        /\ ledger[cur.client][cur.oid].leaves = cur.leaves
    BY <1>1 DEF BookInv, RequestInv
  <2>3. o \in Orders /\ LevelsInv(level)' /\ Resting' = Resting \cup {o}
    BY <1>3, RestsAdds
  <2>4. /\ o.client = cur.client /\ o.oid = cur.oid /\ o.moid = cur.moid
        /\ o.side = cur.side /\ o.price = cur.price /\ o.quantity = cur.leaves
    OBVIOUS
  <2> HIDE DEF o
  <2>5. /\ o.client \in Clients /\ o.oid \in Ids /\ o.moid \in Ids
        /\ o.side \in Sides /\ o.price \in Int /\ o.quantity \in Nat
    BY <2>3, BookAssumption DEF Orders
  <2>6. /\ orderOf' \in [Clients -> [Ids -> Ids \cup {0}]]
        /\ orderOf'[o.client][o.oid] = o.moid
        /\ \A c \in Clients, id \in Ids :
              ~(c = o.client /\ id = o.oid) => orderOf'[c][id] = orderOf[c][id]
    BY <2>1, <2>5 DEF BookInv, TypeOK
  <2>7. Public(o) \in [side : Sides \cup {NoSide}, price : Int, quantity : Nat]
    BY <2>5 DEF Public
  <2>8. /\ mirror' \in [Ids -> [side : Sides \cup {NoSide}, price : Int, quantity : Nat]]
         /\ mirror'[o.moid] = Public(o)
         /\ \A m \in Ids : m # o.moid => mirror'[m] = mirror[m]
    BY <2>1, <2>5, <2>7 DEF BookInv, TypeOK
  <2>9. TypeOK'
    <3>1. NoRequest \in [client : Nat, oid : Nat, moid : Nat,
                         side : Sides \cup {NoSide}, price : Int, leaves : Nat]
      BY DEF NoRequest
    <3>2. level' \in LevelType
      BY <2>3 DEF LevelsInv, LevelType
    <3>3. QED
      BY <2>1, <2>6, <2>8, <3>1, <3>2 DEF BookInv, TypeOK, LevelType
  <2>10. OwnersInv'
    <3>1. \A x \in Resting : ~(x.client = o.client /\ x.oid = o.oid)
      BY <2>2, <2>4
    <3>2. \A x, n \in Resting : x.client = n.client /\ x.oid = n.oid => x = n
      BY DEF BookInv, OwnersInv
    <3>3. \A x, n \in Resting' : x.client = n.client /\ x.oid = n.oid => x = n
      BY <2>3, <3>1, <3>2
    <3>4. \A x \in Resting' : x.moid < nextMarketOrderId' /\ x.oid <= sent'[x.client]
      BY <2>1, <2>2, <2>4, <2>3 DEF BookInv, OwnersInv
    <3>5. \A c \in Clients : sent'[c] < nextMarketOrderId'
      BY <2>1 DEF BookInv, OwnersInv
    <3>6. QED
      BY <3>3, <3>4, <3>5 DEF OwnersInv
  <2>11. RequestInv'
    BY <2>1 DEF RequestInv
  <2>12. Uncrossed'
    <3> SUFFICES ASSUME NEW b \in Resting', NEW a \in Resting',
                        b.side = "BUY", a.side = "SELL"
                 PROVE  b.price < a.price
      BY DEF Uncrossed
    <3>1. \A x \in Resting :
              /\ x.price \in Int
              /\ x.side = Opposite(o.side) => ~Crosses(o.side, o.price, x.price)
      BY <1>1, <2>4, LoopEnds, RestingFacts
    <3>2. CASE b \in Resting /\ a \in Resting
      BY <3>2 DEF BookInv, Uncrossed
    <3>3. CASE b = o /\ a \in Resting
      BY <2>5, <3>1, <3>3 DEF Opposite, Crosses
    <3>4. CASE a = o /\ b \in Resting
      BY <2>5, <3>1, <3>4 DEF Opposite, Crosses
    <3>5. QED
      BY <2>3, <3>2, <3>3, <3>4
  <2>13. IndexIsExact'
    <3> SUFFICES ASSUME NEW c \in Clients, NEW id \in Ids, NEW m \in Ids
                 PROVE  orderOf'[c][id] = m <=>
                          \E n \in Resting' : n.client = c /\ n.oid = id /\ n.moid = m
      BY DEF IndexIsExact
    <3>1. \A x \in Resting : ~(x.client = o.client /\ x.oid = o.oid)
      BY <2>2, <2>4
    <3>2. CASE c = o.client /\ id = o.oid
      BY <2>3, <2>6, <3>1, <3>2
    <3>3. CASE ~(c = o.client /\ id = o.oid)
      <4>1. orderOf'[c][id] = orderOf[c][id]
        BY <2>6, <3>3
      <4>2. orderOf[c][id] = m <=>
                \E n \in Resting : n.client = c /\ n.oid = id /\ n.moid = m
        BY DEF BookInv, IndexIsExact
      <4>3. QED
        BY <2>3, <3>3, <4>1, <4>2
    <3>4. QED
      BY <3>2, <3>3
  <2>14. LedgerAddsUp'
    BY <2>1, <2>2, <2>4, <2>3 DEF BookInv, LedgerAddsUp
  <2>15. MirrorInv'
    <3>1. \A x \in Resting : x.moid # o.moid /\ x.moid \in Ids
      <4>1. \A x \in Resting : x.moid < o.moid /\ x.moid \in Ids
        BY <2>2, <2>4, RestingFacts
      <4>2. QED
        BY <4>1 DEF Ids
    <3>2. \A x \in Resting' : mirror'[x.moid] = Public(x)
      BY <2>3, <2>8, <3>1 DEF BookInv, MirrorInv
    <3>3. \A m \in Ids : (\A x \in Resting' : x.moid # m) => mirror'[m] = NotListed
      BY <2>3, <2>8 DEF BookInv, MirrorInv
    <3>4. QED
      BY <3>2, <3>3 DEF MirrorInv
  <2>16. QED
    BY <2>3, <2>9, <2>10, <2>11, <2>12, <2>13, <2>14, <2>15 DEF BookInv
<1>4. QED
  BY <1>2, <1>3

LEMMA CancelKeeps ==
    ASSUME BookInv, NEW c \in Clients, NEW id \in Ids, Cancel(c, id)
    PROVE  BookInv'
<1>1. /\ busy = FALSE /\ busy' = busy /\ cur' = cur /\ status' = status
      /\ sent' = sent /\ nextMarketOrderId' = nextMarketOrderId
      /\ connected' = connected \cup {c} /\ addressed' = addressed \cup {c}
  BY DEF Cancel, BookInv, TypeOK
<1>2. PICK i \in Slots, k \in Ids : RestsAt(c, id, i, k) /\ DoCancel(c, id, i, k)
  BY DEF Cancel
<1> DEFINE o == level[i].orders[k]
<1>3. k \in 1 .. Len(level[i].orders) /\ o.moid = orderOf[c][id]
  BY <1>2 DEF RestsAt
<1>4. /\ LevelsInv(level) /\ level \in LevelType /\ Resting = OrdersOf(level)
      /\ ledger \in LedgerType /\ o \in Resting
  BY <1>3, RestingFacts, OrdersOfPlaces DEF BookInv
<1>5. /\ level' = RemoveOrder(level, i, k)
      /\ orderOf' = [orderOf EXCEPT ![o.client][o.oid] = 0]
      /\ mirror' = [mirror EXCEPT ![o.moid] = NotListed]
      /\ ledger' = [ledger EXCEPT ![c][id].leaves = o.quantity]
  BY <1>2 DEF DoCancel
<1>6. LevelsInv(level)' /\ Resting' = Resting \ {o}
  <2>1. /\ LevelsInv(RemoveOrder(level, i, k))
        /\ OrdersOf(RemoveOrder(level, i, k)) = OrdersOf(level) \ {o}
    BY <1>3, <1>4, RemoveOrderKeeps
  <2>2. LevelsInv(level)'
    BY <1>5, <2>1 DEF LevelsInv, LevelType, Sound, InOrder, OnePlace
  <2>3. Resting' = OrdersOf(level')
    BY DEF Resting, OrdersOf
  <2>4. QED
    BY <1>4, <1>5, <2>1, <2>2, <2>3
<1> HIDE DEF o
<1>7. o.client = c /\ o.oid = id /\ o.moid \in Ids /\ o.quantity \in Nat
  <2>1. o.moid \in Ids /\ o.quantity \in Nat
    BY <1>4, RestingFacts
  <2>2. PICK n \in Resting : n.client = c /\ n.oid = id /\ n.moid = o.moid
    <3>1. orderOf[c][id] \in Ids
      BY <1>3, <2>1
    <3>2. IndexIsExact
      BY DEF BookInv
    <3>3. \E n \in Resting : n.client = c /\ n.oid = id /\ n.moid = orderOf[c][id]
      BY <3>1, <3>2 DEF IndexIsExact
    <3>4. QED
      BY <1>3, <3>3
  <2>3. n = o
    BY <1>4, <2>2, OneOrderPerId
  <2>4. QED
    BY <2>1, <2>2, <2>3
<1>8. /\ Uncrossed' /\ IndexIsExact' /\ MirrorInv'
      /\ orderOf' \in [Clients -> [Ids -> Ids \cup {0}]]
      /\ mirror' \in [Ids -> [side : Sides \cup {NoSide}, price : Int, quantity : Nat]]
  BY <1>4, <1>5, <1>6, RemovalKeeps
<1>9. ledger[c][id].leaves = o.quantity
  BY <1>4, <1>7 DEF BookInv, LedgerAddsUp
<1>10. ledger' = ledger
  <2>1. /\ ledger[c] \in [Ids -> [ordered : Nat, executed : Nat, leaves : Nat]]
        /\ ledger[c][id] \in [ordered : Nat, executed : Nat, leaves : Nat]
    BY <1>4 DEF LedgerType
  <2>2. [ledger[c][id] EXCEPT !.leaves = o.quantity] = ledger[c][id]
    BY <1>9, <2>1
  <2>3. ledger' = [ledger EXCEPT ![c] = [ledger[c] EXCEPT ![id] =
                      [ledger[c][id] EXCEPT !.leaves = o.quantity]]]
    BY <1>5
  <2>4. [ledger[c] EXCEPT ![id] = ledger[c][id]] = ledger[c]
    BY <2>1
  <2>5. [ledger EXCEPT ![c] = ledger[c]] = ledger
    BY <1>4 DEF LedgerType
  <2>6. QED
    BY <2>2, <2>3, <2>4, <2>5
<1>11. \A n \in Resting' : n \in Resting
  BY <1>6
<1>12. TypeOK'
  <2>1. level' \in LevelType
    BY <1>6 DEF LevelsInv, LevelType
  <2>2. connected' \subseteq Clients /\ addressed' \subseteq Nat
    BY <1>1, BookAssumption DEF BookInv, TypeOK
  <2>3. QED
    BY <1>1, <1>8, <1>10, <2>1, <2>2 DEF BookInv, TypeOK, LevelType
<1>13. OwnersInv' /\ RequestInv' /\ LedgerAddsUp'
  <2>1. OwnersInv'
    BY <1>1, <1>11 DEF BookInv, OwnersInv
  <2>2. RequestInv'
    BY <1>1 DEF RequestInv
  <2>3. LedgerAddsUp'
    BY <1>10, <1>11 DEF BookInv, LedgerAddsUp
  <2>4. QED
    BY <2>1, <2>2, <2>3
<1>14. QED
  BY <1>6, <1>8, <1>12, <1>13 DEF BookInv

LEMMA CancelRejectedKeeps ==
    ASSUME BookInv, NEW c \in Clients, NEW id \in Ids, CancelRejected(c, id)
    PROVE  BookInv'
<1>1. /\ level' = level /\ orderOf' = orderOf /\ mirror' = mirror
      /\ nextMarketOrderId' = nextMarketOrderId /\ cur' = cur /\ busy' = busy
      /\ sent' = sent /\ ledger' = ledger /\ status' = status
      /\ connected' = connected \cup {c} /\ addressed' = addressed \cup {c}
  BY DEF CancelRejected, bookVars
<1>2. /\ Resting' = Resting
      /\ LevelsInv(level)' /\ Uncrossed' /\ IndexIsExact' /\ MirrorInv'
  BY <1>1, SameBook
<1>3. TypeOK'
  <2>1. connected' \subseteq Clients /\ addressed' \subseteq Nat
    BY <1>1, BookAssumption DEF BookInv, TypeOK
  <2>2. QED
    BY <1>1, <2>1 DEF BookInv, TypeOK
<1>4. OwnersInv' /\ RequestInv' /\ LedgerAddsUp'
  <2>1. OwnersInv'
    BY <1>1, <1>2 DEF BookInv, OwnersInv
  <2>2. RequestInv'
    <3>1. CASE busy
      BY <1>1, <1>2, <3>1 DEF BookInv, RequestInv
    <3>2. CASE ~busy
      <4>1. busy = FALSE
        BY <3>2 DEF BookInv, TypeOK
      <4>2. busy' = FALSE
        BY <1>1, <4>1
      <4>3. QED
        BY <4>2 DEF RequestInv
    <3>3. QED
      BY <3>1, <3>2
  <2>3. LedgerAddsUp'
    BY <1>1, <1>2 DEF BookInv, LedgerAddsUp
  <2>4. QED
    BY <2>1, <2>2, <2>3
<1>5. QED
  BY <1>2, <1>3, <1>4 DEF BookInv

\* Every step keeps the invariant.
LEMMA BookStep ==
    ASSUME DistinctSlots, BookInv, [Next]_vars
    PROVE  BookInv'
<1>1. CASE \E c \in Clients, s \in Sides, p \in Prices, q \in Quantities :
              Add(c, s, p, q)
  BY <1>1, AddKeeps
<1>2. CASE \E i \in Slots : Match(i)
  BY <1>2, MatchKeeps
<1>3. CASE EndAddFilled
  BY <1>3, EndAddFilledKeeps
<1>4. CASE EndAddRests
  BY <1>4, EndAddRestsKeeps
<1>5. CASE \E c \in Clients, o \in Ids : Cancel(c, o) \/ CancelRejected(c, o)
  BY <1>5, CancelKeeps, CancelRejectedKeeps
<1>6. CASE Destroy
  <2>1. /\ UNCHANGED <<bookVars, busy, cur, outVars>>
        /\ status' \in {"stopped", "validity check"}
    BY <1>6 DEF Destroy
  <2>2. QED
    BY <2>1, StatusOnlyKeeps
<1>7. CASE UNCHANGED vars
  <2>1. /\ UNCHANGED <<bookVars, busy, cur, outVars>> /\ status' = status
    BY <1>7 DEF vars
  <2>2. status' \in {"running", "stopped", "validity check", "out of levels"}
    BY <2>1 DEF BookInv, TypeOK
  <2>3. QED
    BY <2>1, <2>2, StatusOnlyKeeps
<1>8. QED
  BY <1>1, <1>2, <1>3, <1>4, <1>5, <1>6, <1>7 DEF Next

-----------------------------------------------------------------------------
(* Price-time priority. *)

\* An order that stays as it is has not been filled.
LEMMA KeptIsNotFilled ==
    ASSUME BookInv, NEW o \in Resting, o \in Resting',
           \A n \in Resting' : n.moid = o.moid => n.quantity < o.quantity
    PROVE  FALSE
<1>1. o.quantity \in Nat /\ o.quantity < o.quantity
  BY RestingFacts
<1>2. QED
  BY <1>1

\* The order match() fills stands ahead of all others of its side.
LEMMA MatchIsFair ==
    ASSUME BookInv, NEW i \in Slots, Match(i), NEW n \in Resting,
           n.side = level[i].orders[1].side, n # level[i].orders[1]
    PROVE  LET o == level[i].orders[1]
           IN  \/ Better(o.side, o.price, n.price)
               \/ n.price = o.price /\ o.moid < n.moid
<1> DEFINE o == level[i].orders[1]
<1>1. /\ 1 \in 1 .. Len(level[i].orders) /\ Len(level[i].orders) \in Nat
      /\ o \in Resting /\ o.price = level[i].price /\ o.side = level[i].side
      /\ o.side = Opposite(cur.side)
  BY MatchFacts
<1>2. level \in LevelType /\ Resting = OrdersOf(level)
  BY RestingFacts
<1>3. PICK j \in Slots : \E k \in 1 .. Len(level[j].orders) : n = level[j].orders[k]
  BY <1>2, OrdersOfPlaces
<1>4. PICK k \in 1 .. Len(level[j].orders) : n = level[j].orders[k]
  BY <1>3
<1>5. level[j].orders \in Seq(Orders)
  BY <1>2 DEF LevelType
<1>6. /\ n.side = level[j].side /\ n.price = level[j].price
      /\ PriceToIndex(level[j].price) = j
  BY <1>4 DEF BookInv, LevelsInv, Sound
<1>7. PriceToIndex(level[i].price) = i
  BY <1>1 DEF BookInv, LevelsInv, Sound
<1>8. j \in LevelsOf(o.side)
  <2>1. level[j].orders # <<>>
    BY <1>4, <1>5
  <2>2. QED
    BY <1>6, <2>1 DEF LevelsOf, IsLevel
<1>9. ~Better(o.side, n.price, o.price)
  <2>1. IsBest(o.side, i)
    BY <1>1 DEF Match, CanMatch
  <2>2. ~Better(o.side, level[j].price, level[i].price)
    BY <1>8, <2>1 DEF IsBest
  <2>3. QED
    BY <1>1, <1>6, <2>2
<1>10. o.price \in Int /\ n.price \in Int /\ o.side \in Sides
  BY <1>1, RestingFacts
<1>11. CASE n.price = o.price
  <2>1. i = j
    BY <1>1, <1>6, <1>7, <1>11
  <2>2. k # 1
    BY <1>4, <2>1
  <2>3. 1 < k
    BY <1>1, <1>4, <2>1, <2>2
  <2>4. o.moid < n.moid
    BY <1>1, <1>4, <2>1, <2>3 DEF BookInv, LevelsInv, InOrder
  <2>5. QED
    BY <1>11, <2>4
<1>12. CASE n.price # o.price
  <2> HIDE DEF o
  <2>1. Better(o.side, o.price, n.price)
    BY <1>9, <1>10, <1>12 DEF Better, Sides
  <2>2. QED
    BY <2>1 DEF o
<1>13. QED
  BY <1>11, <1>12

\* Only match() makes a resting order smaller while a request is at work, and
\* it takes the order that is due.
LEMMA TradesAreFair ==
    ASSUME DistinctSlots, BookInv, [Next]_vars
    PROVE  [TradeStep]_vars
<1> SUFFICES ASSUME busy, NEW o \in Resting,
                    \A n \in Resting' : n.moid = o.moid => n.quantity < o.quantity
             PROVE  /\ o.side # cur.side
                    /\ Crosses(cur.side, cur.price, o.price)
                    /\ \A n \in Resting :
                          n.side = o.side /\ n # o =>
                              \/ Better(o.side, o.price, n.price)
                              \/ n.price = o.price /\ o.moid < n.moid
  BY DEF TradeStep
<1>1. o \notin Resting'
  BY KeptIsNotFilled
<1>2. CASE \E i \in Slots : Match(i)
  <2>1. PICK i \in Slots : Match(i)
    BY <1>2
  <2> DEFINE first == level[i].orders[1]
  <2>2. o = first
    <3>1. o # first => o \in Resting'
      BY <2>1, MatchChanges
    <3>2. QED
      BY <1>1, <3>1
  <2>3. o.side # cur.side
    BY <2>1, <2>2, MatchFacts
  <2>4. Crosses(cur.side, cur.price, o.price)
    BY <2>1, <2>2 DEF Match, CanMatch
  <2>5. ASSUME NEW n \in Resting, n.side = o.side, n # o
        PROVE  \/ Better(o.side, o.price, n.price)
               \/ n.price = o.price /\ o.moid < n.moid
    BY <2>1, <2>2, <2>5, MatchIsFair
  <2>6. QED
    BY <2>3, <2>4, <2>5
<1>3. CASE EndAddFilled
  <2>1. Resting' = Resting
    BY <1>3 DEF EndAddFilled, bookVars, Resting
  <2>2. QED
    BY <1>1, <2>1
<1>4. CASE EndAddRests
  <2>1. Resting \subseteq Resting'
    BY <1>4, RestsAdds
  <2>2. QED
    BY <1>1, <2>1
<1>5. CASE UNCHANGED vars
  <2>1. Resting' = Resting
    BY <1>5 DEF vars, bookVars, Resting
  <2>2. QED
    BY <1>1, <2>1
<1>6. CASE \/ \E c \in Clients, s \in Sides, p \in Prices, q \in Quantities :
                 Add(c, s, p, q)
           \/ \E c \in Clients, id \in Ids : Cancel(c, id) \/ CancelRejected(c, id)
           \/ Destroy
  BY <1>6 DEF Add, Cancel, CancelRejected, Destroy
<1>7. QED
  BY <1>2, <1>3, <1>4, <1>5, <1>6 DEF Next

-----------------------------------------------------------------------------
(* The theorems. *)

\* The inductive invariant is an invariant.
LEMMA BookInvariant == ASSUME DistinctSlots PROVE Spec => []BookInv
<1>1. Init => BookInv
  BY InitBook
<1>2. BookInv /\ [Next]_vars => BookInv'
  BY BookStep
<1>3. QED
  BY <1>1, <1>2, PTL DEF Spec

\* MatchingEngineOrderBook: the variables keep their types; in particular no
\* resting order is empty and no count goes below zero.
THEOREM BookTypes == ASSUME DistinctSlots PROVE Spec => []TypeOK
<1>1. BookInv => TypeOK
  BY DEF BookInv
<1>2. QED
  BY <1>1, BookInvariant, PTL

\* The book never stays crossed: checkForMatch stops only when no order of the
\* other side admits the limit, although it looks at the head of a ring only.
THEOREM BookIsUncrossed == ASSUME DistinctSlots PROVE Spec => []Uncrossed
<1>1. BookInv => Uncrossed
  BY DEF BookInv
<1>2. QED
  BY <1>1, BookInvariant, PTL

\* Every level holds orders of one side and price in order of arrival.
THEOREM BookLevels == ASSUME DistinctSlots PROVE Spec => []LevelsAreSound
<1>1. BookInv => LevelsAreSound
  <2> SUFFICES ASSUME BookInv, NEW i \in Slots, IsLevel(level[i])
               PROVE  /\ PriceToIndex(level[i].price) = i
                      /\ \A k \in 1 .. Len(level[i].orders) :
                            LET o == level[i].orders[k] IN
                            /\ o.side = level[i].side /\ o.price = level[i].price
                            /\ k > 1 => /\ level[i].orders[k - 1].priority < o.priority
                                        /\ level[i].orders[k - 1].moid < o.moid
    BY DEF LevelsAreSound
  <2>1. level[i].orders \in Seq(Orders) /\ level[i].orders # <<>>
    BY RestingFacts DEF LevelType, IsLevel
  <2>2. Len(level[i].orders) \in Nat /\ 1 \in 1 .. Len(level[i].orders)
    BY <2>1
  <2>3. \A k \in 1 .. Len(level[i].orders) :
            /\ PriceToIndex(level[i].price) = i
            /\ level[i].orders[k].side = level[i].side
            /\ level[i].orders[k].price = level[i].price
    BY DEF BookInv, LevelsInv, Sound
  <2>4. ASSUME NEW k \in 1 .. Len(level[i].orders), k > 1
        PROVE  /\ level[i].orders[k - 1].priority < level[i].orders[k].priority
               /\ level[i].orders[k - 1].moid < level[i].orders[k].moid
    <3>1. k - 1 \in 1 .. Len(level[i].orders) /\ k - 1 < k
      BY <2>2, <2>4
    <3>2. QED
      BY <3>1 DEF BookInv, LevelsInv, InOrder
  <2>5. QED
    BY <2>2, <2>3, <2>4
<1>2. QED
  BY <1>1, BookInvariant, PTL

\* cid_oid_to_order is exact: cancel() never reaches a freed or a foreign order.
THEOREM BookIndex == ASSUME DistinctSlots PROVE Spec => []IndexIsExact
<1>1. BookInv => IndexIsExact
  BY DEF BookInv
<1>2. QED
  BY <1>1, BookInvariant, PTL

\* The client responses add up for every client and order.
THEOREM BookLedger == ASSUME DistinctSlots PROVE Spec => []LedgerAddsUp
<1>1. BookInv => LedgerAddsUp
  BY DEF BookInv
<1>2. QED
  BY <1>1, BookInvariant, PTL

\* The market updates, replayed, are the book after every step.
THEOREM BookMirror == ASSUME DistinctSlots PROVE Spec => []MirrorIsBook
<1>1. BookInv => MirrorIsBook
  <2> SUFFICES ASSUME BookInv, NEW m \in Ids
               PROVE  IF \E o \in Resting : o.moid = m
                      THEN mirror[m] = Public(CHOOSE o \in Resting : o.moid = m)
                      ELSE mirror[m] = NotListed
    BY DEF MirrorIsBook
  <2>1. CASE \E o \in Resting : o.moid = m
    <3> DEFINE o == CHOOSE o \in Resting : o.moid = m
    <3>1. o \in Resting /\ o.moid = m
      BY <2>1
    <3> HIDE DEF o
    <3>2. mirror[m] = Public(o)
      BY <3>1 DEF BookInv, MirrorInv
    <3>3. QED
      BY <2>1, <3>2 DEF o
  <2>2. CASE ~\E o \in Resting : o.moid = m
    <3>1. mirror[m] = NotListed
      BY <2>2 DEF BookInv, MirrorInv
    <3>2. QED
      BY <2>2, <3>1
  <2>3. QED
    BY <2>1, <2>2
<1>2. QED
  BY <1>1, BookInvariant, PTL

\* Price-time priority: match() fills an order only when no other order of its
\* side is ahead of it, and only at a price both sides admit.
THEOREM BookPriority == ASSUME DistinctSlots PROVE Spec => PriceTimePriority
<1>1. BookInv /\ [Next]_vars => [TradeStep]_vars
  BY TradesAreFair
<1>2. QED
  BY <1>1, BookInvariant, PTL DEF Spec, PriceTimePriority

=============================================================================
