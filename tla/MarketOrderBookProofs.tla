------------------------ MODULE MarketOrderBookProofs ------------------------
(***************************************************************************)
(* The client's book, for any prices, quantities, ids, number of levels    *)
(* and number of recoveries.                                               *)
(*                                                                         *)
(* First oid_to_order: it names exactly the orders that rest and that the  *)
(* client was told of.  This needs nothing of the levels, which CLEAR may  *)
(* leave in any state: whichever pointers a handler follows, it changes    *)
(* next and prev of orders, never their id, side, price and quantity.      *)
(*                                                                         *)
(* Then the rings, while no order went into a level of another price or    *)
(* side (~misled): levels and orders are in rings, sorted by price and by  *)
(* time, every level in use is on the ring of its side and has an order.   *)
(* From them follows that the book is the exchange's, and so are its best  *)
(* prices.                                                                 *)
(***************************************************************************)
EXTENDS MarketOrderBook, FiniteSetTheorems, NaturalsInduction,
        WellFoundedInduction, TLAPS

-----------------------------------------------------------------------------
(* The inductive invariant, first what it says of the memory m. *)

\* m has the fields of a book, and o those of an order.
Fields == {"level", "free", "cursor", "index", "best", "order", "byId", "status"}
IsBook(m) == m = [x \in Fields |-> m[x]]

IsOrder(o) ==
    o = [id |-> o.id, side |-> o.side, price |-> o.price,
         quantity |-> o.quantity, next |-> o.next, prev |-> o.prev]

AreOrders(f) ==
    /\ \E n \in Nat : DOMAIN f = 1 .. n
    /\ f = [k \in DOMAIN f |-> f[k]]
    /\ \A k \in DOMAIN f : IsOrder(f[k])

\* The orders f and g differ only in their pointers.
Alike(o, x) ==
    x.id = o.id /\ x.side = o.side /\ x.price = o.price /\ x.quantity = o.quantity
SameOrders(f, g) ==
    DOMAIN g = DOMAIN f /\ \A k \in DOMAIN f : Alike(f[k], g[k])

\* oid_to_order of m names the orders of known, each as it is in book.
Names(m, known, book) ==
    \A i \in Ids :
        IF i \in known
        THEN /\ m.byId[i] \in DOMAIN m.order
             /\ LET o == m.order[m.byId[i]]
                IN  /\ o.id = i
                    /\ book[i] = [side |-> o.side, price |-> o.price,
                                  quantity |-> o.quantity]
        ELSE m.byId[i] = Null

Memory(m, known, book) ==
    /\ IsBook(m)
    /\ AreOrders(m.order)
    /\ m.byId = [i \in Ids |-> m.byId[i]]
    /\ Names(m, known, book)

\* The exchange's book: ids to come are new.
FeedInv ==
    /\ feed \in [Ids -> [side : Sides, price : Prices, quantity : Nat \ {0}]
                         \cup {NotResting}]
    /\ nextId \in Nat \ {0}
    /\ \A i \in Ids : i >= nextId => feed[i] = NotResting

\* What is still to come of a snapshot rests, and comes once.
SnapshotInv ==
    /\ toCome \in Seq(Ids)
    /\ \A k \in 1 .. Len(toCome) : toCome[k] \in Resting
    /\ \A j, k \in 1 .. Len(toCome) : toCome[j] = toCome[k] => j = k

KnownInv ==
    /\ mob.status # "order_id"
    /\ Running => Memory(mob, Known, feed) /\ FeedInv /\ SnapshotInv

-----------------------------------------------------------------------------
(* Orders and their pointers. *)

LEMMA SetNext ==
    ASSUME NEW o, IsOrder(o), NEW v
    PROVE  LET x == [o EXCEPT !.next = v] IN IsOrder(x) /\ Alike(o, x)
BY DEF IsOrder, Alike

LEMMA SetPrev ==
    ASSUME NEW o, IsOrder(o), NEW v
    PROVE  LET x == [o EXCEPT !.prev = v] IN IsOrder(x) /\ Alike(o, x)
BY DEF IsOrder, Alike

LEMMA SetQuantity ==
    ASSUME NEW o, IsOrder(o), NEW v
    PROVE  LET x == [o EXCEPT !.quantity = v]
           IN  /\ IsOrder(x) /\ x.quantity = v
               /\ x.id = o.id /\ x.side = o.side /\ x.price = o.price
BY DEF IsOrder

\* One order is replaced; a pointer that leads nowhere changes nothing.
LEMMA PutOrder ==
    ASSUME NEW f, AreOrders(f), NEW a, NEW x,
           a \in DOMAIN f => IsOrder(x) /\ Alike(f[a], x)
    PROVE  LET g == [f EXCEPT ![a] = x] IN AreOrders(g) /\ SameOrders(f, g)
<1> DEFINE g == [f EXCEPT ![a] = x]
<1>1. /\ DOMAIN g = DOMAIN f /\ g = [k \in DOMAIN g |-> g[k]]
      /\ \A k \in DOMAIN f : g[k] = IF k = a THEN x ELSE f[k]
  OBVIOUS
<1> HIDE DEF g
<1>2. SameOrders(f, g)
  BY <1>1 DEF SameOrders, Alike
<1>3. \A k \in DOMAIN g : IsOrder(g[k])
  BY <1>1 DEF AreOrders
<1>4. QED
  BY <1>1, <1>2, <1>3 DEF AreOrders, g

LEMMA RelinkNext ==
    ASSUME NEW f, AreOrders(f), NEW a, NEW v
    PROVE  LET g == [f EXCEPT ![a].next = v] IN AreOrders(g) /\ SameOrders(f, g)
<1>1. a \in DOMAIN f =>
        IsOrder([f[a] EXCEPT !.next = v]) /\ Alike(f[a], [f[a] EXCEPT !.next = v])
  BY SetNext DEF AreOrders
<1>2. QED
  BY <1>1, PutOrder

LEMMA RelinkPrev ==
    ASSUME NEW f, AreOrders(f), NEW a, NEW v
    PROVE  LET g == [f EXCEPT ![a].prev = v] IN AreOrders(g) /\ SameOrders(f, g)
<1>1. a \in DOMAIN f =>
        IsOrder([f[a] EXCEPT !.prev = v]) /\ Alike(f[a], [f[a] EXCEPT !.prev = v])
  BY SetPrev DEF AreOrders
<1>2. QED
  BY <1>1, PutOrder

LEMMA SameTransitive ==
    ASSUME NEW f, NEW g, NEW h, SameOrders(f, g), SameOrders(g, h)
    PROVE  SameOrders(f, h)
BY DEF SameOrders, Alike

-----------------------------------------------------------------------------
(* The levels.  Whatever their pointers are, nothing that is done to levels   *)
(* touches the orders and oid_to_order.                                       *)

\* m is changed to r, but neither its orders nor its oid_to_order.
LevelsOnly(m, r) ==
    /\ IsBook(r) /\ r.order = m.order /\ r.byId = m.byId
    /\ r.status # "order_id"

LEMMA LevelsKept ==
    ASSUME NEW m, IsBook(m), m.status # "order_id"
    PROVE  LevelsOnly(m, m)
BY DEF LevelsOnly

LEMMA LevelsThen ==
    ASSUME NEW m, NEW r, NEW q, LevelsOnly(m, r), LevelsOnly(r, q)
    PROVE  LevelsOnly(m, q)
BY DEF LevelsOnly

\* Assignments to the fields that belong to the levels, and to the status.
LEMMA SetLevel ==
    ASSUME NEW m, NEW r, LevelsOnly(m, r), NEW v
    PROVE  LevelsOnly(m, [r EXCEPT !.level = v])
BY DEF LevelsOnly, IsBook, Fields

LEMMA SetFree ==
    ASSUME NEW m, NEW r, LevelsOnly(m, r), NEW v
    PROVE  LevelsOnly(m, [r EXCEPT !.free = v])
BY DEF LevelsOnly, IsBook, Fields

LEMMA SetCursor ==
    ASSUME NEW m, NEW r, LevelsOnly(m, r), NEW v
    PROVE  LevelsOnly(m, [r EXCEPT !.cursor = v])
BY DEF LevelsOnly, IsBook, Fields

LEMMA SetIndex ==
    ASSUME NEW m, NEW r, LevelsOnly(m, r), NEW v
    PROVE  LevelsOnly(m, [r EXCEPT !.index = v])
BY DEF LevelsOnly, IsBook, Fields

LEMMA SetBest ==
    ASSUME NEW m, NEW r, LevelsOnly(m, r), NEW v
    PROVE  LevelsOnly(m, [r EXCEPT !.best = v])
BY DEF LevelsOnly, IsBook, Fields

LEMMA SetStatus ==
    ASSUME NEW m, NEW r, LevelsOnly(m, r), NEW how, how # "order_id"
    PROVE  LevelsOnly(m, Ended(r, how))
BY DEF LevelsOnly, IsBook, Fields, Ended

LEMMA AllocateLevels ==
    ASSUME NEW m, IsBook(m), m.status # "order_id", NEW content
    PROVE  LevelsOnly(m, Allocate(m, content))
<1> DEFINE taken == [m EXCEPT !.free[m.cursor] = FALSE, !.level[m.cursor] = content]
           given == [m EXCEPT !.free = [m.free EXCEPT ![m.cursor] = FALSE]]
<1>1. LevelsOnly(m, given)
  BY LevelsKept, SetFree
<1>2. taken = [given EXCEPT !.level = [given.level EXCEPT ![m.cursor] = content]]
  OBVIOUS
<1>3. Allocate(m, content) =
        IF \A b \in Blocks : ~taken.free[b] THEN Ended(taken, "out_of_space")
        ELSE [taken EXCEPT !.cursor = NextFreeIndex(taken)]
  BY DEF Allocate
<1> HIDE DEF taken, given
<1>4. LevelsOnly(m, taken)
  BY <1>1, <1>2, SetLevel
<1>5. LevelsOnly(m, Ended(taken, "out_of_space"))
  BY <1>4, SetStatus
<1>6. LevelsOnly(m, [taken EXCEPT !.cursor = NextFreeIndex(taken)])
  BY <1>4, SetCursor
<1>7. QED
  BY <1>3, <1>5, <1>6

LEMMA DeallocateLevels ==
    ASSUME NEW m, IsBook(m), m.status # "order_id", NEW b
    PROVE  LevelsOnly(m, Deallocate(m, b))
<1>1. Deallocate(m, b) =
        IF b = Null THEN Ended(m, "not_in_pool")
        ELSE IF m.free[b] THEN Ended(m, "not_in_use")
        ELSE [m EXCEPT !.free = [m.free EXCEPT ![b] = TRUE]]
  BY DEF Deallocate
<1>2. LevelsOnly(m, Ended(m, "not_in_pool")) /\ LevelsOnly(m, Ended(m, "not_in_use"))
  BY LevelsKept, SetStatus
<1>3. LevelsOnly(m, [m EXCEPT !.free = [m.free EXCEPT ![b] = TRUE]])
  BY LevelsKept, SetFree
<1>4. QED
  BY <1>1, <1>2, <1>3

LEMMA LinkLastLevels ==
    ASSUME NEW m, IsBook(m), m.status # "order_id", NEW b, NEW head
    PROVE  LevelsOnly(m, LinkLast(m, b, head))
<1>1. \E v : \/ LinkLast(m, b, head) = Ended(m, "null_pointer")
              \/ LinkLast(m, b, head) = [m EXCEPT !.level = v]
  BY DEF LinkLast
<1>2. PICK v : \/ LinkLast(m, b, head) = Ended(m, "null_pointer")
               \/ LinkLast(m, b, head) = [m EXCEPT !.level = v]
  BY <1>1
<1>3. LevelsOnly(m, Ended(m, "null_pointer"))
  BY LevelsKept, SetStatus
<1>4. LevelsOnly(m, [m EXCEPT !.level = v])
  BY LevelsKept, SetLevel
<1>5. QED
  BY <1>2, <1>3, <1>4, Zenon

LEMMA LinkBeforeLevels ==
    ASSUME NEW m, IsBook(m), m.status # "order_id", NEW b, NEW t, NEW head
    PROVE  LevelsOnly(m, LinkBefore(m, b, t, head))
<1>1. \E v, u : \/ LinkBefore(m, b, t, head) = Ended(m, "null_pointer")
                 \/ LinkBefore(m, b, t, head) =
                        [[m EXCEPT !.level = v] EXCEPT !.best = u]
  BY DEF LinkBefore
<1>2. PICK v, u : \/ LinkBefore(m, b, t, head) = Ended(m, "null_pointer")
                  \/ LinkBefore(m, b, t, head) =
                        [[m EXCEPT !.level = v] EXCEPT !.best = u]
  BY <1>1
<1>3. LevelsOnly(m, Ended(m, "null_pointer"))
  BY LevelsKept, SetStatus
<1> DEFINE m1 == [m EXCEPT !.level = v]
<1>4. LevelsOnly(m, m1)
  BY LevelsKept, SetLevel
<1> HIDE DEF m1
<1>5. LevelsOnly(m, [m1 EXCEPT !.best = u])
  BY <1>4, SetBest
<1>6. QED
  BY <1>2, <1>3, <1>5, Zenon DEF m1

LEMMA AddOrderAtPriceLevels ==
    ASSUME NEW m0, IsBook(m0), m0.status # "order_id", NEW b
    PROVE  LevelsOnly(m0, AddOrderAtPrice(m0, b))
<1> DEFINE s == m0.level[b].side
           m == [m0 EXCEPT !.index[PriceToIndex(m0.level[b].price)] = b]
           head == m.best[s]
           w == Walk(LevelNext(m), head, MaxLevels)
           stops == Stops(m, b, w, head)
           t == w[Min(stops)]
           alone == [m EXCEPT !.best[s] = b, !.level[b].next = b, !.level[b].prev = b]
<1>1. LevelsOnly(m0, m)
  <2>1. m = [m0 EXCEPT !.index =
                [m0.index EXCEPT ![PriceToIndex(m0.level[b].price)] = b]]
    OBVIOUS
  <2>2. QED
    BY <2>1, LevelsKept, SetIndex
<1>2. AddOrderAtPrice(m0, b) =
        IF head = Null THEN alone
        ELSE IF stops = {} THEN Ended(m, "endless")
        ELSE IF t = Null THEN Ended(m, "null_pointer")
        ELSE IF Min(stops) > 0 /\ t = head THEN LinkLast(m, b, head)
        ELSE LinkBefore(m, b, t, head)
  BY DEF AddOrderAtPrice
<1> HIDE DEF s, m, head, w, stops, t
<1>a. LevelsOnly(m, m)
  BY <1>1 DEF LevelsOnly
<1>3. LevelsOnly(m, alone)
  <2> DEFINE m1 == [m EXCEPT !.best = [m.best EXCEPT ![s] = b]]
             m2 == [m1 EXCEPT !.level = [m1.level EXCEPT ![b].next = b]]
  <2>1. alone = [m2 EXCEPT !.level = [m2.level EXCEPT ![b].prev = b]]
    OBVIOUS
  <2>2. LevelsOnly(m, m1)
    BY <1>a, SetBest
  <2> HIDE DEF m1
  <2>3. LevelsOnly(m, m2)
    BY <2>2, SetLevel
  <2> HIDE DEF m2, alone
  <2>4. QED
    BY <2>1, <2>3, SetLevel
<1>4. LevelsOnly(m, Ended(m, "endless")) /\ LevelsOnly(m, Ended(m, "null_pointer"))
  BY <1>a, SetStatus
<1>5. LevelsOnly(m, LinkLast(m, b, head)) /\ LevelsOnly(m, LinkBefore(m, b, t, head))
  BY <1>1, LinkLastLevels, LinkBeforeLevels DEF LevelsOnly
<1> HIDE DEF alone
<1>6. LevelsOnly(m, AddOrderAtPrice(m0, b))
  BY <1>2, <1>3, <1>4, <1>5
<1>7. QED
  BY <1>1, <1>6, LevelsThen

LEMMA RemoveOrderAtPriceLevels ==
    ASSUME NEW m, IsBook(m), m.status # "order_id", NEW s, NEW price
    PROVE  LevelsOnly(m, RemoveOrderAtPrice(m, s, price))
<1> DEFINE b == LevelAt(m, price)
           x == m.level[b]
           unlinked == [[[m.level EXCEPT ![x.prev].next = x.next]
                            EXCEPT ![x.next].prev = x.prev]
                            EXCEPT ![b].next = Null, ![b].prev = Null]
           left == [m EXCEPT !.index[PriceToIndex(price)] = Null]
           last == [left EXCEPT !.best[s] = Null]
           other == [left EXCEPT !.level = unlinked,
                                 !.best[s] = IF b = @ THEN x.next ELSE @]
<1>1. RemoveOrderAtPrice(m, s, price) =
        IF b = Null THEN Ended(m, "null_pointer")
        ELSE IF x.next = b THEN Deallocate(last, b)
        ELSE IF Null \in {x.next, x.prev} THEN Ended(m, "null_pointer")
        ELSE Deallocate(other, b)
  BY DEF RemoveOrderAtPrice
<1> HIDE DEF b, x, unlinked
<1>2. LevelsOnly(m, Ended(m, "null_pointer"))
  BY LevelsKept, SetStatus
<1>3. LevelsOnly(m, left)
  <2>1. left = [m EXCEPT !.index = [m.index EXCEPT ![PriceToIndex(price)] = Null]]
    OBVIOUS
  <2>2. QED
    BY <2>1, LevelsKept, SetIndex
<1> HIDE DEF left
<1>4. LevelsOnly(m, last)
  <2>1. last = [left EXCEPT !.best = [left.best EXCEPT ![s] = Null]]
    OBVIOUS
  <2>2. QED
    BY <1>3, <2>1, SetBest
<1>5. LevelsOnly(m, other)
  <2> DEFINE m1 == [left EXCEPT !.level = unlinked]
  <2>1. \E v : other = [m1 EXCEPT !.best = v]
    OBVIOUS
  <2>2. LevelsOnly(m, m1)
    BY <1>3, SetLevel
  <2> HIDE DEF m1, other
  <2>3. PICK v : other = [m1 EXCEPT !.best = v]
    BY <2>1
  <2>4. QED
    BY <2>2, <2>3, SetBest
<1> HIDE DEF last, other
<1>6. LevelsOnly(last, Deallocate(last, b)) /\ LevelsOnly(other, Deallocate(other, b))
  BY <1>4, <1>5, DeallocateLevels DEF LevelsOnly
<1>7. LevelsOnly(m, Deallocate(last, b)) /\ LevelsOnly(m, Deallocate(other, b))
  BY <1>4, <1>5, <1>6, LevelsThen
<1>8. QED
  BY <1>1, <1>2, <1>7

-----------------------------------------------------------------------------
(* addOrder and removeOrder. *)

LEMMA SetOrder ==
    ASSUME NEW m, IsBook(m), NEW v
    PROVE  LET r == [m EXCEPT !.order = v]
           IN  IsBook(r) /\ r.order = v /\ r.byId = m.byId /\ r.status = m.status
BY DEF IsBook, Fields

LEMMA SetById ==
    ASSUME NEW m, IsBook(m), NEW v
    PROVE  LET r == [m EXCEPT !.byId = v]
           IN  IsBook(r) /\ r.order = m.order /\ r.byId = v /\ r.status = m.status
BY DEF IsBook, Fields

\* m is changed to r: the orders keep all but their pointers, and oid_to_order
\* becomes names.
Enters(m, r, names) ==
    /\ IsBook(r) /\ AreOrders(r.order) /\ SameOrders(m.order, r.order)
    /\ r.byId = names /\ r.status # "order_id"

LEMMA EntersThen ==
    ASSUME NEW m, NEW r, NEW q, NEW names, Enters(m, r, names), LevelsOnly(r, q)
    PROVE  Enters(m, q, names)
BY DEF Enters, LevelsOnly

\* The four assignments that put order o between last and first, and those that
\* take it out.
LEMMA LinkedIn ==
    ASSUME NEW f, AreOrders(f), NEW o, NEW last, NEW first
    PROVE  LET g == [[f EXCEPT ![last].next = o]
                        EXCEPT ![o].prev = last, ![o].next = first, ![first].prev = o]
           IN  AreOrders(g) /\ SameOrders(f, g)
<1> DEFINE f1 == [f EXCEPT ![last].next = o]
           f2 == [f1 EXCEPT ![o].prev = last]
           f3 == [f2 EXCEPT ![o].next = first]
           f4 == [f3 EXCEPT ![first].prev = o]
<1>1. AreOrders(f1) /\ SameOrders(f, f1)
  BY RelinkNext
<1>2. AreOrders(f2) /\ SameOrders(f1, f2)
  BY <1>1, RelinkPrev
<1>3. AreOrders(f3) /\ SameOrders(f2, f3)
  BY <1>2, RelinkNext
<1>4. AreOrders(f4) /\ SameOrders(f3, f4)
  BY <1>3, RelinkPrev
<1>5. f4 = [[f EXCEPT ![last].next = o]
               EXCEPT ![o].prev = last, ![o].next = first, ![first].prev = o]
  OBVIOUS
<1> HIDE DEF f1, f2, f3, f4
<1>6. SameOrders(f, f4)
  BY <1>1, <1>2, <1>3, <1>4, SameTransitive
<1>7. QED
  BY <1>4, <1>5, <1>6

LEMMA TakenOut ==
    ASSUME NEW f, AreOrders(f), NEW o, NEW x
    PROVE  LET g == [[[f EXCEPT ![x.prev].next = x.next]
                         EXCEPT ![x.next].prev = x.prev]
                         EXCEPT ![o].next = Null, ![o].prev = Null]
           IN  AreOrders(g) /\ SameOrders(f, g)
<1> DEFINE f1 == [f EXCEPT ![x.prev].next = x.next]
           f2 == [f1 EXCEPT ![x.next].prev = x.prev]
           f3 == [f2 EXCEPT ![o].next = Null]
           f4 == [f3 EXCEPT ![o].prev = Null]
<1>1. AreOrders(f1) /\ SameOrders(f, f1)
  BY RelinkNext
<1>2. AreOrders(f2) /\ SameOrders(f1, f2)
  BY <1>1, RelinkPrev
<1>3. AreOrders(f3) /\ SameOrders(f2, f3)
  BY <1>2, RelinkNext
<1>4. AreOrders(f4) /\ SameOrders(f3, f4)
  BY <1>3, RelinkPrev
<1>5. f4 = [[[f EXCEPT ![x.prev].next = x.next]
                EXCEPT ![x.next].prev = x.prev]
                EXCEPT ![o].next = Null, ![o].prev = Null]
  OBVIOUS
<1> HIDE DEF f1, f2, f3, f4
<1>6. SameOrders(f, f4)
  BY <1>1, <1>2, <1>3, <1>4, SameTransitive
<1>7. QED
  BY <1>4, <1>5, <1>6

LEMMA AddOrderEnters ==
    ASSUME NEW m, IsBook(m), AreOrders(m.order), m.status # "order_id", NEW o
    PROVE  Enters(m, AddOrder(m, o), [m.byId EXCEPT ![m.order[o].id] = o])
<1> DEFINE x == m.order[o]
           b == LevelAt(m, x.price)
           first == m.level[b].first
           last == m.order[first].prev
           names == [m.byId EXCEPT ![x.id] = o]
           known == [m EXCEPT !.byId[x.id] = o]
           alone == [known EXCEPT !.order[o].next = o, !.order[o].prev = o]
           content == [side |-> x.side, price |-> x.price, first |-> o,
                       next |-> Null, prev |-> Null]
           new == Allocate(alone, content)
           linked == [known EXCEPT
                         !.order = [[@ EXCEPT ![last].next = o]
                                       EXCEPT ![o].prev = last, ![o].next = first,
                                              ![first].prev = o]]
<1>1. AddOrder(m, o) =
        IF b = Null
        THEN IF new.status # "running" THEN new ELSE AddOrderAtPrice(new, m.cursor)
        ELSE IF last = Null THEN Ended(known, "null_pointer")
        ELSE linked
  BY DEF AddOrder
<1>2. known = [m EXCEPT !.byId = names]
  OBVIOUS
<1>3. /\ alone = [[known EXCEPT !.order = [known.order EXCEPT ![o].next = o]]
                      EXCEPT !.order = [@ EXCEPT ![o].prev = o]]
      /\ linked = [known EXCEPT
                      !.order = [[known.order EXCEPT ![last].next = o]
                                    EXCEPT ![o].prev = last, ![o].next = first,
                                           ![first].prev = o]]
  OBVIOUS
<1>n. names = [m.byId EXCEPT ![m.order[o].id] = o]
  OBVIOUS
<1> HIDE DEF x, b, first, last, names, known, alone, content, new, linked
<1>4. /\ IsBook(known) /\ known.order = m.order /\ known.byId = names
      /\ known.status # "order_id"
  BY <1>2, SetById
<1>5. Enters(m, alone, names)
  <2> DEFINE k1 == [known EXCEPT !.order = [known.order EXCEPT ![o].next = o]]
             k2 == [k1 EXCEPT !.order = [k1.order EXCEPT ![o].prev = o]]
  <2>1. alone = k2
    BY <1>3
  <2>2. /\ IsBook(k1) /\ k1.order = [known.order EXCEPT ![o].next = o]
        /\ k1.byId = names /\ k1.status # "order_id"
    BY <1>4, SetOrder
  <2>3. AreOrders(k1.order) /\ SameOrders(m.order, k1.order)
    BY <1>4, <2>2, RelinkNext
  <2> HIDE DEF k1
  <2>4. /\ IsBook(k2) /\ k2.order = [k1.order EXCEPT ![o].prev = o]
        /\ k2.byId = names /\ k2.status # "order_id"
    BY <2>2, SetOrder
  <2>5. AreOrders(k2.order) /\ SameOrders(k1.order, k2.order)
    BY <2>3, <2>4, RelinkPrev
  <2> HIDE DEF k2
  <2>6. SameOrders(m.order, k2.order)
    BY <2>3, <2>5, SameTransitive
  <2>7. QED
    BY <2>1, <2>4, <2>5, <2>6 DEF Enters
<1>6. LevelsOnly(alone, new)
  BY <1>5, AllocateLevels DEF Enters, new
<1>7. Enters(m, new, names)
  BY <1>5, <1>6, EntersThen
<1>8. Enters(m, AddOrderAtPrice(new, m.cursor), names)
  BY <1>7, AddOrderAtPriceLevels, EntersThen DEF Enters
<1>9. Enters(m, Ended(known, "null_pointer"), names)
  <2>1. LevelsOnly(known, Ended(known, "null_pointer"))
    BY <1>4, LevelsKept, SetStatus
  <2>2. SameOrders(m.order, m.order)
    BY DEF SameOrders, Alike
  <2>3. Enters(m, known, names)
    BY <1>4, <2>2 DEF Enters
  <2>4. QED
    BY <2>1, <2>3, EntersThen
<1>10. Enters(m, linked, names)
  <2> DEFINE g == [[known.order EXCEPT ![last].next = o]
                      EXCEPT ![o].prev = last, ![o].next = first, ![first].prev = o]
  <2>1. AreOrders(g) /\ SameOrders(m.order, g)
    BY <1>4, LinkedIn
  <2>2. linked = [known EXCEPT !.order = g]
    BY <1>3
  <2> HIDE DEF g
  <2>3. QED
    BY <1>4, <2>1, <2>2, SetOrder DEF Enters
<1>11. Enters(m, AddOrder(m, o), names)
  BY <1>1, <1>7, <1>8, <1>9, <1>10
<1>12. QED
  BY <1>11, <1>n

\* removeOrder() forgets the id of the order, if it comes to its end.
LEMMA RemoveOrderEnters ==
    ASSUME NEW m, IsBook(m), AreOrders(m.order), m.status # "order_id", NEW o
    PROVE  LET r == RemoveOrder(m, o)
           IN  /\ r.status # "order_id"
               /\ r.status = "running" =>
                     Enters(m, r, [m.byId EXCEPT ![m.order[o].id] = Null])
<1> DEFINE x == m.order[o]
           b == LevelAt(m, x.price)
           names == [m.byId EXCEPT ![x.id] = Null]
           forgot == [m EXCEPT !.byId[x.id] = Null]
           unlinked == [[[m.order EXCEPT ![x.prev].next = x.next]
                            EXCEPT ![x.next].prev = x.prev]
                            EXCEPT ![o].next = Null, ![o].prev = Null]
           left == [forgot EXCEPT !.order = unlinked,
                                  !.level[b].first = IF @ = o THEN x.next ELSE @]
<1>1. RemoveOrder(m, o) =
        IF x.prev = o THEN RemoveOrderAtPrice(forgot, x.side, x.price)
        ELSE IF Null \in {x.prev, x.next, b} THEN Ended(m, "null_pointer")
        ELSE left
  BY DEF RemoveOrder
<1>2. forgot = [m EXCEPT !.byId = names]
  BY Zenon
<1>3. AreOrders(unlinked) /\ SameOrders(m.order, unlinked)
  <2> DEFINE f == m.order
  <2> HIDE DEF x, f
  <2>1. AreOrders(f)
    BY DEF f
  <2>2. LET g == [[[f EXCEPT ![x.prev].next = x.next]
                      EXCEPT ![x.next].prev = x.prev]
                      EXCEPT ![o].next = Null, ![o].prev = Null]
        IN  AreOrders(g) /\ SameOrders(f, g)
    BY <2>1, TakenOut, Zenon
  <2>3. QED
    BY <2>2, Zenon DEF f
<1>4. \E v : left = [[forgot EXCEPT !.order = unlinked] EXCEPT !.level = v]
  OBVIOUS
<1>n. names = [m.byId EXCEPT ![m.order[o].id] = Null]
  OBVIOUS
<1> HIDE DEF x, b, names, forgot, unlinked, left
<1>5. /\ IsBook(forgot) /\ forgot.order = m.order /\ forgot.byId = names
      /\ forgot.status # "order_id"
  BY <1>2, SetById
<1>6. Enters(m, forgot, names)
  <2>1. SameOrders(m.order, m.order)
    BY DEF SameOrders, Alike
  <2>2. QED
    BY <1>5, <2>1 DEF Enters
<1>7. Enters(m, RemoveOrderAtPrice(forgot, x.side, x.price), names)
  BY <1>5, <1>6, RemoveOrderAtPriceLevels, EntersThen
<1>8. Enters(m, left, names)
  <2> DEFINE k == [forgot EXCEPT !.order = unlinked]
  <2>1. PICK v : left = [k EXCEPT !.level = v]
    BY <1>4
  <2>2. Enters(m, k, names)
    BY <1>3, <1>5, SetOrder DEF Enters
  <2> HIDE DEF k
  <2>3. LevelsOnly(k, left)
    <3>1. LevelsOnly(k, k)
      BY <2>2, LevelsKept DEF Enters
    <3>2. QED
      BY <2>1, <3>1, SetLevel
  <2>4. QED
    BY <2>2, <2>3, EntersThen
<1>9. /\ Ended(m, "null_pointer").status # "order_id"
      /\ Ended(m, "null_pointer").status # "running"
  BY DEF Ended, IsBook, Fields
<1>10. /\ RemoveOrder(m, o).status # "order_id"
       /\ RemoveOrder(m, o).status = "running" => Enters(m, RemoveOrder(m, o), names)
  <2>1. CASE x.prev = o
    BY <1>1, <1>7, <2>1 DEF Enters
  <2>2. CASE x.prev # o /\ Null \in {x.prev, x.next, b}
    BY <1>1, <1>9, <2>2
  <2>3. CASE x.prev # o /\ Null \notin {x.prev, x.next, b}
    BY <1>1, <1>8, <2>3 DEF Enters
  <2>4. QED
    BY <2>1, <2>2, <2>3
<1>11. QED
  BY <1>10, <1>n

-----------------------------------------------------------------------------
(* CLEAR. *)

\* Every set of numbers that is not empty has a least one: what stands for
\* induction in this module.
LEMMA Least ==
    ASSUME NEW T \in SUBSET Nat, T # {}
    PROVE  \E x \in T : \A y \in T : x <= y
<1>1. IsWellFoundedOn(OpToRel(<, Nat), Nat)
  BY NatLessThanWellFounded
<1>2. PICK x \in T : \A y \in T : ~(<<y, x>> \in OpToRel(<, Nat))
  BY <1>1, WFMin
<1>3. \A y \in T : ~(y < x)
  BY <1>2 DEF OpToRel
<1> QED
  BY <1>3

\* One turn of the loop gives back the level at block b, and all n turns.
Turn(before, b) ==
    IF before.status # "running" THEN before ELSE Deallocate(before, b)
Turns(f, m, w, n) ==
    f = [k \in 0 .. n |-> IF k = 0 THEN m ELSE Turn(f[k - 1], w[k])]

\* The loop has a result: the recursive function exists.
LEMMA TurnsExist ==
    ASSUME NEW m, NEW w, NEW n \in Nat
    PROVE  \E f : Turns(f, m, w, n)
<1> DEFINE T == {x \in Nat : ~\E f : Turns(f, m, w, x)}
<1>1. SUFFICES ASSUME T # {} PROVE FALSE
  OBVIOUS
<1>2. PICK x \in T : \A y \in T : x <= y
  BY <1>1, Least
<1>3. CASE x = 0
  <2> DEFINE g == [k \in 0 .. 0 |-> m]
  <2>1. g = [k \in 0 .. 0 |-> IF k = 0 THEN m ELSE Turn(g[k - 1], w[k])]
    OBVIOUS
  <2> QED
    BY <2>1, <1>3, <1>2 DEF Turns
<1>4. CASE x # 0
  <2>1. x - 1 \in Nat /\ x - 1 \notin T
    BY <1>2, <1>4
  <2>2. PICK f : Turns(f, m, w, x - 1)
    BY <2>1
  <2> DEFINE g == [k \in 0 .. x |-> IF k = x THEN Turn(f[x - 1], w[x]) ELSE f[k]]
  <2>3. ASSUME NEW k \in 0 .. x
        PROVE  g[k] = IF k = 0 THEN m ELSE Turn(g[k - 1], w[k])
    <3>1. CASE k = x
      <4>1. g[k - 1] = f[x - 1]
        BY <3>1, <1>4, <1>2
      <4> QED
        BY <4>1, <3>1, <1>4
    <3>2. CASE k # x
      <4>1. k \in 0 .. (x - 1)
        BY <3>2, <1>2
      <4>2. f[k] = IF k = 0 THEN m ELSE Turn(f[k - 1], w[k])
        BY <2>2, <4>1 DEF Turns
      <4>3. k # 0 => g[k - 1] = f[k - 1]
        BY <4>1, <1>2
      <4>4. g[k] = f[k]
        BY <3>2
      <4> HIDE DEF g
      <4> QED
        BY <4>2, <4>3, <4>4
    <3> QED
      BY <3>1, <3>2
  <2>4. DOMAIN g = 0 .. x /\ g = [k \in 0 .. x |-> g[k]]
    OBVIOUS
  <2> HIDE DEF g
  <2>5. Turns(g, m, w, x)
    BY <2>3, <2>4 DEF Turns
  <2> QED
    BY <2>5, <1>2
<1> QED
  BY <1>3, <1>4

LEMMA TurnsLevels ==
    ASSUME NEW m, IsBook(m), m.status # "order_id", NEW w, NEW n \in Nat,
           NEW f, Turns(f, m, w, n), NEW k \in 0 .. n
    PROVE  LevelsOnly(m, f[k])
<1> DEFINE T == {x \in 0 .. n : ~LevelsOnly(m, f[x])}
<1>1. SUFFICES ASSUME T # {} PROVE FALSE
  OBVIOUS
<1>2. T \in SUBSET Nat
  OBVIOUS
<1>3. PICK x \in T : \A y \in T : x <= y
  <2> HIDE DEF T
  <2> QED
    BY <1>1, <1>2, Least
<1>4. f[x] = IF x = 0 THEN m ELSE Turn(f[x - 1], w[x])
  BY <1>3 DEF Turns
<1>5. CASE x = 0
  BY <1>3, <1>4, <1>5, LevelsKept
<1>6. CASE x # 0
  <2>1. x - 1 \in 0 .. n /\ x - 1 \notin T
    BY <1>3, <1>6
  <2>2. LevelsOnly(m, f[x - 1])
    BY <2>1
  <2>3. LevelsOnly(f[x - 1], Turn(f[x - 1], w[x]))
    <3>1. /\ LevelsOnly(f[x - 1], f[x - 1])
          /\ LevelsOnly(f[x - 1], Deallocate(f[x - 1], w[x]))
      BY <2>2, DeallocateLevels, LevelsKept DEF LevelsOnly
    <3>2. QED
      BY <3>1 DEF Turn
  <2>4. LevelsOnly(m, f[x])
    BY <1>4, <1>6, <2>2, <2>3, LevelsThen
  <2> QED
    BY <1>3, <2>4
<1> QED
  BY <1>5, <1>6

LEMMA FreeSideLevels ==
    ASSUME NEW m, IsBook(m), m.status # "order_id", NEW s
    PROVE  LevelsOnly(m, FreeSide(m, s))
<1> DEFINE head == m.best[s]
           w == Walk(LevelNext(m), head, MaxLevels)
           met == {k \in 1 .. MaxLevels : w[k] = head}
           n == IF met = {} THEN MaxLevels ELSE Min(met)
           f == CHOOSE f : Turns(f, m, w, n)
<1>1. FreeSide(m, s) = IF head = Null \/ m.status # "running" THEN m ELSE f[n]
  BY DEF FreeSide, Turns, Turn
<1>2. n \in Nat
  <2>1. MaxLevels \in Nat
    BY MarketOrderBookAssumption
  <2>2. met \in SUBSET Nat
    OBVIOUS
  <2> HIDE DEF met
  <2>3. CASE met # {}
    <3>1. PICK x \in met : \A y \in met : x <= y
      BY <2>2, <2>3, Least
    <3>2. Min(met) \in met
      BY <3>1 DEF Min
    <3> QED
      BY <2>2, <2>3, <3>2
  <2> QED
    BY <2>1, <2>3
<1> HIDE DEF head, w, met, n
<1>3. PICK g : Turns(g, m, w, n)
  BY <1>2, TurnsExist
<1>4. Turns(f, m, w, n)
  BY <1>3
<1> HIDE DEF f
<1>5. n \in 0 .. n
  BY <1>2
<1>6. LevelsOnly(m, f[n])
  BY <1>2, <1>4, <1>5, TurnsLevels
<1>7. LevelsOnly(m, m)
  BY LevelsKept
<1> QED
  BY <1>1, <1>6, <1>7

\* CLEAR forgets every order, if it comes to its end.
LEMMA ClearEnters ==
    ASSUME NEW m, IsBook(m), AreOrders(m.order), m.status # "order_id"
    PROVE  LET r == Clear(m)
           IN  /\ r.status # "order_id"
               /\ r.status = "running" => Enters(m, r, [i \in Ids |-> Null])
<1> DEFINE one == FreeSide(m, "BUY")
           freed == FreeSide(one, "SELL")
           names == [i \in Ids |-> Null]
           forgot == [freed EXCEPT !.byId = names]
           bare == [forgot EXCEPT !.best = [s \in Sides |-> Null]]
<1>1. Clear(m) = IF freed.status # "running" THEN freed ELSE bare
  BY DEF Clear
<1>2. LevelsOnly(m, one)
  BY FreeSideLevels
<1> HIDE DEF one
<1>3. LevelsOnly(m, freed)
  BY <1>2, FreeSideLevels, LevelsThen DEF LevelsOnly
<1> HIDE DEF freed
<1>4. /\ IsBook(forgot) /\ forgot.order = m.order /\ forgot.byId = names
      /\ forgot.status # "order_id"
  BY <1>3, SetById DEF LevelsOnly
<1> HIDE DEF forgot
<1>5. SameOrders(m.order, m.order)
  BY DEF SameOrders, Alike
<1>6. Enters(m, forgot, names)
  BY <1>4, <1>5 DEF Enters
<1>7. LevelsOnly(forgot, bare)
  BY <1>4, LevelsKept, SetBest
<1> HIDE DEF bare
<1>8. Enters(m, bare, names)
  BY <1>6, <1>7, EntersThen
<1>9. QED
  BY <1>1, <1>3, <1>8 DEF LevelsOnly, Enters

-----------------------------------------------------------------------------
(* onMarketUpdate. *)

\* Memory r after m: the orders of m are still there, oid_to_order and the book
\* differ at id only, where r has what is in book2.
OnlyIdChanged(m, known, book, r, known2, book2, id) ==
    /\ \A k \in DOMAIN m.order : k \in DOMAIN r.order /\ Alike(m.order[k], r.order[k])
    /\ \A i \in Ids \ {id} :
          /\ r.byId[i] = m.byId[i]
          /\ i \in known2 <=> i \in known
          /\ i \in known => book2[i] = book[i]
    /\ id \in known2 =>
          /\ r.byId[id] \in DOMAIN r.order
          /\ r.order[r.byId[id]].id = id
          /\ book2[id] = [side |-> r.order[r.byId[id]].side,
                          price |-> r.order[r.byId[id]].price,
                          quantity |-> r.order[r.byId[id]].quantity]
    /\ id \notin known2 => r.byId[id] = Null

LEMMA NamesAfter ==
    ASSUME NEW m, NEW r, NEW known, NEW book, NEW known2, NEW book2, NEW id,
           Names(m, known, book), OnlyIdChanged(m, known, book, r, known2, book2, id)
    PROVE  Names(r, known2, book2)
<1> SUFFICES ASSUME NEW i \in Ids
             PROVE  IF i \in known2
                    THEN /\ r.byId[i] \in DOMAIN r.order
                         /\ r.order[r.byId[i]].id = i
                         /\ book2[i] = [side |-> r.order[r.byId[i]].side,
                                        price |-> r.order[r.byId[i]].price,
                                        quantity |-> r.order[r.byId[i]].quantity]
                    ELSE r.byId[i] = Null
  BY DEF Names
<1>1. CASE i = id
  BY <1>1 DEF OnlyIdChanged
<1>2. CASE i # id /\ i \in known2
  <2>1. i \in known /\ r.byId[i] = m.byId[i] /\ book2[i] = book[i]
    BY <1>2 DEF OnlyIdChanged
  <2>2. /\ m.byId[i] \in DOMAIN m.order /\ m.order[m.byId[i]].id = i
        /\ book[i] = [side |-> m.order[m.byId[i]].side,
                      price |-> m.order[m.byId[i]].price,
                      quantity |-> m.order[m.byId[i]].quantity]
    BY <2>1 DEF Names
  <2>3. r.byId[i] \in DOMAIN r.order /\ Alike(m.order[m.byId[i]], r.order[r.byId[i]])
    BY <2>1, <2>2 DEF OnlyIdChanged
  <2>4. QED
    BY <1>2, <2>1, <2>2, <2>3 DEF Alike
<1>3. CASE i # id /\ i \notin known2
  BY <1>3 DEF Names, OnlyIdChanged
<1>4. QED
  BY <1>1, <1>2, <1>3

LEMMA AppendOrders ==
    ASSUME NEW f, AreOrders(f), NEW x, IsOrder(x)
    PROVE  LET g == Append(f, x)
           IN  /\ AreOrders(g)
               /\ Len(f) + 1 \in DOMAIN g /\ g[Len(f) + 1] = x
               /\ \A k \in DOMAIN f : k \in DOMAIN g /\ g[k] = f[k]
<1>1. PICK n \in Nat : DOMAIN f = 1 .. n
  BY DEF AreOrders
<1> DEFINE S == {f[k] : k \in 1 .. n} \cup {x}
           g == Append(f, x)
<1>2. f \in [1 .. n -> S]
  <2>1. f = [k \in 1 .. n |-> f[k]]
    BY <1>1 DEF AreOrders
  <2>2. \A k \in 1 .. n : f[k] \in S
    OBVIOUS
  <2> HIDE DEF S
  <2>3. QED
    BY <2>1, <2>2
<1>3. \A y \in S : IsOrder(y)
  BY <1>1 DEF AreOrders
<1>4. x \in S
  OBVIOUS
<1> HIDE DEF S
<1>5. f \in Seq(S) /\ Len(f) = n
  BY <1>2
<1>6. /\ g \in Seq(S) /\ Len(g) = n + 1 /\ g[n + 1] = x
      /\ \A k \in 1 .. n : g[k] = f[k]
  BY <1>4, <1>5
<1> HIDE DEF g
<1>7. DOMAIN g = 1 .. n + 1 /\ g = [k \in DOMAIN g |-> g[k]]
      /\ \A k \in DOMAIN g : g[k] \in S
  BY <1>6
<1>8. AreOrders(g)
  BY <1>3, <1>7 DEF AreOrders
<1>9. Len(f) + 1 \in DOMAIN g /\ g[Len(f) + 1] = x
  BY <1>5, <1>6, <1>7
<1>10. \A k \in DOMAIN f : k \in DOMAIN g /\ g[k] = f[k]
  BY <1>1, <1>6, <1>7
<1>11. QED
  BY <1>8, <1>9, <1>10 DEF g

LEMMA AppliedAdd ==
    ASSUME NEW m, NEW known, NEW book, Memory(m, known, book), m.status # "order_id",
           NEW id \in Ids, id \notin known, NEW side, NEW price, NEW quantity,
           NEW book2, \A i \in known : book2[i] = book[i],
           book2[id] = [side |-> side, price |-> price, quantity |-> quantity]
    PROVE  LET r == Applied(m, Update("ADD", id, side, price, quantity))
           IN  r.status # "order_id" /\ Memory(r, known \cup {id}, book2)
<1> DEFINE u == Update("ADD", id, side, price, quantity)
           x == [id |-> id, side |-> side, price |-> price, quantity |-> quantity,
                 next |-> Null, prev |-> Null]
           m1 == [m EXCEPT !.order = Append(m.order, x)]
           o == Len(m.order) + 1
           r == AddOrder(m1, o)
<1>1. IsBook(m) /\ AreOrders(m.order) /\ m.byId = [i \in Ids |-> m.byId[i]]
      /\ Names(m, known, book)
  BY DEF Memory
<1>2. m.byId[id] = Null
  BY <1>1 DEF Names
<1>3. Applied(m, u) = r
  <2>1. u.type = "ADD" /\ u.id = id
    BY DEF Update
  <2>2. Applied(m, u) =
          AddOrder([m EXCEPT !.order = Append(@,
                        [id |-> u.id, side |-> u.side, price |-> u.price,
                         quantity |-> u.quantity, next |-> Null, prev |-> Null])],
                     Len(m.order) + 1)
    <3> HIDE DEF u
    <3>1. QED
      BY <1>2, <2>1 DEF Applied
  <2>3. QED
    BY <2>2 DEF Update
<1>4. IsOrder(x) /\ x.id = id /\ x.side = side /\ x.price = price
      /\ x.quantity = quantity
  BY DEF IsOrder
<1> HIDE DEF x
<1>5. /\ IsBook(m1) /\ m1.order = Append(m.order, x) /\ m1.byId = m.byId
      /\ m1.status # "order_id"
  BY <1>1, SetOrder
<1>6. /\ AreOrders(m1.order) /\ o \in DOMAIN m1.order /\ m1.order[o] = x
      /\ \A k \in DOMAIN m.order : k \in DOMAIN m1.order /\ m1.order[k] = m.order[k]
  BY <1>1, <1>4, <1>5, AppendOrders
<1> HIDE DEF m1, o
<1>7. Enters(m1, r, [m.byId EXCEPT ![id] = o])
  BY <1>4, <1>5, <1>6, AddOrderEnters
<1> HIDE DEF r
<1>8. /\ IsBook(r) /\ AreOrders(r.order) /\ SameOrders(m1.order, r.order)
      /\ r.byId = [m.byId EXCEPT ![id] = o] /\ r.status # "order_id"
  BY <1>7 DEF Enters
<1>9. /\ r.byId = [i \in Ids |-> r.byId[i]] /\ r.byId[id] = o
      /\ \A i \in Ids \ {id} : r.byId[i] = m.byId[i]
  BY <1>1, <1>8
<1>10. Names(r, known \cup {id}, book2)
  <2>1. \A k \in DOMAIN m.order : k \in DOMAIN r.order /\ Alike(m.order[k], r.order[k])
    BY <1>6, <1>8 DEF SameOrders
  <2>2. \A i \in Ids \ {id} :
           /\ r.byId[i] = m.byId[i]
           /\ i \in known \cup {id} <=> i \in known
           /\ i \in known => book2[i] = book[i]
    BY <1>9
  <2>3. r.byId[id] \in DOMAIN r.order /\ Alike(x, r.order[r.byId[id]])
    BY <1>6, <1>8, <1>9 DEF SameOrders
  <2>4. /\ r.order[r.byId[id]].id = id
        /\ book2[id] = [side |-> r.order[r.byId[id]].side,
                        price |-> r.order[r.byId[id]].price,
                        quantity |-> r.order[r.byId[id]].quantity]
    BY <1>4, <2>3 DEF Alike
  <2>5. id \in known \cup {id}
    OBVIOUS
  <2>6. OnlyIdChanged(m, known, book, r, known \cup {id}, book2, id)
    BY <2>1, <2>2, <2>3, <2>4, <2>5 DEF OnlyIdChanged
  <2>7. QED
    BY <1>1, <2>6, NamesAfter
<1>11. QED
  BY <1>3, <1>8, <1>9, <1>10 DEF Memory

LEMMA AppliedModify ==
    ASSUME NEW m, NEW known, NEW book, Memory(m, known, book), m.status # "order_id",
           NEW id \in Ids, id \in known, NEW side, NEW price, NEW quantity,
           NEW book2, \A i \in known \ {id} : book2[i] = book[i],
           book2[id] = [side |-> book[id].side, price |-> book[id].price,
                        quantity |-> quantity]
    PROVE  LET r == Applied(m, Update("MODIFY", id, side, price, quantity))
           IN  r.status # "order_id" /\ Memory(r, known, book2)
<1> DEFINE u == Update("MODIFY", id, side, price, quantity)
           a == m.byId[id]
           x == [m.order[a] EXCEPT !.quantity = quantity]
           g == [m.order EXCEPT ![a] = x]
           r == [m EXCEPT !.order = g]
<1>1. IsBook(m) /\ AreOrders(m.order) /\ m.byId = [i \in Ids |-> m.byId[i]]
      /\ Names(m, known, book)
  BY DEF Memory
<1>2. /\ a \in DOMAIN m.order /\ m.order[a].id = id
      /\ book[id] = [side |-> m.order[a].side, price |-> m.order[a].price,
                     quantity |-> m.order[a].quantity]
  BY <1>1 DEF Names
<1>3. a # Null
  BY <1>1, <1>2, MarketOrderBookAssumption DEF AreOrders
<1>4. Applied(m, u) = r
  <2>1. u.type = "MODIFY" /\ u.id = id /\ u.quantity = quantity
    BY DEF Update
  <2> HIDE DEF u
  <2>2. Applied(m, u) = [m EXCEPT !.order[m.byId[u.id]].quantity = u.quantity]
    BY <1>3, <2>1 DEF Applied
  <2>3. QED
    BY <2>1, <2>2
<1>5. IsOrder(x) /\ x.quantity = quantity /\ x.id = id
      /\ x.side = m.order[a].side /\ x.price = m.order[a].price
  <2>1. IsOrder(m.order[a])
    BY <1>1, <1>2 DEF AreOrders
  <2> DEFINE y == m.order[a]
  <2>2. m.order[a] = y /\ IsOrder(y)
    BY <2>1
  <2> HIDE DEF y
  <2>3. LET z == [y EXCEPT !.quantity = quantity]
        IN  /\ IsOrder(z) /\ z.quantity = quantity
            /\ z.id = y.id /\ z.side = y.side /\ z.price = y.price
    BY <2>2, SetQuantity
  <2>4. QED
    BY <1>2, <2>2, <2>3
<1> HIDE DEF x
<1>6. /\ DOMAIN g = DOMAIN m.order /\ g = [k \in DOMAIN g |-> g[k]] /\ g[a] = x
      /\ \A k \in DOMAIN m.order : k # a => g[k] = m.order[k]
  BY <1>2
<1> HIDE DEF g
<1>7. AreOrders(g)
  BY <1>1, <1>5, <1>6 DEF AreOrders
<1>8. IsBook(r) /\ r.order = g /\ r.byId = m.byId /\ r.status # "order_id"
  BY <1>1, SetOrder
<1> HIDE DEF r
<1>9. Names(r, known, book2)
  <2> SUFFICES ASSUME NEW i \in Ids
               PROVE  IF i \in known
                      THEN /\ r.byId[i] \in DOMAIN r.order
                           /\ r.order[r.byId[i]].id = i
                           /\ book2[i] = [side |-> r.order[r.byId[i]].side,
                                          price |-> r.order[r.byId[i]].price,
                                          quantity |-> r.order[r.byId[i]].quantity]
                      ELSE r.byId[i] = Null
    BY DEF Names
  <2>1. CASE i \notin known
    BY <1>1, <1>8, <2>1 DEF Names
  <2>2. CASE i = id
    BY <1>2, <1>5, <1>6, <1>8, <2>2
  <2>3. CASE i \in known /\ i # id
    <3>1. /\ m.byId[i] \in DOMAIN m.order /\ m.order[m.byId[i]].id = i
          /\ book[i] = [side |-> m.order[m.byId[i]].side,
                        price |-> m.order[m.byId[i]].price,
                        quantity |-> m.order[m.byId[i]].quantity]
      BY <1>1, <2>3 DEF Names
    <3>2. m.byId[i] # a
      BY <1>2, <2>3, <3>1
    <3>3. r.order[r.byId[i]] = m.order[m.byId[i]] /\ r.byId[i] \in DOMAIN r.order
      BY <1>6, <1>8, <3>1, <3>2
    <3>4. book2[i] = book[i]
      BY <2>3
    <3>5. QED
      BY <2>3, <3>1, <3>3, <3>4
  <2>4. QED
    BY <2>1, <2>2, <2>3
<1>10. QED
  BY <1>1, <1>4, <1>7, <1>8, <1>9 DEF Memory

LEMMA AppliedCancel ==
    ASSUME NEW m, NEW known, NEW book, Memory(m, known, book), m.status # "order_id",
           NEW id \in Ids, id \in known, NEW side, NEW price,
           NEW book2, \A i \in known \ {id} : book2[i] = book[i]
    PROVE  LET r == Applied(m, Update("CANCEL", id, side, price, 0))
           IN  /\ r.status # "order_id"
               /\ r.status = "running" => Memory(r, known \ {id}, book2)
<1> DEFINE u == Update("CANCEL", id, side, price, 0)
           a == m.byId[id]
           r == RemoveOrder(m, a)
<1>1. IsBook(m) /\ AreOrders(m.order) /\ m.byId = [i \in Ids |-> m.byId[i]]
      /\ Names(m, known, book)
  BY DEF Memory
<1>2. a \in DOMAIN m.order /\ m.order[a].id = id
  BY <1>1 DEF Names
<1>3. a # Null
  BY <1>1, <1>2, MarketOrderBookAssumption DEF AreOrders
<1>4. Applied(m, u) = r
  <2>1. u.type = "CANCEL" /\ u.id = id
    BY DEF Update
  <2> HIDE DEF u
  <2>2. Applied(m, u) = RemoveOrder(m, m.byId[u.id])
    BY <1>3, <2>1 DEF Applied
  <2>3. QED
    BY <2>1, <2>2
<1>5. /\ r.status # "order_id"
      /\ r.status = "running" => Enters(m, r, [m.byId EXCEPT ![id] = Null])
  BY <1>1, <1>2, RemoveOrderEnters
<1> HIDE DEF r
<1>6. ASSUME r.status = "running"
      PROVE  Memory(r, known \ {id}, book2)
  <2>1. /\ IsBook(r) /\ AreOrders(r.order) /\ SameOrders(m.order, r.order)
        /\ r.byId = [m.byId EXCEPT ![id] = Null]
    BY <1>5, <1>6 DEF Enters
  <2>2. /\ r.byId = [i \in Ids |-> r.byId[i]] /\ r.byId[id] = Null
        /\ \A i \in Ids \ {id} : r.byId[i] = m.byId[i]
    BY <1>1, <2>1
  <2>3. \A k \in DOMAIN m.order : k \in DOMAIN r.order /\ Alike(m.order[k], r.order[k])
    BY <2>1 DEF SameOrders
  <2>4. \A i \in Ids \ {id} :
           /\ r.byId[i] = m.byId[i]
           /\ i \in known \ {id} <=> i \in known
           /\ i \in known => book2[i] = book[i]
    BY <2>2
  <2>5. id \notin known \ {id}
    OBVIOUS
  <2>6. Names(r, known \ {id}, book2)
    <3>1. OnlyIdChanged(m, known, book, r, known \ {id}, book2, id)
      BY <2>2, <2>3, <2>4, <2>5 DEF OnlyIdChanged
    <3>2. QED
      BY <1>1, <3>1, NamesAfter
  <2>7. QED
    BY <2>1, <2>2, <2>6 DEF Memory
<1>7. QED
  BY <1>4, <1>5, <1>6

LEMMA AppliedClear ==
    ASSUME NEW m, NEW known, NEW book, Memory(m, known, book), m.status # "order_id",
           NEW book2
    PROVE  LET r == Applied(m, Update("CLEAR", Null, Null, Null, Null))
           IN  /\ r.status # "order_id"
               /\ r.status = "running" => Memory(r, {}, book2)
<1> DEFINE u == Update("CLEAR", Null, Null, Null, Null)
           r == Clear(m)
<1>1. IsBook(m) /\ AreOrders(m.order)
  BY DEF Memory
<1>2. Applied(m, u) = r
  <2>1. u.type = "CLEAR"
    BY DEF Update
  <2> HIDE DEF u
  <2>2. QED
    BY <2>1 DEF Applied
<1>3. /\ r.status # "order_id"
      /\ r.status = "running" => Enters(m, r, [i \in Ids |-> Null])
  BY <1>1, ClearEnters
<1> HIDE DEF r
<1>4. ASSUME r.status = "running"
      PROVE  Memory(r, {}, book2)
  <2>1. IsBook(r) /\ AreOrders(r.order) /\ r.byId = [i \in Ids |-> Null]
    BY <1>3, <1>4 DEF Enters
  <2>2. r.byId = [i \in Ids |-> r.byId[i]] /\ \A i \in Ids : r.byId[i] = Null
    BY <2>1
  <2>3. Names(r, {}, book2)
    BY <2>2 DEF Names
  <2>4. QED
    BY <2>1, <2>2, <2>3 DEF Memory
<1>5. QED
  BY <1>2, <1>3, <1>4

\* Whatever the handler makes of the best bid and offer, the book is the one
\* after the update, unless the process has ended.
LEMMA OnMarketUpdateApplies ==
    ASSUME NEW u, OnMarketUpdate(u), Applied(mob, u).status # "order_id",
           Applied(mob, u).status = "running" => IsBook(Applied(mob, u))
    PROVE  /\ mob.status = "running"
           /\ mob'.status # "order_id"
           /\ mob'.status = "running" =>
                 mob' = Applied(mob, u) /\ Applied(mob, u).status = "running"
<1> DEFINE done == Applied(mob, u)
<1>1. /\ mob.status = "running"
      /\ \/ mob' = done
         \/ done.status = "running" /\ mob' = Ended(done, "endless")
  BY DEF OnMarketUpdate
<1> HIDE DEF done
<1>2. done.status = "running" => Ended(done, "endless").status = "endless"
  <2>1. SUFFICES ASSUME IsBook(done) PROVE Ended(done, "endless").status = "endless"
    BY DEF done
  <2>2. QED
    BY <2>1 DEF Ended, IsBook, Fields
<1>3. mob'.status # "order_id"
  BY <1>1, <1>2 DEF done
<1>4. mob'.status = "running" => mob' = done
  BY <1>1, <1>2
<1>5. QED
  BY <1>1, <1>3, <1>4 DEF done

-----------------------------------------------------------------------------
(* The order in which a snapshot lists its orders. *)

Increasing(f) == \A i, j \in DOMAIN f : i < j => f[i] < f[j]

\* A finite set of numbers can be put in order.
LEMMA IncreasingExists ==
    ASSUME NEW S \in SUBSET Nat, IsFiniteSet(S)
    PROVE  \E f \in [1 .. Cardinality(S) -> S] : Increasing(f)
<1> DEFINE P(n) == \A U \in SUBSET Nat :
                      IsFiniteSet(U) /\ Cardinality(U) = n
                          => \E f \in [1 .. n -> U] : Increasing(f)
           T == {n \in Nat : ~P(n)}
<1>1. SUFFICES ASSUME T # {} PROVE FALSE
  <2>1. Cardinality(S) \in Nat
    BY FS_CardinalityType
  <2> QED
    BY <2>1
<1>a. T \in SUBSET Nat
  OBVIOUS
<1>2. PICK x \in T : \A y \in T : x <= y
  <2> HIDE DEF T
  <2> QED
    BY <1>1, <1>a, Least
<1>3. PICK U \in SUBSET Nat :
         /\ IsFiniteSet(U) /\ Cardinality(U) = x
         /\ ~\E f \in [1 .. x -> U] : Increasing(f)
  BY <1>2
<1>4. CASE x = 0
  <2>1. <<>> \in [1 .. x -> U]
    BY <1>4
  <2>2. Increasing(<<>>)
    BY DEF Increasing
  <2> QED
    BY <2>1, <2>2, <1>3
<1>5. CASE x # 0
  <2>1. U # {}
    BY <1>3, <1>5, FS_EmptySet
  <2>2. PICK m \in U : \A y \in U : m <= y
    BY <2>1, Least
  <2>3. IsFiniteSet(U \ {m}) /\ Cardinality(U \ {m}) = x - 1
    BY <1>3, FS_RemoveElement
  <2>4. x - 1 \in Nat /\ x - 1 \notin T
    BY <1>2, <1>5
  <2>5. P(x - 1)
    BY <2>4
  <2>6. PICK f \in [1 .. x - 1 -> U \ {m}] : Increasing(f)
    BY <2>3, <2>5
  <2> DEFINE g == [i \in 1 .. x |-> IF i = 1 THEN m ELSE f[i - 1]]
  <2>7. ASSUME NEW i \in 1 .. x, i # 1
        PROVE  i - 1 \in 1 .. x - 1 /\ g[i] = f[i - 1] /\ f[i - 1] \in U \ {m}
    BY <2>6, <2>7, <1>2
  <2>8. g \in [1 .. x -> U]
    BY <2>7
  <2>9. ASSUME NEW i \in 1 .. x, NEW j \in 1 .. x, i < j PROVE g[i] < g[j]
    <3>1. j # 1 /\ g[j] = f[j - 1] /\ f[j - 1] \in U \ {m} /\ j - 1 \in 1 .. x - 1
      BY <2>7, <2>9
    <3>2. CASE i = 1
      <4>1. g[i] = m
        BY <3>2
      <4>2. m \in Nat /\ f[j - 1] \in Nat /\ m <= f[j - 1] /\ f[j - 1] # m
        BY <3>1, <2>2
      <4> HIDE DEF g
      <4> QED
        BY <3>1, <4>1, <4>2
    <3>3. CASE i # 1
      <4>1. i - 1 \in 1 .. x - 1 /\ g[i] = f[i - 1] /\ i - 1 < j - 1
        BY <3>3, <2>7, <2>9
      <4>2. f[i - 1] < f[j - 1]
        BY <4>1, <3>1, <2>6 DEF Increasing
      <4> QED
        BY <4>1, <4>2, <3>1
    <3> QED
      BY <3>2, <3>3
  <2>10. DOMAIN g = 1 .. x
    OBVIOUS
  <2> HIDE DEF g
  <2>11. Increasing(g)
    BY <2>9, <2>10 DEF Increasing
  <2> QED
    BY <2>8, <2>11, <1>3
<1> QED
  BY <1>4, <1>5

\* A snapshot lists every order once.
LEMMA InOrderLists ==
    ASSUME NEW S \in SUBSET Ids
    PROVE  /\ InOrder(S) \in Seq(S)
           /\ ToSet(InOrder(S)) = S
           /\ \A i, j \in 1 .. Len(InOrder(S)) :
                 InOrder(S)[i] = InOrder(S)[j] => i = j
           /\ \A i, j \in 1 .. Len(InOrder(S)) : i < j => InOrder(S)[i] < InOrder(S)[j]
<1> DEFINE N == Cardinality(S)
           f == CHOOSE f \in [1 .. N -> S] : \A i, j \in DOMAIN f : i < j => f[i] < f[j]
<1>1. S \in SUBSET Nat /\ IsFiniteSet(S)
  <2>1. MaxOrderId \in Nat
    BY MarketOrderBookAssumption
  <2>2. IsFiniteSet(1 .. MaxOrderId)
    BY <2>1, FS_Interval
  <2>3. S \in SUBSET (1 .. MaxOrderId)
    BY DEF Ids
  <2>4. IsFiniteSet(S)
    BY <2>2, <2>3, FS_Subset
  <2>5. QED
    BY <2>1, <2>3, <2>4
<1>2. N \in Nat
  BY <1>1, FS_CardinalityType
<1>3. \E g \in [1 .. N -> S] : Increasing(g)
  BY <1>1, IncreasingExists
<1>4. f \in [1 .. N -> S] /\ Increasing(f)
  BY <1>3 DEF Increasing
<1>5. InOrder(S) = f
  BY DEF InOrder
<1> HIDE DEF N, f
<1>6. ASSUME NEW i \in 1 .. N, NEW j \in 1 .. N, f[i] = f[j]
      PROVE  i = j
  <2>1. f[i] \in Nat /\ f[j] \in Nat /\ DOMAIN f = 1 .. N
    BY <1>1, <1>4
  <2>2. (i < j => f[i] < f[j]) /\ (j < i => f[j] < f[i])
    BY <1>4, <2>1 DEF Increasing
  <2>3. QED
    BY <1>2, <1>6, <2>1, <2>2
<1>7. f \in Injection(1 .. N, S)
  BY <1>4, <1>6 DEF Injection, IsInjective
<1>8. f \in Surjection(1 .. N, S)
  <2>1. Cardinality(1 .. N) = N /\ IsFiniteSet(1 .. N)
    BY <1>2, FS_Interval
  <2> QED
    BY <2>1, <1>1, <1>7, FS_Injection DEF N
<1>9. ToSet(f) = S
  BY <1>4, <1>8 DEF ToSet, Surjection
<1>10. f \in Seq(S) /\ Len(f) = N
  BY <1>2, <1>4
<1>11. \A i, j \in 1 .. N : i < j => f[i] < f[j]
  BY <1>4 DEF Increasing
<1>12. QED
  BY <1>5, <1>6, <1>9, <1>10, <1>11

-----------------------------------------------------------------------------
(* The steps. *)

\* The step applies update u to a running book.
Applies(u) ==
    /\ OnMarketUpdate(u) /\ mob.status = "running"
    /\ Memory(mob, Known, feed) /\ FeedInv /\ SnapshotInv
    /\ Applied(mob, u).status = "running" => Memory(Applied(mob, u), Known', feed')

FeedEntry == [side : Sides, price : Prices, quantity : Nat \ {0}]

LEMMA Entries ==
    /\ NotResting \notin FeedEntry /\ NotResting.quantity = 0
    /\ \A e \in FeedEntry :
          /\ e.quantity \in Nat \ {0}
          /\ e = [side |-> e.side, price |-> e.price, quantity |-> e.quantity]
BY DEF FeedEntry, NotResting

LEMMA FeedFacts ==
    ASSUME FeedInv
    PROVE  /\ feed \in [Ids -> FeedEntry \cup {NotResting}]
           /\ \A i \in Ids : i \in Resting <=> feed[i] \in FeedEntry
           /\ Resting \subseteq Ids
<1>1. feed \in [Ids -> FeedEntry \cup {NotResting}]
  BY DEF FeedInv, FeedEntry
<1>2. QED
  BY <1>1, Entries DEF Resting

LEMMA InitKnown == Init => KnownInv
<1> SUFFICES ASSUME Init PROVE KnownInv
  OBVIOUS
<1>1. mob = Empty /\ feed = [i \in Ids |-> NotResting] /\ nextId = 1 /\ toCome = <<>>
  BY DEF Init
<1>2. /\ IsBook(mob) /\ mob.order = <<>> /\ mob.byId = [i \in Ids |-> Null]
      /\ mob.status = "running"
  <2>1. mob.order = <<>> /\ mob.byId = [i \in Ids |-> Null] /\ mob.status = "running"
    BY <1>1 DEF Empty
  <2>2. IsBook(mob)
    BY <1>1 DEF Empty, IsBook, Fields
  <2>3. QED
    BY <2>1, <2>2
<1>3. AreOrders(mob.order)
  <2>1. DOMAIN <<>> = 1 .. 0 /\ 0 \in Nat /\ <<>> = [k \in DOMAIN <<>> |-> <<>>[k]]
    OBVIOUS
  <2>2. 1 .. 0 = {}
    OBVIOUS
  <2>3. QED
    BY <1>2, <2>1, <2>2 DEF AreOrders
<1>4. Resting = {} /\ Known = {}
  BY <1>1 DEF Resting, Known
<1>5. Names(mob, Known, feed)
  BY <1>2, <1>4 DEF Names
<1>6. mob.byId = [i \in Ids |-> mob.byId[i]]
  BY <1>2
<1>7. FeedInv
  BY <1>1 DEF FeedInv
<1>8. SnapshotInv
  <2>1. toCome \in Seq(Ids) /\ 1 .. Len(toCome) = {}
    BY <1>1
  <2>2. QED
    BY <2>1 DEF SnapshotInv
<1>9. QED
  BY <1>2, <1>3, <1>5, <1>6, <1>7, <1>8 DEF KnownInv, Memory

LEMMA NoneToCome ==
    ASSUME toCome = <<>>
    PROVE  Known = Resting
BY DEF Known, ToSet

LEMMA AddKeeps ==
    ASSUME KnownInv, NEW s \in Sides, NEW p \in Prices, NEW q \in Quantities, Add(s, p, q)
    PROVE  /\ KnownInv'
           /\ nextId \in Ids \ Known /\ Known' = Known \cup {nextId}
           /\ Applies(Update("ADD", nextId, s, p, q))
<1> DEFINE u == Update("ADD", nextId, s, p, q)
           entry == [side |-> s, price |-> p, quantity |-> q]
<1>1. /\ toCome = <<>> /\ nextId <= MaxOrderId /\ OnMarketUpdate(u)
      /\ feed' = [feed EXCEPT ![nextId] = entry]
      /\ nextId' = nextId + 1 /\ toCome' = toCome
  BY DEF Add
<1>2. mob.status = "running"
  BY <1>1 DEF OnMarketUpdate
<1>3. Memory(mob, Known, feed) /\ FeedInv /\ SnapshotInv /\ mob.status # "order_id"
  BY <1>2 DEF KnownInv, Running
<1>4. nextId \in Ids /\ nextId \in Nat \ {0} /\ feed[nextId] = NotResting
  BY <1>1, <1>3, MarketOrderBookAssumption DEF FeedInv, Ids
<1>5. Known = Resting /\ nextId \notin Known
  BY <1>1, <1>4, NoneToCome DEF Resting
<1>6. entry \in FeedEntry
  BY MarketOrderBookAssumption DEF FeedEntry
<1> HIDE DEF entry
<1>7. /\ feed \in [Ids -> FeedEntry \cup {NotResting}]
      /\ \A i \in Ids : i \in Resting <=> feed[i] \in FeedEntry
      /\ Resting \subseteq Ids
  BY <1>3, FeedFacts
<1>8. /\ feed' \in [Ids -> FeedEntry \cup {NotResting}] /\ feed'[nextId] = entry
      /\ \A i \in Ids \ {nextId} : feed'[i] = feed[i]
  BY <1>1, <1>4, <1>6, <1>7
<1>9. FeedInv'
  <2>1. \A i \in Ids : i >= nextId + 1 => i >= nextId /\ i # nextId
    BY <1>4 DEF Ids
  <2>2. \A i \in Ids : i >= nextId' => feed'[i] = NotResting
    BY <1>1, <1>3, <1>8, <2>1 DEF FeedInv
  <2>3. nextId' \in Nat \ {0}
    BY <1>1, <1>4
  <2>4. QED
    BY <1>8, <2>2, <2>3 DEF FeedInv, FeedEntry, NotResting, Ids
<1>10. Known' = Known \cup {nextId}
  <2>1. Resting' = Resting \cup {nextId}
    BY <1>4, <1>6, <1>8, Entries DEF Resting, Ids, NotResting
  <2>2. Known' = Resting'
    BY <1>1 DEF Known, ToSet
  <2>3. QED
    BY <1>5, <2>1, <2>2
<1>11. /\ Applied(mob, u).status # "order_id"
       /\ Memory(Applied(mob, u), Known \cup {nextId}, feed')
  <2>1. \A i \in Known : feed'[i] = feed[i]
    BY <1>5, <1>7, <1>8
  <2>2. feed'[nextId] = [side |-> s, price |-> p, quantity |-> q]
    BY <1>8 DEF entry
  <2>3. QED
    BY <1>3, <1>4, <1>5, <2>1, <2>2, AppliedAdd
<1>12. SnapshotInv'
  <2>1. toCome' = <<>>
    BY <1>1
  <2>2. toCome' \in Seq(Ids) /\ 1 .. Len(toCome') = {}
    BY <2>1
  <2>3. QED
    BY <2>2 DEF SnapshotInv, Ids
<1>13. /\ mob'.status # "order_id"
       /\ mob'.status = "running" => mob' = Applied(mob, u)
  BY <1>1, <1>11, OnMarketUpdateApplies DEF Memory
<1>14. mob'.status = "running" => Memory(mob', Known', feed')
  BY <1>10, <1>11, <1>13
<1>15. KnownInv'
  BY <1>9, <1>12, <1>13, <1>14 DEF KnownInv, Running, Memory, Names, Ids
<1>16. QED
  BY <1>1, <1>2, <1>3, <1>4, <1>5, <1>10, <1>11, <1>15 DEF Applies


LEMMA ModifyKeeps ==
    ASSUME KnownInv, NEW id \in Ids, NEW q \in Quantities, Modify(id, q)
    PROVE  /\ KnownInv' /\ id \in Known /\ Known' = Known
           /\ Applies(Update("MODIFY", id, feed[id].side, feed[id].price, q))
<1> DEFINE u == Update("MODIFY", id, feed[id].side, feed[id].price, q)
<1>1. /\ toCome = <<>> /\ q < feed[id].quantity /\ OnMarketUpdate(u)
      /\ feed' = [feed EXCEPT ![id].quantity = q]
      /\ nextId' = nextId /\ toCome' = toCome
  BY DEF Modify
<1>2. mob.status = "running"
  BY <1>1 DEF OnMarketUpdate
<1>3. Memory(mob, Known, feed) /\ FeedInv /\ SnapshotInv /\ mob.status # "order_id"
  BY <1>2 DEF KnownInv, Running
<1>4. /\ feed \in [Ids -> FeedEntry \cup {NotResting}]
      /\ \A i \in Ids : i \in Resting <=> feed[i] \in FeedEntry
      /\ Resting \subseteq Ids
  BY <1>3, FeedFacts
<1>5. q \in Nat \ {0}
  BY MarketOrderBookAssumption
<1>6. feed[id] \in FeedEntry
  <2>1. feed[id] # NotResting
    BY <1>1, <1>5, Entries
  <2>2. QED
    BY <1>4, <2>1
<1>7. Known = Resting /\ id \in Known
  BY <1>1, <1>4, <1>6, NoneToCome
<1> DEFINE entry == [side |-> feed[id].side, price |-> feed[id].price, quantity |-> q]
<1>8. [feed[id] EXCEPT !.quantity = q] = entry /\ entry \in FeedEntry
  BY <1>5, <1>6 DEF FeedEntry
<1>9. feed' = [feed EXCEPT ![id] = entry]
  BY <1>1, <1>8
<1> HIDE DEF entry
<1>10. /\ feed' \in [Ids -> FeedEntry \cup {NotResting}] /\ feed'[id] = entry
       /\ \A i \in Ids \ {id} : feed'[i] = feed[i]
  BY <1>4, <1>8, <1>9
<1>11. FeedInv'
  <2>1. ~(id >= nextId)
    BY <1>3, <1>6, Entries DEF FeedInv
  <2>2. \A i \in Ids : i >= nextId' => feed'[i] = NotResting
    BY <1>1, <1>3, <1>10, <2>1 DEF FeedInv
  <2>3. nextId' \in Nat \ {0}
    BY <1>1, <1>3 DEF FeedInv
  <2>4. QED
    BY <1>10, <2>2, <2>3 DEF FeedInv, FeedEntry, NotResting, Ids
<1>12. Known' = Known
  <2>1. Resting' = Resting
    BY <1>4, <1>6, <1>8, <1>10, Entries DEF Resting, Ids, NotResting
  <2>2. Known' = Resting'
    BY <1>1 DEF Known, ToSet
  <2>3. QED
    BY <1>7, <2>1, <2>2
<1>13. /\ Applied(mob, u).status # "order_id"
       /\ Memory(Applied(mob, u), Known, feed')
  <2>1. \A i \in Known \ {id} : feed'[i] = feed[i]
    BY <1>4, <1>7, <1>10
  <2>2. feed'[id] = [side |-> feed[id].side, price |-> feed[id].price, quantity |-> q]
    BY <1>10 DEF entry
  <2>3. QED
    BY <1>3, <1>7, <2>1, <2>2, AppliedModify
<1>14. SnapshotInv'
  <2>1. toCome' = <<>>
    BY <1>1
  <2>2. toCome' \in Seq(Ids) /\ 1 .. Len(toCome') = {}
    BY <2>1
  <2>3. QED
    BY <2>2 DEF SnapshotInv, Ids
<1>15. /\ mob'.status # "order_id"
       /\ mob'.status = "running" => mob' = Applied(mob, u)
  BY <1>1, <1>13, OnMarketUpdateApplies DEF Memory
<1>16. mob'.status = "running" => Memory(mob', Known', feed')
  BY <1>12, <1>13, <1>15
<1>17. KnownInv'
  BY <1>11, <1>14, <1>15, <1>16 DEF KnownInv, Running, Memory, Names, Ids
<1>18. QED
  BY <1>1, <1>2, <1>3, <1>7, <1>12, <1>13, <1>17 DEF Applies

LEMMA CancelKeeps ==
    ASSUME KnownInv, NEW id \in Ids, Cancel(id)
    PROVE  /\ KnownInv' /\ id \in Known /\ Known' = Known \ {id}
           /\ Applies(Update("CANCEL", id, feed[id].side, feed[id].price, 0))
<1> DEFINE u == Update("CANCEL", id, feed[id].side, feed[id].price, 0)
<1>1. /\ toCome = <<>> /\ id \in Resting /\ OnMarketUpdate(u)
      /\ feed' = [feed EXCEPT ![id] = NotResting]
      /\ nextId' = nextId /\ toCome' = toCome
  BY DEF Cancel
<1>2. mob.status = "running"
  BY <1>1 DEF OnMarketUpdate
<1>3. Memory(mob, Known, feed) /\ FeedInv /\ SnapshotInv /\ mob.status # "order_id"
  BY <1>2 DEF KnownInv, Running
<1>4. /\ feed \in [Ids -> FeedEntry \cup {NotResting}]
      /\ \A i \in Ids : i \in Resting <=> feed[i] \in FeedEntry
      /\ Resting \subseteq Ids
  BY <1>3, FeedFacts
<1>5. Known = Resting /\ id \in Known
  BY <1>1, NoneToCome
<1>6. /\ feed' \in [Ids -> FeedEntry \cup {NotResting}] /\ feed'[id] = NotResting
      /\ \A i \in Ids \ {id} : feed'[i] = feed[i]
  BY <1>1, <1>4
<1>7. FeedInv'
  <2>1. \A i \in Ids : i >= nextId' => feed'[i] = NotResting
    BY <1>1, <1>3, <1>6 DEF FeedInv
  <2>2. nextId' \in Nat \ {0}
    BY <1>1, <1>3 DEF FeedInv
  <2>3. QED
    BY <1>6, <2>1, <2>2 DEF FeedInv, FeedEntry, NotResting, Ids
<1>8. Known' = Known \ {id}
  <2>1. Resting' = Resting \ {id}
    BY <1>6 DEF Resting, Ids, NotResting
  <2>2. Known' = Resting'
    BY <1>1 DEF Known, ToSet
  <2>3. QED
    BY <1>5, <2>1, <2>2
<1>9. /\ Applied(mob, u).status # "order_id"
      /\ Applied(mob, u).status = "running" => Memory(Applied(mob, u), Known \ {id}, feed')
  <2>1. \A i \in Known \ {id} : feed'[i] = feed[i]
    BY <1>4, <1>5, <1>6
  <2>2. QED
    BY <1>3, <1>5, <2>1, AppliedCancel
<1>10. SnapshotInv'
  <2>1. toCome' = <<>>
    BY <1>1
  <2>2. toCome' \in Seq(Ids) /\ 1 .. Len(toCome') = {}
    BY <2>1
  <2>3. QED
    BY <2>2 DEF SnapshotInv, Ids
<1>11. /\ mob'.status # "order_id"
       /\ mob'.status = "running" =>
             mob' = Applied(mob, u) /\ Applied(mob, u).status = "running"
  BY <1>1, <1>9, OnMarketUpdateApplies DEF Memory
<1>12. mob'.status = "running" => Memory(mob', Known', feed')
  BY <1>8, <1>9, <1>11
<1>13. KnownInv'
  BY <1>7, <1>10, <1>11, <1>12 DEF KnownInv, Running, Memory, Names, Ids
<1>14. QED
  BY <1>1, <1>2, <1>3, <1>5, <1>8, <1>9, <1>13 DEF Applies

LEMMA ResyncKeeps ==
    ASSUME KnownInv, NEW kept \in SUBSET Resting, Resync(kept)
    PROVE  /\ KnownInv' /\ kept \in SUBSET Ids /\ Known' = {}
           /\ Applies(Update("CLEAR", Null, Null, Null, Null))
<1> DEFINE u == Update("CLEAR", Null, Null, Null, Null)
<1>1. /\ toCome = <<>> /\ OnMarketUpdate(u)
      /\ feed' = [i \in Ids |-> IF i \in kept THEN feed[i] ELSE NotResting]
      /\ nextId' = nextId /\ toCome' = InOrder(kept)
  BY DEF Resync
<1>2. mob.status = "running"
  BY <1>1 DEF OnMarketUpdate
<1>3. Memory(mob, Known, feed) /\ FeedInv /\ SnapshotInv /\ mob.status # "order_id"
  BY <1>2 DEF KnownInv, Running
<1>4. /\ feed \in [Ids -> FeedEntry \cup {NotResting}]
      /\ \A i \in Ids : i \in Resting <=> feed[i] \in FeedEntry
      /\ Resting \subseteq Ids
  BY <1>3, FeedFacts
<1>5. kept \in SUBSET Ids
  BY <1>4
<1>6. feed' \in [Ids -> FeedEntry \cup {NotResting}]
  BY <1>1, <1>4
<1>7. Resting' = kept
  <2>1. \A i \in Ids : feed'[i] # NotResting <=> i \in kept
    BY <1>1, <1>4, Entries
  <2>2. QED
    BY <1>5, <2>1 DEF Resting, Ids, NotResting
<1>8. FeedInv'
  <2>1. \A i \in Ids : i >= nextId' => feed'[i] = NotResting
    BY <1>1, <1>3 DEF FeedInv
  <2>2. nextId' \in Nat \ {0}
    BY <1>1, <1>3 DEF FeedInv
  <2>3. QED
    BY <1>6, <2>1, <2>2 DEF FeedInv, FeedEntry, NotResting, Ids
<1>9. /\ toCome' \in Seq(kept) /\ ToSet(toCome') = kept
      /\ \A i, j \in 1 .. Len(toCome') : toCome'[i] = toCome'[j] => i = j
  BY <1>1, <1>5, InOrderLists
<1>10. Known' = {}
  BY <1>7, <1>9 DEF Known, ToSet
<1>11. SnapshotInv'
  <2>1. toCome' \in Seq(Ids) /\ \A k \in 1 .. Len(toCome') : toCome'[k] \in kept
    BY <1>5, <1>9
  <2>2. \A k \in 1 .. Len(toCome') : toCome'[k] \in Resting'
    BY <1>7, <2>1
  <2>3. QED
    BY <1>9, <2>1, <2>2 DEF SnapshotInv, Ids
<1>12. /\ Applied(mob, u).status # "order_id"
       /\ Applied(mob, u).status = "running" => Memory(Applied(mob, u), {}, feed')
  BY <1>3, AppliedClear
<1>13. /\ mob'.status # "order_id"
       /\ mob'.status = "running" =>
             mob' = Applied(mob, u) /\ Applied(mob, u).status = "running"
  BY <1>1, <1>12, OnMarketUpdateApplies DEF Memory
<1>14. mob'.status = "running" => Memory(mob', Known', feed')
  BY <1>10, <1>12, <1>13
<1>15. KnownInv'
  BY <1>8, <1>11, <1>13, <1>14 DEF KnownInv, Running, Memory, Names, Ids
<1>16. QED
  BY <1>1, <1>2, <1>3, <1>5, <1>10, <1>12, <1>15 DEF Applies

LEMMA SnapshotOrderKeeps ==
    ASSUME KnownInv, SnapshotOrder
    PROVE  LET id == Head(toCome)
           IN  /\ KnownInv'
               /\ id \in Ids \ Known /\ feed[id] \in FeedEntry
               /\ Known' = Known \cup {id}
               /\ Applies(Update("ADD", id, feed[id].side, feed[id].price,
                                 feed[id].quantity))
<1> DEFINE id == Head(toCome)
           u == Update("ADD", id, feed[id].side, feed[id].price, feed[id].quantity)
<1>1. /\ toCome # <<>> /\ OnMarketUpdate(u) /\ toCome' = Tail(toCome)
      /\ feed' = feed /\ nextId' = nextId
  BY DEF SnapshotOrder
<1>2. mob.status = "running"
  BY <1>1 DEF OnMarketUpdate
<1>3. Memory(mob, Known, feed) /\ FeedInv /\ SnapshotInv /\ mob.status # "order_id"
  BY <1>2 DEF KnownInv, Running
<1>4. /\ feed \in [Ids -> FeedEntry \cup {NotResting}]
      /\ \A i \in Ids : i \in Resting <=> feed[i] \in FeedEntry
      /\ Resting \subseteq Ids
  BY <1>3, FeedFacts
<1>5. /\ toCome \in Seq(Ids) /\ Len(toCome) \in Nat /\ Len(toCome) >= 1
      /\ id = toCome[1] /\ toCome' \in Seq(Ids) /\ Len(toCome') = Len(toCome) - 1
      /\ \A k \in 1 .. Len(toCome) - 1 :
            k + 1 \in 1 .. Len(toCome) /\ toCome'[k] = toCome[k + 1]
  BY <1>1, <1>3 DEF SnapshotInv
<1> HIDE DEF id
<1>6. id \in Resting /\ id \in Ids /\ feed[id] \in FeedEntry
  BY <1>3, <1>4, <1>5 DEF SnapshotInv
<1>7. ToSet(toCome) = ToSet(toCome') \cup {id} /\ id \notin ToSet(toCome')
  <2>1. /\ DOMAIN toCome = 1 .. Len(toCome)
        /\ DOMAIN toCome' = 1 .. Len(toCome) - 1
    BY <1>5
  <2>2. \A x \in ToSet(toCome) : x = id \/ x \in ToSet(toCome')
    <3> SUFFICES ASSUME NEW k \in 1 .. Len(toCome), k # 1
                 PROVE  toCome[k] \in ToSet(toCome')
      BY <1>5, <2>1 DEF ToSet
    <3>1. k - 1 \in 1 .. Len(toCome) - 1 /\ (k - 1) + 1 = k
      BY <1>5
    <3>2. toCome'[k - 1] = toCome[k]
      BY <1>5, <3>1
    <3>3. QED
      BY <2>1, <3>1, <3>2 DEF ToSet
  <2>3. \A x \in ToSet(toCome') : x \in ToSet(toCome) /\ x # id
    <3> SUFFICES ASSUME NEW k \in 1 .. Len(toCome) - 1
                 PROVE  toCome'[k] \in ToSet(toCome) /\ toCome'[k] # id
      BY <2>1 DEF ToSet
    <3>1. k + 1 \in 1 .. Len(toCome) /\ k + 1 # 1 /\ 1 \in 1 .. Len(toCome)
      BY <1>5
    <3>2. toCome'[k] = toCome[k + 1]
      BY <1>5
    <3>3. QED
      BY <1>3, <1>5, <2>1, <3>1, <3>2 DEF ToSet, SnapshotInv
  <2>4. id \in ToSet(toCome)
    BY <1>5, <2>1 DEF ToSet
  <2>5. QED
    BY <2>2, <2>3, <2>4
<1>8. Known' = Known \cup {id} /\ id \notin Known
  <2>1. Resting' = Resting
    BY <1>1 DEF Resting, Ids, NotResting
  <2>2. Known = Resting \ ToSet(toCome) /\ Known' = Resting' \ ToSet(toCome')
    BY DEF Known, ToSet
  <2>3. QED
    BY <1>6, <1>7, <2>1, <2>2
<1>9. FeedInv'
  BY <1>1, <1>3 DEF FeedInv, NotResting, Ids
<1>10. SnapshotInv'
  <2>1. ASSUME NEW j \in 1 .. Len(toCome'), NEW k \in 1 .. Len(toCome'),
               toCome'[j] = toCome'[k]
        PROVE  j = k
    <3>1. j + 1 \in 1 .. Len(toCome) /\ k + 1 \in 1 .. Len(toCome)
          /\ toCome'[j] = toCome[j + 1] /\ toCome'[k] = toCome[k + 1]
      BY <1>5
    <3>2. j + 1 = k + 1
      BY <1>3, <2>1, <3>1 DEF SnapshotInv
    <3>3. QED
      BY <1>5, <3>2
  <2>2. \A k \in 1 .. Len(toCome') : toCome'[k] \in Resting
    BY <1>3, <1>5 DEF SnapshotInv
  <2>3. Resting' = Resting
    BY <1>1 DEF Resting, Ids, NotResting
  <2>4. QED
    BY <1>5, <2>1, <2>2, <2>3 DEF SnapshotInv, Ids
<1>11. /\ Applied(mob, u).status # "order_id"
       /\ Memory(Applied(mob, u), Known \cup {id}, feed)
  <2>1. feed[id] = [side |-> feed[id].side, price |-> feed[id].price,
                    quantity |-> feed[id].quantity]
    BY <1>6, Entries
  <2>2. QED
    BY <1>3, <1>6, <1>8, <2>1, AppliedAdd
<1>12. /\ mob'.status # "order_id"
       /\ mob'.status = "running" => mob' = Applied(mob, u)
  BY <1>1, <1>11, OnMarketUpdateApplies DEF Memory
<1>13. mob'.status = "running" => Memory(mob', Known', feed')
  BY <1>1, <1>8, <1>11, <1>12
<1>14. KnownInv'
  BY <1>9, <1>10, <1>12, <1>13 DEF KnownInv, Running, Memory, Names, Ids
<1>15. Applies(u)
  <2>1. feed' = feed
    BY <1>1
  <2> HIDE DEF u
  <2>2. QED
    BY <1>1, <1>2, <1>3, <1>8, <1>11, <2>1 DEF Applies
<1>16. QED
  BY <1>6, <1>8, <1>14, <1>15 DEF id

LEMMA KnownStep == KnownInv /\ [Next]_vars => KnownInv'
<1> SUFFICES ASSUME KnownInv, [Next]_vars PROVE KnownInv'
  OBVIOUS
<1>1. ASSUME NEW s \in Sides, NEW p \in Prices, NEW q \in Quantities, Add(s, p, q)
      PROVE  KnownInv'
  BY <1>1, AddKeeps
<1>2. ASSUME NEW i \in Ids, NEW q \in Quantities, Modify(i, q)
      PROVE  KnownInv'
  BY <1>2, ModifyKeeps
<1>3. ASSUME NEW i \in Ids, Cancel(i) PROVE KnownInv'
  BY <1>3, CancelKeeps
<1>4. ASSUME NEW kept \in SUBSET Resting, Resync(kept) PROVE KnownInv'
  BY <1>4, ResyncKeeps
<1>5. CASE SnapshotOrder
  BY <1>5, SnapshotOrderKeeps
<1>6. CASE Destroy
  <2>1. mob.status = "running" /\ IsBook(mob)
    BY <1>6 DEF Destroy, KnownInv, Running, Memory
  <2>2. \E how \in {"destroyed", "validity_check"} : mob' = Ended(mob, how)
    BY <1>6 DEF Destroy
  <2>3. mob'.status \in {"destroyed", "validity_check"}
    BY <2>1, <2>2 DEF Ended, IsBook, Fields
  <2>4. QED
    BY <2>3 DEF KnownInv, Running
<1>7. CASE UNCHANGED vars
  <2>1. mob' = mob /\ feed' = feed /\ nextId' = nextId /\ toCome' = toCome
    BY <1>7 DEF vars, feedVars
  <2>2. Resting' = Resting
    BY <2>1 DEF Resting, Ids, NotResting
  <2>3. Known' = Known
    BY <2>1, <2>2 DEF Known, ToSet
  <2>4. FeedInv => FeedInv'
    BY <2>1 DEF FeedInv, NotResting, Ids
  <2>5. SnapshotInv => SnapshotInv'
    BY <2>1, <2>2 DEF SnapshotInv, Ids
  <2>6. Memory(mob, Known, feed) => Memory(mob', Known', feed')
    BY <2>1, <2>3
  <2>7. QED
    BY <2>1, <2>4, <2>5, <2>6 DEF KnownInv, Running, Memory, Names, Ids
<1>8. QED
  BY <1>1, <1>2, <1>3, <1>4, <1>5, <1>6, <1>7 DEF Next

-----------------------------------------------------------------------------
(* The theorem. *)

\* onMarketUpdate() never meets an id it should not know, or misses one it
\* should: oid_to_order names the orders that rest and that the client was told
\* of, with their side, price and quantity, whatever levels CLEAR has left behind
\* and whichever prices share a slot.
THEOREM BookKnowsIds == Spec => []KnownById
<1>1. KnownInv => KnownById
  <2> SUFFICES ASSUME KnownInv PROVE KnownById
    OBVIOUS
  <2>1. mob.status # "order_id"
    BY DEF KnownInv
  <2>2. ASSUME Running, NEW i \in Ids
        PROVE  IF i \in Known
               THEN /\ mob.byId[i] # Null
                    /\ feed[i] = [side |-> mob.order[mob.byId[i]].side,
                                  price |-> mob.order[mob.byId[i]].price,
                                  quantity |-> mob.order[mob.byId[i]].quantity]
               ELSE mob.byId[i] = Null
    <3>1. Names(mob, Known, feed) /\ AreOrders(mob.order)
      BY <2>2 DEF KnownInv, Memory
    <3>2. Null \notin DOMAIN mob.order
      BY <3>1, MarketOrderBookAssumption DEF AreOrders
    <3>3. QED
      BY <3>1, <3>2 DEF Names
  <2>3. QED
    BY <2>1, <2>2 DEF KnownById
<1>2. QED
  BY <1>1, InitKnown, KnownStep, PTL DEF Spec

-----------------------------------------------------------------------------
(* Rings, apart from the book.  A ring of levels and a ring of orders are the *)
(* same thing: nodes with a key, next leads to the node with the next higher  *)
(* key, and from the highest back to the lowest, the head.                    *)

\* What next says of node p.
Follows(key, N, head, next, p) ==
    \/ /\ key[p] < key[next[p]]
       /\ \A q \in N : key[p] < key[q] => key[next[p]] <= key[q]
    \/ next[p] = head /\ \A q \in N : key[q] <= key[p]

BackAndForth(N, next, prev, p) ==
    next[p] \in N /\ prev[p] \in N /\ next[prev[p]] = p /\ prev[next[p]] = p

IsHead(key, N, head) ==
    IF N = {} THEN head = Null
    ELSE head \in N /\ \A q \in N : key[head] <= key[q]

\* Different nodes have different keys.
Keys(key, N) ==
    /\ \A p \in N : key[p] \in Int
    /\ \A p, q \in N : key[p] = key[q] => p = q

IsRing(key, N, head, next, prev) ==
    /\ IsHead(key, N, head)
    /\ Keys(key, N)
    /\ \A p \in N : BackAndForth(N, next, prev, p) /\ Follows(key, N, head, next, p)

\* f lists the nodes of N by their keys.
Lists(key, N, f) ==
    /\ f \in [1 .. Cardinality(N) -> N]
    /\ \A i, j \in 1 .. Cardinality(N) : i < j => key[f[i]] < key[f[j]]

\* A ring depends on the keys and pointers of its nodes only.
LEMMA RingFrame ==
    ASSUME NEW key, NEW N, NEW head, NEW nx, NEW pv, IsRing(key, N, head, nx, pv),
           NEW key2, NEW nx2, NEW pv2,
           \A p \in N : key2[p] = key[p] /\ nx2[p] = nx[p] /\ pv2[p] = pv[p]
    PROVE  IsRing(key2, N, head, nx2, pv2)
<1>1. \A p \in N : nx[p] \in N /\ pv[p] \in N
  BY DEF IsRing, BackAndForth
<1>2. IsHead(key2, N, head) /\ Keys(key2, N)
  BY DEF IsRing, IsHead, Keys
<1>3. ASSUME NEW p \in N PROVE BackAndForth(N, nx2, pv2, p)
  BY <1>1 DEF IsRing, BackAndForth
<1>4. ASSUME NEW p \in N PROVE Follows(key2, N, head, nx2, p)
  <2>1. Follows(key, N, head, nx, p) /\ nx2[p] = nx[p] /\ nx[p] \in N
    BY <1>1 DEF IsRing
  <2>2. key2[p] = key[p] /\ key2[nx[p]] = key[nx[p]]
    BY <2>1
  <2>3. QED
    BY <2>1, <2>2 DEF Follows
<1>5. QED
  BY <1>2, <1>3, <1>4 DEF IsRing

LEMMA RingAlone ==
    ASSUME NEW key, NEW n, key[n] \in Int, NEW nx, NEW pv, nx[n] = n, pv[n] = n
    PROVE  IsRing(key, {n}, n, nx, pv)
BY DEF IsRing, IsHead, Keys, BackAndForth, Follows

LEMMA RingEmpty ==
    ASSUME NEW key, NEW nx, NEW pv
    PROVE  IsRing(key, {}, Null, nx, pv)
BY DEF IsRing, IsHead, Keys

\* Node n belongs in front of c, behind a: at the end, in front of the head,
\* or between two neighbours; b is the head before, b2 after.
FitsIn(key, N, b, b2, n, a, c) ==
    \/ c = b /\ b2 = b /\ \A q \in N : key[q] < key[n]
    \/ c = b /\ b2 = n /\ \A q \in N : key[n] < key[q]
    \/ c # b /\ b2 = b /\ key[n] < key[c] /\ key[a] < key[n]

\* nx2 and pv2 are nx and pv with n linked in front of c.
LinkedAt(N, nx, pv, n, c, nx2, pv2) ==
    /\ nx2[n] = c /\ nx2[pv[c]] = n
    /\ \A p \in N : p # pv[c] => nx2[p] = nx[p]
    /\ pv2[n] = pv[c] /\ pv2[c] = n
    /\ \A p \in N : p # c => pv2[p] = pv[p]

LEMMA RingInsert ==
    ASSUME NEW key, NEW N, NEW b, NEW nx, NEW pv, IsRing(key, N, b, nx, pv),
           NEW n, n \notin N, key[n] \in Int, NEW c \in N, NEW b2,
           NEW nx2, NEW pv2, LinkedAt(N, nx, pv, n, c, nx2, pv2),
           FitsIn(key, N, b, b2, n, pv[c], c)
    PROVE  IsRing(key, N \cup {n}, b2, nx2, pv2)
<1> DEFINE a == pv[c]
           M == N \cup {n}
<1>1. /\ b \in N /\ \A q \in N : key[b] <= key[q]
      /\ \A p \in N : key[p] \in Int
      /\ \A p, q \in N : key[p] = key[q] => p = q
      /\ \A p \in N : /\ nx[p] \in N /\ pv[p] \in N
                      /\ nx[pv[p]] = p /\ pv[nx[p]] = p
  BY DEF IsRing, IsHead, Keys, BackAndForth
<1>2. \A p \in N :
         \/ /\ key[p] < key[nx[p]]
            /\ \A q \in N : key[p] < key[q] => key[nx[p]] <= key[q]
         \/ nx[p] = b /\ \A q \in N : key[q] <= key[p]
  BY DEF IsRing, Follows
<1>3. a \in N /\ nx[a] = c
  BY <1>1
<1>4. /\ nx2[n] = c /\ nx2[a] = n /\ pv2[n] = a /\ pv2[c] = n
      /\ \A p \in N : p # a => nx2[p] = nx[p]
      /\ \A p \in N : p # c => pv2[p] = pv[p]
  BY DEF LinkedAt
<1>5. \/ c = b /\ b2 = b /\ \A q \in N : key[q] < key[n]
      \/ c = b /\ b2 = n /\ \A q \in N : key[n] < key[q]
      \/ c # b /\ b2 = b /\ key[n] < key[c] /\ key[a] < key[n]
  BY DEF FitsIn
<1>6. c = b => \A q \in N : key[q] <= key[a]
  BY <1>1, <1>2, <1>3
<1>7. c # b => \A q \in N : key[q] <= key[a] \/ key[c] <= key[q]
  BY <1>1, <1>2, <1>3
<1>8. \A q \in N : key[q] # key[n]
  BY <1>1, <1>3, <1>5, <1>7
<1> HIDE DEF a, M
<1>9. Keys(key, M)
  BY <1>1, <1>8 DEF Keys, M
<1>10. IsHead(key, M, b2)
  BY <1>1, <1>3, <1>5 DEF IsHead, M
<1>11. ASSUME NEW p \in M PROVE BackAndForth(M, nx2, pv2, p)
  BY <1>1, <1>3, <1>4 DEF BackAndForth, M
<1>12. Follows(key, M, b2, nx2, n)
  BY <1>1, <1>3, <1>4, <1>5, <1>7 DEF Follows, M
<1>13. Follows(key, M, b2, nx2, a)
  BY <1>1, <1>3, <1>4, <1>5, <1>6, <1>7 DEF Follows, M
<1>14. ASSUME NEW p \in N, p # a PROVE Follows(key, M, b2, nx2, p)
  <2>1. nx2[p] = nx[p] /\ nx[p] # c /\ nx[p] \in N
    BY <1>1, <1>4, <1>14 DEF a
  <2>2. \/ /\ key[p] < key[nx[p]]
           /\ \A q \in N : key[p] < key[q] => key[nx[p]] <= key[q]
        \/ nx[p] = b /\ \A q \in N : key[q] <= key[p]
    BY <1>2
  <2>3. CASE nx[p] = b /\ \A q \in N : key[q] <= key[p]
    <3>1. c # b /\ b2 = b /\ key[n] < key[c] /\ key[c] <= key[p]
      BY <1>5, <2>1, <2>3
    <3>2. key[n] <= key[p]
      BY <1>1, <3>1
    <3>3. QED
      BY <2>1, <2>3, <3>1, <3>2 DEF Follows, M
  <2>4. CASE /\ key[p] < key[nx[p]]
             /\ \A q \in N : key[p] < key[q] => key[nx[p]] <= key[q]
    <3>1. key[p] < key[n] => key[nx[p]] <= key[n]
      <4>1. CASE c = b
        BY <1>1, <1>5, <2>1, <2>4, <4>1
      <4>2. CASE c # b
        <5>1. key[n] < key[c] /\ key[a] < key[n]
          BY <1>5, <4>2
        <5>2. SUFFICES ASSUME key[p] < key[n] PROVE key[nx[p]] <= key[n]
          OBVIOUS
        <5>3. key[p] <= key[a] /\ key[p] # key[a]
          BY <1>1, <1>3, <1>7, <1>14, <4>2, <5>1, <5>2
        <5>4. key[nx[p]] <= key[a]
          BY <1>1, <1>3, <2>4, <5>3
        <5>5. QED
          BY <1>1, <1>3, <2>1, <5>1, <5>4
      <4>3. QED
        BY <4>1, <4>2
    <3>2. QED
      BY <2>1, <2>4, <3>1 DEF Follows, M
  <2>5. QED
    BY <2>2, <2>3, <2>4
<1>15. QED
  BY <1>9, <1>10, <1>11, <1>12, <1>13, <1>14 DEF IsRing, M

\* In nx2 and pv2 the neighbours of d lead past it.
LeadPast(N, d, nx, pv, nx2, pv2) ==
    /\ nx2[pv[d]] = nx[d] /\ \A p \in N \ {d} : p # pv[d] => nx2[p] = nx[p]
    /\ pv2[nx[d]] = pv[d] /\ \A p \in N \ {d} : p # nx[d] => pv2[p] = pv[p]

\* Unlinking one of several nodes leaves a ring of the others.
LEMMA RingRemove ==
    ASSUME NEW key, NEW N, NEW b, NEW nx, NEW pv, IsRing(key, N, b, nx, pv),
           NEW d \in N, nx[d] # d, NEW nx2, NEW pv2, LeadPast(N, d, nx, pv, nx2, pv2),
           NEW b2, b2 = IF b = d THEN nx[d] ELSE b
    PROVE  IsRing(key, N \ {d}, b2, nx2, pv2)
<1> SUFFICES ASSUME nx2[pv[d]] = nx[d], \A p \in N \ {d} : p # pv[d] => nx2[p] = nx[p],
                    pv2[nx[d]] = pv[d], \A p \in N \ {d} : p # nx[d] => pv2[p] = pv[p]
             PROVE  IsRing(key, N \ {d}, b2, nx2, pv2)
  BY DEF LeadPast
<1> DEFINE M == N \ {d}
           a == pv[d]
           c == nx[d]
<1>1. /\ b \in N /\ \A q \in N : key[b] <= key[q]
      /\ \A p \in N : key[p] \in Int
      /\ \A p, q \in N : key[p] = key[q] => p = q
      /\ \A p \in N : /\ nx[p] \in N /\ pv[p] \in N
                      /\ nx[pv[p]] = p /\ pv[nx[p]] = p
  BY DEF IsRing, IsHead, Keys, BackAndForth
<1>2. \A p \in N :
         \/ /\ key[p] < key[nx[p]]
            /\ \A q \in N : key[p] < key[q] => key[nx[p]] <= key[q]
         \/ nx[p] = b /\ \A q \in N : key[q] <= key[p]
  BY DEF IsRing, Follows
<1>3. a \in M /\ c \in M /\ nx[a] = d /\ pv[c] = d
  BY <1>1
<1>4. /\ nx2[a] = c /\ pv2[c] = a
      /\ \A p \in M : p # a => nx2[p] = nx[p]
      /\ \A p \in M : p # c => pv2[p] = pv[p]
  BY <1>3
<1> HIDE DEF a, c
<1>5. Keys(key, M)
  BY <1>1 DEF Keys
<1>6. IsHead(key, M, b2)
  <2>1. CASE b = d
    <3>1. /\ key[d] < key[c] /\ \A q \in N : key[d] < key[q] => key[c] <= key[q]
      BY <1>1, <1>2, <1>3, <2>1 DEF c
    <3>2. ASSUME NEW q \in M PROVE key[d] < key[q]
      <4>1. q \in N /\ q # d /\ key[d] <= key[q] /\ key[q] \in Int /\ key[d] \in Int
        BY <1>1, <2>1
      <4>2. key[q] # key[d]
        BY <1>1, <4>1
      <4> HIDE DEF M
      <4>3. QED
        BY <4>1, <4>2
    <3>3. QED
      BY <1>3, <2>1, <3>1, <3>2 DEF IsHead, c
  <2>2. CASE b # d
    BY <1>1, <2>2 DEF IsHead
  <2>3. QED
    BY <2>1, <2>2
<1>7. ASSUME NEW p \in M PROVE BackAndForth(M, nx2, pv2, p)
  BY <1>1, <1>3, <1>4 DEF BackAndForth, a, c
<1>8. Follows(key, M, b2, nx2, a)
  <2>1. CASE d = b
    <3>1. \A q \in N : key[q] <= key[a]
      BY <1>1, <1>2, <1>3, <2>1
    <3>2. QED
      BY <1>3, <1>4, <2>1, <3>1 DEF Follows, c
  <2>2. CASE d # b
    <3>1. key[a] < key[d] /\ \A q \in N : key[a] < key[q] => key[d] <= key[q]
      BY <1>1, <1>2, <1>3, <2>2
    <3>a. /\ key[a] \in Int /\ key[c] \in Int /\ key[d] \in Int
          /\ \A q \in M : q \in N /\ key[q] \in Int /\ key[q] # key[d]
      BY <1>1, <1>3
    <3> HIDE DEF M
    <3>2. CASE key[d] < key[c] /\ \A q \in N : key[d] < key[q] => key[c] <= key[q]
      <4>1. key[a] < key[c]
        BY <3>1, <3>2, <3>a
      <4>2. \A q \in M : key[a] < key[q] => key[c] <= key[q]
        BY <3>1, <3>2, <3>a
      <4>3. QED
        BY <1>4, <4>1, <4>2 DEF Follows
    <3>3. CASE c = b /\ \A q \in N : key[q] <= key[d]
      <4>1. \A q \in M : key[q] <= key[a]
        BY <3>1, <3>3, <3>a
      <4>2. QED
        BY <1>4, <2>2, <3>3, <4>1 DEF Follows
    <3>4. QED
      BY <1>2, <3>2, <3>3 DEF c
  <2>3. QED
    BY <2>1, <2>2
<1>9. ASSUME NEW p \in M, p # a PROVE Follows(key, M, b2, nx2, p)
  <2>1. nx2[p] = nx[p] /\ nx[p] \in M
    BY <1>1, <1>3, <1>4, <1>9 DEF a
  <2>2. nx[p] = b => b2 = b
    BY <2>1
  <2>3. QED
    BY <1>2, <2>1, <2>2 DEF Follows
<1>10. QED
  BY <1>5, <1>6, <1>7, <1>8, <1>9 DEF IsRing

-----------------------------------------------------------------------------
(* Nodes listed by their keys. *)

\* Some node of a finite set has the lowest key.
LEMMA LowestKey ==
    ASSUME NEW key, NEW N, IsFiniteSet(N), N # {}, \A p \in N : key[p] \in Int
    PROVE  \E p \in N : \A q \in N : key[p] <= key[q]
<1> DEFINE Bad(U) == /\ U # {} /\ \A p \in U : key[p] \in Int
                     /\ ~\E p \in U : \A q \in U : key[p] <= key[q]
           T == {n \in Nat : \E U : IsFiniteSet(U) /\ Cardinality(U) = n /\ Bad(U)}
<1>1. SUFFICES ASSUME T # {} PROVE FALSE
  <2>1. Cardinality(N) \in Nat
    BY FS_CardinalityType
  <2>2. QED
    BY <2>1
<1>2. T \in SUBSET Nat
  OBVIOUS
<1>3. PICK x \in T : \A y \in T : x <= y
  <2> HIDE DEF T
  <2>1. QED
    BY <1>1, <1>2, Least
<1>4. PICK U : IsFiniteSet(U) /\ Cardinality(U) = x /\ Bad(U)
  BY <1>3
<1>5. PICK p \in U : TRUE
  BY <1>4
<1> DEFINE V == U \ {p}
<1>6. IsFiniteSet(V) /\ Cardinality(V) = x - 1
  BY <1>4, <1>5, FS_RemoveElement
<1>7. x \in Nat /\ x - 1 \in Nat
  <2>1. Cardinality(V) \in Nat
    BY <1>6, FS_CardinalityType
  <2>2. QED
    BY <1>3, <1>6, <2>1
<1>8. ~Bad(V)
  <2>1. x - 1 \notin T
    BY <1>3, <1>7
  <2>2. QED
    BY <1>6, <1>7, <2>1
<1>9. CASE V = {}
  <2>1. \A q \in U : q = p
    BY <1>9
  <2>2. key[p] <= key[p]
    BY <1>4, <1>5
  <2>3. QED
    BY <1>4, <1>5, <2>1, <2>2
<1>10. CASE V # {}
  <2>1. PICK r \in V : \A q \in V : key[r] <= key[q]
    BY <1>4, <1>8, <1>10
  <2>2. /\ key[p] \in Int /\ key[r] \in Int /\ r \in U
        /\ \A q \in U : key[q] \in Int /\ (q = p \/ key[r] <= key[q])
    BY <1>4, <1>5, <2>1
  <2>3. \/ \A q \in U : key[p] <= key[q]
        \/ \A q \in U : key[r] <= key[q]
    BY <2>2
  <2>4. QED
    BY <1>4, <1>5, <2>2, <2>3
<1>11. QED
  BY <1>9, <1>10

LEMMA ListExists ==
    ASSUME NEW key, NEW N, IsFiniteSet(N), Keys(key, N)
    PROVE  \E f : Lists(key, N, f)
<1> DEFINE Bad(U) == Keys(key, U) /\ ~\E f : Lists(key, U, f)
           T == {n \in Nat : \E U : IsFiniteSet(U) /\ Cardinality(U) = n /\ Bad(U)}
<1>1. SUFFICES ASSUME T # {} PROVE FALSE
  <2>1. Cardinality(N) \in Nat
    BY FS_CardinalityType
  <2>2. QED
    BY <2>1
<1>2. T \in SUBSET Nat
  OBVIOUS
<1>3. PICK x \in T : \A y \in T : x <= y
  <2> HIDE DEF T
  <2>1. QED
    BY <1>1, <1>2, Least
<1>4. PICK U : IsFiniteSet(U) /\ Cardinality(U) = x /\ Bad(U)
  BY <1>3
<1>5. CASE U = {}
  <2>1. x = 0
    BY <1>4, <1>5, FS_EmptySet
  <2>2. <<>> \in [1 .. x -> U] /\ 1 .. x = {}
    BY <2>1
  <2>3. Lists(key, U, <<>>)
    BY <1>4, <2>2 DEF Lists
  <2>4. QED
    BY <1>4, <2>3
<1>6. CASE U # {}
  <2>1. PICK p \in U : \A q \in U : key[p] <= key[q]
    BY <1>4, <1>6, LowestKey DEF Keys
  <2> DEFINE V == U \ {p}
  <2>2. IsFiniteSet(V) /\ Cardinality(V) = x - 1
    BY <1>4, <2>1, FS_RemoveElement
  <2>3. x \in Nat /\ x - 1 \in Nat
    <3>1. Cardinality(V) \in Nat
      BY <2>2, FS_CardinalityType
    <3>2. QED
      BY <1>3, <2>2, <3>1
  <2>4. Keys(key, V) /\ \A q \in V : key[p] < key[q]
    BY <1>4, <2>1 DEF Keys
  <2>5. x - 1 \notin T
    BY <1>3, <2>3
  <2>6. PICK f : Lists(key, V, f)
    BY <2>2, <2>3, <2>4, <2>5
  <2>7. /\ f \in [1 .. x - 1 -> V]
        /\ \A i, j \in 1 .. x - 1 : i < j => key[f[i]] < key[f[j]]
    BY <2>2, <2>6 DEF Lists
  <2> DEFINE g == [i \in 1 .. x |-> IF i = 1 THEN p ELSE f[i - 1]]
  <2>8. /\ 1 \in 1 .. x => g[1] = p
        /\ \A i \in 1 .. x : i # 1 =>
              i - 1 \in 1 .. x - 1 /\ g[i] = f[i - 1] /\ f[i - 1] \in V
    BY <2>3, <2>7
  <2>9. g \in [1 .. x -> U]
    BY <2>1, <2>8
  <2> HIDE DEF g, V
  <2>10. ASSUME NEW i \in 1 .. x, NEW j \in 1 .. x, i < j
         PROVE  key[g[i]] < key[g[j]]
    <3>1. j # 1 /\ j - 1 \in 1 .. x - 1 /\ g[j] = f[j - 1] /\ f[j - 1] \in V
      BY <2>8, <2>10
    <3>2. CASE i = 1
      BY <2>4, <2>8, <3>1, <3>2
    <3>3. CASE i # 1
      <4>1. i - 1 \in 1 .. x - 1 /\ g[i] = f[i - 1] /\ i - 1 < j - 1
        BY <2>8, <2>10, <3>3
      <4>2. QED
        BY <2>7, <3>1, <4>1
    <3>4. QED
      BY <3>2, <3>3
  <2>11. Lists(key, U, g)
    BY <1>4, <2>9, <2>10 DEF Lists
  <2>12. QED
    BY <1>4, <2>11
<1>7. QED
  BY <1>5, <1>6

\* A list has every node, each once.
LEMMA ListIsOnto ==
    ASSUME NEW key, NEW N, IsFiniteSet(N), Keys(key, N), NEW f, Lists(key, N, f)
    PROVE  /\ Cardinality(N) \in Nat
           /\ \A i, j \in 1 .. Cardinality(N) : f[i] = f[j] => i = j
           /\ \A p \in N : \E i \in 1 .. Cardinality(N) : f[i] = p
<1> DEFINE n == Cardinality(N)
<1>1. n \in Nat
  BY FS_CardinalityType
<1>2. /\ f \in [1 .. n -> N]
      /\ \A i, j \in 1 .. n : i < j => key[f[i]] < key[f[j]]
  BY DEF Lists
<1>3. IsFiniteSet(1 .. n) /\ Cardinality(1 .. n) = n
  BY <1>1, FS_Interval
<1>4. n = Cardinality(N)
  OBVIOUS
<1> HIDE DEF n
<1>5. ASSUME NEW i \in 1 .. n, NEW j \in 1 .. n, f[i] = f[j] PROVE i = j
  <2>1. key[f[i]] \in Int /\ key[f[j]] \in Int /\ key[f[i]] = key[f[j]]
    BY <1>2, <1>5 DEF Keys
  <2>2. ~(i < j) /\ ~(j < i)
    BY <1>2, <2>1
  <2>3. QED
    BY <1>1, <2>2
<1>6. f \in Injection(1 .. n, N)
  BY <1>2, <1>5 DEF Injection, IsInjective
<1>7. f \in Surjection(1 .. n, N)
  BY <1>3, <1>4, <1>6, FS_Injection
<1>8. \A p \in N : \E i \in 1 .. n : f[i] = p
  BY <1>7 DEF Surjection
<1>9. QED
  BY <1>1, <1>4, <1>5, <1>8

\* There is only one list.
LEMMA ListIsUnique ==
    ASSUME NEW key, NEW N, IsFiniteSet(N), Keys(key, N),
           NEW f, Lists(key, N, f), NEW g, Lists(key, N, g)
    PROVE  f = g
<1> DEFINE n == Cardinality(N)
           T == {i \in 1 .. n : f[i] # g[i]}
<1>1. /\ n \in Nat
      /\ \A p \in N : \E i \in 1 .. n : f[i] = p
      /\ \A p \in N : \E i \in 1 .. n : g[i] = p
  BY ListIsOnto
<1>2. /\ f \in [1 .. n -> N] /\ g \in [1 .. n -> N]
      /\ \A i, j \in 1 .. n : i < j => key[f[i]] < key[f[j]] /\ key[g[i]] < key[g[j]]
  BY DEF Lists
<1> HIDE DEF n
<1>3. SUFFICES ASSUME T # {} PROVE FALSE
  <2>1. /\ f = [i \in 1 .. n |-> f[i]] /\ g = [i \in 1 .. n |-> g[i]]
        /\ \A i \in 1 .. n : i \notin T => f[i] = g[i]
    BY <1>2
  <2>2. QED
    BY <2>1
<1>4. T \in SUBSET Nat
  BY <1>1
<1>5. PICK x \in T : \A y \in T : x <= y
  <2> HIDE DEF T
  <2>1. QED
    BY <1>3, <1>4, Least
<1>6. x \in 1 .. n /\ f[x] # g[x] /\ f[x] \in N /\ g[x] \in N
  BY <1>2, <1>5
<1>7. PICK i \in 1 .. n : g[i] = f[x]
  BY <1>1, <1>6
<1>8. PICK j \in 1 .. n : f[j] = g[x]
  BY <1>1, <1>6
<1>9. \A k \in 1 .. n : k < x => f[k] = g[k]
  BY <1>1, <1>5
<1>10. /\ \A k \in 1 .. n : key[f[k]] \in Int /\ key[g[k]] \in Int
  BY <1>2 DEF Keys
<1>11. i > x
  <2>1. i # x
    BY <1>6, <1>7
  <2>2. ~(i < x)
    <3> SUFFICES ASSUME i < x PROVE FALSE
      OBVIOUS
    <3>1. f[i] = f[x] /\ key[f[i]] < key[f[x]]
      BY <1>2, <1>6, <1>7, <1>9
    <3>2. QED
      BY <1>6, <1>10, <3>1
  <2>3. QED
    BY <1>1, <1>6, <2>1, <2>2
<1>12. j > x
  <2>1. j # x
    BY <1>6, <1>8
  <2>2. ~(j < x)
    <3> SUFFICES ASSUME j < x PROVE FALSE
      OBVIOUS
    <3>1. g[j] = g[x] /\ key[g[j]] < key[g[x]]
      BY <1>2, <1>6, <1>8, <1>9
    <3>2. QED
      BY <1>6, <1>10, <3>1
  <2>3. QED
    BY <1>1, <1>6, <2>1, <2>2
<1>13. key[g[x]] < key[g[i]] /\ key[f[x]] < key[f[j]]
  BY <1>1, <1>2, <1>6, <1>11, <1>12
<1>14. QED
  BY <1>6, <1>7, <1>8, <1>10, <1>13

-----------------------------------------------------------------------------
(* Walks. *)

WalkIs(w, succ, from, n) ==
    w = [k \in 0 .. n |->
            IF k = 0 THEN from
            ELSE IF w[k - 1] = Null THEN Null ELSE succ[w[k - 1]]]

LEMMA WalkExists ==
    ASSUME NEW succ, NEW from, NEW n \in Nat
    PROVE  \E w : WalkIs(w, succ, from, n)
<1> DEFINE step(v) == IF v = Null THEN Null ELSE succ[v]
           T == {x \in Nat : ~\E w : WalkIs(w, succ, from, x)}
<1>1. SUFFICES ASSUME T # {} PROVE FALSE
  OBVIOUS
<1>2. PICK x \in T : \A y \in T : x <= y
  BY <1>1, Least
<1>3. CASE x = 0
  <2> DEFINE g == [k \in 0 .. 0 |-> from]
  <2>1. g = [k \in 0 .. 0 |-> IF k = 0 THEN from
                ELSE IF g[k - 1] = Null THEN Null ELSE succ[g[k - 1]]]
    OBVIOUS
  <2> QED
    BY <2>1, <1>3, <1>2 DEF WalkIs
<1>4. CASE x # 0
  <2>1. x - 1 \in Nat /\ x - 1 \notin T
    BY <1>2, <1>4
  <2>2. PICK f : WalkIs(f, succ, from, x - 1)
    BY <2>1
  <2> DEFINE g == [k \in 0 .. x |-> IF k = x THEN step(f[x - 1]) ELSE f[k]]
  <2>a. \A v : step(v) = IF v = Null THEN Null ELSE succ[v]
    OBVIOUS
  <2> HIDE DEF step
  <2>3. ASSUME NEW k \in 0 .. x
        PROVE  g[k] = IF k = 0 THEN from ELSE step(g[k - 1])
    <3>1. CASE k = x
      <4>1. g[k - 1] = f[x - 1]
        BY <3>1, <1>4, <1>2
      <4> QED
        BY <4>1, <3>1, <1>4
    <3>2. CASE k # x
      <4>1. k \in 0 .. (x - 1)
        BY <3>2, <1>2
      <4>2. f[k] = IF k = 0 THEN from ELSE step(f[k - 1])
        BY <2>2, <2>a, <4>1 DEF WalkIs
      <4>3. k # 0 => g[k - 1] = f[k - 1]
        BY <4>1, <1>2
      <4>4. g[k] = f[k]
        BY <3>2
      <4> HIDE DEF g
      <4> QED
        BY <4>2, <4>3, <4>4
    <3> QED
      BY <3>1, <3>2
  <2>4. DOMAIN g = 0 .. x /\ g = [k \in 0 .. x |-> g[k]]
    OBVIOUS
  <2> HIDE DEF g
  <2>5. g = [k \in 0 .. x |-> IF k = 0 THEN from ELSE step(g[k - 1])]
    BY <2>3, <2>4
  <2>6. WalkIs(g, succ, from, x)
    BY <2>5 DEF WalkIs, step
  <2> QED
    BY <2>6, <1>2
<1> QED
  BY <1>3, <1>4

LEMMA WalkWalks ==
    ASSUME NEW succ, NEW from, NEW n \in Nat
    PROVE  WalkIs(Walk(succ, from, n), succ, from, n)
<1> DEFINE w == CHOOSE w : WalkIs(w, succ, from, n)
<1>1. Walk(succ, from, n) = w
  BY DEF Walk, WalkIs
<1>2. PICK v : WalkIs(v, succ, from, n)
  BY WalkExists
<1>3. WalkIs(w, succ, from, n)
  BY <1>2
<1>4. QED
  BY <1>1, <1>3


\* Along a list of its nodes: next of each is the one behind it.
LEMMA NextInList ==
    ASSUME NEW key, NEW N, NEW head, NEW nx, NEW pv, IsRing(key, N, head, nx, pv),
           IsFiniteSet(N), N # {}, NEW e, Lists(key, N, e)
    PROVE  LET n == Cardinality(N)
           IN  /\ n \in Nat /\ n >= 1
               /\ e[1] = head /\ nx[e[n]] = head
               /\ \A i \in 1 .. n - 1 : nx[e[i]] = e[i + 1]
<1> DEFINE n == Cardinality(N)
<1>1. /\ head \in N /\ \A q \in N : key[head] <= key[q]
      /\ \A p \in N : key[p] \in Int
      /\ \A p \in N : nx[p] \in N
  BY DEF IsRing, IsHead, Keys, BackAndForth
<1>2. \A p \in N :
         \/ /\ key[p] < key[nx[p]]
            /\ \A q \in N : key[p] < key[q] => key[nx[p]] <= key[q]
         \/ nx[p] = head /\ \A q \in N : key[q] <= key[p]
  BY DEF IsRing, Follows
<1>3. n \in Nat /\ \A p \in N : \E i \in 1 .. n : e[i] = p
  BY ListIsOnto DEF IsRing
<1>4. /\ e \in [1 .. n -> N]
      /\ \A i, j \in 1 .. n : i < j => key[e[i]] < key[e[j]]
  BY DEF Lists
<1> HIDE DEF n
<1>5. PICK h \in 1 .. n : e[h] = head
  BY <1>1, <1>3
<1>6. n >= 1 /\ 1 \in 1 .. n /\ n \in 1 .. n
  BY <1>3, <1>5
<1>7. e[1] = head
  <2>1. ~(1 < h)
    <3> SUFFICES ASSUME 1 < h PROVE FALSE
      OBVIOUS
    <3>1. key[e[1]] < key[head] /\ e[1] \in N
      BY <1>4, <1>5, <1>6
    <3>2. QED
      BY <1>1, <3>1
  <2>2. h = 1
    BY <1>3, <2>1
  <2>3. QED
    BY <1>5, <2>2
<1>8. nx[e[n]] = head
  <2>1. e[n] \in N /\ nx[e[n]] \in N
    BY <1>1, <1>4, <1>6
  <2>2. PICK j \in 1 .. n : e[j] = nx[e[n]]
    BY <1>3, <2>1
  <2>3. key[e[j]] <= key[e[n]]
    <3>1. j = n \/ j < n
      BY <1>3
    <3>2. key[e[j]] \in Int /\ key[e[n]] \in Int
      BY <1>1, <1>4, <1>6
    <3>3. QED
      BY <1>4, <1>6, <3>1, <3>2
  <2>4. ~(key[e[n]] < key[nx[e[n]]])
    BY <1>1, <2>1, <2>2, <2>3
  <2>5. QED
    BY <1>2, <2>1, <2>4
<1>9. ASSUME NEW i \in 1 .. n - 1 PROVE nx[e[i]] = e[i + 1]
  <2>1. /\ i \in 1 .. n /\ i + 1 \in 1 .. n /\ i < i + 1 /\ i \in Nat
        /\ e[i] \in N /\ e[i + 1] \in N /\ nx[e[i]] \in N
        /\ key[e[i]] \in Int /\ key[e[i + 1]] \in Int
    BY <1>1, <1>3, <1>4
  <2>2. key[e[i]] < key[e[i + 1]]
    BY <1>4, <2>1
  <2>3. ~\A q \in N : key[q] <= key[e[i]]
    BY <2>1, <2>2
  <2>4. key[e[i]] < key[nx[e[i]]] /\ key[nx[e[i]]] <= key[e[i + 1]]
    BY <1>2, <2>1, <2>2, <2>3
  <2>5. PICK j \in 1 .. n : e[j] = nx[e[i]]
    BY <1>3, <2>1
  <2>6. key[e[j]] \in Int /\ key[e[i]] < key[e[j]] /\ key[e[j]] <= key[e[i + 1]]
    BY <1>1, <2>1, <2>4, <2>5
  <2>7. ~(j < i) /\ j # i
    BY <1>4, <2>1, <2>6
  <2>8. ~(i + 1 < j)
    BY <1>4, <2>1, <2>6
  <2>9. j = i + 1
    BY <1>3, <2>1, <2>7, <2>8
  <2>10. QED
    BY <2>5, <2>9
<1>10. QED
  BY <1>3, <1>6, <1>7, <1>8, <1>9 DEF n

\* A walk along a ring meets its nodes in the order of the list.
LEMMA WalkAlongRing ==
    ASSUME NEW key, NEW N, NEW head, NEW nx, NEW pv, IsRing(key, N, head, nx, pv),
           IsFiniteSet(N), N # {}, Null \notin N, NEW e, Lists(key, N, e),
           NEW size \in Nat, Cardinality(N) <= size,
           NEW w, WalkIs(w, nx, head, size)
    PROVE  LET n == Cardinality(N)
           IN  /\ n \in Nat /\ n >= 1 /\ e[1] = head /\ w[n] = head
               /\ \A k \in 0 .. n - 1 : w[k] = e[k + 1]
<1> DEFINE n == Cardinality(N)
<1>1. /\ n \in Nat /\ n >= 1 /\ e[1] = head /\ nx[e[n]] = head
      /\ \A i \in 1 .. n - 1 : nx[e[i]] = e[i + 1]
  BY NextInList
<1>2. e \in [1 .. n -> N] /\ n <= size
  BY DEF Lists
<1> HIDE DEF n
<1>3. /\ w[0] = head
      /\ \A k \in 1 .. size : w[k] = IF w[k - 1] = Null THEN Null ELSE nx[w[k - 1]]
  BY DEF WalkIs
<1> DEFINE T == {k \in 0 .. n - 1 : w[k] # e[k + 1]}
<1>4. T = {}
  <2> SUFFICES ASSUME T # {} PROVE FALSE
    OBVIOUS
  <2>1. T \in SUBSET Nat
    BY <1>1
  <2>2. PICK x \in T : \A y \in T : x <= y
    <3> HIDE DEF T
    <3>1. QED
      BY <2>1, Least
  <2>3. x \in 0 .. n - 1 /\ w[x] # e[x + 1]
    BY <2>2
  <2>4. x # 0
    BY <1>1, <1>3, <2>3
  <2>5. x - 1 \in 0 .. n - 1 /\ x - 1 \notin T /\ x \in 1 .. n - 1 /\ x \in 1 .. size
    BY <1>1, <1>2, <2>2, <2>3, <2>4
  <2>6. w[x - 1] = e[x]
    <3>1. w[x - 1] = e[(x - 1) + 1]
      BY <2>5
    <3>2. (x - 1) + 1 = x
      BY <2>5
    <3>3. QED
      BY <3>1, <3>2
  <2>7. e[x] \in N /\ e[x] # Null
    BY <1>1, <1>2, <2>5
  <2>8. w[x] = nx[e[x]]
    BY <1>3, <2>5, <2>6, <2>7
  <2>9. QED
    BY <1>1, <2>3, <2>5, <2>8
<1>5. \A k \in 0 .. n - 1 : w[k] = e[k + 1]
  BY <1>4
<1>6. w[n] = head
  <2>1. n - 1 \in 0 .. n - 1 /\ (n - 1) + 1 = n /\ n \in 1 .. size /\ n \in 1 .. n
    BY <1>1, <1>2
  <2>2. w[n - 1] = e[n]
    BY <1>5, <2>1
  <2>3. e[n] # Null
    BY <1>2, <2>1
  <2>4. QED
    BY <1>1, <1>3, <2>1, <2>2, <2>3
<1>7. QED
  BY <1>1, <1>5, <1>6 DEF n

\* Ring lists the nodes of a ring.
LEMMA RingLists ==
    ASSUME NEW key, NEW N, NEW head, NEW nx, NEW pv, IsRing(key, N, head, nx, pv),
           Null \notin N, N \subseteq DOMAIN nx, IsFiniteSet(DOMAIN nx)
    PROVE  Lists(key, N, Ring(nx, head))
<1> DEFINE size == Cardinality(DOMAIN nx)
           n == Cardinality(N)
           w == Walk(nx, head, size)
           back == {k \in 1 .. size : w[k] = head}
<1>1. IsFiniteSet(N) /\ size \in Nat /\ n \in Nat /\ n <= size
  <2>1. IsFiniteSet(N) /\ n <= size
    BY FS_Subset
  <2>2. QED
    BY <2>1, FS_CardinalityType
<1>2. Ring(nx, head) = IF head = Null \/ back = {} THEN <<>>
                       ELSE [k \in 1 .. Min(back) |-> w[k - 1]]
  BY DEF Ring
<1>3. WalkIs(w, nx, head, size)
  BY <1>1, WalkWalks
<1>4. Keys(key, N)
  BY DEF IsRing
<1>5. PICK e : Lists(key, N, e)
  BY <1>1, <1>4, ListExists
<1>6. e \in [1 .. n -> N] /\ \A i, j \in 1 .. n : e[i] = e[j] => i = j
  BY <1>1, <1>4, <1>5, ListIsOnto DEF Lists
<1> HIDE DEF w, size
<1>7. CASE N = {}
  <2>1. head = Null /\ n = 0
    BY <1>7, FS_EmptySet DEF IsRing, IsHead
  <2>2. Ring(nx, head) = <<>>
    BY <1>2, <2>1
  <2>3. e = <<>>
    BY <1>6, <2>1
  <2>4. QED
    BY <1>5, <2>2, <2>3
<1>8. CASE N # {}
  <2>1. /\ n >= 1 /\ e[1] = head /\ w[n] = head
        /\ \A k \in 0 .. n - 1 : w[k] = e[k + 1]
    BY <1>1, <1>3, <1>5, <1>8, WalkAlongRing
  <2> HIDE DEF n
  <2>2. head \in N /\ head # Null
    BY <1>8 DEF IsRing, IsHead
  <2>3. n \in back
    BY <1>1, <2>1
  <2>4. \A k \in back : n <= k
    <3> SUFFICES ASSUME NEW k \in back, k < n PROVE FALSE
      BY <1>1
    <3>1. k \in 0 .. n - 1 /\ w[k] = head /\ k + 1 \in 1 .. n /\ 1 \in 1 .. n
          /\ k + 1 # 1
      BY <1>1
    <3>2. e[k + 1] = e[1]
      BY <2>1, <3>1
    <3>3. QED
      BY <1>6, <3>1, <3>2
  <2>5. Min(back) = n
    <3> DEFINE x == Min(back)
    <3>1. x \in back /\ \A y \in back : x <= y
      BY <2>3, <2>4 DEF Min
    <3>2. x \in Nat /\ x <= n /\ n <= x
      BY <1>1, <2>3, <2>4, <3>1
    <3>3. QED
      BY <1>1, <3>2
  <2>6. Ring(nx, head) = [k \in 1 .. n |-> w[k - 1]]
    BY <1>2, <2>2, <2>3, <2>5
  <2>7. \A k \in 1 .. n : w[k - 1] = e[k]
    <3> SUFFICES ASSUME NEW k \in 1 .. n PROVE w[k - 1] = e[k]
      OBVIOUS
    <3>1. k - 1 \in 0 .. n - 1 /\ (k - 1) + 1 = k
      BY <1>1
    <3>2. QED
      BY <2>1, <3>1
  <2>8. e = [k \in 1 .. n |-> e[k]]
    BY <1>6
  <2>9. Ring(nx, head) = e
    BY <2>6, <2>7, <2>8
  <2>10. QED
    BY <1>5, <2>9
<1>9. QED
  BY <1>7, <1>8

-----------------------------------------------------------------------------
(* The book as long as no order was put into a level that is not its own.     *)

\* Levels have their fields, whatever these hold.
IsLevel(x) ==
    x = [side |-> x.side, price |-> x.price, first |-> x.first,
         next |-> x.next, prev |-> x.prev]
AreLevels(f) == f = [b \in Blocks |-> f[b]] /\ \A b \in Blocks : IsLevel(f[b])

InUse(m) == {b \in Blocks : ~m.free[b]}
OnSide(m, s) == {b \in InUse(m) : m.level[b].side = s}
Live(m, known) == {m.byId[i] : i \in known}
OrdersAt(m, live, b) ==
    {o \in live :
        m.order[o].side = m.level[b].side /\ m.order[o].price = m.level[b].price}

LevelPrev(m) == [b \in Blocks |-> m.level[b].prev]
OrderPrev(m) == [o \in DOMAIN m.order |-> m.order[o].prev]

\* The keys of the rings: the better the price, the lower its rank.
Rank(s, price) == IF s = "BUY" THEN 0 - price ELSE price
RankOf(m, s) == [b \in Blocks |-> Rank(s, m.level[b].price)]
IdOf(m) == [o \in DOMAIN m.order |-> m.order[o].id]

\* The pool and price_orders_at_price.
PoolInv(m) ==
    /\ AreLevels(m.level)
    /\ m.free \in [Blocks -> BOOLEAN]
    /\ m.cursor \in Blocks /\ m.free[m.cursor]
    /\ m.index \in [Blocks -> Blocks \cup {Null}]
    /\ m.best = [s \in Sides |-> m.best[s]]
    /\ \A b \in InUse(m) :
          /\ m.level[b].side \in Sides /\ m.level[b].price \in Nat
          /\ LevelAt(m, m.level[b].price) = b

LevelRingInv(m, s) ==
    IsRing(RankOf(m, s), OnSide(m, s), m.best[s], LevelNext(m), LevelPrev(m))

OrderRingInv(m, live, b) ==
    /\ OrdersAt(m, live, b) # {}
    /\ IsRing(IdOf(m), OrdersAt(m, live, b), m.level[b].first,
              OrderNext(m), OrderPrev(m))

\* Every order is in a level of its side and price.
HasLevel(m, o) ==
    LET b == LevelAt(m, m.order[o].price)
    IN  /\ b \in InUse(m)
        /\ m.level[b].side = m.order[o].side
        /\ m.level[b].price = m.order[o].price

Rings(m, live) ==
    /\ PoolInv(m)
    /\ \A s \in Sides : LevelRingInv(m, s)
    /\ \A b \in InUse(m) : OrderRingInv(m, live, b)
    /\ \A o \in live : HasLevel(m, o)

\* What is still to come of a snapshot comes in the order of the ids, and is
\* newer than what has come.
NewestLast ==
    /\ \A j, k \in 1 .. Len(toCome) : j < k => toCome[j] < toCome[k]
    /\ \A i \in Known : \A k \in 1 .. Len(toCome) : i < toCome[k]

\* How the client may end: by the destructor, or at the limit of the pool.
RingsInv ==
    ~misled =>
        /\ mob.status \in {"running", "out_of_space", "destroyed", "validity_check"}
        /\ Running => Rings(mob, Live(mob, Known)) /\ NewestLast

-----------------------------------------------------------------------------
(* What assignments to a book and to its levels leave as it was. *)

\* r is m, up to some fields.
Except(m, r, changed) == IsBook(r) /\ \A x \in Fields \ changed : r[x] = m[x]

\* An assignment to one field.
Put(m, x, v) == [m EXCEPT ![x] = v]

LEMMA PutField ==
    ASSUME NEW m, IsBook(m), NEW x \in Fields, NEW v
    PROVE  LET r == Put(m, x, v) IN Except(m, r, {x}) /\ r[x] = v
BY DEF IsBook, Except, Put

LEMMA ExceptThen ==
    ASSUME NEW m, NEW r, NEW q, NEW A, NEW B, Except(m, r, A), Except(r, q, B)
    PROVE  Except(m, q, A \cup B)
BY DEF Except

SameLevel(x, y) == y.side = x.side /\ y.price = x.price /\ y.first = x.first
SameLevels(f, g) == \A b \in Blocks : SameLevel(f[b], g[b])

WithNext(f, a, v) == [f EXCEPT ![a].next = v]
WithPrev(f, a, v) == [f EXCEPT ![a].prev = v]

LEMMA LevelSetNext ==
    ASSUME NEW f, AreLevels(f), NEW a \in Blocks, NEW v
    PROVE  LET g == WithNext(f, a, v)
           IN  /\ AreLevels(g) /\ SameLevels(f, g)
               /\ \A b \in Blocks : /\ g[b].next = IF b = a THEN v ELSE f[b].next
                                    /\ g[b].prev = f[b].prev
BY DEF WithNext, AreLevels, IsLevel, SameLevels, SameLevel

LEMMA LevelSetPrev ==
    ASSUME NEW f, AreLevels(f), NEW a \in Blocks, NEW v
    PROVE  LET g == WithPrev(f, a, v)
           IN  /\ AreLevels(g) /\ SameLevels(f, g)
               /\ \A b \in Blocks : /\ g[b].prev = IF b = a THEN v ELSE f[b].prev
                                    /\ g[b].next = f[b].next
BY DEF WithPrev, AreLevels, IsLevel, SameLevels, SameLevel

LEMMA SameLevelsThen ==
    ASSUME NEW f, NEW g, NEW h, SameLevels(f, g), SameLevels(g, h)
    PROVE  SameLevels(f, h)
BY DEF SameLevels, SameLevel

\* g is f with level b linked in front of level t.
LinkedLevels(f, g, b, t) ==
    /\ AreLevels(g) /\ SameLevels(f, g)
    /\ \A c \in Blocks :
          /\ g[c].next = IF c = f[t].prev THEN b ELSE IF c = b THEN t ELSE f[c].next
          /\ g[c].prev = IF c = t THEN b ELSE IF c = b THEN f[t].prev ELSE f[c].prev

LEMMA LinkLastLinks ==
    ASSUME NEW m, IsBook(m), AreLevels(m.level),
           NEW b \in Blocks, NEW head \in Blocks, NEW last \in Blocks,
           last = m.level[head].prev, m.level[last].next = head,
           b # head, b # last
    PROVE  \E g : /\ LinkedLevels(m.level, g, b, head)
                  /\ LinkLast(m, b, head) = Put(m, "level", g)
<1> DEFINE f == m.level
           f1 == WithPrev(f, b, last)
           f2 == WithNext(f1, b, head)
           f3 == WithPrev(f2, head, b)
           f4 == WithNext(f3, last, b)
<1>1. last # Null /\ head # Null
  BY MarketOrderBookAssumption DEF Blocks
<1>2. LinkLast(m, b, head) = Put(m, "level", f4)
  BY <1>1 DEF LinkLast, WithNext, WithPrev, Put
<1>3. /\ AreLevels(f1) /\ SameLevels(f, f1)
      /\ \A c \in Blocks : /\ f1[c].prev = IF c = b THEN last ELSE f[c].prev
                           /\ f1[c].next = f[c].next
  BY LevelSetPrev
<1> HIDE DEF f1
<1>4. /\ AreLevels(f2) /\ SameLevels(f1, f2)
      /\ \A c \in Blocks : /\ f2[c].next = IF c = b THEN head ELSE f1[c].next
                           /\ f2[c].prev = f1[c].prev
  BY <1>3, LevelSetNext
<1> HIDE DEF f2
<1>5. /\ AreLevels(f3) /\ SameLevels(f2, f3)
      /\ \A c \in Blocks : /\ f3[c].prev = IF c = head THEN b ELSE f2[c].prev
                           /\ f3[c].next = f2[c].next
  BY <1>4, LevelSetPrev
<1> HIDE DEF f3
<1>6. /\ AreLevels(f4) /\ SameLevels(f3, f4)
      /\ \A c \in Blocks : /\ f4[c].next = IF c = last THEN b ELSE f3[c].next
                           /\ f4[c].prev = f3[c].prev
  BY <1>5, LevelSetNext
<1> HIDE DEF f4
<1>7. SameLevels(f, f4)
  BY <1>3, <1>4, <1>5, <1>6, SameLevelsThen
<1>8. \A c \in Blocks :
         /\ f4[c].next = IF c = last THEN b ELSE IF c = b THEN head ELSE f[c].next
         /\ f4[c].prev = IF c = head THEN b ELSE IF c = b THEN last ELSE f[c].prev
  BY <1>3, <1>4, <1>5, <1>6
<1>9. LinkedLevels(f, f4, b, head)
  BY <1>6, <1>7, <1>8 DEF LinkedLevels
<1>10. QED
  BY <1>2, <1>9

LEMMA LinkBeforeLinks ==
    ASSUME NEW m, IsBook(m), AreLevels(m.level),
           NEW b \in Blocks, NEW t \in Blocks, NEW before \in Blocks,
           before = m.level[t].prev, b # t, b # before, NEW head \in Blocks,
           NEW s, s = m.level[b].side,
           NEW better, better = Worse(s, m.level[head].price, m.level[b].price),
           better => t = head /\ (m.level[head].next = head => before = head)
    PROVE  \E g : /\ LinkedLevels(m.level, g, b, t)
                  /\ LinkBefore(m, b, t, head) =
                        Put(Put(m, "level", g), "best",
                            [m.best EXCEPT ![s] = IF better THEN b ELSE @])
<1> DEFINE f == m.level
           f1 == WithPrev(f, b, before)
           f2 == WithNext(f1, b, t)
           f3 == WithNext(f2, before, b)
           f4 == WithPrev(f3, t, b)
<1>1. before # Null
  BY MarketOrderBookAssumption DEF Blocks
<1>2. LinkBefore(m, b, t, head) =
        [m EXCEPT !.level = IF better /\ f4[t].next = head
                            THEN [f4 EXCEPT ![t].next = b] ELSE f4,
                  !.best[s] = IF better THEN b ELSE @]
  BY <1>1 DEF LinkBefore, WithNext, WithPrev
<1>3. /\ AreLevels(f1) /\ SameLevels(f, f1)
      /\ \A c \in Blocks : /\ f1[c].prev = IF c = b THEN before ELSE f[c].prev
                           /\ f1[c].next = f[c].next
  BY LevelSetPrev
<1> HIDE DEF f1
<1>4. /\ AreLevels(f2) /\ SameLevels(f1, f2)
      /\ \A c \in Blocks : /\ f2[c].next = IF c = b THEN t ELSE f1[c].next
                           /\ f2[c].prev = f1[c].prev
  BY <1>3, LevelSetNext
<1> HIDE DEF f2
<1>5. /\ AreLevels(f3) /\ SameLevels(f2, f3)
      /\ \A c \in Blocks : /\ f3[c].next = IF c = before THEN b ELSE f2[c].next
                           /\ f3[c].prev = f2[c].prev
  BY <1>4, LevelSetNext
<1> HIDE DEF f3
<1>6. /\ AreLevels(f4) /\ SameLevels(f3, f4)
      /\ \A c \in Blocks : /\ f4[c].prev = IF c = t THEN b ELSE f3[c].prev
                           /\ f4[c].next = f3[c].next
  BY <1>5, LevelSetPrev
<1> HIDE DEF f4
<1>7. SameLevels(f, f4)
  BY <1>3, <1>4, <1>5, <1>6, SameLevelsThen
<1>8. \A c \in Blocks :
         /\ f4[c].next = IF c = before THEN b ELSE IF c = b THEN t ELSE f[c].next
         /\ f4[c].prev = IF c = t THEN b ELSE IF c = b THEN before ELSE f[c].prev
  BY <1>3, <1>4, <1>5, <1>6
<1>9. LinkedLevels(f, f4, b, t)
  BY <1>6, <1>7, <1>8 DEF LinkedLevels
<1>10. ~(better /\ f4[t].next = head)
  BY <1>8
<1>11. LinkBefore(m, b, t, head) =
         [m EXCEPT !.level = f4, !.best[s] = IF better THEN b ELSE @]
  BY <1>2, <1>10
<1>12. LinkBefore(m, b, t, head) =
         Put(Put(m, "level", f4), "best", [m.best EXCEPT ![s] = IF better THEN b ELSE @])
  BY <1>11 DEF IsBook, Fields, Put
<1>13. QED
  BY <1>9, <1>12

StopsAre(stops, key, b, w, head, size) ==
    stops = {k \in 0 .. size : \/ w[k] = Null
                               \/ k > 0 /\ w[k] = head
                               \/ key[b] <= key[w[k]]}

\* The search of addOrderAtPrice comes to the place of the new level.
LEMMA SearchStops ==
    ASSUME NEW key, NEW N, NEW head, NEW nx, NEW pv, IsRing(key, N, head, nx, pv),
           IsFiniteSet(N), N # {}, Null \notin N,
           NEW b, key[b] \in Int, \A q \in N : key[q] # key[b],
           NEW size \in Nat, Cardinality(N) <= size,
           NEW w, WalkIs(w, nx, head, size),
           NEW stops, StopsAre(stops, key, b, w, head, size)
    PROVE  /\ stops # {}
           /\ LET t == w[Min(stops)]
              IN  /\ t \in N
                  /\ IF Min(stops) > 0 /\ t = head
                     THEN FitsIn(key, N, head, head, b, pv[t], t)
                     ELSE IF key[b] < key[head]
                     THEN t = head /\ FitsIn(key, N, head, b, b, pv[t], t)
                     ELSE FitsIn(key, N, head, head, b, pv[t], t)
<1> DEFINE n == Cardinality(N)
           k == Min(stops)
           t == w[k]
<1>1. Keys(key, N) /\ head \in N /\ \A q \in N : key[head] <= key[q]
  BY DEF IsRing, IsHead
<1>2. PICK e : Lists(key, N, e)
  BY <1>1, ListExists
<1>3. /\ n \in Nat /\ n >= 1 /\ e[1] = head /\ w[n] = head
      /\ \A i \in 0 .. n - 1 : w[i] = e[i + 1]
  <2>1. Cardinality(N) <= size /\ size \in Nat /\ N # {} /\ IsFiniteSet(N)
        /\ Null \notin N /\ IsRing(key, N, head, nx, pv) /\ Lists(key, N, e)
        /\ WalkIs(w, nx, head, size)
    BY <1>2
  <2> HIDE DEF k, t
  <2>2. QED
    BY ONLY <2>1, WalkAlongRing
<1>4. /\ e \in [1 .. n -> N]
      /\ \A i, j \in 1 .. n : e[i] = e[j] => i = j
      /\ \A p \in N : \E i \in 1 .. n : e[i] = p
  <2>1. e \in [1 .. n -> N]
    BY <1>2 DEF Lists
  <2>2. /\ \A i, j \in 1 .. n : e[i] = e[j] => i = j
        /\ \A p \in N : \E i \in 1 .. n : e[i] = p
    BY <1>1, <1>2, ListIsOnto
  <2>3. QED
    BY <2>1, <2>2
<1>5. \A i \in 1 .. n - 1 : nx[e[i]] = e[i + 1]
  BY <1>2, NextInList
<1>a. n <= size
  OBVIOUS
<1> HIDE DEF n
<1>b. \A i \in 0 .. size :
        i \in stops <=> w[i] = Null \/ (i > 0 /\ w[i] = head) \/ key[b] <= key[w[i]]
  BY DEF StopsAre
<1>6. n \in stops
  BY <1>3, <1>a, <1>b
<1>7. stops \in SUBSET (0 .. size) /\ stops \in SUBSET Nat
  BY DEF StopsAre
<1>8. PICK x \in stops : \A y \in stops : x <= y
  BY <1>6, <1>7, Least
<1>9. k \in stops /\ \A y \in stops : k <= y
  BY <1>8 DEF Min
<1> HIDE DEF k
<1>10. k \in Nat /\ k <= n /\ k <= size
  BY <1>6, <1>7, <1>9
<1>11. \A p \in N : key[p] \in Int
  BY <1>1 DEF Keys
<1>12. ASSUME NEW i \in 1 .. k PROVE e[i] = w[i - 1] /\ e[i] \in N /\ key[e[i]] < key[b]
  <2>1. i - 1 \in 0 .. n - 1 /\ (i - 1) + 1 = i /\ i \in 1 .. n /\ i - 1 \in 0 .. size
        /\ i - 1 < k
    BY <1>3, <1>10, <1>a
  <2>2. e[i] = w[i - 1] /\ e[i] \in N
    BY <1>3, <1>4, <2>1
  <2>3. i - 1 \notin stops
    BY <1>9, <1>10, <2>1
  <2>4. ~(key[b] <= key[w[i - 1]])
    BY <1>b, <2>1, <2>3
  <2>5. QED
    BY <1>11, <2>2, <2>4
<1>13. CASE k = n
  <2>1. t = head /\ k > 0
    BY <1>3, <1>13
  <2>2. \A q \in N : key[q] < key[b]
    BY <1>4, <1>12, <1>13
  <2>3. QED
    BY <1>1, <1>6, <2>1, <2>2 DEF FitsIn, k
<1>14. CASE k = 0
  <2>1. w[0] = head /\ head # Null
    <3>1. 0 \in 0 .. n - 1 /\ 0 + 1 = 1
      BY <1>3
    <3>2. QED
      BY <1>1, <1>3, <3>1
  <2>2. key[b] <= key[head]
    BY <1>7, <1>9, <1>14, <1>b, <2>1
  <2>3. key[head] # key[b] /\ key[head] \in Int
    BY <1>1, <1>11
  <2>4. key[b] < key[head]
    BY <2>2, <2>3
  <2>5. \A q \in N : key[b] < key[q]
    BY <1>1, <1>11, <2>3, <2>4
  <2>6. t = head
    BY <1>14, <2>1
  <2>7. QED
    BY <1>1, <1>6, <1>14, <2>4, <2>5, <2>6 DEF FitsIn, k
<1>15. CASE 0 < k /\ k < n
  <2>1. k \in 0 .. n - 1 /\ k + 1 \in 1 .. n /\ k + 1 # 1 /\ 1 \in 1 .. n
        /\ k \in 1 .. k /\ 1 \in 1 .. k /\ k \in 1 .. n - 1
    BY <1>3, <1>10, <1>15
  <2>2. t = e[k + 1] /\ t \in N /\ t # head
    BY <1>3, <1>4, <2>1
  <2>3. t # Null /\ key[t] \in Int /\ key[t] # key[b]
    BY <1>11, <2>2
  <2>4. key[b] < key[t]
    <3>1. key[b] <= key[t]
      BY <1>7, <1>9, <1>b, <2>2, <2>3
    <3>2. QED
      BY <2>3, <3>1
  <2>5. nx[e[k]] = t /\ e[k] \in N /\ key[e[k]] < key[b]
    BY <1>5, <1>12, <2>1, <2>2
  <2>6. pv[t] = e[k]
    BY <2>5 DEF IsRing, BackAndForth
  <2>7. key[head] < key[b] /\ key[head] \in Int
    BY <1>1, <1>3, <1>11, <1>12, <2>1
  <2>8. ~(key[b] < key[head])
    BY <2>7
  <2> HIDE DEF t
  <2>9. FitsIn(key, N, head, head, b, pv[t], t)
    BY <2>2, <2>4, <2>5, <2>6 DEF FitsIn
  <2>10. QED
    BY <1>6, <2>2, <2>8, <2>9 DEF t, k
<1>16. k = n \/ k = 0 \/ (0 < k /\ k < n)
  BY <1>3, <1>10
<1>17. QED
  BY <1>13, <1>14, <1>15, <1>16

-----------------------------------------------------------------------------
(* Levels enter the book. *)

LEMMA RankOrders ==
    ASSUME NEW s \in Sides, NEW p \in Nat, NEW q \in Nat
    PROVE  /\ Rank(s, p) \in Int
           /\ Worse(s, p, q) <=> Rank(s, q) < Rank(s, p)
           /\ Rank(s, p) = Rank(s, q) => p = q
BY DEF Sides, Rank, Worse

LEMMA Slot ==
    ASSUME NEW price \in Nat
    PROVE  PriceToIndex(price) \in Blocks
BY MarketOrderBookAssumption DEF PriceToIndex, Blocks

LEMMA BlocksAreFinite ==
    /\ IsFiniteSet(Blocks) /\ Cardinality(Blocks) = MaxLevels
    /\ \A N \in SUBSET Blocks : IsFiniteSet(N) /\ Cardinality(N) <= MaxLevels
    /\ Blocks \subseteq Nat /\ Null \notin Blocks /\ MaxLevels \in Nat
<1>1. MaxLevels \in Nat \ {0} /\ Null \notin Nat
  BY MarketOrderBookAssumption
<1>2. IsFiniteSet(Blocks) /\ Cardinality(Blocks) = MaxLevels
  BY <1>1, FS_Interval DEF Blocks
<1>3. \A N \in SUBSET Blocks : IsFiniteSet(N) /\ Cardinality(N) <= MaxLevels
  BY <1>2, FS_Subset
<1>4. QED
  BY <1>1, <1>2, <1>3 DEF Blocks

\* allocate() hands out the block at the cursor and leaves the cursor on a free
\* one, or finds that there is none.
LEMMA AllocateTakes ==
    ASSUME NEW m, IsBook(m), PoolInv(m), m.status = "running", NEW content
    PROVE  LET r == Allocate(m, content)
           IN  /\ r.status \in {"running", "out_of_space"}
               /\ r.status = "running" =>
                     /\ Except(m, r, {"level", "free", "cursor"})
                     /\ r.level = [m.level EXCEPT ![m.cursor] = content]
                     /\ r.free = [m.free EXCEPT ![m.cursor] = FALSE]
                     /\ r.cursor \in Blocks /\ r.free[r.cursor]
<1> DEFINE free2 == [m.free EXCEPT ![m.cursor] = FALSE]
           level2 == [m.level EXCEPT ![m.cursor] = content]
           m1 == Put(m, "free", free2)
           m2 == Put(m1, "level", level2)
           r == Allocate(m, content)
           taken == [m EXCEPT !.free[m.cursor] = FALSE, !.level[m.cursor] = content]
<1>1. m2 = taken
  BY DEF IsBook, Fields, Put
<1>a. r = IF \A b \in Blocks : ~taken.free[b] THEN Ended(taken, "out_of_space")
          ELSE [taken EXCEPT !.cursor = NextFreeIndex(taken)]
  BY DEF Allocate
<1>2. r = IF \A b \in Blocks : ~m2.free[b] THEN Ended(m2, "out_of_space")
          ELSE [m2 EXCEPT !.cursor = NextFreeIndex(m2)]
  <2> HIDE DEF m2, taken, r
  <2>1. QED
    BY <1>1, <1>a
<1>3. Except(m, m1, {"free"}) /\ m1.free = free2
  <2>1. "free" \in Fields
    BY DEF Fields
  <2> HIDE DEF free2
  <2>2. QED
    BY <2>1, PutField
<1> HIDE DEF free2, level2, m1, r
<1>4. Except(m1, m2, {"level"}) /\ m2.level = level2
  BY <1>3, PutField DEF Fields, Except
<1> HIDE DEF m2
<1>5. Except(m, m2, {"free", "level"}) /\ m2.free = free2 /\ m2.cursor = m.cursor
  BY <1>3, <1>4 DEF Except, Fields
<1>6. CASE \A b \in Blocks : ~m2.free[b]
  <2>1. r.status = "out_of_space"
    BY <1>2, <1>5, <1>6 DEF Ended, IsBook, Fields, Except
  <2>2. QED
    BY <2>1 DEF r
<1>7. CASE \E b \in Blocks : m2.free[b]
  <2>1. r = Put(m2, "cursor", NextFreeIndex(m2))
    BY <1>2, <1>7 DEF Put
  <2>2. Except(m2, r, {"cursor"}) /\ r.cursor = NextFreeIndex(m2)
    BY <1>5, <2>1, PutField DEF Fields, Except
  <2> DEFINE steps(b) == (b + MaxLevels - m2.cursor) % MaxLevels
             T == {steps(b) : b \in {c \in Blocks : m2.free[c]}}
  <2>3. \A b \in Blocks : steps(b) \in Nat
    <3> SUFFICES ASSUME NEW b \in Blocks PROVE steps(b) \in Nat
      OBVIOUS
    <3>1. m2.cursor \in Blocks /\ MaxLevels \in Nat \ {0}
      BY <1>5, MarketOrderBookAssumption DEF PoolInv
    <3> DEFINE a == b + MaxLevels - m2.cursor
    <3>2. a \in Int
      BY <3>1 DEF Blocks
    <3> HIDE DEF a
    <3>3. a % MaxLevels \in Nat
      BY <3>1, <3>2
    <3>4. QED
      BY <3>3 DEF a
  <2> HIDE DEF steps
  <2>4. T \in SUBSET Nat /\ T # {}
    BY <1>7, <2>3
  <2>5. PICK x \in T : \A y \in T : x <= y
    <3> HIDE DEF T
    <3>1. QED
      BY <2>4, Least
  <2>6. \E b \in Blocks : m2.free[b] /\ \A c \in Blocks : m2.free[c] => steps(b) <= steps(c)
    BY <2>5
  <2>7. NextFreeIndex(m2) \in Blocks /\ m2.free[NextFreeIndex(m2)]
    BY <2>6 DEF NextFreeIndex, steps
  <2>8. Except(m, r, {"level", "free", "cursor"}) /\ r.level = level2 /\ r.free = free2
    BY <1>4, <1>5, <2>2 DEF Except, Fields
  <2>9. r.status = "running"
    BY <2>8 DEF Except, Fields
  <2>10. r.cursor \in Blocks /\ r.free[r.cursor]
    BY <1>5, <2>2, <2>7, <2>8
  <2>11. QED
    BY <2>8, <2>9, <2>10 DEF r, level2, free2
<1>8. QED
  BY <1>6, <1>7

\* A walk along a ring never leaves it.
LEMMA WalkStays ==
    ASSUME NEW key, NEW N, NEW head, NEW nx, NEW pv, IsRing(key, N, head, nx, pv),
           N # {}, Null \notin N, NEW size \in Nat, NEW w, WalkIs(w, nx, head, size)
    PROVE  \A k \in 0 .. size : w[k] \in N
<1>1. head \in N /\ \A p \in N : nx[p] \in N
  BY DEF IsRing, IsHead, BackAndForth
<1>2. /\ w[0] = head
      /\ \A k \in 1 .. size : w[k] = IF w[k - 1] = Null THEN Null ELSE nx[w[k - 1]]
  BY DEF WalkIs
<1> DEFINE T == {k \in 0 .. size : w[k] \notin N}
<1>3. SUFFICES ASSUME T # {} PROVE FALSE
  OBVIOUS
<1>4. T \in SUBSET Nat
  OBVIOUS
<1>5. PICK x \in T : \A y \in T : x <= y
  <2> HIDE DEF T
  <2>1. QED
    BY <1>3, <1>4, Least
<1>6. x \in 1 .. size /\ x - 1 \in 0 .. size /\ x - 1 \notin T
  <2>1. x # 0
    BY <1>1, <1>2, <1>5
  <2>2. QED
    BY <1>5, <2>1
<1>7. w[x - 1] \in N /\ w[x - 1] # Null
  BY <1>6
<1>8. w[x] \in N
  BY <1>1, <1>2, <1>6, <1>7
<1>9. QED
  BY <1>5, <1>8


\* Of m came r: level b has joined those of N on the ring of side s.
JoinsSide(m, r, s, N, b) ==
    /\ Except(m, r, {"level", "best"})
    /\ r.best = [m.best EXCEPT ![s] = r.best[s]]
    /\ AreLevels(r.level) /\ SameLevels(m.level, r.level)
    /\ \A c \in Blocks \ (N \cup {b}) :
          r.level[c].next = m.level[c].next /\ r.level[c].prev = m.level[c].prev
    /\ IsRing(RankOf(r, s), N \cup {b}, r.best[s], LevelNext(r), LevelPrev(r))

LEMMA SameRanks ==
    ASSUME NEW m, NEW r, SameLevels(m.level, r.level), NEW s
    PROVE  RankOf(r, s) = RankOf(m, s)
BY DEF RankOf, SameLevels, SameLevel

\* The first level of a side.
LEMMA FirstOfSide ==
    ASSUME NEW m, IsBook(m), AreLevels(m.level), NEW s \in Sides,
           m.best = [t \in Sides |-> m.best[t]],
           NEW b \in Blocks, m.level[b].price \in Nat,
           NEW r, r = Put(Put(m, "best", [m.best EXCEPT ![s] = b]), "level",
                          WithPrev(WithNext(m.level, b, b), b, b))
    PROVE  JoinsSide(m, r, s, {}, b)
<1> DEFINE best2 == [m.best EXCEPT ![s] = b]
           f1 == WithNext(m.level, b, b)
           f2 == WithPrev(f1, b, b)
           m1 == Put(m, "best", best2)
           m2 == Put(m1, "level", f2)
<1>1. r = m2
  OBVIOUS
<1>2. /\ AreLevels(f1) /\ SameLevels(m.level, f1)
      /\ \A c \in Blocks : /\ f1[c].next = IF c = b THEN b ELSE m.level[c].next
                           /\ f1[c].prev = m.level[c].prev
  BY LevelSetNext
<1> HIDE DEF f1
<1>3. /\ AreLevels(f2) /\ SameLevels(f1, f2)
      /\ \A c \in Blocks : /\ f2[c].prev = IF c = b THEN b ELSE f1[c].prev
                           /\ f2[c].next = f1[c].next
  BY <1>2, LevelSetPrev
<1> HIDE DEF f2, best2
<1>4. Except(m, m1, {"best"}) /\ m1.best = best2
  BY PutField DEF Fields
<1> HIDE DEF m1
<1>5. Except(m1, m2, {"level"}) /\ m2.level = f2
  <2>1. IsBook(m1) /\ "level" \in Fields
    BY <1>4 DEF Except, Fields
  <2>2. QED
    BY <2>1, PutField
<1> HIDE DEF m2
<1>6. Except(m, r, {"level", "best"}) /\ r.level = f2 /\ r.best = best2
  BY <1>1, <1>4, <1>5 DEF Except, Fields
<1>7. best2[s] = b /\ best2 = [m.best EXCEPT ![s] = best2[s]]
  BY DEF best2
<1>8. SameLevels(m.level, f2)
  BY <1>2, <1>3, SameLevelsThen
<1>9. \A c \in Blocks : /\ f2[c].next = IF c = b THEN b ELSE m.level[c].next
                        /\ f2[c].prev = IF c = b THEN b ELSE m.level[c].prev
  BY <1>2, <1>3
<1>10. RankOf(r, s)[b] \in Int
  <2>1. f2[b].price = m.level[b].price
    BY <1>8 DEF SameLevels, SameLevel
  <2>2. QED
    BY <1>6, <2>1, RankOrders DEF RankOf
<1>11. LevelNext(r)[b] = b /\ LevelPrev(r)[b] = b
  BY <1>6, <1>9 DEF LevelNext, LevelPrev
<1>12. IsRing(RankOf(r, s), {b}, b, LevelNext(r), LevelPrev(r))
  BY <1>10, <1>11, RingAlone
<1>13. {} \cup {b} = {b}
  OBVIOUS
<1>14. QED
  BY <1>3, <1>6, <1>7, <1>8, <1>9, <1>12, <1>13 DEF JoinsSide

\* A level that is linked in front of t, where it fits.
LEMMA LinkedJoins ==
    ASSUME NEW m, IsBook(m), AreLevels(m.level), NEW s \in Sides,
           m.best = [t \in Sides |-> m.best[t]],
           NEW b \in Blocks, NEW N \in SUBSET (Blocks \ {b}),
           IsRing(RankOf(m, s), N, m.best[s], LevelNext(m), LevelPrev(m)),
           RankOf(m, s)[b] \in Int, NEW t \in N, NEW b2,
           FitsIn(RankOf(m, s), N, m.best[s], b2, b, LevelPrev(m)[t], t),
           NEW g, LinkedLevels(m.level, g, b, t),
           NEW r, r = Put(Put(m, "level", g), "best", [m.best EXCEPT ![s] = b2])
    PROVE  JoinsSide(m, r, s, N, b)
<1> DEFINE m1 == Put(m, "level", g)
           best2 == [m.best EXCEPT ![s] = b2]
<1>1. Except(m, m1, {"level"}) /\ m1.level = g
  BY PutField DEF Fields
<1> HIDE DEF m1, best2
<1>2. r = Put(m1, "best", best2)
  BY DEF m1, best2
<1>3. Except(m1, r, {"best"}) /\ r.best = best2
  <2>1. IsBook(m1) /\ "best" \in Fields
    BY <1>1 DEF Except, Fields
  <2>2. QED
    BY <1>2, <2>1, PutField
<1>4. Except(m, r, {"level", "best"}) /\ r.level = g /\ r.best = best2
  BY <1>1, <1>3 DEF Except, Fields
<1>5. best2[s] = b2 /\ best2 = [m.best EXCEPT ![s] = best2[s]]
  BY DEF best2
<1>6. /\ AreLevels(g) /\ SameLevels(m.level, g)
      /\ \A c \in Blocks :
            /\ g[c].next = IF c = m.level[t].prev THEN b ELSE IF c = b THEN t
                           ELSE m.level[c].next
            /\ g[c].prev = IF c = t THEN b ELSE IF c = b THEN m.level[t].prev
                           ELSE m.level[c].prev
  BY DEF LinkedLevels
<1>7. /\ t \in Blocks /\ N \subseteq Blocks
      /\ LevelPrev(m) = [c \in Blocks |-> m.level[c].prev]
      /\ LevelNext(m) = [c \in Blocks |-> m.level[c].next]
      /\ LevelPrev(r) = [c \in Blocks |-> g[c].prev]
      /\ LevelNext(r) = [c \in Blocks |-> g[c].next]
  BY <1>4 DEF LevelPrev, LevelNext
<1>8. LevelPrev(m)[t] \in N /\ LevelPrev(m)[t] = m.level[t].prev
  BY <1>7 DEF IsRing, BackAndForth
<1>9. LinkedAt(N, LevelNext(m), LevelPrev(m), b, t, LevelNext(r), LevelPrev(r))
  <2> DEFINE nx2 == LevelNext(r)
             pv2 == LevelPrev(r)
  <2>1. \A c \in Blocks :
           /\ nx2[c] = IF c = LevelPrev(m)[t] THEN b ELSE IF c = b THEN t
                       ELSE LevelNext(m)[c]
           /\ pv2[c] = IF c = t THEN b ELSE IF c = b THEN LevelPrev(m)[t]
                       ELSE LevelPrev(m)[c]
    BY <1>6, <1>7, <1>8
  <2> HIDE DEF nx2, pv2
  <2>2. LinkedAt(N, LevelNext(m), LevelPrev(m), b, t, nx2, pv2)
    BY <1>7, <1>8, <2>1 DEF LinkedAt
  <2>3. QED
    BY <2>2 DEF nx2, pv2
<1>10. IsRing(RankOf(m, s), N \cup {b}, b2, LevelNext(r), LevelPrev(r))
  BY <1>9, RingInsert
<1>11. RankOf(r, s) = RankOf(m, s)
  <2>1. SameLevels(m.level, r.level)
    BY <1>4, <1>6
  <2>2. QED
    BY <2>1, SameRanks
<1>12. \A c \in Blocks \ (N \cup {b}) : g[c].next = m.level[c].next /\ g[c].prev = m.level[c].prev
  BY <1>6, <1>8
<1>13. QED
  BY <1>4, <1>5, <1>6, <1>10, <1>11, <1>12 DEF JoinsSide


LEMMA PutAgain ==
    ASSUME NEW m, IsBook(m), NEW x \in Fields, NEW u, NEW v
    PROVE  Put(Put(m, x, u), x, v) = Put(m, x, v)
BY DEF IsBook, Put

Alone(m, s, b) ==
    [m EXCEPT !.best[s] = b, !.level[b].next = b, !.level[b].prev = b]

LEMMA FirstIsPut ==
    ASSUME NEW m, IsBook(m), NEW s, NEW b
    PROVE  Alone(m, s, b) =
              Put(Put(m, "best", [m.best EXCEPT ![s] = b]), "level",
                  WithPrev(WithNext(m.level, b, b), b, b))
<1> DEFINE m1 == Put(m, "best", [m.best EXCEPT ![s] = b])
           m2 == Put(m1, "level", WithNext(m1.level, b, b))
           r == Alone(m, s, b)
<1>1. r = Put(m2, "level", WithPrev(m2.level, b, b))
  BY DEF Alone, Put, WithNext, WithPrev
<1>2. IsBook(m1) /\ m1.level = m.level
  <2> DEFINE v == [m.best EXCEPT ![s] = b]
  <2>1. "best" \in Fields /\ "level" \in Fields /\ "level" # "best"
    BY DEF Fields
  <2> HIDE DEF v
  <2>2. Except(m, Put(m, "best", v), {"best"})
    BY <2>1, PutField
  <2>3. QED
    BY <2>1, <2>2 DEF Except, v
<1> HIDE DEF m1, r
<1>3. m2.level = WithNext(m.level, b, b)
  <2>1. "level" \in Fields
    BY DEF Fields
  <2>2. m2["level"] = WithNext(m1.level, b, b)
    BY <1>2, <2>1, PutField
  <2>3. QED
    BY <1>2, <2>2
<1>4. r = Put(m1, "level", WithPrev(WithNext(m.level, b, b), b, b))
  <2>1. "level" \in Fields
    BY DEF Fields
  <2> DEFINE v == WithNext(m1.level, b, b)
             x == WithPrev(WithNext(m.level, b, b), b, b)
  <2>2. r = Put(m2, "level", x) /\ m2 = Put(m1, "level", v)
    BY <1>1, <1>3
  <2> HIDE DEF m2, v, x
  <2>3. r = Put(m1, "level", x)
    BY <1>2, <2>1, <2>2, PutAgain
  <2>4. QED
    BY <2>3 DEF x
<1>5. QED
  BY <1>4 DEF m1, r

\* addOrderAtPrice: the level joins its side, and price_orders_at_price leads
\* to it.
LEMMA AddOrderAtPriceJoins ==
    ASSUME NEW m0, IsBook(m0), AreLevels(m0.level), NEW s \in Sides,
           m0.best = [t \in Sides |-> m0.best[t]],
           NEW b \in Blocks, m0.level[b].side = s, m0.level[b].price \in Nat,
           NEW N \in SUBSET (Blocks \ {b}),
           IsRing(RankOf(m0, s), N, m0.best[s], LevelNext(m0), LevelPrev(m0)),
           \A q \in N : /\ m0.level[q].price \in Nat
                        /\ m0.level[q].price # m0.level[b].price
    PROVE  \E m : /\ Except(m0, m, {"index"})
                  /\ m.index = [m0.index EXCEPT ![PriceToIndex(m0.level[b].price)] = b]
                  /\ JoinsSide(m, AddOrderAtPrice(m0, b), s, N, b)
<1> DEFINE slot == PriceToIndex(m0.level[b].price)
           m == Put(m0, "index", [m0.index EXCEPT ![slot] = b])
           key == RankOf(m, s)
           nx == LevelNext(m)
           pv == LevelPrev(m)
           head == m.best[s]
           w == Walk(nx, head, MaxLevels)
           stops == Stops(m, b, w, head)
           t == w[Min(stops)]
           first == Put(Put(m, "best", [m.best EXCEPT ![s] = b]), "level",
                        WithPrev(WithNext(m.level, b, b), b, b))
           r == AddOrderAtPrice(m0, b)
<1>1. /\ Except(m0, m, {"index"})
      /\ m.index = [m0.index EXCEPT ![PriceToIndex(m0.level[b].price)] = b]
  <2>1. "index" \in Fields
    BY DEF Fields
  <2> DEFINE v == [m0.index EXCEPT ![slot] = b]
  <2> HIDE DEF v
  <2>2. Except(m0, Put(m0, "index", v), {"index"}) /\ Put(m0, "index", v)["index"] = v
    BY <2>1, PutField
  <2>3. QED
    BY <2>2 DEF v
<1>2. r = IF head = Null
          THEN Alone(m, s, b)
          ELSE IF stops = {} THEN Ended(m, "endless")
          ELSE IF t = Null THEN Ended(m, "null_pointer")
          ELSE IF Min(stops) > 0 /\ t = head THEN LinkLast(m, b, head)
          ELSE LinkBefore(m, b, t, head)
  <2> DEFINE side == m0.level[b].side
             x == [m0 EXCEPT !.index[PriceToIndex(m0.level[b].price)] = b]
             h == x.best[side]
             v == Walk(LevelNext(x), h, MaxLevels)
             at == Stops(x, b, v, h)
             u == v[Min(at)]
  <2>1. r = IF h = Null
            THEN Alone(x, side, b)
            ELSE IF at = {} THEN Ended(x, "endless")
            ELSE IF u = Null THEN Ended(x, "null_pointer")
            ELSE IF Min(at) > 0 /\ u = h THEN LinkLast(x, b, h)
            ELSE LinkBefore(x, b, u, h)
    BY DEF AddOrderAtPrice, Alone
  <2>2. x = m /\ side = s
    BY DEF Put
  <2> HIDE DEF m, x, side, r
  <2>3. h = head
    BY <2>2
  <2>4. v = w
    BY <2>2, <2>3
  <2> HIDE DEF h, head, v, w
  <2>5. at = stops
    BY <2>2, <2>3, <2>4
  <2> HIDE DEF at, stops
  <2>6. u = t
    BY <2>4, <2>5
  <2> HIDE DEF u, t
  <2>7. QED
    BY <2>1, <2>2, <2>3, <2>4, <2>5, <2>6
<1> HIDE DEF m, r
<1>3. IsBook(m) /\ m.level = m0.level /\ m.best = m0.best
  BY <1>1 DEF Except, Fields
<1>4. key = RankOf(m0, s) /\ nx = LevelNext(m0) /\ pv = LevelPrev(m0)
  BY <1>3 DEF RankOf, LevelNext, LevelPrev
<1>5. IsRing(key, N, head, nx, pv)
  BY <1>3, <1>4
<1>6. CASE head = Null
  <2>1. N = {}
    BY <1>5, <1>6, BlocksAreFinite DEF IsRing, IsHead
  <2>2. Alone(m, s, b) = first
    BY <1>3, FirstIsPut
  <2>3. r = first
    BY <1>2, <1>6, <2>2
  <2> HIDE DEF first
  <2>4. /\ m.best = [u \in Sides |-> m.best[u]] /\ AreLevels(m.level)
        /\ m.level[b].price \in Nat
    BY <1>3
  <2>5. r = Put(Put(m, "best", [m.best EXCEPT ![s] = b]), "level",
                WithPrev(WithNext(m.level, b, b), b, b))
    BY <2>3 DEF first
  <2>6. JoinsSide(m, r, s, {}, b)
    BY <1>3, <2>4, <2>5, FirstOfSide
  <2>7. QED
    BY <1>1, <2>1, <2>6 DEF r
<1>7. CASE head # Null
  <2>1. N # {} /\ head \in N
    BY <1>5, <1>7 DEF IsRing, IsHead
  <2>2. IsFiniteSet(N) /\ Cardinality(N) <= MaxLevels /\ Null \notin N /\ MaxLevels \in Nat
    BY BlocksAreFinite
  <2>3. /\ \A q \in Blocks : key[q] = Rank(s, m.level[q].price)
        /\ key[b] \in Int
    BY <1>3, RankOrders DEF RankOf
  <2>4. \A q \in N : /\ key[q] # key[b] /\ key[q] \in Int
                     /\ Worse(s, m.level[b].price, m.level[q].price) <=> key[q] < key[b]
                     /\ Worse(s, m.level[q].price, m.level[b].price) <=> key[b] < key[q]
    BY <1>3, <2>3, RankOrders
  <2> HIDE DEF key, nx, pv, head
  <2>5. WalkIs(w, nx, head, MaxLevels)
    BY <2>2, WalkWalks
  <2>6. DOMAIN w = 0 .. MaxLevels
    BY <2>5 DEF WalkIs
  <2> HIDE DEF w
  <2>7. \A k \in 0 .. MaxLevels : w[k] \in N
    BY <1>5, <2>1, <2>2, <2>5, WalkStays
  <2>8. StopsAre(stops, key, b, w, head, MaxLevels)
    <3>1. \A k \in 0 .. MaxLevels :
             ~Worse(m.level[b].side, m.level[b].price, m.level[w[k]].price)
                 <=> key[b] <= key[w[k]]
      BY <1>3, <2>3, <2>4, <2>7
    <3>2. stops = {k \in DOMAIN w :
                      \/ w[k] = Null
                      \/ k > 0 /\ w[k] = head
                      \/ ~Worse(m.level[b].side, m.level[b].price, m.level[w[k]].price)}
      BY DEF Stops
    <3>3. stops = {k \in 0 .. MaxLevels :
                      w[k] = Null \/ (k > 0 /\ w[k] = head) \/ key[b] <= key[w[k]]}
      BY <2>6, <3>1, <3>2
    <3>4. QED
      BY <3>3 DEF StopsAre
  <2> HIDE DEF stops
  <2>9. /\ stops # {} /\ t \in N
        /\ IF Min(stops) > 0 /\ t = head
           THEN FitsIn(key, N, head, head, b, pv[t], t)
           ELSE IF key[b] < key[head]
           THEN t = head /\ FitsIn(key, N, head, b, b, pv[t], t)
           ELSE FitsIn(key, N, head, head, b, pv[t], t)
    BY <1>5, <2>1, <2>2, <2>3, <2>4, <2>5, <2>8, SearchStops
  <2> DEFINE last == Min(stops) > 0 /\ t = head
  <2> HIDE DEF t
  <2>10. r = IF last THEN LinkLast(m, b, head) ELSE LinkBefore(m, b, t, head)
    BY <1>2, <1>7, <2>2, <2>9
  <2>11. /\ pv[t] \in N /\ nx[pv[t]] = t /\ pv[t] \in Blocks /\ t \in Blocks /\ head \in Blocks
         /\ b # t /\ b # pv[t] /\ b # head
         /\ nx[head] = head => pv[head] = head
    BY <1>5, <2>1, <2>9 DEF IsRing, BackAndForth
  <2>12. \A q \in Blocks : nx[q] = m.level[q].next /\ pv[q] = m.level[q].prev
    BY DEF nx, pv, LevelNext, LevelPrev
  <2> DEFINE better == key[b] < key[head]
             b2 == IF ~last /\ better THEN b ELSE head
  <2>13. FitsIn(key, N, head, b2, b, pv[t], t)
    BY <2>9
  <2>14. AreLevels(m.level) /\ m.best = [u \in Sides |-> m.best[u]]
    BY <1>3
  <2>15. \E g : /\ LinkedLevels(m.level, g, b, t)
                /\ r = Put(Put(m, "level", g), "best", [m.best EXCEPT ![s] = b2])
    <3>1. CASE last
      <4>1. b2 = head /\ t = head /\ r = LinkLast(m, b, head)
        BY <2>10, <3>1
      <4>2. \E g : LinkedLevels(m.level, g, b, head) /\ r = Put(m, "level", g)
        BY <1>3, <2>11, <2>12, <2>14, <4>1, LinkLastLinks
      <4>3. PICK g : LinkedLevels(m.level, g, b, head) /\ r = Put(m, "level", g)
        BY <4>2
      <4>4. [m.best EXCEPT ![s] = head] = m.best
        BY <2>14 DEF head
      <4>5. IsBook(r) /\ r["best"] = m.best
        BY <1>3, <4>3 DEF Put, IsBook, Fields
      <4>6. Put(r, "best", m.best) = r
        BY <4>5 DEF Put, IsBook
      <4>7. QED
        BY <4>1, <4>3, <4>4, <4>6
    <3>2. CASE ~last
      <4>1. better => t = head
        BY <2>9, <3>2
      <4>2. better = Worse(s, m.level[head].price, m.level[b].price)
        <5>1. better <=> Worse(s, m.level[head].price, m.level[b].price)
          BY <2>1, <2>4
        <5>2. QED
          BY <5>1 DEF Worse
      <4>3. r = LinkBefore(m, b, t, head)
        BY <2>10, <3>2
      <4>4. b2 = IF better THEN b ELSE head
        BY <3>2
      <4> HIDE DEF better, last, b2
      <4>5. better => t = head /\ (m.level[head].next = head => m.level[t].prev = head)
        BY <2>11, <2>12, <4>1
      <4>6. \E g : /\ LinkedLevels(m.level, g, b, t)
                   /\ LinkBefore(m, b, t, head) =
                        Put(Put(m, "level", g), "best",
                            [m.best EXCEPT ![s] = IF better THEN b ELSE @])
        <5>1. m.level[b].side = s /\ m.level[t].prev = pv[t] /\ m.level[t].prev \in Blocks
              /\ b # m.level[t].prev
          BY <1>3, <2>11, <2>12
        <5>2. QED
          BY <1>3, <2>11, <2>14, <4>2, <4>5, <5>1, LinkBeforeLinks
      <4>7. [m.best EXCEPT ![s] = IF better THEN b ELSE @] = [m.best EXCEPT ![s] = b2]
        BY <4>4 DEF head
      <4>8. QED
        BY <4>3, <4>6, <4>7
    <3>3. QED
      BY <3>1, <3>2
  <2>16. PICK g : LinkedLevels(m.level, g, b, t)
                  /\ r = Put(Put(m, "level", g), "best", [m.best EXCEPT ![s] = b2])
    BY <2>15
  <2> HIDE DEF b2
  <2>17. JoinsSide(m, r, s, N, b)
    <3>1. IsRing(RankOf(m, s), N, m.best[s], LevelNext(m), LevelPrev(m))
      BY <1>5 DEF key, head, nx, pv
    <3>2. FitsIn(RankOf(m, s), N, m.best[s], b2, b, LevelPrev(m)[t], t)
      BY <2>13 DEF key, head, pv
    <3>3. RankOf(m, s)[b] \in Int /\ t \in N
      BY <2>3, <2>9 DEF key
    <3>4. QED
      BY <1>3, <2>14, <2>16, <3>1, <3>2, <3>3, LinkedJoins
  <2>18. QED
    BY <1>1, <2>17 DEF r
<1>8. QED
  BY <1>6, <1>7


-----------------------------------------------------------------------------
(* What a change of the book leaves of its rings. *)

LEMMA LevelRingKept ==
    ASSUME NEW m, NEW r, NEW s, LevelRingInv(m, s),
           OnSide(r, s) = OnSide(m, s), r.best[s] = m.best[s],
           \A c \in OnSide(m, s) : /\ r.level[c].price = m.level[c].price
                                   /\ r.level[c].next = m.level[c].next
                                   /\ r.level[c].prev = m.level[c].prev
    PROVE  LevelRingInv(r, s)
<1> DEFINE N == OnSide(m, s)
           key == RankOf(m, s)
           key2 == RankOf(r, s)
           nx == LevelNext(m)
           nx2 == LevelNext(r)
           pv == LevelPrev(m)
           pv2 == LevelPrev(r)
<1>1. N \subseteq Blocks
  BY DEF OnSide, InUse
<1>2. \A c \in N : key2[c] = key[c] /\ nx2[c] = nx[c] /\ pv2[c] = pv[c]
  BY <1>1 DEF RankOf, LevelNext, LevelPrev
<1>3. IsRing(key, N, m.best[s], nx, pv)
  BY DEF LevelRingInv
<1> HIDE DEF N, key, key2, nx, nx2, pv, pv2
<1>4. IsRing(key2, N, m.best[s], nx2, pv2)
  BY <1>2, <1>3, RingFrame
<1>5. QED
  BY <1>4 DEF LevelRingInv, N, key2, nx2, pv2

\* The ring of orders O of m is one of r.
SameRing(m, r, O) ==
    /\ O \subseteq DOMAIN m.order /\ O \subseteq DOMAIN r.order
    /\ \A o \in O : /\ r.order[o].id = m.order[o].id
                    /\ r.order[o].next = m.order[o].next
                    /\ r.order[o].prev = m.order[o].prev

LEMMA OrderRingKept ==
    ASSUME NEW m, NEW live, NEW r, NEW live2, NEW b, OrderRingInv(m, live, b),
           OrdersAt(r, live2, b) = OrdersAt(m, live, b),
           r.level[b].first = m.level[b].first, SameRing(m, r, OrdersAt(m, live, b))
    PROVE  OrderRingInv(r, live2, b)
<1> DEFINE N == OrdersAt(m, live, b)
           key == IdOf(m)
           key2 == IdOf(r)
           nx == OrderNext(m)
           nx2 == OrderNext(r)
           pv == OrderPrev(m)
           pv2 == OrderPrev(r)
<1>1. \A c \in N : key2[c] = key[c] /\ nx2[c] = nx[c] /\ pv2[c] = pv[c]
  BY DEF IdOf, OrderNext, OrderPrev, SameRing
<1>2. IsRing(key, N, m.level[b].first, nx, pv) /\ N # {}
  BY DEF OrderRingInv
<1> HIDE DEF N, key, key2, nx, nx2, pv, pv2
<1>3. IsRing(key2, N, m.level[b].first, nx2, pv2)
  BY <1>1, <1>2, RingFrame
<1>4. QED
  BY <1>2, <1>3 DEF OrderRingInv, N, key2, nx2, pv2

\* A change of the orders leaves the levels alone.
LEMMA PoolKept ==
    ASSUME NEW m, NEW r, Except(m, r, {"order", "byId"})
    PROVE  /\ PoolInv(m) => PoolInv(r)
           /\ InUse(r) = InUse(m) /\ \A s : OnSide(r, s) = OnSide(m, s)
           /\ \A s : LevelRingInv(m, s) => LevelRingInv(r, s)
           /\ \A price : LevelAt(r, price) = LevelAt(m, price)
           /\ r.level = m.level /\ r.status = m.status
<1>1. /\ r.level = m.level /\ r.free = m.free /\ r.cursor = m.cursor
      /\ r.index = m.index /\ r.best = m.best /\ r.status = m.status
  BY DEF Except, Fields
<1>2. InUse(r) = InUse(m) /\ \A s : OnSide(r, s) = OnSide(m, s)
  BY <1>1 DEF InUse, OnSide
<1>3. \A s : LevelRingInv(m, s) => LevelRingInv(r, s)
  BY <1>1, <1>2 DEF LevelRingInv, RankOf, LevelNext, LevelPrev
<1>4. \A price : LevelAt(r, price) = LevelAt(m, price)
  BY <1>1 DEF LevelAt
<1>5. PoolInv(m) => PoolInv(r)
  BY <1>1, <1>2, <1>4 DEF PoolInv
<1>6. QED
  BY <1>1, <1>2, <1>3, <1>4, <1>5

\* Levels in use differ in their prices.
LEMMA PricesDiffer ==
    ASSUME NEW m, PoolInv(m), NEW b \in InUse(m), NEW c \in InUse(m),
           m.level[b].price = m.level[c].price
    PROVE  b = c
BY DEF PoolInv

LEMMA OrderSetNext ==
    ASSUME NEW f, AreOrders(f), NEW a \in DOMAIN f, NEW v
    PROVE  LET g == WithNext(f, a, v)
           IN  /\ AreOrders(g) /\ SameOrders(f, g)
               /\ \A k \in DOMAIN f : /\ g[k].next = IF k = a THEN v ELSE f[k].next
                                      /\ g[k].prev = f[k].prev
<1>1. AreOrders(WithNext(f, a, v)) /\ SameOrders(f, WithNext(f, a, v))
  BY RelinkNext DEF WithNext
<1>2. \A k \in DOMAIN f : IsOrder(f[k])
  BY DEF AreOrders
<1>3. \A k \in DOMAIN f :
         /\ WithNext(f, a, v)[k].next = IF k = a THEN v ELSE f[k].next
         /\ WithNext(f, a, v)[k].prev = f[k].prev
  BY <1>2 DEF WithNext, IsOrder
<1>4. QED
  BY <1>1, <1>3

LEMMA OrderSetPrev ==
    ASSUME NEW f, AreOrders(f), NEW a \in DOMAIN f, NEW v
    PROVE  LET g == WithPrev(f, a, v)
           IN  /\ AreOrders(g) /\ SameOrders(f, g)
               /\ \A k \in DOMAIN f : /\ g[k].prev = IF k = a THEN v ELSE f[k].prev
                                      /\ g[k].next = f[k].next
<1>1. AreOrders(WithPrev(f, a, v)) /\ SameOrders(f, WithPrev(f, a, v))
  BY RelinkPrev DEF WithPrev
<1>2. \A k \in DOMAIN f : IsOrder(f[k])
  BY DEF AreOrders
<1>3. \A k \in DOMAIN f :
         /\ WithPrev(f, a, v)[k].prev = IF k = a THEN v ELSE f[k].prev
         /\ WithPrev(f, a, v)[k].next = f[k].next
  BY <1>2 DEF WithPrev, IsOrder
<1>4. QED
  BY <1>1, <1>3

\* g is f with order o linked in front of order t.
LinkedOrders(f, g, o, t) ==
    /\ AreOrders(g) /\ SameOrders(f, g)
    /\ \A k \in DOMAIN f :
          /\ g[k].next = IF k = f[t].prev THEN o ELSE IF k = o THEN t ELSE f[k].next
          /\ g[k].prev = IF k = t THEN o ELSE IF k = o THEN f[t].prev ELSE f[k].prev

Behind(f, last, o, first) ==
    [[f EXCEPT ![last].next = o]
        EXCEPT ![o].prev = last, ![o].next = first, ![first].prev = o]

LEMMA BehindLinks ==
    ASSUME NEW f, AreOrders(f), NEW o \in DOMAIN f, NEW first \in DOMAIN f,
           NEW last \in DOMAIN f, last = f[first].prev, o # first, o # last
    PROVE  LinkedOrders(f, Behind(f, last, o, first), o, first)
<1> DEFINE f1 == WithNext(f, last, o)
           f2 == WithPrev(f1, o, last)
           f3 == WithNext(f2, o, first)
           f4 == WithPrev(f3, first, o)
<1>1. f4 = Behind(f, last, o, first)
  BY DEF WithNext, WithPrev, Behind
<1>2. /\ AreOrders(f1) /\ SameOrders(f, f1)
      /\ \A k \in DOMAIN f : /\ f1[k].next = IF k = last THEN o ELSE f[k].next
                             /\ f1[k].prev = f[k].prev
  BY OrderSetNext
<1> HIDE DEF f1
<1>3. DOMAIN f1 = DOMAIN f
  BY <1>2 DEF SameOrders
<1>4. /\ AreOrders(f2) /\ SameOrders(f1, f2)
      /\ \A k \in DOMAIN f : /\ f2[k].prev = IF k = o THEN last ELSE f1[k].prev
                             /\ f2[k].next = f1[k].next
  BY <1>2, <1>3, OrderSetPrev
<1> HIDE DEF f2
<1>5. DOMAIN f2 = DOMAIN f
  BY <1>3, <1>4 DEF SameOrders
<1>6. /\ AreOrders(f3) /\ SameOrders(f2, f3)
      /\ \A k \in DOMAIN f : /\ f3[k].next = IF k = o THEN first ELSE f2[k].next
                             /\ f3[k].prev = f2[k].prev
  BY <1>4, <1>5, OrderSetNext
<1> HIDE DEF f3
<1>7. DOMAIN f3 = DOMAIN f
  BY <1>5, <1>6 DEF SameOrders
<1>8. /\ AreOrders(f4) /\ SameOrders(f3, f4)
      /\ \A k \in DOMAIN f : /\ f4[k].prev = IF k = first THEN o ELSE f3[k].prev
                             /\ f4[k].next = f3[k].next
  BY <1>6, <1>7, OrderSetPrev
<1> HIDE DEF f4
<1>9. SameOrders(f, f4)
  BY <1>2, <1>4, <1>6, <1>8, SameTransitive
<1>10. \A k \in DOMAIN f :
          /\ f4[k].next = IF k = last THEN o ELSE IF k = o THEN first ELSE f[k].next
          /\ f4[k].prev = IF k = first THEN o ELSE IF k = o THEN last ELSE f[k].prev
  BY <1>2, <1>4, <1>6, <1>8
<1>11. LinkedOrders(f, f4, o, first)
  BY <1>8, <1>9, <1>10 DEF LinkedOrders
<1>12. QED
  BY <1>1, <1>11


-----------------------------------------------------------------------------
(* addOrder. *)

\* Order o of m is new, and newer than those of live.
IsNew(m, live, o) ==
    /\ AreOrders(m.order) /\ o \in DOMAIN m.order
    /\ live \subseteq DOMAIN m.order \ {o}
    /\ m.order[o].side \in Sides /\ m.order[o].price \in Nat /\ m.order[o].id \in Int
    /\ \A a \in live : m.order[a].id < m.order[o].id

\* The order goes behind the others of its level.
LEMMA AddOrderBehind ==
    ASSUME NEW m, IsBook(m), NEW live, Rings(m, live), NEW o, IsNew(m, live, o),
           HasLevel(m, o)
    PROVE  LET r == AddOrder(m, o)
           IN  /\ Except(m, r, {"order", "byId"}) /\ SameOrders(m.order, r.order)
               /\ Rings(r, live \cup {o})
<1> DEFINE x == m.order[o]
           b == LevelAt(m, x.price)
           first == m.level[b].first
           last == m.order[first].prev
           names == [m.byId EXCEPT ![x.id] = o]
           known == [m EXCEPT !.byId[x.id] = o]
           linked == [known EXCEPT
                         !.order = [[@ EXCEPT ![last].next = o]
                                       EXCEPT ![o].prev = last, ![o].next = first,
                                              ![first].prev = o]]
           g == Behind(m.order, last, o, first)
           r == AddOrder(m, o)
           O == OrdersAt(m, live, b)
           key == IdOf(m)
           nx == OrderNext(m)
           pv == OrderPrev(m)
<1>1. b \in InUse(m) /\ m.level[b].side = x.side /\ m.level[b].price = x.price
      /\ b \in Blocks /\ b # Null
  BY BlocksAreFinite DEF HasLevel, InUse
<1>2. b # Null /\ last # Null => r = linked
  BY DEF AddOrder
<1>3. linked = Put(Put(m, "byId", names), "order", Behind(known.order, last, o, first))
  BY DEF Put, Behind
<1>n. m.order[o] = x
  OBVIOUS
<1> HIDE DEF x, b, first, last, r
<1>4. Except(m, Put(m, "byId", names), {"byId"})
  <2> HIDE DEF names
  <2>1. "byId" \in Fields
    BY DEF Fields
  <2>2. QED
    BY <2>1, PutField
<1>5. known = Put(m, "byId", names)
  BY DEF Put
<1> HIDE DEF known, linked, names
<1>6. IsBook(known) /\ known.order = m.order
  BY <1>4, <1>5 DEF Except, Fields
<1>7. linked = Put(known, "order", g)
  BY <1>3, <1>5, <1>6
<1> HIDE DEF g
<1>8. Except(known, linked, {"order"}) /\ linked.order = g
  <2>1. "order" \in Fields
    BY DEF Fields
  <2>2. QED
    BY <1>6, <1>7, <2>1, PutField
<1>9. Except(m, linked, {"order", "byId"})
  BY <1>4, <1>5, <1>8 DEF Except
<1>10. OrderRingInv(m, live, b)
  BY <1>1 DEF Rings
<1>11. /\ O # {} /\ O \subseteq live /\ O \subseteq DOMAIN m.order /\ o \notin O
       /\ IsRing(key, O, first, nx, pv)
  BY <1>10 DEF OrderRingInv, OrdersAt, IsNew, first
<1>12. /\ first \in O /\ \A a \in O : pv[a] \in O /\ nx[a] \in O
  BY <1>11 DEF IsRing, IsHead, BackAndForth
<1>13. \A a \in DOMAIN m.order : /\ nx[a] = m.order[a].next /\ pv[a] = m.order[a].prev
                                 /\ key[a] = m.order[a].id
  BY DEF OrderNext, OrderPrev, IdOf
<1> HIDE DEF O, key, nx, pv
<1>14. last \in O /\ last = pv[first] /\ last \in DOMAIN m.order /\ last # Null
       /\ first \in DOMAIN m.order /\ o # first /\ o # last /\ o \in DOMAIN m.order
       /\ AreOrders(m.order)
  <2>1. last = pv[first] /\ last \in O /\ last \in DOMAIN m.order
    BY <1>11, <1>12, <1>13 DEF last
  <2>2. AreOrders(m.order) /\ o \in DOMAIN m.order
    BY DEF IsNew
  <2>3. last # Null
    BY <2>1, <2>2, MarketOrderBookAssumption DEF AreOrders
  <2>4. QED
    BY <1>11, <1>12, <2>1, <2>2, <2>3
<1>15. r = linked
  BY <1>1, <1>2, <1>14
<1>16. LinkedOrders(m.order, g, o, first)
  BY <1>14, BehindLinks DEF g, last
<1>17. /\ AreOrders(g) /\ SameOrders(m.order, g) /\ DOMAIN g = DOMAIN m.order
       /\ \A k \in DOMAIN m.order :
             /\ g[k].next = IF k = last THEN o ELSE IF k = o THEN first ELSE m.order[k].next
             /\ g[k].prev = IF k = first THEN o ELSE IF k = o THEN last ELSE m.order[k].prev
             /\ g[k].id = m.order[k].id /\ g[k].side = m.order[k].side
             /\ g[k].price = m.order[k].price
  <2>1. last = m.order[first].prev
    BY DEF last
  <2>2. QED
    BY <1>16, <2>1 DEF LinkedOrders, SameOrders, Alike
<1>18. r.order = g /\ Except(m, r, {"order", "byId"})
  BY <1>8, <1>9, <1>15
<1>19. /\ PoolInv(r) /\ InUse(r) = InUse(m) /\ r.level = m.level
       /\ \A s \in Sides : LevelRingInv(r, s)
       /\ \A price : LevelAt(r, price) = LevelAt(m, price)
  <2>1. PoolInv(m) /\ \A s \in Sides : LevelRingInv(m, s)
    BY DEF Rings
  <2>2. QED
    BY <1>18, <2>1, PoolKept
<1>20. ASSUME NEW a \in live \cup {o} PROVE HasLevel(r, a)
  <2>1. HasLevel(m, a) /\ a \in DOMAIN m.order
    BY DEF Rings, IsNew
  <2>2. r.order[a].price = m.order[a].price /\ r.order[a].side = m.order[a].side
    BY <1>17, <1>18, <2>1
  <2>3. QED
    BY <1>19, <2>1, <2>2 DEF HasLevel
<1>21. \A c \in Blocks : OrdersAt(r, live \cup {o}, c) =
          IF x.side = m.level[c].side /\ x.price = m.level[c].price
          THEN OrdersAt(m, live, c) \cup {o} ELSE OrdersAt(m, live, c)
  <2>1. \A a \in live \cup {o} :
           r.order[a].price = m.order[a].price /\ r.order[a].side = m.order[a].side
    BY <1>17, <1>18 DEF IsNew
  <2>2. QED
    BY <1>19, <1>n, <2>1 DEF OrdersAt
<1>22. ASSUME NEW c \in InUse(m), c # b PROVE OrderRingInv(r, live \cup {o}, c)
  <2>1. c \in Blocks /\ m.level[c].price # x.price
    BY <1>1, <1>22, PricesDiffer DEF InUse, Rings
  <2>2. OrdersAt(r, live \cup {o}, c) = OrdersAt(m, live, c)
    BY <1>21, <2>1
  <2>3. SameRing(m, r, OrdersAt(m, live, c))
    <3>1. ASSUME NEW a \in OrdersAt(m, live, c)
          PROVE  a \in DOMAIN m.order /\ a # o /\ a # first /\ a # last
      <4>1. a \in live /\ m.order[a].price = m.level[c].price
        BY DEF OrdersAt
      <4>2. \A q \in O : m.order[q].price = m.level[b].price
        BY DEF O, OrdersAt
      <4>3. QED
        BY <1>1, <1>12, <1>14, <2>1, <4>1, <4>2 DEF IsNew
    <3>2. QED
      BY <1>17, <1>18, <3>1 DEF SameRing
  <2>4. OrderRingInv(m, live, c)
    BY DEF Rings
  <2>5. r.level[c].first = m.level[c].first
    BY <1>19
  <2>6. QED
    BY <2>2, <2>3, <2>4, <2>5, OrderRingKept
<1>23. OrderRingInv(r, live \cup {o}, b)
  <2> DEFINE key2 == IdOf(r)
             nx2 == OrderNext(r)
             pv2 == OrderPrev(r)
  <2>1. OrdersAt(r, live \cup {o}, b) = O \cup {o}
    BY <1>1, <1>21 DEF O
  <2>2. \A k \in DOMAIN m.order :
           /\ nx2[k] = IF k = last THEN o ELSE IF k = o THEN first ELSE nx[k]
           /\ pv2[k] = IF k = first THEN o ELSE IF k = o THEN last ELSE pv[k]
           /\ key2[k] = key[k]
    BY <1>13, <1>17, <1>18 DEF OrderNext, OrderPrev, IdOf
  <2> HIDE DEF key2, nx2, pv2
  <2>3. IsRing(key2, O, first, nx, pv)
    BY <1>11, <2>2, RingFrame
  <2>4. LinkedAt(O, nx, pv, o, first, nx2, pv2)
    BY <1>11, <1>12, <1>14, <2>2 DEF LinkedAt
  <2>5. key2[o] \in Int /\ \A q \in O : key2[q] < key2[o]
    BY <1>11, <1>13, <1>14, <2>2 DEF IsNew
  <2>6. FitsIn(key2, O, first, first, o, pv[first], first)
    BY <2>5 DEF FitsIn
  <2>7. IsRing(key2, O \cup {o}, first, nx2, pv2)
    BY <1>11, <1>12, <2>3, <2>4, <2>5, <2>6, RingInsert
  <2>8. r.level[b].first = first
    BY <1>19 DEF first
  <2>9. QED
    BY <2>1, <2>7, <2>8 DEF OrderRingInv, key2, nx2, pv2
<1>24. Rings(r, live \cup {o})
  BY <1>19, <1>20, <1>22, <1>23 DEF Rings
<1>25. QED
  BY <1>17, <1>18, <1>24 DEF r


\* What the first order of a new level b makes of m: r has the level, as the
\* only one at its price.
TakesLevel(m, r, o, b) ==
    LET x == m.order[o] IN
    /\ Except(m, r, {"order", "byId", "level", "free", "cursor", "index", "best"})
    /\ AreLevels(r.level)
    /\ r.free = [m.free EXCEPT ![b] = FALSE]
    /\ r.cursor \in Blocks /\ r.free[r.cursor]
    /\ r.index = [m.index EXCEPT ![PriceToIndex(x.price)] = b]
    /\ r.best = [m.best EXCEPT ![x.side] = r.best[x.side]]
    /\ r.level[b].side = x.side /\ r.level[b].price = x.price /\ r.level[b].first = o
    /\ \A c \in Blocks \ {b} : SameLevel(m.level[c], r.level[c])
    /\ \A c \in Blocks \ (OnSide(m, x.side) \cup {b}) :
          r.level[c].next = m.level[c].next /\ r.level[c].prev = m.level[c].prev
    /\ IsRing(RankOf(r, x.side), OnSide(m, x.side) \cup {b}, r.best[x.side],
              LevelNext(r), LevelPrev(r))
    /\ AreOrders(r.order) /\ SameOrders(m.order, r.order)
    /\ r.order[o].next = o /\ r.order[o].prev = o
    /\ \A k \in DOMAIN m.order \ {o} :
          r.order[k].next = m.order[k].next /\ r.order[k].prev = m.order[k].prev

LEMMA AddOrderTakes ==
    ASSUME NEW m, IsBook(m), m.status = "running", NEW live, Rings(m, live),
           NEW o, IsNew(m, live, o), LevelAt(m, m.order[o].price) = Null
    PROVE  LET r == AddOrder(m, o)
           IN  /\ r.status \in {"running", "out_of_space"}
               /\ r.status = "running" => TakesLevel(m, r, o, m.cursor)
<1> DEFINE x == m.order[o]
           b == m.cursor
           s == x.side
           names == [m.byId EXCEPT ![x.id] = o]
           known == [m EXCEPT !.byId[x.id] = o]
           alone == [known EXCEPT !.order[o].next = o, !.order[o].prev = o]
           content == [side |-> x.side, price |-> x.price, first |-> o,
                       next |-> Null, prev |-> Null]
           new == Allocate(alone, content)
           g1 == WithNext(m.order, o, o)
           g == WithPrev(g1, o, o)
           r == AddOrder(m, o)
           N == OnSide(m, s)
<1>1. r = IF new.status # "running" THEN new ELSE AddOrderAtPrice(new, b)
  BY DEF AddOrder
<1>2. alone = Put(Put(known, "order", WithNext(known.order, o, o)), "order",
                  WithPrev(Put(known, "order", WithNext(known.order, o, o)).order, o, o))
  BY DEF Put, WithNext, WithPrev
<1>3. known = Put(m, "byId", names)
  BY DEF Put
<1>c. /\ content.side = x.side /\ content.price = x.price /\ content.first = o
      /\ IsLevel(content)
  BY DEF IsLevel
<1>x. m.order[o] = x /\ x.side = s /\ s \in Sides /\ x.price \in Nat
  BY DEF IsNew
<1> HIDE DEF x, names, known, alone, content, r, new, s
<1>4. Except(m, known, {"byId"}) /\ known.order = m.order /\ IsBook(known)
  <2>1. "byId" \in Fields
    BY DEF Fields
  <2>2. Except(m, known, {"byId"})
    BY <1>3, <2>1, PutField
  <2>3. QED
    BY <2>2 DEF Except, Fields
<1>5. /\ AreOrders(g) /\ SameOrders(m.order, g)
      /\ g[o].next = o /\ g[o].prev = o
      /\ \A k \in DOMAIN m.order \ {o} :
            g[k].next = m.order[k].next /\ g[k].prev = m.order[k].prev
  <2>1. AreOrders(m.order) /\ o \in DOMAIN m.order
    BY DEF IsNew
  <2>2. /\ AreOrders(g1) /\ SameOrders(m.order, g1)
        /\ \A k \in DOMAIN m.order :
              /\ g1[k].next = IF k = o THEN o ELSE m.order[k].next
              /\ g1[k].prev = m.order[k].prev
    BY <2>1, OrderSetNext
  <2> HIDE DEF g1
  <2>3. DOMAIN g1 = DOMAIN m.order
    BY <2>2 DEF SameOrders
  <2>4. /\ AreOrders(g) /\ SameOrders(g1, g)
        /\ \A k \in DOMAIN m.order :
              /\ g[k].prev = IF k = o THEN o ELSE g1[k].prev
              /\ g[k].next = g1[k].next
    BY <2>1, <2>2, <2>3, OrderSetPrev
  <2> HIDE DEF g
  <2>5. SameOrders(m.order, g)
    BY <2>2, <2>4, SameTransitive
  <2>6. QED
    BY <2>1, <2>2, <2>4, <2>5
<1>6. Except(m, alone, {"order", "byId"}) /\ alone.order = g
  <2> DEFINE k1 == Put(known, "order", WithNext(known.order, o, o))
  <2>1. "order" \in Fields
    BY DEF Fields
  <2>2. alone = Put(k1, "order", WithPrev(k1.order, o, o))
    BY <1>2
  <2>3. Except(known, k1, {"order"}) /\ k1.order = g1
    BY <1>4, <2>1, PutField
  <2> HIDE DEF k1, g1
  <2>4. IsBook(k1)
    BY <2>3 DEF Except
  <2>5. Except(k1, alone, {"order"}) /\ alone.order = WithPrev(k1.order, o, o)
    BY <2>1, <2>2, <2>4, PutField
  <2>6. alone.order = g
    BY <2>3, <2>5
  <2> HIDE DEF g
  <2>7. QED
    BY <1>4, <2>3, <2>5, <2>6 DEF Except
<1> HIDE DEF g, g1
<1>7. PoolInv(alone) /\ alone.level = m.level /\ IsBook(alone)
      /\ alone.status = "running" /\ alone.free = m.free /\ alone.cursor = b
      /\ alone.index = m.index /\ alone.best = m.best
  <2>1. PoolInv(m)
    BY DEF Rings
  <2>2. PoolInv(alone) /\ alone.level = m.level /\ alone.status = "running"
    BY <1>6, <2>1, PoolKept
  <2>3. QED
    BY <1>6, <2>2 DEF Except, Fields
<1>8. /\ new.status \in {"running", "out_of_space"}
      /\ new.status = "running" =>
            /\ Except(alone, new, {"level", "free", "cursor"})
            /\ new.level = [m.level EXCEPT ![b] = content]
            /\ new.free = [m.free EXCEPT ![b] = FALSE]
            /\ new.cursor \in Blocks /\ new.free[new.cursor]
  BY <1>7, AllocateTakes DEF new
<1>9. CASE new.status # "running"
  BY <1>1, <1>8, <1>9 DEF r
<1>10. CASE new.status = "running"
  <2>1. /\ Except(alone, new, {"level", "free", "cursor"}) /\ IsBook(new)
        /\ new.level = [m.level EXCEPT ![b] = content]
        /\ new.free = [m.free EXCEPT ![b] = FALSE]
        /\ new.cursor \in Blocks /\ new.free[new.cursor]
        /\ new.index = m.index /\ new.best = m.best /\ new.order = g
    BY <1>6, <1>7, <1>8, <1>10 DEF Except, Fields
  <2>2. /\ AreLevels(m.level) /\ b \in Blocks /\ m.free[b]
        /\ m.best = [t \in Sides |-> m.best[t]]
        /\ LevelRingInv(m, s)
    BY <1>x DEF Rings, PoolInv
  <2>3. /\ AreLevels(new.level) /\ new.level[b] = content
        /\ \A c \in Blocks \ {b} : new.level[c] = m.level[c]
    BY <1>c, <2>1, <2>2 DEF AreLevels
  <2>4. b \notin N /\ N \in SUBSET (Blocks \ {b}) /\ N \subseteq Blocks
    BY <2>2 DEF OnSide, InUse
  <2>5. IsRing(RankOf(new, s), N, new.best[s], LevelNext(new), LevelPrev(new))
    <3> DEFINE key == RankOf(m, s)
               nx == LevelNext(m)
               pv == LevelPrev(m)
               key2 == RankOf(new, s)
               nx2 == LevelNext(new)
               pv2 == LevelPrev(new)
    <3>1. IsRing(key, N, m.best[s], nx, pv)
      BY <2>2 DEF LevelRingInv
    <3>2. \A c \in N : key2[c] = key[c] /\ nx2[c] = nx[c] /\ pv2[c] = pv[c]
      BY <2>3, <2>4 DEF RankOf, LevelNext, LevelPrev
    <3> HIDE DEF key, nx, pv, key2, nx2, pv2, N
    <3>3. IsRing(key2, N, m.best[s], nx2, pv2)
      BY <3>1, <3>2, RingFrame
    <3>4. QED
      BY <2>1, <3>3 DEF key2, nx2, pv2
  <2>6. \A q \in N : /\ new.level[q].price \in Nat
                     /\ new.level[q].price # x.price
    <3>1. ASSUME NEW q \in N
          PROVE  m.level[q].price \in Nat /\ m.level[q].price # x.price
      <4>1. q \in InUse(m) /\ q # Null
        BY <2>4, BlocksAreFinite DEF OnSide
      <4>2. LevelAt(m, m.level[q].price) = q /\ m.level[q].price \in Nat
        BY <4>1 DEF Rings, PoolInv
      <4>3. QED
        BY <1>x, <4>1, <4>2
    <3>2. QED
      BY <2>3, <2>4, <3>1
  <2>7. /\ new.level[b].side = s /\ new.level[b].price = x.price /\ new.level[b].first = o
        /\ new.best = [t \in Sides |-> new.best[t]]
    BY <1>c, <1>x, <2>1, <2>2, <2>3
  <2> HIDE DEF N, b
  <2>8. \E q : /\ Except(new, q, {"index"})
               /\ q.index = [new.index EXCEPT ![PriceToIndex(new.level[b].price)] = b]
               /\ JoinsSide(q, AddOrderAtPrice(new, b), s, N, b)
    <3>1. \A q \in N : /\ new.level[q].price \in Nat
                       /\ new.level[q].price # new.level[b].price
      BY <2>6, <2>7
    <3>2. new.level[b].price \in Nat
      BY <1>x, <2>7
    <3>3. QED
      BY <1>x, <2>1, <2>2, <2>3, <2>4, <2>5, <2>7, <3>1, <3>2, AddOrderAtPriceJoins
  <2>9. r = AddOrderAtPrice(new, b)
    BY <1>1, <1>10
  <2>10. PICK q : /\ Except(new, q, {"index"})
                  /\ q.index = [m.index EXCEPT ![PriceToIndex(x.price)] = b]
                  /\ JoinsSide(q, r, s, N, b)
    BY <2>1, <2>7, <2>8, <2>9
  <2>11. /\ Except(q, r, {"level", "best"}) /\ r.best = [q.best EXCEPT ![s] = r.best[s]]
         /\ AreLevels(r.level) /\ SameLevels(q.level, r.level)
         /\ \A c \in Blocks \ (N \cup {b}) :
               r.level[c].next = q.level[c].next /\ r.level[c].prev = q.level[c].prev
         /\ IsRing(RankOf(r, s), N \cup {b}, r.best[s], LevelNext(r), LevelPrev(r))
    BY <2>10 DEF JoinsSide
  <2>12. q.level = new.level /\ q.best = m.best /\ q.free = new.free
         /\ q.cursor = new.cursor /\ q.order = g
    BY <2>1, <2>10 DEF Except, Fields
  <2>13. r.free = [m.free EXCEPT ![b] = FALSE] /\ r.cursor = new.cursor /\ r.order = g
         /\ r.index = [m.index EXCEPT ![PriceToIndex(x.price)] = b]
         /\ r.free[r.cursor] /\ r.cursor \in Blocks
    <3>1. Except(q, r, {"level", "best"})
      BY <2>11
    <3>2. r.free = q.free /\ r.cursor = q.cursor /\ r.order = q.order /\ r.index = q.index
      BY <3>1 DEF Except, Fields
    <3>3. QED
      BY <2>1, <2>10, <2>12, <3>2
  <2>14. Except(m, r, {"order", "byId", "level", "free", "cursor", "index", "best"})
    BY <1>6, <2>1, <2>10, <2>11 DEF Except
  <2>15. r.status = "running"
    <3>1. "status" \in Fields \ {"order", "byId", "level", "free", "cursor", "index", "best"}
      BY DEF Fields
    <3>2. QED
      BY <2>14, <3>1 DEF Except
  <2>16. /\ \A c \in Blocks \ {b} : SameLevel(m.level[c], r.level[c])
         /\ r.level[b].side = s /\ r.level[b].price = x.price /\ r.level[b].first = o
    BY <2>2, <2>3, <2>7, <2>11, <2>12 DEF SameLevels, SameLevel
  <2>17. \A c \in Blocks \ (N \cup {b}) :
             r.level[c].next = m.level[c].next /\ r.level[c].prev = m.level[c].prev
    BY <2>3, <2>11, <2>12
  <2>18. TakesLevel(m, r, o, b)
    BY <1>5, <1>x, <2>11, <2>12, <2>13, <2>14, <2>16, <2>17 DEF TakesLevel, N
  <2>19. QED
    BY <2>15, <2>18 DEF r, b
<1>11. QED
  BY <1>9, <1>10


\* A new level with the new order.
LEMMA AddOrderAlone ==
    ASSUME NEW m, IsBook(m), NEW live, Rings(m, live), NEW o, IsNew(m, live, o),
           LevelAt(m, m.order[o].price) = Null,
           NEW r, NEW b, b = m.cursor, TakesLevel(m, r, o, b)
    PROVE  Rings(r, live \cup {o})
<1> DEFINE x == m.order[o]
           s == x.side
           slot == PriceToIndex(x.price)
           N == OnSide(m, s)
<1>x. m.order[o] = x /\ x.side = s /\ s \in Sides /\ x.price \in Nat /\ slot \in Blocks
      /\ m.index[slot] = Null /\ x.id \in Int
  BY Slot DEF IsNew, LevelAt
<1>s. \A p : LevelAt(m, p) = m.index[PriceToIndex(p)] /\ LevelAt(r, p) = r.index[PriceToIndex(p)]
  BY DEF LevelAt
<1>1. PoolInv(m) /\ b \in Blocks /\ m.free[b] /\ m.free \in [Blocks -> BOOLEAN]
      /\ m.index \in [Blocks -> Blocks \cup {Null}]
      /\ m.best = [t \in Sides |-> m.best[t]]
  BY DEF Rings, PoolInv
<1>2. \A c \in InUse(m) : /\ c \in Blocks /\ c # b /\ c # Null
                          /\ m.level[c].side \in Sides /\ m.level[c].price \in Nat
                          /\ m.index[PriceToIndex(m.level[c].price)] = c
                          /\ PriceToIndex(m.level[c].price) \in Blocks
                          /\ PriceToIndex(m.level[c].price) # slot
  <2>1. ASSUME NEW c \in InUse(m)
        PROVE  /\ c \in Blocks /\ c # b /\ c # Null
               /\ m.level[c].side \in Sides /\ m.level[c].price \in Nat
               /\ m.index[PriceToIndex(m.level[c].price)] = c
    BY <1>1, BlocksAreFinite DEF PoolInv, LevelAt, InUse
  <2>2. QED
    BY <1>x, <2>1, Slot
<1> HIDE DEF slot, s, x, N
<1>3. /\ AreLevels(r.level)
      /\ r.free = [m.free EXCEPT ![b] = FALSE]
      /\ r.cursor \in Blocks /\ r.free[r.cursor]
      /\ r.index = [m.index EXCEPT ![slot] = b]
      /\ r.best = [m.best EXCEPT ![s] = r.best[s]]
      /\ r.level[b].side = s /\ r.level[b].price = x.price /\ r.level[b].first = o
      /\ \A c \in Blocks \ {b} : SameLevel(m.level[c], r.level[c])
      /\ \A c \in Blocks \ (N \cup {b}) :
            r.level[c].next = m.level[c].next /\ r.level[c].prev = m.level[c].prev
      /\ IsRing(RankOf(r, s), N \cup {b}, r.best[s], LevelNext(r), LevelPrev(r))
      /\ AreOrders(r.order) /\ SameOrders(m.order, r.order)
      /\ r.order[o].next = o /\ r.order[o].prev = o
      /\ \A k \in DOMAIN m.order \ {o} :
            r.order[k].next = m.order[k].next /\ r.order[k].prev = m.order[k].prev
  BY DEF TakesLevel, x, s, slot, N
<1>4. InUse(r) = InUse(m) \cup {b}
  BY <1>1, <1>3 DEF InUse
<1>5. \A c \in InUse(m) : /\ r.level[c].side = m.level[c].side
                          /\ r.level[c].price = m.level[c].price
                          /\ r.level[c].first = m.level[c].first
  BY <1>2, <1>3 DEF SameLevel
<1>6. /\ OnSide(r, s) = N \cup {b}
      /\ \A t \in Sides \ {s} : OnSide(r, t) = OnSide(m, t)
  BY <1>3, <1>4, <1>5 DEF OnSide, N
<1>7. /\ r.index[slot] = b /\ r.index \in [Blocks -> Blocks \cup {Null}]
      /\ \A i \in Blocks \ {slot} : r.index[i] = m.index[i]
  BY <1>1, <1>3, <1>x
<1>8. \A c \in InUse(m) : LevelAt(r, r.level[c].price) = c
  BY <1>s, <1>2, <1>5, <1>7
<1>9. PoolInv(r)
  <2>1. r.free \in [Blocks -> BOOLEAN]
    BY <1>1, <1>3
  <2>2. r.best = [t \in Sides |-> r.best[t]]
    BY <1>1, <1>3
  <2>3. LevelAt(r, r.level[b].price) = b
    BY <1>3, <1>7, <1>s DEF slot
  <2>4. \A c \in InUse(r) : /\ r.level[c].side \in Sides /\ r.level[c].price \in Nat
                            /\ LevelAt(r, r.level[c].price) = c
    BY <1>2, <1>3, <1>4, <1>5, <1>8, <1>x, <2>3
  <2>5. QED
    BY <1>3, <1>7, <2>1, <2>2, <2>4 DEF PoolInv
<1>10. ASSUME NEW t \in Sides PROVE LevelRingInv(r, t)
  <2>1. CASE t = s
    BY <1>3, <1>6, <2>1 DEF LevelRingInv
  <2>2. CASE t # s
    <3>1. LevelRingInv(m, t)
      BY DEF Rings
    <3>2. OnSide(r, t) = OnSide(m, t) /\ r.best[t] = m.best[t]
      BY <1>1, <1>3, <1>6, <2>2
    <3>3. \A c \in OnSide(m, t) : c \in InUse(m) /\ c \in Blocks \ (N \cup {b})
      BY <1>2, <2>2 DEF OnSide, N
    <3>4. \A c \in OnSide(m, t) : /\ r.level[c].price = m.level[c].price
                                  /\ r.level[c].next = m.level[c].next
                                  /\ r.level[c].prev = m.level[c].prev
      BY <1>3, <1>5, <3>3
    <3>5. QED
      BY <3>1, <3>2, <3>4, LevelRingKept
  <2>3. QED
    BY <2>1, <2>2
<1>11. \A k \in DOMAIN m.order : /\ r.order[k].id = m.order[k].id
                                 /\ r.order[k].side = m.order[k].side
                                 /\ r.order[k].price = m.order[k].price
                                 /\ k \in DOMAIN r.order
  BY <1>3 DEF SameOrders, Alike
<1>12. /\ o \in DOMAIN m.order /\ o \notin live /\ live \subseteq DOMAIN m.order
  BY DEF IsNew
<1>13. \A a \in live : /\ HasLevel(m, a) /\ LevelAt(m, m.order[a].price) \in InUse(m)
                       /\ m.level[LevelAt(m, m.order[a].price)].side = m.order[a].side
                       /\ m.level[LevelAt(m, m.order[a].price)].price = m.order[a].price
                       /\ m.order[a].price # x.price
  <2>1. ASSUME NEW a \in live
        PROVE  /\ HasLevel(m, a) /\ LevelAt(m, m.order[a].price) \in InUse(m)
               /\ m.level[LevelAt(m, m.order[a].price)].side = m.order[a].side
               /\ m.level[LevelAt(m, m.order[a].price)].price = m.order[a].price
    BY DEF Rings, HasLevel
  <2>2. LevelAt(m, x.price) = Null
    BY DEF x
  <2>3. QED
    BY <1>2, <2>1, <2>2
<1>14. ASSUME NEW a \in live \cup {o} PROVE HasLevel(r, a)
  <2>1. CASE a = o
    <3>1. LevelAt(r, r.order[o].price) = b /\ r.order[o].side = s /\ r.order[o].price = x.price
      BY <1>7, <1>11, <1>12, <1>s, <1>x DEF slot
    <3>2. QED
      BY <1>3, <1>4, <2>1, <3>1 DEF HasLevel
  <2>2. CASE a \in live
    <3> DEFINE c == LevelAt(m, m.order[a].price)
    <3>1. c \in InUse(m) /\ m.level[c].side = m.order[a].side /\ m.level[c].price = m.order[a].price
      BY <1>13, <2>2
    <3>2. r.order[a].side = m.order[a].side /\ r.order[a].price = m.order[a].price
      BY <1>11, <1>12, <2>2
    <3> HIDE DEF c
    <3>3. LevelAt(r, r.order[a].price) = c
      BY <1>5, <1>8, <3>1, <3>2
    <3>4. QED
      BY <1>4, <1>5, <3>1, <3>2, <3>3 DEF HasLevel
  <2>3. QED
    BY <2>1, <2>2
<1>15. ASSUME NEW c \in InUse(m) PROVE OrderRingInv(r, live \cup {o}, c)
  <2>1. m.level[c].price # x.price
    <3>1. m.index[PriceToIndex(m.level[c].price)] # m.index[slot]
      BY <1>2, <1>x
    <3>2. QED
      BY <3>1 DEF slot
  <2>2. OrdersAt(r, live \cup {o}, c) = OrdersAt(m, live, c)
    BY <1>5, <1>11, <1>12, <1>x, <2>1 DEF OrdersAt
  <2>3. SameRing(m, r, OrdersAt(m, live, c))
    BY <1>3, <1>11, <1>12 DEF SameRing, OrdersAt
  <2>4. OrderRingInv(m, live, c)
    BY DEF Rings
  <2>5. QED
    BY <1>5, <2>2, <2>3, <2>4, OrderRingKept
<1>16. OrderRingInv(r, live \cup {o}, b)
  <2>1. OrdersAt(r, live \cup {o}, b) = {o}
    BY <1>3, <1>11, <1>12, <1>13, <1>x DEF OrdersAt
  <2> DEFINE key == IdOf(r)
             nx == OrderNext(r)
             pv == OrderPrev(r)
  <2>2. key[o] \in Int /\ nx[o] = o /\ pv[o] = o
    BY <1>3, <1>11, <1>12, <1>x DEF IdOf, OrderNext, OrderPrev
  <2> HIDE DEF key, nx, pv
  <2>3. IsRing(key, {o}, o, nx, pv)
    BY <2>2, RingAlone
  <2>4. QED
    BY <1>3, <2>1, <2>3 DEF OrderRingInv, key, nx, pv
<1>17. QED
  BY <1>4, <1>9, <1>10, <1>14, <1>15, <1>16 DEF Rings


\* Orders o and x differ at most in their quantity.
SamePlace(o, x) ==
    /\ x.id = o.id /\ x.side = o.side /\ x.price = o.price
    /\ x.next = o.next /\ x.prev = o.prev

\* An order that is only allocated is in no ring, and no quantity is in one.
LEMMA OrdersStay ==
    ASSUME NEW m, NEW live, Rings(m, live), live \subseteq DOMAIN m.order,
           NEW r, Except(m, r, {"order", "byId"}),
           \A k \in DOMAIN m.order :
              k \in DOMAIN r.order /\ SamePlace(m.order[k], r.order[k])
    PROVE  Rings(r, live)
<1>1. /\ PoolInv(r) /\ InUse(r) = InUse(m) /\ r.level = m.level
      /\ \A s \in Sides : LevelRingInv(r, s)
      /\ \A price : LevelAt(r, price) = LevelAt(m, price)
  BY PoolKept DEF Rings
<1>2. ASSUME NEW a \in live PROVE HasLevel(r, a)
  <2>1. HasLevel(m, a) /\ SamePlace(m.order[a], r.order[a])
    BY DEF Rings
  <2>2. QED
    BY <1>1, <2>1 DEF HasLevel, SamePlace
<1>3. ASSUME NEW c \in InUse(m) PROVE OrderRingInv(r, live, c)
  <2>1. OrdersAt(r, live, c) = OrdersAt(m, live, c)
    BY <1>1 DEF OrdersAt, SamePlace
  <2>2. SameRing(m, r, OrdersAt(m, live, c))
    BY DEF SameRing, OrdersAt, SamePlace
  <2>3. OrderRingInv(m, live, c) /\ r.level[c].first = m.level[c].first
    BY <1>1 DEF Rings
  <2>4. QED
    BY <2>1, <2>2, <2>3, OrderRingKept
<1>4. QED
  BY <1>1, <1>2, <1>3 DEF Rings

\* An addition that does not go into a level that is not its own.
LEMMA AddRings ==
    ASSUME NEW m, NEW known, NEW book, Memory(m, known, book), m.status = "running",
           known \subseteq Ids, Rings(m, Live(m, known)),
           NEW id \in Ids, id \notin known, \A i \in known : i < id,
           NEW side \in Sides, NEW price \in Nat, NEW quantity,
           ~Misplaces(m, Update("ADD", id, side, price, quantity))
    PROVE  LET r == Applied(m, Update("ADD", id, side, price, quantity))
           IN  /\ r.status \in {"running", "out_of_space"}
               /\ r.status = "running" => Rings(r, Live(r, known \cup {id}))
<1> DEFINE u == Update("ADD", id, side, price, quantity)
           x == [id |-> id, side |-> side, price |-> price, quantity |-> quantity,
                 next |-> Null, prev |-> Null]
           m1 == Put(m, "order", Append(m.order, x))
           o == Len(m.order) + 1
           r == AddOrder(m1, o)
           live == Live(m, known)
<1>1. IsBook(m) /\ AreOrders(m.order) /\ m.byId = [i \in Ids |-> m.byId[i]]
      /\ Names(m, known, book)
  BY DEF Memory
<1>2. m.byId[id] = Null
  BY <1>1 DEF Names
<1>3. Applied(m, u) = r
  <2>1. u.type = "ADD" /\ u.id = id
    BY DEF Update
  <2>2. Applied(m, u) =
          AddOrder([m EXCEPT !.order = Append(@,
                        [id |-> u.id, side |-> u.side, price |-> u.price,
                         quantity |-> u.quantity, next |-> Null, prev |-> Null])],
                     Len(m.order) + 1)
    <3> HIDE DEF u
    <3>1. QED
      BY <1>2, <2>1 DEF Applied
  <2>3. QED
    BY <2>2 DEF Update, Put
<1>4. IsOrder(x) /\ x.id = id /\ x.side = side /\ x.price = price
  BY DEF IsOrder
<1> HIDE DEF x
<1>5. Except(m, m1, {"order"}) /\ m1.order = Append(m.order, x)
  <2>1. "order" \in Fields
    BY DEF Fields
  <2> DEFINE f == Append(m.order, x)
  <2> HIDE DEF f
  <2>2. Except(m, Put(m, "order", f), {"order"}) /\ Put(m, "order", f)["order"] = f
    BY <1>1, <2>1, PutField
  <2>3. QED
    BY <2>2 DEF f
<1>6. /\ AreOrders(m1.order) /\ o \in DOMAIN m1.order /\ m1.order[o] = x
      /\ \A k \in DOMAIN m.order : k \in DOMAIN m1.order /\ m1.order[k] = m.order[k]
  <2> HIDE DEF m1
  <2>1. QED
    BY <1>1, <1>4, <1>5, AppendOrders
<1>7. o \notin DOMAIN m.order
  <2>1. PICK n \in Nat : DOMAIN m.order = 1 .. n
    BY <1>1 DEF AreOrders
  <2>2. Len(m.order) = n
    <3> DEFINE S == {m.order[k] : k \in 1 .. n}
    <3>1. m.order = [k \in 1 .. n |-> m.order[k]]
      BY <1>1, <2>1 DEF AreOrders
    <3>2. \A k \in 1 .. n : m.order[k] \in S
      OBVIOUS
    <3> HIDE DEF S
    <3>3. m.order \in [1 .. n -> S]
      BY <3>1, <3>2
    <3>4. QED
      BY <3>3
  <2>3. QED
    BY <2>1, <2>2
<1> HIDE DEF m1, o, u, r
<1>8. \A i \in known : m.byId[i] \in DOMAIN m.order /\ m.order[m.byId[i]].id = i
  BY <1>1 DEF Names
<1>9. live \subseteq DOMAIN m.order
  BY <1>8 DEF Live
<1>10. /\ IsBook(m1) /\ Except(m, m1, {"order", "byId"}) /\ m1.status = "running"
       /\ m1.index = m.index /\ m1.level = m.level /\ m1.free = m.free /\ m1.byId = m.byId
  BY <1>5 DEF Except, Fields
<1> HIDE DEF live
<1>11. Rings(m1, live)
  <2>1. Rings(m, live)
    BY DEF live
  <2>2. QED
    BY <1>6, <1>9, <1>10, <2>1, OrdersStay DEF SamePlace
<1>12. IsNew(m1, live, o)
  <2>1. \A a \in live : m.order[a].id < id
    BY <1>8 DEF live, Live
  <2>2. id \in Int
    BY DEF Ids
  <2>3. live \subseteq DOMAIN m1.order \ {o}
    BY <1>6, <1>7, <1>9
  <2>4. QED
    BY <1>4, <1>6, <1>9, <2>1, <2>2, <2>3 DEF IsNew
<1>13. HasLevel(m1, o) \/ LevelAt(m1, m1.order[o].price) = Null
  <2> DEFINE b == LevelAt(m, price)
  <2>1. LevelAt(m1, price) = b
    BY <1>10 DEF LevelAt
  <2>2. b # Null => ~m.free[b] /\ m.level[b].side = side /\ m.level[b].price = price
    BY DEF Misplaces, Update
  <2>3. b # Null => b \in Blocks
    <3>1. m.index \in [Blocks -> Blocks \cup {Null}]
      BY DEF Rings, PoolInv
    <3>2. QED
      BY <3>1, Slot DEF LevelAt
  <2>4. QED
    BY <1>4, <1>6, <1>10, <2>1, <2>2, <2>3 DEF HasLevel, InUse
<1>14. /\ r.status \in {"running", "out_of_space"}
       /\ r.status = "running" => Rings(r, live \cup {o})
  <2>1. CASE HasLevel(m1, o)
    <3>1. Except(m1, r, {"order", "byId"}) /\ Rings(r, live \cup {o})
      BY <1>10, <1>11, <1>12, <2>1, AddOrderBehind DEF r
    <3>2. r.status = "running"
      BY <1>10, <3>1 DEF Except, Fields
    <3>3. QED
      BY <3>1, <3>2
  <2>2. CASE LevelAt(m1, m1.order[o].price) = Null
    <3>1. /\ r.status \in {"running", "out_of_space"}
          /\ r.status = "running" => TakesLevel(m1, r, o, m1.cursor)
      BY <1>10, <1>11, <1>12, <2>2, AddOrderTakes DEF r
    <3>2. QED
      BY <1>10, <1>11, <1>12, <2>2, <3>1, AddOrderAlone
  <2>3. QED
    BY <1>13, <2>1, <2>2
<1>15. Live(r, known \cup {id}) = live \cup {o}
  <2>1. Enters(m1, r, [m1.byId EXCEPT ![id] = o])
    BY <1>4, <1>6, <1>10, AddOrderEnters DEF r
  <2>2. r.byId = [m.byId EXCEPT ![id] = o]
    BY <1>10, <2>1 DEF Enters
  <2>3. r.byId[id] = o /\ \A i \in known : r.byId[i] = m.byId[i]
    BY <1>1, <2>2
  <2>4. QED
    BY <2>3 DEF Live, live
<1>16. QED
  BY <1>3, <1>14, <1>15 DEF u


-----------------------------------------------------------------------------
(* removeOrder and removeOrderAtPrice. *)

\* A node that is its own neighbour is alone.
LEMMA SoleNode ==
    ASSUME NEW key, NEW N, NEW head, NEW nx, NEW pv, IsRing(key, N, head, nx, pv),
           NEW b \in N, nx[b] = b
    PROVE  N = {b} /\ head = b /\ pv[b] = b
<1>1. head \in N /\ \A q \in N : key[head] <= key[q] /\ key[q] \in Int
  BY DEF IsRing, IsHead, Keys
<1>2. Follows(key, N, head, nx, b) /\ pv[nx[b]] = b
  BY DEF IsRing, BackAndForth
<1>3. b = head /\ \A q \in N : key[q] <= key[b]
  BY <1>1, <1>2 DEF Follows
<1>4. \A q \in N : key[q] = key[b]
  BY <1>1, <1>3
<1>5. \A q \in N : q = b
  BY <1>4 DEF IsRing, Keys
<1>6. QED
  BY <1>2, <1>3, <1>5

Unlinked(f, x, o) ==
    [[[f EXCEPT ![x.prev].next = x.next]
         EXCEPT ![x.next].prev = x.prev]
         EXCEPT ![o].next = Null, ![o].prev = Null]

\* Node o of f is linked no more in g.
UnlinkedFrom(f, g, o) ==
    \A k \in DOMAIN f \ {o} :
        /\ g[k].next = IF k = f[o].prev THEN f[o].next ELSE f[k].next
        /\ g[k].prev = IF k = f[o].next THEN f[o].prev ELSE f[k].prev

LEMMA OrderUnlinks ==
    ASSUME NEW f, AreOrders(f), NEW o \in DOMAIN f, NEW x, x = f[o],
           x.prev \in DOMAIN f, x.next \in DOMAIN f
    PROVE  LET g == Unlinked(f, x, o)
           IN  AreOrders(g) /\ SameOrders(f, g) /\ UnlinkedFrom(f, g, o)
<1> DEFINE f1 == WithNext(f, x.prev, x.next)
           f2 == WithPrev(f1, x.next, x.prev)
           f3 == WithNext(f2, o, Null)
           f4 == WithPrev(f3, o, Null)
<1>1. f4 = Unlinked(f, x, o)
  BY DEF WithNext, WithPrev, Unlinked
<1>2. /\ AreOrders(f1) /\ SameOrders(f, f1)
      /\ \A k \in DOMAIN f : /\ f1[k].next = IF k = x.prev THEN x.next ELSE f[k].next
                             /\ f1[k].prev = f[k].prev
  BY OrderSetNext
<1> HIDE DEF f1
<1>3. DOMAIN f1 = DOMAIN f
  BY <1>2 DEF SameOrders
<1>4. /\ AreOrders(f2) /\ SameOrders(f1, f2)
      /\ \A k \in DOMAIN f : /\ f2[k].prev = IF k = x.next THEN x.prev ELSE f1[k].prev
                             /\ f2[k].next = f1[k].next
  BY <1>2, <1>3, OrderSetPrev
<1> HIDE DEF f2
<1>5. DOMAIN f2 = DOMAIN f
  BY <1>3, <1>4 DEF SameOrders
<1>6. /\ AreOrders(f3) /\ SameOrders(f2, f3)
      /\ \A k \in DOMAIN f : /\ f3[k].next = IF k = o THEN Null ELSE f2[k].next
                             /\ f3[k].prev = f2[k].prev
  BY <1>4, <1>5, OrderSetNext
<1> HIDE DEF f3
<1>7. DOMAIN f3 = DOMAIN f
  BY <1>5, <1>6 DEF SameOrders
<1>8. /\ AreOrders(f4) /\ SameOrders(f3, f4)
      /\ \A k \in DOMAIN f : /\ f4[k].prev = IF k = o THEN Null ELSE f3[k].prev
                             /\ f4[k].next = f3[k].next
  BY <1>6, <1>7, OrderSetPrev
<1> HIDE DEF f4
<1>9. SameOrders(f, f4)
  BY <1>2, <1>4, <1>6, <1>8, SameTransitive
<1>10. \A k \in DOMAIN f \ {o} :
          /\ f4[k].next = IF k = x.prev THEN x.next ELSE f[k].next
          /\ f4[k].prev = IF k = x.next THEN x.prev ELSE f[k].prev
  BY <1>2, <1>4, <1>6, <1>8
<1>11. UnlinkedFrom(f, f4, o)
  BY <1>10 DEF UnlinkedFrom
<1>12. QED
  BY <1>1, <1>8, <1>9, <1>11

LEMMA LevelUnlinks ==
    ASSUME NEW f, AreLevels(f), NEW o \in Blocks, NEW x, x = f[o],
           x.prev \in Blocks, x.next \in Blocks
    PROVE  LET g == Unlinked(f, x, o)
           IN  AreLevels(g) /\ SameLevels(f, g) /\ UnlinkedFrom(f, g, o)
<1> DEFINE f1 == WithNext(f, x.prev, x.next)
           f2 == WithPrev(f1, x.next, x.prev)
           f3 == WithNext(f2, o, Null)
           f4 == WithPrev(f3, o, Null)
<1>1. f4 = Unlinked(f, x, o)
  BY DEF WithNext, WithPrev, Unlinked
<1>2. /\ AreLevels(f1) /\ SameLevels(f, f1)
      /\ \A k \in Blocks : /\ f1[k].next = IF k = x.prev THEN x.next ELSE f[k].next
                           /\ f1[k].prev = f[k].prev
  BY LevelSetNext
<1> HIDE DEF f1
<1>4. /\ AreLevels(f2) /\ SameLevels(f1, f2)
      /\ \A k \in Blocks : /\ f2[k].prev = IF k = x.next THEN x.prev ELSE f1[k].prev
                           /\ f2[k].next = f1[k].next
  BY <1>2, LevelSetPrev
<1> HIDE DEF f2
<1>6. /\ AreLevels(f3) /\ SameLevels(f2, f3)
      /\ \A k \in Blocks : /\ f3[k].next = IF k = o THEN Null ELSE f2[k].next
                           /\ f3[k].prev = f2[k].prev
  BY <1>4, LevelSetNext
<1> HIDE DEF f3
<1>8. /\ AreLevels(f4) /\ SameLevels(f3, f4)
      /\ \A k \in Blocks : /\ f4[k].prev = IF k = o THEN Null ELSE f3[k].prev
                           /\ f4[k].next = f3[k].next
  BY <1>6, LevelSetPrev
<1> HIDE DEF f4
<1>9. SameLevels(f, f4)
  BY <1>2, <1>4, <1>6, <1>8, SameLevelsThen
<1>10. \A k \in Blocks \ {o} :
          /\ f4[k].next = IF k = x.prev THEN x.next ELSE f[k].next
          /\ f4[k].prev = IF k = x.next THEN x.prev ELSE f[k].prev
  BY <1>2, <1>4, <1>6, <1>8
<1>11. UnlinkedFrom(f, f4, o)
  <2>1. DOMAIN f = Blocks
    BY DEF AreLevels
  <2>2. QED
    BY <1>10, <2>1 DEF UnlinkedFrom
<1>12. QED
  BY <1>1, <1>8, <1>9, <1>11

LEMMA DeallocateFrees ==
    ASSUME NEW m, NEW b \in InUse(m)
    PROVE  Deallocate(m, b) = Put(m, "free", [m.free EXCEPT ![b] = TRUE])
<1>1. b # Null /\ ~m.free[b]
  BY BlocksAreFinite DEF InUse
<1>2. QED
  BY <1>1 DEF Deallocate, Put

\* What the removal of level b makes of m.
LosesLevel(m, r, b) ==
    LET s == m.level[b].side
        N == OnSide(m, s)
    IN  /\ Except(m, r, {"level", "free", "index", "best"})
        /\ AreLevels(r.level) /\ SameLevels(m.level, r.level)
        /\ r.free = [m.free EXCEPT ![b] = TRUE]
        /\ r.index = [m.index EXCEPT ![PriceToIndex(m.level[b].price)] = Null]
        /\ r.best = [m.best EXCEPT ![s] = r.best[s]]
        /\ \A c \in Blocks \ N :
              r.level[c].next = m.level[c].next /\ r.level[c].prev = m.level[c].prev
        /\ IsRing(RankOf(r, s), N \ {b}, r.best[s], LevelNext(r), LevelPrev(r))

LEMMA RemoveOrderAtPriceLoses ==
    ASSUME NEW m, IsBook(m), PoolInv(m), NEW b \in InUse(m),
           NEW s, s = m.level[b].side, NEW price, price = m.level[b].price,
           LevelRingInv(m, s)
    PROVE  LosesLevel(m, RemoveOrderAtPrice(m, s, price), b)
<1> DEFINE x == m.level[b]
           slot == PriceToIndex(price)
           index2 == [m.index EXCEPT ![slot] = Null]
           left == Put(m, "index", index2)
           best1 == [m.best EXCEPT ![s] = Null]
           last == Put(left, "best", best1)
           best2 == [m.best EXCEPT ![s] = IF b = @ THEN x.next ELSE @]
           unlinked == Unlinked(m.level, x, b)
           k == Put(left, "level", unlinked)
           other == Put(k, "best", best2)
           free2 == [m.free EXCEPT ![b] = TRUE]
           N == OnSide(m, s)
           r == RemoveOrderAtPrice(m, s, price)
           nx == LevelNext(m)
           pv == LevelPrev(m)
           key == RankOf(m, s)
<1>1. /\ b \in Blocks /\ ~m.free[b] /\ LevelAt(m, price) = b /\ b # Null
      /\ s \in Sides /\ b \in N /\ N \subseteq Blocks
      /\ AreLevels(m.level) /\ m.best = [t \in Sides |-> m.best[t]]
  BY BlocksAreFinite DEF PoolInv, InUse, OnSide
<1>2. r = IF x.next = b THEN Deallocate(last, b)
          ELSE IF Null \in {x.next, x.prev} THEN Ended(m, "null_pointer")
          ELSE Deallocate([left EXCEPT !.level = unlinked,
                                       !.best[s] = IF b = @ THEN x.next ELSE @], b)
  <2> DEFINE left1 == [m EXCEPT !.index[PriceToIndex(price)] = Null]
             b1 == LevelAt(m, price)
             x1 == m.level[b1]
             un1 == [[[m.level EXCEPT ![x1.prev].next = x1.next]
                         EXCEPT ![x1.next].prev = x1.prev]
                         EXCEPT ![b1].next = Null, ![b1].prev = Null]
             d1 == [left1 EXCEPT !.best[s] = Null]
             d2 == [left1 EXCEPT !.level = un1,
                                 !.best[s] = IF b1 = @ THEN x1.next ELSE @]
             d3 == [left EXCEPT !.level = unlinked,
                                !.best[s] = IF b = @ THEN x.next ELSE @]
  <2>1. r = IF b1 = Null THEN Ended(m, "null_pointer")
            ELSE IF x1.next = b1 THEN Deallocate(d1, b1)
            ELSE IF Null \in {x1.next, x1.prev} THEN Ended(m, "null_pointer")
            ELSE Deallocate(d2, b1)
    BY DEF RemoveOrderAtPrice
  <2>2. b1 = b
    BY <1>1
  <2>3. left1 = left
    BY DEF Put
  <2>4. d1 = Put(left1, "best", [left1.best EXCEPT ![s] = Null])
    BY DEF Put
  <2>5. left.best = m.best
    <3>1. "best" \in Fields \ {"index"} /\ "index" \in Fields
      BY DEF Fields
    <3> HIDE DEF index2
    <3>2. Except(m, left, {"index"})
      BY <3>1, PutField
    <3>3. QED
      BY <3>1, <3>2 DEF Except
  <2>6. un1 = Unlinked(m.level, x1, b1)
    BY DEF Unlinked
  <2> HIDE DEF r, b1, left1, left, un1
  <2>7. x1 = x
    BY <2>2
  <2>8. d1 = last
    BY <2>3, <2>4, <2>5
  <2> HIDE DEF x1, x, d1, last
  <2>9. un1 = unlinked
    BY <2>2, <2>6, <2>7
  <2> HIDE DEF unlinked
  <2>10. d2 = d3
    BY <2>2, <2>3, <2>7, <2>9
  <2> HIDE DEF d2, d3
  <2>11. r = IF x.next = b THEN Deallocate(last, b)
             ELSE IF Null \in {x.next, x.prev} THEN Ended(m, "null_pointer")
             ELSE Deallocate(d3, b)
    BY <1>1, <2>1, <2>2, <2>7, <2>8, <2>10
  <2>12. QED
    BY <2>11 DEF d3
<1>3. Except(m, left, {"index"}) /\ left.index = index2 /\ IsBook(left)
  <2>1. "index" \in Fields
    BY DEF Fields
  <2> HIDE DEF index2
  <2>2. Except(m, left, {"index"}) /\ left["index"] = index2
    BY <2>1, PutField
  <2>3. QED
    BY <2>2 DEF Except
<1>4. IsRing(key, N, m.best[s], nx, pv)
  BY DEF LevelRingInv
<1>5. /\ \A c \in Blocks : nx[c] = m.level[c].next /\ pv[c] = m.level[c].prev
      /\ nx = [c \in Blocks |-> m.level[c].next] /\ pv = [c \in Blocks |-> m.level[c].prev]
  BY DEF LevelNext, LevelPrev
<1>6. x.next = nx[b] /\ x.prev = pv[b]
  BY <1>1, <1>5
<1>7. x.next \in N /\ x.prev \in N
  BY <1>1, <1>4, <1>6 DEF IsRing, BackAndForth
<1>x. m.level[b] = x
  OBVIOUS
<1> HIDE DEF left, index2, r, key, nx, pv, N, x
<1>8. CASE x.next = b
  <2>1. r = Deallocate(last, b)
    BY <1>2, <1>8
  <2>2. Except(left, last, {"best"}) /\ last.best = best1
    <3>1. "best" \in Fields
      BY DEF Fields
    <3> HIDE DEF best1
    <3>2. Except(left, last, {"best"}) /\ last["best"] = best1
      BY <1>3, <3>1, PutField
    <3>3. QED
      BY <3>2
  <2> HIDE DEF last
  <2>3. last.free = m.free /\ IsBook(last) /\ last.level = m.level /\ last.index = index2
    BY <1>3, <2>2 DEF Except, Fields
  <2>4. b \in InUse(last)
    BY <1>1, <2>3 DEF InUse
  <2>5. r = Put(last, "free", free2)
    BY <2>1, <2>3, <2>4, DeallocateFrees
  <2>6. Except(last, r, {"free"}) /\ r.free = free2
    <3>1. "free" \in Fields
      BY DEF Fields
    <3> HIDE DEF free2
    <3>2. Except(last, r, {"free"}) /\ r["free"] = free2
      BY <2>3, <2>5, <3>1, PutField
    <3>3. QED
      BY <3>2
  <2>7. Except(m, r, {"level", "free", "index", "best"})
    BY <1>3, <2>2, <2>6 DEF Except
  <2>8. r.level = m.level /\ r.index = index2 /\ r.best = best1
    BY <2>2, <2>3, <2>6 DEF Except, Fields
  <2>9. N = {b}
    <3>1. b \in N /\ nx[b] = b
      BY <1>1, <1>6, <1>8
    <3>2. QED
      BY ONLY <1>4, <3>1, SoleNode
  <2>10. best1[s] = Null /\ best1 = [m.best EXCEPT ![s] = best1[s]]
    BY <1>1
  <2>11. IsRing(RankOf(r, s), N \ {b}, r.best[s], LevelNext(r), LevelPrev(r))
    <3>1. N \ {b} = {} /\ r.best[s] = Null
      BY <2>8, <2>9, <2>10
    <3>2. QED
      BY <3>1, RingEmpty
  <2>12. SameLevels(m.level, r.level)
    BY <2>8 DEF SameLevels, SameLevel
  <2>13. QED
    BY <1>1, <2>6, <2>7, <2>8, <2>10, <2>11, <2>12 DEF LosesLevel, index2, N, r, x
<1>9. CASE x.next # b
  <2>1. Null \notin {x.next, x.prev} /\ x.next \in Blocks /\ x.prev \in Blocks
    BY <1>1, <1>7, BlocksAreFinite
  <2>2. Except(left, k, {"level"}) /\ k.level = unlinked
    <3>1. "level" \in Fields
      BY DEF Fields
    <3> HIDE DEF unlinked
    <3>2. Except(left, k, {"level"}) /\ k["level"] = unlinked
      BY <1>3, <3>1, PutField
    <3>3. QED
      BY <3>2
  <2>3. AreLevels(unlinked) /\ SameLevels(m.level, unlinked)
        /\ UnlinkedFrom(m.level, unlinked, b)
    BY <1>1, <1>x, <2>1, LevelUnlinks
  <2>4. [left EXCEPT !.level = unlinked, !.best[s] = IF b = @ THEN x.next ELSE @] =
            Put(k, "best", [k.best EXCEPT ![s] = IF b = @ THEN x.next ELSE @])
    BY DEF Put
  <2> HIDE DEF unlinked, k
  <2>5. IsBook(k) /\ k.best = m.best /\ k.free = m.free /\ k.index = index2
    BY <1>3, <2>2 DEF Except, Fields
  <2>6. r = Deallocate(other, b)
    BY <1>2, <1>9, <2>1, <2>4, <2>5
  <2>7. Except(k, other, {"best"}) /\ other.best = best2
    <3>1. "best" \in Fields
      BY DEF Fields
    <3> HIDE DEF best2
    <3>2. Except(k, other, {"best"}) /\ other["best"] = best2
      BY <2>5, <3>1, PutField
    <3>3. QED
      BY <3>2
  <2> HIDE DEF other
  <2>8. other.free = m.free /\ IsBook(other) /\ other.level = unlinked /\ other.index = index2
    BY <2>2, <2>5, <2>7 DEF Except, Fields
  <2>9. b \in InUse(other)
    BY <1>1, <2>8 DEF InUse
  <2>10. r = Put(other, "free", free2)
    BY <2>6, <2>8, <2>9, DeallocateFrees
  <2>11. Except(other, r, {"free"}) /\ r.free = free2
    <3>1. "free" \in Fields
      BY DEF Fields
    <3> HIDE DEF free2
    <3>2. Except(other, r, {"free"}) /\ r["free"] = free2
      BY <2>8, <2>10, <3>1, PutField
    <3>3. QED
      BY <3>2
  <2>12. Except(m, r, {"level", "free", "index", "best"})
    BY <1>3, <2>2, <2>7, <2>11 DEF Except
  <2>13. r.level = unlinked /\ r.index = index2 /\ r.best = best2
    BY <2>7, <2>8, <2>11 DEF Except, Fields
  <2>14. /\ best2[s] = IF m.best[s] = b THEN nx[b] ELSE m.best[s]
         /\ best2 = [m.best EXCEPT ![s] = best2[s]]
    BY <1>1, <1>6
  <2>15. SameLevels(m.level, r.level) /\ AreLevels(r.level)
    BY <2>3, <2>13
  <2>16. \A c \in Blocks \ {b} :
            /\ r.level[c].next = IF c = x.prev THEN x.next ELSE m.level[c].next
            /\ r.level[c].prev = IF c = x.next THEN x.prev ELSE m.level[c].prev
    BY <1>1, <2>3, <2>13, <1>x DEF UnlinkedFrom, AreLevels
  <2>17. \A c \in Blocks \ N :
            r.level[c].next = m.level[c].next /\ r.level[c].prev = m.level[c].prev
    BY <1>1, <1>7, <2>16
  <2>18. IsRing(RankOf(r, s), N \ {b}, r.best[s], LevelNext(r), LevelPrev(r))
    <3> DEFINE nx2 == LevelNext(r)
               pv2 == LevelPrev(r)
               head == m.best[s]
               head2 == IF head = b THEN nx[b] ELSE head
    <3>1. \A c \in Blocks : nx2[c] = r.level[c].next /\ pv2[c] = r.level[c].prev
      BY DEF LevelNext, LevelPrev
    <3> HIDE DEF nx2, pv2
    <3>2. \A c \in N \ {b} : /\ nx2[c] = IF c = pv[b] THEN nx[b] ELSE nx[c]
                             /\ pv2[c] = IF c = nx[b] THEN pv[b] ELSE pv[c]
      BY <1>1, <1>5, <1>6, <2>16, <3>1
    <3>3. nx[b] # b /\ pv[b] \in N /\ nx[b] \in N /\ pv[b] # b
      BY <1>1, <1>4, <1>6, <1>7, <1>9 DEF IsRing, BackAndForth
    <3>4. /\ nx2[pv[b]] = nx[b] /\ \A p \in N \ {b} : p # pv[b] => nx2[p] = nx[p]
          /\ pv2[nx[b]] = pv[b] /\ \A p \in N \ {b} : p # nx[b] => pv2[p] = pv[p]
      BY <3>2, <3>3
    <3> HIDE DEF head, head2
    <3>5. IsRing(key, N, head, nx, pv) /\ head2 = IF head = b THEN nx[b] ELSE head
      BY <1>4 DEF head, head2
    <3>6. IsRing(key, N \ {b}, head2, nx2, pv2)
      <4>1. b \in N /\ nx[b] # b
        BY <1>1, <3>3
      <4>2. LeadPast(N, b, nx, pv, nx2, pv2)
        BY <3>4 DEF LeadPast
      <4>3. QED
        BY <3>5, <4>1, <4>2, RingRemove
    <3>7. RankOf(r, s) = key
      BY <2>15, SameRanks DEF key
    <3>8. r.best[s] = head2
      BY <2>13, <2>14 DEF head, head2
    <3>9. QED
      BY <3>6, <3>7, <3>8 DEF nx2, pv2
  <2> HIDE DEF best2, free2
  <2>19. QED
    BY <2>11, <2>12, <2>13, <2>14, <2>15, <2>17, <2>18 DEF LosesLevel, index2, N, r, x, free2
<1>10. QED
  BY <1>8, <1>9


\* The last order of a level goes, and the level with it.
LEMMA RemoveOrderLast ==
    ASSUME NEW m, IsBook(m), AreOrders(m.order), NEW live, Rings(m, live),
           live \subseteq DOMAIN m.order, NEW o \in live, m.order[o].prev = o
    PROVE  LET r == RemoveOrder(m, o)
           IN  r.status = m.status /\ Rings(r, live \ {o})
<1> DEFINE x == m.order[o]
           b == LevelAt(m, x.price)
           names == [m.byId EXCEPT ![x.id] = Null]
           forgot == Put(m, "byId", names)
           s == m.level[b].side
           slot == PriceToIndex(m.level[b].price)
           N == OnSide(m, s)
           r == RemoveOrder(m, o)
<1>1. r = RemoveOrderAtPrice(forgot, x.side, x.price)
  <2> DEFINE forgot1 == [m EXCEPT !.byId[x.id] = Null]
  <2>1. r = RemoveOrderAtPrice(forgot1, x.side, x.price)
    BY DEF RemoveOrder
  <2>2. forgot1 = forgot
    BY DEF Put
  <2> HIDE DEF forgot1, forgot, r
  <2>3. QED
    BY <2>1, <2>2
<1>2. Except(m, forgot, {"byId"})
  <2>1. "byId" \in Fields
    BY DEF Fields
  <2> HIDE DEF names
  <2>2. QED
    BY <2>1, PutField
<1>3. /\ b \in InUse(m) /\ b \in Blocks /\ b # Null /\ m.level[b].side = x.side
      /\ m.level[b].price = x.price /\ s \in Sides /\ m.level[b].price \in Nat
  <2>1. HasLevel(m, o) /\ PoolInv(m)
    BY DEF Rings
  <2>2. QED
    BY <2>1, BlocksAreFinite DEF HasLevel, PoolInv, InUse
<1>x. m.order[o] = x /\ x.side = s
  BY <1>3
<1>s. \A p : LevelAt(m, p) = m.index[PriceToIndex(p)]
  BY DEF LevelAt
<1> HIDE DEF names, forgot, r
<1>4. /\ IsBook(forgot) /\ forgot.level = m.level /\ forgot.free = m.free
      /\ forgot.index = m.index /\ forgot.best = m.best /\ forgot.order = m.order
      /\ forgot.status = m.status /\ forgot.cursor = m.cursor
      /\ Except(m, forgot, {"order", "byId"})
  BY <1>2 DEF Except, Fields
<1>5. /\ PoolInv(forgot) /\ InUse(forgot) = InUse(m)
      /\ \A t : OnSide(forgot, t) = OnSide(m, t)
      /\ \A t \in Sides : LevelRingInv(forgot, t)
  <2>1. PoolInv(m) /\ \A t \in Sides : LevelRingInv(m, t)
    BY DEF Rings
  <2>2. QED
    BY <1>4, <2>1, PoolKept
<1>6. LosesLevel(forgot, r, b)
  <2>1. b \in InUse(forgot) /\ s = forgot.level[b].side /\ x.side = s
        /\ x.price = forgot.level[b].price /\ LevelRingInv(forgot, s)
    BY <1>3, <1>4, <1>5
  <2> HIDE DEF b, x, s
  <2>2. LosesLevel(forgot, RemoveOrderAtPrice(forgot, s, x.price), b)
    BY <1>4, <1>5, <2>1, RemoveOrderAtPriceLoses
  <2>3. QED
    BY <1>1, <2>1, <2>2
<1> HIDE DEF b, x, s, slot, N
<1>7. /\ Except(forgot, r, {"level", "free", "index", "best"})
      /\ AreLevels(r.level) /\ SameLevels(m.level, r.level)
      /\ r.free = [m.free EXCEPT ![b] = TRUE]
      /\ r.index = [m.index EXCEPT ![slot] = Null]
      /\ r.best = [m.best EXCEPT ![s] = r.best[s]]
      /\ \A c \in Blocks \ N :
            r.level[c].next = m.level[c].next /\ r.level[c].prev = m.level[c].prev
      /\ IsRing(RankOf(r, s), N \ {b}, r.best[s], LevelNext(r), LevelPrev(r))
  <2>1. forgot.level[b].side = s /\ OnSide(forgot, s) = N
        /\ PriceToIndex(forgot.level[b].price) = slot
    BY <1>4, <1>5 DEF N, s, slot
  <2>2. QED
    BY <1>4, <1>6, <2>1 DEF LosesLevel
<1>8. r.order = m.order /\ r.cursor = m.cursor /\ r.status = m.status
  <2>1. r.order = forgot.order /\ r.cursor = forgot.cursor /\ r.status = forgot.status
    BY <1>7 DEF Except, Fields
  <2>2. QED
    BY <1>4, <2>1
<1>9. \A c \in Blocks : /\ r.level[c].side = m.level[c].side
                        /\ r.level[c].price = m.level[c].price
                        /\ r.level[c].first = m.level[c].first
  BY <1>7 DEF SameLevels, SameLevel
<1>10. /\ PoolInv(m) /\ m.free \in [Blocks -> BOOLEAN] /\ m.free[m.cursor]
       /\ m.cursor \in Blocks /\ m.index \in [Blocks -> Blocks \cup {Null}]
       /\ m.best = [t \in Sides |-> m.best[t]] /\ slot \in Blocks
  BY <1>3, Slot DEF Rings, PoolInv, slot
<1>11. InUse(r) = InUse(m) \ {b}
  BY <1>7, <1>10 DEF InUse
<1>12. \A c \in InUse(m) : /\ c \in Blocks /\ c # Null
                           /\ m.level[c].side \in Sides /\ m.level[c].price \in Nat
                           /\ m.index[PriceToIndex(m.level[c].price)] = c
                           /\ PriceToIndex(m.level[c].price) \in Blocks
  <2>1. ASSUME NEW c \in InUse(m)
        PROVE  /\ c \in Blocks /\ c # Null
               /\ m.level[c].side \in Sides /\ m.level[c].price \in Nat
               /\ m.index[PriceToIndex(m.level[c].price)] = c
    BY <1>10, BlocksAreFinite DEF PoolInv, LevelAt, InUse
  <2>2. QED
    BY <2>1, Slot
<1>13. \A c \in InUse(m) \ {b} : PriceToIndex(m.level[c].price) # slot
  BY <1>3, <1>12 DEF slot
<1>14. r.index \in [Blocks -> Blocks \cup {Null}]
       /\ \A i \in Blocks \ {slot} : r.index[i] = m.index[i]
  BY <1>7, <1>10
<1>15. \A c \in InUse(m) \ {b} : LevelAt(r, r.level[c].price) = c
  BY <1>9, <1>12, <1>13, <1>14 DEF LevelAt
<1>16. PoolInv(r)
  <2>1. r.free \in [Blocks -> BOOLEAN] /\ r.free[r.cursor]
    <3>1. r.free = [m.free EXCEPT ![b] = TRUE] /\ r.cursor = m.cursor
      BY <1>7, <1>8
    <3>2. /\ m.free \in [Blocks -> BOOLEAN] /\ m.free[m.cursor]
          /\ m.cursor \in Blocks /\ b \in Blocks
      BY <1>3, <1>10
    <3> HIDE DEF r
    <3>3. r.free \in [Blocks -> BOOLEAN]
      BY ONLY <3>1, <3>2
    <3>4. r.free[r.cursor]
      BY ONLY <3>1, <3>2
    <3>5. QED
      BY <3>3, <3>4
  <2>2. r.best = [t \in Sides |-> r.best[t]]
    BY <1>7, <1>10
  <2>3. \A c \in InUse(r) : /\ r.level[c].side \in Sides /\ r.level[c].price \in Nat
                            /\ LevelAt(r, r.level[c].price) = c
    BY <1>9, <1>11, <1>12, <1>15
  <2>4. QED
    BY <1>7, <1>8, <1>10, <1>14, <2>1, <2>2, <2>3 DEF PoolInv
<1>17. OnSide(r, s) = N \ {b} /\ \A t \in Sides \ {s} : OnSide(r, t) = OnSide(m, t)
  BY <1>9, <1>11, <1>12 DEF OnSide, N, s
<1>18. ASSUME NEW t \in Sides PROVE LevelRingInv(r, t)
  <2>1. CASE t = s
    BY <1>7, <1>17, <2>1 DEF LevelRingInv
  <2>2. CASE t # s
    <3>1. LevelRingInv(m, t)
      BY DEF Rings
    <3>2. OnSide(r, t) = OnSide(m, t) /\ r.best[t] = m.best[t]
      BY <1>7, <1>10, <1>17, <2>2
    <3>3. \A c \in OnSide(m, t) : c \in Blocks \ N
      BY <1>12, <2>2 DEF OnSide, N
    <3>4. \A c \in OnSide(m, t) : /\ r.level[c].price = m.level[c].price
                                  /\ r.level[c].next = m.level[c].next
                                  /\ r.level[c].prev = m.level[c].prev
      BY <1>7, <1>9, <3>3
    <3>5. QED
      BY <3>1, <3>2, <3>4, LevelRingKept
  <2>3. QED
    BY <2>1, <2>2
<1>19. OrdersAt(m, live, b) = {o}
  <2> DEFINE O == OrdersAt(m, live, b)
             key == IdOf(m)
             nx == OrderNext(m)
             pv == OrderPrev(m)
  <2>1. IsRing(key, O, m.level[b].first, nx, pv)
    BY <1>3 DEF Rings, OrderRingInv
  <2>2. o \in O
    BY <1>3, <1>x DEF OrdersAt
  <2>3. pv[o] = o
    BY DEF OrderPrev
  <2> HIDE DEF O, key, nx, pv
  <2>4. nx[o] = o
    BY <2>1, <2>2, <2>3 DEF IsRing, BackAndForth
  <2>5. O = {o}
    BY <2>1, <2>2, <2>4, SoleNode
  <2>6. QED
    BY <2>5 DEF O
<1>20. ASSUME NEW c \in InUse(r) PROVE OrderRingInv(r, live \ {o}, c)
  <2>1. c \in InUse(m) /\ c # b /\ c \in Blocks
    BY <1>11, <1>12
  <2>2. m.level[c].price # m.level[b].price
    BY <1>3, <1>10, <2>1, PricesDiffer
  <2>3. OrdersAt(r, live \ {o}, c) = OrdersAt(m, live, c)
    BY <1>3, <1>8, <1>9, <1>x, <2>1, <2>2 DEF OrdersAt
  <2>4. SameRing(m, r, OrdersAt(m, live, c))
    BY <1>8 DEF SameRing, OrdersAt
  <2>5. OrderRingInv(m, live, c) /\ r.level[c].first = m.level[c].first
    BY <1>9, <2>1 DEF Rings
  <2>6. QED
    BY <2>3, <2>4, <2>5, OrderRingKept
<1>21. ASSUME NEW a \in live \ {o} PROVE HasLevel(r, a)
  <2> DEFINE c == LevelAt(m, m.order[a].price)
  <2>1. c \in InUse(m) /\ m.level[c].side = m.order[a].side /\ m.level[c].price = m.order[a].price
    BY DEF Rings, HasLevel
  <2> HIDE DEF c
  <2>2. c # b
    BY <1>19, <2>1 DEF OrdersAt
  <2>3. LevelAt(r, r.order[a].price) = c
    BY <1>8, <1>9, <1>12, <1>15, <2>1, <2>2
  <2>4. QED
    BY <1>8, <1>9, <1>11, <1>12, <2>1, <2>2, <2>3 DEF HasLevel
<1>22. QED
  BY <1>8, <1>16, <1>18, <1>20, <1>21 DEF Rings, r

WithFirst(f, b, v) == [f EXCEPT ![b].first = v]

LEMMA LevelSetFirst ==
    ASSUME NEW f, AreLevels(f), NEW a \in Blocks, NEW v
    PROVE  LET g == WithFirst(f, a, v)
           IN  /\ AreLevels(g)
               /\ \A b \in Blocks : /\ g[b].first = IF b = a THEN v ELSE f[b].first
                                    /\ g[b].next = f[b].next /\ g[b].prev = f[b].prev
                                    /\ g[b].side = f[b].side /\ g[b].price = f[b].price
BY DEF WithFirst, AreLevels, IsLevel


\* An order of several at its level goes; the first one of the level changes if
\* it is that.
LEMMA RemoveOrderOther ==
    ASSUME NEW m, IsBook(m), AreOrders(m.order), NEW live, Rings(m, live),
           live \subseteq DOMAIN m.order, NEW o \in live, m.order[o].prev # o
    PROVE  LET r == RemoveOrder(m, o)
           IN  r.status = m.status /\ Rings(r, live \ {o})
<1> DEFINE x == m.order[o]
           b == LevelAt(m, x.price)
           names == [m.byId EXCEPT ![x.id] = Null]
           forgot == Put(m, "byId", names)
           orders == Unlinked(m.order, x, o)
           mid == Put(forgot, "order", orders)
           first == m.level[b].first
           first2 == IF first = o THEN x.next ELSE first
           levels == WithFirst(m.level, b, first2)
           r == RemoveOrder(m, o)
           O == OrdersAt(m, live, b)
           key == IdOf(m)
           nx == OrderNext(m)
           pv == OrderPrev(m)
<1>1. /\ b \in InUse(m) /\ b \in Blocks /\ b # Null /\ m.level[b].side = x.side
      /\ m.level[b].price = x.price
  <2>1. HasLevel(m, o) /\ PoolInv(m)
    BY DEF Rings
  <2>2. QED
    BY <2>1, BlocksAreFinite DEF HasLevel, InUse
<1>2. o \in O /\ O \subseteq live
  BY <1>1 DEF OrdersAt
<1>3. IsRing(key, O, first, nx, pv)
  BY <1>1 DEF Rings, OrderRingInv
<1>x. x = m.order[o] /\ nx[o] = x.next /\ pv[o] = x.prev /\ x.prev # o
  BY DEF OrderNext, OrderPrev
<1>4. /\ \A p \in live : nx[p] = m.order[p].next /\ pv[p] = m.order[p].prev
                         /\ key[p] = m.order[p].id
  BY DEF OrderNext, OrderPrev, IdOf
<1>5. /\ nx[o] \in O /\ pv[o] \in O /\ pv[o] # o /\ nx[o] # o
  <2> HIDE DEF O, key, nx, pv, first, x
  <2>1. BackAndForth(O, nx, pv, o)
    BY <1>2, <1>3 DEF IsRing
  <2>2. nx[o] # o
    <3>1. SUFFICES ASSUME nx[o] = o PROVE FALSE
      OBVIOUS
    <3>2. pv[o] = o
      BY <1>2, <1>3, <3>1, SoleNode
    <3>3. QED
      BY <1>x, <3>2
  <2>3. QED
    BY <1>x, <2>1, <2>2 DEF BackAndForth
<1>6. /\ x.prev \in DOMAIN m.order /\ x.next \in DOMAIN m.order /\ o \in DOMAIN m.order
      /\ Null \notin {x.prev, x.next, b}
  <2>1. x.prev \in DOMAIN m.order /\ x.next \in DOMAIN m.order /\ o \in DOMAIN m.order
    BY <1>2, <1>5, <1>x
  <2>2. DOMAIN m.order \subseteq Nat
    BY DEF AreOrders
  <2>3. QED
    BY <1>1, <2>1, <2>2, MarketOrderBookAssumption
<1>7. r = Put(mid, "level", levels)
  <2> DEFINE raw == [[[m.order EXCEPT ![x.prev].next = x.next]
                        EXCEPT ![x.next].prev = x.prev]
                        EXCEPT ![o].next = Null, ![o].prev = Null]
             forgot1 == [m EXCEPT !.byId[x.id] = Null]
             r1 == [forgot1 EXCEPT !.order = raw,
                                   !.level[b].first = IF @ = o THEN x.next ELSE @]
  <2>1. r = r1
    BY <1>6, <1>x DEF RemoveOrder
  <2>2. raw = orders
    BY DEF Unlinked
  <2>3. forgot1 = forgot /\ forgot1.level = m.level
    BY DEF Put, IsBook, Fields
  <2>4. r1 = [forgot1 EXCEPT !.order = raw,
                             !.level = [forgot1.level EXCEPT ![b].first =
                                           IF @ = o THEN x.next ELSE @]]
    OBVIOUS
  <2>5. [m.level EXCEPT ![b].first = IF @ = o THEN x.next ELSE @] = levels
    BY <1>1 DEF WithFirst
  <2> HIDE DEF raw, forgot1, orders, levels, forgot, r1, r
  <2>6. r1 = [forgot EXCEPT !.order = orders, !.level = levels]
    BY <2>2, <2>3, <2>4, <2>5
  <2>7. [forgot EXCEPT !.order = orders, !.level = levels] = Put(mid, "level", levels)
    BY DEF Put
  <2>8. QED
    BY <2>1, <2>6, <2>7
<1>8. Except(m, forgot, {"byId"})
  <2>1. "byId" \in Fields
    BY DEF Fields
  <2> HIDE DEF names
  <2>2. QED
    BY <2>1, PutField
<1>9. Except(forgot, mid, {"order"}) /\ mid.order = orders
  <2>1. "order" \in Fields
    BY DEF Fields
  <2>2. IsBook(forgot)
    BY <1>8 DEF Except
  <2> HIDE DEF orders, forgot
  <2>3. Except(forgot, mid, {"order"}) /\ mid["order"] = orders
    BY <2>1, <2>2, PutField
  <2>4. QED
    BY <2>3
<1> HIDE DEF mid
<1>10. Except(mid, r, {"level"}) /\ r.level = levels
  <2>1. "level" \in Fields
    BY DEF Fields
  <2>2. IsBook(mid)
    BY <1>9 DEF Except
  <2> HIDE DEF levels, r
  <2>3. Except(mid, r, {"level"}) /\ r["level"] = levels
    BY <1>7, <2>1, <2>2, PutField
  <2>4. QED
    BY <2>3
<1>11. AreOrders(orders) /\ SameOrders(m.order, orders) /\ UnlinkedFrom(m.order, orders, o)
  <2> HIDE DEF x
  <2>1. QED
    BY <1>6, <1>x, OrderUnlinks
<1> HIDE DEF r, forgot, levels, orders, names
<1>12. /\ r.order = orders /\ r.free = m.free /\ r.index = m.index /\ r.best = m.best
       /\ r.cursor = m.cursor /\ r.status = m.status /\ IsBook(r)
  <2>1. /\ r.order = mid.order /\ r.free = mid.free /\ r.index = mid.index
        /\ r.best = mid.best /\ r.cursor = mid.cursor /\ r.status = mid.status
        /\ IsBook(r)
    BY <1>10 DEF Except, Fields
  <2>2. /\ mid.free = forgot.free /\ mid.index = forgot.index
        /\ mid.best = forgot.best /\ mid.cursor = forgot.cursor
        /\ mid.status = forgot.status
    BY <1>9 DEF Except, Fields
  <2>3. /\ forgot.free = m.free /\ forgot.index = m.index
        /\ forgot.best = m.best /\ forgot.cursor = m.cursor
        /\ forgot.status = m.status
    BY <1>8 DEF Except, Fields
  <2>4. QED
    BY <1>9, <2>1, <2>2, <2>3
<1>13. /\ AreLevels(r.level)
       /\ \A c \in Blocks :
             /\ r.level[c].first = IF c = b THEN first2 ELSE m.level[c].first
             /\ r.level[c].next = m.level[c].next /\ r.level[c].prev = m.level[c].prev
             /\ r.level[c].side = m.level[c].side
             /\ r.level[c].price = m.level[c].price
  <2>1. AreLevels(m.level)
    BY DEF Rings, PoolInv
  <2> HIDE DEF first2, b
  <2>2. LET g == WithFirst(m.level, b, first2)
        IN  /\ AreLevels(g)
            /\ \A c \in Blocks : /\ g[c].first = IF c = b THEN first2 ELSE m.level[c].first
                                 /\ g[c].next = m.level[c].next
                                 /\ g[c].prev = m.level[c].prev
                                 /\ g[c].side = m.level[c].side
                                 /\ g[c].price = m.level[c].price
    BY <1>1, <2>1, LevelSetFirst
  <2>3. QED
    BY <1>10, <2>2 DEF levels
<1>14. /\ DOMAIN r.order = DOMAIN m.order
       /\ \A p \in live : /\ r.order[p].id = m.order[p].id
                          /\ r.order[p].side = m.order[p].side
                          /\ r.order[p].price = m.order[p].price
  BY <1>11, <1>12 DEF SameOrders, Alike
<1>15. \A p \in live \ {o} :
          /\ r.order[p].next = IF p = pv[o] THEN nx[o] ELSE nx[p]
          /\ r.order[p].prev = IF p = nx[o] THEN pv[o] ELSE pv[p]
  <2>1. \A p \in DOMAIN m.order \ {o} :
          /\ r.order[p].next = IF p = x.prev THEN x.next ELSE m.order[p].next
          /\ r.order[p].prev = IF p = x.next THEN x.prev ELSE m.order[p].prev
    BY <1>11, <1>12 DEF UnlinkedFrom
  <2>2. QED
    BY <1>4, <1>x, <2>1
<1>16. \A p : LevelAt(r, p) = LevelAt(m, p)
  BY <1>12 DEF LevelAt
<1>17. InUse(r) = InUse(m) /\ InUse(m) \subseteq Blocks
  BY <1>12 DEF InUse
<1>18. \A t : OnSide(r, t) = OnSide(m, t)
  BY <1>13, <1>17 DEF OnSide
<1>19. PoolInv(r)
  <2>1. PoolInv(m)
    BY DEF Rings
  <2>2. \A c \in InUse(r) : /\ r.level[c].side \in Sides /\ r.level[c].price \in Nat
                            /\ LevelAt(r, r.level[c].price) = c
    BY <1>13, <1>16, <1>17, <2>1 DEF PoolInv
  <2>3. QED
    BY <1>12, <1>13, <2>1, <2>2 DEF PoolInv
<1>20. ASSUME NEW t \in Sides PROVE LevelRingInv(r, t)
  <2>1. LevelRingInv(m, t)
    BY DEF Rings
  <2>2. OnSide(r, t) = OnSide(m, t) /\ r.best[t] = m.best[t]
    BY <1>12, <1>18
  <2>3. \A c \in OnSide(m, t) : /\ r.level[c].price = m.level[c].price
                                /\ r.level[c].next = m.level[c].next
                                /\ r.level[c].prev = m.level[c].prev
    BY <1>13, <1>17 DEF OnSide
  <2>4. QED
    BY <2>1, <2>2, <2>3, LevelRingKept
<1>21. \A c \in Blocks : OrdersAt(r, live \ {o}, c) = OrdersAt(m, live, c) \ {o}
  BY <1>13, <1>14 DEF OrdersAt
<1>22. OrderRingInv(r, live \ {o}, b)
  <2> DEFINE key2 == IdOf(r)
             nx2 == OrderNext(r)
             pv2 == OrderPrev(r)
  <2>1. \A p \in live : /\ nx2[p] = r.order[p].next /\ pv2[p] = r.order[p].prev
                        /\ key2[p] = r.order[p].id
    BY <1>14 DEF OrderNext, OrderPrev, IdOf
  <2> HIDE DEF key2, nx2, pv2, O, key, nx, pv, x, first2, first
  <2>2. \A p \in O \ {o} : /\ nx2[p] = IF p = pv[o] THEN nx[o] ELSE nx[p]
                           /\ pv2[p] = IF p = nx[o] THEN pv[o] ELSE pv[p]
    BY <1>2, <1>15, <2>1
  <2>3. LeadPast(O, o, nx, pv, nx2, pv2)
    BY <1>5, <2>2 DEF LeadPast
  <2>4. first2 = IF first = o THEN nx[o] ELSE first
    BY <1>x DEF first2
  <2>5. IsRing(key, O \ {o}, first2, nx2, pv2)
    BY <1>2, <1>3, <1>5, <2>3, <2>4, RingRemove
  <2>6. \A p \in O \ {o} : key2[p] = key[p]
    BY <1>2, <1>4, <1>14, <2>1
  <2>7. IsRing(key2, O \ {o}, first2, nx2, pv2)
    BY <2>5, <2>6, RingFrame
  <2>8. r.level[b].first = first2 /\ O \ {o} # {}
    BY <1>1, <1>5, <1>13
  <2>9. OrdersAt(r, live \ {o}, b) = O \ {o}
    BY <1>1, <1>21 DEF O
  <2>10. QED
    BY <2>7, <2>8, <2>9 DEF OrderRingInv, key2, nx2, pv2
<1>23. ASSUME NEW c \in InUse(r), c # b PROVE OrderRingInv(r, live \ {o}, c)
  <2>1. c \in InUse(m) /\ c \in Blocks
    BY <1>17
  <2>2. m.level[c].price # m.level[b].price
    <3>1. PoolInv(m)
      BY DEF Rings
    <3>2. QED
      BY <1>1, <1>23, <2>1, <3>1, PricesDiffer
  <2>3. o \notin OrdersAt(m, live, c)
    BY <1>1, <2>2 DEF OrdersAt
  <2>4. OrdersAt(r, live \ {o}, c) = OrdersAt(m, live, c)
    BY <1>21, <2>1, <2>3
  <2>5. \A p \in OrdersAt(m, live, c) : p \in live \ {o} /\ p \notin O
    BY <2>2, <2>3 DEF OrdersAt
  <2>6. \A p \in OrdersAt(m, live, c) : /\ r.order[p].next = nx[p]
                                        /\ r.order[p].prev = pv[p]
    BY <1>5, <1>15, <2>5
  <2>7. SameRing(m, r, OrdersAt(m, live, c))
    BY <1>4, <1>14, <2>5, <2>6 DEF SameRing
  <2>8. OrderRingInv(m, live, c) /\ r.level[c].first = m.level[c].first
    BY <1>13, <1>23, <2>1 DEF Rings
  <2>9. QED
    BY <2>4, <2>7, <2>8, OrderRingKept
<1>24. ASSUME NEW a \in live \ {o} PROVE HasLevel(r, a)
  <2>1. HasLevel(m, a)
    BY DEF Rings
  <2>2. QED
    BY <1>13, <1>14, <1>16, <1>17, <2>1 DEF HasLevel
<1>25. Rings(r, live \ {o})
  BY <1>19, <1>20, <1>22, <1>23, <1>24 DEF Rings
<1>26. QED
  BY <1>12, <1>25 DEF r

-----------------------------------------------------------------------------
(* What the other updates make of the rings. *)

LEMMA CancelRings ==
    ASSUME NEW m, NEW known, NEW book, Memory(m, known, book), m.status = "running",
           known \subseteq Ids, Rings(m, Live(m, known)), NEW id \in known,
           NEW side, NEW price
    PROVE  LET r == Applied(m, Update("CANCEL", id, side, price, 0))
           IN  r.status = "running" /\ Rings(r, Live(r, known \ {id}))
<1> DEFINE u == Update("CANCEL", id, side, price, 0)
           a == m.byId[id]
           r == RemoveOrder(m, a)
           live == Live(m, known)
<1>1. IsBook(m) /\ AreOrders(m.order) /\ m.byId = [i \in Ids |-> m.byId[i]]
      /\ Names(m, known, book)
  BY DEF Memory
<1>2. \A i \in known : m.byId[i] \in DOMAIN m.order /\ m.order[m.byId[i]].id = i
  BY <1>1 DEF Names
<1>3. a # Null
  BY <1>1, <1>2, MarketOrderBookAssumption DEF AreOrders
<1>4. Applied(m, u) = r
  <2>1. u.type = "CANCEL" /\ u.id = id
    BY DEF Update
  <2> HIDE DEF u
  <2>2. Applied(m, u) = RemoveOrder(m, m.byId[u.id])
    BY <1>3, <2>1 DEF Applied
  <2>3. QED
    BY <2>1, <2>2
<1>5. live \subseteq DOMAIN m.order /\ a \in live
  BY <1>2 DEF Live
<1>6. r.status = m.status /\ Rings(r, live \ {a})
  <2> DEFINE v == live
  <2>1. Rings(m, v) /\ v \subseteq DOMAIN m.order /\ a \in v
    BY <1>5
  <2> HIDE DEF v, a
  <2>2. CASE m.order[a].prev = a
    BY <1>1, <2>1, <2>2, RemoveOrderLast DEF v
  <2>3. CASE m.order[a].prev # a
    BY <1>1, <2>1, <2>3, RemoveOrderOther DEF v
  <2>4. QED
    BY <2>2, <2>3
<1>7. Live(r, known \ {id}) = live \ {a}
  <2>1. Enters(m, r, [m.byId EXCEPT ![id] = Null])
    <3>1. m.order[a].id = id
      BY <1>2
    <3>2. r.status = "running" /\ m.status # "order_id"
      BY <1>6
    <3> HIDE DEF a, live, r
    <3>3. QED
      BY <1>1, <3>1, <3>2, RemoveOrderEnters DEF r
  <2>2. r.byId = [m.byId EXCEPT ![id] = Null]
    BY <2>1 DEF Enters
  <2>3. \A i \in known \ {id} : r.byId[i] = m.byId[i] /\ m.byId[i] # a
    BY <1>1, <1>2, <2>2
  <2>4. QED
    BY <2>3 DEF Live
<1>8. QED
  BY <1>4, <1>6, <1>7

\* A change of a quantity.
LEMMA ModifyRings ==
    ASSUME NEW m, NEW known, NEW book, Memory(m, known, book), m.status = "running",
           known \subseteq Ids, Rings(m, Live(m, known)), NEW id \in known,
           NEW side, NEW price, NEW quantity
    PROVE  LET r == Applied(m, Update("MODIFY", id, side, price, quantity))
           IN  r.status = "running" /\ Rings(r, Live(r, known))
<1> DEFINE u == Update("MODIFY", id, side, price, quantity)
           a == m.byId[id]
           x == [m.order[a] EXCEPT !.quantity = quantity]
           g == [m.order EXCEPT ![a] = x]
           r == Put(m, "order", g)
           live == Live(m, known)
<1>1. IsBook(m) /\ AreOrders(m.order) /\ m.byId = [i \in Ids |-> m.byId[i]]
      /\ Names(m, known, book)
  BY DEF Memory
<1>2. \A i \in known : m.byId[i] \in DOMAIN m.order /\ m.order[m.byId[i]].id = i
  BY <1>1 DEF Names
<1>3. a # Null
  BY <1>1, <1>2, MarketOrderBookAssumption DEF AreOrders
<1>4. Applied(m, u) = r
  <2>1. u.type = "MODIFY" /\ u.id = id /\ u.quantity = quantity
    BY DEF Update
  <2> HIDE DEF u
  <2>2. Applied(m, u) = [m EXCEPT !.order[m.byId[u.id]].quantity = u.quantity]
    BY <1>3, <2>1 DEF Applied
  <2>3. QED
    BY <2>1, <2>2 DEF Put
<1>5. SamePlace(m.order[a], x)
  <2>1. IsOrder(m.order[a])
    BY <1>1, <1>2 DEF AreOrders
  <2> DEFINE y == m.order[a]
  <2>2. m.order[a] = y /\ IsOrder(y)
    BY <2>1
  <2> HIDE DEF y
  <2>3. SamePlace(y, [y EXCEPT !.quantity = quantity])
    BY <2>2 DEF SamePlace, IsOrder
  <2>4. QED
    BY <2>2, <2>3
<1> HIDE DEF x
<1>6. /\ DOMAIN g = DOMAIN m.order /\ g[a] = x
      /\ \A k \in DOMAIN m.order : k # a => g[k] = m.order[k]
  BY <1>1, <1>2 DEF AreOrders
<1>7. Except(m, r, {"order"}) /\ r.order = g
  <2>1. "order" \in Fields
    BY DEF Fields
  <2> HIDE DEF g
  <2>2. Except(m, r, {"order"}) /\ r["order"] = g
    BY <1>1, <2>1, PutField
  <2>3. QED
    BY <2>2
<1> HIDE DEF g, r, u
<1>8. \A k \in DOMAIN m.order :
         k \in DOMAIN r.order /\ SamePlace(m.order[k], r.order[k])
  BY <1>5, <1>6, <1>7 DEF SamePlace
<1>9. /\ Except(m, r, {"order", "byId"}) /\ r.status = m.status /\ r.byId = m.byId
  BY <1>7 DEF Except, Fields
<1>10. live \subseteq DOMAIN m.order /\ Live(r, known) = live
  BY <1>2, <1>9 DEF Live
<1>11. Rings(r, live)
  <2>1. Rings(m, live)
    OBVIOUS
  <2> HIDE DEF live
  <2>2. QED
    BY <1>8, <1>9, <1>10, <2>1, OrdersStay
<1>12. QED
  BY <1>4, <1>9, <1>10, <1>11 DEF u


\* Steps 1 .. n of a walk meet different nodes of N.
Meets(w, n, N) ==
    /\ \A i \in 1 .. n : w[i] \in N
    /\ \A i, j \in 1 .. n : i # j => w[i] # w[j]

Met(w, n) == {w[i] : i \in 1 .. n}

\* A walk once round a ring meets each of its nodes once.
LEMMA WalkRound ==
    ASSUME NEW key, NEW N, NEW head, NEW nx, NEW pv, IsRing(key, N, head, nx, pv),
           IsFiniteSet(N), N # {}, Null \notin N,
           NEW size \in Nat, Cardinality(N) <= size,
           NEW w, WalkIs(w, nx, head, size)
    PROVE  \E n \in Nat :
              /\ \A met : met = {k \in 1 .. size : w[k] = head} =>
                    met # {} /\ Min(met) = n
              /\ Meets(w, n, N) /\ Met(w, n) = N
<1> DEFINE n == Cardinality(N)
           met == {k \in 1 .. size : w[k] = head}
<1>1. Keys(key, N)
  BY DEF IsRing
<1>2. PICK e : Lists(key, N, e)
  BY <1>1, ListExists
<1>3. /\ n \in Nat /\ n >= 1 /\ e[1] = head /\ w[n] = head
      /\ \A k \in 0 .. n - 1 : w[k] = e[k + 1]
  BY <1>2, WalkAlongRing
<1>4. /\ e \in [1 .. n -> N]
      /\ \A i, j \in 1 .. n : e[i] = e[j] => i = j
      /\ \A p \in N : \E i \in 1 .. n : e[i] = p
  <2>1. e \in [1 .. n -> N]
    BY <1>2 DEF Lists
  <2>2. /\ \A i, j \in 1 .. n : e[i] = e[j] => i = j
        /\ \A p \in N : \E i \in 1 .. n : e[i] = p
    BY <1>1, <1>2, ListIsOnto
  <2>3. QED
    BY <2>1, <2>2
<1>5. n <= size
  OBVIOUS
<1> HIDE DEF n
<1>6. \A i \in 1 .. n : w[i] = e[IF i = n THEN 1 ELSE i + 1]
                        /\ (IF i = n THEN 1 ELSE i + 1) \in 1 .. n
  BY <1>3
<1>7. \A i \in 1 .. n : w[i] \in N
  BY <1>4, <1>6
<1>8. \A i, j \in 1 .. n : i # j => w[i] # w[j]
  <2> SUFFICES ASSUME NEW i \in 1 .. n, NEW j \in 1 .. n, i # j PROVE w[i] # w[j]
    OBVIOUS
  <2> DEFINE i2 == IF i = n THEN 1 ELSE i + 1
             j2 == IF j = n THEN 1 ELSE j + 1
  <2>1. i2 # j2
    BY <1>3
  <2>2. w[i] = e[i2] /\ w[j] = e[j2] /\ i2 \in 1 .. n /\ j2 \in 1 .. n
    BY <1>6
  <2> HIDE DEF i2, j2
  <2>3. QED
    BY <1>4, <2>1, <2>2
<1>9. ASSUME NEW p \in N PROVE \E i \in 1 .. n : w[i] = p
  <2>1. PICK i \in 1 .. n : e[i] = p
    BY <1>4
  <2>2. CASE i = 1
    BY <1>3, <2>1, <2>2
  <2>3. CASE i # 1
    <3>1. i - 1 \in 1 .. n /\ i - 1 \in 0 .. n - 1 /\ (i - 1) + 1 = i
      BY <1>3, <2>3
    <3>2. w[i - 1] = p
      BY <1>3, <2>1, <3>1
    <3>3. QED
      BY <3>1, <3>2
  <2>4. QED
    BY <2>2, <2>3
<1>10. n \in met
  BY <1>3, <1>5
<1>11. \A k \in met : n <= k
  <2> SUFFICES ASSUME NEW k \in met, k < n PROVE FALSE
    BY <1>3
  <2>1. k \in 1 .. n /\ n \in 1 .. n /\ k # n /\ w[k] = w[n]
    BY <1>3
  <2>2. QED
    BY <1>8, <2>1
<1>12. Min(met) = n
  <2> DEFINE x == Min(met)
  <2>1. x \in met /\ \A y \in met : x <= y
    BY <1>10, <1>11 DEF Min
  <2>2. x \in Nat /\ x <= n /\ n <= x
    BY <1>3, <1>10, <1>11, <2>1
  <2>3. QED
    BY <1>3, <2>2
<1>13. Met(w, n) = N
  BY <1>7, <1>9 DEF Met
<1>14. Meets(w, n, N)
  BY <1>7, <1>8 DEF Meets
<1>15. QED
  BY <1>3, <1>10, <1>12, <1>13, <1>14

\* Of m came r: the blocks of gone are given back.
GivesBack(m, r, gone) ==
    /\ Except(m, r, {"free"}) /\ r.free \in [Blocks -> BOOLEAN]
    /\ InUse(r) = InUse(m) \ gone

LEMMA TurnsGiveBack ==
    ASSUME NEW m, IsBook(m), m.status = "running", m.free \in [Blocks -> BOOLEAN],
           NEW w, NEW n \in Nat, Meets(w, n, InUse(m)), NEW f,
           Turns(f, m, w, n), NEW k \in 0 .. n
    PROVE  GivesBack(m, f[k], Met(w, k))
<1> DEFINE Gone(x) == Met(w, x)
           T == {x \in 0 .. n : ~GivesBack(m, f[x], Gone(x))}
<1>1. SUFFICES ASSUME T # {} PROVE FALSE
  OBVIOUS
<1>2. T \in SUBSET Nat
  OBVIOUS
<1>3. PICK x \in T : \A y \in T : x <= y
  <2> HIDE DEF T
  <2> QED
    BY <1>1, <1>2, Least
<1>4. f[x] = IF x = 0 THEN m ELSE Turn(f[x - 1], w[x])
  BY <1>3 DEF Turns
<1>5. CASE x = 0
  <2>1. f[x] = m /\ Gone(x) = {}
    BY <1>4, <1>5 DEF Met
  <2>2. GivesBack(m, m, {})
    BY DEF GivesBack, Except
  <2>3. QED
    BY <1>3, <2>1, <2>2
<1>6. CASE x # 0
  <2> DEFINE a == f[x - 1]
             b == w[x]
             r == Deallocate(a, b)
             free2 == [a.free EXCEPT ![b] = TRUE]
  <2>1. x - 1 \in 0 .. n /\ x - 1 \notin T /\ x \in 1 .. n
    <3>1. x \in 0 .. n /\ ~(x <= x - 1)
      BY <1>3
    <3>2. x - 1 \notin T
      <4> HIDE DEF T
      <4>1. QED
        BY <1>3, <3>1
    <3>3. QED
      BY <1>6, <3>1, <3>2
  <2>2. GivesBack(m, a, Gone(x - 1))
    BY <2>1
  <2>3. b \in InUse(m) /\ b \notin Gone(x - 1)
    BY <2>1 DEF Meets, Met
  <2>4. Gone(x) = Gone(x - 1) \cup {b}
    <3>1. 1 .. x = (1 .. x - 1) \cup {x}
      BY <2>1
    <3>2. QED
      BY <3>1 DEF Met
  <2> HIDE DEF a, b, Gone
  <2>5. /\ IsBook(a) /\ a.status = "running" /\ a.free \in [Blocks -> BOOLEAN]
        /\ b \in InUse(a)
    BY <2>2, <2>3 DEF GivesBack, Except, Fields
  <2>6. f[x] = r
    BY <1>4, <1>6, <2>5 DEF Turn, a, b
  <2>7. r = Put(a, "free", free2)
    BY <2>5, DeallocateFrees
  <2>8. Except(a, r, {"free"}) /\ r.free = free2
    <3>1. "free" \in Fields
      BY DEF Fields
    <3> HIDE DEF free2, r
    <3>2. Except(a, r, {"free"}) /\ r["free"] = free2
      BY <2>5, <2>7, <3>1, PutField
    <3>3. QED
      BY <3>2
  <2> HIDE DEF r
  <2>9. r.free \in [Blocks -> BOOLEAN] /\ InUse(r) = InUse(a) \ {b}
    BY <2>5, <2>8 DEF InUse
  <2>10. Except(m, r, {"free"})
    BY <2>2, <2>8 DEF GivesBack, Except
  <2>11. InUse(r) = InUse(m) \ Gone(x)
    BY <2>2, <2>4, <2>9 DEF GivesBack
  <2>12. GivesBack(m, f[x], Gone(x))
    BY <2>6, <2>9, <2>10, <2>11 DEF GivesBack
  <2>13. QED
    BY <1>3, <2>12 DEF Gone
<1>7. QED
  BY <1>5, <1>6

\* FreeSide gives back the levels of its side.
LEMMA FreeSideGivesBack ==
    ASSUME NEW m, IsBook(m), m.status = "running", m.free \in [Blocks -> BOOLEAN],
           NEW s, LevelRingInv(m, s)
    PROVE  GivesBack(m, FreeSide(m, s), OnSide(m, s))
<1> DEFINE head == m.best[s]
           nx == LevelNext(m)
           pv == LevelPrev(m)
           key == RankOf(m, s)
           N == OnSide(m, s)
           w == Walk(nx, head, MaxLevels)
           met == {k \in 1 .. MaxLevels : w[k] = head}
           n == IF met = {} THEN MaxLevels ELSE Min(met)
           f == CHOOSE f : Turns(f, m, w, n)
<1>1. FreeSide(m, s) = IF head = Null \/ m.status # "running" THEN m ELSE f[n]
  BY DEF FreeSide, Turns, Turn
<1>2. IsRing(key, N, head, nx, pv)
  BY DEF LevelRingInv
<1>3. /\ N \subseteq InUse(m) /\ Null \notin N /\ IsFiniteSet(N)
      /\ Cardinality(N) <= MaxLevels /\ MaxLevels \in Nat
  <2>1. N \subseteq InUse(m) /\ N \subseteq Blocks
    BY DEF OnSide, InUse
  <2>2. QED
    BY <2>1, BlocksAreFinite, FS_Subset, MarketOrderBookAssumption
<1> HIDE DEF nx, pv, key, N, head
<1>4. CASE N = {}
  <2>1. head = Null
    BY <1>2, <1>4 DEF IsRing, IsHead
  <2>2. GivesBack(m, m, {})
    BY DEF GivesBack, Except
  <2>3. QED
    BY <1>1, <1>4, <2>1, <2>2 DEF N
<1>5. CASE N # {}
  <2>1. head # Null
    BY <1>2, <1>3, <1>5 DEF IsRing, IsHead
  <2>2. WalkIs(w, nx, head, MaxLevels)
    BY <1>3, WalkWalks
  <2> HIDE DEF w
  <2>3. PICK x \in Nat :
           /\ \A set : set = {k \in 1 .. MaxLevels : w[k] = head} =>
                 set # {} /\ Min(set) = x
           /\ Meets(w, x, N) /\ Met(w, x) = N
    BY <1>2, <1>3, <1>5, <2>2, WalkRound
  <2>4. met # {} /\ Min(met) = x
    <3>1. met = {k \in 1 .. MaxLevels : w[k] = head}
      OBVIOUS
    <3> HIDE DEF met
    <3>2. QED
      BY <2>3, <3>1
  <2>5. n = x
    BY <2>4
  <2> HIDE DEF met, n
  <2>6. n \in Nat /\ Meets(w, n, InUse(m)) /\ Met(w, n) = N
    BY <1>3, <2>3, <2>5 DEF Meets
  <2>7. PICK g : Turns(g, m, w, n)
    BY <2>6, TurnsExist
  <2>8. Turns(f, m, w, n)
    BY <2>7
  <2> HIDE DEF f
  <2>9. n \in 0 .. n
    BY <2>6
  <2>10. GivesBack(m, f[n], Met(w, n))
    BY <2>6, <2>8, <2>9, TurnsGiveBack
  <2>11. QED
    BY <1>1, <2>1, <2>6, <2>10 DEF N
<1>6. QED
  BY <1>4, <1>5

\* CLEAR gives back every level, and no order is known.
LEMMA ClearRings ==
    ASSUME NEW m, IsBook(m), m.status = "running", NEW live, Rings(m, live)
    PROVE  LET r == Applied(m, Update("CLEAR", Null, Null, Null, Null))
           IN  r.status = "running" /\ Rings(r, Live(r, {}))
<1> DEFINE u == Update("CLEAR", Null, Null, Null, Null)
           one == FreeSide(m, "BUY")
           freed == FreeSide(one, "SELL")
           names == [i \in Ids |-> Null]
           nobody == [s \in Sides |-> Null]
           forgot == Put(freed, "byId", names)
           r == Put(forgot, "best", nobody)
<1>1. freed.status = "running" => Applied(m, u) = r
  <2>1. u.type = "CLEAR"
    BY DEF Update
  <2> HIDE DEF u
  <2>2. Applied(m, u) = Clear(m)
    BY <2>1 DEF Applied
  <2>3. Clear(m) = IF freed.status # "running" THEN freed
                   ELSE [freed EXCEPT !.byId = names, !.best = nobody]
    BY DEF Clear
  <2> HIDE DEF freed, names, nobody
  <2>4. [freed EXCEPT !.byId = names, !.best = nobody] = r
    BY DEF Put
  <2>5. QED
    BY <2>2, <2>3, <2>4
<1>2. PoolInv(m) /\ LevelRingInv(m, "BUY") /\ LevelRingInv(m, "SELL")
  BY DEF Rings, Sides
<1>3. GivesBack(m, one, OnSide(m, "BUY"))
  BY <1>2, FreeSideGivesBack DEF PoolInv
<1> HIDE DEF one
<1>4. /\ IsBook(one) /\ one.status = "running" /\ one.free \in [Blocks -> BOOLEAN]
      /\ one.level = m.level /\ one.best = m.best
  BY <1>3 DEF GivesBack, Except, Fields
<1>5. OnSide(one, "SELL") = OnSide(m, "SELL")
  BY <1>3, <1>4 DEF GivesBack, OnSide
<1>6. LevelRingInv(one, "SELL")
  <2>1. \A c \in OnSide(m, "SELL") : /\ one.level[c].price = m.level[c].price
                                     /\ one.level[c].next = m.level[c].next
                                     /\ one.level[c].prev = m.level[c].prev
    BY <1>4
  <2>2. one.best["SELL"] = m.best["SELL"]
    BY <1>4
  <2>3. QED
    BY <1>2, <1>5, <2>1, <2>2, LevelRingKept
<1>7. GivesBack(one, freed, OnSide(one, "SELL"))
  BY <1>4, <1>6, FreeSideGivesBack
<1> HIDE DEF freed
<1>8. Except(m, freed, {"free"}) /\ freed.free \in [Blocks -> BOOLEAN]
  BY <1>3, <1>7 DEF GivesBack, Except
<1>9. InUse(freed) = {}
  <2>1. \A c \in InUse(m) : c \in OnSide(m, "BUY") \/ c \in OnSide(m, "SELL")
    BY <1>2 DEF PoolInv, OnSide, Sides
  <2>2. QED
    BY <1>3, <1>5, <1>7, <2>1 DEF GivesBack
<1>10. /\ IsBook(freed) /\ freed.status = "running" /\ freed.level = m.level
       /\ freed.cursor = m.cursor /\ freed.index = m.index
  BY <1>8 DEF Except, Fields
<1>11. Except(freed, forgot, {"byId"})
  <2>1. "byId" \in Fields
    BY DEF Fields
  <2> HIDE DEF names
  <2>2. QED
    BY <1>10, <2>1, PutField
<1> HIDE DEF forgot
<1>12. Except(forgot, r, {"best"}) /\ r.best = nobody
  <2>1. "best" \in Fields
    BY DEF Fields
  <2>2. IsBook(forgot)
    BY <1>11 DEF Except
  <2> HIDE DEF nobody
  <2>3. Except(forgot, r, {"best"}) /\ r["best"] = nobody
    BY <2>1, <2>2, PutField
  <2>4. QED
    BY <2>3
<1> HIDE DEF r
<1>13. /\ r.status = "running" /\ r.level = m.level /\ r.cursor = m.cursor
       /\ r.index = m.index /\ r.free = freed.free
  <2>1. /\ forgot.status = freed.status /\ forgot.level = freed.level
        /\ forgot.cursor = freed.cursor /\ forgot.index = freed.index
        /\ forgot.free = freed.free
    BY <1>11 DEF Except, Fields
  <2>2. /\ r.status = forgot.status /\ r.level = forgot.level
        /\ r.cursor = forgot.cursor /\ r.index = forgot.index
        /\ r.free = forgot.free
    BY <1>12 DEF Except, Fields
  <2>3. QED
    BY <1>10, <2>1, <2>2
<1>14. InUse(r) = {} /\ \A s : OnSide(r, s) = {}
  BY <1>9, <1>13 DEF InUse, OnSide
<1>15. PoolInv(r)
  <2>1. r.free[r.cursor]
    BY <1>2, <1>13, <1>14 DEF PoolInv, InUse
  <2>2. r.best = [s \in Sides |-> r.best[s]]
    BY <1>12
  <2>3. QED
    BY <1>2, <1>8, <1>13, <1>14, <2>1, <2>2 DEF PoolInv
<1>16. ASSUME NEW s \in Sides PROVE LevelRingInv(r, s)
  <2>1. r.best[s] = Null
    BY <1>12
  <2>2. QED
    BY <1>14, <2>1, RingEmpty DEF LevelRingInv
<1>17. Rings(r, Live(r, {}))
  BY <1>14, <1>15, <1>16 DEF Rings, Live
<1>18. QED
  BY <1>1, <1>10, <1>13, <1>17

-----------------------------------------------------------------------------
(* The rings are kept by every step. *)

\* The best level of a side is the first of its ring.
LEMMA BestIsFirst ==
    ASSUME NEW m, NEW s, LevelRingInv(m, s)
    PROVE  /\ m.best[s] = Null <=> OnSide(m, s) = {}
           /\ m.best[s] # Null =>
                 /\ m.best[s] \in OnSide(m, s)
                 /\ \A c \in OnSide(m, s) : RankOf(m, s)[m.best[s]] <= RankOf(m, s)[c]
<1>1. IsHead(RankOf(m, s), OnSide(m, s), m.best[s])
  BY DEF LevelRingInv, IsRing
<1>2. Null \notin OnSide(m, s)
  BY BlocksAreFinite DEF OnSide, InUse
<1>3. QED
  BY <1>1, <1>2 DEF IsHead

\* The walk over the orders of a level comes to its end and lists them.
LEMMA OrderRingLists ==
    ASSUME NEW m, NEW live, NEW b, OrderRingInv(m, live, b),
           live \subseteq DOMAIN m.order, AreOrders(m.order)
    PROVE  /\ Lists(IdOf(m), OrdersAt(m, live, b), OrderRing(m, b))
           /\ IsFiniteSet(OrdersAt(m, live, b)) /\ Keys(IdOf(m), OrdersAt(m, live, b))
<1> DEFINE N == OrdersAt(m, live, b)
           key == IdOf(m)
           nx == OrderNext(m)
           pv == OrderPrev(m)
           head == m.level[b].first
<1>1. IsRing(key, N, head, nx, pv)
  BY DEF OrderRingInv
<1>2. DOMAIN nx = DOMAIN m.order /\ N \subseteq DOMAIN m.order
  BY DEF OrderNext, OrdersAt
<1>3. PICK n \in Nat : DOMAIN m.order = 1 .. n
  BY DEF AreOrders
<1>4. IsFiniteSet(DOMAIN m.order) /\ Null \notin DOMAIN m.order
  BY <1>3, FS_Interval, MarketOrderBookAssumption
<1>5. OrderRing(m, b) = Ring(nx, head)
  BY DEF OrderRing
<1> HIDE DEF N, key, nx, pv, head
<1>6. Lists(key, N, Ring(nx, head))
  <2>1. Null \notin N /\ N \subseteq DOMAIN nx /\ IsFiniteSet(DOMAIN nx)
    BY <1>2, <1>4
  <2>2. QED
    BY <1>1, <2>1, RingLists
<1>7. IsFiniteSet(N)
  BY <1>2, <1>4, FS_Subset
<1>8. Keys(key, N)
  BY <1>1 DEF IsRing
<1>9. QED
  BY <1>5, <1>6, <1>7, <1>8 DEF N, key

\* updateBBO() comes to its end.
LEMMA NoStray ==
    ASSUME NEW m, NEW live, Rings(m, live), live \subseteq DOMAIN m.order,
           AreOrders(m.order), NEW s \in Sides
    PROVE  ~Strays(m, s)
<1> SUFFICES ASSUME m.best[s] # Null PROVE OrderRing(m, m.best[s]) # <<>>
  BY DEF Strays
<1> DEFINE b == m.best[s]
           N == OrdersAt(m, live, b)
<1>1. b \in InUse(m)
  BY BestIsFirst DEF Rings, OnSide
<1>2. OrderRingInv(m, live, b)
  BY <1>1 DEF Rings
<1>3. N # {} /\ IsFiniteSet(N) /\ OrderRing(m, b) \in [1 .. Cardinality(N) -> N]
  <2> HIDE DEF b
  <2>1. QED
    BY <1>2, OrderRingLists DEF OrderRingInv, Lists
<1> HIDE DEF N, b
<1>4. Cardinality(N) \in Nat /\ Cardinality(N) # 0
  BY <1>3, FS_CardinalityType, FS_EmptySet
<1>5. DOMAIN OrderRing(m, b) # {}
  BY <1>3, <1>4
<1>6. QED
  BY <1>5 DEF b

\* The update is applied, and the best bid and offer follow it.
LEMMA UpdateIsDone ==
    ASSUME NEW u, OnMarketUpdate(u), NEW done, done = Applied(mob, u), NEW live,
           done.status \in {"running", "out_of_space"},
           done.status = "running" =>
              Rings(done, live) /\ live \subseteq DOMAIN done.order /\ AreOrders(done.order)
    PROVE  /\ mob' = done
           /\ done.status = "running" =>
                 /\ bbo' = [s \in Sides |-> IF Updates(mob, u, s) THEN BestOf(done, s)
                                            ELSE bbo[s]]
                 /\ outdated' = IF u.type = "CLEAR" THEN Sides
                                ELSE outdated \ {s \in Sides : Updates(mob, u, s)}
<1> DEFINE updated == {s \in Sides : Updates(mob, u, s)}
           stray == \E s \in updated : Strays(done, s)
<1>1. IF done.status # "running" \/ stray
      THEN mob' = IF done.status = "running" THEN Ended(done, "endless") ELSE done
      ELSE /\ mob' = done
           /\ bbo' = [s \in Sides |-> IF s \in updated THEN BestOf(done, s) ELSE bbo[s]]
           /\ outdated' = IF u.type = "CLEAR" THEN Sides ELSE outdated \ updated
  BY DEF OnMarketUpdate
<1>2. CASE done.status # "running"
  BY <1>1, <1>2
<1>3. CASE done.status = "running"
  <2>1. ~stray
    BY <1>3, NoStray
  <2>2. /\ mob' = done
        /\ bbo' = [s \in Sides |-> IF s \in updated THEN BestOf(done, s) ELSE bbo[s]]
        /\ outdated' = IF u.type = "CLEAR" THEN Sides ELSE outdated \ updated
    BY <1>1, <1>3, <2>1
  <2>3. [s \in Sides |-> IF s \in updated THEN BestOf(done, s) ELSE bbo[s]] =
            [s \in Sides |-> IF Updates(mob, u, s) THEN BestOf(done, s) ELSE bbo[s]]
    OBVIOUS
  <2>4. QED
    BY <2>2, <2>3
<1>4. QED
  BY <1>2, <1>3


\* The book after update u, and what updateBBO() makes of it.
RingsAfter(u) ==
    /\ mob' = Applied(mob, u) /\ mob'.status \in {"running", "out_of_space"}
    /\ mob'.status = "running" =>
          /\ Rings(mob', Live(mob', Known')) /\ Memory(mob', Known', feed')
          /\ bbo' = [s \in Sides |-> IF Updates(mob, u, s) THEN BestOf(mob', s)
                                     ELSE bbo[s]]
          /\ outdated' = IF u.type = "CLEAR" THEN Sides
                         ELSE outdated \ {s \in Sides : Updates(mob, u, s)}

LEMMA LiveOrders ==
    ASSUME NEW m, NEW known, NEW book, Memory(m, known, book), known \subseteq Ids
    PROVE  AreOrders(m.order) /\ Live(m, known) \subseteq DOMAIN m.order
BY DEF Memory, Names, Live

LEMMA RingsApplied ==
    ASSUME NEW u, Applies(u), Known' \subseteq Ids, NEW done, done = Applied(mob, u),
           done.status \in {"running", "out_of_space"},
           done.status = "running" => Rings(done, Live(done, Known'))
    PROVE  RingsAfter(u)
<1> DEFINE live == Live(done, Known')
<1>1. done.status = "running" => Memory(done, Known', feed')
  BY DEF Applies
<1>2. done.status = "running" => live \subseteq DOMAIN done.order /\ AreOrders(done.order)
  BY <1>1, LiveOrders
<1>3. OnMarketUpdate(u)
  BY DEF Applies
<1>4. done.status = "running" => Rings(done, live)
  OBVIOUS
<1> HIDE DEF live
<1>5. /\ mob' = done
      /\ done.status = "running" =>
            /\ bbo' = [s \in Sides |-> IF Updates(mob, u, s) THEN BestOf(done, s)
                                       ELSE bbo[s]]
            /\ outdated' = IF u.type = "CLEAR" THEN Sides
                           ELSE outdated \ {s \in Sides : Updates(mob, u, s)}
  BY <1>2, <1>3, <1>4, UpdateIsDone
<1>6. QED
  BY <1>1, <1>5 DEF RingsAfter

\* What the invariant says before a step that misplaces nothing.
LEMMA RingsBefore ==
    ASSUME RingsInv, NEW u, Applies(u), ~misled'
    PROVE  /\ Rings(mob, Live(mob, Known)) /\ NewestLast
           /\ ~Misplaces(mob, u) /\ ~misled
           /\ mob.status = "running" /\ Memory(mob, Known, feed) /\ FeedInv
           /\ Known \subseteq Resting /\ Resting \subseteq Ids
<1>1. ~misled /\ ~Misplaces(mob, u) /\ mob.status = "running"
      /\ Memory(mob, Known, feed) /\ FeedInv
  BY DEF Applies, OnMarketUpdate
<1>2. QED
  BY <1>1, FeedFacts DEF RingsInv, Running, Known

LEMMA RingsInvAfter ==
    ASSUME NEW u, RingsAfter(u), NewestLast'
    PROVE  RingsInv'
<1>1. mob'.status \in {"running", "out_of_space"}
      /\ (mob'.status = "running" => Rings(mob', Live(mob', Known')))
  BY DEF RingsAfter
<1>2. QED
  BY <1>1 DEF RingsInv, Running

LEMMA AddKeepsRings ==
    ASSUME KnownInv, RingsInv, NEW s \in Sides, NEW p \in Prices, NEW q \in Quantities,
           Add(s, p, q), ~misled'
    PROVE  RingsAfter(Update("ADD", nextId, s, p, q)) /\ RingsInv'
<1> DEFINE u == Update("ADD", nextId, s, p, q)
           done == Applied(mob, u)
<1>1. nextId \in Ids \ Known /\ Known' = Known \cup {nextId} /\ Applies(u)
  BY AddKeeps
<1>2. /\ Rings(mob, Live(mob, Known)) /\ ~Misplaces(mob, u)
      /\ mob.status = "running" /\ Memory(mob, Known, feed) /\ FeedInv
      /\ Known \subseteq Resting /\ Resting \subseteq Ids
  <2> HIDE DEF u
  <2>1. QED
    BY <1>1, RingsBefore
<1>3. \A i \in Known : i < nextId
  <2>1. \A i \in Known : feed[i] # NotResting /\ i \in Ids
    BY <1>2 DEF Resting
  <2>2. \A i \in Known : ~(i >= nextId) /\ i \in Int /\ nextId \in Int
    BY <1>2, <2>1 DEF FeedInv, Ids
  <2>3. QED
    BY <2>2
<1>4. p \in Nat
  BY MarketOrderBookAssumption
<1>5. /\ done.status \in {"running", "out_of_space"}
      /\ done.status = "running" => Rings(done, Live(done, Known \cup {nextId}))
  BY <1>1, <1>2, <1>3, <1>4, AddRings
<1>6. RingsAfter(u)
  <2> HIDE DEF u
  <2>1. Known' \subseteq Ids
    BY <1>1, <1>2
  <2>2. QED
    BY <1>1, <1>5, <2>1, RingsApplied
<1>7. NewestLast'
  <2>1. toCome' = <<>>
    BY DEF Add
  <2>2. 1 .. Len(toCome') = {}
    BY <2>1
  <2>3. QED
    BY <2>2 DEF NewestLast
<1>8. QED
  BY <1>6, <1>7, RingsInvAfter

LEMMA ModifyKeepsRings ==
    ASSUME KnownInv, RingsInv, NEW id \in Ids, NEW q \in Quantities, Modify(id, q), ~misled'
    PROVE  /\ RingsAfter(Update("MODIFY", id, feed[id].side, feed[id].price, q))
           /\ RingsInv'
<1> DEFINE u == Update("MODIFY", id, feed[id].side, feed[id].price, q)
           done == Applied(mob, u)
<1>1. id \in Known /\ Known' = Known /\ Applies(u)
  BY ModifyKeeps
<1>2. /\ Rings(mob, Live(mob, Known)) /\ mob.status = "running"
      /\ Memory(mob, Known, feed) /\ Known \subseteq Resting /\ Resting \subseteq Ids
  <2> HIDE DEF u
  <2>1. QED
    BY <1>1, RingsBefore
<1>3. done.status = "running" /\ Rings(done, Live(done, Known))
  <2>1. Known \subseteq Ids
    BY <1>2
  <2>2. QED
    BY <1>1, <1>2, <2>1, ModifyRings
<1>4. RingsAfter(u)
  <2> HIDE DEF u
  <2>1. Known' \subseteq Ids
    BY <1>1, <1>2
  <2>2. QED
    BY <1>1, <1>3, <2>1, RingsApplied
<1>5. NewestLast'
  <2>1. toCome' = <<>>
    BY DEF Modify
  <2>2. 1 .. Len(toCome') = {}
    BY <2>1
  <2>3. QED
    BY <2>2 DEF NewestLast
<1>6. QED
  BY <1>4, <1>5, RingsInvAfter

LEMMA CancelKeepsRings ==
    ASSUME KnownInv, RingsInv, NEW id \in Ids, Cancel(id), ~misled'
    PROVE  /\ RingsAfter(Update("CANCEL", id, feed[id].side, feed[id].price, 0))
           /\ RingsInv'
<1> DEFINE u == Update("CANCEL", id, feed[id].side, feed[id].price, 0)
           done == Applied(mob, u)
<1>1. id \in Known /\ Known' = Known \ {id} /\ Applies(u)
  BY CancelKeeps
<1>2. /\ Rings(mob, Live(mob, Known)) /\ mob.status = "running"
      /\ Memory(mob, Known, feed) /\ Known \subseteq Resting /\ Resting \subseteq Ids
  <2> HIDE DEF u
  <2>1. QED
    BY <1>1, RingsBefore
<1>3. done.status = "running" /\ Rings(done, Live(done, Known \ {id}))
  <2>1. Known \subseteq Ids
    BY <1>2
  <2>2. QED
    BY <1>1, <1>2, <2>1, CancelRings
<1>4. RingsAfter(u)
  <2> HIDE DEF u
  <2>1. Known' \subseteq Ids
    BY <1>1, <1>2
  <2>2. QED
    BY <1>1, <1>3, <2>1, RingsApplied
<1>5. NewestLast'
  <2>1. toCome' = <<>>
    BY DEF Cancel
  <2>2. 1 .. Len(toCome') = {}
    BY <2>1
  <2>3. QED
    BY <2>2 DEF NewestLast
<1>6. QED
  BY <1>4, <1>5, RingsInvAfter

LEMMA ResyncKeepsRings ==
    ASSUME KnownInv, RingsInv, NEW kept \in SUBSET Resting, Resync(kept), ~misled'
    PROVE  RingsAfter(Update("CLEAR", Null, Null, Null, Null)) /\ RingsInv'
<1> DEFINE u == Update("CLEAR", Null, Null, Null, Null)
           done == Applied(mob, u)
<1>1. kept \in SUBSET Ids /\ Known' = {} /\ Applies(u)
  BY ResyncKeeps
<1>2. /\ Rings(mob, Live(mob, Known)) /\ mob.status = "running"
      /\ Memory(mob, Known, feed)
  <2> HIDE DEF u
  <2>1. QED
    BY <1>1, RingsBefore
<1>3. done.status = "running" /\ Rings(done, Live(done, {}))
  <2>1. IsBook(mob)
    BY <1>2 DEF Memory
  <2>2. QED
    BY <1>2, <2>1, ClearRings
<1>4. RingsAfter(u)
  <2> HIDE DEF u
  <2>1. Known' \subseteq Ids
    BY <1>1
  <2>2. QED
    BY <1>1, <1>3, <2>1, RingsApplied
<1>5. NewestLast'
  <2>1. toCome' = InOrder(kept)
    BY DEF Resync
  <2>2. \A j, k \in 1 .. Len(toCome') : j < k => toCome'[j] < toCome'[k]
    BY <1>1, <2>1, InOrderLists
  <2>3. QED
    BY <1>1, <2>2 DEF NewestLast
<1>6. QED
  BY <1>4, <1>5, RingsInvAfter

LEMMA SnapshotOrderKeepsRings ==
    ASSUME KnownInv, RingsInv, SnapshotOrder, ~misled'
    PROVE  LET id == Head(toCome)
           IN  /\ RingsAfter(Update("ADD", id, feed[id].side, feed[id].price,
                                    feed[id].quantity))
               /\ RingsInv'
<1> DEFINE id == Head(toCome)
           u == Update("ADD", id, feed[id].side, feed[id].price, feed[id].quantity)
           done == Applied(mob, u)
<1>1. /\ id \in Ids \ Known /\ feed[id] \in FeedEntry
      /\ Known' = Known \cup {id} /\ Applies(u)
  BY SnapshotOrderKeeps
<1>2. /\ Rings(mob, Live(mob, Known)) /\ ~Misplaces(mob, u) /\ NewestLast
      /\ mob.status = "running" /\ Memory(mob, Known, feed) /\ FeedInv
      /\ Known \subseteq Resting /\ Resting \subseteq Ids
  <2> HIDE DEF u
  <2>1. QED
    BY <1>1, RingsBefore
<1>3. /\ toCome \in Seq(Ids) /\ Len(toCome) \in Nat /\ Len(toCome) >= 1
      /\ id = toCome[1] /\ toCome' \in Seq(Ids) /\ Len(toCome') = Len(toCome) - 1
      /\ \A k \in 1 .. Len(toCome) - 1 :
            k + 1 \in 1 .. Len(toCome) /\ toCome'[k] = toCome[k + 1]
  <2>1. toCome # <<>> /\ toCome' = Tail(toCome) /\ toCome \in Seq(Ids)
    BY <1>1 DEF SnapshotOrder, Applies, SnapshotInv
  <2>2. QED
    BY <2>1
<1> HIDE DEF id
<1>4. \A i \in Known : i < id
  BY <1>2, <1>3 DEF NewestLast
<1>5. feed[id].side \in Sides /\ feed[id].price \in Nat
  BY <1>1, MarketOrderBookAssumption DEF FeedEntry
<1>6. /\ done.status \in {"running", "out_of_space"}
      /\ done.status = "running" => Rings(done, Live(done, Known \cup {id}))
  <2> DEFINE side == feed[id].side
             price == feed[id].price
             quantity == feed[id].quantity
  <2>1. side \in Sides /\ price \in Nat /\ u = Update("ADD", id, side, price, quantity)
    BY <1>5
  <2>2. Known \subseteq Ids
    BY <1>2
  <2> HIDE DEF side, price, quantity, u
  <2>3. ~Misplaces(mob, Update("ADD", id, side, price, quantity))
    BY <1>2, <2>1
  <2>4. LET r == Applied(mob, Update("ADD", id, side, price, quantity))
        IN  /\ r.status \in {"running", "out_of_space"}
            /\ r.status = "running" => Rings(r, Live(r, Known \cup {id}))
    BY <1>1, <1>2, <1>4, <2>1, <2>2, <2>3, AddRings
  <2>5. QED
    BY <2>1, <2>4
<1>7. RingsAfter(u)
  <2> HIDE DEF u
  <2>1. Known' \subseteq Ids
    BY <1>1, <1>2
  <2>2. QED
    BY <1>1, <1>6, <2>1, RingsApplied
<1>8. NewestLast'
  <2>1. \A j, k \in 1 .. Len(toCome') : j < k => toCome'[j] < toCome'[k]
    <3> SUFFICES ASSUME NEW j \in 1 .. Len(toCome'), NEW k \in 1 .. Len(toCome'), j < k
                 PROVE  toCome'[j] < toCome'[k]
      OBVIOUS
    <3>1. /\ j + 1 \in 1 .. Len(toCome) /\ k + 1 \in 1 .. Len(toCome) /\ j + 1 < k + 1
          /\ toCome'[j] = toCome[j + 1] /\ toCome'[k] = toCome[k + 1]
      BY <1>3
    <3>2. QED
      BY <1>2, <3>1 DEF NewestLast
  <2>2. ASSUME NEW i \in Known', NEW k \in 1 .. Len(toCome')
        PROVE  i < toCome'[k]
    <3>1. k + 1 \in 1 .. Len(toCome) /\ 1 \in 1 .. Len(toCome) /\ 1 < k + 1
          /\ toCome'[k] = toCome[k + 1]
      BY <1>3
    <3>2. i \in Known \/ i = toCome[1]
      BY <1>1, <1>3
    <3>3. QED
      BY <1>2, <3>1, <3>2 DEF NewestLast
  <2>3. QED
    BY <2>1, <2>2 DEF NewestLast
<1>9. QED
  BY <1>7, <1>8, RingsInvAfter DEF id


LEMMA InitRings == Init => RingsInv
<1> SUFFICES ASSUME Init PROVE RingsInv
  OBVIOUS
<1>1. mob = Empty /\ feed = [i \in Ids |-> NotResting] /\ toCome = <<>>
  BY DEF Init
<1>2. /\ mob.level = [b \in Blocks |-> NoLevel] /\ mob.free = [b \in Blocks |-> TRUE]
      /\ mob.cursor = 0 /\ mob.index = [b \in Blocks |-> Null]
      /\ mob.best = [s \in Sides |-> Null] /\ mob.status = "running"
  BY <1>1 DEF Empty
<1>3. Known = {} /\ Live(mob, Known) = {}
  <2>1. Known = {}
    BY <1>1 DEF Known, Resting
  <2>2. QED
    BY <2>1 DEF Live
<1>4. InUse(mob) = {} /\ \A s : OnSide(mob, s) = {}
  BY <1>2 DEF InUse, OnSide
<1>5. PoolInv(mob)
  <2>1. AreLevels(mob.level)
    BY <1>2 DEF AreLevels, IsLevel, NoLevel
  <2>2. 0 \in Blocks
    BY MarketOrderBookAssumption DEF Blocks
  <2>3. mob.best = [s \in Sides |-> mob.best[s]]
    BY <1>2
  <2>4. mob.free \in [Blocks -> BOOLEAN] /\ mob.free[mob.cursor] /\ mob.cursor \in Blocks
        /\ mob.index \in [Blocks -> Blocks \cup {Null}]
    BY <1>2, <2>2
  <2>5. QED
    BY <1>4, <2>1, <2>3, <2>4 DEF PoolInv
<1>6. ASSUME NEW s \in Sides PROVE LevelRingInv(mob, s)
  BY <1>2, <1>4, RingEmpty DEF LevelRingInv
<1>7. Rings(mob, Live(mob, Known))
  BY <1>3, <1>4, <1>5, <1>6 DEF Rings
<1>8. NewestLast
  <2>1. 1 .. Len(toCome) = {}
    BY <1>1
  <2>2. QED
    BY <2>1 DEF NewestLast
<1>9. QED
  BY <1>2, <1>7, <1>8 DEF RingsInv

LEMMA RingsStep == KnownInv /\ RingsInv /\ [Next]_vars => RingsInv'
<1> SUFFICES ASSUME KnownInv, RingsInv, [Next]_vars, ~misled' PROVE RingsInv'
  BY DEF RingsInv
<1>1. ASSUME NEW s \in Sides, NEW p \in Prices, NEW q \in Quantities, Add(s, p, q)
      PROVE  RingsInv'
  BY <1>1, AddKeepsRings
<1>2. ASSUME NEW i \in Ids, NEW q \in Quantities, Modify(i, q)
      PROVE  RingsInv'
  BY <1>2, ModifyKeepsRings
<1>3. ASSUME NEW i \in Ids, Cancel(i) PROVE RingsInv'
  BY <1>3, CancelKeepsRings
<1>4. ASSUME NEW kept \in SUBSET Resting, Resync(kept) PROVE RingsInv'
  BY <1>4, ResyncKeepsRings
<1>5. CASE SnapshotOrder
  BY <1>5, SnapshotOrderKeepsRings
<1>6. CASE Destroy
  <2>1. mob.status = "running" /\ IsBook(mob)
    BY <1>6 DEF Destroy, KnownInv, Running, Memory
  <2>2. \E how \in {"destroyed", "validity_check"} : mob' = Ended(mob, how)
    BY <1>6 DEF Destroy
  <2>3. mob'.status \in {"destroyed", "validity_check"}
    BY <2>1, <2>2 DEF Ended, IsBook, Fields
  <2>4. QED
    BY <2>3 DEF RingsInv, Running
<1>7. CASE UNCHANGED vars
  <2>1. mob' = mob /\ feed' = feed /\ toCome' = toCome /\ misled' = misled
    BY <1>7 DEF vars, feedVars
  <2>2. Resting' = Resting
    BY <2>1 DEF Resting, Ids, NotResting
  <2>3. Known' = Known
    BY <2>1, <2>2 DEF Known, ToSet
  <2>4. NewestLast => NewestLast'
    BY <2>1, <2>3 DEF NewestLast
  <2>5. Live(mob, Known)' = Live(mob, Known)
    BY <2>1, <2>3 DEF Live
  <2>6. Rings(mob, Live(mob, Known)) => Rings(mob', Live(mob', Known'))
    BY <2>1, <2>3
  <2>7. QED
    BY <2>1, <2>4, <2>6 DEF RingsInv, Running
<1>8. QED
  BY <1>1, <1>2, <1>3, <1>4, <1>5, <1>6, <1>7 DEF Next

LEMMA RingsAlways == Spec => [](KnownInv /\ RingsInv)
<1>1. Init => KnownInv /\ RingsInv
  BY InitKnown, InitRings
<1>2. KnownInv /\ RingsInv /\ [Next]_vars => KnownInv' /\ RingsInv'
  BY KnownStep, RingsStep
<1>3. QED
  BY <1>1, <1>2, PTL DEF Spec

-----------------------------------------------------------------------------
(* The rings and the exchange's book. *)

\* A list of N, each node replaced by what v makes of it, lists the results.
LEMMA ListImage ==
    ASSUME NEW key, NEW N, IsFiniteSet(N), Keys(key, N), NEW e, Lists(key, N, e),
           NEW S, NEW v \in [N -> S], \A x \in S : \E p \in N : v[p] = x,
           NEW key2, \A p \in N : key2[v[p]] = key[p]
    PROVE  /\ Lists(key2, S, [k \in DOMAIN e |-> v[e[k]]])
           /\ Keys(key2, S) /\ IsFiniteSet(S) /\ Cardinality(S) = Cardinality(N)
<1>1. \A p, q \in N : v[p] = v[q] => p = q
  BY DEF Keys
<1>2. v \in Bijection(N, S)
  BY <1>1 DEF Bijection, Injection, Surjection, IsInjective
<1>3. IsFiniteSet(S) /\ Cardinality(S) = Cardinality(N)
  <2>1. ExistsBijection(N, S)
    BY <1>2 DEF ExistsBijection
  <2>2. QED
    BY <2>1, FS_Bijection
<1>4. Keys(key2, S)
  <2>1. \A x \in S : key2[x] \in Int
    BY DEF Keys
  <2>2. ASSUME NEW x \in S, NEW y \in S, key2[x] = key2[y] PROVE x = y
    <3>1. PICK p \in N : v[p] = x
      OBVIOUS
    <3>2. PICK q \in N : v[q] = y
      OBVIOUS
    <3>3. key[p] = key[q]
      BY <2>2, <3>1, <3>2
    <3>4. QED
      BY <3>1, <3>2, <3>3 DEF Keys
  <2>3. QED
    BY <2>1, <2>2 DEF Keys
<1> DEFINE n == Cardinality(N)
           f == [k \in DOMAIN e |-> v[e[k]]]
<1>5. e \in [1 .. n -> N] /\ \A i, j \in 1 .. n : i < j => key[e[i]] < key[e[j]]
  BY DEF Lists
<1>6. Cardinality(S) = n
  BY <1>3
<1> HIDE DEF n
<1>7. f \in [1 .. n -> S]
  BY <1>5
<1>8. \A i, j \in 1 .. n : i < j => key2[f[i]] < key2[f[j]]
  BY <1>5
<1>9. Lists(key2, S, f)
  <2> HIDE DEF f
  <2>1. QED
    BY <1>6, <1>7, <1>8 DEF Lists
<1>10. QED
  BY <1>3, <1>4, <1>9

\* The order of ids that is chosen is the one there is.
LEMMA ListInOrder ==
    ASSUME NEW S, IsFiniteSet(S), NEW key, Keys(key, S), \A i \in S : key[i] = i,
           NEW f, Lists(key, S, f)
    PROVE  f = InOrder(S)
<1> DEFINE P(g) == \A i, j \in DOMAIN g : i < j => g[i] < g[j]
           g == CHOOSE h \in [1 .. Cardinality(S) -> S] : P(h)
<1>1. f \in [1 .. Cardinality(S) -> S] /\ P(f)
  BY DEF Lists
<1>2. g \in [1 .. Cardinality(S) -> S] /\ P(g)
  BY <1>1
<1>3. InOrder(S) = g
  BY DEF InOrder
<1> HIDE DEF g
<1>4. Lists(key, S, g)
  BY <1>2 DEF Lists
<1>5. QED
  BY <1>3, <1>4, ListIsUnique

\* So is the order of prices.
LEMMA ListBestFirst ==
    ASSUME NEW s \in Sides, NEW S \in SUBSET Nat, IsFiniteSet(S), NEW key, Keys(key, S),
           \A p \in S : key[p] = Rank(s, p), NEW f, Lists(key, S, f)
    PROVE  f = BestFirst(s, S)
<1> DEFINE P(g) == \A i, j \in DOMAIN g : i < j => Worse(s, g[j], g[i])
           g == CHOOSE h \in [1 .. Cardinality(S) -> S] : P(h)
<1>1. \A p, q \in S : key[p] < key[q] <=> Worse(s, q, p)
  BY DEF Sides, Rank, Worse
<1>2. f \in [1 .. Cardinality(S) -> S] /\ P(f)
  BY <1>1 DEF Lists
<1>3. g \in [1 .. Cardinality(S) -> S] /\ P(g)
  BY <1>2
<1>4. BestFirst(s, S) = g
  BY DEF BestFirst
<1> HIDE DEF g
<1>5. Lists(key, S, g)
  BY <1>1, <1>3 DEF Lists
<1>6. QED
  BY <1>4, <1>5, ListIsUnique

\* The walk over the levels of a side lists them.
LEMMA LevelRingLists ==
    ASSUME NEW m, NEW s, LevelRingInv(m, s)
    PROVE  /\ Lists(RankOf(m, s), OnSide(m, s), LevelRing(m, s))
           /\ IsFiniteSet(OnSide(m, s)) /\ Keys(RankOf(m, s), OnSide(m, s))
<1> DEFINE N == OnSide(m, s)
           key == RankOf(m, s)
           nx == LevelNext(m)
           pv == LevelPrev(m)
           head == m.best[s]
<1>1. IsRing(key, N, head, nx, pv)
  BY DEF LevelRingInv
<1>2. DOMAIN nx = Blocks /\ N \subseteq Blocks
  BY DEF LevelNext, OnSide, InUse
<1>3. LevelRing(m, s) = Ring(nx, head)
  BY DEF LevelRing
<1> HIDE DEF N, key, nx, pv, head
<1>4. Lists(key, N, Ring(nx, head))
  BY <1>1, <1>2, BlocksAreFinite, RingLists
<1>5. QED
  BY <1>1, <1>2, <1>3, <1>4, BlocksAreFinite DEF IsRing, N, key

\* The orders of a level are those of the exchange's book at its side and price.
LEMMA OrdersAreFeed ==
    ASSUME NEW m, NEW known, NEW book, Memory(m, known, book), known \subseteq Ids,
           NEW c
    PROVE  LET O == OrdersAt(m, Live(m, known), c)
               S == {i \in known : book[i].side = m.level[c].side
                                   /\ book[i].price = m.level[c].price}
           IN  /\ \A o \in O : /\ m.order[o].id \in S
                               /\ book[m.order[o].id].quantity = m.order[o].quantity
               /\ \A i \in S : m.byId[i] \in O /\ m.order[m.byId[i]].id = i
<1>1. \A i \in known : LET o == m.order[m.byId[i]]
                       IN  /\ o.id = i /\ book[i].side = o.side
                           /\ book[i].price = o.price /\ book[i].quantity = o.quantity
  <2> SUFFICES ASSUME NEW i \in known
               PROVE  LET o == m.order[m.byId[i]]
                      IN  /\ o.id = i /\ book[i].side = o.side
                          /\ book[i].price = o.price /\ book[i].quantity = o.quantity
    OBVIOUS
  <2> DEFINE o == m.order[m.byId[i]]
  <2>1. o.id = i /\ book[i] = [side |-> o.side, price |-> o.price, quantity |-> o.quantity]
    BY DEF Memory, Names
  <2> HIDE DEF o
  <2>2. QED
    BY <2>1 DEF o
<1>2. QED
  BY <1>1 DEF OrdersAt, Live


\* The prices of the book known on side s.
PricesOn(known, book, s) == {book[i].price : i \in {j \in known : book[j].side = s}}

\* The levels of a side and the prices of the exchange's book.
LEMMA LevelsAreFeed ==
    ASSUME NEW m, NEW known, NEW book, Memory(m, known, book), known \subseteq Ids,
           Rings(m, Live(m, known)), NEW s \in Sides
    PROVE  /\ \A c \in OnSide(m, s) :
                 m.level[c].price \in PricesOn(known, book, s) /\ m.level[c].price \in Nat
           /\ \A p \in PricesOn(known, book, s) :
                 \E c \in OnSide(m, s) : m.level[c].price = p
<1> DEFINE live == Live(m, known)
<1>1. ASSUME NEW c \in OnSide(m, s)
      PROVE  m.level[c].price \in PricesOn(known, book, s) /\ m.level[c].price \in Nat
  <2>1. c \in InUse(m) /\ m.level[c].side = s
    BY DEF OnSide
  <2>2. OrdersAt(m, live, c) # {} /\ m.level[c].price \in Nat
    BY <2>1 DEF Rings, OrderRingInv, PoolInv
  <2>3. PICK o \in OrdersAt(m, live, c) : TRUE
    BY <2>2
  <2>4. /\ m.order[o].id \in known /\ book[m.order[o].id].side = m.level[c].side
        /\ book[m.order[o].id].price = m.level[c].price
    BY <2>3, OrdersAreFeed
  <2>5. QED
    BY <2>1, <2>2, <2>4 DEF PricesOn
<1>2. ASSUME NEW p \in PricesOn(known, book, s)
      PROVE  \E c \in OnSide(m, s) : m.level[c].price = p
  <2>1. PICK i \in known : book[i].side = s /\ book[i].price = p
    BY DEF PricesOn
  <2> DEFINE o == m.byId[i]
             c == LevelAt(m, m.order[o].price)
  <2>2. book[i] = [side |-> m.order[o].side, price |-> m.order[o].price,
                   quantity |-> m.order[o].quantity]
    BY DEF Memory, Names
  <2>3. m.order[o].side = s /\ m.order[o].price = p
    BY <2>1, <2>2
  <2>4. HasLevel(m, o)
    BY DEF Rings, Live
  <2>5. c \in InUse(m) /\ m.level[c].side = s /\ m.level[c].price = p
    BY <2>3, <2>4 DEF HasLevel
  <2> HIDE DEF c
  <2>6. QED
    BY <2>5 DEF OnSide
<1>3. QED
  BY <1>1, <1>2

LEMMA PricesAreFeed ==
    ASSUME NEW m, NEW known, NEW book, Memory(m, known, book), known \subseteq Ids,
           Rings(m, Live(m, known)), NEW s \in Sides
    PROVE  RingPrices(m, s) = BestFirst(s, PricesOn(known, book, s))
<1> DEFINE N == OnSide(m, s)
           key == RankOf(m, s)
           e == LevelRing(m, s)
           S == PricesOn(known, book, s)
           v == [c \in N |-> m.level[c].price]
           key2 == [p \in Nat |-> Rank(s, p)]
           f == [k \in DOMAIN e |-> v[e[k]]]
<1>1. Lists(key, N, e) /\ IsFiniteSet(N) /\ Keys(key, N)
  BY LevelRingLists DEF Rings
<1>2. /\ \A c \in N : m.level[c].price \in S /\ m.level[c].price \in Nat
      /\ \A p \in S : \E c \in N : m.level[c].price = p
  BY LevelsAreFeed
<1>3. N \subseteq Blocks
  BY DEF OnSide, InUse
<1>4. \A c \in N : key[c] = Rank(s, m.level[c].price)
  BY <1>3 DEF RankOf
<1>5. RingPrices(m, s) = f
  <2>1. \A k \in DOMAIN e : e[k] \in N
    BY <1>1 DEF Lists
  <2>2. QED
    BY <2>1 DEF RingPrices
<1>6. S \in SUBSET Nat
  BY <1>2
<1> HIDE DEF N, key, e, S
<1>7. /\ v \in [N -> S] /\ \A p \in S : \E c \in N : v[c] = p
      /\ \A c \in N : key2[v[c]] = key[c]
  BY <1>2, <1>4
<1>8. \A p \in S : key2[p] = Rank(s, p)
  BY <1>6
<1> HIDE DEF v, key2
<1>9. Lists(key2, S, f) /\ Keys(key2, S) /\ IsFiniteSet(S)
  BY <1>1, <1>7, ListImage
<1> HIDE DEF f
<1>10. f = BestFirst(s, S)
  BY <1>6, <1>8, <1>9, ListBestFirst
<1>11. QED
  BY <1>5, <1>10 DEF S

\* The orders known on side s at a price.
IdsAt(known, book, s, price) ==
    {i \in known : book[i].side = s /\ book[i].price = price}

LEMMA QueueIsFeed ==
    ASSUME NEW m, NEW known, NEW book, Memory(m, known, book), known \subseteq Ids,
           Rings(m, Live(m, known)), NEW b \in InUse(m)
    PROVE  /\ QueueOf(m, b) =
                  InOrder(IdsAt(known, book, m.level[b].side, m.level[b].price))
           /\ \A k \in DOMAIN OrderRing(m, b) :
                 OrderRing(m, b)[k] \in OrdersAt(m, Live(m, known), b)
<1> DEFINE live == Live(m, known)
           N == OrdersAt(m, live, b)
           key == IdOf(m)
           e == OrderRing(m, b)
           S == IdsAt(known, book, m.level[b].side, m.level[b].price)
           v == [o \in N |-> m.order[o].id]
           key2 == [i \in S |-> i]
           f == [k \in DOMAIN e |-> v[e[k]]]
<1>1. AreOrders(m.order) /\ live \subseteq DOMAIN m.order
  BY LiveOrders
<1>2. OrderRingInv(m, live, b)
  BY DEF Rings
<1>3. Lists(key, N, e) /\ IsFiniteSet(N) /\ Keys(key, N)
  <2> HIDE DEF live
  <2>1. QED
    BY <1>1, <1>2, OrderRingLists
<1>4. /\ \A o \in N : m.order[o].id \in S
      /\ \A i \in S : m.byId[i] \in N /\ m.order[m.byId[i]].id = i
  BY OrdersAreFeed DEF IdsAt
<1>5. \A o \in N : key[o] = m.order[o].id
  BY <1>1 DEF OrdersAt, IdOf
<1>6. \A k \in DOMAIN e : e[k] \in N
  BY <1>3 DEF Lists
<1>7. QueueOf(m, b) = f
  BY <1>6 DEF QueueOf
<1> HIDE DEF N, key, e, S
<1>8. /\ v \in [N -> S] /\ \A i \in S : \E o \in N : v[o] = i
      /\ \A o \in N : key2[v[o]] = key[o]
  BY <1>4, <1>5
<1>9. \A i \in S : key2[i] = i
  OBVIOUS
<1> HIDE DEF v, key2
<1>10. Lists(key2, S, f) /\ Keys(key2, S) /\ IsFiniteSet(S)
  BY <1>3, <1>8, ListImage
<1> HIDE DEF f
<1>11. f = InOrder(S)
  BY <1>9, <1>10, ListInOrder
<1>12. QED
  BY <1>6, <1>7, <1>11 DEF S, N, e

LEMMA RingsAreFeed == KnownInv /\ RingsInv => BookIsFeed
<1> SUFFICES ASSUME KnownInv, RingsInv, Running, ~misled
             PROVE  /\ \A s \in Sides :
                          LET prices == {feed[i].price : i \in On(s)}
                              ring == LevelRing(mob, s)
                          IN  /\ RingPrices(mob, s) = BestFirst(s, prices)
                              /\ \A k \in DOMAIN ring :
                                    QueueOf(mob, ring[k]) =
                                        Queue(s, mob.level[ring[k]].price)
                    /\ {b \in Blocks : ~mob.free[b]} =
                          UNION {ToSet(LevelRing(mob, s)) : s \in Sides}
  BY DEF BookIsFeed
<1>1. /\ Rings(mob, Live(mob, Known)) /\ Memory(mob, Known, feed)
      /\ Known \subseteq Ids
  BY FeedFacts DEF RingsInv, KnownInv, Known
<1>2. \A s : PricesOn(Known, feed, s) = {feed[i].price : i \in On(s)}
  BY DEF PricesOn, On
<1>3. \A s, p : InOrder(IdsAt(Known, feed, s, p)) = Queue(s, p)
  <2>1. \A s, p : IdsAt(Known, feed, s, p) = {i \in On(s) : feed[i].price = p}
    BY DEF IdsAt, On
  <2>2. QED
    BY <2>1 DEF Queue
<1>4. \A s \in Sides : /\ Lists(RankOf(mob, s), OnSide(mob, s), LevelRing(mob, s))
                       /\ IsFiniteSet(OnSide(mob, s))
                       /\ Keys(RankOf(mob, s), OnSide(mob, s))
  BY <1>1, LevelRingLists DEF Rings
<1>5. ASSUME NEW s \in Sides
      PROVE  RingPrices(mob, s) = BestFirst(s, {feed[i].price : i \in On(s)})
  <2>1. RingPrices(mob, s) = BestFirst(s, PricesOn(Known, feed, s))
    BY <1>1, PricesAreFeed
  <2>2. QED
    BY <1>2, <2>1
<1>6. ASSUME NEW s \in Sides, NEW k \in DOMAIN LevelRing(mob, s)
      PROVE  QueueOf(mob, LevelRing(mob, s)[k]) =
                 Queue(s, mob.level[LevelRing(mob, s)[k]].price)
  <2> DEFINE b == LevelRing(mob, s)[k]
  <2>1. b \in OnSide(mob, s)
    BY <1>4 DEF Lists
  <2> HIDE DEF b
  <2>2. b \in InUse(mob) /\ mob.level[b].side = s
    BY <2>1 DEF OnSide
  <2>3. QueueOf(mob, b) = InOrder(IdsAt(Known, feed, s, mob.level[b].price))
    BY <1>1, <2>2, QueueIsFeed
  <2>4. QED
    BY <1>3, <2>3 DEF b
<1>7. ASSUME NEW s \in Sides
      PROVE  ToSet(LevelRing(mob, s)) = OnSide(mob, s)
  <2> DEFINE e == LevelRing(mob, s)
             N == OnSide(mob, s)
  <2>1. /\ e \in [1 .. Cardinality(N) -> N]
        /\ \A p \in N : \E i \in 1 .. Cardinality(N) : e[i] = p
    <3>1. Lists(RankOf(mob, s), N, e) /\ IsFiniteSet(N) /\ Keys(RankOf(mob, s), N)
      BY <1>4
    <3> HIDE DEF N, e
    <3>2. \A p \in N : \E i \in 1 .. Cardinality(N) : e[i] = p
      BY <3>1, ListIsOnto
    <3>3. QED
      BY <3>1, <3>2 DEF Lists
  <2> HIDE DEF e, N
  <2>2. ToSet(e) = N
    BY <2>1 DEF ToSet
  <2>3. QED
    BY <2>2 DEF e, N
<1>8. {b \in Blocks : ~mob.free[b]} = UNION {ToSet(LevelRing(mob, s)) : s \in Sides}
  <2>1. UNION {ToSet(LevelRing(mob, s)) : s \in Sides} = UNION {OnSide(mob, s) : s \in Sides}
    BY <1>7
  <2>2. \A b \in InUse(mob) : mob.level[b].side \in Sides
    BY <1>1 DEF Rings, PoolInv
  <2>3. UNION {OnSide(mob, s) : s \in Sides} = InUse(mob)
    BY <2>2 DEF OnSide
  <2>4. QED
    BY <2>1, <2>3 DEF InUse
<1>9. QED
  BY <1>5, <1>6, <1>8

\* As long as every order went into a level of its own price and side, the
\* client's book is the exchange's: on each side the prices from the best to the
\* worst, at each price the orders in the order of their times, and no block lost.
THEOREM BookIsExchanges == Spec => []BookIsFeed
BY RingsAlways, RingsAreFeed, PTL

\* As long as every order went into a level of its own price and side, a client
\* that no longer runs was stopped, or ran out of price levels: no pointer that it
\* follows is null, no walk is endless, and no level is given back twice.
EndsAtLimit ==
    ~misled => mob.status \in {"running", "out_of_space", "destroyed", "validity_check"}

\* The client ends in no other way, in every run.
THEOREM BookEndsAtLimit == Spec => []EndsAtLimit
<1>1. KnownInv /\ RingsInv => EndsAtLimit
  BY DEF RingsInv, EndsAtLimit
<1>2. QED
  BY <1>1, RingsAlways, PTL

-----------------------------------------------------------------------------
(* The best bid and offer. *)

IdsOn(known, book, s) == {i \in known : book[i].side = s}

\* Price and total quantity of the best of side s, if best is its price.
TotalAt(known, book, s, best) ==
    LET queue == InOrder(IdsAt(known, book, s, best))
    IN  [price |-> best,
         quantity |-> SumFunction([k \in DOMAIN queue |-> book[queue[k]].quantity])]

BestIn(known, book, s) ==
    LET on == IdsOn(known, book, s)
        best == CHOOSE p \in {book[i].price : i \in on} :
                    \A i \in on : ~Worse(s, p, book[i].price)
    IN  IF on = {} THEN Invalid ELSE TotalAt(known, book, s, best)

\* No order known on side s has a better price than p, and one has p.
IsBest(known, book, s, p) ==
    /\ \E i \in IdsOn(known, book, s) : book[i].price = p
    /\ \A i \in IdsOn(known, book, s) : ~Worse(s, p, book[i].price)

LEMMA BestInIs ==
    ASSUME NEW known, NEW book, NEW s \in Sides, NEW p, IsBest(known, book, s, p),
           \A i \in IdsOn(known, book, s) : book[i].price \in Nat
    PROVE  BestIn(known, book, s) = TotalAt(known, book, s, p) /\ p \in Nat
<1> DEFINE on == IdsOn(known, book, s)
           P(x) == \A i \in on : ~Worse(s, x, book[i].price)
           best == CHOOSE x \in {book[i].price : i \in on} : P(x)
<1>1. p \in {book[i].price : i \in on} /\ P(p) /\ on # {} /\ p \in Nat
  BY DEF IsBest
<1>2. best \in {book[i].price : i \in on} /\ P(best)
  <2> HIDE DEF on, P
  <2>1. QED
    BY <1>1
<1>3. BestIn(known, book, s) = TotalAt(known, book, s, best)
  BY <1>1 DEF BestIn
<1> HIDE DEF best
<1>4. /\ ~Worse(s, best, p) /\ ~Worse(s, p, best) /\ best \in Nat
  BY <1>1, <1>2
<1>5. best = p
  BY <1>1, <1>4 DEF Worse, Sides
<1>6. QED
  BY <1>1, <1>3, <1>5

\* Update u changes at most the order of its id, of its side and price.
Changes(u, known, book, known2, book2) ==
    /\ \A i \in Ids \ {u.id} :
          (i \in known2 <=> i \in known) /\ (i \in known => book2[i] = book[i])
    /\ u.id \in known => book[u.id].side = u.side /\ book[u.id].price = u.price
    /\ u.id \in known2 => book2[u.id].side = u.side /\ book2[u.id].price = u.price

\* An update of the other side, or behind the best price, leaves the best alone.
LEMMA BestKept ==
    ASSUME NEW u, NEW known \in SUBSET Ids, NEW book, NEW known2 \in SUBSET Ids, NEW book2,
           Changes(u, known, book, known2, book2), NEW s \in Sides, NEW p,
           IsBest(known, book, s, p), u.side # s \/ Worse(s, u.price, p),
           \A i \in IdsOn(known, book, s) : book[i].price \in Nat,
           \A i \in IdsOn(known2, book2, s) : book2[i].price \in Nat
    PROVE  BestIn(known2, book2, s) = BestIn(known, book, s)
<1> DEFINE S == IdsAt(known, book, s, p)
           queue == InOrder(S)
<1>1. p \in Nat /\ BestIn(known, book, s) = TotalAt(known, book, s, p)
  BY BestInIs
<1>2. \A x, y \in Nat : Worse(s, x, y) => x # y /\ ~Worse(s, y, x)
  BY DEF Worse, Sides
<1>3. \A i \in IdsAt(known, book, s, p) : i # u.id /\ i \in Ids
  BY <1>1, <1>2 DEF IdsAt, Changes
<1>4. \A i \in IdsAt(known2, book2, s, p) : i # u.id /\ i \in Ids
  BY <1>1, <1>2 DEF IdsAt, Changes
<1>5. IdsAt(known2, book2, s, p) = S /\ \A i \in S : book2[i] = book[i]
  BY <1>3, <1>4 DEF IdsAt, Changes
<1>6. IsBest(known2, book2, s, p)
  <2>1. \E i \in IdsOn(known2, book2, s) : book2[i].price = p
    <3>1. PICK i \in IdsOn(known, book, s) : book[i].price = p
      BY DEF IsBest
    <3>2. i \in S
      BY <3>1 DEF IdsAt, IdsOn
    <3>3. i \in IdsAt(known2, book2, s, p)
      BY <1>5, <3>2
    <3>4. QED
      BY <3>3 DEF IdsAt, IdsOn
  <2>2. ASSUME NEW i \in IdsOn(known2, book2, s)
        PROVE  ~Worse(s, p, book2[i].price)
    <3>1. CASE i = u.id
      <4>1. book2[i].price = u.price /\ book2[i].side = u.side /\ book2[i].side = s
        BY <3>1 DEF Changes, IdsOn
      <4>2. Worse(s, book2[i].price, p) /\ book2[i].price \in Nat
        BY <4>1
      <4>3. QED
        BY <1>1, <1>2, <4>2
    <3>2. CASE i # u.id
      <4>1. i \in IdsOn(known, book, s) /\ book2[i] = book[i]
        BY <3>2 DEF Changes, IdsOn
      <4>2. QED
        BY <4>1 DEF IsBest
    <3>3. QED
      BY <3>1, <3>2
  <2>3. QED
    BY <2>1, <2>2 DEF IsBest
<1>7. BestIn(known2, book2, s) = TotalAt(known2, book2, s, p)
  BY <1>6, BestInIs
<1>8. \A k \in DOMAIN queue : queue[k] \in S
  <2>1. S \in SUBSET Ids
    BY <1>3
  <2> HIDE DEF S
  <2>2. queue \in Seq(S)
    BY <2>1, InOrderLists
  <2>3. QED
    BY <2>2
<1>9. [k \in DOMAIN queue |-> book2[queue[k]].quantity] =
          [k \in DOMAIN queue |-> book[queue[k]].quantity]
  <2> HIDE DEF queue, S
  <2>1. QED
    BY <1>5, <1>8
<1>10. TotalAt(known2, book2, s, p) = TotalAt(known, book, s, p)
  BY <1>5, <1>9 DEF TotalAt
<1>11. QED
  BY <1>1, <1>7, <1>10

\* The first level of a ring has the best price.
LEMMA BestLevel ==
    ASSUME NEW m, NEW known, NEW book, Memory(m, known, book), known \subseteq Ids,
           Rings(m, Live(m, known)), NEW s \in Sides
    PROVE  /\ m.best[s] = Null <=> IdsOn(known, book, s) = {}
           /\ m.best[s] # Null =>
                 /\ m.best[s] \in InUse(m) /\ m.level[m.best[s]].side = s
                 /\ IsBest(known, book, s, m.level[m.best[s]].price)
           /\ \A i \in IdsOn(known, book, s) : book[i].price \in Nat
<1> DEFINE b == m.best[s]
           price == m.level[b].price
<1>1. LevelRingInv(m, s)
  BY DEF Rings
<1>2. /\ b = Null <=> OnSide(m, s) = {}
      /\ b # Null => /\ b \in OnSide(m, s)
                     /\ \A c \in OnSide(m, s) : RankOf(m, s)[b] <= RankOf(m, s)[c]
  BY <1>1, BestIsFirst
<1>3. /\ \A c \in OnSide(m, s) : m.level[c].price \in PricesOn(known, book, s)
                                 /\ m.level[c].price \in Nat
      /\ \A p \in PricesOn(known, book, s) : \E c \in OnSide(m, s) : m.level[c].price = p
  BY LevelsAreFeed
<1> HIDE DEF b
<1>4. PricesOn(known, book, s) = {book[i].price : i \in IdsOn(known, book, s)}
  BY DEF PricesOn, IdsOn
<1>5. \A i \in IdsOn(known, book, s) : book[i].price \in Nat
  BY <1>3, <1>4
<1>6. b = Null <=> IdsOn(known, book, s) = {}
  BY <1>2, <1>3, <1>4
<1>7. ASSUME b # Null
      PROVE  b \in InUse(m) /\ m.level[b].side = s /\ IsBest(known, book, s, price)
  <2>1. b \in OnSide(m, s) /\ \A c \in OnSide(m, s) : RankOf(m, s)[b] <= RankOf(m, s)[c]
    BY <1>2, <1>7
  <2>2. \A c \in OnSide(m, s) : c \in Blocks /\ RankOf(m, s)[c] = Rank(s, m.level[c].price)
    BY DEF OnSide, InUse, RankOf
  <2>3. \A c \in OnSide(m, s) : ~Worse(s, price, m.level[c].price)
    <3> SUFFICES ASSUME NEW c \in OnSide(m, s) PROVE ~Worse(s, price, m.level[c].price)
      OBVIOUS
    <3>1. Rank(s, price) <= Rank(s, m.level[c].price) /\ price \in Nat
          /\ m.level[c].price \in Nat
      BY <1>3, <2>1, <2>2
    <3> HIDE DEF price
    <3>2. QED
      BY <3>1 DEF Rank, Worse, Sides
  <2>4. \A i \in IdsOn(known, book, s) : ~Worse(s, price, book[i].price)
    BY <1>3, <1>4, <2>3
  <2>5. \E i \in IdsOn(known, book, s) : book[i].price = price
    BY <1>3, <1>4, <2>1
  <2>6. QED
    BY <2>1, <2>4, <2>5 DEF IsBest, OnSide
<1>8. QED
  BY <1>5, <1>6, <1>7 DEF b

\* What updateBBO() finds on a side.
LEMMA BestOfIsFeed ==
    ASSUME NEW m, NEW known, NEW book, Memory(m, known, book), known \subseteq Ids,
           Rings(m, Live(m, known)), NEW s \in Sides
    PROVE  BestOf(m, s) = BestIn(known, book, s)
<1> DEFINE b == m.best[s]
           price == m.level[b].price
           ring == OrderRing(m, b)
           queue == QueueOf(m, b)
<1>1. CASE b = Null
  <2>1. IdsOn(known, book, s) = {}
    BY <1>1, BestLevel
  <2>2. QED
    BY <1>1, <2>1 DEF BestOf, BestIn
<1>2. CASE b # Null
  <2>1. /\ b \in InUse(m) /\ m.level[b].side = s /\ IsBest(known, book, s, price)
        /\ \A i \in IdsOn(known, book, s) : book[i].price \in Nat
    BY <1>2, BestLevel
  <2>2. BestIn(known, book, s) = TotalAt(known, book, s, price)
    BY <2>1, BestInIs
  <2>3. BestOf(m, s) =
            [price |-> price,
             quantity |-> SumFunction([k \in DOMAIN ring |-> m.order[ring[k]].quantity])]
    BY <1>2 DEF BestOf
  <2> HIDE DEF b
  <2>4. /\ queue = InOrder(IdsAt(known, book, s, price))
        /\ \A k \in DOMAIN ring : ring[k] \in OrdersAt(m, Live(m, known), b)
    BY <2>1, QueueIsFeed
  <2>5. queue = [k \in DOMAIN ring |-> m.order[ring[k]].id]
    BY DEF QueueOf
  <2> HIDE DEF ring, queue
  <2>6. \A k \in DOMAIN ring :
            book[m.order[ring[k]].id].quantity = m.order[ring[k]].quantity
    BY <2>4, OrdersAreFeed
  <2>7. [k \in DOMAIN queue |-> book[queue[k]].quantity] =
            [k \in DOMAIN ring |-> m.order[ring[k]].quantity]
    BY <2>5, <2>6
  <2>8. QED
    BY <2>2, <2>3, <2>4, <2>7 DEF TotalAt
<1>3. QED
  BY <1>1, <1>2


\* The step applies update u to the rings, and the exchange's book changes as u
\* says.
IsUpdate(u) ==
    /\ Applies(u) /\ RingsAfter(u)
    /\ u.type = "CLEAR" \/ Changes(u, Known, feed, Known', feed')

LEMMA UpdateFields ==
    ASSUME NEW type, NEW id, NEW side, NEW price, NEW quantity
    PROVE  LET u == Update(type, id, side, price, quantity)
           IN  u.type = type /\ u.id = id /\ u.side = side /\ u.price = price
BY DEF Update

LEMMA NextUpdates ==
    ASSUME KnownInv, RingsInv, Next, ~misled', mob'.status = "running"
    PROVE  \E u : IsUpdate(u)
<1>1. ASSUME NEW s \in Sides, NEW p \in Prices, NEW q \in Quantities, Add(s, p, q)
      PROVE  \E u : IsUpdate(u)
  <2> DEFINE u == Update("ADD", nextId, s, p, q)
  <2>1. Applies(u) /\ RingsAfter(u) /\ nextId \in Ids \ Known /\ Known' = Known \cup {nextId}
    BY <1>1, AddKeeps, AddKeepsRings
  <2>2. u.id = nextId /\ u.side = s /\ u.price = p
    BY UpdateFields
  <2> HIDE DEF u
  <2>3. feed \in [Ids -> FeedEntry \cup {NotResting}]
    BY <2>1, FeedFacts DEF Applies
  <2>4. feed' = [feed EXCEPT ![nextId] = [side |-> s, price |-> p, quantity |-> q]]
    BY <1>1 DEF Add
  <2>5. feed'[nextId].side = s /\ feed'[nextId].price = p
        /\ \A i \in Ids \ {nextId} : feed'[i] = feed[i]
    BY <2>1, <2>3, <2>4
  <2>6. Changes(u, Known, feed, Known', feed')
    BY <2>1, <2>2, <2>5 DEF Changes
  <2>7. QED
    BY <2>1, <2>6 DEF IsUpdate
<1>2. ASSUME NEW id \in Ids, NEW q \in Quantities, Modify(id, q)
      PROVE  \E u : IsUpdate(u)
  <2> DEFINE u == Update("MODIFY", id, feed[id].side, feed[id].price, q)
  <2>1. Applies(u) /\ RingsAfter(u) /\ id \in Known /\ Known' = Known
    BY <1>2, ModifyKeeps, ModifyKeepsRings
  <2>2. u.id = id /\ u.side = feed[id].side /\ u.price = feed[id].price
    BY UpdateFields
  <2> HIDE DEF u
  <2>3. feed \in [Ids -> FeedEntry \cup {NotResting}] /\ feed[id] \in FeedEntry
    BY <2>1, FeedFacts DEF Applies, Known
  <2>4. feed' = [feed EXCEPT ![id] = [feed[id] EXCEPT !.quantity = q]]
    BY <1>2 DEF Modify
  <2>5. feed'[id].side = feed[id].side /\ feed'[id].price = feed[id].price
        /\ \A i \in Ids \ {id} : feed'[i] = feed[i]
    <3> DEFINE x == feed[id]
               y == [x EXCEPT !.quantity = q]
    <3>1. y.side = x.side /\ y.price = x.price
      BY <2>3 DEF FeedEntry
    <3>2. feed' = [feed EXCEPT ![id] = y]
      BY <2>4
    <3> HIDE DEF y
    <3>3. QED
      BY <2>3, <3>1, <3>2
  <2>6. Changes(u, Known, feed, Known', feed')
    BY <2>1, <2>2, <2>5 DEF Changes
  <2>7. QED
    BY <2>1, <2>6 DEF IsUpdate
<1>3. ASSUME NEW id \in Ids, Cancel(id) PROVE \E u : IsUpdate(u)
  <2> DEFINE u == Update("CANCEL", id, feed[id].side, feed[id].price, 0)
  <2>1. Applies(u) /\ RingsAfter(u) /\ id \in Known /\ Known' = Known \ {id}
    BY <1>3, CancelKeeps, CancelKeepsRings
  <2>2. u.id = id /\ u.side = feed[id].side /\ u.price = feed[id].price
    BY UpdateFields
  <2> HIDE DEF u
  <2>3. feed \in [Ids -> FeedEntry \cup {NotResting}]
    BY <2>1, FeedFacts DEF Applies
  <2>4. \A i \in Ids \ {id} : feed'[i] = feed[i]
    BY <1>3, <2>3 DEF Cancel
  <2>5. Changes(u, Known, feed, Known', feed')
    BY <2>1, <2>2, <2>4 DEF Changes
  <2>6. QED
    BY <2>1, <2>5 DEF IsUpdate
<1>4. ASSUME NEW kept \in SUBSET Resting, Resync(kept) PROVE \E u : IsUpdate(u)
  <2> DEFINE u == Update("CLEAR", Null, Null, Null, Null)
  <2>1. Applies(u) /\ RingsAfter(u)
    BY <1>4, ResyncKeeps, ResyncKeepsRings
  <2>2. u.type = "CLEAR"
    BY UpdateFields
  <2> HIDE DEF u
  <2>3. QED
    BY <2>1, <2>2 DEF IsUpdate
<1>5. ASSUME SnapshotOrder PROVE \E u : IsUpdate(u)
  <2> DEFINE id == Head(toCome)
             u == Update("ADD", id, feed[id].side, feed[id].price, feed[id].quantity)
  <2>1. Applies(u) /\ RingsAfter(u) /\ id \in Ids \ Known /\ Known' = Known \cup {id}
    BY <1>5, SnapshotOrderKeeps, SnapshotOrderKeepsRings
  <2>2. u.id = id /\ u.side = feed[id].side /\ u.price = feed[id].price
    BY UpdateFields
  <2> HIDE DEF u, id
  <2>3. feed' = feed
    BY <1>5 DEF SnapshotOrder
  <2>4. Changes(u, Known, feed, Known', feed')
    BY <2>1, <2>2, <2>3 DEF Changes
  <2>5. QED
    BY <2>1, <2>4 DEF IsUpdate
<1>6. ASSUME Destroy PROVE FALSE
  <2>1. mob.status = "running" /\ IsBook(mob)
    BY <1>6 DEF Destroy, KnownInv, Running, Memory
  <2>2. \E how \in {"destroyed", "validity_check"} : mob' = Ended(mob, how)
    BY <1>6 DEF Destroy
  <2>3. QED
    BY <2>1, <2>2 DEF Ended, IsBook, Fields
<1>7. QED
  BY <1>1, <1>2, <1>3, <1>4, <1>5, <1>6 DEF Next

\* A side's best after the update: what the book then has, or what it was, where
\* the best of the exchange's book is what it was too, if there was one.
LEMMA BboAfter ==
    ASSUME KnownInv', RingsInv, NEW u, IsUpdate(u), ~misled', mob'.status = "running",
           NEW s \in Sides, s \notin outdated'
    PROVE  \/ bbo'[s] = BestIn(Known', feed', s)
           \/ /\ bbo'[s] = bbo[s] /\ s \notin outdated
              /\ BestIn(Known, feed, s) \in {Invalid, BestIn(Known', feed', s)}
<1>1. /\ bbo' = [t \in Sides |-> IF Updates(mob, u, t) THEN BestOf(mob', t) ELSE bbo[t]]
      /\ outdated' = IF u.type = "CLEAR" THEN Sides
                     ELSE outdated \ {t \in Sides : Updates(mob, u, t)}
      /\ Rings(mob', Live(mob', Known')) /\ Memory(mob', Known', feed')
  BY DEF IsUpdate, RingsAfter
<1>2. /\ Rings(mob, Live(mob, Known)) /\ Memory(mob, Known, feed) /\ Known \subseteq Ids
  BY RingsBefore DEF IsUpdate
<1>3. Known' \subseteq Ids
  <2>1. FeedInv'
    BY DEF KnownInv, Running
  <2>2. Known' \subseteq Resting' /\ Resting' \subseteq Ids
    BY DEF Known, Resting, Ids
  <2>3. QED
    BY <2>2
<1>4. u.type # "CLEAR" /\ Changes(u, Known, feed, Known', feed')
  BY <1>1 DEF IsUpdate
<1>5. CASE Updates(mob, u, s)
  <2>1. bbo'[s] = BestOf(mob', s)
    BY <1>1, <1>5
  <2>2. QED
    BY <1>1, <1>3, <2>1, BestOfIsFeed
<1>6. CASE ~Updates(mob, u, s)
  <2>1. bbo'[s] = bbo[s] /\ s \notin outdated
    BY <1>1, <1>4, <1>6
  <2>2. CASE mob.best[s] = Null
    <3>1. IdsOn(Known, feed, s) = {}
      BY <1>2, <2>2, BestLevel
    <3>2. QED
      BY <2>1, <3>1 DEF BestIn
  <2>3. CASE mob.best[s] # Null
    <3> DEFINE p == mob.level[mob.best[s]].price
    <3>1. /\ IsBest(Known, feed, s, p)
          /\ \A i \in IdsOn(Known, feed, s) : feed[i].price \in Nat
      BY <1>2, <2>3, BestLevel
    <3>2. \A i \in IdsOn(Known', feed', s) : feed'[i].price \in Nat
      BY <1>1, <1>3, BestLevel
    <3>3. u.side # s \/ Worse(s, u.price, p)
      BY <1>6, <2>3 DEF Updates
    <3> HIDE DEF p
    <3>4. BestIn(Known', feed', s) = BestIn(Known, feed, s)
      BY <1>2, <1>3, <1>4, <3>1, <3>2, <3>3, BestKept
    <3>5. QED
      BY <2>1, <3>4
  <2>4. QED
    BY <2>2, <2>3
<1>7. QED
  BY <1>5, <1>6

LEMMA FeedBestIs == \A s : FeedBest(s) = BestIn(Known, feed, s)
<1> SUFFICES ASSUME NEW s PROVE FeedBest(s) = BestIn(Known, feed, s)
  OBVIOUS
<1>1. IdsOn(Known, feed, s) = On(s)
  BY DEF IdsOn, On
<1> DEFINE on == IdsOn(Known, feed, s)
           best == CHOOSE p \in {feed[i].price : i \in on} :
                       \A i \in on : ~Worse(s, p, feed[i].price)
           queue == Queue(s, best)
<1>2. FeedBest(s) =
        IF on = {} THEN Invalid
        ELSE [price |-> best,
              quantity |-> SumFunction([k \in DOMAIN queue |-> feed[queue[k]].quantity])]
  BY <1>1 DEF FeedBest
<1>3. BestIn(Known, feed, s) =
        IF on = {} THEN Invalid ELSE TotalAt(Known, feed, s, best)
  BY DEF BestIn
<1> HIDE DEF best
<1>4. queue = InOrder(IdsAt(Known, feed, s, best))
  <2>1. IdsAt(Known, feed, s, best) = {i \in On(s) : feed[i].price = best}
    BY DEF IdsAt, On
  <2>2. QED
    BY <2>1 DEF Queue
<1> HIDE DEF queue, on
<1>5. TotalAt(Known, feed, s, best) =
        [price |-> best,
         quantity |-> SumFunction([k \in DOMAIN queue |-> feed[queue[k]].quantity])]
  BY <1>4 DEF TotalAt
<1>6. QED
  BY <1>2, <1>3, <1>5

BboInv ==
    Running /\ ~misled =>
        \A s \in Sides \ outdated : bbo[s] \in {Invalid, BestIn(Known, feed, s)}

LEMMA BboStep ==
    KnownInv /\ KnownInv' /\ RingsInv /\ RingsInv' /\ BboInv /\ [Next]_vars => BboInv'
<1> SUFFICES ASSUME KnownInv, KnownInv', RingsInv, BboInv, [Next]_vars,
                    mob'.status = "running", ~misled', NEW s \in Sides, s \notin outdated'
             PROVE  bbo'[s] \in {Invalid, BestIn(Known', feed', s)}
  BY DEF BboInv, Running
<1>1. CASE Next
  <2>1. PICK u : IsUpdate(u)
    BY <1>1, NextUpdates
  <2>2. s \notin outdated => bbo[s] \in {Invalid, BestIn(Known, feed, s)}
    <3>1. Running /\ ~misled
      BY <2>1, RingsBefore DEF IsUpdate, Running
    <3>2. QED
      BY <3>1 DEF BboInv
  <2>3. QED
    BY <2>1, <2>2, BboAfter
<1>2. CASE UNCHANGED vars
  <2>1. /\ mob' = mob /\ feed' = feed /\ toCome' = toCome /\ misled' = misled
        /\ bbo' = bbo /\ outdated' = outdated
    BY <1>2 DEF vars, feedVars
  <2>2. Resting' = Resting
    BY <2>1 DEF Resting, Ids, NotResting
  <2>3. Known' = Known
    BY <2>1, <2>2 DEF Known, ToSet
  <2>4. QED
    BY <2>1, <2>3 DEF BboInv, Running
<1>3. QED
  BY <1>1, <1>2

\* A side's best bid or offer is the exchange's or unknown, unless it was written
\* before a CLEAR, although onMarketUpdate() decides whether it changes before it
\* applies the update: what it passes over lies behind the best price.
THEOREM BestIsExchanges == Spec => []BboIsSound
<1>1. Init => BboInv
  BY DEF Init, BboInv
<1>2. BboInv => BboIsSound
  BY FeedBestIs DEF BboInv, BboIsSound
<1>3. QED
  BY <1>1, <1>2, RingsAlways, BboStep, PTL DEF Spec

\* No update makes a known best unknown while its side still has an order.
THEOREM BestStaysKnown == Spec => BboStays
<1>1. KnownInv /\ KnownInv' /\ RingsInv /\ [Next]_vars => [BboStaysStep]_vars
  <2> SUFFICES ASSUME KnownInv, KnownInv', RingsInv, Next,
                      mob'.status = "running", ~misled', NEW s \in Sides \ outdated',
                      bbo[s] # Invalid, bbo'[s] = Invalid
               PROVE  On(s)' = {}
    BY DEF BboStaysStep
  <2>1. PICK u : IsUpdate(u)
    BY NextUpdates
  <2>2. BestIn(Known', feed', s) = Invalid
    BY <2>1, BboAfter
  <2>3. /\ Rings(mob', Live(mob', Known')) /\ Memory(mob', Known', feed')
    BY <2>1 DEF IsUpdate, RingsAfter
  <2>4. Known' \subseteq Ids
    <3>1. Known' \subseteq Resting' /\ Resting' \subseteq Ids
      BY DEF Known, Resting, Ids
    <3>2. QED
      BY <3>1
  <2>5. IdsOn(Known', feed', s) = {}
    <3> SUFFICES ASSUME IdsOn(Known', feed', s) # {} PROVE FALSE
      OBVIOUS
    <3> DEFINE p == mob'.level[mob'.best[s]].price
    <3>1. /\ IsBest(Known', feed', s, p)
          /\ \A i \in IdsOn(Known', feed', s) : feed'[i].price \in Nat
      BY <2>3, <2>4, BestLevel
    <3> HIDE DEF p
    <3>2. BestIn(Known', feed', s) = TotalAt(Known', feed', s, p) /\ p \in Nat
      BY <3>1, BestInIs
    <3>3. Invalid.price = Null /\ TotalAt(Known', feed', s, p).price = p
      BY DEF Invalid, TotalAt
    <3>4. QED
      BY <2>2, <3>2, <3>3, MarketOrderBookAssumption
  <2>6. QED
    BY <2>5 DEF IdsOn, On
<1>2. QED
  BY <1>1, RingsAlways, PTL DEF Spec, BboStays

=============================================================================
