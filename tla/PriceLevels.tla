---------------------------- MODULE PriceLevels ----------------------------
(***************************************************************************)
(* The price levels of an order book at the level of their pointers:       *)
(* addOrderAtPrice and removeOrderAtPrice of exchange/matching/            *)
(* OrderBook.hpp (trading/strategy/MarketOrderBook.hpp repeats the code).  *)
(* Each side of the book is a circular doubly linked list of levels that   *)
(* is meant to run from the best price to the worst; bids_by_price and     *)
(* asks_by_price point at the best level.  The search for the place of a   *)
(* new level is one step per turn of its loop.                             *)
(*                                                                         *)
(* A level is named by its price.  That is what price_orders_at_price does *)
(* as long as the prices in use lie within MATCHING_ENGINE_MAX_PRICE_LEVELS*)
(* of each other, so that priceToIndex tells them apart (see OrderBook).   *)
(***************************************************************************)
EXTENDS Integers

CONSTANTS
    Prices,     \* the prices in use
    Null        \* nullptr

ASSUME PricesAssumption == Prices \subseteq Int /\ Null \notin Prices

Sides == {"BUY", "SELL"}
NoSide == "INVALID"

VARIABLES
    sideOf,         \* price_orders_at_price: the side of the level at each
                    \* price, NoSide where there is none
    next, prev,     \* next_entry and prev_entry of the level at each price
    best,           \* bids_by_price and asks_by_price
    pc,             \* "idle", or addOrderAtPrice at work: "search", "link"
    new,            \* new_orders_at_price
    target, addAfter\* its local variables

ringVars == <<sideOf, next, prev, best>>
searchVars == <<new, target, addAfter>>
vars == <<ringVars, pc, searchVars>>

Pointers == Prices \cup {Null}

TypeOK ==
    /\ sideOf \in [Prices -> Sides \cup {NoSide}]
    /\ next \in [Prices -> Pointers]
    /\ prev \in [Prices -> Pointers]
    /\ best \in [Sides -> Pointers]
    /\ pc \in {"idle", "search", "link"}
    /\ new \in Pointers
    /\ target \in Pointers
    /\ addAfter \in BOOLEAN

Init ==
    /\ sideOf = [p \in Prices |-> NoSide]
    /\ next = [p \in Prices |-> Null]
    /\ prev = [p \in Prices |-> Null]
    /\ best = [s \in Sides |-> Null]
    /\ pc = "idle" /\ new = Null /\ target = Null /\ addAfter = FALSE

\* Price p stands behind price q on side s: the test the code repeats to set
\* add_after.
Worse(s, p, q) == (s = "SELL" /\ p > q) \/ (s = "BUY" /\ p < q)

-----------------------------------------------------------------------------
(* addOrderAtPrice. *)

\* The new level becomes the only one of its side ...
AddFirstLevel(s, p) ==
    /\ pc = "idle" /\ sideOf[p] = NoSide /\ best[s] = Null
    /\ sideOf' = [sideOf EXCEPT ![p] = s]
    /\ best' = [best EXCEPT ![s] = p]
    /\ next' = [next EXCEPT ![p] = p]
    /\ prev' = [prev EXCEPT ![p] = p]
    /\ UNCHANGED <<pc, searchVars>>

\* ... or its place is searched for, starting from the best level.
BeginSearch(s, p) ==
    /\ pc = "idle" /\ sideOf[p] = NoSide /\ best[s] # Null
    /\ sideOf' = [sideOf EXCEPT ![p] = s]
    /\ new' = p
    /\ IF Worse(s, p, best[s])
       THEN /\ target' = next[best[s]]
            /\ addAfter' = Worse(s, p, next[best[s]])
       ELSE target' = best[s] /\ addAfter' = FALSE
    /\ pc' = "search"
    /\ UNCHANGED <<next, prev, best>>

\* Fault: the search also stops one level early.
SearchStep_StopsEarly ==
    LET s == sideOf[new] IN
    /\ pc = "search"
    /\ IF addAfter /\ next[target] # best[s] /\ target # best[s]
       THEN /\ addAfter' = Worse(s, new, target)
            /\ target' = IF addAfter' THEN next[target] ELSE target
            /\ UNCHANGED pc
       ELSE pc' = "link" /\ UNCHANGED <<target, addAfter>>
    /\ UNCHANGED <<ringVars, new>>

\* Fault: the walk does not notice that it is back at the best level.
SearchStep_NoEnd ==
    LET s == sideOf[new] IN
    /\ pc = "search"
    /\ IF addAfter
       THEN /\ addAfter' = Worse(s, new, target)
            /\ target' = IF addAfter' THEN next[target] ELSE target
            /\ UNCHANGED pc
       ELSE pc' = "link" /\ UNCHANGED <<target, addAfter>>
    /\ UNCHANGED <<ringVars, new>>

\* One turn of the while loop.
SearchStep ==
    LET s == sideOf[new] IN
    /\ pc = "search"
    /\ IF addAfter /\ target # best[s]
       THEN /\ addAfter' = Worse(s, new, target)
            /\ target' = IF addAfter' THEN next[target] ELSE target
            /\ UNCHANGED pc
       ELSE pc' = "link" /\ UNCHANGED <<target, addAfter>>
    /\ UNCHANGED <<ringVars, new>>

\* The new level goes behind the last one, ...
LinkLast ==
    LET s == sideOf[new]
        last == prev[best[s]]
    IN  /\ pc = "link" /\ addAfter
        /\ prev' = [prev EXCEPT ![new] = last, ![next[last]] = new]
        /\ next' = [next EXCEPT ![new] = next[last], ![last] = new]
        /\ pc' = "idle" /\ new' = Null /\ target' = Null /\ addAfter' = FALSE
        /\ UNCHANGED <<sideOf, best>>

\* ... or in front of the target, and becomes the best level if it is better.
LinkBefore ==
    LET s == sideOf[new]
        linked == [next EXCEPT ![new] = target, ![prev[target]] = new]
        better == Worse(s, best[s], new)
    IN  /\ pc = "link" /\ ~addAfter
        /\ prev' = [prev EXCEPT ![new] = prev[target], ![target] = new]
        /\ next' = IF better /\ linked[target] = best[s]
                   THEN [linked EXCEPT ![target] = new] ELSE linked
        /\ best' = IF better THEN [best EXCEPT ![s] = new] ELSE best
        /\ pc' = "idle" /\ new' = Null /\ target' = Null /\ addAfter' = FALSE
        /\ UNCHANGED sideOf

-----------------------------------------------------------------------------
\* removeOrderAtPrice, called for the last order of the level at price p with
\* that order's side.
RemoveOrderAtPrice(p) ==
    LET s == sideOf[p] IN
    /\ pc = "idle" /\ s # NoSide
    /\ sideOf' = [sideOf EXCEPT ![p] = NoSide]
    /\ IF next[p] = p
       THEN best' = [best EXCEPT ![s] = Null] /\ UNCHANGED <<next, prev>>
       ELSE /\ next' = [next EXCEPT ![prev[p]] = next[p], ![p] = Null]
            /\ prev' = [prev EXCEPT ![next[p]] = prev[p], ![p] = Null]
            /\ best' = IF best[s] = p THEN [best EXCEPT ![s] = next[p]]
                       ELSE best
    /\ UNCHANGED <<pc, searchVars>>

AddOrderAtPriceStep == SearchStep \/ LinkLast \/ LinkBefore

Next ==
    \/ \E s \in Sides, p \in Prices : AddFirstLevel(s, p) \/ BeginSearch(s, p)
    \/ AddOrderAtPriceStep
    \/ \E p \in Prices : RemoveOrderAtPrice(p)

Spec == Init /\ [][Next]_vars

\* addOrderAtPrice runs to its end on the thread of the matching engine.
FairSpec == Spec /\ WF_vars(AddOrderAtPriceStep)

-----------------------------------------------------------------------------
(* Properties. *)

\* The levels of side s that are on its list.
Levels(s) == {p \in Prices : sideOf[p] = s /\ (pc # "idle" => p # new)}

\* b points at the best of the levels L of side s, null when there is none.
BestIsBest(s, L, b) ==
    IF b = Null THEN L = {} ELSE b \in L /\ \A q \in L : ~Worse(s, b, q)

\* nx, the next_entry pointers, lead from p to the next worse level, or from
\* the worst level back to the best.
NextIsNextWorse(s, L, b, nx, p) ==
    /\ nx[p] \in L
    /\ \/ Worse(s, nx[p], p) /\ \A q \in L : Worse(s, q, p) => ~Worse(s, nx[p], q)
       \/ nx[p] = b /\ \A q \in L : ~Worse(s, q, p)

\* pv, the prev_entry pointers, are the inverse of nx.
PrevIsInverse(L, nx, pv, p) == pv[p] \in L /\ nx[pv[p]] = p /\ pv[nx[p]] = p

SortedRing(s, L, b, nx, pv) ==
    /\ BestIsBest(s, L, b)
    /\ \A p \in L : NextIsNextWorse(s, L, b, nx, p)
    /\ \A p \in L : PrevIsInverse(L, nx, pv, p)

\* Each side is one ring through all its levels, from the best price to the
\* worst and back, whatever the order of additions and removals: the book that
\* checkForMatch walks is sorted, and no pointer leads to a freed level.
RingIsSorted ==
    \A s \in Sides : SortedRing(s, Levels(s), best[s], next, prev)

\* addOrderAtPrice ends: its loop does not run round the ring for ever.
SearchEnds == pc # "idle" ~> pc = "idle"

=============================================================================
