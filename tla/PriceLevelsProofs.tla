------------------------- MODULE PriceLevelsProofs -------------------------
(***************************************************************************)
(* The linked price levels stay sorted rings, for every set of prices, and *)
(* the pool that hands out their blocks keeps its promise, for every size. *)
(***************************************************************************)
EXTENDS PriceLevels, MemPool, TLAPS

\* What the search of addOrderAtPrice knows: every level in front of the
\* target is better than the new one and, once add_after is false, the
\* target is not.  Being back at the best level with add_after still true,
\* it has seen them all.
SearchInv ==
    pc # "idle" =>
        LET s == sideOf[new] IN
        /\ new \in Prices /\ s \in Sides
        /\ target \in Levels(s) /\ best[s] # Null
        /\ pc = "link" /\ addAfter => target = best[s]
        /\ IF addAfter /\ target = best[s]
           THEN \A q \in Levels(s) : Worse(s, new, q)
           ELSE \A q \in Levels(s) : Worse(s, target, q) => Worse(s, new, q)
        /\ ~addAfter => ~Worse(s, new, target)

LevelsInv == TypeOK /\ RingIsSorted /\ SearchInv

-----------------------------------------------------------------------------
(* The rings, apart from the state machine. *)

\* Worse is a strict total order on the prices of a side.
LEMMA WorseIsOrder ==
    ASSUME NEW s \in Sides
    PROVE  /\ \A p \in Prices : ~Worse(s, p, p)
           /\ \A p, q \in Prices : Worse(s, p, q) \/ Worse(s, q, p) \/ p = q
           /\ \A p, q, r \in Prices :
                 Worse(s, p, q) /\ Worse(s, q, r) => Worse(s, p, r)
BY PricesAssumption DEF Worse, Sides

\* A ring does not depend on pointers outside its levels.
LEMMA RingFrame ==
    ASSUME NEW s, NEW L, NEW b, NEW nx, NEW pv, NEW nx2, NEW pv2,
           SortedRing(s, L, b, nx, pv),
           \A p \in L : nx2[p] = nx[p] /\ pv2[p] = pv[p]
    PROVE  SortedRing(s, L, b, nx2, pv2)
<1>1. \A p \in L : nx[p] \in L /\ pv[p] \in L
  BY DEF SortedRing, NextIsNextWorse, PrevIsInverse
<1>2. \A p \in L : PrevIsInverse(L, nx2, pv2, p)
  BY <1>1 DEF SortedRing, PrevIsInverse
<1>3. \A p \in L : NextIsNextWorse(s, L, b, nx2, p)
  BY DEF SortedRing, NextIsNextWorse
<1>4. QED
  BY <1>2, <1>3 DEF SortedRing

\* Level n belongs between a and c: behind the worst level, ahead of the best,
\* or between two neighbours; b is the best level before, b2 after.
Fits(s, L, b, b2, n, a, c) ==
    \/ c = b /\ b2 = b /\ \A q \in L : Worse(s, n, q)
    \/ c = b /\ b2 = n /\ \A q \in L : Worse(s, q, n)
    \/ c # b /\ b2 = b /\ Worse(s, c, n) /\ Worse(s, n, a)

\* nx2 and pv2 are nx and pv with n linked in front of c.
Linked(L, nx, pv, n, c, nx2, pv2) ==
    /\ nx2[n] = c /\ nx2[pv[c]] = n
    /\ \A p \in L : p # pv[c] => nx2[p] = nx[p]
    /\ pv2[n] = pv[c] /\ pv2[c] = n
    /\ \A p \in L : p # c => pv2[p] = pv[p]

\* Linking n in front of c keeps the ring sorted when n belongs there.
LEMMA RingInsert ==
    ASSUME NEW s \in Sides, NEW L \in SUBSET Prices, NEW b \in L,
           NEW nx \in [Prices -> Pointers], NEW pv \in [Prices -> Pointers],
           SortedRing(s, L, b, nx, pv),
           NEW n \in Prices, n \notin L, NEW c \in L, NEW b2,
           NEW M, M = L \cup {n},
           NEW nx2, NEW pv2, Linked(L, nx, pv, n, c, nx2, pv2),
           Fits(s, L, b, b2, n, pv[c], c)
    PROVE  SortedRing(s, M, b2, nx2, pv2)
<1> DEFINE a == pv[c]
<1> USE DEF Fits, Linked
<1>order. /\ \A p \in Prices : ~Worse(s, p, p)
          /\ \A p, q \in Prices : Worse(s, p, q) \/ Worse(s, q, p) \/ p = q
          /\ \A p, q, r \in Prices :
                Worse(s, p, q) /\ Worse(s, q, r) => Worse(s, p, r)
  BY WorseIsOrder
<1>1. /\ b # Null /\ \A q \in L : ~Worse(s, b, q)
      /\ \A p \in L : /\ nx[p] \in L /\ pv[p] \in L
                      /\ nx[pv[p]] = p /\ pv[nx[p]] = p
  BY PricesAssumption
  DEF SortedRing, BestIsBest, NextIsNextWorse, PrevIsInverse
<1>2. /\ a \in L /\ nx[a] = c
      /\ \/ Worse(s, c, a) /\ \A q \in L : Worse(s, q, a) => ~Worse(s, c, q)
         \/ c = b /\ \A q \in L : ~Worse(s, q, a)
  BY <1>1 DEF SortedRing, NextIsNextWorse
<1>3. /\ nx2[n] = c /\ nx2[a] = n /\ pv2[n] = a /\ pv2[c] = n
      /\ \A p \in L : p # a => nx2[p] = nx[p]
      /\ \A p \in L : p # c => pv2[p] = pv[p]
  BY <1>2
<1>4. c = b => \A q \in L : ~Worse(s, q, a)
  BY <1>1, <1>2, <1>order
<1>5. BestIsBest(s, M, b2)
  <2>1. b2 # Null
    BY <1>1, PricesAssumption
  <2>2. CASE b2 = b
    <3>1. ~Worse(s, b, n)
      BY <1>1, <1>2, <1>order, <2>2
    <3>2. QED
      BY <1>1, <2>1, <2>2, <3>1 DEF BestIsBest
  <2>3. CASE b2 = n
    BY <1>order, <2>1, <2>3 DEF BestIsBest
  <2>4. QED
    BY <2>2, <2>3
<1>6. ASSUME NEW p \in M PROVE PrevIsInverse(M, nx2, pv2, p)
  BY <1>1, <1>2, <1>3, <1>6 DEF PrevIsInverse
<1>7. NextIsNextWorse(s, M, b2, nx2, n)
  <2>1. CASE c = b /\ b2 = b /\ \A q \in L : Worse(s, n, q)
    BY <1>3, <1>order, <2>1 DEF NextIsNextWorse
  <2>2. CASE c = b /\ b2 = n /\ \A q \in L : Worse(s, q, n)
    BY <1>1, <1>3, <1>order, <2>2 DEF NextIsNextWorse
  <2>3. CASE c # b /\ b2 = b /\ Worse(s, c, n) /\ Worse(s, n, a)
    BY <1>2, <1>3, <1>order, <2>3 DEF NextIsNextWorse
  <2>4. QED
    BY <2>1, <2>2, <2>3
<1>8. NextIsNextWorse(s, M, b2, nx2, a)
  <2>1. CASE c = b /\ b2 = b /\ \A q \in L : Worse(s, n, q)
    BY <1>2, <1>3, <1>4, <1>order, <2>1 DEF NextIsNextWorse
  <2>2. CASE c = b /\ b2 = n /\ \A q \in L : Worse(s, q, n)
    BY <1>2, <1>3, <1>4, <1>order, <2>2 DEF NextIsNextWorse
  <2>3. CASE c # b /\ b2 = b /\ Worse(s, c, n) /\ Worse(s, n, a)
    BY <1>2, <1>3, <1>order, <2>3 DEF NextIsNextWorse
  <2>4. QED
    BY <2>1, <2>2, <2>3
<1>9. ASSUME NEW p \in L, p # a PROVE NextIsNextWorse(s, M, b2, nx2, p)
  <2>1. nx2[p] = nx[p] /\ nx[p] # c /\ nx[p] \in L
    BY <1>1, <1>3, <1>9
  <2>2. \/ Worse(s, nx[p], p)
           /\ \A q \in L : Worse(s, q, p) => ~Worse(s, nx[p], q)
        \/ nx[p] = b /\ \A q \in L : ~Worse(s, q, p)
    BY DEF SortedRing, NextIsNextWorse
  <2>3. CASE c = b
    <3>1. Worse(s, nx[p], p)
      BY <2>1, <2>2, <2>3
    <3>2. Worse(s, n, p) => ~Worse(s, nx[p], n)
      BY <1>order, <2>1, <2>3
    <3>3. \A q \in L : Worse(s, q, p) => ~Worse(s, nx[p], q)
      BY <2>1, <2>2, <2>3
    <3>4. QED
      BY <2>1, <3>1, <3>2, <3>3 DEF NextIsNextWorse
  <2>4. CASE c # b
    <3>1. b2 = b /\ Worse(s, c, n) /\ Worse(s, n, a)
      BY <2>4
    <3>2. CASE Worse(s, nx[p], p)
      <4>1. \A q \in L : Worse(s, q, p) => ~Worse(s, nx[p], q)
        BY <1>order, <2>2, <3>2
      <4>2. Worse(s, n, p) => ~Worse(s, nx[p], n)
        BY <1>2, <1>order, <1>9, <2>1, <3>1, <3>2, <4>1
      <4>3. QED
        BY <2>1, <3>2, <4>1, <4>2 DEF NextIsNextWorse
    <3>3. CASE nx[p] = b /\ \A q \in L : ~Worse(s, q, p)
      <4>1. ~Worse(s, n, p)
        BY <1>order, <3>1, <3>3
      <4>2. QED
        BY <2>1, <3>1, <3>3, <4>1 DEF NextIsNextWorse
    <3>4. QED
      BY <2>2, <3>2, <3>3
  <2>5. QED
    BY <2>3, <2>4
<1>10. QED
  BY <1>5, <1>6, <1>7, <1>8, <1>9 DEF SortedRing

\* Unlinking one of several levels leaves a sorted ring of the others.
LEMMA RingRemove ==
    ASSUME NEW s \in Sides, NEW L \in SUBSET Prices, NEW b \in L,
           NEW nx \in [Prices -> Pointers], NEW pv \in [Prices -> Pointers],
           SortedRing(s, L, b, nx, pv),
           NEW d \in L, nx[d] # d,
           NEW nx2, nx2 = [nx EXCEPT ![pv[d]] = nx[d], ![d] = Null],
           NEW pv2, pv2 = [pv EXCEPT ![nx[d]] = pv[d], ![d] = Null],
           NEW b2, b2 = IF b = d THEN nx[d] ELSE b
    PROVE  SortedRing(s, L \ {d}, b2, nx2, pv2)
<1> DEFINE M == L \ {d}
           a == pv[d]
           c == nx[d]
<1>order. /\ \A p \in Prices : ~Worse(s, p, p)
          /\ \A p, q \in Prices : Worse(s, p, q) \/ Worse(s, q, p) \/ p = q
          /\ \A p, q, r \in Prices :
                Worse(s, p, q) /\ Worse(s, q, r) => Worse(s, p, r)
  BY WorseIsOrder
<1>1. /\ b # Null /\ \A q \in L : ~Worse(s, b, q)
      /\ \A p \in L : /\ nx[p] \in L /\ pv[p] \in L
                      /\ nx[pv[p]] = p /\ pv[nx[p]] = p
  BY PricesAssumption
  DEF SortedRing, BestIsBest, NextIsNextWorse, PrevIsInverse
<1>2. \A p \in L :
         \/ Worse(s, nx[p], p)
            /\ \A q \in L : Worse(s, q, p) => ~Worse(s, nx[p], q)
         \/ nx[p] = b /\ \A q \in L : ~Worse(s, q, p)
  BY DEF SortedRing, NextIsNextWorse
<1>3. /\ a \in M /\ c \in M /\ nx[a] = d
  BY <1>1
<1>4. /\ nx2[a] = c /\ pv2[c] = a
      /\ \A p \in M : p # a => nx2[p] = nx[p]
      /\ \A p \in M : p # c => pv2[p] = pv[p]
  BY <1>3
<1>5. BestIsBest(s, M, b2)
  <2>1. b2 \in M /\ b2 # Null
    BY <1>3, PricesAssumption
  <2>2. CASE b = d
    <3>1. Worse(s, c, d) /\ \A q \in L : Worse(s, q, d) => ~Worse(s, c, q)
      BY <1>2, <1>3, <2>2
    <3>2. \A q \in M : Worse(s, q, d)
      BY <1>1, <1>order, <2>2
    <3>3. QED
      BY <2>1, <2>2, <3>1, <3>2 DEF BestIsBest
  <2>3. CASE b # d
    BY <1>1, <2>1, <2>3 DEF BestIsBest
  <2>4. QED
    BY <2>2, <2>3
<1>6. ASSUME NEW p \in M PROVE PrevIsInverse(M, nx2, pv2, p)
  BY <1>1, <1>3, <1>4 DEF PrevIsInverse
<1>7. NextIsNextWorse(s, M, b2, nx2, a)
  <2>1. CASE d = b
    <3>1. \A q \in L : ~Worse(s, q, a)
      BY <1>1, <1>2, <1>3, <1>order, <2>1
    <3>2. QED
      BY <1>3, <1>4, <2>1, <3>1 DEF NextIsNextWorse
  <2>2. CASE d # b
    <3>1. Worse(s, d, a) /\ \A q \in L : Worse(s, q, a) => ~Worse(s, d, q)
      BY <1>2, <1>3, <2>2
    <3>2. CASE Worse(s, c, d) /\ \A q \in L : Worse(s, q, d) => ~Worse(s, c, q)
      <4>1. Worse(s, c, a)
        BY <1>3, <1>order, <3>1, <3>2
      <4>2. \A q \in M : Worse(s, q, a) => ~Worse(s, c, q)
        BY <1>3, <1>order, <3>1, <3>2
      <4>3. QED
        BY <1>3, <1>4, <4>1, <4>2 DEF NextIsNextWorse
    <3>3. CASE c = b /\ \A q \in L : ~Worse(s, q, d)
      <4>1. \A q \in M : ~Worse(s, q, a)
        BY <1>3, <1>order, <3>1, <3>3
      <4>2. QED
        BY <1>3, <1>4, <2>2, <3>3, <4>1 DEF NextIsNextWorse
    <3>4. QED
      BY <1>2, <3>2, <3>3
  <2>3. QED
    BY <2>1, <2>2
<1>8. ASSUME NEW p \in M, p # a PROVE NextIsNextWorse(s, M, b2, nx2, p)
  <2>1. nx2[p] = nx[p] /\ nx[p] \in M
    BY <1>1, <1>3, <1>4, <1>8
  <2>2. nx[p] = b => b2 = b
    BY <2>1
  <2>3. QED
    BY <1>2, <2>1, <2>2 DEF NextIsNextWorse
<1>9. QED
  BY <1>5, <1>6, <1>7, <1>8 DEF SortedRing

-----------------------------------------------------------------------------
(* The state machine. *)

\* An empty book is sorted.
LEMMA InitLevelsInv == Init => LevelsInv
<1> SUFFICES ASSUME Init PROVE LevelsInv
  OBVIOUS
<1>1. TypeOK
  <2>1. addAfter \in BOOLEAN
    BY Zenon DEF Init
  <2>2. QED
    BY <2>1 DEF Init, TypeOK, Pointers, Sides
<1>2. \A s \in Sides : Levels(s) = {} /\ best[s] = Null
  BY DEF Init, Levels, Sides, NoSide
<1>3. RingIsSorted
  BY <1>2 DEF RingIsSorted, SortedRing, BestIsBest
<1>4. SearchInv
  BY DEF SearchInv, Init
<1>5. QED
  BY <1>1, <1>3, <1>4 DEF LevelsInv

\* The first level of a side is a ring of its own.
LEMMA AddFirstLevelStep ==
    ASSUME LevelsInv, NEW s \in Sides, NEW p \in Prices, AddFirstLevel(s, p)
    PROVE  LevelsInv'
<1>1. TypeOK'
  BY DEF LevelsInv, TypeOK, AddFirstLevel, searchVars, Pointers
<1>2. Levels(s) = {} /\ Levels(s)' = {p}
  BY DEF LevelsInv, RingIsSorted, SortedRing, BestIsBest, AddFirstLevel,
         Levels, TypeOK, searchVars, Sides, NoSide
<1>3. \A t \in Sides : t # s => Levels(t)' = Levels(t) /\ p \notin Levels(t)
  BY DEF AddFirstLevel, Levels, LevelsInv, TypeOK, searchVars, Sides, NoSide
<1>4. RingIsSorted'
  <2> SUFFICES ASSUME NEW t \in Sides
               PROVE  SortedRing(t, Levels(t)', best'[t], next', prev')
    BY DEF RingIsSorted
  <2>1. CASE t = s
    <3>1. next'[p] = p /\ prev'[p] = p /\ best'[s] = p /\ p # Null
      BY PricesAssumption DEF AddFirstLevel, LevelsInv, TypeOK
    <3>2. QED
      BY <1>2, <2>1, <3>1, WorseIsOrder
      DEF SortedRing, BestIsBest, NextIsNextWorse, PrevIsInverse
  <2>2. CASE t # s
    <3>1. \A r \in Levels(t) : next'[r] = next[r] /\ prev'[r] = prev[r]
      BY <1>3, <2>2 DEF AddFirstLevel, LevelsInv, TypeOK, Levels
    <3>2. best'[t] = best[t] /\ Levels(t)' = Levels(t)
      BY <1>3, <2>2 DEF AddFirstLevel, LevelsInv, TypeOK
    <3>3. QED
      BY <3>1, <3>2, RingFrame DEF LevelsInv, RingIsSorted
  <2>3. QED
    BY <2>1, <2>2
<1>5. SearchInv'
  BY DEF SearchInv, AddFirstLevel
<1>6. QED
  BY <1>1, <1>4, <1>5 DEF LevelsInv

\* The search starts in front of the best level or right behind it.
LEMMA BeginSearchStep ==
    ASSUME LevelsInv, NEW s \in Sides, NEW p \in Prices, BeginSearch(s, p)
    PROVE  LevelsInv'
<1>1. TypeOK'
  <2>1. next[best[s]] \in Pointers /\ best[s] \in Pointers
    BY DEF LevelsInv, TypeOK, BeginSearch, Pointers
  <2>2. addAfter' \in BOOLEAN
    BY Zenon DEF BeginSearch, Worse
  <2>3. QED
    BY <2>1, <2>2 DEF LevelsInv, TypeOK, BeginSearch, Pointers
<1>2. \A t \in Sides : Levels(t)' = Levels(t)
  BY DEF BeginSearch, Levels, LevelsInv, TypeOK, Sides, NoSide
<1>3. RingIsSorted'
  BY <1>2 DEF RingIsSorted, BeginSearch, LevelsInv
<1>4. SearchInv'
  <2>1. /\ new' = p /\ sideOf'[p] = s /\ pc' = "search" /\ best' = best
        /\ best[s] # Null /\ p \notin Levels(s)
        /\ Levels(s)' = Levels(s) /\ Levels(s) \subseteq Prices
    BY <1>2 DEF BeginSearch, LevelsInv, TypeOK, Levels, Sides, NoSide
  <2>2. SortedRing(s, Levels(s), best[s], next, prev)
    BY DEF LevelsInv, RingIsSorted
  <2>3. best[s] \in Levels(s) /\ \A q \in Levels(s) : ~Worse(s, best[s], q)
    BY <2>1, <2>2 DEF SortedRing, BestIsBest
  <2>4. /\ next[best[s]] \in Levels(s)
        /\ \/ /\ Worse(s, next[best[s]], best[s])
              /\ \A q \in Levels(s) :
                    Worse(s, q, best[s]) => ~Worse(s, next[best[s]], q)
           \/ /\ next[best[s]] = best[s]
              /\ \A q \in Levels(s) : ~Worse(s, q, best[s])
    BY <2>2, <2>3 DEF SortedRing, NextIsNextWorse
  <2>5. CASE ~Worse(s, p, best[s])
    BY <2>1, <2>3, <2>5 DEF SearchInv, BeginSearch
  <2>6. CASE Worse(s, p, best[s])
    <3>1. target' = next[best[s]] /\ addAfter' = Worse(s, p, next[best[s]])
      BY <2>6 DEF BeginSearch
    <3>2. CASE next[best[s]] = best[s]
      <4>1. \A q \in Levels(s) : q = best[s]
        BY <2>1, <2>3, <2>4, <3>2, WorseIsOrder
      <4>2. QED
        BY <2>1, <2>3, <2>6, <3>1, <3>2, <4>1 DEF SearchInv
    <3>3. CASE next[best[s]] # best[s]
      <4>1. \A q \in Levels(s) : Worse(s, next[best[s]], q) => q = best[s]
        BY <2>1, <2>3, <2>4, <3>3, WorseIsOrder
      <4>2. QED
        BY <2>1, <2>4, <2>6, <3>1, <3>3, <4>1 DEF SearchInv
    <3>4. QED
      BY <3>2, <3>3
  <2>7. QED
    BY <2>5, <2>6
<1>5. QED
  BY <1>1, <1>3, <1>4 DEF LevelsInv

\* One turn of the search keeps what it knows.
LEMMA SearchTurnStep == ASSUME LevelsInv, SearchStep PROVE LevelsInv'
<1> SUFFICES ASSUME NEW n, n = new, NEW s, s = sideOf[n] PROVE LevelsInv'
  OBVIOUS
<1>1. /\ pc = "search" /\ n \in Prices /\ s \in Sides /\ best[s] # Null
      /\ target \in Levels(s) /\ Levels(s) \subseteq Prices
      /\ new' = n /\ sideOf' = sideOf /\ next' = next /\ prev' = prev
      /\ best' = best /\ pc' # "idle"
  BY DEF SearchStep, LevelsInv, SearchInv, ringVars, Levels
<1>2. SortedRing(s, Levels(s), best[s], next, prev)
  BY <1>1 DEF LevelsInv, RingIsSorted
<1>3. /\ next[target] \in Levels(s)
      /\ \/ /\ Worse(s, next[target], target)
            /\ \A q \in Levels(s) :
                  Worse(s, q, target) => ~Worse(s, next[target], q)
         \/ /\ next[target] = best[s]
            /\ \A q \in Levels(s) : ~Worse(s, q, target)
  BY <1>1, <1>2 DEF SortedRing, NextIsNextWorse
<1>4. \A q \in Levels(s) : ~Worse(s, best[s], q)
  BY <1>1, <1>2 DEF SortedRing, BestIsBest
<1>5. TypeOK'
  <2>1. addAfter' \in BOOLEAN
    BY Zenon DEF SearchStep, Worse, LevelsInv, TypeOK
  <2>2. pc' \in {"idle", "search", "link"} /\ target' \in Levels(s)
    BY <1>1, <1>3 DEF SearchStep
  <2>3. QED
    BY <1>1, <2>1, <2>2 DEF LevelsInv, TypeOK, Pointers
<1>6. \A t \in Sides : Levels(t)' = Levels(t)
  BY <1>1 DEF Levels
<1>7. RingIsSorted'
  BY <1>1, <1>6 DEF RingIsSorted, LevelsInv
<1>8. SearchInv'
  <2>1. CASE addAfter /\ target # best[s]
    <3>1. \A q \in Levels(s) : Worse(s, target, q) => Worse(s, n, q)
      BY <1>1, <2>1 DEF LevelsInv, SearchInv
    <3>2. CASE Worse(s, n, target)
      <4>1. addAfter' = TRUE /\ target' = next[target] /\ pc' = "search"
        BY <1>1, <2>1, <3>2 DEF SearchStep
      <4>2. \A q \in Levels(s) : ~Worse(s, q, target) => Worse(s, n, q)
        BY <1>1, <3>1, <3>2, WorseIsOrder
      <4>3. CASE next[target] = best[s]
        <5>1. \A q \in Levels(s) : Worse(s, n, q)
          BY <1>1, <1>3, <1>4, <4>2, <4>3
        <5>2. QED
          BY <1>1, <1>3, <1>6, <4>1, <4>3, <5>1 DEF SearchInv
      <4>4. CASE next[target] # best[s]
        <5>1. \A q \in Levels(s) :
                 Worse(s, next[target], q) => Worse(s, n, q)
          BY <1>1, <1>3, <4>2, <4>4
        <5>2. QED
          BY <1>1, <1>3, <1>6, <4>1, <4>4, <5>1 DEF SearchInv
      <4>5. QED
        BY <4>3, <4>4
    <3>3. CASE ~Worse(s, n, target)
      <4>1. addAfter' = FALSE /\ target' = target /\ pc' = "search"
        BY <1>1, <2>1, <3>3 DEF SearchStep
      <4>2. QED
        BY <1>1, <1>6, <3>1, <3>3, <4>1 DEF SearchInv
    <3>4. QED
      BY <3>2, <3>3
  <2>2. CASE ~(addAfter /\ target # best[s])
    <3>1. addAfter' = addAfter /\ target' = target /\ pc' = "link"
      BY <2>2 DEF SearchStep
    <3>2. QED
      BY <1>1, <1>6, <2>2, <3>1 DEF LevelsInv, SearchInv
  <2>3. QED
    BY <2>1, <2>2
<1>9. QED
  BY <1>5, <1>7, <1>8 DEF LevelsInv

\* Both ways of linking put the new level where RingInsert allows it.
LEMMA LinkStep == ASSUME LevelsInv, LinkLast \/ LinkBefore PROVE LevelsInv'
<1> SUFFICES ASSUME NEW n, n = new, NEW s, s = sideOf[n],
                    NEW c, c = (IF addAfter THEN best[s] ELSE target)
             PROVE  LevelsInv'
  OBVIOUS
<1>1. /\ pc = "link" /\ n \in Prices /\ s \in Sides /\ best[s] # Null
      /\ target \in Levels(s) /\ Levels(s) \in SUBSET Prices
      /\ n \notin Levels(s)
      /\ next \in [Prices -> Pointers] /\ prev \in [Prices -> Pointers]
      /\ best \in [Sides -> Pointers]
  BY DEF LinkLast, LinkBefore, LevelsInv, SearchInv, Levels, TypeOK
<1>2. SortedRing(s, Levels(s), best[s], next, prev)
  BY <1>1 DEF LevelsInv, RingIsSorted
<1>3. best[s] \in Levels(s) /\ \A q \in Levels(s) : ~Worse(s, best[s], q)
  BY <1>1, <1>2 DEF SortedRing, BestIsBest
<1>4. /\ c \in Levels(s) /\ prev[c] \in Levels(s) /\ next[prev[c]] = c
  BY <1>1, <1>2, <1>3 DEF SortedRing, PrevIsInverse
<1>order. /\ \A p \in Prices : ~Worse(s, p, p)
          /\ \A p, q \in Prices : Worse(s, p, q) \/ Worse(s, q, p) \/ p = q
          /\ \A p, q, r \in Prices :
                Worse(s, p, q) /\ Worse(s, q, r) => Worse(s, p, r)
  BY <1>1, WorseIsOrder
<1>5. /\ prev' = [prev EXCEPT ![n] = prev[c], ![c] = n]
      /\ next' = [next EXCEPT ![n] = c, ![prev[c]] = n]
      /\ pc' = "idle" /\ sideOf' = sideOf
      /\ best' = IF ~addAfter /\ Worse(s, best[s], n)
                 THEN [best EXCEPT ![s] = n] ELSE best
      /\ new' = Null /\ target' = Null /\ addAfter' = FALSE
  <2>1. CASE LinkLast
    BY <1>4, <2>1 DEF LinkLast
  <2>2. CASE LinkBefore
    <3>1. ASSUME Worse(s, best[s], n)
          PROVE  LET linked == [next EXCEPT ![n] = c, ![prev[c]] = n]
                 IN  linked[c] # best[s] \/ linked = [linked EXCEPT ![c] = n]
      \* Only the level alone in its ring is its own successor.
      <4>1. c = best[s]
        BY <1>1, <1>3, <1>order, <2>2, <3>1 DEF LinkBefore, LevelsInv, SearchInv
      <4>2. CASE prev[c] = c
        BY <1>1, <1>4, <4>2
      <4>3. CASE prev[c] # c
        BY <1>1, <1>2, <1>4, <4>1, <4>3 DEF SortedRing, PrevIsInverse
      <4>4. QED
        BY <4>2, <4>3
    <3>2. QED
      BY <2>2, <3>1 DEF LinkBefore
  <2>3. QED
    BY <2>1, <2>2
<1>6. Fits(s, Levels(s), best[s], best'[s], n, prev[c], c)
  <2>1. CASE addAfter
    BY <1>1, <1>5, <2>1 DEF LevelsInv, SearchInv, Fits
  <2>2. CASE ~addAfter
    <3>1. /\ c = target /\ Worse(s, c, n)
          /\ \A q \in Levels(s) : Worse(s, c, q) => Worse(s, n, q)
      BY <1>1, <1>order, <2>2 DEF LevelsInv, SearchInv
    <3>2. CASE c = best[s]
      <4>1. \A q \in Levels(s) : Worse(s, q, n)
        BY <1>1, <1>3, <1>order, <3>1, <3>2
      <4>2. QED
        BY <1>1, <1>5, <2>2, <3>1, <3>2, <4>1 DEF Fits
    <3>3. CASE c # best[s]
      <4>1. Worse(s, c, best[s])
        BY <1>1, <1>3, <1>4, <1>order, <3>3
      <4>2. ~Worse(s, best[s], n)
        BY <1>1, <1>3, <1>4, <1>order, <3>1, <4>1
      <4>3. Worse(s, c, prev[c])
        BY <1>2, <1>4, <3>3 DEF SortedRing, NextIsNextWorse
      <4>4. QED
        BY <1>4, <1>5, <3>1, <3>3, <4>2, <4>3 DEF Fits
    <3>4. QED
      BY <3>2, <3>3
  <2>3. QED
    BY <2>1, <2>2
<1>7. TypeOK'
  <2>1. addAfter' \in BOOLEAN
    BY <1>5, Zenon
  <2>2. c \in Prices /\ prev[c] \in Prices
    BY <1>1, <1>4
  <2>3. QED
    BY <1>1, <1>5, <2>1, <2>2 DEF LevelsInv, TypeOK, Pointers
<1>8. /\ Levels(s)' = Levels(s) \cup {n}
      /\ \A t \in Sides : t # s => Levels(t)' = Levels(t)
  BY <1>1, <1>5 DEF Levels
<1>9. RingIsSorted'
  <2> SUFFICES ASSUME NEW t \in Sides
               PROVE  SortedRing(t, Levels(t)', best'[t], next', prev')
    BY DEF RingIsSorted
  <2>1. CASE t = s
    <3>1. SortedRing(s, Levels(s)', best'[s], next', prev')
      <4>1. Linked(Levels(s), next, prev, n, c, next', prev')
        BY <1>1, <1>4, <1>5 DEF Linked
      <4>2. QED
        BY <1>1, <1>2, <1>3, <1>4, <1>6, <1>8, <4>1, RingInsert
    <3>2. QED
      BY <2>1, <3>1
  <2>2. CASE t # s
    <3>1. \A r \in Levels(t) : r \in Prices /\ r \notin Levels(s) /\ r # n
      BY <1>1, <2>2 DEF Levels
    <3>2. \A r \in Levels(t) : next'[r] = next[r] /\ prev'[r] = prev[r]
      BY <1>1, <1>4, <1>5, <3>1
    <3>3. best'[t] = best[t]
      BY <1>1, <1>5, <2>2
    <3>4. SortedRing(t, Levels(t), best[t], next', prev')
      BY <3>2, RingFrame DEF LevelsInv, RingIsSorted
    <3>5. QED
      BY <1>8, <2>2, <3>3, <3>4
  <2>3. QED
    BY <2>1, <2>2
<1>10. SearchInv'
  BY <1>5 DEF SearchInv
<1>11. QED
  BY <1>7, <1>9, <1>10 DEF LevelsInv

\* A removed level leaves a sorted ring, or an empty side.
LEMMA RemoveStep ==
    ASSUME LevelsInv, NEW p \in Prices, RemoveOrderAtPrice(p)
    PROVE  LevelsInv'
<1> SUFFICES ASSUME NEW s, s = sideOf[p] PROVE LevelsInv'
  OBVIOUS
<1>1. /\ pc = "idle" /\ pc' = "idle" /\ s \in Sides /\ p \in Levels(s)
      /\ Levels(s) \in SUBSET Prices
      /\ new' = new /\ target' = target /\ addAfter' = addAfter
      /\ sideOf' = [sideOf EXCEPT ![p] = NoSide]
      /\ sideOf \in [Prices -> Sides \cup {NoSide}]
      /\ next \in [Prices -> Pointers] /\ prev \in [Prices -> Pointers]
      /\ best \in [Sides -> Pointers]
  BY DEF RemoveOrderAtPrice, LevelsInv, TypeOK, Levels, searchVars
<1>2. SortedRing(s, Levels(s), best[s], next, prev)
  BY <1>1 DEF LevelsInv, RingIsSorted
<1>3. /\ best[s] \in Levels(s)
      /\ next[p] \in Levels(s) /\ prev[p] \in Levels(s)
  BY <1>1, <1>2 DEF SortedRing, BestIsBest, NextIsNextWorse, PrevIsInverse
<1>4. /\ Levels(s)' = Levels(s) \ {p}
      /\ \A t \in Sides : t # s => Levels(t)' = Levels(t)
  BY <1>1 DEF Levels, Sides, NoSide
<1>5. TypeOK'
  <2>1. /\ next' \in [Prices -> Pointers] /\ prev' \in [Prices -> Pointers]
        /\ best' \in [Sides -> Pointers]
    BY <1>1, <1>3 DEF RemoveOrderAtPrice, Pointers
  <2>2. QED
    BY <1>1, <2>1 DEF LevelsInv, TypeOK
<1>6. RingIsSorted'
  <2> SUFFICES ASSUME NEW t \in Sides
               PROVE  SortedRing(t, Levels(t)', best'[t], next', prev')
    BY DEF RingIsSorted
  <2>1. CASE t = s /\ next[p] = p
    <3>1. best'[s] = Null
      BY <1>1, <2>1 DEF RemoveOrderAtPrice
    <3>2. p = best[s] /\ \A q \in Levels(s) : ~Worse(s, q, p)
      BY <1>1, <1>2, <2>1, WorseIsOrder DEF SortedRing, NextIsNextWorse
    <3>3. \A q \in Levels(s) : ~Worse(s, p, q)
      BY <1>2, <1>3, <3>2, PricesAssumption DEF SortedRing, BestIsBest
    <3>4. Levels(s) = {p}
      BY <1>1, <3>2, <3>3, WorseIsOrder
    <3>5. QED
      BY <1>4, <2>1, <3>1, <3>4 DEF SortedRing, BestIsBest
  <2>2. CASE t = s /\ next[p] # p
    <3>1. /\ next' = [next EXCEPT ![prev[p]] = next[p], ![p] = Null]
          /\ prev' = [prev EXCEPT ![next[p]] = prev[p], ![p] = Null]
          /\ best'[s] = IF best[s] = p THEN next[p] ELSE best[s]
      BY <1>1, <2>2 DEF RemoveOrderAtPrice
    <3>2. SortedRing(s, Levels(s) \ {p}, best'[s], next', prev')
      BY <1>1, <1>2, <1>3, <2>2, <3>1, RingRemove
    <3>3. QED
      BY <1>4, <2>2, <3>2
  <2>3. CASE t # s
    <3>1. \A r \in Levels(t) : r \in Prices /\ r \notin Levels(s) /\ r # p
      BY <1>1, <2>3 DEF Levels
    <3>2. \A r \in Levels(t) : next'[r] = next[r] /\ prev'[r] = prev[r]
      BY <1>1, <1>3, <3>1 DEF RemoveOrderAtPrice
    <3>3. best'[t] = best[t]
      BY <1>1, <2>3 DEF RemoveOrderAtPrice
    <3>4. SortedRing(t, Levels(t), best[t], next', prev')
      BY <3>2, RingFrame DEF LevelsInv, RingIsSorted
    <3>5. QED
      BY <1>4, <2>3, <3>3, <3>4
  <2>4. QED
    BY <2>1, <2>2, <2>3
<1>7. SearchInv'
  BY <1>1 DEF SearchInv
<1>8. QED
  BY <1>5, <1>6, <1>7 DEF LevelsInv

-----------------------------------------------------------------------------
(* Theorems. *)

\* The invariant of the rings and of the search holds throughout.
THEOREM LevelsInvariant == Spec => []LevelsInv
<1>1. LevelsInv /\ [Next]_vars => LevelsInv'
  <2> SUFFICES ASSUME LevelsInv, [Next]_vars PROVE LevelsInv'
    OBVIOUS
  <2>1. CASE UNCHANGED vars
    BY <2>1 DEF vars, ringVars, searchVars, LevelsInv, TypeOK, RingIsSorted,
                SearchInv, Levels
  <2>2. QED
    BY <2>1, AddFirstLevelStep, BeginSearchStep, SearchTurnStep, LinkStep,
       RemoveStep DEF Next, AddOrderAtPriceStep
<1>2. QED
  BY <1>1, InitLevelsInv, PTL DEF Spec

\* The pointers of addOrderAtPrice and removeOrderAtPrice stay pointers to
\* price levels or null (TypeOK).
THEOREM LevelsTypeCorrect == Spec => []TypeOK
<1>1. LevelsInv => TypeOK
  BY DEF LevelsInv
<1>2. QED
  BY <1>1, LevelsInvariant, PTL

\* The levels of each side are one ring from the best price to the worst,
\* after every addition and removal and during every search.
THEOREM LevelsStaySorted == Spec => []RingIsSorted
<1>1. LevelsInv => RingIsSorted
  BY DEF LevelsInv
<1>2. QED
  BY <1>1, LevelsInvariant, PTL

-----------------------------------------------------------------------------
(* The pool that the levels come from. *)

\* The flags are the callers' view of the pool, and the cursor rests on a
\* free block for as long as the process runs.
PoolInv ==
    /\ isFree \in [Blocks -> BOOLEAN]
    /\ nextFree \in Blocks
    /\ live = {b \in Blocks : ~isFree[b]}
    /\ status = "running" => isFree[nextFree]
    /\ status # "running" => status = "out of space" /\ live = Blocks

\* The constructor frees every block.
LEMMA InitPoolInv == PoolInit => PoolInv
<1> SUFFICES ASSUME PoolInit PROVE PoolInv
  OBVIOUS
<1>1. 0 \in Blocks
  BY PoolAssumption DEF Blocks
<1>2. isFree \in [Blocks -> BOOLEAN]
  BY Zenon DEF PoolInit
<1>3. QED
  BY <1>1, <1>2 DEF PoolInit, PoolInv

\* allocate() leaves the cursor on a free block or gives up with none left.
LEMMA AllocatePoolInv == ASSUME PoolInv, Allocate PROVE PoolInv'
<1>1. /\ isFree' = [isFree EXCEPT ![nextFree] = FALSE]
      /\ live' = live \cup {nextFree}
      /\ isFree \in [Blocks -> BOOLEAN] /\ nextFree \in Blocks
      /\ status = "running"
  BY DEF Allocate, PoolInv
<1>2. isFree' \in [Blocks -> BOOLEAN]
  BY <1>1
<1>3. \A b \in Blocks : isFree'[b] <=> isFree[b] /\ b # nextFree
  BY <1>1
<1>4. live' = {b \in Blocks : ~isFree'[b]}
  BY <1>1, <1>3 DEF PoolInv
<1>5. CASE \E b \in Blocks : isFree'[b]
  <2>1. /\ status' = "running"
        /\ \E b \in Blocks : isFree'[b] /\ nextFree' = b
    BY <1>1, <1>5 DEF Allocate, PoolInv, NextFreeIndex
  <2>2. QED
    BY <1>2, <1>4, <2>1 DEF PoolInv
<1>6. CASE ~ \E b \in Blocks : isFree'[b]
  <2>1. status' = "out of space" /\ nextFree' = nextFree
    BY <1>1, <1>6 DEF Allocate, PoolInv
  <2>2. live' = Blocks
    BY <1>4, <1>6
  <2>3. QED
    BY <1>1, <1>2, <1>4, <2>1, <2>2 DEF PoolInv
<1>7. QED
  BY <1>5, <1>6

\* deallocate() of a block in use only raises its flag.
LEMMA DeallocatePoolInv ==
    ASSUME PoolInv, NEW b \in Blocks, Deallocate(b)
    PROVE  PoolInv'
<1>1. /\ isFree' = [isFree EXCEPT ![b] = TRUE]
      /\ live' = live \ {b} /\ nextFree' = nextFree
      /\ status = "running" /\ status' = status
      /\ isFree \in [Blocks -> BOOLEAN]
  BY DEF Deallocate, PoolInv
<1>2. isFree' \in [Blocks -> BOOLEAN]
  BY <1>1
<1>3. \A c \in Blocks : isFree'[c] <=> isFree[c] \/ c = b
  BY <1>1
<1>4. QED
  BY <1>1, <1>2, <1>3 DEF PoolInv

\* The pool's invariant holds throughout.
THEOREM PoolInvariant == PoolSpec => []PoolInv
<1>1. PoolInv /\ [PoolNext]_poolVars => PoolInv'
  <2> SUFFICES ASSUME PoolInv, [PoolNext]_poolVars PROVE PoolInv'
    OBVIOUS
  <2>1. CASE UNCHANGED poolVars
    BY <2>1 DEF poolVars, PoolInv
  <2>2. QED
    BY <2>1, AllocatePoolInv, DeallocatePoolInv DEF PoolNext
<1>2. QED
  BY <1>1, InitPoolInv, PTL DEF PoolSpec

\* MemPool's ASSERTs on is_free never fail and the pool gives up only when
\* every block is in use.
THEOREM PoolEndsOnlyWhenFull == PoolSpec => []EndsOnlyWhenFull
<1>1. PoolInv => EndsOnlyWhenFull
  BY DEF PoolInv, EndsOnlyWhenFull
<1>2. QED
  BY <1>1, PoolInvariant, PTL

\* allocate() never hands out a block somebody holds.
THEOREM PoolNeverShares == PoolSpec => NoBlockShared
<1>1. PoolInv /\ [PoolNext]_poolVars => [NoBlockSharedStep]_poolVars
  <2> SUFFICES ASSUME PoolInv, PoolNext, asked' > asked
               PROVE  nextFree \notin live
    BY DEF NoBlockSharedStep
  <2>1. CASE Allocate
    BY <2>1 DEF Allocate, PoolInv
  <2>2. QED
    BY <2>1 DEF PoolInv, PoolNext, Deallocate
<1>2. QED
  BY <1>1, PoolInvariant, PTL DEF PoolSpec, NoBlockShared

=============================================================================
