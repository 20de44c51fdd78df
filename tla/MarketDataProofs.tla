-------------------------- MODULE MarketDataProofs --------------------------
(***************************************************************************)
(* The market data path for any number of tickers, orders and updates, and *)
(* for networks with any number of losses, repetitions and overtakings:    *)
(* the synthesizer's image is the book at the number it announces, and a   *)
(* client outside recovery has the exchange's book, unless it put the head *)
(* of one snapshot and the tail of another together.                       *)
(*                                                                         *)
(* The incremental stream is simple: whatever becomes of a message, it is  *)
(* the one update that leads from books[seq] to books[seq + 1].  Of the    *)
(* snapshot stream the invariant says which snapshot each datagram is of.  *)
(* The client keeps messages only while their numbers are 0, 1, 2, ... in  *)
(* the order of their arrival, which is the order of the snapshots they    *)
(* are of: a datagram that is overtaken by one of a later snapshot begins  *)
(* with a lower number and does not continue what the later one ended.     *)
(* So when SNAPSHOT_START and SNAPSHOT_END are of the same snapshot, all   *)
(* that is between them is as well.                                        *)
(***************************************************************************)
EXTENDS MarketData, FiniteSetTheorems, TLAPS

(* Types. *)

Images == [Keys -> Quantities \cup {0}]
Updates ==
    [type : {"ADD", "MODIFY", "CANCEL", "CLEAR", "SNAPSHOT_START", "SNAPSHOT_END"},
     ticker : Nat, id : Nat, qty : Quantities \cup {0}]
Messages == [seq : Nat, u : Updates]

-----------------------------------------------------------------------------
(* The exchange. *)

\* Update u is one that the book can make and that addToSnapshot() accepts on
\* an image of it; book2 is the book after it.
Follows(book, u, book2) ==
    /\ u.type \in {"ADD", "MODIFY", "CANCEL"}
    /\ <<u.ticker, u.id>> \in Keys
    /\ u.type = "ADD" <=> book[<<u.ticker, u.id>>] = 0
    /\ book2 = After(book, u)

\* A message of the incremental stream.
Incremental(m) ==
    /\ m \in Messages
    /\ m.seq \in 1 .. nextInc - 1
    /\ Follows(books[m.seq], m.u, books[m.seq + 1])

PublisherInv ==
    /\ books \in Seq(Images) /\ Len(books) = nextInc
    /\ nextInc \in 1 .. MaxUpdates + 1
    /\ nextOrderId \in [Tickers -> 1 .. MaxOrderId + 1]
    /\ \A k \in Keys : k[2] >= nextOrderId[k[1]] => books[nextInc][k] = 0
    /\ net \in Networks /\ faults \in 0 .. net.max
    /\ status = "running"

\* The synthesizer has the book after update lastInc, and the later ones wait
\* in its queue.
SynthesizerInv ==
    /\ lastInc \in 0 .. nextInc - 1
    /\ orders = books[lastInc + 1]
    /\ snapQueue \in Seq(Messages)
    /\ lastInc + Len(snapQueue) = nextInc - 1
    /\ \A p \in DOMAIN snapQueue :
          snapQueue[p].seq = lastInc + p /\ Incremental(snapQueue[p])

(* The incremental stream. *)

IncrementalInv ==
    /\ outBuf \in Seq(Messages)
    /\ \A p \in DOMAIN outBuf : Incremental(outBuf[p])
    /\ incNet \in Seq(Seq(Messages))
    /\ \A j \in DOMAIN incNet : \A p \in DOMAIN incNet[j] : Incremental(incNet[j][p])
    /\ rx \in Seq(Messages) /\ rxSnapshot \in BOOLEAN
    /\ ~rxSnapshot => \A p \in DOMAIN rx : Incremental(rx[p])
    /\ IsFiniteSet(incMsgs)
    /\ \A m \in incMsgs : Incremental(m)
    /\ \A m, n \in incMsgs : m.seq = n.seq => m = n

(* The snapshot stream.  Snapshot i is the one of the book after update i. *)

Snapshot(i) == SnapshotMessages(books[i + 1], i)
InSnapshot(m, i) ==
    m.seq + 1 \in DOMAIN Snapshot(i) /\ m = Snapshot(i)[m.seq + 1]

\* Messages of d follow one another in snapshot i.
Chunk(d, i) ==
    \A p \in DOMAIN d : d[p].seq = d[1].seq + p - 1 /\ InSnapshot(d[p], i)

\* What the client keeps of snapshots begins with the SNAPSHOT_START of some
\* snapshot, has no gap and is of this one or later ones, up to snapshot hi.
Beginning(S, hi) ==
    /\ \A m, n \in S : m.seq = n.seq => m = n
    /\ \A m \in S : m.u.type # "SNAPSHOT_END"
    /\ \E first \in S :
          /\ first.seq = 0 /\ first.u.type = "SNAPSHOT_START"
          /\ \A m \in S : \E i \in first.u.id .. hi : InSnapshot(m, i)

\* The datagrams on their way to the client are of snapshots lab[1], lab[2] and
\* so on, the one it works on is of snapshot cur.  A datagram of an earlier
\* snapshot comes later only if it begins with a lower number.
StreamInv(hi, cur, lab) ==
    /\ \A j \in DOMAIN snapNet : snapNet[j] # <<>> /\ Chunk(snapNet[j], lab[j])
    /\ \A i, j \in DOMAIN snapNet :
          i < j => lab[i] <= lab[j] \/ snapNet[j][1].seq < snapNet[i][1].seq
    /\ rxSnapshot => Chunk(rx, cur)
    /\ rxSnapshot /\ rx # <<>> =>
          \A j \in DOMAIN snapNet : cur <= lab[j] \/ snapNet[j][1].seq < rx[1].seq
    /\ snapMsgs # {} =>
          /\ Beginning(snapMsgs, hi)
          /\ \A j \in DOMAIN snapNet :
                hi <= lab[j] \/ snapNet[j][1].seq < Cardinality(snapMsgs)
          /\ rxSnapshot /\ rx # <<>> => hi <= cur \/ rx[1].seq < Cardinality(snapMsgs)

SnapshotInv ==
    /\ toSend \in Seq(Messages)
    /\ toSend # <<>> =>
          /\ Chunk(toSend, lastInc)
          /\ toSend[Len(toSend)].u.type = "SNAPSHOT_END"
    /\ snapNet \in Seq(Seq(Messages))
    /\ snapMsgs \in SUBSET Messages /\ IsFiniteSet(snapMsgs)
    /\ Seqs(snapMsgs) = 0 .. Cardinality(snapMsgs) - 1
    /\ \E hi \in 0 .. lastInc, cur \in 0 .. lastInc,
          lab \in [DOMAIN snapNet -> 0 .. lastInc] : StreamInv(hi, cur, lab)

(* The client. *)

ViewInv ==
    /\ view \in Images
    /\ nextExp \in 1 .. nextInc
    /\ inRecovery \in BOOLEAN /\ merged \in BOOLEAN
    /\ ~inRecovery /\ ~merged => view = books[nextExp]

DataInv ==
    PublisherInv /\ SynthesizerInv /\ IncrementalInv /\ SnapshotInv /\ ViewInv

-----------------------------------------------------------------------------
(* Numbers. *)

LEMMA Constants ==
    /\ Tickers \subseteq Nat /\ IsFiniteSet(Tickers)
    /\ Quantities \subseteq Nat \ {0}
    /\ \A x \in Networks : x.max \in Nat /\ x.orders \in 1 .. MaxOrderId
    /\ MaxOrderId \in Nat /\ MaxUpdates \in Nat
  BY MarketDataAssumption

LEMMA Least ==
    ASSUME NEW T \in SUBSET Nat, T # {}
    PROVE  \E x \in T : \A y \in T : x <= y
<1>1. IsWellFoundedOn(OpToRel(<, Nat), Nat)
  BY NatLessThanWellFounded
<1>2. PICK x \in T : \A y \in T : ~(<<y, x>> \in OpToRel(<, Nat))
  BY <1>1, WFMin
<1>3. \A y \in T : ~(y < x)
  BY <1>2 DEF OpToRel
<1> QED
  BY <1>3

LEMMA Greatest ==
    ASSUME NEW T \in SUBSET Nat, T # {}, NEW b \in Nat, \A y \in T : y <= b
    PROVE  \E x \in T : \A y \in T : y <= x
<1> DEFINE D == {d \in Nat : b - d \in T}
<1>1. PICK y \in T : TRUE
  OBVIOUS
<1>2. b - y \in D
  BY <1>1
<1>3. D \in SUBSET Nat /\ D # {}
  BY <1>2
<1> HIDE DEF D
<1>4. PICK d \in D : \A e \in D : d <= e
  BY <1>3, Least
<1>5. d \in Nat /\ b - d \in T
  BY <1>4 DEF D
<1>6. ASSUME NEW z \in T PROVE z <= b - d
  <2>1. b - z \in D
    BY DEF D
  <2>2. d <= b - z
    BY <2>1, <1>4
  <2> QED
    BY <2>2, <1>5
<1> QED
  BY <1>5, <1>6

\* The last and the first message of a set of messages.
LEMMA LatestIs ==
    ASSUME NEW S, S # {}, NEW b \in Nat, \A m \in S : m.seq \in 0 .. b
    PROVE  Latest(S) \in S /\ \A m \in S : m.seq <= Latest(S).seq
<1>1. Seqs(S) \in SUBSET Nat /\ Seqs(S) # {} /\ \A y \in Seqs(S) : y <= b
  BY DEF Seqs
<1>2. PICK x \in Seqs(S) : \A y \in Seqs(S) : y <= x
  BY <1>1, Greatest
<1>3. PICK m \in S : m.seq = x
  BY <1>2 DEF Seqs
<1>4. \A n \in S : n.seq <= m.seq
  BY <1>2, <1>3 DEF Seqs
<1> QED
  BY <1>4 DEF Latest

LEMMA EarliestIs ==
    ASSUME NEW S, S # {}, \A m \in S : m.seq \in Nat
    PROVE  Earliest(S) \in S /\ \A m \in S : Earliest(S).seq <= m.seq
<1>1. Seqs(S) \in SUBSET Nat /\ Seqs(S) # {}
  BY DEF Seqs
<1>2. PICK x \in Seqs(S) : \A y \in Seqs(S) : x <= y
  BY <1>1, Least
<1>3. PICK m \in S : m.seq = x
  BY <1>2 DEF Seqs
<1>4. \A n \in S : m.seq <= n.seq
  BY <1>2, <1>3 DEF Seqs
<1> QED
  BY <1>4 DEF Earliest

-----------------------------------------------------------------------------
(* The snapshot of an image. *)

LEMMA FirstPlace ==
    ASSUME NEW U \in SUBSET (Nat \X Nat), U # {}
    PROVE  \E m \in U : \A y \in U : y = m \/ Before(m, y)
<1> DEFINE A == {y[1] : y \in U}
<1>1. A \in SUBSET Nat /\ A # {}
  OBVIOUS
<1>2. PICK a \in A : \A x \in A : a <= x
  BY <1>1, Least
<1> DEFINE B == {y[2] : y \in {z \in U : z[1] = a}}
<1>3. B \in SUBSET Nat /\ B # {}
  BY <1>2
<1>4. PICK b \in B : \A x \in B : b <= x
  BY <1>3, Least
<1>5. PICK m \in U : m[1] = a /\ m[2] = b
  BY <1>4
<1>6. ASSUME NEW y \in U, y # m PROVE Before(m, y)
  <2>1. /\ y[1] \in Nat /\ y[2] \in Nat /\ m[1] \in Nat /\ m[2] \in Nat
        /\ y = <<y[1], y[2]>> /\ m = <<m[1], m[2]>>
    OBVIOUS
  <2>2. m[1] <= y[1]
    BY <1>2, <1>5
  <2>3. y[1] = m[1] => m[2] <= y[2]
    BY <1>4, <1>5
  <2>4. ~(y[1] = m[1] /\ y[2] = m[2])
    BY <2>1, <1>6
  <2> QED
    BY <2>1, <2>2, <2>3, <2>4 DEF Before
<1> QED
  BY <1>5, <1>6

Sorted(f) == \A i, j \in DOMAIN f : i < j => Before(f[i], f[j])

\* A finite set of places can be put in order.
LEMMA SortedExists ==
    ASSUME NEW S \in SUBSET (Nat \X Nat), IsFiniteSet(S)
    PROVE  \E f \in [1 .. Cardinality(S) -> S] : Sorted(f)
<1> DEFINE P(n) == \A U \in SUBSET (Nat \X Nat) :
                      IsFiniteSet(U) /\ Cardinality(U) = n
                          => \E f \in [1 .. n -> U] : Sorted(f)
           T == {n \in Nat : ~P(n)}
<1>1. SUFFICES ASSUME T # {} PROVE FALSE
  <2>1. Cardinality(S) \in Nat
    BY FS_CardinalityType
  <2> QED
    BY <2>1
<1>a. T \in SUBSET Nat
  OBVIOUS
<1>2. PICK x \in T : \A y \in T : x <= y
  <2> HIDE DEF T
  <2> QED
    BY <1>1, <1>a, Least
<1>3. PICK U \in SUBSET (Nat \X Nat) :
         /\ IsFiniteSet(U) /\ Cardinality(U) = x
         /\ ~\E f \in [1 .. x -> U] : Sorted(f)
  BY <1>2
<1>4. CASE x = 0
  <2>1. <<>> \in [1 .. x -> U]
    BY <1>4
  <2>2. Sorted(<<>>)
    BY DEF Sorted
  <2> QED
    BY <2>1, <2>2, <1>3
<1>5. CASE x # 0
  <2>1. U # {}
    BY <1>3, <1>5, FS_EmptySet
  <2>2. PICK m \in U : \A y \in U : y = m \/ Before(m, y)
    BY <2>1, FirstPlace
  <2>3. IsFiniteSet(U \ {m}) /\ Cardinality(U \ {m}) = x - 1
    BY <1>3, FS_RemoveElement
  <2>4. x - 1 \in Nat /\ x - 1 \notin T
    BY <1>2, <1>5
  <2>5. P(x - 1)
    BY <2>4
  <2>6. PICK f \in [1 .. x - 1 -> U \ {m}] : Sorted(f)
    BY <2>3, <2>5
  <2> DEFINE g == [i \in 1 .. x |-> IF i = 1 THEN m ELSE f[i - 1]]
  <2>7. ASSUME NEW i \in 1 .. x, i # 1
        PROVE  i - 1 \in 1 .. x - 1 /\ g[i] = f[i - 1] /\ f[i - 1] \in U \ {m}
    BY <2>6, <2>7, <1>2
  <2>8. g \in [1 .. x -> U]
    BY <2>7
  <2>9. ASSUME NEW i \in 1 .. x, NEW j \in 1 .. x, i < j PROVE Before(g[i], g[j])
    <3>1. j # 1 /\ g[j] = f[j - 1] /\ f[j - 1] \in U \ {m} /\ j - 1 \in 1 .. x - 1
      BY <2>7, <2>9
    <3>2. CASE i = 1
      BY <3>1, <3>2, <2>2
    <3>3. CASE i # 1
      <4>1. i - 1 \in 1 .. x - 1 /\ g[i] = f[i - 1] /\ i - 1 < j - 1
        BY <3>3, <2>7, <2>9
      <4>2. Before(f[i - 1], f[j - 1])
        BY <4>1, <3>1, <2>6 DEF Sorted
      <4> QED
        BY <4>1, <4>2, <3>1
    <3> QED
      BY <3>2, <3>3
  <2>10. DOMAIN g = 1 .. x
    OBVIOUS
  <2> HIDE DEF g
  <2>11. Sorted(g)
    BY <2>9, <2>10 DEF Sorted
  <2> QED
    BY <2>8, <2>11, <1>3
<1> QED
  BY <1>4, <1>5

Places(image) == (Tickers \X {0}) \cup {k \in Keys : image[k] # 0}
UpdateAt(image, k) ==
    IF k[2] = 0 THEN Update("CLEAR", k[1], 0, 0)
    ELSE Update("ADD", k[1], k[2], image[k])

\* The body of a snapshot goes through all places, in order and once.
Enumerates(f, N, image) ==
    /\ f \in [1 .. N -> Places(image)]
    /\ Sorted(f)
    /\ \A k \in Places(image) : \E i \in 1 .. N : f[i] = k

LEMMA PlacesFinite ==
    ASSUME NEW image \in Images
    PROVE  IsFiniteSet(Places(image)) /\ Places(image) \in SUBSET (Nat \X Nat)
<1>1. IsFiniteSet(Tickers) /\ IsFiniteSet({0}) /\ IsFiniteSet(1 .. MaxOrderId)
  <2>1. IsFiniteSet(Tickers) /\ MaxOrderId \in Nat
    BY Constants
  <2>2. IsFiniteSet({0})
    BY FS_Singleton
  <2>3. IsFiniteSet(1 .. MaxOrderId)
    BY <2>1, FS_Interval
  <2> QED
    BY <2>1, <2>2, <2>3
<1>2. IsFiniteSet(Tickers \X {0}) /\ IsFiniteSet(Keys)
  BY <1>1, FS_Product DEF Keys
<1>3. IsFiniteSet({k \in Keys : image[k] # 0})
  BY <1>2, FS_Subset
<1>4. IsFiniteSet(Places(image))
  BY <1>2, <1>3, FS_Union DEF Places
<1>5. Places(image) \in SUBSET (Nat \X Nat)
  BY Constants DEF Places, Keys
<1> QED
  BY <1>4, <1>5

LEMMA Body ==
    ASSUME NEW image \in Images
    PROVE  \E N \in Nat : \E f : 
              /\ Enumerates(f, N, image)
              /\ SnapshotBody(image) = [i \in 1 .. N |-> UpdateAt(image, f[i])]
<1> DEFINE N == Cardinality(Places(image))
           f == CHOOSE f \in [1 .. N -> Places(image)] :
                    \A i, j \in DOMAIN f : i < j => Before(f[i], f[j])
<1>1. N \in Nat
  BY PlacesFinite, FS_CardinalityType
<1>2. \E g \in [1 .. N -> Places(image)] : Sorted(g)
  BY PlacesFinite, SortedExists
<1>3. f \in [1 .. N -> Places(image)] /\ Sorted(f)
  BY <1>2 DEF Sorted
<1>4. SnapshotBody(image) = [i \in DOMAIN f |-> UpdateAt(image, f[i])]
  BY DEF SnapshotBody, Places, UpdateAt
<1> HIDE DEF N, f
<1>5. f \in Injection(1 .. N, Places(image))
  <2>1. ASSUME NEW i \in 1 .. N, NEW j \in 1 .. N, f[i] = f[j], i # j
        PROVE  FALSE
    <3>1. f[i] \in Nat \X Nat
      BY <1>3, PlacesFinite
    <3>2. i < j \/ j < i
      BY <2>1, <1>1
    <3>3. Before(f[i], f[i])
      BY <3>2, <2>1, <1>3 DEF Sorted
    <3> QED
      BY <3>1, <3>3 DEF Before
  <2> QED
    BY <2>1, <1>3 DEF Injection, IsInjective
<1>6. f \in Surjection(1 .. N, Places(image))
  <2>1. Cardinality(1 .. N) = N
    BY <1>1, FS_Interval
  <2> QED
    BY <2>1, <1>5, PlacesFinite, FS_Injection DEF N
<1>7. Enumerates(f, N, image)
  BY <1>3, <1>6 DEF Enumerates, Surjection
<1> QED
  BY <1>1, <1>3, <1>4, <1>7

\* s is the snapshot of an image after update last: SNAPSHOT_START, the body
\* and SNAPSHOT_END, numbered from 0.
Shape(s, image, last, N, f) ==
    /\ Enumerates(f, N, image)
    /\ s \in Seq(Messages) /\ Len(s) = N + 2
    /\ s[1] = Message(0, Update("SNAPSHOT_START", 0, last, 0))
    /\ s[N + 2] = Message(N + 1, Update("SNAPSHOT_END", 0, last, 0))
    /\ \A i \in 1 .. N : s[i + 1] = Message(i, UpdateAt(image, f[i]))

LEMMA SnapshotShape ==
    ASSUME NEW image \in Images, NEW last \in Nat
    PROVE  \E N \in Nat : \E f : Shape(SnapshotMessages(image, last), image, last, N, f)
<1>0. PICK N \in Nat : \E f :
         /\ Enumerates(f, N, image)
         /\ SnapshotBody(image) = [i \in 1 .. N |-> UpdateAt(image, f[i])]
  BY Body
<1>1. PICK f :
         /\ Enumerates(f, N, image)
         /\ SnapshotBody(image) = [i \in 1 .. N |-> UpdateAt(image, f[i])]
  BY <1>0
<1> DEFINE body == SnapshotBody(image)
           start == Update("SNAPSHOT_START", 0, last, 0)
           end == Update("SNAPSHOT_END", 0, last, 0)
           all == <<start>> \o body \o <<end>>
<1>2. start \in Updates /\ end \in Updates
  BY DEF Updates, Update
<1>3. ASSUME NEW i \in 1 .. N PROVE UpdateAt(image, f[i]) \in Updates
  <2>1. f[i] \in Places(image)
    BY <1>1 DEF Enumerates
  <2>2. f[i] \in Nat \X Nat /\ (f[i][2] # 0 => f[i] \in Keys)
    BY <2>1, PlacesFinite DEF Places
  <2>3. f[i][2] # 0 => image[f[i]] \in Quantities \cup {0}
    BY <2>2 DEF Images
  <2> QED
    BY <2>2, <2>3 DEF UpdateAt, Update, Updates
<1>4. body \in [1 .. N -> Updates]
  BY <1>1, <1>3
<1>5. body \in Seq(Updates) /\ Len(body) = N
  <2> HIDE DEF body
  <2> QED
    BY <1>4
<1>6. \A i \in 1 .. N : body[i] = UpdateAt(image, f[i])
  BY <1>1
<1>7. SnapshotMessages(image, last) = [i \in DOMAIN all |-> Message(i - 1, all[i])]
  BY DEF SnapshotMessages
<1> HIDE DEF body, start, end
<1>8. /\ all \in Seq(Updates) /\ Len(all) = N + 2
      /\ all[1] = start /\ all[N + 2] = end
      /\ \A i \in 1 .. N : all[i + 1] = body[i]
  BY <1>2, <1>5
<1> HIDE DEF all
<1>9. DOMAIN all = 1 .. N + 2
  BY <1>8
<1>10. \A i \in 1 .. N + 2 : Message(i - 1, all[i]) \in Messages
  BY <1>8, <1>9 DEF Message, Messages
<1> DEFINE s == SnapshotMessages(image, last)
<1>11. s \in [1 .. N + 2 -> Messages] /\ \A i \in 1 .. N + 2 : s[i] = Message(i - 1, all[i])
  BY <1>7, <1>9, <1>10
<1> HIDE DEF s
<1>12. s \in Seq(Messages) /\ Len(s) = N + 2
  BY <1>11
<1>13. s[1] = Message(0, start) /\ s[N + 2] = Message(N + 1, end)
  BY <1>8, <1>11
<1>14. \A i \in 1 .. N : s[i + 1] = Message(i, UpdateAt(image, f[i]))
  <2> SUFFICES ASSUME NEW i \in 1 .. N
               PROVE  s[i + 1] = Message(i, UpdateAt(image, f[i]))
    OBVIOUS
  <2>1. i + 1 \in 1 .. N + 2 /\ (i + 1) - 1 = i
    OBVIOUS
  <2> QED
    BY <2>1, <1>6, <1>8, <1>11
<1>15. Shape(s, image, last, N, f)
  BY <1>1, <1>12, <1>13, <1>14 DEF Shape, start, end
<1> QED
  BY <1>15 DEF s

\* Each message of a snapshot has its place as its number, SNAPSHOT_START is
\* the first, SNAPSHOT_END the last one, and both name the snapshot.
LEMMA SnapshotNumbers ==
    ASSUME NEW image \in Images, NEW last \in Nat
    PROVE  LET s == SnapshotMessages(image, last)
           IN  /\ s \in Seq(Messages) /\ s # <<>>
               /\ \A p \in DOMAIN s :
                     /\ s[p].seq = p - 1
                     /\ s[p].u.type = "SNAPSHOT_START" => p = 1 /\ s[p].u.id = last
                     /\ s[p].u.type = "SNAPSHOT_END" =>
                           p = Len(s) /\ p > 1 /\ s[p].u.id = last
               /\ s[Len(s)].u.type = "SNAPSHOT_END"
<1> DEFINE s == SnapshotMessages(image, last)
<1>0. PICK N \in Nat : \E f : Shape(s, image, last, N, f)
  BY SnapshotShape
<1>1. PICK f : Shape(s, image, last, N, f)
  BY <1>0
<1> HIDE DEF s
<1>2. /\ s \in Seq(Messages) /\ Len(s) = N + 2
      /\ s[1] = Message(0, Update("SNAPSHOT_START", 0, last, 0))
      /\ s[N + 2] = Message(N + 1, Update("SNAPSHOT_END", 0, last, 0))
      /\ \A i \in 1 .. N : s[i + 1] = Message(i, UpdateAt(image, f[i]))
  BY <1>1 DEF Shape
<1>3. s[1].seq = 0 /\ s[1].u.type = "SNAPSHOT_START" /\ s[1].u.id = last
  BY <1>2 DEF Message, Update
<1>4. /\ s[N + 2].seq = N + 1 /\ s[N + 2].u.type = "SNAPSHOT_END"
      /\ s[N + 2].u.id = last
  BY <1>2 DEF Message, Update
<1>5. ASSUME NEW i \in 1 .. N
      PROVE  s[i + 1].seq = i /\ s[i + 1].u.type \in {"CLEAR", "ADD"}
  <2>1. s[i + 1] = Message(i, UpdateAt(image, f[i]))
    BY <1>2
  <2>2. UpdateAt(image, f[i]).type \in {"CLEAR", "ADD"}
    BY DEF UpdateAt, Update
  <2>3. s[i + 1].seq = i /\ s[i + 1].u = UpdateAt(image, f[i])
    BY <2>1 DEF Message
  <2> QED
    BY <2>2, <2>3
<1>6. ASSUME NEW p \in DOMAIN s
      PROVE  /\ s[p].seq = p - 1
             /\ s[p].u.type = "SNAPSHOT_START" => p = 1 /\ s[p].u.id = last
             /\ s[p].u.type = "SNAPSHOT_END" =>
                   p = Len(s) /\ p > 1 /\ s[p].u.id = last
  <2>1. p \in 1 .. N + 2
    BY <1>2
  <2>2. CASE p = 1
    BY <2>2, <1>2, <1>3
  <2>3. CASE p = N + 2
    BY <2>3, <1>2, <1>4
  <2>4. CASE p # 1 /\ p # N + 2
    <3>1. p - 1 \in 1 .. N /\ p = (p - 1) + 1
      BY <2>1, <2>4
    <3>2. s[p].seq = p - 1 /\ s[p].u.type \in {"CLEAR", "ADD"}
      BY <3>1, <1>5
    <3> QED
      BY <3>2
  <2> QED
    BY <2>2, <2>3, <2>4
<1>7. s # <<>> /\ s[Len(s)].u.type = "SNAPSHOT_END"
  BY <1>2, <1>4
<1> QED
  BY <1>2, <1>6, <1>7 DEF s

\* The messages of a snapshot turn any book into the image.
LEMMA SnapshotRebuilds ==
    ASSUME NEW image \in Images, NEW last \in Nat, NEW before,
           NEW S, S = {SnapshotMessages(image, last)[p] :
                          p \in DOMAIN SnapshotMessages(image, last)}
    PROVE  AfterAll(before, S) = image
<1> DEFINE s == SnapshotMessages(image, last)
<1>0. PICK N \in Nat : \E f : Shape(s, image, last, N, f)
  BY SnapshotShape
<1>1. PICK f : Shape(s, image, last, N, f)
  BY <1>0
<1>a. S = {s[p] : p \in DOMAIN s}
  OBVIOUS
<1> HIDE DEF s
<1>2. /\ Len(s) = N + 2 /\ s \in Seq(Messages) /\ DOMAIN s = 1 .. N + 2
      /\ s[1] = Message(0, Update("SNAPSHOT_START", 0, last, 0))
      /\ s[N + 2] = Message(N + 1, Update("SNAPSHOT_END", 0, last, 0))
      /\ \A i \in 1 .. N : s[i + 1] = Message(i, UpdateAt(image, f[i]))
      /\ Enumerates(f, N, image)
  BY <1>1 DEF Shape
<1>3. ASSUME NEW k \in Keys
      PROVE  LET on == {m \in S : Touches(m.u, k)}
             IN  on # {} /\ QtyAfter(Latest(on).u) = image[k]
  <2> DEFINE on == {m \in S : Touches(m.u, k)}
             clear == <<k[1], 0>>
  <2>1. /\ k[1] \in Tickers /\ k[2] \in 1 .. MaxOrderId /\ k = <<k[1], k[2]>>
        /\ k[1] \in Nat /\ k[2] \in Nat \ {0}
    <3>1. k[1] \in Tickers /\ k[2] \in 1 .. MaxOrderId /\ k = <<k[1], k[2]>>
      BY DEF Keys
    <3>2. Tickers \subseteq Nat /\ MaxOrderId \in Nat
      BY Constants
    <3> QED
      BY <3>1, <3>2
  <2>2. PICK c \in 1 .. N : f[c] = clear
    <3>1. clear \in Places(image)
      BY <2>1 DEF Places
    <3> QED
      BY <3>1, <1>2 DEF Enumerates
  <2>3. /\ s[c + 1].seq = c /\ s[c + 1].u = Update("CLEAR", k[1], 0, 0)
        /\ s[c + 1] \in on
    <3>1. s[c + 1] = Message(c, UpdateAt(image, f[c])) /\ c + 1 \in DOMAIN s
      BY <1>2
    <3>2. UpdateAt(image, f[c]) = Update("CLEAR", k[1], 0, 0)
      BY <2>2 DEF UpdateAt
    <3>3. s[c + 1].seq = c /\ s[c + 1].u = Update("CLEAR", k[1], 0, 0)
      BY <3>1, <3>2 DEF Message
    <3>4. Touches(s[c + 1].u, k)
      BY <3>3 DEF Touches, Update
    <3> QED
      BY <3>1, <3>3, <3>4, <1>a
  <2>4. ASSUME NEW m \in on
        PROVE  \E i \in 1 .. N :
                  /\ m.seq = i /\ m = s[i + 1]
                  /\ \/ f[i] = clear /\ m.u = Update("CLEAR", k[1], 0, 0)
                     \/ f[i] = k /\ m.u = Update("ADD", k[1], k[2], image[k])
    <3>1. PICK p \in 1 .. N + 2 : m = s[p]
      BY <1>a, <1>2
    <3>2. p # 1 /\ p # N + 2
      <4>1. ~Touches(Update("SNAPSHOT_START", 0, last, 0), k)
        BY DEF Touches, Update
      <4>2. ~Touches(Update("SNAPSHOT_END", 0, last, 0), k)
        BY DEF Touches, Update
      <4>3. s[1].u = Update("SNAPSHOT_START", 0, last, 0)
            /\ s[N + 2].u = Update("SNAPSHOT_END", 0, last, 0)
        BY <1>2 DEF Message
      <4> QED
        BY <4>1, <4>2, <4>3, <3>1
    <3>3. PICK i \in 1 .. N : p = i + 1
      <4>1. p - 1 \in 1 .. N /\ p = (p - 1) + 1
        BY <3>1, <3>2
      <4> QED
        BY <4>1
    <3>4. m.seq = i /\ m.u = UpdateAt(image, f[i])
      <4>1. m = Message(i, UpdateAt(image, f[i]))
        BY <3>1, <3>3, <1>2
      <4> QED
        BY <4>1 DEF Message
    <3>5. f[i] \in Places(image)
      BY <1>2 DEF Enumerates
    <3>6. f[i] = <<f[i][1], f[i][2]>>
      BY <3>5, PlacesFinite
    <3>7. Touches(UpdateAt(image, f[i]), k)
      BY <3>4
    <3>8. CASE f[i][2] = 0
      <4>1. UpdateAt(image, f[i]) = Update("CLEAR", f[i][1], 0, 0)
        BY <3>8 DEF UpdateAt
      <4>2. f[i][1] = k[1]
        BY <4>1, <3>7 DEF Touches, Update
      <4> QED
        BY <4>1, <4>2, <3>1, <3>3, <3>4, <3>6, <3>8
    <3>9. CASE f[i][2] # 0
      <4>1. UpdateAt(image, f[i]) = Update("ADD", f[i][1], f[i][2], image[f[i]])
        BY <3>9 DEF UpdateAt
      <4>2. <<f[i][1], f[i][2]>> = k
        BY <4>1, <3>7 DEF Touches, Update
      <4> QED
        BY <4>1, <4>2, <3>1, <3>3, <3>4, <3>6, <2>1
    <3> QED
      BY <3>8, <3>9
  <2>5. on # {}
    BY <2>3
  <2> DEFINE l == Latest(on)
  <2>6. l \in on /\ \A m \in on : m.seq <= l.seq
    <3>1. \A m \in on : m.seq \in 0 .. N
      BY <2>4
    <3> HIDE DEF on
    <3> QED
      BY <3>1, <2>5, LatestIs
  <2> HIDE DEF l
  <2>7. PICK i \in 1 .. N :
           /\ l.seq = i
           /\ \/ f[i] = clear /\ l.u = Update("CLEAR", k[1], 0, 0)
              \/ f[i] = k /\ l.u = Update("ADD", k[1], k[2], image[k])
    BY <2>4, <2>6
  <2>8. CASE k \in Places(image)
    <3>1. PICK a \in 1 .. N : f[a] = k
      BY <2>8, <1>2 DEF Enumerates
    <3>2. c < a
      <4>1. c # a
        BY <3>1, <2>1, <2>2
      <4>2. ~(a < c)
        <5>1. a < c => Before(f[a], f[c])
          BY <1>2 DEF Enumerates, Sorted
        <5>2. ~Before(k, clear)
          BY <2>1 DEF Before
        <5> QED
          BY <5>1, <5>2, <3>1, <2>2
      <4> QED
        BY <4>1, <4>2
    <3>3. s[a + 1].seq = a /\ s[a + 1] \in on
      <4>1. s[a + 1] = Message(a, UpdateAt(image, f[a])) /\ a + 1 \in DOMAIN s
        BY <1>2
      <4>2. UpdateAt(image, f[a]) = Update("ADD", k[1], k[2], image[k])
        BY <3>1, <2>1 DEF UpdateAt
      <4>3. s[a + 1].seq = a /\ s[a + 1].u = Update("ADD", k[1], k[2], image[k])
        BY <4>1, <4>2 DEF Message
      <4>4. Touches(s[a + 1].u, k)
        BY <4>3, <2>1 DEF Touches, Update
      <4> QED
        BY <4>1, <4>3, <4>4, <1>a
    <3>4. a <= i
      BY <3>3, <2>6, <2>7
    <3>5. f[i] # clear
      <4>1. c < i
        BY <3>2, <3>4
      <4>2. Before(f[c], f[i])
        BY <4>1, <1>2 DEF Enumerates, Sorted
      <4> QED
        BY <4>2, <2>1, <2>2 DEF Before
    <3> QED
      BY <3>5, <2>5, <2>7 DEF QtyAfter, Update, l
  <2>9. CASE k \notin Places(image)
    <3>1. f[i] # k
      BY <2>9, <1>2 DEF Enumerates
    <3>2. image[k] = 0
      BY <2>9 DEF Places
    <3> QED
      BY <3>1, <3>2, <2>5, <2>7 DEF QtyAfter, Update, l
  <2> QED
    BY <2>8, <2>9
<1>4. AfterAll(before, S) = [k \in Keys |-> image[k]]
  BY <1>3 DEF AfterAll
<1> QED
  BY <1>4 DEF Images

-----------------------------------------------------------------------------
(* Books and updates. *)

LEMMA Unchanging ==
    ASSUME NEW g, NEW a \in Nat, NEW e \in Nat, a <= e,
           \A n \in a .. e - 1 : g[n + 1] = g[n]
    PROVE  g[e] = g[a]
<1> DEFINE T == {n \in a .. e : g[n] # g[a]}
<1>1. SUFFICES ASSUME T # {} PROVE FALSE
  OBVIOUS
<1>2. PICK x \in T : \A y \in T : x <= y
  <2>1. T \in SUBSET Nat
    OBVIOUS
  <2> HIDE DEF T
  <2> QED
    BY <1>1, <2>1, Least
<1>3. x # a /\ x \in Nat /\ x - 1 \in a .. e /\ x - 1 \in a .. e - 1
  BY <1>2
<1>4. x - 1 \notin T
  <2>1. ~(x <= x - 1)
    BY <1>3
  <2> HIDE DEF T
  <2> QED
    BY <2>1, <1>2
<1>5. g[x - 1] = g[a] /\ g[(x - 1) + 1] = g[x - 1] /\ (x - 1) + 1 = x
  BY <1>3, <1>4
<1> QED
  BY <1>5, <1>2

LEMMA QtyAfterType ==
    ASSUME NEW u \in Updates
    PROVE  QtyAfter(u) \in Quantities \cup {0}
  BY DEF QtyAfter, Updates

LEMMA AfterType ==
    ASSUME NEW book \in Images, NEW u \in Updates
    PROVE  After(book, u) \in Images
  BY QtyAfterType DEF After, Images

LEMMA AfterAllType ==
    ASSUME NEW book \in Images, NEW S \in SUBSET Messages, NEW b \in Nat,
           \A m \in S : m.seq \in 0 .. b
    PROVE  AfterAll(book, S) \in Images
<1>1. ASSUME NEW k \in Keys
      PROVE  LET on == {m \in S : Touches(m.u, k)}
             IN  (IF on = {} THEN book[k] ELSE QtyAfter(Latest(on).u))
                     \in Quantities \cup {0}
  <2> DEFINE on == {m \in S : Touches(m.u, k)}
  <2>1. CASE on = {}
    BY <2>1 DEF Images
  <2>2. CASE on # {}
    <3>1. on \subseteq S /\ \A m \in on : m.seq \in 0 .. b
      OBVIOUS
    <3>2. Latest(on) \in on
      <4> HIDE DEF on
      <4> QED
        BY <3>1, <2>2, LatestIs
    <3> HIDE DEF on
    <3>3. Latest(on) \in Messages
      BY <3>1, <3>2
    <3>4. Latest(on).u \in Updates
      BY <3>3 DEF Messages
    <3>5. QtyAfter(Latest(on).u) \in Quantities \cup {0}
      BY <3>4, QtyAfterType
    <3>6. (IF on = {} THEN book[k] ELSE QtyAfter(Latest(on).u))
              \in Quantities \cup {0}
      BY <3>5, <2>2
    <3> QED
      BY <3>6 DEF on
  <2> QED
    BY <2>1, <2>2
<1> QED
  BY <1>1 DEF AfterAll, Images

\* The updates of the numbers r .. e - 1 lead from the book before r to the one
\* before e.
LEMMA UpdatesInARow ==
    ASSUME NEW B, NEW r \in Nat, NEW e \in Nat, r <= e, NEW J,
           \A m \in J : m.seq \in r .. e - 1 /\ B[m.seq + 1] = After(B[m.seq], m.u),
           \A n \in r .. e - 1 : \E m \in J : m.seq = n,
           \A m, n \in J : m.seq = n.seq => m = n,
           B[e] \in Images
    PROVE  AfterAll(B[r], J) = B[e]
<1>1. ASSUME NEW k \in Keys
      PROVE  LET on == {m \in J : Touches(m.u, k)}
             IN  (IF on = {} THEN B[r][k] ELSE QtyAfter(Latest(on).u)) = B[e][k]
  <2> DEFINE on == {m \in J : Touches(m.u, k)}
             g == [n \in r .. e |-> B[n][k]]
  <2>1. ASSUME NEW n \in r .. e - 1, \A m \in on : m.seq # n
        PROVE  g[n + 1] = g[n]
    <3>1. PICK m \in J : m.seq = n
      OBVIOUS
    <3>2. ~Touches(m.u, k) /\ B[n + 1] = After(B[n], m.u)
      BY <2>1, <3>1
    <3>3. B[n + 1][k] = B[n][k]
      BY <3>2 DEF After
    <3>4. n \in r .. e /\ n + 1 \in r .. e
      OBVIOUS
    <3> QED
      BY <3>3, <3>4
  <2>a. g[e] = B[e][k] /\ g[r] = B[r][k]
    OBVIOUS
  <2>2. CASE on = {}
    <3>1. \A n \in r .. e - 1 : g[n + 1] = g[n]
      BY <2>1, <2>2
    <3> HIDE DEF g
    <3>2. g[e] = g[r]
      BY <3>1, Unchanging
    <3> QED
      BY <3>2, <2>a, <2>2
  <2>3. CASE on # {}
    <3> DEFINE l == Latest(on)
    <3>1. l \in on /\ \A m \in on : m.seq <= l.seq
      <4>1. \A m \in on : m.seq \in 0 .. e
        OBVIOUS
      <4> HIDE DEF on
      <4> QED
        BY <4>1, <2>3, LatestIs
    <3> DEFINE a == l.seq + 1
    <3>2. l \in J /\ Touches(l.u, k) /\ l.seq \in r .. e - 1
      BY <3>1
    <3> HIDE DEF l
    <3>3. a \in Nat /\ a <= e /\ a \in r .. e
      BY <3>2
    <3>4. B[a] = After(B[l.seq], l.u)
      BY <3>2
    <3>5. B[a][k] = QtyAfter(l.u)
      BY <3>4, <3>2 DEF After
    <3>b. g[a] = B[a][k]
      BY <3>3
    <3>6. ASSUME NEW n \in a .. e - 1 PROVE g[n + 1] = g[n]
      <4>1. n \in r .. e - 1 /\ n > l.seq
        BY <3>2, <3>3
      <4>2. \A m \in on : m.seq # n
        BY <4>1, <3>1, <3>2
      <4> HIDE DEF g, on
      <4> QED
        BY <4>1, <4>2, <2>1
    <3> HIDE DEF g, a
    <3>7. g[e] = g[a]
      BY <3>3, <3>6, Unchanging
    <3>8. QtyAfter(l.u) = B[e][k]
      BY <3>5, <3>7, <3>b, <2>a
    <3> QED
      BY <3>8, <2>3 DEF l
  <2> QED
    BY <2>2, <2>3
<1>2. AfterAll(B[r], J) = [k \in Keys |-> B[e][k]]
  BY <1>1 DEF AfterAll
<1> QED
  BY <1>2 DEF Images

\* The first missing number exists, and what is below it is there.
LEMMA FirstMissingIs ==
    ASSUME NEW I, IsFiniteSet(I), NEW n \in Nat, NEW b \in Nat,
           \A m \in I : m.seq \in 0 .. b
    PROVE  LET x == FirstMissing(I, n)
           IN  /\ x \in Nat /\ n <= x
               /\ x \notin Seqs(I) /\ (n .. x - 1) \subseteq Seqs(I)
<1> DEFINE T == {x \in Nat : n <= x /\ x \notin Seqs(I)}
<1>1. n + b + 1 \in T
  BY DEF Seqs
<1>2. T \in SUBSET Nat /\ T # {}
  BY <1>1
<1> HIDE DEF T
<1>3. PICK x \in T : \A y \in T : x <= y
  BY <1>2, Least
<1>4. x \in Nat /\ n <= x /\ x \notin Seqs(I)
  BY <1>3 DEF T
<1>5. (n .. x - 1) \subseteq Seqs(I)
  <2> SUFFICES ASSUME NEW y \in n .. x - 1, y \notin Seqs(I) PROVE FALSE
    OBVIOUS
  <2>1. y \in T /\ ~(x <= y)
    BY <1>4 DEF T
  <2> QED
    BY <2>1, <1>3
<1>6. x \in n .. n + Cardinality(I)
  <2>1. IsFiniteSet(Seqs(I)) /\ Cardinality(Seqs(I)) <= Cardinality(I)
    <3> DEFINE Number(m) == m.seq
    <3>1. Seqs(I) = {Number(m) : m \in I}
      BY DEF Seqs
    <3>2. [m \in I |-> m.seq] \in Surjection(I, Seqs(I))
      BY DEF Surjection, Seqs
    <3> QED
      BY <3>2, FS_Surjection
  <2>2. Cardinality(n .. x - 1) <= Cardinality(Seqs(I))
    BY <2>1, <1>5, FS_Subset
  <2>3. Cardinality(n .. x - 1) = x - n
    <3>1. x - 1 \in Int /\ n \in Int
      BY <1>4
    <3>2. Cardinality(n .. x - 1) = IF n > x - 1 THEN 0 ELSE (x - 1) - n + 1
      BY <3>1, FS_Interval
    <3> QED
      BY <3>2, <1>4
  <2>4. Cardinality(I) \in Nat /\ Cardinality(Seqs(I)) \in Nat
    BY <2>1, FS_CardinalityType
  <2> QED
    BY <2>1, <2>2, <2>3, <2>4, <1>4
<1> DEFINE c == FirstMissing(I, n)
<1>7. /\ c \in n .. n + Cardinality(I)
      /\ c \notin Seqs(I) /\ (n .. c - 1) \subseteq Seqs(I)
  BY <1>4, <1>5, <1>6 DEF FirstMissing
<1>8. Cardinality(I) \in Nat
  BY FS_CardinalityType
<1>9. c \in Nat /\ n <= c
  <2> HIDE DEF c
  <2> QED
    BY <1>7, <1>8
<1> QED
  BY <1>7, <1>9

-----------------------------------------------------------------------------
(* What a step leaves alone. *)

\* Of the books only later ones are added: a message stays what it was.
LEMMA Stable ==
    ASSUME PublisherInv, lastInc \in 0 .. nextInc - 1,
           nextInc' \in Nat, nextInc <= nextInc',
           \A n \in 1 .. nextInc : books'[n] = books[n]
    PROVE  /\ \A m : Incremental(m) => Incremental(m)'
           /\ \A i \in 0 .. lastInc : Snapshot(i)' = Snapshot(i)
           /\ \A i \in 0 .. lastInc : \A m : InSnapshot(m, i)' <=> InSnapshot(m, i)
           /\ \A i \in 0 .. lastInc : \A d : Chunk(d, i) => Chunk(d, i)'
           /\ \A S \in SUBSET Messages : \A hi \in 0 .. lastInc :
                 Beginning(S, hi) => Beginning(S, hi)'
<1>1. nextInc \in Nat \ {0}
  BY Constants DEF PublisherInv
<1>2. ASSUME NEW m, Incremental(m) PROVE Incremental(m)'
  <2>1. /\ m \in Messages /\ m.seq \in 1 .. nextInc - 1
        /\ Follows(books[m.seq], m.u, books[m.seq + 1])
    BY <1>2 DEF Incremental
  <2>2. m.seq \in 1 .. nextInc /\ m.seq + 1 \in 1 .. nextInc /\ m.seq \in 1 .. nextInc' - 1
    BY <2>1, <1>1
  <2>3. books'[m.seq] = books[m.seq] /\ books'[m.seq + 1] = books[m.seq + 1]
    BY <2>2
  <2>4. Follows(books'[m.seq], m.u, books'[m.seq + 1])
    BY <2>1, <2>3, Zenon
  <2> QED
    BY <2>1, <2>2, <2>4 DEF Incremental
<1>3. ASSUME NEW i \in 0 .. lastInc PROVE Snapshot(i)' = Snapshot(i)
  <2>1. i + 1 \in 1 .. nextInc
    BY <1>1
  <2>2. books'[i + 1] = books[i + 1]
    BY <2>1
  <2> QED
    BY <2>2 DEF Snapshot
<1>4. ASSUME NEW i \in 0 .. lastInc, NEW m PROVE InSnapshot(m, i)' <=> InSnapshot(m, i)
  BY <1>3 DEF InSnapshot
<1>5. ASSUME NEW i \in 0 .. lastInc, NEW d, Chunk(d, i) PROVE Chunk(d, i)'
  BY <1>4, <1>5 DEF Chunk
<1>6. ASSUME NEW S \in SUBSET Messages, NEW hi \in 0 .. lastInc, Beginning(S, hi)
      PROVE  Beginning(S, hi)'
  <2>1. PICK first \in S :
           /\ first.seq = 0 /\ first.u.type = "SNAPSHOT_START"
           /\ \A m \in S : \E i \in first.u.id .. hi : InSnapshot(m, i)
    BY <1>6 DEF Beginning
  <2>2. first.u.id \in Nat
    BY <2>1 DEF Messages, Updates
  <2>3. \A m \in S : \E i \in first.u.id .. hi : InSnapshot(m, i)'
    <3> SUFFICES ASSUME NEW m \in S PROVE \E i \in first.u.id .. hi : InSnapshot(m, i)'
      OBVIOUS
    <3>1. PICK i \in first.u.id .. hi : InSnapshot(m, i)
      BY <2>1
    <3>2. i \in 0 .. lastInc
      BY <2>2, <1>1
    <3>3. InSnapshot(m, i)'
      BY <3>1, <3>2, <1>4
    <3> QED
      BY <3>3
  <2>4. /\ \A m, n \in S : m.seq = n.seq => m = n
        /\ \A m \in S : m.u.type # "SNAPSHOT_END"
    BY <1>6 DEF Beginning
  <2>5. \E f \in S :
           /\ f.seq = 0 /\ f.u.type = "SNAPSHOT_START"
           /\ \A m \in S : \E i \in f.u.id .. hi : InSnapshot(m, i)'
    BY <2>1, <2>3
  <2> QED
    BY <2>4, <2>5 DEF Beginning
<1> QED
  BY <1>2, <1>3, <1>4, <1>5, <1>6

\* The same where the books do not change at all.
LEMMA Same ==
    ASSUME UNCHANGED <<books, nextInc>>
    PROVE  /\ \A m : Incremental(m)' <=> Incremental(m)
           /\ \A i : Snapshot(i)' = Snapshot(i)
           /\ \A i, m : InSnapshot(m, i)' <=> InSnapshot(m, i)
           /\ \A i, d : Chunk(d, i)' <=> Chunk(d, i)
           /\ \A S, hi : Beginning(S, hi)' <=> Beginning(S, hi)
<1>1. ASSUME NEW m PROVE Incremental(m)' <=> Incremental(m)
  BY DEF Incremental
<1>2. ASSUME NEW i PROVE Snapshot(i)' = Snapshot(i)
  BY DEF Snapshot
<1>3. ASSUME NEW i, NEW m PROVE InSnapshot(m, i)' <=> InSnapshot(m, i)
  BY <1>2 DEF InSnapshot
<1>4. ASSUME NEW i, NEW d PROVE Chunk(d, i)' <=> Chunk(d, i)
  BY <1>3 DEF Chunk
<1>5. ASSUME NEW S, NEW hi PROVE Beginning(S, hi)' <=> Beginning(S, hi)
  BY <1>3 DEF Beginning
<1> QED
  BY <1>1, <1>2, <1>3, <1>4, <1>5

LEMMA KeptPublisher ==
    ASSUME PublisherInv, UNCHANGED <<books, nextInc, nextOrderId, net, faults, status>>
    PROVE  PublisherInv'
  BY DEF PublisherInv

LEMMA KeptSynthesizer ==
    ASSUME SynthesizerInv, UNCHANGED <<books, nextInc, lastInc, orders, snapQueue>>
    PROVE  SynthesizerInv'
  BY DEF SynthesizerInv, Incremental

LEMMA KeptSnapshot ==
    ASSUME SnapshotInv,
           UNCHANGED <<books, nextInc, toSend, lastInc, snapNet, snapMsgs, rx, rxSnapshot>>
    PROVE  SnapshotInv'
<1>1. ASSUME NEW hi, NEW cur, NEW lab, StreamInv(hi, cur, lab)
      PROVE  StreamInv(hi, cur, lab)'
  BY <1>1, Same DEF StreamInv
<1>2. Chunk(toSend, lastInc)' <=> Chunk(toSend, lastInc)
  BY Same DEF Chunk
<1>3. PICK hi \in 0 .. lastInc, cur \in 0 .. lastInc,
          lab \in [DOMAIN snapNet -> 0 .. lastInc] : StreamInv(hi, cur, lab)
  BY DEF SnapshotInv
<1>4. StreamInv(hi, cur, lab)' /\ lab \in [DOMAIN snapNet' -> 0 .. lastInc']
      /\ hi \in 0 .. lastInc' /\ cur \in 0 .. lastInc'
  BY <1>1, <1>3
<1>5. Seqs(snapMsgs)' = Seqs(snapMsgs)
  BY DEF Seqs
<1> QED
  BY <1>2, <1>4, <1>5 DEF SnapshotInv

LEMMA KeptView ==
    ASSUME ViewInv, UNCHANGED <<books, nextInc, view, nextExp, inRecovery, merged>>
    PROVE  ViewInv'
  BY DEF ViewInv

LEMMA InitData ==
    ASSUME Init
    PROVE  DataInv
<1>1. NoOrders \in Images
  BY DEF NoOrders, Images
<1>2. PublisherInv
  <2>1. MaxUpdates \in Nat /\ MaxOrderId \in Nat /\ \A x \in Networks : x.max \in Nat
    BY Constants
  <2>2. books \in Seq(Images) /\ Len(books) = nextInc /\ nextInc = 1
    BY <1>1 DEF Init
  <2>3. \A k \in Keys : books[nextInc][k] = 0
    BY <2>2 DEF Init, NoOrders
  <2> QED
    BY <2>1, <2>2, <2>3 DEF Init, PublisherInv
<1>3. SynthesizerInv
  BY DEF Init, SynthesizerInv
<1>4. IncrementalInv
  <2>1. /\ outBuf = <<>> /\ incNet = <<>> /\ rx = <<>> /\ rxSnapshot = FALSE
        /\ incMsgs = {} /\ IsFiniteSet({})
    BY FS_EmptySet DEF Init
  <2>2. outBuf \in Seq(Messages) /\ rx \in Seq(Messages) /\ incNet \in Seq(Seq(Messages))
    BY <2>1
  <2>3. DOMAIN outBuf = {} /\ DOMAIN incNet = {} /\ DOMAIN rx = {}
    BY <2>1
  <2> QED
    BY <2>1, <2>2, <2>3 DEF IncrementalInv
<1>5. SnapshotInv
  <2>1. snapMsgs = {} /\ IsFiniteSet({}) /\ Cardinality({}) = 0
    BY FS_EmptySet DEF Init
  <2>2. Seqs(snapMsgs) = 0 .. Cardinality(snapMsgs) - 1
    BY <2>1 DEF Seqs
  <2>3. lastInc = 0 /\ snapNet = <<>> /\ rxSnapshot = FALSE /\ toSend = <<>>
    BY DEF Init
  <2>4. StreamInv(0, 0, <<>>)
    BY <2>1, <2>3 DEF StreamInv
  <2>5. <<>> \in [DOMAIN snapNet -> 0 .. lastInc] /\ 0 \in 0 .. lastInc
    BY <2>3
  <2>6. \E hi \in 0 .. lastInc, cur \in 0 .. lastInc,
           lab \in [DOMAIN snapNet -> 0 .. lastInc] : StreamInv(hi, cur, lab)
    BY <2>4, <2>5
  <2> QED
    <3>1. toSend \in Seq(Messages) /\ snapNet \in Seq(Seq(Messages))
      BY <2>3
    <3>2. snapMsgs \in SUBSET Messages /\ IsFiniteSet(snapMsgs)
      BY <2>1
    <3> QED
      BY <3>1, <3>2, <2>2, <2>3, <2>6 DEF SnapshotInv
<1>6. ViewInv
  <2>1. /\ view = NoOrders /\ nextExp = 1 /\ nextInc = 1 /\ books = <<NoOrders>>
        /\ inRecovery = FALSE /\ merged = FALSE
    BY DEF Init
  <2>2. books[nextExp] = NoOrders /\ nextExp \in 1 .. nextInc
    BY <2>1
  <2> QED
    BY <1>1, <2>1, <2>2 DEF ViewInv
<1> QED
  BY <1>2, <1>3, <1>4, <1>5, <1>6 DEF DataInv

-----------------------------------------------------------------------------
(* The exchange's steps. *)

LEMMA KeyType ==
    ASSUME NEW k \in Keys
    PROVE  k = <<k[1], k[2]>> /\ k[1] \in Nat /\ k[2] \in Nat
<1>1. k = <<k[1], k[2]>> /\ k[1] \in Tickers /\ k[2] \in 1 .. MaxOrderId
  BY DEF Keys
<1>2. Tickers \subseteq Nat /\ MaxOrderId \in Nat
  BY Constants
<1> QED
  BY <1>1, <1>2

LEMMA UpdateType ==
    ASSUME NEW type \in {"ADD", "MODIFY", "CANCEL"}, NEW t \in Nat, NEW i \in Nat,
           NEW q \in Quantities \cup {0}
    PROVE  Update(type, t, i, q) \in Updates
  BY DEF Update, Updates

LEMMA BookUpdatesFollow ==
    ASSUME PublisherInv, NEW u \in BookUpdates
    PROVE  /\ u \in Updates
           /\ Follows(Book, u, After(Book, u))
           /\ u.type = "ADD" => u.ticker \in Tickers /\ u.id = nextOrderId[u.ticker]
           /\ u.type = "ADD" => nextOrderId[u.ticker] <= MaxOrderId
<1>1. /\ Tickers \subseteq Nat /\ Quantities \subseteq Nat \ {0}
      /\ MaxOrderId \in Nat /\ net.orders \in 1 .. MaxOrderId
  BY Constants DEF PublisherInv
<1>2. Book = books[nextInc] /\ Book \in Images
  <2>1. Len(books) = nextInc /\ nextInc \in 1 .. Len(books) /\ books \in Seq(Images)
    BY Constants DEF PublisherInv
  <2> QED
    BY <2>1 DEF Book
<1>3. ASSUME NEW t \in Tickers, nextOrderId[t] <= net.orders, NEW q \in Quantities,
             u = Update("ADD", t, nextOrderId[t], q)
      PROVE  /\ u \in Updates /\ u.type = "ADD" /\ u.ticker = t /\ u.id = nextOrderId[t]
             /\ <<t, nextOrderId[t]>> \in Keys /\ Book[<<t, nextOrderId[t]>>] = 0
             /\ nextOrderId[t] <= MaxOrderId
  <2>1. nextOrderId[t] \in 1 .. MaxOrderId + 1
    BY DEF PublisherInv
  <2>2. nextOrderId[t] \in 1 .. MaxOrderId /\ nextOrderId[t] \in Nat
    BY <2>1, <1>1, <1>3
  <2>3. <<t, nextOrderId[t]>> \in Keys
    BY <2>2 DEF Keys
  <2> DEFINE k == <<t, nextOrderId[t]>>
  <2>4. k \in Keys /\ k[1] = t /\ k[2] = nextOrderId[t]
    BY <2>3
  <2> HIDE DEF k
  <2>5. k[2] >= nextOrderId[k[1]]
    BY <2>2, <2>4
  <2>6. books[nextInc][k] = 0
    BY <2>4, <2>5 DEF PublisherInv
  <2>7. u \in Updates /\ u.type = "ADD" /\ u.ticker = t /\ u.id = nextOrderId[t]
    BY <1>1, <1>3, <2>2 DEF Update, Updates
  <2> QED
    BY <2>2, <2>3, <2>6, <2>7, <1>2, <1>1 DEF k
<1>4. ASSUME NEW k \in Keys, NEW q \in Quantities, u = Update("MODIFY", k[1], k[2], q),
             u.qty < Book[<<u.ticker, u.id>>]
      PROVE  /\ u \in Updates /\ u.type = "MODIFY" /\ <<u.ticker, u.id>> \in Keys
             /\ Book[<<u.ticker, u.id>>] # 0
  <2>1. k = <<k[1], k[2]>> /\ k[1] \in Nat /\ k[2] \in Nat
    BY KeyType
  <2>2. u.type = "MODIFY" /\ u.ticker = k[1] /\ u.id = k[2] /\ u.qty = q
    BY <1>4 DEF Update
  <2>3. u \in Updates
    BY <1>4, <2>1, UpdateType
  <2>4. <<u.ticker, u.id>> = k
    BY <2>1, <2>2
  <2>5. q \in Nat \ {0} /\ q < Book[k]
    BY <2>2, <2>4, <1>1, <1>4
  <2>6. Book[k] # 0
    BY <2>5
  <2> QED
    BY <2>2, <2>3, <2>4, <2>6
<1>5. ASSUME NEW k \in Keys, Book[k] # 0, u = Update("CANCEL", k[1], k[2], 0)
      PROVE  /\ u \in Updates /\ u.type = "CANCEL" /\ <<u.ticker, u.id>> \in Keys
             /\ Book[<<u.ticker, u.id>>] # 0
  <2>1. k = <<k[1], k[2]>> /\ k[1] \in Nat /\ k[2] \in Nat
    BY KeyType
  <2>2. u.type = "CANCEL" /\ u.ticker = k[1] /\ u.id = k[2]
    BY <1>5 DEF Update
  <2>3. u \in Updates
    BY <1>5, <2>1, UpdateType
  <2>4. <<u.ticker, u.id>> = k
    BY <2>1, <2>2
  <2> QED
    BY <2>2, <2>3, <2>4, <1>5
<1>6. \/ \E t \in Tickers, q \in Quantities :
            nextOrderId[t] <= net.orders /\ u = Update("ADD", t, nextOrderId[t], q)
      \/ \E k \in Keys, q \in Quantities :
            u = Update("MODIFY", k[1], k[2], q) /\ u.qty < Book[<<u.ticker, u.id>>]
      \/ \E k \in Keys : Book[k] # 0 /\ u = Update("CANCEL", k[1], k[2], 0)
  <2> HIDE DEF Update
  <2> QED
    BY DEF BookUpdates
<1>7. CASE \E t \in Tickers, q \in Quantities :
             nextOrderId[t] <= net.orders /\ u = Update("ADD", t, nextOrderId[t], q)
  <2>1. PICK t \in Tickers, q \in Quantities :
           nextOrderId[t] <= net.orders /\ u = Update("ADD", t, nextOrderId[t], q)
    BY <1>7
  <2> QED
    BY <2>1, <1>3 DEF Follows
<1>8. CASE \E k \in Keys, q \in Quantities :
             u = Update("MODIFY", k[1], k[2], q) /\ u.qty < Book[<<u.ticker, u.id>>]
  <2>1. PICK k \in Keys, q \in Quantities :
           u = Update("MODIFY", k[1], k[2], q) /\ u.qty < Book[<<u.ticker, u.id>>]
    BY <1>8
  <2> QED
    BY <2>1, <1>4 DEF Follows
<1>9. CASE \E k \in Keys : Book[k] # 0 /\ u = Update("CANCEL", k[1], k[2], 0)
  <2>1. PICK k \in Keys : Book[k] # 0 /\ u = Update("CANCEL", k[1], k[2], 0)
    BY <1>9
  <2> QED
    BY <2>1, <1>5 DEF Follows
<1> QED
  BY <1>6, <1>7, <1>8, <1>9

LEMMA PublishKeeps ==
    ASSUME DataInv, NEW u \in BookUpdates, PublishUpdate(u)
    PROVE  DataInv'
<1>1. PublisherInv /\ SynthesizerInv /\ IncrementalInv /\ SnapshotInv /\ ViewInv
  BY DEF DataInv
<1>2. /\ u \in Updates /\ Follows(Book, u, After(Book, u))
      /\ u.type = "ADD" => u.ticker \in Tickers /\ u.id = nextOrderId[u.ticker]
      /\ u.type = "ADD" => nextOrderId[u.ticker] <= MaxOrderId
  BY <1>1, BookUpdatesFollow
<1>3. /\ nextInc \in 1 .. MaxUpdates /\ nextInc' = nextInc + 1 /\ MaxUpdates \in Nat
      /\ books \in Seq(Images) /\ Len(books) = nextInc
      /\ Book = books[nextInc] /\ Book \in Images
      /\ books' = Append(books, After(Book, u))
  <2>1. /\ nextInc \in 1 .. MaxUpdates + 1 /\ MaxUpdates \in Nat
        /\ books \in Seq(Images) /\ Len(books) = nextInc
    BY <1>1, Constants DEF PublisherInv
  <2>2. /\ nextInc <= MaxUpdates /\ nextInc' = nextInc + 1
        /\ books' = Append(books, After(Book, u))
    BY DEF PublishUpdate
  <2> QED
    BY <2>1, <2>2 DEF Book
<1>4. After(Book, u) \in Images
  BY <1>2, <1>3, AfterType
<1>5. /\ books' \in Seq(Images) /\ Len(books') = nextInc'
      /\ \A n \in 1 .. nextInc : books'[n] = books[n]
      /\ books'[nextInc + 1] = After(Book, u)
  BY <1>3, <1>4
<1>6. nextInc' \in Nat /\ nextInc <= nextInc' /\ lastInc \in 0 .. nextInc - 1
  BY <1>1, <1>3 DEF SynthesizerInv
<1>7. /\ \A m : Incremental(m) => Incremental(m)'
      /\ \A i \in 0 .. lastInc : \A d : Chunk(d, i) => Chunk(d, i)'
      /\ \A S \in SUBSET Messages : \A hi \in 0 .. lastInc :
            Beginning(S, hi) => Beginning(S, hi)'
  BY <1>1, <1>5, <1>6, Stable
<1> DEFINE m == Message(nextInc, u)
<1>8. m \in Messages /\ m.seq = nextInc /\ m.u = u
  BY <1>2, <1>3 DEF Message, Messages
<1>9. PICK new \in Messages : new = m /\ new.seq = nextInc /\ new.u = u
  BY <1>8
<1> HIDE DEF m
<1>10. Incremental(new)'
  <2>1. new.seq \in 1 .. nextInc' - 1 /\ nextInc \in 1 .. nextInc
    BY <1>3, <1>9
  <2>2. books'[new.seq] = Book /\ books'[new.seq + 1] = After(Book, u)
    BY <2>1, <1>3, <1>5, <1>9
  <2>3. Follows(books'[new.seq], new.u, books'[new.seq + 1])
    BY <2>2, <1>2, <1>9, Zenon
  <2> QED
    BY <2>1, <2>3, <1>9 DEF Incremental
<1>11. PublisherInv'
  <2>1. nextInc' \in 1 .. MaxUpdates + 1
    BY <1>3
  <2>2. UNCHANGED <<net, faults, status>>
    BY DEF PublishUpdate, netVars
  <2>3. nextOrderId \in [Tickers -> 1 .. MaxOrderId + 1] /\ MaxOrderId \in Nat
    BY <1>1, Constants DEF PublisherInv
  <2>4. nextOrderId' \in [Tickers -> 1 .. MaxOrderId + 1]
    <3>1. CASE u.type = "ADD"
      <4>1. nextOrderId' = [nextOrderId EXCEPT ![u.ticker] = nextOrderId[u.ticker] + 1]
        BY <3>1 DEF PublishUpdate
      <4>2. nextOrderId[u.ticker] + 1 \in 1 .. MaxOrderId + 1
        BY <3>1, <1>2, <2>3
      <4> QED
        BY <4>1, <4>2, <2>3
    <3>2. CASE u.type # "ADD"
      <4>1. nextOrderId' = nextOrderId
        BY <3>2 DEF PublishUpdate
      <4> QED
        BY <4>1, <2>3
    <3> QED
      BY <3>1, <3>2
  <2>5. ASSUME NEW k \in Keys, k[2] >= nextOrderId'[k[1]]
        PROVE  books'[nextInc'][k] = 0
    <3>1. k[1] \in Tickers /\ k[2] \in Nat
      BY Constants DEF Keys
    <3>2. books'[nextInc'][k] = IF Touches(u, k) THEN QtyAfter(u) ELSE Book[k]
      BY <1>3, <1>5 DEF After
    <3>3. nextOrderId'[k[1]] >= nextOrderId[k[1]]
      <4>1. nextOrderId[k[1]] \in Nat
        BY <2>3, <3>1
      <4>2. CASE u.type = "ADD"
        <5>1. nextOrderId' = [nextOrderId EXCEPT ![u.ticker] = nextOrderId[u.ticker] + 1]
          BY <4>2 DEF PublishUpdate
        <5> QED
          BY <5>1, <4>1, <2>3, <3>1
      <4>3. CASE u.type # "ADD"
        BY <4>1, <4>3 DEF PublishUpdate
      <4> QED
        BY <4>2, <4>3
    <3>4. k[2] >= nextOrderId[k[1]]
      BY <3>1, <3>3, <2>3, <2>4, <2>5
    <3>5. Book[k] = 0
      BY <3>4, <1>1, <1>3 DEF PublisherInv
    <3>6. ASSUME Touches(u, k) PROVE QtyAfter(u) = 0
      <4>1. /\ u.type \in {"ADD", "MODIFY", "CANCEL"} /\ <<u.ticker, u.id>> = k
            /\ u.type = "ADD" <=> Book[k] = 0
        BY <3>6, <1>2 DEF Touches, Follows
      <4>2. u.type = "ADD" /\ u.ticker = k[1] /\ u.id = k[2]
        BY <4>1, <3>5
      <4>3. nextOrderId' = [nextOrderId EXCEPT ![u.ticker] = nextOrderId[u.ticker] + 1]
        BY <4>2 DEF PublishUpdate
      <4>4. nextOrderId'[k[1]] = k[2] + 1
        BY <4>2, <4>3, <1>2, <2>3
      <4> QED
        BY <4>4, <3>1, <2>5
    <3> QED
      BY <3>2, <3>5, <3>6
  <2> QED
    BY <1>1, <1>5, <2>1, <2>2, <2>4, <2>5 DEF PublisherInv
<1>12. SynthesizerInv'
  <2>1. /\ snapQueue \in Seq(Messages) /\ lastInc + Len(snapQueue) = nextInc - 1
        /\ \A p \in DOMAIN snapQueue :
              snapQueue[p].seq = lastInc + p /\ Incremental(snapQueue[p])
        /\ orders = books[lastInc + 1]
    BY <1>1 DEF SynthesizerInv
  <2>2. snapQueue' = Append(snapQueue, new) /\ UNCHANGED <<lastInc, orders>>
    BY <1>9 DEF PublishUpdate, synthVars, m
  <2>3. /\ snapQueue' \in Seq(Messages) /\ Len(snapQueue') = Len(snapQueue) + 1
        /\ Len(snapQueue) \in Nat
        /\ \A p \in DOMAIN snapQueue : snapQueue'[p] = snapQueue[p]
        /\ snapQueue'[Len(snapQueue) + 1] = new
        /\ DOMAIN snapQueue' = DOMAIN snapQueue \cup {Len(snapQueue) + 1}
    BY <2>1, <2>2, <1>9
  <2>4. lastInc' \in 0 .. nextInc' - 1 /\ orders' = books'[lastInc' + 1]
    <3>1. lastInc + 1 \in 1 .. nextInc
      BY <1>6, <1>3
    <3> QED
      BY <3>1, <2>1, <2>2, <1>3, <1>5, <1>6
  <2>5. lastInc' + Len(snapQueue') = nextInc' - 1 /\ nextInc = lastInc + (Len(snapQueue) + 1)
    BY <2>1, <2>2, <2>3, <1>3, <1>6
  <2>6. ASSUME NEW p \in DOMAIN snapQueue'
        PROVE  snapQueue'[p].seq = lastInc + p /\ Incremental(snapQueue[p])'
    <3>1. CASE p \in DOMAIN snapQueue
      BY <3>1, <2>1, <2>3, <1>7
    <3>2. CASE p = Len(snapQueue) + 1
      BY <3>2, <2>3, <2>5, <1>9, <1>10
    <3> QED
      BY <3>1, <3>2, <2>3
  <2> QED
    BY <2>2, <2>3, <2>4, <2>5, <2>6 DEF SynthesizerInv
<1>13. IncrementalInv'
  <2>1. outBuf' = Append(outBuf, new) /\ UNCHANGED <<incNet, rx, rxSnapshot, incMsgs>>
    BY <1>9 DEF PublishUpdate, clientVars, m
  <2>2. outBuf \in Seq(Messages) /\ \A p \in DOMAIN outBuf : Incremental(outBuf[p])
    BY <1>1 DEF IncrementalInv
  <2>3. /\ outBuf' \in Seq(Messages)
        /\ \A p \in DOMAIN outBuf : outBuf'[p] = outBuf[p]
        /\ outBuf'[Len(outBuf) + 1] = new
        /\ DOMAIN outBuf' = DOMAIN outBuf \cup {Len(outBuf) + 1}
    BY <2>1, <2>2, <1>9
  <2>4. \A p \in DOMAIN outBuf' : Incremental(outBuf[p])'
    BY <2>2, <2>3, <1>7, <1>10
  <2>5. \A j \in DOMAIN incNet' : \A p \in DOMAIN incNet'[j] : Incremental(incNet[j][p])'
    BY <2>1, <1>1, <1>7 DEF IncrementalInv
  <2>6. ~rxSnapshot' => \A p \in DOMAIN rx' : Incremental(rx[p])'
    BY <2>1, <1>1, <1>7 DEF IncrementalInv
  <2>7. \A x \in incMsgs' : Incremental(x)'
    BY <2>1, <1>1, <1>7 DEF IncrementalInv
  <2> QED
    BY <2>1, <2>3, <2>4, <2>5, <2>6, <2>7, <1>1 DEF IncrementalInv
<1>14. SnapshotInv'
  <2>1. UNCHANGED <<toSend, lastInc, snapNet, snapMsgs, rx, rxSnapshot>>
    BY DEF PublishUpdate, synthVars, clientVars
  <2>2. PICK hi \in 0 .. lastInc, cur \in 0 .. lastInc,
           lab \in [DOMAIN snapNet -> 0 .. lastInc] : StreamInv(hi, cur, lab)
    BY <1>1 DEF SnapshotInv
  <2>3. snapMsgs \in SUBSET Messages /\ Seqs(snapMsgs)' = Seqs(snapMsgs)
    BY <1>1, <2>1 DEF SnapshotInv, Seqs
  <2>4. StreamInv(hi, cur, lab)'
    <3>1. \A j \in DOMAIN snapNet : Chunk(snapNet[j], lab[j]) => Chunk(snapNet[j], lab[j])'
      <4> SUFFICES ASSUME NEW j \in DOMAIN snapNet, Chunk(snapNet[j], lab[j])
                   PROVE  Chunk(snapNet[j], lab[j])'
        OBVIOUS
      <4>1. PICK d : d = snapNet[j]
        OBVIOUS
      <4>2. Chunk(d, lab[j])' /\ d = snapNet'[j]
        BY <4>1, <1>7, <2>1
      <4> QED
        BY <4>2 DEF Chunk
    <3>2. Chunk(rx, cur) => Chunk(rx, cur)'
      <4>1. PICK d : d = rx
        OBVIOUS
      <4>2. Chunk(d, cur) => Chunk(d, cur)' /\ d = rx'
        BY <4>1, <1>7, <2>1
      <4> QED
        BY <4>1, <4>2 DEF Chunk
    <3>3. Beginning(snapMsgs, hi) => Beginning(snapMsgs, hi)'
      <4>1. PICK S \in SUBSET Messages : S = snapMsgs
        BY <2>3
      <4>2. Beginning(S, hi) => Beginning(S, hi)' /\ S = snapMsgs'
        BY <4>1, <1>7, <2>1
      <4> QED
        BY <4>1, <4>2 DEF Beginning
    <3> HIDE DEF Chunk, Beginning
    <3> QED
      BY <2>1, <2>2, <3>1, <3>2, <3>3 DEF StreamInv
  <2>5. toSend # <<>> => (Chunk(toSend, lastInc) => Chunk(toSend, lastInc)')
    <3>1. PICK d, i : d = toSend /\ i = lastInc
      OBVIOUS
    <3>2. i \in 0 .. lastInc
      BY <3>1, <1>6, <1>3
    <3>3. Chunk(d, i) => Chunk(d, i)' /\ d = toSend' /\ i = lastInc'
      BY <3>1, <3>2, <1>7, <2>1
    <3> QED
      BY <3>1, <3>3 DEF Chunk
  <2> QED
    BY <1>1, <2>1, <2>2, <2>3, <2>4, <2>5 DEF SnapshotInv
<1>15. ViewInv'
  <2>1. UNCHANGED <<view, nextExp, inRecovery, merged>>
    BY DEF PublishUpdate, clientVars
  <2>2. nextExp \in 1 .. nextInc
    BY <1>1 DEF ViewInv
  <2>3. books'[nextExp] = books[nextExp] /\ nextExp \in 1 .. nextInc'
    BY <2>2, <1>3, <1>5
  <2> QED
    BY <1>1, <2>1, <2>3 DEF ViewInv
<1> QED
  BY <1>11, <1>12, <1>13, <1>14, <1>15 DEF DataInv

-----------------------------------------------------------------------------
(* What becomes of datagrams. *)

Arrives(stream, d, stream2) ==
    \/ stream2 = Append(stream, d)
    \/ stream2 = stream
    \/ stream2 = stream \o <<d, d>>
    \/ /\ stream # <<>> /\ Last(stream)[1].seq < d[1].seq
       /\ stream2 = Front(stream) \o <<d, Last(stream)>>

\* g says which datagrams make up stream2: those of stream in their order and
\* any number of times d, which nothing but a datagram with a lower number
\* follows.
Origin(stream, d, stream2, g) ==
    /\ g \in [DOMAIN stream2 -> 0 .. Len(stream)]
    /\ \A j \in DOMAIN stream2 : stream2[j] = IF g[j] = 0 THEN d ELSE stream[g[j]]
    /\ \A i, j \in DOMAIN stream2 : i < j =>
          \/ g[j] = 0
          \/ g[i] # 0 /\ g[i] < g[j]
          \/ g[i] = 0 /\ stream[g[j]][1].seq < d[1].seq

LEMMA Joined ==
    ASSUME NEW D, NEW a \in Seq(D), NEW b \in Seq(D)
    PROVE  \A j \in 1 .. Len(a) + Len(b) :
              (a \o b)[j] = IF j <= Len(a) THEN a[j] ELSE b[j - Len(a)]
  OBVIOUS

LEMMA TransitOrder ==
    ASSUME NEW D, NEW stream \in Seq(D), NEW d \in D, NEW stream2,
           Arrives(stream, d, stream2)
    PROVE  stream2 \in Seq(D) /\ \E g : Origin(stream, d, stream2, g)
<1> DEFINE n == Len(stream)
<1>1. n \in Nat /\ DOMAIN stream = 1 .. n
  OBVIOUS
<1>2. CASE stream2 = Append(stream, d)
  <2> DEFINE g == [j \in 1 .. n + 1 |-> IF j = n + 1 THEN 0 ELSE j]
  <2>1. stream2 \in Seq(D) /\ DOMAIN stream2 = 1 .. n + 1
    BY <1>2
  <2>2. \A j \in 1 .. n + 1 : stream2[j] = IF g[j] = 0 THEN d ELSE stream[g[j]]
    BY <1>2
  <2>4. g \in [1 .. n + 1 -> 0 .. n]
    BY <1>1
  <2>5. \A i, j \in 1 .. n + 1 : i < j => g[j] = 0 \/ (g[i] # 0 /\ g[i] < g[j])
    BY <1>1
  <2> HIDE DEF g
  <2>3. Origin(stream, d, stream2, g)
    BY <2>1, <2>2, <2>4, <2>5 DEF Origin
  <2> QED
    BY <2>1, <2>3
<1>3. CASE stream2 = stream
  <2> DEFINE g == [j \in 1 .. n |-> j]
  <2>1. Origin(stream, d, stream2, g)
    BY <1>1, <1>3 DEF Origin
  <2> QED
    BY <2>1, <1>3
<1>4. CASE stream2 = stream \o <<d, d>>
  <2> DEFINE g == [j \in 1 .. n + 2 |-> IF j > n THEN 0 ELSE j]
  <2>1. stream2 \in Seq(D) /\ DOMAIN stream2 = 1 .. n + 2
    BY <1>4
  <2>2. \A j \in 1 .. n + 2 : stream2[j] = IF g[j] = 0 THEN d ELSE stream[g[j]]
    BY <1>4
  <2>4. g \in [1 .. n + 2 -> 0 .. n]
    BY <1>1
  <2>5. \A i, j \in 1 .. n + 2 : i < j => g[j] = 0 \/ (g[i] # 0 /\ g[i] < g[j])
    BY <1>1
  <2> HIDE DEF g
  <2>3. Origin(stream, d, stream2, g)
    BY <2>1, <2>2, <2>4, <2>5 DEF Origin
  <2> QED
    BY <2>1, <2>3
<1>5. CASE /\ stream # <<>> /\ Last(stream)[1].seq < d[1].seq
           /\ stream2 = Front(stream) \o <<d, Last(stream)>>
  <2> DEFINE g == [j \in 1 .. n + 1 |-> IF j = n THEN 0 ELSE IF j = n + 1 THEN n ELSE j]
             front == Front(stream)
  <2>1. n > 0 /\ Last(stream) = stream[n] /\ stream[n] \in D
    BY <1>5 DEF Last
  <2>2. front = SubSeq(stream, 1, n - 1)
    BY DEF Front
  <2>3. /\ front \in Seq(D) /\ Len(front) = n - 1
        /\ \A j \in 1 .. n - 1 : front[j] = stream[j]
    <3>1. 1 \in 1 .. n + 1 /\ n - 1 \in 0 .. n
      BY <2>1, <1>1
    <3>2. Len(front) = n - 1
      BY <2>2, <3>1, <1>1
    <3>3. front \in Seq(D)
      BY <2>2, <3>1
    <3>4. \A j \in 1 .. n - 1 : front[j] = stream[j]
      BY <2>2, <3>1
    <3> QED
      BY <3>2, <3>3, <3>4
  <2> HIDE DEF front
  <2>4. stream2 = front \o <<d, stream[n]>>
    BY <1>5, <2>1 DEF front
  <2>5. stream2 \in Seq(D) /\ DOMAIN stream2 = 1 .. n + 1
    BY <2>1, <2>3, <2>4
  <2>6. /\ \A j \in 1 .. n - 1 : stream2[j] = stream[j]
        /\ stream2[n] = d /\ stream2[n + 1] = stream[n]
    <3> DEFINE two == <<d, stream[n]>>
    <3>1. two \in Seq(D) /\ Len(two) = 2 /\ two[1] = d /\ two[2] = stream[n]
      BY <2>1
    <3> HIDE DEF two
    <3>2. stream2 = front \o two
      BY <2>4 DEF two
    <3>3. n \in Nat /\ n - 1 + 1 = n /\ n - 1 + 2 = n + 1
      BY <1>1
    <3>4. \A j \in 1 .. n - 1 : stream2[j] = front[j]
      BY <3>1, <3>2, <2>1, <2>3
    <3>a. \A j \in 1 .. Len(front) + Len(two) :
             stream2[j] = IF j <= Len(front) THEN front[j] ELSE two[j - Len(front)]
      BY <3>1, <3>2, <2>3, Joined
    <3> HIDE DEF n
    <3>5. stream2[n] = two[1]
      <4>1. n \in 1 .. Len(front) + Len(two) /\ ~(n <= Len(front)) /\ n - Len(front) = 1
        BY <3>1, <3>3, <2>1, <2>3
      <4> QED
        BY <4>1, <3>a
    <3>6. stream2[n + 1] = two[2]
      <4>1. /\ n + 1 \in 1 .. Len(front) + Len(two) /\ ~(n + 1 <= Len(front))
            /\ (n + 1) - Len(front) = 2
        BY <3>1, <3>3, <2>1, <2>3
      <4> QED
        BY <4>1, <3>a
    <3> QED
      BY <3>1, <3>4, <3>5, <3>6, <2>3
  <2>7. \A j \in 1 .. n + 1 : stream2[j] = IF g[j] = 0 THEN d ELSE stream[g[j]]
    BY <2>1, <2>6
  <2>8. stream[n][1].seq < d[1].seq
    BY <1>5, <2>1
  <2>a. g \in [1 .. n + 1 -> 0 .. n]
    BY <2>1
  <2>b. \A i, j \in 1 .. n + 1 : i < j =>
           \/ g[j] = 0
           \/ g[i] # 0 /\ g[i] < g[j]
           \/ g[i] = 0 /\ g[j] = n
    BY <2>1
  <2> HIDE DEF g
  <2>9. Origin(stream, d, stream2, g)
    BY <2>5, <2>7, <2>8, <2>a, <2>b DEF Origin
  <2> QED
    BY <2>5, <2>9
<1> QED
  BY <1>2, <1>3, <1>4, <1>5 DEF Arrives

LEMMA TransitPublisher ==
    ASSUME PublisherInv, UNCHANGED <<books, nextInc, nextOrderId, net, status>>,
           faults' = faults \/ (faults < net.max /\ faults' = faults + 1)
    PROVE  PublisherInv'
<1>1. net.max \in Nat /\ faults \in 0 .. net.max
  BY Constants DEF PublisherInv
<1>2. faults' \in 0 .. net'.max
  BY <1>1
<1> QED
  BY <1>2 DEF PublisherInv

LEMMA SendIncrementalKeeps ==
    ASSUME DataInv, SendIncremental
    PROVE  DataInv'
<1>1. PublisherInv /\ SynthesizerInv /\ IncrementalInv /\ SnapshotInv /\ ViewInv
  BY DEF DataInv
<1>2. /\ UNCHANGED <<books, nextOrderId, nextInc, snapQueue, orders, lastInc, toSend>>
      /\ UNCHANGED <<status, snapNet, rx, rxSnapshot, nextExp, inRecovery>>
      /\ UNCHANGED <<snapMsgs, incMsgs, view, merged>>
  BY DEF SendIncremental, bookVars, synthVars, clientVars
<1>3. PICK stream, d, stream2 : stream = incNet /\ d = outBuf /\ stream2 = incNet'
  OBVIOUS
<1>4. /\ UNCHANGED net /\ (faults' = faults \/ (faults < net.max /\ faults' = faults + 1))
      /\ Arrives(stream, d, stream2) /\ outBuf' = <<>>
  BY <1>3 DEF SendIncremental, Transit, Arrives
<1>5. PublisherInv' /\ SynthesizerInv' /\ SnapshotInv' /\ ViewInv'
  <2>1. PublisherInv'
    BY <1>1, <1>2, <1>4, TransitPublisher
  <2> QED
    BY <2>1, <1>1, <1>2, KeptSynthesizer, KeptSnapshot, KeptView
<1>6. IncrementalInv'
  <2>1. /\ stream \in Seq(Seq(Messages)) /\ d \in Seq(Messages)
        /\ \A j \in DOMAIN stream : \A p \in DOMAIN stream[j] : Incremental(stream[j][p])
        /\ \A p \in DOMAIN d : Incremental(d[p])
    BY <1>1, <1>3 DEF IncrementalInv
  <2>2. stream2 \in Seq(Seq(Messages)) /\ \E g : Origin(stream, d, stream2, g)
    BY <1>4, <2>1, TransitOrder
  <2>3. PICK g : Origin(stream, d, stream2, g)
    BY <2>2
  <2>4. ASSUME NEW j \in DOMAIN stream2, NEW p \in DOMAIN stream2[j]
        PROVE  Incremental(stream2[j][p])
    <3>1. /\ g[j] \in 0 .. Len(stream)
          /\ stream2[j] = IF g[j] = 0 THEN d ELSE stream[g[j]]
      BY <2>3 DEF Origin
    <3>2. CASE g[j] = 0
      BY <3>1, <3>2, <2>1
    <3>3. CASE g[j] # 0
      <4>1. g[j] \in DOMAIN stream
        BY <3>1, <3>3, <2>1
      <4> QED
        BY <4>1, <3>1, <3>3, <2>1
    <3> QED
      BY <3>2, <3>3
  <2>5. \A j \in DOMAIN incNet' : \A p \in DOMAIN incNet'[j] : Incremental(incNet[j][p])'
    BY <2>4, <1>2, <1>3, Same
  <2>6. outBuf' \in Seq(Messages) /\ DOMAIN outBuf' = {}
    BY <1>4
  <2>7. ~rxSnapshot' => \A p \in DOMAIN rx' : Incremental(rx[p])'
    BY <1>1, <1>2, Same DEF IncrementalInv
  <2>8. \A x \in incMsgs' : Incremental(x)'
    BY <1>1, <1>2, Same DEF IncrementalInv
  <2> QED
    BY <2>2, <2>5, <2>6, <2>7, <2>8, <1>1, <1>2, <1>3 DEF IncrementalInv
<1> QED
  BY <1>5, <1>6 DEF DataInv

LEMMA KeptIncremental ==
    ASSUME IncrementalInv,
           UNCHANGED <<books, nextInc, outBuf, incNet, rx, rxSnapshot, incMsgs>>
    PROVE  IncrementalInv'
<1>1. \A p \in DOMAIN outBuf' : Incremental(outBuf[p])'
  BY Same DEF IncrementalInv
<1>2. \A j \in DOMAIN incNet' : \A p \in DOMAIN incNet'[j] : Incremental(incNet[j][p])'
  BY Same DEF IncrementalInv
<1>3. ~rxSnapshot' => \A p \in DOMAIN rx' : Incremental(rx[p])'
  BY Same DEF IncrementalInv
<1>4. \A x \in incMsgs' : Incremental(x)'
  BY Same DEF IncrementalInv
<1> QED
  BY <1>1, <1>2, <1>3, <1>4 DEF IncrementalInv

-----------------------------------------------------------------------------
(* The synthesizer's steps. *)

\* StreamInv speaks of the stream and of what the client has of it only.
LEMMA SameStream ==
    ASSUME UNCHANGED <<books, nextInc, snapNet, snapMsgs, rx, rxSnapshot>>,
           NEW hi, NEW cur, NEW lab, StreamInv(hi, cur, lab)
    PROVE  StreamInv(hi, cur, lab)'
  BY Same DEF StreamInv

LEMMA AddToSnapshotKeeps ==
    ASSUME DataInv, AddToSnapshot
    PROVE  DataInv'
<1>1. PublisherInv /\ SynthesizerInv /\ IncrementalInv /\ SnapshotInv /\ ViewInv
  BY DEF DataInv
<1>2. /\ UNCHANGED <<books, nextOrderId, nextInc, outBuf, toSend, incNet, snapNet>>
      /\ UNCHANGED <<net, faults, rx, rxSnapshot, nextExp, inRecovery>>
      /\ UNCHANGED <<snapMsgs, incMsgs, view, merged>>
      /\ toSend = <<>> /\ snapQueue # <<>> /\ snapQueue' = Tail(snapQueue)
  BY DEF AddToSnapshot, bookVars, publisherVars, netVars, clientVars
<1>3. /\ snapQueue \in Seq(Messages) /\ lastInc \in 0 .. nextInc - 1
      /\ lastInc + Len(snapQueue) = nextInc - 1 /\ orders = books[lastInc + 1]
      /\ \A p \in DOMAIN snapQueue :
            snapQueue[p].seq = lastInc + p /\ Incremental(snapQueue[p])
      /\ nextInc \in Nat
  BY <1>1, Constants DEF SynthesizerInv, PublisherInv
<1>4. PICK m : m = Head(snapQueue)
  OBVIOUS
<1>5. m = snapQueue[1] /\ 1 \in DOMAIN snapQueue /\ Len(snapQueue) \in Nat
  BY <1>2, <1>3, <1>4
<1>6. m.seq = lastInc + 1 /\ Incremental(m)
  BY <1>3, <1>5
<1>7. /\ m.u.type \in {"ADD", "MODIFY", "CANCEL"}
      /\ m.u.type = "ADD" <=> orders[<<m.u.ticker, m.u.id>>] = 0
      /\ books[m.seq + 1] = After(orders, m.u)
  BY <1>3, <1>6 DEF Incremental, Follows
<1>8. Accepts(m)
  BY <1>6, <1>7 DEF Accepts
<1>9. orders' = After(orders, m.u) /\ lastInc' = m.seq /\ UNCHANGED status
  BY <1>4, <1>8 DEF AddToSnapshot
<1>10. PublisherInv' /\ IncrementalInv' /\ ViewInv'
  BY <1>1, <1>2, <1>9, KeptPublisher, KeptIncremental, KeptView
<1>11. SynthesizerInv'
  <2>1. /\ snapQueue' \in Seq(Messages) /\ Len(snapQueue') = Len(snapQueue) - 1
        /\ \A p \in DOMAIN snapQueue' :
              snapQueue'[p] = snapQueue[p + 1] /\ p + 1 \in DOMAIN snapQueue /\ p \in Nat
    BY <1>2, <1>3
  <2>2. lastInc' \in 0 .. nextInc' - 1 /\ lastInc' + Len(snapQueue') = nextInc' - 1
    BY <2>1, <1>2, <1>3, <1>5, <1>6, <1>9
  <2>3. orders' = books'[lastInc' + 1]
    BY <1>2, <1>7, <1>9
  <2>4. ASSUME NEW p \in DOMAIN snapQueue'
        PROVE  snapQueue'[p].seq = lastInc' + p /\ Incremental(snapQueue[p])'
    <3>1. snapQueue[p + 1].seq = lastInc + (p + 1) /\ Incremental(snapQueue[p + 1])
      BY <2>1, <1>3
    <3>2. lastInc + (p + 1) = lastInc' + p
      BY <2>1, <1>3, <1>6, <1>9
    <3>3. PICK x : x = snapQueue[p + 1]
      OBVIOUS
    <3>4. Incremental(x)' /\ snapQueue'[p] = x
      BY <3>1, <3>3, <2>1, <1>2, Same
    <3>5. Incremental(snapQueue[p])'
      BY <3>4
    <3> QED
      BY <3>1, <3>2, <3>5, <2>1
  <2> QED
    BY <2>1, <2>2, <2>3, <2>4 DEF SynthesizerInv
<1>12. SnapshotInv'
  <2>1. PICK hi \in 0 .. lastInc, cur \in 0 .. lastInc,
           lab \in [DOMAIN snapNet -> 0 .. lastInc] : StreamInv(hi, cur, lab)
    BY <1>1 DEF SnapshotInv
  <2>2. 0 .. lastInc \subseteq 0 .. lastInc'
    BY <1>3, <1>6, <1>9
  <2>3. /\ StreamInv(hi, cur, lab)' /\ hi \in 0 .. lastInc' /\ cur \in 0 .. lastInc'
        /\ lab \in [DOMAIN snapNet' -> 0 .. lastInc']
    BY <2>1, <2>2, <1>2, SameStream
  <2>4. Seqs(snapMsgs)' = Seqs(snapMsgs)
    BY <1>2 DEF Seqs
  <2> QED
    BY <2>3, <2>4, <1>1, <1>2 DEF SnapshotInv
<1> QED
  BY <1>10, <1>11, <1>12 DEF DataInv

\* The snapshots up to lastInc are of books that exist.
LEMMA SnapshotOf ==
    ASSUME PublisherInv, lastInc \in 0 .. nextInc - 1, NEW i \in 0 .. lastInc
    PROVE  /\ books[i + 1] \in Images /\ i \in Nat
           /\ Snapshot(i) \in Seq(Messages) /\ Snapshot(i) # <<>>
           /\ \A p \in DOMAIN Snapshot(i) :
                 /\ Snapshot(i)[p].seq = p - 1
                 /\ Snapshot(i)[p].u.type = "SNAPSHOT_START" =>
                       p = 1 /\ Snapshot(i)[p].u.id = i
                 /\ Snapshot(i)[p].u.type = "SNAPSHOT_END" =>
                       p = Len(Snapshot(i)) /\ p > 1 /\ Snapshot(i)[p].u.id = i
           /\ Snapshot(i)[Len(Snapshot(i))].u.type = "SNAPSHOT_END"
<1>1. books \in Seq(Images) /\ Len(books) = nextInc /\ nextInc \in Nat
  BY Constants DEF PublisherInv
<1>2. books[i + 1] \in Images /\ i \in Nat
  BY <1>1
<1> QED
  BY <1>2, SnapshotNumbers DEF Snapshot

LEMMA BeginSnapshotKeeps ==
    ASSUME DataInv, BeginSnapshot
    PROVE  DataInv'
<1>1. PublisherInv /\ SynthesizerInv /\ IncrementalInv /\ SnapshotInv /\ ViewInv
  BY DEF DataInv
<1>2. /\ UNCHANGED <<books, nextOrderId, nextInc, outBuf, incNet, snapNet>>
      /\ UNCHANGED <<net, faults, rx, rxSnapshot, nextExp, inRecovery, status>>
      /\ UNCHANGED <<snapMsgs, incMsgs, view, merged, snapQueue, orders, lastInc>>
      /\ toSend' = SnapshotMessages(orders, lastInc)
  BY DEF BeginSnapshot, bookVars, publisherVars, netVars, clientVars
<1>3. PublisherInv' /\ SynthesizerInv' /\ IncrementalInv' /\ ViewInv'
  BY <1>1, <1>2, KeptPublisher, KeptSynthesizer, KeptIncremental, KeptView
<1>4. lastInc \in 0 .. nextInc - 1 /\ orders = books[lastInc + 1]
  BY <1>1 DEF SynthesizerInv
<1>5. nextInc \in Nat
  BY <1>1, Constants DEF PublisherInv
<1>6. PICK s, i : s = toSend' /\ i = lastInc
  OBVIOUS
<1>7. s = Snapshot(i) /\ i \in 0 .. lastInc
  BY <1>2, <1>4, <1>5, <1>6 DEF Snapshot
<1>8. /\ s \in Seq(Messages) /\ s # <<>> /\ s[Len(s)].u.type = "SNAPSHOT_END"
      /\ \A p \in DOMAIN s : s[p].seq = p - 1
  BY <1>1, <1>4, <1>7, SnapshotOf
<1>9. Chunk(s, i)
  <2>1. DOMAIN s = 1 .. Len(s) /\ Len(s) \in Nat /\ 1 \in DOMAIN s /\ s[1].seq = 0
    BY <1>8
  <2>2. ASSUME NEW p \in DOMAIN s
        PROVE  s[p].seq = s[1].seq + p - 1 /\ InSnapshot(s[p], i)
    <3>1. s[p].seq = p - 1 /\ p \in Nat
      BY <1>8, <2>1
    <3>2. s[p].seq + 1 = p /\ s[p].seq = s[1].seq + p - 1
      BY <3>1, <2>1
    <3> QED
      BY <3>2, <1>7 DEF InSnapshot
  <2> QED
    BY <2>2 DEF Chunk
<1>10. Chunk(toSend, lastInc)'
  <2>1. Chunk(s, i)'
    BY <1>2, <1>9, Same
  <2> QED
    BY <2>1, <1>2, <1>6
<1>11. SnapshotInv'
  <2>1. PICK hi \in 0 .. lastInc, cur \in 0 .. lastInc,
           lab \in [DOMAIN snapNet -> 0 .. lastInc] : StreamInv(hi, cur, lab)
    BY <1>1 DEF SnapshotInv
  <2>2. StreamInv(hi, cur, lab)'
    BY <2>1, <1>2, SameStream
  <2>3. Seqs(snapMsgs)' = Seqs(snapMsgs)
    BY <1>2 DEF Seqs
  <2> QED
    BY <2>1, <2>2, <2>3, <1>1, <1>2, <1>6, <1>8, <1>10 DEF SnapshotInv
<1> QED
  BY <1>3, <1>11 DEF DataInv

\* A part of consecutive messages of a snapshot is one as well.
LEMMA SubChunk ==
    ASSUME NEW s \in Seq(Messages), NEW i, Chunk(s, i),
           NEW a \in Nat, NEW b \in Nat, 1 <= a, a <= b, b <= Len(s),
           NEW d, d = SubSeq(s, a, b)
    PROVE  d \in Seq(Messages) /\ d # <<>> /\ Chunk(d, i)
<1>1. d \in Seq(Messages) /\ Len(d) = b - a + 1
  OBVIOUS
<1>2. \A p \in 1 .. b - a + 1 : d[p] = s[a + p - 1]
  OBVIOUS
<1>3. d # <<>> /\ DOMAIN d = 1 .. b - a + 1
  BY <1>1
<1>4. d[1] = s[a]
  <2>1. 1 \in 1 .. b - a + 1 /\ a + 1 - 1 = a
    OBVIOUS
  <2> QED
    BY <2>1, <1>2
<1>6. ASSUME NEW p \in DOMAIN d
      PROVE  d[p].seq = d[1].seq + p - 1 /\ InSnapshot(d[p], i)
  <2>1. p \in 1 .. b - a + 1 /\ a + p - 1 \in DOMAIN s /\ a \in DOMAIN s /\ 1 \in DOMAIN s
    BY <1>3
  <2>2. d[p] = s[a + p - 1]
    BY <2>1, <1>2
  <2>3. /\ s[a + p - 1].seq = s[1].seq + (a + p - 1) - 1 /\ InSnapshot(s[a + p - 1], i)
        /\ s[a].seq = s[1].seq + a - 1
    BY <2>1 DEF Chunk
  <2>4. s[1].seq \in Nat /\ p \in Nat
    <3>1. s[1] \in Messages
      BY <2>1
    <3>2. s[1].seq \in Nat
      BY <3>1 DEF Messages
    <3> QED
      BY <3>2, <2>1
  <2>x. PICK x \in Nat : x = s[1].seq
    BY <2>4
  <2>a. PICK y, z : y = s[a].seq /\ z = s[a + p - 1].seq
    OBVIOUS
  <2>b. z = x + (a + p - 1) - 1 /\ y = x + a - 1
    BY <2>3, <2>x, <2>a, Zenon
  <2>c. z = y + p - 1
    BY <2>4, <2>b
  <2>5. s[a + p - 1].seq = s[a].seq + p - 1
    BY <2>a, <2>c, Zenon
  <2> QED
    BY <2>2, <2>3, <2>5, <1>4
<1>7. Chunk(d, i)
  BY <1>6 DEF Chunk
<1> QED
  BY <1>1, <1>3, <1>7

\* A datagram of the newest snapshot joins the stream.
LEMMA StreamGrows ==
    ASSUME lastInc \in Nat, NEW hi \in 0 .. lastInc, NEW cur \in 0 .. lastInc,
           NEW lab \in [DOMAIN snapNet -> 0 .. lastInc], StreamInv(hi, cur, lab),
           snapNet \in Seq(Seq(Messages)), NEW d \in Seq(Messages), d # <<>>,
           Chunk(d, lastInc), NEW g, Origin(snapNet, d, snapNet', g),
           UNCHANGED <<books, nextInc, lastInc, snapMsgs, rx, rxSnapshot>>
    PROVE  \E lab2 \in [DOMAIN snapNet' -> 0 .. lastInc'] : StreamInv(hi, cur, lab2)'
<1>1. PICK stream, stream2, last : stream = snapNet /\ stream2 = snapNet' /\ last = lastInc
  OBVIOUS
<1>2. /\ g \in [DOMAIN stream2 -> 0 .. Len(stream)]
      /\ \A j \in DOMAIN stream2 : stream2[j] = IF g[j] = 0 THEN d ELSE stream[g[j]]
      /\ \A i, j \in DOMAIN stream2 : i < j =>
            \/ g[j] = 0
            \/ g[i] # 0 /\ g[i] < g[j]
            \/ g[i] = 0 /\ stream[g[j]][1].seq < d[1].seq
  BY <1>1 DEF Origin
<1>3. PICK lab2 : lab2 = [j \in DOMAIN stream2 |-> IF g[j] = 0 THEN last ELSE lab[g[j]]]
  OBVIOUS
<1>4. ASSUME NEW j \in DOMAIN stream2
      PROVE  /\ lab2[j] \in 0 .. last /\ g[j] \in Nat
             /\ g[j] = 0 => stream2[j] = d /\ lab2[j] = last
             /\ g[j] # 0 => /\ stream2[j] = stream[g[j]] /\ lab2[j] = lab[g[j]]
                            /\ g[j] \in DOMAIN stream
  <2>1. g[j] \in 0 .. Len(stream) /\ Len(stream) \in Nat /\ DOMAIN stream = 1 .. Len(stream)
    BY <1>1, <1>2
  <2>2. g[j] # 0 => g[j] \in DOMAIN stream
    BY <2>1
  <2>3. g[j] # 0 => lab[g[j]] \in 0 .. last
    BY <2>2, <1>1
  <2>4. last \in 0 .. last
    BY <1>1
  <2> QED
    BY <2>1, <2>2, <2>3, <2>4, <1>2, <1>3
<1>5. lab2 \in [DOMAIN stream2 -> 0 .. last]
  BY <1>3, <1>4
<1>6. /\ \A j \in DOMAIN stream : stream[j] # <<>> /\ Chunk(stream[j], lab[j])
      /\ \A i, j \in DOMAIN stream :
            i < j => lab[i] <= lab[j] \/ stream[j][1].seq < stream[i][1].seq
  BY <1>1 DEF StreamInv
<1>7. ASSUME NEW j \in DOMAIN stream2 PROVE stream2[j] # <<>> /\ Chunk(stream2[j], lab2[j])
  BY <1>1, <1>4, <1>6
<1>8. ASSUME NEW i \in DOMAIN stream2, NEW j \in DOMAIN stream2, i < j
      PROVE  lab2[i] <= lab2[j] \/ stream2[j][1].seq < stream2[i][1].seq
  <2>1. CASE g[j] = 0
    BY <2>1, <1>1, <1>4
  <2>2. CASE g[i] # 0 /\ g[j] # 0 /\ g[i] < g[j]
    BY <2>2, <1>4, <1>6
  <2>3. CASE g[i] = 0 /\ g[j] # 0 /\ stream[g[j]][1].seq < d[1].seq
    BY <2>3, <1>4
  <2> QED
    BY <1>2, <1>8, <2>1, <2>2, <2>3
\* Whatever is before or at the newest snapshot and before the old stream is
\* before the new one.
<1>9. ASSUME NEW x \in 0 .. last, NEW b,
             \A j \in DOMAIN stream : x <= lab[j] \/ stream[j][1].seq < b
      PROVE  \A j \in DOMAIN stream2 : x <= lab2[j] \/ stream2[j][1].seq < b
  <2> SUFFICES ASSUME NEW j \in DOMAIN stream2
               PROVE  x <= lab2[j] \/ stream2[j][1].seq < b
    OBVIOUS
  <2>1. CASE g[j] = 0
    BY <2>1, <1>4, <1>1
  <2>2. CASE g[j] # 0
    BY <2>2, <1>4, <1>9
  <2> QED
    BY <2>1, <2>2
<1>10. hi \in 0 .. last /\ cur \in 0 .. last
  BY <1>1
<1>11. rxSnapshot /\ rx # <<>> =>
          \A j \in DOMAIN stream2 : cur <= lab2[j] \/ stream2[j][1].seq < rx[1].seq
  <2> SUFFICES ASSUME rxSnapshot, rx # <<>>
               PROVE  \A j \in DOMAIN stream2 : cur <= lab2[j] \/ stream2[j][1].seq < rx[1].seq
    OBVIOUS
  <2>1. \A j \in DOMAIN stream : cur <= lab[j] \/ stream[j][1].seq < rx[1].seq
    BY <1>1 DEF StreamInv
  <2> QED
    BY <2>1, <1>9, <1>10
<1>12. snapMsgs # {} =>
          \A j \in DOMAIN stream2 :
             hi <= lab2[j] \/ stream2[j][1].seq < Cardinality(snapMsgs)
  <2> SUFFICES ASSUME snapMsgs # {}
               PROVE  \A j \in DOMAIN stream2 :
                         hi <= lab2[j] \/ stream2[j][1].seq < Cardinality(snapMsgs)
    OBVIOUS
  <2>1. \A j \in DOMAIN stream : hi <= lab[j] \/ stream[j][1].seq < Cardinality(snapMsgs)
    BY <1>1 DEF StreamInv
  <2> QED
    BY <2>1, <1>9, <1>10
<1>13. \A j \in DOMAIN stream2 : Chunk(snapNet[j], lab2[j])'
  BY <1>1, <1>7, Same
<1>14. (rxSnapshot => Chunk(rx, cur)) /\ (snapMsgs # {} => Beginning(snapMsgs, hi))
       /\ (snapMsgs # {} /\ rxSnapshot /\ rx # <<>>
              => hi <= cur \/ rx[1].seq < Cardinality(snapMsgs))
  BY DEF StreamInv
<1>15. (rxSnapshot => Chunk(rx, cur)') /\ (snapMsgs # {} => Beginning(snapMsgs, hi)')
  BY <1>14, Same
<1>16. StreamInv(hi, cur, lab2)'
  BY <1>1, <1>7, <1>8, <1>11, <1>12, <1>13, <1>14, <1>15 DEF StreamInv
<1> QED
  BY <1>1, <1>5, <1>16

LEMMA SendSnapshotKeeps ==
    ASSUME DataInv, SendSnapshot
    PROVE  DataInv'
<1>1. PublisherInv /\ SynthesizerInv /\ IncrementalInv /\ SnapshotInv /\ ViewInv
  BY DEF DataInv
<1>2. /\ UNCHANGED <<books, nextOrderId, nextInc, outBuf, incNet>>
      /\ UNCHANGED <<rx, rxSnapshot, nextExp, inRecovery, status>>
      /\ UNCHANGED <<snapMsgs, incMsgs, view, merged, snapQueue, orders, lastInc>>
  BY DEF SendSnapshot, bookVars, publisherVars, netVars, clientVars
<1>3. PICK n, s, d : /\ n = Min({i \in DOMAIN toSend : toSend[i].u.type # "CLEAR"})
                     /\ s = toSend /\ d = SubSeq(toSend, 1, n)
  OBVIOUS
<1>4. PICK stream, stream2 : stream = snapNet /\ stream2 = snapNet'
  OBVIOUS
<1>5. /\ UNCHANGED net /\ (faults' = faults \/ (faults < net.max /\ faults' = faults + 1))
      /\ Arrives(stream, d, stream2)
      /\ toSend' = SubSeq(s, n + 1, Len(s)) /\ s # <<>>
  <2>1. /\ IF inRecovery THEN Transit(snapNet, d, snapNet')
                         ELSE UNCHANGED <<snapNet, netVars>>
        /\ toSend' = SubSeq(s, n + 1, Len(s)) /\ s # <<>>
    BY <1>3 DEF SendSnapshot
  <2>2. CASE inRecovery
    BY <2>1, <2>2, <1>4 DEF Transit, Arrives
  <2>3. CASE ~inRecovery
    BY <2>1, <2>3, <1>4 DEF Arrives, netVars
  <2> QED
    BY <2>2, <2>3
<1>6. /\ s \in Seq(Messages) /\ Chunk(s, lastInc) /\ s[Len(s)].u.type = "SNAPSHOT_END"
      /\ stream \in Seq(Seq(Messages))
  BY <1>1, <1>3, <1>4, <1>5 DEF SnapshotInv
<1>7. n \in Nat /\ 1 <= n /\ n <= Len(s)
  <2> DEFINE T == {i \in DOMAIN s : s[i].u.type # "CLEAR"}
  <2>1. DOMAIN s = 1 .. Len(s) /\ Len(s) \in Nat /\ Len(s) \in DOMAIN s
    BY <1>5, <1>6
  <2>2. T \in SUBSET Nat /\ Len(s) \in T
    BY <2>1, <1>6
  <2>3. n = Min(T)
    BY <1>3
  <2>4. T \subseteq 1 .. Len(s)
    BY <2>1
  <2> HIDE DEF T
  <2>5. \E x \in T : \A y \in T : x <= y
    BY <2>2, Least
  <2>6. n \in T
    BY <2>3, <2>5 DEF Min
  <2> QED
    BY <2>1, <2>4, <2>6
<1>8. lastInc \in 0 .. nextInc - 1 /\ nextInc \in Nat /\ lastInc \in Nat
  BY <1>1, Constants DEF SynthesizerInv, PublisherInv
<1>9. PublisherInv' /\ SynthesizerInv' /\ IncrementalInv' /\ ViewInv'
  <2>1. PublisherInv'
    BY <1>1, <1>2, <1>5, TransitPublisher
  <2> QED
    BY <2>1, <1>1, <1>2, KeptSynthesizer, KeptIncremental, KeptView
<1>10. d \in Seq(Messages) /\ d # <<>> /\ Chunk(d, lastInc)
  <2>1. 1 \in Nat /\ 1 <= 1 /\ d = SubSeq(s, 1, n)
    BY <1>3
  <2> QED
    BY <2>1, <1>6, <1>7, SubChunk, Zenon
<1>11. /\ toSend' \in Seq(Messages)
       /\ toSend' # <<>> => /\ Chunk(toSend, lastInc)'
                            /\ toSend'[Len(toSend')].u.type = "SNAPSHOT_END"
  <2>1. CASE n = Len(s)
    <3>1. toSend' = <<>>
      BY <2>1, <1>5, <1>6, <1>7
    <3> QED
      BY <3>1
  <2>2. CASE n # Len(s)
    <3>1. n + 1 \in Nat /\ 1 <= n + 1 /\ n + 1 <= Len(s) /\ Len(s) \in Nat
      BY <2>2, <1>6, <1>7
    <3>2. PICK t : t = toSend'
      OBVIOUS
    <3>3. t \in Seq(Messages) /\ Chunk(t, lastInc) /\ t[Len(t)] = s[Len(s)]
      <4>1. PICK a \in Nat, e \in Nat : a = n + 1 /\ e = Len(s)
        BY <3>1
      <4>2. t = SubSeq(s, a, e) /\ 1 <= a /\ a <= e /\ e <= Len(s)
        BY <4>1, <3>1, <3>2, <1>5
      <4>3. s \in Seq(Messages) /\ Chunk(s, lastInc)
        BY <1>6
      <4>4. t \in Seq(Messages) /\ t # <<>> /\ Chunk(t, lastInc)
        BY <4>2, <4>3, SubChunk, Zenon
      <4>5. t[Len(t)] = s[e]
        <5>1. Len(t) = e - a + 1 /\ \A p \in 1 .. e - a + 1 : t[p] = s[a + p - 1]
          BY <4>2, <4>3
        <5>2. e - a + 1 \in 1 .. e - a + 1 /\ a + (e - a + 1) - 1 = e
          BY <4>2
        <5> QED
          BY <5>1, <5>2
      <4> QED
        BY <4>1, <4>4, <4>5
    <3>4. PICK i : i = lastInc
      OBVIOUS
    <3>5. Chunk(t, i)'
      BY <3>3, <3>4, <1>2, Same
    <3>6. Chunk(toSend, lastInc)'
      BY <3>2, <3>4, <3>5, <1>2
    <3> QED
      BY <3>2, <3>3, <3>6, <1>6
  <2> QED
    BY <2>1, <2>2
<1>12. PICK hi \in 0 .. lastInc, cur \in 0 .. lastInc,
           lab \in [DOMAIN snapNet -> 0 .. lastInc] : StreamInv(hi, cur, lab)
  BY <1>1 DEF SnapshotInv
<1>13. stream2 \in Seq(Seq(Messages)) /\ \E g : Origin(stream, d, stream2, g)
  BY <1>5, <1>6, <1>10, TransitOrder
<1>14. PICK g : Origin(stream, d, stream2, g)
  BY <1>13
<1>15. Origin(snapNet, d, snapNet', g)
  BY <1>4, <1>14
<1>16. \E lab2 \in [DOMAIN snapNet' -> 0 .. lastInc'] : StreamInv(hi, cur, lab2)'
  BY <1>2, <1>4, <1>6, <1>8, <1>10, <1>12, <1>15, StreamGrows
<1>17. SnapshotInv'
  <2>1. Seqs(snapMsgs)' = Seqs(snapMsgs)
    BY <1>2 DEF Seqs
  <2>2. snapNet' \in Seq(Seq(Messages))
    BY <1>4, <1>13
  <2> QED
    BY <2>1, <2>2, <1>1, <1>2, <1>11, <1>12, <1>16 DEF SnapshotInv
<1> QED
  BY <1>9, <1>17 DEF DataInv

-----------------------------------------------------------------------------
(* The client's steps. *)

\* A step that does not touch the snapshot stream and leaves an incremental
\* datagram in the client's hands.
LEMMA StreamUntouched ==
    ASSUME SnapshotInv, UNCHANGED <<books, nextInc, toSend, lastInc, snapNet, snapMsgs>>,
           rxSnapshot' = FALSE
    PROVE  SnapshotInv'
<1>1. PICK hi \in 0 .. lastInc, cur \in 0 .. lastInc,
           lab \in [DOMAIN snapNet -> 0 .. lastInc] : StreamInv(hi, cur, lab)
  BY DEF SnapshotInv
<1>2. StreamInv(hi, cur, lab)'
  <2>1. \A j \in DOMAIN snapNet : Chunk(snapNet[j], lab[j])'
    BY <1>1, Same DEF StreamInv
  <2>2. snapMsgs # {} => Beginning(snapMsgs, hi)'
    BY <1>1, Same DEF StreamInv
  <2> QED
    BY <1>1, <2>1, <2>2 DEF StreamInv
<1>3. Chunk(toSend, lastInc)' <=> Chunk(toSend, lastInc)
  BY Same DEF Chunk
<1>4. Seqs(snapMsgs)' = Seqs(snapMsgs)
  BY DEF Seqs
<1> QED
  BY <1>1, <1>2, <1>3, <1>4 DEF SnapshotInv

LEMMA RecvIncrementalKeeps ==
    ASSUME DataInv, RecvIncremental
    PROVE  DataInv'
<1>1. PublisherInv /\ SynthesizerInv /\ IncrementalInv /\ SnapshotInv /\ ViewInv
  BY DEF DataInv
<1>2. /\ UNCHANGED <<books, nextOrderId, nextInc, outBuf, snapQueue, orders, lastInc>>
      /\ UNCHANGED <<toSend, status, snapNet, net, faults, nextExp, inRecovery>>
      /\ UNCHANGED <<snapMsgs, incMsgs, view, merged>>
      /\ incNet # <<>> /\ rx' = Head(incNet) /\ rxSnapshot' = FALSE
      /\ incNet' = Tail(incNet)
  BY DEF RecvIncremental, bookVars, publisherVars, synthVars, netVars
<1>3. PublisherInv' /\ SynthesizerInv' /\ SnapshotInv' /\ ViewInv'
  <2>1. SnapshotInv'
    BY <1>1, <1>2, StreamUntouched
  <2> QED
    BY <2>1, <1>1, <1>2, KeptPublisher, KeptSynthesizer, KeptView
<1>4. IncrementalInv'
  <2>1. /\ incNet \in Seq(Seq(Messages))
        /\ \A j \in DOMAIN incNet : \A p \in DOMAIN incNet[j] : Incremental(incNet[j][p])
    BY <1>1 DEF IncrementalInv
  <2>2. /\ 1 \in DOMAIN incNet /\ rx' = incNet[1] /\ rx' \in Seq(Messages)
        /\ incNet' \in Seq(Seq(Messages))
        /\ \A j \in DOMAIN incNet' : j + 1 \in DOMAIN incNet /\ incNet'[j] = incNet[j + 1]
    BY <1>2, <2>1
  <2>3. \A p \in DOMAIN rx' : Incremental(rx[p])'
    BY <2>1, <2>2, <1>2, Same
  <2>4. \A j \in DOMAIN incNet' : \A p \in DOMAIN incNet'[j] : Incremental(incNet[j][p])'
    BY <2>1, <2>2, <1>2, Same
  <2>5. \A p \in DOMAIN outBuf' : Incremental(outBuf[p])'
    BY <1>1, <1>2, Same DEF IncrementalInv
  <2>6. \A x \in incMsgs' : Incremental(x)'
    BY <1>1, <1>2, Same DEF IncrementalInv
  <2> QED
    BY <2>2, <2>3, <2>4, <2>5, <2>6, <1>1, <1>2 DEF IncrementalInv
<1> QED
  BY <1>3, <1>4 DEF DataInv

LEMMA RecvSnapshotKeeps ==
    ASSUME DataInv, RecvSnapshot
    PROVE  DataInv'
<1>1. PublisherInv /\ SynthesizerInv /\ IncrementalInv /\ SnapshotInv /\ ViewInv
  BY DEF DataInv
<1>2. /\ UNCHANGED <<books, nextOrderId, nextInc, outBuf, snapQueue, orders, lastInc>>
      /\ UNCHANGED <<toSend, status, incNet, net, faults, nextExp, inRecovery>>
      /\ UNCHANGED <<snapMsgs, incMsgs, view, merged>>
      /\ snapNet # <<>> /\ rx' = Head(snapNet) /\ rxSnapshot' = TRUE
      /\ snapNet' = Tail(snapNet)
  BY DEF RecvSnapshot, bookVars, publisherVars, synthVars, netVars
<1>3. PublisherInv' /\ SynthesizerInv' /\ ViewInv'
  BY <1>1, <1>2, KeptPublisher, KeptSynthesizer, KeptView
<1>4. snapNet \in Seq(Seq(Messages))
  BY <1>1 DEF SnapshotInv
<1>5. /\ 1 \in DOMAIN snapNet /\ rx' = snapNet[1] /\ rx' \in Seq(Messages)
      /\ snapNet' \in Seq(Seq(Messages))
      /\ \A j \in DOMAIN snapNet' :
            j \in Nat /\ 1 < j + 1 /\ j + 1 \in DOMAIN snapNet /\ snapNet'[j] = snapNet[j + 1]
  BY <1>2, <1>4
<1>6. IncrementalInv'
  <2>1. \A p \in DOMAIN outBuf' : Incremental(outBuf[p])'
    BY <1>1, <1>2, Same DEF IncrementalInv
  <2>2. \A j \in DOMAIN incNet' : \A p \in DOMAIN incNet'[j] : Incremental(incNet[j][p])'
    BY <1>1, <1>2, Same DEF IncrementalInv
  <2>3. \A x \in incMsgs' : Incremental(x)'
    BY <1>1, <1>2, Same DEF IncrementalInv
  <2> QED
    BY <2>1, <2>2, <2>3, <1>1, <1>2, <1>5 DEF IncrementalInv
<1>7. SnapshotInv'
  <2>1. PICK hi \in 0 .. lastInc, cur \in 0 .. lastInc,
           lab \in [DOMAIN snapNet -> 0 .. lastInc] : StreamInv(hi, cur, lab)
    BY <1>1 DEF SnapshotInv
  <2>2. PICK cur2, lab2 : cur2 = lab[1] /\ lab2 = [j \in DOMAIN snapNet' |-> lab[j + 1]]
    OBVIOUS
  <2>3. /\ cur2 \in 0 .. lastInc' /\ lab2 \in [DOMAIN snapNet' -> 0 .. lastInc']
        /\ hi \in 0 .. lastInc'
    BY <2>1, <2>2, <1>2, <1>5
  <2>4. /\ \A j \in DOMAIN snapNet : snapNet[j] # <<>> /\ Chunk(snapNet[j], lab[j])
        /\ \A i, j \in DOMAIN snapNet :
              i < j => lab[i] <= lab[j] \/ snapNet[j][1].seq < snapNet[i][1].seq
        /\ snapMsgs # {} => Beginning(snapMsgs, hi)
        /\ snapMsgs # {} => \A j \in DOMAIN snapNet :
              hi <= lab[j] \/ snapNet[j][1].seq < Cardinality(snapMsgs)
    BY <2>1 DEF StreamInv
  <2>5. \A j \in DOMAIN snapNet' : lab2[j] = lab[j + 1]
    BY <2>2
  <2>6. \A j \in DOMAIN snapNet' : snapNet'[j] # <<>> /\ Chunk(snapNet[j], lab2[j])'
    BY <2>4, <2>5, <1>2, <1>5, Same
  <2>7. ASSUME NEW i \in DOMAIN snapNet', NEW j \in DOMAIN snapNet', i < j
        PROVE  lab2[i] <= lab2[j] \/ snapNet'[j][1].seq < snapNet'[i][1].seq
    <3>1. i + 1 < j + 1
      BY <1>5, <2>7
    <3> QED
      BY <3>1, <2>4, <2>5, <1>5
  <2>8. Chunk(rx, cur2)'
    BY <2>2, <2>4, <1>2, <1>5, Same
  <2>9. \A j \in DOMAIN snapNet' : cur2 <= lab2[j] \/ snapNet'[j][1].seq < rx'[1].seq
    BY <2>2, <2>4, <2>5, <1>5
  <2>10. snapMsgs # {} =>
            /\ Beginning(snapMsgs, hi)'
            /\ \A j \in DOMAIN snapNet' :
                  hi <= lab2[j] \/ snapNet'[j][1].seq < Cardinality(snapMsgs)
            /\ hi <= cur2 \/ rx'[1].seq < Cardinality(snapMsgs)
    BY <2>2, <2>4, <2>5, <1>2, <1>5, Same
  <2>11. StreamInv(hi, cur2, lab2)'
    BY <2>6, <2>7, <2>8, <2>9, <2>10, <1>2 DEF StreamInv
  <2>12. Chunk(toSend, lastInc)' <=> Chunk(toSend, lastInc)
    BY <1>2, Same DEF Chunk
  <2>13. Seqs(snapMsgs)' = Seqs(snapMsgs)
    BY <1>2 DEF Seqs
  <2> QED
    BY <2>3, <2>11, <2>12, <2>13, <1>1, <1>2, <1>5 DEF SnapshotInv
<1> QED
  BY <1>3, <1>6, <1>7 DEF DataInv

\* The message the client works on, and the rest of its datagram.
LEMMA HeadAndTail ==
    ASSUME IncrementalInv, rx # <<>>
    PROVE  /\ Head(rx) = rx[1] /\ 1 \in DOMAIN rx /\ rx[1] \in Messages
           /\ Tail(rx) \in Seq(Messages)
           /\ \A p \in DOMAIN Tail(rx) :
                 p \in Nat /\ p + 1 \in DOMAIN rx /\ Tail(rx)[p] = rx[p + 1]
           /\ ~rxSnapshot =>
                 Incremental(Head(rx)) /\ \A p \in DOMAIN Tail(rx) : Incremental(Tail(rx)[p])
<1>1. rx \in Seq(Messages) /\ (~rxSnapshot => \A p \in DOMAIN rx : Incremental(rx[p]))
  BY DEF IncrementalInv
<1>2. /\ Head(rx) = rx[1] /\ 1 \in DOMAIN rx /\ rx[1] \in Messages
      /\ Tail(rx) \in Seq(Messages)
      /\ \A p \in DOMAIN Tail(rx) :
            p \in Nat /\ p + 1 \in DOMAIN rx /\ Tail(rx)[p] = rx[p + 1]
  BY <1>1
<1> QED
  BY <1>1, <1>2

LEMMA HandOnKeeps ==
    ASSUME DataInv, HandOn
    PROVE  DataInv'
<1>1. PublisherInv /\ SynthesizerInv /\ IncrementalInv /\ SnapshotInv /\ ViewInv
  BY DEF DataInv
<1>2. /\ UNCHANGED <<books, nextOrderId, nextInc, outBuf, snapQueue, orders, lastInc>>
      /\ UNCHANGED <<toSend, status, incNet, snapNet, net, faults, inRecovery>>
      /\ UNCHANGED <<rxSnapshot, snapMsgs, incMsgs, merged>>
      /\ rx # <<>> /\ ~rxSnapshot /\ rx' = Tail(rx)
      /\ Head(rx).seq = nextExp /\ nextExp' = nextExp + 1
      /\ view' = After(view, Head(rx).u) /\ ~inRecovery
  BY DEF HandOn, bookVars, publisherVars, synthVars, netVars
<1>3. PublisherInv' /\ SynthesizerInv'
  BY <1>1, <1>2, KeptPublisher, KeptSynthesizer
<1>4. rxSnapshot' = FALSE
  <2>1. rxSnapshot \in BOOLEAN
    BY <1>1 DEF IncrementalInv
  <2> QED
    BY <2>1, <1>2
<1>5. SnapshotInv'
  BY <1>1, <1>2, <1>4, StreamUntouched
<1>6. /\ Incremental(Head(rx)) /\ Tail(rx) \in Seq(Messages)
      /\ \A p \in DOMAIN Tail(rx) : Incremental(Tail(rx)[p])
  BY <1>1, <1>2, HeadAndTail
<1>7. IncrementalInv'
  <2>1. \A p \in DOMAIN outBuf' : Incremental(outBuf[p])'
    BY <1>1, <1>2, Same DEF IncrementalInv
  <2>2. \A j \in DOMAIN incNet' : \A p \in DOMAIN incNet'[j] : Incremental(incNet[j][p])'
    BY <1>1, <1>2, Same DEF IncrementalInv
  <2>3. \A x \in incMsgs' : Incremental(x)'
    BY <1>1, <1>2, Same DEF IncrementalInv
  <2>4. \A p \in DOMAIN rx' : Incremental(rx[p])'
    BY <1>2, <1>6, Same
  <2> QED
    BY <2>1, <2>2, <2>3, <2>4, <1>1, <1>2, <1>6 DEF IncrementalInv
<1>8. ViewInv'
  <2>1. PICK m : m = Head(rx)
    OBVIOUS
  <2>2. /\ m \in Messages /\ nextExp \in 1 .. nextInc - 1
        /\ books[nextExp + 1] = After(books[nextExp], m.u)
    BY <2>1, <1>2, <1>6 DEF Incremental, Follows
  <2>3. view \in Images /\ view' = After(view, m.u) /\ m.u \in Updates
    BY <2>1, <2>2, <1>1, <1>2 DEF ViewInv, Messages
  <2>4. view' \in Images
    BY <2>3, AfterType
  <2>5. nextExp' \in 1 .. nextInc'
    <3>1. nextInc \in Nat
      BY <1>1, Constants DEF PublisherInv
    <3> QED
      BY <3>1, <2>2, <1>2
  <2>6. ~merged => view' = books'[nextExp']
    BY <2>2, <2>3, <1>1, <1>2 DEF ViewInv
  <2> QED
    BY <2>4, <2>5, <2>6, <1>1, <1>2 DEF ViewInv
<1> QED
  BY <1>3, <1>5, <1>7, <1>8 DEF DataInv

-----------------------------------------------------------------------------
(* Recovery. *)

\* One message more of snapshot cur: unless the client gives up what it has, its
\* messages are 0, 1, 2, ... of snapshots from that of the first one to cur.
LEMMA Continued ==
    ASSUME PublisherInv, lastInc \in 0 .. nextInc - 1,
           NEW S \in SUBSET Messages, IsFiniteSet(S), Seqs(S) = 0 .. Cardinality(S) - 1,
           NEW hi \in 0 .. lastInc, NEW cur \in 0 .. lastInc,
           NEW m \in Messages, InSnapshot(m, cur),
           S # {} => Beginning(S, hi) /\ (hi <= cur \/ m.seq < Cardinality(S)),
           NEW Q, Q = QueuedSnapshot(S, m), ~Discards(Q)
    PROVE  /\ Q \in SUBSET Messages /\ IsFiniteSet(Q) /\ m \in Q
           /\ Cardinality(Q) = m.seq + 1 /\ Seqs(Q) = 0 .. m.seq
           /\ \A q \in Q : q.seq \in 0 .. m.seq
           /\ \A q, r \in Q : q.seq = r.seq => q = r
           /\ \A q \in Q : q # m => q.u.type # "SNAPSHOT_END"
           /\ \E first \in Q :
                 /\ first.seq = 0 /\ first.u.type = "SNAPSHOT_START"
                 /\ \A q \in Q : \E i \in first.u.id .. cur : InSnapshot(q, i)
<1> DEFINE c == Cardinality(S)
<1>1. m.seq \in Nat /\ nextInc \in Nat /\ lastInc \in Nat /\ cur \in Nat
  BY Constants DEF Messages, PublisherInv
<1>2. c \in Nat
  BY FS_CardinalityType
<1>3. ASSUME NEW q \in Q PROVE Seqs(Q) = 0 .. Cardinality(Q) - 1
  BY DEF Discards
<1>4. CASE Q = {m}
  <2>1. Cardinality(Q) = 1 /\ IsFiniteSet(Q)
    BY <1>4, FS_Singleton
  <2>2. Seqs(Q) = 0 .. 0
    BY <1>3, <1>4, <2>1
  <2>3. Seqs(Q) = {m.seq}
    BY <1>4 DEF Seqs
  <2>4. m.seq = 0
    BY <2>2, <2>3, <1>1
  <2>5. Earliest(Q) = m
    BY <1>4, <1>1 DEF Earliest
  <2>6. m.u.type = "SNAPSHOT_START"
    BY <1>4, <2>5 DEF Discards
  <2>7. m.u.id = cur
    BY <2>6, SnapshotOf DEF InSnapshot
  <2>8. cur \in m.u.id .. cur
    BY <2>7, <1>1
  <2>9. \A q \in Q : \E i \in m.u.id .. cur : InSnapshot(q, i)
    BY <2>8, <1>4
  <2>10. Q \in SUBSET Messages /\ m \in Q /\ Cardinality(Q) = m.seq + 1
    BY <1>4, <2>1, <2>4
  <2>11. /\ \A q \in Q : q.seq \in 0 .. m.seq
         /\ \A q, r \in Q : q.seq = r.seq => q = r
         /\ \A q \in Q : q # m => q.u.type # "SNAPSHOT_END"
    BY <1>1, <1>4
  <2>12. Seqs(Q) = 0 .. m.seq
    BY <2>2, <2>4
  <2> QED
    BY <2>1, <2>4, <2>6, <2>9, <2>10, <2>11, <2>12
<1>5. CASE Q # {m}
  <2>1. Q = S \cup {m} /\ m.seq \notin Seqs(S) /\ S # {}
    BY <1>5 DEF QueuedSnapshot
  <2>2. m \notin S
    BY <2>1 DEF Seqs
  <2>3. IsFiniteSet(Q) /\ Cardinality(Q) = c + 1
    BY <2>1, <2>2, FS_AddElement
  <2>4. Seqs(Q) = 0 .. c
    <3>1. Cardinality(Q) - 1 = c
      BY <2>3, <1>2
    <3>2. m \in Q
      BY <2>1
    <3>3. Seqs(Q) = 0 .. Cardinality(Q) - 1
      BY <3>2, <1>3
    <3> HIDE DEF c
    <3> QED
      BY <3>1, <3>3
  <2>5. m.seq \in Seqs(Q)
    BY <2>1 DEF Seqs
  <2>6. m.seq = c
    <3>1. m.seq \in 0 .. c /\ m.seq \notin 0 .. c - 1
      BY <2>1, <2>4, <2>5
    <3> QED
      BY <3>1, <1>2
  <2>7. hi <= cur /\ Beginning(S, hi)
    <3>1. ~(m.seq < c)
      BY <2>6, <1>2
    <3> QED
      BY <3>1, <2>1
  <2>8. PICK first \in S :
           /\ first.seq = 0 /\ first.u.type = "SNAPSHOT_START"
           /\ \A q \in S : \E i \in first.u.id .. hi : InSnapshot(q, i)
    BY <2>7 DEF Beginning
  <2>9. first.u.id \in Nat
    <3>1. first \in Messages
      BY <2>8
    <3> QED
      BY <3>1 DEF Messages, Updates
  <2>10. first.u.id \in 0 .. hi /\ first.u.id .. hi \subseteq first.u.id .. cur
         /\ cur \in first.u.id .. cur
    <3>1. PICK i \in first.u.id .. hi : InSnapshot(first, i)
      BY <2>8
    <3> QED
      BY <3>1, <2>7, <2>9, <1>1
  <2>11. \A q \in Q : \E i \in first.u.id .. cur : InSnapshot(q, i)
    <3> SUFFICES ASSUME NEW q \in Q PROVE \E i \in first.u.id .. cur : InSnapshot(q, i)
      OBVIOUS
    <3>1. CASE q \in S
      <4>1. PICK i \in first.u.id .. hi : InSnapshot(q, i)
        BY <3>1, <2>8
      <4>2. i \in first.u.id .. cur
        BY <4>1, <2>10
      <4> QED
        BY <4>1, <4>2
    <3>2. CASE q = m
      BY <3>2, <2>10
    <3> QED
      BY <3>1, <3>2, <2>1
  <2>12. \A q, r \in Q : q.seq = r.seq => q = r
    <3>1. \A q, r \in S : q.seq = r.seq => q = r
      BY <2>7 DEF Beginning
    <3>2. \A q \in S : q.seq # m.seq
      BY <2>1 DEF Seqs
    <3> QED
      BY <3>1, <3>2, <2>1
  <2>13. \A q \in Q : q # m => q.u.type # "SNAPSHOT_END"
    BY <2>1, <2>7 DEF Beginning
  <2>14. \A q \in Q : q.seq \in 0 .. m.seq
    BY <2>4, <2>6 DEF Seqs
  <2> QED
    BY <2>1, <2>3, <2>4, <2>6, <2>8, <2>11, <2>12, <2>13, <2>14
<1> QED
  BY <1>4, <1>5

\* The first and the last message of what the client has.
LEMMA Ends ==
    ASSUME NEW Q, NEW m \in Q, m.seq \in Nat,
           \A q \in Q : q.seq \in 0 .. m.seq,
           \A q, r \in Q : q.seq = r.seq => q = r,
           NEW first \in Q, first.seq = 0
    PROVE  Latest(Q) = m /\ Earliest(Q) = first
<1>1. Latest(Q) \in Q /\ \A q \in Q : q.seq <= Latest(Q).seq
  BY LatestIs
<1>2. Latest(Q).seq \in 0 .. m.seq /\ m.seq <= Latest(Q).seq
  BY <1>1
<1>3. Latest(Q).seq = m.seq
  BY <1>2
<1>4. Earliest(Q) \in Q /\ \A q \in Q : Earliest(Q).seq <= q.seq
  <2>1. \A q \in Q : q.seq \in Nat
    OBVIOUS
  <2> QED
    BY <2>1, EarliestIs
<1>5. Earliest(Q).seq \in 0 .. m.seq /\ Earliest(Q).seq <= first.seq
  BY <1>4
<1>6. Earliest(Q).seq = first.seq
  BY <1>5
<1> QED
  BY <1>1, <1>3, <1>4, <1>6

\* When the SNAPSHOT_END of snapshot cur ends it, the client resumes after update
\* cur, and a snapshot that is all of one is the book after it.
LEMMA Completed ==
    ASSUME PublisherInv, lastInc \in 0 .. nextInc - 1, NEW cur \in 0 .. lastInc,
           NEW Q \in SUBSET Messages, NEW m \in Q, InSnapshot(m, cur),
           Seqs(Q) = 0 .. m.seq, \A q \in Q : q.seq \in 0 .. m.seq,
           \A q, r \in Q : q.seq = r.seq => q = r,
           NEW first \in Q, first.seq = 0,
           \A q \in Q : \E i \in first.u.id .. cur : InSnapshot(q, i),
           HasEnded(Q)
    PROVE  /\ ResumeAt(Q) = cur + 1
           /\ Earliest(Q).u.id = Latest(Q).u.id =>
                 \A book : AfterAll(book, Q) = books[cur + 1]
<1>1. m.seq \in Nat /\ cur \in Nat /\ nextInc \in Nat /\ first.u.id \in Nat
  BY Constants DEF Messages, Updates, PublisherInv
<1>2. Latest(Q) = m /\ Earliest(Q) = first
  BY <1>1, Ends
<1>3. m.u.type = "SNAPSHOT_END"
  BY <1>2 DEF HasEnded
<1> DEFINE s == Snapshot(cur)
<1>4. /\ s \in Seq(Messages) /\ m.seq + 1 \in DOMAIN s /\ m = s[m.seq + 1]
      /\ \A p \in DOMAIN s : /\ s[p].seq = p - 1
                             /\ s[p].u.type = "SNAPSHOT_END" => p = Len(s) /\ s[p].u.id = cur
      /\ books[cur + 1] \in Images
  BY SnapshotOf DEF InSnapshot
<1> HIDE DEF s
<1>5. m.u.id = cur /\ Len(s) = m.seq + 1
  BY <1>3, <1>4
<1>6. ResumeAt(Q) = cur + 1
  BY <1>2, <1>5 DEF ResumeAt
<1>7. ASSUME Earliest(Q).u.id = Latest(Q).u.id, NEW book
      PROVE  AfterAll(book, Q) = books[cur + 1]
  <2>1. first.u.id = cur
    BY <1>2, <1>5, <1>7
  <2>2. \A q \in Q : InSnapshot(q, cur)
    <3> SUFFICES ASSUME NEW q \in Q PROVE InSnapshot(q, cur)
      OBVIOUS
    <3>1. PICK i \in first.u.id .. cur : InSnapshot(q, i)
      OBVIOUS
    <3>2. i = cur
      BY <3>1, <2>1, <1>1
    <3> QED
      BY <3>1, <3>2
  <2>3. DOMAIN s = 1 .. m.seq + 1
    BY <1>4, <1>5
  <2>4. ASSUME NEW p \in DOMAIN s PROVE s[p] \in Q
    <3>1. p - 1 \in 0 .. m.seq
      BY <2>3, <1>1
    <3>2. PICK q \in Q : q.seq = p - 1
      BY <3>1 DEF Seqs
    <3>3. q.seq + 1 = p
      BY <3>2, <2>3, <1>1
    <3>4. q = s[q.seq + 1]
      BY <2>2 DEF InSnapshot, s
    <3> QED
      BY <3>2, <3>3, <3>4
  <2>5. Q = {s[p] : p \in DOMAIN s}
    <3>1. \A q \in Q : q.seq + 1 \in DOMAIN s /\ q = s[q.seq + 1]
      BY <2>2 DEF InSnapshot, s
    <3> QED
      BY <3>1, <2>4, ZenonT(60)
  <2>6. s = SnapshotMessages(books[cur + 1], cur)
    BY DEF s, Snapshot
  <2> QED
    <3>1. PICK image \in Images : image = books[cur + 1]
      BY <1>4
    <3>2. s = SnapshotMessages(image, cur)
      BY <2>6, <3>1
    <3>3. Q = {SnapshotMessages(image, cur)[p] : p \in DOMAIN SnapshotMessages(image, cur)}
      BY <2>5, <3>2
    <3>4. AfterAll(book, Q) = image
      BY <3>3, <1>1, SnapshotRebuilds
    <3> QED
      BY <3>1, <3>4
<1> QED
  BY <1>6, <1>7

\* The queued incrementals from update n on take the client from the book before n
\* to the one before the first missing update, if there is no gap.
LEMMA CaughtUp ==
    ASSUME PublisherInv, NEW I, IsFiniteSet(I), \A m \in I : Incremental(m),
           \A m, r \in I : m.seq = r.seq => m = r, NEW n \in 1 .. nextInc
    PROVE  /\ FirstMissing(I, n) \in n .. nextInc
           /\ ~HasGap(I, n) =>
                 AfterAll(books[n], {m \in I : m.seq >= n}) = books[FirstMissing(I, n)]
<1>1. nextInc \in Nat /\ books \in Seq(Images) /\ Len(books) = nextInc
  BY Constants DEF PublisherInv
<1>2. \A m \in I : m.seq \in 1 .. nextInc - 1 /\ books[m.seq + 1] = After(books[m.seq], m.u)
  BY DEF Incremental, Follows
<1>3. n \in Nat /\ \A m \in I : m.seq \in 0 .. nextInc
  BY <1>1, <1>2
<1> DEFINE x == FirstMissing(I, n)
<1>4. x \in Nat /\ n <= x /\ x \notin Seqs(I) /\ (n .. x - 1) \subseteq Seqs(I)
  BY <1>1, <1>3, FirstMissingIs
<1>gap. HasGap(I, n) <=> \E m \in I : m.seq > x
  BY DEF HasGap
<1> HIDE DEF x
<1>5. x <= nextInc
  <2> SUFFICES ASSUME ~(x <= nextInc) PROVE FALSE
    OBVIOUS
  <2>1. nextInc \in n .. x - 1
    BY <1>1, <1>4
  <2>2. PICK m \in I : m.seq = nextInc
    BY <2>1, <1>4 DEF Seqs
  <2> QED
    BY <2>2, <1>1, <1>2
<1>6. ASSUME ~HasGap(I, n)
      PROVE  AfterAll(books[n], {m \in I : m.seq >= n}) = books[x]
  <2> DEFINE J == {m \in I : m.seq >= n}
  <2>1. ASSUME NEW m \in J
        PROVE  m.seq \in n .. x - 1 /\ books[m.seq + 1] = After(books[m.seq], m.u)
    <3>1. m \in I /\ m.seq >= n /\ m.seq \in Nat
      BY <1>3
    <3>2. ~(m.seq > x) /\ m.seq # x
      BY <3>1, <1>gap, <1>4, <1>6 DEF Seqs
    <3> QED
      BY <3>1, <3>2, <1>2, <1>4
  <2>2. \A k \in n .. x - 1 : \E m \in J : m.seq = k
    <3> SUFFICES ASSUME NEW k \in n .. x - 1 PROVE \E m \in J : m.seq = k
      OBVIOUS
    <3>1. PICK m \in I : m.seq = k
      BY <1>4 DEF Seqs
    <3>2. m \in J
      BY <3>1, <1>3
    <3> QED
      BY <3>1, <3>2
  <2>3. \A m, r \in J : m.seq = r.seq => m = r
    OBVIOUS
  <2>4. books[x] \in Images
    BY <1>1, <1>3, <1>4, <1>5
  <2>5. PICK B : B = books
    OBVIOUS
  <2> HIDE DEF J
  <2>6. AfterAll(B[n], J) = B[x]
    <3>1. /\ \A m \in J : m.seq \in n .. x - 1 /\ B[m.seq + 1] = After(B[m.seq], m.u)
          /\ B[x] \in Images
      BY <2>1, <2>4, <2>5
    <3>2. x \in Nat /\ n <= x
      BY <1>4
    <3> QED
      BY <3>1, <3>2, <2>2, <2>3, <1>3, UpdatesInARow, SMTT(60)
  <2> QED
    BY <2>5, <2>6 DEF J
<1>7. x \in n .. nextInc
  BY <1>1, <1>3, <1>4, <1>5
<1> QED
  BY <1>6, <1>7 DEF x

\* The client has taken one message out of its datagram, and has queued it if it
\* is of the snapshot stream.
LEMMA StreamAfter ==
    ASSUME lastInc \in Nat, NEW hi \in 0 .. lastInc, NEW cur \in 0 .. lastInc,
           NEW lab \in [DOMAIN snapNet -> 0 .. lastInc], StreamInv(hi, cur, lab),
           IncrementalInv, snapNet \in Seq(Seq(Messages)),
           UNCHANGED <<books, nextInc, lastInc, rxSnapshot>>,
           rx # <<>>, rx' = Tail(rx), snapNet' = snapNet \/ snapNet' = <<>>,
           NEW S2, S2 = snapMsgs',
           \/ S2 = {}
           \/ ~rxSnapshot /\ S2 = snapMsgs
           \/ rxSnapshot /\ Beginning(S2, cur) /\ Cardinality(S2) = rx[1].seq + 1
    PROVE  \E hi2 \in 0 .. lastInc', cur2 \in 0 .. lastInc',
              lab2 \in [DOMAIN snapNet' -> 0 .. lastInc'] : StreamInv(hi2, cur2, lab2)'
<1>1. /\ 1 \in DOMAIN rx /\ rx[1] \in Messages /\ Tail(rx) \in Seq(Messages)
      /\ \A p \in DOMAIN Tail(rx) :
            p \in Nat /\ p + 1 \in DOMAIN rx /\ Tail(rx)[p] = rx[p + 1]
  BY HeadAndTail
<1>2. rx[1].seq \in Nat
  BY <1>1 DEF Messages
<1>3. /\ \A j \in DOMAIN snapNet : snapNet[j] # <<>> /\ Chunk(snapNet[j], lab[j])
      /\ \A i, j \in DOMAIN snapNet :
            i < j => lab[i] <= lab[j] \/ snapNet[j][1].seq < snapNet[i][1].seq
      /\ rxSnapshot => Chunk(rx, cur)
      /\ rxSnapshot => \A j \in DOMAIN snapNet :
            cur <= lab[j] \/ snapNet[j][1].seq < rx[1].seq
      /\ snapMsgs # {} => Beginning(snapMsgs, hi)
      /\ snapMsgs # {} => \A j \in DOMAIN snapNet :
            hi <= lab[j] \/ snapNet[j][1].seq < Cardinality(snapMsgs)
  BY DEF StreamInv
<1>4. PICK r2 : r2 = rx'
  OBVIOUS
<1>5. ASSUME rxSnapshot
      PROVE  Chunk(r2, cur) /\ (r2 # <<>> => r2[1].seq = rx[1].seq + 1)
  <2>1. \A p \in DOMAIN rx : rx[p].seq = rx[1].seq + p - 1 /\ InSnapshot(rx[p], cur)
    BY <1>3, <1>5 DEF Chunk
  <2>2. ASSUME NEW p \in DOMAIN r2
        PROVE  r2[p].seq = rx[1].seq + p /\ InSnapshot(r2[p], cur) /\ p \in Nat
    <3>1. p \in Nat /\ p + 1 \in DOMAIN rx /\ r2[p] = rx[p + 1]
      BY <1>1, <1>4
    <3>2. rx[p + 1].seq = rx[1].seq + (p + 1) - 1 /\ InSnapshot(rx[p + 1], cur)
      BY <3>1, <2>1
    <3>3. rx[1].seq + (p + 1) - 1 = rx[1].seq + p
      BY <3>1, <1>2
    <3> QED
      BY <3>1, <3>2, <3>3
  <2>3. r2 # <<>> => 1 \in DOMAIN r2
    BY <1>1, <1>4
  <2>4. ASSUME NEW p \in DOMAIN r2
        PROVE  r2[p].seq = r2[1].seq + p - 1 /\ InSnapshot(r2[p], cur)
    <3>1. 1 \in DOMAIN r2
      BY <1>1, <1>4
    <3>x. PICK x \in Nat : x = rx[1].seq
      BY <1>2
    <3>2. PICK y, z : y = r2[1].seq /\ z = r2[p].seq
      OBVIOUS
    <3>3. y = x + 1 /\ z = x + p /\ p \in Nat
      BY <3>1, <3>x, <3>2, <2>2
    <3>4. z = y + p - 1
      BY <3>3
    <3> QED
      BY <3>2, <3>4, <2>2
  <2> QED
    BY <2>2, <2>3, <2>4 DEF Chunk
<1>6. \A j \in DOMAIN snapNet : snapNet[j][1].seq \in Nat
  <2> SUFFICES ASSUME NEW j \in DOMAIN snapNet PROVE snapNet[j][1].seq \in Nat
    OBVIOUS
  <2>1. snapNet[j] \in Seq(Messages) /\ snapNet[j] # <<>>
    BY <1>3
  <2>2. snapNet[j][1] \in Messages
    BY <2>1
  <2> QED
    BY <2>2 DEF Messages
<1>7. PICK hi2, lab2 : /\ hi2 = IF rxSnapshot THEN cur ELSE hi
                       /\ lab2 = IF snapNet' = <<>> THEN <<>> ELSE lab
  OBVIOUS
<1>8. hi2 \in 0 .. lastInc' /\ cur \in 0 .. lastInc'
  BY <1>7
<1>9. lab2 \in [DOMAIN snapNet' -> 0 .. lastInc']
  <2>1. CASE snapNet' = <<>>
    BY <2>1, <1>7
  <2>2. CASE snapNet' # <<>>
    BY <2>2, <1>7
  <2> QED
    BY <2>1, <2>2
<1>10. \A j \in DOMAIN snapNet' :
          j \in DOMAIN snapNet /\ snapNet'[j] = snapNet[j] /\ lab2[j] = lab[j]
  <2>1. CASE snapNet' = <<>>
    BY <2>1
  <2>2. CASE snapNet' # <<>>
    BY <2>2, <1>7
  <2> QED
    BY <2>1, <2>2
<1>11. \A j \in DOMAIN snapNet' : snapNet'[j] # <<>> /\ Chunk(snapNet[j], lab2[j])'
  BY <1>3, <1>10, Same
<1>12. \A i, j \in DOMAIN snapNet' :
          i < j => lab2[i] <= lab2[j] \/ snapNet'[j][1].seq < snapNet'[i][1].seq
  BY <1>3, <1>10
<1>13. rxSnapshot => Chunk(rx, cur)'
  BY <1>4, <1>5, Same
<1>14. rxSnapshot /\ rx' # <<>> =>
          \A j \in DOMAIN snapNet' : cur <= lab2[j] \/ snapNet'[j][1].seq < rx'[1].seq
  <2> SUFFICES ASSUME rxSnapshot, rx' # <<>>, NEW j \in DOMAIN snapNet'
               PROVE  cur <= lab2[j] \/ snapNet'[j][1].seq < rx'[1].seq
    OBVIOUS
  <2>1. rx'[1].seq = rx[1].seq + 1
    BY <1>4, <1>5
  <2>2. snapNet[j][1].seq \in Nat /\ (cur <= lab[j] \/ snapNet[j][1].seq < rx[1].seq)
    BY <1>3, <1>6, <1>10
  <2>3. PICK x \in Nat, y \in Nat : x = snapNet[j][1].seq /\ y = rx[1].seq
    BY <2>2, <1>2
  <2>4. (cur <= lab[j] \/ x < y) /\ y < y + 1
    BY <2>2, <2>3
  <2>5. cur <= lab[j] \/ x < y + 1
    BY <2>4
  <2> QED
    BY <2>1, <2>3, <2>5, <1>10
<1>15. ASSUME S2 # {}
       PROVE  /\ Beginning(S2, hi2)'
              /\ \A j \in DOMAIN snapNet' :
                    hi2 <= lab2[j] \/ snapNet'[j][1].seq < Cardinality(S2)
              /\ rxSnapshot => hi2 <= cur
  <2>1. CASE ~rxSnapshot /\ S2 = snapMsgs
    <3>1. hi2 = hi /\ Beginning(S2, hi)
      BY <2>1, <1>3, <1>7, <1>15
    <3>2. Beginning(S2, hi)'
      BY <3>1, Same
    <3>3. \A j \in DOMAIN snapNet' : hi <= lab2[j] \/ snapNet'[j][1].seq < Cardinality(S2)
      BY <2>1, <1>3, <1>10, <1>15
    <3> QED
      BY <2>1, <3>1, <3>2, <3>3
  <2>2. CASE rxSnapshot /\ Beginning(S2, cur) /\ Cardinality(S2) = rx[1].seq + 1
    <3>1. hi2 = cur /\ Beginning(S2, cur)'
      BY <2>2, <1>7, Same
    <3>2. ASSUME NEW j \in DOMAIN snapNet'
          PROVE  cur <= lab2[j] \/ snapNet'[j][1].seq < Cardinality(S2)
      <4>1. snapNet[j][1].seq \in Nat /\ (cur <= lab[j] \/ snapNet[j][1].seq < rx[1].seq)
        BY <2>2, <1>3, <1>6, <1>10
      <4>2. PICK x \in Nat, y \in Nat : x = snapNet[j][1].seq /\ y = rx[1].seq
        BY <4>1, <1>2
      <4>3. cur <= lab[j] \/ x < y
        BY <4>1, <4>2
      <4>4. cur <= lab[j] \/ x < y + 1
        BY <4>3
      <4> QED
        BY <2>2, <4>2, <4>4, <1>10
    <3>3. cur <= cur
      OBVIOUS
    <3> QED
      BY <3>1, <3>2, <3>3
  <2> QED
    BY <2>1, <2>2, <1>15
<1>16. StreamInv(hi2, cur, lab2)'
  BY <1>11, <1>12, <1>13, <1>14, <1>15 DEF StreamInv
<1> QED
  BY <1>8, <1>9, <1>16

\* What is kept of the incremental stream: I is finite, each message is an
\* update that was published, and no number is there twice.
Kept(I) ==
    /\ IsFiniteSet(I)
    /\ \A m \in I : Incremental(m)
    /\ \A m, n \in I : m.seq = n.seq => m = n

LEMMA KeptMore ==
    ASSUME NEW I, Kept(I), NEW m, Incremental(m)
    PROVE  Kept(QueuedIncremental(I, m))
<1> DEFINE K == {n \in I : n.seq # m.seq}
<1>1. IsFiniteSet(I) /\ K \subseteq I
  BY DEF Kept
<1>2. IsFiniteSet(K)
  BY <1>1, FS_Subset
<1>3. IsFiniteSet(K \cup {m})
  BY <1>2, FS_AddElement
<1>4. QueuedIncremental(I, m) = K \cup {m}
  BY DEF QueuedIncremental
<1>5. \A n \in K \cup {m} : Incremental(n)
  BY DEF Kept
<1>6. \A n, r \in K \cup {m} : n.seq = r.seq => n = r
  BY DEF Kept
<1> HIDE DEF K
<1>7. Kept(K \cup {m})
  BY <1>3, <1>5, <1>6 DEF Kept
<1> QED
  BY <1>4, <1>7

LEMMA TakenIncremental ==
    ASSUME IncrementalInv, rx # <<>>, rx' = Tail(rx),
           UNCHANGED <<books, nextInc, outBuf, incNet, rxSnapshot>>,
           NEW K, Kept(K), K = incMsgs'
    PROVE  IncrementalInv'
<1>1. /\ Tail(rx) \in Seq(Messages)
      /\ ~rxSnapshot => \A p \in DOMAIN Tail(rx) : Incremental(Tail(rx)[p])
  BY HeadAndTail
<1>2. ~rxSnapshot => \A p \in DOMAIN rx' : Incremental(rx[p])'
  BY <1>1, Same
<1>3. \A p \in DOMAIN outBuf' : Incremental(outBuf[p])'
  BY Same DEF IncrementalInv
<1>4. \A j \in DOMAIN incNet' : \A p \in DOMAIN incNet'[j] : Incremental(incNet[j][p])'
  BY Same DEF IncrementalInv
<1>5. \A x \in incMsgs' : Incremental(x)'
  BY Same DEF Kept
<1>6. /\ IsFiniteSet(incMsgs') /\ \A x, y \in incMsgs' : x.seq = y.seq => x = y
  BY DEF Kept
<1> QED
  BY <1>1, <1>2, <1>3, <1>4, <1>5, <1>6 DEF IncrementalInv

\* A recovery that is completed leaves the client with the exchange's book,
\* unless the messages Q of the snapshot are of more than one.
LEMMA RebuiltIsBook ==
    ASSUME PublisherInv, view \in Images, NEW Q \in SUBSET Messages, NEW b \in Nat,
           \A q \in Q : q.seq \in 0 .. b, NEW I, Kept(I),
           NEW n \in 1 .. nextInc, ResumeAt(Q) = n, ~HasGap(I, n),
           NEW same \in BOOLEAN,
           same => \A book : AfterAll(book, Q) = books[n]
    PROVE  /\ Rebuilt(Q, I) \in Images
           /\ same => Rebuilt(Q, I) = books[FirstMissing(I, n)]
<1> DEFINE J == {m \in I : m.seq >= n}
<1>1. Rebuilt(Q, I) = AfterAll(AfterAll(view, Q), J)
  BY DEF Rebuilt
<1>2. nextInc \in Nat
  BY Constants DEF PublisherInv
<1>3. J \in SUBSET Messages /\ \A m \in J : m.seq \in 0 .. nextInc
  BY <1>2 DEF Kept, Incremental
<1>4. AfterAll(view, Q) \in Images
  BY AfterAllType
<1>5. /\ IsFiniteSet(I) /\ \A m \in I : Incremental(m)
      /\ \A m, r \in I : m.seq = r.seq => m = r
  BY DEF Kept
<1>6. AfterAll(books[n], J) = books[FirstMissing(I, n)]
  BY <1>5, CaughtUp
<1> HIDE DEF J
<1>7. Rebuilt(Q, I) \in Images
  BY <1>1, <1>2, <1>3, <1>4, AfterAllType
<1>8. same => Rebuilt(Q, I) = books[FirstMissing(I, n)]
  BY <1>1, <1>6
<1> QED
  BY <1>7, <1>8

LEMMA QueueMessageKeeps ==
    ASSUME DataInv, QueueMessage
    PROVE  DataInv'
<1>1. PublisherInv /\ SynthesizerInv /\ IncrementalInv /\ SnapshotInv /\ ViewInv
  BY DEF DataInv
<1>2. /\ UNCHANGED <<books, nextOrderId, nextInc, outBuf, snapQueue, orders, lastInc>>
      /\ UNCHANGED <<toSend, status, incNet, net, faults, rxSnapshot>>
      /\ rx # <<>> /\ rx' = Tail(rx)
      /\ snapNet' = IF inRecovery' THEN snapNet ELSE <<>>
  BY DEF QueueMessage, bookVars, publisherVars, synthVars, netVars
<1>3. PICK m, S, I : /\ m = Head(rx)
                     /\ S = IF inRecovery THEN snapMsgs ELSE {}
                     /\ I = IF inRecovery THEN incMsgs ELSE {}
  OBVIOUS
<1>4. PICK Q, J : /\ Q = IF rxSnapshot THEN QueuedSnapshot(S, m) ELSE S
                  /\ J = IF rxSnapshot THEN I ELSE QueuedIncremental(I, m)
  OBVIOUS
<1>5. CheckSnapshotSync(Q, J)
  <2>1. IF rxSnapshot THEN CheckSnapshotSync(QueuedSnapshot(S, m), I)
                      ELSE CheckSnapshotSync(S, QueuedIncremental(I, m))
    BY <1>3 DEF QueueMessage
  <2>2. CASE rxSnapshot
    BY <2>1, <2>2, <1>4
  <2>3. CASE ~rxSnapshot
    BY <2>1, <2>3, <1>4
  <2> QED
    BY <2>2, <2>3
<1>6. PublisherInv' /\ SynthesizerInv'
  BY <1>1, <1>2, KeptPublisher, KeptSynthesizer
<1>7. /\ m = rx[1] /\ m \in Messages /\ m.seq \in Nat /\ (~rxSnapshot => Incremental(m))
      /\ 1 \in DOMAIN rx
  <2>1. m = rx[1] /\ m \in Messages /\ (~rxSnapshot => Incremental(m)) /\ 1 \in DOMAIN rx
    BY <1>1, <1>2, <1>3, HeadAndTail
  <2> QED
    BY <2>1 DEF Messages
<1>8. /\ lastInc \in 0 .. nextInc - 1 /\ nextInc \in Nat /\ lastInc \in Nat
  BY <1>1, Constants DEF SynthesizerInv, PublisherInv
<1>9. Kept(J)
  <2>1. Kept(incMsgs)
    BY <1>1 DEF IncrementalInv, Kept
  <2>2. Kept({})
    BY FS_EmptySet DEF Kept
  <2>3. Kept(I)
    BY <2>1, <2>2, <1>3
  <2> QED
    BY <2>3, <1>4, <1>7, KeptMore
<1>10. PICK hi \in 0 .. lastInc, cur \in 0 .. lastInc,
           lab \in [DOMAIN snapNet -> 0 .. lastInc] : StreamInv(hi, cur, lab)
  BY <1>1 DEF SnapshotInv
<1>11. /\ S \in SUBSET Messages /\ IsFiniteSet(S) /\ Seqs(S) = 0 .. Cardinality(S) - 1
       /\ S # {} => S = snapMsgs
  <2>1. CASE inRecovery
    BY <2>1, <1>1, <1>3 DEF SnapshotInv
  <2>2. CASE ~inRecovery
    <3>1. S = {} /\ IsFiniteSet(S) /\ Cardinality(S) = 0
      BY <2>2, <1>3, FS_EmptySet
    <3>2. Seqs(S) = {} /\ 0 .. 0 - 1 = {}
      BY <3>1 DEF Seqs
    <3>3. Seqs(S) = 0 .. Cardinality(S) - 1
      BY <3>1, <3>2
    <3> QED
      BY <3>1, <3>3
  <2> QED
    BY <2>1, <2>2
<1>12. S # {} => /\ Beginning(S, hi)
                 /\ rxSnapshot => hi <= cur \/ m.seq < Cardinality(S)
  BY <1>2, <1>7, <1>10, <1>11 DEF StreamInv
<1>13. rxSnapshot => InSnapshot(m, cur)
  BY <1>7, <1>10 DEF StreamInv, Chunk
<1>14. ASSUME rxSnapshot, ~Discards(Q)
       PROVE  /\ Q \in SUBSET Messages /\ IsFiniteSet(Q) /\ m \in Q
              /\ Cardinality(Q) = m.seq + 1 /\ Seqs(Q) = 0 .. m.seq
              /\ \A q \in Q : q.seq \in 0 .. m.seq
              /\ \A q, r \in Q : q.seq = r.seq => q = r
              /\ \A q \in Q : q # m => q.u.type # "SNAPSHOT_END"
              /\ \E first \in Q :
                    /\ first.seq = 0 /\ first.u.type = "SNAPSHOT_START"
                    /\ \A q \in Q : \E i \in first.u.id .. cur : InSnapshot(q, i)
  <2>1. Q = QueuedSnapshot(S, m) /\ InSnapshot(m, cur)
    BY <1>4, <1>13, <1>14
  <2>2. S # {} => Beginning(S, hi) /\ (hi <= cur \/ m.seq < Cardinality(S))
    BY <1>12, <1>14
  <2> QED
    BY <2>1, <2>2, <1>1, <1>7, <1>8, <1>10, <1>11, <1>14, Continued
<1>15. ASSUME ~rxSnapshot PROVE Q = S /\ ~HasEnded(Q)
  <2>1. Q = S
    BY <1>4, <1>15
  <2>2. SUFFICES ASSUME S # {} PROVE Latest(S).u.type # "SNAPSHOT_END"
    BY <2>1 DEF HasEnded
  <2>3. Cardinality(S) \in Nat
    BY <1>11, FS_CardinalityType
  <2>4. \A q \in S : q.seq \in 0 .. Cardinality(S)
    <3> SUFFICES ASSUME NEW q \in S PROVE q.seq \in 0 .. Cardinality(S)
      OBVIOUS
    <3>1. q.seq \in 0 .. Cardinality(S) - 1
      BY <1>11 DEF Seqs
    <3> QED
      BY <3>1, <2>3
  <2>5. Latest(S) \in S
    BY <2>2, <2>3, <2>4, LatestIs
  <2> QED
    BY <2>2, <2>5, <1>12 DEF Beginning
<1>16. \/ Discards(Q) /\ snapMsgs' = {} /\ incMsgs' = J
       \/ /\ ~Discards(Q) /\ ~HasEnded(Q)
          /\ snapMsgs' = Q /\ incMsgs' = J
       \/ /\ ~Discards(Q) /\ HasEnded(Q)
          /\ snapMsgs' = {} /\ incMsgs' \in {J, {}}
  BY <1>5 DEF CheckSnapshotSync
<1>17. IncrementalInv'
  <2>1. PICK K : K = incMsgs'
    OBVIOUS
  <2>2. K = J \/ K = {}
    BY <2>1, <1>16
  <2>3. Kept({})
    BY FS_EmptySet DEF Kept
  <2>4. Kept(K)
    BY <2>2, <2>3, <1>9
  <2> QED
    BY <2>1, <2>4, <1>1, <1>2, TakenIncremental
<1>18. PICK S2 : S2 = snapMsgs'
  OBVIOUS
<1>19. /\ S2 \in SUBSET Messages /\ IsFiniteSet(S2) /\ Seqs(S2) = 0 .. Cardinality(S2) - 1
       /\ \/ S2 = {}
          \/ ~rxSnapshot /\ S2 = snapMsgs
          \/ rxSnapshot /\ Beginning(S2, cur) /\ Cardinality(S2) = rx[1].seq + 1
  <2>1. CASE S2 = {}
    <3>1. IsFiniteSet(S2) /\ Cardinality(S2) = 0
      BY <2>1, FS_EmptySet
    <3>2. Seqs(S2) = {}
      BY <2>1 DEF Seqs
    <3> QED
      BY <2>1, <3>1, <3>2
  <2>2. CASE S2 # {} /\ ~rxSnapshot
    BY <2>2, <1>11, <1>15, <1>16, <1>18
  <2>3. CASE S2 # {} /\ rxSnapshot
    <3>1. S2 = Q /\ ~Discards(Q) /\ ~HasEnded(Q)
      BY <2>3, <1>16, <1>18
    <3>2. m.seq = m.seq + 1 - 1
      BY <1>7
    <3>3. Q \in SUBSET Messages /\ IsFiniteSet(Q) /\ Seqs(Q) = 0 .. Cardinality(Q) - 1
      BY <3>1, <3>2, <2>3, <1>14
    <3>4. PICK first \in Q :
             /\ first.seq = 0 /\ first.u.type = "SNAPSHOT_START"
             /\ \A q \in Q : \E i \in first.u.id .. cur : InSnapshot(q, i)
      BY <3>1, <2>3, <1>14
    <3>5. Latest(Q) = m
      BY <3>1, <3>4, <2>3, <1>7, <1>14, Ends, SMTT(30)
    <3>6. m.u.type # "SNAPSHOT_END"
      BY <3>1, <3>5, <2>3, <1>14 DEF HasEnded
    <3>7. /\ \A q, r \in Q : q.seq = r.seq => q = r
          /\ \A q \in Q : q.u.type # "SNAPSHOT_END"
      BY <3>1, <3>6, <2>3, <1>14
    <3>8. Beginning(Q, cur)
      BY <3>4, <3>7 DEF Beginning
    <3>9. Cardinality(Q) = rx[1].seq + 1
      BY <3>1, <2>3, <1>7, <1>14
    <3> QED
      BY <2>3, <3>1, <3>3, <3>8, <3>9
  <2> QED
    BY <2>1, <2>2, <2>3
<1>20. snapNet \in Seq(Seq(Messages))
  BY <1>1 DEF SnapshotInv
<1>21. SnapshotInv'
  <2>1. snapNet' = snapNet \/ snapNet' = <<>>
    BY <1>2
  <2>2. \E hi2 \in 0 .. lastInc', cur2 \in 0 .. lastInc',
           lab2 \in [DOMAIN snapNet' -> 0 .. lastInc'] : StreamInv(hi2, cur2, lab2)'
    BY <2>1, <1>1, <1>2, <1>8, <1>10, <1>18, <1>19, <1>20, StreamAfter
  <2>3. Chunk(toSend, lastInc)' <=> Chunk(toSend, lastInc)
    BY <1>2, Same DEF Chunk
  <2>4. snapNet' \in Seq(Seq(Messages))
    <3>1. <<>> \in Seq(Seq(Messages))
      OBVIOUS
    <3> QED
      BY <3>1, <2>1, <1>20, Zenon
  <2>5. /\ snapMsgs' \in SUBSET Messages /\ IsFiniteSet(snapMsgs')
        /\ Seqs(snapMsgs)' = 0 .. Cardinality(snapMsgs') - 1
    BY <1>18, <1>19 DEF Seqs
  <2> QED
    BY <2>2, <2>3, <2>4, <2>5, <1>1, <1>2 DEF SnapshotInv
<1>22. ViewInv'
  <2>1. /\ view \in Images /\ nextExp \in 1 .. nextInc
        /\ merged \in BOOLEAN
    BY <1>1 DEF ViewInv
  <2>2. CASE /\ inRecovery' = TRUE /\ UNCHANGED <<nextExp, view, merged>>
    <3>1. nextExp' \in 1 .. nextInc' /\ view' \in Images /\ merged' \in BOOLEAN
      BY <2>1, <2>2, <1>2
    <3>2. inRecovery' \in BOOLEAN /\ inRecovery'
      BY <2>2
    <3> QED
      BY <3>1, <3>2 DEF ViewInv
  <2>3. CASE /\ ~Discards(Q) /\ HasEnded(Q)
             /\ nextExp' = FirstMissing(J, ResumeAt(Q))
             /\ IF HasGap(J, ResumeAt(Q))
                THEN UNCHANGED <<view, merged>> /\ inRecovery' = TRUE
                ELSE /\ view' = Rebuilt(Q, J)
                     /\ merged' = (Earliest(Q).u.id # Latest(Q).u.id)
                     /\ inRecovery' = FALSE
    <3>1. rxSnapshot
      BY <2>3, <1>15
    <3>2. /\ Q \in SUBSET Messages /\ m \in Q /\ Seqs(Q) = 0 .. m.seq
          /\ \A q \in Q : q.seq \in 0 .. m.seq
          /\ \A q, r \in Q : q.seq = r.seq => q = r
          /\ InSnapshot(m, cur)
      BY <3>1, <2>3, <1>13, <1>14
    <3>3. PICK first \in Q :
             /\ first.seq = 0
             /\ \A q \in Q : \E i \in first.u.id .. cur : InSnapshot(q, i)
      BY <3>1, <2>3, <1>14
    <3>4. PICK n, same : n = cur + 1 /\ same = (Earliest(Q).u.id = Latest(Q).u.id)
      OBVIOUS
    <3>5. /\ ResumeAt(Q) = n
          /\ same => \A book : AfterAll(book, Q) = books[n]
      BY <3>2, <3>3, <3>4, <2>3, <1>1, <1>8, <1>10, Completed
    <3>6. n \in 1 .. nextInc
      BY <3>4, <1>8, <1>10
    <3>7. FirstMissing(J, n) \in n .. nextInc
      BY <3>6, <1>1, <1>9, CaughtUp DEF Kept
    <3>8. nextExp' \in 1 .. nextInc' /\ nextExp' = FirstMissing(J, n)
      <4>1. nextExp' = FirstMissing(J, n)
        BY <2>3, <3>5
      <4> QED
        BY <4>1, <3>6, <3>7, <1>2, <1>8
    <3>9. CASE HasGap(J, n)
      <4>1. UNCHANGED <<view, merged>> /\ inRecovery' = TRUE
        BY <3>9, <3>5, <2>3
      <4> QED
        BY <4>1, <3>8, <2>1 DEF ViewInv
    <3>10. CASE ~HasGap(J, n)
      <4>1. /\ view' = Rebuilt(Q, J) /\ inRecovery' = FALSE
            /\ merged' = (Earliest(Q).u.id # Latest(Q).u.id)
        BY <3>10, <3>5, <2>3
      <4>2. same \in BOOLEAN
        BY <3>4
      <4>3. /\ Rebuilt(Q, J) \in Images
            /\ same => Rebuilt(Q, J) = books[FirstMissing(J, n)]
        BY <4>2, <3>2, <3>5, <3>6, <3>10, <2>1, <1>1, <1>7, <1>9, RebuiltIsBook
      <4>4. merged' \in BOOLEAN /\ (~merged' => same)
        BY <4>1, <3>4
      <4>5. ~merged' => view' = books'[nextExp']
        BY <4>1, <4>3, <4>4, <3>8, <1>2
      <4> QED
        BY <4>1, <4>3, <4>4, <4>5, <3>8 DEF ViewInv
    <3> QED
      BY <3>9, <3>10
  <2> QED
    BY <2>2, <2>3, <1>5 DEF CheckSnapshotSync
<1> QED
  BY <1>6, <1>17, <1>21, <1>22 DEF DataInv

-----------------------------------------------------------------------------
(* The theorems. *)

LEMMA DataStep ==
    ASSUME DataInv, [Next]_vars
    PROVE  DataInv'
<1>1. CASE \E u \in BookUpdates : PublishUpdate(u)
  BY <1>1, PublishKeeps
<1>2. CASE SendIncremental
  BY <1>2, SendIncrementalKeeps
<1>3. CASE Synthesize
  BY <1>3, AddToSnapshotKeeps, BeginSnapshotKeeps, SendSnapshotKeeps DEF Synthesize
<1>4. CASE Consume
  BY <1>4, RecvIncrementalKeeps, RecvSnapshotKeeps, HandOnKeeps, QueueMessageKeeps
     DEF Consume
<1>5. CASE UNCHANGED vars
  <2>1. /\ UNCHANGED <<books, nextOrderId, nextInc, outBuf, snapQueue, orders, lastInc>>
        /\ UNCHANGED <<toSend, status, incNet, snapNet, net, faults, rx, rxSnapshot>>
        /\ UNCHANGED <<nextExp, inRecovery, snapMsgs, incMsgs, view, merged>>
    BY <1>5 DEF vars, bookVars, publisherVars, synthVars, netVars, clientVars
  <2> QED
    BY <2>1, KeptPublisher, KeptSynthesizer, KeptIncremental, KeptSnapshot, KeptView
       DEF DataInv
<1> QED
  BY <1>1, <1>2, <1>3, <1>4, <1>5 DEF Next

LEMMA DataInvariant == Spec => []DataInv
<1>1. Init => DataInv
  BY InitData
<1>2. DataInv /\ [Next]_vars => DataInv'
  BY DataStep
<1> QED
  BY <1>1, <1>2, PTL DEF Spec

\* Whatever the network does, the publisher's, the synthesizer's and the client's
\* state stays within its domains, and next_expected_sequence_number never runs
\* ahead of the publisher's numbers, not even when checkSnapshotSync() sets it.
THEOREM DataTypeOK == Spec => []TypeOK
<1>1. DataInv => TypeOK
  <2> SUFFICES ASSUME DataInv PROVE TypeOK
    OBVIOUS
  <2>1. PublisherInv /\ SynthesizerInv /\ IncrementalInv /\ SnapshotInv /\ ViewInv
    BY DEF DataInv
  <2>2. \A n \in DOMAIN books : books[n] \in Images
    BY <2>1 DEF PublisherInv
  <2>3. orders \in Images
    <3>1. lastInc + 1 \in DOMAIN books /\ orders = books[lastInc + 1]
      <4>1. /\ books \in Seq(Images) /\ Len(books) = nextInc /\ nextInc \in Nat
            /\ lastInc \in 0 .. nextInc - 1 /\ orders = books[lastInc + 1]
        BY <2>1, Constants DEF PublisherInv, SynthesizerInv
      <4> QED
        BY <4>1
    <3> QED
      BY <3>1, <2>2
  <2>4. /\ nextOrderId \in [Tickers -> 1 .. MaxOrderId + 1]
        /\ nextInc \in 1 .. MaxUpdates + 1
        /\ status = "running" /\ faults \in 0 .. net.max
    BY <2>1 DEF PublisherInv
  <2>5. lastInc \in 0 .. nextInc - 1 /\ rxSnapshot \in BOOLEAN
    BY <2>1 DEF SynthesizerInv, IncrementalInv
  <2>6. /\ nextExp \in 1 .. nextInc /\ inRecovery \in BOOLEAN /\ merged \in BOOLEAN
        /\ view \in Images
    BY <2>1 DEF ViewInv
  <2> QED
    BY <2>2, <2>3, <2>4, <2>5, <2>6 DEF TypeOK, Images
<1> QED
  BY <1>1, DataInvariant, PTL

\* The image that the synthesizer's thread keeps from its own copy of the updates is
\* the book after the update it names in SNAPSHOT_START and SNAPSHOT_END, and no
\* ASSERT of addToSnapshot() can fail.
THEOREM DataSnapshotIsBook == Spec => []SnapshotIsBook
<1>1. DataInv => SnapshotIsBook
  BY DEF DataInv, PublisherInv, SynthesizerInv, SnapshotIsBook
<1> QED
  BY <1>1, DataInvariant, PTL

\* Outside recovery the updates handed on by recvCallback() and checkSnapshotSync()
\* amount to exactly the exchange's book before the next expected update, for
\* any losses, repetitions and overtakings on both streams; only a recovery
\* whose SNAPSHOT_START and SNAPSHOT_END are of different snapshots is excepted.
THEOREM DataInSync == Spec => []InSyncViewIsBook
<1>1. DataInv => InSyncViewIsBook
  BY DEF DataInv, ViewInv, InSyncViewIsBook
<1> QED
  BY <1>1, DataInvariant, PTL

=============================================================================
