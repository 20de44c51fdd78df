------------------------ MODULE LockFreeQueueProofs ------------------------
(***************************************************************************)
(* The queue is a FIFO channel and its assertion never fires, for every    *)
(* capacity, every set of payloads and every number of pushes, as long as  *)
(* its users keep the discipline below.                                    *)
(***************************************************************************)
EXTENDS LockFreeQueue, FiniteSetTheorems, TLAPS

\* One thread pushes, the consumer tests size(), and fewer elements wait
\* than the store has slots.
Discipline ==
    /\ \E p : Producers = {p}
    /\ SizeChecked
    /\ Backlog < Capacity

\* Slots from the read index up to the write index.
Distance == IF nextWrite >= nextRead THEN nextWrite - nextRead
            ELSE nextWrite - nextRead + Capacity

\* The slot i places after the read index, and the one before an index.
SlotAfter(i) == IF nextRead + i < Capacity THEN nextRead + i
                ELSE nextRead + i - Capacity
Before(i) == IF i = 0 THEN Capacity - 1 ELSE i - 1

\* The indices tell how much waits, and never more than Backlog does.
BacklogInv ==
    /\ Unread = Distance
    /\ Unread <= Backlog
    /\ \A p \in Producers :
          ppc[p] \in {"write", "load", "publish"} => Unread < Backlog

\* The slots between the two indices hold what was pushed and not yet used.
ContentInv ==
    \A i \in Nat : i < Unread => store[SlotAfter(i)] = pushed[Released + 1 + i]

\* A push in progress writes the slot at the write index.
PushInv ==
    \A p \in Producers :
        /\ ppc[p] \in {"write", "load", "publish"} => slot[p] = nextWrite
        /\ ppc[p] \in {"load", "publish"} =>
               store[nextWrite] = val[p] /\ val[p] \in Values
        /\ ppc[p] = "publish" => reg[p] = nextWrite

\* num lags behind the indices by the push and the pop in progress.
Counting(p) == IF ppc[p] = "count" THEN 1 ELSE 0
Dropping == IF cpc = "drop" THEN 1 ELSE 0
CountInv == \A p \in Producers : num + Counting(p) = Unread + Dropping

\* What the consumer knows at each of its steps.
ConsumerInv ==
    /\ ~exited
    /\ cpc = "check" => ptr = NoElement \/ (ptr = nextRead /\ Unread > 0)
    /\ cpc \in {"use", "advance", "drop"} => num > 0
    /\ cpc \in {"use", "advance"} => ptr = nextRead /\ Unread > 0
    /\ cpc \in {"drop", "reread"} =>
           /\ ptr = Before(nextRead)
           /\ Len(received) > 0
           /\ store[ptr] = received[Len(received)]

\* The histories are prefixes of one another.
HistoryInv ==
    /\ Len(received) <= Len(pushed)
    /\ cpc = "advance" => Len(received) > 0
    /\ \A i \in 1 .. Len(received) : received[i] = pushed[i]
    /\ \A i \in 1 .. Len(forwarded) : forwarded[i] = received[i]
    /\ Len(forwarded) <= Len(received)
    /\ ReadsAfterRelease =>
           Len(forwarded) = IF cpc \in {"advance", "drop", "reread"}
                            THEN Len(received) - 1 ELSE Len(received)
    /\ ~ReadsAfterRelease => Len(forwarded) = 0 /\ cpc # "reread"

QueueInv ==
    /\ TypeOK
    /\ BacklogInv
    /\ ContentInv
    /\ PushInv
    /\ CountInv
    /\ ConsumerInv
    /\ HistoryInv

-----------------------------------------------------------------------------
(* Lemmas. *)

\* NextIndex, the % of updateWriteIndex and updateReadIndex, goes one slot on
\* or wraps to the first.
LEMMA NextIndexWraps ==
    \A i \in Indices :
        /\ NextIndex(i) \in Indices
        /\ NextIndex(i) = IF i + 1 = Capacity THEN 0 ELSE i + 1
BY QueueAssumption, SMT DEF NextIndex, Indices

\* With a single producer, the one that is idle leaves no push in flight.
LEMMA IdleMeansNoneInFlight ==
    ASSUME Discipline, NEW p \in Producers, ppc[p] = "idle"
    PROVE  Cardinality(InFlight) = 0
<1>1. InFlight = {}
  BY DEF Discipline, InFlight
<1>2. QED
  BY <1>1, FS_EmptySet

\* The constructor's state satisfies the invariant.
LEMMA InitQueueInv == Init => QueueInv
<1> SUFFICES ASSUME Init PROVE QueueInv
  OBVIOUS
<1> USE QueueAssumption
<1>1. TypeOK
  <2>1. exited \in BOOLEAN
    BY Zenon DEF Init
  <2>2. 0 \in Indices
    BY DEF Indices
  <2>3. QED
    BY <2>1, <2>2 DEF Init, TypeOK
<1>2. Unread = 0 /\ Released = 0 /\ Distance = 0
  BY DEF Init, Unread, Released, Distance
<1>3. BacklogInv /\ ContentInv
  BY <1>2 DEF BacklogInv, ContentInv, Init
<1>4. PushInv /\ CountInv /\ ConsumerInv /\ HistoryInv
  BY <1>2 DEF PushInv, CountInv, ConsumerInv, HistoryInv, Init, Counting,
              Dropping
<1>5. QED
  BY <1>1, <1>3, <1>4 DEF QueueInv

(* The invariant is preserved, one lemma for each step of the two threads. *)

\* The number of elements waiting, and of slots given back, are naturals.
LEMMA UnreadIsNat ==
    ASSUME QueueInv
    PROVE  /\ Unread \in Nat /\ Released \in Nat
           /\ Len(pushed) \in Nat /\ Len(received) \in Nat
           /\ Unread = Len(pushed) - Released
           /\ Released <= Len(received) /\ Len(received) <= Len(pushed)
<1>1. Len(pushed) \in Nat /\ Len(received) \in Nat
  BY DEF QueueInv, TypeOK
<1>2. QED
  BY <1>1 DEF QueueInv, HistoryInv, Unread, Released

\* A push that begins takes the slot at the write index.
LEMMA GetNextToWriteStep ==
    ASSUME Discipline, QueueInv, NEW p \in Producers, GetNextToWrite(p)
    PROVE  QueueInv'
<1> USE QueueAssumption DEF QueueInv
<1>1. TypeOK'
  BY DEF TypeOK, GetNextToWrite, consumerVars, Indices
<1>2. Unread < Backlog
  BY IdleMeansNoneInFlight DEF GetNextToWrite, TypeOK, Unread, Released
<1>3. Unread' = Unread /\ Released' = Released /\ Distance' = Distance
  BY DEF GetNextToWrite, consumerVars, Unread, Released, Distance
<1>4. BacklogInv' /\ ContentInv'
  BY <1>2, <1>3 DEF BacklogInv, ContentInv, GetNextToWrite, TypeOK, SlotAfter
<1>5. PushInv' /\ CountInv'
  BY <1>3 DEF PushInv, CountInv, Counting, Dropping, GetNextToWrite, TypeOK,
              consumerVars
<1>6. ConsumerInv' /\ HistoryInv'
  BY <1>3 DEF ConsumerInv, HistoryInv, GetNextToWrite, consumerVars, Before
<1>7. QED
  BY <1>1, <1>4, <1>5, <1>6

\* Filling the slot at the write index touches no slot that is waiting to be
\* read, nor the one the consumer may still be copying.
LEMMA WriteSlotStep ==
    ASSUME Discipline, QueueInv, NEW p \in Producers, NEW v \in Values,
           WriteSlot(p, v)
    PROVE  QueueInv'
<1> USE QueueAssumption DEF QueueInv
<1>1. TypeOK'
  BY DEF TypeOK, WriteSlot, consumerVars, Indices
<1>2. Unread' = Unread /\ Released' = Released /\ Distance' = Distance
  BY DEF WriteSlot, consumerVars, Unread, Released, Distance
<1>3. /\ slot[p] = nextWrite
      /\ store' = [store EXCEPT ![nextWrite] = v]
      /\ nextWrite' = nextWrite /\ nextRead' = nextRead
  BY DEF PushInv, WriteSlot
<1>4. Unread = Distance /\ Unread < Backlog /\ Backlog < Capacity
      /\ Capacity \in Nat /\ Backlog \in Nat
      /\ nextRead \in Indices /\ nextWrite \in Indices
  BY DEF BacklogInv, WriteSlot, TypeOK, Discipline
<1>5. BacklogInv'
  BY <1>2, <1>4 DEF BacklogInv, WriteSlot, TypeOK
<1>6. ContentInv'
  <2>1. ASSUME NEW i \in Nat, i < Unread PROVE SlotAfter(i) # nextWrite
    BY <1>4, <2>1 DEF SlotAfter, Distance, Indices
  <2>2. ASSUME NEW i \in Nat, i < Unread PROVE SlotAfter(i) \in Indices
    BY <1>4, <2>2, UnreadIsNat DEF SlotAfter, Indices
  <2>3. QED
    BY <1>2, <1>3, <2>1, <2>2 DEF ContentInv, SlotAfter, WriteSlot, TypeOK
<1>7. PushInv' /\ CountInv'
  BY <1>2, <1>3 DEF PushInv, CountInv, Counting, Dropping, WriteSlot, TypeOK,
                    consumerVars, Discipline
<1>8. ConsumerInv'
  <2>1. Before(nextRead) # nextWrite
    BY <1>4 DEF Before, Distance, Indices
  <2>2. QED
    BY <1>2, <1>3, <1>4, <2>1
    DEF ConsumerInv, WriteSlot, consumerVars, TypeOK, Before, Indices
<1>9. HistoryInv'
  BY DEF HistoryInv, WriteSlot, consumerVars
<1>10. QED
  BY <1>1, <1>5, <1>6, <1>7, <1>8, <1>9

\* With one producer the index loaded is still the write index when stored.
LEMMA LoadWriteIndexStep ==
    ASSUME Discipline, QueueInv, NEW p \in Producers, LoadWriteIndex(p)
    PROVE  QueueInv'
<1> USE QueueAssumption DEF QueueInv
<1>1. TypeOK'
  BY DEF TypeOK, LoadWriteIndex, consumerVars, Indices
<1>2. Unread' = Unread /\ Released' = Released /\ Distance' = Distance
  BY DEF LoadWriteIndex, consumerVars, Unread, Released, Distance
<1>3. BacklogInv' /\ ContentInv'
  BY <1>2 DEF BacklogInv, ContentInv, LoadWriteIndex, TypeOK, SlotAfter
<1>4. PushInv' /\ CountInv'
  BY <1>2 DEF PushInv, CountInv, Counting, Dropping, LoadWriteIndex, TypeOK,
              consumerVars
<1>5. ConsumerInv' /\ HistoryInv'
  BY <1>2 DEF ConsumerInv, HistoryInv, LoadWriteIndex, consumerVars, Before
<1>6. QED
  BY <1>1, <1>3, <1>4, <1>5

\* Publishing moves the write index past a filled slot; the ring does not
\* become full, so it does not look empty.
LEMMA PublishWriteIndexStep ==
    ASSUME Discipline, QueueInv, NEW p \in Producers, PublishWriteIndex(p)
    PROVE  QueueInv'
<1> USE QueueAssumption DEF QueueInv
<1>1. /\ reg[p] = nextWrite /\ store[nextWrite] = val[p] /\ val[p] \in Values
      /\ nextWrite \in Indices /\ nextRead \in Indices
      /\ pushed \in Seq(Values)
      /\ Unread = Distance /\ Unread < Backlog /\ Backlog < Capacity
      /\ Capacity \in Nat /\ Backlog \in Nat
  BY DEF PushInv, PublishWriteIndex, TypeOK, BacklogInv, Discipline
<1>2. /\ nextWrite' = IF nextWrite + 1 = Capacity THEN 0 ELSE nextWrite + 1
      /\ nextWrite' \in Indices
      /\ pushed' = Append(pushed, val[p])
      /\ pushed' \in Seq(Values)
      /\ Len(pushed') = Len(pushed) + 1
      /\ received' = received /\ forwarded' = forwarded
      /\ nextRead' = nextRead /\ store' = store /\ cpc' = cpc
      /\ ptr' = ptr /\ num' = num /\ exited' = exited
  BY <1>1, NextIndexWraps DEF PublishWriteIndex, consumerVars
<1>3. TypeOK'
  BY <1>2 DEF TypeOK, PublishWriteIndex
<1>4. Released' = Released /\ Unread' = Unread + 1
  BY <1>1, <1>2 DEF Released, Unread, TypeOK
<1>5. Distance' = Distance + 1
  BY <1>1, <1>2 DEF Distance, Indices
<1>6. BacklogInv'
  <2>1. \A q \in Producers : ppc'[q] = "count"
    BY DEF PublishWriteIndex, TypeOK, Discipline
  <2>2. QED
    BY <1>1, <1>4, <1>5, <2>1, UnreadIsNat DEF BacklogInv
<1>7. ContentInv'
  <2>1. SlotAfter(Unread) = nextWrite
    BY <1>1 DEF SlotAfter, Distance, Indices
  <2>2. /\ Unread = Len(pushed) - Released /\ Released \in Nat
        /\ Len(pushed) \in Nat
    BY <1>1 DEF Unread, Released, TypeOK, HistoryInv
  <2>3. pushed'[Released + 1 + Unread] = val[p]
    BY <1>1, <1>2, <2>2
  <2>4. ASSUME NEW i \in Nat, i < Unread
        PROVE  pushed'[Released + 1 + i] = pushed[Released + 1 + i]
    BY <1>1, <1>2, <2>2, <2>4
  <2>5. \A i \in Nat : SlotAfter(i)' = SlotAfter(i)
    BY <1>2 DEF SlotAfter
  <2>6. SUFFICES ASSUME NEW i \in Nat, i < Unread + 1
                 PROVE  store[SlotAfter(i)] = pushed'[Released + 1 + i]
    BY <1>2, <1>4, <2>5 DEF ContentInv
  <2>7. CASE i = Unread
    BY <1>1, <2>1, <2>3, <2>7
  <2>8. CASE i < Unread
    BY <2>4, <2>8 DEF ContentInv
  <2>9. QED
    BY <2>2, <2>6, <2>7, <2>8
<1>8. PushInv'
  BY DEF PushInv, PublishWriteIndex, TypeOK, Discipline
<1>9. CountInv'
  <2>1. \A q \in Producers : ppc'[q] = "count" /\ ppc[q] = "publish"
    BY DEF PublishWriteIndex, TypeOK, Discipline
  <2>2. num \in Nat /\ Dropping' = Dropping /\ Dropping \in Nat
    BY <1>2 DEF TypeOK, Dropping
  <2>3. \A q \in Producers : Counting(q) = 0 /\ Counting(q)' = 1
    BY <2>1 DEF Counting
  <2>4. QED
    BY <1>2, <1>4, <2>2, <2>3, UnreadIsNat DEF CountInv
<1>10. ConsumerInv'
  BY <1>2, <1>4, UnreadIsNat DEF ConsumerInv, Before
<1>11. HistoryInv'
  <2>1. \A i \in 1 .. Len(received) : pushed'[i] = pushed[i]
    BY <1>1, <1>2, UnreadIsNat
  <2>2. QED
    BY <1>2, <2>1, UnreadIsNat DEF HistoryInv
<1>12. QED
  BY <1>3, <1>6, <1>7, <1>8, <1>9, <1>10, <1>11

\* Counting closes the gap between the indices and num_elements.
LEMMA CountElementStep ==
    ASSUME Discipline, QueueInv, NEW p \in Producers, CountElement(p)
    PROVE  QueueInv'
<1> USE QueueAssumption DEF QueueInv
<1>1. TypeOK'
  BY DEF TypeOK, CountElement, consumerVars, Indices
<1>2. Unread' = Unread /\ Released' = Released /\ Distance' = Distance
  BY DEF CountElement, consumerVars, Unread, Released, Distance
<1>3. BacklogInv' /\ ContentInv'
  BY <1>2 DEF BacklogInv, ContentInv, CountElement, TypeOK, SlotAfter
<1>4. PushInv'
  BY <1>2 DEF PushInv, CountElement, TypeOK, Discipline
<1>5. CountInv'
  BY <1>2 DEF CountInv, Counting, Dropping, CountElement, TypeOK, Discipline,
              consumerVars
<1>6. ConsumerInv' /\ HistoryInv'
  BY <1>2 DEF ConsumerInv, HistoryInv, CountElement, consumerVars, Before,
              TypeOK
<1>7. QED
  BY <1>1, <1>3, <1>4, <1>5, <1>6

\* Looking at the indices finds an element only where one is waiting.
LEMMA GetNextToReadStep ==
    ASSUME Discipline, QueueInv, GetNextToRead
    PROVE  QueueInv'
<1> USE QueueAssumption DEF QueueInv
<1>1. TypeOK'
  BY DEF TypeOK, GetNextToRead, producerVars, NoElement, Indices
<1>2. Unread' = Unread /\ Released' = Released /\ Distance' = Distance
  BY DEF GetNextToRead, Unread, Released, Distance
<1>3. BacklogInv' /\ ContentInv' /\ PushInv' /\ CountInv'
  BY <1>2 DEF BacklogInv, ContentInv, PushInv, CountInv, Counting, Dropping,
              GetNextToRead, producerVars, SlotAfter
<1>4. nextRead # nextWrite => Unread > 0
  BY DEF BacklogInv, Distance, TypeOK, Indices
<1>5. ConsumerInv'
  BY <1>2, <1>4 DEF ConsumerInv, GetNextToRead
<1>6. HistoryInv'
  BY DEF HistoryInv, GetNextToRead
<1>7. QED
  BY <1>1, <1>3, <1>5, <1>6

\* size() # 0 makes the later assertion safe: only the consumer lowers it.
LEMMA CheckSizeStep ==
    ASSUME Discipline, QueueInv, CheckSize
    PROVE  QueueInv'
<1> USE QueueAssumption DEF QueueInv
<1>1. TypeOK'
  BY DEF TypeOK, CheckSize, producerVars
<1>2. /\ Unread' = Unread /\ Released' = Released /\ Distance' = Distance
      /\ Dropping' = Dropping
  BY DEF CheckSize, Unread, Released, Distance, Dropping
<1>3. BacklogInv' /\ ContentInv' /\ PushInv' /\ CountInv'
  BY <1>2 DEF BacklogInv, ContentInv, PushInv, CountInv, Counting,
              CheckSize, producerVars, SlotAfter
<1>4. ConsumerInv'
  <2>1. cpc' = "use" => num > 0 /\ ptr = nextRead /\ Unread > 0
    BY DEF CheckSize, ConsumerInv, Discipline, TypeOK
  <2>2. QED
    BY <1>2, <2>1 DEF ConsumerInv, CheckSize
<1>5. HistoryInv'
  BY DEF HistoryInv, CheckSize
<1>6. QED
  BY <1>1, <1>3, <1>4, <1>5

\* The element used is the oldest one not used yet.
LEMMA UseElementStep ==
    ASSUME Discipline, QueueInv, UseElement
    PROVE  /\ QueueInv'
           /\ Len(received) < Len(pushed)
           /\ received' = Append(received, pushed[Len(received) + 1])
<1> USE QueueAssumption DEF QueueInv
<1>1. /\ cpc = "use" /\ cpc' = "advance" /\ ptr = nextRead /\ Unread > 0
      /\ Released = Len(received) /\ nextRead \in Indices
      /\ received \in Seq(Values \cup {EmptySlot})
      /\ pushed \in Seq(Values)
  BY DEF UseElement, ConsumerInv, TypeOK, Released
<1>2. store[ptr] = pushed[Len(received) + 1]
  <2>1. SlotAfter(0) = nextRead
    BY <1>1 DEF SlotAfter, Indices
  <2>2. QED
    BY <1>1, <2>1, UnreadIsNat DEF ContentInv
<1>3. Len(received) < Len(pushed)
  BY <1>1, UnreadIsNat
<1>4. pushed[Len(received) + 1] \in Values
  BY <1>1, <1>3, UnreadIsNat
<1>5. /\ received' = Append(received, pushed[Len(received) + 1])
      /\ received' \in Seq(Values \cup {EmptySlot})
      /\ Len(received') = Len(received) + 1
  BY <1>1, <1>2, <1>4 DEF UseElement
<1>6. TypeOK'
  BY <1>1, <1>5 DEF TypeOK, UseElement, producerVars
<1>7. /\ Unread' = Unread /\ Released' = Released /\ Distance' = Distance
      /\ Dropping' = Dropping
  BY <1>1, <1>5, UnreadIsNat DEF UseElement, Unread, Released, Distance,
                                 Dropping
<1>8. BacklogInv' /\ ContentInv' /\ PushInv' /\ CountInv'
  BY <1>7 DEF BacklogInv, ContentInv, PushInv, CountInv, Counting,
              UseElement, producerVars, SlotAfter
<1>9. ConsumerInv'
  BY <1>1, <1>7 DEF ConsumerInv, UseElement
<1>10. HistoryInv'
  <2>1. \A i \in 1 .. Len(received) : received'[i] = received[i]
    BY <1>1, <1>5
  <2>2. received'[Len(received) + 1] = pushed[Len(received) + 1]
    BY <1>1, <1>5
  <2>3. pushed' = pushed /\ forwarded' = forwarded
    BY DEF UseElement
  <2>4. \A i \in 1 .. Len(received') : received'[i] = pushed[i]
    BY <1>5, <2>1, <2>2, UnreadIsNat DEF HistoryInv
  <2>5. Len(forwarded) \in Nat
    BY DEF TypeOK
  <2>6. \A i \in 1 .. Len(forwarded) : forwarded[i] = received'[i]
    BY <2>1, <2>5, UnreadIsNat DEF HistoryInv
  <2>7. QED
    BY <1>1, <1>3, <1>5, <2>3, <2>4, <2>5, <2>6, UnreadIsNat DEF HistoryInv
<1>11. QED
  BY <1>3, <1>5, <1>6, <1>8, <1>9, <1>10

\* Giving a slot back shifts the window of waiting slots by one.
LEMMA AdvanceReadIndexStep ==
    ASSUME Discipline, QueueInv, AdvanceReadIndex
    PROVE  QueueInv'
<1> USE QueueAssumption DEF QueueInv
<1>1. /\ cpc = "advance" /\ cpc' = "drop" /\ ptr = nextRead /\ ptr' = ptr
      /\ Unread > 0 /\ num > 0 /\ num' = num /\ exited' = exited
      /\ nextRead \in Indices /\ nextWrite \in Indices
      /\ nextWrite' = nextWrite /\ store' = store
      /\ received' = received /\ pushed' = pushed /\ forwarded' = forwarded
      /\ ppc' = ppc /\ slot' = slot /\ reg' = reg /\ val' = val
      /\ Unread = Distance
  BY DEF AdvanceReadIndex, ConsumerInv, TypeOK, BacklogInv, producerVars
<1>2. /\ nextRead' = IF nextRead + 1 = Capacity THEN 0 ELSE nextRead + 1
      /\ nextRead' \in Indices
  BY <1>1, NextIndexWraps DEF AdvanceReadIndex
<1>3. TypeOK'
  BY <1>1, <1>2 DEF TypeOK
<1>4. Released' = Released + 1 /\ Unread' = Unread - 1
  BY <1>1, UnreadIsNat DEF Released, Unread
<1>5. Distance' = Distance - 1
  BY <1>1, <1>2 DEF Distance, Indices
<1>6. BacklogInv'
  BY <1>1, <1>4, <1>5, UnreadIsNat DEF BacklogInv
<1>7. ContentInv'
  <2>1. ASSUME NEW i \in Nat, i < Unread - 1
        PROVE  SlotAfter(i)' = SlotAfter(i + 1)
    BY <1>1, <1>2, <2>1 DEF SlotAfter, Distance, Indices
  <2>2. SUFFICES ASSUME NEW i \in Nat, i < Unread - 1
                 PROVE  store[SlotAfter(i + 1)] = pushed[Released + 1 + (i + 1)]
    BY <1>1, <1>4, <2>1, UnreadIsNat DEF ContentInv
  <2>3. i + 1 \in Nat /\ i + 1 < Unread
    BY <2>2, UnreadIsNat
  <2>4. QED
    BY <2>3 DEF ContentInv
<1>8. PushInv'
  BY <1>1 DEF PushInv
<1>9. CountInv'
  <2>1. Dropping = 0 /\ Dropping' = 1
    BY <1>1 DEF Dropping
  <2>2. \A p \in Producers : Counting(p)' = Counting(p) /\ Counting(p) \in Nat
    BY <1>1 DEF Counting
  <2>3. num \in Nat
    BY DEF TypeOK
  <2>4. QED
    BY <1>1, <1>4, <2>1, <2>2, <2>3, UnreadIsNat DEF CountInv
<1>10. ConsumerInv'
  <2>1. nextRead = Before(nextRead')
    BY <1>1, <1>2 DEF Before, Indices
  <2>2. Len(received) > 0 /\ Released = Len(received) - 1
    BY <1>1 DEF HistoryInv, Released
  <2>3. SlotAfter(0) = nextRead
    BY <1>1 DEF SlotAfter, Indices
  <2>4. store[nextRead] = pushed[Len(received)]
    BY <1>1, <2>2, <2>3, UnreadIsNat DEF ContentInv
  <2>5. store[nextRead] = received[Len(received)]
    BY <2>2, <2>4, UnreadIsNat DEF HistoryInv
  <2>6. QED
    BY <1>1, <2>1, <2>2, <2>5 DEF ConsumerInv, Before
<1>11. HistoryInv'
  BY <1>1 DEF HistoryInv
<1>12. QED
  BY <1>3, <1>6, <1>7, <1>8, <1>9, <1>10, <1>11

\* The assertion holds, and the count is lowered.
LEMMA DropCountStep ==
    ASSUME Discipline, QueueInv, DropCount
    PROVE  QueueInv'
<1> USE QueueAssumption DEF QueueInv
<1>1. /\ cpc = "drop" /\ num > 0 /\ num \in Nat /\ num' = num - 1
      /\ cpc' = (IF ReadsAfterRelease THEN "reread" ELSE "poll")
      /\ ptr' = ptr /\ exited' = exited
      /\ nextRead' = nextRead /\ nextWrite' = nextWrite /\ store' = store
      /\ received' = received /\ pushed' = pushed /\ forwarded' = forwarded
      /\ ppc' = ppc /\ slot' = slot /\ reg' = reg /\ val' = val
  BY DEF DropCount, ConsumerInv, TypeOK, producerVars
<1>2. TypeOK'
  BY <1>1 DEF TypeOK
<1>3. Released' = Released /\ Unread' = Unread /\ Distance' = Distance
  BY <1>1 DEF Released, Unread, Distance
<1>4. BacklogInv' /\ ContentInv' /\ PushInv'
  BY <1>1, <1>3 DEF BacklogInv, ContentInv, PushInv, SlotAfter
<1>5. CountInv'
  <2>1. Dropping = 1 /\ Dropping' = 0
    BY <1>1 DEF Dropping
  <2>2. \A p \in Producers : Counting(p)' = Counting(p) /\ Counting(p) \in Nat
    BY <1>1 DEF Counting
  <2>3. QED
    BY <1>1, <1>3, <2>1, <2>2, UnreadIsNat DEF CountInv
<1>6. ConsumerInv'
  BY <1>1, <1>3 DEF ConsumerInv, Before
<1>7. HistoryInv'
  BY <1>1 DEF HistoryInv
<1>8. QED
  BY <1>2, <1>4, <1>5, <1>6, <1>7

\* The slot just released still holds the element it held.
LEMMA RereadElementStep ==
    ASSUME Discipline, QueueInv, RereadElement
    PROVE  QueueInv'
<1> USE QueueAssumption DEF QueueInv
<1>1. /\ cpc = "reread" /\ cpc' = "poll" /\ num' = num
      /\ ptr' = ptr /\ exited' = exited
      /\ nextRead' = nextRead /\ nextWrite' = nextWrite /\ store' = store
      /\ received' = received /\ pushed' = pushed
      /\ ppc' = ppc /\ slot' = slot /\ reg' = reg /\ val' = val
      /\ Len(received) > 0
      /\ store[ptr] = received[Len(received)]
      /\ forwarded \in Seq(Values \cup {EmptySlot})
      /\ received \in Seq(Values \cup {EmptySlot})
  BY DEF RereadElement, ConsumerInv, TypeOK, producerVars
<1>2. received[Len(received)] \in Values \cup {EmptySlot}
  BY <1>1, UnreadIsNat
<1>3. /\ forwarded' = Append(forwarded, received[Len(received)])
      /\ forwarded' \in Seq(Values \cup {EmptySlot})
      /\ Len(forwarded') = Len(forwarded) + 1
  BY <1>1, <1>2 DEF RereadElement
<1>4. TypeOK'
  BY <1>1, <1>3 DEF TypeOK
<1>5. /\ Released' = Released /\ Unread' = Unread /\ Distance' = Distance
      /\ Dropping' = Dropping
  BY <1>1 DEF Released, Unread, Distance, Dropping
<1>6. BacklogInv' /\ ContentInv' /\ PushInv' /\ CountInv'
  BY <1>1, <1>5 DEF BacklogInv, ContentInv, PushInv, CountInv, Counting,
                    SlotAfter
<1>7. ConsumerInv'
  BY <1>1, <1>5 DEF ConsumerInv
<1>8. HistoryInv'
  <2>1. ReadsAfterRelease /\ Len(forwarded) = Len(received) - 1
    BY <1>1 DEF HistoryInv
  <2>2. \A i \in 1 .. Len(forwarded) : forwarded'[i] = forwarded[i]
    BY <1>1, <1>3
  <2>3. forwarded'[Len(received)] = received[Len(received)]
    BY <1>1, <1>3, <2>1, UnreadIsNat
  <2>4. \A i \in 1 .. Len(forwarded') : forwarded'[i] = received[i]
    BY <1>3, <2>1, <2>2, <2>3, UnreadIsNat DEF HistoryInv
  <2>5. QED
    BY <1>1, <1>3, <2>1, <2>4, UnreadIsNat DEF HistoryInv
<1>9. QED
  BY <1>4, <1>6, <1>7, <1>8

\* Every step of either thread preserves the invariant.
LEMMA NextQueueInv ==
    ASSUME Discipline, QueueInv, [Next]_vars
    PROVE  QueueInv'
<1>1. CASE Consume
  BY <1>1, GetNextToReadStep, CheckSizeStep, UseElementStep,
     AdvanceReadIndexStep, DropCountStep, RereadElementStep DEF Consume
<1>2. ASSUME NEW p \in Producers, GetNextToWrite(p) \/ FinishPush(p)
      PROVE  QueueInv'
  BY <1>2, GetNextToWriteStep, WriteSlotStep, LoadWriteIndexStep,
     PublishWriteIndexStep, CountElementStep DEF FinishPush
<1>3. CASE UNCHANGED vars
  BY <1>3 DEF vars, producerVars, consumerVars, QueueInv, TypeOK, BacklogInv,
     ContentInv, PushInv, CountInv, ConsumerInv, HistoryInv, Unread, Released,
     Distance, SlotAfter, Before, Counting, Dropping
<1>4. QED
  BY <1>1, <1>2, <1>3 DEF Next

-----------------------------------------------------------------------------
(* Theorems. *)

\* The invariant holds throughout.
THEOREM QueueInvariant == ASSUME Discipline PROVE Spec => []QueueInv
BY InitQueueInv, NextQueueInv, PTL DEF Spec

\* TypeOK holds throughout: in particular the indices of LockFreeQueue stay
\* within its store.
THEOREM TypeCorrect == ASSUME Discipline PROVE Spec => []TypeOK
<1>1. QueueInv => TypeOK
  BY DEF QueueInv
<1>2. QED
  BY <1>1, QueueInvariant, PTL

\* The assertion in updateReadIndex never fires when the consumer tests
\* size() before it takes an element.
THEOREM AssertionHolds == ASSUME Discipline PROVE Spec => []NoInvalidRead
<1>1. QueueInv => NoInvalidRead
  BY DEF QueueInv, ConsumerInv, NoInvalidRead
<1>2. QED
  BY <1>1, QueueInvariant, PTL

\* getNextToRead() never reports an empty queue while an element waits.
THEOREM NothingHidden == ASSUME Discipline PROVE Spec => []NoElementHidden
<1>1. QueueInv => NoElementHidden
  BY DEF QueueInv, BacklogInv, Distance, TypeOK, Indices, NoElementHidden
<1>2. QED
  BY <1>1, QueueInvariant, PTL

\* What MarketDataPublisher::run copies through the released pointer is what
\* it sent.
THEOREM ReleasedPointerSafe ==
    ASSUME Discipline PROVE Spec => []ForwardedAsReceived
<1>1. QueueInv => ForwardedAsReceived
  BY DEF QueueInv, HistoryInv, ForwardedAsReceived
<1>2. QED
  BY <1>1, QueueInvariant, PTL

\* The queue implements the FIFO channel: publishing the write index is Put,
\* using an element is Get, and every other step changes nothing there.
THEOREM QueueImplementsFifo == ASSUME Discipline PROVE Spec => ImplementsFifo
<1>1. Init => Fifo!Init
  BY DEF Init, Fifo!Init
<1>2. QueueInv /\ [Next]_vars => [Fifo!Next]_(Fifo!vars)
  <2> SUFFICES ASSUME QueueInv, [Next]_vars
               PROVE  [Fifo!Next]_(Fifo!vars)
    OBVIOUS
  <2>1. CASE UseElement
    BY <2>1, UseElementStep
    DEF UseElement, Fifo!Next, Fifo!Get
  <2>2. ASSUME NEW p \in Producers, PublishWriteIndex(p)
        PROVE  Fifo!Next
    <3>1. val[p] \in Values
      BY <2>2 DEF QueueInv, PushInv, PublishWriteIndex
    <3>2. Fifo!Put(val[p])
      BY <2>2 DEF PublishWriteIndex, Fifo!Put
    <3>3. QED
      BY <3>1, <3>2 DEF Fifo!Next
  <2>3. CASE UNCHANGED <<pushed, received>>
    BY <2>3 DEF Fifo!vars
  <2>4. ASSUME NEW p \in Producers,
               \/ GetNextToWrite(p)
               \/ \E v \in Values : WriteSlot(p, v)
               \/ LoadWriteIndex(p)
               \/ CountElement(p)
        PROVE  UNCHANGED <<pushed, received>>
    BY <2>4 DEF GetNextToWrite, WriteSlot, LoadWriteIndex, CountElement
  <2>5. CASE GetNextToRead \/ CheckSize \/ AdvanceReadIndex \/ DropCount
             \/ RereadElement
    BY <2>3, <2>5 DEF GetNextToRead, CheckSize, AdvanceReadIndex, DropCount,
                      RereadElement
  <2>6. CASE UNCHANGED vars
    BY <2>3, <2>6 DEF vars
  <2>7. QED
    BY <2>1, <2>2, <2>3, <2>4, <2>5, <2>6 DEF Next, Consume, FinishPush
<1>3. QED
  BY <1>1, <1>2, QueueInvariant, PTL DEF Spec, ImplementsFifo, Fifo!Spec

=============================================================================
