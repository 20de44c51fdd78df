--------------------------- MODULE LockFreeQueue ---------------------------
(***************************************************************************)
(* common/LockFreeQueue.hpp: the ring buffer that joins every pair of      *)
(* threads of the exchange and of the trading client (requests, responses, *)
(* market updates, log elements), together with the way its callers use    *)
(* it.  The three indices are sequentially consistent atomics, so each     *)
(* load and each store is one step; the slots are plain memory.            *)
(*                                                                         *)
(* A producer runs                                                         *)
(*     p = getNextToWrite(); *p = value; updateWriteIndex();               *)
(* and a consumer runs                                                     *)
(*     for (p = getNextToRead(); size() && p; p = getNextToRead())         *)
(*       { use *p; updateReadIndex(); }                                    *)
(* in a loop that never ends.  Two callers differ and are parameters:      *)
(* MatchingEngine::run does not look at size() (SizeChecked = FALSE) and   *)
(* MarketDataPublisher::run reads *p again after updateReadIndex()         *)
(* (ReadsAfterRelease = TRUE).                                             *)
(***************************************************************************)
EXTENDS Naturals, Sequences, FiniteSets

CONSTANTS
    Producers,          \* the threads that push
    Values,             \* the payloads
    EmptySlot,          \* T(), what the slots hold before the first push
    Capacity,           \* store.size()
    Backlog,            \* elements the environment lets wait at any time;
                        \* the queue itself never refuses a push
    SizeChecked,        \* does the consumer test size() before it uses *p?
    ReadsAfterRelease,  \* does it read *p again after updateReadIndex()?
    MaxPushes           \* bound on the pushes of one behaviour

ASSUME QueueAssumption ==
    /\ Capacity \in Nat \ {0, 1}
    /\ EmptySlot \notin Values
    /\ Backlog \in Nat
    /\ SizeChecked \in BOOLEAN
    /\ ReadsAfterRelease \in BOOLEAN
    /\ MaxPushes \in Nat

VARIABLES
    store,              \* the slots; EmptySlot until first written
    nextWrite,          \* next_write_index
    nextRead,           \* next_read_index
    num,                \* num_elements
    ppc, slot, reg, val,\* per producer: control, the pointer it writes
                        \* through, the index it loaded, its payload
    cpc, ptr,           \* the consumer's control and its pointer
    exited,             \* an ASSERT ended the process
    pushed,             \* history: payloads in the order they were published
    received,           \* history: payloads the consumer used
    forwarded           \* history: payloads it read again after the release

NoElement == Capacity                   \* nullptr

producerVars == <<ppc, slot, reg, val>>
consumerVars == <<cpc, ptr>>
vars == <<store, nextWrite, nextRead, num, producerVars, consumerVars, exited,
          pushed, received, forwarded>>

Indices == 0 .. Capacity - 1

\* Fault: the index runs off the end of the store.
NextIndex_NoWrap(i) == i + 1

\* The index after i on the ring.
NextIndex(i) == (i + 1) % Capacity

\* Elements published whose slots the consumer has not given back yet.
Released == IF cpc = "advance" THEN Len(received) - 1 ELSE Len(received)
Unread == Len(pushed) - Released
InFlight == {p \in Producers : ppc[p] \in {"write", "load", "publish"}}

TypeOK ==
    /\ store \in [Indices -> Values \cup {EmptySlot}]
    /\ nextWrite \in Indices
    /\ nextRead \in Indices
    /\ num \in Nat
    /\ ppc \in [Producers -> {"idle", "write", "load", "publish", "count"}]
    /\ slot \in [Producers -> Indices]
    /\ reg \in [Producers -> Indices]
    /\ val \in [Producers -> Values \cup {EmptySlot}]
    /\ cpc \in {"poll", "check", "use", "advance", "drop", "reread"}
    /\ ptr \in Indices \cup {NoElement}
    /\ exited \in BOOLEAN
    /\ pushed \in Seq(Values)
    /\ received \in Seq(Values \cup {EmptySlot})
    /\ forwarded \in Seq(Values \cup {EmptySlot})

Init ==
    /\ store = [i \in Indices |-> EmptySlot]
    /\ nextWrite = 0 /\ nextRead = 0 /\ num = 0
    /\ ppc = [p \in Producers |-> "idle"]
    /\ slot = [p \in Producers |-> 0]
    /\ reg = [p \in Producers |-> 0]
    /\ val = [p \in Producers |-> EmptySlot]
    /\ cpc = "poll" /\ ptr = NoElement
    /\ exited = FALSE
    /\ pushed = <<>> /\ received = <<>> /\ forwarded = <<>>

-----------------------------------------------------------------------------
(* The producer. *)

\* &store[next_write_index]: nothing looks whether the slot is free.  The
\* first two conjuncts are the environment's, not the code's.
GetNextToWrite(p) ==
    /\ Unread + Cardinality(InFlight) < Backlog
    /\ Len(pushed) + Cardinality(InFlight) < MaxPushes
    /\ ppc[p] = "idle" /\ ~exited
    /\ slot' = [slot EXCEPT ![p] = nextWrite]
    /\ ppc' = [ppc EXCEPT ![p] = "write"]
    /\ UNCHANGED <<store, nextWrite, nextRead, num, reg, val, consumerVars,
                   exited, pushed, received, forwarded>>

\* The caller fills the slot.
WriteSlot(p, v) ==
    /\ ppc[p] = "write" /\ ~exited
    /\ store' = [store EXCEPT ![slot[p]] = v]
    /\ val' = [val EXCEPT ![p] = v]
    /\ ppc' = [ppc EXCEPT ![p] = "load"]
    /\ UNCHANGED <<nextWrite, nextRead, num, slot, reg, consumerVars, exited,
                   pushed, received, forwarded>>

\* updateWriteIndex() is no atomic read-modify-write: it loads the index, ...
LoadWriteIndex(p) ==
    /\ ppc[p] = "load" /\ ~exited
    /\ reg' = [reg EXCEPT ![p] = nextWrite]
    /\ ppc' = [ppc EXCEPT ![p] = "publish"]
    /\ UNCHANGED <<store, nextWrite, nextRead, num, slot, val, consumerVars,
                   exited, pushed, received, forwarded>>

\* Fault: the index moves by two.
PublishWriteIndex_SkipsSlot(p) ==
    /\ ppc[p] = "publish" /\ ~exited
    /\ nextWrite' = NextIndex(NextIndex(reg[p]))
    /\ pushed' = Append(pushed, val[p])
    /\ ppc' = [ppc EXCEPT ![p] = "count"]
    /\ UNCHANGED <<store, nextRead, num, slot, reg, val, consumerVars, exited,
                   received, forwarded>>

\* ... stores its successor, which shows the element to the consumer, ...
PublishWriteIndex(p) ==
    /\ ppc[p] = "publish" /\ ~exited
    /\ nextWrite' = NextIndex(reg[p])
    /\ pushed' = Append(pushed, val[p])
    /\ ppc' = [ppc EXCEPT ![p] = "count"]
    /\ UNCHANGED <<store, nextRead, num, slot, reg, val, consumerVars, exited,
                   received, forwarded>>

\* ... and only then counts it.
CountElement(p) ==
    /\ ppc[p] = "count" /\ ~exited
    /\ num' = num + 1
    /\ ppc' = [ppc EXCEPT ![p] = "idle"]
    /\ UNCHANGED <<store, nextWrite, nextRead, slot, reg, val, consumerVars,
                   exited, pushed, received, forwarded>>

-----------------------------------------------------------------------------
(* The consumer. *)

GetNextToRead ==
    /\ cpc = "poll" /\ ~exited
    /\ ptr' = IF nextRead = nextWrite THEN NoElement ELSE nextRead
    /\ cpc' = "check"
    /\ UNCHANGED <<store, nextWrite, nextRead, num, producerVars, exited,
                   pushed, received, forwarded>>

\* Fault: an element alone in the queue is never served.
CheckSize_LeavesLast ==
    /\ cpc = "check" /\ ~exited
    /\ cpc' = IF num > 1 /\ ptr # NoElement THEN "use" ELSE "poll"
    /\ UNCHANGED <<store, nextWrite, nextRead, num, producerVars, ptr, exited,
                   pushed, received, forwarded>>

\* Fault: the loop condition is evaluated on the pointer only.
CheckSize_PointerOnly ==
    /\ cpc = "check" /\ ~exited
    /\ cpc' = IF ptr # NoElement THEN "use" ELSE "poll"
    /\ UNCHANGED <<store, nextWrite, nextRead, num, producerVars, ptr, exited,
                   pushed, received, forwarded>>

\* The loop condition: size() && ptr, or ptr alone in MatchingEngine::run.
CheckSize ==
    /\ cpc = "check" /\ ~exited
    /\ cpc' = IF (SizeChecked => num # 0) /\ ptr # NoElement
              THEN "use" ELSE "poll"
    /\ UNCHANGED <<store, nextWrite, nextRead, num, producerVars, ptr, exited,
                   pushed, received, forwarded>>

\* The loop body works on *ptr.
UseElement ==
    /\ cpc = "use" /\ ~exited
    /\ received' = Append(received, store[ptr])
    /\ cpc' = "advance"
    /\ UNCHANGED <<store, nextWrite, nextRead, num, producerVars, ptr, exited,
                   pushed, forwarded>>

\* Fault: the read index is left alone.
AdvanceReadIndex_Stuck ==
    /\ cpc = "advance" /\ ~exited
    /\ cpc' = "drop"
    /\ UNCHANGED <<store, nextWrite, nextRead, num, producerVars, ptr, exited,
                   pushed, received, forwarded>>

\* updateReadIndex(): the slot goes back to the producer ...
AdvanceReadIndex ==
    /\ cpc = "advance" /\ ~exited
    /\ nextRead' = NextIndex(nextRead)
    /\ cpc' = "drop"
    /\ UNCHANGED <<store, nextWrite, num, producerVars, ptr, exited, pushed,
                   received, forwarded>>

\* ... before the count is asserted to be positive and lowered.
DropCount ==
    /\ cpc = "drop" /\ ~exited
    /\ IF num = 0 THEN exited' = TRUE /\ UNCHANGED <<num, cpc>>
       ELSE /\ num' = num - 1
            /\ cpc' = IF ReadsAfterRelease THEN "reread" ELSE "poll"
            /\ UNCHANGED exited
    /\ UNCHANGED <<store, nextWrite, nextRead, producerVars, ptr, pushed,
                   received, forwarded>>

\* Fault: the element is fetched anew from the read index.
RereadElement_FromIndex ==
    /\ cpc = "reread" /\ ~exited
    /\ forwarded' = Append(forwarded, store[nextRead])
    /\ cpc' = "poll"
    /\ UNCHANGED <<store, nextWrite, nextRead, num, producerVars, ptr, exited,
                   pushed, received>>

\* MarketDataPublisher::run copies *market_update to the snapshot queue
\* through the pointer it has already released.
RereadElement ==
    /\ cpc = "reread" /\ ~exited
    /\ forwarded' = Append(forwarded, store[ptr])
    /\ cpc' = "poll"
    /\ UNCHANGED <<store, nextWrite, nextRead, num, producerVars, ptr, exited,
                   pushed, received>>

-----------------------------------------------------------------------------
\* A push that has begun runs to its end: what the code of updateWriteIndex
\* and of its callers does without waiting for anybody.
FinishPush(p) ==
    \/ \E v \in Values : WriteSlot(p, v)
    \/ LoadWriteIndex(p)
    \/ PublishWriteIndex(p)
    \/ CountElement(p)

Consume ==
    \/ GetNextToRead
    \/ CheckSize
    \/ UseElement
    \/ AdvanceReadIndex
    \/ DropCount
    \/ RereadElement

Next == Consume \/ \E p \in Producers : GetNextToWrite(p) \/ FinishPush(p)

Spec == Init /\ [][Next]_vars

\* Both threads spin on a core of their own and neither ever blocks.
FairSpec ==
    /\ Spec
    /\ WF_vars(Consume)
    /\ \A p \in Producers : WF_vars(FinishPush(p))

-----------------------------------------------------------------------------
(* Properties. *)

\* ASSERT(num_elements != 0, "Read an invalid element in") in updateReadIndex
\* never fires: the consumer never outruns the count, although the producer
\* publishes an element before it counts it.
NoInvalidRead == ~exited

\* getNextToRead() returns nullptr only when nothing is waiting: a full ring
\* and an empty one are both next_read_index == next_write_index.
NoElementHidden == Unread > 0 => nextRead # nextWrite

\* What the publisher copies through the released pointer is what it sent:
\* the producer has not yet come round to that slot.
ForwardedAsReceived ==
    /\ Len(forwarded) <= Len(received)
    /\ \A i \in 1 .. Len(forwarded) : forwarded[i] = received[i]

\* The queue is a FIFO channel: nothing lost, repeated, invented, reordered.
Fifo == INSTANCE FifoChannel WITH in <- pushed, out <- received
ImplementsFifo == Fifo!Spec

\* Everything pushed is eventually used, the last element of a burst too.
Delivered ==
    \A n \in 1 .. MaxPushes : Len(pushed) >= n ~> Len(received) >= n

=============================================================================
