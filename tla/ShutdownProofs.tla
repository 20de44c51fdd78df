--------------------------- MODULE ShutdownProofs ---------------------------
(***************************************************************************)
(* The log of the trading client, with two threads that push, for calls of *)
(* any length and any numbers of updates, requests and rounds of stop().   *)
(* Nothing is needed of the threads for the queue's assertion: only the    *)
(* consumer lowers the count that it has seen above 0.  That the log is    *)
(* complete needs that at most one thread is between getNextToWrite() and  *)
(* the store of next_write_index; both may be about to count an element.   *)
(***************************************************************************)
EXTENDS Shutdown, FiniteSetTheorems, TLAPS

-----------------------------------------------------------------------------
(* The inductive invariant. *)

\* The consumer has seen the count above 0, and lowers it alone.
ReaderInv ==
    /\ ~exited
    /\ num \in Nat
    /\ cpc \in {"use", "advance", "drop"} => num > 0

Elements == (Threads \cup {"none"}) \X Nat
Steps == {"idle", "write", "load", "publish", "count"}

Busy(p) == ppc[p] \in {"write", "load", "publish"}
Uncounted(p) == IF ppc[p] = "count" THEN 1 ELSE 0
Pending == Uncounted("main") + Uncounted("engine")
Published == [p \in Threads |-> logged[p] + Uncounted(p)]

\* Elements the consumer has given back, and elements it has lowered the count by.
Released == IF cpc = "advance" THEN Len(received) - 1 ELSE Len(received)
Dropped == IF cpc \in {"advance", "drop"} THEN Len(received) - 1 ELSE Len(received)

TypesInv ==
    /\ store \in [0 .. MaxPushes -> Elements]
    /\ ppc \in [Threads -> Steps]
    /\ slot \in [Threads -> Nat] /\ reg \in [Threads -> Nat]
    /\ val \in [Threads -> Elements]
    /\ pushed \in Seq(Elements) /\ received \in Seq(Elements)
    /\ left \in [Threads -> Nat] /\ logged \in [Threads -> Nat]

\* At most one thread is in the middle of a push, and there is room for it.
PushInv ==
    /\ \E p \in Threads : ~Busy(p)
    /\ Len(pushed) <= MaxPushes
    /\ \A p \in Threads :
          /\ ppc[p] # "idle" => left[p] > 0
          /\ Busy(p) => slot[p] = Len(pushed) /\ Len(pushed) < MaxPushes
          /\ ppc[p] \in {"load", "publish"} =>
                store[slot[p]] = val[p] /\ val[p] = <<p, logged[p] + 1>>
          /\ ppc[p] = "publish" => reg[p] = Len(pushed)

\* The slots hold what was pushed; the consumer has had a part of it, in order.
ContentInv ==
    /\ nextWrite = Len(pushed)
    /\ nextRead = Released
    /\ \A k \in 1 .. Len(pushed) : store[k - 1] = pushed[k]
    /\ Len(received) <= Len(pushed)
    /\ \A k \in 1 .. Len(received) : received[k] = pushed[k]
    /\ cpc = "check" => ptr \in {nextRead, MaxPushes + 1}
    /\ cpc = "use" => ptr = nextRead
    /\ cpc \in {"advance", "drop"} => Len(received) > 0

\* num_elements counts what was pushed and not taken, up to what is half done.
CountInv == num = Len(pushed) - Pending - Dropped

\* f has the elements 1 .. count[p] of every thread p, once and in order.
IsLog(f, count) ==
    /\ \A k \in 1 .. Len(f) : f[k][1] \in Threads /\ f[k][2] \in 1 .. count[f[k][1]]
    /\ \A p \in Threads : \A n \in 1 .. count[p] :
          \E k \in 1 .. Len(f) : f[k] = <<p, n>>
    /\ \A j, k \in 1 .. Len(f) : j < k /\ f[j][1] = f[k][1] => f[j][2] < f[k][2]

OwnInv == IsLog(pushed, Published)

\* A thread begins a call of log() only when its last one is finished, and the
\* destructor waits with nobody left to push.
StopInv ==
    /\ epc \in {"look", "done"} => left["engine"] = 0
    /\ mpc \in {"destroying", "joining", "closed"} => epc = "done"
    /\ mpc \in {"sleeping", "joining", "closed"} => left["main"] = 0
    /\ mpc \in {"joining", "closed"} => num = 0

LogInv == TypesInv /\ PushInv /\ ContentInv /\ CountInv /\ OwnInv /\ StopInv

ShutdownInv == ReaderInv /\ (~raced => LogInv)

-----------------------------------------------------------------------------
(* Reading. *)

LEMMA MaxPushesIsNat == MaxPushes \in Nat
<1>1. LogLen \in Nat /\ MaxUpdates + MaxRandom + MaxSleeps + 3 \in Nat
  BY ShutdownAssumption
<1>2. \A m, n \in Nat : m * n \in Nat
  OBVIOUS
<1>3. QED
  BY <1>1, <1>2 DEF MaxPushes

\* Steps of the two threads only add to the count.
LEMMA PushReader == ASSUME ReaderInv, NEW p \in Threads, Push(p) PROVE ReaderInv'
BY DEF ReaderInv, Push, Log!GetNextToWrite, Log!WriteSlot, Log!LoadWriteIndex,
       Log!PublishWriteIndex, Log!CountElement, Log!consumerVars

LEMMA FlushReader == ASSUME ReaderInv, FlushElement PROVE ReaderInv'
<1>1. CASE Log!GetNextToRead
  BY <1>1 DEF ReaderInv, Log!GetNextToRead
<1>2. CASE Log!CheckSize
  BY <1>2 DEF ReaderInv, Log!CheckSize
<1>3. CASE Log!UseElement
  BY <1>3 DEF ReaderInv, Log!UseElement
<1>4. CASE Log!AdvanceReadIndex
  BY <1>4 DEF ReaderInv, Log!AdvanceReadIndex
<1>5. CASE Log!DropCount
  BY <1>5 DEF ReaderInv, Log!DropCount
<1>6. QED
  BY <1>1, <1>2, <1>3, <1>4, <1>5 DEF FlushElement

\* The steps that leave the log's queue alone.
Control ==
    \/ TestRunning \/ TestIsRunning \/ Look \/ EndUpdate \/ Stopping
    \/ SendRandom \/ BeginStop \/ Arrive

LEMMA NextParts ==
    Next => Push("main") \/ Push("engine") \/ FlushElement \/ Control
BY DEF Next, Logger, Engine, Main, Control

LEMMA ControlKeepsQueue ==
    ASSUME Control PROVE UNCHANGED queueVars /\ UNCHANGED logged /\ UNCHANGED raced
BY DEF Control, TestRunning, TestIsRunning, Look, EndUpdate, Stopping, Drain,
       LogPositions, StopEngine, FailCheck, DestroyEngine, AwaitEmpty, Join,
       SendRandom, BeginStop, Arrive, Calls, callVars

LEMMA ReaderStep == ReaderInv /\ [Next]_vars => ReaderInv'
<1> SUFFICES ASSUME ReaderInv, [Next]_vars PROVE ReaderInv'
  OBVIOUS
<1>1. CASE UNCHANGED queueVars
  BY <1>1 DEF queueVars, ReaderInv
<1>2. Threads = {"main", "engine"}
  BY DEF Threads
<1>3. QED
  BY <1>1, <1>2, PushReader, FlushReader, NextParts, ControlKeepsQueue DEF vars

LEMMA InitReader == Init => ReaderInv
BY DEF Init, Log!Init, ReaderInv

LEMMA ReaderAlways == Spec => []ReaderInv
BY InitReader, ReaderStep, PTL DEF Spec

\* ASSERT(num_elements != 0) in updateReadIndex() holds in the logger's thread even
\* though two threads push to its queue, however their accesses interleave.
THEOREM ReaderNeverFails == Spec => []ReaderSafe
<1>1. ReaderInv => ReaderSafe
  BY DEF ReaderInv, ReaderSafe
<1>2. QED
  BY <1>1, ReaderAlways, PTL


-----------------------------------------------------------------------------
(* Control steps. *)

LEMMA CallsPush ==
    ASSUME TypesInv, PushInv, NEW p \in Threads, Free(p), Calls(p)
    PROVE  /\ left' \in [Threads -> Nat]
           /\ \A q \in Threads : ppc[q] # "idle" => left'[q] > 0
<1>1. ppc[p] = "idle"
  BY DEF PushInv, Free
<1>2. left' = [left EXCEPT ![p] = LogLen] /\ left \in [Threads -> Nat] /\ LogLen \in Nat
  BY ShutdownAssumption DEF Calls, TypesInv
<1>3. \A q \in Threads : q # p => left'[q] = left[q]
  BY <1>2
<1>4. \A q \in Threads : ppc[q] # "idle" => left[q] > 0
  BY DEF PushInv
<1>5. QED
  BY <1>1, <1>2, <1>3, <1>4

LEMMA ControlCalls ==
    ASSUME LogInv, Control
    PROVE  \/ UNCHANGED left
           \/ \E p \in Threads : Free(p) /\ Calls(p)
<1>1. ASSUME Look PROVE UNCHANGED left \/ (Free("engine") /\ Calls("engine"))
  BY <1>1 DEF Look, LogInv, StopInv, Free, callVars
<1>2. ASSUME DestroyEngine PROVE Free("main") /\ Calls("main")
  BY <1>2 DEF DestroyEngine, LogInv, StopInv, Free
<1>3. "main" \in Threads /\ "engine" \in Threads
  BY DEF Threads
<1>4. QED
  BY <1>1, <1>2, <1>3 DEF Control, TestRunning, TestIsRunning, EndUpdate, Stopping, Drain,
       LogPositions, StopEngine, FailCheck, AwaitEmpty, Join,
       SendRandom, BeginStop, Arrive, callVars

LEMMA ControlStop ==
    ASSUME LogInv, Control
    PROVE  StopInv'
<1> USE DEF LogInv, StopInv, callVars, engineVars, mainVars, loggerVars, queueVars
<1>0. left \in [Threads -> Nat] /\ "main" # "engine" /\ Threads = {"main", "engine"}
  BY DEF TypesInv, Threads
<1>1. CASE TestRunning
  BY <1>1 DEF TestRunning
<1>2. CASE TestIsRunning
  BY <1>2 DEF TestIsRunning, Free
<1>3. CASE Look
  BY <1>0, <1>3 DEF Look, Calls
<1>4. CASE EndUpdate
  BY <1>4 DEF EndUpdate, Free
<1>5. CASE Drain
  BY <1>0, <1>5 DEF Drain, Calls
<1>6. CASE LogPositions
  BY <1>0, <1>6 DEF LogPositions, Calls
<1>7. CASE StopEngine
  BY <1>7 DEF StopEngine, Free
<1>8. CASE FailCheck
  BY <1>8 DEF FailCheck
<1>9. CASE DestroyEngine
  BY <1>0, <1>9 DEF DestroyEngine, Calls
<1>10. CASE AwaitEmpty
  BY <1>10 DEF AwaitEmpty, Free
<1>11. CASE Join
  BY <1>11 DEF Join
<1>12. CASE SendRandom
  BY <1>0, <1>12 DEF SendRandom, Calls
<1>13. CASE BeginStop
  BY <1>13 DEF BeginStop
<1>14. CASE Arrive
  BY <1>14 DEF Arrive
<1>15. QED
  BY <1>1, <1>2, <1>3, <1>4, <1>5, <1>6, <1>7, <1>8, <1>9, <1>10, <1>11, <1>12,
     <1>13, <1>14 DEF Control, Stopping

LEMMA ControlLog == ASSUME LogInv, Control PROVE LogInv'
<1>1. UNCHANGED queueVars /\ UNCHANGED logged
  BY ControlKeepsQueue
<1>2. StopInv'
  BY ControlStop
<1>3. /\ left' \in [Threads -> Nat]
      /\ \A q \in Threads : ppc[q] # "idle" => left'[q] > 0
  <2>1. CASE UNCHANGED left
    BY <2>1 DEF LogInv, TypesInv, PushInv
  <2>2. QED
    BY <2>1, ControlCalls, CallsPush DEF LogInv
<1>4. TypesInv'
  BY <1>1, <1>3 DEF LogInv, TypesInv, queueVars
<1>5. PushInv'
  BY <1>1, <1>3 DEF LogInv, PushInv, queueVars, Busy
<1>6. ContentInv' /\ CountInv' /\ OwnInv'
  BY <1>1 DEF LogInv, ContentInv, CountInv, OwnInv, queueVars, Released, Dropped,
              Pending, Uncounted, Published
<1>7. QED
  BY <1>2, <1>4, <1>5, <1>6 DEF LogInv

-----------------------------------------------------------------------------
(* Steps of the logger's thread. *)

\* What the logger's thread changes of the queue.
LEMMA FlushFrame ==
    ASSUME FlushElement
    PROVE  UNCHANGED <<store, nextWrite, ppc, slot, reg, val, pushed, callVars,
                       engineVars, mainVars, raced>>
BY DEF FlushElement, Log!GetNextToRead, Log!CheckSize, Log!UseElement,
       Log!AdvanceReadIndex, Log!DropCount, Log!producerVars

LEMMA FlushLog == ASSUME ReaderInv, LogInv, FlushElement PROVE LogInv'
<1>0. UNCHANGED <<store, nextWrite, ppc, slot, reg, val, pushed, left, logged,
                  epc, mpc>>
  BY FlushFrame DEF callVars, engineVars, mainVars
<1>1. PushInv' /\ OwnInv'
  BY <1>0 DEF LogInv, PushInv, OwnInv, Busy, Published, Uncounted
<1>2. /\ Len(pushed) \in Nat /\ Len(received) \in Nat
      /\ pushed \in Seq(Elements) /\ received \in Seq(Elements)
  BY DEF LogInv, TypesInv
<1>10. Pending' = Pending /\ Pending \in {0, 1, 2}
  BY <1>0 DEF Pending, Uncounted
<1>3. num \in Nat /\ MaxPushes \in Nat /\ Len(pushed) <= MaxPushes
  BY MaxPushesIsNat DEF ReaderInv, LogInv, PushInv
<1>4. StopInv' /\ CountInv' /\ ContentInv' /\ received' \in Seq(Elements)
  <2>1. CASE Log!GetNextToRead
    <3>1. /\ UNCHANGED <<nextRead, num, received>>
          /\ cpc = "poll" /\ cpc' = "check"
          /\ ptr' = nextRead \/ ptr' = MaxPushes + 1
      BY <2>1 DEF Log!GetNextToRead, Log!NoElement
    <3>2. QED
      BY <1>0, <1>2, <1>10, <3>1 DEF LogInv, StopInv, CountInv, ContentInv, Released, Dropped
  <2>2. CASE Log!CheckSize
    <3>1. /\ UNCHANGED <<nextRead, num, received, ptr>>
          /\ cpc = "check"
          /\ cpc' = "poll" \/ (cpc' = "use" /\ ptr # MaxPushes + 1)
      BY <2>2 DEF Log!CheckSize, Log!NoElement
    <3>2. QED
      BY <1>0, <1>2, <1>10, <3>1 DEF LogInv, StopInv, CountInv, ContentInv, Released, Dropped
  <2>3. CASE Log!UseElement
    <3>1. /\ UNCHANGED <<nextRead, num, ptr>>
          /\ cpc = "use" /\ cpc' = "advance"
          /\ received' = Append(received, store[ptr])
      BY <2>3 DEF Log!UseElement
    <3>2. num > 0 /\ Len(received) < Len(pushed) /\ ptr = Len(received)
      BY <1>2, <1>10, <1>3, <3>1 DEF ReaderInv, LogInv, CountInv, ContentInv, Dropped, Released
    <3>3. store[ptr] = pushed[Len(received) + 1] /\ store[ptr] \in Elements
      <4>1. Len(received) + 1 \in 1 .. Len(pushed)
        BY <1>2, <3>2
      <4>2. store[(Len(received) + 1) - 1] = pushed[Len(received) + 1]
        BY <4>1 DEF LogInv, ContentInv
      <4>3. pushed[Len(received) + 1] \in Elements
        BY <1>2, <4>1
      <4>4. QED
        BY <1>2, <3>2, <4>2, <4>3
    <3>4. received' \in Seq(Elements) /\ Len(received') = Len(received) + 1
      BY <1>2, <3>1, <3>3
    <3>5. \A k \in 1 .. Len(received') : received'[k] = pushed[k]
      BY <1>2, <3>1, <3>3, <3>4 DEF LogInv, ContentInv
    <3>6. ContentInv'
      BY <1>0, <1>2, <1>10, <3>1, <3>2, <3>4, <3>5 DEF LogInv, ContentInv, Released
    <3>7. CountInv'
      BY <1>0, <1>2, <1>10, <3>1, <3>4 DEF LogInv, CountInv, Dropped
    <3>8. QED
      BY <1>0, <3>1, <3>4, <3>6, <3>7 DEF LogInv, StopInv
  <2>4. CASE Log!AdvanceReadIndex
    <3>1. /\ UNCHANGED <<num, received, ptr>>
          /\ cpc = "advance" /\ cpc' = "drop"
          /\ nextRead' = (nextRead + 1) % (MaxPushes + 1)
      BY <2>4 DEF Log!AdvanceReadIndex, Log!NextIndex
    <3>2. nextRead = Len(received) - 1 /\ Len(received) <= MaxPushes /\ num > 0
      BY <1>2, <1>3, <3>1 DEF LogInv, ContentInv, Released, ReaderInv
    <3>3. Len(received) >= 1
      BY <1>2, <3>1 DEF LogInv, ContentInv
    <3>4. nextRead' = Len(received)
      BY <1>2, <1>3, <3>1, <3>2
    <3>5. QED
      BY <1>0, <1>2, <1>10, <3>1, <3>4 DEF LogInv, StopInv, CountInv, ContentInv, Released,
                                     Dropped
  <2>5. CASE Log!DropCount
    <3>1. /\ UNCHANGED <<nextRead, received, ptr>>
          /\ cpc = "drop" /\ cpc' = "poll"
          /\ num > 0 /\ num' = num - 1
      BY <2>5 DEF Log!DropCount, ReaderInv
    <3>2. mpc \notin {"joining", "closed"}
      BY <3>1 DEF LogInv, StopInv
    <3>3. QED
      BY <1>0, <1>2, <1>10, <1>3, <3>1, <3>2 DEF LogInv, StopInv, CountInv, ContentInv, Released,
                                     Dropped
  <2>6. QED
    BY <2>1, <2>2, <2>3, <2>4, <2>5 DEF FlushElement
<1>5. TypesInv'
  BY <1>0, <1>4 DEF LogInv, TypesInv
<1>6. QED
  BY <1>1, <1>4, <1>5 DEF LogInv


-----------------------------------------------------------------------------
(* Steps of pushValue(). *)

\* What a push leaves alone; q is the other thread.
LEMMA PushFrame ==
    ASSUME NEW p \in Threads, Push(p)
    PROVE  UNCHANGED <<nextRead, cpc, ptr, received, epc, mpc>>
BY DEF Push, Log!GetNextToWrite, Log!WriteSlot, Log!LoadWriteIndex, engineVars, mainVars,
       Log!PublishWriteIndex, Log!CountElement, Log!consumerVars

\* Only one thread is in the middle of a push.
LEMMA OneBusy ==
    ASSUME PushInv, NEW p \in Threads, Busy(p), NEW q \in Threads, q # p
    PROVE  ~Busy(q)
BY DEF PushInv, Threads

LEMMA UncountedIs ==
    \A p : Uncounted(p) \in {0, 1} /\ (Busy(p) => Uncounted(p) = 0)
BY DEF Uncounted, Busy

\* A step of thread p between getNextToWrite() and the store of the index: the
\* published elements, the counts and the consumer are as before.
LEMMA PushInside ==
    ASSUME LogInv, NEW p \in Threads, Push(p),
           UNCHANGED <<nextWrite, pushed, num, left, logged>>,
           \A q \in Threads : Uncounted(q)' = Uncounted(q),
           \A k \in 1 .. Len(pushed) : store'[k - 1] = store[k - 1]
    PROVE  ContentInv' /\ CountInv' /\ OwnInv' /\ StopInv'
<1>1. UNCHANGED <<nextRead, cpc, ptr, received, epc, mpc>>
  BY PushFrame
<1>2. ContentInv'
  BY <1>1 DEF LogInv, ContentInv, Released
<1>3. CountInv' /\ OwnInv'
  <2>1. Pending' = Pending
    BY DEF Pending, Threads
  <2>2. Published' = Published
    BY DEF Published
  <2>3. CountInv'
    BY <1>1, <2>1 DEF LogInv, CountInv, Dropped
  <2>4. OwnInv'
    BY <2>2 DEF LogInv, OwnInv
  <2>5. QED
    BY <2>3, <2>4
<1>4. StopInv'
  BY <1>1 DEF LogInv, StopInv
<1>5. QED
  BY <1>2, <1>3, <1>4

LEMMA SameCardinality == \A S : Log!Cardinality(S) = Cardinality(S)
BY Zenon DEF Log!Cardinality, Cardinality

LEMMA GetLog ==
    ASSUME LogInv, NEW p \in Threads, Push(p), left[p] > 0, Log!GetNextToWrite(p),
           UNCHANGED callVars, ~raced'
    PROVE  LogInv'
<1>1. /\ ppc[p] = "idle"
      /\ slot' = [slot EXCEPT ![p] = nextWrite]
      /\ ppc' = [ppc EXCEPT ![p] = "write"]
      /\ UNCHANGED <<store, nextWrite, num, reg, val, pushed, left, logged>>
  BY DEF Log!GetNextToWrite, callVars
<1>2. /\ ppc \in [Threads -> Steps] /\ slot \in [Threads -> Nat]
      /\ Len(pushed) \in Nat /\ nextWrite = Len(pushed)
  BY DEF LogInv, TypesInv, ContentInv
<1>3. TypesInv'
  BY <1>1, <1>2, PushFrame DEF LogInv, TypesInv, Steps
<1>4. Len(pushed) < MaxPushes
  <2>1. Len(pushed) + Log!Cardinality(Log!InFlight) < MaxPushes
    BY DEF Log!GetNextToWrite
  <2>2. Log!InFlight \subseteq Threads /\ IsFiniteSet(Threads)
    <3>1. IsFiniteSet({"main"} \cup {"engine"})
      BY FS_Singleton, FS_AddElement
    <3>2. Threads = {"main"} \cup {"engine"}
      BY DEF Threads
    <3>3. QED
      BY <3>1, <3>2 DEF Log!InFlight
  <2>3. Log!Cardinality(Log!InFlight) \in Nat
    BY <2>2, FS_Subset, FS_CardinalityType, SameCardinality
  <2>4. QED
    BY <1>2, <2>1, <2>3, MaxPushesIsNat
<1>5. PushInv'
  <2>1. \E q \in Threads : ~Busy(q)'
    BY DEF Push, Busy
  <2>2. \A q \in Threads : q # p => ppc'[q] = ppc[q] /\ slot'[q] = slot[q]
    BY <1>1, <1>2
  <2>3. ppc'[p] = "write" /\ slot'[p] = Len(pushed)
    BY <1>1, <1>2
  <2>4. QED
    BY <1>1, <1>4, <2>1, <2>2, <2>3 DEF LogInv, PushInv, Busy
<1>6. \A q \in Threads : Uncounted(q)' = Uncounted(q)
  BY <1>1, <1>2 DEF Uncounted
<1>7. QED
  BY <1>1, <1>3, <1>5, <1>6, PushInside DEF LogInv

LEMMA WriteLog ==
    ASSUME LogInv, NEW p \in Threads, Push(p), Log!WriteSlot(p, <<p, logged[p] + 1>>),
           UNCHANGED callVars
    PROVE  LogInv'
<1> DEFINE v == <<p, logged[p] + 1>>
<1>1. /\ ppc[p] = "write"
      /\ store' = [store EXCEPT ![slot[p]] = v]
      /\ val' = [val EXCEPT ![p] = v]
      /\ ppc' = [ppc EXCEPT ![p] = "load"]
      /\ UNCHANGED <<nextWrite, num, slot, reg, pushed, left, logged>>
  BY DEF Log!WriteSlot, callVars
<1>2. /\ ppc \in [Threads -> Steps] /\ val \in [Threads -> Elements]
      /\ store \in [0 .. MaxPushes -> Elements] /\ logged[p] \in Nat
      /\ Len(pushed) \in Nat /\ Len(pushed) < MaxPushes
      /\ slot[p] = Len(pushed)
  BY <1>1 DEF LogInv, TypesInv, PushInv, Busy
<1>3. v \in Elements
  BY <1>2 DEF Elements
<1> HIDE DEF v
<1>4. /\ store' \in [0 .. MaxPushes -> Elements]
      /\ store'[Len(pushed)] = v
      /\ \A k \in 1 .. Len(pushed) : store'[k - 1] = store[k - 1]
  BY <1>1, <1>2, <1>3, MaxPushesIsNat
<1>5. TypesInv'
  BY <1>1, <1>2, <1>3, <1>4, PushFrame DEF LogInv, TypesInv, Steps
<1>6. PushInv'
  <2>1. \A q \in Threads : q # p => ppc'[q] = ppc[q] /\ ~Busy(q)
    BY <1>1, <1>2, OneBusy DEF LogInv, Busy
  <2>2. ppc'[p] = "load" /\ val'[p] = v
    BY <1>1, <1>2
  <2>3. v = <<p, logged'[p] + 1>>
    BY <1>1 DEF v
  <2>4. \E q \in Threads : ~Busy(q)'
    BY <1>1, <2>1 DEF LogInv, PushInv, Busy
  <2>5. QED
    BY <1>1, <1>2, <1>4, <2>1, <2>2, <2>3, <2>4 DEF LogInv, PushInv, Busy
<1>7. \A q \in Threads : Uncounted(q)' = Uncounted(q)
  BY <1>1, <1>2 DEF Uncounted
<1>8. QED
  BY <1>1, <1>4, <1>5, <1>6, <1>7, PushInside DEF LogInv

LEMMA LoadLog ==
    ASSUME LogInv, NEW p \in Threads, Push(p), Log!LoadWriteIndex(p), UNCHANGED callVars
    PROVE  LogInv'
<1>1. /\ ppc[p] = "load"
      /\ reg' = [reg EXCEPT ![p] = nextWrite]
      /\ ppc' = [ppc EXCEPT ![p] = "publish"]
      /\ UNCHANGED <<store, nextWrite, num, slot, val, pushed, left, logged>>
  BY DEF Log!LoadWriteIndex, callVars
<1>2. /\ ppc \in [Threads -> Steps] /\ reg \in [Threads -> Nat]
      /\ nextWrite = Len(pushed) /\ Len(pushed) \in Nat
  BY DEF LogInv, TypesInv, ContentInv
<1>3. TypesInv'
  BY <1>1, <1>2, PushFrame DEF LogInv, TypesInv, Steps
<1>4. PushInv'
  <2>1. \A q \in Threads : q # p => ppc'[q] = ppc[q] /\ ~Busy(q)
    BY <1>1, <1>2, OneBusy DEF LogInv, Busy
  <2>2. ppc'[p] = "publish" /\ reg'[p] = Len(pushed)
    BY <1>1, <1>2
  <2>3. \E q \in Threads : ~Busy(q)'
    BY <1>1, <2>1 DEF LogInv, PushInv, Busy
  <2>4. QED
    BY <1>1, <2>1, <2>2, <2>3 DEF LogInv, PushInv, Busy
<1>5. \A q \in Threads : Uncounted(q)' = Uncounted(q)
  BY <1>1, <1>2 DEF Uncounted
<1>6. QED
  BY <1>1, <1>3, <1>4, <1>5, PushInside DEF LogInv


LEMMA LogGrows ==
    ASSUME NEW f \in Seq(Elements), NEW count \in [Threads -> Nat], IsLog(f, count),
           NEW p \in Threads, NEW e, e = <<p, count[p] + 1>>
    PROVE  IsLog(Append(f, e), [count EXCEPT ![p] = @ + 1])
<1> DEFINE n == Len(f)
           g == Append(f, e)
           c == [count EXCEPT ![p] = @ + 1]
<1>1. e \in Elements /\ e[1] = p /\ e[2] = count[p] + 1
  BY DEF Elements
<1>2. n \in Nat /\ Len(g) = n + 1 /\ g[n + 1] = e /\ \A k \in 1 .. n : g[k] = f[k]
  BY <1>1
<1>3. c[p] = count[p] + 1 /\ \A q \in Threads : q # p => c[q] = count[q]
  OBVIOUS
<1>4. \A k \in 1 .. n : f[k][1] \in Threads /\ f[k][2] \in 1 .. count[f[k][1]]
  BY DEF IsLog
<1>5. \A q \in Threads : \A m \in 1 .. count[q] : \E k \in 1 .. n : f[k] = <<q, m>>
  BY DEF IsLog
<1>6. \A j, k \in 1 .. n : j < k /\ f[j][1] = f[k][1] => f[j][2] < f[k][2]
  BY DEF IsLog
<1> HIDE DEF n, g, c
<1>7. \A k \in 1 .. n + 1 : k \in 1 .. n \/ k = n + 1
  BY <1>2
<1>8. \A k \in 1 .. n + 1 : g[k][1] \in Threads /\ g[k][2] \in 1 .. c[g[k][1]]
  <2> SUFFICES ASSUME NEW k \in 1 .. n + 1
               PROVE  g[k][1] \in Threads /\ g[k][2] \in 1 .. c[g[k][1]]
    OBVIOUS
  <2>1. CASE k = n + 1
    <3>1. g[k][1] = p /\ g[k][2] = count[p] + 1
      BY <1>1, <1>2, <2>1
    <3>2. QED
      BY <1>3, <3>1
  <2>2. CASE k \in 1 .. n
    <3>1. g[k] = f[k]
      BY <1>2, <2>2
    <3>2. /\ f[k][1] \in Threads /\ f[k][2] \in 1 .. count[f[k][1]]
          /\ c[f[k][1]] \in {count[f[k][1]], count[f[k][1]] + 1}
      BY <1>3, <1>4, <2>2
    <3>3. QED
      BY <3>1, <3>2
  <2>3. QED
    BY <1>7, <2>1, <2>2
<1>9. \A q \in Threads : \A m \in 1 .. c[q] : \E k \in 1 .. n + 1 : g[k] = <<q, m>>
  <2> SUFFICES ASSUME NEW q \in Threads, NEW m \in 1 .. c[q]
               PROVE  \E k \in 1 .. n + 1 : g[k] = <<q, m>>
    OBVIOUS
  <2>1. CASE m \in 1 .. count[q]
    <3>1. PICK k \in 1 .. n : f[k] = <<q, m>>
      BY <1>5, <2>1
    <3>2. g[k] = f[k] /\ k \in 1 .. n + 1
      BY <1>2
    <3>3. QED
      BY <3>1, <3>2
  <2>2. CASE m \notin 1 .. count[q]
    <3>1. q = p /\ m = count[p] + 1
      BY <1>3, <2>2
    <3>2. n + 1 \in 1 .. n + 1
      BY <1>2
    <3>3. QED
      BY <1>2, <3>1, <3>2
  <2>3. QED
    BY <2>1, <2>2
<1>10. \A j, k \in 1 .. n + 1 : j < k /\ g[j][1] = g[k][1] => g[j][2] < g[k][2]
  <2> SUFFICES ASSUME NEW j \in 1 .. n + 1, NEW k \in 1 .. n + 1, j < k, g[j][1] = g[k][1]
               PROVE  g[j][2] < g[k][2]
    OBVIOUS
  <2>1. j \in 1 .. n /\ g[j] = f[j]
    BY <1>2
  <2>2. CASE k = n + 1
    <3>1. f[j][1] = p /\ g[k][2] = count[p] + 1
      BY <1>1, <1>2, <2>1, <2>2
    <3>2. f[j][2] \in 1 .. count[p]
      BY <1>4, <2>1, <3>1
    <3>3. QED
      BY <2>1, <3>1, <3>2
  <2>3. CASE k \in 1 .. n
    BY <1>2, <1>6, <2>1, <2>3
  <2>4. QED
    BY <1>7, <2>2, <2>3
<1>11. IsLog(g, c)
  BY <1>2, <1>8, <1>9, <1>10 DEF IsLog
<1>12. QED
  BY <1>11 DEF g, c

\* The store of the index publishes the element that was written.
LEMMA PublishLog ==
    ASSUME LogInv, NEW p \in Threads, Push(p), Log!PublishWriteIndex(p), UNCHANGED callVars
    PROVE  LogInv'
<1> DEFINE n == Len(pushed)
           e == val[p]
<1>1. /\ ppc[p] = "publish"
      /\ nextWrite' = (reg[p] + 1) % (MaxPushes + 1)
      /\ pushed' = Append(pushed, e)
      /\ ppc' = [ppc EXCEPT ![p] = "count"]
      /\ UNCHANGED <<store, num, slot, reg, val, left, logged>>
  BY DEF Log!PublishWriteIndex, Log!NextIndex, callVars
<1>2. UNCHANGED <<nextRead, cpc, ptr, received, epc, mpc>>
  BY PushFrame
<1>3. /\ ppc \in [Threads -> Steps] /\ val \in [Threads -> Elements]
      /\ logged \in [Threads -> Nat]
      /\ pushed \in Seq(Elements) /\ n \in Nat /\ Len(received) \in Nat
      /\ e \in Elements
  BY DEF LogInv, TypesInv
<1>4. reg[p] = n /\ n < MaxPushes /\ store[n] = e /\ e = <<p, logged[p] + 1>>
  BY <1>1 DEF LogInv, PushInv, Busy
<1>5. /\ pushed' \in Seq(Elements) /\ Len(pushed') = n + 1 /\ pushed'[n + 1] = e
      /\ \A k \in 1 .. n : pushed'[k] = pushed[k]
  BY <1>1, <1>3
<1>7. /\ ppc'[p] = "count" /\ \A q \in Threads : q # p => ppc'[q] = ppc[q]
      /\ ppc' \in [Threads -> Steps]
  BY <1>1, <1>3 DEF Steps
<1>8. \A q \in Threads : q # p => ~Busy(q)
  BY <1>1, OneBusy DEF LogInv, Busy
<1> HIDE DEF n, e
<1>6. nextWrite' = n + 1
  <2>1. n + 1 \in 0 .. MaxPushes
    BY <1>3, <1>4, MaxPushesIsNat
  <2>2. (n + 1) % (MaxPushes + 1) = n + 1
    BY <2>1, MaxPushesIsNat
  <2>3. QED
    BY <1>1, <1>4, <2>2
<1>9. TypesInv'
  BY <1>1, <1>2, <1>5, <1>7 DEF LogInv, TypesInv
<1>10. PushInv'
  <2>1. \A q \in Threads : ~Busy(q)'
    BY <1>7, <1>8 DEF Busy
  <2>2. Len(pushed') <= MaxPushes
    BY <1>3, <1>4, <1>5, MaxPushesIsNat
  <2>3. \A q \in Threads : ppc[q] # "idle" => left[q] > 0
    BY DEF LogInv, PushInv
  <2>4. \A q \in Threads : ppc'[q] # "idle" => left'[q] > 0
    BY <1>1, <1>7, <2>3
  <2>5. QED
    BY <2>1, <2>2, <2>4 DEF PushInv, Busy
<1>11. ContentInv'
  <2>1. \A k \in 1 .. n + 1 : store[k - 1] = pushed'[k]
    <3> SUFFICES ASSUME NEW k \in 1 .. n + 1 PROVE store[k - 1] = pushed'[k]
      OBVIOUS
    <3>1. CASE k = n + 1
      <4>1. k - 1 = n
        BY <1>3, <3>1
      <4>2. QED
        BY <1>4, <1>5, <3>1, <4>1
    <3>2. CASE k \in 1 .. n
      BY <1>5, <3>2 DEF LogInv, ContentInv, n
    <3>3. QED
      BY <1>3, <3>1, <3>2
  <2>2. /\ Len(received) <= n
        /\ \A k \in 1 .. Len(received) : received[k] = pushed[k]
    BY DEF LogInv, ContentInv, n
  <2>3. \A k \in 1 .. Len(received) : received[k] = pushed'[k]
    BY <1>3, <1>5, <2>2
  <2>4. QED
    BY <1>1, <1>2, <1>3, <1>5, <1>6, <2>1, <2>2, <2>3 DEF LogInv, ContentInv, Released
<1>12. Uncounted(p)' = 1 /\ Uncounted(p) = 0
  BY <1>1, <1>7 DEF Uncounted
<1>13. \A q \in Threads : q # p => Uncounted(q)' = Uncounted(q)
  BY <1>7 DEF Uncounted
<1>14. CountInv'
  <2>1. num = n - Pending - Dropped /\ Dropped' = Dropped /\ Dropped \in Int
    BY <1>2, <1>3 DEF LogInv, CountInv, Dropped, n
  <2>2. Pending' = Pending + 1 /\ Pending \in Int
    BY <1>12, <1>13, UncountedIs DEF Pending, Threads
  <2>3. num = (n + 1) - (Pending + 1) - Dropped
    BY <1>3, <2>1, <2>2
  <2>4. QED
    BY <1>1, <1>5, <2>1, <2>2, <2>3 DEF CountInv
<1>15. OwnInv'
  <2>1. Published \in [Threads -> Nat] /\ Published[p] = logged[p]
    BY <1>3, <1>12, UncountedIs DEF Published
  <2>2. Published' = [Published EXCEPT ![p] = @ + 1]
    <3>1. \A q \in Threads : q # p => logged'[q] + Uncounted(q)' = logged[q] + Uncounted(q)
      BY <1>1, <1>13
    <3>2. logged'[p] + Uncounted(p)' = Published[p] + 1
      BY <1>1, <1>12, <2>1
    <3>3. Published' = [q \in Threads |-> IF q = p THEN Published[p] + 1 ELSE Published[q]]
      BY <3>1, <3>2 DEF Published
    <3>4. QED
      BY <2>1, <3>3
  <2>3. IsLog(Append(pushed, e), [Published EXCEPT ![p] = @ + 1])
    BY <1>3, <1>4, <2>1, LogGrows DEF LogInv, OwnInv
  <2>4. QED
    BY <1>1, <2>2, <2>3 DEF OwnInv
<1>16. StopInv'
  BY <1>1, <1>2 DEF LogInv, StopInv
<1>17. QED
  BY <1>9, <1>10, <1>11, <1>14, <1>15, <1>16 DEF LogInv

LEMMA CountLog ==
    ASSUME ReaderInv, LogInv, NEW p \in Threads, Push(p), Log!CountElement(p),
           left' = [left EXCEPT ![p] = @ - 1], logged' = [logged EXCEPT ![p] = @ + 1]
    PROVE  LogInv'
<1>1. /\ ppc[p] = "count"
      /\ num' = num + 1
      /\ ppc' = [ppc EXCEPT ![p] = "idle"]
      /\ UNCHANGED <<store, nextWrite, slot, reg, val, pushed>>
  BY DEF Log!CountElement
<1>2. UNCHANGED <<nextRead, cpc, ptr, received, epc, mpc>>
  BY PushFrame
<1>3. /\ ppc \in [Threads -> Steps] /\ num \in Nat
      /\ left \in [Threads -> Nat] /\ logged \in [Threads -> Nat]
      /\ Len(pushed) \in Nat /\ Len(received) \in Nat
      /\ left[p] > 0
  BY <1>1 DEF ReaderInv, LogInv, TypesInv, PushInv
<1>4. /\ ppc'[p] = "idle" /\ logged'[p] = logged[p] + 1
      /\ \A q \in Threads :
            q # p => ppc'[q] = ppc[q] /\ left'[q] = left[q] /\ logged'[q] = logged[q]
      /\ ppc' \in [Threads -> Steps]
      /\ left' \in [Threads -> Nat] /\ logged' \in [Threads -> Nat]
  BY <1>1, <1>3 DEF Steps
<1>5. TypesInv'
  BY <1>1, <1>2, <1>4 DEF LogInv, TypesInv
<1>6. PushInv'
  BY <1>1, <1>3, <1>4 DEF LogInv, PushInv, Busy
<1>7. ContentInv'
  BY <1>1, <1>2 DEF LogInv, ContentInv, Released
<1>8. Uncounted(p)' = 0 /\ Uncounted(p) = 1
  BY <1>1, <1>4 DEF Uncounted
<1>9. \A q \in Threads : q # p => Uncounted(q)' = Uncounted(q)
  BY <1>4 DEF Uncounted
<1>10. CountInv'
  <2>1. num = Len(pushed) - Pending - Dropped /\ Dropped' = Dropped /\ Dropped \in Int
    BY <1>2, <1>3 DEF LogInv, CountInv, Dropped
  <2>2. Pending' = Pending - 1 /\ Pending \in Int
    BY <1>8, <1>9, UncountedIs DEF Pending, Threads
  <2>3. num + 1 = Len(pushed) - (Pending - 1) - Dropped
    BY <1>3, <2>1, <2>2
  <2>4. QED
    BY <1>1, <2>1, <2>2, <2>3 DEF CountInv
<1>11. OwnInv'
  <2>1. Published' = Published
    BY <1>3, <1>4, <1>8, <1>9 DEF Published
  <2>2. QED
    BY <1>1, <2>1 DEF LogInv, OwnInv
<1>12. StopInv'
  BY <1>2, <1>3, <1>4 DEF LogInv, StopInv, Threads
<1>13. QED
  BY <1>5, <1>6, <1>7, <1>10, <1>11, <1>12 DEF LogInv

LEMMA PushLog ==
    ASSUME ReaderInv, LogInv, NEW p \in Threads, Push(p), ~raced'
    PROVE  LogInv'
BY GetLog, WriteLog, LoadLog, PublishLog, CountLog DEF Push

-----------------------------------------------------------------------------
(* The theorem. *)

LEMMA InitLog == Init => LogInv
<1> SUFFICES ASSUME Init PROVE LogInv
  OBVIOUS
<1>1. /\ store = [i \in 0 .. MaxPushes |-> <<"none", 0>>]
      /\ nextWrite = 0 /\ nextRead = 0 /\ num = 0
      /\ ppc = [p \in Threads |-> "idle"]
      /\ slot = [p \in Threads |-> 0] /\ reg = [p \in Threads |-> 0]
      /\ val = [p \in Threads |-> <<"none", 0>>]
      /\ cpc = "poll"
      /\ pushed = <<>> /\ received = <<>>
  BY MaxPushesIsNat DEF Init, Log!Init, Log!Indices
<1>2. left \in [Threads -> Nat] /\ logged = [p \in Threads |-> 0]
  BY ShutdownAssumption DEF Init
<1>3. "main" \in Threads /\ "engine" \in Threads
  BY DEF Threads
<1>4. TypesInv
  BY <1>1, <1>2 DEF TypesInv, Elements, Steps
<1>5. PushInv
  BY <1>1, <1>3, MaxPushesIsNat DEF PushInv, Busy
<1>6. ContentInv /\ CountInv
  BY <1>1, <1>3 DEF ContentInv, CountInv, Released, Dropped, Pending, Uncounted
<1>7. OwnInv
  BY <1>1, <1>2 DEF OwnInv, IsLog, Published, Uncounted
<1>8. StopInv
  BY DEF Init, StopInv
<1>9. QED
  BY <1>4, <1>5, <1>6, <1>7, <1>8 DEF LogInv

LEMMA LogStep ==
    ReaderInv /\ (~raced => LogInv) /\ [Next]_vars => (~raced' => LogInv')
<1> SUFFICES ASSUME ReaderInv, ~raced => LogInv, [Next]_vars, ~raced' PROVE LogInv'
  OBVIOUS
<1>1. CASE UNCHANGED vars
  BY <1>1 DEF vars, queueVars, callVars, engineVars, mainVars, LogInv, TypesInv, PushInv,
              ContentInv, CountInv, OwnInv, StopInv, Busy, Pending, Uncounted, Published,
              Released, Dropped
<1>2. CASE Next
  <2>1. CASE Control
    BY <2>1, ControlKeepsQueue, ControlLog
  <2>2. CASE FlushElement
    BY <2>2, FlushFrame, FlushLog
  <2>3. ASSUME NEW p \in Threads, Push(p) PROVE LogInv'
    <3>1. ~raced
      BY <2>3 DEF Push
    <3>2. QED
      BY <2>3, <3>1, PushLog
  <2>4. QED
    BY <1>2, <2>1, <2>2, <2>3, NextParts DEF Threads
<1>3. QED
  BY <1>1, <1>2


LEMMA ClosedIsComplete ==
    ASSUME ReaderInv, LogInv, mpc = "closed"
    PROVE  /\ Len(received) = Len(pushed)
           /\ \A k \in 1 .. Len(received) : received[k] = pushed[k]
           /\ \A p \in Threads : Published[p] = logged[p]
<1>1. num = 0 /\ left["main"] = 0 /\ left["engine"] = 0
  BY DEF LogInv, StopInv
<1>2. \A p \in Threads : Uncounted(p) = 0
  BY <1>1 DEF LogInv, PushInv, Threads, Uncounted
<1>3. Pending = 0
  BY <1>2 DEF Pending, Threads
<1>4. Len(pushed) \in Nat /\ Len(received) \in Nat
  BY DEF LogInv, TypesInv
<1>5. Dropped = Len(received)
  BY <1>1 DEF ReaderInv, Dropped
<1>6. Len(received) = Len(pushed)
  BY <1>1, <1>3, <1>4, <1>5 DEF LogInv, CountInv
<1>7. \A p \in Threads : Published[p] = logged[p]
  BY <1>2 DEF Published, LogInv, TypesInv
<1>8. QED
  BY <1>6, <1>7 DEF LogInv, ContentInv

LEMMA LogAlways == Spec => []ShutdownInv
<1>1. Init => ShutdownInv
  BY InitReader, InitLog DEF ShutdownInv
<1>2. ShutdownInv /\ [Next]_vars => ShutdownInv'
  BY ReaderStep, LogStep DEF ShutdownInv
<1>3. QED
  BY <1>1, <1>2, PTL DEF Spec

\* If the two threads are never in the middle of a push at the same time, the
\* file that ~Logger() closes has all that both have logged: it waits for a count
\* of 0, which says that nothing is left because nobody is about to count.
THEOREM FileIsComplete == Spec => []LogComplete
<1>1. ShutdownInv => LogComplete
  <2> SUFFICES ASSUME ReaderInv, LogInv, mpc = "closed"
               PROVE  /\ \A k \in 1 .. Len(received) : received[k][1] \in Threads
                      /\ \A p \in Threads :
                            LET own == {k \in 1 .. Len(received) : received[k][1] = p}
                            IN  /\ {received[k][2] : k \in own} = 1 .. logged[p]
                                /\ \A j, k \in own :
                                      j < k => received[j][2] < received[k][2]
    BY DEF LogComplete, ShutdownInv
  <2>1. IsLog(received, logged)
    <3>1. IsLog(pushed, Published)
      BY DEF LogInv, OwnInv
    <3>2. \A k \in 1 .. Len(pushed) : pushed[k][1] \in Threads
      BY <3>1 DEF IsLog
    <3>3. QED
      BY <3>1, <3>2, ClosedIsComplete DEF IsLog
  <2>2. \A k \in 1 .. Len(received) :
           received[k][1] \in Threads /\ received[k][2] \in 1 .. logged[received[k][1]]
    BY <2>1 DEF IsLog
  <2>3. ASSUME NEW p \in Threads
        PROVE  LET own == {k \in 1 .. Len(received) : received[k][1] = p}
               IN  /\ {received[k][2] : k \in own} = 1 .. logged[p]
                   /\ \A j, k \in own : j < k => received[j][2] < received[k][2]
    <3> DEFINE own == {k \in 1 .. Len(received) : received[k][1] = p}
    <3>1. \A k \in own : received[k][2] \in 1 .. logged[p]
      BY <2>2
    <3>2. \A n \in 1 .. logged[p] : \E k \in own : received[k][2] = n
      <4> SUFFICES ASSUME NEW n \in 1 .. logged[p]
                   PROVE  \E k \in own : received[k][2] = n
        OBVIOUS
      <4>1. PICK k \in 1 .. Len(received) : received[k] = <<p, n>>
        BY <2>1 DEF IsLog
      <4>2. received[k][1] = p /\ received[k][2] = n
        BY <4>1
      <4>3. QED
        BY <4>2
    <3>3. \A j, k \in own : j < k => received[j][2] < received[k][2]
      BY <2>1 DEF IsLog
    <3> HIDE DEF own
    <3>4. {received[k][2] : k \in own} = 1 .. logged[p]
      BY <3>1, <3>2
    <3>5. QED
      BY <3>3, <3>4 DEF own
  <2>4. QED
    BY <2>2, <2>3
<1>2. QED
  BY <1>1, LogAlways, PTL

=============================================================================
