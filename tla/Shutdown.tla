------------------------------ MODULE Shutdown ------------------------------
(***************************************************************************)
(* How the trading client ends, and what becomes of the engine's log.  The *)
(* Logger (common/Logging.hpp) takes what is logged element by element     *)
(* from a LockFreeQueue and writes it to a file on a thread of its own;    *)
(* its destructor waits for the queue to be empty and then for the thread. *)
(* The queue is made for one producer.  The engine's log has two: the      *)
(* engine thread, and the main thread in sendClientRequest (the RANDOM     *)
(* loop), in stop() and in the destructor.                                 *)
(*                                                                         *)
(* The queue is LockFreeQueue itself, one access to shared memory a step.  *)
(* Its eight million slots never fill up.  Elements are numbered by the    *)
(* thread that logs them.                                                  *)
(*                                                                         *)
(* The main thread sleeps for ten seconds and for one before it destroys   *)
(* the engine.  This is taken to be longer than the engine thread needs to *)
(* see is_running and to leave its loop, and the consumer and the gateway  *)
(* to leave theirs.                                                        *)
(***************************************************************************)
EXTENDS Integers, Sequences

CONSTANTS
    LogLen,         \* elements of a call of log()
    MaxUpdates,     \* bound on the updates that arrive for the engine
    MaxRandom,      \* bound on the requests of the RANDOM loop
    MaxSleeps       \* bound on the rounds of stop() that log something

ASSUME ShutdownAssumption ==
    {LogLen, MaxUpdates, MaxRandom, MaxSleeps} \subseteq Nat

Threads == {"main", "engine"}

\* Every call of log() that a behaviour can make.
MaxPushes == LogLen * (MaxUpdates + MaxRandom + MaxSleeps + 3)

VARIABLES
    store, nextWrite, nextRead, num, ppc, slot, reg, val, cpc, ptr, exited,
    pushed, received, forwarded,    \* the queue, see LockFreeQueue
    left,       \* elements that a thread's call of log() has still to push
    logged,     \* history: elements that a thread has pushed
    lpc,        \* the logger: "inner" loop, "test" of running, "done"
    running,    \* Logger::running
    inbox,      \* responses and market updates that wait for the engine
    arrived,    \* how many there have been
    isRunning,  \* TradeEngine::is_running
    epc,        \* the engine: "test", "look" for an update, "busy", "done"
    mpc,        \* the main thread, see below
    random, sleeps,     \* RANDOM requests, rounds of stop() so far
    raced       \* history: both threads were in the middle of a push

Log == INSTANCE LockFreeQueue WITH
           Producers <- Threads, Values <- Threads \X (1 .. MaxPushes),
           EmptySlot <- <<"none", 0>>, Capacity <- MaxPushes + 1,
           Backlog <- MaxPushes + 1, SizeChecked <- TRUE,
           ReadsAfterRelease <- FALSE

queueVars == <<store, nextWrite, nextRead, num, ppc, slot, reg, val, cpc, ptr,
               exited, pushed, received, forwarded>>
callVars == <<left, logged>>
loggerVars == <<lpc, running>>
engineVars == <<inbox, arrived, isRunning, epc>>
mainVars == <<mpc, random, sleeps>>
vars == <<queueVars, callVars, loggerVars, engineVars, mainVars, raced>>

-----------------------------------------------------------------------------
(* Logger. *)

\* One step of pushValue() within a call of log(): its four accesses to the
\* queue and the write of the slot.
Push(p) ==
    /\ \/ left[p] > 0 /\ Log!GetNextToWrite(p) /\ UNCHANGED callVars
       \/ Log!WriteSlot(p, <<p, logged[p] + 1>>) /\ UNCHANGED callVars
       \/ Log!LoadWriteIndex(p) /\ UNCHANGED callVars
       \/ Log!PublishWriteIndex(p) /\ UNCHANGED callVars
       \/ /\ Log!CountElement(p)
          /\ left' = [left EXCEPT ![p] = @ - 1]
          /\ logged' = [logged EXCEPT ![p] = @ + 1]
    /\ raced' = (raced \/ \A t \in Threads : ppc'[t] \in {"write", "load", "publish"})
    /\ UNCHANGED <<loggerVars, engineVars, mainVars>>

\* A thread goes on with what it does when its call of log() is finished.
Calls(p) == left' = [left EXCEPT ![p] = LogLen] /\ UNCHANGED logged
Free(p) == left[p] = 0

\* flushQueue(), inner loop: write out what is there.
FlushElement ==
    /\ lpc = "inner" /\ mpc # "fatal"
    /\ \/ Log!GetNextToRead /\ UNCHANGED lpc
       \/ Log!CheckSize /\ lpc' = IF cpc' = "use" THEN "inner" ELSE "test"
       \/ Log!UseElement /\ UNCHANGED lpc
       \/ Log!AdvanceReadIndex /\ UNCHANGED lpc
       \/ Log!DropCount /\ UNCHANGED lpc
    /\ UNCHANGED <<callVars, running, engineVars, mainVars, raced>>

\* The outer loop looks at running only after the inner one found nothing.
TestRunning ==
    /\ lpc = "test" /\ mpc # "fatal"
    /\ lpc' = IF running THEN "inner" ELSE "done"
    /\ UNCHANGED <<queueVars, callVars, running, engineVars, mainVars, raced>>

-----------------------------------------------------------------------------
(* The engine thread: TradeEngine::run. *)

\* A response or a market update arrives from the gateway or the consumer.
Arrive ==
    /\ mpc \in {"trading", "draining", "positions", "sleeping"}
    /\ arrived < MaxUpdates
    /\ inbox' = inbox + 1 /\ arrived' = arrived + 1
    /\ UNCHANGED <<queueVars, callVars, loggerVars, isRunning, epc,
                   mainVars, raced>>

TestIsRunning ==
    /\ epc = "test" /\ Free("engine")
    /\ epc' = IF isRunning THEN "look" ELSE "done"
    /\ UNCHANGED <<queueVars, callVars, loggerVars, inbox, arrived, isRunning,
                   mainVars, raced>>

\* An update is there: it is logged and worked on.
Look ==
    /\ epc = "look"
    /\ IF inbox > 0 THEN epc' = "busy" /\ Calls("engine")
       ELSE epc' = "test" /\ UNCHANGED callVars
    /\ UNCHANGED <<queueVars, loggerVars, inbox, arrived, isRunning,
                   mainVars, raced>>

\* updateReadIndex() comes after that.
EndUpdate ==
    /\ epc = "busy" /\ Free("engine")
    /\ inbox' = inbox - 1
    /\ epc' = "look"
    /\ UNCHANGED <<queueVars, callVars, loggerVars, arrived, isRunning,
                   mainVars, raced>>

-----------------------------------------------------------------------------
(* The main thread: "trading", "draining" in stop(), "positions" logged,    *)
(* "sleeping", "destroying" the engine, "joining" the logger's thread,      *)
(* "closed"; or "fatal", when the process ends in between.                  *)

\* sendClientRequest() from the RANDOM loop.
SendRandom ==
    /\ mpc = "trading" /\ Free("main") /\ random < MaxRandom
    /\ random' = random + 1
    /\ Calls("main")
    /\ UNCHANGED <<queueVars, loggerVars, engineVars, mpc, sleeps, raced>>

BeginStop ==
    /\ mpc = "trading" /\ Free("main")
    /\ mpc' = "draining"
    /\ UNCHANGED <<queueVars, callVars, loggerVars, engineVars, random, sleeps,
                   raced>>

\* stop() waits for both queues to be empty and logs that it does.
Drain ==
    /\ mpc = "draining" /\ Free("main") /\ inbox > 0 /\ sleeps < MaxSleeps
    /\ sleeps' = sleeps + 1
    /\ Calls("main")
    /\ UNCHANGED <<queueVars, loggerVars, engineVars, mpc, random, raced>>

LogPositions ==
    /\ mpc = "draining" /\ Free("main") /\ inbox = 0
    /\ mpc' = "positions"
    /\ Calls("main")
    /\ UNCHANGED <<queueVars, loggerVars, engineVars, random, sleeps, raced>>

\* Then the consumer and the gateway are told to stop, and main sleeps.
StopEngine ==
    /\ mpc = "positions" /\ Free("main")
    /\ isRunning' = FALSE
    /\ mpc' = "sleeping"
    /\ UNCHANGED <<queueVars, callVars, loggerVars, inbox, arrived, epc,
                   random, sleeps, raced>>

\* ~TradeEngine() after the sleeps: the books are printed and checked, a check
\* that fails on every bid (MarketOrderBook) and ends the process, ...
FailCheck ==
    /\ mpc = "sleeping" /\ epc = "done"
    /\ mpc' = "fatal"
    /\ UNCHANGED <<queueVars, callVars, loggerVars, engineVars, random, sleeps,
                   raced>>

\* ... or what was printed is logged.
DestroyEngine ==
    /\ mpc = "sleeping" /\ epc = "done"
    /\ mpc' = "destroying"
    /\ Calls("main")
    /\ UNCHANGED <<queueVars, loggerVars, engineVars, random, sleeps, raced>>

\* Fault: running is cleared before the queue is empty.
AwaitEmpty_Later ==
    /\ mpc = "destroying" /\ Free("main")
    /\ IF running THEN running' = FALSE /\ UNCHANGED mpc
       ELSE num = 0 /\ mpc' = "joining" /\ UNCHANGED running
    /\ UNCHANGED <<queueVars, callVars, lpc, engineVars, random, sleeps, raced>>

\* Fault: the queue need not be empty.
AwaitEmpty_Never ==
    /\ mpc = "destroying" /\ Free("main")
    /\ running' = FALSE
    /\ mpc' = "joining"
    /\ UNCHANGED <<queueVars, callVars, lpc, engineVars, random, sleeps, raced>>

\* ~Logger(): wait for size() = 0, then let the thread go ...
AwaitEmpty ==
    /\ mpc = "destroying" /\ Free("main") /\ num = 0
    /\ running' = FALSE
    /\ mpc' = "joining"
    /\ UNCHANGED <<queueVars, callVars, lpc, engineVars, random, sleeps, raced>>

\* ... and close the file when it has gone.
Join ==
    /\ mpc = "joining" /\ lpc = "done"
    /\ mpc' = "closed"
    /\ UNCHANGED <<queueVars, callVars, loggerVars, engineVars, random, sleeps,
                   raced>>

-----------------------------------------------------------------------------
Init ==
    /\ Log!Init
    \* run() begins with a line of its own
    /\ left = [p \in Threads |-> IF p = "engine" THEN LogLen ELSE 0]
    /\ logged = [p \in Threads |-> 0]
    /\ lpc = "inner" /\ running = TRUE
    /\ inbox = 0 /\ arrived = 0
    /\ isRunning = TRUE /\ epc = "test"
    /\ mpc = "trading" /\ random = 0 /\ sleeps = 0
    /\ raced = FALSE

Logger == FlushElement \/ TestRunning
Engine == Push("engine") \/ TestIsRunning \/ Look \/ EndUpdate
Stopping ==
    \/ Drain \/ LogPositions \/ StopEngine
    \/ FailCheck \/ DestroyEngine \/ AwaitEmpty \/ Join
Main == Push("main") \/ Stopping

Next == Logger \/ Engine \/ Main \/ SendRandom \/ BeginStop \/ Arrive

Spec == Init /\ [][Next]_vars

\* Each thread runs on.  Nothing makes an update arrive or trading end.
FairSpec == Spec /\ WF_vars(Logger) /\ WF_vars(Engine) /\ WF_vars(Main)

-----------------------------------------------------------------------------
(* Properties. *)

\* Even with two producers the logger thread never fails the queue's assertion:
\* it takes no more elements than were counted.
ReaderSafe == ~exited

\* A file that is closed holds everything that was logged and nothing else, each
\* thread's elements once and in order, unless the two threads were once in the
\* middle of a push at the same time.
LogComplete ==
    mpc = "closed" /\ ~raced =>
        /\ \A k \in 1 .. Len(received) : received[k][1] \in Threads
        /\ \A p \in Threads :
              LET own == {k \in 1 .. Len(received) : received[k][1] = p}
              IN  /\ {received[k][2] : k \in own} = 1 .. logged[p]
                  /\ \A j, k \in own : j < k => received[j][2] < received[k][2]

\* Shutdown comes to its end: the engine leaves its loop and, unless the check
\* of a book ends the process, the queue runs empty and the logger thread ends.
\* A push lost between two producers leaves the count above 0 and the
\* destructor waits for ever.
ShutdownEnds == mpc = "draining" ~> mpc \in {"closed", "fatal"} \/ raced

=============================================================================
