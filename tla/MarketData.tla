----------------------------- MODULE MarketData -----------------------------
(***************************************************************************)
(* The public market data path.  MarketDataPublisher (exchange) numbers    *)
(* the order book's updates, multicasts them on the incremental stream and *)
(* forwards them to SnapshotSynthesizer, a second thread that keeps its    *)
(* own image of the book and multicasts it once a minute on the snapshot   *)
(* stream.  MarketDataConsumer (client) hands the incremental updates on   *)
(* in order; when a sequence number is not the one it expects it joins the *)
(* snapshot stream, queues both streams and puts the book together again.  *)
(*                                                                         *)
(* An order is known by its ticker and its market order id; what the rest  *)
(* of an update says about it is its quantity, 0 standing for no order.    *)
(* The queue between the two exchange threads is the FIFO channel that     *)
(* LockFreeQueue is shown to be.  Datagrams travel by UDP: a network may   *)
(* lose one, deliver it twice or let it overtake the one before it, if     *)
(* this is among its kinds of faults, and at most as often as its bound.   *)
(***************************************************************************)
EXTENDS Integers, Sequences, SequencesExt, FiniteSetsExt

CONSTANTS
    Tickers,        \* the tickers, numbers from 0 (ME_MAX_TICKERS)
    MaxOrderId,     \* the largest market order id of a ticker
    Quantities,     \* quantities of orders
    MaxUpdates,     \* bound on the updates the order books produce
    Networks,       \* the networks in question: kinds of faults, a bound on
                    \* them, and one on the market order ids in use with it
    MaxBuffered     \* bound on the snapshot datagrams waiting at the client

ASSUME MarketDataAssumption ==
    /\ Tickers \subseteq Nat /\ IsFiniteSet(Tickers)
    /\ Quantities \subseteq Nat \ {0}
    /\ Networks \subseteq
           [kinds : SUBSET {"lost", "duplicated", "overtakes"}, max : Nat,
            orders : 1 .. MaxOrderId]
    /\ {MaxOrderId, MaxUpdates, MaxBuffered} \subseteq Nat

VARIABLES
    books,          \* history: books[n + 1] is the book after n updates
    nextOrderId,    \* next market order id of each ticker
    nextInc,        \* MarketDataPublisher::next_increment_sequence_number
    outBuf,         \* messages in the incremental socket's send_buffer
    snapQueue,      \* snapshot_market_updates
    orders,         \* SnapshotSynthesizer::ticker_orders
    lastInc,        \* its last_increment_sequence_number
    toSend,         \* messages of the snapshot that are still to be sent
    status,         \* "running", or the ASSERT that ended the exchange
    incNet, snapNet,\* datagrams on their way to the client's two sockets
    net,            \* the network, which never changes
    faults,         \* its faults so far
    rx, rxSnapshot, \* messages left in the client's recv_buffer, and
                    \* is_snapshot of the recvCallback that works on them
    nextExp,        \* next_expected_sequence_number
    inRecovery,     \* in_recovery_mode; the snapshot socket is open with it
    snapMsgs,       \* snapshot_queued_msgs
    incMsgs,        \* incremental_queued_msgs
    view,           \* what the updates in incoming_md_queue amount to
    merged          \* history: the last recovery was completed with the head
                    \* of one snapshot and the tail of another

bookVars == <<books, nextOrderId>>
publisherVars == <<nextInc, outBuf>>
synthVars == <<orders, lastInc, toSend>>
clientVars == <<rx, rxSnapshot, nextExp, inRecovery, snapMsgs, incMsgs, view,
                merged>>
netVars == <<net, faults>>
vars == <<bookVars, publisherVars, snapQueue, synthVars, status, incNet,
          snapNet, netVars, clientVars>>

-----------------------------------------------------------------------------
(* Updates and messages. *)

Keys == Tickers \X (1 .. MaxOrderId)
NoOrders == [k \in Keys |-> 0]
Book == books[Len(books)]

\* MatchingEngineMarketUpdate; the id of SNAPSHOT_START and SNAPSHOT_END is
\* last_increment_sequence_number.
Update(type, ticker, id, qty) ==
    [type |-> type, ticker |-> ticker, id |-> id, qty |-> qty]

\* MDPMarketUpdate
Message(seq, u) == [seq |-> seq, u |-> u]

\* Does update u speak of order k?
Touches(u, k) ==
    \/ u.type = "CLEAR" /\ u.ticker = k[1]
    \/ u.type \in {"ADD", "MODIFY", "CANCEL"} /\ <<u.ticker, u.id>> = k

\* The quantity an order is left with by an update that touches it.
QtyAfter(u) == IF u.type \in {"ADD", "MODIFY"} THEN u.qty ELSE 0

\* A book after one more update.
After(book, u) ==
    [k \in Keys |-> IF Touches(u, k) THEN QtyAfter(u) ELSE book[k]]

Seqs(S) == {m.seq : m \in S}
Latest(S) == CHOOSE m \in S : \A n \in S : n.seq <= m.seq
Earliest(S) == CHOOSE m \in S : \A n \in S : m.seq <= n.seq

\* A book after the messages of S in the order of their sequence numbers.
AfterAll(book, S) ==
    [k \in Keys |->
        LET on == {m \in S : Touches(m.u, k)}
        IN  IF on = {} THEN book[k] ELSE QtyAfter(Latest(on).u)]

-----------------------------------------------------------------------------
(* The network: what can become of a stream when datagram d is sent.  A     *)
(* datagram may overtake the one before it, but not one of a snapshot that  *)
(* was sent a minute earlier.                                               *)

Transit(stream, d, stream2) ==
    /\ UNCHANGED net
    /\ \/ /\ stream2 = Append(stream, d)
          /\ UNCHANGED faults
       \/ /\ faults < net.max
          /\ faults' = faults + 1
          /\ \/ /\ "lost" \in net.kinds
                /\ stream2 = stream
             \/ /\ "duplicated" \in net.kinds
                /\ stream2 = stream \o <<d, d>>
             \/ /\ "overtakes" \in net.kinds
                /\ stream # <<>> /\ Last(stream)[1].seq < d[1].seq
                /\ stream2 = Front(stream) \o <<d, Last(stream)>>

-----------------------------------------------------------------------------
(* MarketDataPublisher::run.  The updates come from the order books, which *)
(* add an order under a new id, lower an order's quantity and remove one.  *)

BookUpdates ==
    {Update("ADD", t, nextOrderId[t], q) :
        t \in {s \in Tickers : nextOrderId[s] <= net.orders}, q \in Quantities}
    \cup
    {u \in {Update("MODIFY", k[1], k[2], q) : k \in Keys, q \in Quantities} :
        u.qty < Book[<<u.ticker, u.id>>]}
    \cup
    {Update("CANCEL", k[1], k[2], 0) : k \in {j \in Keys : Book[j] # 0}}

\* One turn of the inner loop: buffer the update under the next number and
\* forward it to the synthesizer.
PublishUpdate(u) ==
    /\ status = "running"
    /\ nextInc <= MaxUpdates
    /\ books' = Append(books, After(Book, u))
    /\ nextOrderId' = IF u.type = "ADD"
                      THEN [nextOrderId EXCEPT ![u.ticker] = @ + 1]
                      ELSE nextOrderId
    /\ outBuf' = Append(outBuf, Message(nextInc, u))
    /\ snapQueue' = Append(snapQueue, Message(nextInc, u))
    /\ nextInc' = nextInc + 1
    /\ UNCHANGED <<synthVars, status, incNet, snapNet, netVars, clientVars>>

\* incremental_socket.sendAndRecv() after the inner loop found its queue
\* empty: all that was buffered leaves as one datagram.
SendIncremental ==
    /\ status = "running"
    /\ outBuf # <<>>
    /\ Transit(incNet, outBuf, incNet')
    /\ outBuf' = <<>>
    /\ UNCHANGED <<bookVars, nextInc, snapQueue, synthVars, status, snapNet,
                   clientVars>>

-----------------------------------------------------------------------------
(* SnapshotSynthesizer::run: drain the queue, then publish if it is time. *)

\* The ASSERTs of addToSnapshot in the state before message m is applied.
Accepts(m) ==
    /\ m.u.type = "ADD" => orders[<<m.u.ticker, m.u.id>>] = 0
    /\ m.u.type \in {"MODIFY", "CANCEL"} =>
           orders[<<m.u.ticker, m.u.id>>] # 0
    /\ m.seq = lastInc + 1

\* Fault: a MODIFY does not reach the order's image.
AddToSnapshot_IgnoresModify ==
    /\ status = "running"
    /\ toSend = <<>> /\ snapQueue # <<>>
    /\ LET m == Head(snapQueue)
       IN  IF Accepts(m)
           THEN /\ orders' = IF m.u.type = "MODIFY" THEN orders
                             ELSE After(orders, m.u)
                /\ lastInc' = m.seq
                /\ UNCHANGED status
           ELSE /\ status' = "snapshot assertion"
                /\ UNCHANGED <<orders, lastInc>>
    /\ snapQueue' = Tail(snapQueue)
    /\ UNCHANGED <<bookVars, publisherVars, toSend, incNet, snapNet, netVars,
                   clientVars>>

AddToSnapshot ==
    /\ status = "running"
    /\ toSend = <<>> /\ snapQueue # <<>>
    /\ LET m == Head(snapQueue)
       IN  IF Accepts(m)
           THEN /\ orders' = After(orders, m.u)
                /\ lastInc' = m.seq
                /\ UNCHANGED status
           ELSE /\ status' = "snapshot assertion"
                /\ UNCHANGED <<orders, lastInc>>
    /\ snapQueue' = Tail(snapQueue)
    /\ UNCHANGED <<bookVars, publisherVars, toSend, incNet, snapNet, netVars,
                   clientVars>>

Before(j, k) == j[1] < k[1] \/ (j[1] = k[1] /\ j[2] < k[2])

\* A CLEAR for each ticker, followed by the orders of the ticker by id; a
\* CLEAR stands at id 0.
SnapshotBody(image) ==
    LET places == (Tickers \X {0}) \cup {k \in Keys : image[k] # 0}
        sorted == CHOOSE f \in [1 .. Cardinality(places) -> places] :
                      \A i, j \in DOMAIN f : i < j => Before(f[i], f[j])
        update(k) == IF k[2] = 0 THEN Update("CLEAR", k[1], 0, 0)
                     ELSE Update("ADD", k[1], k[2], image[k])
    IN  [i \in DOMAIN sorted |-> update(sorted[i])]

\* All messages of the snapshot of an image after update last, numbered from 0.
SnapshotMessages(image, last) ==
    LET all == <<Update("SNAPSHOT_START", 0, last, 0)>> \o SnapshotBody(image)
               \o <<Update("SNAPSHOT_END", 0, last, 0)>>
    IN  [i \in DOMAIN all |-> Message(i - 1, all[i])]

\* The queue was seen empty and a minute has passed: publishSnapshot().
BeginSnapshot ==
    /\ status = "running"
    /\ toSend = <<>> /\ snapQueue = <<>>
    /\ toSend' = SnapshotMessages(orders, lastInc)
    /\ UNCHANGED <<bookVars, publisherVars, snapQueue, orders, lastInc, status,
                   incNet, snapNet, netVars, clientVars>>

\* publishSnapshot() calls sendAndRecv() after every message but a CLEAR.
\* The datagram reaches the client only while it has the stream joined.
SendSnapshot ==
    /\ status = "running"
    /\ toSend # <<>>
    /\ Len(snapNet) < MaxBuffered
    /\ LET n == Min({i \in DOMAIN toSend : toSend[i].u.type # "CLEAR"})
       IN  /\ IF inRecovery
              THEN Transit(snapNet, SubSeq(toSend, 1, n), snapNet')
              ELSE UNCHANGED <<snapNet, netVars>>
           /\ toSend' = SubSeq(toSend, n + 1, Len(toSend))
    /\ UNCHANGED <<bookVars, publisherVars, snapQueue, orders, lastInc, status,
                   incNet, clientVars>>

-----------------------------------------------------------------------------
(* MarketDataConsumer::run takes one datagram at a time from each socket   *)
(* and calls recvCallback, which works through its messages.               *)

RecvIncremental ==
    /\ rx = <<>> /\ incNet # <<>>
    /\ rx' = Head(incNet) /\ rxSnapshot' = FALSE
    /\ incNet' = Tail(incNet)
    /\ UNCHANGED <<bookVars, publisherVars, snapQueue, synthVars, status,
                   snapNet, netVars, nextExp, inRecovery, snapMsgs, incMsgs,
                   view, merged>>

\* Outside recovery the socket is closed and has nothing to receive.
RecvSnapshot ==
    /\ rx = <<>> /\ snapNet # <<>>
    /\ rx' = Head(snapNet) /\ rxSnapshot' = TRUE
    /\ snapNet' = Tail(snapNet)
    /\ UNCHANGED <<bookVars, publisherVars, snapQueue, synthVars, status,
                   incNet, netVars, nextExp, inRecovery, snapMsgs, incMsgs,
                   view, merged>>

\* Fault: a gap in the numbers is not noticed.
HandOn_AcceptsGap ==
    /\ rx # <<>> /\ ~rxSnapshot
    /\ ~inRecovery /\ Head(rx).seq >= nextExp
    /\ nextExp' = Head(rx).seq + 1
    /\ view' = After(view, Head(rx).u)
    /\ rx' = Tail(rx)
    /\ UNCHANGED <<bookVars, publisherVars, snapQueue, synthVars, status,
                   incNet, snapNet, netVars, rxSnapshot, inRecovery, snapMsgs,
                   incMsgs, merged>>

\* The next message is an incremental in order: hand it on.
HandOn ==
    /\ rx # <<>> /\ ~rxSnapshot
    /\ ~inRecovery /\ Head(rx).seq = nextExp
    /\ nextExp' = nextExp + 1
    /\ view' = After(view, Head(rx).u)
    /\ rx' = Tail(rx)
    /\ UNCHANGED <<bookVars, publisherVars, snapQueue, synthVars, status,
                   incNet, snapNet, netVars, rxSnapshot, inRecovery, snapMsgs,
                   incMsgs, merged>>

\* checkSnapshotSync() gives the queued snapshot up: it does not begin with
\* SNAPSHOT_START or its numbers are not 0, 1, 2, ...
Discards(S) ==
    /\ S # {}
    /\ \/ Earliest(S).u.type # "SNAPSHOT_START"
       \/ Seqs(S) # 0 .. Cardinality(S) - 1

HasEnded(S) == S # {} /\ Latest(S).u.type = "SNAPSHOT_END"

\* Fault: the updates from the snapshot's own number on are applied again.
ResumeAt_Again(S) == Latest(S).u.id

\* Fault: one update too many is taken to be in the snapshot.
ResumeAt_Skips(S) == Latest(S).u.id + 2

\* The first incremental that the snapshot does not contain.
ResumeAt(S) == Latest(S).u.id + 1

\* The first number from n on that is missing among the queued incrementals.
FirstMissing(I, n) ==
    CHOOSE m \in n .. n + Cardinality(I) :
        m \notin Seqs(I) /\ (n .. m - 1) \subseteq Seqs(I)

\* Fault: a queued incremental that the snapshot contains counts as a gap.
HasGap_CountsOld(I, n) ==
    \E m \in I : m.seq > FirstMissing(I, n) \/ m.seq < n

HasGap(I, n) == \E m \in I : m.seq > FirstMissing(I, n)

\* The updates handed on when recovery ends: the snapshot's body, then the
\* queued incrementals that come after it.
Rebuilt(S, I) ==
    AfterAll(AfterAll(view, S), {m \in I : m.seq >= ResumeAt(S)})

\* checkSnapshotSync() on the queued messages S and I.
CheckSnapshotSync(S, I) ==
    \/ /\ Discards(S)
       /\ snapMsgs' = {} /\ incMsgs' = I
       /\ UNCHANGED <<nextExp, view, merged>>
       /\ inRecovery' = TRUE
    \/ /\ ~Discards(S) /\ ~HasEnded(S)
       /\ snapMsgs' = S /\ incMsgs' = I
       /\ UNCHANGED <<nextExp, view, merged>>
       /\ inRecovery' = TRUE
    \/ /\ ~Discards(S) /\ HasEnded(S)
       /\ nextExp' = FirstMissing(I, ResumeAt(S))
       /\ snapMsgs' = {}
       /\ IF HasGap(I, ResumeAt(S))
          THEN /\ incMsgs' = I
               /\ UNCHANGED <<view, merged>>
               /\ inRecovery' = TRUE
          ELSE /\ incMsgs' = {}
               /\ view' = Rebuilt(S, I)
               /\ merged' = (Earliest(S).u.id # Latest(S).u.id)
               /\ inRecovery' = FALSE

\* snapshot_queued_msgs after message m: a number that is there already
\* means that the rest of an earlier snapshot was lost.
QueuedSnapshot(S, m) == IF m.seq \in Seqs(S) THEN {m} ELSE S \cup {m}

\* incremental_queued_msgs after message m.
QueuedIncremental(I, m) == {n \in I : n.seq # m.seq} \cup {m}

\* The next message finds the client in recovery or puts it there
\* (startSnapshotSync()): queueMessage() and checkSnapshotSync().  A client
\* that leaves recovery closes the snapshot socket.
QueueMessage ==
    /\ rx # <<>>
    /\ inRecovery \/ Head(rx).seq # nextExp
    /\ LET m == Head(rx)
           S == IF inRecovery THEN snapMsgs ELSE {}
           I == IF inRecovery THEN incMsgs ELSE {}
       IN  IF rxSnapshot
           THEN CheckSnapshotSync(QueuedSnapshot(S, m), I)
           ELSE CheckSnapshotSync(S, QueuedIncremental(I, m))
    /\ snapNet' = IF inRecovery' THEN snapNet ELSE <<>>
    /\ rx' = Tail(rx)
    /\ UNCHANGED <<bookVars, publisherVars, snapQueue, synthVars, status,
                   incNet, netVars, rxSnapshot>>

-----------------------------------------------------------------------------
Init ==
    /\ books = <<NoOrders>>
    /\ nextOrderId = [t \in Tickers |-> 1]
    /\ nextInc = 1 /\ outBuf = <<>>
    /\ snapQueue = <<>>
    /\ orders = NoOrders /\ lastInc = 0 /\ toSend = <<>>
    /\ status = "running"
    /\ incNet = <<>> /\ snapNet = <<>>
    /\ net \in Networks /\ faults = 0
    /\ rx = <<>> /\ rxSnapshot = FALSE
    /\ nextExp = 1 /\ inRecovery = FALSE
    /\ snapMsgs = {} /\ incMsgs = {}
    /\ view = NoOrders /\ merged = FALSE

Synthesize == AddToSnapshot \/ BeginSnapshot \/ SendSnapshot
Consume == RecvIncremental \/ RecvSnapshot \/ HandOn \/ QueueMessage

Next ==
    \/ \E u \in BookUpdates : PublishUpdate(u)
    \/ SendIncremental
    \/ Synthesize
    \/ Consume

Spec == Init /\ [][Next]_vars

\* Every thread runs a loop that never blocks, the snapshot timer always
\* expires again, and the client's loop serves both of its sockets.
FairSpec ==
    /\ Spec
    /\ WF_vars(SendIncremental)
    /\ WF_vars(Synthesize)
    /\ WF_vars(RecvIncremental) /\ WF_vars(RecvSnapshot)
    /\ WF_vars(HandOn \/ QueueMessage)

-----------------------------------------------------------------------------
(* Properties. *)

\* The exchange and the client stay within their domains; the client never
\* expects an update beyond the next one to be published.
TypeOK ==
    /\ \A n \in DOMAIN books : books[n] \in [Keys -> Quantities \cup {0}]
    /\ nextOrderId \in [Tickers -> 1 .. MaxOrderId + 1]
    /\ nextInc \in 1 .. MaxUpdates + 1
    /\ orders \in [Keys -> Quantities \cup {0}]
    /\ lastInc \in 0 .. nextInc - 1
    /\ status \in {"running", "snapshot assertion"}
    /\ faults \in 0 .. net.max
    /\ rxSnapshot \in BOOLEAN
    /\ nextExp \in 1 .. nextInc
    /\ inRecovery \in BOOLEAN /\ merged \in BOOLEAN
    /\ view \in [Keys -> Quantities \cup {0}]

\* The synthesizer's image of the book, kept by another thread from another
\* copy of the updates, is the book after the update it names as its last
\* (the number SNAPSHOT_START and SNAPSHOT_END carry), and none of the
\* assertions of addToSnapshot() ever fails.
SnapshotIsBook ==
    /\ status = "running"
    /\ orders = books[lastInc + 1]

\* Outside recovery the updates handed to the trading engine amount to
\* exactly the exchange's book before update next_expected_sequence_number,
\* whatever the network did to the datagrams of both streams.  The exception is
\* a recovery that put the head of one snapshot and the tail of another
\* together, which checkSnapshotSync() does not notice; the next recovery makes
\* up for it.
InSyncViewIsBook == ~inRecovery /\ ~merged => view = books[nextExp]

\* A recovery that began is completed: the snapshot that comes after the
\* last lost datagram ends it.
RecoveryEnds == inRecovery ~> ~inRecovery

Newest == nextInc - 1
Arrived ==
    /\ nextInc = MaxUpdates + 1
    /\ \E i \in DOMAIN incNet : \E j \in DOMAIN incNet[i] :
           incNet[i][j].seq = Newest
InSync == ~inRecovery /\ (merged \/ view = Book)

\* When the newest update's datagram reaches the client over a network that
\* loses datagrams but keeps their order, the client ends up with the exchange's
\* current book for good: either it is in order, or the gap starts a recovery.
CatchesUp == Arrived /\ net.kinds = {"lost"} ~> []InSync

=============================================================================
