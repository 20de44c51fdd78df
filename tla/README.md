# Verification of the electronic trading system

TLA+ models of the exchange and of the trading client, the TLC runs that check
them on small instances, and TLAPS proofs of what holds for every instance.
`PROJECT.json` lists the components, the runs with what each one shows, the
source lines behind every definition, a faulty variant for every property, the
hazards the properties are aimed at, the findings and the theorems. Paths below
are relative to the repository.

## 1. Inventory

Two programs. Each thread is a busy loop; threads of a program share nothing but
lock free queues.

```
   trading client                                      exchange
 MarketMaker / LiquidityTaker                     OrderServer + FIFOSequencer
   | OrderManager, RiskManager,       TCP           | requests     ^ responses
   | PositionKeeper                 <=======>       v              |
 TradeEngine <-queues-> OrderGateway              MatchingEngine: a book a ticker
   ^ queue                                          | market updates
 MarketDataConsumer  <== 2 multicast streams ==   MarketDataPublisher
                                                    | queue
                                                  SnapshotSynthesizer
```

| component | state | operations | what is hard | what makes it correct |
|---|---|---|---|---|
| `LockFreeQueue` | slots, read and write index, count | getNextToWrite / updateWriteIndex, getNextToRead / updateReadIndex, size | two threads, no lock; the index is published before the count; full looks like empty; one caller skips size(), one reads a slot it has given back | a FIFO channel; its assertion never fires |
| `MemPool` | free flags, cursor | allocate, deallocate | the wrap of the cursor, exhaustion | no block handed out twice, gives up only when full |
| price level rings | next/prev entries of the levels of a side | add and remove a level | search in a ring whose head moves | sorted, closed, best level first |
| `MatchingEngineOrderBook` | levels, index by client order id, next market order id | add, match, cancel, destruction | long sequences of partial fills and cancels | price-time priority, never crossed, clients and subscribers told exactly what happened |
| `MarketDataPublisher` | next sequence number | run | hands each update to a second thread | numbers without gaps |
| `SnapshotSynthesizer` | the live orders, last number | addToSnapshot, publishSnapshot | its own thread, its own pace | the image is the book at the number announced |
| `MarketDataConsumer` | next expected number, recovery flag, two buffers | recvCallback, queueMessage, checkSnapshotSync | loss, repetition and reordering on two streams | outside recovery the client has the book; recovery ends |
| `OrderServer`, `FIFOSequencer`, `TCPServer` | sockets, numbers per client, pending requests | poll, sweep, recvCallBack, sequenceAndPublish, run | sockets served in turn, one time stamp a read, sends cut short, restarted clients | a client's requests reach the engine in order and without gaps |
| `OrderGateway` | two sequence numbers, send buffer | run, recvCallback | as above | responses reach the client in order |
| `OrderManager` | one order slot a side | newOrder, cancelOrder, moveOrders, onOrderUpdate | requests, acknowledgements and fills cross | one order a side at the exchange, no slot stuck |
| `RiskManager`, `PositionKeeper` | position, open_vwap, profits | checkPreTradeRisk, addFill, updateBBO | the check sees an old position | the limit holds in the worst case; the books are the exchange's |
| `MarketMaker`, `LiquidityTaker`, `FeatureEngine` | two features | onOrderBookUpdate, onTradeUpdate | quotes of which one side is out of date; floating point | the limits hold whatever the quotes are |
| `MarketOrderBook` | the client's copy of a book, best bid and offer | onMarketUpdate, destructor | CLEAR, blocks that are used again, a best price that is refreshed only sometimes | the copy is the book, the best prices are the book's |
| `Logger` | a queue, a file | log, flushQueue, destructor | two producers, waiting for an empty queue | the file is complete, the destructor ends |
| `TradeEngine` and the mains | is_running | run, stop, RANDOM orders, shutdown | two threads, the order of destruction | shutdown ends |

## 2. Modules

Component modules: `LockFreeQueue` (with the abstract `FifoChannel`), `MemPool`,
`PriceLevels`, `OrderBook`, `MarketData`, `OrderEntry`, `TradeEngine`,
`MarketOrderBook`, `Shutdown`; proofs in `LockFreeQueueProofs`,
`PriceLevelsProofs` (with those of `MemPool`, whose specification is therefore
called `PoolSpec`), `OrderBookProofs`, `MarketDataProofs`, `OrderEntryProofs`,
`TradeEngineProofs`, `MarketOrderBookProofs` and `ShutdownProofs`.
`MCTradeEngine`, `MCMarketData` and `MCOrderEntry` name the values that a
configuration file cannot write: a negative number, a function, records.

The levels rest on one another: `OrderBook` treats a side's levels as the sorted
ring that `PriceLevels` proves and its level pool as the one of `MemPool`;
`OrderEntry`, `MarketData` and `TradeEngine` treat queues as the FIFO channels
that `LockFreeQueue` implements; `TradeEngine` takes from `OrderEntry` that
requests and responses keep their order, from `OrderBook` what the exchange does
with one client's orders, and from `MarketOrderBook` that the two sides of a
quote need not be of the same time. `Shutdown` is composed with `LockFreeQueue`
itself (`Log == INSTANCE LockFreeQueue`), because its queue has two producers and
is no FIFO channel.

**LockFreeQueue.** A step is one load or store of an atomic index, or one access
to a slot. `updateWriteIndex` is `LoadWriteIndex`, `PublishWriteIndex`,
`CountElement`; `updateReadIndex` is `AdvanceReadIndex`, `DropCount` (with the
assertion). `SizeChecked = FALSE` is `MatchingEngine::run`;
`ReadsAfterRelease = TRUE` is `MarketDataPublisher::run`, which copies
`*market_update` after `updateReadIndex()`. `Backlog` is what the environment
lets wait: the code has no check of its own. `pushed`, `received`, `forwarded`
are histories.

**MemPool.** `isFree` and `nextFree` are `is_free` and `next_free_index_`; the
loop of `updateNextFreeIndex` is the relation `NextFreeIndex`, the first free
block on the way round from the cursor; with none left the loop comes back to
its start and the process ends. `live` is
what callers hold.

**PriceLevels.** `best`, `next`, `prev` are the pointers; one turn of the search
loop of `addOrderAtPrice` is `SearchStep`; `LinkLast` and `LinkBefore` are the
two ways to link the new level in; `RemoveOrderAtPrice` unlinks. The ring of
orders within a level is a sequence in `OrderBook`.

**OrderBook.** `Add`, then a `Match` for each turn of the loop in
`checkForMatch`, then `EndAddFilled` or `EndAddRests`; `Cancel` and
`CancelRejected`; `Destroy` is the destructor with its validity check.
`ledger`, `mirror`, `addressed` record what the responses and market updates
say. Clients number their orders consecutively, as `OrderManager` and the RANDOM
loop do.

**MarketData.** The publisher numbers and sends (`PublishUpdate`,
`SendIncremental`), the synthesizer applies (`AddToSnapshot`), starts and sends
snapshots (`BeginSnapshot`, `SendSnapshot`), the consumer takes a datagram from
either socket (`RecvIncremental`, `RecvSnapshot`) and does in the same step all
that `recvCallback` does, `checkSnapshotSync` included. `net` is the network, one
of `Networks`: which faults it has, how many, and how many orders there are on
it. `SnapshotBody` is the walk over the tickers, a CLEAR each and then its live
orders by id. `merged` remembers that the last
recovery was completed with the head of one snapshot and the tail of another.

**OrderEntry.** `OrderServer::run` is a round of `Poll`, `ServeSocket` for each
socket, `SequenceAndPublish`, `SendResponse` until the queue is empty,
`EndRound`. `Sent` is `::send` with MSG_DONTWAIT: all of the buffer, or its
first messages; the rest is discarded, as `next_send_valid_index = 0` does.
`InSequence` is the loop of a receive callback over what was read, with the
number it expects counted along.
`Connect` starts a client, the second time after a crash. A sort of more than
`StableSize` elements returns any order that respects the time stamps; `crowded`
remembers that there was one.
The matching engine is next to the server with what the server sees of it: which
responses it sends, in which order, and to whom. `Add` sends ACCEPTED to the
client whose id is the ticker's, as `add()` does; a turn of the loop is `Match`,
which tells the client that asked of a fill, and `MatchTellsOwner`, which tells
the owner of the order filled; `EndAdd` lets what is left rest; `Cancel` answers
the client that asked. A request may thus bring its client no response, or
many, and other clients some. Of the books the module keeps how many orders of
each client rest there (`resting`); which of them a request meets is left open, so
that every choice of prices and quantities is covered (`OrderBook` has the books).
A response for a client without a socket ends the exchange (`"no_socket"`), as do
more requests than fit (`"too_many_requests"`).

**TradeEngine.** One ticker of one client; `ticker` is its id, which decides
whether the misaddressed ACCEPTED responses reach their owner, and `algo` its
strategy. `OnOrderUpdate` is one turn of the first loop of `TradeEngine::run`,
`OnOrderBookUpdate` and `OnTradeUpdate` are turns of the second, with the
revaluation of the position, the features and what `MarketMaker` or
`LiquidityTaker` make of them. A feature is worked out in the callback that uses
it and is not kept. The exchange is the environment. Profits are integers in
units of `1/Unit` and the features are compared by cross-multiplication, so that
all quotients are exact; the rounding of doubles is left out. `traded`, `cash`
and `reduced` are histories of what the fills were.

**MarketOrderBook.** `mob` is the object's memory: the blocks of the level pool
with their pointers, the pool's cursor, the two rings' heads, the orders,
`price_orders_at_price` (`index`) and `oid_to_order` (`byId`). A free block keeps
its content and can still be reached, which is what CLEAR leaves to happen. Each
of the class's functions is an operator from memory to memory, with the
assertions, a null pointer or an endless walk as its possible ends.
`OnMarketUpdate` is the whole handler. The updates are those of a book that
`OrderBook` keeps; `Resync` and `SnapshotOrder` are what the consumer hands on
after a loss. `misled` remembers that an order was put into a level that is free
or of another price or side, `outdated` which sides of the best bid and offer
were last written before a CLEAR.

**Shutdown.** Three threads and the queue of the engine's `Logger`: the engine
(`TestIsRunning`, `Look`, `EndUpdate`), the main thread from the RANDOM loop to
the destructors (`SendRandom` to `Join`) and the logger (`FlushElement`,
`TestRunning`). A call of `log()` sets how many elements its thread has to push;
`Push` does it access by access. `FailCheck` is the validity check of a
`MarketOrderBook`, which ends the process. `raced` remembers that both threads
were in the middle of a push.

## 3. Runs

| run | question | bounds | states |
|---|---|---|---|
| `queue_publisher` | is the queue a FIFO channel that delivers everything? | 3 slots, backlog 2, 5 pushes: the indices wrap | 4428 |
| `queue_unchecked` * | may a consumer leave out size()? | 3 slots | |
| `pool` | no sharing, no early end | 6 blocks, every history | 198 |
| `levels` | sorted rings, search ends | 5 prices, both sides, every history | 8656 |
| `book` | matching | 2 clients, 3 prices, 2 quantities, 3 orders, all cancels | 156864 |
| `book_accepted` * | where does ACCEPTED go? | ticker 1, clients 1 and 2 | |
| `market_data` | the client's view in sync, recovery ends, the newest update is not missed for ever | 3 updates; 2 faults of all kinds, 3 losses and overtakings, 4 losses, or 2 losses with two orders | 377,585 |
| `order_entry` | order kept, every request worked off and every response delivered; who may lack a socket | clients 1 and 2 with 1 and 2 requests, of which the first 2 that reach the engine may be NEW, 1 ticker (id 1), 2 connections, 1 cut, 2 pending of which 1 is sorted stably | 497,662 |
| `trade_engine` | limit, slots, books, profit, pending | prices 1 and 2, quantities 1 and 2, clip 2, limit 3, 4 orders of a maker and 3 of a taker, own and stray acknowledgements | 761,765 |
| `market_book` | is the client's book the exchange's? | 3 prices, 2 quantities, 4 blocks, 3 orders, 2 recoveries | 6,053,214 |
| `market_book_clear` * | is every level given back once? | 2 prices, 1 quantity, a pool of 2 levels, 4 order ids, 2 recoveries | |
| `shutdown` | is the log complete, does shutdown end? | 1 element a call, 1 update, 1 RANDOM request, 1 round of waiting | 672,941 |

Runs marked * end with a violation, which is a finding (section 6).

Why the bounds are enough. Three slots and five pushes take both indices round
the ring with every distance between them. Five prices on two sides put a new
level first, last, in the middle and alone, after any removal. Three orders with
quantities 1 and 2 give full and partial fills from either side, orders behind
one another in a level and an order that goes through two levels. Three updates
let a snapshot be behind, at and ahead of the stream; four losses are what it
takes to merge two snapshots; with two orders a lost update leaves a trace that
the next update does not remove. With a
clip of 2 and a limit of 3 one order of a side fits and two do not, so that a
second order that slips through breaks the limit; four orders allow a cancel and
a replacement on each side. Two connections are either two clients or one that
is started again; with two pending requests, of which one is sorted stably, two
requests of one round meet the case of seventeen requests and libstdc++, and a
third ends the exchange as the 1025th does. That a sort of two or more which is
still stable keeps their order is left to the proof (`EntryOrderKept`, any
`StableSize`). Three requests, two of them NEW, let an order rest and be filled or
cancelled by the other client's request or its own, with ACCEPTED for client 1
whoever asked, connected or not. Three prices put a new level of the client's
book first, in the middle and last, three orders give levels with two and three
orders; two recoveries are one to leave a level behind and one to meet it. With
one element a call, the pushes of the two threads meet in every order of their
five accesses, and the logger between any two of them; a run with two elements a
call is too large, and adds only repetitions.

`trade_engine` starts from a position of 0 (`Uninitialised = {0}`), which the
code does not guarantee (section 6).

Deadlock is checked except where the modelled process may end (an assertion, a
shutdown) or a bound stops the client for good; each such cfg says which.

## 4. Fairness

Every thread of the code polls in a loop and never waits for another, so each
loop gets weak fairness: the consumer of a queue and a push once begun, the
server's round and the engine, a gateway's send and receive, the trade engine's
responses, the publisher, synthesizer and consumer of market data. Nothing makes
a client ask, an order trade, the market move, a fault happen or the kernel take
part of a send. The matching engine finishes a request it has begun: each further
turn of its loop has taken an order out of a book. In
`Shutdown` the three threads have fairness, one condition each; nothing makes
trading end. That the engine has left its loop when it is destroyed is an
assumption on the sleeps of eleven seconds in between, stated as the guard of
`DestroyEngine`.

`CatchesUp` is stated for a client that the newest update reaches: with no
heartbeat in the protocol, nothing tells a client that the last datagram is
missing, and on a network that only loses datagrams (section 6).

## 5. Proofs

**LockFreeQueueProofs**, for any capacity above 1, any payloads and any number of
pushes, under `Discipline`: one producer, a consumer that tests `size()`, and a
backlog below the capacity. The inductive invariant `QueueInv` has the type
invariant and six parts: the distance between the indices is the number of
unread elements and at most the backlog (`BacklogInv`); the slots in between hold
the unread elements (`ContentInv`); a push in progress writes the slot at the
write index (`PushInv`); the count differs from the distance by the push and the
pop that are half done (`CountInv`); what the consumer knows at each step
(`ConsumerInv`), among it that a count above 0 stays above 0 until the consumer
itself lowers it; and the histories are prefixes of one another (`HistoryInv`).
From it: `TypeCorrect`, `AssertionHolds`, `NothingHidden`, `ReleasedPointerSafe`
and the refinement `QueueImplementsFifo`. `Discipline` cannot be weakened:
`queue_unchecked` drops the test of `size()` and fails, a backlog as large as the
capacity hides all elements, and two producers lose elements (`Shutdown`). The
released
pointer is safe because the slot behind the read index is the last one the
producer comes to, which a backlog below the capacity keeps it from.

**PriceLevelsProofs**, of the pool, for any number of blocks: `PoolInv` says that the flags are the
callers' view, that the cursor rests on a free block while the process runs, and
that the process has ended only with every block in use. From it
`PoolEndsOnlyWhenFull` and `PoolNeverShares`. Of the levels, for any set of
prices: `LevelsInv` adds to the sorted ring
what the search knows (`SearchInv`): every level in front of the target is
better than the new one, and once `add_after` is false the target is not. The
lemmas `RingInsert` and `RingRemove` say what linking and unlinking do to a
sorted ring, apart from the state machine. From it `LevelsTypeCorrect` and
`LevelsStaySorted`.

**OrderBookProofs**, for any clients, prices, quantities, number of levels and
number of orders, under `DistinctSlots`: no two prices in use fall into one slot
of `price_orders_at_price`. The code does not see to that (section 6), and
`LevelsAreSound` fails without it. `BookInv` adds to the properties: orders of a
level are of its side and price, stand in order of arrival and are in no other
place (`LevelsInv`); no client has two resting orders of one name, and names to
come are new (`OwnersInv`); the request at work is newer than all that rests and
its client knows what is left of it (`RequestInv`); the mirror lists the resting
orders (`MirrorInv`). `Uncrossed` alone is not inductive: that a request which
has stopped matching may be put into the book follows from the head of the best
level being the order that `checkForMatch` compared with. From it `BookTypes`,
`BookIsUncrossed`, `BookLevels`, `BookIndex`, `BookLedger`, `BookMirror` and the
action property `BookPriority`: every execution is with the oldest order at the
best price of the other side.

**MarketDataProofs**, for any tickers, orders and updates and networks with any
number of losses, repetitions and overtakings. `DataInv` has five parts. The
books so far are a history in which update n leads from book n to book n + 1
(`PublisherInv`); the synthesizer has the book after its last update and the rest
in its queue (`SynthesizerInv`); whatever becomes of a message of the incremental
stream, it is the update of its number (`IncrementalInv`); each datagram of the
snapshot stream is of one snapshot, and one of an earlier snapshot comes after
one of a later snapshot only if it begins with a lower number (`SnapshotInv`);
outside recovery the view is the book before the number expected, unless
`merged` (`ViewInv`). The fourth is what makes recovery right although nothing
compares SNAPSHOT_START with SNAPSHOT_END: the client keeps messages with the
numbers 0, 1, 2, ... as they arrive, so those it has are of ever later snapshots,
and when the first and the last are of one snapshot, all are. `SnapshotRebuilds`
says that the messages of one snapshot give its image, `UpdatesInARow` that the
updates in the buffer, applied in order, lead from one book to the other. From it
`DataTypeOK`, `DataSnapshotIsBook` and `DataInSync`.

**OrderEntryProofs**, for any number of clients, connections, requests and cut
sends and any size up to which a sort is stable. `EntryInv`: all that came from a
client came over the socket kept for it (`SocketInv`); the gateway has handed on
exactly the responses before the one it expects (`GotInv`); the queue holds those
from the server's next number on (`QueueInv`); the engine has a client's requests
1 to e and e + 1 to the one before the number expected are pending (`FlowInv`),
in order and with times in order (`PendingInv`), none later than what is still on
its way (`TimeInv`); and whoever the engine may yet answer, the client at work, the
owners of resting orders and the owner of the order just filled, has a socket
(`AnswerInv`). That times are in order is what lets the FIFO sequencer sort
by time. From it `EntryTypeOK` (no more requests are pending than fit, and only an
ACCEPTED is ever for a client without a socket, so that `add()` alone can end the
exchange that way), `EntryOrderKept` (exactly once and without a gap
in any case, in order unless `crowded`) and `EntryResponses`.

**TradeEngineProofs**, for any quotes, quantities, clip, limits, threshold, number
of orders and any acknowledgements of other clients, under `CleanStart`: the
memory of `position` and `open_vwap` happens to hold zeros. `EngineInv` follows an
order of one side through the request queue, the exchange and the response queue:
it is in one of these places (`OneOrder`), it is the slot's order (`NewInv`,
`RestInv`), order ids are new (`IdsInv`) and what is open fits the limit
(`LimitInv`). The position the check reads is behind the exchange's by the
executions on their way (`FlowInv`), but on the side of the new order there are
none, since its slot is free only once the last response has come: the check can
only be too strict. Where acknowledgements are not misaddressed, one comes before
everything else about its order (`AckInv`), so that no slot becomes live for an
order that is gone. From it `EngineTypeOK`, `EngineOneOrder`,
`EnginePosition`, `EngineBooks` and, with `AccountInv` on the profits,
`EngineProfit`.

**MarketOrderBookProofs**, for any prices (also ones that share a slot),
quantities, ids, size of the pool and number of recoveries. First `BookKnowsIds`:
`oid_to_order` names exactly the orders that rest and that the client was told
of. `KnownInv` says that every entry leads to an order of that id, side, price
and quantity (`Names`), that ids to come are new (`FeedInv`) and that a snapshot
lists each of its orders once (`SnapshotInv`). Of the levels it says nothing, so
that the theorem also covers what a CLEAR leaves behind: the relations `LevelsOnly`
and `Enters` show that the handlers, whichever pointers they follow, change only
`next` and `prev` of the orders they meet.

Then the rings, up to the first order that goes into a level not its own
(`misled`). Levels of a side and orders of a level are the same structure,
treated apart from the book: `IsRing` says that `next` leads to the node with the
next higher key and `prev` back, where the key of a level is its price's rank and
that of an order its id, and `Lists` that a sequence lists the nodes by their
keys. `RingsInv` says of the running client that the blocks in use are those on
the rings and that `price_orders_at_price` finds each by its price (`PoolInv`),
that the levels of each side and the orders of each level are rings
(`LevelRingInv`, `OrderRingInv`; no level is empty) and that every order has its
level (`HasLevel`). `BookIsFeed` alone says only where walks along `next` lead;
it is not inductive without `prev`, by which a level or an order is taken out,
without the pool, which must not hand out a block that is on a ring, and without
`NewestLast`: an order is linked in at the end of its level, which is right
because updates come in the order of their ids and a snapshot lists the orders
of a level by id. One lemma per handler says what it does to the rings
(`RingsAfter`, put together in `RingsStep`); `ClearRings` follows the walk that
frees a side. From it `BookIsExchanges`: the walks find the exchange's prices and
orders in their order, and no block is lost; and `BookEndsAtLimit`: a client that
no longer runs was stopped or ran out of levels, since no handler follows a null
pointer or walks for ever. `BboInv` adds that the best bid and offer, unless
unknown or older than a CLEAR, are the best price and the sum of its quantities:
what `onMarketUpdate()` passes over because it is worse than the stored best
changes neither (`BestKept`). From it `BestIsExchanges` and, with the rings after
the step, the action property `BestStaysKnown`.

**ShutdownProofs**, for any length of a call of `log()` and any numbers of
updates, requests and rounds of `stop()`, on the accesses of the queue itself,
with two threads that push. `ReaderNeverFails` needs only `ReaderInv`: the
consumer lowers the count alone, and a count it has seen above 0 stays above 0.
`FileIsComplete` needs `LogInv` as long as the threads have not been in the middle
of a push together (`raced`): at most one thread is between `getNextToWrite()` and
the store of the index, and what it wrote is still in its slot (`PushInv`); the
slots hold what was pushed and the consumer has had the first part of it
(`ContentInv`); the count is what was pushed, less what a thread has still to
count and what was taken (`CountInv`), which is where both may be at once; what
was pushed are each thread's elements up to its last, in order (`OwnInv`); and the
engine has nothing left to push when its object is destroyed (`StopInv`). So a
count of 0 in `~Logger()` means that nothing is on its way. `raced` cannot be
dropped (section 6).

Only model-checked:

- liveness (`Delivered`, `SearchEnds`, `RequestsEnd`, `RecoveryEnds`, `CatchesUp`,
  `RequestsServed`, `PendingEnds`, `ShutdownEnds`), which the prover does not
  reach.

Every other property of a passing run is the property of a theorem.

The provers have no induction over data. Where the argument needs it, the proofs
take the least number at which a claim fails (`Least`) and show that it does not.
The modules proved about have no recursive operators, only recursive functions.

## 6. Findings and observations

Shown by a run; `PROJECT.json` quotes the lines on both sides.

1. `queue_unchecked`: `MatchingEngine::run` skips `size()` and can meet the
   queue's assertion, which ends the exchange.
2. `book_accepted`: ACCEPTED has client and ticker id swapped; addressed to a
   client that never connected it ends the exchange. `order_entry` reaches that end
   too, and `EntryTypeOK` says that no other response brings it about.
3. `market_book_clear`: CLEAR leaves the levels it gives back in
   `price_orders_at_price`; after nine updates with four order ids a level is given
   back twice and an assertion ends the client. The nine are for the pool of two
   levels in MarketOrderBookClear.cfg; in the real pool of 256 the cursor has first
   to come round to the block again. Until then orders sit in levels that are on no ring,
   and the book lacks them.

Seen in the same models, without a run of their own:

- A queue with as many unread elements as slots looks empty
  (common/LockFreeQueue.hpp:29): `NoElementHidden` fails with
  `Backlog = Capacity`.
- The allocation of the last free block of a pool fails (common/Mempool.hpp:59),
  although it could be served.
- Two prices that are a multiple of MATCHING_ENGINE_MAX_PRICE_LEVELS apart share
  a level (exchange/matching/OrderBook.hpp:67): `LevelsAreSound` fails with
  `Prices = {10, 13}` and `MaxLevels = 3`.
- The destructor's validity check ends the process on every book with a bid
  (exchange/matching/OrderBook.cc:239 and
  trading/strategy/MarketOrderBook.cc:196 start from the least price, on a walk
  down): `Destroy` reaches "validity check".
- The head of one snapshot and the tail of the next pass for a whole one,
  because SNAPSHOT_START and SNAPSHOT_END are not compared
  (trading/market_data/MarketDataConsumer.cc:132): four losses reach it, and
  `InSyncViewIsBook` fails without its condition on `merged`.
- After a recovery from a snapshot ahead of the incremental stream, the older
  incrementals are logged as packet drops and start another recovery
  (trading/market_data/MarketDataConsumer.cc:254). When it completes with a
  snapshot begun before the newest update, the client's view is set back until
  the next update, or for good if there is none. It takes a datagram that is
  overtaken by two others, and `CatchesUp` is therefore for networks that only
  lose.
- The FIFO sequencer orders the requests of one sweep only
  (common/TCPServer.cc:96), and above sixteen of them std::sort may exchange two
  of equal time (exchange/order_server/FifoSequencer.hpp:28): without its
  condition on `crowded`, `ClientOrderKept` fails.
- A client started again is never served: its id stays bound to the first socket
  (exchange/order_server/OrderServer.hpp:66).
- `PositionInfo::position` and `open_vwap` have no initial value
  (trading/strategy/PositionKeeper.hpp:12, 16): with `Uninitialised = {0, 2}`
  `PositionLimited` fails.
- A fill that closes a part of a position leaves `open_vwap` as it was for the
  former quantity (trading/strategy/PositionKeeper.hpp:48), although the comment
  at line 14 calls it the product of price and quantity of the open position: the
  profit of the rest is wrong, and `ProfitIsCash` is stated up to the first such
  fill (`reduced`).
- The best bid and offer survive a CLEAR, and the first order of a side does not
  set it (trading/strategy/MarketOrderBook.cc:23): until the next update at the
  best price the strategies trade on prices from before the recovery, or not at
  all. `BboIsSound` fails without `outdated` and without `Invalid`.
- Two pushes that overlap in the engine's log lose an element and keep the count
  above 0: `~Logger` then waits for ever (common/Logging.hpp:92). `ShutdownEnds`
  and `LogComplete` fail without `raced`. The main thread pushes in every RANDOM
  request and in `stop()`.
- `FEATURE_INVALID` is NaN, and a comparison with it is always true
  (trading/strategy/MarketMaker.cc:37, LiquidityTaker.cc:33): it filters nothing.
- A positive max_loss, as in the repository's README, refuses every order from
  the start (trading/strategy/RiskManager.hpp:49).

## 7. Not modelled

What log lines say, formatting, time and thread wrappers and the set-up of
sockets; a message cut in the middle by a partial send; the rounding of doubles
and sums of quantities beyond 32 bits; the construction of both programs, the
shutdown of the exchange (a signal handler that destroys objects other threads
use, so that nothing can be promised) and `start()` and `stop()` of the exchange's
threads; `trading/market_data/market_data_consumer.hpp`, which nothing includes.
Memory orders weaker than sequential consistency do not occur in the code, except
that `TradeEngine::is_running` is `volatile` and not atomic, and that `time_str`
of the engine is written by two threads.

## 8. Plan

Done: the modules above, in the order of section 2.

1. A composition of exchange and client: requests through `OrderEntry` to
   `OrderBook` and back to `TradeEngine`, with the misaddressed ACCEPTED.
