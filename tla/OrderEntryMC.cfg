\* The two limits of a round: std::sort keeps one request in order (16 in the
\* code) and two fit (1024).  One client or both connect, or one is started
\* again.  An ACCEPTED is for client 1, whoever asked.
SPECIFICATION FairSpec
CONSTANTS
    Clients = {1, 2}
    Tickers = {1}
    StableSize = 1
    MaxPending = 2
    MaxRequests <- OneAndTwo
    MaxNews = 2
    MaxConnections = 2
    MaxTime = 1
    MaxCuts = 1
INVARIANTS TypeOK ClientOrderKept ResponsesInOrder
PROPERTY RequestsServed
\* Too many requests and a response that has no socket end the exchange.
CHECK_DEADLOCK FALSE
