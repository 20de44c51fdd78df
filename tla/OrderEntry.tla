----------------------------- MODULE OrderEntry -----------------------------
(***************************************************************************)
(* Order entry: the OrderGateway of each trading client, the TCP           *)
(* connections and the exchange's OrderServer with its FIFOSequencer.      *)
(* Requests and responses carry a sequence number per client in each       *)
(* direction; a message with any other number than the expected one is     *)
(* dropped.  The server's thread goes round                                *)
(*     poll(); sendAndRecv() on every socket; sequenceAndPublish();        *)
(*     put the engine's responses into the sockets' send buffers           *)
(* and TCPSocket::sendAndRecv() throws away what ::send() did not take.    *)
(*                                                                         *)
(* A request is known by its client, the connection it was made on and its *)
(* number there.  Of the matching engine the module has what the server    *)
(* sees: which responses it sends, in which order, and to whom.  Of its    *)
(* books it keeps the number of each client's orders in them; whether a    *)
(* request is NEW or CANCEL, and which orders it meets, is left open       *)
(* (OrderBook has the books).  The lock free queues are FIFO channels      *)
(* (LockFreeQueue).                                                        *)
(***************************************************************************)
EXTENDS Naturals, Sequences, SequencesExt, FiniteSets

CONSTANTS
    Clients,        \* client ids, those that never connect among them
    Tickers,        \* ticker ids: the least of the client ids, 8 of 256
    StableSize,     \* up to this many elements std::sort keeps equal ones in
                    \* order (insertion sort; 16 in libstdc++)
    MaxPending,     \* MATCHING_ENGINE_MAX_PENDING_REQUESTS
    MaxRequests,    \* bound on the requests of a connection of each client
    MaxNews,        \* only so many requests, the first ones, may be NEW
    MaxConnections, \* bound on the times client processes are started
    MaxTime,        \* bound on the clock
    MaxCuts         \* bound on the sends that the kernel does not take whole

ASSUME EntryAssumption ==
    /\ Tickers \subseteq Clients
    /\ MaxRequests \in [Clients -> Nat]
    /\ {StableSize, MaxPending, MaxNews, MaxConnections, MaxTime, MaxCuts}
           \subseteq Nat

Sockets == Clients \X (1 .. MaxConnections)
NoSocket == <<>>

VARIABLES
    conn,           \* connection of each client's present process, 0: none yet
    asked,          \* history: requests made by that process
    gwOut, gwExp,   \* next_outgoing_/next_expected_sequence_number
    gwBuf,          \* send_buffer of the gateway's socket
    got,            \* history: responses handed to the trade engine
    up, down,       \* the two directions of each connection
    clock,          \* the server's kernel clock
    waiting,        \* connections to be accepted
    accepted,       \* TCPServer::receive_sockets
    pc,             \* the server's place in its round
    sweep,          \* sockets still to be served in this round
    received,       \* did a socket of this round receive anything?
    sockOf,         \* cid_tcp_sockets
    srvExp, srvOut, \* cid_next_expected_/cid_next_outgoing_sequence_number
    srvBuf,         \* send_buffer of each socket
    pending,        \* pending_client_requests
    toEngine,       \* history: the requests published to the engine
    crowded,        \* history: were more of them ever sorted than StableSize?
    answered,       \* requests the engine is done with, or will be with fillOf
    matching,       \* is the next one a NEW at work in a book?
    resting,        \* how many orders of each client rest in the books
    fillOf,         \* the owner of the order just filled, until it is told
    told,           \* history: responses the engine sent for each client
    respQueue,      \* outgoing_responses
    cuts,           \* sends that were not taken whole so far
    status          \* "running", or what ended the exchange

gatewayVars == <<conn, asked, gwOut, gwExp, gwBuf, got>>
netVars == <<up, down, clock, cuts>>
serverVars == <<waiting, accepted, pc, sweep, received, sockOf, srvExp, srvOut,
                srvBuf, pending, status>>
bookVars == <<answered, matching, resting, fillOf>>
engineVars == <<toEngine, crowded, bookVars, told, respQueue>>
vars == <<gatewayVars, netVars, serverVars, engineVars>>

Init ==
    /\ conn = [c \in Clients |-> 0]
    /\ asked = [c \in Clients |-> 0]
    /\ gwOut = [c \in Clients |-> 1] /\ gwExp = [c \in Clients |-> 1]
    /\ gwBuf = [c \in Clients |-> <<>>]
    /\ got = [c \in Clients |-> <<>>]
    /\ up = [s \in Sockets |-> <<>>] /\ down = [s \in Sockets |-> <<>>]
    /\ clock = 0 /\ cuts = 0
    /\ waiting = <<>> /\ accepted = <<>>
    /\ pc = "poll" /\ sweep = <<>> /\ received = FALSE
    /\ sockOf = [c \in Clients |-> NoSocket]
    /\ srvExp = [c \in Clients |-> 1] /\ srvOut = [c \in Clients |-> 1]
    /\ srvBuf = [s \in Sockets |-> <<>>]
    /\ pending = <<>>
    /\ toEngine = <<>> /\ crowded = FALSE
    /\ answered = 0 /\ matching = FALSE /\ fillOf = <<>>
    /\ resting = [c \in Clients |-> 0]
    /\ told = [c \in Clients |-> 0] /\ respQueue = <<>>
    /\ status = "running"

\* What ::send() may take of a send buffer: all of it or, when the kernel's
\* buffer is full, only its first messages; sendAndRecv() resets the buffer
\* in either case.
Sent(buf, taken) ==
    \/ /\ taken = buf
       /\ UNCHANGED cuts
    \/ /\ cuts < MaxCuts
       /\ cuts' = cuts + 1
       /\ \E k \in 0 .. Len(buf) - 1 : taken = SubSeq(buf, 1, k)

-----------------------------------------------------------------------------
(* The gateway of client c. *)

\* A trading process starts: the first one, or a new one after a crash.
Connect(c) ==
    /\ Len(waiting) + Len(accepted) < MaxConnections
    /\ conn' = [conn EXCEPT ![c] = @ + 1]
    /\ asked' = [asked EXCEPT ![c] = 0]
    /\ gwOut' = [gwOut EXCEPT ![c] = 1] /\ gwExp' = [gwExp EXCEPT ![c] = 1]
    /\ gwBuf' = [gwBuf EXCEPT ![c] = <<>>]
    /\ got' = [got EXCEPT ![c] = <<>>]
    /\ waiting' = Append(waiting, <<c, conn'[c]>>)
    /\ UNCHANGED <<netVars, accepted, pc, sweep, received, sockOf, srvExp,
                   srvOut, srvBuf, pending, status, engineVars>>

\* run(): the next request of the trade engine is numbered and buffered.
GatewayTake(c) ==
    /\ conn[c] # 0 /\ asked[c] < MaxRequests[c]
    /\ asked' = [asked EXCEPT ![c] = @ + 1]
    /\ gwBuf' = [gwBuf EXCEPT ![c] =
                    Append(@, [seq |-> gwOut[c], n |-> asked'[c]])]
    /\ gwOut' = [gwOut EXCEPT ![c] = @ + 1]
    /\ UNCHANGED <<conn, gwExp, got, netVars, serverVars, engineVars>>

\* sendAndRecv(), sending: what is taken reaches the server's kernel, which
\* stamps it with its time.
GatewaySend(c) ==
    /\ gwBuf[c] # <<>>
    /\ \E taken \in {SubSeq(gwBuf[c], 1, k) : k \in 0 .. Len(gwBuf[c])} :
          /\ Sent(gwBuf[c], taken)
          /\ up' = [up EXCEPT ![<<c, conn[c]>>] = @ \o
                        [i \in DOMAIN taken |->
                            [seq |-> taken[i].seq, n |-> taken[i].n,
                             time |-> clock]]]
    /\ gwBuf' = [gwBuf EXCEPT ![c] = <<>>]
    /\ UNCHANGED <<conn, asked, gwOut, gwExp, got, down, clock, serverVars,
                   engineVars>>

\* Fault: the number of a response is not looked at.
GatewayRecv_AnyNumber(c) ==
    LET s == <<c, conn[c]>> IN
    /\ conn[c] # 0 /\ down[s] # <<>>
    /\ gwExp' = [gwExp EXCEPT ![c] = @ + 1]
    /\ got' = [got EXCEPT ![c] = Append(@, Head(down[s]).n)]
    /\ down' = [down EXCEPT ![s] = Tail(@)]
    /\ UNCHANGED <<conn, asked, gwOut, gwBuf, up, clock, cuts, serverVars,
                   engineVars>>

\* recvCallback(): a response with the expected number is handed on, any
\* other is dropped.  The client id always matches: the server writes a
\* response into the socket of the client it is for.
GatewayRecv(c) ==
    LET s == <<c, conn[c]>> IN
    /\ conn[c] # 0 /\ down[s] # <<>>
    /\ IF Head(down[s]).seq = gwExp[c]
       THEN /\ gwExp' = [gwExp EXCEPT ![c] = @ + 1]
            /\ got' = [got EXCEPT ![c] = Append(@, Head(down[s]).n)]
       ELSE UNCHANGED <<gwExp, got>>
    /\ down' = [down EXCEPT ![s] = Tail(@)]
    /\ UNCHANGED <<conn, asked, gwOut, gwBuf, up, clock, cuts, serverVars,
                   engineVars>>

\* The clock advances.  Only requests that are sorted together have their
\* times compared, so it matters only while one of the present time waits.
Tick ==
    /\ clock < MaxTime
    /\ \/ \E s \in Sockets : up[s] # <<>> /\ Last(up[s]).time = clock
       \/ \E i \in DOMAIN pending : pending[i].rx = clock
    /\ clock' = clock + 1
    /\ UNCHANGED <<gatewayVars, up, down, cuts, serverVars, engineVars>>

-----------------------------------------------------------------------------
(* The server's thread: one round of OrderServer::run. *)

\* TCPServer::poll() accepts what waits, then sendAndRecv() begins to go
\* through the sockets.  A socket whose client is gone is never removed.
Poll ==
    /\ status = "running" /\ pc = "poll"
    /\ accepted' = accepted \o waiting /\ waiting' = <<>>
    /\ sweep' = accepted'
    /\ pc' = "sweep"
    /\ UNCHANGED <<gatewayVars, netVars, received, sockOf, srvExp, srvOut,
                   srvBuf, pending, status, engineVars>>

\* Fault: the number of a request is not looked at.
InSequence_AnyNumber(msgs, next) == msgs

\* The messages recvCallBack() lets pass, one after the other: each carries the
\* number that is expected next.
InSequence(msgs, next) ==
    LET passed[k \in 0 .. Len(msgs)] ==
            IF k = 0 THEN <<>>
            ELSE IF msgs[k].seq = next + Len(passed[k - 1])
            THEN Append(passed[k - 1], msgs[k])
            ELSE passed[k - 1]
    IN  passed[Len(msgs)]

\* addClientRequest(): FATAL("Too many requests") if this does not hold.
HasRoom(n) == Len(pending) + n <= MaxPending

\* recvCallBack() on everything that has arrived on socket s.  All requests
\* of one read share the time stamp of the last one.  The first socket that
\* names a client id keeps it for ever.
RecvRequests(s) ==
    LET c == s[1]
        bound == IF sockOf[c] = NoSocket THEN s ELSE sockOf[c]
        passed == IF bound = s THEN InSequence(up[s], srvExp[c]) ELSE <<>>
        requests == [i \in DOMAIN passed |->
                        [client |-> c, conn |-> s[2], n |-> passed[i].n,
                         rx |-> Last(up[s]).time]]
    IN  /\ received' = TRUE
        /\ up' = [up EXCEPT ![s] = <<>>]
        /\ sockOf' = [sockOf EXCEPT ![c] = bound]
        /\ srvExp' = [srvExp EXCEPT ![c] = @ + Len(passed)]
        /\ IF HasRoom(Len(passed))
           THEN pending' = pending \o requests /\ UNCHANGED status
           ELSE status' = "too_many_requests" /\ UNCHANGED pending

\* TCPSocket::sendAndRecv() on the next socket.
ServeSocket ==
    /\ status = "running" /\ pc = "sweep" /\ sweep # <<>>
    /\ LET s == Head(sweep)
       IN  /\ IF up[s] # <<>> THEN RecvRequests(s)
              ELSE UNCHANGED <<received, up, sockOf, srvExp, pending, status>>
           /\ \E taken \in {SubSeq(srvBuf[s], 1, k) : k \in 0 .. Len(srvBuf[s])} :
                 /\ Sent(srvBuf[s], taken)
                 /\ down' = [down EXCEPT ![s] = @ \o taken]
           /\ srvBuf' = [srvBuf EXCEPT ![s] = <<>>]
    /\ sweep' = Tail(sweep)
    /\ UNCHANGED <<gatewayVars, clock, waiting, accepted, pc, srvOut,
                   engineVars>>

\* The orders of the pending requests in which std::sort may leave them: by
\* time, equal ones as they came if there are few, in any order otherwise.
SortedOrders ==
    {f \in Bijection(DOMAIN pending, DOMAIN pending) :
        \A i, j \in DOMAIN pending : i < j =>
            \/ pending[f[i]].rx < pending[f[j]].rx
            \/ /\ pending[f[i]].rx = pending[f[j]].rx
               /\ Len(pending) > StableSize \/ f[i] < f[j]}

\* recvFinishedCallBack(), if anything was received.
SequenceAndPublish ==
    /\ status = "running" /\ pc = "sweep" /\ sweep = <<>>
    /\ IF received
       THEN \E f \in SortedOrders :
               toEngine' = toEngine \o
                    [i \in DOMAIN f |->
                        [client |-> pending[f[i]].client,
                         conn |-> pending[f[i]].conn, n |-> pending[f[i]].n]]
       ELSE UNCHANGED toEngine
    /\ crowded' = (crowded \/ Len(pending) > StableSize)
    /\ pending' = IF received THEN <<>> ELSE pending
    /\ pc' = "respond"
    /\ received' = FALSE
    /\ UNCHANGED <<gatewayVars, netVars, waiting, accepted, sweep, sockOf,
                   srvExp, srvOut, srvBuf, status, bookVars, told, respQueue>>

\* Fault: the outgoing number is not advanced.
SendResponse_SameNumber ==
    /\ status = "running" /\ pc = "respond" /\ respQueue # <<>>
    /\ LET r == Head(respQueue)
           s == sockOf[r.client]
       IN  IF s = NoSocket
           THEN status' = "no_socket" /\ UNCHANGED <<srvBuf, respQueue>>
           ELSE /\ srvBuf' = [srvBuf EXCEPT ![s] =
                                 Append(@, [seq |-> srvOut[r.client], n |-> r.n])]
                /\ respQueue' = Tail(respQueue)
                /\ UNCHANGED status
    /\ UNCHANGED <<gatewayVars, netVars, waiting, accepted, pc, sweep, received,
                   sockOf, srvExp, srvOut, pending, toEngine, crowded, bookVars,
                   told>>

\* The next response goes into the buffer of its client's socket.  If there is
\* none an assertion fails and the exchange ends with the response in the queue.
SendResponse ==
    /\ status = "running" /\ pc = "respond" /\ respQueue # <<>>
    /\ LET r == Head(respQueue)
           s == sockOf[r.client]
       IN  IF s = NoSocket
           THEN /\ status' = "no_socket"
                /\ UNCHANGED <<srvBuf, srvOut, respQueue>>
           ELSE /\ srvBuf' = [srvBuf EXCEPT ![s] =
                                 Append(@, [seq |-> srvOut[r.client], n |-> r.n])]
                /\ srvOut' = [srvOut EXCEPT ![r.client] = @ + 1]
                /\ respQueue' = Tail(respQueue)
                /\ UNCHANGED status
    /\ UNCHANGED <<gatewayVars, netVars, waiting, accepted, pc, sweep,
                   received, sockOf, srvExp, pending, toEngine, crowded, bookVars,
                   told>>

\* The response queue was seen empty: the next round.
EndRound ==
    /\ status = "running" /\ pc = "respond" /\ respQueue = <<>>
    /\ pc' = "poll"
    /\ UNCHANGED <<gatewayVars, netVars, waiting, accepted, sweep, received,
                   sockOf, srvExp, srvOut, srvBuf, pending, status, engineVars>>

-----------------------------------------------------------------------------
(* The matching engine. *)

Asker == toEngine[answered + 1].client

\* run() is at the next request.
AtRequest ==
    /\ status = "running" /\ ~matching /\ fillOf = <<>>
    /\ answered < Len(toEngine)

\* checkForMatch is at the condition of its loop.
AtLoop == status = "running" /\ matching /\ fillOf = <<>>

\* sendClientResponse()
SendClientResponse(c, type) ==
    /\ told' = [told EXCEPT ![c] = @ + 1]
    /\ respQueue' = Append(respQueue, [client |-> c, type |-> type, n |-> told'[c]])

\* add(), for ticker t: the fields of ACCEPTED are filled in with the ticker's
\* id in the place of the client's.
Add(t) ==
    /\ AtRequest /\ answered < MaxNews
    /\ SendClientResponse(t, "ACCEPTED")
    /\ matching' = TRUE
    /\ UNCHANGED <<gatewayVars, netVars, serverVars, toEngine, crowded, answered,
                   resting, fillOf>>

\* match(): an order of owner's is filled, and the client that asked is told.
\* Either something of the order is left, and then nothing of the request, or
\* it leaves the book and the loop goes on, unless the request is filled too.
Match(owner) ==
    /\ AtLoop /\ resting[owner] > 0
    /\ SendClientResponse(Asker, "FILLED")
    /\ fillOf' = <<owner>>
    /\ \/ matching' = FALSE /\ UNCHANGED resting
       \/ /\ matching' \in BOOLEAN
          /\ resting' = [resting EXCEPT ![owner] = @ - 1]
    /\ answered' = IF matching' THEN answered ELSE answered + 1
    /\ UNCHANGED <<gatewayVars, netVars, serverVars, toEngine, crowded>>

\* match() goes on: the owner of the order is told.
MatchTellsOwner ==
    /\ status = "running" /\ fillOf # <<>>
    /\ SendClientResponse(fillOf[1], "FILLED")
    /\ fillOf' = <<>>
    /\ UNCHANGED <<gatewayVars, netVars, serverVars, toEngine, crowded, answered,
                   matching, resting>>

\* The loop is over, and what is left rests in the book.
EndAdd ==
    /\ AtLoop
    /\ matching' = FALSE
    /\ resting' = [resting EXCEPT ![Asker] = @ + 1]
    /\ answered' = answered + 1
    /\ UNCHANGED <<gatewayVars, netVars, serverVars, toEngine, crowded, fillOf,
                   told, respQueue>>

\* Fault: cancel() fills in its responses as add() does.
Cancel_TickerFirst ==
    /\ AtRequest
    /\ \E t \in Tickers : SendClientResponse(t, "CANCEL_REJECTED")
    /\ answered' = answered + 1
    /\ UNCHANGED <<gatewayVars, netVars, serverVars, toEngine, crowded, matching,
                   resting, fillOf>>

\* cancel(): an order of the client's leaves the book, or the one it names is
\* not there.
Cancel ==
    /\ AtRequest
    /\ \/ /\ resting[Asker] > 0
          /\ resting' = [resting EXCEPT ![Asker] = @ - 1]
          /\ SendClientResponse(Asker, "CANCELLED")
       \/ /\ SendClientResponse(Asker, "CANCEL_REJECTED")
          /\ UNCHANGED resting
    /\ answered' = answered + 1
    /\ UNCHANGED <<gatewayVars, netVars, serverVars, toEngine, crowded, matching,
                   fillOf>>

-----------------------------------------------------------------------------
ServerStep == Poll \/ ServeSocket \/ SequenceAndPublish \/ SendResponse
              \/ EndRound

EngineStep ==
    \/ \E t \in Tickers : Add(t)
    \/ \E c \in Clients : Match(c)
    \/ MatchTellsOwner \/ EndAdd \/ Cancel

Next ==
    \/ \E c \in Clients :
          Connect(c) \/ GatewayTake(c) \/ GatewaySend(c) \/ GatewayRecv(c)
    \/ Tick
    \/ ServerStep
    \/ EngineStep

Spec == Init /\ [][Next]_vars

\* Every thread spins in a loop that waits for nobody.
FairSpec ==
    /\ Spec
    /\ WF_vars(ServerStep) /\ WF_vars(EngineStep)
    /\ \A c \in Clients : WF_vars(GatewaySend(c)) /\ WF_vars(GatewayRecv(c))

-----------------------------------------------------------------------------
(* Properties. *)

\* Only an ACCEPTED may be for a client without a socket: fills and answers to
\* a CANCEL go to clients whose requests brought a socket, whatever the order in
\* which clients connect, ask and are answered; so that the exchange ends over a
\* missing socket only because of whom add() addresses.  And no more requests
\* are pending than fit.
TypeOK ==
    /\ sockOf \in [Clients -> Sockets \cup {NoSocket}]
    /\ Len(pending) <= MaxPending
    /\ status \in {"running", "too_many_requests", "no_socket"}
    /\ \A i \in DOMAIN respQueue :
          sockOf[respQueue[i].client] = NoSocket => respQueue[i].type = "ACCEPTED"
    /\ status = "no_socket" =>
          respQueue # <<>> /\ sockOf[respQueue[1].client] = NoSocket

\* The engine gets the requests of a client once each and without a gap, from
\* one of its connections only, whatever the kernel cut off and however often
\* the client was started again; and in the order they were made, so that a
\* CANCEL never overtakes its NEW, unless one round brought more requests than
\* std::sort keeps in order.
ClientOrderKept ==
    \A c \in Clients :
        LET mine == {i \in DOMAIN toEngine : toEngine[i].client = c}
        IN  /\ {toEngine[i].n : i \in mine} = 1 .. Cardinality(mine)
            /\ \A i, j \in mine :
                  /\ toEngine[i].conn = toEngine[j].conn
                  /\ ~crowded /\ i < j => toEngine[i].n < toEngine[j].n

\* A trade engine is handed the responses to its client in the order in which
\* the matching engine made them, from the first and without a gap.
ResponsesInOrder ==
    \A c \in Clients : \A i \in DOMAIN got[c] : got[c][i] = i

\* A client that has stopped asking gets all its requests worked off, and every
\* response that the engine sends for it reaches its trade engine: the answers
\* to its requests, the fills of its orders and each ACCEPTED that is addressed
\* to it, whoever asked; unless its process was replaced, the kernel did not
\* take what it was given, or too many requests or a response for a client that
\* never asked ended the exchange.  An ACCEPTED that is addressed to another
\* client is no response for this one: a request may bring its client none.
Unserved(c) ==
    /\ \/ Cardinality({i \in 1 .. answered : toEngine[i].client = c}) < asked[c]
       \/ Len(got[c]) < told[c]
    /\ conn[c] = 1 /\ cuts = 0 /\ status = "running"
RequestsServed == \A c \in Clients : Unserved(c) ~> ~Unserved(c)

=============================================================================
