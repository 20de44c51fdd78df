-------------------------- MODULE OrderEntryProofs --------------------------
(***************************************************************************)
(* Order entry: that the matching engine gets a client's requests once     *)
(* each, without a gap and in order, and the client its responses, proved  *)
(* for any number of clients, connections, requests and lost sends.        *)
(*                                                                         *)
(* The argument follows a number on its way.  A client's requests are cut  *)
(* into three by two numbers: the engine has 1 .. e, the server holds      *)
(* e + 1 .. srvExp - 1 as pending and takes only srvExp next, which makes  *)
(* every loss one at the end.  All of them came over the one socket that   *)
(* is kept for the client, so that their times are in order and sorting    *)
(* by time keeps their order.  Of the responses the queue holds            *)
(* srvOut .. told, so that the number the server writes into a response is *)
(* the number of that response, and the gateway needs only to look at it.  *)
(* Whom the engine tells it knows from requests that came over a socket,   *)
(* except for ACCEPTED, which is for the client that has the ticker's id.  *)
(***************************************************************************)
EXTENDS OrderEntry, FiniteSetTheorems, TLAPS

(* Types.  A message carries the number of what is in it: both are counted *)
(* by the same side, one with the other.                                   *)

Msg == {m \in [seq : Nat, n : Nat] : m.seq = m.n}
TimedMsg == {m \in [seq : Nat, n : Nat, time : Nat] : m.seq = m.n}
Request == [client : Clients, conn : Nat, n : Nat, rx : Nat]
Published == [client : Clients, conn : Nat, n : Nat]
Types == {"ACCEPTED", "FILLED", "CANCELLED", "CANCEL_REJECTED"}
Response == [client : Clients, type : Types, n : Nat]

GatewayTypes ==
    /\ conn \in [Clients -> Nat] /\ asked \in [Clients -> Nat]
    /\ gwOut \in [Clients -> Nat] /\ gwExp \in [Clients -> Nat]
    /\ gwBuf \in [Clients -> Seq(Msg)]
    /\ got \in [Clients -> Seq(Nat)]

NetTypes ==
    /\ up \in [Sockets -> Seq(TimedMsg)] /\ down \in [Sockets -> Seq(Msg)]
    /\ clock \in Nat

ServerTypes ==
    /\ waiting \in Seq(Sockets) /\ accepted \in Seq(Sockets)
    /\ sweep \in Seq(Sockets)
    /\ sockOf \in [Clients -> Sockets \cup {NoSocket}]
    /\ srvExp \in [Clients -> Nat] /\ srvOut \in [Clients -> Nat]
    /\ srvBuf \in [Sockets -> Seq(Msg)]
    /\ pending \in Seq(Request)
    /\ Len(pending) <= MaxPending
    /\ status \in {"running", "too_many_requests", "no_socket"}

EngineTypes ==
    /\ toEngine \in Seq(Published) /\ crowded \in BOOLEAN
    /\ answered \in Nat
    /\ resting \in [Clients -> Nat] /\ fillOf \in Seq(Clients)
    /\ told \in [Clients -> Nat] /\ respQueue \in Seq(Response)

EntryTypes == GatewayTypes /\ NetTypes /\ ServerTypes /\ EngineTypes

-----------------------------------------------------------------------------
(* Connections. *)

\* No more connections are made than there are numbers for them.
ConnInv ==
    /\ Len(waiting) + Len(accepted) <= MaxConnections
    /\ \A c \in Clients : conn[c] <= Len(waiting) + Len(accepted)

\* What has come from a client came over the socket that is kept for it.
SocketInv ==
    /\ \A c \in Clients : sockOf[c] # NoSocket => sockOf[c][1] = c
    /\ \A i \in DOMAIN pending :
          sockOf[pending[i].client] = <<pending[i].client, pending[i].conn>>
    /\ \A i \in DOMAIN toEngine :
          sockOf[toEngine[i].client] = <<toEngine[i].client, toEngine[i].conn>>

(* Responses. *)

\* A client that has an order in a book has asked for it, and has a socket; so
\* only an ACCEPTED may be for a client without one.
AnswerInv ==
    /\ matching => answered < Len(toEngine)
    /\ \A c \in Clients : resting[c] > 0 => sockOf[c] # NoSocket
    /\ \A i \in DOMAIN fillOf : sockOf[fillOf[i]] # NoSocket
    /\ \A i \in DOMAIN respQueue :
          sockOf[respQueue[i].client] = NoSocket => respQueue[i].type = "ACCEPTED"
    /\ status = "no_socket" =>
          respQueue # <<>> /\ sockOf[respQueue[1].client] = NoSocket

\* The gateway has handed on the responses before the one it expects.
GotInv ==
    \A c \in Clients :
        /\ gwExp[c] = Len(got[c]) + 1
        /\ \A i \in DOMAIN got[c] : got[c][i] = i

\* The queue holds a client's responses from the server's next number to the
\* last that the engine made, in order.
QueueInv ==
    /\ \A c \in Clients : srvOut[c] <= told[c] + 1
    /\ \A i \in DOMAIN respQueue :
          respQueue[i].n \in srvOut[respQueue[i].client] .. told[respQueue[i].client]
    /\ \A c \in Clients : \A k \in srvOut[c] .. told[c] :
          \E i \in DOMAIN respQueue : respQueue[i].client = c /\ respQueue[i].n = k
    /\ \A i, j \in DOMAIN respQueue :
          i < j /\ respQueue[i].client = respQueue[j].client
              => respQueue[i].n < respQueue[j].n

(* Requests. *)

NumberInv == \A c \in Clients : gwOut[c] = asked[c] + 1

\* The engine has client c's requests 1 .. e, each once.
EngineHas(c, e) ==
    /\ \A i \in DOMAIN toEngine : toEngine[i].client = c => toEngine[i].n \in 1 .. e
    /\ \A k \in 1 .. e : \E i \in DOMAIN toEngine :
          toEngine[i].client = c /\ toEngine[i].n = k
    /\ \A i, j \in DOMAIN toEngine :
          /\ toEngine[i].client = c /\ toEngine[j].client = c
          /\ toEngine[i].n = toEngine[j].n
          => i = j

\* The requests from there to the number that is expected next are pending.
PendingFrom(c, e) ==
    /\ e < srvExp[c]
    /\ \A i \in DOMAIN pending :
          pending[i].client = c => pending[i].n \in e + 1 .. srvExp[c] - 1
    /\ \A k \in e + 1 .. srvExp[c] - 1 : \E i \in DOMAIN pending :
          pending[i].client = c /\ pending[i].n = k

FlowInv ==
    \A c \in Clients : \E e \in Nat :
        EngineHas(c, e) /\ (status = "running" => PendingFrom(c, e))

\* Requests of a client that are pending are in their order, and so are the
\* times they came at.
PendingInv ==
    \A i, j \in DOMAIN pending :
        i < j /\ pending[i].client = pending[j].client
            => pending[i].n < pending[j].n /\ pending[i].rx <= pending[j].rx

\* What is still on its way came no earlier than what is pending.
TimeInv ==
    /\ \A s \in Sockets : \A k \in DOMAIN up[s] : up[s][k].time <= clock
    /\ \A i \in DOMAIN pending :
          /\ pending[i].rx <= clock
          /\ \A s \in Sockets : s = <<pending[i].client, pending[i].conn>> =>
                \A k \in DOMAIN up[s] : pending[i].rx <= up[s][k].time

OrderInv ==
    ~crowded =>
        \A i, j \in DOMAIN toEngine :
            i < j /\ toEngine[i].client = toEngine[j].client
                => toEngine[i].n < toEngine[j].n

RequestInv == NumberInv /\ FlowInv /\ PendingInv /\ TimeInv /\ OrderInv

EntryInv ==
    /\ EntryTypes /\ ConnInv /\ SocketInv /\ AnswerInv /\ GotInv /\ QueueInv
    /\ RequestInv

-----------------------------------------------------------------------------
(* Sequences and the loop of recvCallBack(). *)

\* Every set of numbers that is not empty has a least one: what stands for
\* induction in this module.
LEMMA Least ==
    ASSUME NEW T \in SUBSET Nat, T # {}
    PROVE  \E x \in T : \A y \in T : x <= y
<1>1. IsWellFoundedOn(OpToRel(<, Nat), Nat)
  BY NatLessThanWellFounded
<1>2. PICK x \in T : \A y \in T : ~(<<y, x>> \in OpToRel(<, Nat))
  BY <1>1, WFMin
<1>3. \A y \in T : ~(y < x)
  BY <1>2 DEF OpToRel
<1> QED
  BY <1>3

LEMMA Taken ==
    ASSUME NEW S, NEW b \in Seq(S), NEW k \in 0 .. Len(b)
    PROVE  SubSeq(b, 1, k) \in Seq(S)
  OBVIOUS

LEMMA Joined ==
    ASSUME NEW S, NEW a \in Seq(S), NEW b \in Seq(S)
    PROVE  /\ a \o b \in Seq(S)
           /\ Len(a \o b) = Len(a) + Len(b)
           /\ \A i \in DOMAIN (a \o b) :
                 \/ i \in DOMAIN a /\ (a \o b)[i] = a[i]
                 \/ i - Len(a) \in DOMAIN b /\ (a \o b)[i] = b[i - Len(a)]
           /\ \A i \in DOMAIN a : i \in DOMAIN (a \o b) /\ (a \o b)[i] = a[i]
           /\ \A i \in DOMAIN b :
                 i + Len(a) \in DOMAIN (a \o b) /\ (a \o b)[i + Len(a)] = b[i]
  OBVIOUS

\* One turn of the loop: the messages that have passed before msgs[k], and it.
Step(msgs, next, before, k) ==
    IF msgs[k].seq = next + Len(before) THEN Append(before, msgs[k]) ELSE before

Loop(f, msgs, next, n) ==
    f = [k \in 0 .. n |-> IF k = 0 THEN <<>> ELSE Step(msgs, next, f[k - 1], k)]

\* The loop has a result: the recursive function exists.
LEMMA LoopExists ==
    ASSUME NEW msgs, NEW next, NEW n \in Nat
    PROVE  \E f : Loop(f, msgs, next, n)
<1> DEFINE T == {x \in Nat : ~\E f : Loop(f, msgs, next, x)}
<1>1. SUFFICES ASSUME T # {} PROVE FALSE
  OBVIOUS
<1>2. PICK x \in T : \A y \in T : x <= y
  BY <1>1, Least
<1>3. CASE x = 0
  <2> DEFINE g == [k \in 0 .. 0 |-> <<>>]
  <2>1. g = [k \in 0 .. 0 |-> IF k = 0 THEN <<>> ELSE Step(msgs, next, g[k - 1], k)]
    OBVIOUS
  <2> QED
    BY <2>1, <1>3, <1>2 DEF Loop
<1>4. CASE x # 0
  <2>1. x - 1 \in Nat /\ x - 1 \notin T
    BY <1>2, <1>4
  <2>2. PICK f : Loop(f, msgs, next, x - 1)
    BY <2>1
  <2> DEFINE g == [k \in 0 .. x |-> IF k = x THEN Step(msgs, next, f[x - 1], x) ELSE f[k]]
  <2>3. ASSUME NEW k \in 0 .. x
        PROVE  g[k] = IF k = 0 THEN <<>> ELSE Step(msgs, next, g[k - 1], k)
    <3>1. CASE k = x
      <4>1. g[k - 1] = f[x - 1]
        BY <3>1, <1>4, <1>2
      <4> QED
        BY <4>1, <3>1, <1>4
    <3>2. CASE k # x
      <4>1. k \in 0 .. (x - 1)
        BY <3>2, <1>2
      <4>2. f[k] = IF k = 0 THEN <<>> ELSE Step(msgs, next, f[k - 1], k)
        BY <2>2, <4>1 DEF Loop
      <4>3. k # 0 => g[k - 1] = f[k - 1]
        BY <4>1, <1>2
      <4>4. g[k] = f[k]
        BY <3>2
      <4> HIDE DEF g
      <4> QED
        BY <4>2, <4>3, <4>4
    <3> QED
      BY <3>1, <3>2
  <2>4. DOMAIN g = 0 .. x /\ g = [k \in 0 .. x |-> g[k]]
    OBVIOUS
  <2> HIDE DEF g
  <2>5. Loop(g, msgs, next, x)
    BY <2>3, <2>4 DEF Loop
  <2> QED
    BY <2>5, <1>2
<1> QED
  BY <1>3, <1>4

\* What passes is what was expected: next, next + 1 and so on.
LEMMA LoopNumbers ==
    ASSUME NEW msgs \in Seq(TimedMsg), NEW next \in Nat, NEW n \in 0 .. Len(msgs),
           NEW f, Loop(f, msgs, next, n), NEW k \in 0 .. n
    PROVE  /\ f[k] \in Seq(TimedMsg)
           /\ \A i \in 1 .. Len(f[k]) : f[k][i].seq = next + i - 1
<1> DEFINE Good(s) == /\ s \in Seq(TimedMsg)
                      /\ \A i \in 1 .. Len(s) : s[i].seq = next + i - 1
           T == {x \in 0 .. n : ~Good(f[x])}
<1>1. SUFFICES ASSUME T # {} PROVE FALSE
  OBVIOUS
<1>a. T \in SUBSET Nat
  OBVIOUS
<1>2. PICK x \in T : \A y \in T : x <= y
  <2> HIDE DEF T
  <2> QED
    BY <1>1, <1>a, Least
<1>3. f[x] = IF x = 0 THEN <<>> ELSE Step(msgs, next, f[x - 1], x)
  BY <1>2 DEF Loop
<1>4. CASE x = 0
  <2>1. Good(<<>>)
    OBVIOUS
  <2> HIDE DEF Good
  <2> QED
    BY <2>1, <1>2, <1>3, <1>4
<1>5. CASE x # 0
  <2>1. x - 1 \in 0 .. n /\ x - 1 \notin T /\ x \in 1 .. Len(msgs)
    BY <1>2, <1>5
  <2>2. Good(f[x - 1])
    BY <2>1
  <2>3. ASSUME NEW s, Good(s), NEW m \in TimedMsg, m.seq = next + Len(s)
        PROVE  Good(Append(s, m))
    <3> DEFINE t == Append(s, m)
    <3>1. /\ t \in Seq(TimedMsg) /\ Len(t) = Len(s) + 1 /\ Len(s) \in Nat
          /\ t[Len(s) + 1] = m
          /\ \A i \in 1 .. Len(s) : t[i] = s[i]
      BY <2>3
    <3>2. m.seq = next + Len(s) /\ \A i \in 1 .. Len(s) : s[i].seq = next + i - 1
      BY <2>3
    <3> HIDE DEF t
    <3>3. \A i \in 1 .. Len(t) : i \in 1 .. Len(s) \/ i = Len(s) + 1
      BY <3>1
    <3>4. \A i \in 1 .. Len(t) : t[i].seq = next + i - 1
      BY <3>1, <3>2, <3>3
    <3> QED
      BY <3>1, <3>4 DEF t
  <2>4. msgs[x] \in TimedMsg
    BY <2>1
  <2> HIDE DEF Good
  <2>5. Good(Step(msgs, next, f[x - 1], x))
    BY <2>2, <2>3, <2>4 DEF Step
  <2> QED
    BY <2>5, <1>3, <1>5, <1>2
<1> QED
  BY <1>4, <1>5

\* InSequence returns messages with the numbers next, next + 1 and so on.
LEMMA InSequenceNumbers ==
    ASSUME NEW msgs \in Seq(TimedMsg), NEW next \in Nat
    PROVE  /\ InSequence(msgs, next) \in Seq(TimedMsg)
           /\ \A i \in 1 .. Len(InSequence(msgs, next)) :
                 InSequence(msgs, next)[i].seq = next + i - 1
<1>1. PICK g : Loop(g, msgs, next, Len(msgs))
  BY LoopExists
<1> DEFINE f == CHOOSE f : Loop(f, msgs, next, Len(msgs))
<1>2. Loop(f, msgs, next, Len(msgs))
  BY <1>1
<1>3. InSequence(msgs, next) = f[Len(msgs)]
  BY DEF InSequence, Loop, Step
<1> HIDE DEF f
<1>4. Len(msgs) \in 0 .. Len(msgs)
  OBVIOUS
<1>5. /\ f[Len(msgs)] \in Seq(TimedMsg)
      /\ \A i \in 1 .. Len(f[Len(msgs)]) : f[Len(msgs)][i].seq = next + i - 1
  BY <1>2, <1>4, LoopNumbers
<1> QED
  BY <1>3, <1>5

-----------------------------------------------------------------------------
(* What a step leaves alone. *)

LEMMA Bounds ==
    MaxConnections \in Nat /\ MaxPending \in Nat /\ StableSize \in Nat
  BY EntryAssumption

\* The types of what is at an index.
LEMMA Elements ==
    ASSUME EntryInv
    PROVE  /\ waiting \in Seq(Sockets) /\ Len(waiting) \in Nat
           /\ accepted \in Seq(Sockets) /\ Len(accepted) \in Nat
           /\ pending \in Seq(Request) /\ toEngine \in Seq(Published)
           /\ respQueue \in Seq(Response)
           /\ \A s \in Sockets : \A k \in DOMAIN up[s] : up[s][k].time \in Nat
           /\ \A i \in DOMAIN pending :
                 /\ pending[i].client \in Clients /\ pending[i].conn \in Nat
                 /\ pending[i].n \in Nat /\ pending[i].rx \in Nat
           /\ \A i \in DOMAIN toEngine :
                 /\ toEngine[i].client \in Clients /\ toEngine[i].conn \in Nat
                 /\ toEngine[i].n \in Nat
           /\ \A i \in DOMAIN respQueue :
                 respQueue[i].client \in Clients /\ respQueue[i].n \in Nat
<1>1. /\ waiting \in Seq(Sockets) /\ accepted \in Seq(Sockets)
      /\ pending \in Seq(Request) /\ toEngine \in Seq(Published)
      /\ respQueue \in Seq(Response) /\ up \in [Sockets -> Seq(TimedMsg)]
  BY DEF EntryInv, EntryTypes, NetTypes, ServerTypes, EngineTypes
<1>2. Len(waiting) \in Nat /\ Len(accepted) \in Nat
  BY <1>1
<1>3. ASSUME NEW s \in Sockets, NEW k \in DOMAIN up[s]
      PROVE  up[s][k].time \in Nat
  <2>1. up[s] \in Seq(TimedMsg)
    BY <1>1
  <2>2. up[s][k] \in TimedMsg
    BY <2>1
  <2> QED
    BY <2>2 DEF TimedMsg
<1>4. \A i \in DOMAIN pending : pending[i] \in Request
  BY <1>1
<1>5. \A i \in DOMAIN toEngine : toEngine[i] \in Published
  BY <1>1
<1>6. \A i \in DOMAIN respQueue : respQueue[i] \in Response
  BY <1>1
<1>7. \A i \in DOMAIN pending :
         /\ pending[i].client \in Clients /\ pending[i].conn \in Nat
         /\ pending[i].n \in Nat /\ pending[i].rx \in Nat
  BY <1>4 DEF Request
<1>8. \A i \in DOMAIN toEngine :
         /\ toEngine[i].client \in Clients /\ toEngine[i].conn \in Nat
         /\ toEngine[i].n \in Nat
  BY <1>5 DEF Published
<1>9. \A i \in DOMAIN respQueue :
         respQueue[i].client \in Clients /\ respQueue[i].n \in Nat
  BY <1>6 DEF Response
<1> QED
  BY <1>1, <1>2, <1>3, <1>7, <1>8, <1>9

LEMMA Kept ==
    ASSUME EntryInv
    PROVE  /\ UNCHANGED gatewayVars => GatewayTypes' /\ GotInv' /\ NumberInv'
           /\ UNCHANGED <<gwExp, got>> => GotInv'
           /\ UNCHANGED <<gwOut, asked>> => NumberInv'
           /\ UNCHANGED <<up, down, clock>> => NetTypes'
           /\ UNCHANGED <<waiting, accepted, sweep, sockOf, srvExp, srvOut,
                          srvBuf, pending, status>> => ServerTypes'
           /\ UNCHANGED engineVars => EngineTypes'
           /\ UNCHANGED <<waiting, accepted, conn>> => ConnInv'
           /\ UNCHANGED <<sockOf, pending, toEngine>> => SocketInv'
           /\ UNCHANGED <<sockOf, toEngine, bookVars, respQueue, status>>
                  => AnswerInv'
           /\ UNCHANGED <<srvOut, told, respQueue>> => QueueInv'
           /\ UNCHANGED <<toEngine, pending, srvExp, status>> => FlowInv'
           /\ UNCHANGED pending => PendingInv'
           /\ UNCHANGED <<up, clock, pending>> => TimeInv'
           /\ UNCHANGED <<toEngine, crowded>> => OrderInv'
<1>1. UNCHANGED gatewayVars => GatewayTypes' /\ GotInv' /\ NumberInv'
  BY DEF gatewayVars, EntryInv, EntryTypes, GatewayTypes, GotInv, RequestInv,
         NumberInv
<1>2. /\ UNCHANGED <<gwExp, got>> => GotInv'
      /\ UNCHANGED <<gwOut, asked>> => NumberInv'
  BY DEF EntryInv, GotInv, RequestInv, NumberInv
<1>3. UNCHANGED <<up, down, clock>> => NetTypes'
  BY DEF EntryInv, EntryTypes, NetTypes
<1>4. UNCHANGED <<waiting, accepted, sweep, sockOf, srvExp, srvOut,
                  srvBuf, pending, status>> => ServerTypes'
  BY DEF EntryInv, EntryTypes, ServerTypes
<1>5. UNCHANGED engineVars => EngineTypes'
  BY DEF engineVars, bookVars, EntryInv, EntryTypes, EngineTypes
<1>6. UNCHANGED <<waiting, accepted, conn>> => ConnInv'
  BY DEF EntryInv, ConnInv
<1>7. /\ UNCHANGED <<sockOf, pending, toEngine>> => SocketInv'
      /\ UNCHANGED <<sockOf, toEngine, bookVars, respQueue, status>> => AnswerInv'
  <2>1. UNCHANGED <<sockOf, pending, toEngine>> => SocketInv'
    BY DEF EntryInv, SocketInv
  <2>2. UNCHANGED <<sockOf, toEngine, bookVars, respQueue, status>> => AnswerInv'
    BY DEF EntryInv, AnswerInv, bookVars
  <2> QED
    BY <2>1, <2>2
<1>8. UNCHANGED <<srvOut, told, respQueue>> => QueueInv'
  BY DEF EntryInv, QueueInv
<1>9. UNCHANGED <<toEngine, pending, srvExp, status>> => FlowInv'
  <2> SUFFICES ASSUME UNCHANGED <<toEngine, pending, srvExp, status>>, NEW c \in Clients
               PROVE  \E e \in Nat : /\ EngineHas(c, e)'
                                     /\ status' = "running" => PendingFrom(c, e)'
    BY DEF FlowInv
  <2>1. PICK e \in Nat : EngineHas(c, e) /\ (status = "running" => PendingFrom(c, e))
    BY DEF EntryInv, RequestInv, FlowInv
  <2>2. EngineHas(c, e)'
    BY <2>1 DEF EngineHas
  <2>3. status' = "running" => PendingFrom(c, e)'
    BY <2>1 DEF PendingFrom
  <2> QED
    BY <2>2, <2>3
<1>10. UNCHANGED pending => PendingInv'
  BY DEF EntryInv, RequestInv, PendingInv
<1>11. UNCHANGED <<up, clock, pending>> => TimeInv'
  BY DEF EntryInv, RequestInv, TimeInv
<1>12. UNCHANGED <<toEngine, crowded>> => OrderInv'
  BY DEF EntryInv, RequestInv, OrderInv
<1> QED
  BY <1>1, <1>2, <1>3, <1>4, <1>5, <1>6, <1>7, <1>8, <1>9, <1>10, <1>11, <1>12

LEMMA InitEntry == Init => EntryInv
<1> SUFFICES ASSUME Init PROVE EntryInv
  OBVIOUS
<1> USE Bounds
<1>1. EntryTypes
  <2>1. GatewayTypes
    BY DEF Init, GatewayTypes
  <2>2. NetTypes
    BY DEF Init, NetTypes
  <2>3. EngineTypes
    <3>1. crowded \in BOOLEAN
      BY Zenon DEF Init
    <3>2. toEngine = <<>> /\ answered = 0 /\ respQueue = <<>>
          /\ told = [c \in Clients |-> 0]
          /\ resting = [c \in Clients |-> 0] /\ fillOf = <<>>
      BY DEF Init
    <3> QED
      BY <3>1, <3>2 DEF EngineTypes
  <2>4. ServerTypes
    BY DEF Init, ServerTypes
  <2> QED
    BY <2>1, <2>2, <2>3, <2>4 DEF EntryTypes
<1>2. ConnInv /\ SocketInv /\ GotInv /\ QueueInv
  BY DEF Init, ConnInv, SocketInv, GotInv, QueueInv
<1>a. AnswerInv
  BY DEF Init, AnswerInv
<1>3. NumberInv /\ PendingInv /\ TimeInv /\ OrderInv
  BY DEF Init, NumberInv, PendingInv, TimeInv, OrderInv
<1>4. FlowInv
  <2> SUFFICES ASSUME NEW c \in Clients
               PROVE  EngineHas(c, 0) /\ PendingFrom(c, 0)
    BY DEF FlowInv
  <2> QED
    BY DEF Init, EngineHas, PendingFrom
<1> QED
  BY <1>1, <1>2, <1>a, <1>3, <1>4 DEF EntryInv, RequestInv

-----------------------------------------------------------------------------
(* The gateway, the clock and the engine. *)

LEMMA ConnectKeeps ==
    ASSUME EntryInv, NEW c \in Clients, Connect(c)
    PROVE  EntryInv'
<1> USE Bounds
<1>1. GatewayTypes' /\ conn'[c] = conn[c] + 1
  BY SMTT(30) DEF Connect, EntryInv, EntryTypes, GatewayTypes
<1>2. ConnInv' /\ Len(waiting) + Len(accepted) < MaxConnections
  <2>a. waiting' = Append(waiting, <<c, conn'[c]>>) /\ accepted' = accepted
        /\ Len(waiting) + Len(accepted) < MaxConnections
    BY DEF Connect
  <2>1. Len(waiting') = Len(waiting) + 1
    BY <2>a, Elements
  <2>2. Len(waiting) \in Nat /\ Len(accepted) \in Nat
    BY Elements
  <2>3. \A d \in Clients : conn[d] \in Nat /\ conn'[d] \in {conn[d], conn[d] + 1}
    BY DEF Connect, EntryInv, EntryTypes, GatewayTypes
  <2> QED
    BY <2>a, <2>1, <2>2, <2>3, SMTT(30) DEF EntryInv, ConnInv
<1>3. ServerTypes'
  <2>1. <<c, conn'[c]>> \in Sockets
    <3>1. conn[c] \in Nat /\ conn[c] <= Len(waiting) + Len(accepted)
      BY DEF EntryInv, EntryTypes, GatewayTypes, ConnInv
    <3>2. conn'[c] \in 1 .. MaxConnections
      BY <3>1, <1>1, <1>2, Elements
    <3> QED
      BY <3>2 DEF Sockets
  <2>a. waiting' = Append(waiting, <<c, conn'[c]>>)
    BY DEF Connect
  <2>2. waiting' \in Seq(Sockets)
    BY <2>1, <2>a, Elements
  <2> QED
    BY <2>2 DEF Connect, EntryInv, EntryTypes, ServerTypes
<1>4. GotInv' /\ NumberInv'
  BY SMTT(30) DEF Connect, EntryInv, EntryTypes, GatewayTypes, GotInv, RequestInv,
         NumberInv
<1> QED
  BY <1>1, <1>2, <1>3, <1>4, Kept
     DEF Connect, netVars, engineVars, EntryInv, EntryTypes, RequestInv

LEMMA GatewayTakeKeeps ==
    ASSUME EntryInv, NEW c \in Clients, GatewayTake(c)
    PROVE  EntryInv'
<1>1. asked'[c] = gwOut[c] /\ gwOut[c] \in Nat
  BY DEF GatewayTake, EntryInv, EntryTypes, GatewayTypes, RequestInv, NumberInv
<1>2. [seq |-> gwOut[c], n |-> asked'[c]] \in Msg
  BY <1>1 DEF Msg
<1>3. gwBuf' \in [Clients -> Seq(Msg)]
  BY <1>2 DEF GatewayTake, EntryInv, EntryTypes, GatewayTypes
<1>4. GatewayTypes'
  BY <1>3, SMTT(30) DEF GatewayTake, EntryInv, EntryTypes, GatewayTypes
<1>5. NumberInv'
  BY DEF GatewayTake, EntryInv, EntryTypes, GatewayTypes, RequestInv, NumberInv
<1> QED
  BY <1>4, <1>5, Kept
     DEF GatewayTake, netVars, serverVars, engineVars, EntryInv, EntryTypes,
         RequestInv

LEMMA GatewaySendKeeps ==
    ASSUME EntryInv, NEW c \in Clients, GatewaySend(c)
    PROVE  EntryInv'
<1> DEFINE s == <<c, conn[c]>>
           Stamped(taken) == [i \in DOMAIN taken |->
                                [seq |-> taken[i].seq, n |-> taken[i].n,
                                 time |-> clock]]
<1>1. PICK k \in 0 .. Len(gwBuf[c]) :
         up' = [up EXCEPT ![s] = @ \o Stamped(SubSeq(gwBuf[c], 1, k))]
  BY ZenonT(60) DEF GatewaySend
<1> DEFINE new == Stamped(SubSeq(gwBuf[c], 1, k))
<1>2. SubSeq(gwBuf[c], 1, k) \in Seq(Msg)
  BY Taken DEF EntryInv, EntryTypes, GatewayTypes
<1>3. /\ new \in Seq(TimedMsg)
      /\ \A i \in DOMAIN new : new[i].time = clock
  <2>1. clock \in Nat
    BY DEF EntryInv, EntryTypes, NetTypes
  <2>2. \A m \in Msg : [seq |-> m.seq, n |-> m.n, time |-> clock] \in TimedMsg
    BY <2>1 DEF Msg, TimedMsg
  <2>3. ASSUME NEW taken \in Seq(Msg)
        PROVE  /\ Stamped(taken) \in Seq(TimedMsg)
               /\ \A i \in DOMAIN Stamped(taken) : Stamped(taken)[i].time = clock
    <3>1. DOMAIN taken = 1 .. Len(taken) /\ Len(taken) \in Nat
      OBVIOUS
    <3>2. \A i \in 1 .. Len(taken) : taken[i] \in Msg
      OBVIOUS
    <3>3. Stamped(taken) \in [1 .. Len(taken) -> TimedMsg]
      BY <3>1, <3>2, <2>2
    <3> QED
      BY <3>1, <3>3
  <2> QED
    BY <1>2, <2>3
<1> HIDE DEF new, Stamped
<1>4. up' = [up EXCEPT ![s] = @ \o new]
  BY <1>1 DEF new
<1>5. NetTypes'
  <2>1. up \in [Sockets -> Seq(TimedMsg)]
    BY DEF EntryInv, EntryTypes, NetTypes
  <2>2. s \in Sockets => up[s] \o new \in Seq(TimedMsg)
    BY <2>1, <1>3, Joined
  <2>3. up' \in [Sockets -> Seq(TimedMsg)]
    BY <2>1, <2>2, <1>4
  <2> QED
    BY <2>3 DEF GatewaySend, EntryInv, EntryTypes, NetTypes
<1>6. ASSUME NEW t \in Sockets, NEW i \in DOMAIN up'[t]
      PROVE  \/ i \in DOMAIN up[t] /\ up'[t][i] = up[t][i]
             \/ up'[t][i].time = clock
  <2>1. CASE t = s
    <3>1. up'[t] = up[t] \o new /\ up[t] \in Seq(TimedMsg)
      BY <1>4, <2>1 DEF EntryInv, EntryTypes, NetTypes
    <3> HIDE DEF s
    <3> QED
      BY <3>1, <1>3, Joined
  <2>2. CASE t # s
    <3>1. up'[t] = up[t]
      BY <1>4, <2>2 DEF EntryInv, EntryTypes, NetTypes
    <3> QED
      BY <3>1
  <2> QED
    BY <2>1, <2>2
<1>7. TimeInv'
  <2>1. clock' = clock /\ clock \in Nat /\ pending' = pending /\ pending \in Seq(Request)
    BY DEF GatewaySend, serverVars, EntryInv, EntryTypes, NetTypes, ServerTypes
  <2>2. \A t \in Sockets : \A i \in DOMAIN up'[t] : up'[t][i].time <= clock
    BY <1>6, <2>1 DEF EntryInv, RequestInv, TimeInv
  <2>3. ASSUME NEW j \in DOMAIN pending, NEW t \in Sockets,
               t = <<pending[j].client, pending[j].conn>>, NEW i \in DOMAIN up'[t]
        PROVE  pending[j].rx <= up'[t][i].time
    BY <1>6, <2>3 DEF EntryInv, RequestInv, TimeInv
  <2>4. \A j \in DOMAIN pending : pending[j].rx <= clock
    BY DEF EntryInv, RequestInv, TimeInv
  <2> QED
    BY <2>1, <2>2, <2>3, <2>4 DEF TimeInv
<1>8. GatewayTypes'
  BY DEF GatewaySend, EntryInv, EntryTypes, GatewayTypes
<1> QED
  BY <1>5, <1>7, <1>8, Kept
     DEF GatewaySend, serverVars, engineVars, EntryInv, EntryTypes, RequestInv

LEMMA GatewayRecvKeeps ==
    ASSUME EntryInv, NEW c \in Clients, GatewayRecv(c)
    PROVE  EntryInv'
<1> USE Bounds
<1> DEFINE s == <<c, conn[c]>>
<1>1. s \in Sockets
  <2>1. conn[c] \in Nat /\ conn[c] # 0 /\ conn[c] <= Len(waiting) + Len(accepted)
        /\ Len(waiting) + Len(accepted) <= MaxConnections
    BY DEF GatewayRecv, EntryInv, EntryTypes, GatewayTypes, ConnInv
  <2>2. conn[c] \in 1 .. MaxConnections
    BY <2>1, Elements
  <2> QED
    BY <2>2 DEF Sockets
<1>2. /\ down[s] \in Seq(Msg) /\ down[s] # <<>>
      /\ IF Head(down[s]).seq = gwExp[c]
         THEN /\ gwExp' = [gwExp EXCEPT ![c] = @ + 1]
              /\ got' = [got EXCEPT ![c] = Append(@, Head(down[s]).n)]
         ELSE UNCHANGED <<gwExp, got>>
      /\ down' = [down EXCEPT ![s] = Tail(@)]
  BY <1>1 DEF GatewayRecv, EntryInv, EntryTypes, NetTypes
<1>3. Head(down[s]) \in Msg /\ Tail(down[s]) \in Seq(Msg)
  BY <1>2
<1>4. Head(down[s]).n \in Nat /\ Head(down[s]).n = Head(down[s]).seq
  BY <1>3 DEF Msg
<1> HIDE DEF s
<1>5. NetTypes'
  <2>1. down' \in [Sockets -> Seq(Msg)]
    BY <1>1, <1>2, <1>3 DEF EntryInv, EntryTypes, NetTypes
  <2> QED
    BY <2>1 DEF GatewayRecv, EntryInv, EntryTypes, NetTypes
<1>6. GatewayTypes'
  <2>1. got \in [Clients -> Seq(Nat)] /\ gwExp \in [Clients -> Nat]
    BY DEF EntryInv, EntryTypes, GatewayTypes
  <2>2. Append(got[c], Head(down[s]).n) \in Seq(Nat)
    BY <2>1, <1>4
  <2>3. got' \in [Clients -> Seq(Nat)] /\ gwExp' \in [Clients -> Nat]
    <3>1. CASE Head(down[s]).seq = gwExp[c]
      <4>1. /\ got' = [got EXCEPT ![c] = Append(got[c], Head(down[s]).n)]
            /\ gwExp' = [gwExp EXCEPT ![c] = @ + 1]
        BY <1>2, <3>1
      <4> QED
        BY <2>1, <2>2, <4>1
    <3>2. CASE Head(down[s]).seq # gwExp[c]
      BY <2>1, <1>2, <3>2
    <3> QED
      BY <3>1, <3>2
  <2> QED
    BY <2>3 DEF GatewayRecv, EntryInv, EntryTypes, GatewayTypes
<1>7. GotInv'
  <2>1. CASE Head(down[s]).seq = gwExp[c]
    <3>1. /\ Head(down[s]).n = Len(got[c]) + 1
          /\ got[c] \in Seq(Nat) /\ got \in [Clients -> Seq(Nat)]
          /\ gwExp \in [Clients -> Nat]
      BY <2>1, <1>4 DEF EntryInv, EntryTypes, GatewayTypes, GotInv
    <3>2. got'[c] = Append(got[c], Len(got[c]) + 1) /\ gwExp'[c] = gwExp[c] + 1
      BY <2>1, <1>2, <3>1
    <3>3. \A d \in Clients : d # c => got'[d] = got[d] /\ gwExp'[d] = gwExp[d]
      BY <2>1, <1>2, <3>1
    <3>4. /\ gwExp'[c] = Len(got'[c]) + 1
          /\ \A i \in DOMAIN got'[c] : got'[c][i] = i
      BY <3>1, <3>2 DEF EntryInv, GotInv
    <3> QED
      BY <3>3, <3>4 DEF EntryInv, GotInv
  <2>2. CASE Head(down[s]).seq # gwExp[c]
    BY <2>2, <1>2, Kept
  <2> QED
    BY <2>1, <2>2
<1> QED
  BY <1>5, <1>6, <1>7, Kept
     DEF GatewayRecv, serverVars, engineVars, EntryInv, EntryTypes, RequestInv

LEMMA TickKeeps ==
    ASSUME EntryInv, Tick
    PROVE  EntryInv'
<1>1. NetTypes'
  BY DEF Tick, EntryInv, EntryTypes, NetTypes
<1>2. TimeInv'
  <2>1. /\ clock' = clock + 1 /\ clock \in Nat
        /\ up' = up /\ up \in [Sockets -> Seq(TimedMsg)]
        /\ pending' = pending /\ pending \in Seq(Request)
    BY DEF Tick, serverVars, EntryInv, EntryTypes, NetTypes, ServerTypes
  <2> QED
    BY <2>1, Elements DEF EntryInv, RequestInv, TimeInv
<1> QED
  BY <1>1, <1>2, Kept
     DEF Tick, gatewayVars, serverVars, engineVars, EntryInv, EntryTypes,
         RequestInv


\* The engine's next response follows the last in the queue.
LEMMA Responds ==
    ASSUME EntryInv, NEW c \in Clients, NEW type \in Types,
           SendClientResponse(c, type), UNCHANGED srvOut,
           sockOf[c] = NoSocket => type = "ACCEPTED"
    PROVE  /\ told' \in [Clients -> Nat] /\ respQueue' \in Seq(Response)
           /\ QueueInv'
           /\ \A i \in DOMAIN respQueue' :
                 sockOf[respQueue'[i].client] = NoSocket
                     => respQueue'[i].type = "ACCEPTED"
<1>1. /\ told' = [told EXCEPT ![c] = @ + 1]
      /\ respQueue' = Append(respQueue, [client |-> c, type |-> type, n |-> told'[c]])
      /\ UNCHANGED srvOut
  BY DEF SendClientResponse
<1>2. /\ told \in [Clients -> Nat] /\ srvOut \in [Clients -> Nat]
  BY DEF EntryInv, EntryTypes, EngineTypes, ServerTypes
<1>4. c \in Clients
  OBVIOUS
<1>5. told'[c] = told[c] + 1 /\ told[c] \in Nat /\ told' \in [Clients -> Nat]
  BY <1>1, <1>2
<1>6. /\ respQueue' \in Seq(Response)
      /\ Len(respQueue') = Len(respQueue) + 1 /\ Len(respQueue) \in Nat
      /\ \A i \in DOMAIN respQueue : i \in DOMAIN respQueue' /\ respQueue'[i] = respQueue[i]
      /\ \A i \in DOMAIN respQueue' : i \notin DOMAIN respQueue => i = Len(respQueue) + 1
      /\ respQueue'[Len(respQueue) + 1] = [client |-> c, type |-> type, n |-> told[c] + 1]
      /\ Len(respQueue) + 1 \in DOMAIN respQueue'
  <2>1. [client |-> c, type |-> type, n |-> told[c] + 1] \in Response
    BY <1>5 DEF Response
  <2> QED
    BY <2>1, <1>1, <1>5, Elements
<1>7. ASSUME NEW i \in DOMAIN respQueue', sockOf[respQueue'[i].client] = NoSocket
      PROVE  respQueue'[i].type = "ACCEPTED"
  <2>1. CASE i \in DOMAIN respQueue
    BY <2>1, <1>6, <1>7 DEF EntryInv, AnswerInv
  <2>2. CASE i \notin DOMAIN respQueue
    BY <2>2, <1>6, <1>7
  <2> QED
    BY <2>1, <2>2
<1>8. QueueInv'
  <2>1. ASSUME NEW d \in Clients
        PROVE  srvOut[d] <= told'[d] + 1 /\ told[d] <= told'[d]
               /\ told[d] \in Nat /\ srvOut[d] \in Nat /\ told'[d] \in Nat
    BY <1>1, <1>2, <1>5 DEF EntryInv, QueueInv
  <2>2. ASSUME NEW i \in DOMAIN respQueue'
        PROVE  respQueue'[i].n \in srvOut[respQueue'[i].client] .. told'[respQueue'[i].client]
    <3>1. CASE i \in DOMAIN respQueue
      <4>1. /\ respQueue'[i] = respQueue[i] /\ respQueue[i].client \in Clients
            /\ respQueue[i].n \in Nat
            /\ respQueue[i].n \in srvOut[respQueue[i].client] .. told[respQueue[i].client]
        BY <3>1, <1>6, Elements DEF EntryInv, QueueInv
      <4> QED
        BY <4>1, <2>1
    <3>2. CASE i \notin DOMAIN respQueue
      <4>1. respQueue'[i].client = c /\ respQueue'[i].n = told'[c]
        BY <3>2, <1>5, <1>6
      <4>2. srvOut[c] <= told[c] + 1 /\ srvOut[c] \in Nat
        BY <1>2, <1>4 DEF EntryInv, QueueInv
      <4> QED
        BY <4>1, <4>2, <1>5
    <3> QED
      BY <3>1, <3>2
  <2>3. ASSUME NEW d \in Clients, NEW k \in srvOut[d] .. told'[d]
        PROVE  \E i \in DOMAIN respQueue' :
                  respQueue'[i].client = d /\ respQueue'[i].n = k
    <3>1. CASE k \in srvOut[d] .. told[d]
      <4>1. PICK i \in DOMAIN respQueue : respQueue[i].client = d /\ respQueue[i].n = k
        BY <3>1 DEF EntryInv, QueueInv
      <4> QED
        BY <4>1, <1>6
    <3>2. CASE k \notin srvOut[d] .. told[d]
      <4>1. d = c /\ k = told[c] + 1
        BY <3>2, <2>1, <1>1, <1>2, <1>5
      <4> QED
        BY <4>1, <1>6
    <3> QED
      BY <3>1, <3>2
  <2>4. ASSUME NEW i \in DOMAIN respQueue', NEW j \in DOMAIN respQueue', i < j,
               respQueue'[i].client = respQueue'[j].client
        PROVE  respQueue'[i].n < respQueue'[j].n
    <3>0. /\ DOMAIN respQueue = 1 .. Len(respQueue)
          /\ DOMAIN respQueue' = 1 .. Len(respQueue) + 1
      BY <1>6, Elements
    <3>1. i \in DOMAIN respQueue
      BY <3>0, <2>4, <1>6
    <3>2. CASE j \in DOMAIN respQueue
      BY <3>1, <3>2, <2>4, <1>6 DEF EntryInv, QueueInv
    <3>3. CASE j \notin DOMAIN respQueue
      <4>1. respQueue[i].client = c /\ respQueue'[j].n = told[c] + 1
        BY <3>1, <3>3, <2>4, <1>6
      <4>2. respQueue[i].n \in srvOut[c] .. told[c] /\ respQueue[i].n \in Nat
        BY <3>1, <4>1, Elements DEF EntryInv, QueueInv
      <4> QED
        BY <4>1, <4>2, <3>1, <1>2, <1>5, <1>6
    <3> QED
      BY <3>2, <3>3
  <2>5. UNCHANGED srvOut
    OBVIOUS
  <2>6. \A d \in Clients : srvOut'[d] <= told'[d] + 1
    BY <2>1, <2>5
  <2>7. \A i \in DOMAIN respQueue' :
           respQueue'[i].n \in srvOut'[respQueue'[i].client] .. told'[respQueue'[i].client]
    BY <2>2, <2>5
  <2>8. \A d \in Clients : \A k \in srvOut'[d] .. told'[d] : \E i \in DOMAIN respQueue' :
           respQueue'[i].client = d /\ respQueue'[i].n = k
    BY <2>3, <2>5
  <2> QED
    BY <2>4, <2>6, <2>7, <2>8 DEF QueueInv
<1> QED
  BY <1>5, <1>6, <1>7, <1>8

\* The client that asked has a socket.
LEMMA AskerKnown ==
    ASSUME EntryInv, status = "running", answered < Len(toEngine)
    PROVE  Asker \in Clients /\ sockOf[Asker] # NoSocket
<1>1. answered + 1 \in DOMAIN toEngine
  <2>1. answered \in Nat
    BY DEF EntryInv, EntryTypes, EngineTypes
  <2> QED
    BY <2>1, Elements
<1>2. sockOf[Asker] = <<Asker, toEngine[answered + 1].conn>>
  BY <1>1 DEF EntryInv, SocketInv, Asker
<1> QED
  BY <1>1, <1>2, Elements DEF Asker, NoSocket

\* What a step of the engine has to show: the response it sends, if any, and
\* what it keeps of the books.
LEMMA EngineKeeps ==
    ASSUME EntryInv, status = "running",
           UNCHANGED <<gatewayVars, netVars, serverVars, toEngine, crowded>>,
           \/ UNCHANGED <<told, respQueue>>
           \/ \E c \in Clients, type \in Types :
                 /\ SendClientResponse(c, type)
                 /\ sockOf[c] = NoSocket => type = "ACCEPTED",
           answered' \in Nat, resting' \in [Clients -> Nat], fillOf' \in Seq(Clients),
           matching' => answered' < Len(toEngine),
           \A c \in Clients : resting'[c] > 0 => sockOf[c] # NoSocket,
           \A i \in DOMAIN fillOf' : sockOf[fillOf'[i]] # NoSocket
    PROVE  EntryInv'
<1>1. /\ UNCHANGED <<sockOf, pending, srvOut, srvExp, status, toEngine, crowded>>
      /\ UNCHANGED <<waiting, accepted, sweep, srvBuf, up, down, clock>>
  BY DEF serverVars, netVars
<1>2. /\ told' \in [Clients -> Nat] /\ respQueue' \in Seq(Response)
      /\ QueueInv'
      /\ \A i \in DOMAIN respQueue' :
            sockOf[respQueue'[i].client] = NoSocket => respQueue'[i].type = "ACCEPTED"
  <2>1. CASE UNCHANGED <<told, respQueue>>
    BY <2>1, <1>1, Kept DEF EntryInv, EntryTypes, EngineTypes, AnswerInv
  <2>2. ASSUME NEW c \in Clients, NEW type \in Types, SendClientResponse(c, type),
               sockOf[c] = NoSocket => type = "ACCEPTED"
        PROVE  /\ told' \in [Clients -> Nat] /\ respQueue' \in Seq(Response)
               /\ QueueInv'
               /\ \A i \in DOMAIN respQueue' :
                     sockOf[respQueue'[i].client] = NoSocket
                         => respQueue'[i].type = "ACCEPTED"
    BY <2>2, <1>1, Responds
  <2> QED
    BY <2>1, <2>2
<1>3. EngineTypes'
  BY <1>1, <1>2 DEF EntryInv, EntryTypes, EngineTypes
<1>4. AnswerInv'
  BY <1>1, <1>2 DEF AnswerInv
<1> QED
  BY <1>1, <1>2, <1>3, <1>4, Kept DEF gatewayVars, EntryInv, EntryTypes, RequestInv

\* One more or one fewer order of client c in the books.
LEMMA Counted ==
    ASSUME EntryInv, NEW c \in Clients
    PROVE  /\ resting[c] \in Nat
           /\ LET more == [resting EXCEPT ![c] = @ + 1]
              IN  /\ more \in [Clients -> Nat]
                  /\ \A d \in Clients : more[d] > 0 => resting[d] > 0 \/ d = c
           /\ resting[c] > 0 =>
                 LET less == [resting EXCEPT ![c] = @ - 1]
                 IN  /\ less \in [Clients -> Nat]
                     /\ \A d \in Clients : less[d] > 0 => resting[d] > 0
  BY DEF EntryInv, EntryTypes, EngineTypes

LEMMA EngineStepKeeps ==
    ASSUME EntryInv, EngineStep
    PROVE  EntryInv'
<1>0. /\ answered \in Nat /\ answered + 1 \in Nat
      /\ resting \in [Clients -> Nat] /\ fillOf \in Seq(Clients)
      /\ <<>> \in Seq(Clients)
      /\ \A c \in Clients : resting[c] > 0 => sockOf[c] # NoSocket
      /\ \A i \in DOMAIN fillOf : sockOf[fillOf[i]] # NoSocket
      /\ matching => answered < Len(toEngine)
  BY DEF EntryInv, EntryTypes, EngineTypes, AnswerInv
<1>1. ASSUME NEW t \in Tickers, Add(t)
      PROVE  EntryInv'
  <2>1. t \in Clients /\ "ACCEPTED" \in Types
    BY EntryAssumption DEF Types
  <2>2. /\ status = "running" /\ answered < Len(toEngine)
        /\ SendClientResponse(t, "ACCEPTED")
        /\ UNCHANGED <<gatewayVars, netVars, serverVars, toEngine, crowded>>
        /\ UNCHANGED <<answered, resting, fillOf>>
    BY <1>1 DEF Add, AtRequest
  <2> QED
    BY <2>1, <2>2, <1>0, EngineKeeps
<1>2. ASSUME NEW c \in Clients, Match(c)
      PROVE  EntryInv'
  <2>1. /\ status = "running" /\ matching /\ resting[c] > 0
        /\ SendClientResponse(Asker, "FILLED") /\ fillOf' = <<c>>
        /\ \/ ~matching' /\ UNCHANGED resting
           \/ resting' = [resting EXCEPT ![c] = @ - 1]
        /\ answered' = IF matching' THEN answered ELSE answered + 1
        /\ UNCHANGED <<gatewayVars, netVars, serverVars, toEngine, crowded>>
    BY <1>2 DEF Match, AtLoop
  <2>2. Asker \in Clients /\ sockOf[Asker] # NoSocket /\ "FILLED" \in Types
    BY <2>1, <1>0, AskerKnown DEF Types
  <2>3. /\ resting' \in [Clients -> Nat]
        /\ \A d \in Clients : resting'[d] > 0 => sockOf[d] # NoSocket
    BY <2>1, <1>0, Counted
  <2>4. answered' \in Nat /\ (matching' => answered' < Len(toEngine))
    BY <2>1, <1>0
  <2>5. fillOf' \in Seq(Clients) /\ \A i \in DOMAIN fillOf' : fillOf'[i] = c
    BY <2>1
  <2>6. \A i \in DOMAIN fillOf' : sockOf[fillOf'[i]] # NoSocket
    BY <2>1, <2>5, <1>0
  <2> QED
    BY <2>1, <2>2, <2>3, <2>4, <2>5, <2>6, EngineKeeps
<1>3. CASE MatchTellsOwner
  <2>1. /\ status = "running" /\ fillOf # <<>>
        /\ SendClientResponse(fillOf[1], "FILLED") /\ fillOf' = <<>>
        /\ UNCHANGED <<gatewayVars, netVars, serverVars, toEngine, crowded>>
        /\ UNCHANGED <<answered, matching, resting>>
    BY <1>3 DEF MatchTellsOwner
  <2>2. 1 \in DOMAIN fillOf /\ fillOf[1] \in Clients /\ "FILLED" \in Types
    BY <2>1, <1>0 DEF Types
  <2>3. fillOf' \in Seq(Clients) /\ \A i \in DOMAIN fillOf' : FALSE
    BY <2>1
  <2> QED
    BY <2>1, <2>2, <2>3, <1>0, EngineKeeps
<1>4. CASE EndAdd
  <2>1. /\ status = "running" /\ matching /\ ~matching'
        /\ resting' = [resting EXCEPT ![Asker] = @ + 1]
        /\ answered' = answered + 1
        /\ UNCHANGED <<gatewayVars, netVars, serverVars, toEngine, crowded>>
        /\ UNCHANGED <<fillOf, told, respQueue>>
    BY <1>4 DEF EndAdd, AtLoop
  <2>2. Asker \in Clients /\ sockOf[Asker] # NoSocket
    BY <2>1, <1>0, AskerKnown
  <2>3. /\ resting' \in [Clients -> Nat]
        /\ \A d \in Clients : resting'[d] > 0 => sockOf[d] # NoSocket
    BY <2>1, <2>2, <1>0, Counted
  <2> QED
    BY <2>1, <2>3, <1>0, EngineKeeps
<1>5. CASE Cancel
  <2>1. /\ status = "running" /\ answered < Len(toEngine) /\ ~matching /\ ~matching'
        /\ answered' = answered + 1
        /\ UNCHANGED <<gatewayVars, netVars, serverVars, toEngine, crowded, fillOf>>
        /\ \/ /\ resting[Asker] > 0
              /\ resting' = [resting EXCEPT ![Asker] = @ - 1]
              /\ SendClientResponse(Asker, "CANCELLED")
           \/ SendClientResponse(Asker, "CANCEL_REJECTED") /\ UNCHANGED resting
    BY <1>5 DEF Cancel, AtRequest
  <2>2. /\ Asker \in Clients /\ sockOf[Asker] # NoSocket
        /\ "CANCELLED" \in Types /\ "CANCEL_REJECTED" \in Types
    BY <2>1, <1>0, AskerKnown DEF Types
  <2>3. /\ resting' \in [Clients -> Nat]
        /\ \A d \in Clients : resting'[d] > 0 => sockOf[d] # NoSocket
    BY <2>1, <2>2, <1>0, Counted
  <2> QED
    BY <2>1, <2>2, <2>3, <1>0, EngineKeeps
<1> QED
  BY <1>1, <1>2, <1>3, <1>4, <1>5 DEF EngineStep

-----------------------------------------------------------------------------
(* The server's round. *)

LEMMA PollKeeps ==
    ASSUME EntryInv, Poll
    PROVE  EntryInv'
<1>1. /\ accepted' = accepted \o waiting /\ waiting' = <<>>
      /\ sweep' = accepted' /\ conn' = conn
  BY DEF Poll, gatewayVars
<1>2. /\ accepted' \in Seq(Sockets) /\ Len(waiting') = 0
      /\ Len(accepted') = Len(accepted) + Len(waiting)
  BY <1>1, Elements, Joined
<1>3. ServerTypes'
  BY <1>1, <1>2 DEF Poll, EntryInv, EntryTypes, ServerTypes
<1>4. ConnInv'
  BY <1>1, <1>2, Elements DEF EntryInv, ConnInv
<1> QED
  BY <1>3, <1>4, Kept
     DEF Poll, gatewayVars, netVars, engineVars, EntryInv, EntryTypes, RequestInv

LEMMA EndRoundKeeps ==
    ASSUME EntryInv, EndRound
    PROVE  EntryInv'
  BY Kept
     DEF EndRound, gatewayVars, netVars, engineVars, EntryInv, EntryTypes,
         RequestInv

\* The number that the server gives to the first response in the queue is its
\* own.
LEMMA SendResponseKeeps ==
    ASSUME EntryInv, SendResponse
    PROVE  EntryInv'
<1> DEFINE r == Head(respQueue)
           c == r.client
           s == sockOf[c]
<1>0. CASE s = NoSocket
  <2>1. /\ status' = "no_socket" /\ respQueue # <<>>
        /\ UNCHANGED <<gatewayVars, netVars, waiting, accepted, pc, sweep, received,
                       sockOf, srvExp, srvOut, srvBuf, pending, engineVars>>
    BY <1>0 DEF SendResponse, engineVars
  <2>2. ServerTypes'
    BY <2>1 DEF EntryInv, EntryTypes, ServerTypes
  <2>3. AnswerInv'
    <3>1. r = respQueue[1]
      BY <2>1, Elements
    <3> QED
      BY <2>1, <3>1, <1>0 DEF EntryInv, AnswerInv, engineVars, bookVars
  <2>4. FlowInv'
    <3> SUFFICES ASSUME NEW d \in Clients
                 PROVE  \E e \in Nat : EngineHas(d, e)'
      BY <2>1 DEF FlowInv
    <3>1. PICK e \in Nat : EngineHas(d, e)
      BY DEF EntryInv, RequestInv, FlowInv
    <3>2. EngineHas(d, e)'
      BY <3>1, <2>1 DEF EngineHas, engineVars
    <3> QED
      BY <3>2
  <2> QED
    BY <2>1, <2>2, <2>3, <2>4, Kept
       DEF gatewayVars, netVars, engineVars, EntryInv, EntryTypes, RequestInv
<1> SUFFICES ASSUME s # NoSocket PROVE EntryInv'
  BY <1>0
<1>1. respQueue # <<>> /\ respQueue' = Tail(respQueue)
      /\ UNCHANGED <<sockOf, pending, toEngine, told, crowded, bookVars>>
      /\ UNCHANGED <<answered, matching, resting, fillOf>>
  BY DEF SendResponse, bookVars
<1>2. r = respQueue[1] /\ 1 \in DOMAIN respQueue
  BY <1>1, Elements
<1>3. c \in Clients /\ r.n \in Nat /\ s # NoSocket
  BY <1>2, Elements
<1>4. s \in Sockets
  BY <1>3 DEF EntryInv, EntryTypes, ServerTypes
<1>5. /\ srvBuf' = [srvBuf EXCEPT ![s] = Append(@, [seq |-> srvOut[c], n |-> r.n])]
      /\ srvOut' = [srvOut EXCEPT ![c] = @ + 1]
      /\ UNCHANGED status
  BY <1>3 DEF SendResponse
<1> HIDE DEF c, s
<1>6. /\ srvOut \in [Clients -> Nat] /\ told \in [Clients -> Nat]
      /\ srvBuf \in [Sockets -> Seq(Msg)]
  BY DEF EntryInv, EntryTypes, ServerTypes, EngineTypes
<1>7. r.n = srvOut[c] /\ srvOut[c] <= told[c]
  <2>1. r.n \in srvOut[c] .. told[c]
    BY <1>2 DEF EntryInv, QueueInv, c
  <2>2. srvOut[c] \in srvOut[c] .. told[c] /\ srvOut[c] <= told[c]
    BY <2>1, <1>3, <1>6
  <2>3. PICK j \in DOMAIN respQueue : respQueue[j].client = c /\ respQueue[j].n = srvOut[c]
    BY <2>2, <1>3 DEF EntryInv, QueueInv
  <2>4. CASE j = 1
    BY <2>2, <2>3, <2>4, <1>2
  <2>5. CASE j # 1
    <3>1. 1 < j
      BY <2>5, Elements
    <3>2. respQueue[1].client = respQueue[j].client
      BY <2>3, <1>2 DEF c
    <3>3. respQueue[1].n < respQueue[j].n
      BY <3>1, <3>2, <1>2 DEF EntryInv, QueueInv
    <3> QED
      BY <3>3, <2>1, <2>3, <1>2, <1>3, <1>6
  <2> QED
    BY <2>4, <2>5
<1>8. ServerTypes'
  <2>1. [seq |-> srvOut[c], n |-> r.n] \in Msg
    BY <1>3, <1>7 DEF Msg
  <2>2. Append(srvBuf[s], [seq |-> srvOut[c], n |-> r.n]) \in Seq(Msg)
    BY <2>1, <1>4, <1>6
  <2>3. srvBuf' \in [Sockets -> Seq(Msg)] /\ srvOut' \in [Clients -> Nat]
    BY <2>2, <1>3, <1>4, <1>5, <1>6
  <2> QED
    BY <2>3, <1>5 DEF SendResponse, EntryInv, EntryTypes, ServerTypes
<1>9. /\ respQueue' \in Seq(Response)
      /\ \A i \in DOMAIN respQueue' :
            i + 1 \in DOMAIN respQueue /\ respQueue'[i] = respQueue[i + 1]
      /\ \A i \in DOMAIN respQueue : i # 1 =>
            i - 1 \in DOMAIN respQueue' /\ respQueue'[i - 1] = respQueue[i]
      /\ \A i \in DOMAIN respQueue' : i \in Nat /\ 1 < i + 1
      /\ \A i \in DOMAIN respQueue : i \in Nat
  BY <1>1, Elements
<1>10. EngineTypes'
  BY <1>1, <1>9 DEF EntryInv, EntryTypes, EngineTypes
<1>11. AnswerInv'
  <2>1. ASSUME NEW i \in DOMAIN respQueue', sockOf[respQueue'[i].client] = NoSocket
        PROVE  respQueue'[i].type = "ACCEPTED"
    BY <2>1, <1>9 DEF EntryInv, AnswerInv
  <2>2. status' = "running"
    BY <1>5 DEF SendResponse
  <2> QED
    BY <2>1, <2>2, <1>1 DEF EntryInv, AnswerInv
<1>12. QueueInv'
  <2>1. srvOut'[c] = srvOut[c] + 1 /\ \A d \in Clients : d # c => srvOut'[d] = srvOut[d]
    BY <1>3, <1>5, <1>6
  <2>2. \A d \in Clients : srvOut[d] \in Nat /\ told[d] \in Nat /\ srvOut[d] <= told[d] + 1
    BY <1>6 DEF EntryInv, QueueInv
  <2>3. \A d \in Clients : srvOut'[d] <= told[d] + 1
    BY <2>1, <2>2, <1>3, <1>7
  <2>4. ASSUME NEW i \in DOMAIN respQueue'
        PROVE  respQueue'[i].n \in srvOut'[respQueue'[i].client] .. told[respQueue'[i].client]
    <3>1. /\ i + 1 \in DOMAIN respQueue /\ respQueue'[i] = respQueue[i + 1]
          /\ respQueue[i + 1].n \in Nat /\ respQueue[i + 1].client \in Clients
          /\ respQueue[i + 1].n \in srvOut[respQueue[i + 1].client] .. told[respQueue[i + 1].client]
      BY <1>9, Elements DEF EntryInv, QueueInv
    <3>2. CASE respQueue[i + 1].client = c
      <4>1. respQueue[1].n < respQueue[i + 1].n
        BY <3>1, <3>2, <1>2, <1>9 DEF EntryInv, QueueInv, c
      <4>2. srvOut[c] < respQueue[i + 1].n
        BY <4>1, <1>2, <1>7
      <4> QED
        BY <4>2, <3>1, <3>2, <2>1, <2>2
    <3>3. CASE respQueue[i + 1].client # c
      BY <3>1, <3>3, <2>1
    <3> QED
      BY <3>2, <3>3
  <2>5. ASSUME NEW d \in Clients, NEW k \in srvOut'[d] .. told[d]
        PROVE  \E i \in DOMAIN respQueue' :
                  respQueue'[i].client = d /\ respQueue'[i].n = k
    <3>1. k \in srvOut[d] .. told[d] /\ (d = c => k # srvOut[c])
      BY <2>1, <2>2, <1>3
    <3>2. PICK i \in DOMAIN respQueue : respQueue[i].client = d /\ respQueue[i].n = k
      BY <3>1 DEF EntryInv, QueueInv
    <3>3. i # 1
      BY <3>1, <3>2, <1>2, <1>7 DEF c
    <3> QED
      BY <3>2, <3>3, <1>9
  <2>6. ASSUME NEW i \in DOMAIN respQueue', NEW j \in DOMAIN respQueue', i < j,
               respQueue'[i].client = respQueue'[j].client
        PROVE  respQueue'[i].n < respQueue'[j].n
    <3>1. /\ i + 1 \in DOMAIN respQueue /\ j + 1 \in DOMAIN respQueue
          /\ respQueue'[i] = respQueue[i + 1] /\ respQueue'[j] = respQueue[j + 1]
          /\ i + 1 < j + 1
      BY <2>6, <1>9
    <3> QED
      BY <3>1, <2>6 DEF EntryInv, QueueInv
  <2> QED
    BY <2>3, <2>4, <2>5, <2>6, <1>1 DEF QueueInv
<1> QED
  BY <1>5, <1>8, <1>10, <1>11, <1>12, Kept
     DEF SendResponse, gatewayVars, netVars, EntryInv, EntryTypes, RequestInv


\* What RecvRequests takes from socket s, the client's own numbers from the
\* expected one on, with a time no earlier than any that is pending.
LEMMA RecvRequestsKeeps ==
    ASSUME EntryInv, status = "running", NEW s \in Sockets, up[s] # <<>>,
           RecvRequests(s)
    PROVE  /\ up' = [up EXCEPT ![s] = <<>>]
           /\ sockOf' \in [Clients -> Sockets \cup {NoSocket}]
           /\ srvExp' \in [Clients -> Nat]
           /\ pending' \in Seq(Request) /\ Len(pending') <= MaxPending
           /\ status' \in {"running", "too_many_requests"}
           /\ UNCHANGED toEngine => SocketInv'
           /\ UNCHANGED <<toEngine, bookVars, respQueue>> => AnswerInv'
           /\ UNCHANGED toEngine => FlowInv'
           /\ PendingInv'
           /\ UNCHANGED clock => TimeInv'
<1> DEFINE c == s[1]
           bound == IF sockOf[c] = NoSocket THEN s ELSE sockOf[c]
           passed == IF bound = s THEN InSequence(up[s], srvExp[c]) ELSE <<>>
           time == Last(up[s]).time
           requests == [i \in DOMAIN passed |->
                          [client |-> c, conn |-> s[2], n |-> passed[i].n,
                           rx |-> time]]
<1>1. /\ c \in Clients /\ s[2] \in Nat /\ s = <<c, s[2]>>
  BY DEF Sockets
<1>2. /\ up \in [Sockets -> Seq(TimedMsg)] /\ clock \in Nat
      /\ sockOf \in [Clients -> Sockets \cup {NoSocket}]
      /\ srvExp \in [Clients -> Nat] /\ Len(pending) <= MaxPending
  BY SMTT(30) DEF EntryInv, EntryTypes, NetTypes, ServerTypes
<1>3. /\ up' = [up EXCEPT ![s] = <<>>]
      /\ sockOf' = [sockOf EXCEPT ![c] = bound]
      /\ srvExp' = [srvExp EXCEPT ![c] = @ + Len(passed)]
      /\ IF HasRoom(Len(passed))
         THEN pending' = pending \o requests /\ UNCHANGED status
         ELSE status' = "too_many_requests" /\ UNCHANGED pending
  BY DEF RecvRequests
<1>4. /\ passed \in Seq(TimedMsg)
      /\ \A i \in 1 .. Len(passed) : passed[i].seq = srvExp[c] + i - 1
      /\ passed # <<>> => bound = s
  <2>1. CASE bound = s
    <3>1. passed = InSequence(up[s], srvExp[c])
      BY <2>1
    <3>2. up[s] \in Seq(TimedMsg) /\ srvExp[c] \in Nat
      BY <1>1, <1>2
    <3> HIDE DEF passed, bound, c
    <3> QED
      BY <3>1, <3>2, <2>1, InSequenceNumbers
  <2>2. CASE bound # s
    <3>1. passed = <<>>
      BY <2>2
    <3> HIDE DEF passed, bound, c
    <3> QED
      BY <3>1
  <2> QED
    BY <2>1, <2>2
<1>5. /\ time \in Nat /\ time <= clock
      /\ Len(up[s]) \in DOMAIN up[s] /\ time = up[s][Len(up[s])].time
  <2>1. up[s] \in Seq(TimedMsg) /\ up[s] # <<>>
    BY <1>2
  <2>2. Len(up[s]) \in DOMAIN up[s]
    BY <2>1
  <2>3. time = up[s][Len(up[s])].time
    BY DEF Last
  <2> QED
    BY <2>2, <2>3, Elements DEF EntryInv, RequestInv, TimeInv
<1>6. bound \in Sockets /\ bound[1] = c
  <2>1. CASE sockOf[c] = NoSocket
    BY <2>1
  <2>2. CASE sockOf[c] # NoSocket
    <3>1. sockOf[c] \in Sockets /\ sockOf[c][1] = c
      BY <1>1, <1>2, <2>2 DEF EntryInv, SocketInv
    <3> QED
      BY <2>2, <3>1
  <2> QED
    BY <2>1, <2>2
<1>7. /\ sockOf[c] # NoSocket => bound = sockOf[c]
      /\ s # NoSocket
  BY <1>1 DEF NoSocket
<1>a. requests = [i \in DOMAIN passed |->
                     [client |-> c, conn |-> s[2], n |-> passed[i].n, rx |-> time]]
  OBVIOUS
<1> HIDE DEF time, passed, bound, requests
<1>8. /\ requests \in Seq(Request) /\ Len(requests) = Len(passed)
      /\ Len(requests) \in Nat
      /\ \A i \in DOMAIN requests :
            /\ i \in 1 .. Len(passed)
            /\ requests[i].client = c /\ requests[i].conn = s[2]
            /\ requests[i].n = srvExp[c] + i - 1 /\ requests[i].rx = time
            /\ bound = s
  <2>1. DOMAIN passed = 1 .. Len(passed) /\ Len(passed) \in Nat
    BY <1>4
  <2>2. \A i \in 1 .. Len(passed) :
           passed[i].n \in Nat /\ passed[i].n = srvExp[c] + i - 1
    <3>1. \A i \in 1 .. Len(passed) : passed[i] \in TimedMsg
      BY <1>4
    <3>2. \A i \in 1 .. Len(passed) : passed[i].n \in Nat /\ passed[i].n = passed[i].seq
      BY <3>1 DEF TimedMsg
    <3> QED
      BY <3>2, <1>4
  <2>3. \A i \in 1 .. Len(passed) :
           [client |-> c, conn |-> s[2], n |-> passed[i].n, rx |-> time] \in Request
    BY <2>2, <1>1, <1>5 DEF Request
  <2>4. requests \in [1 .. Len(passed) -> Request]
    BY <2>1, <2>3, <1>a
  <2>5. requests \in Seq(Request) /\ Len(requests) = Len(passed)
        /\ DOMAIN requests = 1 .. Len(passed)
    BY <2>1, <2>4
  <2>6. ASSUME NEW i \in DOMAIN requests
        PROVE  /\ requests[i].client = c /\ requests[i].conn = s[2]
               /\ requests[i].n = srvExp[c] + i - 1 /\ requests[i].rx = time
               /\ bound = s
    <3>1. requests[i] = [client |-> c, conn |-> s[2], n |-> passed[i].n, rx |-> time]
      BY <2>1, <2>5, <1>a
    <3>2. passed # <<>>
      BY <2>1, <2>5, <1>4
    <3> QED
      BY <3>1, <3>2, <2>2, <2>5, <1>4
  <2> QED
    BY <2>1, <2>5, <2>6
<1>9. /\ sockOf'[c] = bound
      /\ \A d \in Clients : d # c => sockOf'[d] = sockOf[d]
      /\ sockOf' \in [Clients -> Sockets \cup {NoSocket}]
      /\ srvExp'[c] = srvExp[c] + Len(passed) /\ Len(passed) \in Nat
      /\ srvExp[c] \in Nat
      /\ \A d \in Clients : d # c => srvExp'[d] = srvExp[d]
      /\ srvExp' \in [Clients -> Nat]
      /\ up'[s] = <<>>
      /\ \A t \in Sockets : t # s => up'[t] = up[t]
  <2>1. Len(passed) \in Nat /\ srvExp[c] \in Nat /\ c \in Clients /\ bound \in Sockets
    BY <1>1, <1>2, <1>4, <1>6
  <2> HIDE DEF c
  <2>2. /\ sockOf'[c] = bound
        /\ \A d \in Clients : d # c => sockOf'[d] = sockOf[d]
        /\ sockOf' \in [Clients -> Sockets \cup {NoSocket}]
    BY <2>1, <1>2, <1>3
  <2>3. /\ srvExp'[c] = srvExp[c] + Len(passed)
        /\ \A d \in Clients : d # c => srvExp'[d] = srvExp[d]
        /\ srvExp' \in [Clients -> Nat]
    <3>1. srvExp \in [Clients -> Nat]
      BY <1>2
    <3>2. srvExp' = [srvExp EXCEPT ![c] = srvExp[c] + Len(passed)]
      BY <1>3
    <3>3. srvExp[c] + Len(passed) \in Nat
      BY <2>1
    <3> QED
      BY <3>1, <3>2, <3>3, <2>1
  <2>4. up'[s] = <<>> /\ \A t \in Sockets : t # s => up'[t] = up[t]
    BY <1>2, <1>3
  <2> QED
    BY <2>1, <2>2, <2>3, <2>4
<1>10. \A d \in Clients : sockOf[d] # NoSocket => sockOf'[d] = sockOf[d]
  BY <1>7, <1>9
<1> HIDE DEF c
<1>b. /\ \A i \in DOMAIN pending :
            sockOf'[pending[i].client] = <<pending[i].client, pending[i].conn>>
      /\ \A i \in DOMAIN toEngine :
            sockOf'[toEngine[i].client] = <<toEngine[i].client, toEngine[i].conn>>
  <2>1. \A x, y : <<x, y>> # NoSocket
    BY DEF NoSocket
  <2>2. ASSUME NEW i \in DOMAIN pending
        PROVE  sockOf'[pending[i].client] = <<pending[i].client, pending[i].conn>>
    <3>1. sockOf[pending[i].client] = <<pending[i].client, pending[i].conn>>
      BY DEF EntryInv, SocketInv
    <3>2. pending[i].client \in Clients
      BY Elements
    <3> QED
      BY <3>1, <3>2, <2>1, <1>10
  <2>3. ASSUME NEW i \in DOMAIN toEngine
        PROVE  sockOf'[toEngine[i].client] = <<toEngine[i].client, toEngine[i].conn>>
    <3>1. sockOf[toEngine[i].client] = <<toEngine[i].client, toEngine[i].conn>>
      BY DEF EntryInv, SocketInv
    <3>2. toEngine[i].client \in Clients
      BY Elements
    <3> QED
      BY <3>1, <3>2, <2>1, <1>10
  <2> QED
    BY <2>2, <2>3
<1>c. UNCHANGED <<toEngine, bookVars, respQueue>> => AnswerInv'
  <2> SUFFICES ASSUME UNCHANGED <<toEngine, bookVars, respQueue>> PROVE AnswerInv'
    OBVIOUS
  <2>1. UNCHANGED <<toEngine, answered, matching, resting, fillOf, respQueue>>
    BY DEF bookVars
  <2>2. status' # "no_socket"
    BY <1>3
  <2>3. \A i \in DOMAIN fillOf : fillOf[i] \in Clients
    BY DEF EntryInv, EntryTypes, EngineTypes
  <2> QED
    BY <2>1, <2>2, <2>3, <1>10, Elements DEF EntryInv, AnswerInv
<1>11. CASE ~HasRoom(Len(passed))
  <2>1. pending' = pending /\ status' = "too_many_requests"
    BY <1>3, <1>11
  <2>2. UNCHANGED toEngine => SocketInv'
    <3> SUFFICES ASSUME UNCHANGED toEngine PROVE SocketInv'
      OBVIOUS
    <3>1. \A d \in Clients : sockOf'[d] # NoSocket => sockOf'[d][1] = d
      BY <1>6, <1>9, <1>10 DEF EntryInv, SocketInv
    <3> QED
      BY <2>1, <3>1, <1>b DEF SocketInv
  <2>3. UNCHANGED toEngine => FlowInv'
    <3> SUFFICES ASSUME UNCHANGED toEngine, NEW d \in Clients
                 PROVE  \E e \in Nat : EngineHas(d, e)'
      BY <2>1 DEF FlowInv
    <3>1. PICK e \in Nat : EngineHas(d, e)
      BY DEF EntryInv, RequestInv, FlowInv
    <3>2. EngineHas(d, e)'
      BY <3>1 DEF EngineHas
    <3> QED
      BY <3>2
  <2>4. PendingInv'
    BY <2>1, Kept
  <2>5. UNCHANGED clock => TimeInv'
    <3> SUFFICES ASSUME UNCHANGED clock PROVE TimeInv'
      OBVIOUS
    <3>1. \A t \in Sockets : \A k \in DOMAIN up'[t] : k \in DOMAIN up[t] /\ up'[t][k] = up[t][k]
      BY <1>9
    <3> QED
      BY <2>1, <3>1, ZenonT(60) DEF EntryInv, RequestInv, TimeInv
  <2> QED
    BY <2>1, <2>2, <2>3, <2>4, <2>5, <1>c, <1>2, <1>3, <1>9, Elements
<1>12. CASE HasRoom(Len(passed))
  <2>1. /\ pending' = pending \o requests /\ status' = status
        /\ Len(pending) + Len(requests) <= MaxPending
    BY <1>3, <1>8, <1>12 DEF HasRoom
  <2>2. pending \in Seq(Request) /\ requests \in Seq(Request)
    BY <1>8, Elements
  <2>3. /\ pending' \in Seq(Request) /\ Len(pending') = Len(pending) + Len(requests)
        /\ \A i \in DOMAIN pending' :
              \/ i \in DOMAIN pending /\ pending'[i] = pending[i]
              \/ /\ i - Len(pending) \in DOMAIN requests
                 /\ pending'[i] = requests[i - Len(pending)]
        /\ \A i \in DOMAIN pending : i \in DOMAIN pending' /\ pending'[i] = pending[i]
        /\ \A i \in DOMAIN requests :
              /\ i + Len(pending) \in DOMAIN pending'
              /\ pending'[i + Len(pending)] = requests[i]
    BY <2>1, <2>2, Joined
  <2>4. \A i \in DOMAIN requests : sockOf'[c] = <<requests[i].client, requests[i].conn>>
    BY <1>1, <1>8, <1>9 DEF c
  <2>5. UNCHANGED toEngine => SocketInv'
    <3> SUFFICES ASSUME UNCHANGED toEngine PROVE SocketInv'
      OBVIOUS
    <3>1. \A d \in Clients : sockOf'[d] # NoSocket => sockOf'[d][1] = d
      BY <1>6, <1>9, <1>10 DEF EntryInv, SocketInv
    <3>5. ASSUME NEW i \in DOMAIN pending'
          PROVE  sockOf'[pending'[i].client] = <<pending'[i].client, pending'[i].conn>>
      <4>1. CASE i \in DOMAIN pending /\ pending'[i] = pending[i]
        BY <4>1, <1>b
      <4>2. CASE /\ i - Len(pending) \in DOMAIN requests
                 /\ pending'[i] = requests[i - Len(pending)]
        BY <4>2, <2>4, <1>8
      <4> QED
        BY <4>1, <4>2, <2>3
    <3> QED
      BY <3>1, <3>5, <1>b DEF SocketInv
  <2>6. UNCHANGED toEngine => FlowInv'
    <3> SUFFICES ASSUME UNCHANGED toEngine, NEW d \in Clients
                 PROVE  \E e \in Nat : EngineHas(d, e)' /\ PendingFrom(d, e)'
      BY DEF FlowInv
    <3>1. PICK e \in Nat : EngineHas(d, e) /\ PendingFrom(d, e)
      BY DEF EntryInv, RequestInv, FlowInv
    <3>2. EngineHas(d, e)'
      BY <3>1 DEF EngineHas
    <3>3. /\ e < srvExp[d] /\ srvExp[d] \in Nat /\ srvExp'[d] \in Nat
          /\ srvExp[d] <= srvExp'[d]
          /\ \A i \in DOMAIN pending :
                pending[i].client = d => pending[i].n \in e + 1 .. srvExp[d] - 1
          /\ \A k \in e + 1 .. srvExp[d] - 1 : \E i \in DOMAIN pending :
                pending[i].client = d /\ pending[i].n = k
      <4>1. srvExp[d] \in Nat /\ srvExp'[d] \in Nat /\ srvExp[d] <= srvExp'[d]
        <5>1. CASE d = c
          BY <5>1, <1>9
        <5>2. CASE d # c
          <6>1. srvExp'[d] = srvExp[d] /\ srvExp[d] \in Nat
            BY <5>2, <1>2, <1>9
          <6> QED
            BY <6>1
        <5> QED
          BY <5>1, <5>2
      <4> QED
        BY <4>1, <3>1 DEF PendingFrom
    <3>4. ASSUME NEW i \in DOMAIN pending', pending'[i].client = d
          PROVE  pending'[i].n \in e + 1 .. srvExp'[d] - 1
      <4>1. CASE i \in DOMAIN pending /\ pending'[i] = pending[i]
        <5>1. pending[i].n \in e + 1 .. srvExp[d] - 1
          BY <4>1, <3>3, <3>4
        <5> QED
          BY <5>1, <4>1, <3>3
      <4>2. CASE /\ i - Len(pending) \in DOMAIN requests
                 /\ pending'[i] = requests[i - Len(pending)]
        <5> DEFINE j == i - Len(pending)
        <5>1. /\ j \in 1 .. Len(passed) /\ d = c
              /\ pending'[i].n = srvExp[c] + j - 1
          BY <4>2, <3>4, <1>8
        <5> HIDE DEF j
        <5> QED
          BY <5>1, <3>3, <1>9
      <4> QED
        BY <4>1, <4>2, <2>3
    <3>5. ASSUME NEW k \in e + 1 .. srvExp'[d] - 1
          PROVE  \E i \in DOMAIN pending' : pending'[i].client = d /\ pending'[i].n = k
      <4>1. CASE k \in e + 1 .. srvExp[d] - 1
        <5>1. PICK i \in DOMAIN pending : pending[i].client = d /\ pending[i].n = k
          BY <4>1, <3>3
        <5> QED
          BY <5>1, <2>3
      <4>2. CASE k \notin e + 1 .. srvExp[d] - 1
        <5> DEFINE j == k - srvExp[c] + 1
        <5>1. d = c
          BY <4>2, <1>9
        <5>2. k \in Nat /\ srvExp[c] <= k /\ k < srvExp[c] + Len(passed)
          BY <4>2, <5>1, <3>3, <1>9
        <5>3. j \in 1 .. Len(passed) /\ k = srvExp[c] + j - 1
          BY <5>2, <1>9
        <5>4. DOMAIN requests = 1 .. Len(passed)
          BY <1>8
        <5> HIDE DEF j
        <5>5. requests[j].client = c /\ requests[j].n = k /\ j \in DOMAIN requests
          BY <5>3, <5>4, <1>8
        <5> QED
          BY <5>1, <5>5, <2>3
      <4> QED
        BY <4>1, <4>2
    <3>6. e < srvExp'[d]
      BY <3>3
    <3> QED
      BY <3>2, <3>4, <3>5, <3>6 DEF PendingFrom
  <2>7. PendingInv'
    <3> SUFFICES ASSUME NEW i \in DOMAIN pending', NEW j \in DOMAIN pending', i < j,
                        pending'[i].client = pending'[j].client
                 PROVE  /\ pending'[i].n < pending'[j].n
                        /\ pending'[i].rx <= pending'[j].rx
      BY DEF PendingInv
    <3>1. CASE j \in DOMAIN pending
      <4>1. i \in DOMAIN pending
        BY <3>1, <2>2, <2>3
      <4> QED
        BY <4>1, <3>1, <2>3 DEF EntryInv, RequestInv, PendingInv
    <3>2. CASE j \notin DOMAIN pending
      <4>1. /\ j - Len(pending) \in DOMAIN requests
            /\ pending'[j] = requests[j - Len(pending)]
        BY <3>2, <2>3
      <4>2. /\ pending'[j].client = c
            /\ pending'[j].n = srvExp[c] + (j - Len(pending)) - 1
            /\ pending'[j].rx = time /\ bound = s
            /\ j - Len(pending) \in 1 .. Len(passed)
        BY <4>1, <1>8
      <4>3. CASE i \in DOMAIN pending
        <5>1. pending'[i] = pending[i] /\ pending[i].client = c
          BY <4>2, <4>3, <2>3
        <5>2. pending[i].n < srvExp[c] /\ pending[i].n \in Nat
          <6>1. PICK e \in Nat : PendingFrom(c, e)
            BY <1>1 DEF EntryInv, RequestInv, FlowInv, c
          <6>2. pending[i].n \in e + 1 .. srvExp[c] - 1
            BY <6>1, <5>1, <4>3 DEF PendingFrom
          <6> QED
            BY <6>2, <1>9, <4>3, Elements, SMTT(30)
        <5>3. s = <<pending[i].client, pending[i].conn>>
          <6>1. sockOf[c] = <<pending[i].client, pending[i].conn>>
            BY <5>1, <4>3 DEF EntryInv, SocketInv
          <6>2. sockOf[c] # NoSocket
            BY <6>1 DEF NoSocket
          <6> QED
            BY <6>1, <6>2, <1>7, <4>2
        <5>4. pending[i].rx <= time
          BY <5>3, <4>3, <1>5 DEF EntryInv, RequestInv, TimeInv
        <5>5. pending'[j].n \in Nat /\ srvExp[c] <= pending'[j].n
          BY <4>2, <1>9
        <5> QED
          BY <5>1, <5>2, <5>4, <5>5, <4>2, <1>9
      <4>4. CASE i \notin DOMAIN pending
        <5>1. /\ i - Len(pending) \in DOMAIN requests
              /\ pending'[i] = requests[i - Len(pending)]
          BY <4>4, <2>3
        <5>2. /\ pending'[i].n = srvExp[c] + (i - Len(pending)) - 1
              /\ pending'[i].rx = time
              /\ i - Len(pending) \in 1 .. Len(passed)
          BY <5>1, <1>8
        <5>3. i \in Nat /\ j \in Nat /\ Len(pending) \in Nat
          BY <2>2, <2>3
        <5>4. pending'[i].n < pending'[j].n
          BY <5>2, <5>3, <4>2, <1>9
        <5> QED
          BY <5>2, <5>4, <4>2, <1>5
      <4> QED
        BY <4>3, <4>4
    <3> QED
      BY <3>1, <3>2
  <2>8. UNCHANGED clock => TimeInv'
    <3> SUFFICES ASSUME UNCHANGED clock PROVE TimeInv'
      OBVIOUS
    <3>1. \A t \in Sockets : \A k \in DOMAIN up'[t] :
             t # s /\ k \in DOMAIN up[t] /\ up'[t][k] = up[t][k]
      BY <1>9
    <3>2. ASSUME NEW i \in DOMAIN pending'
          PROVE  /\ pending'[i].rx <= clock
                 /\ \A t \in Sockets : t = <<pending'[i].client, pending'[i].conn>> =>
                       \A k \in DOMAIN up'[t] : pending'[i].rx <= up'[t][k].time
      <4>1. CASE i \in DOMAIN pending /\ pending'[i] = pending[i]
        BY <4>1, <3>1 DEF EntryInv, RequestInv, TimeInv
      <4>2. CASE /\ i - Len(pending) \in DOMAIN requests
                 /\ pending'[i] = requests[i - Len(pending)]
        <5>1. /\ pending'[i].rx = time
              /\ <<pending'[i].client, pending'[i].conn>> = s
          BY <4>2, <1>1, <1>8 DEF c
        <5> QED
          BY <5>1, <3>1, <1>5
      <4> QED
        BY <4>1, <4>2, <2>3
    <3>3. \A t \in Sockets : \A k \in DOMAIN up'[t] : up'[t][k].time <= clock
      BY <3>1 DEF EntryInv, RequestInv, TimeInv
    <3> QED
      BY <3>2, <3>3 DEF TimeInv
  <2>9. Len(pending') <= MaxPending
    BY <2>1, <2>3
  <2> QED
    BY <2>1, <2>3, <2>5, <2>6, <2>7, <2>8, <2>9, <1>c, <1>3, <1>9
<1> QED
  BY <1>11, <1>12

LEMMA ServeSocketKeeps ==
    ASSUME EntryInv, ServeSocket
    PROVE  EntryInv'
<1> DEFINE s == Head(sweep)
<1>1. sweep \in Seq(Sockets) /\ sweep # <<>>
  BY DEF ServeSocket, EntryInv, EntryTypes, ServerTypes
<1>2. s \in Sockets /\ Tail(sweep) \in Seq(Sockets)
  BY <1>1
<1>3. PICK k \in 0 .. Len(srvBuf[s]) :
         down' = [down EXCEPT ![s] = @ \o SubSeq(srvBuf[s], 1, k)]
  BY DEF ServeSocket
<1>4. /\ status = "running" /\ sweep' = Tail(sweep)
      /\ srvBuf' = [srvBuf EXCEPT ![s] = <<>>]
      /\ IF up[s] # <<>> THEN RecvRequests(s)
         ELSE UNCHANGED <<received, up, sockOf, srvExp, pending, status>>
  BY DEF ServeSocket
<1>5. UNCHANGED <<gatewayVars, clock, waiting, accepted, srvOut, engineVars>>
  BY DEF ServeSocket
<1> HIDE DEF s
<1>6. srvBuf' \in [Sockets -> Seq(Msg)] /\ down' \in [Sockets -> Seq(Msg)]
  <2>1. srvBuf \in [Sockets -> Seq(Msg)] /\ down \in [Sockets -> Seq(Msg)]
    BY DEF EntryInv, EntryTypes, NetTypes, ServerTypes
  <2>2. SubSeq(srvBuf[s], 1, k) \in Seq(Msg)
    BY <2>1, <1>2, Taken
  <2>3. down[s] \o SubSeq(srvBuf[s], 1, k) \in Seq(Msg)
    BY <2>1, <2>2, <1>2, Joined
  <2>4. <<>> \in Seq(Msg)
    OBVIOUS
  <2> QED
    BY <2>1, <2>3, <2>4, <1>2, <1>3, <1>4
<1>7. /\ up' \in [Sockets -> Seq(TimedMsg)]
      /\ sockOf' \in [Clients -> Sockets \cup {NoSocket}]
      /\ srvExp' \in [Clients -> Nat]
      /\ pending' \in Seq(Request) /\ Len(pending') <= MaxPending
      /\ status' \in {"running", "too_many_requests", "no_socket"}
      /\ SocketInv' /\ AnswerInv' /\ FlowInv' /\ PendingInv' /\ TimeInv'
  <2>0. /\ UNCHANGED <<toEngine, bookVars, respQueue>> /\ UNCHANGED toEngine
        /\ UNCHANGED bookVars /\ UNCHANGED respQueue /\ UNCHANGED clock
    BY <1>5 DEF engineVars
  <2>1. CASE up[s] # <<>>
    <3>1. RecvRequests(s)
      BY <1>4, <2>1
    <3>2. up \in [Sockets -> Seq(TimedMsg)]
      BY DEF EntryInv, EntryTypes, NetTypes
    <3>3. up' = [up EXCEPT ![s] = <<>>]
      BY <3>1, <2>1, <1>2, <1>4, RecvRequestsKeeps
    <3>4. up' \in [Sockets -> Seq(TimedMsg)]
      <4>1. <<>> \in Seq(TimedMsg)
        OBVIOUS
      <4> QED
        BY <4>1, <3>2, <3>3
    <3> QED
      BY <3>1, <3>4, <2>0, <2>1, <1>2, <1>4, RecvRequestsKeeps
  <2>2. CASE up[s] = <<>>
    <3>1. UNCHANGED <<up, sockOf, srvExp, pending, status>>
      BY <1>4, <2>2
    <3>2. SocketInv' /\ AnswerInv' /\ FlowInv' /\ PendingInv' /\ TimeInv'
      BY <3>1, <2>0, Kept
    <3> QED
      BY <3>1, <3>2 DEF EntryInv, EntryTypes, NetTypes, ServerTypes
  <2> QED
    BY <2>1, <2>2
<1>8. NetTypes' /\ ServerTypes'
  <2>1. clock' \in Nat /\ waiting' \in Seq(Sockets) /\ accepted' \in Seq(Sockets)
        /\ srvOut' \in [Clients -> Nat]
    BY <1>5 DEF EntryInv, EntryTypes, NetTypes, ServerTypes
  <2> QED
    BY <2>1, <1>2, <1>4, <1>6, <1>7 DEF NetTypes, ServerTypes
<1> QED
  BY <1>5, <1>7, <1>8, Kept DEF gatewayVars, engineVars, EntryInv, EntryTypes,
     RequestInv


\* Sorting by time keeps the order of a client's requests, unless there are too
\* many of them.
LEMMA SortedOrderKept ==
    ASSUME EntryInv, NEW f \in SortedOrders
    PROVE  /\ f \in [DOMAIN pending -> DOMAIN pending]
           /\ \A i, j \in DOMAIN pending : f[i] = f[j] => i = j
           /\ \A k \in DOMAIN pending : \E i \in DOMAIN pending : f[i] = k
           /\ Len(pending) <= StableSize =>
                 \A i, j \in DOMAIN pending :
                     /\ i < j
                     /\ pending[f[i]].client = pending[f[j]].client
                     => pending[f[i]].n < pending[f[j]].n
<1>1. f \in Bijection(DOMAIN pending, DOMAIN pending)
  BY DEF SortedOrders
<1>2. /\ f \in [DOMAIN pending -> DOMAIN pending]
      /\ \A i, j \in DOMAIN pending : f[i] = f[j] => i = j
      /\ \A k \in DOMAIN pending : \E i \in DOMAIN pending : f[i] = k
  BY <1>1 DEF Bijection, Injection, Surjection, IsInjective
<1>3. ASSUME Len(pending) <= StableSize,
             NEW i \in DOMAIN pending, NEW j \in DOMAIN pending, i < j,
             pending[f[i]].client = pending[f[j]].client
      PROVE  pending[f[i]].n < pending[f[j]].n
  <2>1. ~(Len(pending) > StableSize)
    BY <1>3, Bounds, Elements
  <2>2. \/ pending[f[i]].rx < pending[f[j]].rx
        \/ pending[f[i]].rx = pending[f[j]].rx /\ f[i] < f[j]
    <3>1. \A a, b \in DOMAIN pending : a < b =>
             \/ pending[f[a]].rx < pending[f[b]].rx
             \/ /\ pending[f[a]].rx = pending[f[b]].rx
                /\ Len(pending) > StableSize \/ f[a] < f[b]
      BY DEF SortedOrders
    <3>2. \/ pending[f[i]].rx < pending[f[j]].rx
          \/ /\ pending[f[i]].rx = pending[f[j]].rx
             /\ Len(pending) > StableSize \/ f[i] < f[j]
      BY <1>3, <3>1
    <3> QED
      BY <3>2, <2>1
  <2>3. /\ f[i] \in DOMAIN pending /\ f[j] \in DOMAIN pending
        /\ f[i] \in Nat /\ f[j] \in Nat
        /\ pending[f[i]].rx \in Nat /\ pending[f[j]].rx \in Nat
    <3>1. f[i] \in DOMAIN pending /\ f[j] \in DOMAIN pending
      BY <1>2
    <3>2. \A k \in DOMAIN pending : k \in Nat
      BY Elements
    <3> QED
      BY <3>1, <3>2, Elements
  <2>4. f[i] # f[j]
    <3>1. i # j
      BY <1>3, Elements
    <3> QED
      BY <3>1, <1>2
  <2>5. CASE f[i] < f[j]
    BY <2>3, <2>5, <1>3 DEF EntryInv, RequestInv, PendingInv
  <2>6. CASE f[j] < f[i]
    <3>1. pending[f[j]].rx <= pending[f[i]].rx
      BY <2>3, <2>6, <1>3 DEF EntryInv, RequestInv, PendingInv
    <3> QED
      BY <3>1, <2>2, <2>3, <2>6
  <2> QED
    BY <2>3, <2>4, <2>5, <2>6
<1> QED
  BY <1>2, <1>3

LEMMA SequenceAndPublishKeeps ==
    ASSUME EntryInv, SequenceAndPublish
    PROVE  EntryInv'
<1>1. /\ status = "running"
      /\ crowded' = (crowded \/ Len(pending) > StableSize)
      /\ UNCHANGED <<gatewayVars, netVars, waiting, accepted, sweep, sockOf,
                     srvExp, srvOut, srvBuf, status, bookVars, told, respQueue>>
      /\ UNCHANGED <<answered, matching, resting, fillOf>>
  BY DEF SequenceAndPublish, bookVars
<1>2. crowded \in BOOLEAN /\ crowded' \in BOOLEAN
  BY <1>1 DEF EntryInv, EntryTypes, EngineTypes
<1>3. CASE ~received
  <2>1. UNCHANGED <<pending, toEngine>>
    BY <1>3 DEF SequenceAndPublish
  <2>2. EngineTypes'
    BY <1>1, <1>2, <2>1 DEF EntryInv, EntryTypes, EngineTypes
  <2>3. OrderInv'
    <3>1. ~crowded' => ~crowded
      BY <1>1, <1>2
    <3> QED
      BY <3>1, <2>1 DEF EntryInv, RequestInv, OrderInv
  <2> QED
    BY <1>1, <2>1, <2>2, <2>3, Kept
       DEF gatewayVars, netVars, EntryInv, EntryTypes, RequestInv
<1>4. CASE received
  <2> DEFINE Sorted(f) == [i \in DOMAIN f |->
                              [client |-> pending[f[i]].client,
                               conn |-> pending[f[i]].conn, n |-> pending[f[i]].n]]
  <2>1. PICK f \in SortedOrders : toEngine' = toEngine \o Sorted(f)
    BY <1>4 DEF SequenceAndPublish
  <2>2. pending' = <<>>
    BY <1>4 DEF SequenceAndPublish
  <2> DEFINE new == Sorted(f)
             old == Len(toEngine)
  <2>3. /\ f \in [DOMAIN pending -> DOMAIN pending]
        /\ \A i, j \in DOMAIN pending : f[i] = f[j] => i = j
        /\ \A k \in DOMAIN pending : \E i \in DOMAIN pending : f[i] = k
    BY SortedOrderKept
  <2>4. /\ new \in Seq(Published) /\ DOMAIN new = DOMAIN pending
        /\ \A i \in DOMAIN pending :
              /\ new[i].client = pending[f[i]].client
              /\ new[i].conn = pending[f[i]].conn /\ new[i].n = pending[f[i]].n
    <3>1. DOMAIN f = DOMAIN pending
      BY <2>3
    <3>2. \A i \in DOMAIN pending :
             [client |-> pending[f[i]].client, conn |-> pending[f[i]].conn,
              n |-> pending[f[i]].n] \in Published
      BY <2>3, Elements DEF Published
    <3>3. DOMAIN pending = 1 .. Len(pending) /\ Len(pending) \in Nat
      BY Elements
    <3>4. new \in [1 .. Len(pending) -> Published]
      BY <3>1, <3>2, <3>3
    <3>5. new \in Seq(Published)
      <4> HIDE DEF new
      <4> QED
        BY <3>3, <3>4
    <3> QED
      BY <3>1, <3>5
  <2>5. toEngine' = toEngine \o new
    BY <2>1
  <2> HIDE DEF new
  <2>6. /\ toEngine' \in Seq(Published) /\ Len(toEngine') = old + Len(new)
        /\ \A i \in DOMAIN toEngine' :
              \/ i \in DOMAIN toEngine /\ toEngine'[i] = toEngine[i]
              \/ i - old \in DOMAIN pending /\ toEngine'[i] = new[i - old]
        /\ \A i \in DOMAIN toEngine : i \in DOMAIN toEngine' /\ toEngine'[i] = toEngine[i]
        /\ \A i \in DOMAIN pending :
              i + old \in DOMAIN toEngine' /\ toEngine'[i + old] = new[i]
    BY <2>4, <2>5, Elements, Joined, SMTT(30)
  <2>7. /\ old \in Nat /\ DOMAIN toEngine = 1 .. old
        /\ \A i \in DOMAIN toEngine' : i \in Nat
        /\ \A i \in DOMAIN pending : i \in Nat \ {0}
    BY <2>6, Elements
  <2> HIDE DEF old
  <2>8. EngineTypes'
    BY <1>1, <1>2, <2>6 DEF EntryInv, EntryTypes, EngineTypes
  <2>a. AnswerInv'
    <3>1. Len(toEngine') >= Len(toEngine) /\ Len(toEngine) \in Nat /\ Len(toEngine') \in Nat
      BY <2>4, <2>6, Elements DEF old
    <3>2. answered \in Nat
      BY DEF EntryInv, EntryTypes, EngineTypes
    <3> QED
      BY <3>1, <3>2, <1>1 DEF EntryInv, AnswerInv
  <2>9. ServerTypes'
    <3>1. pending' \in Seq(Request) /\ Len(pending') <= MaxPending
      BY <2>2, Bounds
    <3> QED
      BY <3>1, <1>1 DEF EntryInv, EntryTypes, ServerTypes
  <2>10. SocketInv'
    <3>1. ASSUME NEW i \in DOMAIN toEngine'
          PROVE  sockOf[toEngine'[i].client] = <<toEngine'[i].client, toEngine'[i].conn>>
      <4>1. CASE i \in DOMAIN toEngine /\ toEngine'[i] = toEngine[i]
        BY <4>1 DEF EntryInv, SocketInv
      <4>2. CASE i - old \in DOMAIN pending /\ toEngine'[i] = new[i - old]
        <5>1. PICK k \in DOMAIN pending :
                 /\ toEngine'[i].client = pending[k].client
                 /\ toEngine'[i].conn = pending[k].conn
          BY <4>2, <2>3, <2>4
        <5> QED
          BY <5>1 DEF EntryInv, SocketInv
      <4> QED
        BY <4>1, <4>2, <2>6
    <3> QED
      BY <3>1, <2>2, <1>1 DEF EntryInv, SocketInv
  <2>11. ASSUME NEW d \in Clients
         PROVE  \E e \in Nat : EngineHas(d, e) /\ PendingFrom(d, e)
    BY <1>1 DEF EntryInv, RequestInv, FlowInv
  <2>12. FlowInv'
    <3> SUFFICES ASSUME NEW d \in Clients
                 PROVE  \E e \in Nat : EngineHas(d, e)' /\ PendingFrom(d, e)'
      BY DEF FlowInv
    <3>1. PICK e \in Nat : EngineHas(d, e) /\ PendingFrom(d, e)
      BY <2>11
    <3>2. srvExp[d] \in Nat /\ srvExp' = srvExp /\ e < srvExp[d]
      BY <3>1, <1>1 DEF EntryInv, EntryTypes, ServerTypes, PendingFrom
    <3>a. PICK all \in Nat : all = srvExp[d] - 1
      BY <3>2
    <3>3. e <= all /\ all < srvExp[d]
      BY <3>2, <3>a
    <3>4. /\ \A i \in DOMAIN toEngine : toEngine[i].client = d => toEngine[i].n \in 1 .. e
          /\ \A k \in 1 .. e : \E i \in DOMAIN toEngine :
                toEngine[i].client = d /\ toEngine[i].n = k
          /\ \A i, j \in DOMAIN toEngine :
                /\ toEngine[i].client = d /\ toEngine[j].client = d
                /\ toEngine[i].n = toEngine[j].n
                => i = j
          /\ \A i \in DOMAIN pending :
                pending[i].client = d => pending[i].n \in e + 1 .. all
          /\ \A k \in e + 1 .. all : \E i \in DOMAIN pending :
                pending[i].client = d /\ pending[i].n = k
      BY <3>1, <3>a DEF EngineHas, PendingFrom
    <3>5. ASSUME NEW i \in DOMAIN pending
          PROVE  new[i].client = d => new[i].n \in e + 1 .. all
      <4>1. f[i] \in DOMAIN pending
        BY <2>3
      <4> QED
        BY <4>1, <3>4, <2>4
    <3>6. ASSUME NEW i \in DOMAIN toEngine', toEngine'[i].client = d
          PROVE  toEngine'[i].n \in 1 .. all
      BY <3>3, <3>4, <3>5, <3>6, <2>6
    <3>7. ASSUME NEW k \in 1 .. all
          PROVE  \E i \in DOMAIN toEngine' : toEngine'[i].client = d /\ toEngine'[i].n = k
      <4>1. CASE k <= e
        <5>1. PICK i \in DOMAIN toEngine : toEngine[i].client = d /\ toEngine[i].n = k
          BY <4>1, <3>3, <3>4
        <5> QED
          BY <5>1, <2>6
      <4>2. CASE ~(k <= e)
        <5>1. k \in e + 1 .. all
          BY <4>2, <3>3
        <5>2. PICK p \in DOMAIN pending : pending[p].client = d /\ pending[p].n = k
          BY <5>1, <3>4
        <5>3. PICK i \in DOMAIN pending : f[i] = p
          BY <2>3
        <5>4. new[i].client = d /\ new[i].n = k
          BY <5>2, <5>3, <2>4
        <5> QED
          BY <5>4, <2>6
      <4> QED
        BY <4>1, <4>2
    <3>8. ASSUME NEW i \in DOMAIN pending, NEW j \in DOMAIN pending,
                 new[i].client = d, new[j].client = d, new[i].n = new[j].n
          PROVE  i = j
      <4>1. /\ f[i] \in DOMAIN pending /\ f[j] \in DOMAIN pending
            /\ pending[f[i]].client = pending[f[j]].client
            /\ pending[f[i]].n = pending[f[j]].n
            /\ pending[f[i]].n \in Nat
            /\ f[i] \in Nat /\ f[j] \in Nat
        BY <3>8, <2>3, <2>4, <2>7, Elements
      <4>2. ~(f[i] < f[j]) /\ ~(f[j] < f[i])
        BY <4>1 DEF EntryInv, RequestInv, PendingInv
      <4>3. f[i] = f[j]
        BY <4>1, <4>2
      <4> QED
        BY <4>3, <2>3
    <3>9. ASSUME NEW i \in DOMAIN toEngine', NEW j \in DOMAIN toEngine',
                 toEngine'[i].client = d, toEngine'[j].client = d,
                 toEngine'[i].n = toEngine'[j].n
          PROVE  i = j
      <4>1. CASE i \in DOMAIN toEngine /\ toEngine'[i] = toEngine[i]
        <5>1. toEngine'[i].n \in 1 .. e
          BY <4>1, <3>4, <3>9
        <5>2. CASE j \in DOMAIN toEngine /\ toEngine'[j] = toEngine[j]
          BY <4>1, <5>2, <3>4, <3>9
        <5>3. CASE j - old \in DOMAIN pending /\ toEngine'[j] = new[j - old]
          <6>1. toEngine'[j].n \in e + 1 .. all
            BY <5>3, <3>5, <3>9
          <6> QED
            BY <5>1, <6>1, <3>3, <3>9
        <5> QED
          BY <5>2, <5>3, <2>6
      <4>2. CASE i - old \in DOMAIN pending /\ toEngine'[i] = new[i - old]
        <5>1. toEngine'[i].n \in e + 1 .. all
          BY <4>2, <3>5, <3>9
        <5>2. CASE j \in DOMAIN toEngine /\ toEngine'[j] = toEngine[j]
          <6>1. toEngine'[j].n \in 1 .. e
            BY <5>2, <3>4, <3>9
          <6> QED
            BY <5>1, <6>1, <3>3, <3>9
        <5>3. CASE j - old \in DOMAIN pending /\ toEngine'[j] = new[j - old]
          <6>1. i - old = j - old
            BY <4>2, <5>3, <3>8, <3>9
          <6> QED
            BY <6>1, <2>7
        <5> QED
          BY <5>2, <5>3, <2>6
      <4> QED
        BY <4>1, <4>2, <2>6
    <3>10. EngineHas(d, all)'
      BY <3>6, <3>7, <3>9 DEF EngineHas
    <3>11. PendingFrom(d, all)'
      <4>1. \A k \in all + 1 .. srvExp[d] - 1 : FALSE
        BY <3>2, <3>a
      <4>2. DOMAIN pending' = {}
        BY <2>2
      <4> QED
        BY <4>1, <4>2, <3>2, <3>3 DEF PendingFrom
    <3> QED
      BY <3>3, <3>10, <3>11
  <2>13. PendingInv' /\ (up' = up /\ clock' = clock => TimeInv')
    BY <2>2 DEF PendingInv, EntryInv, RequestInv, TimeInv
  <2>14. OrderInv'
    <3> SUFFICES ASSUME ~crowded', NEW i \in DOMAIN toEngine',
                        NEW j \in DOMAIN toEngine', i < j,
                        toEngine'[i].client = toEngine'[j].client
                 PROVE  toEngine'[i].n < toEngine'[j].n
      BY DEF OrderInv
    <3>1. ~crowded /\ Len(pending) <= StableSize
      <4>1. ~crowded /\ ~(Len(pending) > StableSize)
        BY <1>1, Zenon
      <4>2. Len(pending) \in Nat
        BY Elements
      <4> QED
        BY <4>1, <4>2, Bounds
    <3>2. CASE j \in DOMAIN toEngine /\ toEngine'[j] = toEngine[j]
      <4>1. i \in DOMAIN toEngine /\ toEngine'[i] = toEngine[i]
        BY <3>2, <2>6, <2>7
      <4> QED
        BY <4>1, <3>1, <3>2 DEF EntryInv, RequestInv, OrderInv
    <3>3. CASE j - old \in DOMAIN pending /\ toEngine'[j] = new[j - old]
      <4>1. CASE i \in DOMAIN toEngine /\ toEngine'[i] = toEngine[i]
        <5> DEFINE d == toEngine[i].client
        <5>1. d \in Clients
          BY <4>1, Elements
        <5> HIDE DEF d
        <5>2. PICK e \in Nat : EngineHas(d, e) /\ PendingFrom(d, e)
          BY <5>1, <2>11
        <5>3. toEngine[i].n \in 1 .. e
          BY <4>1, <5>2 DEF EngineHas, d
        <5>4. f[j - old] \in DOMAIN pending /\ pending[f[j - old]].client = d
          BY <4>1, <3>3, <2>3, <2>4 DEF d
        <5>5. pending[f[j - old]].n \in e + 1 .. srvExp[d] - 1
          BY <5>2, <5>4 DEF PendingFrom
        <5>6. toEngine'[j].n = pending[f[j - old]].n
          BY <3>3, <2>4
        <5>7. pending[f[j - old]].n \in Nat /\ toEngine[i].n \in Nat
          BY <4>1, <5>4, Elements
        <5>8. srvExp[d] \in Nat
          BY <5>1 DEF EntryInv, EntryTypes, ServerTypes
        <5> QED
          BY <4>1, <5>3, <5>5, <5>6, <5>7, <5>8
      <4>2. CASE i - old \in DOMAIN pending /\ toEngine'[i] = new[i - old]
        <5>1. i - old < j - old
          BY <2>7
        <5>2. /\ pending[f[i - old]].client = pending[f[j - old]].client
              /\ toEngine'[i].n = pending[f[i - old]].n
              /\ toEngine'[j].n = pending[f[j - old]].n
          BY <4>2, <3>3, <2>4
        <5> QED
          BY <5>1, <5>2, <4>2, <3>1, <3>3, SortedOrderKept
      <4> QED
        BY <4>1, <4>2, <2>6
    <3> QED
      BY <3>2, <3>3, <2>6
  <2> QED
    BY <1>1, <2>8, <2>a, <2>9, <2>10, <2>12, <2>13, <2>14, Kept
       DEF gatewayVars, netVars, EntryInv, EntryTypes, RequestInv
<1> QED
  BY <1>3, <1>4

-----------------------------------------------------------------------------
(* The theorems. *)

LEMMA NextEntry == EntryInv /\ [Next]_vars => EntryInv'
<1> SUFFICES ASSUME EntryInv, [Next]_vars PROVE EntryInv'
  OBVIOUS
<1>1. CASE UNCHANGED vars
  BY <1>1, Kept
     DEF vars, gatewayVars, netVars, serverVars, engineVars, EntryInv,
         EntryTypes, RequestInv
<1>2. ASSUME NEW c \in Clients,
             Connect(c) \/ GatewayTake(c) \/ GatewaySend(c) \/ GatewayRecv(c)
      PROVE  EntryInv'
  BY <1>2, ConnectKeeps, GatewayTakeKeeps, GatewaySendKeeps, GatewayRecvKeeps
<1>3. CASE Tick \/ EngineStep
  BY <1>3, TickKeeps, EngineStepKeeps
<1>4. CASE ServerStep
  BY <1>4, PollKeeps, ServeSocketKeeps, SequenceAndPublishKeeps,
     SendResponseKeeps, EndRoundKeeps DEF ServerStep
<1> QED
  BY <1>1, <1>2, <1>3, <1>4 DEF Next

\* A client's requests are numbered 1 .. e without repetition, so that e is
\* their number.
LEMMA HowMany ==
    ASSUME EntryInv, NEW c \in Clients, NEW e \in Nat, EngineHas(c, e)
    PROVE  Cardinality({i \in DOMAIN toEngine : toEngine[i].client = c}) = e
<1> DEFINE mine == {i \in DOMAIN toEngine : toEngine[i].client = c}
           number == [i \in mine |-> toEngine[i].n]
<1>1. number \in Bijection(mine, 1 .. e)
  <2>1. number \in [mine -> 1 .. e]
    BY DEF EngineHas
  <2>2. \A i, j \in mine : number[i] = number[j] => i = j
    BY DEF EngineHas
  <2>3. \A k \in 1 .. e : \E i \in mine : number[i] = k
    BY DEF EngineHas
  <2> HIDE DEF mine, number
  <2> QED
    BY <2>1, <2>2, <2>3 DEF Bijection, Injection, Surjection, IsInjective
<1>2. IsFiniteSet(1 .. e) /\ Cardinality(1 .. e) = e
  BY FS_Interval
<1>3. ExistsBijection(mine, 1 .. e)
  BY <1>1 DEF ExistsBijection
<1> HIDE DEF mine
<1>4. IsFiniteSet(mine)
  <2>1. IsFiniteSet(DOMAIN toEngine)
    <3>1. DOMAIN toEngine = 1 .. Len(toEngine) /\ Len(toEngine) \in Nat
      BY Elements
    <3> QED
      BY <3>1, FS_Interval
  <2>2. mine \subseteq DOMAIN toEngine
    BY DEF mine
  <2> QED
    BY <2>1, <2>2, FS_Subset
<1>5. Cardinality(mine) = e
  BY <1>2, <1>3, <1>4, FS_Bijection
<1> QED
  BY <1>5 DEF mine

LEMMA EntryImplies ==
    ASSUME EntryInv
    PROVE  TypeOK /\ ResponsesInOrder /\ ClientOrderKept
<1>1. TypeOK
  BY DEF EntryInv, EntryTypes, ServerTypes, AnswerInv, TypeOK
<1>2. ResponsesInOrder
  BY DEF EntryInv, GotInv, ResponsesInOrder
<1>3. ASSUME NEW c \in Clients
      PROVE  LET mine == {i \in DOMAIN toEngine : toEngine[i].client = c}
             IN  /\ {toEngine[i].n : i \in mine} = 1 .. Cardinality(mine)
                 /\ \A i, j \in mine :
                       /\ toEngine[i].conn = toEngine[j].conn
                       /\ ~crowded /\ i < j => toEngine[i].n < toEngine[j].n
  <2> DEFINE mine == {i \in DOMAIN toEngine : toEngine[i].client = c}
  <2>1. PICK e \in Nat : EngineHas(c, e)
    BY DEF EntryInv, RequestInv, FlowInv
  <2>2. Cardinality(mine) = e
    BY <2>1, HowMany
  <2>3. {toEngine[i].n : i \in mine} = 1 .. e
    <3>1. \A i \in mine : toEngine[i].n \in 1 .. e
      BY <2>1 DEF EngineHas
    <3>2. \A k \in 1 .. e : \E i \in mine : toEngine[i].n = k
      BY <2>1 DEF EngineHas
    <3> HIDE DEF mine
    <3> QED
      BY <3>1, <3>2
  <2>4. \A i, j \in mine : toEngine[i].conn = toEngine[j].conn
    BY DEF EntryInv, SocketInv
  <2>5. \A i, j \in mine : ~crowded /\ i < j => toEngine[i].n < toEngine[j].n
    BY DEF EntryInv, RequestInv, OrderInv
  <2> HIDE DEF mine
  <2>6. /\ {toEngine[i].n : i \in mine} = 1 .. Cardinality(mine)
        /\ \A i, j \in mine :
              /\ toEngine[i].conn = toEngine[j].conn
              /\ ~crowded /\ i < j => toEngine[i].n < toEngine[j].n
    BY <2>2, <2>3, <2>4, <2>5
  <2> QED
    BY <2>6 DEF mine
<1>4. ClientOrderKept
  BY <1>3 DEF ClientOrderKept
<1> QED
  BY <1>1, <1>2, <1>4

\* The inductive invariant holds in every state of the order entry.
LEMMA EntryAlways == Spec => []EntryInv
<1>1. Init => EntryInv
  BY InitEntry
<1>2. EntryInv /\ [Next]_vars => EntryInv'
  BY NextEntry
<1> QED
  BY <1>1, <1>2, PTL DEF Spec

\* FIFOSequencer never holds more requests than fit; and of the responses only
\* an ACCEPTED, which MatchingEngineOrderBook::add addresses by the ticker's id,
\* may be for a client without a socket: fills and the answers of cancel never
\* are the cause of the assertion in OrderServer::run.
THEOREM EntryTypeOK == Spec => []TypeOK
<1>1. EntryInv => TypeOK
  BY EntryImplies
<1> QED
  BY <1>1, EntryAlways, PTL

\* The engine gets each client's requests once, without a gap, over one
\* connection and, while no more than StableSize were sorted together, in the
\* order in which OrderGateway numbered them: recvCallBack's check of the
\* number, sequenceAndPublish and the sort between them, whatever was cut off
\* by ::send and however often a client was started again.
THEOREM EntryOrderKept == Spec => []ClientOrderKept
<1>1. EntryInv => ClientOrderKept
  BY EntryImplies
<1> QED
  BY <1>1, EntryAlways, PTL

\* OrderGateway::recvCallback hands a process its client's responses as the
\* engine numbered them, from the first and without a gap.
THEOREM EntryResponses == Spec => []ResponsesInOrder
<1>1. EntryInv => ResponsesInOrder
  BY EntryImplies
<1> QED
  BY <1>1, EntryAlways, PTL

=============================================================================
