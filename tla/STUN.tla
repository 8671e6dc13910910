-------------------------------- MODULE STUN --------------------------------
(***************************************************************************)
(* The STUN server and client of HolePunchManager and the parser of their  *)
(* messages (src/network/HolePunchManager.cpp, src/network/STUNParser.cpp, *)
(* and the server's start and stop in src/network/NetworkInit.cpp).        *)
(*                                                                         *)
(* A message is a sequence of bytes: server, client and parser do not      *)
(* agree on what is where, which the model keeps.                          *)
(*                                                                         *)
(* What is abstracted: a transaction id is the number of its query,        *)
(* written sixteen times; time is counted in polls of the query socket,    *)
(* of which there is one per 50 ms at most; the packets for the server     *)
(* are those of a small set; the machine is little-endian.  No function    *)
(* of the program calls GetExternalAddress, RequestHolePunch or            *)
(* NetworkEnvironment::InitializeSTUNServer; they are called here by any   *)
(* thread at any time.                                                     *)
(***************************************************************************)
EXTENDS Integers, Sequences, FiniteSets, FiniteSetsExt

CONSTANTS
    Thread,        \* the threads that ask for the external address
    Client,        \* the addresses that send to the server: [ip |-> 4 bytes, port |-> number]
    Timeout,       \* the 5 s of a query, in polls
    MaxQueries,    \* bound on the queries
    MaxWaiting     \* the packets that a socket holds; more are lost

ASSUME STUNAssumption ==
    /\ Timeout \in Nat \ {0}
    /\ MaxQueries \in Nat
    /\ MaxWaiting \in Nat

VARIABLES
    g_stunInitialized, m_stunRunning,
    m_stunSocket,   \* IsValid()
    stunThread,     \* STUNServerLoop runs
    m_stunCache,    \* the cached address
    query,          \* query[t]: where thread t is
    arrived,        \* arrived[t]: the packets in its query socket
    queries,        \* the number of queries so far
    answers,        \* what the server has sent: <<client, message>>
    requests        \* the hole punch requests sent to a coordinator

stunVars == <<g_stunInitialized, m_stunRunning, m_stunSocket, stunThread, m_stunCache,
              query, arrived, queries, answers, requests>>

-----------------------------------------------------------------------------
(* Messages *)

MAGIC_COOKIE == <<33, 18, 164, 66>>   \* 0x2112A442
HEADER_SIZE == 20
PT_STUN_BINDING_REQUEST == 100
PT_STUN_BINDING_RESPONSE == 101
XOR_MAPPED_ADDRESS_TYPE == <<128, 39>>

Tid(k) == [i \in 1..16 |-> k]

Zeros(n) == [i \in 1..n |-> 0]

\* Two bytes as a number, in network and in host order.
U16(m, i) == m[i] * 256 + m[i + 1]
Host16(m, i) == m[i] + 256 * m[i + 1]

\* The request of the client: type, length, cookie, id, and 16 bytes too many.
BindingRequest(k) ==
    <<0, PT_STUN_BINDING_REQUEST, 0, 0>> \o MAGIC_COOKIE \o Tid(k) \o Zeros(16)

\* The request of RFC 5389, whose id has 12 bytes.
StandardRequest(k) == <<0, 1, 0, 0>> \o MAGIC_COOKIE \o SubSeq(Tid(k), 1, 12)

\* What the server takes for a request: a zero, and a one in host order.
IsBindingRequest(m) == Len(m) >= 20 /\ Host16(m, 1) = 0 /\ Host16(m, 3) = 1

XorByte(a, b) ==
    MapThenSumSet(LAMBDA i : 2^i * (((a \div 2^i) + (b \div 2^i)) % 2), 0..7)

XORPort(port) ==
    <<XorByte(port \div 256, MAGIC_COOKIE[1]), XorByte(port % 256, MAGIC_COOKIE[2])>>

\* The address is in network order and the cookie in host order.
XORAddress(ip) == [i \in 1..4 |-> XorByte(ip[i], MAGIC_COOKIE[5 - i])]

\* The attribute has no length, and the family is in host order; the id is one
\* that the server draws.
BuildBindingResponse(client, tid) ==
    <<0, PT_STUN_BINDING_RESPONSE, 0, 8>> \o tid \o XOR_MAPPED_ADDRESS_TYPE \o <<1, 0>>
      \o XORPort(client.port) \o XORAddress(client.ip)

\* The response of RFC 5389, and the best that a server could answer for the
\* client's sake.
StandardResponse(k) ==
    <<1, 1, 0, 12>> \o MAGIC_COOKIE \o SubSeq(Tid(k), 1, 12)
      \o <<0, 32, 0, 8, 0, 1, 0, 0, 9, 9, 9, 9>>
CookieFirstResponse(k) ==
    MAGIC_COOKIE \o Tid(k) \o XOR_MAPPED_ADDRESS_TYPE \o <<0, 10, 0, 1, 0, 0, 0, 0, 9, 9, 9, 9>>

-----------------------------------------------------------------------------
(* STUNParser *)

NotDiscovered == [ip |-> <<0, 0, 0, 0>>, port |-> 0, discovered |-> FALSE]

\* The cookie is looked for in the bytes 0 to 3, and the type in 2 and 3.
IsValidBindingResponse(m) ==
    /\ Len(m) >= HEADER_SIZE
    /\ SubSeq(m, 1, 4) = MAGIC_COOKIE
    /\ U16(m, 3) = PT_STUN_BINDING_RESPONSE

\* ParseAttribute: an attribute starts at byte i, and is whole.
IsAttribute(m, i) == i + 3 =< Len(m) /\ i + 3 + U16(m, i + 2) =< Len(m)

\* The first attribute with the right type and 8 bytes counts; of one that is
\* for IPv4, the port is in the bytes 4 and 5, and the address in 6 to 9, which
\* may be past its end.
ParseMappedAddress(m) ==
    LET byte(i) == IF i =< Len(m) THEN m[i] ELSE 0
        at[i \in Nat] ==
            IF ~IsAttribute(m, i) THEN NotDiscovered
            ELSE LET length == U16(m, i + 2)
                     value == i + 4
                 IN  IF SubSeq(m, i, i + 1) = XOR_MAPPED_ADDRESS_TYPE /\ length >= 8
                     THEN IF U16(m, value) # 1 THEN NotDiscovered
                          ELSE [port |-> XorByte(byte(value + 4), MAGIC_COOKIE[1]) * 256
                                          + XorByte(byte(value + 5), MAGIC_COOKIE[2]),
                                ip |-> XORAddress([j \in 1..4 |-> byte(value + 5 + j)]),
                                discovered |-> TRUE]
                     ELSE at[value + length]
    IN  at[HEADER_SIZE + 1]

-----------------------------------------------------------------------------

IdleQuery == [pc |-> "idle", tid |-> 0, elapsed |-> 0, purpose |-> "cache"]

AnswersTo(k) == {StandardResponse(k), CookieFirstResponse(k)}

Messages == UNION {AnswersTo(k) : k \in 1..MaxQueries}

STUNTypeOK ==
    /\ g_stunInitialized \in BOOLEAN /\ m_stunRunning \in BOOLEAN
    /\ m_stunSocket \in BOOLEAN /\ stunThread \in BOOLEAN
    /\ m_stunCache \in [ip : Seq(0..255), port : Nat, discovered : BOOLEAN]
    /\ query \in [Thread -> [pc : {"idle", "poll"}, tid : 0..MaxQueries,
                             elapsed : 0..Timeout, purpose : {"cache", "punch"}]]
    /\ arrived \in [Thread -> SUBSET Messages]
    /\ queries \in 0..MaxQueries
    /\ requests \subseteq Thread

STUNInit ==
    /\ g_stunInitialized = FALSE /\ m_stunRunning = FALSE
    /\ m_stunSocket = FALSE /\ stunThread = FALSE
    /\ m_stunCache = NotDiscovered
    /\ query = [t \in Thread |-> IdleQuery]
    /\ arrived = [t \in Thread |-> {}]
    /\ queries = 0
    /\ answers = {}
    /\ requests = {}

-----------------------------------------------------------------------------
(* The server *)

serverVars == <<g_stunInitialized, m_stunRunning, m_stunSocket, stunThread, answers>>
clientVars == <<m_stunCache, query, arrived, queries, requests>>

\* Nothing happens when the port is taken, or the server has been initialized.
InitializeSTUNServer ==
    /\ ~g_stunInitialized
    /\ g_stunInitialized' = TRUE /\ m_stunRunning' = TRUE
    /\ m_stunSocket' = TRUE /\ stunThread' = TRUE
    /\ UNCHANGED <<answers, clientVars>>

ServerPackets ==
    {BindingRequest(1), StandardRequest(1), <<0, 0, 1, 0>> \o Zeros(16), <<0, 0, 1, 0>>}

\* The loop looks at m_stunRunning, and answers a packet.
STUNServerLoop ==
    /\ stunThread
    /\ IF m_stunRunning
       THEN /\ \E c \in Client, m \in ServerPackets :
                  answers' = IF IsBindingRequest(m)
                             THEN answers \cup {<<c, BuildBindingResponse(c, Tid(200))>>}
                             ELSE answers
            /\ UNCHANGED stunThread
       ELSE stunThread' = FALSE /\ UNCHANGED answers
    /\ UNCHANGED <<g_stunInitialized, m_stunRunning, m_stunSocket, clientVars>>

\* ShutdownSTUNServer stops the thread, waits for it and closes the socket.
StopSTUNServer ==
    /\ g_stunInitialized /\ m_stunRunning
    /\ m_stunRunning' = FALSE
    /\ UNCHANGED <<g_stunInitialized, m_stunSocket, stunThread, answers, clientVars>>

JoinSTUNServer ==
    /\ g_stunInitialized /\ ~m_stunRunning /\ ~stunThread
    /\ m_stunSocket' = FALSE /\ g_stunInitialized' = FALSE
    /\ UNCHANGED <<m_stunRunning, stunThread, answers, clientVars>>

-----------------------------------------------------------------------------
(* The client *)

\* What the caller of QuerySTUNServer does with the address: GetExternalAddress
\* caches it, be it found or not, RequestHolePunch sends its request if it is.
Return(t, addr) ==
    /\ query' = [query EXCEPT ![t] = IdleQuery]
    /\ arrived' = [arrived EXCEPT ![t] = {}]
    /\ m_stunCache' = IF query[t].purpose = "cache" THEN addr ELSE m_stunCache
    /\ requests' = IF query[t].purpose = "punch" /\ addr.discovered
                   THEN requests \cup {t} ELSE requests

\* The request goes out by a socket of its own, if there is the server's; if
\* there is not, nothing changes: what would be cached is what was.
QuerySTUNServer(t, purpose) ==
    /\ query[t].pc = "idle" /\ queries < MaxQueries
    /\ m_stunSocket
    /\ queries' = queries + 1
    /\ query' = [query EXCEPT ![t] = [pc |-> "poll", tid |-> queries + 1, elapsed |-> 0,
                                      purpose |-> purpose]]
    /\ UNCHANGED <<m_stunCache, arrived, requests, serverVars>>

\* A cached address is returned if it was discovered.
GetExternalAddress(t) == ~m_stunCache.discovered /\ QuerySTUNServer(t, "cache")

AskCoordinator(t) == QuerySTUNServer(t, "punch")

\* Any server may answer to any query it has seen, late and more than once.
Answer(t) ==
    /\ query[t].pc = "poll"
    /\ Cardinality(arrived[t]) < MaxWaiting
    /\ \E k \in 1..queries : \E m \in AnswersTo(k) :
          arrived' = [arrived EXCEPT ![t] = @ \cup {m}]
    /\ UNCHANGED <<m_stunCache, query, queries, requests, serverVars>>

\* The packet is the answer that the client looks for.
Discovers(t, m) ==
    /\ SubSeq(m, 1, 4) = MAGIC_COOKIE
    /\ SubSeq(m, 5, 20) = Tid(query[t].tid)
    /\ IsValidBindingResponse(m)
    /\ ParseMappedAddress(m).discovered

\* Mutant: the next packet is taken at once, and the time is not looked at.
PollAgain(t) ==
    \/ \E m \in arrived[t] :
          IF Discovers(t, m) THEN Return(t, ParseMappedAddress(m))
          ELSE /\ arrived' = [arrived EXCEPT ![t] = @ \ {m}]
               /\ UNCHANGED <<m_stunCache, query, requests>>
    \/ /\ arrived[t] = {} /\ query[t].elapsed < Timeout
       /\ query' = [query EXCEPT ![t].elapsed = @ + 1]
       /\ UNCHANGED <<m_stunCache, arrived, requests>>
    \/ /\ arrived[t] = {} /\ query[t].elapsed = Timeout
       /\ Return(t, NotDiscovered)

\* A round of the loop: the time, one packet if there is any, and 50 ms of sleep.
Poll(t) ==
    \/ /\ query[t].elapsed = Timeout
       /\ Return(t, NotDiscovered)
    \/ /\ query[t].elapsed < Timeout
       /\ \E m \in arrived[t] :
             IF Discovers(t, m) THEN Return(t, ParseMappedAddress(m))
             ELSE /\ query' = [query EXCEPT ![t].elapsed = @ + 1]
                  /\ arrived' = [arrived EXCEPT ![t] = @ \ {m}]
                  /\ UNCHANGED <<m_stunCache, requests>>
    \/ /\ query[t].elapsed < Timeout /\ arrived[t] = {}
       /\ query' = [query EXCEPT ![t].elapsed = @ + 1]
       /\ UNCHANGED <<m_stunCache, arrived, requests>>

PollQuery(t) ==
    /\ query[t].pc = "poll"
    /\ Poll(t)
    /\ UNCHANGED <<queries, serverVars>>

STUNNext ==
    \/ InitializeSTUNServer \/ STUNServerLoop \/ StopSTUNServer \/ JoinSTUNServer
    \/ \E t \in Thread :
          GetExternalAddress(t) \/ AskCoordinator(t) \/ Answer(t) \/ PollQuery(t)

\* A thread that polls goes on.
STUNFairness == \A t \in Thread : WF_stunVars(PollQuery(t))

STUNSpec == STUNInit /\ [][STUNNext]_stunVars /\ STUNFairness

-----------------------------------------------------------------------------
(* Properties *)

\* A query returns whatever arrives at its socket, be it more than it can take
\* and the answers to other queries, and though the server is stopped meanwhile.
QueriesEnd == \A t \in Thread : query[t].pc = "poll" ~> query[t].pc = "idle"
=============================================================================
