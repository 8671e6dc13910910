------------------------------- MODULE NodeLife -------------------------------
(***************************************************************************)
(* The life of a node's process: main starts the PeerManager, which binds  *)
(* its socket and starts the refresh thread of the DHT, a listener, a      *)
(* punch thread, a seed thread and, detached, the thread that connects to  *)
(* the seeds; it then serves the keyboard until x is pressed, stops the    *)
(* PeerManager, which joins three of the threads and closes the socket,    *)
(* and returns, which destroys the PeerManager and with it the DHT, whose  *)
(* thread is joined only then (src/main.cpp, PeerManager::Start, Stop and  *)
(* the heads of its loops, DHT::Start, Stop and RefreshLoop,               *)
(* src/network/UDPSocket.cpp, src/network/NetworkInit.cpp).                *)
(*                                                                         *)
(* What is abstracted: what the threads do is that they may send; a packet *)
(* is one that has arrived or not.  Sleeps have no length.  The sockets    *)
(* are those of Windows, for which main is written: receiving from an      *)
(* unbound socket fails at once, and sending binds it.                     *)
(***************************************************************************)
EXTENDS Integers

CONSTANTS
    HasSeeds    \* the configurations: whether seed nodes are configured

ASSUME NodeLifeAssumption == HasSeeds \subseteq BOOLEAN

VARIABLES
    main,       \* where main is
    input,      \* the command it has read, "" for none
    network,    \* WSAStartup and PacketSecurity::Initialize have been called
    m_running,
    m_socket,   \* "invalid", "blocking" or "nonblocking"
    bound,      \* to a port, by bind or by the first packet sent
    arrived,    \* whether a packet waits in the socket
    seeds,      \* m_seedNodes is not empty
    listener, punch, seed, connector,   \* the threads
    refresh,    \* the thread of the DHT
    dhtRunning  \* its m_running

threads == <<listener, punch, seed, connector, refresh>>
nodeVars == <<main, input, network, m_running, m_socket, bound, arrived, seeds, threads, dhtRunning>>

Typed == {"infer", "status", "/memory", "other"}

Joining == {"join_listener", "join_punch", "join_seed"}

NodeTypeOK ==
    /\ main \in {"boot", "start", "commands", "close", "shutdown", "return", "join_refresh",
                "destroyed", "exit"} \cup Joining
    /\ input \in Typed \cup {""}
    /\ network \in BOOLEAN /\ m_running \in BOOLEAN /\ bound \in BOOLEAN
    /\ arrived \in BOOLEAN /\ seeds \in BOOLEAN /\ dhtRunning \in BOOLEAN
    /\ m_socket \in {"invalid", "blocking", "nonblocking"}
    /\ listener \in {"none", "loop", "receive", "handle", "done"}
    /\ punch \in {"none", "loop", "work", "done"} /\ seed \in {"none", "loop", "work", "done"}
    /\ refresh \in {"none", "loop", "sleep", "done"}
    /\ connector \in {"none", "sleep", "register", "done"}

NodeInit ==
    /\ main = "boot" /\ input = "" /\ network = FALSE
    /\ m_running = FALSE /\ m_socket = "invalid" /\ bound = FALSE /\ arrived = FALSE
    /\ seeds \in HasSeeds
    /\ listener = "none" /\ punch = "none" /\ seed = "none" /\ connector = "none"
    /\ refresh = "none" /\ dhtRunning = FALSE

-----------------------------------------------------------------------------
(* main, until the keyboard is served *)

\* Without a network the program ends at once.
Boot ==
    /\ main = "boot"
    /\ \/ network' = TRUE /\ main' = "start"
       \/ UNCHANGED network /\ main' = "exit"
    /\ UNCHANGED <<input, m_running, m_socket, bound, arrived, seeds, threads, dhtRunning>>

\* DHT::Start
StartDHT == dhtRunning' = TRUE /\ refresh' = "loop"

\* Mutant: the socket of a super node blocks as well.
StartBlocking ==
    /\ m_running' = TRUE
    /\ \/ /\ m_socket' = "blocking" /\ bound' \in BOOLEAN
          /\ StartDHT
          /\ listener' = "loop" /\ punch' = "loop" /\ seed' = "loop" /\ connector' = "sleep"
       \/ UNCHANGED <<m_socket, bound, threads, dhtRunning>>

\* PeerManager::Start: without a valid identity or a socket no thread is started,
\* and m_running stays TRUE.  A super node could bind its port; a leaf could not.
StartThreads ==
    /\ m_running' = TRUE
    /\ \/ /\ \/ m_socket' = "nonblocking" /\ bound' = TRUE
             \/ m_socket' = "blocking" /\ UNCHANGED bound
          /\ StartDHT
          /\ listener' = "loop" /\ punch' = "loop" /\ seed' = "loop" /\ connector' = "sleep"
       \/ UNCHANGED <<m_socket, bound, threads, dhtRunning>>

StartPeerManager ==
    /\ main = "start"
    /\ main' = "commands"
    /\ StartThreads
    /\ UNCHANGED <<input, network, arrived, seeds>>

-----------------------------------------------------------------------------
(* The keyboard *)

OnlyMain == UNCHANGED <<network, m_socket, bound, arrived, seeds, threads, dhtRunning>>

\* A key is only looked at when no command is left over; any but x begins one.
ReadKey ==
    /\ main = "commands" /\ input = ""
    /\ \/ main' = "join_listener" /\ m_running' = FALSE /\ UNCHANGED input
       \/ input' \in Typed /\ UNCHANGED <<main, m_running>>
    /\ OnlyMain

\* infer asks for prompts until one is "cancel"; /memory is done again and again.
DoCommand ==
    /\ main = "commands" /\ input # ""
    /\ input' \in (CASE input = "infer" -> {"infer", ""}
                    [] input = "/memory" -> {"/memory"}
                    [] OTHER -> {""})
    /\ UNCHANGED <<main, m_running>>
    /\ OnlyMain

-----------------------------------------------------------------------------
(* PeerManager::Stop, and the end of main *)

Ended(thread) == thread \in {"none", "done"}

\* In this order, each only once the one before has ended.
Join ==
    \/ main = "join_listener" /\ Ended(listener) /\ main' = "join_punch"
    \/ main = "join_punch" /\ Ended(punch) /\ main' = "join_seed"
    \/ main = "join_seed" /\ Ended(seed) /\ main' = "close"

JoinThreads ==
    /\ Join
    /\ UNCHANGED <<input, network, m_running, m_socket, bound, arrived, seeds, threads, dhtRunning>>

CloseSocket ==
    /\ main = "close"
    /\ main' = "shutdown" /\ m_socket' = "invalid" /\ bound' = FALSE /\ arrived' = FALSE
    /\ UNCHANGED <<input, network, m_running, seeds, threads, dhtRunning>>

\* NetworkEnvironment::Shutdown; the STUN server has not been started.
ShutdownNetwork ==
    /\ main = "shutdown"
    /\ main' = "return" /\ network' = FALSE
    /\ UNCHANGED <<input, m_running, m_socket, bound, arrived, seeds, threads, dhtRunning>>

\* DHT::Stop, by its destructor
StopDHT ==
    \/ main = "return" /\ main' = "join_refresh" /\ dhtRunning' = FALSE
    \/ main = "join_refresh" /\ Ended(refresh) /\ main' = "destroyed" /\ UNCHANGED dhtRunning

\* The PeerManager is a variable of main, and m_dht one of its members.  Its
\* destructor finds nothing left to stop but the DHT.
Return ==
    /\ \/ StopDHT
       \/ main = "destroyed" /\ main' = "exit" /\ UNCHANGED dhtRunning
    /\ UNCHANGED <<input, network, m_running, m_socket, bound, arrived, seeds, threads>>

MainEnds == JoinThreads \/ CloseSocket \/ ShutdownNetwork \/ Return

-----------------------------------------------------------------------------
(* The threads; they go on until the process has ended *)

Alive == main # "exit"

\* UDPSocket::SendTo: a packet binds an unbound socket; none goes by a closed one.
SendTo == bound' = (bound \/ m_socket # "invalid")

\* recvfrom waits.
Blocked ==
    listener = "receive" /\ m_socket = "blocking" /\ bound /\ ~arrived

Listen ==
    /\ Alive
    /\ \/ /\ listener = "loop"
          /\ listener' = IF m_running THEN "receive" ELSE "done"
          /\ UNCHANGED <<arrived, bound>>
       \/ /\ listener = "receive" /\ ~Blocked
          /\ listener' = IF arrived THEN "handle" ELSE "loop"
          /\ arrived' = FALSE
          /\ UNCHANGED bound
       \/ /\ listener = "handle"
          /\ listener' = "loop"
          /\ SendTo \/ UNCHANGED bound
          /\ UNCHANGED arrived
    /\ UNCHANGED <<main, input, network, m_running, m_socket, seeds, punch, seed, connector, refresh, dhtRunning>>

\* PunchLoop and SeedRegistrationLoop look at m_running once a round.
Round(thread, sends) ==
    \/ thread = "loop" /\ m_running /\ thread' = "work" /\ UNCHANGED bound
    \/ thread = "loop" /\ ~m_running /\ thread' = "done" /\ UNCHANGED bound
    \/ thread = "work" /\ thread' = "loop" /\ (UNCHANGED bound \/ (sends /\ SendTo))

\* Punches are for peers heard of in packets.
PunchLoop ==
    /\ Alive /\ Round(punch, bound)
    /\ UNCHANGED <<main, input, network, m_running, m_socket, arrived, seeds, listener, seed, connector, refresh, dhtRunning>>

SeedLoop ==
    /\ Alive /\ Round(seed, seeds)
    /\ UNCHANGED <<main, input, network, m_running, m_socket, arrived, seeds, listener, punch, connector, refresh, dhtRunning>>

\* Detached, two seconds late, and without a look at m_running.
ConnectToSeeds ==
    /\ Alive
    /\ \/ connector = "sleep" /\ connector' = "register" /\ UNCHANGED bound
       \/ connector = "register" /\ connector' = "done" /\ IF seeds THEN SendTo ELSE UNCHANGED bound
    /\ UNCHANGED <<main, input, network, m_running, m_socket, arrived, seeds, listener, punch, seed, refresh, dhtRunning>>

\* DHT::RefreshLoop sleeps for half a second; what it does every 900 seconds is
\* to log the size of the table.
RefreshLoop ==
    /\ Alive
    /\ \/ refresh = "loop" /\ refresh' = (IF dhtRunning THEN "sleep" ELSE "done")
       \/ refresh = "sleep" /\ refresh' = "loop"
    /\ UNCHANGED <<main, input, network, m_running, m_socket, bound, arrived, seeds,
                   listener, punch, seed, connector, dhtRunning>>

\* Another node sends to the port.
Arrive ==
    /\ bound /\ arrived' = TRUE
    /\ UNCHANGED <<main, input, network, m_running, m_socket, bound, seeds, threads, dhtRunning>>

NodeNext ==
    \/ Boot \/ StartPeerManager \/ ReadKey \/ DoCommand \/ MainEnds
    \/ Listen \/ PunchLoop \/ SeedLoop \/ ConnectToSeeds \/ RefreshLoop \/ Arrive

\* Threads that can run do; nobody has to press a key or to send a packet.
NodeFairness ==
    /\ WF_nodeVars(MainEnds)
    /\ WF_nodeVars(Listen) /\ WF_nodeVars(PunchLoop) /\ WF_nodeVars(SeedLoop)
    /\ WF_nodeVars(RefreshLoop)

-----------------------------------------------------------------------------
(* Properties *)

\* When the socket is closed none of the threads that main joins is left, and
\* when the PeerManager is gone the thread of its DHT is not either, whatever
\* they were doing when x was pressed: only the detached one may have still to
\* wake up, and then uses a PeerManager that is no more (PeerManager.cpp:93).
OnlyConnectorOutlives ==
    /\ main \in {"close", "shutdown", "return", "join_refresh", "destroyed", "exit"} =>
          Ended(listener) /\ Ended(punch) /\ Ended(seed)
    /\ main = "destroyed" => Ended(refresh)

\* The only thing that can keep Stop waiting for ever is the listener of a leaf
\* that has sent a packet and is never sent one: a super node always stops, and
\* so does a node without seeds or without a socket.
OnlySilenceBlocks ==
    <>[](main \in Joining \cup {"close", "shutdown", "return", "join_refresh", "destroyed"}) => <>[](Blocked /\ seeds)

\* "Press x to stop" (main.cpp:90).
StopReturns == main = "join_listener" ~> main = "exit"
=============================================================================
