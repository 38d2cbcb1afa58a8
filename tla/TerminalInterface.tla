------------------------- MODULE TerminalInterface -------------------------
(***************************************************************************)
(* core/app/TerminalInterface.cpp: the command terminal, with a thread for *)
(* the standard input, one that accepts telnet connections and one for     *)
(* each of them, and the main thread, which starts and stops it.           *)
(*                                                                         *)
(* A thread is "none" before it is made and "ended" when its function has  *)
(* returned; "loop" is the test of m_running.                              *)
(***************************************************************************)
EXTENDS FiniteSets

CONSTANTS
    Clients,    \* telnet connections
    Telnet      \* enable_telnet

VARIABLES
    running,    \* m_running
    socket,     \* m_telnet_socket: "none" for -1, or "listening"
    main,       \* the main thread: "before", "up", where it is in stop(), "stopped"
    stdio,      \* stdioThread
    server,     \* telnetServerThread
    peer,       \* the other end of each connection: "none", "queued", "there", "gone"
    client,     \* telnetClientThread of each connection
    threads,    \* m_client_threads
    commands    \* m_commands_mutex: the thread that has it, or "none"

termVars == <<running, socket, main, stdio, server, peer, client, threads, commands>>

TermInit ==
    /\ running = FALSE /\ socket = "none"
    /\ main = "before" /\ stdio = "none" /\ server = "none"
    /\ peer = [c \in Clients |-> "none"]
    /\ client = [c \in Clients |-> "none"]
    /\ threads = {} /\ commands = "none"

-----------------------------------------------------------------------------
(* The main thread: start, and stop line by line. *)

start ==
    /\ main = "before"
    /\ running' = TRUE /\ main' = "up"
    /\ stdio' = "loop"
    /\ server' = IF Telnet THEN "socket" ELSE "none"
    /\ UNCHANGED <<socket, peer, client, threads, commands>>

\* After an exit command there is nothing to stop, says m_running.
StopBegins ==
    /\ main = "up"
    /\ main' = IF running THEN "close" ELSE "returned"
    /\ running' = FALSE
    /\ UNCHANGED <<socket, stdio, server, peer, client, threads, commands>>

StopCloses ==
    /\ main = "close"
    /\ socket' = "none" /\ main' = "join_stdio"
    /\ UNCHANGED <<running, stdio, server, peer, client, threads, commands>>

JoinStdio ==
    /\ main = "join_stdio" /\ stdio = "ended" /\ main' = "join_server"
    /\ UNCHANGED <<running, socket, stdio, server, peer, client, threads, commands>>

\* A bug: the clients are joined while the server thread may still accept.
JoinServerLast ==
    /\ main = "join_server" /\ main' = "join_clients"
    /\ UNCHANGED <<running, socket, stdio, server, peer, client, threads, commands>>

JoinServer ==
    /\ main = "join_server" /\ server \in {"none", "ended"} /\ main' = "join_clients"
    /\ UNCHANGED <<running, socket, stdio, server, peer, client, threads, commands>>

JoinClients ==
    /\ main = "join_clients" /\ \A c \in threads : client[c] = "ended"
    /\ threads' = {} /\ main' = "stopped"
    /\ UNCHANGED <<running, socket, stdio, server, peer, client, commands>>

-----------------------------------------------------------------------------
(* processCommand, by a thread that has read a line. *)

mainVars == <<socket, main, threads>>

\* The handler runs under the mutex.  Help and list lock it again: their
\* thread waits for itself.
Handler(t, go) ==
    /\ commands = "none"
    /\ \/ commands' = "none" /\ running' = running /\ go
       \/ commands' = "none" /\ running' = FALSE /\ go
       \/ commands' = t /\ UNCHANGED <<running, stdio, client>>

\* getline waits for a line, or the end of the input.
StdioLoop ==
    /\ stdio = "loop"
    /\ stdio' = IF running THEN "read" ELSE "ended"
    /\ UNCHANGED <<running, mainVars, server, peer, client, commands>>

StdioReads ==
    /\ stdio = "read" /\ commands # "stdio"
    /\ \/ stdio' \in {"loop", "ended"} /\ UNCHANGED <<running, client, commands>>
       \/ Handler("stdio", stdio' = "loop" /\ UNCHANGED client)
    /\ UNCHANGED <<mainVars, server, peer>>

\* socket, bind and listen, any of which may fail.
ServerListens ==
    /\ server = "socket"
    /\ \/ socket' = "listening" /\ server' = "loop"
       \/ UNCHANGED socket /\ server' = "ended"
    /\ UNCHANGED <<running, main, stdio, peer, client, threads, commands>>

ServerLoop ==
    /\ server = "loop"
    /\ server' = IF running THEN "accept" ELSE "ended"
    /\ UNCHANGED <<running, mainVars, stdio, peer, client, commands>>

\* accept of a closed socket fails, and a signal interrupts it.  A thread that
\* is in it already is not woken by the close: it takes the next connection
\* all the same.
ServerAccepts ==
    /\ server = "accept" /\ server' = "loop"
    /\ \/ UNCHANGED <<peer, client, threads>>
       \/ \E c \in Clients :
             /\ peer[c] = "queued"
             /\ peer' = [peer EXCEPT ![c] = "there"]
             /\ client' = [client EXCEPT ![c] = "loop"]
             /\ threads' = threads \cup {c}
    /\ UNCHANGED <<running, socket, main, stdio, commands>>

ClientLoop(c) ==
    /\ client[c] = "loop"
    /\ client' = [client EXCEPT ![c] = IF running THEN "recv" ELSE "ended"]
    /\ UNCHANGED <<running, mainVars, stdio, server, peer, commands>>

\* recv: a line, something less or a signal; or the end of the connection.
ClientReceives(c) ==
    /\ client[c] = "recv" /\ commands # c
    /\ LET to(l) == client' = [client EXCEPT ![c] = l] /\ UNCHANGED stdio IN
       \/ UNCHANGED <<running, commands>> /\ to("loop")
       \/ peer[c] = "gone" /\ UNCHANGED <<running, commands>> /\ to("ended")
       \/ peer[c] = "there" /\ Handler(c, to("loop"))
    /\ UNCHANGED <<mainVars, server, peer>>

\* The other end connects, while the kernel still has the socket to queue it
\* on, and hangs up.
Connect(c) ==
    /\ peer[c] = "none" /\ server \in {"loop", "accept"}
    /\ socket = "listening" \/ server = "accept"
    /\ peer' = [peer EXCEPT ![c] = "queued"]
    /\ UNCHANGED <<running, mainVars, stdio, server, client, commands>>

HangUp(c) ==
    /\ peer[c] = "there" /\ peer' = [peer EXCEPT ![c] = "gone"]
    /\ UNCHANGED <<running, mainVars, stdio, server, client, commands>>

TermNext ==
    \/ start \/ StopBegins \/ StopCloses \/ JoinStdio \/ JoinServer \/ JoinClients
    \/ StdioLoop \/ StdioReads \/ ServerListens \/ ServerLoop \/ ServerAccepts
    \/ \E c \in Clients : ClientLoop(c) \/ ClientReceives(c) \/ Connect(c) \/ HangUp(c)

TermSpec == TermInit /\ [][TermNext]_termVars

-----------------------------------------------------------------------------
\* When stop has waited for the threads, none is left and none will come,
\* although accept outlives the close of its socket: no thread touches the
\* terminal after it is destroyed.
StopWaits ==
    main = "stopped" =>
        /\ stdio = "ended" /\ server \in {"none", "ended"}
        /\ \A c \in Clients : client[c] \in {"none", "ended"}

\* IApp.cpp:85: every thread is stopped before main returns.  Refuted: after an
\* exit command stop returns at once.
AllStopped ==
    main = "returned" => stdio = "ended" /\ server \in {"none", "ended"}
=============================================================================
