------------------------------ MODULE Sockets ------------------------------
(***************************************************************************)
(* The sockets of a service, each checked by itself: both ends of a TCP    *)
(* connection, the WebSocket listener and the KCP listener of connd.  side *)
(* is the one that runs; the others stay in their initial states.          *)
(***************************************************************************)
EXTENDS TcpConnection

CONSTANTS
    Fds, MaxConns, WsCalls, MaxOthers, Script,          \* those of WsListener
    Convs, MaxSessions, MaxMessages, KcpCalls, Replies  \* those of KcpListener

ASSUME WsAssumption ==
    /\ Fds \subseteq Nat /\ MaxConns \in Nat
    /\ \A c \in 1 .. MaxConns : Script[c] \in Seq(STRING)
ASSUME KcpAssumption == MaxSessions \in Nat

VARIABLES side,
          ws_owner, ws_polled, ws_ready, ws_arrived, ws_ended, ws_fdToConn, ws_ids,
          ws_nextId, ws_connFd, ws_fetched, ws_parsed, ws_handshaked, ws_got,
          ws_events, ws_pc, ws_conn, ws_fd, ws_connected, ws_closed, ws_mistaken,
          ws_calls, ws_others,
          kcp_running, kcp_convToSess, kcp_idToConv, kcp_nextId, kcp_mu, kcp_pc,
          kcp_at, kcp_messages, kcp_expired, kcp_udpFd, kcp_queue, kcp_answered,
          kcp_idle, kcp_connected, kcp_closed, kcp_calls

ws_vars == <<ws_owner, ws_polled, ws_ready, ws_arrived, ws_ended, ws_fdToConn,
             ws_ids, ws_nextId, ws_connFd, ws_fetched, ws_parsed, ws_handshaked,
             ws_got, ws_events, ws_pc, ws_conn, ws_fd, ws_connected, ws_closed,
             ws_mistaken, ws_calls, ws_others>>
kcp_vars == <<kcp_running, kcp_convToSess, kcp_idToConv, kcp_nextId, kcp_mu, kcp_pc,
              kcp_at, kcp_messages, kcp_expired, kcp_udpFd, kcp_queue, kcp_answered,
              kcp_idle, kcp_connected, kcp_closed, kcp_calls>>

Ws == INSTANCE WsListener
    WITH MaxCalls <- WsCalls,
         owner <- ws_owner, polled <- ws_polled, ready <- ws_ready,
         arrived <- ws_arrived, ended <- ws_ended, fdToConn <- ws_fdToConn,
         ids <- ws_ids, nextId <- ws_nextId, connFd <- ws_connFd, fetched <- ws_fetched,
         parsed <- ws_parsed, handshaked <- ws_handshaked, got <- ws_got,
         events <- ws_events, pc <- ws_pc, conn <- ws_conn, fd <- ws_fd,
         connected <- ws_connected, closed <- ws_closed, mistaken <- ws_mistaken,
         calls <- ws_calls, others <- ws_others

Kcp == INSTANCE KcpListener
    WITH MaxCalls <- KcpCalls,
         running <- kcp_running, convToSess <- kcp_convToSess, idToConv <- kcp_idToConv,
         nextId <- kcp_nextId, mu <- kcp_mu, pc <- kcp_pc, at <- kcp_at,
         messages <- kcp_messages, expired <- kcp_expired, udpFd <- kcp_udpFd,
         queue <- kcp_queue, answered <- kcp_answered, idle <- kcp_idle,
         connected <- kcp_connected, closed <- kcp_closed, calls <- kcp_calls

-----------------------------------------------------------------------------
SocketsInit == side \in {"tcp", "ws", "kcp"} /\ Init /\ Ws!Init /\ Kcp!Init

SocketsNext ==
    \/ side = "tcp" /\ Next /\ UNCHANGED <<side, ws_vars, kcp_vars>>
    \/ side = "ws" /\ Ws!Next /\ UNCHANGED <<side, vars, kcp_vars>>
    \/ side = "kcp" /\ Kcp!Next /\ UNCHANGED <<side, vars, ws_vars>>

\* The fairness of each part.  What is frozen has nothing enabled but the
\* update of KCP, which needs its guard.
KcpFairness ==
    /\ WF_kcp_vars(Kcp!ioLoop)
    /\ SF_kcp_vars(side = "kcp" /\ Kcp!ikcp_update)
    /\ SF_kcp_vars(Kcp!removeSession) /\ WF_kcp_vars(Kcp!UpdateAgain)
    /\ \A t \in Kcp!Threads : WF_kcp_vars(Kcp!Tell(t))
    /\ SF_kcp_vars(Kcp!StopJoined)

SocketsSpec ==
    /\ SocketsInit /\ [][SocketsNext]_<<side, vars, ws_vars, kcp_vars>>
    /\ Fairness /\ Ws!Fairness /\ KcpFairness

-----------------------------------------------------------------------------
\* WsListener.tla and KcpListener.tla: the tables of a listener lead to its own open
\* connections, every message is handled once and every end is told at most once.
Listed == Ws!TypeOK /\ Ws!MapsTrue /\ Ws!HandledOnce /\ Kcp!TypeOK /\ Kcp!ToldOnce

\* No message and no end is left waiting on an edge-triggered descriptor of the WebSocket
\* listener, idle KCP sessions end, and the KCP listener stops.
ListenersServe == Ws!Handled /\ Kcp!IdleEnds

\* Claims of IListener.h and KcpListener.h that do not hold.
OnTarget == Ws!OnTarget
Answers == Kcp!Answers
=============================================================================
