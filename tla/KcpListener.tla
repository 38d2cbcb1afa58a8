---------------------------- MODULE KcpListener ----------------------------
(***************************************************************************)
(* KcpListener.cpp: the sessions of clients that speak KCP over UDP.  The  *)
(* io thread takes datagrams and calls the handlers, the update thread     *)
(* drives KCP and drops idle sessions, other threads send and close, the   *)
(* main thread stops.  All but the close handlers runs under mu_.          *)
(*                                                                         *)
(* KCP itself is a library outside the source tree: ikcp_send puts a       *)
(* message into a queue, and only ikcp_update gives what is queued, the    *)
(* acknowledgements too, to the output callback.                           *)
(***************************************************************************)
EXTENDS Naturals, FiniteSets

CONSTANTS
    Convs,           \* conversation numbers, which the clients choose
    MaxSessions,     \* bounds: sessions, messages in a datagram, calls of
    MaxMessages,     \* other threads
    MaxCalls,
    Replies          \* whether a handler may answer or close on its own thread

Sessions == 1 .. MaxSessions
Threads == {"io", "update", "app", "main"}
None == 0

VARIABLES
    running,
    convToSess,      \* conv_to_sess_: the conn_id of the session, or None
    idToConv,        \* id_to_conv_: the conn_ids it knows
    nextId,          \* next_conn_id_
    mu,              \* who has mu_, or "none"
    pc,              \* each thread's step
    at,              \* the session whose end a thread has to tell
    messages,        \* io: complete messages of the datagram
    expired,         \* update: the convs to remove
    udpFd,           \* threads in which tl_udp_fd is set
    queue,           \* sessions with a message in the queue of their KCP
    answered,        \* sessions whose client was sent something
    idle,            \* sessions past IDLE_TIMEOUT_SEC
    connected,       \* sessions that conn_handler_ was called for
    closed,          \* how often close_handler_ was called for each
    calls

tables == <<convToSess, idToConv, nextId>>
locals == <<pc, at, messages, expired>>
kcp == <<udpFd, queue, answered>>
told == <<connected, closed>>
vars == <<running, tables, mu, locals, kcp, idle, told, calls>>

Init ==
    /\ running = TRUE
    /\ convToSess = [v \in Convs |-> None] /\ idToConv = {} /\ nextId = 1
    /\ mu = "none"
    /\ pc = [t \in Threads |-> "idle"] /\ at = [t \in Threads |-> None]
    /\ messages = 0 /\ expired = {}
    /\ udpFd = {"io"} /\ queue = {} /\ answered = {}
    /\ idle = {} /\ connected = {} /\ closed = [c \in Sessions |-> 0]
    /\ calls = 0

Go(t, from, to) == pc[t] = from /\ pc' = [pc EXCEPT ![t] = to]
Alive == {c \in Sessions : \E v \in Convs : convToSess[v] = c}

-----------------------------------------------------------------------------
(* io: processUdpPacket and dispatchKcpData.                                *)

\* A datagram of conversation v, which completes n messages.  mu_ is kept while they
\* are handled.  An unknown conversation is a new session.
processUdpPacket(v, n) ==
    /\ running /\ mu = "none"
    /\ Go("io", "idle", IF n = 0 THEN "idle" ELSE "dispatch")
    /\ messages' = n
    /\ mu' = IF n = 0 THEN "none" ELSE "io"
    /\ IF convToSess[v] = None
       THEN /\ nextId \in Sessions
            /\ convToSess' = [convToSess EXCEPT ![v] = nextId]
            /\ idToConv' = idToConv \cup {nextId}
            /\ nextId' = nextId + 1
            /\ connected' = connected \cup {nextId}
            /\ UNCHANGED idle
       ELSE /\ idle' = idle \ {convToSess[v]}
            /\ UNCHANGED <<tables, connected>>
    /\ UNCHANGED <<running, at, expired, kcp, closed, calls>>

\* recv_handler_ returns: the message was forwarded.
dispatchKcpData ==
    /\ Go("io", "dispatch", IF messages = 1 THEN "idle" ELSE "dispatch")
    /\ messages' = messages - 1
    /\ mu' = IF messages = 1 THEN "none" ELSE mu
    /\ UNCHANGED <<running, tables, at, expired, kcp, idle, told, calls>>

\* recv_handler_ sends or closes on this listener: the thread waits for the mutex it holds.
HandlerReplies ==
    /\ Replies
    /\ Go("io", "dispatch", "self-locked")
    /\ UNCHANGED <<running, tables, mu, at, messages, expired, kcp, idle, told, calls>>

-----------------------------------------------------------------------------
(* update: updateLoop.                                                      *)

\* kcpOutput sends to the tl_udp_fd of the thread that runs ikcp_update.
Flush == answered' = IF "update" \in udpFd THEN answered \cup (queue \cap Alive) ELSE answered

ikcp_update ==
    /\ running /\ mu = "none"
    /\ Go("update", "idle", "expire")
    /\ Flush
    /\ expired' = {v \in Convs : convToSess[v] \in idle}
    /\ UNCHANGED <<running, tables, mu, at, messages, udpFd, queue, idle, told, calls>>

\* A session that uses the conversation by now is removed, whether it is idle or not.
removeSession ==
    \E v \in expired :
        /\ mu = "none"
        /\ Go("update", "expire", IF convToSess[v] = None THEN "expire" ELSE "tell")
        /\ expired' = expired \ {v}
        /\ at' = [at EXCEPT !["update"] = convToSess[v]]
        /\ idToConv' = idToConv \ {convToSess[v]}
        /\ convToSess' = [convToSess EXCEPT ![v] = None]
        /\ UNCHANGED <<running, nextId, mu, messages, kcp, idle, told, calls>>

UpdateAgain ==
    /\ expired = {}
    /\ Go("update", "expire", "idle")
    /\ at' = [at EXCEPT !["update"] = None]
    /\ UNCHANGED <<running, tables, mu, messages, expired, kcp, idle, told, calls>>

-----------------------------------------------------------------------------
(* send and close_conn of other threads; close_handler_, outside mu_.       *)

Call == calls < MaxCalls /\ calls' = calls + 1

send(c) ==
    /\ Call /\ mu = "none" /\ pc["app"] = "idle"
    /\ c \in idToConv
    /\ queue' = queue \cup {c}
    /\ udpFd' = udpFd \cup {"app"}
    /\ UNCHANGED <<running, tables, mu, locals, answered, idle, told>>

close_conn(c) ==
    /\ Call /\ mu = "none"
    /\ c \in idToConv
    /\ Go("app", "idle", "tell")
    /\ at' = [at EXCEPT !["app"] = c]
    /\ idToConv' = idToConv \ {c}
    /\ convToSess' = [v \in Convs |-> IF convToSess[v] = c THEN None ELSE convToSess[v]]
    /\ UNCHANGED <<running, nextId, mu, messages, expired, kcp, idle, told>>

Tell(t) ==
    /\ Go(t, "tell", IF t = "update" THEN "expire" ELSE "idle")
    /\ closed' = [closed EXCEPT ![at[t]] = @ + 1]
    /\ UNCHANGED <<running, tables, mu, at, messages, expired, kcp, idle, connected, calls>>

-----------------------------------------------------------------------------
(* main: stop.  The sessions that are left are dropped untold.              *)

StopLoops ==
    /\ running /\ Go("main", "idle", "join")
    /\ running' = FALSE
    /\ UNCHANGED <<tables, mu, at, messages, expired, kcp, idle, told, calls>>

StopJoined ==
    /\ pc["io"] = "idle" /\ pc["update"] \in {"idle", "done"} /\ mu = "none"
    /\ Go("main", "join", "stopped")
    /\ convToSess' = [v \in Convs |-> None] /\ idToConv' = {}
    /\ UNCHANGED <<running, nextId, mu, at, messages, expired, kcp, idle, told, calls>>

Silence(c) ==
    /\ c \in Alive \ idle
    /\ idle' = idle \cup {c}
    /\ UNCHANGED <<running, tables, mu, locals, kcp, told, calls>>

-----------------------------------------------------------------------------
ioLoop == dispatchKcpData \/ HandlerReplies
updateLoop == ikcp_update \/ removeSession \/ UpdateAgain

Next ==
    \/ \E v \in Convs, n \in 0 .. MaxMessages : processUdpPacket(v, n)
    \/ ioLoop \/ updateLoop
    \/ \E c \in Sessions : send(c) \/ close_conn(c) \/ Silence(c)
    \/ \E t \in Threads : Tell(t)
    \/ StopLoops \/ StopJoined

\* Threads go on, and mu_ comes to each of them; nobody has to send or to stop.
Fairness ==
    /\ WF_vars(ioLoop) /\ SF_vars(ikcp_update) /\ SF_vars(removeSession) /\ WF_vars(UpdateAgain)
    /\ \A t \in Threads : WF_vars(Tell(t))
    /\ SF_vars(StopJoined)

Spec == Init /\ [][Next]_vars /\ Fairness

-----------------------------------------------------------------------------
SelfLocked == pc["io"] = "self-locked"

\* Types; the two tables know the same sessions, under a conversation each.
TypeOK ==
    /\ convToSess \in [Convs -> Sessions \cup {None}]
    /\ idToConv = Alive
    /\ \A v, w \in Convs : v # w /\ convToSess[v] = convToSess[w] => convToSess[v] = None
    /\ queue \cup answered \cup idle \cup connected \subseteq Sessions
    /\ (mu = "io") = (pc["io"] \in {"dispatch", "self-locked"}) /\ mu \in {"io", "none"}

\* The end of a session is told once and only after it has left the tables, though the
\* update thread removes what it has collected before and others close at the same time
\* (KcpListener::close_conn, removeSession, updateLoop).
ToldOnce ==
    \A c \in Sessions : /\ closed[c] <= 1
                        /\ closed[c] = 1 => c \in connected /\ c \notin Alive

\* A session that stays idle goes and its end is told, and stop() returns, unless a
\* handler waits for its own lock (KcpListener::updateLoop, stop).
IdleEnds ==
    /\ \A c \in Sessions : (c \in idle) ~> (closed[c] = 1 \/ c \notin idle \/ ~running \/ SelfLocked)
    /\ (pc["main"] = "join") ~> (pc["main"] = "stopped" \/ SelfLocked)

\* KcpListener.h: a reliable transport: what is sent to a session reaches its client,
\* unless the session or the listener ends or a handler waits for its own lock.
Answers ==
    \A c \in Sessions : (c \in queue) ~> (c \in answered \/ c \notin Alive \/ ~running \/ SelfLocked)
=============================================================================
