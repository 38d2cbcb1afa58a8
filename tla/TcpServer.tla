------------------------------ MODULE TcpServer ------------------------------
(***************************************************************************)
(* TcpServer.cpp over EventLoopWrapper.cpp: the table of connections and   *)
(* the file descriptors under it.  The accept thread accepts and handles   *)
(* events, the timer thread kicks silent connections, other threads send   *)
(* and kick.  The kernel gives the lowest free descriptor, also to the     *)
(* rest of the process (a database connection, a file).                    *)
(*                                                                         *)
(* What a connection reads and writes is in TcpConnection: here a message  *)
(* is there or not.                                                        *)
(***************************************************************************)
EXTENDS Integers, FiniteSetsExt

CONSTANTS
    Fds,           \* descriptors
    MaxConns,      \* bounds: connections, calls of the application, messages
    MaxCalls,      \* and resets of peers, descriptors of the rest of the
    MaxNews,       \* process
    MaxOthers

ASSUME ServerAssumption == Fds \subseteq Nat /\ MaxConns \in Nat

Conns == 1 .. MaxConns
Threads == {"accept", "timer", "app"}
None == -1
Rest == -2
Free == -3

VARIABLES
    owner,         \* the kernel: whose descriptor it is, a connection's or
                   \* Rest or Free
    monitored,     \* the kernel: descriptors in the epoll set
    callbacks,     \* callbacks_ of the event loop
    edge,          \* edge[c]: what epoll has to report: none, read or hup
    unread,        \* connections with a message to read
    gone,          \* connections whose peer has closed or reset
    connMap,       \* conn_map_
    fdToConn,      \* fd_to_conn_
    connFd,        \* fd_ of a Connection
    nextId,        \* next_conn_id_
    mutex,         \* who has conn_mutex_, or "none"
    pc,            \* pc[t]: where thread t is
    conn,          \* conn[t]: the connection it is at
    fd,            \* fd[t]: the descriptor it is at
    batch,         \* ready_events_
    doomed,        \* conns_to_close
    silent,        \* connections past HEARTBEAT_TIMEOUT_SECONDS
    calls, news, others

kernel == <<owner, monitored>>
peers == <<unread, gone>>
maps == <<connMap, fdToConn, connFd>>
counts == <<calls, news, others>>
vars == <<kernel, callbacks, edge, peers, maps, nextId, mutex, pc, conn, fd,
          batch, doomed, silent, counts>>

Init ==
    /\ owner = [f \in Fds |-> Free] /\ monitored = {} /\ callbacks = {}
    /\ edge = [c \in Conns |-> "none"]
    /\ unread = {} /\ gone = {}
    /\ connMap = {} /\ fdToConn = [f \in Fds |-> None] /\ connFd = [c \in Conns |-> None]
    /\ nextId = 1
    /\ mutex = "none"
    /\ pc = [t \in Threads |-> "idle"]
    /\ conn = [t \in Threads |-> None]
    /\ fd = [t \in Threads |-> None]
    /\ batch = {} /\ doomed = {} /\ silent = {}
    /\ calls = 0 /\ news = 0 /\ others = 0

Go(t, from, to) == pc[t] = from /\ pc' = [pc EXCEPT ![t] = to]
At(t, c, f) == conn' = [conn EXCEPT ![t] = c] /\ fd' = [fd EXCEPT ![t] = f]
Stay == UNCHANGED <<conn, fd>>

FreeFds == {f \in Fds : owner[f] = Free}

-----------------------------------------------------------------------------
(* removeConnection, for any thread.                                        *)

Lock(t) ==
    /\ mutex = "none"
    /\ mutex' = t
    /\ Go(t, "lock", IF conn[t] \in connMap THEN "close" ELSE "tell")
    /\ At(t, conn[t], IF conn[t] \in connMap THEN connFd[conn[t]] ELSE None)
    /\ UNCHANGED <<kernel, callbacks, edge, peers, maps, nextId, batch, doomed, silent, counts>>

\* close() takes the descriptor out of the epoll set too.
Close(t) ==
    /\ Go(t, "close", "erase")
    /\ owner' = [owner EXCEPT ![fd[t]] = Free]
    /\ monitored' = monitored \ {fd[t]}
    /\ connFd' = [connFd EXCEPT ![conn[t]] = None]
    /\ Stay
    /\ UNCHANGED <<callbacks, edge, peers, connMap, fdToConn, nextId, mutex, batch, doomed, silent, counts>>

\* EventLoopWrapper::remove: nothing, when epoll does not know the descriptor.
remove(f) ==
    /\ monitored' = monitored \ {f}
    /\ callbacks' = IF f \in monitored THEN callbacks \ {f} ELSE callbacks

Erase(t) ==
    /\ Go(t, "erase", "tell")
    /\ remove(fd[t])
    /\ fdToConn' = [fdToConn EXCEPT ![fd[t]] = None]
    /\ connMap' = connMap \ {conn[t]}
    /\ Stay
    /\ UNCHANGED <<owner, edge, peers, connFd, nextId, mutex, batch, doomed, silent, counts>>

\* close_handler_, under the lock, also for a connection that was not found.
Tell(t) ==
    /\ Go(t, "tell", "idle")
    /\ At(t, None, None)
    /\ mutex' = "none"
    /\ UNCHANGED <<kernel, callbacks, edge, peers, maps, nextId, batch, doomed, silent, counts>>

removeConnection(t) == Lock(t) \/ Close(t) \/ Erase(t) \/ Tell(t)

-----------------------------------------------------------------------------
(* The accept thread: handleNewConnection.                                  *)

accept4 ==
    /\ Go("accept", "idle", "add")
    /\ nextId \in Conns /\ FreeFds # {}
    /\ LET f == Min(FreeFds)
       IN  /\ owner' = [owner EXCEPT ![f] = nextId]
           /\ connFd' = [connFd EXCEPT ![nextId] = f]
           /\ At("accept", nextId, f)
    /\ nextId' = nextId + 1
    /\ UNCHANGED <<monitored, callbacks, edge, peers, connMap, fdToConn, mutex, batch, doomed, silent, counts>>

\* What is there already is reported too.
Add ==
    /\ Go("accept", "add", "insert")
    /\ monitored' = monitored \cup {fd["accept"]}
    /\ callbacks' = callbacks \cup {fd["accept"]}
    /\ Stay
    /\ UNCHANGED <<owner, edge, peers, maps, nextId, mutex, batch, doomed, silent, counts>>

\* Mutant: the maps are filled without conn_mutex_.
InsertUnlocked ==
    /\ Go("accept", "insert", "idle")
    /\ connMap' = connMap \cup {conn["accept"]}
    /\ fdToConn' = [fdToConn EXCEPT ![fd["accept"]] = conn["accept"]]
    /\ At("accept", None, None)
    /\ UNCHANGED <<kernel, callbacks, edge, peers, connFd, nextId, mutex, batch, doomed, silent, counts>>

Insert ==
    /\ Go("accept", "insert", "idle")
    /\ mutex = "none"
    /\ connMap' = connMap \cup {conn["accept"]}
    /\ fdToConn' = [fdToConn EXCEPT ![fd["accept"]] = conn["accept"]]
    /\ At("accept", None, None)
    /\ UNCHANGED <<kernel, callbacks, edge, peers, connFd, nextId, mutex, batch, doomed, silent, counts>>

-----------------------------------------------------------------------------
(* Events: acceptLoop, processEvents and handleClientEvent.                 *)

Reported == {c \in Conns : edge[c] # "none" /\ connFd[c] \in monitored}

wait ==
    /\ pc["accept"] = "idle" /\ batch = {} /\ Reported # {}
    /\ batch' = {[fd |-> connFd[c], event |-> edge[c]] : c \in Reported}
    /\ edge' = [c \in Conns |-> IF c \in Reported THEN "none" ELSE edge[c]]
    /\ UNCHANGED <<kernel, callbacks, peers, maps, nextId, mutex, pc, conn, fd, doomed, silent, counts>>

\* The descriptor is looked up under the lock; its connection may be another
\* one than the event was for, or none.
Dispatch ==
    \E e \in batch :
        /\ batch' = batch \ {e}
        /\ \/ /\ e.fd \notin callbacks
              /\ UNCHANGED <<pc, conn, fd>> /\ pc["accept"] = "idle"
           \/ /\ e.fd \in callbacks
              /\ mutex = "none"
              /\ At("accept", fdToConn[e.fd], e.fd)
              /\ Go("accept", "idle", IF fdToConn[e.fd] = None THEN "unknown"
                                      ELSE IF e.event = "hup" THEN "lock" ELSE "read")
        /\ UNCHANGED <<kernel, callbacks, edge, peers, maps, nextId, mutex, doomed, silent, counts>>

\* An unknown descriptor is taken out of the epoll set and closed, whoever
\* has it by now.
Unknown ==
    /\ \/ /\ Go("accept", "unknown", "close unknown")
          /\ remove(fd["accept"])
          /\ Stay /\ UNCHANGED owner
       \/ /\ Go("accept", "close unknown", "idle")
          /\ owner' = [owner EXCEPT ![fd["accept"]] = Free]
          /\ monitored' = monitored \ {fd["accept"]}
          /\ At("accept", None, None) /\ UNCHANGED callbacks
    /\ UNCHANGED <<edge, peers, maps, nextId, mutex, batch, doomed, silent, counts>>

\* onReadable: messages are handled; end of file or an error, also that of a
\* descriptor closed by another thread, removes the connection.
onReadable ==
    /\ pc["accept"] = "read"
    /\ LET c == conn["accept"]
           open == connFd[c] # None
       IN  /\ unread' = IF open THEN unread \ {c} ELSE unread
           /\ silent' = IF open /\ c \in unread THEN silent \ {c} ELSE silent
           /\ \/ /\ ~open \/ c \in gone
                 /\ Go("accept", "read", "lock")
                 /\ Stay
              \/ /\ open /\ c \notin gone
                 /\ Go("accept", "read", "idle")
                 /\ At("accept", None, None)
    /\ UNCHANGED <<kernel, callbacks, edge, gone, maps, nextId, mutex, batch, doomed, counts>>

-----------------------------------------------------------------------------
(* Other threads.                                                           *)

\* Mutant: connections that the loop has no callback for are left out.
PickHeard ==
    /\ mutex = "none" /\ pc["timer"] = "idle" /\ doomed = {}
    /\ {c \in connMap \cap silent : connFd[c] \in callbacks} # {}
    /\ doomed' = {c \in connMap \cap silent : connFd[c] \in callbacks}
    /\ UNCHANGED <<kernel, callbacks, edge, peers, maps, nextId, mutex, pc, conn, fd, batch, silent, counts>>

\* checkHeartbeats.
Pick ==
    /\ mutex = "none" /\ pc["timer"] = "idle" /\ doomed = {}
    /\ connMap \cap silent # {}
    /\ doomed' = connMap \cap silent
    /\ UNCHANGED <<kernel, callbacks, edge, peers, maps, nextId, mutex, pc, conn, fd, batch, silent, counts>>

PickNext ==
    /\ Go("timer", "idle", "lock")
    /\ \E c \in doomed : doomed' = doomed \ {c} /\ At("timer", c, None)
    /\ UNCHANGED <<kernel, callbacks, edge, peers, maps, nextId, mutex, batch, silent, counts>>

\* The application calls.
Call == calls < MaxCalls /\ calls' = calls + 1 /\ UNCHANGED <<news, others>>

closeConn(c) ==
    /\ Call
    /\ Go("app", "idle", "lock") /\ At("app", c, None)
    /\ UNCHANGED <<kernel, callbacks, edge, peers, maps, nextId, mutex, batch, doomed, silent>>

\* send, under the lock.  A write to a connection that was reset fails, and
\* removeConnection locks conn_mutex_ again: the thread waits for itself.
send(t, c) ==
    /\ Call
    /\ mutex = "none" /\ pc[t] = "idle"
    /\ \/ /\ silent' = IF c \in connMap THEN silent \ {c} ELSE silent
          /\ UNCHANGED <<mutex, pc>>
       \/ /\ c \in connMap \cap gone
          /\ Go(t, "idle", "self-locked") /\ mutex' = t
          /\ UNCHANGED silent
    /\ Stay
    /\ UNCHANGED <<kernel, callbacks, edge, peers, maps, nextId, batch, doomed>>

-----------------------------------------------------------------------------
(* Peers, time and the rest of the process.                                 *)

Connected == {c \in Conns : connFd[c] # None}

Arrive(c) ==
    /\ c \in Connected \ gone
    /\ news < MaxNews /\ news' = news + 1
    /\ \/ unread' = unread \cup {c} /\ UNCHANGED gone /\ edge' = [edge EXCEPT ![c] = "read"]
       \/ gone' = gone \cup {c} /\ UNCHANGED unread /\ edge' = [edge EXCEPT ![c] = "hup"]
    /\ UNCHANGED <<kernel, callbacks, maps, nextId, mutex, pc, conn, fd, batch, doomed, silent, calls, others>>

\* Thirty seconds without a byte.
Silence(c) ==
    /\ c \in Connected \ silent
    /\ silent' = silent \cup {c}
    /\ UNCHANGED <<kernel, callbacks, edge, peers, maps, nextId, mutex, pc, conn, fd, batch, doomed, counts>>

Other ==
    /\ \/ /\ FreeFds # {} /\ others < MaxOthers
          /\ others' = others + 1
          /\ owner' = [owner EXCEPT ![Min(FreeFds)] = Rest]
       \/ \E f \in Fds : owner[f] = Rest /\ owner' = [owner EXCEPT ![f] = Free] /\ UNCHANGED others
    /\ UNCHANGED <<monitored, callbacks, edge, peers, maps, nextId, mutex, pc, conn, fd, batch, doomed, silent, calls, news>>

-----------------------------------------------------------------------------
Accept == accept4 \/ Add \/ Insert
Events == wait \/ Dispatch \/ Unknown \/ onReadable
checkHeartbeats == Pick \/ PickNext

Next ==
    \/ Accept \/ Events \/ checkHeartbeats
    \/ \E t \in Threads : removeConnection(t)
    \/ \E c \in Conns : closeConn(c) \/ send("app", c) \/ send("accept", c)
    \/ \E c \in Conns : Arrive(c) \/ Silence(c)
    \/ Other

\* Threads go on and time passes; nobody has to connect or to send.
Fairness ==
    /\ WF_vars(Add \/ Insert) /\ WF_vars(Events) /\ WF_vars(checkHeartbeats)
    /\ \A t \in Threads : WF_vars(removeConnection(t))
    /\ \A c \in Conns : WF_vars(Silence(c))

Spec == Init /\ [][Next]_vars /\ Fairness

-----------------------------------------------------------------------------
\* Types, and who has the lock.
TypeOK ==
    /\ owner \in [Fds -> Conns \cup {Rest, Free}]
    /\ monitored \subseteq Fds /\ callbacks \subseteq Fds
    /\ edge \in [Conns -> {"none", "read", "hup"}]
    /\ connMap \cup unread \cup gone \cup silent \cup doomed \subseteq Conns
    /\ fdToConn \in [Fds -> Conns \cup {None}]
    /\ connFd \in [Conns -> Fds \cup {None}]
    /\ nextId \in 1 .. MaxConns + 1
    /\ \A t \in Threads : (mutex = t) <=> (pc[t] \in {"close", "erase", "tell", "self-locked"})
    /\ conn \in [Threads -> Conns \cup {None}] /\ fd \in [Threads -> Fds \cup {None}]
    /\ \A e \in batch : e.fd \in Fds

\* Whoever is between closing a descriptor and erasing its entries.
Closing == {conn[t] : t \in {u \in Threads : pc[u] = "erase"}}

\* The two maps and the kernel agree, though descriptors are closed before the
\* maps forget them and are given out again at once: each connection in the
\* table has its own open descriptor, whose entry leads back to it, and no
\* entry is left over (TcpServer::removeConnection, handleNewConnection).  Every
\* variable has its type.
MapsAgree ==
    /\ TypeOK
    /\ \A c \in connMap \ Closing : connFd[c] # None /\ owner[connFd[c]] = c /\ fdToConn[connFd[c]] = c
    /\ \A f \in Fds : fdToConn[f] # None => fdToConn[f] \in connMap
    /\ \A f, g \in Fds : fdToConn[f] = fdToConn[g] /\ f # g => fdToConn[f] = None

SelfLocked == \E t \in Threads : pc[t] = "self-locked"

\* A message or an end that arrives on a connection is dealt with, or the
\* connection is removed: also when a racing removal has taken the new owner of
\* a descriptor out of the epoll set, and unless a thread locks conn_mutex_
\* twice (TcpServer::checkHeartbeats, removeConnection).
Served ==
    \A c \in Conns :
        (c \in connMap \cap (unread \cup gone)) ~> (c \notin connMap \cap (unread \cup gone) \/ SelfLocked)
=============================================================================
