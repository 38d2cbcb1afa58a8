----------------------------- MODULE WsListener -----------------------------
(***************************************************************************)
(* WsListener.cpp: the WebSocket connections of connd.  One thread accepts *)
(* them, reads and parses; the threads of the other listeners close and    *)
(* send.  A connection is found by its conn_id, but removed and written to *)
(* by its descriptor, which the kernel may have given to another by then.  *)
(*                                                                         *)
(* A client sends the units of its Script; what has arrived, was read and  *)
(* was parsed are positions in it.  epoll is edge-triggered.               *)
(***************************************************************************)
EXTENDS Integers, Sequences, FiniteSetsExt

CONSTANTS
    Fds,           \* descriptors
    MaxConns,      \* bounds: connections, calls of other threads, descriptors
    MaxCalls,      \* that the rest of the process opens
    MaxOthers,
    Script         \* Script[c][i]: the kind of a unit: "request", or that of a frame
                   \* ("message", "control", "oversize", "close"); "more" for a
                   \* unit that does not complete what it belongs to

Conns == 1 .. MaxConns

Threads == {"io", "app"}
None == -1
Rest == -2
Free == -3

VARIABLES
    owner,         \* the kernel: whose descriptor it is
    polled,        \* connections whose descriptor epoll_fd_ watches
    ready,         \* ready[c]: what epoll has to report: none, in or hup
    arrived,       \* arrived[c]: units that the kernel has received
    ended,         \* connections whose client has closed or reset
    fdToConn,      \* fd_to_conn_
    ids,           \* id_to_conn_
    nextId,        \* next_conn_id_
    connFd,        \* fd of a WsConn; it is kept when the connection is removed
    fetched,       \* fetched[c]: units read; those not parsed are recv_buf
    parsed,        \* parsed[c]: units taken out of recv_buf
    handshaked,
    got,           \* got[c]: how many messages recv_handler_ was called with
    events,        \* what epoll_wait returned and is not handled yet
    pc, conn, fd,  \* each thread: its step, connection and descriptor
    connected,     \* connections that conn_handler_ was called for
    closed,        \* closed[c]: how often close_handler_ was called for it
    mistaken,      \* history: connections removed in place of another
    calls, others

stream == <<fetched, parsed, handshaked, got>>
maps == <<fdToConn, ids, nextId, connFd>>
peers == <<ready, arrived, ended>>
counts == <<calls, others>>
vars == <<owner, polled, peers, maps, stream, events, pc, conn, fd, connected,
          closed, mistaken, counts>>

Init ==
    /\ owner = [f \in Fds |-> Free] /\ polled = {}
    /\ ready = [c \in Conns |-> "none"] /\ arrived = [c \in Conns |-> 0] /\ ended = {}
    /\ fdToConn = [f \in Fds |-> None] /\ ids = {} /\ nextId = 1
    /\ connFd = [c \in Conns |-> None]
    /\ fetched = [c \in Conns |-> 0] /\ parsed = [c \in Conns |-> 0]
    /\ handshaked = {} /\ got = [c \in Conns |-> 0]
    /\ events = {}
    /\ pc = [t \in Threads |-> "idle"]
    /\ conn = [t \in Threads |-> None] /\ fd = [t \in Threads |-> None]
    /\ connected = {} /\ closed = [c \in Conns |-> 0] /\ mistaken = {}
    /\ calls = 0 /\ others = 0

Go(t, from, to) == pc[t] = from /\ pc' = [pc EXCEPT ![t] = to]
At(t, c, f) == conn' = [conn EXCEPT ![t] = c] /\ fd' = [fd EXCEPT ![t] = f]
Stay == UNCHANGED <<conn, fd>>
Away(t) == At(t, None, None)

Unopened == {f \in Fds : owner[f] = Free}

-----------------------------------------------------------------------------
(* removeConn, for either thread.                                           *)

\* Mutant of the next two: the descriptor is closed before the maps forget it.
CloseThenErase(t) ==
    /\ Go(t, "erase", "close")
    /\ fdToConn[fd[t]] # None
    /\ owner' = [owner EXCEPT ![fd[t]] = Free]
    /\ polled' = polled \ {fdToConn[fd[t]]}
    /\ UNCHANGED <<peers, maps, stream, events, conn, fd, connected, closed, mistaken, counts>>

\* The connection that has the descriptor now, if any, leaves both maps.
Erase(t) ==
    LET c == fdToConn[fd[t]]
    IN  /\ Go(t, "erase", IF c = None THEN "idle" ELSE "close")
        /\ IF c = None THEN Away(t) ELSE At(t, c, fd[t])
        /\ fdToConn' = [fdToConn EXCEPT ![fd[t]] = None]
        /\ ids' = ids \ {c}
        /\ mistaken' = IF c \in {None, conn[t]} THEN mistaken ELSE mistaken \cup {c}
        /\ UNCHANGED <<owner, polled, peers, nextId, connFd, stream, events, connected, closed, counts>>

\* epoll_ctl and close.
CloseFd(t) ==
    /\ Go(t, "close", "tell")
    /\ owner' = [owner EXCEPT ![fd[t]] = Free]
    /\ polled' = polled \ {conn[t]}
    /\ Stay
    /\ UNCHANGED <<peers, maps, stream, events, connected, closed, mistaken, counts>>

\* close_handler_.
Tell(t) ==
    /\ Go(t, "tell", "idle")
    /\ closed' = [closed EXCEPT ![conn[t]] = @ + 1]
    /\ Away(t)
    /\ UNCHANGED <<owner, polled, peers, maps, stream, events, connected, mistaken, counts>>

removeConn(t) == Erase(t) \/ CloseFd(t) \/ Tell(t)

-----------------------------------------------------------------------------
(* acceptLoop.                                                              *)

accept4 ==
    /\ Go("io", "idle", "insert")
    /\ nextId \in Conns /\ Unopened # {}
    /\ owner' = [owner EXCEPT ![Min(Unopened)] = nextId]
    /\ connFd' = [connFd EXCEPT ![nextId] = Min(Unopened)]
    /\ At("io", nextId, Min(Unopened))
    /\ nextId' = nextId + 1
    /\ UNCHANGED <<polled, peers, fdToConn, ids, stream, events, connected, closed, mistaken, counts>>

Insert ==
    /\ Go("io", "insert", "add")
    /\ fdToConn' = [fdToConn EXCEPT ![fd["io"]] = conn["io"]]
    /\ ids' = ids \cup {conn["io"]}
    /\ Stay
    /\ UNCHANGED <<owner, polled, peers, nextId, connFd, stream, events, connected, closed, mistaken, counts>>

\* What has arrived by then is reported too.  The connection may be closed already.
Add ==
    /\ Go("io", "add", "idle")
    /\ polled' = IF owner[fd["io"]] = conn["io"] THEN polled \cup {conn["io"]} ELSE polled
    /\ Away("io")
    /\ UNCHANGED <<owner, peers, maps, stream, events, connected, closed, mistaken, counts>>

Reported == {c \in polled : ready[c] # "none"}

epoll_wait ==
    /\ pc["io"] = "idle" /\ events = {} /\ Reported # {}
    /\ events' = {[fd |-> connFd[c], event |-> ready[c], of |-> c] : c \in Reported}
    /\ ready' = [c \in Conns |-> IF c \in Reported THEN "none" ELSE ready[c]]
    /\ UNCHANGED <<owner, polled, arrived, ended, maps, stream, pc, conn, fd, connected, closed, mistaken, counts>>

\* The event may be one of a connection that had the descriptor before.
handleEvent ==
    \E e \in events :
        LET c == fdToConn[e.fd]
        IN  /\ events' = events \ {e}
            /\ Go("io", "idle", IF c = None THEN "idle"
                                ELSE IF e.event = "hup" THEN "erase" ELSE "read")
            /\ IF c = None THEN Stay ELSE At("io", IF e.event = "hup" THEN e.of ELSE c, e.fd)
            /\ UNCHANGED <<owner, polled, peers, maps, stream, connected, closed, mistaken, counts>>

-----------------------------------------------------------------------------
(* readData: read until EAGAIN, then parse.                                 *)

Read ==
    LET c == conn["io"]
        mine == owner[connFd[c]] = c
    IN  /\ pc["io"] = "read"
        /\ \/ /\ mine /\ fetched[c] < arrived[c]
              /\ Go("io", "read", "read") /\ Stay
              /\ \E n \in fetched[c] + 1 .. arrived[c] : fetched' = [fetched EXCEPT ![c] = n]
              /\ UNCHANGED <<owner, polled, peers, maps, parsed, handshaked, got, events,
                             connected, closed, mistaken, counts>>
           \/ /\ mine => fetched[c] = arrived[c] /\ c \in ended
              /\ Go("io", "read", "erase") /\ At("io", c, connFd[c])
              /\ UNCHANGED <<owner, polled, peers, maps, stream, events, connected, closed,
                             mistaken, counts>>
           \/ /\ mine => fetched[c] = arrived[c] /\ c \notin ended
              /\ owner[connFd[c]] # Free
              /\ Go("io", "read", IF c \in handshaked THEN "frames" ELSE "handshake") /\ Stay
              /\ UNCHANGED <<owner, polled, peers, maps, stream, events, connected, closed,
                             mistaken, counts>>

\* Where the request or frame at the front of recv_buf ends, or 0.
Complete(c) ==
    LET ends == {i \in parsed[c] + 1 .. fetched[c] : Script[c][i] # "more"}
    IN  IF ends = {} THEN 0 ELSE Min(ends)

\* Mutant of the next: frames that have come with the request wait for more.
HandshakeReturns ==
    LET c == conn["io"]
    IN  /\ Go("io", "handshake", "idle") /\ Away("io")
        /\ IF Complete(c) # 0
           THEN /\ handshaked' = handshaked \cup {c}
                /\ parsed' = [parsed EXCEPT ![c] = Complete(c)]
                /\ connected' = connected \cup {c}
           ELSE UNCHANGED <<parsed, handshaked, connected>>
        /\ UNCHANGED <<owner, polled, peers, maps, fetched, got, events, closed, mistaken, counts>>

\* A request without a key ends the connection.  The answer is written to the
\* descriptor, whatever becomes of it, and conn_handler_ is called.
doHandshake ==
    LET c == conn["io"]
        n == Complete(c)
    IN  /\ pc["io"] = "handshake"
        /\ \/ /\ n = 0
              /\ Go("io", "handshake", "idle") /\ Away("io")
              /\ UNCHANGED <<owner, polled, peers, maps, stream, events, connected, closed,
                             mistaken, counts>>
           \/ /\ n # 0 /\ Script[c][n] # "request"
              /\ Go("io", "handshake", "erase") /\ At("io", c, connFd[c])
              /\ UNCHANGED <<owner, polled, peers, maps, stream, events, connected, closed,
                             mistaken, counts>>
           \/ /\ n # 0 /\ Script[c][n] = "request"
              /\ handshaked' = handshaked \cup {c}
              /\ parsed' = [parsed EXCEPT ![c] = n]
              /\ connected' = connected \cup {c}
              /\ Go("io", "handshake", "frames") /\ Stay
              /\ UNCHANGED <<owner, polled, peers, maps, fetched, got, events, closed,
                             mistaken, counts>>

\* One turn of the loop in parseFrames; the frames that were read are handled
\* though another thread may have removed the connection.
parseFrames ==
    LET c == conn["io"]
        n == Complete(c)
    IN  /\ pc["io"] = "frames"
        /\ IF n = 0
           THEN Go("io", "frames", "idle") /\ Away("io") /\ UNCHANGED <<parsed, got>>
           ELSE /\ parsed' = IF Script[c][n] = "oversize" THEN parsed ELSE [parsed EXCEPT ![c] = n]
                /\ IF Script[c][n] \in {"oversize", "close"}
                   THEN Go("io", "frames", "erase") /\ At("io", c, connFd[c])
                   ELSE Go("io", "frames", "frames") /\ Stay
                /\ got' = [got EXCEPT ![c] = IF Script[c][n] = "message" THEN @ + 1 ELSE @]
        /\ UNCHANGED <<owner, polled, peers, maps, fetched, handshaked, events, connected,
                       closed, mistaken, counts>>

-----------------------------------------------------------------------------
(* Other threads: close_conn, when a user logs in elsewhere, and send.      *)

Call == calls < MaxCalls /\ calls' = calls + 1 /\ UNCHANGED others

close_conn(c) ==
    /\ Call /\ c \in ids \cap connected
    /\ Go("app", "idle", "erase") /\ At("app", c, connFd[c])
    /\ UNCHANGED <<owner, polled, peers, maps, stream, events, connected, closed, mistaken>>

send(c) ==
    /\ Call /\ c \in ids \cap connected
    /\ Go("app", "idle", "write") /\ At("app", c, connFd[c])
    /\ UNCHANGED <<owner, polled, peers, maps, stream, events, connected, closed, mistaken>>

\* One write(), of which nothing is kept: the rest of a frame is lost.
Write ==
    /\ Go("app", "write", "idle") /\ Away("app")
    /\ UNCHANGED <<owner, polled, peers, maps, stream, events, connected, closed, mistaken, counts>>

-----------------------------------------------------------------------------
(* Clients, and the rest of the process.                                    *)

Alive(c) == connFd[c] # None /\ owner[connFd[c]] = c /\ c \notin ended

Arrive(c) ==
    /\ Alive(c) /\ arrived[c] < Len(Script[c])
    /\ arrived' = [arrived EXCEPT ![c] = @ + 1]
    /\ ready' = [ready EXCEPT ![c] = "in"]
    /\ UNCHANGED <<owner, polled, ended, maps, stream, events, pc, conn, fd, connected, closed, mistaken, counts>>

HangUp(c) ==
    /\ Alive(c)
    /\ ended' = ended \cup {c}
    /\ ready' = [ready EXCEPT ![c] = "hup"]
    /\ UNCHANGED <<owner, polled, arrived, maps, stream, events, pc, conn, fd, connected, closed, mistaken, counts>>

Other ==
    /\ \/ /\ Unopened # {} /\ others < MaxOthers
          /\ others' = others + 1
          /\ owner' = [owner EXCEPT ![Min(Unopened)] = Rest]
       \/ \E f \in Fds : owner[f] = Rest /\ owner' = [owner EXCEPT ![f] = Free] /\ UNCHANGED others
    /\ UNCHANGED <<polled, peers, maps, stream, events, pc, conn, fd, connected, closed, mistaken, calls>>

-----------------------------------------------------------------------------
acceptLoop == Insert \/ Add \/ epoll_wait \/ handleEvent \/ Read \/ doHandshake \/ parseFrames

Next ==
    \/ accept4 \/ acceptLoop
    \/ \E t \in Threads : removeConn(t)
    \/ \E c \in Conns : close_conn(c) \/ send(c) \/ Arrive(c) \/ HangUp(c)
    \/ Write \/ Other

\* The listener's thread goes on, and so does whoever removes a connection.
Fairness ==
    /\ WF_vars(acceptLoop)
    /\ \A t \in Threads : WF_vars(removeConn(t))

Spec == Init /\ [][Next]_vars /\ Fairness

-----------------------------------------------------------------------------
\* Types.
TypeOK ==
    /\ owner \in [Fds -> Conns \cup {Rest, Free}]
    /\ polled \cup ended \cup ids \cup handshaked \cup connected \cup mistaken \subseteq Conns
    /\ fdToConn \in [Fds -> Conns \cup {None}]
    /\ \A c \in Conns : /\ parsed[c] <= fetched[c] /\ fetched[c] <= arrived[c]
                        /\ arrived[c] <= Len(Script[c]) /\ closed[c] \in Nat
    /\ \A t \in Threads : conn[t] \in Conns \cup {None} /\ fd[t] \in Fds \cup {None}

\* A connection in the maps has its own open descriptor, which leads back to it, though
\* descriptors are closed by two threads and given out again at once
\* (WsListener::removeConn, acceptLoop).
MapsTrue ==
    /\ \A c \in ids : owner[connFd[c]] = c /\ fdToConn[connFd[c]] = c
    /\ \A f \in Fds : fdToConn[f] # None => fdToConn[f] \in ids

Messages(c) == Cardinality({i \in 1 .. parsed[c] : Script[c][i] = "message"})

\* Every message of what was parsed has reached the handler once, however the stream was
\* cut up and also when frames came with the request, and close_handler_ is called at most
\* once (WsListener::readData, doHandshake, parseFrames, removeConn).
HandledOnce == \A c \in Conns : got[c] = Messages(c) /\ closed[c] <= 1

\* A frame has arrived whole and is not parsed.
Waiting(c) == \E i \in parsed[c] + 1 .. arrived[c] : Script[c][i] # "more"

\* A message that has arrived whole is handled, or its connection ends, and an end is
\* told: no event is lost on an edge-triggered descriptor (WsListener::handleEvent,
\* readData, doHandshake).
Handled ==
    \A c \in Conns :
        /\ (c \in ids /\ Waiting(c)) ~> (~Waiting(c) \/ closed[c] > 0)
        /\ (c \in ids \cap ended) ~> (closed[c] > 0)

\* IListener.h: close_conn closes, and send sends to, the connection it is given.
OnTarget ==
    [][/\ mistaken' = mistaken
       /\ pc["app"] = "write" /\ pc'["app"] = "idle" => owner[fd["app"]] \in {conn["app"], Free}]_vars
=============================================================================
