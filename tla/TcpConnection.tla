---------------------------- MODULE TcpConnection ----------------------------
(***************************************************************************)
(* TcpConnection.cpp, both ends of a TCP connection: threads send packets, *)
(* an event loop sends what the socket did not take, and the event loop of *)
(* the peer reads, collects bytes in its ring and takes packets out.       *)
(*                                                                         *)
(* A unit <<p, i>> is a piece of packet p; the first HeaderLen of them are *)
(* its Header.  epoll is edge-triggered.                                   *)
(***************************************************************************)
EXTENDS Integers, Sequences, FiniteSetsExt

CONSTANTS
    Senders,       \* threads that call send; "loop" is the event loop itself
    Length,        \* Length[p]: the units of packet p, in the order of sending
    HeaderLen,     \* sizeof(Header)
    SocketCap,     \* what the kernel takes before a write returns EAGAIN
    RingCap,       \* what recv_buffer_ takes
    ReadMax        \* what one read() returns at most

ASSUME LengthAssumption ==
    /\ HeaderLen \in Nat \ {0} /\ Length \in Seq(Nat)
    /\ \A p \in DOMAIN Length : Length[p] >= HeaderLen
ASSUME CapAssumption ==
    SocketCap \in Nat \ {0} /\ ReadMax \in Nat \ {0} /\ RingCap \in Nat
\* Without it a packet may fill the ring and the connection ends.
ASSUME RoomAssumption == \A p \in DOMAIN Length : RingCap >= Length[p]

VARIABLES
    sent,          \* packets that send has been called with
    sending,       \* sending[t]: idle, or after sendmsg (save) or the copy (arm)
    rest,          \* rest[t]: the units that sendmsg did not take
    partial,       \* partial_send_buffer_
    offset,        \* partial_send_offset_
    socket,        \* units under way
    wantWrite,     \* EventType::WRITE is registered
    writable,      \* epoll has a WRITE event for the loop
    loop,          \* the sender's event loop: wait, write, clear, disarm
    readable,      \* epoll has a READ event for the peer
    peer,          \* the peer's event loop: wait, read, parse, closed
    ring,          \* recv_buffer_
    got,           \* what recv_handler_ was called with
    overlap        \* history: a send began while units of another waited

sendVars == <<sent, sending, rest>>
bufferVars == <<partial, offset>>
epollVars == <<wantWrite, writable, readable>>
peerVars == <<peer, ring, got>>
vars == <<sendVars, bufferVars, socket, epollVars, loop, peerVars, overlap>>

Units(p) == [i \in 1 .. Length[p] |-> <<p, i>>]

Init ==
    /\ sent = 0
    /\ sending = [t \in Senders |-> "idle"]
    /\ rest = [t \in Senders |-> << >>]
    /\ partial = << >> /\ offset = 0
    /\ socket = << >>
    /\ wantWrite = FALSE /\ writable = FALSE /\ readable = FALSE
    /\ loop = "wait"
    /\ peer = "wait" /\ ring = << >> /\ got = << >>
    /\ overlap = FALSE

-----------------------------------------------------------------------------
(* The kernel.                                                              *)

\* How many of n units a write takes; fewer than n only if that fills it.
Taken(n) == Min({n, SocketCap - Len(socket)})

Deliver(units) ==
    /\ socket' = socket \o units
    /\ readable' = (readable \/ units # << >>)

\* A reset, as the peer sees it.
Broken == peer = "closed"

-----------------------------------------------------------------------------
(* send.  The server holds conn_mutex_ over it, the client holds nothing.    *)

Begin(t) ==
    /\ sending[t] = "idle"
    /\ t = "loop" => loop = "wait"
    /\ sent < Len(Length) /\ ~Broken
    /\ sent' = sent + 1
    /\ overlap' = (overlap \/ partial # << >> \/ \E o \in Senders : rest[o] # << >>)

\* sendmsg takes all, a part, or nothing.
SendMsg(t) ==
    /\ Begin(t)
    /\ LET n == Taken(Length[sent + 1])
           left == SubSeq(Units(sent + 1), n + 1, Length[sent + 1])
       IN  /\ Deliver(SubSeq(Units(sent + 1), 1, n))
           /\ rest' = [rest EXCEPT ![t] = left]
           /\ sending' = [sending EXCEPT ![t] = IF left = << >> THEN "idle" ELSE "save"]
    /\ UNCHANGED <<bufferVars, wantWrite, writable, loop, peerVars>>

Save(t) ==
    /\ sending[t] = "save"
    /\ partial' = rest[t]
    /\ offset' = 0
    /\ rest' = [rest EXCEPT ![t] = << >>]
    /\ sending' = [sending EXCEPT ![t] = "arm"]
    /\ UNCHANGED <<sent, socket, epollVars, loop, peerVars, overlap>>

\* Mutant: no event for a socket that is writable again by now.
ArmEdgeOnly(t) ==
    /\ sending[t] = "arm"
    /\ wantWrite' = TRUE
    /\ sending' = [sending EXCEPT ![t] = "idle"]
    /\ UNCHANGED <<sent, rest, bufferVars, socket, writable, readable, loop, peerVars, overlap>>

\* EPOLL_CTL_MOD reports a socket that is writable at that moment.
Arm(t) ==
    /\ sending[t] = "arm"
    /\ wantWrite' = TRUE
    /\ writable' = (Len(socket) < SocketCap)
    /\ sending' = [sending EXCEPT ![t] = "idle"]
    /\ UNCHANGED <<sent, rest, bufferVars, socket, readable, loop, peerVars, overlap>>

-----------------------------------------------------------------------------
(* onWritable.                                                              *)

LoopFree == "loop" \in Senders => sending["loop"] = "idle"

LoopWake ==
    /\ loop = "wait" /\ LoopFree
    /\ writable
    /\ writable' = FALSE
    /\ loop' = IF Len(socket) < SocketCap THEN "write" ELSE "wait"
    /\ UNCHANGED <<sendVars, bufferVars, socket, wantWrite, readable, peerVars, overlap>>

\* One write().
onWritable ==
    /\ loop = "write"
    /\ LET n == Taken(Len(partial) - offset)
       IN  IF partial = << >> \/ n = 0
           THEN loop' = "wait" /\ UNCHANGED <<offset, socket, readable>>
           ELSE /\ Deliver(SubSeq(partial, offset + 1, offset + n))
                /\ offset' = offset + n
                /\ loop' = IF offset' >= Len(partial) THEN "clear" ELSE "wait"
    /\ UNCHANGED <<sendVars, partial, wantWrite, writable, peerVars, overlap>>

\* All is written: what another thread has saved since goes with it.
Clear ==
    /\ loop = "clear"
    /\ partial' = << >> /\ offset' = 0
    /\ loop' = "disarm"
    /\ UNCHANGED <<sendVars, socket, epollVars, peerVars, overlap>>

Disarm ==
    /\ loop = "disarm"
    /\ wantWrite' = FALSE
    /\ writable' = FALSE
    /\ loop' = "wait"
    /\ UNCHANGED <<sendVars, bufferVars, socket, readable, peerVars, overlap>>

-----------------------------------------------------------------------------
(* The peer: onReadable and processRecvBuffer.                              *)

PeerWake ==
    /\ peer = "wait" /\ readable
    /\ readable' = FALSE
    /\ peer' = "read"
    /\ UNCHANGED <<sendVars, bufferVars, socket, wantWrite, writable, loop, ring, got, overlap>>

\* One read() into the ring.  A full ring ends the connection; a full socket
\* that gets room is an event for a loop that wants one.
Read ==
    /\ peer = "read" /\ socket # << >>
    /\ LET n == Min({ReadMax, Len(socket)})
       IN  /\ socket' = SubSeq(socket, n + 1, Len(socket))
           /\ IF Len(ring) + n > RingCap
              THEN peer' = "closed" /\ UNCHANGED ring
              ELSE ring' = ring \o SubSeq(socket, 1, n) /\ UNCHANGED peer
    /\ writable' = (writable \/ (wantWrite /\ Len(socket) = SocketCap))
    /\ UNCHANGED <<sendVars, bufferVars, wantWrite, readable, loop, got, overlap>>

ReadAgain ==
    /\ peer = "read" /\ socket = << >>
    /\ peer' = "parse"
    /\ UNCHANGED <<sendVars, bufferVars, socket, epollVars, loop, ring, got, overlap>>

\* The front of the ring is a header; after packets were mixed it may be bytes
\* of a body, whose version, length and data_len fit by chance at most.
IsHeader == \A i \in 1 .. HeaderLen : ring[i] = <<ring[1][1], i>>

Take(n) ==
    /\ got' = Append(got, SubSeq(ring, 1, n))
    /\ ring' = SubSeq(ring, n + 1, Len(ring))
    /\ UNCHANGED peer

\* Mutant: a packet whose header is complete is taken.
processHasty ==
    IF Len(ring) < HeaderLen
    THEN peer' = "wait" /\ UNCHANGED <<ring, got>>
    ELSE Take(Min({Len(ring), Length[ring[1][1]]}))

\* One turn of the loop in processRecvBuffer.
processRecvBuffer ==
    IF Len(ring) < HeaderLen
    THEN peer' = "wait" /\ UNCHANGED <<ring, got>>
    ELSE IF IsHeader
    THEN IF Len(ring) < Length[ring[1][1]]
         THEN peer' = "wait" /\ UNCHANGED <<ring, got>>
         ELSE Take(Length[ring[1][1]])
    ELSE \/ peer' = "closed" /\ UNCHANGED <<ring, got>>
         \/ \E n \in HeaderLen .. Len(ring) : Take(n)

Parse ==
    /\ peer = "parse"
    /\ processRecvBuffer
    /\ UNCHANGED <<sendVars, bufferVars, socket, epollVars, loop, overlap>>

-----------------------------------------------------------------------------
Sender(t) == Save(t) \/ Arm(t)
Loop == LoopWake \/ onWritable \/ Clear \/ Disarm
Peer == PeerWake \/ Read \/ ReadAgain \/ Parse

Next == (\E t \in Senders : SendMsg(t) \/ Sender(t)) \/ Loop \/ Peer

\* Threads go on; nobody has to send.
Fairness == (\A t \in Senders : WF_vars(Sender(t))) /\ WF_vars(Loop) /\ WF_vars(Peer)

Spec == Init /\ [][Next]_vars /\ Fairness

-----------------------------------------------------------------------------
\* Types; what is left of a packet is in one place, and the offset inside it.
TypeOK ==
    /\ sent \in 0 .. Len(Length)
    /\ sending \in [Senders -> {"idle", "save", "arm"}]
    /\ \A t \in Senders : rest[t] # << >> <=> sending[t] = "save"
    /\ offset \in 0 .. Len(partial)
    /\ partial # << >> /\ loop # "clear" => offset < Len(partial)
    /\ Len(socket) <= SocketCap /\ Len(ring) <= RingCap
    /\ {wantWrite, writable, readable, overlap} \subseteq BOOLEAN
    /\ loop \in {"wait", "write", "clear", "disarm"}
    /\ peer \in {"wait", "read", "parse", "closed"}

\* What sendmsg left of a packet and its sender has not saved yet.
Unsaved == IF \E t \in Senders : rest[t] # << >>
           THEN rest[CHOOSE t \in Senders : rest[t] # << >>] ELSE << >>

\* Between the handler of the peer and the last send, in the order of the
\* stream: the ring, the socket, the buffer and what its owner has not saved.
Stream == ring \o (socket \o (SubSeq(partial, offset + 1, Len(partial)) \o Unsaved))

\* The unit after u, which may be the first of the next packet.
After(u) == IF u[2] < Length[u[1]] THEN <<u[1], u[2] + 1>> ELSE <<u[1] + 1, 1>>

\* The units of the packets after first, up to and including last, in order.
AreUnits(units, first, last) ==
    /\ units = << >> => first = last
    /\ units # << >> => /\ units[1] = <<first + 1, 1>>
                        /\ units[Len(units)] = <<last, Length[last]>>
    /\ \A i \in 1 .. Len(units) - 1 : units[i + 1] = After(units[i])

\* As long as nobody sends while units of an earlier packet wait, the packets
\* handed over are those that were sent, whole and in order, however they were
\* cut up on the way and whoever wrote which part, and until the connection
\* ends what is under way is the rest of the packets that were sent, no unit
\* lost or doubled (Connection::send_impl, onWritable, onReadable,
\* processRecvBuffer).
InOrder ==
    ~overlap =>
        /\ \A t, u \in Senders : rest[t] # << >> /\ rest[u] # << >> => t = u
        /\ \A p \in DOMAIN got : got[p] = Units(p)
        /\ peer # "closed" => AreUnits(Stream, Len(got), sent)

\* Packets come out whole and in order; and the types.
Delivered == TypeOK /\ InOrder

\* The loop has switched its interest off after another thread had switched it
\* on for the rest of a packet.
Stranded == partial # << >> /\ ~wantWrite /\ loop = "wait" /\ \A t \in Senders : sending[t] = "idle"

\* Every packet arrives, unless packets overlap, the ring of the peer is too
\* small for what comes at once, or the rest of a packet is stranded
\* (Connection::send_impl, onWritable with an edge-triggered epoll).
Arrives ==
    \A p \in DOMAIN Length :
        (sent = p) ~> (Len(got) >= p \/ overlap \/ Stranded \/ peer = "closed")

\* What is left of a packet is sent in the end, as the comments in
\* Connection::send_impl say of the event they register for it; only packets
\* that overlap and connections that end are excepted.
RestIsSent ==
    (partial # << >>) ~> (partial = << >> \/ overlap \/ peer = "closed")
=============================================================================
