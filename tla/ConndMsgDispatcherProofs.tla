---------------------- MODULE ConndMsgDispatcherProofs ----------------------
(***************************************************************************)
(* Proofs that the sessions stay consistent for any number of connections, *)
(* users and listeners, however the logins, the kicks and the closing of   *)
(* connections interleave.                                                 *)
(*                                                                         *)
(* The invariants do not follow from one another: what the login of a      *)
(* connection does to the two maps depends on the connection being one     *)
(* that was accepted, and what a kick does to them on the kicked           *)
(* connection being gone from its table.  IInv adds both.                  *)
(*                                                                         *)
(* The second part is about the tokens that are logged in with, and the    *)
(* client that sends them.                                                 *)
(***************************************************************************)
EXTENDS ConndMsgDispatcher, ConndClient, SequenceTheorems, TLAPS

LoggingIn == {"auth", "kick", "close_handler", "drop", "rebind"}
Kicking == {"kick", "close_handler", "drop", "rebind"}
Kicked == {"close_handler", "drop", "rebind"}

\* What handleLogin knows of its locals.
HandlerInv == \A l \in Listeners :
                /\ pc[l] # "idle" \/ batch[l] > 0 => conn[l] \in used
                /\ pc[l] \in LoggingIn => user[l] \in Users
                /\ pc[l] \in Kicking => old[l] \in used
                /\ pc[l] \in Kicked => old[l] \notin open

\* Only accepted connections have a session or are mapped to.
UsedInv == /\ \A c \in Conns : sessions_[c] # None => c \in used
           /\ \A u \in Users : user_to_conn_[u] # None => user_to_conn_[u] \in used

\* The part of the invariant that is about the two maps.
SessionInv == SessionTypeOK /\ UsedInv /\ Mapped /\ NoStaleMapping

IInv == TypeOK /\ HandlerInv /\ UsedInv /\ Mapped /\ NoStaleMapping

----------------------------------------------------------------------------
(* The operations of the session manager.                                  *)

\* A connection that is accepted was mapped to by nobody.
LEMMA ConnectKeeps ==
  ASSUME SessionInv, used \subseteq Conns, NEW c \in Conns, c \notin used,
         on_connect(c), used' = used \cup {c}, UNCHANGED switched
  PROVE  SessionInv'
<1>1. SessionTypeOK'
  BY DEF SessionInv, SessionTypeOK, on_connect
<1>2. /\ \A d \in Conns : sessions_'[d] = IF d = c THEN Anonymous ELSE sessions_[d]
      /\ user_to_conn_' = user_to_conn_
  BY DEF SessionInv, SessionTypeOK, on_connect
<1>3. \A u \in Users : user_to_conn_[u] # c
  BY SessionAssumption DEF SessionInv, UsedInv
<1>4. UsedInv'
  BY <1>2 DEF SessionInv, UsedInv
<1>5. Mapped'
  BY <1>2, SessionAssumption DEF SessionInv, Mapped
<1>6. NoStaleMapping'
  BY <1>2, <1>3 DEF SessionInv, SessionTypeOK, NoStaleMapping
<1> QED  BY <1>1, <1>4, <1>5, <1>6 DEF SessionInv

\* on_disconnect drops the mapping of the user that is logged in on the connection,
\* and of nobody else: a newer connection of the user keeps it.
LEMMA DisconnectKeeps ==
  ASSUME SessionInv, NEW c \in Conns, on_disconnect(c), UNCHANGED <<used, switched>>
  PROVE  SessionInv'
<1>1. SessionTypeOK'
  BY DEF SessionInv, SessionTypeOK, on_disconnect
<1>2. \A d \in Conns : sessions_'[d] = IF d = c THEN None ELSE sessions_[d]
  BY DEF SessionInv, SessionTypeOK, on_disconnect
<1>3. \A u \in Users : user_to_conn_'[u] = IF u = sessions_[c] /\ user_to_conn_[u] = c
                                           THEN None ELSE user_to_conn_[u]
  BY DEF on_disconnect
<1>4. UsedInv'
  BY <1>2, <1>3 DEF SessionInv, UsedInv
<1>5. Mapped'
  BY <1>2, <1>3, SessionAssumption DEF SessionInv, Mapped
<1>6. NoStaleMapping'
  BY <1>2, <1>3 DEF SessionInv, SessionTypeOK, NoStaleMapping
<1> QED  BY <1>1, <1>4, <1>5, <1>6 DEF SessionInv

\* on_auth_ok binds only when the user has no other connection; a connection that it
\* takes away from another user is one of those that switched.
LEMMA BindKeeps ==
  ASSUME SessionInv, NEW c \in Conns, NEW u \in Users, Bind(c, u), UNCHANGED used,
         switched \subseteq Conns
  PROVE  SessionInv' /\ switched' \subseteq Conns
<1>1. CASE OldConn(c, u) = None /\ sessions_[c] # None
  <2>1. SessionTypeOK'
    BY <1>1 DEF SessionInv, SessionTypeOK, Bind, on_auth_ok
  <2>2. \A d \in Conns : sessions_'[d] = IF d = c THEN u ELSE sessions_[d]
    BY <1>1 DEF SessionInv, SessionTypeOK, Bind, on_auth_ok
  <2>3. \A v \in Users : user_to_conn_'[v] = IF v = u THEN c ELSE user_to_conn_[v]
    BY <1>1 DEF SessionInv, SessionTypeOK, Bind, on_auth_ok
  <2>4. user_to_conn_[u] \in {c, None}
    BY <1>1 DEF OldConn
  <2>5. /\ switched \subseteq switched'
        /\ sessions_[c] \in Users \ {u} => c \in switched'
        /\ switched' \subseteq Conns
    BY <1>1 DEF Bind
  <2>6. UsedInv'
    BY <1>1, <2>2, <2>3 DEF SessionInv, UsedInv
  <2>7. Mapped'
    BY <2>2, <2>3, <2>4, SessionAssumption DEF SessionInv, Mapped
  <2>8. NoStaleMapping'
    BY <2>2, <2>3, <2>5 DEF SessionInv, SessionTypeOK, NoStaleMapping
  <2> QED  BY <2>1, <2>5, <2>6, <2>7, <2>8 DEF SessionInv
<1>2. CASE ~(OldConn(c, u) = None /\ sessions_[c] # None)
  <2>1. UNCHANGED sessionvars
    BY <1>2 DEF Bind, on_auth_ok
  <2>2. switched \subseteq switched' /\ switched' \subseteq Conns
    BY DEF Bind
  <2> QED  BY <2>1, <2>2 DEF SessionInv, SessionTypeOK, UsedInv, Mapped, NoStaleMapping,
                             sessionvars
<1> QED  BY <1>1, <1>2

----------------------------------------------------------------------------
(* The invariant.                                                          *)

\* The initial states.
LEMMA Initial == Init => IInv
BY SessionAssumption, BatchAssumption DEF Init, SessionInit, IInv, TypeOK, SessionTypeOK, HandlerInv,
   UsedInv, Mapped, NoStaleMapping, LoggingIn, Kicking, Kicked

\* A listener accepts a connection.
LEMMA ConnectStep == ASSUME IInv, NEW c \in Conns, Connect(c) PROVE IInv'
<1>1. SessionInv'
  BY ConnectKeeps DEF IInv, TypeOK, SessionInv, Connect
<1>2. TypeOK'
  BY <1>1 DEF IInv, TypeOK, SessionInv, Connect, threadvars
<1>3. HandlerInv'
  BY DEF IInv, HandlerInv, Connect, threadvars, Kicking, Kicked
<1> QED  BY <1>1, <1>2, <1>3 DEF IInv, SessionInv

\* A connection leaves its table.
LEMMA UnlinkStep == ASSUME IInv, NEW c \in Conns, Unlink(c) PROVE IInv'
<1>1. TypeOK'
  BY DEF IInv, TypeOK, SessionTypeOK, Unlink, threadvars, sessionvars
<1>2. HandlerInv'
  BY DEF IInv, HandlerInv, Unlink, threadvars
<1> QED  BY <1>1, <1>2 DEF IInv, UsedInv, Mapped, NoStaleMapping, Unlink, sessionvars

\* The session of a connection that left its table ends.
LEMMA CloseHandlerStep == ASSUME IInv, NEW c \in Conns, CloseHandler(c) PROVE IInv'
<1>1. SessionInv'
  BY DisconnectKeeps DEF IInv, TypeOK, SessionInv, CloseHandler
<1>2. TypeOK'
  BY <1>1 DEF IInv, TypeOK, SessionInv, CloseHandler, threadvars
<1>3. HandlerInv'
  BY DEF IInv, HandlerInv, CloseHandler, threadvars
<1> QED  BY <1>1, <1>2, <1>3 DEF IInv, SessionInv

\* A message is taken up by the listener of its connection.
LEMMA MessageStep ==
  ASSUME IInv, NEW c \in Conns, NEW u \in Users \cup {None}, Message(c, u)
  PROVE  IInv'
<1>1. Listener[c] \in Listeners
  BY ListenerAssumption
<1>2. batch' \in [Listeners -> 0 .. MaxBatch]
  <2>1. batch[Listener[c]] \in 0 .. MaxBatch
    BY <1>1 DEF IInv, TypeOK
  <2>2. CASE batch[Listener[c]] = 0
    <3>1. PICK n \in 0 .. MaxBatch : batch' = [batch EXCEPT ![Listener[c]] = n]
      BY <2>2 DEF Message
    <3> QED  BY <3>1 DEF IInv, TypeOK
  <2>3. CASE batch[Listener[c]] # 0
    <3>1. batch' = [batch EXCEPT ![Listener[c]] = @ - 1]
      BY <2>3 DEF Message
    <3>2. batch[Listener[c]] - 1 \in 0 .. MaxBatch
      BY <2>1, <2>3, BatchAssumption
    <3> QED  BY <3>1, <3>2 DEF IInv, TypeOK
  <2> QED  BY <2>2, <2>3
<1>3. c \in used
  <2>1. batch[Listener[c]] \in 0 .. MaxBatch
    BY <1>1 DEF IInv, TypeOK
  <2>2. CASE batch[Listener[c]] = 0
    BY <2>2 DEF Message, IInv, TypeOK
  <2>3. CASE batch[Listener[c]] # 0
    <3>1. c = conn[Listener[c]] /\ batch[Listener[c]] > 0
      BY <2>1, <2>3, BatchAssumption DEF Message
    <3> QED  BY <3>1, <1>1 DEF IInv, HandlerInv
  <2> QED  BY <2>2, <2>3
<1>4. TypeOK'
  BY <1>1, <1>2 DEF IInv, TypeOK, SessionTypeOK, Message, Goto, sessionvars
<1>5. HandlerInv'
  <2>1. ASSUME NEW l \in Listeners, l # Listener[c]
        PROVE  /\ pc'[l] = pc[l] /\ conn'[l] = conn[l] /\ user'[l] = user[l]
               /\ old'[l] = old[l] /\ batch'[l] = batch[l]
    BY <1>1, <2>1 DEF Message, Goto, IInv, TypeOK
  <2>2. /\ conn'[Listener[c]] = c /\ user'[Listener[c]] = u
        /\ pc'[Listener[c]] = IF u = None THEN "reply" ELSE "auth"
    BY <1>1 DEF Message, Goto, IInv, TypeOK
  <2>3. used' = used /\ open' = open
    BY DEF Message
  <2> QED  BY <1>3, <2>1, <2>2, <2>3 DEF IInv, HandlerInv, LoggingIn, Kicking, Kicked
<1>6. UNCHANGED <<sessionvars, used, switched>>
  BY DEF Message, sessionvars
<1> QED  BY <1>4, <1>5, <1>6 DEF IInv, UsedInv, Mapped, NoStaleMapping, sessionvars

\* The first on_auth_ok of handleLogin.
LEMMA AuthStep == ASSUME IInv, NEW l \in Listeners, Auth(l) PROVE IInv'
<1>1. conn[l] \in used /\ conn[l] \in Conns /\ user[l] \in Users
  BY DEF IInv, HandlerInv, TypeOK, Auth, LoggingIn
<1>2. SessionInv' /\ switched' \subseteq Conns
  BY <1>1, BindKeeps DEF IInv, TypeOK, SessionInv, Auth
<1>3. OldConn(conn[l], user[l]) \in used \cup {None}
  BY <1>1 DEF IInv, TypeOK, UsedInv, OldConn
<1>4. TypeOK'
  BY <1>2, <1>3 DEF IInv, TypeOK, SessionInv, Auth, Goto
<1>5. HandlerInv'
  BY <1>1, <1>3 DEF IInv, TypeOK, HandlerInv, Auth, Goto, LoggingIn, Kicking, Kicked
<1> QED  BY <1>2, <1>4, <1>5 DEF IInv, SessionInv

\* handleLogin takes the old connection from its listener's table.
LEMMA KickStep == ASSUME IInv, NEW l \in Listeners, Kick(l) PROVE IInv'
<1>1. TypeOK'
  BY DEF IInv, TypeOK, SessionTypeOK, Kick, Goto, sessionvars
<1>2. HandlerInv'
  BY DEF IInv, TypeOK, HandlerInv, Kick, Goto, LoggingIn, Kicking, Kicked
<1> QED  BY <1>1, <1>2 DEF IInv, UsedInv, Mapped, NoStaleMapping, Kick, sessionvars

\* close_handler_ of the old connection ends its session.
LEMMA KickCloseHandlerStep ==
  ASSUME IInv, NEW l \in Listeners, KickCloseHandler(l)
  PROVE  IInv'
<1>1. old[l] \in Conns
  BY DEF IInv, TypeOK, HandlerInv, KickCloseHandler, Kicking
<1>2. SessionInv'
  BY <1>1, DisconnectKeeps DEF IInv, TypeOK, SessionInv, KickCloseHandler
<1>3. TypeOK'
  BY <1>2 DEF IInv, TypeOK, SessionInv, KickCloseHandler, Goto
<1>4. HandlerInv'
  BY DEF IInv, TypeOK, HandlerInv, KickCloseHandler, Goto, LoggingIn, Kicking, Kicked
<1> QED  BY <1>2, <1>3, <1>4 DEF IInv, SessionInv

\* handleLogin ends it once more.
LEMMA DropStep == ASSUME IInv, NEW l \in Listeners, Drop(l) PROVE IInv'
<1>1. old[l] \in Conns
  BY DEF IInv, TypeOK, HandlerInv, Drop, Kicking
<1>2. SessionInv'
  BY <1>1, DisconnectKeeps DEF IInv, TypeOK, SessionInv, Drop
<1>3. TypeOK'
  BY <1>2 DEF IInv, TypeOK, SessionInv, Drop, Goto
<1>4. HandlerInv'
  BY DEF IInv, TypeOK, HandlerInv, Drop, Goto, LoggingIn, Kicking, Kicked
<1> QED  BY <1>2, <1>3, <1>4 DEF IInv, SessionInv

\* The second on_auth_ok.
LEMMA RebindStep == ASSUME IInv, NEW l \in Listeners, Rebind(l) PROVE IInv'
<1>1. conn[l] \in Conns /\ user[l] \in Users
  BY DEF IInv, HandlerInv, TypeOK, Rebind, LoggingIn
<1>2. SessionInv' /\ switched' \subseteq Conns
  BY <1>1, BindKeeps DEF IInv, TypeOK, SessionInv, Rebind
<1>3. TypeOK'
  BY <1>2 DEF IInv, TypeOK, SessionInv, Rebind, Goto
<1>4. HandlerInv'
  BY DEF IInv, TypeOK, HandlerInv, Rebind, Goto, LoggingIn, Kicking, Kicked
<1> QED  BY <1>2, <1>3, <1>4 DEF IInv, SessionInv

\* The answer, and the end of the handler.
LEMMA ReplyStep == ASSUME IInv, NEW l \in Listeners, Reply(l) PROVE IInv'
<1>1. TypeOK'
  BY DEF IInv, TypeOK, SessionTypeOK, Reply, Goto, sessionvars
<1>2. HandlerInv'
  BY DEF IInv, TypeOK, HandlerInv, Reply, Goto, LoggingIn, Kicking, Kicked
<1> QED  BY <1>1, <1>2 DEF IInv, UsedInv, Mapped, NoStaleMapping, Reply, sessionvars

\* Every step keeps the invariant.
LEMMA Inductive == IInv /\ [Next]_vars => IInv'
<1> SUFFICES ASSUME IInv, [Next]_vars PROVE IInv'
  OBVIOUS
<1>1. ASSUME NEW c \in Conns, Connect(c) \/ Unlink(c) \/ CloseHandler(c) PROVE IInv'
  BY <1>1, ConnectStep, UnlinkStep, CloseHandlerStep
<1>2. ASSUME NEW c \in Conns, NEW u \in Users \cup {None}, Message(c, u) PROVE IInv'
  BY <1>2, MessageStep
<1>3. ASSUME NEW l \in Listeners, Handler(l) PROVE IInv'
  BY <1>3, AuthStep, KickStep, KickCloseHandlerStep, DropStep, RebindStep, ReplyStep
     DEF Handler
<1>4. CASE UNCHANGED vars
  BY <1>4 DEF IInv, TypeOK, SessionTypeOK, HandlerInv, UsedInv, Mapped, NoStaleMapping,
              vars, sessionvars, threadvars
<1> QED  BY <1>1, <1>2, <1>3, <1>4 DEF Next

\* The invariant holds in every reachable state.
LEMMA Invariant == Spec => []IInv
BY Initial, Inductive, PTL DEF Spec

----------------------------------------------------------------------------
\* The state keeps its types, and a connection that waits for its close handler has
\* left its listener's table.
THEOREM TypeCorrect == Spec => []TypeOK
<1>1. IInv => TypeOK
  BY DEF IInv
<1> QED  BY <1>1, Invariant, PTL

\* However logins race on the listeners' threads, no user is ever logged in on two
\* connections.
THEOREM OneSessionCorrect == Spec => []OneSession
<1>1. IInv => OneSession
  BY DEF IInv, Mapped, OneSession
<1> QED  BY <1>1, Invariant, PTL

\* A user's mapping is never left naming a connection that ended or is another user's,
\* except one that switched users.
THEOREM NoStaleMappingCorrect == Spec => []NoStaleMapping
<1>1. IInv => NoStaleMapping
  BY DEF IInv
<1> QED  BY <1>1, Invariant, PTL

\* What one step may take away from the sessions of open connections: nothing.
LEMMA SessionKept ==
  ASSUME IInv, [Next]_vars, NEW c \in open, sessions_[c] # None, sessions_'[c] = None
  PROVE  c \notin open'
<1> c \in Conns /\ c \in used /\ c \notin closing
  BY DEF IInv, TypeOK
<1>1. ASSUME NEW d \in Conns, on_disconnect(d), d \notin open PROVE FALSE
  BY <1>1 DEF IInv, TypeOK, SessionTypeOK, on_disconnect
<1>2. ASSUME NEW d \in Conns, NEW u \in Users, Bind(d, u) PROVE FALSE
  BY <1>2, SessionAssumption DEF IInv, TypeOK, SessionTypeOK, Bind, on_auth_ok, sessionvars
<1>3. ASSUME UNCHANGED sessionvars PROVE FALSE
  BY <1>3 DEF sessionvars
<1>4. ASSUME NEW d \in Conns, Connect(d) PROVE FALSE
  BY <1>4 DEF Connect, on_connect, IInv, TypeOK, SessionTypeOK
<1>5. ASSUME NEW d \in Conns, CloseHandler(d) PROVE FALSE
  BY <1>5, <1>1 DEF CloseHandler, IInv, TypeOK
<1>6. ASSUME NEW l \in Listeners, Auth(l) \/ Rebind(l) PROVE FALSE
  <2>1. conn[l] \in Conns /\ user[l] \in Users
    BY <1>6 DEF IInv, TypeOK, HandlerInv, Auth, Rebind, LoggingIn
  <2> QED  BY <2>1, <1>2, <1>6 DEF Auth, Rebind
<1>7. ASSUME NEW l \in Listeners, KickCloseHandler(l) \/ Drop(l) PROVE FALSE
  <2>1. old[l] \in Conns /\ old[l] \notin open
    BY <1>7 DEF IInv, TypeOK, HandlerInv, KickCloseHandler, Drop, Kicking, Kicked
  <2> QED  BY <2>1, <1>1, <1>7 DEF KickCloseHandler, Drop
<1>8. ASSUME NEW l \in Listeners, Kick(l) \/ Reply(l) PROVE FALSE
  BY <1>8, <1>3 DEF Kick, Reply
<1>9. ASSUME NEW d \in Conns, NEW u \in Users \cup {None}, Message(d, u) PROVE FALSE
  BY <1>9, <1>3 DEF Message
<1>10. ASSUME NEW d \in Conns, Unlink(d) PROVE FALSE
  BY <1>10, <1>3 DEF Unlink
<1>11. CASE UNCHANGED vars
  BY <1>11, <1>3 DEF vars
<1> QED  BY <1>4, <1>5, <1>6, <1>7, <1>8, <1>9, <1>10, <1>11 DEF Next, Handler

\* A connection that stays open never loses its session: a kick ends the session only of
\* a connection it has closed, and the late close handler only of one that is gone.
THEOREM OpenKeepsSessionCorrect == Spec => OpenKeepsSession
<1>1. IInv /\ [Next]_vars =>
        [\A c \in open : sessions_[c] # None /\ sessions_'[c] = None => c \notin open']_vars
  BY SessionKept
<1> QED  BY <1>1, Invariant, PTL DEF Spec, OpenKeepsSession

-----------------------------------------------------------------------------
(***************************************************************************)
(* The token of a login and the client that has it (ConndClient over       *)
(* JwtToken), for any accounts and secrets.                                *)
(***************************************************************************)

Byte == 0 .. 255
Sextet == 0 .. 63

\* Division with a remainder, for the four divisors.
LEMMA Remainders ==
  ASSUME NEW b \in Nat
  PROVE  /\ b \div 3 \in Nat /\ b % 3 \in 0 .. 2 /\ b % 3 = b - 3 * (b \div 3)
         /\ b \div 4 \in Nat /\ b % 4 \in 0 .. 3 /\ b % 4 = b - 4 * (b \div 4)
         /\ b \div 16 \in Nat /\ b % 16 \in 0 .. 15 /\ b % 16 = b - 16 * (b \div 16)
         /\ b \div 64 \in Nat /\ b % 64 \in 0 .. 63 /\ b % 64 = b - 64 * (b \div 64)
<1>1. b \div 3 \in Nat /\ b % 3 \in 0 .. 2 /\ b % 3 = b - 3 * (b \div 3)
  OBVIOUS
<1>2. b \div 4 \in Nat /\ b % 4 \in 0 .. 3 /\ b % 4 = b - 4 * (b \div 4)
  OBVIOUS
<1>3. b \div 16 \in Nat /\ b % 16 \in 0 .. 15 /\ b % 16 = b - 16 * (b \div 16)
  OBVIOUS
<1>4. b \div 64 \in Nat /\ b % 64 \in 0 .. 63 /\ b % 64 = b - 64 * (b \div 64)
  OBVIOUS
<1> QED BY <1>1, <1>2, <1>3, <1>4, Zenon

\* A number is determined by its quotient and its remainder.
LEMMA Parts ==
  ASSUME NEW q \in Nat, NEW r \in Nat
  PROVE  /\ r < 4 => (4 * q + r) \div 4 = q /\ (4 * q + r) % 4 = r
         /\ r < 16 => (16 * q + r) \div 16 = q /\ (16 * q + r) % 16 = r
<1>1. r < 4 => (4 * q + r) \div 4 = q
  OBVIOUS
<1>2. r < 4 => (4 * q + r) % 4 = r
  OBVIOUS
<1>3. r < 16 => (16 * q + r) \div 16 = q
  OBVIOUS
<1>4. r < 16 => (16 * q + r) % 16 = r
  OBVIOUS
<1> QED BY <1>1, <1>2, <1>3, <1>4, Zenon

\* What is read of a text is a byte, also past its end.
LEMMA ByteIn ==
  ASSUME NEW s \in Seq(Byte), NEW i \in Nat \ {0}
  PROVE  ByteAt(s, i) \in Byte
<1>1. i <= Len(s) => s[i] \in Byte
  <2> HIDE DEF Byte
  <2> QED OBVIOUS
<1> QED BY <1>1 DEF ByteAt, Byte

\* A byte is put together from its high and its low bits.
LEMMA HighLow ==
  ASSUME NEW b \in Byte
  PROVE  /\ b \div 4 \in 0 .. 63 /\ b % 4 \in 0 .. 3 /\ b = 4 * (b \div 4) + (b % 4)
         /\ b \div 16 \in 0 .. 15 /\ b % 16 \in 0 .. 15 /\ b = 16 * (b \div 16) + (b % 16)
         /\ b \div 64 \in 0 .. 3 /\ b % 64 \in 0 .. 63 /\ b = 64 * (b \div 64) + (b % 64)
<1>1. b \in Nat /\ b <= 255
  BY DEF Byte
<1> DEFINE d4 == b \div 4  m4 == b % 4  d16 == b \div 16  m16 == b % 16  d64 == b \div 64  m64 == b % 64
<1>2. /\ d4 \in Nat /\ m4 \in 0 .. 3 /\ m4 = b - 4 * d4
      /\ d16 \in Nat /\ m16 \in 0 .. 15 /\ m16 = b - 16 * d16
      /\ d64 \in Nat /\ m64 \in 0 .. 63 /\ m64 = b - 64 * d64
  BY <1>1, Remainders
<1> HIDE DEF d4, m4, d16, m16, d64, m64
<1>3. /\ d4 \in 0 .. 63 /\ m4 \in 0 .. 3 /\ b = 4 * d4 + m4
      /\ d16 \in 0 .. 15 /\ m16 \in 0 .. 15 /\ b = 16 * d16 + m16
      /\ d64 \in 0 .. 3 /\ m64 \in 0 .. 63 /\ b = 64 * d64 + m64
  BY <1>1, <1>2
<1> QED BY <1>3 DEF d4, m4, d16, m16, d64, m64

\* The four sextets of three bytes, and the three bytes of four sextets.
Four(a, b, c) == <<a \div 4, (a % 4) * 16 + b \div 16, (b % 16) * 4 + c \div 64, c % 64>>
Three(w, x, y, z) == <<w * 4 + x \div 16, (x % 16) * 16 + y \div 4, (y % 4) * 64 + z>>

\* Sextets are made.
LEMMA GroupType ==
  ASSUME NEW a \in Byte, NEW b \in Byte, NEW c \in Byte, NEW j \in 1 .. 4
  PROVE  Four(a, b, c)[j] \in Sextet
<1>1. /\ a \div 4 \in 0 .. 63 /\ a % 4 \in 0 .. 3
      /\ b \div 16 \in 0 .. 15 /\ b % 16 \in 0 .. 15
      /\ c \div 64 \in 0 .. 3 /\ c % 64 \in 0 .. 63
  BY HighLow
<1> DEFINE p == a \div 4  q == a % 4  r == b \div 16  s == b % 16  t == c \div 64  u == c % 64
<1>2. Four(a, b, c) = <<p, q * 16 + r, s * 4 + t, u>>
  BY DEF Four
<1> HIDE DEF p, q, r, s, t, u
<1>3. /\ p \in 0 .. 63 /\ q \in 0 .. 3 /\ r \in 0 .. 15 /\ s \in 0 .. 15 /\ t \in 0 .. 3 /\ u \in 0 .. 63
  BY <1>1 DEF p, q, r, s, t, u
<1>4. p \in Sextet /\ q * 16 + r \in Sextet /\ s * 4 + t \in Sextet /\ u \in Sextet
  BY <1>3 DEF Sextet
<1> DEFINE g1 == q * 16 + r  g2 == s * 4 + t
<1>5. Four(a, b, c) = <<p, g1, g2, u>> /\ g1 \in Sextet /\ g2 \in Sextet
  BY <1>2, <1>4
<1> HIDE DEF g1, g2, Sextet
<1> QED BY <1>4, <1>5

\* A group decodes to its bytes, and what comes of its first sextets depends on them alone.
LEMMA GroupBack ==
  ASSUME NEW a \in Byte, NEW b \in Byte, NEW c \in Byte, NEW y, NEW z,
         NEW g, g = Four(a, b, c)
  PROVE  /\ Three(g[1], g[2], y, z)[1] = a
         /\ Three(g[1], g[2], g[3], z)[2] = b
         /\ Three(g[1], g[2], g[3], g[4])[3] = c
<1> DEFINE p == a \div 4  q == a % 4  r == b \div 16  s == b % 16  t == c \div 64  u == c % 64
<1>1. g = <<p, q * 16 + r, s * 4 + t, u>>
  BY Zenon DEF Four
<1>2. g[1] = p /\ g[2] = q * 16 + r /\ g[3] = s * 4 + t /\ g[4] = u
  BY <1>1
<1>3. /\ p \in 0 .. 63 /\ q \in 0 .. 3 /\ r \in 0 .. 15 /\ s \in 0 .. 15 /\ t \in 0 .. 3 /\ u \in 0 .. 63
      /\ a = 4 * p + q /\ b = 16 * r + s /\ c = 64 * t + u
  BY HighLow, Zenon
<1> HIDE DEF p, q, r, s, t, u
<1>4. /\ q * 16 + r = 16 * q + r /\ s * 4 + t = 4 * s + t /\ r < 16 /\ t < 4
      /\ q \in Nat /\ r \in Nat /\ s \in Nat /\ t \in Nat
  BY <1>3
<1>5. /\ g[2] \div 16 = q /\ g[2] % 16 = r
      /\ g[3] \div 4 = s /\ g[3] % 4 = t
  BY <1>2, <1>4, Parts
<1>6. Three(g[1], g[2], y, z)[1] = p * 4 + q
  BY <1>2, <1>5 DEF Three
<1>7. Three(g[1], g[2], g[3], z)[2] = r * 16 + s
  BY <1>2, <1>5 DEF Three
<1>8. Three(g[1], g[2], g[3], g[4])[3] = t * 64 + u
  BY <1>2, <1>5 DEF Three
<1> QED BY <1>3, <1>6, <1>7, <1>8

\* The sextets of group q.
LEMMA Sextets ==
  ASSUME NEW s \in Seq(Byte), NEW q \in Nat, NEW j \in 1 .. 4,
         4 * q + j <= (4 * Len(s) + 2) \div 3
  PROVE  base64UrlEncode(s)[4 * q + j] =
           Four(ByteAt(s, 3 * q + 1), ByteAt(s, 3 * q + 2), ByteAt(s, 3 * q + 3))[j]
<1> DEFINE n == (4 * Len(s) + 2) \div 3
           k == 4 * q + j
<1>1. k \in 1 .. n /\ j - 1 \in Nat /\ j - 1 < 4 /\ k - 1 = 4 * q + (j - 1)
  <2>1. n \in Nat
    <3>1. Len(s) \in Nat
      OBVIOUS
    <3> QED BY <3>1, Remainders
  <2> HIDE DEF n
  <2> QED BY <2>1 DEF n
<1>2. (k - 1) \div 4 = q /\ (k - 1) % 4 = j - 1
  BY <1>1, Parts
<1>3. 1 + (j - 1) = j
  OBVIOUS
<1> DEFINE e(x) == LET i == 3 * ((x - 1) \div 4)
                       a == ByteAt(s, i + 1)  b == ByteAt(s, i + 2)  c == ByteAt(s, i + 3)
                   IN <<a \div 4, (a % 4) * 16 + b \div 16, (b % 16) * 4 + c \div 64, c % 64>>
                        [1 + ((x - 1) % 4)]
<1>4. base64UrlEncode(s) = [x \in 1 .. n |-> e(x)]
  BY Zenon DEF base64UrlEncode
<1>5. base64UrlEncode(s)[k] = e(k)
  <2> HIDE DEF e, n, k
  <2> QED BY <1>1, <1>4, Zenon
<1>6. e(k) = Four(ByteAt(s, 3 * q + 1), ByteAt(s, 3 * q + 2), ByteAt(s, 3 * q + 3))[j]
  BY <1>2, <1>3, Zenon DEF Four
<1> QED BY <1>5, <1>6, Zenon

\* What is encoded are sextets, as many as the bits need.
LEMMA EncodeType ==
  ASSUME NEW s \in Seq(Byte)
  PROVE  /\ base64UrlEncode(s) \in Seq(Sextet)
         /\ Len(base64UrlEncode(s)) = (4 * Len(s) + 2) \div 3
<1> DEFINE e == base64UrlEncode(s)
           n == (4 * Len(s) + 2) \div 3
<1>1. n \in Nat
  <2>1. Len(s) \in Nat
    OBVIOUS
  <2> QED BY <2>1, Remainders
<1>2. e = [k \in 1 .. n |-> e[k]]
  BY Zenon DEF base64UrlEncode
<1>3. ASSUME NEW k \in 1 .. n PROVE e[k] \in Sextet
  <2> DEFINE q == (k - 1) \div 4
             j == 1 + ((k - 1) % 4)
  <2>1. k - 1 \in Nat
    BY <1>1
  <2>2. q \in Nat /\ j \in 1 .. 4 /\ k = 4 * q + j
    <3> DEFINE m == (k - 1) % 4
    <3>1. q \in Nat /\ m \in 0 .. 3 /\ m = (k - 1) - 4 * q
      BY <2>1, Remainders
    <3>2. j = 1 + m
      OBVIOUS
    <3> HIDE DEF q, m, j
    <3> QED BY <1>1, <3>1, <3>2
  <2> DEFINE a == ByteAt(s, 3 * q + 1)  b == ByteAt(s, 3 * q + 2)  c == ByteAt(s, 3 * q + 3)
  <2>3. 4 * q + j <= n
    BY <1>1, <2>2
  <2>4. e[4 * q + j] = Four(a, b, c)[j]
    BY <2>2, <2>3, Sextets, Zenon
  <2>5. a \in Byte /\ b \in Byte /\ c \in Byte
    <3>1. 3 * q + 1 \in Nat \ {0} /\ 3 * q + 2 \in Nat \ {0} /\ 3 * q + 3 \in Nat \ {0}
      <4> HIDE DEF q
      <4> QED BY <2>2
    <3> QED BY <3>1, ByteIn, Zenon
  <2> HIDE DEF a, b, c
  <2>6. Four(a, b, c)[j] \in Sextet
    BY <2>2, <2>5, GroupType
  <2> HIDE DEF q, j, e
  <2> QED BY <2>2, <2>4, <2>6
<1> HIDE DEF e, n, Sextet
<1>4. e \in Seq(Sextet) /\ Len(e) = n
  BY <1>1, <1>2, <1>3, IsASeq
<1> QED BY <1>4 DEF e, n

\* What is encoded decodes to itself, however many bytes are over after the last three.
LEMMA RoundTrip ==
  ASSUME NEW s \in Seq(Byte)
  PROVE  base64Decode(base64UrlEncode(s)) = s
<1> DEFINE t == base64UrlEncode(s)
           m == Len(s)
           d(x) == LET i == 4 * ((x - 1) \div 3)
                       a == ByteAt(t, i + 1)  b == ByteAt(t, i + 2)
                       c == ByteAt(t, i + 3)  f == ByteAt(t, i + 4)
                   IN <<a * 4 + b \div 16, (b % 16) * 16 + c \div 4, (c % 4) * 64 + f>>
                        [1 + ((x - 1) % 3)]
<1>1. m \in Nat /\ s = [n \in 1 .. m |-> s[n]]
  OBVIOUS
<1>2. Len(t) = (4 * m + 2) \div 3
  BY EncodeType
<1>3. (3 * ((4 * m + 2) \div 3)) \div 4 = m
  <2> HIDE DEF m
  <2> QED BY <1>1
<1>4. base64Decode(t) = [n \in 1 .. m |-> d(n)]
  <2>1. base64Decode(t) = [n \in 1 .. ((3 * Len(t)) \div 4) |-> d(n)]
    BY Zenon DEF base64Decode
  <2> HIDE DEF d, m, t
  <2> QED BY <1>2, <1>3, <2>1, Zenon
<1>5. ASSUME NEW n \in 1 .. m PROVE d(n) = s[n]
  <2> DEFINE q == (n - 1) \div 3
             j == 1 + ((n - 1) % 3)
             a == ByteAt(s, 3 * q + 1)  b == ByteAt(s, 3 * q + 2)  c == ByteAt(s, 3 * q + 3)
             g == Four(a, b, c)
             u(i) == ByteAt(t, 4 * q + i)
  <2>1. q \in Nat /\ j \in 1 .. 3 /\ n = 3 * q + j /\ n <= m
    <3> DEFINE r == (n - 1) % 3
    <3>1. n - 1 \in Nat /\ n <= m
      BY <1>1
    <3>2. q \in Nat /\ r \in 0 .. 2 /\ r = (n - 1) - 3 * q
      BY <3>1, Remainders
    <3>3. j = 1 + r
      OBVIOUS
    <3> HIDE DEF q, r, j, m
    <3> QED BY <1>1, <3>1, <3>2, <3>3
  <2>2. d(n) = Three(u(1), u(2), u(3), u(4))[j]
    BY Zenon DEF Three
  <2>3. 4 * q + 1 + j <= Len(t)
    <3> DEFINE x == 4 * m + 2
               y == x \div 3
               r == x % 3
    <3>1. x \in Nat
      BY <1>1
    <3>2. y \in Nat /\ r \in 0 .. 2 /\ r = x - 3 * y
      BY <3>1, Remainders
    <3>3. Len(t) = y
      BY <1>2
    <3>4. x = 4 * m + 2
      OBVIOUS
    <3>a. m \in Nat
      BY <1>1
    <3> HIDE DEF x, y, r, q, j, m, t
    <3>b. 3 * y >= 4 * m
      BY <3>a, <3>2, <3>4
    <3>c. m >= 3 * q + j
      BY <3>a, <2>1
    <3>5. 3 * y >= 12 * q + 4 * j
      BY <3>a, <3>b, <3>c, <3>2, <2>1
    <3>6. j = 1 \/ j = 2 \/ j = 3
      BY <2>1
    <3> QED BY <2>1, <3>2, <3>3, <3>5, <3>6
  <2>4. ASSUME NEW i \in 1 .. 1 + j PROVE u(i) = g[i]
    <3>1. i \in 1 .. 4 /\ 4 * q + i <= Len(t)
      <4>1. Len(t) \in Nat
        BY EncodeType DEF Sextet
      <4> HIDE DEF q, j, t
      <4> QED BY <2>1, <2>3, <4>1
    <3>2. u(i) = t[4 * q + i]
      BY <3>1, Zenon DEF ByteAt
    <3> HIDE DEF q, j
    <3> QED BY <1>2, <2>1, <3>1, <3>2, Sextets, Zenon
  <2>5. a \in Byte /\ b \in Byte /\ c \in Byte
    <3>1. 3 * q + 1 \in Nat \ {0} /\ 3 * q + 2 \in Nat \ {0} /\ 3 * q + 3 \in Nat \ {0}
      <4> HIDE DEF q
      <4> QED BY <2>1
    <3> QED BY <3>1, ByteIn, Zenon
  <2>6. s[n] = ByteAt(s, 3 * q + j)
    <3> HIDE DEF q, j
    <3> QED BY <2>1, Zenon DEF ByteAt
  <2> HIDE DEF a, b, c, g, u, q, j, m, d
  <2>7. u(1) = g[1] /\ u(2) = g[2] /\ (j # 1 => u(3) = g[3]) /\ (j = 3 => u(4) = g[4])
    BY <2>1, <2>4
  <2>8. CASE j = 1
    BY <2>2, <2>5, <2>6, <2>7, <2>8, GroupBack DEF a, g
  <2>9. CASE j = 2
    BY <2>2, <2>5, <2>6, <2>7, <2>9, GroupBack DEF b, g
  <2>10. CASE j = 3
    BY <2>2, <2>5, <2>6, <2>7, <2>10, GroupBack DEF c, g
  <2> QED BY <2>1, <2>8, <2>9, <2>10
<1> HIDE DEF d, t, m
<1> QED BY <1>1, <1>4, <1>5 DEF t

LEMMA Bytes == ASSUME NEW s \in Seq(Sextet) PROVE s \in Seq(Byte)
<1>1. Sextet \subseteq Byte
  BY DEF Byte, Sextet
<1> HIDE DEF Byte, Sextet
<1> QED BY <1>1

\* A token verifies with the secret it was signed with, and no other, until it expires, and
\* then gives the account back if that needed no escapes.
LEMMA TokenVerifies ==
  ASSUME NEW key \in Byte, NEW other \in Byte, NEW account \in Seq(Byte), NEW exp \in Byte,
         NEW time
  PROVE  /\ PlainText(account) =>
               verify(other, signJwt(key, account, exp), time) =
                 {IF key = other /\ other # NoSecret /\ time <= exp THEN account ELSE NoAccount}
         /\ key # other => verify(other, signJwt(key, account, exp), time) = {NoAccount}
<1> DEFINE text == Append(account, exp)
           p == base64UrlEncode(text)
           token == signJwt(key, account, exp)
<1>1. text \in Seq(Byte) /\ Len(text) = Len(account) + 1 /\ Last(text) = exp
      /\ Front(text) = account
  <2>1. text \in Seq(Byte) /\ Len(text) = Len(account) + 1
    OBVIOUS
  <2>2. Last(text) = exp
    BY <2>1 DEF Last
  <2>3. Front(text) = account
    BY <2>1 DEF Front
  <2> QED BY <2>1, <2>2, <2>3
<1>2. p \in Seq(Byte)
  BY <1>1, EncodeType, Bytes
<1>3. hmacSha256(key, p) \in Seq(Byte)
  BY <1>2 DEF hmacSha256
<1>4. /\ token.p = p /\ base64Decode(token.p) = text
      /\ base64Decode(token.sig) = hmacSha256(key, p)
  BY <1>1, <1>3, RoundTrip DEF signJwt
<1>5. hmacSha256(key, p) = hmacSha256(other, p) <=> key = other
  <2>1. hmacSha256(key, p)[1] = key /\ hmacSha256(other, p)[1] = other
    BY <1>2 DEF hmacSha256
  <2> QED BY <2>1
<1> DEFINE R == parsePayload(base64Decode(token.p))
           good(x) == key = other /\ other # NoSecret /\ time <= x.exp
<1>6. /\ PlainText(account) => R = {[sub |-> account, exp |-> exp]}
      /\ R # {}
  <2>1. R = IF PlainText(account) THEN {[sub |-> account, exp |-> exp]}
            ELSE [sub : Accounts \cup {NoAccount}, exp : {255}]
    BY <1>1, <1>4, Zenon DEF parsePayload
  <2>2. [sub |-> NoAccount, exp |-> 255] \in [sub : Accounts \cup {NoAccount}, exp : {255}]
    OBVIOUS
  <2>3. CASE PlainText(account)
    <3> DEFINE r == [sub |-> account, exp |-> exp]
    <3>1. R = {r}
      BY <2>1, <2>3, Zenon
    <3> HIDE DEF R, r
    <3>2. R # {}
      BY <3>1
    <3> QED BY <2>3, <3>1, <3>2 DEF r
  <2>4. CASE ~PlainText(account)
    <3>1. [sub |-> NoAccount, exp |-> 255] \in R
      BY <2>1, <2>2, <2>4, Zenon
    <3> HIDE DEF R
    <3> QED BY <2>4, <3>1
  <2> QED BY <2>3, <2>4
<1>7. verify(other, token, time) = {IF good(x) THEN x.sub ELSE NoAccount : x \in R}
  <2> HIDE DEF token, p, text
  <2> QED BY <1>4, <1>5 DEF verify
<1>8. ASSUME PlainText(account)
      PROVE  verify(other, token, time) =
               {IF key = other /\ other # NoSecret /\ time <= exp THEN account ELSE NoAccount}
  <2> HIDE DEF token, R
  <2> QED BY <1>6, <1>7, <1>8
<1>9. ASSUME key # other
      PROVE  verify(other, token, time) = {NoAccount}
  <2> HIDE DEF token, R
  <2> QED BY <1>6, <1>7, <1>9
<1> QED BY <1>8, <1>9

\* The frames connd sends, and those it may get.
Answers == [id : {"auth", "heart"}, ok : BOOLEAN]
Requests == [id : {"apply"}, arg : Accounts] \cup [id : {"auth"}, arg : sentTokens]
            \cup [id : {"heart"}, arg : {Nothing}]

\* Tokens are what the account service made of an account and an expiry, and only those
\* are sent.
TokensInv ==
    /\ now \in 0 .. MaxTime
    /\ secret \in [account : {AccountKey}, connd : Keys]
    /\ onBus \subseteq Accounts
    /\ \A i \in issued : /\ i.account \in Seq(Byte) /\ i.exp \in Byte
                         /\ i.token = signJwt(secret.account, i.account, i.exp)
    /\ \A t \in sentTokens : \E i \in issued : i.token = t

\* A token of the service was sent on the connection, and connd has it for the account, or
\* another connection came between.
BoundFor(i) ==
    /\ i.token \in sentTokens
    /\ PlainText(i.account) => loggedIn = {i.account} \/ i.account \in raced

Bound == \E i \in issued : BoundFor(i)

\* While the connection stands, a success that is on its way, or was returned, is connd's.
WireInv ==
    /\ fd \in {"none", "open", "shut"} /\ (fd = "none" => op = "none")
    /\ op \in {"none", "apply", "auth", "heart"}
    /\ result \in [op : {"none", "apply", "auth", "heart"}, ok : BOOLEAN]
    /\ toServer \in Seq(Requests)
    /\ toClient \in Seq(Answers)
    /\ fd = "open" /\ (result = [op |-> "auth", ok |-> TRUE]
                       \/ \E k \in 1 .. Len(toClient) : toClient[k] = Frame("auth", TRUE))
         => Bound
    /\ fd = "open" /\ rebinding # {} =>
          /\ toServer # <<>> /\ Head(toServer).id = "auth"
          /\ \E i \in issued : /\ i.token = Head(toServer).arg
                               /\ PlainText(i.account) => rebinding = {i.account}

CcInv == TokensInv /\ WireInv

LEMMA VerifiesIssued ==
  ASSUME TokensInv, NEW i \in issued
  PROVE  /\ PlainText(i.account) =>
              verify(secret.connd, i.token, now) =
                {IF secret.account = secret.connd /\ now <= i.exp THEN i.account ELSE NoAccount}
         /\ secret.account # secret.connd => verify(secret.connd, i.token, now) = {NoAccount}
<1>1. secret.account = AccountKey /\ secret.account \in Byte /\ secret.connd \in Byte
  <2>1. secret.account = AccountKey /\ secret.connd \in Keys
    BY DEF TokensInv
  <2>2. AccountKey \in Byte /\ \A k \in Keys : k \in Byte
    BY TokenAssumption DEF Byte
  <2> QED BY <2>1, <2>2, Zenon
<1>2. secret.account = secret.connd => secret.connd # NoSecret
  <2>1. AccountKey \in 1 .. 255
    BY TokenAssumption
  <2> QED BY <1>1, <2>1 DEF NoSecret
<1>3. i.account \in Seq(Byte) /\ i.exp \in Byte /\ i.token = signJwt(secret.account, i.account, i.exp)
  BY DEF TokensInv
<1>4. /\ PlainText(i.account) =>
           verify(secret.connd, i.token, now) =
             {IF secret.account = secret.connd /\ secret.connd # NoSecret /\ now <= i.exp
              THEN i.account ELSE NoAccount}
      /\ secret.account # secret.connd => verify(secret.connd, i.token, now) = {NoAccount}
  BY <1>1, <1>3, TokenVerifies
<1> QED BY <1>2, <1>4

LEMMA CcAccepted == CcInv => Accepted
<1> SUFFICES ASSUME CcInv PROVE Accepted
  OBVIOUS
<1>1. IssuedVerifies
  BY VerifiesIssued DEF IssuedVerifies, CcInv
<1>2. AuthTrue
  <2> SUFFICES ASSUME result.op = "auth", result.ok, fd = "open" PROVE Bound
    BY DEF AuthTrue, Bound, BoundFor
  <2>1. result = [op |-> "auth", ok |-> TRUE]
    BY DEF CcInv, WireInv
  <2> QED BY <2>1 DEF CcInv, WireInv
<1> QED BY <1>1, <1>2 DEF Accepted

Ops == {"none", "apply", "auth", "heart"}

LEMMA CcBegins == ClientInit => CcInv
<1> SUFFICES ASSUME ClientInit PROVE CcInv
  OBVIOUS
<1>1. TokensInv
  BY TokenAssumption DEF ClientInit, TokensInv
<1>2. WireInv
  BY DEF ClientInit, WireInv, Requests
<1> QED BY <1>1, <1>2 DEF CcInv

\* What was said on a connection is said no more when it is closed.
LEMMA CcConnects ==
  ASSUME CcInv, connect \/ disconnect \/ serverCloses
  PROVE  CcInv'
<1>1. TokensInv'
  BY DEF CcInv, TokensInv, connect, disconnect, serverCloses, pastVars, Unbind
<1>2. WireInv'
  <2>1. toServer' = <<>> /\ result' = [op |-> "none", ok |-> FALSE] /\ rebinding' = {}
    BY DEF connect, disconnect, serverCloses, Unbind
  <2>2. CASE connect \/ disconnect
    <3>1. toClient' = <<>> /\ op' = "none" /\ fd' \in {"none", "open"}
      BY <2>2 DEF connect, disconnect
    <3> QED BY <2>1, <3>1 DEF WireInv
  <2>3. CASE serverCloses
    BY <2>1, <2>3 DEF CcInv, WireInv, serverCloses
  <2> QED BY <2>2, <2>3 DEF CcInv
<1> QED BY <1>1, <1>2 DEF CcInv

\* Tokens are sent that the account service has signed.
LEMMA CcSends ==
  ASSUME CcInv, applyToken \/ auth \/ heart
  PROVE  CcInv'
<1>1. PICK o \in {"apply", "auth", "heart"} : \E a :
        /\ sendPack(o, a) /\ fd # "none"
        /\ o = "apply" => a \in Accounts
        /\ o = "auth" => \E i \in issued : a = i.token
        /\ o = "heart" => a = Nothing
  BY Zenon DEF applyToken, auth, heart
<1>a. PICK a :
        /\ sendPack(o, a) /\ fd # "none"
        /\ o = "apply" => a \in Accounts
        /\ o = "auth" => \E i \in issued : a = i.token
        /\ o = "heart" => a = Nothing
  BY <1>1
<1>2. /\ UNCHANGED <<now, secret, fd, result, toClient, onBus, loginVars, issued>>
      /\ op' = o
      /\ toServer' \in {toServer, Append(toServer, [id |-> o, arg |-> a])}
      /\ sentTokens' = IF o = "auth" THEN sentTokens \cup {a} ELSE sentTokens
  BY <1>a DEF sendPack, conndVars
<1>3. TokensInv'
  BY <1>a, <1>2 DEF CcInv, TokensInv
<1>4. toServer' \in Seq(Requests')
  <2>1. Requests \subseteq Requests'
    BY <1>2 DEF Requests
  <2>2. [id |-> o, arg |-> a] \in Requests'
    BY <1>a, <1>2 DEF Requests
  <2>3. toServer \in Seq(Requests')
    <3> HIDE DEF Requests
    <3> QED BY <2>1 DEF CcInv, WireInv
  <2> HIDE DEF Requests
  <2> QED BY <1>2, <2>2, <2>3
<1>5. Bound => Bound'
  BY <1>2 DEF Bound, BoundFor, loginVars
<1>b. rebinding' = rebinding /\ (toServer # <<>> => toServer' # <<>> /\ Head(toServer') = Head(toServer))
  <2> DEFINE r == [id |-> o, arg |-> a]
  <2>1. toServer \in Seq(Requests) /\ toServer' \in {toServer, Append(toServer, r)}
    BY <1>2 DEF CcInv, WireInv
  <2> HIDE DEF Requests, r
  <2>2. toServer # <<>> => toServer' # <<>> /\ Head(toServer') = Head(toServer)
    BY <2>1
  <2> QED BY <1>2, <2>2 DEF loginVars
<1>6. WireInv'
  BY <1>a, <1>2, <1>4, <1>5, <1>b DEF CcInv, WireInv
<1> QED BY <1>3, <1>6 DEF CcInv

\* The call returns true for a frame that says so, and to auth only for one of auth's.
LEMMA CcReturns ==
  ASSUME CcInv, sendFails \/ recvPack \/ recvFails
  PROVE  CcInv'
<1>1. /\ UNCHANGED <<now, secret, fd, toServer, onBus, loggedIn, raced, rebinding, issued, sentTokens>>
      /\ op' = "none"
  BY DEF sendFails, recvPack, recvFails, wireVars, conndVars, loginVars, pastVars, Return
<1>2. TokensInv'
  BY <1>1 DEF CcInv, TokensInv
<1>3. UNCHANGED <<Bound, Requests>>
  BY <1>1 DEF Bound, BoundFor, Requests
<1>4. CASE sendFails \/ recvFails
  <2>1. toClient' = toClient /\ \E o \in Ops : result' = [op |-> o, ok |-> FALSE]
    BY <1>4 DEF sendFails, recvFails, Return, wireVars, CcInv, WireInv, Ops
  <2>2. result' # [op |-> "auth", ok |-> TRUE]
    BY <2>1
  <2>3. result' \in [op : Ops, ok : BOOLEAN]
    BY <2>1
  <2> HIDE DEF Requests
  <2> QED BY <1>1, <1>2, <1>3, <2>1, <2>2, <2>3 DEF CcInv, WireInv, Ops
<1>5. CASE recvPack
  <2> DEFINE f == Head(toClient)
  <2>1. /\ toClient # <<>> /\ toClient' = Tail(toClient)
        /\ result' = [op |-> op, ok |-> Fits(f) /\ f.ok]
    BY <1>5 DEF recvPack, Return
  <2>2. f = toClient[1] /\ 1 \in 1 .. Len(toClient)
        /\ f \in Answers
    BY <2>1 DEF CcInv, WireInv
  <2>3. /\ toClient' \in Seq(Answers)
        /\ \A k \in 1 .. Len(toClient') : k + 1 \in 1 .. Len(toClient) /\ toClient'[k] = toClient[k + 1]
    BY <2>1 DEF CcInv, WireInv
  <2>4. result' \in [op : Ops, ok : BOOLEAN]
    BY <2>1, <2>2 DEF CcInv, WireInv, Ops, Fits, Answers
  <2>5. result' = [op |-> "auth", ok |-> TRUE] => f = Frame("auth", TRUE)
    BY <2>1, <2>2 DEF Fits, Frame, Answers
  <2> HIDE DEF Requests, f
  <2>6. fd' = "open" /\ (result' = [op |-> "auth", ok |-> TRUE]
                         \/ \E k \in 1 .. Len(toClient') : toClient'[k] = Frame("auth", TRUE))
          => Bound'
    BY <1>1, <1>3, <2>2, <2>3, <2>5 DEF CcInv, WireInv
  <2> QED BY <1>1, <1>2, <1>3, <2>3, <2>4, <2>6 DEF CcInv, WireInv, Ops
<1> QED BY <1>4, <1>5

LEMMA RequestGone ==
  ASSUME WireInv, toServer # <<>>
  PROVE  Tail(toServer) \in Seq(Requests) /\ Head(toServer) \in Requests
<1> HIDE DEF Requests
<1> QED BY DEF WireInv

\* What an answer to a login does to the wire.
LEMMA CcAnswers ==
  ASSUME CcInv, NEW ok \in BOOLEAN,
         UNCHANGED <<now, secret, fd, op, result, onBus, issued, sentTokens>>,
         toServer # <<>>, toServer' = Tail(toServer),
         toClient' = Append(toClient, Frame("auth", ok)),
         rebinding' = {}, ok => Bound', Bound => Bound'
  PROVE  CcInv'
<1>1. toServer' \in Seq(Requests) /\ Requests' = Requests
  <2>1. Requests' = Requests
    BY DEF Requests
  <2> QED BY <2>1, RequestGone DEF CcInv
<1>2. TokensInv'
  BY DEF CcInv, TokensInv
<1>3. WireInv'
  <2>1. toClient \in Seq(Answers)
    BY DEF CcInv, WireInv
  <2>2. Frame("auth", ok) \in Answers
    BY DEF Frame, Answers
  <2>3. /\ toClient' \in Seq(Answers)
        /\ Len(toClient') = Len(toClient) + 1
        /\ \A k \in 1 .. Len(toClient) : toClient'[k] = toClient[k]
        /\ toClient'[Len(toClient) + 1] = Frame("auth", ok)
    BY <2>1, <2>2
  <2>4. ~ok => Frame("auth", ok) # Frame("auth", TRUE)
    BY DEF Frame
  <2>5. ~ok /\ fd = "open" /\ (result' = [op |-> "auth", ok |-> TRUE]
                     \/ \E k \in 1 .. Len(toClient') : toClient'[k] = Frame("auth", TRUE))
          => Bound'
    <3> SUFFICES ASSUME ~ok, fd = "open", result' = [op |-> "auth", ok |-> TRUE]
                     \/ \E k \in 1 .. Len(toClient') : toClient'[k] = Frame("auth", TRUE)
                 PROVE Bound
      OBVIOUS
    <3>1. CASE result' = [op |-> "auth", ok |-> TRUE]
      BY <3>1 DEF CcInv, WireInv
    <3>2. ASSUME NEW k \in 1 .. Len(toClient'), toClient'[k] = Frame("auth", TRUE)
          PROVE  Bound
      <4>1. k \in 1 .. Len(toClient) /\ toClient[k] = Frame("auth", TRUE)
        <5> DEFINE no == Frame("auth", ok)  yes == Frame("auth", TRUE)
        <5>1. /\ no # yes /\ toClient'[Len(toClient) + 1] = no /\ toClient'[k] = yes
              /\ Len(toClient') = Len(toClient) + 1
              /\ \A n \in 1 .. Len(toClient) : toClient'[n] = toClient[n]
          BY <2>3, <2>4, <3>2, Zenon
        <5> HIDE DEF no, yes
        <5>2. k \in 1 .. Len(toClient) /\ toClient[k] = yes
          BY <2>1, <5>1
        <5> QED BY <5>2 DEF yes
      <4> QED BY <4>1 DEF CcInv, WireInv
    <3> QED BY <3>1, <3>2
  <2> HIDE DEF Requests
  <2> QED BY <1>1, <2>3, <2>5 DEF CcInv, WireInv
<1> QED BY <1>2, <1>3 DEF CcInv

\* connd answers success only for a token that was sent on the connection, and then has
\* the connection for that account, or kicks the one that has it first.
LEMMA CcLogin ==
  ASSUME CcInv, handleLogin
  PROVE  CcInv'
<1> DEFINE token == Head(toServer).arg
<1>1. /\ UNCHANGED <<now, secret, fd, op, result, onBus, raced, issued, sentTokens>>
      /\ fd = "open" /\ toServer # <<>> /\ Head(toServer).id = "auth" /\ rebinding = {}
  BY DEF handleLogin, Arrived, clientVars, pastVars
<1>2. Head(toServer) \in Requests
  BY <1>1, RequestGone DEF CcInv
<1>3. token \in sentTokens
  BY <1>1, <1>2 DEF Requests
<1>4. PICK i \in issued : i.token = token
  BY <1>3 DEF CcInv, TokensInv
<1>5. PICK who \in verify(secret.connd, token, now) :
        IF who \in held \ {NoAccount}
        THEN /\ rebinding' = {who} /\ UNCHANGED <<toServer, toClient, loggedIn>>
        ELSE /\ loggedIn' = IF who # NoAccount THEN {who} ELSE loggedIn
             /\ toClient' = Append(toClient, Frame("auth", who # NoAccount))
             /\ toServer' = Tail(toServer)
             /\ UNCHANGED rebinding
  BY Zenon DEF handleLogin
<1>6. PlainText(i.account) => who \in {i.account, NoAccount}
  BY <1>4, <1>5, VerifiesIssued DEF CcInv
<1> HIDE DEF token
<1>7. CASE who \notin held \ {NoAccount}
  <2>1. who # NoAccount => Bound'
    <3>1. who # NoAccount => (PlainText(i.account) => loggedIn' = {i.account})
      BY <1>5, <1>6, <1>7
    <3>2. who # NoAccount => BoundFor(i)'
      BY <1>1, <1>3, <1>4, <3>1 DEF BoundFor
    <3> QED BY <1>1, <3>2 DEF Bound
  <2>2. who = NoAccount => (Bound => Bound')
    BY <1>1, <1>5, <1>7 DEF Bound, BoundFor
  <2> QED BY <1>1, <1>5, <1>7, <2>1, <2>2, CcAnswers
<1>8. CASE who \in held \ {NoAccount}
  <2>1. UNCHANGED <<toServer, toClient, loggedIn>> /\ rebinding' = {who}
    BY <1>5, <1>8
  <2>2. UNCHANGED <<Bound, Requests>>
    BY <1>1, <2>1 DEF Bound, BoundFor, Requests
  <2>3. i \in issued' /\ i.token = Head(toServer').arg /\ (PlainText(i.account) => rebinding' = {i.account})
    BY <1>1, <1>4, <1>6, <1>8, <2>1 DEF token
  <2>4. TokensInv'
    BY <1>1 DEF CcInv, TokensInv
  <2> HIDE DEF Requests
  <2>5. WireInv'
    BY <1>1, <2>1, <2>2, <2>3 DEF CcInv, WireInv
  <2> QED BY <2>4, <2>5 DEF CcInv
<1> QED BY <1>7, <1>8, Zenon

\* The second on_auth_ok binds the connection, or another has the account.
LEMMA CcRebinds ==
  ASSUME CcInv, rebind
  PROVE  CcInv'
<1>1. /\ UNCHANGED <<now, secret, fd, op, result, onBus, issued, sentTokens>>
      /\ fd = "open" /\ rebinding # {} /\ rebinding' = {}
      /\ toClient' = Append(toClient, Frame("auth", TRUE)) /\ toServer' = Tail(toServer)
  BY DEF rebind, clientVars, pastVars
<1>2. PICK i \in issued : /\ toServer # <<>> /\ Head(toServer).id = "auth"
                          /\ i.token = Head(toServer).arg
                          /\ PlainText(i.account) => rebinding = {i.account}
  BY <1>1 DEF CcInv, WireInv
<1>3. i.token \in sentTokens
  <2>1. Head(toServer) \in Requests
    BY <1>2, RequestGone DEF CcInv
  <2> QED BY <1>2, <2>1 DEF Requests
<1>4. PlainText(i.account) => loggedIn' = {i.account} \/ i.account \in raced'
  BY <1>2 DEF rebind
<1>5. Bound'
  BY <1>1, <1>3, <1>4 DEF Bound, BoundFor
<1> QED BY <1>1, <1>2, <1>5, CcAnswers

\* The other requests tell nothing of a login.
LEMMA CcOthers ==
  ASSUME CcInv, onHeart \/ forwardToAccount
  PROVE  CcInv'
<1>1. /\ UNCHANGED <<now, secret, fd, op, result, loggedIn, raced, rebinding, issued, sentTokens>>
      /\ toClient' \in {toClient, Append(toClient, Frame("heart", TRUE))}
      /\ toServer' = Tail(toServer) /\ toServer # <<>> /\ rebinding = {}
  BY DEF onHeart, forwardToAccount, Arrived, clientVars, conndVars, loginVars, pastVars
<1>2. toServer' \in Seq(Requests) /\ Requests' = Requests
  <2>1. Requests' = Requests
    BY <1>1 DEF Requests
  <2> QED BY <1>1, <2>1, RequestGone DEF CcInv
<1>3. onBus' \subseteq Accounts
  <2>1. Head(toServer) \in Requests
    BY <1>1, RequestGone DEF CcInv
  <2>2. onBus \subseteq Accounts
    BY DEF CcInv, TokensInv
  <2>3. CASE onHeart
    BY <2>2, <2>3 DEF onHeart, conndVars
  <2>4. CASE forwardToAccount
    <3>1. Head(toServer).id = "apply" /\ onBus' = onBus \cup {Head(toServer).arg}
      BY <2>4 DEF forwardToAccount, Arrived
    <3> QED BY <2>1, <2>2, <3>1 DEF Requests
  <2> QED BY <2>3, <2>4
<1>4. TokensInv'
  BY <1>1, <1>3 DEF CcInv, TokensInv
<1>5. Bound' = Bound
  BY <1>1 DEF Bound, BoundFor
<1>6. toClient' \in Seq(Answers)
      /\ \A k \in 1 .. Len(toClient') : toClient'[k] = Frame("auth", TRUE)
            => k \in 1 .. Len(toClient) /\ toClient[k] = Frame("auth", TRUE)
  <2>1. Frame("heart", TRUE) # Frame("auth", TRUE)
        /\ Frame("heart", TRUE) \in Answers
    BY DEF Frame, Answers
  <2>2. toClient \in Seq(Answers)
    BY DEF CcInv, WireInv
  <2>3. CASE toClient' = toClient
    BY <2>2, <2>3
  <2>4. CASE toClient' = Append(toClient, Frame("heart", TRUE))
    <3> DEFINE beat == Frame("heart", TRUE)  yes == Frame("auth", TRUE)
    <3>1. toClient' = Append(toClient, beat) /\ beat # yes /\ beat \in Answers
      BY <2>1, <2>4
    <3> HIDE DEF beat, yes
    <3>2. toClient' \in Seq(Answers)
          /\ \A k \in 1 .. Len(toClient') : toClient'[k] = yes
                => k \in 1 .. Len(toClient) /\ toClient[k] = yes
      BY <2>2, <3>1
    <3> QED BY <3>2 DEF yes
  <2> QED BY <1>1, <2>3, <2>4
<1> HIDE DEF Requests
<1>7. WireInv'
  BY <1>1, <1>2, <1>5, <1>6 DEF CcInv, WireInv
<1> QED BY <1>4, <1>7 DEF CcInv

\* What the account service signs has an account and an expiry that the token carries.
LEMMA CcSigns ==
  ASSUME CcInv, accountSigns \/ busLoses \/ tick \/ othersLogin
  PROVE  CcInv'
<1>1. /\ UNCHANGED <<secret, fd, op, result, toServer, toClient, loggedIn, raced, rebinding, sentTokens>>
      /\ onBus' \subseteq onBus
  BY DEF accountSigns, busLoses, tick, othersLogin, clientVars, wireVars, conndVars, loginVars, pastVars
<1>2. issued \subseteq issued'
      /\ \A i \in issued' : \/ i \in issued
                            \/ /\ i.account \in Seq(Byte) /\ i.exp \in Byte
                               /\ i.token = signJwt(secret.account, i.account, i.exp)
  <2>1. CASE accountSigns
    <3> DEFINE exp == now + Ttl
               made(a) == onApplyToken(secret.account, a, exp)
               New(a) == {[account |-> a, exp |-> exp, token |-> t] : t \in made(a)}
    <3>1. PICK a \in onBus : issued' = issued \cup New(a)
      BY <2>1, Zenon DEF accountSigns
    <3>2. a \in Seq(Byte)
      BY TokenAssumption DEF CcInv, TokensInv, Byte
    <3>3. exp \in Byte
      BY TokenAssumption DEF CcInv, TokensInv, Byte
    <3>4. made(a) \subseteq {signJwt(secret.account, a, exp)}
      BY DEF onApplyToken
    <3> HIDE DEF exp, made
    <3>5. \A i \in New(a) : i.account = a /\ i.exp = exp /\ i.token = signJwt(secret.account, a, exp)
      BY <3>4
    <3> HIDE DEF New
    <3> QED BY <3>1, <3>2, <3>3, <3>5
  <2>2. CASE busLoses \/ tick \/ othersLogin
    BY <2>2 DEF busLoses, tick, othersLogin, pastVars, CcInv, TokensInv
  <2> QED BY <2>1, <2>2
<1>3. now' \in 0 .. MaxTime
  BY TokenAssumption DEF CcInv, TokensInv, accountSigns, busLoses, tick, othersLogin
<1>4. TokensInv'
  BY <1>1, <1>2, <1>3 DEF CcInv, TokensInv
<1>5. Requests' = Requests
  BY <1>1 DEF Requests
<1>6. Bound => Bound'
  BY <1>1, <1>2 DEF Bound, BoundFor
<1> HIDE DEF Requests
<1>a. fd = "open" /\ rebinding # {} =>
        /\ toServer # <<>> /\ Head(toServer).id = "auth"
        /\ \E i \in issued' : /\ i.token = Head(toServer).arg
                              /\ PlainText(i.account) => rebinding = {i.account}
  BY <1>2 DEF CcInv, WireInv
<1>b. fd = "open" /\ (result = [op |-> "auth", ok |-> TRUE]
                      \/ \E k \in 1 .. Len(toClient) : toClient[k] = Frame("auth", TRUE)) => Bound'
  BY <1>6 DEF CcInv, WireInv
<1>7. WireInv'
  BY <1>1, <1>5, <1>a, <1>b DEF CcInv, WireInv
<1> QED BY <1>4, <1>7 DEF CcInv

\* A token the account service has signed (AccountService.cpp) for an account that needs no
\* escapes in JSON is good at connd (JwtAuthProvider.cpp) for that account until it expires,
\* and none is good if the two have different secrets; and when auth (client/main.cpp) has
\* returned true, a token of the service was sent on this connection, which connd then has
\* for the account, unless another connection took that between the kick and the second
\* on_auth_ok (ConndMsgDispatcher.cpp).  For any accounts, secrets, requests and connections.
THEOREM AcceptedCorrect == ClientSpec => []Accepted
<1>1. CcInv /\ [ClientNext]_ccVars => CcInv'
  <2> SUFFICES ASSUME CcInv, [ClientNext]_ccVars PROVE CcInv'
    OBVIOUS
  <2>1. CASE UNCHANGED ccVars
    <3>1. UNCHANGED <<TokensInv, Bound, Requests>>
      BY <2>1 DEF TokensInv, Bound, BoundFor, Requests, ccVars, clientVars, wireVars, conndVars, loginVars, pastVars
    <3> HIDE DEF Requests
    <3>2. WireInv'
      BY <2>1, <3>1 DEF CcInv, WireInv, ccVars, clientVars, wireVars, conndVars, loginVars, pastVars
    <3> QED BY <3>1, <3>2 DEF CcInv
  <2> QED BY <2>1, CcConnects, CcSends, CcReturns, CcLogin, CcRebinds, CcOthers, CcSigns DEF ClientNext
<1> QED BY <1>1, CcBegins, CcAccepted, PTL DEF ClientSpec
=============================================================================
