------------------------- MODULE ConndMsgDispatcher -------------------------
(***************************************************************************)
(* connd/ConndMsgDispatcher over the SessionManager, called by the three   *)
(* listeners.  Each listener has one thread that accepts connections and   *)
(* handles their messages; connections of the TCP and the KCP listener are *)
(* also closed by a timer thread of theirs, those of the WebSocket         *)
(* listener by its own thread.  A login is one step per lock it takes.     *)
(*                                                                         *)
(* The KCP listener handles a message with its mutex mu_ locked.  The TCP  *)
(* server's conn_mutex_ is left out: held over callbacks that take nothing *)
(* but the session lock, it delays a step and forbids none.  Replies are   *)
(* taken by the socket here; one that is not leaves the TCP server's       *)
(* thread waiting for itself (TcpServer.cpp:310), which TcpServer models.  *)
(***************************************************************************)
EXTENDS SessionManager, Naturals

CONSTANTS Listeners, Ws, Kcp,   \* Ws and Kcp need not be among the listeners
          Listener,             \* conn_id -> its listener (findListener)
          MaxBatch              \* bound: messages that are read with a first one

ASSUME ListenerAssumption == Listener \in [Conns -> Listeners]
ASSUME BatchAssumption == MaxBatch \in Nat

VARIABLES
  used,               \* the conn_ids given out: a listener counts them up
  open,               \* the connections in the tables of the listeners
  closing,            \* out of the tables, close_handler_ not called yet
  pc, conn, user, old,\* each listener's thread: step and locals of handleLogin
  batch,              \* how many more messages of conn it has read
  switched            \* history: the connections that logged in as a second user

threadvars == <<pc, conn, user, old, batch>>
vars == <<sessionvars, used, open, closing, threadvars, switched>>

Init == /\ SessionInit
        /\ used = {} /\ open = {} /\ closing = {}
        /\ pc = [l \in Listeners |-> "idle"]
        /\ conn = [l \in Listeners |-> None]
        /\ user = [l \in Listeners |-> None]
        /\ old = [l \in Listeners |-> None]
        /\ batch = [l \in Listeners |-> 0]
        /\ switched = {}

Goto(l, step) == pc' = [pc EXCEPT ![l] = step]

\* The thread of a listener has handled all that it has read.
Free(l) == pc[l] = "idle" /\ batch[l] = 0

\* mu_ of the KCP listener is held by its thread while it handles what it has read.
Unlocked(l) == l = Kcp => Free(l)

\* A new connection (for the WebSocket listener: after its handshake).
Connect(c) == /\ Free(Listener[c])
              /\ c \notin used
              /\ used' = used \cup {c} /\ open' = open \cup {c}
              /\ on_connect(c)
              /\ UNCHANGED <<closing, threadvars, switched>>

----------------------------------------------------------------------------
(* A connection ends: closed by the peer, or silent for too long.          *)

\* Mutant of the next: it stays in the table.
UnlinkLater(c) == /\ c \in open
                  /\ Listener[c] \in {Ws, Kcp} => Free(Listener[c])
                  /\ closing' = closing \cup {c}
                  /\ UNCHANGED <<sessionvars, used, open, threadvars, switched>>

Unlink(c) == /\ c \in open
             /\ Listener[c] \in {Ws, Kcp} => Free(Listener[c])
             /\ open' = open \ {c}
             /\ closing' = closing \cup {c}
             /\ UNCHANGED <<sessionvars, used, threadvars, switched>>

\* Mutant of the next: the session manager is not told.
CloseUntold(c) == /\ c \in closing
                  /\ closing' = closing \ {c}
                  /\ UNCHANGED <<sessionvars, used, open, threadvars, switched>>

CloseHandler(c) == /\ c \in closing
                   /\ closing' = closing \ {c}
                   /\ on_disconnect(c)
                   /\ UNCHANGED <<used, open, threadvars, switched>>

----------------------------------------------------------------------------
(* A message.                                                              *)

\* CS_PLAYER_AUTH with a token of u; u = None stands for the messages that are only
\* answered: a heartbeat and a login whose token is refused.  What was read with a message
\* is handled after it, though the connection may have been closed meanwhile.
Message(c, u) ==
  LET l == Listener[c]
  IN  /\ pc[l] = "idle"
      /\ IF batch[l] = 0
         THEN /\ c \in open
              /\ l = Ws => \A d \in closing : Listener[d] # Ws
              /\ \E n \in 0 .. MaxBatch : batch' = [batch EXCEPT ![l] = n]
         ELSE c = conn[l] /\ batch' = [batch EXCEPT ![l] = @ - 1]
      /\ Goto(l, IF u = None THEN "reply" ELSE "auth")
      /\ conn' = [conn EXCEPT ![l] = c] /\ user' = [user EXCEPT ![l] = u]
      /\ UNCHANGED <<sessionvars, used, open, closing, old, switched>>

\* What on_auth_ok binds, and whether the session was another user's.
Bind(c, u) == /\ on_auth_ok(c, u)
              /\ switched' = IF sessions_[c] \in Users \ {u} /\ OldConn(c, u) = None
                             THEN switched \cup {c} ELSE switched

Auth(l) == /\ pc[l] = "auth"
           /\ Bind(conn[l], user[l])
           /\ old' = [old EXCEPT ![l] = OldConn(conn[l], user[l])]
           /\ Goto(l, IF OldConn(conn[l], user[l]) = None THEN "reply" ELSE "kick")
           /\ UNCHANGED <<used, open, closing, conn, user, batch>>

\* Mutant of the next: the old connection is left open.
KickForgetsToClose(l) == /\ pc[l] = "kick"
                         /\ Goto(l, "drop")
                         /\ UNCHANGED <<sessionvars, used, open, closing, conn, user, old,
                                        batch, switched>>

\* old_listener->close_conn: a connection that is no longer in the table is let be.
Kick(l) == /\ pc[l] = "kick"
           /\ Unlocked(Listener[old[l]])
           /\ open' = open \ {old[l]}
           /\ Goto(l, IF old[l] \in open THEN "close_handler" ELSE "drop")
           /\ UNCHANGED <<sessionvars, used, closing, conn, user, old, batch, switched>>

\* close_conn calls close_handler_, which ends the session ...
KickCloseHandler(l) == /\ pc[l] = "close_handler"
                       /\ on_disconnect(old[l])
                       /\ Goto(l, "drop")
                       /\ UNCHANGED <<used, open, closing, conn, user, old, batch, switched>>

\* ... and handleLogin ends it once more.
Drop(l) == /\ pc[l] = "drop"
           /\ on_disconnect(old[l])
           /\ Goto(l, "rebind")
           /\ UNCHANGED <<used, open, closing, conn, user, old, batch, switched>>

\* The second on_auth_ok, whose result is not looked at.
Rebind(l) == /\ pc[l] = "rebind"
             /\ Bind(conn[l], user[l])
             /\ Goto(l, "reply")
             /\ UNCHANGED <<used, open, closing, conn, user, old, batch>>

\* listener->send, which takes mu_ of the KCP listener, and the end of the handler.
Reply(l) == /\ pc[l] = "reply"
            /\ Unlocked(Listener[conn[l]])
            /\ Goto(l, "idle")
            /\ conn' = IF batch[l] = 0 THEN [conn EXCEPT ![l] = None] ELSE conn
            /\ user' = [user EXCEPT ![l] = None]
            /\ old' = [old EXCEPT ![l] = None]
            /\ UNCHANGED <<sessionvars, used, open, closing, batch, switched>>

----------------------------------------------------------------------------
Handler(l) == \/ Auth(l) \/ Kick(l) \/ KickCloseHandler(l) \/ Drop(l) \/ Rebind(l)
              \/ Reply(l)

\* The next message of those that were read together.
NextMessage(l) == /\ batch[l] > 0
                  /\ \E u \in Users \cup {None} : Message(conn[l], u)

Next == \/ \E c \in Conns : Connect(c) \/ Unlink(c) \/ CloseHandler(c)
        \/ \E c \in Conns, u \in Users \cup {None} : Message(c, u)
        \/ \E l \in Listeners : Handler(l)

\* Every thread goes on running; nobody has to connect, send or hang up.
Fairness == /\ \A l \in Listeners : WF_vars(Handler(l) \/ NextMessage(l))
            /\ \A c \in Conns : WF_vars(CloseHandler(c))

Spec == Init /\ [][Next]_vars /\ Fairness

----------------------------------------------------------------------------
\* The types of the state; a connection is closed after it has left its table.
TypeOK == /\ SessionTypeOK
          /\ used \subseteq Conns /\ open \subseteq used
          /\ closing \subseteq used \ open
          /\ pc \in [Listeners -> {"idle", "auth", "kick", "close_handler", "drop",
                                   "rebind", "reply"}]
          /\ conn \in [Listeners -> Conns \cup {None}]
          /\ user \in [Listeners -> Users \cup {None}]
          /\ old \in [Listeners -> Conns \cup {None}]
          /\ batch \in [Listeners -> 0 .. MaxBatch]
          /\ switched \subseteq Conns

\* A user's mapping names a connection that is logged in as that user, unless the
\* connection has since logged in as someone else.
NoStaleMapping == \A u \in Users :
                    user_to_conn_[u] # None =>
                      \/ sessions_[user_to_conn_[u]] = u
                      \/ user_to_conn_[u] \in switched

\* An open connection never loses its session, whoever logs in meanwhile.
OpenKeepsSession ==
  [][\A c \in open : sessions_[c] # None /\ sessions_'[c] = None => c \notin open']_vars

\* The session of a connection that has ended goes, and nothing brings it back.
ClosedForgotten == \A c \in Conns : (c \in used \ open) ~> [](sessions_[c] = None)

\* A handler comes to its end: IListener.h:40-46 has send() give the packet to a
\* connection and return 0 or an error, for every protocol, and KcpListener.cpp:319 keeps
\* callbacks out of the lock of the listener.
HandlersReturn == \A l \in Listeners : (pc[l] # "idle") ~> (pc[l] = "idle")

\* SessionManager.h:32, test_connd_dispatcher.cpp:471: a login that is answered with
\* success, on a connection that is still open, has logged the connection in.
SuccessMeansAuthed ==
  [][\A l \in Listeners : Reply(l) /\ user[l] # None /\ conn[l] \in open
                            => sessions_[conn[l]] = user[l]]_vars
=============================================================================
