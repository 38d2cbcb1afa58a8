--------------------------- MODULE SessionManager ---------------------------
(***************************************************************************)
(* connd/SessionManager: which connection is logged in as which user.      *)
(* Every operation holds mu_, so each is one step.  A session is its       *)
(* user_id; authed is set together with it and never reset.                *)
(***************************************************************************)
CONSTANTS Conns, Users,
          Anonymous,   \* user_id of a session that has not logged in
          None

ASSUME SessionAssumption == /\ {Anonymous, None} \cap (Users \cup Conns) = {}
                            /\ Anonymous # None

VARIABLES sessions_,      \* conn_id -> its session, None when there is none
          user_to_conn_   \* user_id -> the connection it is logged in on, or None

sessionvars == <<sessions_, user_to_conn_>>

SessionInit == /\ sessions_ = [c \in Conns |-> None]
               /\ user_to_conn_ = [u \in Users |-> None]

on_connect(c) == /\ sessions_' = [sessions_ EXCEPT ![c] = Anonymous]
                 /\ UNCHANGED user_to_conn_

\* Mutant of the next: the mapping is left behind.
DisconnectKeepsMapping(c) == /\ sessions_' = [sessions_ EXCEPT ![c] = None]
                             /\ UNCHANGED user_to_conn_

\* The mapping of the user goes too if it still names this connection.
on_disconnect(c) ==
  /\ sessions_' = [sessions_ EXCEPT ![c] = None]
  /\ user_to_conn_' = [u \in Users |-> IF u = sessions_[c] /\ user_to_conn_[u] = c
                                       THEN None ELSE user_to_conn_[u]]

\* The older connection of the user, which on_auth_ok returns instead of binding.
OldConn(c, u) == IF user_to_conn_[u] = c THEN None ELSE user_to_conn_[u]

\* Mutant of the next: it binds although the user has another connection.
AuthBindsAtOnce(c, u) ==
  IF sessions_[c] # None
  THEN /\ sessions_' = [sessions_ EXCEPT ![c] = u]
       /\ user_to_conn_' = [user_to_conn_ EXCEPT ![u] = c]
  ELSE UNCHANGED sessionvars

\* Whether a session ends up bound depends on both maps.
on_auth_ok(c, u) ==
  IF OldConn(c, u) = None /\ sessions_[c] # None
  THEN /\ sessions_' = [sessions_ EXCEPT ![c] = u]
       /\ user_to_conn_' = [user_to_conn_ EXCEPT ![u] = c]
  ELSE UNCHANGED sessionvars

\* The types of the two maps.
SessionTypeOK == /\ sessions_ \in [Conns -> Users \cup {Anonymous, None}]
                 /\ user_to_conn_ \in [Users -> Conns \cup {None}]

\* A user is logged in on one connection at most, whichever threads log it in.
OneSession == \A c, d \in Conns :
                sessions_[c] \in Users /\ sessions_[c] = sessions_[d] => c = d

\* Why: the connection that is logged in as a user is the one the user is mapped to.
Mapped == \A c \in Conns : sessions_[c] \in Users => user_to_conn_[sessions_[c]] = c
=============================================================================
