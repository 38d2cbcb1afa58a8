------------------------ MODULE MySQLConnectionPool ------------------------
(***************************************************************************)
(* The pool of MySQL connections of the database proxy                     *)
(* (src/server/dbproxy/MySQLConnectionPool.cpp), one action per critical   *)
(* section of its mutex, and the server's side of a connection, as far as  *)
(* the proxy can tell (external).  The threads that call it, and the       *)
(* transactions that keep connections, are in TransactionManager.          *)
(*                                                                         *)
(* A borrowed connection travels as a shared_ptr whose deleter returns it: *)
(* it goes back when the LAST holder drops it, so the references, conn and *)
(* txs, are part of the state.                                             *)
(***************************************************************************)
EXTENDS Integers, Sequences, FiniteSets

CONSTANTS
    Workers,       \* the coroutine threads, which run the handlers
    Tick,          \* the thread of onTick
    Conns,         \* the MySQLConnection objects there can be
    None,          \* no connection
    PoolSize, MaxPool,
    Txs            \* the transaction ids there can be: 1 .. n

ASSUME PoolAssumption ==
    /\ PoolSize \in Nat \ {0}
    /\ MaxPool \in Nat
    /\ PoolSize <= MaxPool      \* as configured; the code does not check it
    /\ Tick \notin Workers
    /\ (Workers \cup {Tick}) \cap Nat = {}   \* a thread is no transaction id
    /\ None \notin Conns
    /\ 1 .. MaxPool + 1 \subseteq Conns
    /\ Txs \subseteq Nat \ {0}

VARIABLES
    idle,          \* idle_: the queue of free connections
    all,           \* all_: the connections that exist
    creating,      \* creating_
    active,        \* active_count_
    checking,      \* to_check of healthCheck: what is left of it
    healthy,       \* healthy of healthCheck
    conn,          \* conn[t]: the reference thread t holds
    txs,           \* active_txs_, as the connection of each transaction in it
    pc,            \* pc[t]: what thread t does next
    session,       \* session[c]: "auto", "open" or "gone" (see below)
    pending,       \* pending[c]: who has work in c's open transaction
    doubt,         \* doubt[x]: "lost" when answered work of transaction x was
                   \* undone, "told" when a request of x was refused, or it was
                   \* committed, or "none"
    unended        \* history: the connections on which a COMMIT or ROLLBACK failed
                   \* and whose session is still the one it failed in

poolVars == <<idle, all, creating, active>>
checkVars == <<checking, healthy>>
dbVars == <<session, pending, doubt, unended>>

Threads == Workers \cup {Tick}

-----------------------------------------------------------------------------
(* The server, and the client library.  session[c] is "open" between        *)
(* START TRANSACTION and its end, and "auto" otherwise: a statement is then *)
(* a transaction of its own.  A connection the server closes in the middle  *)
(* of a transaction is "gone": the next call on it fails.  Outside one, the *)
(* library reconnects unseen (MYSQL_OPT_RECONNECT).                         *)

Undone(c) ==
    [x \in Txs |-> IF x \in pending[c] /\ doubt[x] = "none" THEN "lost" ELSE doubt[x]]

Told(x) == [y \in Txs |-> IF y = x THEN "told" ELSE doubt[y]]

Lose(c) ==
    /\ session[c] = "open"
    /\ session' = [session EXCEPT ![c] = "gone"]
    /\ doubt' = Undone(c)
    /\ pending' = [pending EXCEPT ![c] = {}]
    /\ UNCHANGED <<poolVars, checkVars, conn, txs, pc, unended>>

\* START TRANSACTION ends the transaction that is open, if one is.
StartTransaction(c) ==
    /\ session[c] # "gone"
    /\ session' = [session EXCEPT ![c] = "open"]
    /\ pending' = [pending EXCEPT ![c] = {}]
    /\ unended' = unended \ {c}
    /\ UNCHANGED doubt

\* A statement somebody who says he is x runs on c.
RunStatement(c, x) ==
    /\ session[c] # "gone"
    /\ pending' = IF session[c] = "open"
                  THEN [pending EXCEPT ![c] = @ \cup {x}]
                  ELSE pending
    /\ UNCHANGED <<session, doubt, unended>>

\* COMMIT of x, or ROLLBACK.
Finish(c, x, commit) ==
    /\ session[c] # "gone"
    /\ session' = [session EXCEPT ![c] = "auto"]
    /\ doubt' = IF commit THEN Told(x) ELSE Undone(c)
    /\ pending' = [pending EXCEPT ![c] = {}]
    /\ unended' = unended \ {c}

\* A call for transaction x that fails; the library forgets the lost session, one that
\* lives stays as it is.
Fails(c, x) ==
    /\ session' = [session EXCEPT ![c] = IF @ = "gone" THEN "auto" ELSE @]
    /\ doubt' = Told(x)
    /\ UNCHANGED pending

CallFails(c, x) ==
    /\ Fails(c, x)
    /\ unended' = IF session[c] = "gone" THEN unended \ {c} ELSE unended

\* COMMIT or ROLLBACK fails: the server refuses it, or the handle is out of step, with a
\* result nobody fetched or another thread in the middle of a call.
EndFails(c, x) ==
    /\ Fails(c, x)
    /\ unended' = IF session[c] = "open" THEN unended \cup {c} ELSE unended \ {c}

\* The connection is closed, and perhaps made again: the server rolls back.
Renew(c) ==
    /\ session' = [session EXCEPT ![c] = "auto"]
    /\ doubt' = Undone(c)
    /\ pending' = [pending EXCEPT ![c] = {}]
    /\ unended' = unended \ {c}

-----------------------------------------------------------------------------
(* The pool.                                                                *)

\* The constructor makes PoolSize connections, or those it can; onInit does
\* not start a proxy without any.
PoolInit ==
    /\ \E n \in 1 .. PoolSize :
          /\ idle = [i \in 1 .. n |-> i]
          /\ all = 1 .. n
    /\ creating = 0
    /\ active = 0
    /\ checking = <<>>
    /\ healthy = <<>>
    /\ conn = [t \in Threads |-> None]
    /\ session = [c \in Conns |-> "auto"]
    /\ pending = [c \in Conns |-> {}]
    /\ doubt = [x \in Txs |-> "none"]
    /\ unended = {}

Lend(t, queue) ==
    /\ conn' = [conn EXCEPT ![t] = Head(queue)]
    /\ idle' = Tail(queue)
    /\ active' = active + 1
    /\ pc' = [pc EXCEPT ![t] = "use"]

MayGrowUncounted == Cardinality(all) < MaxPool

MayGrow == Cardinality(all) + creating < MaxPool

\* The loop of acquire: the first idle connection, or a new one, or wait.
Acquire(t) ==
    /\ pc[t] = "acquire"
    /\ \/ /\ idle # <<>>
          /\ Lend(t, idle)
          /\ UNCHANGED creating
       \/ /\ idle = <<>>
          /\ MayGrow
          /\ creating' = creating + 1
          /\ pc' = [pc EXCEPT ![t] = "create"]
          /\ UNCHANGED <<idle, active, conn>>
       \/ /\ idle = <<>>
          /\ ~MayGrow
          /\ pc' = [pc EXCEPT ![t] = "wait"]
          /\ UNCHANGED <<idle, creating, active, conn>>
    /\ UNCHANGED <<all, checkVars, txs, dbVars>>

\* A connection that did not exist before, connected to the server.
createOne == CHOOSE c \in Conns \ all : TRUE

\* The new connection goes to the end of the queue, the first one is taken.
CreateSucceeds(t) ==
    /\ pc[t] = "create"
    /\ all' = all \cup {createOne}
    /\ Lend(t, Append(idle, createOne))
    /\ creating' = creating - 1
    /\ UNCHANGED <<checkVars, txs, dbVars>>

\* No second look at idle_, and nobody is told that there is room again.
CreateFails(t) ==
    /\ pc[t] = "create"
    /\ creating' = creating - 1
    /\ pc' = [pc EXCEPT ![t] = "wait"]
    /\ UNCHANGED <<idle, all, active, checkVars, conn, txs, dbVars>>

\* notify_one, when the pc of the caller becomes label.
Notify(t, label) ==
    LET waiters == {w \in Workers : pc[w] = "wait"}
    IN  IF waiters = {}
        THEN pc' = [pc EXCEPT ![t] = label]
        ELSE \E w \in waiters :
                pc' = [pc EXCEPT ![t] = label, ![w] = "acquire"]

SharedBy(c) == {t \in Threads : conn[t] = c} \cup {x \in DOMAIN txs : txs[x] = c}

\* As with a plain pointer: whoever is done gives the connection back.
DropAtOnce(t, label) ==
    /\ conn' = [conn EXCEPT ![t] = None]
    /\ active' = active - 1
    /\ idle' = Append(idle, conn[t])
    /\ Notify(t, label)
    /\ UNCHANGED <<all, creating, checkVars, txs, dbVars>>

\* Thread t lets go of its reference; the last one is the deleter's, release.
Drop(t, label) ==
    /\ conn' = [conn EXCEPT ![t] = None]
    /\ IF SharedBy(conn[t]) = {t}
       THEN /\ active' = active - 1
            /\ idle' = Append(idle, conn[t])
            /\ Notify(t, label)
       ELSE /\ pc' = [pc EXCEPT ![t] = label]
            /\ UNCHANGED <<active, idle>>
    /\ UNCHANGED <<all, creating, checkVars, txs, dbVars>>

-----------------------------------------------------------------------------
(* healthCheck: the idle connections are taken out, tried one by one with   *)
(* the mutex free, and put back; nobody is notified of them.                *)

HealthPeek ==
    /\ pc[Tick] = "tick"
    /\ checking' = idle
    /\ pc' = [pc EXCEPT ![Tick] = "check"]
    /\ UNCHANGED <<idle, all, creating, active, healthy, conn, txs, dbVars>>

HealthTake ==
    /\ pc[Tick] = "tick"
    /\ checking' = idle
    /\ idle' = <<>>
    /\ pc' = [pc EXCEPT ![Tick] = "check"]
    /\ UNCHANGED <<all, creating, active, healthy, conn, txs, dbVars>>

\* ping succeeds, unseen on a new session if the old one was gone, or reconnect does.
Answers(c) ==
    /\ healthy' = Append(healthy, c)
    /\ UNCHANGED all
    /\ \/ session[c] # "gone" /\ UNCHANGED dbVars
       \/ Renew(c)

\* Neither does: the connection is deleted.
Dead(c) == all' = all \ {c} /\ Renew(c) /\ UNCHANGED healthy

HealthTry ==
    /\ pc[Tick] = "check"
    /\ checking # <<>>
    /\ checking' = Tail(checking)
    /\ Answers(Head(checking)) \/ Dead(Head(checking))
    /\ UNCHANGED <<idle, creating, active, conn, txs, pc>>

HealthReturn ==
    /\ pc[Tick] = "check"
    /\ checking = <<>>
    /\ idle' = idle \o healthy
    /\ healthy' = <<>>
    /\ pc' = [pc EXCEPT ![Tick] = "collect"]
    /\ UNCHANGED <<all, creating, active, checking, conn, txs, dbVars>>

-----------------------------------------------------------------------------
Occurrences(s, c) == Cardinality({i \in DOMAIN s : s[i] = c})

Lent(c) == SharedBy(c) # {}

(* The pool never has, with those being made, more connections than its     *)
(* maximum, whatever the threads that grow it at the same time do           *)
(* (MySQLConnectionPool.cpp:76-98, creating_).                              *)
PoolBounded == Cardinality(all) + creating <= MaxPool

(* Each connection the pool owns is in exactly one place: the idle queue,   *)
(* healthCheck's hands, or lent; so no connection leaks, none is handed to  *)
(* two borrowers, and none that was deleted is reachable.  active_count_    *)
(* counts those that are lent (MySQLConnectionPool.cpp:37-50, 109-147).     *)
OnePlace ==
    /\ \A c \in Conns :
          Occurrences(idle, c) + Occurrences(checking, c) + Occurrences(healthy, c)
             + (IF Lent(c) THEN 1 ELSE 0)
          = (IF c \in all THEN 1 ELSE 0)
    /\ active = Cardinality({c \in Conns : Lent(c)})
=============================================================================
