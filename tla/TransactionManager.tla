------------------------- MODULE TransactionManager -------------------------
(***************************************************************************)
(* The database proxy at work: the handlers of DBProxyHandler.cpp, run by  *)
(* several coroutine threads at once, the transactions of                  *)
(* TransactionManager.cpp, which outlive a request, and the tick thread    *)
(* that rolls the overdue ones back (DBProxyService.h).                    *)
(*                                                                         *)
(* A request names a transaction or 0.  Statements are told apart only by  *)
(* the transaction they name: pending holds those names.                   *)
(***************************************************************************)
EXTENDS MySQLConnectionPool

VARIABLES
    req,           \* req[t]: the request thread t serves, or NoRequest
    nextTx,        \* tx_id_gen_
    overdue,       \* the transactions past their deadline
    doomed         \* expired of checkTimeouts: what is left of it

txVars == <<nextTx, overdue, doomed>>
vars == <<poolVars, checkVars, conn, txs, pc, dbVars, req, txVars>>

Requests ==
    [op : {"statement"}, tx : {0} \cup Txs]
       \cup [op : {"commit", "rollback"}, tx : Txs]
       \cup [op : {"begin"}, tx : {0}]

NoRequest == [op |-> "none", tx |-> 0]

Labels == {"free", "acquire", "create", "wait", "use", "record", "drop", "lookup",
           "finalize", "finish", "tick", "check", "collect", "sweep"}

TypeOK ==
    /\ idle \in Seq(Conns) /\ checking \in Seq(Conns) /\ healthy \in Seq(Conns)
    /\ all \subseteq Conns
    /\ creating \in Nat /\ active \in Nat
    /\ conn \in [Threads -> Conns \cup {None}]
    /\ DOMAIN txs \subseteq 1 .. nextTx - 1
    /\ \A x \in DOMAIN txs : txs[x] \in Conns
    /\ pc \in [Threads -> Labels]
    /\ session \in [Conns -> {"auto", "open", "gone"}]
    /\ pending \in [Conns -> SUBSET ({0} \cup Txs)]
    /\ doubt \in [Txs -> {"none", "lost", "told"}]
    /\ req \in [Threads -> Requests \cup {NoRequest}]
    /\ nextTx \in Nat
    /\ overdue \subseteq Txs /\ doomed \subseteq Txs
    /\ unended \subseteq Conns

Init ==
    /\ PoolInit
    /\ txs = << >>
    /\ pc = [t \in Threads |-> IF t = Tick THEN "tick" ELSE "free"]
    /\ req = [t \in Threads |-> NoRequest]
    /\ nextTx = 1
    /\ overdue = {}
    /\ doomed = {}

\* Where a thread goes when it is done with a request.
Done(t) == IF t = Tick THEN "sweep" ELSE "free"

Forget(t) == req' = [req EXCEPT ![t] = NoRequest]

-----------------------------------------------------------------------------
(* The handlers.                                                            *)

\* A client knows the ids it was given.  Begins stop when the ids do.
Receive(w, r) ==
    /\ pc[w] = "free"
    /\ r.tx < nextTx
    /\ r.op = "begin" =>
          nextTx + Cardinality({v \in Workers : pc[v] # "free" /\ req[v].op = "begin"}) \in Txs
    /\ req' = [req EXCEPT ![w] = r]
    /\ pc' = [pc EXCEPT ![w] = IF r.op \in {"commit", "rollback"} THEN "finalize"
                               ELSE IF r.tx # 0 THEN "lookup"
                               ELSE "acquire"]
    /\ UNCHANGED <<poolVars, checkVars, conn, txs, dbVars, txVars>>

\* getConnection: under the manager's mutex, a copy of the reference.
GetConnection(w) ==
    /\ pc[w] = "lookup"
    /\ LET x == req[w].tx
       IN  IF x \in DOMAIN txs \ overdue
           THEN /\ conn' = [conn EXCEPT ![w] = txs[x]]
                /\ pc' = [pc EXCEPT ![w] = "use"]
                /\ UNCHANGED <<doubt, req>>
           ELSE /\ doubt' = [doubt EXCEPT ![x] = IF x \in overdue THEN "told" ELSE @]
                /\ pc' = [pc EXCEPT ![w] = "free"]
                /\ Forget(w)
                /\ UNCHANGED conn
    /\ UNCHANGED <<poolVars, checkVars, txs, session, pending, unended, txVars>>

\* acquire gives up: the request is answered with an error.
AcquireTimeout(w) ==
    /\ pc[w] = "wait"
    /\ pc' = [pc EXCEPT ![w] = "free"]
    /\ Forget(w)
    /\ UNCHANGED <<poolVars, checkVars, conn, txs, dbVars, txVars>>

\* query or execute, with the reference the handler holds.
Statement(w) ==
    /\ pc[w] = "use"
    /\ req[w].op = "statement"
    /\ \/ RunStatement(conn[w], req[w].tx)
       \/ CallFails(conn[w], req[w].tx)
    /\ pc' = [pc EXCEPT ![w] = "drop"]
    /\ UNCHANGED <<poolVars, checkVars, conn, txs, req, txVars>>

BeginTransaction(w) ==
    /\ pc[w] = "use"
    /\ req[w].op = "begin"
    /\ \/ /\ StartTransaction(conn[w])
          /\ pc' = [pc EXCEPT ![w] = "record"]
       \/ /\ CallFails(conn[w], 0)
          /\ pc' = [pc EXCEPT ![w] = "drop"]
    /\ UNCHANGED <<poolVars, checkVars, conn, txs, req, txVars>>

\* begin moves its reference into active_txs_.
Record(w) ==
    /\ pc[w] = "record"
    /\ txs' = [x \in DOMAIN txs \cup {nextTx} |-> IF x = nextTx THEN conn[w] ELSE txs[x]]
    /\ nextTx' = nextTx + 1
    /\ conn' = [conn EXCEPT ![w] = None]
    /\ pc' = [pc EXCEPT ![w] = "free"]
    /\ Forget(w)
    /\ UNCHANGED <<poolVars, checkVars, dbVars, overdue, doomed>>

FinalizeKeep(t) ==
    /\ pc[t] = "finalize"
    /\ LET x == req[t].tx
       IN  IF x \in DOMAIN txs
           THEN /\ conn' = [conn EXCEPT ![t] = txs[x]]
                /\ pc' = [pc EXCEPT ![t] = "finish"]
                /\ UNCHANGED req
           ELSE /\ pc' = [pc EXCEPT ![t] = Done(t)]
                /\ Forget(t)
                /\ UNCHANGED conn
    /\ UNCHANGED <<poolVars, checkVars, txs, dbVars, txVars>>

\* finalize, its critical section: the entry goes, the reference is moved out.
FinalizeTake(t) ==
    /\ pc[t] = "finalize"
    /\ LET x == req[t].tx
       IN  IF x \in DOMAIN txs
           THEN /\ conn' = [conn EXCEPT ![t] = txs[x]]
                /\ txs' = [y \in DOMAIN txs \ {x} |-> txs[y]]
                /\ overdue' = overdue \ {x}
                /\ pc' = [pc EXCEPT ![t] = "finish"]
                /\ UNCHANGED req
           ELSE /\ pc' = [pc EXCEPT ![t] = Done(t)]
                /\ Forget(t)
                /\ UNCHANGED <<conn, txs, overdue>>
    /\ UNCHANGED <<poolVars, checkVars, dbVars, nextTx, doomed>>

\* COMMIT or ROLLBACK, after the mutex is free again.  Whether it fails or not, the
\* connection goes back as it is.
FinalizeRun(t) ==
    /\ pc[t] = "finish"
    /\ \/ Finish(conn[t], req[t].tx, req[t].op = "commit")
       \/ EndFails(conn[t], req[t].tx)
    /\ pc' = [pc EXCEPT ![t] = "drop"]
    /\ UNCHANGED <<poolVars, checkVars, conn, txs, req, txVars>>

\* The reference of the handler, or of finalize, goes out of scope.
Leave(t) ==
    /\ pc[t] = "drop"
    /\ Drop(t, Done(t))
    /\ Forget(t)
    /\ UNCHANGED txVars

-----------------------------------------------------------------------------
(* The tick thread: every thirtieth time a health check, then the overdue   *)
(* transactions, collected under the mutex and rolled back one by one.      *)

DeadlinePasses(x) ==
    /\ x \in DOMAIN txs \ overdue
    /\ overdue' = overdue \cup {x}
    /\ UNCHANGED <<poolVars, checkVars, conn, txs, pc, dbVars, req, nextTx, doomed>>

Collect ==
    /\ pc[Tick] \in {"tick", "collect"}
    /\ doomed' = overdue
    /\ pc' = [pc EXCEPT ![Tick] = "sweep"]
    /\ UNCHANGED <<poolVars, checkVars, conn, txs, dbVars, req, nextTx, overdue>>

Sweep ==
    /\ pc[Tick] = "sweep"
    /\ \/ \E x \in doomed :
             /\ doomed' = doomed \ {x}
             /\ req' = [req EXCEPT ![Tick] = [op |-> "rollback", tx |-> x]]
             /\ pc' = [pc EXCEPT ![Tick] = "finalize"]
       \/ /\ doomed = {}
          /\ pc' = [pc EXCEPT ![Tick] = "tick"]
          /\ UNCHANGED <<doomed, req>>
    /\ UNCHANGED <<poolVars, checkVars, conn, txs, dbVars, nextTx, overdue>>

-----------------------------------------------------------------------------
PoolStep(A) == A /\ UNCHANGED <<req, txVars>>

Serve(w) ==
    \/ PoolStep(Acquire(w)) \/ PoolStep(CreateSucceeds(w)) \/ PoolStep(CreateFails(w))
    \/ AcquireTimeout(w) \/ GetConnection(w)
    \/ Statement(w) \/ BeginTransaction(w) \/ Record(w)
    \/ FinalizeTake(w) \/ FinalizeRun(w) \/ Leave(w)

OnTick ==
    \/ PoolStep(HealthTake) \/ PoolStep(HealthTry) \/ PoolStep(HealthReturn)
    \/ Collect \/ Sweep
    \/ FinalizeTake(Tick) \/ FinalizeRun(Tick) \/ Leave(Tick)

Next ==
    \/ \E w \in Workers, r \in Requests : Receive(w, r)
    \/ \E w \in Workers : Serve(w)
    \/ OnTick
    \/ \E x \in Txs : DeadlinePasses(x)
    \/ \E c \in Conns : PoolStep(Lose(c))

Spec == Init /\ [][Next]_vars

-----------------------------------------------------------------------------
(* Where every COMMIT and ROLLBACK so far was carried out, a connection's    *)
(* open transaction only ever holds the work of one transaction, never a    *)
(* statement that named none, and the connection is in the pool only with   *)
(* its transaction over: it is not lent to another while a late statement   *)
(* still has it.  One whose COMMIT or ROLLBACK failed is in the pool as it  *)
(* is, until the next START TRANSACTION or health check (TransactionManager *)
(* .cpp:35-84).  Every variable has its type.                               *)
Separate ==
    /\ TypeOK
    /\ \A c \in Conns \ unended :
          /\ 0 \notin pending[c]
          /\ \A x, y \in pending[c] : x = y
    /\ \A i \in DOMAIN idle : session[idle[i]] = "auto" \/ idle[i] \in unended

(* TransactionManager.h:10-12: a transaction has a connection of its own    *)
(* from the pool, and requests use that one.                                *)
PoolClean == \A i \in DOMAIN idle : session[idle[i]] = "auto"

(* When COMMIT is about to succeed, and no request of the transaction was    *)
(* refused, all its answered work is in what is committed: none was undone  *)
(* before, though the server may drop the connection and the tick may try   *)
(* to roll back at any moment (TransactionManager.cpp:55-84).               *)
CommitMeansAll ==
    \A w \in Workers :
       LET x == req[w].tx
       IN  pc[w] = "finish" /\ req[w].op = "commit" /\ session[conn[w]] # "gone" =>
              /\ doubt[x] # "lost"
              /\ \A c \in Conns \ {conn[w]} : x \notin pending[c]
=============================================================================
