--------------------------- MODULE TcpServerProofs ---------------------------
(***************************************************************************)
(* Proofs that the maps of TcpServer and the kernel's descriptors agree,   *)
(* for any number of connections and descriptors, however accepts, events, *)
(* kicks and the rest of the process interleave.                           *)
(*                                                                         *)
(* MapsAgree is not inductive: that erasing an entry never takes another   *)
(* connection's needs to be known of the thread between close() and erase, *)
(* and that an unknown descriptor is never a connection's, of the accept   *)
(* thread between the two locks of handleClientEvent.                      *)
(*                                                                         *)
(* The last part is about the other server of a process, the terminal      *)
(* (TerminalInterface), and the threads its stop() waits for.              *)
(***************************************************************************)
EXTENDS TcpServer, TerminalInterface, WellFoundedInduction, TLAPS

Steps == {"idle", "add", "insert", "unknown", "close unknown", "read", "lock",
          "close", "erase", "tell", "self-locked"}

\* Only the accept thread accepts, reads and meets unknown descriptors.
StepsOK ==
    /\ pc \in [Threads -> Steps]
    /\ \A t \in Threads :
         pc[t] \in {"add", "insert", "unknown", "close unknown", "read"} => t = "accept"

\* A thread between closing the descriptor f of c and erasing its entries.
Erasing(c, f) == \E t \in Threads : pc[t] = "erase" /\ conn[t] = c /\ fd[t] = f

\* An open descriptor belongs to one connection, which is in the table with its
\* entry, or still in the hands of the accept thread.
OpenInv ==
    \A c \in Conns : connFd[c] # None =>
        /\ c < nextId /\ owner[connFd[c]] = c
        /\ \/ c \in connMap /\ fdToConn[connFd[c]] = c
           \/ pc["accept"] \in {"add", "insert"} /\ conn["accept"] = c

\* A connection in the table is open or being erased.
TableInv ==
    \A c \in connMap : c < nextId /\ (connFd[c] # None \/ \E f \in Fds : Erasing(c, f))

\* An entry leads to a connection in the table that has the descriptor, or had it
\* and is being erased.
EntryInv ==
    \A f \in Fds : fdToConn[f] # None =>
        /\ fdToConn[f] \in connMap
        /\ connFd[fdToConn[f]] = f \/ Erasing(fdToConn[f], f)

\* What a thread knows of the connection and the descriptor it is at.
Hand(t) ==
    /\ pc[t] \in {"add", "insert"} =>
          conn[t] \in Conns \ connMap /\ fd[t] \in Fds /\ connFd[conn[t]] = fd[t]
    /\ pc[t] = "close" =>
          conn[t] \in connMap /\ fd[t] \in Fds /\ connFd[conn[t]] = fd[t]
    /\ pc[t] = "erase" =>
          /\ conn[t] \in connMap /\ connFd[conn[t]] = None
          /\ fd[t] \in Fds /\ fdToConn[fd[t]] = conn[t]
    /\ pc[t] \in {"unknown", "close unknown"} => fd[t] \in Fds /\ fdToConn[fd[t]] = None

HandInv == \A t \in Threads : Hand(t)

IInv == TypeOK /\ StepsOK /\ OpenInv /\ TableInv /\ EntryInv /\ HandInv

----------------------------------------------------------------------------
\* The lowest free descriptor is a free descriptor.
LEMMA LeastIsOne ==
  ASSUME NEW S, S \subseteq Nat, S # {}
  PROVE  Min(S) \in S
<1> DEFINE R == {ss \in Nat \X Nat : ss[1] < ss[2]}
<1>1. ASSUME NEW a \in Nat, NEW b \in Nat PROVE <<a, b>> \in R <=> a < b
  OBVIOUS
<1>2. IsWellFoundedOn(R, Nat)
  BY NatLessThanWellFounded DEF OpToRel
<1> HIDE DEF R
<1>3. PICK x \in S : \A y \in S : ~(<<y, x>> \in R)
  BY <1>2, WFMin
<1>4. ASSUME NEW y \in S PROVE x <= y
  <2>1. x \in Nat /\ y \in Nat
    OBVIOUS
  <2>2. ~(y < x)
    BY <1>1, <1>3, <2>1
  <2> QED BY <2>1, <2>2
<1> QED BY <1>4 DEF Min

\* None is not a descriptor, and no connection is Rest, Free or None.
LEMMA Distinct ==
  /\ None \notin Fds
  /\ None \notin Conns /\ Rest \notin Conns /\ Free \notin Conns
  /\ Rest # Free /\ Conns \subseteq Nat
BY ServerAssumption DEF Conns, None, Rest, Free

\* A thread goes from one step to another.
LEMMA Goes ==
  ASSUME pc \in [Threads -> Steps], NEW t \in Threads, NEW a, NEW b \in Steps, Go(t, a, b)
  PROVE  /\ pc' \in [Threads -> Steps] /\ pc[t] = a
         /\ \A u \in Threads : pc'[u] = IF u = t THEN b ELSE pc[u]
BY DEF Go

\* It turns to a connection and a descriptor.
LEMMA Turns ==
  ASSUME conn \in [Threads -> Conns \cup {None}], fd \in [Threads -> Fds \cup {None}],
         NEW t \in Threads, NEW c \in Conns \cup {None}, NEW f \in Fds \cup {None}, At(t, c, f)
  PROVE  /\ conn' \in [Threads -> Conns \cup {None}] /\ fd' \in [Threads -> Fds \cup {None}]
         /\ \A u \in Threads : /\ conn'[u] = IF u = t THEN c ELSE conn[u]
                               /\ fd'[u] = IF u = t THEN f ELSE fd[u]
BY DEF At

\* Where the threads are.
LEMMA Places ==
  ASSUME IInv
  PROVE  /\ pc \in [Threads -> Steps]
         /\ conn \in [Threads -> Conns \cup {None}] /\ fd \in [Threads -> Fds \cup {None}]
         /\ connMap \subseteq Conns /\ connFd \in [Conns -> Fds \cup {None}]
         /\ fdToConn \in [Fds -> Conns \cup {None}]
         /\ \A t \in Threads : Hand(t)
BY DEF IInv, TypeOK, StepsOK, HandInv

\* The steps in which a thread relies on what the maps say.
Relying == {"add", "insert", "unknown", "close unknown", "close", "erase"}

\* A step that leaves the maps and the threads that rely on them alone.
LEMMA QuietKeeps ==
  ASSUME IInv, pc' \in [Threads -> Steps],
         UNCHANGED <<owner, connMap, fdToConn, connFd, nextId>>,
         \A u \in Threads : \/ pc'[u] = pc[u] /\ conn'[u] = conn[u] /\ fd'[u] = fd[u]
                            \/ pc[u] \notin Relying /\ pc'[u] \notin Relying
  PROVE  OpenInv' /\ TableInv' /\ EntryInv' /\ HandInv'
<1>1. \A u \in Threads, s \in Relying :
        /\ pc[u] = s <=> pc'[u] = s
        /\ pc[u] = s => conn'[u] = conn[u] /\ fd'[u] = fd[u]
  OBVIOUS
<1>2. \A c, f : Erasing(c, f) <=> Erasing(c, f)'
  BY <1>1 DEF Erasing, Relying
<1>3. OpenInv'
  BY <1>1 DEF IInv, OpenInv, Threads, Relying
<1>4. TableInv' /\ EntryInv'
  BY <1>2 DEF IInv, TableInv, EntryInv
<1>5. HandInv'
  <2> SUFFICES ASSUME NEW u \in Threads, pc'[u] \in Relying
               PROVE  Hand(u)'
    BY DEF HandInv, Hand, Relying
  <2> QED BY <1>1 DEF IInv, HandInv, Hand, Relying
<1> QED BY <1>3, <1>4, <1>5

\* The initial states.
LEMMA Initially == Init => IInv
<1> SUFFICES ASSUME Init PROVE IInv
  OBVIOUS
<1>1. TypeOK
  BY Distinct, ServerAssumption DEF Init, TypeOK, Conns, Threads
<1>2. StepsOK
  BY DEF Init, StepsOK, Threads, Steps
<1>3. OpenInv /\ TableInv /\ EntryInv /\ HandInv
  BY DEF Init, OpenInv, TableInv, EntryInv, HandInv, Hand, Threads, None
<1> QED BY <1>1, <1>2, <1>3 DEF IInv

----------------------------------------------------------------------------
(* removeConnection.                                                       *)

\* The steps of the thread that has conn_mutex_.
Locking == {"close", "erase", "tell", "self-locked"}

\* It is one thread.
LEMMA OneHolder ==
  ASSUME IInv
  PROVE  /\ \A t \in Threads : mutex = t <=> pc[t] \in Locking
         /\ mutex = "none" => \A u \in Threads : pc[u] \notin Locking
         /\ \A t, u \in Threads : pc[t] \in Locking /\ pc[u] \in Locking => t = u
<1>1. \A t \in Threads : mutex = t <=> pc[t] \in Locking
  BY DEF IInv, TypeOK, Locking
<1>2. "none" \notin Threads
  BY DEF Threads
<1>3. ASSUME NEW t \in Threads, NEW u \in Threads, pc[t] \in Locking, pc[u] \in Locking
      PROVE  t = u
  <2>1. mutex = t
    BY <1>1, <1>3
  <2>2. mutex = u
    BY <1>1, <1>3
  <2> QED BY <2>1, <2>2
<1> QED BY <1>1, <1>2, <1>3

\* A thread takes conn_mutex_ and looks its connection up.
LEMMA LockKeeps ==
  ASSUME IInv, NEW t \in Threads, Lock(t)
  PROVE  IInv'
<1> DEFINE c == conn[t]
           found == c \in connMap
           step == IF found THEN "close" ELSE "tell"
           f == IF found THEN connFd[c] ELSE None
<1>1. step \in Steps /\ c \in Conns \cup {None} /\ f \in Fds \cup {None}
  BY DEF IInv, TypeOK, Steps
<1>2. Go(t, "lock", step) /\ At(t, c, f) /\ mutex = "none" /\ mutex' = t
  BY DEF Lock
<1>3. UNCHANGED <<owner, monitored, callbacks, edge, unread, gone, connMap, fdToConn, connFd, nextId,
                  batch, doomed, silent>>
  BY DEF Lock, kernel, peers, maps
<1> HIDE DEF step, f, c
<1>4. /\ pc' \in [Threads -> Steps] /\ pc[t] = "lock"
      /\ \A u \in Threads : pc'[u] = IF u = t THEN step ELSE pc[u]
  BY <1>1, <1>2, Goes, Places
<1>5. /\ conn' \in [Threads -> Conns \cup {None}] /\ fd' \in [Threads -> Fds \cup {None}]
      /\ \A u \in Threads : /\ conn'[u] = IF u = t THEN c ELSE conn[u]
                            /\ fd'[u] = IF u = t THEN f ELSE fd[u]
  BY <1>1, <1>2, Turns, Places
<1>6. step \in {"close", "tell"} /\ (step = "close" <=> found)
  BY DEF step
<1>7. TypeOK'
  <2>1. \A u \in Threads : mutex' = u <=> pc'[u] \in Locking
    BY <1>2, <1>4, <1>6, OneHolder DEF Locking
  <2> QED BY <1>3, <1>5, <2>1 DEF IInv, TypeOK, Locking
<1>8. StepsOK'
  BY <1>4, <1>6 DEF IInv, StepsOK
<1>9. \A u \in Threads : pc[u] # "erase" /\ pc'[u] # "erase"
  BY <1>2, <1>4, <1>6, OneHolder DEF Locking
<1>10. OpenInv'
  BY <1>3, <1>4, <1>5, <1>6 DEF IInv, OpenInv, Threads
<1>11. TableInv' /\ EntryInv'
  BY <1>3, <1>9 DEF IInv, TableInv, EntryInv, Erasing
<1>12. found => c \in Conns /\ c \in connMap /\ connFd[c] # None /\ connFd[c] \in Fds /\ f = connFd[c]
  BY <1>9, <1>1 DEF IInv, TypeOK, TableInv, Erasing, f
<1>13. HandInv'
  BY <1>3, <1>4, <1>5, <1>6, <1>9, <1>12 DEF IInv, HandInv, Hand
<1> QED BY <1>7, <1>8, <1>10, <1>11, <1>13 DEF IInv

\* It closes the descriptor, and the kernel may give it out again at once.
LEMMA CloseKeeps ==
  ASSUME IInv, NEW t \in Threads, Close(t)
  PROVE  IInv'
<1> DEFINE c == conn[t]
           f == fd[t]
<1>1. Go(t, "close", "erase") /\ "erase" \in Steps
  BY DEF Close, Steps
<1>2. /\ pc' \in [Threads -> Steps] /\ pc[t] = "close"
      /\ \A u \in Threads : pc'[u] = IF u = t THEN "erase" ELSE pc[u]
  BY <1>1, Goes, Places
<1>3. /\ UNCHANGED <<callbacks, edge, unread, gone, connMap, fdToConn, nextId, mutex, batch, doomed,
                     silent, conn, fd>>
      /\ owner' = [owner EXCEPT ![f] = Free] /\ monitored' = monitored \ {f}
      /\ connFd' = [connFd EXCEPT ![c] = None]
  BY DEF Close, Stay, peers
<1>4. c \in Conns /\ c \in connMap /\ f \in Fds /\ connFd[c] = f /\ f # None
  BY <1>2, Distinct, Places DEF Hand
<1>5. owner[f] = c /\ fdToConn[f] = c /\ c < nextId
  BY <1>2, <1>4, OneHolder DEF IInv, OpenInv, HandInv, Hand, Threads
<1>6. /\ \A d \in Conns : connFd'[d] = IF d = c THEN None ELSE connFd[d]
      /\ \A g \in Fds : owner'[g] = IF g = f THEN Free ELSE owner[g]
  BY <1>3, <1>4 DEF IInv, TypeOK
<1>7. \A u \in Threads : pc[u] # "erase" /\ (pc'[u] = "erase" <=> u = t)
  BY <1>2, OneHolder DEF Locking
<1>8. TypeOK'
  <2>1. \A u \in Threads : mutex' = u <=> pc'[u] \in Locking
    BY <1>2, <1>3, OneHolder DEF Locking
  <2>2. owner' \in [Fds -> Conns \cup {Rest, Free}] /\ connFd' \in [Conns -> Fds \cup {None}]
    BY <1>3 DEF IInv, TypeOK
  <2> QED BY <1>3, <2>1, <2>2 DEF IInv, TypeOK, Locking
<1>9. StepsOK'
  BY <1>2 DEF IInv, StepsOK
<1>10. OpenInv'
  BY <1>2, <1>3, <1>5, <1>6 DEF IInv, OpenInv, TypeOK, Threads
<1>11. \A d \in Conns, g \in Fds : Erasing(d, g)' <=> d = c /\ g = f
  BY <1>3, <1>7 DEF Erasing
<1>12. \A d, g : ~Erasing(d, g)
  BY <1>7 DEF Erasing
<1>13. TableInv'
  BY <1>3, <1>4, <1>5, <1>6, <1>11, <1>12 DEF IInv, TableInv, TypeOK
<1>14. EntryInv'
  BY <1>3, <1>4, <1>6, <1>11, <1>12 DEF IInv, EntryInv, TypeOK
<1>15. HandInv'
  <2> SUFFICES ASSUME NEW u \in Threads
               PROVE  Hand(u)'
    BY DEF HandInv
  <2>1. CASE u = t
    BY <1>2, <1>3, <1>4, <1>5, <1>6, <2>1 DEF Hand
  <2>2. CASE u # t
    <3>1. pc[u] \notin Locking /\ pc'[u] = pc[u]
      BY <1>2, <2>2, OneHolder DEF Locking
    <3> QED BY <1>3, <1>4, <1>6, <3>1, Places DEF Hand, Locking
  <2> QED BY <2>1, <2>2
<1> QED BY <1>8, <1>9, <1>10, <1>13, <1>14, <1>15 DEF IInv

\* It erases the entries of the connection, and no other's.
LEMMA EraseKeeps ==
  ASSUME IInv, NEW t \in Threads, Erase(t)
  PROVE  IInv'
<1> DEFINE c == conn[t]
           f == fd[t]
<1>1. Go(t, "erase", "tell") /\ "tell" \in Steps
  BY DEF Erase, Steps
<1>2. /\ pc' \in [Threads -> Steps] /\ pc[t] = "erase"
      /\ \A u \in Threads : pc'[u] = IF u = t THEN "tell" ELSE pc[u]
  BY <1>1, Goes, Places
<1>3. /\ UNCHANGED <<owner, edge, unread, gone, connFd, nextId, mutex, batch, doomed, silent, conn, fd>>
      /\ monitored' \subseteq monitored /\ callbacks' \subseteq callbacks
      /\ fdToConn' = [fdToConn EXCEPT ![f] = None]
      /\ connMap' = connMap \ {c}
  BY DEF Erase, Stay, peers, remove
<1>4. c \in Conns /\ c \in connMap /\ connFd[c] = None /\ f \in Fds /\ fdToConn[f] = c
  BY <1>2, Places DEF Hand
<1>5. \A g \in Fds : fdToConn'[g] = IF g = f THEN None ELSE fdToConn[g]
  BY <1>3, <1>4 DEF IInv, TypeOK
<1>6. \A u \in Threads : (pc[u] = "erase" <=> u = t) /\ pc'[u] # "erase"
  BY <1>2, OneHolder DEF Locking
<1>7. TypeOK'
  <2>1. \A u \in Threads : mutex' = u <=> pc'[u] \in Locking
    BY <1>2, <1>3, OneHolder DEF Locking
  <2>2. fdToConn' \in [Fds -> Conns \cup {None}]
    BY <1>3 DEF IInv, TypeOK
  <2> QED BY <1>3, <2>1, <2>2 DEF IInv, TypeOK, Locking
<1>8. StepsOK'
  BY <1>2 DEF IInv, StepsOK
<1>9. OpenInv'
  BY <1>2, <1>3, <1>4, <1>5 DEF IInv, OpenInv, TypeOK, Threads
<1>10. \A d, g : Erasing(d, g) <=> d = c /\ g = f
  BY <1>6 DEF Erasing
<1>11. TableInv'
  BY <1>3, <1>10 DEF IInv, TableInv, TypeOK
<1>12. EntryInv'
  <2> SUFFICES ASSUME NEW g \in Fds, fdToConn'[g] # None
               PROVE  fdToConn'[g] \in connMap' /\ connFd'[fdToConn'[g]] = g
    BY DEF EntryInv
  <2>1. g # f /\ fdToConn'[g] = fdToConn[g] /\ fdToConn[g] \in connMap
    BY <1>5 DEF IInv, EntryInv
  <2>2. connFd[fdToConn[g]] = g
    BY <1>5, <1>10, <2>1 DEF IInv, EntryInv
  <2>3. fdToConn[g] # c
    BY <1>4, <2>2, Distinct
  <2> QED BY <1>3, <2>1, <2>2, <2>3
<1>13. HandInv'
  <2> SUFFICES ASSUME NEW u \in Threads, u # t
               PROVE  Hand(u)'
    BY <1>2 DEF HandInv, Hand
  <2>1. pc[u] \notin Locking /\ pc'[u] = pc[u]
    BY <1>2, OneHolder DEF Locking
  <2> QED BY <1>3, <1>5, <2>1, Places DEF Hand, Locking
<1> QED BY <1>7, <1>8, <1>9, <1>11, <1>12, <1>13 DEF IInv

\* It tells the application and unlocks.
LEMMA TellKeeps ==
  ASSUME IInv, NEW t \in Threads, Tell(t)
  PROVE  IInv'
<1>1. Go(t, "tell", "idle") /\ "idle" \in Steps /\ At(t, None, None)
  BY DEF Tell, Steps
<1>2. /\ pc' \in [Threads -> Steps] /\ pc[t] = "tell"
      /\ \A u \in Threads : pc'[u] = IF u = t THEN "idle" ELSE pc[u]
  BY <1>1, Goes, Places
<1>3. /\ conn' \in [Threads -> Conns \cup {None}] /\ fd' \in [Threads -> Fds \cup {None}]
      /\ \A u \in Threads : /\ conn'[u] = IF u = t THEN None ELSE conn[u]
                            /\ fd'[u] = IF u = t THEN None ELSE fd[u]
  BY <1>1, Turns, Places
<1>4. /\ UNCHANGED <<owner, monitored, callbacks, edge, unread, gone, connMap, fdToConn, connFd,
                     nextId, batch, doomed, silent>>
      /\ mutex' = "none"
  BY DEF Tell, kernel, peers, maps
<1>5. TypeOK'
  <2>1. \A u \in Threads : mutex' = u <=> pc'[u] \in Locking
    BY <1>2, <1>4, OneHolder DEF Locking, Threads
  <2> QED BY <1>3, <1>4, <2>1 DEF IInv, TypeOK, Locking
<1>6. StepsOK'
  BY <1>2 DEF IInv, StepsOK
<1>7. OpenInv' /\ TableInv' /\ EntryInv' /\ HandInv'
  <2>1. \A u \in Threads : \/ pc'[u] = pc[u] /\ conn'[u] = conn[u] /\ fd'[u] = fd[u]
                           \/ pc[u] \notin Relying /\ pc'[u] \notin Relying
    BY <1>2, <1>3 DEF Relying
  <2> QED BY <1>2, <1>4, <2>1, QuietKeeps
<1> QED BY <1>5, <1>6, <1>7 DEF IInv

----------------------------------------------------------------------------
(* The accept thread.                                                      *)

\* A new connection gets an id and a descriptor that nobody has.
LEMMA AcceptKeeps ==
  ASSUME IInv, accept4
  PROVE  IInv'
<1> DEFINE f == Min(FreeFds)
<1>1. Go("accept", "idle", "add") /\ "add" \in Steps /\ "accept" \in Threads
  BY DEF accept4, Steps, Threads
<1>2. f \in Fds /\ owner[f] = Free
  <2>1. FreeFds \subseteq Nat /\ FreeFds # {}
    BY ServerAssumption DEF accept4, FreeFds
  <2>2. f \in FreeFds
    BY <2>1, LeastIsOne
  <2> QED BY <2>2 DEF FreeFds
<1>3. /\ nextId \in Conns /\ nextId' = nextId + 1
      /\ owner' = [owner EXCEPT ![f] = nextId] /\ connFd' = [connFd EXCEPT ![nextId] = f]
      /\ At("accept", nextId, f)
      /\ UNCHANGED <<monitored, callbacks, edge, unread, gone, connMap, fdToConn, mutex, batch,
                     doomed, silent>>
  BY DEF accept4, peers
<1> HIDE DEF f
<1>4. /\ pc' \in [Threads -> Steps] /\ pc["accept"] = "idle"
      /\ \A u \in Threads : pc'[u] = IF u = "accept" THEN "add" ELSE pc[u]
  BY <1>1, Goes, Places
<1>5. /\ conn' \in [Threads -> Conns \cup {None}] /\ fd' \in [Threads -> Fds \cup {None}]
      /\ \A u \in Threads : /\ conn'[u] = IF u = "accept" THEN nextId ELSE conn[u]
                            /\ fd'[u] = IF u = "accept" THEN f ELSE fd[u]
  BY <1>1, <1>2, <1>3, Turns, Places
<1>6. /\ \A c \in Conns : connFd'[c] = IF c = nextId THEN f ELSE connFd[c]
      /\ \A g \in Fds : owner'[g] = IF g = f THEN nextId ELSE owner[g]
  BY <1>2, <1>3 DEF IInv, TypeOK
<1>7. /\ \A c \in Conns : connFd[c] # None =>
           c < nextId /\ owner[connFd[c]] = c /\ c \in connMap /\ fdToConn[connFd[c]] = c
      /\ \A c \in connMap : c < nextId
  BY <1>4 DEF IInv, OpenInv, TableInv
<1>8. /\ nextId \notin connMap /\ connFd[nextId] = None
      /\ \A c \in Conns : c < nextId => c < nextId'
      /\ nextId < nextId'
  <2>1. nextId \in Nat
    BY <1>3, Distinct
  <2>2. nextId < nextId' /\ ~(nextId < nextId)
    BY <1>3, <2>1
  <2>3. \A c \in Conns : c < nextId => c < nextId'
    BY <1>3, <2>1, Distinct
  <2> QED BY <1>3, <1>7, <2>2, <2>3
<1>9. TypeOK'
  <2>1. \A u \in Threads : mutex' = u <=> pc'[u] \in Locking
    BY <1>3, <1>4, OneHolder DEF Locking
  <2>2. owner' \in [Fds -> Conns \cup {Rest, Free}] /\ connFd' \in [Conns -> Fds \cup {None}]
    BY <1>2, <1>3 DEF IInv, TypeOK
  <2>3. nextId' \in 1 .. MaxConns + 1
    BY <1>3, ServerAssumption DEF Conns
  <2> QED BY <1>3, <1>5, <2>1, <2>2, <2>3 DEF IInv, TypeOK, Locking
<1>10. StepsOK'
  BY <1>4 DEF IInv, StepsOK
<1>11. OpenInv'
  <2> SUFFICES ASSUME NEW c \in Conns, connFd'[c] # None
               PROVE  /\ c < nextId' /\ owner'[connFd'[c]] = c
                      /\ \/ c \in connMap' /\ fdToConn'[connFd'[c]] = c
                         \/ pc'["accept"] \in {"add", "insert"} /\ conn'["accept"] = c
    BY DEF OpenInv
  <2>1. CASE c = nextId
    BY <1>1, <1>2, <1>4, <1>5, <1>6, <1>8, <2>1
  <2>2. CASE c # nextId
    <3>1. connFd'[c] = connFd[c] /\ connFd[c] # None
      BY <1>6, <2>2
    <3>2. c < nextId /\ owner[connFd[c]] = c /\ c \in connMap /\ fdToConn[connFd[c]] = c
      BY <1>7, <3>1
    <3>3. connFd[c] # f /\ connFd[c] \in Fds
      BY <1>2, <3>1, <3>2, Distinct, Places
    <3>4. c < nextId'
      BY <1>8, <3>2
    <3> QED BY <1>3, <1>6, <3>1, <3>2, <3>3, <3>4
  <2> QED BY <2>1, <2>2
<1>12. \A c, g : Erasing(c, g)' <=> Erasing(c, g)
  BY <1>4, <1>5 DEF Erasing
<1>13. TableInv'
  <2> SUFFICES ASSUME NEW c \in connMap
               PROVE  c < nextId' /\ (connFd'[c] # None \/ \E g \in Fds : Erasing(c, g)')
    BY <1>3 DEF TableInv
  <2>1. c < nextId /\ (connFd[c] # None \/ \E g \in Fds : Erasing(c, g)) /\ c \in Conns
    BY Places DEF IInv, TableInv
  <2>2. c # nextId
    BY <1>8
  <2> QED BY <1>6, <1>8, <1>12, <2>1, <2>2
<1>14. EntryInv'
  BY <1>3, <1>6, <1>8, <1>12, Places DEF IInv, EntryInv
<1>15. HandInv'
  <2> SUFFICES ASSUME NEW u \in Threads
               PROVE  Hand(u)'
    BY DEF HandInv
  <2>1. CASE u = "accept"
    BY <1>2, <1>3, <1>4, <1>5, <1>6, <1>8, <2>1 DEF Hand
  <2>2. CASE u # "accept"
    <3>1. pc'[u] = pc[u] /\ conn'[u] = conn[u] /\ fd'[u] = fd[u] /\ pc[u] \notin {"add", "insert"}
      BY <1>4, <1>5, <2>2 DEF IInv, StepsOK
    <3>2. Hand(u) /\ connMap \subseteq Conns
      BY Places
    <3> QED BY <1>3, <1>6, <1>8, <3>1, <3>2 DEF Hand
  <2> QED BY <2>1, <2>2
<1> QED BY <1>9, <1>10, <1>11, <1>13, <1>14, <1>15 DEF IInv

\* The descriptor is added to the epoll set.
LEMMA AddKeeps ==
  ASSUME IInv, Add
  PROVE  IInv'
<1>1. Go("accept", "add", "insert") /\ "insert" \in Steps /\ "accept" \in Threads
  BY DEF Add, Steps, Threads
<1>2. /\ pc' \in [Threads -> Steps] /\ pc["accept"] = "add"
      /\ \A u \in Threads : pc'[u] = IF u = "accept" THEN "insert" ELSE pc[u]
  BY <1>1, Goes, Places
<1>3. /\ UNCHANGED <<owner, edge, unread, gone, connMap, fdToConn, connFd, nextId, mutex, batch,
                     doomed, silent, conn, fd>>
      /\ monitored' = monitored \cup {fd["accept"]}
      /\ callbacks' = callbacks \cup {fd["accept"]}
  BY DEF Add, Stay, peers, maps
<1>4. fd["accept"] \in Fds
  BY <1>1, <1>2, Places DEF Hand
<1>5. TypeOK'
  <2>1. \A u \in Threads : mutex' = u <=> pc'[u] \in Locking
    BY <1>2, <1>3, OneHolder DEF Locking
  <2> QED BY <1>3, <1>4, <2>1 DEF IInv, TypeOK, Locking
<1>6. StepsOK'
  BY <1>2 DEF IInv, StepsOK
<1>7. OpenInv'
  BY <1>1, <1>2, <1>3 DEF IInv, OpenInv
<1>8. TableInv' /\ EntryInv'
  <2>1. \A c, g : Erasing(c, g)' <=> Erasing(c, g)
    BY <1>2, <1>3 DEF Erasing
  <2> QED BY <1>3, <2>1 DEF IInv, TableInv, EntryInv
<1>9. HandInv'
  BY <1>2, <1>3, Places DEF HandInv, Hand
<1> QED BY <1>5, <1>6, <1>7, <1>8, <1>9 DEF IInv

\* The connection enters the table, under the lock: no other is being erased, and the
\* descriptor has no entry.
LEMMA InsertKeeps ==
  ASSUME IInv, Insert
  PROVE  IInv'
<1> DEFINE c == conn["accept"]
           f == fd["accept"]
<1>1. /\ Go("accept", "insert", "idle") /\ "idle" \in Steps /\ "accept" \in Threads
      /\ At("accept", None, None)
  BY DEF Insert, Steps, Threads
<1>2. /\ pc' \in [Threads -> Steps] /\ pc["accept"] = "insert"
      /\ \A u \in Threads : pc'[u] = IF u = "accept" THEN "idle" ELSE pc[u]
  BY <1>1, Goes, Places
<1>3. /\ conn' \in [Threads -> Conns \cup {None}] /\ fd' \in [Threads -> Fds \cup {None}]
      /\ \A u \in Threads : /\ conn'[u] = IF u = "accept" THEN None ELSE conn[u]
                            /\ fd'[u] = IF u = "accept" THEN None ELSE fd[u]
  BY <1>1, Turns, Places
<1>4. /\ UNCHANGED <<owner, monitored, callbacks, edge, unread, gone, connFd, nextId, mutex, batch,
                     doomed, silent>>
      /\ mutex = "none"
      /\ connMap' = connMap \cup {c}
      /\ fdToConn' = [fdToConn EXCEPT ![f] = c]
  BY DEF Insert, kernel, peers
<1>5. c \in Conns /\ c \notin connMap /\ f \in Fds /\ connFd[c] = f /\ f # None
  BY <1>1, <1>2, Places, Distinct DEF Hand
<1>6. owner[f] = c /\ c < nextId
  BY <1>5 DEF IInv, OpenInv
<1>7. \A g \in Fds : fdToConn'[g] = IF g = f THEN c ELSE fdToConn[g]
  BY <1>4, <1>5, Places
<1>8. \A u \in Threads : pc[u] \notin Locking /\ pc'[u] \notin Locking
  BY <1>2, <1>4, OneHolder DEF Locking
<1>9. TypeOK'
  <2>1. \A u \in Threads : mutex' = u <=> pc'[u] \in Locking
    BY <1>4, <1>8, OneHolder
  <2>2. fdToConn' \in [Fds -> Conns \cup {None}]
    BY <1>4, <1>5, Places
  <2> QED BY <1>3, <1>4, <1>5, <2>1, <2>2 DEF IInv, TypeOK, Locking
<1>10. StepsOK'
  BY <1>2 DEF IInv, StepsOK
<1>11. \A d, g : ~Erasing(d, g) /\ ~Erasing(d, g)'
  BY <1>8 DEF Erasing, Locking
<1>12. OpenInv'
  <2> SUFFICES ASSUME NEW d \in Conns, connFd[d] # None
               PROVE  /\ d < nextId' /\ owner'[connFd'[d]] = d
                      /\ d \in connMap' /\ fdToConn'[connFd'[d]] = d
    BY <1>4 DEF OpenInv
  <2>1. d < nextId /\ owner[connFd[d]] = d
    BY DEF IInv, OpenInv
  <2>2. CASE d = c
    BY <1>4, <1>5, <1>7, <2>1, <2>2
  <2>3. CASE d # c
    <3>1. d \in connMap /\ fdToConn[connFd[d]] = d
      BY <2>3 DEF IInv, OpenInv
    <3>2. connFd[d] \in Fds /\ connFd[d] # f
      BY <1>6, <2>1, <2>3, Places
    <3> QED BY <1>4, <1>7, <2>1, <3>1, <3>2
  <2> QED BY <2>2, <2>3
<1>13. TableInv'
  BY <1>4, <1>5, <1>6, <1>11 DEF IInv, TableInv
<1>14. EntryInv'
  BY <1>4, <1>5, <1>7, <1>11 DEF IInv, EntryInv
<1>15. HandInv'
  <2> SUFFICES ASSUME NEW u \in Threads, u # "accept"
               PROVE  Hand(u)'
    BY <1>2 DEF HandInv, Hand
  <2>1. pc'[u] = pc[u] /\ pc[u] \notin {"add", "insert", "unknown", "close unknown"} \cup Locking
    BY <1>2, <1>8 DEF IInv, StepsOK
  <2> QED BY <2>1 DEF Hand, Locking
<1> QED BY <1>9, <1>10, <1>12, <1>13, <1>14, <1>15 DEF IInv

----------------------------------------------------------------------------
(* Events.                                                                 *)

\* epoll reports descriptors.
LEMMA WaitKeeps ==
  ASSUME IInv, wait
  PROVE  IInv'
<1>1. UNCHANGED <<owner, monitored, callbacks, unread, gone, connMap, fdToConn, connFd, nextId,
                  mutex, pc, conn, fd, doomed, silent>>
  BY DEF wait, kernel, peers, maps
<1>2. \A e \in batch' : e.fd \in Fds
  <2>1. \A c \in Reported : connFd[c] \in Fds
    BY DEF Reported, IInv, TypeOK
  <2> QED BY <2>1 DEF wait
<1>3. edge' \in [Conns -> {"none", "read", "hup"}]
  BY DEF wait, IInv, TypeOK
<1>4. TypeOK' /\ StepsOK'
  BY <1>1, <1>2, <1>3 DEF IInv, TypeOK, StepsOK
<1>5. OpenInv' /\ TableInv' /\ EntryInv' /\ HandInv'
  BY <1>1, Places, QuietKeeps
<1> QED BY <1>4, <1>5 DEF IInv

\* An event is for the connection that its descriptor leads to; when it leads to none,
\* no connection in the table has it.
LEMMA DispatchKeeps ==
  ASSUME IInv, Dispatch
  PROVE  IInv'
<1>1. /\ UNCHANGED <<owner, monitored, callbacks, edge, unread, gone, connMap, fdToConn, connFd,
                     nextId, mutex, doomed, silent>>
      /\ "accept" \in Threads
  BY DEF Dispatch, kernel, peers, maps, Threads
<1>2. PICK e \in batch :
        /\ batch' = batch \ {e}
        /\ \/ UNCHANGED <<pc, conn, fd>>
           \/ /\ At("accept", fdToConn[e.fd], e.fd)
              /\ Go("accept", "idle", IF fdToConn[e.fd] = None THEN "unknown"
                                      ELSE IF e.event = "hup" THEN "lock" ELSE "read")
  BY DEF Dispatch
<1>3. CASE UNCHANGED <<pc, conn, fd>>
  <2>1. TypeOK' /\ StepsOK'
    BY <1>1, <1>2, <1>3 DEF IInv, TypeOK, StepsOK
  <2>2. OpenInv' /\ TableInv' /\ EntryInv' /\ HandInv'
    BY <1>1, <1>3, Places, QuietKeeps
  <2> QED BY <2>1, <2>2 DEF IInv
<1>4. ASSUME NEW step \in {"unknown", "lock", "read"}, NEW f \in Fds, NEW c \in Conns \cup {None},
             c = fdToConn[f], step = "unknown" <=> c = None,
             At("accept", c, f), Go("accept", "idle", step)
      PROVE  IInv'
  <2>1. /\ pc' \in [Threads -> Steps] /\ pc["accept"] = "idle"
        /\ \A u \in Threads : pc'[u] = IF u = "accept" THEN step ELSE pc[u]
    <3>1. step \in Steps
      BY DEF Steps
    <3> QED BY <1>1, <1>4, <3>1, Goes, Places
  <2>2. /\ conn' \in [Threads -> Conns \cup {None}] /\ fd' \in [Threads -> Fds \cup {None}]
        /\ \A u \in Threads : /\ conn'[u] = IF u = "accept" THEN c ELSE conn[u]
                              /\ fd'[u] = IF u = "accept" THEN f ELSE fd[u]
    BY <1>1, <1>4, Turns, Places, f \in Fds \cup {None}
  <2>3. TypeOK'
    <3>1. \A u \in Threads : mutex' = u <=> pc'[u] \in Locking
      BY <1>1, <2>1, OneHolder DEF Locking
    <3> QED BY <1>1, <1>2, <2>2, <3>1 DEF IInv, TypeOK, Locking
  <2>4. StepsOK'
    BY <2>1 DEF IInv, StepsOK
  <2>5. OpenInv'
    BY <1>1, <2>1 DEF IInv, OpenInv
  <2>6. TableInv' /\ EntryInv'
    <3>1. \A d, g : Erasing(d, g)' <=> Erasing(d, g)
      BY <2>1, <2>2 DEF Erasing
    <3> QED BY <1>1, <3>1 DEF IInv, TableInv, EntryInv
  <2>7. HandInv'
    <3> SUFFICES ASSUME NEW u \in Threads
                 PROVE  Hand(u)'
      BY DEF HandInv
    <3>1. CASE u = "accept"
      BY <1>1, <1>4, <2>1, <2>2, <3>1 DEF Hand
    <3>2. CASE u # "accept"
      <4>1. Hand(u) /\ pc'[u] = pc[u] /\ conn'[u] = conn[u] /\ fd'[u] = fd[u]
        BY <2>1, <2>2, <3>2, Places
      <4> QED BY <1>1, <4>1 DEF Hand
    <3> QED BY <3>1, <3>2
  <2> QED BY <2>3, <2>4, <2>5, <2>6, <2>7 DEF IInv
<1>5. e.fd \in Fds /\ fdToConn[e.fd] \in Conns \cup {None}
  BY Places DEF IInv, TypeOK
<1> QED
  <2> DEFINE f == e.fd
             step == IF fdToConn[f] = None THEN "unknown"
                     ELSE IF e.event = "hup" THEN "lock" ELSE "read"
  <2>1. step \in {"unknown", "lock", "read"} /\ (step = "unknown" <=> fdToConn[f] = None)
    OBVIOUS
  <2>2. CASE At("accept", fdToConn[f], f) /\ Go("accept", "idle", step)
    <3> HIDE DEF f, step
    <3> QED BY <1>4, <1>5, <2>1, <2>2 DEF f
  <2> QED BY <1>2, <1>3, <2>2

\* An unknown descriptor is closed: its owner, if it has one, is no connection in the
\* table.
LEMMA UnknownKeeps ==
  ASSUME IInv, Unknown
  PROVE  IInv'
<1> DEFINE f == fd["accept"]
<1>1. /\ UNCHANGED <<edge, unread, gone, connMap, fdToConn, connFd, nextId, mutex, batch, doomed,
                     silent>>
      /\ "accept" \in Threads
  BY DEF Unknown, peers, maps, Threads
<1>2. CASE /\ Go("accept", "unknown", "close unknown")
           /\ remove(f) /\ Stay /\ UNCHANGED owner
  <2>1. /\ pc' \in [Threads -> Steps] /\ pc["accept"] = "unknown"
        /\ \A u \in Threads : pc'[u] = IF u = "accept" THEN "close unknown" ELSE pc[u]
    BY <1>1, <1>2, Goes, Places, "close unknown" \in Steps DEF Steps
  <2>2. /\ conn' = conn /\ fd' = fd /\ owner' = owner
        /\ monitored' \subseteq monitored /\ callbacks' \subseteq callbacks
    BY <1>2 DEF Stay, remove
  <2>3. TypeOK'
    <3>1. \A u \in Threads : mutex' = u <=> pc'[u] \in Locking
      BY <1>1, <2>1, OneHolder DEF Locking
    <3> QED BY <1>1, <2>2, <3>1 DEF IInv, TypeOK, Locking
  <2>4. StepsOK'
    BY <2>1 DEF IInv, StepsOK
  <2>5. OpenInv'
    BY <1>1, <2>1, <2>2 DEF IInv, OpenInv
  <2>6. TableInv' /\ EntryInv'
    <3>1. \A d, g : Erasing(d, g)' <=> Erasing(d, g)
      BY <2>1, <2>2 DEF Erasing
    <3> QED BY <1>1, <2>2, <3>1 DEF IInv, TableInv, EntryInv
  <2>7. HandInv'
    BY <1>1, <2>1, <2>2, Places DEF HandInv, Hand
  <2> QED BY <2>3, <2>4, <2>5, <2>6, <2>7 DEF IInv
<1>3. CASE /\ Go("accept", "close unknown", "idle")
           /\ owner' = [owner EXCEPT ![f] = Free]
           /\ monitored' = monitored \ {f}
           /\ At("accept", None, None) /\ UNCHANGED callbacks
  <2>1. /\ pc' \in [Threads -> Steps] /\ pc["accept"] = "close unknown"
        /\ \A u \in Threads : pc'[u] = IF u = "accept" THEN "idle" ELSE pc[u]
    BY <1>1, <1>3, Goes, Places, "idle" \in Steps DEF Steps
  <2>2. /\ conn' \in [Threads -> Conns \cup {None}] /\ fd' \in [Threads -> Fds \cup {None}]
        /\ \A u \in Threads : /\ conn'[u] = IF u = "accept" THEN None ELSE conn[u]
                              /\ fd'[u] = IF u = "accept" THEN None ELSE fd[u]
    BY <1>1, <1>3, Turns, Places
  <2>3. f \in Fds /\ fdToConn[f] = None
    BY <1>1, <2>1, Places DEF Hand
  <2>4. \A g \in Fds : owner'[g] = IF g = f THEN Free ELSE owner[g]
    BY <1>3, <2>3 DEF IInv, TypeOK
  <2>5. TypeOK'
    <3>1. \A u \in Threads : mutex' = u <=> pc'[u] \in Locking
      BY <1>1, <2>1, OneHolder DEF Locking
    <3>2. owner' \in [Fds -> Conns \cup {Rest, Free}]
      BY <1>3 DEF IInv, TypeOK
    <3> QED BY <1>1, <1>3, <2>2, <3>1, <3>2 DEF IInv, TypeOK, Locking
  <2>6. StepsOK'
    BY <2>1 DEF IInv, StepsOK
  <2>7. OpenInv'
    <3> SUFFICES ASSUME NEW c \in Conns, connFd[c] # None
                 PROVE  c < nextId /\ owner'[connFd[c]] = c /\ c \in connMap /\ fdToConn[connFd[c]] = c
      BY <1>1 DEF OpenInv
    <3>1. c < nextId /\ owner[connFd[c]] = c /\ c \in connMap /\ fdToConn[connFd[c]] = c
      BY <2>1 DEF IInv, OpenInv
    <3>2. connFd[c] \in Fds /\ connFd[c] # f
      BY <2>3, <3>1, Places, Distinct
    <3> QED BY <2>4, <3>1, <3>2
  <2>8. TableInv' /\ EntryInv'
    <3>1. \A d, g : Erasing(d, g)' <=> Erasing(d, g)
      BY <2>1, <2>2 DEF Erasing
    <3> QED BY <1>1, <3>1 DEF IInv, TableInv, EntryInv
  <2>9. HandInv'
    <3> SUFFICES ASSUME NEW u \in Threads, u # "accept"
                 PROVE  Hand(u)'
      BY <2>1 DEF HandInv, Hand
    <3>1. Hand(u) /\ pc'[u] = pc[u] /\ conn'[u] = conn[u] /\ fd'[u] = fd[u]
      BY <2>1, <2>2, Places
    <3> QED BY <1>1, <3>1 DEF Hand
  <2> QED BY <2>5, <2>6, <2>7, <2>8, <2>9 DEF IInv
<1> QED BY <1>2, <1>3 DEF Unknown

\* A step that leaves the maps and the lock alone, in which a thread that has neither
\* may turn to a connection or away from it.
LEMMA LightKeeps ==
  ASSUME IInv,
         UNCHANGED <<monitored, callbacks, connMap, fdToConn, connFd, nextId, owner, mutex>>,
         \A e \in batch' : e.fd \in Fds,
         edge' \in [Conns -> {"none", "read", "hup"}],
         unread' \cup gone' \cup silent' \cup doomed' \subseteq Conns,
         pc' \in [Threads -> Steps],
         conn' \in [Threads -> Conns \cup {None}], fd' \in [Threads -> Fds \cup {None}],
         \A u \in Threads : \/ pc'[u] = pc[u] /\ conn'[u] = conn[u] /\ fd'[u] = fd[u]
                            \/ pc[u] \in {"idle", "read"} /\ pc'[u] \in {"idle", "lock"}
  PROVE  IInv'
<1>1. TypeOK'
  <2>1. \A u \in Threads : mutex' = u <=> pc'[u] \in Locking
    BY OneHolder DEF Locking
  <2> QED BY <2>1 DEF IInv, TypeOK, Locking
<1>2. StepsOK'
  BY DEF IInv, StepsOK
<1>3. OpenInv' /\ TableInv' /\ EntryInv' /\ HandInv'
  BY QuietKeeps DEF Relying
<1> QED BY <1>1, <1>2, <1>3 DEF IInv

\* Messages of a connection are handled, or it turns out to have ended.
LEMMA ReadKeeps ==
  ASSUME IInv, onReadable
  PROVE  IInv'
<1>1. /\ UNCHANGED <<owner, monitored, callbacks, edge, gone, connMap, fdToConn, connFd, nextId,
                     mutex, batch, doomed>>
      /\ pc["accept"] = "read" /\ "accept" \in Threads /\ {"idle", "lock"} \subseteq Steps
      /\ unread' \subseteq unread /\ silent' \subseteq silent
  BY DEF onReadable, kernel, maps, Threads, Steps
<1>2. \/ Go("accept", "read", "lock") /\ Stay
      \/ Go("accept", "read", "idle") /\ At("accept", None, None)
  BY DEF onReadable
<1>3. /\ pc' \in [Threads -> Steps]
      /\ \A u \in Threads : IF u = "accept" THEN pc'[u] \in {"idle", "lock"} ELSE pc'[u] = pc[u]
  <2>1. ASSUME NEW b \in {"idle", "lock"}, Go("accept", "read", b)
        PROVE  /\ pc' \in [Threads -> Steps]
               /\ \A u \in Threads : pc'[u] = IF u = "accept" THEN b ELSE pc[u]
    BY <1>1, <2>1, Goes, Places
  <2> QED BY <1>2, <2>1
<1>4. /\ conn' \in [Threads -> Conns \cup {None}] /\ fd' \in [Threads -> Fds \cup {None}]
      /\ \A u \in Threads : u # "accept" => conn'[u] = conn[u] /\ fd'[u] = fd[u]
  <2>1. CASE Stay
    BY <2>1, Places DEF Stay
  <2>2. CASE At("accept", None, None)
    BY <1>1, <2>2, Turns, Places
  <2> QED BY <1>2, <2>1, <2>2
<1>5. \A u \in Threads : \/ pc'[u] = pc[u] /\ conn'[u] = conn[u] /\ fd'[u] = fd[u]
                         \/ pc[u] \in {"idle", "read"} /\ pc'[u] \in {"idle", "lock"}
  BY <1>1, <1>3, <1>4
<1>6. /\ \A e \in batch' : e.fd \in Fds
      /\ edge' \in [Conns -> {"none", "read", "hup"}]
      /\ unread' \cup gone' \cup silent' \cup doomed' \subseteq Conns
  BY <1>1 DEF IInv, TypeOK
<1> QED BY <1>1, <1>3, <1>4, <1>5, <1>6, LightKeeps

----------------------------------------------------------------------------
(* Other threads, peers and the rest of the process.                       *)

\* A thread turns to a connection that it wants to remove.
LEMMA TurnKeeps ==
  ASSUME IInv, NEW t \in Threads, NEW c \in Conns, Go(t, "idle", "lock"), At(t, c, None),
         UNCHANGED <<owner, monitored, callbacks, edge, unread, gone, connMap, fdToConn, connFd,
                     nextId, mutex, batch, silent>>,
         doomed' \subseteq doomed
  PROVE  IInv'
<1>1. /\ pc' \in [Threads -> Steps] /\ pc[t] = "idle"
      /\ \A u \in Threads : pc'[u] = IF u = t THEN "lock" ELSE pc[u]
  <2>1. "lock" \in Steps
    BY DEF Steps
  <2> QED BY <2>1, Goes, Places
<1>2. /\ conn' \in [Threads -> Conns \cup {None}] /\ fd' \in [Threads -> Fds \cup {None}]
      /\ \A u \in Threads : u # t => conn'[u] = conn[u] /\ fd'[u] = fd[u]
  BY Turns, Places
<1>3. \A u \in Threads : \/ pc'[u] = pc[u] /\ conn'[u] = conn[u] /\ fd'[u] = fd[u]
                         \/ pc[u] \in {"idle", "read"} /\ pc'[u] \in {"idle", "lock"}
  BY <1>1, <1>2
<1>4. /\ \A e \in batch' : e.fd \in Fds
      /\ edge' \in [Conns -> {"none", "read", "hup"}]
      /\ unread' \cup gone' \cup silent' \cup doomed' \subseteq Conns
  BY DEF IInv, TypeOK
<1> QED BY <1>1, <1>2, <1>3, <1>4, LightKeeps

\* checkHeartbeats collects the silent connections and removes them one by one.
LEMMA HeartbeatKeeps ==
  ASSUME IInv, checkHeartbeats
  PROVE  IInv'
<1>1. CASE Pick
  <2>1. /\ UNCHANGED <<owner, monitored, callbacks, edge, unread, gone, connMap, fdToConn, connFd,
                       nextId, mutex, pc, conn, fd, batch, silent>>
        /\ doomed' \subseteq connMap
    BY <1>1 DEF Pick, kernel, peers, maps
  <2>2. /\ \A e \in batch' : e.fd \in Fds
        /\ edge' \in [Conns -> {"none", "read", "hup"}]
        /\ unread' \cup gone' \cup silent' \cup doomed' \subseteq Conns
    BY <2>1 DEF IInv, TypeOK
  <2> QED BY <2>1, <2>2, Places, LightKeeps
<1>2. CASE PickNext
  <2>1. PICK c \in doomed : doomed' = doomed \ {c} /\ At("timer", c, None)
    BY <1>2 DEF PickNext
  <2>2. /\ UNCHANGED <<owner, monitored, callbacks, edge, unread, gone, connMap, fdToConn, connFd,
                       nextId, mutex, batch, silent>>
        /\ Go("timer", "idle", "lock") /\ "timer" \in Threads
    BY <1>2 DEF PickNext, kernel, peers, maps, Threads
  <2>3. c \in Conns
    BY DEF IInv, TypeOK
  <2> QED BY <2>1, <2>2, <2>3, TurnKeeps
<1> QED BY <1>1, <1>2 DEF checkHeartbeats

\* The application has a connection removed.
LEMMA CloseConnKeeps ==
  ASSUME IInv, NEW c \in Conns, closeConn(c)
  PROVE  IInv'
<1>1. /\ UNCHANGED <<owner, monitored, callbacks, edge, unread, gone, connMap, fdToConn, connFd,
                     nextId, mutex, batch, silent>>
      /\ Go("app", "idle", "lock") /\ At("app", c, None) /\ "app" \in Threads /\ doomed' = doomed
  BY DEF closeConn, kernel, peers, maps, Threads
<1> QED BY <1>1, TurnKeeps

\* A write, or one that makes the thread wait for itself with the lock.
LEMMA SendKeeps ==
  ASSUME IInv, NEW t \in Threads, NEW c \in Conns, send(t, c)
  PROVE  IInv'
<1>1. UNCHANGED <<owner, monitored, callbacks, edge, unread, gone, connMap, fdToConn, connFd,
                  nextId, batch, doomed, conn, fd>>
  BY DEF send, kernel, peers, maps, Stay
<1>2. CASE silent' \subseteq silent /\ UNCHANGED <<mutex, pc>>
  <2>1. /\ \A e \in batch' : e.fd \in Fds
        /\ edge' \in [Conns -> {"none", "read", "hup"}]
        /\ unread' \cup gone' \cup silent' \cup doomed' \subseteq Conns
    BY <1>1, <1>2 DEF IInv, TypeOK
  <2> QED BY <1>1, <1>2, <2>1, Places, LightKeeps
<1>3. CASE mutex = "none" /\ Go(t, "idle", "self-locked") /\ mutex' = t /\ UNCHANGED silent
  <2>1. /\ pc' \in [Threads -> Steps] /\ pc[t] = "idle"
        /\ \A u \in Threads : pc'[u] = IF u = t THEN "self-locked" ELSE pc[u]
    <3>1. "self-locked" \in Steps
      BY DEF Steps
    <3> QED BY <1>3, <3>1, Goes, Places
  <2>2. TypeOK'
    <3>1. \A u \in Threads : mutex' = u <=> pc'[u] \in Locking
      BY <1>3, <2>1, OneHolder DEF Locking
    <3> QED BY <1>1, <1>3, <3>1 DEF IInv, TypeOK, Locking
  <2>3. StepsOK'
    BY <2>1 DEF IInv, StepsOK
  <2>4. OpenInv' /\ TableInv' /\ EntryInv' /\ HandInv'
    BY <1>1, <2>1, QuietKeeps DEF Relying
  <2> QED BY <2>2, <2>3, <2>4 DEF IInv
<1> QED BY <1>2, <1>3 DEF send

\* Something arrives on a connection, or nothing for too long.
LEMMA PeerKeeps ==
  ASSUME IInv, NEW c \in Conns, Arrive(c) \/ Silence(c)
  PROVE  IInv'
<1>1. /\ UNCHANGED <<owner, monitored, callbacks, connMap, fdToConn, connFd, nextId, mutex, pc,
                     conn, fd, batch, doomed>>
      /\ unread' \cup gone' \cup silent' \subseteq unread \cup gone \cup silent \cup {c}
      /\ edge' = edge \/ edge' = [edge EXCEPT ![c] = "read"] \/ edge' = [edge EXCEPT ![c] = "hup"]
  BY DEF Arrive, Silence, kernel, peers, maps
<1>2. edge' \in [Conns -> {"none", "read", "hup"}]
  BY <1>1 DEF IInv, TypeOK
<1>3. /\ \A e \in batch' : e.fd \in Fds
      /\ unread' \cup gone' \cup silent' \cup doomed' \subseteq Conns
  BY <1>1 DEF IInv, TypeOK
<1> QED BY <1>1, <1>2, <1>3, Places, LightKeeps

\* The rest of the process opens and closes descriptors that are not a connection's.
LEMMA OtherKeeps ==
  ASSUME IInv, Other
  PROVE  IInv'
<1>1. UNCHANGED <<monitored, callbacks, edge, unread, gone, connMap, fdToConn, connFd, nextId,
                  mutex, pc, conn, fd, batch, doomed, silent>>
  BY DEF Other, peers, maps
<1>2. PICK f \in Fds, w \in {Rest, Free} :
        owner[f] \in {Rest, Free} /\ owner' = [owner EXCEPT ![f] = w]
  <2>1. CASE FreeFds # {} /\ owner' = [owner EXCEPT ![Min(FreeFds)] = Rest]
    <3>1. FreeFds \subseteq Nat
      BY ServerAssumption DEF FreeFds
    <3>2. Min(FreeFds) \in FreeFds
      BY <2>1, <3>1, LeastIsOne
    <3> QED BY <2>1, <3>2 DEF FreeFds
  <2>2. CASE \E f \in Fds : owner[f] = Rest /\ owner' = [owner EXCEPT ![f] = Free]
    BY <2>2
  <2> QED BY <2>1, <2>2 DEF Other
<1>3. \A g \in Fds : owner'[g] = IF g = f THEN w ELSE owner[g]
  BY <1>2 DEF IInv, TypeOK
<1>4. TypeOK' /\ StepsOK'
  <2>1. owner' \in [Fds -> Conns \cup {Rest, Free}]
    BY <1>2 DEF IInv, TypeOK
  <2> QED BY <1>1, <2>1 DEF IInv, TypeOK, StepsOK
<1>5. OpenInv'
  <2> SUFFICES ASSUME NEW c \in Conns, connFd[c] # None
               PROVE  owner'[connFd[c]] = c
    BY <1>1 DEF IInv, OpenInv
  <2>1. owner[connFd[c]] = c
    BY DEF IInv, OpenInv
  <2>2. connFd[c] \in Fds /\ connFd[c] # f
    BY <1>2, <2>1, Places, Distinct
  <2> QED BY <1>3, <2>1, <2>2
<1>6. TableInv' /\ EntryInv'
  BY <1>1 DEF IInv, TableInv, EntryInv, Erasing
<1>7. HandInv'
  BY <1>1 DEF IInv, HandInv, Hand
<1> QED BY <1>4, <1>5, <1>6, <1>7 DEF IInv

----------------------------------------------------------------------------
\* Every step.
LEMMA Inductive == IInv /\ [Next]_vars => IInv'
<1> SUFFICES ASSUME IInv, [Next]_vars PROVE IInv'
  OBVIOUS
<1>1. CASE Accept
  BY <1>1, AcceptKeeps, AddKeeps, InsertKeeps DEF Accept
<1>2. CASE Events
  BY <1>2, WaitKeeps, DispatchKeeps, UnknownKeeps, ReadKeeps DEF Events
<1>3. CASE checkHeartbeats
  BY <1>3, HeartbeatKeeps
<1>4. CASE \E t \in Threads : removeConnection(t)
  BY <1>4, LockKeeps, CloseKeeps, EraseKeeps, TellKeeps DEF removeConnection
<1>5. CASE \E c \in Conns : closeConn(c) \/ send("app", c) \/ send("accept", c)
  <2>1. {"app", "accept"} \subseteq Threads
    BY DEF Threads
  <2> QED BY <1>5, <2>1, CloseConnKeeps, SendKeeps
<1>6. CASE \E c \in Conns : Arrive(c) \/ Silence(c)
  BY <1>6, PeerKeeps
<1>7. CASE Other
  BY <1>7, OtherKeeps
<1>8. CASE UNCHANGED vars
  <2>1. UNCHANGED <<owner, monitored, callbacks, edge, unread, gone, connMap, fdToConn, connFd,
                    nextId, mutex, pc, conn, fd, batch, doomed, silent>>
    BY <1>8 DEF vars, kernel, peers, maps
  <2>2. /\ \A e \in batch' : e.fd \in Fds
        /\ edge' \in [Conns -> {"none", "read", "hup"}]
        /\ unread' \cup gone' \cup silent' \cup doomed' \subseteq Conns
    BY <2>1 DEF IInv, TypeOK
  <2> QED BY <2>1, <2>2, Places, LightKeeps
<1> QED BY <1>1, <1>2, <1>3, <1>4, <1>5, <1>6, <1>7, <1>8 DEF Next

\* The tables and the kernel agree, in every reachable state: a connection in the table
\* that nobody is erasing has a descriptor of its own, whose entry leads back to it, and
\* no entry is left over (TcpServer::removeConnection, handleNewConnection).
THEOREM MapsAgreeCorrect == Spec => []MapsAgree
<1>1. IInv => MapsAgree
  <2> SUFFICES ASSUME IInv PROVE MapsAgree
    OBVIOUS
  <2>1. ASSUME NEW c \in connMap \ Closing
        PROVE  connFd[c] # None /\ owner[connFd[c]] = c /\ fdToConn[connFd[c]] = c
    <3>1. c \in Conns /\ c \in connMap
      BY Places
    <3>2. \A f : ~Erasing(c, f)
      BY <2>1 DEF Closing, Erasing
    <3>3. connFd[c] # None
      BY <3>1, <3>2 DEF IInv, TableInv
    <3>4. owner[connFd[c]] = c
      BY <3>1, <3>3 DEF IInv, OpenInv
    <3>5. ~(pc["accept"] \in {"add", "insert"} /\ conn["accept"] = c)
      BY <3>1, Places DEF Hand, Threads
    <3> QED BY <3>1, <3>3, <3>4, <3>5 DEF IInv, OpenInv
  <2>2. \A f \in Fds : fdToConn[f] # None => fdToConn[f] \in connMap
    BY DEF IInv, EntryInv
  <2>3. ASSUME NEW f \in Fds, NEW g \in Fds, fdToConn[f] = fdToConn[g], fdToConn[f] # None
        PROVE  f = g
    <3> DEFINE c == fdToConn[f]
    <3>1. /\ connFd[c] = f \/ Erasing(c, f)
          /\ connFd[c] = g \/ Erasing(c, g)
      BY <2>3 DEF IInv, EntryInv
    <3>2. ASSUME Erasing(c, f), Erasing(c, g) PROVE f = g
      BY <3>2, OneHolder DEF Erasing, Locking
    <3>3. \A h : Erasing(c, h) => connFd[c] = None
      BY Places DEF Erasing, Hand
    <3> QED BY <3>1, <3>2, <3>3, Distinct
  <2> QED BY <2>1, <2>2, <2>3 DEF IInv, MapsAgree
<1> QED BY Initially, Inductive, <1>1, PTL DEF Spec

-----------------------------------------------------------------------------
(***************************************************************************)
(* The terminal of a service, whose telnet server has threads of its own,  *)
(* for any number of connections.                                          *)
(***************************************************************************)

\* A client's thread that runs is in m_client_threads, and what the main thread has
\* waited for in stop() has ended.
TermInv ==
    /\ client \in [Clients -> {"none", "loop", "recv", "ended"}]
    /\ \A c \in Clients : client[c] \notin {"none", "ended"} => c \in threads
    /\ main \in {"join_server", "join_clients", "stopped"} => stdio = "ended"
    /\ main \in {"join_clients", "stopped"} => server \in {"none", "ended"}
    /\ main = "stopped" => threads = {}

\* The steps of the threads that stop() waits for: each goes on from where it is.
LEMMA TermThreadsStep ==
  ASSUME TermInv,
         \/ StdioLoop \/ StdioReads \/ ServerListens \/ ServerLoop \/ ServerAccepts
  PROVE  TermInv'
<1>1. CASE StdioLoop
  BY <1>1 DEF StdioLoop, TermInv, mainVars
<1>2. CASE StdioReads
  <2>1. stdio = "read" /\ UNCHANGED <<mainVars, server, client>>
    BY <1>2, Zenon DEF StdioReads, Handler
  <2> QED BY <2>1 DEF TermInv, mainVars
<1>3. CASE ServerListens
  BY <1>3 DEF ServerListens, TermInv
<1>4. CASE ServerLoop
  BY <1>4 DEF ServerLoop, TermInv, mainVars
<1>5. CASE ServerAccepts
  <2>1. CASE UNCHANGED <<peer, client, threads>>
    BY <1>5, <2>1 DEF ServerAccepts, TermInv
  <2>2. CASE \E c \in Clients : /\ client' = [client EXCEPT ![c] = "loop"]
                                /\ threads' = threads \cup {c}
    <3>1. PICK c \in Clients : /\ client' = [client EXCEPT ![c] = "loop"]
                               /\ threads' = threads \cup {c}
      BY <2>2
    <3> QED BY <1>5, <3>1 DEF ServerAccepts, TermInv
  <2> QED BY <1>5, <2>1, <2>2 DEF ServerAccepts
<1> QED BY <1>1, <1>2, <1>3, <1>4, <1>5

\* A client's thread goes on from where it is, or ends; it never begins again.
LEMMA TermClientStep ==
  ASSUME TermInv, NEW c \in Clients,
         ClientLoop(c) \/ ClientReceives(c) \/ Connect(c) \/ HangUp(c)
  PROVE  TermInv'
<1>1. CASE ClientLoop(c)
  BY <1>1 DEF ClientLoop, TermInv, mainVars
<1>2. CASE ClientReceives(c)
  <2>1. /\ client[c] = "recv" /\ UNCHANGED <<mainVars, server, stdio>>
        /\ \/ UNCHANGED client
           \/ \E l \in {"loop", "ended"} : client' = [client EXCEPT ![c] = l]
    BY <1>2, Zenon DEF ClientReceives, Handler
  <2>2. CASE UNCHANGED client
    BY <2>1, <2>2 DEF TermInv, mainVars
  <2>3. CASE \E l \in {"loop", "ended"} : client' = [client EXCEPT ![c] = l]
    <3>1. PICK l \in {"loop", "ended"} : client' = [client EXCEPT ![c] = l]
      BY <2>3
    <3> QED BY <2>1, <3>1 DEF TermInv, mainVars
  <2> QED BY <2>1, <2>2, <2>3
<1>3. CASE Connect(c) \/ HangUp(c)
  BY <1>3 DEF Connect, HangUp, TermInv, mainVars
<1> QED BY <1>1, <1>2, <1>3

\* The main thread: each join of stop() adds to what is known to have ended.
LEMMA TermMainStep ==
  ASSUME TermInv,
         start \/ StopBegins \/ StopCloses \/ JoinStdio \/ JoinServer \/ JoinClients
  PROVE  TermInv'
<1>1. CASE start \/ StopBegins \/ StopCloses
  BY <1>1 DEF start, StopBegins, StopCloses, TermInv
<1>2. CASE JoinStdio \/ JoinServer
  BY <1>2 DEF JoinStdio, JoinServer, TermInv
<1>3. CASE JoinClients
  <2>1. \A c \in Clients : client[c] \in {"none", "ended"}
    BY <1>3 DEF JoinClients, TermInv
  <2> QED BY <1>3, <2>1 DEF JoinClients, TermInv
<1> QED BY <1>1, <1>2, <1>3

\* stop() (TerminalInterface.cpp:44) leaves no thread behind that it has waited for, and
\* none is made afterwards, for any number of telnet connections: the server's thread
\* has ended before the clients' threads are collected.
THEOREM StopWaitsCorrect == TermSpec => []StopWaits
<1>1. TermInit => TermInv
  BY DEF TermInit, TermInv
<1>2. TermInv /\ [TermNext]_termVars => TermInv'
  <2> SUFFICES ASSUME TermInv, [TermNext]_termVars
               PROVE  TermInv'
    OBVIOUS
  <2>1. CASE UNCHANGED termVars
    BY <2>1 DEF termVars, TermInv
  <2>2. CASE start \/ StopBegins \/ StopCloses \/ JoinStdio \/ JoinServer \/ JoinClients
    BY <2>2, TermMainStep
  <2>3. CASE StdioLoop \/ StdioReads \/ ServerListens \/ ServerLoop \/ ServerAccepts
    BY <2>3, TermThreadsStep
  <2>4. CASE \E c \in Clients : ClientLoop(c) \/ ClientReceives(c) \/ Connect(c) \/ HangUp(c)
    BY <2>4, TermClientStep
  <2> QED BY <2>1, <2>2, <2>3, <2>4 DEF TermNext
<1>3. TermInv => StopWaits
  BY DEF TermInv, StopWaits
<1> QED BY <1>1, <1>2, <1>3, PTL DEF TermSpec
=============================================================================
