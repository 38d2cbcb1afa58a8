---------------------- MODULE TransactionManagerProofs ----------------------
(* Theorems about TransactionManager and the pool it uses.                  *)
EXTENDS TransactionManager, FiniteSetTheorems, SequenceTheorems, TLAPS

(* The pool's size as the steps see it; it is inductive: a connection being *)
(* made has been counted since its thread looked at the total.              *)
SizeInv ==
    /\ IsFiniteSet(all)
    /\ creating \in Int
    /\ PoolBounded

LEMMA FreshIsNew == ASSUME NEW S, NEW x, IsFiniteSet(S)
                    PROVE  /\ IsFiniteSet(S \cup {x})
                           /\ Cardinality(S) \in Nat
                           /\ Cardinality(S \cup {x}) \in Nat
                           /\ Cardinality(S \cup {x}) <= Cardinality(S) + 1
  BY FS_AddElement, FS_CardinalityType

LEMMA InitSize == Init => SizeInv
<1> SUFFICES ASSUME Init PROVE SizeInv
  OBVIOUS
<1>1. PICK n \in 1 .. PoolSize : all = 1 .. n
  BY DEF Init, PoolInit
<1>2. PoolSize \in Nat /\ MaxPool \in Nat /\ PoolSize <= MaxPool
  BY PoolAssumption
<1>3. IsFiniteSet(all) /\ Cardinality(all) = n
  BY <1>1, <1>2, FS_Interval
<1> QED
  BY <1>1, <1>2, <1>3 DEF Init, PoolInit, SizeInv, PoolBounded

\* Steps that leave the pool's size alone.
LEMMA SameSize == ASSUME SizeInv, all' = all, creating' = creating
                  PROVE  SizeInv'
  BY DEF SizeInv, PoolBounded

LEMMA AcquireSize == ASSUME SizeInv, NEW t, Acquire(t) PROVE SizeInv'
<1> USE PoolAssumption
<1>1. CASE creating' = creating
  BY <1>1, SameSize DEF Acquire
<1>2. CASE MayGrow /\ creating' = creating + 1
  <2>1. Cardinality(all) \in Nat
    BY FS_CardinalityType DEF SizeInv
  <2> QED
    BY <1>2, <2>1 DEF Acquire, MayGrow, SizeInv, PoolBounded
<1> QED
  BY <1>1, <1>2 DEF Acquire, Lend

LEMMA CreateSize == ASSUME SizeInv, NEW t, CreateSucceeds(t) \/ CreateFails(t)
                    PROVE  SizeInv'
<1> USE PoolAssumption
<1>1. CASE CreateSucceeds(t)
  <2>1. PICK c : all' = all \cup {c}
    BY <1>1 DEF CreateSucceeds
  <2>2. creating' = creating - 1
    BY <1>1 DEF CreateSucceeds
  <2>3. /\ IsFiniteSet(all')
        /\ Cardinality(all) \in Nat
        /\ Cardinality(all') \in Nat
        /\ Cardinality(all') <= Cardinality(all) + 1
    BY <2>1, FreshIsNew DEF SizeInv
  <2> QED
    BY <2>2, <2>3 DEF SizeInv, PoolBounded
<1>2. CASE CreateFails(t)
  <2>1. Cardinality(all) \in Nat
    BY FS_CardinalityType DEF SizeInv
  <2> QED
    BY <1>2, <2>1 DEF CreateFails, SizeInv, PoolBounded
<1> QED
  BY <1>1, <1>2

LEMMA HealthSize == ASSUME SizeInv, HealthTry PROVE SizeInv'
<1> USE PoolAssumption
<1>1. all' \subseteq all /\ creating' = creating
  BY DEF HealthTry, Answers, Dead, poolVars
<1>2. IsFiniteSet(all') /\ Cardinality(all') <= Cardinality(all)
  BY <1>1, FS_Subset DEF SizeInv
<1>3. Cardinality(all) \in Nat /\ Cardinality(all') \in Nat
  BY <1>2, FS_CardinalityType DEF SizeInv
<1> QED
  BY <1>1, <1>2, <1>3 DEF SizeInv, PoolBounded

LEMMA StepSize == SizeInv /\ [Next]_vars => SizeInv'
<1> SUFFICES ASSUME SizeInv, [Next]_vars PROVE SizeInv'
  OBVIOUS
<1>1. CASE \E w \in Workers, r \in Requests : Receive(w, r)
  BY <1>1, SameSize DEF Receive, poolVars
<1>2. ASSUME NEW t, GetConnection(t) \/ AcquireTimeout(t) \/ Statement(t)
                       \/ BeginTransaction(t) \/ Record(t)
      PROVE  SizeInv'
  BY <1>2, SameSize
  DEF GetConnection, AcquireTimeout, Statement, BeginTransaction, Record, poolVars
<1>3. ASSUME NEW t, FinalizeTake(t) \/ FinalizeRun(t) PROVE SizeInv'
  BY <1>3, SameSize DEF FinalizeTake, FinalizeRun, poolVars
<1>4. ASSUME NEW t, Leave(t) PROVE SizeInv'
  BY <1>4, SameSize DEF Leave, Drop
<1>5. CASE \E w \in Workers : Serve(w)
  BY <1>2, <1>3, <1>4, <1>5, AcquireSize, CreateSize DEF Serve, PoolStep
<1>6. CASE HealthTake \/ HealthReturn \/ Collect \/ Sweep
  BY <1>6, SameSize DEF HealthTake, HealthReturn, Collect, Sweep, poolVars
<1>7. CASE OnTick
  BY <1>3, <1>4, <1>6, <1>7, HealthSize DEF OnTick, PoolStep
<1>8. CASE \E x \in Txs : DeadlinePasses(x)
  BY <1>8, SameSize DEF DeadlinePasses, poolVars
<1>9. CASE \E c \in Conns : PoolStep(Lose(c))
  BY <1>9, SameSize DEF PoolStep, Lose, poolVars
<1>10. CASE UNCHANGED vars
  BY <1>10, SameSize DEF vars, poolVars
<1> QED
  BY <1>1, <1>5, <1>7, <1>8, <1>9, <1>10 DEF Next

(* However many threads grow the pool at once, and whatever the health      *)
(* check drops meanwhile, it stays within its maximum                       *)
(* (MySQLConnectionPool.cpp:76-98).                                         *)
THEOREM PoolBoundedCorrect == Spec => []PoolBounded
<1>1. SizeInv => PoolBounded
  BY DEF SizeInv
<1> QED
  BY <1>1, InitSize, StepSize, PTL DEF Spec

-----------------------------------------------------------------------------
(* Each connection is in one place.  The counts of OnePlace are those of     *)
(* sets: no queue names a connection twice.                                 *)

Rng(s) == {s[i] : i \in DOMAIN s}
NoTwice(s) == \A i, j \in DOMAIN s : s[i] = s[j] => i = j

\* The connections some thread or transaction refers to.
LentSet == ({conn[t] : t \in Threads} \cup {txs[x] : x \in DOMAIN txs}) \cap Conns

Parted(I, C, H, L, A) ==
    /\ I \cap C = {} /\ I \cap H = {} /\ I \cap L = {}
    /\ C \cap H = {} /\ C \cap L = {} /\ H \cap L = {}
    /\ A = I \cup C \cup H \cup L

PlaceInv ==
    /\ NoTwice(idle) /\ NoTwice(checking) /\ NoTwice(healthy)
    /\ Parted(Rng(idle), Rng(checking), Rng(healthy), LentSet, all)
    /\ active = Cardinality(LentSet)

(* Where a thread has a reference, and what the pool's own variables hold;  *)
(* an id that has not been given out yet is no transaction's.               *)
Holding == {"use", "record", "drop", "finish"}

Making == {t \in Threads : pc[t] = "create"}

CtlInv ==
    /\ idle \in Seq(Conns) /\ checking \in Seq(Conns) /\ healthy \in Seq(Conns)
    /\ conn \in [Threads -> Conns \cup {None}]
    /\ pc \in [Threads -> Labels]
    /\ nextTx \in Nat \ {0} /\ DOMAIN txs \subseteq 1 .. nextTx - 1
    /\ \A x \in DOMAIN txs : txs[x] \in Conns
    /\ \A t \in Threads : conn[t] # None <=> pc[t] \in Holding
    /\ pc[Tick] # "check" => checking = <<>> /\ healthy = <<>>

MakingInv == IsFiniteSet(Making) /\ creating = Cardinality(Making)

-----------------------------------------------------------------------------
\* A queue with one more connection at its end.
LEMMA AppendPlaces ==
    ASSUME NEW s \in Seq(Conns), NEW c \in Conns
    PROVE  /\ Append(s, c) \in Seq(Conns)
           /\ Rng(Append(s, c)) = Rng(s) \cup {c}
           /\ NoTwice(s) /\ c \notin Rng(s) => NoTwice(Append(s, c))
<1> DEFINE q == Append(s, c)
<1>1. /\ q \in Seq(Conns) /\ DOMAIN s = 1 .. Len(s) /\ DOMAIN q = 1 .. Len(s) + 1
      /\ Len(s) \in Nat /\ q[Len(s) + 1] = c
      /\ \A i \in 1 .. Len(s) : q[i] = s[i]
  OBVIOUS
<1> HIDE DEF q
<1>2. \A i \in DOMAIN q : i \in DOMAIN s \/ i = Len(s) + 1
  BY <1>1
<1>3. \A i \in DOMAIN s : i \in DOMAIN q /\ i # Len(s) + 1 /\ q[i] = s[i]
  BY <1>1
<1>4. Len(s) + 1 \in DOMAIN q
  BY <1>1
<1>5. Rng(q) = Rng(s) \cup {c}
  BY <1>1, <1>2, <1>3, <1>4 DEF Rng
<1>6. ASSUME NoTwice(s), c \notin Rng(s) PROVE NoTwice(q)
  <2>1. \A i \in DOMAIN s : s[i] # c
    BY <1>6 DEF Rng
  <2> QED
    BY <1>1, <1>2, <1>3, <1>6, <2>1 DEF NoTwice
<1> QED
  BY <1>1, <1>5, <1>6 DEF q

\* A queue without its first.
LEMMA TailPlaces ==
    ASSUME NEW s \in Seq(Conns), s # <<>>, NoTwice(s)
    PROVE  /\ Head(s) \in Conns /\ Head(s) \in Rng(s)
           /\ Tail(s) \in Seq(Conns) /\ NoTwice(Tail(s))
           /\ Rng(Tail(s)) = Rng(s) \ {Head(s)}
<1> DEFINE q == Tail(s)
<1>1. /\ q \in Seq(Conns) /\ DOMAIN s = 1 .. Len(s) /\ Len(s) \in Nat \ {0}
      /\ DOMAIN q = 1 .. Len(s) - 1 /\ Head(s) = s[1] /\ Head(s) \in Conns
      /\ \A i \in 1 .. Len(s) - 1 : q[i] = s[i + 1]
  BY HeadTailProperties
<1> HIDE DEF q
<1>2. \A i \in DOMAIN q : i \in Int /\ i + 1 \in DOMAIN s /\ i + 1 # 1 /\ q[i] = s[i + 1]
  BY <1>1
<1>3. \A j \in DOMAIN s : j # 1 => j - 1 \in DOMAIN q /\ q[j - 1] = s[j]
  BY <1>1
<1>4. 1 \in DOMAIN s
  BY <1>1
<1>5. NoTwice(q)
  <2> SUFFICES ASSUME NEW i \in DOMAIN q, NEW j \in DOMAIN q, q[i] = q[j] PROVE i = j
    BY DEF NoTwice
  <2>1. i + 1 = j + 1
    BY <1>2 DEF NoTwice
  <2> QED
    BY <1>2, <2>1
<1>6. Rng(q) = Rng(s) \ {s[1]}
  <2>1. ASSUME NEW i \in DOMAIN q PROVE q[i] \in Rng(s) \ {s[1]}
    BY <1>2, <1>4 DEF NoTwice, Rng
  <2>2. ASSUME NEW j \in DOMAIN s, s[j] # s[1] PROVE s[j] \in Rng(q)
    BY <1>3, <2>2 DEF Rng
  <2> QED
    BY <2>1, <2>2 DEF Rng
<1>7. s[1] \in Rng(s)
  BY <1>4 DEF Rng
<1> QED
  BY <1>1, <1>5, <1>6, <1>7 DEF q

\* Two queues joined.
LEMMA ConcatPlaces ==
    ASSUME NEW a \in Seq(Conns), NEW b \in Seq(Conns), NoTwice(a), NoTwice(b),
           Rng(a) \cap Rng(b) = {}
    PROVE  /\ a \o b \in Seq(Conns) /\ NoTwice(a \o b)
           /\ Rng(a \o b) = Rng(a) \cup Rng(b)
<1> DEFINE q == a \o b
<1>1. /\ q \in Seq(Conns) /\ Len(a) \in Nat /\ Len(b) \in Nat
      /\ DOMAIN a = 1 .. Len(a) /\ DOMAIN b = 1 .. Len(b)
      /\ DOMAIN q = 1 .. Len(a) + Len(b)
      /\ \A i \in 1 .. Len(a) + Len(b) : q[i] = IF i <= Len(a) THEN a[i] ELSE b[i - Len(a)]
  BY ConcatProperties
<1> HIDE DEF q
<1>2. \A i \in DOMAIN q : /\ i \in Int
                          /\ \/ i \in DOMAIN a /\ q[i] = a[i]
                             \/ i - Len(a) \in DOMAIN b /\ q[i] = b[i - Len(a)]
  BY <1>1
<1>3. \A i \in DOMAIN a : i \in DOMAIN q /\ q[i] = a[i]
  BY <1>1
<1>4. \A i \in DOMAIN b : i + Len(a) \in DOMAIN q /\ q[i + Len(a)] = b[i]
  BY <1>1
<1>5. \A i \in DOMAIN a, j \in DOMAIN b : a[i] # b[j]
  BY DEF Rng
<1>6. Rng(q) = Rng(a) \cup Rng(b)
  BY <1>2, <1>3, <1>4 DEF Rng
<1>7. NoTwice(q)
  <2> SUFFICES ASSUME NEW i \in DOMAIN q, NEW j \in DOMAIN q, q[i] = q[j] PROVE i = j
    BY DEF NoTwice
  <2>1. CASE i \in DOMAIN a /\ q[i] = a[i]
    <3>1. j \in DOMAIN a /\ q[j] = a[j]
      BY <1>2, <1>5, <2>1
    <3> QED
      BY <2>1, <3>1 DEF NoTwice
  <2>2. CASE i - Len(a) \in DOMAIN b /\ q[i] = b[i - Len(a)]
    <3>1. j - Len(a) \in DOMAIN b /\ q[j] = b[j - Len(a)]
      BY <1>2, <1>5, <2>2
    <3>2. i - Len(a) = j - Len(a)
      BY <2>2, <3>1 DEF NoTwice
    <3> QED
      BY <1>1, <1>2, <3>2
  <2> QED
    BY <1>2, <2>1, <2>2
<1> QED
  BY <1>1, <1>6, <1>7 DEF q

\* A connection occurs once in a queue, or not at all.
LEMMA OccursOnce ==
    ASSUME NEW s, NEW c, NoTwice(s)
    PROVE  Occurrences(s, c) = IF c \in Rng(s) THEN 1 ELSE 0
<1>1. CASE c \in Rng(s)
  <2>1. PICK k \in DOMAIN s : s[k] = c
    BY <1>1 DEF Rng
  <2>2. {i \in DOMAIN s : s[i] = c} = {k}
    BY <2>1 DEF NoTwice
  <2> QED
    BY <1>1, <2>2, FS_Singleton DEF Occurrences
<1>2. CASE c \notin Rng(s)
  <2>1. {i \in DOMAIN s : s[i] = c} = {}
    BY <1>2 DEF Rng
  <2> QED
    BY <1>2, <2>1, FS_EmptySet DEF Occurrences
<1> QED
  BY <1>1, <1>2

\* Sets that part the connections count each once.
LEMMA PlacesMean == PlaceInv => OnePlace
<1> SUFFICES ASSUME PlaceInv PROVE OnePlace
  OBVIOUS
<1>1. \A c \in Conns : Lent(c) <=> c \in LentSet
  BY DEF Lent, SharedBy, LentSet
<1>2. {c \in Conns : Lent(c)} = LentSet
  BY <1>1 DEF LentSet
<1>3. ASSUME NEW c \in Conns
      PROVE  Occurrences(idle, c) + Occurrences(checking, c) + Occurrences(healthy, c)
                + (IF Lent(c) THEN 1 ELSE 0) = (IF c \in all THEN 1 ELSE 0)
  <2>1. /\ Occurrences(idle, c) = IF c \in Rng(idle) THEN 1 ELSE 0
        /\ Occurrences(checking, c) = IF c \in Rng(checking) THEN 1 ELSE 0
        /\ Occurrences(healthy, c) = IF c \in Rng(healthy) THEN 1 ELSE 0
    BY OccursOnce DEF PlaceInv
  <2>2. /\ c \in Rng(idle) => c \notin Rng(checking) /\ c \notin Rng(healthy) /\ c \notin LentSet
        /\ c \in Rng(checking) => c \notin Rng(healthy) /\ c \notin LentSet
        /\ c \in Rng(healthy) => c \notin LentSet
        /\ c \in all <=> c \in Rng(idle) \/ c \in Rng(checking) \/ c \in Rng(healthy)
                            \/ c \in LentSet
    BY DEF PlaceInv, Parted
  <2>3. Lent(c) <=> c \in LentSet
    BY <1>1
  <2> QED
    BY <2>1, <2>2, <2>3
<1> QED
  BY <1>2, <1>3 DEF OnePlace, PlaceInv

-----------------------------------------------------------------------------
(* The threads and their references.                                        *)

\* Steps that leave the queues and the transactions alone.
LEMMA CtlFrame ==
    ASSUME CtlInv, UNCHANGED <<idle, checking, healthy, txs, nextTx>>,
           conn' \in [Threads -> Conns \cup {None}], pc' \in [Threads -> Labels],
           \A t \in Threads : conn'[t] # None <=> pc'[t] \in Holding,
           pc'[Tick] # "check" => pc[Tick] # "check"
    PROVE  CtlInv'
  BY DEF CtlInv

\* The next two say what a step of one thread does to its label and its reference.
LEMMA CtlLabel ==
    ASSUME CtlInv, UNCHANGED <<idle, checking, healthy, txs, nextTx, conn>>,
           NEW t \in Threads, NEW l \in Labels, pc' = [pc EXCEPT ![t] = l],
           pc[t] \in Holding <=> l \in Holding, pc[t] # "check"
    PROVE  CtlInv'
<1>1. /\ pc' \in [Threads -> Labels] /\ pc'[t] = l
      /\ \A u \in Threads : u # t => pc'[u] = pc[u]
  BY DEF CtlInv
<1>2. \A u \in Threads : conn'[u] # None <=> pc'[u] \in Holding
  BY <1>1 DEF CtlInv
<1>3. pc'[Tick] # "check" => pc[Tick] # "check"
  BY <1>1 DEF Threads
<1> QED
  BY <1>1, <1>2, <1>3, CtlFrame DEF CtlInv

LEMMA CtlTake ==
    ASSUME CtlInv, NEW t \in Threads, NEW l \in Labels \cap Holding, NEW h \in Conns,
           pc[t] \notin Holding, pc[t] # "check",
           pc' = [pc EXCEPT ![t] = l], conn' = [conn EXCEPT ![t] = h]
    PROVE  /\ conn' \in [Threads -> Conns \cup {None}] /\ pc' \in [Threads -> Labels]
           /\ \A u \in Threads : conn'[u] # None <=> pc'[u] \in Holding
           /\ pc'[Tick] # "check" => pc[Tick] # "check"
           /\ conn[t] = None
<1>1. /\ pc' \in [Threads -> Labels] /\ pc'[t] = l
      /\ conn' \in [Threads -> Conns \cup {None}] /\ conn'[t] = h
      /\ \A u \in Threads : u # t => pc'[u] = pc[u] /\ conn'[u] = conn[u]
  BY DEF CtlInv
<1>2. h # None
  BY PoolAssumption
<1>3. conn[t] = None
  BY DEF CtlInv
<1>4. \A u \in Threads : conn'[u] # None <=> pc'[u] \in Holding
  BY <1>1, <1>2 DEF CtlInv
<1>5. pc'[Tick] # "check" => pc[Tick] # "check"
  BY <1>1 DEF Threads
<1> QED
  BY <1>1, <1>3, <1>4, <1>5

\* A thread that takes a reference, and one that keeps what it has.
LEMMA LentTake ==
    ASSUME CtlInv, NEW t \in Threads, conn[t] = None, NEW h \in Conns,
           conn' = [conn EXCEPT ![t] = h], txs' = txs
    PROVE  LentSet' = LentSet \cup {h}
<1>1. conn'[t] = h /\ \A u \in Threads : u # t => conn'[u] = conn[u]
  BY DEF CtlInv
<1>2. conn[t] \notin Conns
  BY PoolAssumption
<1> QED
  BY <1>1, <1>2 DEF LentSet

\* Nothing about places changes when the queues do not and the same connections are lent.
LEMMA PlaceFrame ==
    ASSUME PlaceInv, UNCHANGED <<idle, checking, healthy, all, active>>, LentSet' = LentSet
    PROVE  PlaceInv'
  BY DEF PlaceInv, Parted, Rng, NoTwice

\* Nor about who makes a connection.
LEMMA MakingFrame ==
    ASSUME MakingInv, UNCHANGED creating,
           \A t \in Threads : pc'[t] = "create" <=> pc[t] = "create"
    PROVE  MakingInv'
<1>1. Making' = Making
  BY DEF Making
<1> QED
  BY <1>1 DEF MakingInv

(* The whole invariant.                                                      *)
PoolInv == SizeInv /\ CtlInv /\ MakingInv /\ PlaceInv

\* The new pool: its connections are all idle.
LEMMA InitPool == Init => PoolInv
<1> SUFFICES ASSUME Init PROVE PoolInv
  OBVIOUS
<1>1. PICK n \in 1 .. PoolSize : idle = [i \in 1 .. n |-> i] /\ all = 1 .. n
  BY DEF Init, PoolInit
<1>2. n \in Nat /\ 1 .. n \subseteq Conns
  BY PoolAssumption
<1>3. idle \in Seq(Conns) /\ DOMAIN idle = 1 .. n /\ \A i \in 1 .. n : idle[i] = i
  BY <1>1, <1>2
<1>4. NoTwice(idle) /\ Rng(idle) = 1 .. n
  BY <1>3 DEF NoTwice, Rng
<1>5. LentSet = {}
  BY PoolAssumption DEF Init, PoolInit, LentSet
<1>6. CtlInv
  BY <1>3, PoolAssumption DEF Init, PoolInit, CtlInv, Labels, Holding, Threads
<1>7. MakingInv
  <2>1. Making = {}
    BY DEF Init, Making
  <2> QED
    BY <2>1, FS_EmptySet DEF MakingInv, Init, PoolInit
<1>8. PlaceInv
  <2>1. checking = <<>> /\ healthy = <<>> /\ active = 0
    BY DEF Init, PoolInit
  <2>2. Rng(<<>>) = {} /\ NoTwice(<<>>)
    BY DEF Rng, NoTwice
  <2> QED
    BY <1>1, <1>4, <1>5, <2>1, <2>2, FS_EmptySet DEF PlaceInv, Parted
<1> QED
  BY <1>6, <1>7, <1>8, InitSize DEF PoolInv

\* Only lent connections are counted, and there are finitely many.
LEMMA LentFinite == ASSUME SizeInv, PlaceInv PROVE IsFiniteSet(LentSet)
<1>1. LentSet \subseteq all /\ IsFiniteSet(all)
  BY DEF PlaceInv, Parted, SizeInv
<1> QED
  BY <1>1, FS_Subset

\* A step that only moves one thread on, holding as much as before.
LEMMA QuietKeeps ==
    ASSUME PoolInv, UNCHANGED <<poolVars, checkVars, conn, txs, nextTx>>,
           NEW t \in Threads, NEW l \in Labels \ {"create"}, pc' = [pc EXCEPT ![t] = l],
           pc[t] \notin {"create", "check"}, pc[t] \in Holding <=> l \in Holding
    PROVE  CtlInv' /\ MakingInv' /\ PlaceInv'
<1> USE DEF PoolInv, poolVars, checkVars
<1>1. CtlInv'
  BY CtlLabel
<1>2. \A u \in Threads : pc'[u] = "create" <=> pc[u] = "create"
  BY DEF CtlInv
<1>3. LentSet' = LentSet
  BY DEF LentSet
<1> QED
  BY <1>1, <1>2, <1>3, MakingFrame, PlaceFrame

\* A step that moves no thread.
LEMMA StillKeeps ==
    ASSUME PoolInv, UNCHANGED <<poolVars, checkVars, conn, txs, nextTx, pc>>
    PROVE  CtlInv' /\ MakingInv' /\ PlaceInv'
  BY PlaceFrame, MakingFrame
  DEF PoolInv, poolVars, checkVars, CtlInv, LentSet, Holding

\* The first idle connection goes to the thread that asked.
LEMMA LendKeeps ==
    ASSUME PoolInv, NEW t \in Threads, NEW q \in Seq(Conns), q # <<>>, NoTwice(q),
           Parted(Rng(q), Rng(checking), Rng(healthy), LentSet, all'),
           Lend(t, q), UNCHANGED <<checkVars, txs, nextTx>>,
           pc[t] \notin Holding, pc[t] # "check"
    PROVE  CtlInv' /\ PlaceInv'
<1> USE DEF PoolInv, checkVars
<1>1. PICK h \in Conns : h = Head(q)
  BY TailPlaces
<1>2. /\ conn' = [conn EXCEPT ![t] = h] /\ idle' = Tail(q) /\ active' = active + 1
      /\ pc' = [pc EXCEPT ![t] = "use"]
  BY <1>1 DEF Lend
<1>3. /\ idle' \in Seq(Conns) /\ NoTwice(idle') /\ Rng(idle') = Rng(q) \ {h}
      /\ h \in Rng(q)
  BY <1>1, <1>2, TailPlaces
<1>4. /\ conn' \in [Threads -> Conns \cup {None}] /\ pc' \in [Threads -> Labels]
      /\ \A u \in Threads : conn'[u] # None <=> pc'[u] \in Holding
      /\ pc'[Tick] # "check" => pc[Tick] # "check"
      /\ conn[t] = None
  <2>1. "use" \in Labels \cap Holding
    BY DEF Labels, Holding
  <2> QED
    BY <1>2, <2>1, CtlTake
<1>5. CtlInv'
  BY <1>3, <1>4 DEF CtlInv
<1>6. LentSet' = LentSet \cup {h}
  BY <1>2, <1>4, LentTake
<1>7. Cardinality(LentSet') = active + 1
  <2>1. h \notin LentSet
    BY <1>3 DEF Parted
  <2> QED
    BY <1>6, <2>1, LentFinite, FS_AddElement DEF PlaceInv
<1>8. Parted(Rng(idle'), Rng(checking), Rng(healthy), LentSet', all')
  BY <1>3, <1>6 DEF Parted
<1>9. checking' = checking /\ healthy' = healthy
  OBVIOUS
<1>10. NoTwice(checking') /\ NoTwice(healthy')
  BY <1>9 DEF PlaceInv
<1>11. Parted(Rng(idle'), Rng(checking'), Rng(healthy'), LentSet', all')
  BY <1>8, <1>9
<1> QED
  BY <1>2, <1>3, <1>5, <1>7, <1>10, <1>11 DEF PlaceInv

\* One turn of acquire.
LEMMA AcquireKeeps ==
    ASSUME PoolInv, NEW t \in Threads, Acquire(t), UNCHANGED nextTx
    PROVE  CtlInv' /\ MakingInv' /\ PlaceInv'
<1> USE DEF PoolInv
<1>1. pc[t] = "acquire" /\ UNCHANGED <<all, checkVars, txs>>
  BY DEF Acquire
<1>2. pc[t] \notin Holding /\ pc[t] # "check" /\ pc[t] # "create"
  BY <1>1 DEF Holding
<1>3. CASE idle # <<>> /\ Lend(t, idle) /\ UNCHANGED creating
  <2>1. idle \in Seq(Conns) /\ NoTwice(idle)
        /\ Parted(Rng(idle), Rng(checking), Rng(healthy), LentSet, all')
    BY <1>1 DEF CtlInv, PlaceInv
  <2>2. CtlInv' /\ PlaceInv'
    BY <1>1, <1>2, <1>3, <2>1, LendKeeps
  <2>3. \A u \in Threads : pc'[u] = "create" <=> pc[u] = "create"
    BY <1>2, <1>3 DEF Lend, CtlInv
  <2> QED
    BY <1>3, <2>2, <2>3, MakingFrame
<1>4. CASE /\ creating' = creating + 1 /\ pc' = [pc EXCEPT ![t] = "create"]
           /\ UNCHANGED <<idle, active, conn>>
  <2>1. CtlInv'
    <3>1. "create" \in Labels /\ "create" \notin Holding
      BY DEF Labels, Holding
    <3> QED
      BY <1>1, <1>2, <1>4, <3>1, CtlLabel DEF checkVars
  <2>2. Making' = Making \cup {t} /\ t \notin Making
    BY <1>2, <1>4 DEF Making, CtlInv
  <2>3. MakingInv'
    BY <1>4, <2>2, FS_AddElement DEF MakingInv
  <2>4. LentSet' = LentSet
    BY <1>1, <1>4 DEF LentSet
  <2> QED
    BY <1>1, <1>4, <2>1, <2>3, <2>4, PlaceFrame DEF checkVars
<1>5. CASE pc' = [pc EXCEPT ![t] = "wait"] /\ UNCHANGED <<idle, creating, active, conn>>
  <2>1. "wait" \in Labels \ {"create"} /\ "wait" \notin Holding
    BY DEF Labels, Holding
  <2> QED
    BY <1>1, <1>2, <1>5, <2>1, QuietKeeps DEF poolVars
<1> QED
  BY <1>3, <1>4, <1>5 DEF Acquire

\* There is room for a new connection object.
LEMMA FreshExists == ASSUME PoolInv PROVE createOne \in Conns \ all
<1> SUFFICES \E c \in Conns : c \notin all
  BY DEF createOne
<1> SUFFICES ASSUME Conns \subseteq all PROVE FALSE
  OBVIOUS
<1>1. 1 .. MaxPool + 1 \subseteq all /\ IsFiniteSet(all) /\ MaxPool \in Nat
  BY PoolAssumption DEF PoolInv, SizeInv
<1>2. Cardinality(1 .. MaxPool + 1) = MaxPool + 1
  BY <1>1, FS_Interval
<1>3. MaxPool + 1 <= Cardinality(all) /\ Cardinality(all) \in Nat
  BY <1>1, <1>2, FS_Subset, FS_CardinalityType
<1>4. creating \in Nat
  BY FS_CardinalityType DEF PoolInv, MakingInv
<1> QED
  BY <1>1, <1>3, <1>4 DEF PoolInv, SizeInv, PoolBounded

\* A thread that has made a connection, or failed to.
LEMMA CreateKeeps ==
    ASSUME PoolInv, NEW t \in Threads, CreateSucceeds(t) \/ CreateFails(t), UNCHANGED nextTx
    PROVE  CtlInv' /\ MakingInv' /\ PlaceInv'
<1> USE DEF PoolInv
<1>1. /\ pc[t] = "create" /\ creating' = creating - 1 /\ UNCHANGED <<checkVars, txs>>
      /\ pc[t] \notin Holding /\ pc[t] # "check"
  BY DEF CreateSucceeds, CreateFails, Holding
<1>2. PICK l \in {"use", "wait"} : pc' = [pc EXCEPT ![t] = l]
  BY DEF CreateSucceeds, CreateFails, Lend
<1>3. MakingInv'
  <2>1. Making' = Making \ {t} /\ t \in Making
    BY <1>1, <1>2 DEF Making, CtlInv
  <2> QED
    BY <1>1, <2>1, FS_RemoveElement DEF MakingInv
<1>4. CASE CreateSucceeds(t)
  <2>1. PICK c \in Conns \ all : c = createOne
    BY FreshExists
  <2>2. all' = all \cup {c} /\ Lend(t, Append(idle, c))
    BY <1>4, <2>1 DEF CreateSucceeds
  <2>3. PICK q \in Seq(Conns) : q = Append(idle, c)
    BY <2>1, AppendPlaces DEF CtlInv
  <2>4. c \notin Rng(idle)
    BY <2>1 DEF PlaceInv, Parted
  <2>5. NoTwice(q) /\ Rng(q) = Rng(idle) \cup {c}
    BY <2>1, <2>3, <2>4, AppendPlaces DEF CtlInv, PlaceInv
  <2>6. q # <<>>
    BY <2>5 DEF Rng
  <2>7. Parted(Rng(q), Rng(checking), Rng(healthy), LentSet, all')
    BY <2>1, <2>2, <2>5 DEF PlaceInv, Parted
  <2> QED
    BY <1>1, <1>3, <2>2, <2>3, <2>5, <2>6, <2>7, LendKeeps
<1>5. CASE CreateFails(t)
  <2>1. /\ UNCHANGED <<idle, all, active, checking, healthy, conn, txs>>
        /\ pc' = [pc EXCEPT ![t] = "wait"]
    BY <1>5 DEF CreateFails, checkVars
  <2>2. "wait" \in Labels /\ "wait" \notin Holding
    BY DEF Labels, Holding
  <2>3. CtlInv'
    BY <1>1, <2>1, <2>2, CtlLabel
  <2>4. LentSet' = LentSet
    BY <2>1 DEF LentSet
  <2> QED
    BY <1>3, <2>1, <2>3, <2>4, PlaceFrame
<1> QED
  BY <1>4, <1>5

\* A transaction's reference is copied, or refused.
LEMMA LookupKeeps ==
    ASSUME PoolInv, NEW w \in Threads, GetConnection(w)
    PROVE  CtlInv' /\ MakingInv' /\ PlaceInv'
<1> USE DEF PoolInv
<1>1. /\ pc[w] = "lookup" /\ UNCHANGED <<poolVars, checkVars, txs, txVars>>
      /\ pc[w] \notin Holding \cup {"check", "create"}
  BY DEF GetConnection, Holding
<1>2. CASE /\ req[w].tx \in DOMAIN txs
           /\ conn' = [conn EXCEPT ![w] = txs[req[w].tx]] /\ pc' = [pc EXCEPT ![w] = "use"]
  <2>1. PICK h \in Conns : h = txs[req[w].tx]
    BY <1>2 DEF CtlInv
  <2>2. "use" \in Labels \cap Holding
    BY DEF Labels, Holding
  <2>3. /\ conn' \in [Threads -> Conns \cup {None}] /\ pc' \in [Threads -> Labels]
        /\ \A u \in Threads : conn'[u] # None <=> pc'[u] \in Holding
        /\ pc'[Tick] # "check" => pc[Tick] # "check"
        /\ conn[w] = None
    BY <1>1, <1>2, <2>1, <2>2, CtlTake
  <2>4. CtlInv'
    BY <1>1, <2>3, CtlFrame DEF poolVars, checkVars, txVars
  <2>5. LentSet' = LentSet
    <3>1. LentSet' = LentSet \cup {h}
      BY <1>1, <1>2, <2>1, <2>3, LentTake
    <3>2. h \in LentSet
      BY <1>2, <2>1 DEF LentSet
    <3> QED
      BY <3>1, <3>2
  <2>6. \A u \in Threads : pc'[u] = "create" <=> pc[u] = "create"
    BY <1>1, <1>2 DEF CtlInv
  <2> QED
    BY <1>1, <2>4, <2>5, <2>6, MakingFrame, PlaceFrame DEF poolVars, checkVars
<1>3. CASE UNCHANGED conn /\ pc' = [pc EXCEPT ![w] = "free"]
  <2>1. "free" \in Labels \ {"create"} /\ "free" \notin Holding
    BY DEF Labels, Holding
  <2> QED
    BY <1>1, <1>3, <2>1, QuietKeeps DEF txVars
<1> QED
  BY <1>2, <1>3 DEF GetConnection

\* begin's reference becomes the transaction's, whose id is new.
LEMMA RecordKeeps ==
    ASSUME PoolInv, NEW w \in Threads, Record(w)
    PROVE  CtlInv' /\ MakingInv' /\ PlaceInv'
<1> USE DEF PoolInv
<1>1. /\ pc[w] = "record" /\ UNCHANGED <<poolVars, checkVars>>
      /\ txs' = [x \in DOMAIN txs \cup {nextTx} |-> IF x = nextTx THEN conn[w] ELSE txs[x]]
      /\ nextTx' = nextTx + 1
      /\ conn' = [conn EXCEPT ![w] = None] /\ pc' = [pc EXCEPT ![w] = "free"]
  BY DEF Record
<1>2. PICK c \in Conns : c = conn[w]
  BY <1>1 DEF CtlInv, Holding
<1>3. /\ nextTx \in Nat /\ DOMAIN txs \subseteq 1 .. nextTx - 1 /\ nextTx \notin DOMAIN txs
  BY DEF CtlInv
<1>4. /\ DOMAIN txs' = DOMAIN txs \cup {nextTx} /\ txs'[nextTx] = c
      /\ \A x \in DOMAIN txs : txs'[x] = txs[x]
  BY <1>1, <1>2, <1>3
<1>5. /\ conn' \in [Threads -> Conns \cup {None}] /\ conn'[w] = None
      /\ \A u \in Threads : u # w => conn'[u] = conn[u] /\ pc'[u] = pc[u]
      /\ pc' \in [Threads -> Labels] /\ pc'[w] = "free"
  BY <1>1 DEF CtlInv, Labels
<1>6. LentSet' = LentSet
  <2>1. ASSUME NEW d \in Conns, d \in LentSet PROVE d \in LentSet'
    <3>1. CASE d = c
      BY <1>4, <3>1 DEF LentSet
    <3>2. CASE d # c
      <4>1. \/ \E u \in Threads : u # w /\ conn[u] = d
            \/ \E x \in DOMAIN txs : txs[x] = d
        BY <1>2, <2>1, <3>2 DEF LentSet
      <4> QED
        BY <1>4, <1>5, <4>1 DEF LentSet
    <3> QED
      BY <3>1, <3>2
  <2>2. ASSUME NEW d \in Conns, d \in LentSet' PROVE d \in LentSet
    <3>1. \/ \E u \in Threads : conn'[u] = d
          \/ \E x \in DOMAIN txs' : txs'[x] = d
      BY <2>2 DEF LentSet
    <3>2. d # None
      BY PoolAssumption
    <3> QED
      BY <1>2, <1>4, <1>5, <3>1, <3>2 DEF LentSet
  <2> QED
    BY <2>1, <2>2 DEF LentSet
<1>7. CtlInv'
  <2>1. nextTx' \in Nat \ {0} /\ DOMAIN txs' \subseteq 1 .. nextTx' - 1
    BY <1>1, <1>3, <1>4 DEF CtlInv
  <2>2. \A x \in DOMAIN txs' : txs'[x] \in Conns
    BY <1>4 DEF CtlInv
  <2>3. \A u \in Threads : conn'[u] # None <=> pc'[u] \in Holding
    BY <1>5 DEF CtlInv, Holding
  <2>4. pc'[Tick] # "check" => pc[Tick] # "check"
    BY <1>1, <1>5 DEF Threads
  <2> QED
    BY <1>1, <1>5, <2>1, <2>2, <2>3, <2>4 DEF CtlInv, checkVars, poolVars
<1>8. \A u \in Threads : pc'[u] = "create" <=> pc[u] = "create"
  BY <1>1, <1>5
<1> QED
  BY <1>1, <1>6, <1>7, <1>8, MakingFrame, PlaceFrame DEF poolVars, checkVars

\* finalize moves a transaction's reference out, or finds none.
LEMMA TakeKeeps ==
    ASSUME PoolInv, NEW t \in Threads, FinalizeTake(t)
    PROVE  CtlInv' /\ MakingInv' /\ PlaceInv'
<1> USE DEF PoolInv
<1>1. /\ pc[t] = "finalize" /\ UNCHANGED <<poolVars, checkVars, nextTx>>
      /\ pc[t] \notin Holding \cup {"check", "create"}
  BY DEF FinalizeTake, Holding
<1>2. CASE /\ req[t].tx \in DOMAIN txs
           /\ conn' = [conn EXCEPT ![t] = txs[req[t].tx]]
           /\ txs' = [y \in DOMAIN txs \ {req[t].tx} |-> txs[y]]
           /\ pc' = [pc EXCEPT ![t] = "finish"]
  <2>1. PICK x \in DOMAIN txs : x = req[t].tx
    BY <1>2
  <2>2. PICK h \in Conns : h = txs[x]
    BY DEF CtlInv
  <2>3. "finish" \in Labels \cap Holding
    BY DEF Labels, Holding
  <2>4. /\ conn' \in [Threads -> Conns \cup {None}] /\ pc' \in [Threads -> Labels]
        /\ \A u \in Threads : conn'[u] # None <=> pc'[u] \in Holding
        /\ pc'[Tick] # "check" => pc[Tick] # "check"
        /\ conn[t] = None
    BY <1>1, <1>2, <2>1, <2>2, <2>3, CtlTake
  <2>5. DOMAIN txs' = DOMAIN txs \ {x} /\ \A y \in DOMAIN txs' : txs'[y] = txs[y]
    BY <1>2, <2>1
  <2>6. CtlInv'
    BY <1>1, <2>4, <2>5 DEF CtlInv, poolVars, checkVars
  <2>7. conn'[t] = h /\ \A u \in Threads : u # t => conn'[u] = conn[u]
    BY <1>2, <2>1, <2>2 DEF CtlInv
  <2>8. LentSet' = LentSet
    <3>1. ASSUME NEW d \in Conns, d \in LentSet PROVE d \in LentSet'
      <4>1. CASE d = h
        BY <2>7, <4>1 DEF LentSet
      <4>2. CASE d # h
        <5>1. \/ \E u \in Threads : u # t /\ conn[u] = d
              \/ \E y \in DOMAIN txs \ {x} : txs[y] = d
          BY <2>2, <2>4, <3>1, <4>2, PoolAssumption DEF LentSet
        <5> QED
          BY <2>5, <2>7, <5>1 DEF LentSet
      <4> QED
        BY <4>1, <4>2
    <3>2. ASSUME NEW d \in Conns, d \in LentSet' PROVE d \in LentSet
      <4>1. \/ \E u \in Threads : conn'[u] = d
            \/ \E y \in DOMAIN txs' : txs'[y] = d
        BY <3>2 DEF LentSet
      <4> QED
        BY <2>2, <2>5, <2>7, <4>1 DEF LentSet
    <3> QED
      BY <3>1, <3>2 DEF LentSet
  <2>9. \A u \in Threads : pc'[u] = "create" <=> pc[u] = "create"
    BY <1>1, <1>2 DEF CtlInv
  <2> QED
    BY <1>1, <2>6, <2>8, <2>9, MakingFrame, PlaceFrame DEF poolVars, checkVars
<1>3. CASE UNCHANGED <<conn, txs>> /\ pc' = [pc EXCEPT ![t] = Done(t)]
  <2>1. Done(t) \in Labels \ {"create"} /\ Done(t) \notin Holding
    BY DEF Done, Labels, Holding
  <2> QED
    BY <1>1, <1>3, <2>1, QuietKeeps
<1> QED
  BY <1>2, <1>3 DEF FinalizeTake

\* Letting go of a reference: the last one puts the connection back.
LEMMA LeaveKeeps ==
    ASSUME PoolInv, NEW t \in Threads, Leave(t)
    PROVE  CtlInv' /\ MakingInv' /\ PlaceInv'
<1> USE DEF PoolInv
<1>1. /\ pc[t] = "drop" /\ UNCHANGED <<all, creating, checking, healthy, txs, nextTx>>
      /\ conn' = [conn EXCEPT ![t] = None]
  BY DEF Leave, Drop, checkVars, txVars
<1>2. PICK c \in Conns : c = conn[t]
  BY <1>1 DEF CtlInv, Holding
<1>3. /\ conn' \in [Threads -> Conns \cup {None}] /\ conn'[t] = None
      /\ \A u \in Threads : u # t => conn'[u] = conn[u]
  BY <1>1 DEF CtlInv
<1>4. /\ pc' \in [Threads -> Labels] /\ pc'[t] = Done(t)
      /\ \A u \in Threads : u # t =>
            pc'[u] = pc[u] \/ (u # Tick /\ pc[u] = "wait" /\ pc'[u] = "acquire")
  <2>0. pc \in [Threads -> Labels]
    BY DEF CtlInv
  <2>1. PICK l \in Labels : l = Done(t)
    BY DEF Done, Labels
  <2>5. "acquire" \in Labels
    BY DEF Labels
  <2>2. \/ pc' = [pc EXCEPT ![t] = Done(t)]
        \/ \E w \in Workers : /\ pc[w] = "wait"
                              /\ pc' = [pc EXCEPT ![t] = Done(t), ![w] = "acquire"]
    BY DEF Leave, Drop, Notify
  <2>3. CASE pc' = [pc EXCEPT ![t] = Done(t)]
    <3>1. pc' = [pc EXCEPT ![t] = l]
      BY <2>1, <2>3
    <3> QED
      BY <2>0, <2>1, <3>1
  <2>4. ASSUME NEW w \in Workers, pc[w] = "wait",
               pc' = [pc EXCEPT ![t] = Done(t), ![w] = "acquire"]
        PROVE  /\ pc' \in [Threads -> Labels] /\ pc'[t] = Done(t)
               /\ \A u \in Threads : u # t =>
                     pc'[u] = pc[u] \/ (u # Tick /\ pc[u] = "wait" /\ pc'[u] = "acquire")
    <3>1. pc' = [pc EXCEPT ![t] = l, ![w] = "acquire"] /\ w # t
      BY <1>1, <2>1, <2>4
    <3>2. w # Tick /\ w \in Threads
      BY PoolAssumption DEF Threads
    <3> QED
      BY <2>0, <2>1, <2>4, <2>5, <3>1, <3>2
  <2> QED
    BY <2>2, <2>3, <2>4
<1>5. \A u \in Threads : /\ pc'[u] = "create" <=> pc[u] = "create"
                         /\ conn'[u] # None <=> pc'[u] \in Holding
  BY <1>1, <1>3, <1>4 DEF CtlInv, Holding, Done
<1>6. pc'[Tick] # "check" => pc[Tick] # "check"
  BY <1>1, <1>4 DEF Threads
<1>7. MakingInv'
  BY <1>1, <1>5, MakingFrame
<1>8. c \in LentSet /\ \A d \in Conns \ {c} : d \in LentSet' <=> d \in LentSet
  <2>1. c \in LentSet
    BY <1>2 DEF LentSet
  <2>2. ASSUME NEW d \in Conns \ {c}, d \in LentSet PROVE d \in LentSet'
    <3>1. (\E u \in Threads : u # t /\ conn[u] = d) \/ (\E x \in DOMAIN txs : txs[x] = d)
      BY <1>2, <2>2 DEF LentSet
    <3> QED
      BY <1>1, <1>3, <3>1 DEF LentSet
  <2>3. ASSUME NEW d \in Conns \ {c}, d \in LentSet' PROVE d \in LentSet
    <3>1. (\E u \in Threads : conn'[u] = d) \/ (\E x \in DOMAIN txs : txs[x] = d)
      BY <1>1, <2>3 DEF LentSet
    <3>2. d # None
      BY PoolAssumption
    <3> QED
      BY <1>1, <1>3, <3>1, <3>2 DEF LentSet
  <2> QED
    BY <2>1, <2>2, <2>3
<1>9. CASE SharedBy(conn[t]) = {t}
  <2>1. idle' = Append(idle, c) /\ active' = active - 1
    BY <1>2, <1>9 DEF Leave, Drop
  <2>2. c \notin LentSet'
    <3>1. \A u \in Threads : conn[u] = c => u = t
      BY <1>2, <1>9 DEF SharedBy
    <3>2. \A x \in DOMAIN txs : txs[x] # c
      <4>1. \A x \in DOMAIN txs : x \in Nat
        BY DEF CtlInv
      <4>2. t \notin Nat
        BY PoolAssumption DEF Threads
      <4> QED
        BY <1>2, <1>9, <4>1, <4>2 DEF SharedBy
    <3>3. c # None
      BY PoolAssumption
    <3> QED
      BY <1>1, <1>3, <3>1, <3>2, <3>3 DEF LentSet
  <2>3. LentSet' = LentSet \ {c}
    <3>1. LentSet' \subseteq Conns /\ LentSet \subseteq Conns
      BY DEF LentSet
    <3> QED
      BY <1>8, <2>2, <3>1
  <2>4. active' = Cardinality(LentSet')
    BY <1>8, <2>1, <2>3, LentFinite, FS_RemoveElement DEF PlaceInv
  <2>5. /\ idle' \in Seq(Conns) /\ NoTwice(idle') /\ Rng(idle') = Rng(idle) \cup {c}
    <3>1. c \notin Rng(idle)
      BY <1>8 DEF PlaceInv, Parted
    <3> QED
      BY <2>1, <3>1, AppendPlaces DEF CtlInv, PlaceInv
  <2>6. Parted(Rng(idle'), Rng(checking), Rng(healthy), LentSet', all)
    BY <1>8, <2>3, <2>5 DEF PlaceInv, Parted
  <2>7. PlaceInv'
    <3>1. NoTwice(checking') /\ NoTwice(healthy')
      BY <1>1 DEF PlaceInv
    <3>2. Parted(Rng(idle'), Rng(checking'), Rng(healthy'), LentSet', all')
      BY <1>1, <2>6
    <3> QED
      BY <2>4, <2>5, <3>1, <3>2 DEF PlaceInv
  <2>8. CtlInv'
    BY <1>1, <1>3, <1>4, <1>5, <1>6, <2>5 DEF CtlInv
  <2> QED
    BY <1>7, <2>7, <2>8
<1>10. CASE SharedBy(conn[t]) # {t}
  <2>1. UNCHANGED <<active, idle>>
    BY <1>10 DEF Leave, Drop
  <2>2. c \in LentSet'
    <3>1. t \in SharedBy(c)
      BY <1>2 DEF SharedBy
    <3>2. PICK y \in SharedBy(c) : y # t
      BY <1>2, <1>10, <3>1
    <3>3. (\E u \in Threads : u # t /\ conn[u] = c) \/ (\E x \in DOMAIN txs : txs[x] = c)
      BY <3>2 DEF SharedBy
    <3> QED
      BY <1>1, <1>3, <3>3 DEF LentSet
  <2>3. LentSet' = LentSet
    <3>1. LentSet' \subseteq Conns /\ LentSet \subseteq Conns
      BY DEF LentSet
    <3> QED
      BY <1>8, <2>2, <3>1
  <2>4. CtlInv'
    BY <1>1, <1>3, <1>4, <1>5, <1>6, <2>1, CtlFrame
  <2> QED
    BY <1>1, <1>7, <2>1, <2>3, <2>4, PlaceFrame
<1> QED
  BY <1>9, <1>10

\* The health check takes the idle connections, tries each, and puts back those that live.
LEMMA HealthKeeps ==
    ASSUME PoolInv, HealthTake \/ HealthTry \/ HealthReturn, UNCHANGED nextTx
    PROVE  CtlInv' /\ MakingInv' /\ PlaceInv'
<1> USE DEF PoolInv
<1>1. UNCHANGED <<creating, active, conn, txs>> /\ LentSet' = LentSet
  BY DEF HealthTake, HealthTry, HealthReturn, LentSet
<1>2. Tick \in Threads
  BY DEF Threads
<1>3. CASE HealthTake
  <2>1. /\ pc[Tick] = "tick" /\ checking' = idle /\ idle' = <<>> /\ all' = all
        /\ pc' = [pc EXCEPT ![Tick] = "check"] /\ healthy' = healthy
    BY <1>3 DEF HealthTake
  <2>2. checking = <<>> /\ healthy = <<>>
    BY <2>1 DEF CtlInv
  <2>3. \A u \in Threads : /\ pc'[u] = "create" <=> pc[u] = "create"
                           /\ pc'[u] \in Holding <=> pc[u] \in Holding
    BY <1>2, <2>1 DEF CtlInv, Holding
  <2>4. CtlInv'
    BY <1>1, <1>2, <2>1, <2>3 DEF CtlInv, Labels
  <2>5. PlaceInv'
    BY <1>1, <2>1, <2>2 DEF PlaceInv, Parted, Rng, NoTwice
  <2> QED
    BY <1>1, <2>3, <2>4, <2>5, MakingFrame
<1>4. CASE HealthTry
  <2>1. PICK h \in Conns : h = Head(checking)
    BY <1>4, TailPlaces DEF HealthTry, CtlInv, PlaceInv
  <2>2. /\ checking # <<>> /\ checking' = Tail(checking) /\ pc[Tick] = "check"
        /\ UNCHANGED <<idle, pc>>
        /\ \/ healthy' = Append(healthy, h) /\ all' = all
           \/ all' = all \ {h} /\ healthy' = healthy
    BY <1>4, <2>1 DEF HealthTry, Answers, Dead
  <2>3. /\ checking' \in Seq(Conns) /\ NoTwice(checking')
        /\ Rng(checking') = Rng(checking) \ {h} /\ h \in Rng(checking)
    BY <2>1, <2>2, TailPlaces DEF CtlInv, PlaceInv
  <2>4. h \notin Rng(healthy) /\ h \notin Rng(idle) /\ h \notin LentSet
    BY <2>3 DEF PlaceInv, Parted
  <2>5. /\ healthy' \in Seq(Conns) /\ NoTwice(healthy')
        /\ \/ Rng(healthy') = Rng(healthy) \cup {h} /\ all' = all
           \/ Rng(healthy') = Rng(healthy) /\ all' = all \ {h}
    <3>1. healthy \in Seq(Conns) /\ NoTwice(healthy)
      BY DEF CtlInv, PlaceInv
    <3>2. /\ Append(healthy, h) \in Seq(Conns) /\ NoTwice(Append(healthy, h))
          /\ Rng(Append(healthy, h)) = Rng(healthy) \cup {h}
      BY <2>4, <3>1, AppendPlaces
    <3>3. CASE healthy' = Append(healthy, h) /\ all' = all
      BY <3>2, <3>3
    <3>4. CASE all' = all \ {h} /\ healthy' = healthy
      BY <3>1, <3>4
    <3> QED
      BY <2>2, <3>3, <3>4
  <2>6. CtlInv'
    BY <1>1, <2>2, <2>3, <2>5 DEF CtlInv
  <2>7. Parted(Rng(idle), Rng(checking'), Rng(healthy'), LentSet', all')
    BY <1>1, <2>3, <2>4, <2>5 DEF PlaceInv, Parted
  <2>8. PlaceInv'
    <3>1. idle' = idle
      BY <2>2
    <3>2. NoTwice(idle') /\ active' = Cardinality(LentSet')
      BY <1>1, <3>1 DEF PlaceInv
    <3>3. Parted(Rng(idle'), Rng(checking'), Rng(healthy'), LentSet', all')
      BY <2>7, <3>1
    <3> QED
      BY <2>3, <2>5, <3>2, <3>3 DEF PlaceInv
  <2> QED
    BY <1>1, <2>2, <2>6, <2>8, MakingFrame
<1>5. CASE HealthReturn
  <2>1. /\ pc[Tick] = "check" /\ checking = <<>> /\ idle' = idle \o healthy /\ healthy' = <<>>
        /\ pc' = [pc EXCEPT ![Tick] = "collect"] /\ all' = all /\ checking' = checking
    BY <1>5 DEF HealthReturn
  <2>2. Rng(idle) \cap Rng(healthy) = {}
    BY DEF PlaceInv, Parted
  <2>3. /\ idle' \in Seq(Conns) /\ NoTwice(idle') /\ Rng(idle') = Rng(idle) \cup Rng(healthy)
    BY <2>1, <2>2, ConcatPlaces DEF CtlInv, PlaceInv
  <2>4. \A u \in Threads : /\ pc'[u] = "create" <=> pc[u] = "create"
                           /\ pc'[u] \in Holding <=> pc[u] \in Holding
    BY <1>2, <2>1 DEF CtlInv, Holding
  <2>5. CtlInv'
    BY <1>1, <1>2, <2>1, <2>3, <2>4 DEF CtlInv, Labels
  <2>6. Rng(healthy') = {} /\ NoTwice(healthy')
    BY <2>1 DEF Rng, NoTwice
  <2>7. Parted(Rng(idle'), Rng(checking), Rng(healthy'), LentSet', all)
    BY <1>1, <2>3, <2>6 DEF PlaceInv, Parted
  <2>8. PlaceInv'
    <3>1. NoTwice(checking') /\ active' = Cardinality(LentSet')
      BY <1>1, <2>1 DEF PlaceInv
    <3>2. Parted(Rng(idle'), Rng(checking'), Rng(healthy'), LentSet', all')
      BY <2>1, <2>7
    <3> QED
      BY <2>3, <2>6, <3>1, <3>2 DEF PlaceInv
  <2> QED
    BY <1>1, <2>4, <2>5, <2>8, MakingFrame
<1> QED
  BY <1>3, <1>4, <1>5

\* Every step leaves each connection in one place.
LEMMA StepPlaces == PoolInv /\ [Next]_vars => PoolInv'
<1> SUFFICES ASSUME PoolInv, [Next]_vars PROVE CtlInv' /\ MakingInv' /\ PlaceInv'
  BY StepSize DEF PoolInv
<1> USE DEF Labels, Holding
<1>0. Tick \in Threads /\ Workers \subseteq Threads
  BY DEF Threads
<1>1. ASSUME NEW w \in Workers, NEW r \in Requests, Receive(w, r)
      PROVE  CtlInv' /\ MakingInv' /\ PlaceInv'
  <2>1. PICK l \in {"finalize", "lookup", "acquire"} : pc' = [pc EXCEPT ![w] = l]
    BY <1>1 DEF Receive
  <2> QED
    BY <1>0, <1>1, <2>1, QuietKeeps DEF Receive, txVars
<1>2. ASSUME NEW w \in Workers, AcquireTimeout(w) \/ Statement(w) \/ BeginTransaction(w)
      PROVE  CtlInv' /\ MakingInv' /\ PlaceInv'
  <2>1. /\ UNCHANGED <<poolVars, checkVars, conn, txs, nextTx>>
        /\ \/ pc[w] = "wait" /\ pc' = [pc EXCEPT ![w] = "free"]
           \/ pc[w] = "use" /\ pc' = [pc EXCEPT ![w] = "drop"]
           \/ pc[w] = "use" /\ pc' = [pc EXCEPT ![w] = "record"]
    BY <1>2 DEF AcquireTimeout, Statement, BeginTransaction, txVars
  <2> QED
    BY <1>0, <2>1, QuietKeeps
<1>3. ASSUME NEW t \in Threads, FinalizeRun(t) PROVE CtlInv' /\ MakingInv' /\ PlaceInv'
  BY <1>3, QuietKeeps DEF FinalizeRun, txVars
<1>4. ASSUME NEW w \in Workers, Serve(w) PROVE CtlInv' /\ MakingInv' /\ PlaceInv'
  BY <1>0, <1>2, <1>3, <1>4, AcquireKeeps, CreateKeeps, LookupKeeps, RecordKeeps, TakeKeeps,
     LeaveKeeps DEF Serve, PoolStep, txVars
<1>5. CASE Collect \/ Sweep
  <2>1. /\ UNCHANGED <<poolVars, checkVars, conn, txs, nextTx>>
        /\ pc[Tick] \in {"tick", "collect", "sweep"}
        /\ \E l \in {"sweep", "finalize", "tick"} : pc' = [pc EXCEPT ![Tick] = l]
    BY <1>5 DEF Collect, Sweep
  <2> QED
    BY <1>0, <2>1, QuietKeeps
<1>6. CASE OnTick
  BY <1>0, <1>3, <1>5, <1>6, HealthKeeps, TakeKeeps, LeaveKeeps DEF OnTick, PoolStep, txVars
<1>7. CASE \E x \in Txs : DeadlinePasses(x)
  BY <1>7, StillKeeps DEF DeadlinePasses
<1>8. CASE \E c \in Conns : PoolStep(Lose(c))
  BY <1>8, StillKeeps DEF PoolStep, Lose, txVars
<1>9. CASE UNCHANGED vars
  BY <1>9, StillKeeps DEF vars, txVars
<1> QED
  BY <1>1, <1>4, <1>6, <1>7, <1>8, <1>9 DEF Next

(* Each connection the pool owns is idle, in the health check's hands or lent, and in      *)
(* one of them only: none leaks, none is handed out twice, none that was deleted can be    *)
(* reached, and active_count_ is right, for any number of threads, transactions and        *)
(* connections (MySQLConnectionPool.cpp:37-50, 109-147).                                    *)
THEOREM OnePlaceCorrect == Spec => []OnePlace
<1>1. PoolInv => OnePlace
  BY PlacesMean DEF PoolInv
<1> QED
  BY <1>1, InitPool, StepPlaces, PTL DEF Spec

-----------------------------------------------------------------------------
(* The work of one transaction.                                              *)

DbTypes ==
    /\ session \in [Conns -> {"auto", "open", "gone"}]
    /\ pending \in [Conns -> SUBSET ({0} \cup Txs)]
    /\ doubt \in [Txs -> {"none", "lost", "told"}]
    /\ req \in [Threads -> Requests \cup {NoRequest}]
    /\ overdue \subseteq Txs /\ doomed \subseteq Txs
    /\ unended \subseteq Conns

\* A request that asks the pool for a connection names no transaction.
AskInv == \A t \in Threads : pc[t] \in {"acquire", "create", "wait"} => req[t].tx = 0

\* Transaction x has connection c: in active_txs_, or with the thread that ends it.
Own(c, x) == \/ x \in DOMAIN txs /\ txs[x] = c
             \/ \E t \in Threads : pc[t] = "finish" /\ conn[t] = c /\ req[t].tx = x

\* Connection c is some transaction's, or about to be.
Attached(c) == \/ \E x \in 1 .. nextTx - 1 : Own(c, x)
               \/ \E t \in Threads : pc[t] = "record" /\ conn[t] = c

\* Work nobody will end, on a connection whose COMMIT or ROLLBACK failed: of no
\* transaction, or of one that is over.
Stray(c, x) == /\ c \in unended
               /\ x = 0 \/ (x < nextTx /\ \A d \in Conns : ~Own(d, x))

\* Threads share a connection only as requests of the transaction that has it, and a
\* request has no other connection than its transaction.
ShareInv ==
    /\ \A t, u \in Threads :
          t # u /\ conn[t] = conn[u] /\ conn[t] # None =>
             req[t].tx = req[u].tx /\ req[t].tx # 0
    /\ \A t \in Threads, x \in DOMAIN txs : conn[t] = txs[x] => req[t].tx = x
    /\ \A x, y \in DOMAIN txs : txs[x] = txs[y] => x = y
    /\ \A t \in Threads : pc[t] = "record" => req[t].tx = 0
    /\ \A t \in Threads :
          pc[t] = "finish" => req[t].tx \notin DOMAIN txs /\ req[t].tx \in 1 .. nextTx - 1
    /\ \A t, u \in Threads :
          pc[t] = "finish" /\ pc[u] = "finish" /\ req[t].tx = req[u].tx => t = u
    /\ \A t \in Threads : conn[t] # None =>
          /\ req[t].tx < nextTx
          /\ \A c \in Conns : \A x : Own(c, x) /\ req[t].tx = x => conn[t] = c

\* A transaction that is open on a connection has an owner, and so has all work in it,
\* unless its end failed; one that lost work has lost its connection.
WorkInv ==
    /\ \A c \in Conns : session[c] # "auto" => Attached(c) \/ c \in unended
    /\ \A c \in Conns : c \in unended => ~Attached(c)
    /\ \A c \in Conns : \A x \in pending[c] : Own(c, x) \/ Stray(c, x)
    /\ \A c \in Conns : session[c] # "open" => pending[c] = {}
    /\ \A x \in Txs : doubt[x] = "lost" =>
          x < nextTx /\ \A c \in Conns : Own(c, x) => session[c] = "gone"

TxInv == PoolInv /\ DbTypes /\ AskInv /\ ShareInv /\ WorkInv

\* A connection has one owner, an owner one connection, and who else holds the
\* connection works for the owner.
LEMMA OwnOne ==
    ASSUME CtlInv, ShareInv, NEW c \in Conns, NEW x, Own(c, x)
    PROVE  /\ x \in 1 .. nextTx - 1
           /\ \A y : Own(c, y) => y = x
           /\ \A d \in Conns : Own(d, x) => d = c
           /\ \A w \in Threads : conn[w] = c => req[w].tx = x
<1>1. x \in 1 .. nextTx - 1
  BY DEF Own, CtlInv, ShareInv
<1>2. c # None
  BY PoolAssumption
<1>3. ASSUME NEW w \in Threads, conn[w] = c PROVE req[w].tx = x
  <2>1. CASE x \in DOMAIN txs /\ txs[x] = c
    BY <1>3, <2>1 DEF ShareInv
  <2>2. CASE \E t \in Threads : pc[t] = "finish" /\ conn[t] = c /\ req[t].tx = x
    BY <1>2, <1>3, <2>2 DEF ShareInv
  <2> QED
    BY <2>1, <2>2 DEF Own
<1>4. ASSUME NEW y, Own(c, y) PROVE y = x
  <2>1. CASE y \in DOMAIN txs /\ txs[y] = c
    <3>1. CASE x \in DOMAIN txs /\ txs[x] = c
      BY <2>1, <3>1 DEF ShareInv
    <3>2. CASE \E t \in Threads : pc[t] = "finish" /\ conn[t] = c /\ req[t].tx = x
      BY <2>1, <3>2 DEF ShareInv
    <3> QED
      BY <3>1, <3>2 DEF Own
  <2>2. CASE \E t \in Threads : pc[t] = "finish" /\ conn[t] = c /\ req[t].tx = y
    BY <1>3, <2>2
  <2> QED
    BY <1>4, <2>1, <2>2 DEF Own
<1>5. ASSUME NEW d \in Conns, Own(d, x) PROVE d = c
  <2>1. CASE x \in DOMAIN txs
    <3>1. ~\E t \in Threads : pc[t] = "finish" /\ req[t].tx = x
      BY <2>1 DEF ShareInv
    <3> QED
      BY <1>5, <3>1 DEF Own
  <2>2. CASE x \notin DOMAIN txs
    <3>1. PICK t \in Threads : pc[t] = "finish" /\ conn[t] = c /\ req[t].tx = x
      BY <2>2 DEF Own
    <3>2. PICK u \in Threads : pc[u] = "finish" /\ conn[u] = d /\ req[u].tx = x
      BY <1>5, <2>2 DEF Own
    <3> QED
      BY <3>1, <3>2 DEF ShareInv
  <2> QED
    BY <2>1, <2>2
<1> QED
  BY <1>1, <1>3, <1>4, <1>5

\* What that says of work and commits.
LEMMA TxMeans == TxInv => Separate /\ CommitMeansAll
<1> SUFFICES ASSUME TxInv PROVE Separate /\ CommitMeansAll
  OBVIOUS
<1> USE DEF TxInv, PoolInv
<1>1. TypeOK
  <2>1. active \in Nat /\ creating \in Nat
    BY LentFinite, FS_CardinalityType DEF PlaceInv, MakingInv
  <2>2. all \subseteq Conns
    <3>1. \A s \in Seq(Conns) : Rng(s) \subseteq Conns
      BY DEF Rng
    <3>2. LentSet \subseteq Conns
      BY DEF LentSet
    <3>3. /\ Rng(idle) \subseteq Conns /\ Rng(checking) \subseteq Conns
          /\ Rng(healthy) \subseteq Conns
      BY <3>1 DEF CtlInv
    <3> QED
      BY <3>2, <3>3 DEF PlaceInv, Parted
  <2> QED
    BY <2>1, <2>2 DEF TypeOK, CtlInv, DbTypes
<1>2. \A c \in Conns \ unended : 0 \notin pending[c] /\ \A x, y \in pending[c] : x = y
  <2>1. \A c \in Conns \ unended : \A x \in pending[c] : Own(c, x)
    BY DEF WorkInv, Stray
  <2> QED
    BY <2>1, OwnOne
<1>3. ASSUME NEW i \in DOMAIN idle PROVE session[idle[i]] = "auto" \/ idle[i] \in unended
  <2>1. PICK c \in Conns : c = idle[i]
    BY DEF CtlInv
  <2>2. c \notin LentSet
    <3>1. c \in Rng(idle)
      BY <2>1 DEF Rng
    <3> QED
      BY <3>1 DEF PlaceInv, Parted
  <2>3. /\ ~\E x \in 1 .. nextTx - 1 : Own(c, x)
        /\ ~\E t \in Threads : conn[t] = c
    BY <2>2 DEF LentSet, Own
  <2> QED
    BY <2>1, <2>3 DEF WorkInv, Attached
<1>4. CommitMeansAll
  <2> SUFFICES ASSUME NEW w \in Workers, pc[w] = "finish", session[conn[w]] # "gone",
                      req[w].op = "commit"
               PROVE  /\ doubt[req[w].tx] # "lost"
                      /\ \A c \in Conns \ {conn[w]} : req[w].tx \notin pending[c]
    BY DEF CommitMeansAll
  <2>1. w \in Threads /\ conn[w] \in Conns
    BY DEF Threads, CtlInv, Holding
  <2>2. PICK d \in Conns : d = conn[w]
    BY <2>1
  <2>3. PICK x : x = req[w].tx
    OBVIOUS
  <2>4. Own(d, x)
    BY <2>1, <2>2, <2>3 DEF Own
  <2>5. x \in Txs
    BY <2>1, <2>3 DEF DbTypes, Requests, NoRequest
  <2>6. doubt[x] # "lost"
    BY <2>2, <2>4, <2>5 DEF WorkInv
  <2>7. \A c \in Conns : x \in pending[c] => c = d
    <3>1. x # 0 /\ \A c \in Conns : Own(c, x) => c = d
      BY <2>4, OwnOne
    <3>2. \A c \in Conns : x \in pending[c] => Own(c, x) \/ Stray(c, x)
      BY DEF WorkInv
    <3> QED
      BY <2>4, <3>1, <3>2 DEF Stray
  <2> QED
    BY <2>6, <2>7, <2>2, <2>3
<1> QED
  BY <1>1, <1>2, <1>3, <1>4 DEF Separate

-----------------------------------------------------------------------------
(* The steps keep it.                                                        *)

LEMMA InitWork == Init => DbTypes /\ AskInv /\ ShareInv /\ WorkInv
<1> SUFFICES ASSUME Init PROVE DbTypes /\ AskInv /\ ShareInv /\ WorkInv
  OBVIOUS
<1>1. /\ conn = [t \in Threads |-> None] /\ txs = << >> /\ nextTx = 1
      /\ pc = [t \in Threads |-> IF t = Tick THEN "tick" ELSE "free"]
      /\ session = [c \in Conns |-> "auto"] /\ pending = [c \in Conns |-> {}]
      /\ doubt = [x \in Txs |-> "none"] /\ req = [t \in Threads |-> NoRequest]
      /\ overdue = {} /\ doomed = {} /\ unended = {}
  BY DEF Init, PoolInit
<1>2. DOMAIN txs = {} /\ \A t \in Threads : conn[t] = None /\ pc[t] \in {"tick", "free"}
  BY <1>1
<1>3. DbTypes
  BY <1>1 DEF DbTypes
<1>4. ShareInv
  BY <1>2 DEF ShareInv
<1>5. WorkInv
  BY <1>1 DEF WorkInv
<1>6. AskInv
  BY <1>2 DEF AskInv
<1> QED
  BY <1>3, <1>4, <1>5, <1>6

\* A step that changes no request, or gives a thread one it may have.
LEMMA RequestKeeps ==
    ASSUME DbTypes, NEW t \in Threads, NEW r \in Requests \cup {NoRequest},
           req' = req \/ req' = [req EXCEPT ![t] = r], UNCHANGED dbVars,
           overdue' \subseteq Txs, doomed' \subseteq Txs
    PROVE  DbTypes'
<1>1. req' \in [Threads -> Requests \cup {NoRequest}]
  BY DEF DbTypes
<1>2. UNCHANGED <<session, pending, doubt, unended>>
  BY DEF dbVars
<1> QED
  BY <1>1, <1>2 DEF DbTypes

\* What happens to a connection keeps its state's type.
LEMMA ServerKeeps ==
    ASSUME DbTypes, NEW c \in Conns, NEW x \in {0} \cup Txs, UNCHANGED <<req, overdue, doomed>>,
           \/ StartTransaction(c) \/ RunStatement(c, x) \/ CallFails(c, x) \/ EndFails(c, x)
           \/ Lose(c) \/ Renew(c) \/ Finish(c, x, TRUE) \/ Finish(c, x, FALSE)
    PROVE  DbTypes'
<1> USE DEF StartTransaction, RunStatement, Fails, CallFails, EndFails, Lose, Renew, Finish
<1>1. Undone(c) \in [Txs -> {"none", "lost", "told"}]
  BY DEF DbTypes, Undone
<1>2. Told(x) \in [Txs -> {"none", "lost", "told"}]
  BY DEF DbTypes, Told
<1>3. doubt' \in [Txs -> {"none", "lost", "told"}]
  BY <1>1, <1>2 DEF DbTypes
<1>4. session' \in [Conns -> {"auto", "open", "gone"}]
  BY DEF DbTypes
<1>5. pending' \in [Conns -> SUBSET ({0} \cup Txs)]
  BY DEF DbTypes
<1>6. unended' \subseteq Conns
  BY DEF DbTypes
<1> QED
  BY <1>3, <1>4, <1>5, <1>6 DEF DbTypes

\* The requests' parts.
LEMMA RequestTypes ==
    ASSUME DbTypes, NEW t \in Threads
    PROVE  /\ req[t].tx \in {0} \cup Txs
           /\ req[t].op = "begin" => req[t].tx = 0
           /\ NoRequest \in Requests \cup {NoRequest}
  BY DEF DbTypes, Requests, NoRequest

LEMMA StepTypes == ASSUME CtlInv, DbTypes, [Next]_vars PROVE DbTypes'
<1>0. Tick \in Threads /\ Workers \subseteq Threads
  BY DEF Threads
<1>1. NoRequest \in Requests \cup {NoRequest} /\ overdue \subseteq Txs /\ doomed \subseteq Txs
  BY DEF DbTypes
<1>2. ASSUME NEW w \in Workers, NEW r \in Requests, Receive(w, r) PROVE DbTypes'
  BY <1>0, <1>1, <1>2, RequestKeeps DEF Receive, txVars
<1>3. ASSUME NEW t \in Threads,
             AcquireTimeout(t) \/ Record(t) \/ FinalizeTake(t) \/ Leave(t)
      PROVE  DbTypes'
  <2>1. /\ UNCHANGED <<dbVars, doomed>> /\ overdue' \subseteq overdue
        /\ req' = req \/ req' = [req EXCEPT ![t] = NoRequest]
    BY <1>3 DEF AcquireTimeout, Record, FinalizeTake, Leave, Drop, Forget, txVars
  <2> QED
    BY <1>1, <2>1, RequestKeeps
<1>4. ASSUME NEW w \in Threads, GetConnection(w) PROVE DbTypes'
  <2>1. /\ UNCHANGED <<session, pending, unended, overdue, doomed>>
        /\ req' = req \/ req' = [req EXCEPT ![w] = NoRequest]
    BY <1>4 DEF GetConnection, Forget, txVars
  <2>2. doubt' \in [Txs -> {"none", "lost", "told"}]
    BY <1>4 DEF GetConnection, DbTypes
  <2> QED
    BY <1>1, <2>1, <2>2 DEF DbTypes
<1>5. ASSUME NEW t \in Threads, Statement(t) \/ BeginTransaction(t) \/ FinalizeRun(t)
      PROVE  DbTypes'
  <2>1. PICK c \in Conns : c = conn[t]
    BY <1>5 DEF CtlInv, Holding, Statement, BeginTransaction, FinalizeRun
  <2>2. PICK x \in {0} \cup Txs : x = req[t].tx /\ (req[t].op = "begin" => x = 0)
    BY RequestTypes
  <2>3. \/ StartTransaction(c) \/ RunStatement(c, x) \/ CallFails(c, x) \/ EndFails(c, x)
        \/ Finish(c, x, TRUE) \/ Finish(c, x, FALSE)
    BY <1>5, <2>1, <2>2 DEF Statement, BeginTransaction, FinalizeRun
  <2>4. UNCHANGED <<req, overdue, doomed>>
    BY <1>5 DEF Statement, BeginTransaction, FinalizeRun, txVars
  <2> QED
    BY <2>3, <2>4, ServerKeeps
<1>6. ASSUME UNCHANGED <<dbVars, req, overdue, doomed>> PROVE DbTypes'
  BY <1>6 DEF DbTypes, dbVars
<1>7. ASSUME NEW w \in Workers, Serve(w) PROVE DbTypes'
  <2>1. CASE PoolStep(Acquire(w)) \/ PoolStep(CreateSucceeds(w)) \/ PoolStep(CreateFails(w))
    BY <1>6, <2>1 DEF PoolStep, Acquire, CreateSucceeds, CreateFails, txVars
  <2> QED
    BY <1>0, <1>3, <1>4, <1>5, <1>7, <2>1 DEF Serve
<1>8. CASE OnTick
  <2>1. CASE PoolStep(HealthTake) \/ PoolStep(HealthTry) \/ PoolStep(HealthReturn)
    <3>1. CASE UNCHANGED dbVars
      BY <1>6, <2>1, <3>1 DEF PoolStep, txVars
    <3>2. CASE PoolStep(HealthTry)
      <4>1. UNCHANGED dbVars \/ Renew(Head(checking))
        BY <3>2 DEF PoolStep, HealthTry, Answers, Dead
      <4>2. Head(checking) \in Conns /\ 0 \in {0} \cup Txs
        BY <3>2, HeadTailProperties DEF PoolStep, HealthTry, CtlInv
      <4> QED
        BY <2>1, <3>1, <4>1, <4>2, ServerKeeps DEF PoolStep, txVars
    <3> QED
      BY <2>1, <3>1, <3>2 DEF PoolStep, HealthTake, HealthReturn
  <2>2. CASE Collect
    BY <1>0, <1>1, <2>2, RequestKeeps DEF Collect
  <2>3. CASE Sweep
    <3>1. /\ UNCHANGED <<dbVars, overdue>> /\ doomed' \subseteq doomed
          /\ \/ req' = req
             \/ \E x \in Txs : req' = [req EXCEPT ![Tick] = [op |-> "rollback", tx |-> x]]
      BY <1>1, <2>3 DEF Sweep
    <3>2. \A x \in Txs : [op |-> "rollback", tx |-> x] \in Requests
      BY DEF Requests
    <3> QED
      BY <1>0, <1>1, <3>1, <3>2, RequestKeeps
  <2> QED
    BY <1>0, <1>3, <1>5, <1>8, <2>1, <2>2, <2>3 DEF OnTick
<1>9. ASSUME NEW x \in Txs, DeadlinePasses(x) PROVE DbTypes'
  BY <1>0, <1>1, <1>9, RequestKeeps DEF DeadlinePasses
<1>10. ASSUME NEW c \in Conns, PoolStep(Lose(c)) PROVE DbTypes'
  BY <1>10, ServerKeeps DEF PoolStep, txVars
<1>11. CASE UNCHANGED vars
  BY <1>6, <1>11 DEF vars, txVars
<1> QED
  BY <1>2, <1>7, <1>8, <1>9, <1>10, <1>11 DEF Next

\* A step that changes one thread's label and request, and perhaps wakes a waiter.
LEMMA AskFrame ==
    ASSUME CtlInv, DbTypes, AskInv, NEW t \in Threads,
           req' = req \/ req' = [req EXCEPT ![t] = NoRequest],
           \A u \in Threads : u # t /\ pc'[u] \in {"acquire", "create", "wait"} =>
              pc[u] \in {"acquire", "create", "wait"},
           pc'[t] \in {"acquire", "create", "wait"} => req'[t].tx = 0
    PROVE  AskInv'
<1>1. \A u \in Threads : u # t => req'[u] = req[u]
  BY DEF DbTypes
<1> QED
  BY <1>1 DEF AskInv

LEMMA StepAsk == ASSUME CtlInv, DbTypes, AskInv, [Next]_vars PROVE AskInv'
<1>0. Tick \in Threads /\ Workers \subseteq Threads
  BY DEF Threads
<1>1. ASSUME NEW w \in Workers, NEW r \in Requests, Receive(w, r) PROVE AskInv'
  <2>1. /\ req'[w] = r /\ \A u \in Threads : u # w => req'[u] = req[u] /\ pc'[u] = pc[u]
        /\ pc'[w] \in {"acquire", "create", "wait"} => r.tx = 0
    BY <1>0, <1>1 DEF Receive, DbTypes, CtlInv
  <2> QED
    BY <2>1 DEF AskInv
<1>2. ASSUME NEW t \in Threads, NEW l, pc' = [pc EXCEPT ![t] = l],
             req' = req \/ req' = [req EXCEPT ![t] = NoRequest],
             \/ l \notin {"acquire", "create", "wait"}
             \/ req' = req /\ pc[t] \in {"acquire", "create", "wait"}
      PROVE  AskInv'
  <2>1. pc'[t] = l /\ \A u \in Threads : u # t => pc'[u] = pc[u]
    BY <1>2 DEF CtlInv
  <2> QED
    BY <1>2, <2>1, AskFrame DEF AskInv
<1>3. ASSUME NEW t \in Threads, Acquire(t) \/ CreateSucceeds(t) \/ CreateFails(t), req' = req
      PROVE  AskInv'
  <2>1. /\ pc[t] \in {"acquire", "create"}
        /\ \E l : pc' = [pc EXCEPT ![t] = l]
    BY <1>3 DEF Acquire, CreateSucceeds, CreateFails, Lend
  <2> QED
    BY <1>2, <1>3, <2>1
<1>4. ASSUME NEW t \in Threads,
             \/ AcquireTimeout(t) \/ GetConnection(t) \/ Statement(t) \/ BeginTransaction(t)
             \/ Record(t) \/ FinalizeTake(t) \/ FinalizeRun(t)
      PROVE  AskInv'
  <2>1. \E l : /\ pc' = [pc EXCEPT ![t] = l] /\ l \notin {"acquire", "create", "wait"}
               /\ req' = req \/ req' = [req EXCEPT ![t] = NoRequest]
    BY <1>4 DEF AcquireTimeout, GetConnection, Statement, BeginTransaction, Record,
                FinalizeTake, FinalizeRun, Forget, Done
  <2> QED
    BY <1>2, <2>1
<1>5. ASSUME NEW t \in Threads, Leave(t) PROVE AskInv'
  <2>1. req' = [req EXCEPT ![t] = NoRequest] /\ pc[t] = "drop"
    BY <1>5 DEF Leave, Forget
  <2>2. \/ pc' = [pc EXCEPT ![t] = Done(t)]
        \/ \E w \in Workers : /\ pc[w] = "wait"
                              /\ pc' = [pc EXCEPT ![t] = Done(t), ![w] = "acquire"]
    BY <1>5 DEF Leave, Drop, Notify
  <2>3. Done(t) \notin {"acquire", "create", "wait"}
    BY DEF Done
  <2>4. CASE \E w \in Workers : /\ pc[w] = "wait"
                                /\ pc' = [pc EXCEPT ![t] = Done(t), ![w] = "acquire"]
    <3>1. PICK w \in Workers : /\ pc[w] = "wait"
                               /\ pc' = [pc EXCEPT ![t] = Done(t), ![w] = "acquire"]
      BY <2>4
    <3>2. /\ w # t /\ pc'[t] = Done(t)
          /\ \A u \in Threads : u # t /\ u # w => pc'[u] = pc[u]
      BY <1>0, <2>1, <3>1 DEF CtlInv
    <3> QED
      BY <2>1, <2>3, <3>1, <3>2, AskFrame
  <2> QED
    BY <1>2, <2>1, <2>2, <2>3, <2>4
<1>6. CASE \E w \in Workers : Serve(w)
  BY <1>0, <1>3, <1>4, <1>5, <1>6 DEF Serve, PoolStep
<1>7. ASSUME UNCHANGED <<pc, req>> PROVE AskInv'
  BY <1>7 DEF AskInv
<1>8. CASE OnTick
  <2>1. CASE PoolStep(HealthTake) \/ PoolStep(HealthReturn) \/ Collect
    <3>1. req' = req /\ \E l \in {"check", "collect", "sweep"} : pc' = [pc EXCEPT ![Tick] = l]
      BY <2>1 DEF PoolStep, HealthTake, HealthReturn, Collect
    <3> QED
      BY <1>0, <1>2, <3>1
  <2>2. CASE Sweep
    <3>1. /\ \A u \in Threads : u # Tick => pc'[u] = pc[u] /\ req'[u] = req[u]
          /\ pc'[Tick] \in {"finalize", "tick"}
      BY <1>0, <2>2 DEF Sweep, CtlInv, DbTypes
    <3> QED
      BY <3>1 DEF AskInv
  <2>3. CASE PoolStep(HealthTry)
    BY <1>7, <2>3 DEF PoolStep, HealthTry
  <2> QED
    BY <1>0, <1>4, <1>5, <1>8, <2>1, <2>2, <2>3 DEF OnTick
<1>9. CASE \E x \in Txs : DeadlinePasses(x)
  BY <1>7, <1>9 DEF DeadlinePasses
<1>10. CASE \E c \in Conns : PoolStep(Lose(c))
  BY <1>7, <1>10 DEF PoolStep, Lose
<1>11. CASE UNCHANGED vars
  BY <1>7, <1>11 DEF vars
<1> QED
  BY <1>1, <1>6, <1>8, <1>9, <1>10, <1>11 DEF Next

\* Nobody takes a reference or moves one: threads keep theirs, or let go.
LEMMA ShareFrame ==
    ASSUME CtlInv, CtlInv', ShareInv, UNCHANGED <<txs, nextTx>>,
           \A t \in Threads : conn'[t] # None => conn'[t] = conn[t] /\ req'[t].tx = req[t].tx,
           \A t \in Threads : pc'[t] = "finish" => pc[t] = "finish",
           \A t \in Threads : pc'[t] = "record" => pc[t] = "record" \/ req[t].tx = 0
    PROVE  ShareInv'
<1>1. \A t \in Threads : pc'[t] \in {"finish", "record"} => req'[t].tx = req[t].tx
  BY DEF CtlInv, Holding
<1>2. \A x \in DOMAIN txs : txs[x] # None
  BY PoolAssumption DEF CtlInv
<1>3. \A t, u \in Threads : t # u /\ conn'[t] = conn'[u] /\ conn'[t] # None =>
         req'[t].tx = req'[u].tx /\ req'[t].tx # 0
  BY DEF ShareInv
<1>4. \A t \in Threads, x \in DOMAIN txs : conn'[t] = txs[x] => req'[t].tx = x
  BY <1>2 DEF ShareInv
<1>5. \A t \in Threads : pc'[t] = "record" => req'[t].tx = 0
  BY <1>1 DEF ShareInv
<1>6. \A t \in Threads :
         pc'[t] = "finish" => req'[t].tx \notin DOMAIN txs /\ req'[t].tx \in 1 .. nextTx - 1
  BY <1>1 DEF ShareInv
<1>7. \A t, u \in Threads :
         pc'[t] = "finish" /\ pc'[u] = "finish" /\ req'[t].tx = req'[u].tx => t = u
  BY <1>1 DEF ShareInv
<1>8. \A c \in Conns : \A x : Own(c, x)' => Own(c, x)
  <2>1. \A t \in Threads : pc'[t] = "finish" => conn'[t] = conn[t]
    BY DEF CtlInv, Holding
  <2> QED
    BY <1>1, <2>1 DEF Own
<1>9. \A t \in Threads : conn'[t] # None =>
         /\ req'[t].tx < nextTx'
         /\ \A c \in Conns : \A x : Own(c, x)' /\ req'[t].tx = x => conn'[t] = c
  BY <1>8 DEF ShareInv
<1> QED
  BY <1>3, <1>4, <1>5, <1>6, <1>7, <1>9 DEF ShareInv

\* Who has which connection is as before when no thread comes to "finish" or leaves it.
LEMMA OwnFrame ==
    ASSUME txs' = txs,
           \A t \in Threads : pc'[t] = "finish" <=> pc[t] = "finish",
           \A t \in Threads : pc[t] = "finish" => conn'[t] = conn[t] /\ req'[t].tx = req[t].tx
    PROVE  \A c \in Conns : \A x : Own(c, x)' <=> Own(c, x)
  BY DEF Own

\* The same owners and the same sessions: the same work.
LEMMA WorkFrame ==
    ASSUME WorkInv, UNCHANGED <<session, pending, unended, nextTx>>,
           \A c \in Conns : \A x : Own(c, x)' <=> Own(c, x),
           \A t \in Threads : pc'[t] = "record" <=> pc[t] = "record",
           \A t \in Threads : pc[t] = "record" => conn'[t] = conn[t],
           \A x \in Txs : doubt'[x] = "lost" => doubt[x] = "lost"
    PROVE  WorkInv'
<1>1. \A c \in Conns : Attached(c)' <=> Attached(c)
  BY DEF Attached
<1>2. \A c \in Conns : \A x : Stray(c, x)' <=> Stray(c, x)
  BY DEF Stray
<1>3. \A c \in Conns : session'[c] # "auto" => Attached(c)' \/ c \in unended'
  BY <1>1 DEF WorkInv
<1>4. \A c \in Conns : c \in unended' => ~Attached(c)'
  BY <1>1 DEF WorkInv
<1>5. \A c \in Conns : \A x \in pending'[c] : Own(c, x)' \/ Stray(c, x)'
  BY <1>2 DEF WorkInv
<1>6. \A c \in Conns : session'[c] # "open" => pending'[c] = {}
  BY DEF WorkInv
<1>7. \A x \in Txs : doubt'[x] = "lost" =>
         x < nextTx' /\ \A c \in Conns : Own(c, x)' => session'[c] = "gone"
  BY DEF WorkInv
<1> QED
  BY <1>3, <1>4, <1>5, <1>6, <1>7 DEF WorkInv

\* A step on connection c: all that is said of the others holds as before, and of c it
\* holds again.
LEMMA ServerTx ==
    ASSUME CtlInv, ShareInv, WorkInv, NEW c \in Conns, UNCHANGED nextTx,
           \A d \in Conns \ {c} : /\ session'[d] = session[d] /\ pending'[d] = pending[d]
                                  /\ d \in unended' <=> d \in unended
                                  /\ \A x : Own(d, x)' <=> Own(d, x)
                                  /\ Attached(d)' <=> Attached(d),
           \A x : Own(c, x)' => Own(c, x),
           session'[c] # "auto" => Attached(c)' \/ c \in unended',
           c \in unended' => ~Attached(c)',
           \A x \in pending'[c] : Own(c, x)' \/ Stray(c, x)',
           session'[c] # "open" => pending'[c] = {},
           \A x \in Txs : doubt'[x] = "lost" =>
              /\ doubt[x] = "lost" \/ x \in pending[c]
              /\ Own(c, x)' => session'[c] = "gone"
    PROVE  WorkInv'
<1>1. \A d \in Conns : session'[d] # "auto" => Attached(d)' \/ d \in unended'
  BY DEF WorkInv
<1>2. \A d \in Conns : d \in unended' => ~Attached(d)'
  BY DEF WorkInv
<1>3. \A d \in Conns : \A x : Own(d, x)' => Own(d, x)
  OBVIOUS
<1>4. \A d \in Conns : \A x \in pending'[d] : Own(d, x)' \/ Stray(d, x)'
  <2> SUFFICES ASSUME NEW d \in Conns \ {c}, NEW x \in pending'[d]
               PROVE  Own(d, x)' \/ Stray(d, x)'
    OBVIOUS
  <2>1. Own(d, x) \/ Stray(d, x)
    BY DEF WorkInv
  <2>2. Stray(d, x) => Stray(d, x)'
    BY <1>3 DEF Stray
  <2> QED
    BY <2>1, <2>2
<1>5. \A d \in Conns : session'[d] # "open" => pending'[d] = {}
  BY DEF WorkInv
<1>6. ASSUME NEW x \in Txs, doubt'[x] = "lost"
      PROVE  x < nextTx' /\ \A d \in Conns : Own(d, x)' => session'[d] = "gone"
  <2>1. CASE doubt[x] = "lost"
    BY <1>6, <2>1 DEF WorkInv
  <2>2. CASE x \in pending[c] /\ Own(c, x)
    <3>1. x \in 1 .. nextTx - 1 /\ \A d \in Conns : Own(d, x) => d = c
      BY <2>2, OwnOne
    <3>2. x < nextTx
      BY <3>1 DEF CtlInv
    <3> QED
      BY <1>3, <1>6, <3>1, <3>2
  <2>3. CASE x \in pending[c] /\ Stray(c, x)
    <3>1. x # 0
      BY PoolAssumption
    <3> QED
      BY <1>3, <2>3, <3>1 DEF Stray
  <2> QED
    BY <1>6, <2>1, <2>2, <2>3 DEF WorkInv
<1> QED
  BY <1>1, <1>2, <1>4, <1>5, <1>6 DEF WorkInv

\* Who is attached is as before where the owners are and nobody comes to "record" or leaves it.
LEMMA AttachedFrame ==
    ASSUME UNCHANGED nextTx, NEW d \in Conns, \A x : Own(d, x)' <=> Own(d, x),
           \A t \in Threads : pc'[t] = "record" <=> pc[t] = "record",
           \A t \in Threads : pc[t] = "record" => conn'[t] = conn[t]
    PROVE  Attached(d)' <=> Attached(d)
  BY DEF Attached

\* A transaction's connection is no thread's that begins another.
LEMMA OwnedNotRecorded ==
    ASSUME CtlInv, ShareInv, NEW c \in Conns, NEW x, Own(c, x)
    PROVE  x # 0 /\ x < nextTx /\ ~\E t \in Threads : pc[t] = "record" /\ conn[t] = c
<1>1. x \in 1 .. nextTx - 1 /\ \A w \in Threads : conn[w] = c => req[w].tx = x
  BY OwnOne
<1>2. x # 0 /\ x < nextTx
  BY <1>1 DEF CtlInv
<1> QED
  BY <1>1, <1>2 DEF ShareInv

\* A step away from the connections, or a thread that lets go of its reference.
LEMMA QuietTx ==
    ASSUME CtlInv, CtlInv', ShareInv, WorkInv, UNCHANGED <<session, pending, unended, txs, nextTx>>,
           \A t \in Threads : conn'[t] # None => conn'[t] = conn[t] /\ req'[t].tx = req[t].tx,
           \A t \in Threads : /\ pc'[t] = "finish" <=> pc[t] = "finish"
                              /\ pc'[t] = "record" <=> pc[t] = "record",
           \A x \in Txs : doubt'[x] = "lost" => doubt[x] = "lost"
    PROVE  ShareInv' /\ WorkInv'
<1>1. ShareInv'
  BY ShareFrame
<1>2. \A t \in Threads : pc[t] \in {"finish", "record"} =>
         conn'[t] = conn[t] /\ req'[t].tx = req[t].tx
  BY DEF CtlInv, Holding
<1>3. \A c \in Conns : \A x : Own(c, x)' <=> Own(c, x)
  BY <1>2, OwnFrame
<1> QED
  BY <1>1, <1>2, <1>3, WorkFrame

\* A thread gets a reference to a connection only those have who work for its transaction.
LEMMA TakeTx ==
    ASSUME CtlInv, CtlInv', ShareInv, WorkInv,
           UNCHANGED <<session, pending, unended, txs, nextTx, req>>, NEW w \in Threads, NEW h \in Conns, pc[w] \notin Holding, pc'[w] = "use",
           conn'[w] = h,
           \A u \in Threads : u # w => conn'[u] = conn[u] /\ pc'[u] = pc[u],
           \A u \in Threads : u # w /\ conn[u] = h => req[u].tx = req[w].tx /\ req[w].tx # 0,
           \A x \in DOMAIN txs : txs[x] = h => req[w].tx = x,
           req[w].tx < nextTx, \A c \in Conns : Own(c, req[w].tx) => c = h,
           \A x \in Txs : doubt'[x] = "lost" => doubt[x] = "lost"
    PROVE  ShareInv' /\ WorkInv'
<1>1. \A t \in Threads : /\ pc'[t] = "finish" <=> pc[t] = "finish"
                         /\ pc'[t] = "record" <=> pc[t] = "record"
                         /\ pc[t] \in {"finish", "record"} => conn'[t] = conn[t]
  BY DEF Holding
<1>0. \A c \in Conns : \A x : Own(c, x)' <=> Own(c, x)
  BY <1>1, OwnFrame
<1>2. WorkInv'
  BY <1>0, <1>1, WorkFrame
<1>3. \A t, u \in Threads : t # u /\ conn'[t] = conn'[u] /\ conn'[t] # None =>
         req[t].tx = req[u].tx /\ req[t].tx # 0
  BY DEF ShareInv
<1>4. \A t \in Threads, x \in DOMAIN txs : conn'[t] = txs[x] => req[t].tx = x
  BY DEF ShareInv
<1>5. \A t \in Threads : conn'[t] # None =>
         /\ req[t].tx < nextTx
         /\ \A c \in Conns : \A x : Own(c, x)' /\ req[t].tx = x => conn'[t] = c
  BY <1>0 DEF ShareInv
<1>6. ShareInv'
  BY <1>1, <1>3, <1>4, <1>5 DEF ShareInv
<1> QED
  BY <1>2, <1>6

\* The pool lends what nobody has.
LEMMA LendTx ==
    ASSUME CtlInv, CtlInv', ShareInv, WorkInv, NEW w \in Threads, NEW q \in Seq(Conns),
           q # <<>>, NoTwice(q), Rng(q) \cap LentSet = {}, Lend(w, q), pc[w] \notin Holding,
           req[w].tx = 0, UNCHANGED <<session, pending, doubt, unended, txs, nextTx, req>>
    PROVE  ShareInv' /\ WorkInv'
<1>1. PICK h \in Conns : h = Head(q) /\ h \in Rng(q)
  BY TailPlaces
<1>2. h \notin LentSet
  BY <1>1
<1>3. /\ \A u \in Threads : conn[u] # h
      /\ \A x \in DOMAIN txs : txs[x] # h
  BY <1>2 DEF LentSet
<1>4. /\ conn'[w] = h /\ pc'[w] = "use"
      /\ \A u \in Threads : u # w => conn'[u] = conn[u] /\ pc'[u] = pc[u]
  BY <1>1 DEF Lend, CtlInv
<1>5. 0 < nextTx /\ \A c \in Conns : ~Own(c, 0)
  <2>1. nextTx \in Nat \ {0}
    BY DEF CtlInv
  <2> QED
    BY <2>1, OwnOne
<1> QED
  BY <1>3, <1>4, <1>5, TakeTx

\* One turn of acquire.
LEMMA AcquireTx ==
    ASSUME TxInv, CtlInv', NEW w \in Threads, UNCHANGED <<req, txVars>>,
           Acquire(w) \/ CreateSucceeds(w) \/ CreateFails(w)
    PROVE  ShareInv' /\ WorkInv'
<1> USE DEF TxInv, PoolInv
<1>1. /\ pc[w] \in {"acquire", "create"} /\ pc[w] \notin Holding /\ req[w].tx = 0
      /\ UNCHANGED <<session, pending, doubt, unended, txs, nextTx, req>>
  BY DEF Acquire, CreateSucceeds, CreateFails, Holding, dbVars, txVars, AskInv
<1>2. CASE idle # <<>> /\ Lend(w, idle)
  <2>1. idle \in Seq(Conns) /\ NoTwice(idle) /\ Rng(idle) \cap LentSet = {}
    BY DEF CtlInv, PlaceInv, Parted
  <2> QED
    BY <1>1, <1>2, <2>1, LendTx
<1>3. CASE CreateSucceeds(w)
  <2>1. PICK c \in Conns \ all : c = createOne
    BY FreshExists
  <2>2. PICK q \in Seq(Conns) : q = Append(idle, c)
    BY <2>1, AppendPlaces DEF CtlInv
  <2>3. c \notin Rng(idle) /\ c \notin LentSet /\ Rng(idle) \cap LentSet = {}
    BY <2>1 DEF PlaceInv, Parted
  <2>4. NoTwice(q) /\ Rng(q) = Rng(idle) \cup {c}
    BY <2>1, <2>2, <2>3, AppendPlaces DEF CtlInv, PlaceInv
  <2>5. q # <<>> /\ Rng(q) \cap LentSet = {}
    <3>1. q # <<>>
      BY <2>4 DEF Rng
    <3>2. Rng(q) \cap LentSet = {}
      BY <2>3, <2>4
    <3> QED
      BY <3>1, <3>2
  <2>6. Lend(w, q)
    BY <1>3, <2>1, <2>2 DEF CreateSucceeds
  <2> QED
    BY <1>1, <2>4, <2>5, <2>6, LendTx
<1>4. CASE UNCHANGED conn /\ \E l \in {"create", "wait"} : pc' = [pc EXCEPT ![w] = l]
  <2>1. \A t \in Threads : /\ pc'[t] = "finish" <=> pc[t] = "finish"
                           /\ pc'[t] = "record" <=> pc[t] = "record"
    BY <1>1, <1>4 DEF CtlInv
  <2> QED
    BY <1>1, <1>4, <2>1, QuietTx
<1> QED
  BY <1>2, <1>3, <1>4 DEF Acquire, CreateFails

\* A statement gets the connection its transaction has.
LEMMA LookupTx ==
    ASSUME TxInv, CtlInv', NEW w \in Threads, GetConnection(w)
    PROVE  ShareInv' /\ WorkInv'
<1> USE DEF TxInv, PoolInv
<1>1. /\ pc[w] = "lookup" /\ pc[w] \notin Holding
      /\ UNCHANGED <<session, pending, unended, txs, nextTx>>
  BY DEF GetConnection, Holding, txVars
<1>2. CASE /\ req[w].tx \in DOMAIN txs /\ UNCHANGED <<doubt, req>>
           /\ conn' = [conn EXCEPT ![w] = txs[req[w].tx]] /\ pc' = [pc EXCEPT ![w] = "use"]
  <2>1. PICK x \in DOMAIN txs : x = req[w].tx
    BY <1>2
  <2>2. PICK h \in Conns : h = txs[x]
    BY DEF CtlInv
  <2>3. x # 0
    BY DEF CtlInv
  <2>4. /\ conn'[w] = h /\ pc'[w] = "use"
        /\ \A u \in Threads : u # w => conn'[u] = conn[u] /\ pc'[u] = pc[u]
    BY <1>2, <2>1, <2>2 DEF CtlInv
  <2>5. /\ \A u \in Threads : conn[u] = h => req[u].tx = x
        /\ \A y \in DOMAIN txs : txs[y] = h => y = x
    BY <2>2 DEF ShareInv
  <2>6. x < nextTx /\ \A c \in Conns : Own(c, x) => c = h
    <3>1. Own(h, x)
      BY <2>1, <2>2 DEF Own
    <3> QED
      BY <3>1, OwnOne, OwnedNotRecorded
  <2> QED
    BY <1>1, <1>2, <2>1, <2>3, <2>4, <2>5, <2>6, TakeTx
<1>3. CASE /\ UNCHANGED conn /\ pc' = [pc EXCEPT ![w] = "free"]
           /\ doubt' = [doubt EXCEPT ![req[w].tx] = IF req[w].tx \in overdue THEN "told" ELSE @]
           /\ req' = [req EXCEPT ![w] = NoRequest]
  <2>1. \A t \in Threads : /\ pc'[t] = "finish" <=> pc[t] = "finish"
                           /\ pc'[t] = "record" <=> pc[t] = "record"
    BY <1>1, <1>3 DEF CtlInv
  <2>2. \A x \in Txs : doubt'[x] = "lost" => doubt[x] = "lost"
    BY <1>3 DEF DbTypes
  <2>3. \A t \in Threads : conn'[t] # None => conn'[t] = conn[t] /\ req'[t].tx = req[t].tx
    BY <1>1, <1>3 DEF CtlInv, DbTypes
  <2> QED
    BY <1>1, <2>1, <2>2, <2>3, QuietTx
<1> QED
  BY <1>2, <1>3 DEF GetConnection, Forget

\* begin's connection becomes the new transaction's; nobody else has it.
LEMMA RecordTx ==
    ASSUME TxInv, CtlInv', NEW w \in Threads, Record(w)
    PROVE  ShareInv' /\ WorkInv'
<1> USE DEF TxInv, PoolInv
<1>1. /\ pc[w] = "record" /\ UNCHANGED <<session, pending, doubt, unended>>
      /\ txs' = [x \in DOMAIN txs \cup {nextTx} |-> IF x = nextTx THEN conn[w] ELSE txs[x]]
      /\ nextTx' = nextTx + 1
      /\ conn' = [conn EXCEPT ![w] = None] /\ pc' = [pc EXCEPT ![w] = "free"]
      /\ req' = [req EXCEPT ![w] = NoRequest]
  BY DEF Record, Forget, dbVars
<1>2. PICK c \in Conns : c = conn[w]
  BY <1>1 DEF CtlInv, Holding
<1>3. PICK n \in Nat \ {0} : n = nextTx /\ nextTx' = n + 1 /\ n \notin DOMAIN txs
  BY <1>1 DEF CtlInv
<1>4. /\ DOMAIN txs' = DOMAIN txs \cup {n} /\ txs'[n] = c
      /\ \A x \in DOMAIN txs : x # n /\ txs'[x] = txs[x]
  BY <1>1, <1>2, <1>3
<1>5. /\ conn'[w] = None /\ pc'[w] = "free"
      /\ \A u \in Threads : u # w => conn'[u] = conn[u] /\ pc'[u] = pc[u] /\ req'[u] = req[u]
  BY <1>1 DEF CtlInv, DbTypes
<1>6. req[w].tx = 0 /\ \A x \in 1 .. n - 1 : x # 0
  BY <1>1 DEF ShareInv
<1>7. /\ \A u \in Threads : u # w => conn[u] # c
      /\ \A x \in DOMAIN txs : txs[x] # c
  <2>1. c # None
    BY PoolAssumption
  <2>2. ASSUME NEW u \in Threads, u # w, conn[u] = c PROVE FALSE
    BY <1>2, <1>6, <2>1, <2>2 DEF ShareInv
  <2>3. ASSUME NEW x \in DOMAIN txs, txs[x] = c PROVE FALSE
    <3>1. x \in 1 .. n - 1
      BY <1>3 DEF CtlInv
    <3> QED
      BY <1>2, <1>6, <2>3, <3>1 DEF ShareInv
  <2> QED
    BY <2>2, <2>3
<1>8. \A u \in Threads : pc[u] = "finish" => u # w
  BY <1>1
<1>10. \A d \in Conns : \A x : Own(d, x)' <=> Own(d, x) \/ (d = c /\ x = n)
  BY <1>4, <1>5, <1>8 DEF Own
<1>11. ASSUME NEW x, Own(c, x) PROVE FALSE
  BY <1>2, <1>6, <1>3, <1>11, OwnOne
<1>9. ShareInv'
  <2>1. \A t, u \in Threads : t # u /\ conn'[t] = conn'[u] /\ conn'[t] # None =>
           req'[t].tx = req'[u].tx /\ req'[t].tx # 0
    BY <1>5 DEF ShareInv
  <2>2. \A t \in Threads, x \in DOMAIN txs' : conn'[t] = txs'[x] => req'[t].tx = x
    <3>1. \A x \in DOMAIN txs' : txs'[x] # None
      BY PoolAssumption DEF CtlInv
    <3> QED
      BY <1>4, <1>5, <1>7, <3>1 DEF ShareInv
  <2>3. \A x, y \in DOMAIN txs' : txs'[x] = txs'[y] => x = y
    BY <1>4, <1>7 DEF ShareInv
  <2>4. \A t \in Threads : pc'[t] = "record" => req'[t].tx = 0
    BY <1>5 DEF ShareInv
  <2>5. \A t \in Threads : pc'[t] = "finish" => pc[t] = "finish" /\ req'[t].tx = req[t].tx
    BY <1>5
  <2>6. ASSUME NEW t \in Threads, pc'[t] = "finish"
        PROVE  req'[t].tx \notin DOMAIN txs' /\ req'[t].tx \in 1 .. nextTx' - 1
    <3>1. req[t].tx \notin DOMAIN txs /\ req[t].tx \in 1 .. n - 1
      BY <1>3, <2>5, <2>6 DEF ShareInv
    <3> QED
      BY <1>3, <1>4, <2>5, <2>6, <3>1
  <2>7. \A t, u \in Threads :
           pc'[t] = "finish" /\ pc'[u] = "finish" /\ req'[t].tx = req'[u].tx => t = u
    BY <2>5 DEF ShareInv
  <2>8. ASSUME NEW t \in Threads, conn'[t] # None
        PROVE  /\ req'[t].tx < nextTx'
               /\ \A d \in Conns : \A x : Own(d, x)' /\ req'[t].tx = x => conn'[t] = d
    <3>1. t # w /\ conn'[t] = conn[t] /\ req'[t] = req[t]
      BY <1>5, <2>8
    <3>2. /\ req[t].tx < n
          /\ \A d \in Conns : \A x : Own(d, x) /\ req[t].tx = x => conn[t] = d
      BY <1>3, <2>8, <3>1 DEF ShareInv
    <3>3. PICK y \in {0} \cup Txs : req[t].tx = y
      BY RequestTypes
    <3>4. y < n + 1 /\ y # n
      <4>1. y < n
        BY <3>2, <3>3
      <4>2. y \in Int /\ n \in Int
        BY PoolAssumption
      <4> QED
        BY <4>1, <4>2
    <3> QED
      BY <1>3, <1>10, <3>1, <3>2, <3>3, <3>4
  <2> QED
    BY <2>1, <2>2, <2>3, <2>4, <2>6, <2>7, <2>8 DEF ShareInv
<1>12. WorkInv'
  <2>1. ASSUME NEW d \in Conns, d # c PROVE Attached(d)' <=> Attached(d)
    <3>1. \A x : Own(d, x)' <=> Own(d, x)
      BY <1>10, <2>1
    <3>2. \A x : Own(d, x) => x \in 1 .. n - 1 /\ x \in 1 .. n
      <4>1. \A x : Own(d, x) => x \in 1 .. nextTx - 1
        BY OwnOne
      <4> QED
        BY <1>3, <4>1
    <3>3. (\E t \in Threads : pc'[t] = "record" /\ conn'[t] = d)
             <=> \E t \in Threads : pc[t] = "record" /\ conn[t] = d
      BY <1>2, <1>5, <2>1
    <3> QED
      BY <1>3, <3>1, <3>2, <3>3 DEF Attached
  <2>2. Attached(c)' /\ Attached(c)
    BY <1>1, <1>2, <1>3, <1>10 DEF Attached
  <2>3. \A d \in Conns : session'[d] # "auto" => Attached(d)' \/ d \in unended'
    BY <1>1, <2>1, <2>2 DEF WorkInv
  <2>4. \A d \in Conns : d \in unended' => ~Attached(d)'
    BY <1>1, <2>1, <2>2 DEF WorkInv
  <2>5. ASSUME NEW d \in Conns, NEW x \in pending'[d] PROVE Own(d, x)' \/ Stray(d, x)'
    <3>1. Own(d, x) \/ Stray(d, x)
      BY <1>1 DEF WorkInv
    <3>2. x \in Int
      BY <1>1, PoolAssumption DEF DbTypes
    <3>3. CASE Stray(d, x)
      <4>1. x = 0 \/ (x < n + 1 /\ x # n)
        BY <1>3, <3>2, <3>3 DEF Stray
      <4> QED
        BY <1>1, <1>3, <1>10, <3>3, <4>1 DEF Stray
    <3> QED
      BY <1>10, <3>1, <3>3
  <2>6. \A d \in Conns : session'[d] # "open" => pending'[d] = {}
    BY <1>1 DEF WorkInv
  <2>7. ASSUME NEW x \in Txs, doubt'[x] = "lost"
        PROVE  x < nextTx' /\ \A d \in Conns : Own(d, x)' => session'[d] = "gone"
    <3>1. x < n /\ \A d \in Conns : Own(d, x) => session[d] = "gone"
      BY <1>1, <1>3, <2>7 DEF WorkInv
    <3>2. x # n /\ x < n + 1
      BY <1>3, <3>1, PoolAssumption
    <3> QED
      BY <1>1, <1>3, <1>10, <3>1, <3>2
  <2> QED
    BY <2>3, <2>4, <2>5, <2>6, <2>7 DEF WorkInv
<1> QED
  BY <1>9, <1>12

\* finalize takes the transaction out of active_txs_: its thread has the connection now.
LEMMA FinalizeTx ==
    ASSUME TxInv, CtlInv', NEW t \in Threads, FinalizeTake(t)
    PROVE  ShareInv' /\ WorkInv'
<1> USE DEF TxInv, PoolInv
<1>1. /\ pc[t] = "finalize" /\ pc[t] \notin Holding
      /\ UNCHANGED <<session, pending, doubt, unended, nextTx>>
  BY DEF FinalizeTake, Holding, dbVars
<1>2. CASE /\ req[t].tx \in DOMAIN txs /\ UNCHANGED req
           /\ conn' = [conn EXCEPT ![t] = txs[req[t].tx]]
           /\ txs' = [y \in DOMAIN txs \ {req[t].tx} |-> txs[y]]
           /\ pc' = [pc EXCEPT ![t] = "finish"]
  <2>1. PICK x \in DOMAIN txs : x = req[t].tx
    BY <1>2
  <2>2. PICK h \in Conns : h = txs[x]
    BY DEF CtlInv
  <2>3. /\ conn'[t] = h /\ pc'[t] = "finish"
        /\ \A u \in Threads : u # t => conn'[u] = conn[u] /\ pc'[u] = pc[u]
    BY <1>2, <2>1, <2>2 DEF CtlInv
  <2>4. /\ DOMAIN txs' = DOMAIN txs \ {x}
        /\ \A y \in DOMAIN txs' : y \in DOMAIN txs /\ y # x /\ txs'[y] = txs[y]
    BY <1>2, <2>1
  <2>5. x \in 1 .. nextTx - 1 /\ x # 0
    BY DEF CtlInv
  <2>6. /\ \A u \in Threads : conn[u] = h => req[u].tx = x
        /\ \A y \in DOMAIN txs : txs[y] = h => y = x
        /\ \A u \in Threads : pc[u] = "finish" => req[u].tx # x
    BY <2>2 DEF ShareInv
  <2>8. \A d \in Conns : \A y : Own(d, y)' <=> Own(d, y)
    <3>1. ASSUME NEW d \in Conns, NEW y, Own(d, y) PROVE Own(d, y)'
      <4>1. CASE y \in DOMAIN txs /\ txs[y] = d
        <5>1. CASE y = x
          BY <1>2, <2>1, <2>2, <2>3, <4>1, <5>1 DEF Own
        <5>2. CASE y # x
          BY <1>2, <2>1, <4>1, <5>2 DEF Own
        <5> QED
          BY <5>1, <5>2
      <4>2. CASE \E u \in Threads : pc[u] = "finish" /\ conn[u] = d /\ req[u].tx = y
        BY <1>1, <1>2, <2>3, <4>2 DEF Own
      <4> QED
        BY <3>1, <4>1, <4>2 DEF Own
    <3>2. ASSUME NEW d \in Conns, NEW y, Own(d, y)' PROVE Own(d, y)
      <4>1. CASE y \in DOMAIN txs' /\ txs'[y] = d
        BY <2>4, <4>1 DEF Own
      <4>2. CASE \E u \in Threads : pc'[u] = "finish" /\ conn'[u] = d /\ req[u].tx = y
        BY <2>1, <2>2, <2>3, <4>2 DEF Own
      <4> QED
        BY <1>2, <3>2, <4>1, <4>2 DEF Own
    <3> QED
      BY <3>1, <3>2
  <2>7. ShareInv'
    <3>1. \A v, u \in Threads : v # u /\ conn'[v] = conn'[u] /\ conn'[v] # None =>
             req[v].tx = req[u].tx /\ req[v].tx # 0
      BY <2>1, <2>3, <2>5, <2>6 DEF ShareInv
    <3>2. \A v \in Threads, y \in DOMAIN txs' : conn'[v] = txs'[y] => req[v].tx = y
      BY <2>3, <2>4, <2>6 DEF ShareInv
    <3>3. \A y, z \in DOMAIN txs' : txs'[y] = txs'[z] => y = z
      BY <2>4 DEF ShareInv
    <3>4. \A v \in Threads : pc'[v] = "record" => req[v].tx = 0
      BY <2>3 DEF ShareInv
    <3>5. \A v \in Threads :
             pc'[v] = "finish" => req[v].tx \notin DOMAIN txs' /\ req[v].tx \in 1 .. nextTx - 1
      BY <2>1, <2>3, <2>4, <2>5 DEF ShareInv
    <3>6. \A v, u \in Threads :
             pc'[v] = "finish" /\ pc'[u] = "finish" /\ req[v].tx = req[u].tx => v = u
      BY <2>1, <2>3, <2>6 DEF ShareInv
    <3>7. \A v \in Threads : conn'[v] # None =>
             /\ req[v].tx < nextTx
             /\ \A d \in Conns : \A y : Own(d, y)' /\ req[v].tx = y => conn'[v] = d
      <4>1. Own(h, x)
        BY <2>1, <2>2 DEF Own
      <4>2. x < nextTx /\ \A d \in Conns : Own(d, x) => d = h
        BY <4>1, OwnOne, OwnedNotRecorded
      <4> QED
        BY <2>1, <2>3, <2>8, <4>2 DEF ShareInv
    <3> QED
      BY <1>1, <1>2, <3>1, <3>2, <3>3, <3>4, <3>5, <3>6, <3>7 DEF ShareInv
  <2>9. \A u \in Threads : /\ pc'[u] = "record" <=> pc[u] = "record"
                           /\ pc[u] = "record" => conn'[u] = conn[u]
    BY <1>1, <2>3
  <2>10. WorkInv'
    BY <1>1, <2>8, <2>9, WorkFrame
  <2> QED
    BY <2>7, <2>10
<1>3. CASE UNCHANGED <<conn, txs>> /\ pc' = [pc EXCEPT ![t] = Done(t)] /\ Forget(t)
  <2>1. \A u \in Threads : /\ pc'[u] = "finish" <=> pc[u] = "finish"
                           /\ pc'[u] = "record" <=> pc[u] = "record"
    BY <1>1, <1>3 DEF CtlInv, Done
  <2>2. \A u \in Threads : conn'[u] # None => conn'[u] = conn[u] /\ req'[u].tx = req[u].tx
    BY <1>1, <1>3 DEF CtlInv, DbTypes, Forget
  <2> QED
    BY <1>1, <1>3, <2>1, <2>2, QuietTx
<1> QED
  BY <1>2, <1>3 DEF FinalizeTake

\* A call that fails on the connection of the thread that makes it.
LEMMA FailTx ==
    ASSUME TxInv, NEW w \in Threads, NEW c \in Conns, conn[w] = c, CallFails(c, req[w].tx),
           UNCHANGED nextTx, \A d \in Conns : \A x : Own(d, x)' <=> Own(d, x),
           \A t \in Threads : pc'[t] = "record" <=> pc[t] = "record",
           \A t \in Threads : pc[t] = "record" => conn'[t] = conn[t]
    PROVE  WorkInv'
<1> USE DEF TxInv, PoolInv
<1>1. /\ pending' = pending /\ \A d \in Conns \ {c} : session'[d] = session[d]
      /\ session'[c] = IF session[c] = "gone" THEN "auto" ELSE session[c]
      /\ unended' = IF session[c] = "gone" THEN unended \ {c} ELSE unended
      /\ \A x \in Txs : doubt'[x] = "lost" => doubt[x] = "lost" /\ x # req[w].tx
  BY DEF CallFails, Fails, Told, DbTypes
<1>2. \A x : Own(c, x) => req[w].tx = x
  BY OwnOne
<1>3. \A d \in Conns : Attached(d)' <=> Attached(d)
  BY AttachedFrame
<1>4. session'[c] # "auto" => Attached(c)' \/ c \in unended'
  BY <1>1, <1>3 DEF WorkInv
<1>5. c \in unended' => ~Attached(c)'
  BY <1>1, <1>3 DEF WorkInv
<1>6. \A x \in pending'[c] : Own(c, x)' \/ Stray(c, x)'
  BY <1>1 DEF WorkInv, Stray
<1>7. session'[c] # "open" => pending'[c] = {}
  BY <1>1 DEF WorkInv
<1>8. \A x \in Txs : doubt'[x] = "lost" =>
         /\ doubt[x] = "lost" \/ x \in pending[c]
         /\ Own(c, x)' => session'[c] = "gone"
  BY <1>1, <1>2
<1> QED
  BY <1>1, <1>3, <1>4, <1>5, <1>6, <1>7, <1>8, ServerTx

\* query and execute: work is done for the transaction that has the connection, or astray
\* on one whose transaction did not end.
LEMMA StatementTx ==
    ASSUME TxInv, CtlInv', NEW w \in Threads, Statement(w)
    PROVE  ShareInv' /\ WorkInv'
<1> USE DEF TxInv, PoolInv
<1>1. /\ pc[w] = "use" /\ pc' = [pc EXCEPT ![w] = "drop"]
      /\ UNCHANGED <<conn, txs, req, nextTx>>
  BY DEF Statement, txVars
<1>2. PICK c \in Conns : c = conn[w]
  BY <1>1 DEF CtlInv, Holding
<1>3. \A t \in Threads : /\ pc'[t] = "finish" <=> pc[t] = "finish"
                         /\ pc'[t] = "record" <=> pc[t] = "record"
  BY <1>1 DEF CtlInv
<1>4. ShareInv'
  BY <1>1, <1>3, ShareFrame
<1>5. \A d \in Conns : \A x : Own(d, x)' <=> Own(d, x)
  BY <1>1, <1>3, OwnFrame
<1>6. CASE CallFails(c, req[w].tx)
  BY <1>1, <1>2, <1>3, <1>4, <1>5, <1>6, FailTx
<1>7. CASE RunStatement(c, req[w].tx) /\ session[c] = "open"
  <2>1. /\ session' = session /\ doubt' = doubt /\ unended' = unended
        /\ pending'[c] = pending[c] \cup {req[w].tx}
        /\ \A d \in Conns \ {c} : pending'[d] = pending[d]
    BY <1>7 DEF RunStatement, DbTypes
  <2>2. Own(c, req[w].tx) \/ Stray(c, req[w].tx)
    <3>1. CASE c \in unended
      <4>1. \A x : ~Own(c, x)
        BY <3>1, OwnOne DEF WorkInv, Attached
      <4>2. req[w].tx < nextTx /\ \A d \in Conns : ~Own(d, req[w].tx)
        BY <1>2, <4>1, PoolAssumption DEF ShareInv
      <4> QED
        BY <3>1, <4>2 DEF Stray
    <3>2. CASE c \notin unended
      <4>1. ASSUME NEW t \in Threads, pc[t] = "record", conn[t] = c PROVE FALSE
        <5>1. t # w /\ req[t].tx = 0 /\ c # None
          BY <1>1, <4>1, PoolAssumption DEF ShareInv
        <5> QED
          BY <1>2, <4>1, <5>1 DEF ShareInv
      <4>2. PICK x : Own(c, x)
        BY <1>7, <3>2, <4>1 DEF WorkInv, Attached
      <4> QED
        BY <1>2, <4>2, OwnOne
    <3> QED
      BY <3>1, <3>2
  <2>3. \A d \in Conns : Attached(d)' <=> Attached(d)
    BY <1>1, <1>3, <1>5, AttachedFrame
  <2>4. \A x : Stray(c, x)' <=> Stray(c, x)
    BY <1>1, <1>5, <2>1 DEF Stray
  <2>5. \A x \in pending'[c] : Own(c, x)' \/ Stray(c, x)'
    BY <1>5, <2>1, <2>2, <2>4 DEF WorkInv
  <2>6. /\ session'[c] # "auto" => Attached(c)' \/ c \in unended'
        /\ c \in unended' => ~Attached(c)'
        /\ session'[c] # "open" => pending'[c] = {}
    BY <1>7, <2>1, <2>3 DEF WorkInv
  <2>7. \A x \in Txs : doubt'[x] = "lost" =>
           /\ doubt[x] = "lost" \/ x \in pending[c]
           /\ Own(c, x)' => session'[c] = "gone"
    BY <1>5, <2>1 DEF WorkInv
  <2> QED
    BY <1>1, <1>4, <1>5, <2>1, <2>3, <2>5, <2>6, <2>7, ServerTx
<1>8. CASE RunStatement(c, req[w].tx) /\ session[c] # "open"
  <2>1. UNCHANGED <<session, pending, doubt, unended>>
    BY <1>8 DEF RunStatement
  <2> QED
    BY <1>1, <1>3, <1>4, <1>5, <2>1, WorkFrame
<1> QED
  BY <1>2, <1>6, <1>7, <1>8 DEF Statement

\* START TRANSACTION on a connection no transaction has: it ends what was left open there.
LEMMA BeginTx ==
    ASSUME TxInv, CtlInv', NEW w \in Threads, BeginTransaction(w)
    PROVE  ShareInv' /\ WorkInv'
<1> USE DEF TxInv, PoolInv
<1>1. /\ pc[w] = "use" /\ UNCHANGED <<conn, txs, req, nextTx>> /\ req[w].tx = 0
  BY RequestTypes DEF BeginTransaction, txVars
<1>2. PICK c \in Conns : c = conn[w]
  BY <1>1 DEF CtlInv, Holding
<1>3. PICK l \in {"record", "drop"} :
         /\ pc' = [pc EXCEPT ![w] = l]
         /\ l = "record" => StartTransaction(c)
         /\ l = "drop" => CallFails(c, 0)
  BY <1>2 DEF BeginTransaction
<1>4. /\ pc'[w] = l /\ \A t \in Threads : t # w => pc'[t] = pc[t]
  BY <1>3 DEF CtlInv
<1>5. \A t \in Threads : /\ pc'[t] = "finish" <=> pc[t] = "finish"
                         /\ pc[t] = "record" => pc'[t] = "record"
                         /\ pc'[t] = "record" => pc[t] = "record" \/ req[t].tx = 0
  BY <1>1, <1>4
<1>6. ShareInv'
  BY <1>1, <1>5, ShareFrame
<1>7. \A d \in Conns : \A x : Own(d, x)' <=> Own(d, x)
  BY <1>1, <1>5, OwnFrame
<1>8. CASE l = "drop"
  <2>1. CallFails(c, req[w].tx)
    BY <1>1, <1>3, <1>8
  <2>2. \A t \in Threads : pc'[t] = "record" <=> pc[t] = "record"
    BY <1>1, <1>4, <1>8
  <2> QED
    BY <1>1, <1>2, <1>6, <1>7, <2>1, <2>2, FailTx
<1>9. CASE l = "record"
  <2>1. /\ session'[c] = "open" /\ doubt' = doubt /\ pending'[c] = {} /\ unended' = unended \ {c}
        /\ \A d \in Conns \ {c} : session'[d] = session[d] /\ pending'[d] = pending[d]
    BY <1>3, <1>9 DEF StartTransaction, DbTypes
  <2>2. ASSUME NEW x, Own(c, x) PROVE FALSE
    BY <1>1, <1>2, <2>2, OwnOne, OwnedNotRecorded
  <2>3. Attached(c)'
    BY <1>1, <1>2, <1>4, <1>9 DEF Attached
  <2>4. \A d \in Conns \ {c} : Attached(d)' <=> Attached(d)
    <3>1. \A d \in Conns \ {c} : (\E t \in Threads : pc'[t] = "record" /\ conn'[t] = d)
                                   <=> \E t \in Threads : pc[t] = "record" /\ conn[t] = d
      BY <1>1, <1>2, <1>4
    <3> QED
      BY <1>1, <1>7, <3>1 DEF Attached
  <2>6. \A x \in Txs : doubt'[x] = "lost" =>
           /\ doubt[x] = "lost" \/ x \in pending[c]
           /\ Own(c, x)' => session'[c] = "gone"
    BY <1>7, <2>1, <2>2
  <2>7. WorkInv'
    BY <1>1, <1>7, <2>1, <2>3, <2>4, <2>6, ServerTx
  <2> QED
    BY <1>6, <2>7
<1> QED
  BY <1>8, <1>9

\* The end of a transaction is the end of its claim on the connection, and of the work
\* there unless the end fails.
LEMMA FinishTx ==
    ASSUME TxInv, CtlInv', NEW t \in Threads, FinalizeRun(t)
    PROVE  ShareInv' /\ WorkInv'
<1> USE DEF TxInv, PoolInv
<1>1. /\ pc[t] = "finish" /\ pc' = [pc EXCEPT ![t] = "drop"]
      /\ UNCHANGED <<conn, txs, req, nextTx>>
  BY DEF FinalizeRun, txVars
<1>2. PICK c \in Conns : c = conn[t]
  BY <1>1 DEF CtlInv, Holding
<1>3. PICK x : x = req[t].tx
  OBVIOUS
<1>4. pc'[t] = "drop" /\ \A u \in Threads : u # t => pc'[u] = pc[u]
  BY <1>1 DEF CtlInv
<1>5. ShareInv'
  <2>1. \A u \in Threads : /\ pc'[u] = "finish" => pc[u] = "finish"
                           /\ pc'[u] = "record" => pc[u] = "record"
    BY <1>4
  <2> QED
    BY <1>1, <2>1, ShareFrame
<1>6. /\ Own(c, x) /\ \A y : Own(c, y) => y = x
      /\ \A d \in Conns : Own(d, x) => d = c
  <2>1. Own(c, x)
    BY <1>1, <1>2, <1>3 DEF Own
  <2> QED
    BY <2>1, OwnOne
<1>7. \A d \in Conns : \A y : Own(d, y)' <=> Own(d, y) /\ d # c
  <2>1. \A u \in Threads : u # t /\ pc[u] = "finish" => req[u].tx # x
    BY <1>1, <1>3 DEF ShareInv
  <2>2. x \notin DOMAIN txs
    BY <1>1, <1>3 DEF ShareInv
  <2>3. ASSUME NEW d \in Conns, NEW y, Own(d, y)' PROVE Own(d, y) /\ d # c
    <3>1. \/ y \in DOMAIN txs /\ txs[y] = d
          \/ \E u \in Threads : u # t /\ pc[u] = "finish" /\ conn[u] = d /\ req[u].tx = y
      BY <1>1, <1>4, <2>3 DEF Own
    <3>2. Own(d, y) /\ y # x
      BY <2>1, <2>2, <3>1 DEF Own
    <3> QED
      BY <1>6, <3>2
  <2>4. ASSUME NEW d \in Conns, NEW y, Own(d, y), d # c PROVE Own(d, y)'
    <3>1. \/ y \in DOMAIN txs /\ txs[y] = d
          \/ \E u \in Threads : u # t /\ pc[u] = "finish" /\ conn[u] = d /\ req[u].tx = y
      BY <1>2, <2>4 DEF Own
    <3> QED
      BY <1>1, <1>4, <3>1 DEF Own
  <2> QED
    BY <2>3, <2>4
<1>8. /\ x # 0 /\ x < nextTx /\ ~Attached(c)'
      /\ \A d \in Conns \ {c} : Attached(d)' <=> Attached(d)
  <2>1. \A u \in Threads : (pc'[u] = "record" <=> pc[u] = "record") /\ conn'[u] = conn[u]
    BY <1>1, <1>4
  <2>2. x # 0 /\ x < nextTx /\ ~\E u \in Threads : pc[u] = "record" /\ conn[u] = c
    BY <1>6, OwnedNotRecorded
  <2> QED
    BY <1>1, <1>7, <2>1, <2>2 DEF Attached
<1>9. c \notin unended
  <2>1. Attached(c)
    BY <1>6, OwnOne DEF Attached
  <2> QED
    BY <2>1 DEF WorkInv
<1>10. /\ \A d \in Conns \ {c} : session'[d] = session[d] /\ pending'[d] = pending[d]
       /\ \A d \in Conns \ {c} : d \in unended' <=> d \in unended
       /\ \A y \in Txs : doubt'[y] = "lost" => doubt[y] = "lost" \/ y \in pending[c]
       /\ \/ session'[c] = "auto" /\ pending'[c] = {} /\ c \notin unended'
          \/ session'[c] = "open" /\ pending'[c] = pending[c] /\ c \in unended'
  <2>1. CASE EndFails(c, x)
    BY <1>9, <2>1 DEF EndFails, Fails, Told, DbTypes, WorkInv
  <2>2. CASE Finish(c, x, TRUE) \/ Finish(c, x, FALSE)
    BY <2>2 DEF Finish, Told, Undone, DbTypes
  <2> QED
    BY <1>2, <1>3, <2>1, <2>2 DEF FinalizeRun
<1>11. \A y \in pending'[c] : Own(c, y)' \/ Stray(c, y)'
  <2> SUFFICES ASSUME NEW y \in pending'[c] PROVE Stray(c, y)'
    OBVIOUS
  <2>1. y \in pending[c] /\ c \in unended'
    BY <1>10
  <2>2. y = x
    BY <1>6, <1>9, <2>1 DEF WorkInv, Stray
  <2>3. \A d \in Conns : ~Own(d, x)'
    BY <1>6, <1>7
  <2> QED
    BY <1>1, <1>8, <2>1, <2>2, <2>3 DEF Stray
<1>12. WorkInv'
  BY <1>1, <1>7, <1>8, <1>10, <1>11, ServerTx
<1> QED
  BY <1>5, <1>12

\* The server drops a connection: the work on it was its owner's, or astray.
LEMMA LoseTx ==
    ASSUME TxInv, CtlInv', NEW c \in Conns, Lose(c), UNCHANGED <<req, txVars>>
    PROVE  ShareInv' /\ WorkInv'
<1> USE DEF TxInv, PoolInv
<1>1. /\ session[c] = "open" /\ session' = [session EXCEPT ![c] = "gone"]
      /\ doubt' = Undone(c) /\ pending' = [pending EXCEPT ![c] = {}]
      /\ UNCHANGED <<conn, txs, pc, req, nextTx, unended>>
  BY DEF Lose, txVars
<1>2. ShareInv'
  BY <1>1, ShareFrame
<1>3. \A d \in Conns : \A x : Own(d, x)' <=> Own(d, x)
  BY <1>1, OwnFrame
<1>4. \A d \in Conns : Attached(d)' <=> Attached(d)
  BY <1>1, <1>3, AttachedFrame
<1>5. /\ session'[c] = "gone" /\ pending'[c] = {}
      /\ \A d \in Conns \ {c} : session'[d] = session[d] /\ pending'[d] = pending[d]
      /\ \A y \in Txs : doubt'[y] = "lost" => doubt[y] = "lost" \/ y \in pending[c]
  BY <1>1 DEF Undone, DbTypes
<1>6. /\ session'[c] # "auto" => Attached(c)' \/ c \in unended'
      /\ c \in unended' => ~Attached(c)'
  BY <1>1, <1>4 DEF WorkInv
<1>8. WorkInv'
  BY <1>1, <1>3, <1>4, <1>5, <1>6, ServerTx
<1> QED
  BY <1>2, <1>8

\* healthCheck makes a session anew: nobody has the connection.
LEMMA RenewTx ==
    ASSUME TxInv, CtlInv', NEW c \in Conns \ LentSet, Renew(c),
           UNCHANGED <<conn, txs, pc, req, nextTx>>
    PROVE  ShareInv' /\ WorkInv'
<1> USE DEF TxInv, PoolInv
<1>1. ShareInv'
  BY ShareFrame
<1>2. \A d \in Conns : \A x : Own(d, x)' <=> Own(d, x)
  BY OwnFrame
<1>3. \A d \in Conns : Attached(d)' <=> Attached(d)
  BY <1>2, AttachedFrame
<1>4. \A x : ~Own(c, x)
  BY DEF LentSet, Own
<1>5. /\ session'[c] = "auto" /\ pending'[c] = {} /\ unended' = unended \ {c}
      /\ \A d \in Conns \ {c} : session'[d] = session[d] /\ pending'[d] = pending[d]
      /\ \A y \in Txs : doubt'[y] = "lost" => doubt[y] = "lost" \/ y \in pending[c]
  BY DEF Renew, Undone, DbTypes
<1>6. WorkInv'
  BY <1>2, <1>3, <1>4, <1>5, ServerTx
<1> QED
  BY <1>1, <1>6

\* A thread lets go.
LEMMA LeaveTx ==
    ASSUME TxInv, CtlInv', NEW t \in Threads, Leave(t)
    PROVE  ShareInv' /\ WorkInv'
<1> USE DEF TxInv, PoolInv
<1>1. /\ pc[t] = "drop" /\ conn' = [conn EXCEPT ![t] = None]
      /\ req' = [req EXCEPT ![t] = NoRequest]
      /\ UNCHANGED <<txs, nextTx, session, pending, doubt, unended>>
  BY DEF Leave, Drop, Forget, dbVars, txVars
<1>2. \A u \in Threads : /\ pc'[u] = "finish" <=> pc[u] = "finish"
                         /\ pc'[u] = "record" <=> pc[u] = "record"
  <2>1. \/ pc' = [pc EXCEPT ![t] = Done(t)]
        \/ \E w \in Workers : /\ pc[w] = "wait"
                              /\ pc' = [pc EXCEPT ![t] = Done(t), ![w] = "acquire"]
    BY DEF Leave, Drop, Notify
  <2>2. Done(t) \notin {"finish", "record"}
    BY DEF Done
  <2>3. CASE pc' = [pc EXCEPT ![t] = Done(t)]
    BY <1>1, <2>2, <2>3 DEF CtlInv
  <2>4. CASE \E w \in Workers : /\ pc[w] = "wait"
                                /\ pc' = [pc EXCEPT ![t] = Done(t), ![w] = "acquire"]
    BY <1>1, <2>2, <2>4 DEF CtlInv
  <2> QED
    BY <2>1, <2>3, <2>4
<1>3. \A u \in Threads : conn'[u] # None => conn'[u] = conn[u] /\ req'[u].tx = req[u].tx
  BY <1>1 DEF CtlInv, DbTypes
<1> QED
  BY <1>1, <1>2, <1>3, QuietTx

\* Every step.
LEMMA StepTx == TxInv /\ [Next]_vars => TxInv'
<1> SUFFICES ASSUME TxInv, [Next]_vars PROVE ShareInv' /\ WorkInv'
  BY StepPlaces, StepTypes, StepAsk DEF TxInv, PoolInv
<1>0. CtlInv' /\ CtlInv
  BY StepPlaces DEF TxInv, PoolInv
<1>1. Tick \in Threads /\ Workers \subseteq Threads
  BY DEF Threads
<1>2. ASSUME NEW t \in Threads, NEW l \in Labels, pc[t] \notin Holding, l \notin Holding,
             pc' = [pc EXCEPT ![t] = l], req' = req \/ \E r : req' = [req EXCEPT ![t] = r],
             UNCHANGED <<conn, dbVars, txs, nextTx>>
      PROVE  ShareInv' /\ WorkInv'
  <2>1. \A u \in Threads : /\ pc'[u] = "finish" <=> pc[u] = "finish"
                           /\ pc'[u] = "record" <=> pc[u] = "record"
    BY <1>0, <1>2 DEF CtlInv, Holding
  <2>2. \A u \in Threads : conn'[u] # None => conn'[u] = conn[u] /\ req'[u].tx = req[u].tx
    BY <1>0, <1>2 DEF CtlInv, TxInv, DbTypes
  <2> QED
    BY <1>0, <1>2, <2>1, <2>2, QuietTx DEF TxInv, dbVars
<1>3. ASSUME UNCHANGED <<pc, conn, req, dbVars, txs, nextTx>> PROVE ShareInv' /\ WorkInv'
  BY <1>0, <1>3, QuietTx DEF TxInv, dbVars
<1>4. ASSUME NEW w \in Workers, NEW r \in Requests, Receive(w, r)
      PROVE  ShareInv' /\ WorkInv'
  <2>1. PICK l \in {"finalize", "lookup", "acquire"} : pc' = [pc EXCEPT ![w] = l]
    BY <1>4 DEF Receive
  <2>2. l \in Labels /\ l \notin Holding /\ pc[w] \notin Holding
    BY <1>4 DEF Receive, Labels, Holding
  <2> QED
    BY <1>1, <1>2, <1>4, <2>1, <2>2 DEF Receive, txVars
<1>5. ASSUME NEW w \in Workers, AcquireTimeout(w) PROVE ShareInv' /\ WorkInv'
  <2>1. pc[w] \notin Holding /\ "free" \in Labels /\ "free" \notin Holding
    BY <1>5 DEF AcquireTimeout, Labels, Holding
  <2> QED
    BY <1>1, <1>2, <1>5, <2>1 DEF AcquireTimeout, Forget, txVars
<1>6. ASSUME NEW w \in Workers, Serve(w) PROVE ShareInv' /\ WorkInv'
  <2>1. CASE PoolStep(Acquire(w)) \/ PoolStep(CreateSucceeds(w)) \/ PoolStep(CreateFails(w))
    BY <1>0, <1>1, <2>1, AcquireTx DEF PoolStep
  <2>2. CASE GetConnection(w) \/ Statement(w) \/ BeginTransaction(w) \/ Record(w)
    BY <1>0, <1>1, <2>2, LookupTx, StatementTx, BeginTx, RecordTx
  <2>3. CASE FinalizeTake(w) \/ FinalizeRun(w) \/ Leave(w)
    BY <1>0, <1>1, <2>3, FinalizeTx, FinishTx, LeaveTx
  <2> QED
    BY <1>5, <1>6, <2>1, <2>2, <2>3 DEF Serve
<1>7. CASE PoolStep(HealthTake) \/ PoolStep(HealthTry) \/ PoolStep(HealthReturn)
  <2>1. UNCHANGED <<conn, req, txs, nextTx>>
    BY <1>7 DEF PoolStep, HealthTake, HealthTry, HealthReturn, txVars
  <2>2. CASE PoolStep(HealthTry)
    <3>1. PICK h \in Conns : h = Head(checking) /\ h \in Rng(checking)
      <4>1. checking # <<>> /\ checking \in Seq(Conns) /\ NoTwice(checking)
        BY <2>2 DEF PoolStep, HealthTry, TxInv, PoolInv, CtlInv, PlaceInv
      <4> QED
        BY <4>1, TailPlaces
    <3>2. h \notin LentSet
      BY <3>1 DEF TxInv, PoolInv, PlaceInv, Parted
    <3>3. pc' = pc /\ (UNCHANGED dbVars \/ Renew(h))
      BY <2>2, <3>1 DEF PoolStep, HealthTry, Answers, Dead
    <3> QED
      BY <1>0, <1>3, <2>1, <3>2, <3>3, RenewTx
  <2>3. CASE PoolStep(HealthTake) \/ PoolStep(HealthReturn)
    <3>1. /\ pc[Tick] \notin Holding /\ UNCHANGED dbVars
          /\ \E l \in Labels \ Holding : pc' = [pc EXCEPT ![Tick] = l]
      BY <2>3 DEF PoolStep, HealthTake, HealthReturn, Labels, Holding
    <3> QED
      BY <1>1, <1>2, <2>1, <3>1
  <2> QED
    BY <1>7, <2>2, <2>3
<1>8. CASE Collect \/ Sweep
  <2>1. /\ UNCHANGED <<conn, dbVars, txs, nextTx>> /\ pc[Tick] \notin Holding
        /\ req' = req \/ \E r : req' = [req EXCEPT ![Tick] = r]
        /\ \E l \in Labels \ Holding : pc' = [pc EXCEPT ![Tick] = l]
    BY <1>8 DEF Collect, Sweep, Labels, Holding
  <2> QED
    BY <1>1, <1>2, <2>1
<1>9. CASE OnTick
  BY <1>0, <1>1, <1>7, <1>8, <1>9, FinalizeTx, FinishTx, LeaveTx DEF OnTick
<1>10. CASE \E x \in Txs : DeadlinePasses(x)
  BY <1>3, <1>10 DEF DeadlinePasses
<1>11. CASE \E c \in Conns : PoolStep(Lose(c))
  BY <1>0, <1>11, LoseTx DEF PoolStep
<1>12. CASE UNCHANGED vars
  BY <1>3, <1>12 DEF vars, txVars
<1> QED
  BY <1>4, <1>6, <1>9, <1>10, <1>11, <1>12 DEF Next

\* From the start, always.
LEMMA TxAlways == Spec => []TxInv
<1>1. Init => TxInv
  BY InitPool, InitWork DEF TxInv
<1> QED
  BY <1>1, StepTx, PTL DEF Spec

(* Where no COMMIT or ROLLBACK has failed since the last START TRANSACTION, a connection's *)
(* open transaction holds the work of one transaction only, and a connection in the pool   *)
(* is in none; every variable has its type.  So it is whatever the threads, the tick and   *)
(* the server do (TransactionManager.cpp:35-84).                                            *)
THEOREM SeparateCorrect == Spec => []Separate
  BY TxMeans, TxAlways, PTL

(* When COMMIT is about to succeed, and nobody was refused, all the transaction's answered *)
(* work is in what is committed (TransactionManager.cpp:55-84).                             *)
THEOREM CommitMeansAllCorrect == Spec => []CommitMeansAll
  BY TxMeans, TxAlways, PTL
=============================================================================
