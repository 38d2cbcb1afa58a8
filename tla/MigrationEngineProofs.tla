----------------------- MODULE MigrationEngineProofs -----------------------
(***************************************************************************)
(* Proofs about dbmigrate for any files, statements and numbers of         *)
(* engines, kills and lost connections.                                    *)
(*                                                                         *)
(* NoGap: a file that an engine has found is recorded or still to do, and  *)
(* those are in order (FilesOK).                                           *)
(*                                                                         *)
(* Converged: a file that is executed again runs over what earlier runs    *)
(* have left, which is not a state of the replay: a column that a later    *)
(* statement adds may be there already, and rows of a run that was cut are *)
(* lost.  Agree says how far the two differ table by table, and that they  *)
(* are the same once the file has got as far as any run before             *)
(* (AgreeFull).                                                            *)
(*                                                                         *)
(* The last part is about the load balancers that take turns, for any      *)
(* instances and weights.                                                  *)
(***************************************************************************)
EXTENDS MigrationEngine, LoadBalancer, FiniteSetTheorems, FunctionTheorems,
        SequenceTheorems, WellFoundedInduction, TLAPS

-----------------------------------------------------------------------------
(* Functions defined by recursion over the numbers.                         *)

\* Induction over the numbers, for one set: a counterexample would have a least member.
LEMMA SetInduction ==
  ASSUME NEW S, 0 \in S, \A n \in Nat : n \in S => n + 1 \in S
  PROVE  Nat \subseteq S
<1> DEFINE T == Nat \ S
<1> SUFFICES ASSUME T # {} PROVE FALSE
  OBVIOUS
<1>1. PICK x \in T : \A y \in T : ~(<<y, x>> \in OpToRel(<, Nat))
  BY NatLessThanWellFounded, WFMin
<1>2. x \in Nat /\ x # 0 /\ x - 1 \in Nat
  OBVIOUS
<1>3. x - 1 \notin S
  <2>1. (x - 1) + 1 = x
    BY <1>2
  <2> QED BY <1>2, <2>1
<1>4. <<x - 1, x>> \in OpToRel(<, Nat)
  BY <1>2 DEF OpToRel
<1> QED BY <1>1, <1>2, <1>3, <1>4

\* What one statement leaves of database d: d itself if it fails.
Step(d, s) == IF Fails(d, s) THEN d ELSE Effect(d, s)

\* The function that Stages chooses exists.
LEMMA StagesIs ==
  ASSUME NEW d, NEW S, Len(S) \in Nat
  PROVE  Stages(d, S) = [n \in 0 .. Len(S) |->
                            IF n = 0 THEN d ELSE Step(Stages(d, S)[n - 1], S[n])]
<1> DEFINE Is(h, n) == h = [i \in 0 .. n |-> IF i = 0 THEN d ELSE Step(h[i - 1], S[i])]
           T == {n \in Nat : \E h : Is(h, n)}
<1>1. 0 \in T
  <2> DEFINE h == [i \in 0 .. 0 |-> d]
  <2>1. \A i \in 0 .. 0 : h[i] = IF i = 0 THEN d ELSE Step(h[i - 1], S[i])
    OBVIOUS
  <2>2. Is(h, 0)
    <3> HIDE DEF h
    <3>1. h = [i \in 0 .. 0 |-> h[i]]
      BY DEF h
    <3> QED BY <2>1, <3>1
  <2> HIDE DEF Is
  <2> QED BY <2>2
<1>2. ASSUME NEW n \in Nat, n \in T PROVE n + 1 \in T
  <2>1. PICK h : Is(h, n)
    BY <1>2
  <2> DEFINE g == [i \in 0 .. n + 1 |-> IF i = n + 1 THEN Step(h[n], S[n + 1]) ELSE h[i]]
  <2>2. ASSUME NEW i \in 0 .. n + 1 PROVE g[i] = IF i = 0 THEN d ELSE Step(g[i - 1], S[i])
    <3>1. CASE i = n + 1
      <4>1. i - 1 \in 0 .. n + 1 /\ i - 1 # n + 1 /\ i - 1 = n /\ i # 0
        BY <3>1
      <4> HIDE DEF Is
      <4> QED BY <3>1, <4>1
    <3>2. CASE i # n + 1 /\ i # 0
      <4>1. i \in 0 .. n /\ i - 1 \in 0 .. n + 1 /\ i - 1 # n + 1
        BY <3>2
      <4> QED BY <2>1, <3>2, <4>1
    <3>3. CASE i # n + 1 /\ i = 0
      BY <2>1, <3>3
    <3> QED BY <3>1, <3>2, <3>3
  <2>3. Is(g, n + 1)
    <3>1. g = [i \in 0 .. n + 1 |-> g[i]]
      OBVIOUS
    <3> HIDE DEF g
    <3> QED BY <2>2, <3>1
  <2> HIDE DEF Is, g
  <2> QED BY <2>3
<1>3. PICK h : Is(h, Len(S))
  <2>1. Nat \subseteq T
    <3> HIDE DEF T
    <3> QED BY <1>1, <1>2, SetInduction
  <2> HIDE DEF Is
  <2> QED BY <2>1
<1> QED BY <1>3 DEF Stages, Step

Join(a, b) == a \o b

LEMMA Joins ==
  ASSUME NEW T, NEW a \in Seq(T), NEW b \in Seq(T)
  PROVE  /\ Join(a, b) \in Seq(T) /\ Len(Join(a, b)) = Len(a) + Len(b)
         /\ \A i \in 1 .. Len(a) : Join(a, b)[i] = a[i]
         /\ \A i \in 1 .. Len(b) : Join(a, b)[Len(a) + i] = b[i]
         /\ Join(<< >>, b) = b /\ << >> \in Seq(T)
<1>1. << >> \o b = b
  OBVIOUS
<1>2. a \o b \in Seq(T)
  OBVIOUS
<1>3. Len(a \o b) = Len(a) + Len(b)
  OBVIOUS
<1>4. \A i \in 1 .. Len(a) : (a \o b)[i] = a[i]
  OBVIOUS
<1>5. \A i \in 1 .. Len(b) : (a \o b)[Len(a) + i] = b[i]
  OBVIOUS
<1> QED BY <1>1, <1>2, <1>3, <1>4, <1>5 DEF Join

\* Joining sequences one after the other stays within the sequences over T.
LEMMA Flattened ==
  ASSUME NEW T, NEW n \in Nat, NEW ss \in [1 .. n -> Seq(T)]
  PROVE  \E f \in [0 .. n -> Seq(T)] :
            /\ f[0] = << >> /\ \A i \in 1 .. n : f[i] = Join(f[i - 1], ss[i])
            /\ FlattenSeq(ss) = f[n]
<1> DEFINE Is(h, k) == h \in [0 .. k -> Seq(T)] /\ h[0] = << >>
                       /\ \A i \in 1 .. k : h[i] = Join(h[i - 1], ss[i])
           U == {k \in Nat : k <= n => \E h : Is(h, k)}
<1>0. ss \in Seq(Seq(T)) /\ Len(ss) = n
  OBVIOUS
<1>1. 0 \in U
  <2> DEFINE h == [i \in 0 .. 0 |-> << >>]
  <2>1. Is(h, 0)
    BY Joins
  <2> HIDE DEF Is, h
  <2> QED BY <2>1
<1>2. ASSUME NEW k \in Nat, k \in U PROVE k + 1 \in U
  <2> SUFFICES ASSUME k + 1 <= n PROVE \E h : Is(h, k + 1)
    <3> HIDE DEF Is
    <3> QED OBVIOUS
  <2>1. PICK h : Is(h, k)
    <3> HIDE DEF Is
    <3> QED BY <1>2
  <2> DEFINE g == [i \in 0 .. k + 1 |-> IF i = k + 1 THEN Join(h[k], ss[k + 1]) ELSE h[i]]
  <2>2. Join(h[k], ss[k + 1]) \in Seq(T)
    <3>1. ss[k + 1] \in Seq(T) /\ h[k] \in Seq(T)
      BY <2>1
    <3> QED BY <3>1, Joins
  <2>3. g \in [0 .. k + 1 -> Seq(T)]
    BY <2>1, <2>2
  <2>4. ASSUME NEW i \in 1 .. k + 1 PROVE g[i] = Join(g[i - 1], ss[i])
    <3>1. CASE i = k + 1
      <4>1. g[k + 1] = Join(h[k], ss[k + 1]) /\ g[k] = h[k] /\ (k + 1) - 1 = k
        OBVIOUS
      <4> HIDE DEF Is, g
      <4> QED BY <3>1, <4>1
    <3>2. CASE i # k + 1
      <4>1. i \in 1 .. k /\ i \in 0 .. k + 1 /\ i - 1 \in 0 .. k + 1 /\ i - 1 # k + 1
        BY <3>2
      <4> QED BY <2>1, <3>2, <4>1
    <3> QED BY <3>1, <3>2
  <2>5. Is(g, k + 1)
    <3>1. g[0] = << >>
      BY <2>1
    <3> HIDE DEF g
    <3> QED BY <2>3, <2>4, <3>1
  <2> HIDE DEF Is, g
  <2> QED BY <2>5
<1>3. PICK h : Is(h, n)
  <2>1. Nat \subseteq U
    <3> HIDE DEF U
    <3> QED BY <1>1, <1>2, SetInduction
  <2> HIDE DEF Is
  <2> QED BY <2>1
<1>4. CASE n = 0
  <2>1. ss = << >> /\ FlattenSeq(ss) = ss
    BY <1>0, <1>4 DEF FlattenSeq
  <2> QED BY <1>3, <1>4, <2>1
<1>5. CASE n # 0
  <2> DEFINE g == [i \in 1 .. n |-> h[i]]
             Flat(f) == f = [i \in 1 .. Len(ss) |-> IF i = 1 THEN ss[i] ELSE Join(f[i - 1], ss[i])]
             F == CHOOSE f : Flat(f)
  <2>1. ASSUME NEW i \in 1 .. n PROVE g[i] = IF i = 1 THEN ss[i] ELSE Join(g[i - 1], ss[i])
    <3>1. CASE i = 1
      <4>1. Join(<< >>, ss[1]) = ss[1]
        BY <1>5, Joins
      <4> QED BY <1>3, <3>1, <4>1
    <3>2. CASE i # 1
      <4>1. i - 1 \in 1 .. n
        BY <3>2
      <4> QED BY <1>3, <3>2, <4>1
    <3> QED BY <3>1, <3>2
  <2>2. Flat(g)
    <3>1. g = [i \in 1 .. n |-> g[i]]
      OBVIOUS
    <3> HIDE DEF g
    <3> QED BY <1>0, <2>1, <3>1
  <2>3. Flat(F)
    <3> HIDE DEF Flat, g
    <3> QED BY <2>2
  <2>4. FlattenSeq(ss) = F[n]
    BY <1>0, <1>5 DEF FlattenSeq, Join
  <2> DEFINE V == {k \in Nat : k \in 1 .. n => F[k] = h[k]}
  <2>5. 0 \in V
    OBVIOUS
  <2>6. ASSUME NEW k \in Nat, k \in V PROVE k + 1 \in V
    <3> SUFFICES ASSUME k + 1 \in 1 .. n PROVE F[k + 1] = h[k + 1]
      OBVIOUS
    <3> HIDE DEF F
    <3>1. CASE k = 0
      <4>1. Join(<< >>, ss[1]) = ss[1]
        BY <1>5, Joins
      <4>2. F[1] = ss[1]
        BY <1>0, <2>3, <1>5
      <4>3. h[1] = Join(h[0], ss[1])
        BY <1>3, <1>5
      <4> QED BY <1>3, <3>1, <4>1, <4>2, <4>3
    <3>2. CASE k # 0
      <4>1. k \in 1 .. n /\ (k + 1) - 1 = k /\ k + 1 # 1
        BY <3>2
      <4>2. F[k + 1] = Join(F[k], ss[k + 1])
        BY <1>0, <2>3, <4>1
      <4>3. h[k + 1] = Join(h[k], ss[k + 1])
        BY <1>3, <4>1
      <4> QED BY <2>6, <4>1, <4>2, <4>3
    <3> QED BY <3>1, <3>2
  <2>7. Nat \subseteq V
    <3> HIDE DEF V
    <3> QED BY <2>5, <2>6, SetInduction
  <2>8. F[n] = h[n]
    <3> HIDE DEF F
    <3> QED BY <1>5, <2>7
  <2> HIDE DEF F
  <2> QED BY <1>3, <2>4, <2>8
<1> QED BY <1>4, <1>5


\* What Keep leaves of s: those of its elements that are in K, in their order.
LEMMA Kept ==
  ASSUME NEW T, NEW s \in Seq(T), NEW K
  PROVE  /\ Keep(s, K) \in Seq(T)
         /\ \A j \in 1 .. Len(Keep(s, K)) : \E i \in 1 .. Len(s) : Keep(s, K)[j] = s[i] /\ s[i] \in K
         /\ \A i \in 1 .. Len(s) : s[i] \in K => \E j \in 1 .. Len(Keep(s, K)) : Keep(s, K)[j] = s[i]
         /\ \A j, l \in 1 .. Len(Keep(s, K)) : j < l =>
               \E i, k \in 1 .. Len(s) : i < k /\ Keep(s, K)[j] = s[i] /\ Keep(s, K)[l] = s[k]
<1> DEFINE n == Len(s)
           ss == [i \in 1 .. n |-> IF s[i] \in K THEN <<s[i]>> ELSE << >>]
           Good(q, m) ==
             /\ \A j \in 1 .. Len(q) : \E i \in 1 .. m : q[j] = s[i] /\ s[i] \in K
             /\ \A i \in 1 .. m : s[i] \in K => \E j \in 1 .. Len(q) : q[j] = s[i]
             /\ \A j, l \in 1 .. Len(q) : j < l =>
                   \E i, k \in 1 .. m : i < k /\ q[j] = s[i] /\ q[l] = s[k]
<1>1. n \in Nat /\ \A i \in 1 .. n : s[i] \in T
  OBVIOUS
<1>2. ss \in [1 .. n -> Seq(T)]
  <2> SUFFICES ASSUME NEW i \in 1 .. n
               PROVE  (IF s[i] \in K THEN <<s[i]>> ELSE << >>) \in Seq(T)
    OBVIOUS
  <2>1. <<s[i]>> \in Seq(T) /\ << >> \in Seq(T)
    BY <1>1
  <2> QED BY <2>1
<1>3. PICK f \in [0 .. n -> Seq(T)] :
         /\ f[0] = << >> /\ \A i \in 1 .. n : f[i] = Join(f[i - 1], ss[i])
         /\ FlattenSeq(ss) = f[n]
  <2> HIDE DEF ss, n
  <2> QED BY <1>1, <1>2, Flattened
<1>4. Keep(s, K) = f[n]
  <2>1. DOMAIN s = 1 .. n
    OBVIOUS
  <2> QED BY <1>3, <2>1 DEF Keep
<1> DEFINE U == {m \in Nat : m <= n => Good(f[m], m)}
<1>5. 0 \in U
  <2>1. Len(f[0]) = 0
    BY <1>3
  <2> QED BY <2>1
<1>6. ASSUME NEW m \in Nat, m \in U PROVE m + 1 \in U
  <2> SUFFICES ASSUME m + 1 <= n PROVE Good(f[m + 1], m + 1)
    <3> HIDE DEF Good
    <3> QED OBVIOUS
  <2>1. Good(f[m], m)
    <3> HIDE DEF Good
    <3> QED BY <1>6
  <2> DEFINE q == f[m]
             p == f[m + 1]
             x == s[m + 1]
  <2>2. q \in Seq(T) /\ x \in T /\ m + 1 \in 1 .. n /\ p = Join(q, ss[m + 1])
    <3>1. m \in 0 .. n /\ m + 1 \in 1 .. n /\ (m + 1) - 1 = m
      BY <1>1
    <3> HIDE DEF ss
    <3> QED BY <1>1, <1>3, <3>1
  <2>3. CASE x \notin K
    <3>1. ss[m + 1] = << >>
      BY <2>2, <2>3
    <3>2. p = q
      <4>1. q \o << >> = q
        BY <2>2
      <4> HIDE DEF ss, q, p
      <4> QED BY <2>2, <3>1, <4>1 DEF Join
    <3> HIDE DEF ss, q, p, n
    <3>3. Good(p, m + 1)
      BY <1>1, <2>1, <2>3, <3>2 DEF q
    <3> QED BY <3>3 DEF p
  <2>4. CASE x \in K
    <3>1. ss[m + 1] = <<x>>
      BY <2>2, <2>4
    <3>2. /\ Len(p) = Len(q) + 1 /\ Len(q) \in Nat /\ p[Len(q) + 1] = x
          /\ \A j \in 1 .. Len(q) : p[j] = q[j]
      <4>1. <<x>> \in Seq(T) /\ Len(<<x>>) = 1 /\ <<x>>[1] = x /\ Len(q) \in Nat
        BY <2>2
      <4> HIDE DEF ss, q, p, x
      <4> DEFINE y == <<x>>
      <4>2. y \in Seq(T) /\ Len(y) = 1 /\ y[1] = x /\ p = Join(q, y)
        BY <2>2, <3>1, <4>1
      <4>3. 1 \in 1 .. Len(y)
        BY <4>2
      <4> HIDE DEF y
      <4>4. /\ Join(q, y) \in Seq(T) /\ Len(Join(q, y)) = Len(q) + Len(y)
            /\ \A i \in 1 .. Len(q) : Join(q, y)[i] = q[i]
            /\ \A i \in 1 .. Len(y) : Join(q, y)[Len(q) + i] = y[i]
            /\ Join(<< >>, y) = y /\ << >> \in Seq(T)
        <5>1. q \in Seq(T) /\ y \in Seq(T)
          BY <2>2, <4>2
        <5> HIDE DEF Good
        <5> QED BY ONLY <5>1, Joins
      <4> QED BY <4>1, <4>2, <4>3, <4>4
    <3> HIDE DEF ss, q, p, n
    <3>3. \A j \in 1 .. Len(q) : \E i \in 1 .. m : q[j] = s[i] /\ s[i] \in K
      BY <2>1 DEF q
    <3>4. \A i \in 1 .. m : s[i] \in K => \E j \in 1 .. Len(q) : q[j] = s[i]
      BY <2>1 DEF q
    <3>5. \A j, l \in 1 .. Len(q) : j < l => \E i, k \in 1 .. m : i < k /\ q[j] = s[i] /\ q[l] = s[k]
      BY <2>1 DEF q
    <3>6. \A j \in 1 .. Len(p) : \E i \in 1 .. m + 1 : p[j] = s[i] /\ s[i] \in K
      <4> SUFFICES ASSUME NEW j \in 1 .. Len(p) PROVE \E i \in 1 .. m + 1 : p[j] = s[i] /\ s[i] \in K
        OBVIOUS
      <4>1. CASE j = Len(q) + 1
        BY <2>4, <3>2, <4>1
      <4>2. CASE j # Len(q) + 1
        <5>1. j \in 1 .. Len(q)
          BY <3>2, <4>2
        <5> QED BY <3>2, <3>3, <5>1
      <4> QED BY <4>1, <4>2
    <3>7. \A i \in 1 .. m + 1 : s[i] \in K => \E j \in 1 .. Len(p) : p[j] = s[i]
      <4> SUFFICES ASSUME NEW i \in 1 .. m + 1, s[i] \in K PROVE \E j \in 1 .. Len(p) : p[j] = s[i]
        OBVIOUS
      <4>1. CASE i = m + 1
        <5>1. Len(q) + 1 \in 1 .. Len(p)
          BY <3>2
        <5> QED BY <3>2, <4>1, <5>1
      <4>2. CASE i # m + 1
        <5>1. PICK j \in 1 .. Len(q) : q[j] = s[i]
          BY <3>4, <4>2
        <5>2. j \in 1 .. Len(p) /\ p[j] = q[j]
          BY <3>2
        <5> QED BY <5>1, <5>2
      <4> QED BY <4>1, <4>2
    <3>8. \A j, l \in 1 .. Len(p) : j < l => \E i, k \in 1 .. m + 1 : i < k /\ p[j] = s[i] /\ p[l] = s[k]
      <4> SUFFICES ASSUME NEW j \in 1 .. Len(p), NEW l \in 1 .. Len(p), j < l
                   PROVE  \E i, k \in 1 .. m + 1 : i < k /\ p[j] = s[i] /\ p[l] = s[k]
        OBVIOUS
      <4>1. j \in 1 .. Len(q) /\ p[j] = q[j]
        BY <3>2
      <4>2. CASE l = Len(q) + 1
        <5>1. PICK i \in 1 .. m : q[j] = s[i]
          BY <3>3, <4>1
        <5>2. i \in 1 .. m + 1 /\ m + 1 \in 1 .. m + 1 /\ i < m + 1 /\ p[l] = s[m + 1]
          BY <3>2, <4>2
        <5> QED BY <4>1, <5>1, <5>2
      <4>3. CASE l # Len(q) + 1
        <5>1. l \in 1 .. Len(q) /\ p[l] = q[l]
          BY <3>2, <4>3
        <5>2. PICK i \in 1 .. m, k \in 1 .. m : i < k /\ q[j] = s[i] /\ q[l] = s[k]
          BY <3>5, <4>1, <5>1
        <5>3. i \in 1 .. m + 1 /\ k \in 1 .. m + 1
          OBVIOUS
        <5> QED BY <4>1, <5>1, <5>2, <5>3
      <4> QED BY <4>2, <4>3
    <3>9. Good(p, m + 1)
      BY <3>6, <3>7, <3>8
    <3> QED BY <3>9 DEF p
  <2> QED BY <2>3, <2>4
<1>7. Nat \subseteq U
  <2> HIDE DEF U
  <2> QED BY <1>5, <1>6, SetInduction
<1>8. Good(f[n], n)
  <2> HIDE DEF Good
  <2> QED BY <1>1, <1>7
<1>9. Keep(s, K) \in Seq(T)
  BY <1>1, <1>3, <1>4
<1> HIDE DEF ss
<1> QED BY <1>4, <1>8, <1>9

-----------------------------------------------------------------------------
(* Files and their statements.                                              *)

LEMMA One ==
  ASSUME NEW T, NEW x \in T
  PROVE  <<x>> \in Seq(T)
OBVIOUS

LEMMA SeqParts ==
  ASSUME NEW T, NEW q \in Seq(T)
  PROVE  DOMAIN q = 1 .. Len(q) /\ Len(q) \in Nat /\ \A j \in DOMAIN q : q[j] \in T
OBVIOUS

\* What SQLGenerator makes of an operation that parses.
LEMMA OperationTyped ==
  ASSUME NEW op \in Operations, Parses(op)
  PROVE  operationToSQL(op) \in Seq(Stmts)
<1>1. CASE op \in [type : {"create_table"}, table : STRING, columns : Attributes, indexes : Attributes]
  <2> DEFINE s == [do |-> "create table", table |-> op.table, items |-> ToSet(op.columns \o op.indexes),
                   empty |-> op.columns = << >>]
  <2>1. op.columns \o op.indexes \in Seq(STRING)
    BY <1>1 DEF Attributes
  <2>2. ToSet(op.columns \o op.indexes) \subseteq STRING
    <3>1. \A q \in Seq(STRING) : ToSet(q) \subseteq STRING
      BY DEF ToSet
    <3> QED BY ONLY <2>1, <3>1
  <2>3. s \in Stmts
    BY <1>1, <2>2 DEF Stmts
  <2>4. operationToSQL(op) = <<s>>
    BY <1>1 DEF operationToSQL, generateCreateTable
  <2> HIDE DEF s
  <2> QED BY <2>3, <2>4, One
<1>2. CASE op \in [type : {"alter_table"}, table : STRING, add : Attributes, drop : Attributes, modify : Attributes]
  <2> DEFINE Each(what, cols) ==
               [i \in DOMAIN cols |-> [do |-> what, table |-> op.table, item |-> cols[i]]]
  <2>1. ASSUME NEW what \in {"add", "remove", "modify"}, NEW cols \in Seq(STRING)
        PROVE  Each(what, cols) \in Seq(Stmts)
    <3>1. \A i \in DOMAIN cols : [do |-> what, table |-> op.table, item |-> cols[i]] \in Stmts
      <4>1. ASSUME NEW i \in DOMAIN cols PROVE cols[i] \in STRING /\ op.table \in STRING
        BY <1>2
      <4> QED BY <4>1 DEF Stmts
    <3>2. DOMAIN cols = 1 .. Len(cols) /\ Len(cols) \in Nat
      OBVIOUS
    <3>3. Each(what, cols) \in [1 .. Len(cols) -> Stmts]
      BY <3>1, <3>2
    <3> HIDE DEF Each
    <3> QED BY <3>2, <3>3
  <2>2. /\ Each("add", op.add) \in Seq(Stmts) /\ Each("remove", op.drop) \in Seq(Stmts)
        /\ Each("modify", op.modify) \in Seq(Stmts)
    <3>1. op.add \in Seq(STRING) /\ op.drop \in Seq(STRING) /\ op.modify \in Seq(STRING)
      BY <1>2 DEF Attributes
    <3> HIDE DEF Each
    <3> QED BY <2>1, <3>1
  <2>3. operationToSQL(op) = Each("add", op.add) \o Each("remove", op.drop) \o Each("modify", op.modify)
    BY <1>2 DEF operationToSQL, generateAlterTable
  <2> HIDE DEF Each
  <2>4. \A a, b \in Seq(Stmts) : a \o b \in Seq(Stmts)
    OBVIOUS
  <2>5. Each("add", op.add) \o Each("remove", op.drop) \in Seq(Stmts)
    BY <2>2, <2>4
  <2> QED BY <2>2, <2>3, <2>4, <2>5
<1>3. CASE op \in [type : {"create_index"}, table : STRING, index : STRING, columns : Attributes]
  <2> DEFINE s == [do |-> "add", table |-> op.table, item |-> op.index]
  <2>1. s \in Stmts
    BY <1>3 DEF Stmts
  <2>2. operationToSQL(op) = <<s>>
    BY <1>3 DEF operationToSQL, generateCreateIndex
  <2> HIDE DEF s
  <2> QED BY <2>1, <2>2, One
<1>4. CASE op \in [type : {"drop_index"}, table : STRING, index : STRING]
  <2> DEFINE s == [do |-> "remove", table |-> op.table, item |-> op.index]
  <2>1. s \in Stmts
    BY <1>4 DEF Stmts
  <2>2. operationToSQL(op) = <<s>>
    BY <1>4 DEF operationToSQL, generateDropIndex
  <2> HIDE DEF s
  <2> QED BY <2>1, <2>2, One
<1>5. CASE op \in [type : {"drop_table"}, table : STRING]
  <2> DEFINE s == [do |-> "drop table", table |-> op.table]
  <2>1. s \in Stmts
    BY <1>5 DEF Stmts
  <2>2. operationToSQL(op) = <<s>>
    BY <1>5 DEF operationToSQL, generateDropTable
  <2> HIDE DEF s
  <2> QED BY <2>1, <2>2, One
<1>6. CASE op \in [type : {"seed_data"}, table : STRING, rows : Seq([name : STRING, columns : Attributes])]
  <2>1. CASE op.rows = << >>
    <3>1. operationToSQL(op) = << >>
      BY <1>6, <2>1 DEF operationToSQL, generateSeedData
    <3> QED BY <3>1
  <2>2. CASE op.rows # << >>
    <3> DEFINE s == [do |-> "insert", table |-> op.table, columns |-> op.rows[1].columns,
                     rows |-> {op.rows[i].name : i \in DOMAIN op.rows},
                     ragged |-> \E i \in DOMAIN op.rows : Len(op.rows[i].columns) # Len(op.rows[1].columns)]
    <3>1. /\ \A i \in DOMAIN op.rows : op.rows[i].name \in STRING
          /\ op.rows[1].columns \in Attributes
      <4>1. op.rows \in Seq([name : STRING, columns : Attributes])
        BY <1>6
      <4>2. ASSUME NEW T, NEW q \in Seq(T), q # << >>
            PROVE  1 \in DOMAIN q /\ \A i \in DOMAIN q : q[i] \in T
        BY <4>2
      <4>3. /\ \A i \in DOMAIN op.rows : op.rows[i] \in [name : STRING, columns : Attributes]
            /\ op.rows[1] \in [name : STRING, columns : Attributes]
        BY <2>2, <4>1, <4>2
      <4>4. \A r \in [name : STRING, columns : Attributes] : r.name \in STRING /\ r.columns \in Attributes
        OBVIOUS
      <4> QED BY <4>3, <4>4
    <3>2. s \in Stmts
      BY <1>6, <3>1 DEF Stmts
    <3>3. operationToSQL(op) = <<s>>
      BY <1>6, <2>2 DEF operationToSQL, generateSeedData
    <3> HIDE DEF s
    <3> QED BY <3>2, <3>3, One
  <2> QED BY <2>1, <2>2
<1>7. CASE op \in [type : {"unknown"}]
  BY <1>7 DEF Parses
<1> QED BY <1>1, <1>2, <1>3, <1>4, <1>5, <1>6, <1>7 DEF Operations

\* The statements of a file that parses.
LEMMA StatementsTyped ==
  ASSUME NEW body \in Seq(Operations), parseMigrationFile(body)
  PROVE  Statements(body) \in Seq(Stmts) /\ Len(Statements(body)) \in Nat
<1> DEFINE n == Len(body)
           ss == [i \in 1 .. n |-> operationToSQL(body[i])]
<1>1. n \in Nat /\ DOMAIN body = 1 .. n
  OBVIOUS
<1>2. ss \in [1 .. n -> Seq(Stmts)]
  <2> SUFFICES ASSUME NEW i \in 1 .. n PROVE operationToSQL(body[i]) \in Seq(Stmts)
    OBVIOUS
  <2>1. body[i] \in Operations /\ Parses(body[i])
    BY <1>1 DEF parseMigrationFile
  <2> QED BY <2>1, OperationTyped
<1>3. PICK f \in [0 .. n -> Seq(Stmts)] :
         /\ f[0] = << >> /\ \A i \in 1 .. n : f[i] = Join(f[i - 1], ss[i])
         /\ FlattenSeq(ss) = f[n]
  <2> HIDE DEF ss, n
  <2> QED BY <1>1, <1>2, Flattened
<1>4. Statements(body) \in Seq(Stmts)
  <2>1. Statements(body) = FlattenSeq(ss)
    BY <1>1 DEF Statements
  <2> HIDE DEF ss
  <2> QED BY <1>1, <1>3, <2>1
<1> QED BY <1>4

-----------------------------------------------------------------------------
(* Databases, told by which tables, items and rows they have.               *)

Databases == [tables : UNION {[S -> SUBSET STRING] : S \in SUBSET STRING},
              rows : SUBSET (STRING \X STRING)]

There(d, t) == t \in DOMAIN d.tables
Has(d, t, x) == There(d, t) /\ x \in d.tables[t]
Row(d, t, r) == <<t, r>> \in d.rows

LEMMA TablesType ==
  ASSUME NEW T, NEW S \in SUBSET STRING, T \in [S -> SUBSET STRING]
  PROVE  T \in UNION {[U -> SUBSET STRING] : U \in SUBSET STRING}
OBVIOUS

LEMMA DbParts ==
  ASSUME NEW d \in Databases
  PROVE  /\ DOMAIN d.tables \in SUBSET STRING
         /\ d.tables \in [DOMAIN d.tables -> SUBSET STRING]
         /\ d.rows \subseteq STRING \X STRING
         /\ d = [tables |-> d.tables, rows |-> d.rows]
         /\ IsDb(d)
<1>1. PICK S \in SUBSET STRING : d.tables \in [S -> SUBSET STRING]
  BY DEF Databases
<1>2. /\ DOMAIN d.tables \in SUBSET STRING
      /\ d.tables \in [DOMAIN d.tables -> SUBSET STRING]
  BY <1>1
<1>3. d.rows \subseteq STRING \X STRING /\ d = [tables |-> d.tables, rows |-> d.rows]
  BY DEF Databases
<1> QED BY <1>2, <1>3 DEF IsDb

LEMMA DbOf ==
  ASSUME NEW S \in SUBSET STRING, NEW T \in [S -> SUBSET STRING], NEW R \in SUBSET (STRING \X STRING)
  PROVE  [tables |-> T, rows |-> R] \in Databases
BY TablesType DEF Databases

\* A database is what it has.
LEMMA DbEqual ==
  ASSUME NEW d \in Databases, NEW c \in Databases,
         \A t : There(d, t) <=> There(c, t), \A t, x : Has(d, t, x) <=> Has(c, t, x),
         \A t, r : Row(d, t, r) <=> Row(c, t, r)
  PROVE  d = c
<1>1. DOMAIN d.tables = DOMAIN c.tables
  BY DEF There
<1>2. \A t \in DOMAIN d.tables : d.tables[t] = c.tables[t]
  <2> SUFFICES ASSUME NEW t \in DOMAIN d.tables, NEW x PROVE x \in d.tables[t] <=> x \in c.tables[t]
    BY DbParts
  <2> QED BY <1>1 DEF Has, There
<1>3. d.tables = c.tables
  BY <1>1, <1>2, DbParts
<1>4. d.rows = c.rows
  <2>1. ASSUME NEW r PROVE r \in d.rows <=> r \in c.rows
    <3>1. r \in d.rows \cup c.rows => r = <<r[1], r[2]>>
      BY DbParts
    <3> QED BY <3>1 DEF Row
  <2> QED BY <2>1
<1> QED BY <1>3, <1>4, DbParts

LEMMA DbExcept ==
  ASSUME NEW d, d = [tables |-> d.tables, rows |-> d.rows], NEW T
  PROVE  /\ [d EXCEPT !.tables = T] = [tables |-> T, rows |-> d.rows]
         /\ [d EXCEPT !.rows = T] = [tables |-> d.tables, rows |-> T]
         /\ \A t, U : [d EXCEPT !.tables[t] = U] = [tables |-> [d.tables EXCEPT ![t] = U], rows |-> d.rows]
OBVIOUS

LEMMA CreateEffect ==
  ASSUME NEW d \in Databases, NEW s \in Stmts, s.do = "create table"
  PROVE  /\ Effect(d, s) \in Databases
         /\ \A t : There(Effect(d, s), t) <=> There(d, t) \/ t = s.table
         /\ \A t, x : Has(Effect(d, s), t, x)
                         <=> Has(d, t, x) \/ (t = s.table /\ ~There(d, t) /\ x \in s.items)
         /\ \A t, r : Row(Effect(d, s), t, r) <=> Row(d, t, r)
<1>1. s.table \in STRING /\ s.items \in SUBSET STRING
  BY DEF Stmts
<1>2. CASE s.table \in DOMAIN d.tables
  <2>1. Effect(d, s) = d
    BY <1>2 DEF Effect
  <2> QED BY <1>2, <2>1 DEF There, Has, Row
<1>3. CASE s.table \notin DOMAIN d.tables
  <2> DEFINE T == [t \in DOMAIN d.tables \cup {s.table} |-> IF t = s.table THEN s.items ELSE d.tables[t]]
             w == [tables |-> T, rows |-> d.rows]
  <2>1. Effect(d, s) = w
    <3>1. Effect(d, s) = [d EXCEPT !.tables = T]
      BY <1>3 DEF Effect
    <3> HIDE DEF T
    <3> QED BY <3>1, DbParts, DbExcept
  <2>2. DOMAIN T \in SUBSET STRING /\ T \in [DOMAIN T -> SUBSET STRING]
    BY <1>1, DbParts
  <2>3. w \in Databases
    <3> HIDE DEF T
    <3> QED BY <2>2, DbParts, DbOf
  <2>4. /\ \A t : There(w, t) <=> There(d, t) \/ t = s.table
        /\ \A t, x : Has(w, t, x) <=> Has(d, t, x) \/ (t = s.table /\ ~There(d, t) /\ x \in s.items)
        /\ \A t, r : Row(w, t, r) <=> Row(d, t, r)
    BY <1>3 DEF There, Has, Row
  <2> HIDE DEF w
  <2> QED BY <2>1, <2>3, <2>4
<1> QED BY <1>2, <1>3

LEMMA DropEffect ==
  ASSUME NEW d \in Databases, NEW s, s.do = "drop table"
  PROVE  /\ Effect(d, s) \in Databases
         /\ \A t : There(Effect(d, s), t) <=> There(d, t) /\ t # s.table
         /\ \A t, x : Has(Effect(d, s), t, x) <=> Has(d, t, x) /\ t # s.table
         /\ \A t, r : Row(Effect(d, s), t, r) <=> Row(d, t, r) /\ t # s.table
<1> DEFINE T == [t \in DOMAIN d.tables \ {s.table} |-> d.tables[t]]
           R == {r \in d.rows : r[1] # s.table}
           w == [tables |-> T, rows |-> R]
<1>1. Effect(d, s) = w
  BY DEF Effect, Restrict
<1>2. DOMAIN T \in SUBSET STRING /\ T \in [DOMAIN T -> SUBSET STRING] /\ R \in SUBSET (STRING \X STRING)
  BY DbParts
<1>3. w \in Databases
  <2> HIDE DEF T, R
  <2> QED BY <1>2, DbParts, DbOf
<1>4. /\ \A t : There(w, t) <=> There(d, t) /\ t # s.table
      /\ \A t, x : Has(w, t, x) <=> Has(d, t, x) /\ t # s.table
      /\ \A t, r : Row(w, t, r) <=> Row(d, t, r) /\ t # s.table
  BY DEF There, Has, Row
<1> HIDE DEF w
<1> QED BY <1>1, <1>3, <1>4

LEMMA AddEffect ==
  ASSUME NEW d \in Databases, NEW s \in Stmts, s.do = "add", There(d, s.table)
  PROVE  /\ Effect(d, s) \in Databases
         /\ \A t : There(Effect(d, s), t) <=> There(d, t)
         /\ \A t, x : Has(Effect(d, s), t, x) <=> Has(d, t, x) \/ (t = s.table /\ x = s.item)
         /\ \A t, r : Row(Effect(d, s), t, r) <=> Row(d, t, r)
<1> DEFINE T == [d.tables EXCEPT ![s.table] = @ \cup {s.item}]
           w == [tables |-> T, rows |-> d.rows]
<1>1. s.item \in STRING
  BY DEF Stmts
<1>2. Effect(d, s) = w
  <2>1. Effect(d, s) = [d EXCEPT !.tables[s.table] = @ \cup {s.item}]
    BY DEF Effect
  <2>2. d = [tables |-> d.tables, rows |-> d.rows]
    BY DbParts
  <2> QED BY <2>1, <2>2
<1>3. DOMAIN T = DOMAIN d.tables /\ T \in [DOMAIN T -> SUBSET STRING]
  BY <1>1, DbParts DEF There
<1>4. w \in Databases
  <2> HIDE DEF T
  <2> QED BY <1>3, DbParts, DbOf
<1>5. \A t \in DOMAIN d.tables : T[t] = IF t = s.table THEN d.tables[t] \cup {s.item} ELSE d.tables[t]
  OBVIOUS
<1>6. \A t, x : Has(w, t, x) <=> Has(d, t, x) \/ (t = s.table /\ x = s.item)
  <2> HIDE DEF T
  <2> QED BY <1>3, <1>5 DEF There, Has
<1>7. /\ \A t : There(w, t) <=> There(d, t)
      /\ \A t, r : Row(w, t, r) <=> Row(d, t, r)
  BY <1>3 DEF There, Row
<1> HIDE DEF w
<1> QED BY <1>2, <1>4, <1>6, <1>7

LEMMA RemoveEffect ==
  ASSUME NEW d \in Databases, NEW s \in Stmts, s.do = "remove", There(d, s.table)
  PROVE  /\ Effect(d, s) \in Databases
         /\ \A t : There(Effect(d, s), t) <=> There(d, t)
         /\ \A t, x : Has(Effect(d, s), t, x) <=> Has(d, t, x) /\ ~(t = s.table /\ x = s.item)
         /\ \A t, r : Row(Effect(d, s), t, r) <=> Row(d, t, r)
<1> DEFINE T == [d.tables EXCEPT ![s.table] = @ \ {s.item}]
           w == [tables |-> T, rows |-> d.rows]
<1>2. Effect(d, s) = w
  <2>1. Effect(d, s) = [d EXCEPT !.tables[s.table] = @ \ {s.item}]
    BY DEF Effect
  <2>2. d = [tables |-> d.tables, rows |-> d.rows]
    BY DbParts
  <2> QED BY <2>1, <2>2
<1>3. DOMAIN T = DOMAIN d.tables /\ T \in [DOMAIN T -> SUBSET STRING]
  BY DbParts DEF There
<1>4. w \in Databases
  <2> HIDE DEF T
  <2> QED BY <1>3, DbParts, DbOf
<1>5. \A t \in DOMAIN d.tables : T[t] = IF t = s.table THEN d.tables[t] \ {s.item} ELSE d.tables[t]
  OBVIOUS
<1>6. \A t, x : Has(w, t, x) <=> Has(d, t, x) /\ ~(t = s.table /\ x = s.item)
  <2> HIDE DEF T
  <2> QED BY <1>3, <1>5 DEF There, Has
<1>7. /\ \A t : There(w, t) <=> There(d, t)
      /\ \A t, r : Row(w, t, r) <=> Row(d, t, r)
  BY <1>3 DEF There, Row
<1> HIDE DEF w
<1> QED BY <1>2, <1>4, <1>6, <1>7

LEMMA InsertEffect ==
  ASSUME NEW d \in Databases, NEW s \in Stmts, s.do = "insert"
  PROVE  /\ Effect(d, s) \in Databases
         /\ Effect(d, s) = [tables |-> d.tables, rows |-> d.rows \cup ({s.table} \X s.rows)]
         /\ {s.table} \X s.rows \subseteq STRING \X STRING
         /\ \A t : There(Effect(d, s), t) <=> There(d, t)
         /\ \A t, x : Has(Effect(d, s), t, x) <=> Has(d, t, x)
         /\ \A t, r : Row(Effect(d, s), t, r) <=> Row(d, t, r) \/ (t = s.table /\ r \in s.rows)
<1> DEFINE R == d.rows \cup ({s.table} \X s.rows)
           w == [tables |-> d.tables, rows |-> R]
<1>1. s.table \in STRING /\ s.rows \in SUBSET STRING
  BY DEF Stmts
<1>2. Effect(d, s) = w
  <2>1. Effect(d, s) = [d EXCEPT !.rows = R]
    BY DEF Effect
  <2> HIDE DEF R
  <2> QED BY <2>1, DbParts, DbExcept
<1>3. R \in SUBSET (STRING \X STRING) /\ {s.table} \X s.rows \subseteq STRING \X STRING
  BY <1>1, DbParts
<1>4. w \in Databases
  <2> HIDE DEF R
  <2> QED BY <1>3, DbParts, DbOf
<1>5. /\ \A t : There(w, t) <=> There(d, t)
      /\ \A t, x : Has(w, t, x) <=> Has(d, t, x)
      /\ \A t, r : Row(w, t, r) <=> Row(d, t, r) \/ (t = s.table /\ r \in s.rows)
  BY DEF There, Has, Row
<1> QED BY <1>2, <1>3, <1>4, <1>5

LEMMA ModifyEffect ==
  ASSUME NEW d, NEW s, s.do = "modify"
  PROVE  Effect(d, s) = d
BY DEF Effect

\* When a statement fails.
LEMMA FailsIf ==
  ASSUME NEW d, NEW s \in Stmts
  PROVE  /\ s.do = "create table" => (Fails(d, s) <=> s.empty)
         /\ s.do = "drop table" => ~Fails(d, s)
         /\ s.do = "add" => (Fails(d, s) <=> ~There(d, s.table) \/ Has(d, s.table, s.item))
         /\ s.do \in {"remove", "modify"} =>
               (Fails(d, s) <=> ~There(d, s.table) \/ ~Has(d, s.table, s.item))
         /\ s.do = "insert" =>
               (Fails(d, s) <=> \/ ~There(d, s.table) \/ s.ragged
                                \/ \E c \in ToSet(s.columns) : ~Has(d, s.table, c))
         /\ s.do \in {"create table", "drop table", "add", "remove", "modify", "insert"}
<1>1. s.do \in {"create table", "drop table", "add", "remove", "modify", "insert"}
  BY DEF Stmts
<1>2. s.do = "create table" => (Fails(d, s) <=> s.empty)
  BY DEF Fails, Stmts
<1>3. s.do = "drop table" => ~Fails(d, s)
  BY DEF Fails
<1>4. s.do = "add" => (Fails(d, s) <=> ~There(d, s.table) \/ Has(d, s.table, s.item))
  BY DEF Fails, There, Has
<1>5. s.do \in {"remove", "modify"} =>
         (Fails(d, s) <=> ~There(d, s.table) \/ ~Has(d, s.table, s.item))
  BY DEF Fails, There, Has
<1>6. s.do = "insert" =>
         (Fails(d, s) <=> \/ ~There(d, s.table) \/ s.ragged
                          \/ \E c \in ToSet(s.columns) : ~Has(d, s.table, c))
  BY DEF Fails, There, Has, Stmts
<1> QED BY <1>1, <1>2, <1>3, <1>4, <1>5, <1>6

LEMMA EffectTyped ==
  ASSUME NEW d \in Databases, NEW s \in Stmts, ~Fails(d, s)
  PROVE  Effect(d, s) \in Databases
<1>1. CASE s.do = "create table"
  BY <1>1, CreateEffect
<1>2. CASE s.do = "drop table"
  BY <1>2, DropEffect
<1>3. CASE s.do = "add"
  BY <1>3, FailsIf, AddEffect
<1>4. CASE s.do = "remove"
  BY <1>4, FailsIf, RemoveEffect
<1>5. CASE s.do = "modify"
  BY <1>5, ModifyEffect
<1>6. CASE s.do = "insert"
  BY <1>6, InsertEffect
<1> QED BY <1>1, <1>2, <1>3, <1>4, <1>5, <1>6, FailsIf

LEMMA StepTyped ==
  ASSUME NEW d \in Databases, NEW s \in Stmts
  PROVE  Step(d, s) \in Databases
BY EffectTyped DEF Step

\* The table t is the same in d and c.
Same(d, c, t) == /\ There(d, t) <=> There(c, t)
                 /\ \A x : Has(d, t, x) <=> Has(c, t, x)
                 /\ \A r : Row(d, t, r) <=> Row(c, t, r)

\* A statement changes its own table only.
LEMMA Elsewhere ==
  ASSUME NEW d \in Databases, NEW s \in Stmts, ~Fails(d, s), NEW t, t # s.table
  PROVE  Same(Effect(d, s), d, t)
<1>1. CASE s.do = "create table"
  BY <1>1, CreateEffect DEF Same
<1>2. CASE s.do = "drop table"
  BY <1>2, DropEffect DEF Same
<1>3. CASE s.do = "add"
  BY <1>3, FailsIf, AddEffect DEF Same
<1>4. CASE s.do = "remove"
  BY <1>4, FailsIf, RemoveEffect DEF Same
<1>5. CASE s.do = "modify"
  BY <1>5, ModifyEffect DEF Same
<1>6. CASE s.do = "insert"
  BY <1>6, InsertEffect DEF Same
<1> QED BY <1>1, <1>2, <1>3, <1>4, <1>5, <1>6, FailsIf

-----------------------------------------------------------------------------
(* A file that is executed again.                                           *)

\* Some of the first m statements of S drops table t; adds or removes its item x.
Dropped(S, m, t) == \E n \in 1 .. m : S[n].do = "drop table" /\ S[n].table = t
Touched(S, m, t, x) ==
  \E n \in 1 .. m : S[n].do \in {"add", "remove"} /\ S[n].table = t /\ S[n].item = x

\* E[n] is what the first n statements of S leave; none of the first m fails.
Path(E, S, m) ==
  /\ S \in Seq(Stmts) /\ m \in 0 .. Len(S)
  /\ \A n \in 0 .. Len(S) : E[n] \in Databases
  /\ \A n \in 1 .. Len(S) : E[n] = Step(E[n - 1], S[n])
  /\ \A n \in 1 .. m : ~Fails(E[n - 1], S[n])

\* Database d after the first k statements of S, of which the first m have been executed
\* before, once or several times and with the rows of a run lost: a table that was dropped on
\* the way is as it should be; one that is never dropped is as it was left before, but
\* for the items and rows that were put in anew.
AgreeOn(E, S, k, m, d, t) ==
  /\ Dropped(S, k, t) => Same(d, E[k], t)
  /\ ~Dropped(S, m, t) =>
       /\ There(d, t) <=> There(E[m], t)
       /\ \A x : Touched(S, k, t, x) => There(E[k], t) /\ (Has(d, t, x) <=> Has(E[k], t, x))
       /\ \A x : ~Touched(S, m, t, x) => (Has(d, t, x) <=> Has(E[m], t, x))
       /\ \A r : (Row(E[k], t, r) => Row(d, t, r)) /\ (Row(d, t, r) => Row(E[m], t, r))

Agree(E, S, k, m, d) == \A t : AgreeOn(E, S, k, m, d, t)

LEMMA PathStep ==
  ASSUME NEW E, NEW S, NEW m, Path(E, S, m), NEW n \in 1 .. m
  PROVE  /\ n - 1 \in 0 .. Len(S) /\ n \in 0 .. Len(S) /\ Len(S) \in Nat
         /\ E[n - 1] \in Databases /\ E[n] \in Databases /\ S[n] \in Stmts
         /\ ~Fails(E[n - 1], S[n]) /\ E[n] = Effect(E[n - 1], S[n])
<1>1. S \in Seq(Stmts) /\ m \in 0 .. Len(S) /\ Len(S) \in Nat
  BY DEF Path
<1>2. n - 1 \in 0 .. Len(S) /\ n \in 0 .. Len(S) /\ n \in 1 .. Len(S)
  BY <1>1
<1>3. S[n] \in Stmts
  BY <1>1, <1>2
<1>4. E[n - 1] \in Databases /\ E[n] \in Databases /\ E[n] = Step(E[n - 1], S[n])
  BY <1>2 DEF Path
<1>5. ~Fails(E[n - 1], S[n])
  BY DEF Path
<1> QED BY <1>1, <1>2, <1>3, <1>4, <1>5 DEF Step

\* A table that is not dropped stays, with its rows.
LEMMA OneGrows ==
  ASSUME NEW d \in Databases, NEW s \in Stmts, ~Fails(d, s), NEW t,
         ~(s.do = "drop table" /\ s.table = t)
  PROVE  /\ There(d, t) => There(Effect(d, s), t)
         /\ \A r : Row(d, t, r) => Row(Effect(d, s), t, r)
<1>1. CASE t # s.table
  BY <1>1, Elsewhere DEF Same
<1>2. CASE t = s.table
  <2>1. CASE s.do = "create table"
    BY <2>1, CreateEffect
  <2>3. CASE s.do = "add"
    BY <2>3, FailsIf, AddEffect
  <2>4. CASE s.do = "remove"
    BY <2>4, FailsIf, RemoveEffect
  <2>5. CASE s.do = "modify"
    BY <2>5, ModifyEffect
  <2>6. CASE s.do = "insert"
    BY <2>6, InsertEffect
  <2> QED BY <1>2, <2>1, <2>3, <2>4, <2>5, <2>6, FailsIf
<1> QED BY <1>1, <1>2

LEMMA Grows ==
  ASSUME NEW E, NEW S, NEW m, Path(E, S, m), NEW j \in 0 .. m, NEW t, ~Dropped(S, m, t)
  PROVE  /\ There(E[j], t) => There(E[m], t)
         /\ \A r : Row(E[j], t, r) => Row(E[m], t, r)
<1> DEFINE Grown(n) == /\ There(E[j], t) => There(E[n], t)
                      /\ \A r : Row(E[j], t, r) => Row(E[n], t, r)
           U == {n \in Nat : n \in j .. m => Grown(n)}
<1>1. m \in Nat
  BY DEF Path
<1>2. 0 \in U
  BY <1>1
<1>3. ASSUME NEW n \in Nat, n \in U PROVE n + 1 \in U
  <2> SUFFICES ASSUME n + 1 \in j .. m PROVE Grown(n + 1)
    <3> HIDE DEF Grown
    <3> QED OBVIOUS
  <2>1. CASE n + 1 = j
    BY <2>1
  <2>2. CASE n + 1 # j
    <3>1. Grown(n)
      <4> HIDE DEF Grown
      <4> QED BY <1>1, <1>3, <2>2
    <3>2. n + 1 \in 1 .. m /\ (n + 1) - 1 = n
      BY <1>1
    <3>3. ~(S[n + 1].do = "drop table" /\ S[n + 1].table = t)
      BY <3>2 DEF Dropped
    <3>4. /\ E[n] \in Databases /\ S[n + 1] \in Stmts /\ ~Fails(E[n], S[n + 1])
          /\ E[n + 1] = Effect(E[n], S[n + 1])
      BY <3>2, PathStep
    <3>5. /\ There(E[n], t) => There(E[n + 1], t)
          /\ \A r : Row(E[n], t, r) => Row(E[n + 1], t, r)
      BY <3>3, <3>4, OneGrows
    <3> QED BY <3>1, <3>5
  <2> QED BY <2>1, <2>2
<1>4. Nat \subseteq U
  <2> HIDE DEF U
  <2> QED BY <1>2, <1>3, SetInduction
<1>5. m \in j .. m
  BY <1>1
<1> QED BY <1>1, <1>4, <1>5

\* A run that has got as far as any before is where the replay is.
LEMMA AgreeFull ==
  ASSUME NEW E, NEW S, NEW m, Path(E, S, m), NEW d \in Databases, Agree(E, S, m, m, d)
  PROVE  d = E[m]
<1>1. E[m] \in Databases
  BY DEF Path
<1>2. ASSUME NEW t PROVE Same(d, E[m], t)
  <2>1. AgreeOn(E, S, m, m, d, t)
    BY DEF Agree
  <2> QED BY <2>1 DEF AgreeOn, Same
<1> QED BY <1>1, <1>2, DbEqual DEF Same

LEMMA DroppedNext ==
  ASSUME NEW S, NEW k \in Nat, NEW t
  PROVE  /\ Dropped(S, k + 1, t) <=> Dropped(S, k, t) \/ (S[k + 1].do = "drop table" /\ S[k + 1].table = t)
         /\ ~Dropped(S, 0, t)
<1>1. 1 .. k + 1 = (1 .. k) \cup {k + 1} /\ 1 .. 0 = {}
  OBVIOUS
<1> QED BY <1>1 DEF Dropped

LEMMA TouchedNext ==
  ASSUME NEW S, NEW k \in Nat, NEW t, NEW x
  PROVE  /\ Touched(S, k + 1, t, x)
              <=> \/ Touched(S, k, t, x)
                  \/ S[k + 1].do \in {"add", "remove"} /\ S[k + 1].table = t /\ S[k + 1].item = x
         /\ ~Touched(S, 0, t, x)
<1>1. 1 .. k + 1 = (1 .. k) \cup {k + 1} /\ 1 .. 0 = {}
  OBVIOUS
<1> QED BY <1>1 DEF Touched

LEMMA Wider ==
  ASSUME NEW S, NEW k \in Nat, NEW m \in Nat, k <= m, NEW t
  PROVE  /\ Dropped(S, k, t) => Dropped(S, m, t)
         /\ \A x : Touched(S, k, t, x) => Touched(S, m, t, x)
<1>1. 1 .. k \subseteq 1 .. m
  OBVIOUS
<1> QED BY <1>1 DEF Dropped, Touched

\* The next statement, which has been executed before.
LEMMA AgreeNext ==
  ASSUME NEW E, NEW S, NEW m, Path(E, S, m), NEW k \in Nat, k < m,
         NEW d \in Databases, Agree(E, S, k, m, d), ~Fails(d, S[k + 1])
  PROVE  Agree(E, S, k + 1, m, Effect(d, S[k + 1]))
<1> DEFINE s == S[k + 1]
           e == E[k]
           f == E[k + 1]
           w == Effect(d, s)
<1>1. m \in Nat /\ k + 1 \in 1 .. m /\ k + 1 \in 0 .. m /\ (k + 1) - 1 = k
  BY DEF Path
<1>2. /\ e \in Databases /\ f \in Databases /\ s \in Stmts
      /\ ~Fails(e, s) /\ f = Effect(e, s)
  BY <1>1, PathStep
<1> HIDE DEF s, e, f, w
<1> SUFFICES ASSUME NEW t PROVE AgreeOn(E, S, k + 1, m, w, t)
  BY DEF Agree, w, s
<1>3. AgreeOn(E, S, k, m, d, t)
  BY DEF Agree
<1>4. /\ Dropped(S, k, t) => Same(d, e, t)
      /\ ~Dropped(S, m, t) =>
           /\ There(d, t) <=> There(E[m], t)
           /\ \A x : Touched(S, k, t, x) => There(e, t) /\ (Has(d, t, x) <=> Has(e, t, x))
           /\ \A x : ~Touched(S, m, t, x) => (Has(d, t, x) <=> Has(E[m], t, x))
           /\ \A r : (Row(e, t, r) => Row(d, t, r)) /\ (Row(d, t, r) => Row(E[m], t, r))
  BY <1>3 DEF AgreeOn, e
<1>5. /\ Dropped(S, k + 1, t) <=> Dropped(S, k, t) \/ (s.do = "drop table" /\ s.table = t)
      /\ \A x : Touched(S, k + 1, t, x)
                  <=> Touched(S, k, t, x) \/ (s.do \in {"add", "remove"} /\ s.table = t /\ s.item = x)
  BY DroppedNext, TouchedNext DEF s
<1>6. /\ Dropped(S, k + 1, t) => Dropped(S, m, t)
      /\ \A x : Touched(S, k + 1, t, x) => Touched(S, m, t, x)
  BY <1>1, Wider
<1>7. ~Dropped(S, m, t) => /\ There(f, t) => There(E[m], t)
                           /\ \A r : Row(f, t, r) => Row(E[m], t, r)
  BY <1>1, Grows DEF f
<1>8. ~Fails(d, s)
  BY DEF s
<1> SUFFICES /\ Dropped(S, k + 1, t) => Same(w, f, t)
             /\ ~Dropped(S, m, t) =>
                  /\ There(w, t) <=> There(E[m], t)
                  /\ \A x : Touched(S, k + 1, t, x) => There(f, t) /\ (Has(w, t, x) <=> Has(f, t, x))
                  /\ \A x : ~Touched(S, m, t, x) => (Has(w, t, x) <=> Has(E[m], t, x))
                  /\ \A r : (Row(f, t, r) => Row(w, t, r)) /\ (Row(w, t, r) => Row(E[m], t, r))
  BY DEF AgreeOn, f
<1>9. CASE t # s.table
  <2>1. Same(w, d, t) /\ Same(f, e, t)
    BY <1>2, <1>8, <1>9, Elsewhere DEF w
  <2> QED BY <1>4, <1>5, <1>9, <2>1 DEF Same
<1>10. CASE t = s.table
  <2>1. CASE s.do = "create table"
    <3>1. /\ \A y : There(w, y) <=> There(d, y) \/ y = s.table
          /\ \A y, x : Has(w, y, x) <=> Has(d, y, x) \/ (y = s.table /\ ~There(d, y) /\ x \in s.items)
          /\ \A y, r : Row(w, y, r) <=> Row(d, y, r)
      BY <1>2, <2>1, CreateEffect DEF w
    <3>2. /\ \A y : There(f, y) <=> There(e, y) \/ y = s.table
          /\ \A y, x : Has(f, y, x) <=> Has(e, y, x) \/ (y = s.table /\ ~There(e, y) /\ x \in s.items)
          /\ \A y, r : Row(f, y, r) <=> Row(e, y, r)
      BY <1>2, <2>1, CreateEffect
    <3>3. Dropped(S, k + 1, t) => Same(w, f, t)
      BY <1>4, <1>5, <2>1, <3>1, <3>2 DEF Same
    <3>4. ASSUME ~Dropped(S, m, t)
          PROVE  /\ There(w, t) <=> There(E[m], t)
                 /\ \A x : Touched(S, k + 1, t, x) => There(f, t) /\ (Has(w, t, x) <=> Has(f, t, x))
                 /\ \A x : ~Touched(S, m, t, x) => (Has(w, t, x) <=> Has(E[m], t, x))
                 /\ \A r : (Row(f, t, r) => Row(w, t, r)) /\ (Row(w, t, r) => Row(E[m], t, r))
      <4>1. There(E[m], t) /\ There(d, t)
        BY <1>4, <1>7, <1>10, <3>2, <3>4
      <4> QED BY <1>4, <1>5, <2>1, <3>1, <3>2, <3>4, <4>1
    <3> QED BY <3>3, <3>4
  <2>2. CASE s.do = "drop table"
    <3>1. /\ ~There(w, t) /\ \A x : ~Has(w, t, x)
          /\ \A r : ~Row(w, t, r)
      BY <1>10, <2>2, DropEffect DEF w
    <3>2. /\ ~There(f, t) /\ \A x : ~Has(f, t, x)
          /\ \A r : ~Row(f, t, r)
      BY <1>2, <1>10, <2>2, DropEffect
    <3> QED BY <1>5, <1>6, <1>10, <2>2, <3>1, <3>2 DEF Same
  <2>3. CASE s.do = "add"
    <3>0. There(d, t) /\ There(e, t)
      BY <1>2, <1>8, <1>10, <2>3, FailsIf
    <3>1. /\ \A y : There(w, y) <=> There(d, y)
          /\ \A y, x : Has(w, y, x) <=> Has(d, y, x) \/ (y = s.table /\ x = s.item)
          /\ \A y, r : Row(w, y, r) <=> Row(d, y, r)
      BY <1>2, <1>10, <2>3, <3>0, AddEffect DEF w
    <3>2. /\ \A y : There(f, y) <=> There(e, y)
          /\ \A y, x : Has(f, y, x) <=> Has(e, y, x) \/ (y = s.table /\ x = s.item)
          /\ \A y, r : Row(f, y, r) <=> Row(e, y, r)
      BY <1>2, <1>10, <2>3, <3>0, AddEffect
    <3>3. Dropped(S, k + 1, t) => Same(w, f, t)
      BY <1>4, <1>5, <2>3, <3>1, <3>2 DEF Same
    <3> QED BY <1>4, <1>5, <1>6, <1>10, <2>3, <3>0, <3>1, <3>2, <3>3
  <2>4. CASE s.do = "remove"
    <3>0. There(d, t) /\ There(e, t)
      BY <1>2, <1>8, <1>10, <2>4, FailsIf
    <3>1. /\ \A y : There(w, y) <=> There(d, y)
          /\ \A y, x : Has(w, y, x) <=> Has(d, y, x) /\ ~(y = s.table /\ x = s.item)
          /\ \A y, r : Row(w, y, r) <=> Row(d, y, r)
      BY <1>2, <1>10, <2>4, <3>0, RemoveEffect DEF w
    <3>2. /\ \A y : There(f, y) <=> There(e, y)
          /\ \A y, x : Has(f, y, x) <=> Has(e, y, x) /\ ~(y = s.table /\ x = s.item)
          /\ \A y, r : Row(f, y, r) <=> Row(e, y, r)
      BY <1>2, <1>10, <2>4, <3>0, RemoveEffect
    <3>3. Dropped(S, k + 1, t) => Same(w, f, t)
      BY <1>4, <1>5, <2>4, <3>1, <3>2 DEF Same
    <3> QED BY <1>4, <1>5, <1>6, <1>10, <2>4, <3>0, <3>1, <3>2, <3>3
  <2>5. CASE s.do = "modify"
    <3>1. w = d /\ f = e
      BY <1>2, <2>5, ModifyEffect DEF w
    <3> QED BY <1>4, <1>5, <2>5, <3>1
  <2>6. CASE s.do = "insert"
    <3>1. /\ \A y : There(w, y) <=> There(d, y)
          /\ \A y, x : Has(w, y, x) <=> Has(d, y, x)
          /\ \A y, r : Row(w, y, r) <=> Row(d, y, r) \/ (y = s.table /\ r \in s.rows)
      BY <1>2, <2>6, InsertEffect DEF w
    <3>2. /\ \A y : There(f, y) <=> There(e, y)
          /\ \A y, x : Has(f, y, x) <=> Has(e, y, x)
          /\ \A y, r : Row(f, y, r) <=> Row(e, y, r) \/ (y = s.table /\ r \in s.rows)
      BY <1>2, <2>6, InsertEffect
    <3>3. Dropped(S, k + 1, t) => Same(w, f, t)
      BY <1>4, <1>5, <2>6, <3>1, <3>2 DEF Same
    <3> QED BY <1>4, <1>5, <1>7, <2>6, <3>1, <3>2, <3>3
  <2> QED BY <1>2, <2>1, <2>2, <2>3, <2>4, <2>5, <2>6, FailsIf
<1> QED BY <1>9, <1>10

\* The next statement, for the first time.
LEMMA AgreeMore ==
  ASSUME NEW E, NEW S, NEW m, Path(E, S, m), m < Len(S), NEW d \in Databases,
         Agree(E, S, m, m, d), ~Fails(d, S[m + 1])
  PROVE  Path(E, S, m + 1) /\ Agree(E, S, m + 1, m + 1, Effect(d, S[m + 1]))
<1>1. d = E[m]
  BY AgreeFull
<1>2. Path(E, S, m + 1)
  <2>1. Len(S) \in Nat /\ m \in 0 .. Len(S) /\ m + 1 \in 0 .. Len(S)
    BY DEF Path
  <2>2. ASSUME NEW n \in 1 .. m + 1 PROVE ~Fails(E[n - 1], S[n])
    <3>1. CASE n = m + 1
      <4>1. n - 1 = m
        BY <2>1, <3>1
      <4> QED BY <1>1, <3>1, <4>1
    <3>2. CASE n # m + 1
      <4>1. n \in 1 .. m
        BY <2>1, <3>2
      <4> QED BY <4>1 DEF Path
    <3> QED BY <3>1, <3>2
  <2> QED BY <2>1, <2>2 DEF Path
<1> DEFINE s == S[m + 1]
           f == E[m + 1]
<1>3. /\ m \in Nat /\ m + 1 \in 1 .. m + 1 /\ (m + 1) - 1 = m /\ f = Effect(d, s) /\ s \in Stmts
      /\ f \in Databases /\ ~Fails(d, s)
  <2>1. m \in Nat /\ m + 1 \in 1 .. m + 1 /\ (m + 1) - 1 = m
    BY DEF Path
  <2> QED BY <1>1, <1>2, <2>1, PathStep
<1> HIDE DEF s, f
<1> SUFFICES ASSUME NEW t PROVE AgreeOn(E, S, m + 1, m + 1, f, t)
  BY <1>2, <1>3 DEF Agree, s
<1> SUFFICES ASSUME NEW x, ~Dropped(S, m + 1, t), Touched(S, m + 1, t, x) PROVE There(f, t)
  BY DEF AgreeOn, Same, f
<1>4. AgreeOn(E, S, m, m, d, t)
  BY DEF Agree
<1>5. ~Dropped(S, m, t) /\ ~(s.do = "drop table" /\ s.table = t)
  BY <1>3, DroppedNext DEF s
<1>6. There(d, t)
  <2>1. CASE Touched(S, m, t, x)
    BY <1>1, <1>4, <1>5, <2>1 DEF AgreeOn
  <2>2. CASE ~Touched(S, m, t, x)
    <3>1. s.do \in {"add", "remove"} /\ s.table = t
      BY <1>3, <2>2, TouchedNext DEF s
    <3> QED BY <1>3, <3>1, FailsIf
  <2> QED BY <2>1, <2>2
<1> QED BY <1>3, <1>5, <1>6, OneGrows

\* The run is over: some of its rows may be lost, but none that was there before.
LEMMA AgreeBack ==
  ASSUME NEW E, NEW S, NEW m, Path(E, S, m), NEW k \in Nat, k <= m,
         NEW d, Agree(E, S, k, m, d),
         NEW c, \A t : There(c, t) <=> There(d, t), \A t, x : Has(c, t, x) <=> Has(d, t, x),
         \A t, r : Row(c, t, r) => Row(d, t, r),
         \A t, r : ~Dropped(S, m, t) /\ Row(E[0], t, r) => Row(c, t, r)
  PROVE  Agree(E, S, 0, m, c)
<1> SUFFICES ASSUME NEW t PROVE AgreeOn(E, S, 0, m, c, t)
  BY DEF Agree
<1>1. AgreeOn(E, S, k, m, d, t)
  BY DEF Agree
<1>2. ~Dropped(S, 0, t) /\ \A x : ~Touched(S, 0, t, x)
  BY DroppedNext, TouchedNext
<1> QED BY <1>1, <1>2 DEF AgreeOn

\* Before anything of a file has been executed.
LEMMA AgreeFirst ==
  ASSUME NEW E, NEW S
  PROVE  Agree(E, S, 0, 0, E[0])
<1>1. \A t : ~Dropped(S, 0, t) /\ \A x : ~Touched(S, 0, t, x)
  BY DroppedNext, TouchedNext
<1> QED BY <1>1 DEF Agree, AgreeOn

LEMMA StagesPath ==
  ASSUME NEW d \in Databases, NEW S \in Seq(Stmts)
  PROVE  Path(Stages(d, S), S, 0) /\ Stages(d, S)[0] = d
<1> DEFINE E == Stages(d, S)
           U == {n \in Nat : n \in 0 .. Len(S) => E[n] \in Databases}
<1>1. Len(S) \in Nat
  OBVIOUS
<1>2. E = [n \in 0 .. Len(S) |-> IF n = 0 THEN d ELSE Step(E[n - 1], S[n])]
  BY <1>1, StagesIs
<1> HIDE DEF E
<1>3. E[0] = d /\ \A n \in 1 .. Len(S) : E[n] = Step(E[n - 1], S[n])
  <2>1. 0 \in 0 .. Len(S)
    BY <1>1
  <2>2. ASSUME NEW n \in 1 .. Len(S) PROVE E[n] = Step(E[n - 1], S[n])
    <3>1. n \in 0 .. Len(S) /\ n # 0
      OBVIOUS
    <3> QED BY <1>2, <3>1
  <2> QED BY <1>2, <2>1, <2>2
<1>4. 0 \in U
  BY <1>3
<1>5. ASSUME NEW n \in Nat, n \in U PROVE n + 1 \in U
  <2> SUFFICES ASSUME n + 1 \in 0 .. Len(S) PROVE E[n + 1] \in Databases
    OBVIOUS
  <2>1. n \in 0 .. Len(S) /\ n + 1 \in 1 .. Len(S) /\ (n + 1) - 1 = n
    BY <1>1
  <2>2. S[n + 1] \in Stmts
    BY <2>1
  <2> QED BY <1>3, <1>5, <2>1, <2>2, StepTyped
<1>6. Nat \subseteq U
  <2> HIDE DEF U
  <2> QED BY <1>4, <1>5, SetInduction
<1>7. \A n \in 0 .. Len(S) : E[n] \in Databases
  BY <1>1, <1>6
<1> QED BY <1>1, <1>3, <1>7 DEF Path, E

\* d and c differ in the rows of table t only.
Like(d, c, t) == /\ \A u : There(d, u) <=> There(c, u)
                 /\ \A u, x : Has(d, u, x) <=> Has(c, u, x)
                 /\ \A u, r : u # t => (Row(d, u, r) <=> Row(c, u, r))

LEMMA StepLike ==
  ASSUME NEW d \in Databases, NEW c \in Databases, NEW t, Like(d, c, t), NEW s \in Stmts
  PROVE  (Fails(d, s) <=> Fails(c, s)) /\ Like(Step(d, s), Step(c, s), t)
<1>1. Fails(d, s) <=> Fails(c, s)
  BY FailsIf DEF Like
<1>2. CASE Fails(d, s)
  BY <1>1, <1>2 DEF Step
<1>3. CASE ~Fails(d, s)
  <2>1. Like(Effect(d, s), Effect(c, s), t)
    <3>1. CASE s.do = "create table"
      BY <3>1, CreateEffect DEF Like
    <3>2. CASE s.do = "drop table"
      BY <3>2, DropEffect DEF Like
    <3>3. CASE s.do = "add"
      <4>1. There(d, s.table) /\ There(c, s.table)
        BY <1>3, <3>3, FailsIf DEF Like
      <4> QED BY <3>3, <4>1, AddEffect DEF Like
    <3>4. CASE s.do = "remove"
      <4>1. There(d, s.table) /\ There(c, s.table)
        BY <1>3, <3>4, FailsIf DEF Like
      <4> QED BY <3>4, <4>1, RemoveEffect DEF Like
    <3>5. CASE s.do = "modify"
      BY <3>5, ModifyEffect
    <3>6. CASE s.do = "insert"
      BY <3>6, InsertEffect DEF Like
    <3> QED BY <3>1, <3>2, <3>3, <3>4, <3>5, <3>6, FailsIf
  <2> QED BY <1>1, <1>3, <2>1 DEF Step
<1> QED BY <1>1, <1>2, <1>3

LEMMA StagesLike ==
  ASSUME NEW d \in Databases, NEW c \in Databases, NEW t, Like(d, c, t), NEW S \in Seq(Stmts),
         NEW m, Path(Stages(d, S), S, m)
  PROVE  /\ Path(Stages(c, S), S, m)
         /\ \A n \in 0 .. Len(S) : Like(Stages(d, S)[n], Stages(c, S)[n], t)
<1> DEFINE D == Stages(d, S)
           C == Stages(c, S)
           U == {n \in Nat : n \in 0 .. Len(S) => Like(D[n], C[n], t)}
<1>1. Len(S) \in Nat /\ Path(C, S, 0) /\ C[0] = c /\ D[0] = d /\ Path(D, S, m)
  BY StagesPath
<1> HIDE DEF D, C
<1>2. 0 \in U
  BY <1>1
<1>3. ASSUME NEW n \in Nat, n \in U PROVE n + 1 \in U
  <2> SUFFICES ASSUME n + 1 \in 0 .. Len(S) PROVE Like(D[n + 1], C[n + 1], t)
    OBVIOUS
  <2>1. n \in 0 .. Len(S) /\ n + 1 \in 1 .. Len(S) /\ (n + 1) - 1 = n
    BY <1>1
  <2>2. S[n + 1] \in Stmts
    BY <2>1
  <2>3. /\ D[n] \in Databases /\ C[n] \in Databases
        /\ D[n + 1] = Step(D[n], S[n + 1]) /\ C[n + 1] = Step(C[n], S[n + 1])
    BY <1>1, <2>1 DEF Path
  <2> QED BY <1>3, <2>1, <2>2, <2>3, StepLike
<1>4. Nat \subseteq U
  <2> HIDE DEF U
  <2> QED BY <1>2, <1>3, SetInduction
<1>5. \A n \in 0 .. Len(S) : Like(D[n], C[n], t)
  BY <1>1, <1>4
<1>6. ASSUME NEW n \in 1 .. m PROVE ~Fails(C[n - 1], S[n])
  <2>1. /\ n - 1 \in 0 .. Len(S) /\ S[n] \in Stmts /\ D[n - 1] \in Databases
        /\ ~Fails(D[n - 1], S[n])
    BY <1>1, PathStep
  <2>2. C[n - 1] \in Databases
    BY <1>1, <2>1 DEF Path
  <2> QED BY <1>5, <2>1, <2>2, StepLike
<1>7. Path(C, S, m)
  BY <1>1, <1>6 DEF Path
<1> QED BY <1>5, <1>7 DEF C, D

\* A table is emptied between two runs.
LEMMA AgreeEmptied ==
  ASSUME NEW E, NEW F, NEW S, NEW m, Path(E, S, m), NEW t,
         \A n \in 0 .. Len(S) : Like(E[n], F[n], t),
         NEW d, Agree(E, S, 0, m, d),
         NEW c, Like(d, c, t), \A r : ~Row(c, t, r), \A r : ~Row(F[0], t, r)
  PROVE  Agree(F, S, 0, m, c)
<1> SUFFICES ASSUME NEW u PROVE AgreeOn(F, S, 0, m, c, u)
  BY DEF Agree
<1>1. AgreeOn(E, S, 0, m, d, u)
  BY DEF Agree
<1>2. ~Dropped(S, 0, u) /\ \A x : ~Touched(S, 0, u, x)
  BY DroppedNext, TouchedNext
<1>3. Like(E[0], F[0], t) /\ Like(E[m], F[m], t)
  BY DEF Path
<1> QED BY <1>1, <1>2, <1>3 DEF AgreeOn, Like

-----------------------------------------------------------------------------
(* The inductive invariant.                                                 *)

\* A file that migrate has found, and its statements.
Files == {f \in [name : Names, body : AllBodies] : parseMigrationFile(f.body)}
Of(f) == Statements(f.body)

Phases == Ended \cup Migrating \cup {"drop", "rebuild", "truncate"}

\* The directory and the database.
DataTyped ==
  /\ dir \in [Names -> AllBodies \cup {None}]
  /\ db \in Databases /\ expected \in Databases
  /\ versionTable \in BOOLEAN /\ disturbed \in BOOLEAN
  /\ recorded \in [Versions -> AllBodies \cup {None}]
  /\ half \subseteq Files

\* The engines.
EnginesTyped ==
  /\ pc \in [Engines -> Phases]
  /\ seen \in [Engines -> [Versions -> AllBodies \cup {None}]]
  /\ files \in [Engines -> Seq(Files)] /\ todo \in [Engines -> Seq(Files)]
  /\ stmts \in [Engines -> Seq(Stmts)]
  /\ sum \in [Engines -> AllBodies \cup {None}]
  /\ dirty \in [Engines -> SUBSET (STRING \X STRING)]
  /\ drops \in [Engines -> SUBSET STRING] /\ failed \in [Engines -> BOOLEAN]

\* What is set at which step of an engine.
StepOK(e) ==
  /\ pc[e] \in {"run", "commit"} => todo[e] # << >>
  /\ pc[e] \notin {"run", "commit"} => dirty[e] = {}
  /\ pc[e] \notin {"drop", "truncate"} => drops[e] = {}
  /\ pc[e] \notin {"run", "rebuild"} => stmts[e] = << >>
  /\ pc[e] = "commit" => sum[e] # None

\* Without its table nothing is recorded, and no engine is about to.
TableInv ==
  ~versionTable => /\ \A v \in Versions : recorded[v] = None
                   /\ \A e \in Engines : pc[e] # "commit"

\* An engine that does not migrate is alone.
AloneInv ==
  \A e, o \in Engines : e # o /\ pc[e] \notin Ended /\ pc[o] \notin Ended
                            => pc[e] \in Migrating /\ pc[o] \in Migrating

\* The statements of the file an engine is at that it has executed in this run.
Executed(e) == Len(Of(Now(e))) - Len(stmts[e])

\* What an engine has still to execute is the rest of its file.
RestOK(e) ==
  pc[e] \in {"run", "commit"} =>
     /\ Executed(e) \in 0 .. Len(Of(Now(e)))
     /\ \A i \in 1 .. Len(stmts[e]) : stmts[e][i] = Of(Now(e))[i + Executed(e)]

\* The files that an engine has found are recorded or still to do, and it does them in order.
FilesOK(e) ==
  /\ \A i \in 1 .. Len(files[e]) :
        \/ recorded[Version[files[e][i].name]] # None
        \/ \E j \in 1 .. Len(todo[e]) : todo[e][j] = files[e][i]
  /\ \A i, j \in 1 .. Len(todo[e]) :
        i < j => Version[todo[e][i].name] <= Version[todo[e][j].name]

GapOK(e) ==
  /\ pc[e] = "check" => \A v \in Versions : seen[e][v] # None => recorded[v] # None
  /\ pc[e] \in {"apply", "run", "commit"} => FilesOK(e)

EngineInv == \A e \in Engines : StepOK(e) /\ RestOK(e) /\ GapOK(e)

\* What the half-done file f has left of the database.
HalfDone(f) ==
  \E m \in 0 .. Len(Of(f)) :
     /\ Path(Stages(expected, Of(f)), Of(f), m)
     /\ Agree(Stages(expected, Of(f)), Of(f), 0, m, db)
     /\ \A e \in Engines : pc[e] \in {"run", "commit"} /\ Now(e) = f =>
           /\ Executed(e) <= m
           /\ Agree(Stages(expected, Of(f)), Of(f), Executed(e), m, View(e))

\* Undisturbed, one engine runs at a time and one file is half done.
Single == \A e, o \in Engines : pc[e] \notin Ended /\ pc[o] \notin Ended => e = o
OneHalf == \A f, g \in half : f = g
AtHalf(e) == pc[e] \in {"run", "commit"} => (Executed(e) = 0 /\ dirty[e] = {}) \/ Now(e) \in half
Left == /\ half = {} => db = expected
        /\ \A f \in half : HalfDone(f)
Quiet == \A e \in Engines : pc[e] \notin {"drop", "rebuild"}

HalfInv == Single /\ OneHalf /\ (\A e \in Engines : AtHalf(e)) /\ (Quiet => Left)

IInv == DataTyped /\ EnginesTyped /\ TableInv /\ AloneInv /\ EngineInv
MigInv == IInv /\ (disturbed \/ HalfInv)

-----------------------------------------------------------------------------
(* The constants.                                                           *)

LEMMA IdColumn == <<"id">> \in Attributes /\ << >> \in Attributes
<1>1. "id" \in STRING
  BY BodiesAssumption
<1>2. <<"id">> \in Seq(STRING)
  BY <1>1
<1>3. << >> \in Seq(STRING)
  OBVIOUS
<1> QED BY <1>2, <1>3 DEF Attributes

LEMMA AllBodiesAre ==
  \A b : b \in AllBodies <=> (\E n \in Names : b \in Bodies[n]) \/ b = Imported \/ b = << >>
<1>1. ASSUME NEW b PROVE b \in UNION {Bodies[n] : n \in Names} <=> \E n \in Names : b \in Bodies[n]
  OBVIOUS
<1>2. ASSUME NEW b PROVE b \in {Imported, << >>} <=> b = Imported \/ b = << >>
  OBVIOUS
<1>3. \A b, U, V : b \in U \cup V <=> b \in U \/ b \in V
  OBVIOUS
<1> QED BY <1>1, <1>2, <1>3, Zenon DEF AllBodies

LEMMA BodiesTyped ==
  /\ AllBodies \subseteq Seq(Operations)
  /\ None \notin AllBodies
  /\ \A n \in Names : Bodies[n] \subseteq AllBodies
  /\ Imported \in AllBodies /\ << >> \in AllBodies
<1> DEFINE Creates == {r \in ToSet(SqlFile) : r.sql.do = "create table"}
           kept == Keep(SqlFile, Creates)
           R == [sql : Stmts, commented : BOOLEAN]
<1>1. SqlFile \in Seq(R)
  BY BodiesAssumption
<1>2. /\ kept \in Seq(R)
      /\ \A j \in 1 .. Len(kept) : \E i \in 1 .. Len(SqlFile) : kept[j] = SqlFile[i] /\ SqlFile[i] \in Creates
  <2> HIDE DEF R, Creates
  <2> QED BY <1>1, Kept
<1>3. \A j \in DOMAIN kept : kept[j].sql.table \in STRING
  <2> SUFFICES ASSUME NEW j \in DOMAIN kept PROVE kept[j].sql.table \in STRING
    OBVIOUS
  <2>1. kept[j] \in R
    <3> HIDE DEF kept, R
    <3> QED BY <1>2, SeqParts
  <2>2. kept[j].sql \in Stmts
    <3> HIDE DEF kept
    <3> QED BY <2>1
  <2> HIDE DEF kept
  <2> QED BY <2>2 DEF Stmts
<1> DEFINE Create(j) == [type |-> "create_table", table |-> kept[j].sql.table,
                         columns |-> <<"id">>, indexes |-> << >>]
<1>4. \A j \in DOMAIN kept : Create(j) \in Operations
  <2> SUFFICES ASSUME NEW j \in DOMAIN kept PROVE Create(j) \in Operations
    OBVIOUS
  <2>1. <<"id">> \in Attributes /\ << >> \in Attributes
    BY IdColumn
  <2> HIDE DEF kept
  <2> QED BY <1>3, <2>1 DEF Operations
<1>5. Imported = [j \in DOMAIN kept |-> Create(j)]
  BY DEF Imported
<1>6. Imported \in Seq(Operations)
  <2> HIDE DEF kept, Create
  <2>1. DOMAIN kept = 1 .. Len(kept) /\ Len(kept) \in Nat
    BY <1>2, SeqParts
  <2> QED BY <1>4, <1>5, <2>1
<1>7. << >> \in Seq(Operations)
  OBVIOUS
<1>8. ASSUME NEW b \in AllBodies PROVE b \in Seq(Operations)
  <2>1. CASE \E n \in Names : b \in Bodies[n]
    <3>1. PICK n \in Names : b \in Bodies[n]
      BY <2>1
    <3>2. Bodies[n] \subseteq Seq(Operations)
      BY BodiesAssumption
    <3> QED BY <3>1, <3>2
  <2>2. CASE b = Imported \/ b = << >>
    BY <1>6, <1>7, <2>2
  <2> QED BY <2>1, <2>2, AllBodiesAre
<1>9. /\ \A n \in Names : Bodies[n] \subseteq AllBodies
      /\ Imported \in AllBodies /\ << >> \in AllBodies
  BY AllBodiesAre
<1>10. None \notin Seq(Operations)
  BY BodiesAssumption
<1>11. AllBodies \subseteq Seq(Operations)
  BY <1>8
<1> QED BY <1>9, <1>10, <1>11

\* The statements of a file found.
LEMMA FileTyped ==
  ASSUME NEW f \in Files
  PROVE  Of(f) \in Seq(Stmts) /\ Len(Of(f)) \in Nat /\ f.name \in Names /\ f.body \in AllBodies
<1>1. f.body \in Seq(Operations) /\ parseMigrationFile(f.body)
  BY BodiesTyped DEF Files
<1> QED BY <1>1, StatementsTyped DEF Of, Files

-----------------------------------------------------------------------------
(* What a step does to the engines.                                         *)

LEMMA Except ==
  ASSUME NEW S, NEW T, NEW f \in [S -> T], NEW e \in S, NEW v \in T
  PROVE  /\ [f EXCEPT ![e] = v] \in [S -> T] /\ [f EXCEPT ![e] = v][e] = v
         /\ \A o \in S : o # e => [f EXCEPT ![e] = v][o] = f[o]
OBVIOUS

\* Engine o is where it was.
Stays(o) ==
  /\ pc'[o] = pc[o] /\ seen'[o] = seen[o] /\ files'[o] = files[o] /\ todo'[o] = todo[o]
  /\ stmts'[o] = stmts[o] /\ sum'[o] = sum[o] /\ dirty'[o] = dirty[o]
  /\ drops'[o] = drops[o] /\ failed'[o] = failed[o]

\* A step of engine e leaves the others alone.
Others(e) == \A o \in Engines : o # e => Stays(o)

\* It goes on with what it does, or ends.
Goes(e) == pc'[e] \notin Ended => pc[e] \notin Ended /\ (pc'[e] \in Migrating <=> pc[e] \in Migrating)

LEMMA PcExcept ==
  ASSUME EnginesTyped, NEW e \in Engines, NEW to \in Phases, Go(e, to)
  PROVE  pc' \in [Engines -> Phases] /\ pc'[e] = to /\ \A o \in Engines : o # e => pc'[o] = pc[o]
BY DEF EnginesTyped, Go

\* The end of a session.
LEMMA Quits ==
  ASSUME EnginesTyped, NEW e \in Engines, NEW to \in Ended, Quit(e, to)
  PROVE  /\ EnginesTyped' /\ Others(e) /\ pc'[e] = to
         /\ StepOK(e)' /\ RestOK(e)' /\ GapOK(e)' /\ AtHalf(e)'
<1>1. to \in Phases /\ to \notin {"run", "commit", "check", "apply", "rebuild", "drop", "truncate"}
  BY DEF Phases, Ended
<1>2. pc' \in [Engines -> Phases] /\ pc'[e] = to /\ \A o \in Engines : o # e => pc'[o] = pc[o]
  BY <1>1, PcExcept DEF Quit
<1>3. /\ sum' \in [Engines -> AllBodies \cup {None}] /\ \A o \in Engines : o # e => sum'[o] = sum[o]
  BY DEF Quit, EnginesTyped
<1>4. /\ dirty' \in [Engines -> SUBSET (STRING \X STRING)] /\ dirty'[e] = {}
      /\ \A o \in Engines : o # e => dirty'[o] = dirty[o]
  BY DEF Quit, EnginesTyped
<1>5. /\ stmts' \in [Engines -> Seq(Stmts)] /\ stmts'[e] = << >>
      /\ \A o \in Engines : o # e => stmts'[o] = stmts[o]
  BY DEF Quit, EnginesTyped
<1>6. /\ files' \in [Engines -> Seq(Files)] /\ \A o \in Engines : o # e => files'[o] = files[o]
  BY DEF Quit, EnginesTyped
<1>7. /\ todo' \in [Engines -> Seq(Files)] /\ \A o \in Engines : o # e => todo'[o] = todo[o]
  BY DEF Quit, EnginesTyped
<1>8. /\ drops' \in [Engines -> SUBSET STRING] /\ drops'[e] = {}
      /\ \A o \in Engines : o # e => drops'[o] = drops[o]
  BY DEF Quit, EnginesTyped
<1>9. /\ failed' \in [Engines -> BOOLEAN] /\ \A o \in Engines : o # e => failed'[o] = failed[o]
  BY DEF Quit, EnginesTyped
<1>10. /\ seen' \in [Engines -> [Versions -> AllBodies \cup {None}]]
       /\ \A o \in Engines : o # e => seen'[o] = seen[o]
  BY DEF Quit, EnginesTyped
<1>11. EnginesTyped' /\ Others(e)
  BY <1>2, <1>3, <1>4, <1>5, <1>6, <1>7, <1>8, <1>9, <1>10 DEF EnginesTyped, Others, Stays
<1>12. StepOK(e)' /\ RestOK(e)' /\ GapOK(e)' /\ AtHalf(e)'
  BY <1>1, <1>2, <1>4, <1>5, <1>8 DEF StepOK, RestOK, GapOK, AtHalf
<1> QED BY <1>2, <1>11, <1>12

\* Its part of the invariant holds as long as what was recorded is.
LEMMA StayKeeps ==
  ASSUME IInv, NEW o \in Engines, Stays(o),
         pc[o] \in {"check", "apply", "run", "commit"} =>
             \A v \in Versions : recorded[v] # None => recorded'[v] # None
  PROVE  StepOK(o)' /\ RestOK(o)' /\ GapOK(o)'
<1>1. /\ pc'[o] = pc[o] /\ seen'[o] = seen[o] /\ files'[o] = files[o] /\ todo'[o] = todo[o]
      /\ stmts'[o] = stmts[o] /\ sum'[o] = sum[o] /\ dirty'[o] = dirty[o] /\ drops'[o] = drops[o]
  BY DEF Stays
<1>2. StepOK(o) /\ RestOK(o) /\ GapOK(o)
  BY DEF IInv, EngineInv
<1>3. StepOK(o)'
  BY <1>1, <1>2 DEF StepOK
<1>4. RestOK(o)'
  BY <1>1, <1>2 DEF RestOK, Executed, Now
<1>5. GapOK(o)'
  <2>1. CASE pc[o] \in {"apply", "run", "commit"}
    <3>1. \A i \in 1 .. Len(files[o]) : Version[files[o][i].name] \in Versions
      <4>1. files[o] \in Seq(Files)
        BY DEF IInv, EnginesTyped
      <4>2. \A i \in 1 .. Len(files[o]) : files[o][i] \in Files
        BY <4>1
      <4> QED BY <4>2 DEF Files, Versions
    <3>2. FilesOK(o) /\ \A v \in Versions : recorded[v] # None => recorded'[v] # None
      BY <1>2, <2>1 DEF GapOK
    <3>3. FilesOK(o)'
      BY <1>1, <3>1, <3>2 DEF FilesOK
    <3> QED BY <1>1, <2>1, <3>3 DEF GapOK
  <2>2. CASE pc[o] = "check"
    BY <1>1, <1>2, <2>2 DEF GapOK
  <2>3. CASE pc[o] \notin {"check", "apply", "run", "commit"}
    BY <1>1, <2>3 DEF GapOK
  <2> QED BY <2>1, <2>2, <2>3
<1> QED BY <1>3, <1>4, <1>5

LEMMA OthersKeep ==
  ASSUME IInv, NEW e \in Engines, Others(e),
         \A o \in Engines : o # e /\ pc[o] \in {"check", "apply", "run", "commit"} =>
             \A v \in Versions : recorded[v] # None => recorded'[v] # None,
         StepOK(e)', RestOK(e)', GapOK(e)'
  PROVE  EngineInv'
BY StayKeeps DEF EngineInv, Others

\* An engine that goes on or ends stays alone if it was.
LEMMA GoesKeeps ==
  ASSUME NEW e \in Engines, Others(e), Goes(e)
  PROVE  (AloneInv => AloneInv') /\ (Single => Single')
BY DEF AloneInv, Single, Others, Stays, Goes

LEMMA HeadTail ==
  ASSUME NEW T, NEW q \in Seq(T), q # << >>
  PROVE  /\ Len(q) \in Nat \ {0} /\ Head(q) \in T /\ Head(q) = q[1]
         /\ Tail(q) \in Seq(T) /\ Len(Tail(q)) = Len(q) - 1
         /\ \A j \in 1 .. Len(Tail(q)) : Tail(q)[j] = q[j + 1]
OBVIOUS

\* What an engine that executes a file is at.
LEMMA AtFile ==
  ASSUME IInv, NEW e \in Engines, pc[e] \in {"run", "commit"}
  PROVE  /\ todo[e] \in Seq(Files) /\ todo[e] # << >> /\ Now(e) \in Files /\ NowVersion(e) \in Versions
         /\ Of(Now(e)) \in Seq(Stmts) /\ Len(Of(Now(e))) \in Nat
         /\ stmts[e] \in Seq(Stmts) /\ Len(stmts[e]) \in Nat
         /\ Executed(e) \in 0 .. Len(Of(Now(e))) /\ Executed(e) = Len(Of(Now(e))) - Len(stmts[e])
         /\ stmts[e] # << >> => /\ Executed(e) \in Nat /\ Executed(e) < Len(Of(Now(e)))
                                /\ Head(stmts[e]) \in Stmts /\ Head(stmts[e]) = Of(Now(e))[Executed(e) + 1]
<1>1. todo[e] \in Seq(Files) /\ todo[e] # << >> /\ stmts[e] \in Seq(Stmts)
  BY DEF IInv, EnginesTyped, EngineInv, StepOK
<1>2. Now(e) \in Files
  BY <1>1, HeadTail DEF Now
<1>3. Of(Now(e)) \in Seq(Stmts) /\ Len(Of(Now(e))) \in Nat /\ Now(e).name \in Names
  BY <1>2, FileTyped
<1>4. NowVersion(e) \in Versions
  BY <1>3 DEF NowVersion, Versions
<1>5. /\ Executed(e) \in 0 .. Len(Of(Now(e)))
      /\ \A i \in 1 .. Len(stmts[e]) : stmts[e][i] = Of(Now(e))[i + Executed(e)]
  BY DEF IInv, EngineInv, RestOK
<1>6. Executed(e) = Len(Of(Now(e))) - Len(stmts[e]) /\ Len(stmts[e]) \in Nat
  BY <1>1 DEF Executed
<1>7. ASSUME stmts[e] # << >>
      PROVE  /\ Executed(e) \in Nat /\ Executed(e) < Len(Of(Now(e)))
             /\ Head(stmts[e]) \in Stmts /\ Head(stmts[e]) = Of(Now(e))[Executed(e) + 1]
  <2>1. Len(stmts[e]) \in Nat \ {0} /\ Head(stmts[e]) \in Stmts /\ Head(stmts[e]) = stmts[e][1]
    BY <1>1, <1>7, HeadTail
  <2>2. 1 \in 1 .. Len(stmts[e]) /\ Executed(e) \in Nat /\ 1 + Executed(e) = Executed(e) + 1
    BY <1>3, <1>5, <2>1
  <2>3. Executed(e) < Len(Of(Now(e)))
    BY <1>3, <1>6, <2>1
  <2> QED BY <1>5, <2>1, <2>2, <2>3
<1> QED BY <1>1, <1>2, <1>3, <1>4, <1>5, <1>6, <1>7

\* A database with more rows.
LEMMA RowsMore ==
  ASSUME NEW d \in Databases, NEW R \in SUBSET (STRING \X STRING)
  PROVE  /\ [d EXCEPT !.rows = @ \cup R] \in Databases
         /\ [d EXCEPT !.rows = @ \cup R] = [tables |-> d.tables, rows |-> d.rows \cup R]
         /\ R \subseteq d.rows => [d EXCEPT !.rows = @ \cup R] = d
         /\ \A t : There([d EXCEPT !.rows = @ \cup R], t) <=> There(d, t)
         /\ \A t, x : Has([d EXCEPT !.rows = @ \cup R], t, x) <=> Has(d, t, x)
         /\ \A t, r : Row([d EXCEPT !.rows = @ \cup R], t, r) <=> Row(d, t, r) \/ <<t, r>> \in R
<1> DEFINE w == [tables |-> d.tables, rows |-> d.rows \cup R]
<1>1. [d EXCEPT !.rows = @ \cup R] = w
  BY DbParts, DbExcept
<1>2. w \in Databases
  BY DbParts, DbOf
<1>3. R \subseteq d.rows => w = d
  <2>1. R \subseteq d.rows => d.rows \cup R = d.rows
    OBVIOUS
  <2> QED BY <2>1, DbParts
<1>4. /\ \A t : There(w, t) <=> There(d, t)
      /\ \A t, x : Has(w, t, x) <=> Has(d, t, x)
      /\ \A t, r : Row(w, t, r) <=> Row(d, t, r) \/ <<t, r>> \in R
  BY DEF There, Has, Row
<1> HIDE DEF w
<1> QED BY <1>1, <1>2, <1>3, <1>4 DEF w

LEMMA Views ==
  ASSUME IInv, NEW e \in Engines
  PROVE  /\ View(e) \in Databases /\ db \in Databases
         /\ View(e) = [tables |-> db.tables, rows |-> db.rows \cup dirty[e]]
         /\ dirty[e] \subseteq db.rows => View(e) = db
         /\ \A t : There(View(e), t) <=> There(db, t)
         /\ \A t, x : Has(View(e), t, x) <=> Has(db, t, x)
         /\ \A t, r : Row(View(e), t, r) <=> Row(db, t, r) \/ <<t, r>> \in dirty[e]
<1>1. db \in Databases /\ dirty[e] \in SUBSET (STRING \X STRING)
  BY DEF IInv, DataTyped, EnginesTyped
<1> QED BY <1>1, RowsMore DEF View

-----------------------------------------------------------------------------
(* Each step keeps the first part of the invariant.                         *)

\* The directory may change, or nothing.
LEMMA DirKeeps ==
  ASSUME IInv, dir' \in [Names -> AllBodies \cup {None}],
         UNCHANGED <<db, versionTable, recorded, pc, seen, files, todo, sum, stmts, dirty, drops, failed,
                     expected, half, disturbed>>
  PROVE  IInv'
<1>1. DataTyped'
  BY DEF IInv, DataTyped
<1>2. EnginesTyped'
  BY DEF IInv, EnginesTyped
<1>3. TableInv'
  <2>1. TableInv
    BY DEF IInv
  <2> QED BY <2>1 DEF TableInv
<1>4. AloneInv'
  BY DEF IInv, AloneInv
<1>5. EngineInv'
  BY StayKeeps DEF EngineInv, Stays
<1> QED BY <1>1, <1>2, <1>3, <1>4, <1>5 DEF IInv

LEMMA StartKeeps ==
  ASSUME IInv, NEW e \in Engines, NEW cmd \in {"load", "drop", "truncate"}, Start(e, cmd)
  PROVE  IInv' /\ Others(e) /\ pc'[e] = cmd /\ pc[e] \in Ended
<1>0. cmd \in Phases
  BY DEF Phases, Migrating
<1>1. pc' \in [Engines -> Phases] /\ pc'[e] = cmd /\ \A o \in Engines : o # e => pc'[o] = pc[o]
  BY <1>0, PcExcept DEF Start, IInv
<1>2. /\ drops' \in [Engines -> SUBSET STRING] /\ \A o \in Engines : o # e => drops'[o] = drops[o]
      /\ cmd = "load" => drops'[e] = {}
  <2>1. DOMAIN db.tables \in SUBSET STRING
    BY DbParts DEF IInv, DataTyped
  <2> QED BY <2>1 DEF Start, IInv, EnginesTyped
<1>3. DataTyped' /\ TableInv'
  <2>1. disturbed' \in BOOLEAN
    BY DEF Start, IInv, DataTyped
  <2> QED BY <1>1, <2>1 DEF Start, dirVars, dbVars, IInv, DataTyped, TableInv
<1>4. EnginesTyped' /\ Others(e)
  BY <1>1, <1>2 DEF Start, IInv, EnginesTyped, Others, Stays
<1>5. AloneInv'
  <2> SUFFICES ASSUME NEW o \in Engines, o # e, pc[o] \notin Ended
               PROVE  pc[o] \in Migrating /\ cmd = "load"
    BY <1>1 DEF AloneInv, IInv, Migrating
  <2>1. o \in Busy
    BY DEF Busy
  <2> QED BY <2>1 DEF Start
<1>6. pc[e] \in Ended /\ StepOK(e)
  BY DEF Start, IInv, EngineInv
<1>7. StepOK(e)' /\ RestOK(e)'
  BY <1>1, <1>2, <1>6 DEF Start, StepOK, RestOK, Ended
<1>8. GapOK(e)'
  BY <1>1 DEF GapOK
<1>9. EngineInv'
  BY <1>4, <1>7, <1>8, OthersKeep DEF Start, dbVars
<1> QED BY <1>1, <1>3, <1>4, <1>5, <1>6, <1>9 DEF IInv

LEMMA LoadKeeps ==
  ASSUME IInv, NEW e \in Engines, Load(e)
  PROVE  IInv' /\ Others(e) /\ pc[e] = "load" /\ pc'[e] = "check"
<1>0. "check" \in Phases /\ pc[e] = "load"
  BY DEF Phases, Migrating, Load
<1>1. pc' \in [Engines -> Phases] /\ pc'[e] = "check" /\ \A o \in Engines : o # e => pc'[o] = pc[o]
  BY <1>0, PcExcept DEF Load, IInv
<1>2. /\ seen' \in [Engines -> [Versions -> AllBodies \cup {None}]] /\ seen'[e] = recorded
      /\ \A o \in Engines : o # e => seen'[o] = seen[o]
  BY DEF Load, IInv, DataTyped, EnginesTyped
<1>3. DataTyped' /\ TableInv'
  BY DEF Load, dirVars, histVars, IInv, DataTyped, TableInv
<1>4. EnginesTyped' /\ Others(e)
  BY <1>1, <1>2 DEF Load, IInv, EnginesTyped, Others, Stays
<1>5. AloneInv'
  <2>1. Goes(e)
    BY <1>0, <1>1 DEF Goes, Ended, Migrating
  <2> QED BY <1>4, <2>1, GoesKeeps DEF IInv
<1>6. StepOK(e)
  BY DEF IInv, EngineInv
<1>7. StepOK(e)' /\ RestOK(e)'
  BY <1>0, <1>1, <1>6 DEF Load, StepOK, RestOK
<1>8. GapOK(e)'
  BY <1>1, <1>2 DEF GapOK, Load
<1>9. EngineInv'
  BY <1>4, <1>7, <1>8, OthersKeep DEF Load
<1> QED BY <1>0, <1>1, <1>3, <1>4, <1>5, <1>9 DEF IInv

LEMMA SortedFiles ==
  ASSUME IInv, NEW order \in Orders[{n \in Names : dir[n] # None}]
  PROVE  /\ order \in Seq(Names) /\ \A i \in DOMAIN order : dir[order[i]] # None
         /\ DOMAIN order = 1 .. Len(order) /\ Len(order) \in Nat
         /\ \A i, j \in DOMAIN order : i < j => Version[order[i]] <= Version[order[j]]
<1> DEFINE N == {n \in Names : dir[n] # None}
<1>1. N \in SUBSET Names
  OBVIOUS
<1>2. /\ order \in SetToAllKPermutations(N)
      /\ \A i, j \in DOMAIN order : i < j => Version[order[i]] <= Version[order[j]]
  BY <1>1 DEF Orders
<1>3. PICK S \in SUBSET N : order \in SetToSeqs(S)
  BY <1>2 DEF SetToAllKPermutations
<1>4. Cardinality(S) \in Nat
  BY VersionAssumption, FS_Subset, FS_CardinalityType
<1>5. order \in [1 .. Cardinality(S) -> S]
  BY <1>3 DEF SetToSeqs
<1>6. order \in Seq(S)
  BY <1>4, <1>5
<1>7. order \in Seq(Names) /\ \A i \in DOMAIN order : order[i] \in N
  BY <1>6
<1> QED BY <1>2, <1>7

LEMMA CheckKeeps ==
  ASSUME IInv, NEW e \in Engines, Check(e)
  PROVE  IInv' /\ Others(e) /\ pc[e] = "check" /\ pc'[e] \in {"apply", "failed"}
<1>0. /\ pc[e] = "check" /\ "apply" \in Phases /\ "failed" \in Ended
      /\ UNCHANGED <<dirVars, dbVars, histVars, counts>>
  BY DEF Check, Phases, Migrating, Ended
<1>1. /\ DataTyped'
      /\ pc'[e] \in {"apply", "failed"} /\ (\A o \in Engines : o # e => pc'[o] = pc[o]) => TableInv'
  BY <1>0 DEF dirVars, dbVars, histVars, IInv, DataTyped, TableInv
<1> DEFINE N == {n \in Names : dir[n] # None}
           Fs(order) == [i \in DOMAIN order |-> [name |-> order[i], body |-> dir[order[i]]]]
           Finds(fs) == /\ files' = [files EXCEPT ![e] = fs]
                        /\ todo' = [todo EXCEPT ![e] = Pending(e, fs)]
                        /\ Go(e, "apply")
                        /\ UNCHANGED <<seen, sum, stmts, dirty, drops, failed>>
<1>2. PICK order \in Orders[N] :
         \/ (\A n \in N : parseMigrationFile(dir[n])) /\ Finds(Fs(order))
         \/ Quit(e, "failed")
  BY DEF Check
<1>3. CASE Quit(e, "failed")
  <2>1. /\ EnginesTyped' /\ Others(e) /\ pc'[e] = "failed"
        /\ StepOK(e)' /\ RestOK(e)' /\ GapOK(e)'
    BY <1>0, <1>3, Quits DEF IInv
  <2>2. Goes(e)
    BY <1>0, <2>1 DEF Goes
  <2>3. DataTyped' /\ TableInv'
    BY <1>1, <2>1 DEF Others, Stays
  <2>4. EngineInv'
    BY <1>0, <2>1, OthersKeep DEF dbVars
  <2> QED BY <1>0, <2>1, <2>2, <2>3, <2>4, GoesKeeps DEF IInv
<1>4. CASE (\A n \in N : parseMigrationFile(dir[n])) /\ Finds(Fs(order))
  <2> DEFINE fs == Fs(order)
             K == {f \in ToSet(fs) : seen[e][Version[f.name]] = None}
  <2>1. /\ order \in Seq(Names) /\ \A i \in DOMAIN order : dir[order[i]] # None
        /\ DOMAIN order = 1 .. Len(order) /\ Len(order) \in Nat
        /\ \A i, j \in DOMAIN order : i < j => Version[order[i]] <= Version[order[j]]
    BY SortedFiles
  <2>2. ASSUME NEW i \in 1 .. Len(order) PROVE fs[i] \in Files /\ fs[i].name = order[i]
    <3>1. order[i] \in N /\ dir[order[i]] \in AllBodies
      <4>1. order[i] \in Names /\ dir[order[i]] # None
        BY <2>1
      <4> QED BY <4>1 DEF IInv, DataTyped
    <3>2. fs[i] = [name |-> order[i], body |-> dir[order[i]]] /\ order[i] \in Names
      BY <2>1
    <3> HIDE DEF fs
    <3> QED BY <1>4, <3>1, <3>2 DEF Files
  <2>3. fs \in Seq(Files) /\ Len(fs) = Len(order)
    <3>1. fs = [i \in 1 .. Len(order) |-> fs[i]]
      BY <2>1
    <3> HIDE DEF fs
    <3> QED BY <2>1, <2>2, <3>1
  <2>4. /\ Keep(fs, K) \in Seq(Files)
        /\ \A i \in 1 .. Len(fs) : fs[i] \in K => \E j \in 1 .. Len(Keep(fs, K)) : Keep(fs, K)[j] = fs[i]
        /\ \A j, l \in 1 .. Len(Keep(fs, K)) : j < l =>
              \E i, k \in 1 .. Len(fs) : i < k /\ Keep(fs, K)[j] = fs[i] /\ Keep(fs, K)[l] = fs[k]
    <3> HIDE DEF fs, K, Fs, Finds, N
    <3> QED BY ONLY <2>3, Kept
  <2>5. Pending(e, fs) = Keep(fs, K)
    BY DEF Pending
  <2>6. /\ pc' \in [Engines -> Phases] /\ pc'[e] = "apply"
        /\ \A o \in Engines : o # e => pc'[o] = pc[o]
    BY <1>0, <1>4, PcExcept DEF IInv
  <2> HIDE DEF fs, K
  <2>7. /\ files' \in [Engines -> Seq(Files)] /\ files'[e] = fs
        /\ \A o \in Engines : o # e => files'[o] = files[o]
    BY <1>4, <2>3 DEF IInv, EnginesTyped, fs
  <2>8. /\ todo' \in [Engines -> Seq(Files)] /\ todo'[e] = Keep(fs, K)
        /\ \A o \in Engines : o # e => todo'[o] = todo[o]
    <3>1. todo' = [todo EXCEPT ![e] = Keep(fs, K)]
      BY <1>4, <2>5 DEF fs
    <3> QED BY <2>4, <3>1 DEF IInv, EnginesTyped
  <2>9. EnginesTyped' /\ Others(e)
    BY <1>4, <2>6, <2>7, <2>8 DEF IInv, EnginesTyped, Others, Stays
  <2>10. StepOK(e)' /\ RestOK(e)'
    <3>1. StepOK(e)
      BY DEF IInv, EngineInv
    <3> QED BY <1>0, <1>4, <2>6, <3>1 DEF StepOK, RestOK
  <2>11. FilesOK(e)'
    <3>1. ASSUME NEW i \in 1 .. Len(fs)
          PROVE  \/ recorded[Version[fs[i].name]] # None
                 \/ \E j \in 1 .. Len(Keep(fs, K)) : Keep(fs, K)[j] = fs[i]
      <4>1. fs[i] \in Files /\ fs[i].name \in Names /\ Version[fs[i].name] \in Versions
        BY <2>3 DEF Files, Versions
      <4>2. CASE seen[e][Version[fs[i].name]] = None
        <5>1. fs[i] \in ToSet(fs)
          BY <2>3 DEF ToSet
        <5>2. fs[i] \in K
          BY <4>2, <5>1 DEF K
        <5> QED BY <2>4, <5>2
      <4>3. CASE seen[e][Version[fs[i].name]] # None
        BY <1>0, <4>1, <4>3 DEF IInv, EngineInv, GapOK
      <4> QED BY <4>2, <4>3
    <3>2. ASSUME NEW j \in 1 .. Len(Keep(fs, K)), NEW l \in 1 .. Len(Keep(fs, K)), j < l
          PROVE  Version[Keep(fs, K)[j].name] <= Version[Keep(fs, K)[l].name]
      <4>1. PICK i \in 1 .. Len(fs), k \in 1 .. Len(fs) :
               i < k /\ Keep(fs, K)[j] = fs[i] /\ Keep(fs, K)[l] = fs[k]
        BY <2>4, <3>2
      <4>2. fs[i].name = order[i] /\ fs[k].name = order[k] /\ i \in DOMAIN order /\ k \in DOMAIN order
        BY <2>1, <2>2, <2>3
      <4> QED BY <2>1, <4>1, <4>2
    <3> QED BY <1>0, <2>7, <2>8, <3>1, <3>2 DEF FilesOK, dbVars
  <2>12. GapOK(e)'
    BY <2>6, <2>11 DEF GapOK
  <2>13. Goes(e)
    BY <1>0, <2>6 DEF Goes, Ended, Migrating
  <2>14. DataTyped' /\ TableInv'
    BY <1>1, <2>6
  <2>15. EngineInv'
    BY <1>0, <2>9, <2>10, <2>12, OthersKeep DEF dbVars
  <2> QED BY <1>0, <2>6, <2>9, <2>13, <2>14, <2>15, GoesKeeps DEF IInv
<1> QED BY <1>2, <1>3, <1>4

LEMMA QuitKeeps ==
  ASSUME IInv, NEW e \in Engines, NEW to \in Ended, Quit(e, to), DataTyped',
         versionTable' = versionTable, ~versionTable => recorded' = recorded,
         \A v \in Versions : recorded[v] # None => recorded'[v] # None
  PROVE  IInv' /\ Others(e) /\ pc'[e] = to /\ AtHalf(e)'
<1>1. /\ EnginesTyped' /\ Others(e) /\ pc'[e] = to
      /\ StepOK(e)' /\ RestOK(e)' /\ GapOK(e)' /\ AtHalf(e)'
  BY Quits DEF IInv
<1>2. TableInv'
  <2> SUFFICES ASSUME ~versionTable
               PROVE  /\ \A v \in Versions : recorded'[v] = None
                      /\ \A o \in Engines : pc'[o] # "commit"
    BY DEF TableInv
  <2>1. TableInv
    BY DEF IInv
  <2> QED BY <1>1, <2>1 DEF TableInv, Others, Stays, Ended
<1>3. AloneInv'
  <2>1. Goes(e)
    BY <1>1 DEF Goes
  <2> QED BY <1>1, <2>1, GoesKeeps DEF IInv
<1>4. EngineInv'
  BY <1>1, OthersKeep
<1> QED BY <1>1, <1>2, <1>3, <1>4 DEF IInv

LEMMA ApplyKeeps ==
  ASSUME IInv, NEW e \in Engines, Apply(e)
  PROVE  /\ IInv' /\ Others(e) /\ pc[e] = "apply"
         /\ \/ pc'[e] = "ok"
            \/ pc'[e] = "run" /\ Executed(e)' = 0 /\ dirty'[e] = {}
<1>0. /\ pc[e] = "apply" /\ "run" \in Phases /\ "ok" \in Ended
      /\ UNCHANGED <<dir, db, versionTable, recorded, expected, half, disturbed>>
  BY DEF Apply, Phases, Migrating, Ended, dirVars, dbVars, histVars
<1>1. DataTyped'
  BY <1>0 DEF IInv, DataTyped
<1>2. CASE Quit(e, "ok")
  BY <1>0, <1>1, <1>2, QuitKeeps
<1>3. CASE ~Quit(e, "ok")
  <2>0. /\ todo[e] # << >> /\ Go(e, "run")
        /\ stmts' = [stmts EXCEPT ![e] = Of(Now(e))]
        /\ UNCHANGED <<seen, files, todo, sum, dirty, drops, failed>>
    BY <1>3 DEF Apply, Of
  <2>1. /\ pc' \in [Engines -> Phases] /\ pc'[e] = "run"
        /\ \A o \in Engines : o # e => pc'[o] = pc[o]
    BY <1>0, <2>0, PcExcept DEF IInv
  <2>2. Now(e) \in Files
    <3>1. todo[e] \in Seq(Files)
      BY DEF IInv, EnginesTyped
    <3> QED BY <2>0, <3>1, HeadTail DEF Now
  <2>3. Of(Now(e)) \in Seq(Stmts) /\ Len(Of(Now(e))) \in Nat
    BY <2>2, FileTyped
  <2>4. /\ stmts' \in [Engines -> Seq(Stmts)] /\ stmts'[e] = Of(Now(e))
        /\ \A o \in Engines : o # e => stmts'[o] = stmts[o]
    BY <2>0, <2>3 DEF IInv, EnginesTyped
  <2>5. EnginesTyped' /\ Others(e)
    BY <2>0, <2>1, <2>4 DEF IInv, EnginesTyped, Others, Stays
  <2>6. Now(e)' = Now(e) /\ Executed(e)' = 0
    BY <2>0, <2>3, <2>4 DEF Now, Executed
  <2>7. StepOK(e) /\ GapOK(e)
    BY DEF IInv, EngineInv
  <2>8. StepOK(e)'
    BY <1>0, <2>0, <2>1, <2>7 DEF StepOK
  <2>9. RestOK(e)'
    <3>1. \A i \in 1 .. Len(Of(Now(e))) : i + 0 = i
      BY <2>3
    <3> HIDE DEF Executed, Now
    <3> QED BY <2>3, <2>4, <2>6, <3>1 DEF RestOK
  <2>10. GapOK(e)'
    BY <1>0, <2>0, <2>1, <2>7 DEF GapOK, FilesOK
  <2>11. TableInv'
    BY <1>0, <2>1 DEF IInv, TableInv
  <2>12. Goes(e)
    BY <1>0, <2>1 DEF Goes, Ended, Migrating
  <2>13. EngineInv'
    BY <1>0, <2>5, <2>8, <2>9, <2>10, OthersKeep
  <2>14. dirty'[e] = {}
    BY <1>0, <2>0, <2>7 DEF StepOK
  <2> QED BY <1>0, <1>1, <2>1, <2>5, <2>6, <2>11, <2>12, <2>13, <2>14, GoesKeeps DEF IInv
<1> QED BY <1>2, <1>3

LEMMA ImplicitCommitKeeps ==
  ASSUME IInv, NEW e \in Engines, ImplicitCommit(e)
  PROVE  /\ IInv' /\ Others(e) /\ pc[e] = "run" /\ pc'[e] = "run"
         /\ Now(e)' = Now(e) /\ Executed(e)' = Executed(e)
         /\ db' = View(e) /\ View(e)' = View(e) /\ dirty[e] # {}
         /\ UNCHANGED <<expected, half, disturbed>>
<1>0. /\ pc[e] = "run" /\ db' = View(e) /\ dirty[e] # {}
      /\ dirty' = [dirty EXCEPT ![e] = {}]
      /\ UNCHANGED <<dir, versionTable, recorded, pc, seen, files, todo, sum, stmts, drops, failed,
                     expected, half, disturbed>>
  BY DEF ImplicitCommit, dirVars, histVars
<1>1. View(e) \in Databases
  BY Views
<1>2. /\ dirty' \in [Engines -> SUBSET (STRING \X STRING)] /\ dirty'[e] = {}
      /\ \A o \in Engines : o # e => dirty'[o] = dirty[o]
  BY <1>0 DEF IInv, EnginesTyped
<1>3. DataTyped'
  BY <1>0, <1>1 DEF IInv, DataTyped
<1>4. EnginesTyped' /\ Others(e)
  BY <1>0, <1>2 DEF IInv, EnginesTyped, Others, Stays
<1>5. TableInv' /\ AloneInv'
  BY <1>0 DEF IInv, TableInv, AloneInv
<1>6. StepOK(e) /\ RestOK(e) /\ GapOK(e)
  BY DEF IInv, EngineInv
<1>7. StepOK(e)'
  BY <1>0, <1>2, <1>6 DEF StepOK
<1>8. Now(e)' = Now(e) /\ Executed(e)' = Executed(e)
  BY <1>0 DEF Now, Executed
<1>9. RestOK(e)'
  BY <1>0, <1>6, <1>8 DEF RestOK
<1>10. GapOK(e)'
  BY <1>0, <1>6 DEF GapOK, FilesOK
<1>11. EngineInv'
  BY <1>0, <1>4, <1>7, <1>9, <1>10, OthersKeep
<1>12. View(e)' = View(e)
  <2>1. View(e)' = [db' EXCEPT !.rows = @ \cup dirty'[e]]
    BY DEF View
  <2>2. {} \in SUBSET (STRING \X STRING) /\ {} \subseteq View(e).rows
    OBVIOUS
  <2>3. [View(e) EXCEPT !.rows = @ \cup {}] = View(e)
    BY <1>1, <2>2, RowsMore
  <2> QED BY <1>0, <1>2, <2>1, <2>3
<1> QED BY <1>0, <1>3, <1>4, <1>5, <1>8, <1>11, <1>12 DEF IInv

\* What an engine sees after a statement that is no error.
LEMMA Executes ==
  ASSUME IInv, NEW e \in Engines, NEW s \in Stmts, ~Fails(View(e), s), Execute(e, s),
         IsDDL(s) => dirty[e] = {}
  PROVE  /\ View(e)' = Effect(View(e), s) /\ Effect(View(e), s) \in Databases
         /\ db' \in Databases /\ dirty' \in [Engines -> SUBSET (STRING \X STRING)]
         /\ \A o \in Engines : o # e => dirty'[o] = dirty[o]
         /\ \/ IsDDL(s) /\ db' = View(e)' /\ db = View(e)
            \/ ~IsDDL(s) /\ db' = db
<1> DEFINE d == View(e)
           w == Effect(d, s)
<1>1. /\ d \in Databases /\ db \in Databases
      /\ dirty[e] \subseteq db.rows => d = db
      /\ \A t : There(d, t) <=> There(db, t)
      /\ \A t, x : Has(d, t, x) <=> Has(db, t, x)
      /\ \A t, r : Row(d, t, r) <=> Row(db, t, r) \/ <<t, r>> \in dirty[e]
  BY Views
<1>2. w \in Databases
  BY <1>1, EffectTyped
<1>3. dirty \in [Engines -> SUBSET (STRING \X STRING)]
  BY DEF IInv, EnginesTyped
<1> HIDE DEF d
<1>4. CASE IsDDL(s)
  <2>1. d = db /\ db' = w /\ dirty' = dirty
    <3>1. d = db
      BY <1>1, <1>4
    <3>2. db' = Effect(db, s) /\ dirty' = dirty
      BY <1>4 DEF Execute
    <3> QED BY <3>1, <3>2
  <2>2. View(e)' = w
    <3>1. View(e)' = [db' EXCEPT !.rows = @ \cup dirty'[e]]
      BY DEF View
    <3>2. {} \in SUBSET (STRING \X STRING) /\ {} \subseteq w.rows
      OBVIOUS
    <3> HIDE DEF w
    <3>3. [w EXCEPT !.rows = @ \cup {}] = w
      BY <1>2, <3>2, RowsMore
    <3> QED BY <1>4, <2>1, <3>1, <3>3
  <2> HIDE DEF w
  <2>3. db' = View(e)' /\ db = View(e) /\ View(e)' = Effect(View(e), s)
    BY <2>1, <2>2 DEF d, w
  <2> QED BY <1>2, <1>3, <1>4, <2>1, <2>3 DEF d, w
<1>5. CASE ~IsDDL(s)
  <2>0. s.do = "insert"
    BY <1>5 DEF IsDDL
  <2>1. db' = db /\ dirty' = [dirty EXCEPT ![e] = w.rows \ db.rows]
    BY <1>5 DEF Execute, d
  <2>2. /\ \A t : There(w, t) <=> There(d, t)
        /\ \A t, x : Has(w, t, x) <=> Has(d, t, x)
        /\ \A t, r : Row(d, t, r) => Row(w, t, r)
    BY <1>1, <2>0, InsertEffect
  <2>3. w.rows \ db.rows \in SUBSET (STRING \X STRING)
    BY <1>2, DbParts
  <2> HIDE DEF w
  <2>4. /\ dirty' \in [Engines -> SUBSET (STRING \X STRING)] /\ dirty'[e] = w.rows \ db.rows
        /\ \A o \in Engines : o # e => dirty'[o] = dirty[o]
    BY <1>3, <2>1, <2>3
  <2> DEFINE R == w.rows \ db.rows
             v == [db EXCEPT !.rows = @ \cup R]
  <2>5. View(e)' = v
    BY <2>1, <2>4 DEF View
  <2>6. /\ v \in Databases /\ v = [tables |-> db.tables, rows |-> db.rows \cup R]
        /\ R \subseteq db.rows => v = db
        /\ \A t : There(v, t) <=> There(db, t)
        /\ \A t, x : Has(v, t, x) <=> Has(db, t, x)
        /\ \A t, r : Row(v, t, r) <=> Row(db, t, r) \/ <<t, r>> \in R
    <3>1. db \in Databases /\ R \in SUBSET (STRING \X STRING)
      BY <1>1, <2>3
    <3> HIDE DEF R
    <3> QED BY ONLY <3>1, RowsMore
  <2> HIDE DEF v
  <2>7. \A t, r : Row(v, t, r) <=> Row(w, t, r)
    BY <1>1, <2>2, <2>6 DEF Row
  <2>8. v = w
    BY <1>1, <1>2, <2>2, <2>6, <2>7, DbEqual
  <2>9. View(e)' = Effect(View(e), s)
    BY <2>5, <2>8 DEF d, w
  <2>10. Effect(View(e), s) \in Databases
    BY <1>2 DEF d, w
  <2> QED BY <1>1, <1>5, <2>1, <2>4, <2>9, <2>10
<1> QED BY <1>4, <1>5

\* The other half of Run: an error, or a statement that is executed.
RunOne(e, s) == /\ ~Fails(View(e), s)
                /\ pc'[e] = "run" /\ Now(e)' = Now(e) /\ Executed(e)' = Executed(e) + 1
                /\ View(e)' = Effect(View(e), s)
                /\ \/ IsDDL(s) /\ db' = View(e)' /\ db = View(e)
                   \/ ~IsDDL(s) /\ db' = db

LEMMA RunKeeps ==
  ASSUME IInv, NEW e \in Engines, Run(e)
  PROVE  /\ IInv' /\ Others(e) /\ pc[e] = "run" /\ stmts[e] # << >>
         /\ \/ pc'[e] = "failed" /\ db' = db
            \/ RunOne(e, Head(stmts[e]))
         /\ half' = half \cup {Now(e)}
         /\ disturbed' = (disturbed \/ ~(half \subseteq {Now(e)}))
         /\ expected' = expected
<1> DEFINE s == Head(stmts[e])
<1>0. /\ pc[e] = "run" /\ stmts[e] # << >> /\ "failed" \in Ended /\ Ready(e)
      /\ UNCHANGED <<dir, versionTable, recorded, expected>>
      /\ half' = half \cup {Now(e)}
      /\ disturbed' = (disturbed \/ ~(half \subseteq {Now(e)}))
  BY DEF Run, dirVars, Ended
<1>1. /\ Now(e) \in Files /\ Of(Now(e)) \in Seq(Stmts) /\ Len(Of(Now(e))) \in Nat
      /\ stmts[e] \in Seq(Stmts) /\ Len(stmts[e]) \in Nat
      /\ Executed(e) \in 0 .. Len(Of(Now(e))) /\ Executed(e) = Len(Of(Now(e))) - Len(stmts[e])
      /\ Executed(e) < Len(Of(Now(e))) /\ s \in Stmts
  BY <1>0, AtFile
<1>2. half' \subseteq Files /\ disturbed' \in BOOLEAN
  BY <1>0, <1>1 DEF IInv, DataTyped
<1>3. CASE Fails(View(e), s)
  <2>1. Quit(e, "failed") /\ db' = db
    BY <1>3 DEF Run
  <2>2. DataTyped'
    BY <1>0, <1>2, <2>1 DEF IInv, DataTyped
  <2>3. IInv' /\ Others(e) /\ pc'[e] = "failed"
    BY <1>0, <2>1, <2>2, QuitKeeps
  <2> QED BY <1>0, <2>1, <2>3
<1>4. CASE ~Fails(View(e), s)
  <2>0. /\ Execute(e, s) /\ stmts' = [stmts EXCEPT ![e] = Tail(@)]
        /\ UNCHANGED <<pc, seen, files, todo, sum, drops, failed>>
    BY <1>4 DEF Run
  <2>1. IsDDL(s) => dirty[e] = {}
    BY <1>0 DEF Ready
  <2>2. /\ View(e)' = Effect(View(e), s)
        /\ db' \in Databases /\ dirty' \in [Engines -> SUBSET (STRING \X STRING)]
        /\ \A o \in Engines : o # e => dirty'[o] = dirty[o]
        /\ \/ IsDDL(s) /\ db' = View(e)' /\ db = View(e)
           \/ ~IsDDL(s) /\ db' = db
    <3> HIDE DEF s
    <3> QED BY <1>1, <1>4, <2>0, <2>1, Executes
  <2>3. /\ Tail(stmts[e]) \in Seq(Stmts) /\ Len(Tail(stmts[e])) = Len(stmts[e]) - 1
        /\ \A j \in 1 .. Len(Tail(stmts[e])) : Tail(stmts[e])[j] = stmts[e][j + 1]
    BY <1>0, <1>1, HeadTail
  <2>4. /\ stmts' \in [Engines -> Seq(Stmts)] /\ stmts'[e] = Tail(stmts[e])
        /\ \A o \in Engines : o # e => stmts'[o] = stmts[o]
    BY <2>0, <2>3 DEF IInv, EnginesTyped
  <2>5. DataTyped'
    BY <1>0, <1>2, <2>2 DEF IInv, DataTyped
  <2>6. EnginesTyped' /\ Others(e)
    BY <2>0, <2>2, <2>4 DEF IInv, EnginesTyped, Others, Stays
  <2>7. TableInv' /\ AloneInv'
    BY <1>0, <2>0 DEF IInv, TableInv, AloneInv
  <2>8. StepOK(e) /\ RestOK(e) /\ GapOK(e)
    BY DEF IInv, EngineInv
  <2>9. StepOK(e)'
    BY <1>0, <2>0, <2>8 DEF StepOK
  <2>10. Now(e)' = Now(e)
    BY <2>0 DEF Now
  <2>11. Executed(e)' = Executed(e) + 1
    <3>1. Executed(e)' = Len(Of(Now(e))) - Len(stmts'[e])
      BY <2>10 DEF Executed
    <3>2. Len(stmts'[e]) = Len(stmts[e]) - 1
      BY <2>3, <2>4
    <3>3. \A a, b \in Nat : a - (b - 1) = (a - b) + 1
      OBVIOUS
    <3>4. Len(Of(Now(e))) - (Len(stmts[e]) - 1) = (Len(Of(Now(e))) - Len(stmts[e])) + 1
      BY ONLY <1>1, <3>3
    <3> QED BY ONLY <1>1, <3>1, <3>2, <3>4
  <2>12. RestOK(e)'
    <3>1. \A i \in 1 .. Len(stmts[e]) : stmts[e][i] = Of(Now(e))[i + Executed(e)]
      BY <1>0, <2>8 DEF RestOK
    <3>2. ASSUME NEW i \in 1 .. Len(stmts'[e])
          PROVE  stmts'[e][i] = Of(Now(e))[i + (Executed(e) + 1)]
      <4>1. i + 1 \in 1 .. Len(stmts[e]) /\ (i + 1) + Executed(e) = i + (Executed(e) + 1)
        BY <1>1, <2>3, <2>4
      <4> QED BY <2>3, <2>4, <3>1, <4>1
    <3>3. Executed(e) + 1 \in 0 .. Len(Of(Now(e)))
      BY <1>1
    <3> HIDE DEF Executed, Now
    <3> QED BY <2>10, <2>11, <3>2, <3>3 DEF RestOK
  <2>13. GapOK(e)'
    BY <1>0, <2>0, <2>8 DEF GapOK, FilesOK
  <2>14. EngineInv'
    BY <1>0, <2>6, <2>9, <2>12, <2>13, OthersKeep
  <2>15. RunOne(e, s)
    BY <1>0, <1>4, <2>0, <2>2, <2>10, <2>11 DEF RunOne
  <2> QED BY <1>0, <2>5, <2>6, <2>7, <2>14, <2>15 DEF IInv
<1> QED BY <1>3, <1>4

LEMMA RecordKeeps ==
  ASSUME IInv, NEW e \in Engines, Record(e)
  PROVE  /\ IInv' /\ Others(e) /\ pc[e] = "run"
         /\ \/ pc'[e] = "failed"
            \/ /\ pc'[e] = "commit" /\ Now(e)' = Now(e) /\ Executed(e)' = Executed(e)
               /\ dirty' = dirty
         /\ UNCHANGED <<db, expected, half, disturbed>>
<1>0. /\ pc[e] = "run" /\ stmts[e] = << >> /\ "failed" \in Ended /\ "commit" \in Phases
      /\ UNCHANGED <<dir, db, versionTable, recorded, expected, half, disturbed>>
  BY DEF Record, dirVars, dbVars, histVars, Ended, Phases, Migrating
<1>1. DataTyped'
  BY <1>0 DEF IInv, DataTyped
<1>2. CASE Quit(e, "failed")
  <2>1. IInv' /\ Others(e) /\ pc'[e] = "failed"
    BY <1>0, <1>1, <1>2, QuitKeeps
  <2> QED BY <1>0, <2>1
<1>3. CASE ~Quit(e, "failed")
  <2>0. /\ dir[Now(e).name] # None /\ versionTable /\ Go(e, "commit")
        /\ sum' = [sum EXCEPT ![e] = dir[Now(e).name]]
        /\ UNCHANGED <<seen, files, todo, stmts, dirty, drops, failed>>
    BY <1>3 DEF Record
  <2>1. /\ pc' \in [Engines -> Phases] /\ pc'[e] = "commit"
        /\ \A o \in Engines : o # e => pc'[o] = pc[o]
    BY <1>0, <2>0, PcExcept DEF IInv
  <2>2. dir[Now(e).name] \in AllBodies \cup {None}
    <3>1. Now(e).name \in Names
      BY <1>0, AtFile, FileTyped
    <3> QED BY <3>1 DEF IInv, DataTyped
  <2>3. /\ sum' \in [Engines -> AllBodies \cup {None}] /\ sum'[e] # None
        /\ \A o \in Engines : o # e => sum'[o] = sum[o]
    BY <2>0, <2>2 DEF IInv, EnginesTyped
  <2>4. EnginesTyped' /\ Others(e)
    BY <2>0, <2>1, <2>3 DEF IInv, EnginesTyped, Others, Stays
  <2>5. StepOK(e) /\ RestOK(e) /\ GapOK(e)
    BY DEF IInv, EngineInv
  <2>6. StepOK(e)'
    BY <1>0, <2>0, <2>1, <2>3, <2>5 DEF StepOK
  <2>7. Now(e)' = Now(e) /\ Executed(e)' = Executed(e)
    BY <2>0 DEF Now, Executed
  <2>8. RestOK(e)'
    BY <1>0, <2>0, <2>1, <2>5, <2>7 DEF RestOK
  <2>9. GapOK(e)'
    BY <1>0, <2>0, <2>1, <2>5 DEF GapOK, FilesOK
  <2>10. TableInv'
    BY <1>0, <2>0 DEF TableInv
  <2>11. Goes(e)
    BY <1>0, <2>1 DEF Goes, Ended, Migrating
  <2>12. EngineInv'
    BY <1>0, <2>4, <2>6, <2>8, <2>9, OthersKeep
  <2> QED BY <1>0, <1>1, <2>0, <2>1, <2>4, <2>7, <2>10, <2>11, <2>12, GoesKeeps DEF IInv
<1> QED BY <1>2, <1>3

\* What the commit of a file leaves.
LEMMA Commits ==
  ASSUME IInv, NEW e \in Engines, pc[e] = "commit", Committed(e), UNCHANGED dir
  PROVE  /\ DataTyped' /\ versionTable /\ versionTable' = versionTable
         /\ \A v \in Versions : recorded[v] # None => recorded'[v] # None
         /\ recorded'[NowVersion(e)] # None
         /\ db' = View(e) /\ stmts[e] = << >>
         /\ half' = half \ {Now(e)}
         /\ ~disturbed' => ~disturbed /\ expected' = Stages(expected, Of(Now(e)))[Len(Of(Now(e)))]
<1>1. /\ Now(e) \in Files /\ NowVersion(e) \in Versions
      /\ Of(Now(e)) \in Seq(Stmts) /\ Len(Of(Now(e))) \in Nat
  BY AtFile
<1>2. sum[e] # None /\ sum[e] \in AllBodies /\ versionTable /\ stmts[e] = << >>
  BY DEF IInv, EngineInv, StepOK, EnginesTyped, TableInv
<1> DEFINE G == Given(sum[e])
<1>3. /\ db' = View(e) /\ recorded' = [recorded EXCEPT ![NowVersion(e)] = sum[e]]
      /\ half' = half \ {Now(e)} /\ UNCHANGED versionTable
      /\ disturbed' = (disturbed \/ sum[e] # Now(e).body)
      /\ expected' = Stages(expected, G)[Len(G)]
  BY DEF Committed, Replay
<1>9. ~disturbed' => ~disturbed /\ expected' = Stages(expected, Of(Now(e)))[Len(Of(Now(e)))]
  <2>1. ~disturbed' => ~disturbed /\ sum[e] = Now(e).body
    BY <1>3
  <2>2. parseMigrationFile(Now(e).body)
    BY <1>1 DEF Files
  <2>3. sum[e] = Now(e).body => G = Of(Now(e))
    BY <2>2 DEF Given, Of
  <2> QED BY <1>3, <2>1, <2>3
<1>4. expected' \in Databases
  <2>1. expected \in Databases
    BY DEF IInv, DataTyped
  <2>2. G \in Seq(Stmts) /\ Len(G) \in Nat
    <3>1. sum[e] \in Seq(Operations)
      BY <1>2, BodiesTyped
    <3>2. CASE parseMigrationFile(sum[e])
      BY <3>1, <3>2, StatementsTyped DEF Given
    <3>3. CASE ~parseMigrationFile(sum[e])
      BY <3>3 DEF Given
    <3> QED BY <3>2, <3>3
  <2> HIDE DEF G
  <2>3. Path(Stages(expected, G), G, 0)
    BY <2>1, <2>2, StagesPath
  <2>4. Len(G) \in 0 .. Len(G)
    BY <2>2
  <2> QED BY <1>3, <2>3, <2>4 DEF Path
<1>5. View(e) \in Databases
  BY Views
<1>6. recorded' \in [Versions -> AllBodies \cup {None}]
  BY <1>2, <1>3 DEF IInv, DataTyped
<1>7. /\ recorded'[NowVersion(e)] # None
      /\ \A v \in Versions : recorded[v] # None => recorded'[v] # None
  BY <1>1, <1>2, <1>3 DEF IInv, DataTyped
<1>8. DataTyped'
  BY <1>3, <1>4, <1>5, <1>6 DEF IInv, DataTyped
<1> QED BY <1>2, <1>3, <1>7, <1>8, <1>9

LEMMA CommitKeeps ==
  ASSUME IInv, NEW e \in Engines, Commit(e)
  PROVE  IInv' /\ Others(e) /\ pc[e] = "commit" /\ pc'[e] = "apply" /\ Committed(e) /\ UNCHANGED dir
<1>0. /\ pc[e] = "commit" /\ "apply" \in Phases /\ Committed(e)
      /\ dirty' = [dirty EXCEPT ![e] = {}] /\ todo' = [todo EXCEPT ![e] = Tail(@)]
      /\ Go(e, "apply")
      /\ UNCHANGED <<dir, seen, files, sum, stmts, drops, failed>>
  BY DEF Commit, dirVars, Phases, Migrating
<1>1. /\ DataTyped' /\ versionTable /\ versionTable' = versionTable
      /\ \A v \in Versions : recorded[v] # None => recorded'[v] # None
      /\ recorded'[NowVersion(e)] # None /\ stmts[e] = << >>
  BY <1>0, Commits
<1>2. /\ pc' \in [Engines -> Phases] /\ pc'[e] = "apply"
      /\ \A o \in Engines : o # e => pc'[o] = pc[o]
  BY <1>0, PcExcept DEF IInv
<1>3. /\ todo[e] \in Seq(Files) /\ todo[e] # << >> /\ Now(e) \in Files
  BY <1>0, AtFile
<1>4. /\ Len(todo[e]) \in Nat \ {0} /\ Head(todo[e]) = todo[e][1]
      /\ Tail(todo[e]) \in Seq(Files) /\ Len(Tail(todo[e])) = Len(todo[e]) - 1
      /\ \A j \in 1 .. Len(Tail(todo[e])) : Tail(todo[e])[j] = todo[e][j + 1]
  BY <1>3, HeadTail
<1>5. /\ todo' \in [Engines -> Seq(Files)] /\ todo'[e] = Tail(todo[e])
      /\ \A o \in Engines : o # e => todo'[o] = todo[o]
  BY <1>0, <1>4 DEF IInv, EnginesTyped
<1>6. /\ dirty' \in [Engines -> SUBSET (STRING \X STRING)] /\ dirty'[e] = {}
      /\ \A o \in Engines : o # e => dirty'[o] = dirty[o]
  BY <1>0 DEF IInv, EnginesTyped
<1>7. EnginesTyped' /\ Others(e)
  BY <1>0, <1>2, <1>5, <1>6 DEF IInv, EnginesTyped, Others, Stays
<1>8. StepOK(e) /\ GapOK(e)
  BY DEF IInv, EngineInv
<1>9. StepOK(e)' /\ RestOK(e)'
  BY <1>0, <1>2, <1>6, <1>8 DEF StepOK, RestOK
<1>10. FilesOK(e)'
  <2>1. FilesOK(e)
    BY <1>0, <1>8 DEF GapOK
  <2>2. ASSUME NEW i \in 1 .. Len(files[e])
        PROVE  \/ recorded'[Version[files[e][i].name]] # None
               \/ \E j \in 1 .. Len(Tail(todo[e])) : Tail(todo[e])[j] = files[e][i]
    <3>1. Version[files[e][i].name] \in Versions
      <4>1. files[e] \in Seq(Files)
        BY DEF IInv, EnginesTyped
      <4>2. files[e][i] \in Files
        BY <4>1
      <4> QED BY <4>2 DEF Files, Versions
    <3>2. CASE recorded[Version[files[e][i].name]] # None
      BY <1>1, <3>1, <3>2
    <3>3. CASE \E j \in 1 .. Len(todo[e]) : todo[e][j] = files[e][i]
      <4>1. PICK j \in 1 .. Len(todo[e]) : todo[e][j] = files[e][i]
        BY <3>3
      <4>2. CASE j = 1
        BY <1>1, <1>4, <4>1, <4>2 DEF NowVersion, Now
      <4>3. CASE j # 1
        <5>1. j - 1 \in 1 .. Len(Tail(todo[e])) /\ (j - 1) + 1 = j
          BY <1>4, <4>3
        <5> QED BY <1>4, <4>1, <5>1
      <4> QED BY <4>2, <4>3
    <3> QED BY <2>1, <3>2, <3>3 DEF FilesOK
  <2>3. ASSUME NEW i \in 1 .. Len(Tail(todo[e])), NEW j \in 1 .. Len(Tail(todo[e])), i < j
        PROVE  Version[Tail(todo[e])[i].name] <= Version[Tail(todo[e])[j].name]
    <3>1. i + 1 \in 1 .. Len(todo[e]) /\ j + 1 \in 1 .. Len(todo[e]) /\ i + 1 < j + 1
      BY <1>4, <2>3
    <3> QED BY <1>4, <2>1, <3>1 DEF FilesOK
  <2> QED BY <1>0, <1>5, <2>2, <2>3 DEF FilesOK
<1>11. GapOK(e)'
  BY <1>2, <1>10 DEF GapOK
<1>12. TableInv'
  BY <1>1 DEF TableInv
<1>13. Goes(e)
  BY <1>0, <1>2 DEF Goes, Ended, Migrating
<1>14. EngineInv'
  BY <1>1, <1>7, <1>9, <1>11, OthersKeep
<1> QED BY <1>0, <1>1, <1>2, <1>7, <1>12, <1>13, <1>14, GoesKeeps DEF IInv

LEMMA FaultKeeps ==
  ASSUME IInv, NEW e \in Engines, Fault(e)
  PROVE  /\ IInv' /\ Others(e) /\ AtHalf(e)' /\ pc[e] \notin Ended /\ pc'[e] = "failed"
         /\ \/ /\ UNCHANGED <<db, expected, half>>
               /\ disturbed' = (disturbed \/ pc[e] \notin Migrating)
            \/ pc[e] = "commit" /\ Committed(e) /\ UNCHANGED dir
<1>0. Quit(e, "failed") /\ "failed" \in Ended /\ UNCHANGED dir /\ pc[e] \notin Ended
  BY DEF Fault, dirVars, Ended
<1>1. CASE UNCHANGED <<dbVars, expected, half>> /\ disturbed' = (disturbed \/ pc[e] \notin Migrating)
  <2>1. UNCHANGED <<db, versionTable, recorded, expected, half>> /\ disturbed' \in BOOLEAN
    BY <1>1 DEF dbVars, IInv, DataTyped
  <2>2. DataTyped'
    BY <1>0, <2>1 DEF IInv, DataTyped
  <2>3. IInv' /\ Others(e) /\ pc'[e] = "failed" /\ AtHalf(e)'
    BY <1>0, <2>1, <2>2, QuitKeeps
  <2> QED BY <1>0, <1>1, <2>1, <2>3
<1>2. CASE pc[e] = "commit" /\ Committed(e)
  <2>1. /\ DataTyped' /\ versionTable /\ versionTable' = versionTable
        /\ \A v \in Versions : recorded[v] # None => recorded'[v] # None
    BY <1>0, <1>2, Commits
  <2>2. IInv' /\ Others(e) /\ pc'[e] = "failed" /\ AtHalf(e)'
    BY <1>0, <2>1, QuitKeeps
  <2> QED BY <1>0, <1>2, <2>2
<1> QED BY <1>1, <1>2 DEF Fault

\* An engine that drops, rebuilds or empties is alone, and the others record nothing.
LEMMA Lonely ==
  ASSUME IInv, NEW e \in Engines, pc[e] \in {"drop", "rebuild", "truncate"},
         NEW o \in Engines, o # e
  PROVE  pc[o] \in Ended
<1>1. pc[e] \notin Ended /\ pc[e] \notin Migrating
  BY DEF Ended, Migrating
<1> QED BY <1>1 DEF IInv, AloneInv

LEMMA DropUserTableKeeps ==
  ASSUME IInv, NEW e \in Engines, DropUserTable(e)
  PROVE  IInv' /\ Others(e) /\ pc[e] = "drop" /\ pc' = pc /\ UNCHANGED <<half, disturbed>>
<1>0. /\ pc[e] = "drop"
      /\ UNCHANGED <<dir, versionTable, recorded, pc, seen, files, todo, sum, stmts, dirty, failed,
                     expected, half, disturbed>>
  BY DEF DropUserTable, dirVars, histVars
<1>1. PICK t \in drops[e] : /\ db' = Effect(db, [do |-> "drop table", table |-> t])
                            /\ drops' = [drops EXCEPT ![e] = @ \ {t}]
  BY DEF DropUserTable
<1>2. db' \in Databases
  <2>1. db \in Databases
    BY DEF IInv, DataTyped
  <2>2. [do |-> "drop table", table |-> t].do = "drop table"
    OBVIOUS
  <2> QED BY <1>1, <2>1, <2>2, DropEffect
<1>3. /\ drops' \in [Engines -> SUBSET STRING] /\ \A o \in Engines : o # e => drops'[o] = drops[o]
  BY <1>1 DEF IInv, EnginesTyped
<1>4. DataTyped' /\ EnginesTyped' /\ Others(e)
  BY <1>0, <1>2, <1>3 DEF IInv, DataTyped, EnginesTyped, Others, Stays
<1>5. TableInv' /\ AloneInv'
  BY <1>0 DEF IInv, TableInv, AloneInv
<1>6. StepOK(e)
  BY DEF IInv, EngineInv
<1>7. StepOK(e)' /\ RestOK(e)' /\ GapOK(e)'
  BY <1>0, <1>6 DEF StepOK, RestOK, GapOK
<1>8. EngineInv'
  BY <1>0, <1>4, <1>7, OthersKeep
<1> QED BY <1>0, <1>4, <1>5, <1>8 DEF IInv

LEMMA DropVersionTableKeeps ==
  ASSUME IInv, NEW e \in Engines, DropVersionTable(e)
  PROVE  IInv' /\ Others(e) /\ pc[e] = "drop" /\ pc'[e] = "rebuild" /\ UNCHANGED <<half, disturbed>>
<1> DEFINE K == {r \in ToSet(SqlFile) : ~r.commented}
           kept == Keep(SqlFile, K)
           S == [i \in DOMAIN kept |-> kept[i].sql]
           R == [sql : Stmts, commented : BOOLEAN]
<1>0. /\ pc[e] = "drop" /\ "rebuild" \in Phases /\ drops[e] = {} /\ versionTable' = FALSE
      /\ recorded' = [v \in Versions |-> None]
      /\ stmts' = [stmts EXCEPT ![e] = S] /\ Go(e, "rebuild")
      /\ UNCHANGED <<dir, db, seen, files, todo, sum, dirty, drops, failed, expected, half, disturbed>>
  BY DEF DropVersionTable, dirVars, histVars, Phases
<1>1. S \in Seq(Stmts)
  <2>1. SqlFile \in Seq(R)
    BY BodiesAssumption
  <2>2. kept \in Seq(R)
    <3> HIDE DEF K, R
    <3> QED BY ONLY <2>1, Kept
  <2> HIDE DEF kept
  <2>3. DOMAIN kept = 1 .. Len(kept) /\ Len(kept) \in Nat /\ \A j \in DOMAIN kept : kept[j] \in R
    BY ONLY <2>2, SeqParts
  <2> QED BY <2>3
<1> HIDE DEF S
<1>2. /\ pc' \in [Engines -> Phases] /\ pc'[e] = "rebuild"
      /\ \A o \in Engines : o # e => pc'[o] = pc[o]
  BY <1>0, PcExcept DEF IInv
<1>3. stmts' \in [Engines -> Seq(Stmts)] /\ \A o \in Engines : o # e => stmts'[o] = stmts[o]
  BY <1>0, <1>1 DEF IInv, EnginesTyped
<1>4. recorded' \in [Versions -> AllBodies \cup {None}] /\ \A v \in Versions : recorded'[v] = None
  BY <1>0
<1>5. DataTyped' /\ EnginesTyped' /\ Others(e)
  <2>1. DataTyped'
    BY <1>0, <1>4 DEF IInv, DataTyped
  <2>2. EnginesTyped' /\ Others(e)
    BY <1>0, <1>2, <1>3 DEF IInv, EnginesTyped, Others, Stays
  <2> QED BY <2>1, <2>2
<1>6. \A o \in Engines : o # e => pc[o] \in Ended
  BY <1>0, Lonely
<1>7. TableInv'
  BY <1>2, <1>4, <1>6 DEF TableInv, Ended
<1>8. AloneInv'
  BY <1>2, <1>6 DEF AloneInv
<1>9. StepOK(e)
  BY DEF IInv, EngineInv
<1>10. StepOK(e)' /\ RestOK(e)' /\ GapOK(e)'
  BY <1>0, <1>2, <1>9 DEF StepOK, RestOK, GapOK
<1>11. EngineInv'
  BY <1>5, <1>6, <1>10, OthersKeep DEF Ended
<1> QED BY <1>0, <1>2, <1>5, <1>7, <1>8, <1>11 DEF IInv

LEMMA RebuildRunKeeps ==
  ASSUME IInv, NEW e \in Engines, RebuildRun(e)
  PROVE  IInv' /\ Others(e) /\ pc[e] = "rebuild" /\ pc' = pc /\ UNCHANGED <<half, disturbed>>
<1> DEFINE s == Head(stmts[e])
<1>0. /\ pc[e] = "rebuild" /\ stmts[e] # << >> /\ db' = Replay(db, <<s>>)
      /\ failed' = [failed EXCEPT ![e] = @ \/ Fails(db, s)]
      /\ stmts' = [stmts EXCEPT ![e] = Tail(@)]
      /\ UNCHANGED <<dir, versionTable, recorded, pc, seen, files, todo, sum, dirty, drops,
                     expected, half, disturbed>>
  BY DEF RebuildRun, dirVars, histVars
<1>1. s \in Stmts /\ Tail(stmts[e]) \in Seq(Stmts)
  <2>1. stmts[e] \in Seq(Stmts)
    BY DEF IInv, EnginesTyped
  <2> QED BY <1>0, <2>1, HeadTail
<1> HIDE DEF s
<1>2. db' \in Databases
  <2>1. db \in Databases
    BY DEF IInv, DataTyped
  <2>2. <<s>> \in Seq(Stmts) /\ Len(<<s>>) = 1
    BY <1>1
  <2>3. Path(Stages(db, <<s>>), <<s>>, 0)
    BY <2>1, <2>2, StagesPath
  <2>4. 1 \in 0 .. Len(<<s>>)
    BY <2>2
  <2> QED BY <1>0, <2>2, <2>3, <2>4 DEF Path, Replay
<1>3. stmts' \in [Engines -> Seq(Stmts)] /\ \A o \in Engines : o # e => stmts'[o] = stmts[o]
  BY <1>0, <1>1 DEF IInv, EnginesTyped
<1>4. failed' \in [Engines -> BOOLEAN] /\ \A o \in Engines : o # e => failed'[o] = failed[o]
  <2>1. (failed[e] \/ Fails(db, s)) \in BOOLEAN
    OBVIOUS
  <2> QED BY <1>0, <2>1 DEF IInv, EnginesTyped
<1>5. DataTyped' /\ EnginesTyped' /\ Others(e)
  <2>1. DataTyped'
    BY <1>0, <1>2 DEF IInv, DataTyped
  <2>2. EnginesTyped' /\ Others(e)
    BY <1>0, <1>3, <1>4 DEF IInv, EnginesTyped, Others, Stays
  <2> QED BY <2>1, <2>2
<1>6. TableInv' /\ AloneInv'
  BY <1>0 DEF IInv, TableInv, AloneInv
<1>7. StepOK(e)
  BY DEF IInv, EngineInv
<1>8. StepOK(e)' /\ RestOK(e)' /\ GapOK(e)'
  BY <1>0, <1>7 DEF StepOK, RestOK, GapOK
<1>9. EngineInv'
  BY <1>0, <1>5, <1>8, OthersKeep
<1> QED BY <1>0, <1>5, <1>6, <1>9 DEF IInv

LEMMA RebuildEndKeeps ==
  ASSUME IInv, NEW e \in Engines, RebuildEnd(e)
  PROVE  /\ IInv' /\ Others(e) /\ AtHalf(e)' /\ pc[e] = "rebuild" /\ pc'[e] \in Ended
         /\ db' = expected' /\ half' = {}
<1>0. /\ pc[e] = "rebuild" /\ expected' = db /\ half' = {}
      /\ UNCHANGED <<dir, db, versionTable, recorded, disturbed>>
  BY DEF RebuildEnd, dirVars, dbVars
<1>1. PICK to \in Ended : Quit(e, to)
  <2>1. (IF failed[e] THEN "failed" ELSE "off") \in Ended
    BY DEF Ended
  <2> QED BY <2>1 DEF RebuildEnd
<1>2. DataTyped'
  BY <1>0 DEF IInv, DataTyped
<1>3. IInv' /\ Others(e) /\ pc'[e] = to /\ AtHalf(e)'
  BY <1>0, <1>1, <1>2, QuitKeeps
<1> QED BY <1>0, <1>3

\* A table is emptied.
LEMMA RowsLess ==
  ASSUME NEW d \in Databases, NEW t
  PROVE  /\ [d EXCEPT !.rows = {r \in @ : r[1] # t}] \in Databases
         /\ Like(d, [d EXCEPT !.rows = {r \in @ : r[1] # t}], t)
         /\ \A r : ~Row([d EXCEPT !.rows = {r_1 \in @ : r_1[1] # t}], t, r)
<1> DEFINE R == {r \in d.rows : r[1] # t}
           w == [tables |-> d.tables, rows |-> R]
<1>1. [d EXCEPT !.rows = {r \in @ : r[1] # t}] = w
  BY DbParts, DbExcept
<1>2. w \in Databases
  <2>1. R \in SUBSET (STRING \X STRING)
    BY DbParts
  <2> HIDE DEF R
  <2> QED BY <2>1, DbParts, DbOf
<1>3. Like(d, w, t) /\ \A r : ~Row(w, t, r)
  BY DEF Like, There, Has, Row
<1> HIDE DEF w
<1> QED BY <1>1, <1>2, <1>3

\* Truncate empties one of the tables, of the database and of what it is to be.
Empties(t) == /\ db' = [db EXCEPT !.rows = {r \in @ : r[1] # t}]
              /\ expected' = [expected EXCEPT !.rows = {r \in @ : r[1] # t}]

LEMMA TruncateKeeps ==
  ASSUME IInv, NEW e \in Engines, Truncate(e)
  PROVE  /\ IInv' /\ Others(e) /\ pc[e] = "truncate" /\ pc'[e] \in {"off", "truncate"}
         /\ \/ UNCHANGED <<db, expected>>
            \/ \E t : Empties(t)
         /\ UNCHANGED <<half, disturbed>>
<1>0. /\ pc[e] = "truncate" /\ "off" \in Phases
      /\ UNCHANGED <<dir, versionTable, recorded, seen, files, todo, sum, stmts, dirty, failed,
                     half, disturbed>>
  BY DEF Truncate, dirVars, Phases, Ended
<1>1. StepOK(e)
  BY DEF IInv, EngineInv
<1>2. CASE drops[e] = {}
  <2>1. UNCHANGED <<db, drops, expected>> /\ Go(e, "off")
    BY <1>2 DEF Truncate
  <2>2. /\ pc' \in [Engines -> Phases] /\ pc'[e] = "off"
        /\ \A o \in Engines : o # e => pc'[o] = pc[o]
    BY <1>0, <2>1, PcExcept DEF IInv
  <2>3. DataTyped' /\ EnginesTyped' /\ Others(e)
    BY <1>0, <2>1, <2>2 DEF IInv, DataTyped, EnginesTyped, Others, Stays
  <2>4. TableInv' /\ Goes(e)
    BY <1>0, <2>2 DEF IInv, TableInv, Goes, Ended
  <2>5. StepOK(e)' /\ RestOK(e)' /\ GapOK(e)'
    BY <1>0, <1>1, <1>2, <2>1, <2>2 DEF StepOK, RestOK, GapOK
  <2>6. EngineInv'
    BY <1>0, <2>3, <2>5, OthersKeep
  <2> QED BY <1>0, <2>1, <2>2, <2>3, <2>4, <2>6, GoesKeeps DEF IInv
<1>3. CASE drops[e] # {}
  <2>1. PICK t \in drops[e] : Empties(t) /\ drops' = [drops EXCEPT ![e] = @ \ {t}]
    BY <1>3 DEF Truncate, Empties
  <2>2. pc' = pc
    BY <1>3 DEF Truncate
  <2>3. db' \in Databases /\ expected' \in Databases
    <3>1. db \in Databases /\ expected \in Databases
      BY DEF IInv, DataTyped
    <3>2. db' = [db EXCEPT !.rows = {r \in @ : r[1] # t}]
      BY <2>1 DEF Empties
    <3>3. expected' = [expected EXCEPT !.rows = {r \in @ : r[1] # t}]
      BY <2>1 DEF Empties
    <3> QED BY <3>1, <3>2, <3>3, RowsLess
  <2>4. drops' \in [Engines -> SUBSET STRING] /\ \A o \in Engines : o # e => drops'[o] = drops[o]
    BY <2>1 DEF IInv, EnginesTyped
  <2>5. DataTyped' /\ EnginesTyped' /\ Others(e)
    BY <1>0, <2>2, <2>3, <2>4 DEF IInv, DataTyped, EnginesTyped, Others, Stays
  <2>6. TableInv' /\ AloneInv'
    BY <1>0, <2>2 DEF IInv, TableInv, AloneInv
  <2>7. StepOK(e)' /\ RestOK(e)' /\ GapOK(e)'
    BY <1>0, <1>1, <2>2 DEF StepOK, RestOK, GapOK
  <2>8. EngineInv'
    BY <1>0, <2>5, <2>7, OthersKeep
  <2> QED BY <1>0, <2>1, <2>2, <2>5, <2>6, <2>8 DEF IInv
<1> QED BY <1>2, <1>3

-----------------------------------------------------------------------------
(* The other part: what a half-done file has left.                          *)

\* An engine that goes on, with the database and the histories as they were.
LEMMA HalfKept ==
  ASSUME IInv, HalfInv, NEW e \in Engines, Others(e), Goes(e),
         UNCHANGED <<db, expected, half>>,
         pc[e] \in {"drop", "rebuild"} => pc'[e] \in {"drop", "rebuild"} \/ disturbed',
         AtHalf(e)',
         pc'[e] \in {"run", "commit"} =>
            \/ Executed(e)' = 0 /\ dirty'[e] = {}
            \/ /\ pc[e] \in {"run", "commit"} /\ Now(e)' = Now(e)
               /\ Executed(e)' = Executed(e) /\ dirty'[e] = dirty[e]
  PROVE  disturbed' \/ HalfInv'
<1> SUFFICES ASSUME ~disturbed' PROVE HalfInv'
  OBVIOUS
<1>1. Single /\ Single' /\ OneHalf /\ OneHalf'
  BY GoesKeeps DEF HalfInv, OneHalf
<1>2. ASSUME NEW o \in Engines, o # e
      PROVE  /\ AtHalf(o)' /\ Stays(o)
             /\ Now(o)' = Now(o) /\ Executed(o)' = Executed(o) /\ View(o)' = View(o)
  <2>1. Stays(o) /\ AtHalf(o)
    BY <1>2 DEF Others, HalfInv
  <2>2. Now(o)' = Now(o) /\ Executed(o)' = Executed(o) /\ View(o)' = View(o)
    BY <2>1 DEF Stays, Now, Executed, View
  <2>3. AtHalf(o)'
    BY <2>1, <2>2 DEF AtHalf, Stays
  <2> QED BY <2>1, <2>2, <2>3
<1>3. \A o \in Engines : AtHalf(o)'
  BY <1>2
<1>4. ASSUME Quiet' PROVE Left'
  <2>1. Quiet
    <3> SUFFICES ASSUME NEW o \in Engines, pc[o] \in {"drop", "rebuild"} PROVE FALSE
      BY DEF Quiet
    <3>1. CASE o = e
      BY <1>4, <3>1 DEF Quiet
    <3>2. CASE o # e
      BY <1>2, <1>4, <3>2 DEF Quiet, Stays
    <3> QED BY <3>1, <3>2
  <2>2. Left
    BY <2>1 DEF HalfInv
  <2>3. ASSUME NEW f \in half PROVE HalfDone(f)'
    <3> DEFINE E == Stages(expected, Of(f))
               S == Of(f)
    <3>1. PICK m \in 0 .. Len(S) :
             /\ Path(E, S, m) /\ Agree(E, S, 0, m, db)
             /\ \A o \in Engines : pc[o] \in {"run", "commit"} /\ Now(o) = f =>
                   Executed(o) <= m /\ Agree(E, S, Executed(o), m, View(o))
      BY <2>2 DEF Left, HalfDone
    <3>2. m \in Nat
      BY <3>1 DEF Path
    <3> HIDE DEF E, S
    <3>3. ASSUME NEW o \in Engines, pc'[o] \in {"run", "commit"}, Now(o)' = f
          PROVE  Executed(o)' <= m /\ Agree(E, S, Executed(o)', m, View(o)')
      <4>1. CASE o # e
        <5>1. pc[o] \in {"run", "commit"} /\ Now(o) = f
          BY <1>2, <3>3, <4>1 DEF Stays
        <5> QED BY <1>2, <3>1, <4>1, <5>1
      <4>2. CASE o = e /\ Executed(e)' = 0 /\ dirty'[e] = {}
        <5>1. View(e)' = db
          <6>1. View(e)' = [db EXCEPT !.rows = @ \cup {}]
            BY <4>2 DEF View
          <6>2. db \in Databases /\ {} \in SUBSET (STRING \X STRING) /\ {} \subseteq db.rows
            BY DEF IInv, DataTyped
          <6>3. [db EXCEPT !.rows = @ \cup {}] = db
            BY ONLY <6>2, RowsMore
          <6> QED BY <6>1, <6>3
        <5> QED BY <3>1, <3>2, <4>2, <5>1
      <4>3. CASE o = e /\ ~(Executed(e)' = 0 /\ dirty'[e] = {})
        <5>1. /\ pc[e] \in {"run", "commit"} /\ Now(e)' = Now(e)
              /\ Executed(e)' = Executed(e) /\ dirty'[e] = dirty[e]
          BY <3>3, <4>3
        <5>2. View(e)' = View(e)
          BY <5>1 DEF View
        <5> QED BY <3>1, <3>3, <4>3, <5>1, <5>2
      <4> QED BY <4>1, <4>2, <4>3
    <3>4. m \in 0 .. Len(Of(f)) /\ Path(Stages(expected, Of(f)), Of(f), m)
          /\ Agree(Stages(expected, Of(f)), Of(f), 0, m, db)
      BY <3>1 DEF E, S
    <3> QED BY <3>3, <3>4 DEF HalfDone, E, S
  <2> QED BY <2>2, <2>3 DEF Left
<1> QED BY <1>1, <1>3, <1>4 DEF HalfInv

\* Nobody is at a file after the step.
LEMMA HalfNobody ==
  ASSUME Single', OneHalf', \A o \in Engines : pc'[o] \notin {"run", "commit"}, Quiet' => Left'
  PROVE  HalfInv'
BY DEF HalfInv, AtHalf

LEMMA LeftKept ==
  ASSUME Left, UNCHANGED <<db, expected, half>>, \A o \in Engines : pc'[o] \notin {"run", "commit"}
  PROVE  Left'
<1>1. ASSUME NEW f \in half PROVE HalfDone(f)'
  <2>1. PICK m \in 0 .. Len(Of(f)) :
           /\ Path(Stages(expected, Of(f)), Of(f), m)
           /\ Agree(Stages(expected, Of(f)), Of(f), 0, m, db)
    BY DEF Left, HalfDone
  <2> QED BY <2>1 DEF HalfDone
<1> QED BY <1>1 DEF Left

LEMMA StartHalf ==
  ASSUME IInv, disturbed \/ HalfInv, NEW e \in Engines, NEW cmd \in {"load", "drop", "truncate"},
         Start(e, cmd)
  PROVE  disturbed' \/ HalfInv'
<1> SUFFICES ASSUME ~disturbed' PROVE HalfInv'
  OBVIOUS
<1>0. Others(e) /\ pc'[e] = cmd
  BY StartKeeps
<1>1. ~disturbed /\ Busy = {} /\ UNCHANGED <<db, expected, half>>
  BY DEF Start, dbVars
<1>2. \A o \in Engines : pc[o] \in Ended
  BY <1>1 DEF Busy
<1>3. HalfInv
  BY <1>1
<1>4. \A o \in Engines : o # e => pc'[o] \in Ended
  BY <1>0, <1>2 DEF Others, Stays
<1>5. \A o \in Engines : pc'[o] \notin {"run", "commit"}
  BY <1>0, <1>4 DEF Ended
<1>6. Single' /\ OneHalf'
  BY <1>1, <1>3, <1>4 DEF Single, HalfInv, OneHalf
<1>7. Quiet
  BY <1>2 DEF Quiet, Ended
<1>8. Left'
  BY <1>1, <1>3, <1>5, <1>7, LeftKept DEF HalfInv
<1> QED BY <1>5, <1>6, <1>8, HalfNobody

\* Tables are dropped, or a file of statements is executed by rebuild.
LEMMA RebuildHalf ==
  ASSUME IInv, HalfInv, NEW e \in Engines, Others(e), pc[e] \in {"drop", "rebuild"},
         pc'[e] \in {"drop", "rebuild"}, half' = half
  PROVE  HalfInv'
<1>1. Goes(e)
  BY DEF Goes, Ended, Migrating
<1>2. Single' /\ OneHalf'
  BY <1>1, GoesKeeps DEF HalfInv, OneHalf
<1>3. \A o \in Engines : pc'[o] \notin {"run", "commit"}
  BY Lonely DEF Others, Stays, Ended
<1>4. ~Quiet'
  BY DEF Quiet
<1> QED BY <1>2, <1>3, <1>4, HalfNobody

LEMMA RebuildEndHalf ==
  ASSUME IInv, disturbed \/ HalfInv, NEW e \in Engines, RebuildEnd(e)
  PROVE  disturbed' \/ HalfInv'
<1>1. Others(e) /\ pc[e] = "rebuild" /\ pc'[e] \in Ended /\ db' = expected' /\ half' = {}
  BY RebuildEndKeeps
<1>2. \A o \in Engines : pc'[o] \in Ended
  BY <1>1, Lonely DEF Others, Stays
<1>3. Single' /\ OneHalf' /\ Left'
  BY <1>1, <1>2 DEF Single, OneHalf, Left
<1>4. \A o \in Engines : pc'[o] \notin {"run", "commit"}
  BY <1>2 DEF Ended
<1> QED BY <1>3, <1>4, HalfNobody

LEMMA TruncateHalf ==
  ASSUME IInv, HalfInv, NEW e \in Engines, Truncate(e)
  PROVE  HalfInv'
<1>1. /\ Others(e) /\ pc[e] = "truncate" /\ pc'[e] \in {"off", "truncate"}
      /\ UNCHANGED <<db, expected>> \/ \E t : Empties(t)
      /\ half' = half
  BY TruncateKeeps
<1>2. Goes(e)
  BY <1>1 DEF Goes, Ended, Migrating
<1>3. Single' /\ OneHalf'
  BY <1>1, <1>2, GoesKeeps DEF HalfInv, OneHalf
<1>4. \A o \in Engines : o # e => pc[o] \in Ended
  BY <1>1, Lonely
<1>5. \A o \in Engines : pc'[o] \notin {"run", "commit"}
  BY <1>1, <1>4 DEF Others, Stays, Ended
<1>6. Left
  <2>1. Quiet
    BY <1>1, <1>4 DEF Quiet, Ended
  <2> QED BY <2>1 DEF HalfInv
<1>7. CASE UNCHANGED <<db, expected>>
  <2>1. Left'
    BY <1>1, <1>5, <1>6, <1>7, LeftKept
  <2> QED BY <1>3, <1>5, <2>1, HalfNobody
<1>8. ASSUME NEW t, Empties(t) PROVE HalfInv'
  <2>1. db \in Databases /\ expected \in Databases
    BY DEF IInv, DataTyped
  <2>2. Like(db, db', t) /\ \A r : ~Row(db', t, r)
    <3>1. db' = [db EXCEPT !.rows = {r \in @ : r[1] # t}]
      BY <1>8 DEF Empties
    <3> QED BY <2>1, <3>1, RowsLess
  <2>3. expected' \in Databases /\ Like(expected, expected', t) /\ \A r : ~Row(expected', t, r)
    <3>1. expected' = [expected EXCEPT !.rows = {r \in @ : r[1] # t}]
      BY <1>8 DEF Empties
    <3> QED BY <2>1, <3>1, RowsLess
  <2>4. ASSUME half' = {} PROVE db' = expected'
    <3>1. db = expected
      BY <1>1, <1>6, <2>4 DEF Left
    <3> QED BY <1>8, <3>1 DEF Empties
  <2>5. ASSUME NEW f \in half' PROVE HalfDone(f)'
    <3> DEFINE S == Of(f)
               E == Stages(expected, S)
               F == Stages(expected', S)
    <3>1. PICK m \in 0 .. Len(S) : Path(E, S, m) /\ Agree(E, S, 0, m, db)
      BY <1>1, <1>6 DEF Left, HalfDone
    <3>2. S \in Seq(Stmts)
      <4>1. f \in Files
        BY <1>1 DEF IInv, DataTyped
      <4> QED BY <4>1, FileTyped
    <3> HIDE DEF S
    <3>3. Path(F, S, m) /\ \A n \in 0 .. Len(S) : Like(E[n], F[n], t)
      BY <2>1, <2>3, <3>1, <3>2, StagesLike
    <3>4. F[0] = expected'
      BY <2>3, <3>2, StagesPath
    <3> HIDE DEF E, F
    <3>5. Agree(F, S, 0, m, db')
      BY <2>2, <2>3, <3>1, <3>3, <3>4, AgreeEmptied
    <3>6. /\ m \in 0 .. Len(Of(f)) /\ Path(Stages(expected', Of(f)), Of(f), m)
          /\ Agree(Stages(expected', Of(f)), Of(f), 0, m, db')
      BY <3>1, <3>3, <3>5 DEF S, E, F
    <3> QED BY <1>5, <3>6 DEF HalfDone
  <2>6. Left'
    BY <2>4, <2>5 DEF Left
  <2> QED BY <1>3, <1>5, <2>6, HalfNobody
<1> QED BY <1>1, <1>7, <1>8

\* An engine that migrates: the file it is at, if any, is the half-done one.
LEMMA AtHalfDone ==
  ASSUME IInv, HalfInv, NEW e \in Engines, pc[e] \in {"run", "commit"}, half \subseteq {Now(e)}
  PROVE  /\ \A o \in Engines : o # e => pc[o] \in Ended
         /\ \E m \in 0 .. Len(Of(Now(e))) :
               /\ Path(Stages(expected, Of(Now(e))), Of(Now(e)), m)
               /\ Agree(Stages(expected, Of(Now(e))), Of(Now(e)), 0, m, db)
               /\ Executed(e) <= m
               /\ Agree(Stages(expected, Of(Now(e))), Of(Now(e)), Executed(e), m, View(e))
<1> DEFINE S == Of(Now(e))
           E == Stages(expected, S)
<1>1. \A o \in Engines : o # e => pc[o] \in Ended
  BY DEF HalfInv, Single, Ended
<1>2. Left
  <2>1. Quiet
    BY <1>1 DEF Quiet, Ended
  <2> QED BY <2>1 DEF HalfInv
<1>3. CASE Now(e) \in half
  <2>1. HalfDone(Now(e))
    BY <1>2, <1>3 DEF Left
  <2> QED BY <1>1, <2>1 DEF HalfDone
<1>4. CASE Now(e) \notin half
  <2>1. db = expected
    <3>1. half = {}
      BY <1>4
    <3> QED BY <1>2, <3>1 DEF Left
  <2>2. Executed(e) = 0 /\ dirty[e] = {}
    BY <1>4 DEF HalfInv, AtHalf
  <2>3. View(e) = db
    BY <2>2, Views
  <2>4. S \in Seq(Stmts) /\ Len(S) \in Nat
    BY AtFile
  <2>5. expected \in Databases
    BY DEF IInv, DataTyped
  <2> HIDE DEF S
  <2>6. Path(E, S, 0) /\ E[0] = expected
    BY <2>4, <2>5, StagesPath
  <2> HIDE DEF E
  <2>7. Agree(E, S, 0, 0, db)
    BY <2>1, <2>6, AgreeFirst
  <2>8. 0 \in 0 .. Len(S) /\ 0 <= 0
    BY <2>4
  <2>9. \E m \in 0 .. Len(S) : /\ Path(E, S, m) /\ Agree(E, S, 0, m, db)
                               /\ 0 <= m /\ Agree(E, S, 0, m, db)
    BY <2>6, <2>7, <2>8
  <2> QED BY <1>1, <2>2, <2>3, <2>9 DEF S, E
<1> QED BY <1>3, <1>4

\* After the step engine e is at most at the one file that is half done.
LEMMA HalfAt ==
  ASSUME Single', NEW e \in Engines, \A o \in Engines : o # e => pc'[o] \in Ended,
         NEW f, half' = {f},
         NEW m \in 0 .. Len(Of(f)), Path(Stages(expected', Of(f)), Of(f), m),
         Agree(Stages(expected', Of(f)), Of(f), 0, m, db'),
         pc'[e] \in {"run", "commit"} =>
            /\ Now(e)' = f /\ Executed(e)' <= m
            /\ Agree(Stages(expected', Of(f)), Of(f), Executed(e)', m, View(e)')
  PROVE  HalfInv'
<1>1. \A o \in Engines : o # e => pc'[o] \notin {"run", "commit"}
  BY DEF Ended
<1>2. ASSUME NEW o \in Engines PROVE AtHalf(o)'
  <2>1. CASE o = e
    BY <2>1 DEF AtHalf
  <2>2. CASE o # e
    BY <1>1, <2>2 DEF AtHalf
  <2> QED BY <2>1, <2>2
<1>3. HalfDone(f)'
  <2>1. ASSUME NEW o \in Engines, pc'[o] \in {"run", "commit"}, Now(o)' = f
        PROVE  /\ Executed(o)' <= m
               /\ Agree(Stages(expected', Of(f)), Of(f), Executed(o)', m, View(o)')
    <3>1. o = e
      BY <1>1, <2>1
    <3> QED BY <2>1, <3>1
  <2> QED BY <2>1 DEF HalfDone
<1>4. Left' /\ OneHalf'
  BY <1>3 DEF Left, OneHalf
<1> QED BY <1>2, <1>4 DEF HalfInv

\* The rows a file found are there until their table is dropped.
LEMMA FirstRows ==
  ASSUME NEW E, NEW S, NEW m, NEW d, Agree(E, S, 0, m, d)
  PROVE  \A t, r : ~Dropped(S, m, t) /\ Row(E[0], t, r) => Row(d, t, r)
BY DEF Agree, AgreeOn

LEMMA ImplicitCommitHalf ==
  ASSUME IInv, HalfInv, NEW e \in Engines, ImplicitCommit(e)
  PROVE  HalfInv'
<1> DEFINE f == Now(e)
           S == Of(f)
           E == Stages(expected, S)
           k == Executed(e)
<1>1. /\ Others(e) /\ pc[e] = "run" /\ pc'[e] = "run"
      /\ Now(e)' = f /\ Executed(e)' = k
      /\ db' = View(e) /\ View(e)' = View(e) /\ dirty[e] # {}
      /\ expected' = expected /\ half' = half
  BY ImplicitCommitKeeps
<1>2. Single'
  <2>1. Goes(e)
    BY <1>1 DEF Goes
  <2> QED BY <1>1, <2>1, GoesKeeps DEF HalfInv
<1>3. half = {f}
  BY <1>1 DEF HalfInv, AtHalf, OneHalf
<1>4. PICK m \in 0 .. Len(S) :
         /\ Path(E, S, m) /\ Agree(E, S, 0, m, db) /\ k <= m /\ Agree(E, S, k, m, View(e))
  BY <1>1, <1>3, AtHalfDone
<1>5. \A o \in Engines : o # e => pc'[o] \in Ended
  BY <1>1, <1>3, AtHalfDone DEF Others, Stays
<1>6. k \in Nat
  BY <1>1, AtFile
<1>7. \A t, r : Row(db, t, r) => Row(View(e), t, r)
  BY Views
<1> HIDE DEF E, S, k
<1>8. \A t, r : ~Dropped(S, m, t) /\ Row(E[0], t, r) => Row(View(e), t, r)
  BY <1>4, <1>7, FirstRows
<1>9. Agree(E, S, 0, m, View(e))
  BY <1>4, <1>6, <1>8, AgreeBack
<1>10. /\ m \in 0 .. Len(Of(f)) /\ Path(Stages(expected', Of(f)), Of(f), m)
       /\ Agree(Stages(expected', Of(f)), Of(f), 0, m, db')
       /\ Now(e)' = f /\ Executed(e)' <= m
       /\ Agree(Stages(expected', Of(f)), Of(f), Executed(e)', m, View(e)')
  BY <1>1, <1>4, <1>9 DEF E, S, k
<1> HIDE DEF f
<1> QED BY <1>1, <1>2, <1>3, <1>5, <1>10, HalfAt

LEMMA RunHalf ==
  ASSUME IInv, disturbed \/ HalfInv, NEW e \in Engines, Run(e)
  PROVE  disturbed' \/ HalfInv'
<1> SUFFICES ASSUME ~disturbed' PROVE HalfInv'
  OBVIOUS
<1> DEFINE f == Now(e)
           S == Of(f)
           E == Stages(expected, S)
           k == Executed(e)
           s == Head(stmts[e])
           d == View(e)
           w == Effect(d, s)
<1>1. /\ Others(e) /\ pc[e] = "run" /\ stmts[e] # << >>
      /\ (pc'[e] = "failed" /\ db' = db) \/ RunOne(e, s)
      /\ half' = half \cup {f} /\ expected' = expected
      /\ disturbed' = (disturbed \/ ~(half \subseteq {f}))
  BY RunKeeps
<1>2. HalfInv /\ half \subseteq {f} /\ half' = {f}
  BY <1>1
<1>3. Single'
  <2>1. Goes(e)
    BY <1>1 DEF Goes, Ended, RunOne
  <2> QED BY <1>1, <1>2, <2>1, GoesKeeps DEF HalfInv
<1>4. PICK m \in 0 .. Len(S) :
         /\ Path(E, S, m) /\ Agree(E, S, 0, m, db) /\ k <= m /\ Agree(E, S, k, m, d)
  BY <1>1, <1>2, AtHalfDone
<1>5. \A o \in Engines : o # e => pc'[o] \in Ended
  BY <1>1, <1>2, AtHalfDone DEF Others, Stays
<1>6. /\ S \in Seq(Stmts) /\ Len(S) \in Nat /\ k \in Nat /\ k < Len(S)
      /\ s \in Stmts /\ s = S[k + 1]
  BY <1>1, AtFile
<1>7. CASE pc'[e] = "failed" /\ db' = db
  <2>1. /\ m \in 0 .. Len(Of(f)) /\ Path(Stages(expected', Of(f)), Of(f), m)
        /\ Agree(Stages(expected', Of(f)), Of(f), 0, m, db')
    BY <1>1, <1>4, <1>7
  <2>2. pc'[e] \notin {"run", "commit"}
    BY <1>7
  <2> HIDE DEF f
  <2> QED BY <1>2, <1>3, <1>5, <2>1, <2>2, HalfAt
<1>8. CASE RunOne(e, s)
  <2>1. /\ ~Fails(d, s) /\ Now(e)' = f /\ Executed(e)' = k + 1 /\ View(e)' = w
        /\ \/ db' = w /\ db = d
           \/ s.do = "insert" /\ db' = db
    BY <1>8 DEF RunOne, IsDDL
  <2>2. /\ d \in Databases /\ db \in Databases
        /\ \A t : There(d, t) <=> There(db, t)
        /\ \A t, x : Has(d, t, x) <=> Has(db, t, x)
        /\ \A t, r : Row(db, t, r) => Row(d, t, r)
    BY Views
  <2> HIDE DEF E, S, k, s, d, f
  <2>3. PICK n \in 0 .. Len(S) :
           Path(E, S, n) /\ m <= n /\ k + 1 <= n /\ Agree(E, S, k + 1, n, w)
    <3>1. CASE k < m
      <4>1. Agree(E, S, k + 1, m, w)
        BY <1>4, <1>6, <2>1, <2>2, <3>1, AgreeNext
      <4>2. m <= m /\ k + 1 <= m
        BY <1>4, <1>6, <3>1
      <4> HIDE DEF w
      <4> QED BY <1>4, <4>1, <4>2
    <3>2. CASE k = m
      <4>1. m < Len(S) /\ Agree(E, S, m, m, d) /\ ~Fails(d, S[m + 1])
        BY <1>4, <1>6, <2>1, <3>2
      <4>2. Path(E, S, m + 1) /\ Agree(E, S, m + 1, m + 1, Effect(d, S[m + 1]))
        BY <1>4, <2>2, <4>1, AgreeMore
      <4>3. m + 1 \in 0 .. Len(S) /\ m <= m + 1 /\ k + 1 <= m + 1 /\ k + 1 = m + 1
        BY <1>4, <1>6, <3>2, <4>1
      <4>4. Agree(E, S, k + 1, m + 1, w)
        BY <1>6, <3>2, <4>2
      <4> HIDE DEF w
      <4> QED BY <4>2, <4>3, <4>4
    <3>3. k < m \/ k = m
      BY <1>4, <1>6
    <3> QED BY <3>1, <3>2, <3>3
  <2>4. /\ \A t : There(db', t) <=> There(w, t)
        /\ \A t, x : Has(db', t, x) <=> Has(w, t, x)
        /\ \A t, r : Row(db', t, r) => Row(w, t, r)
    <3>1. CASE s.do = "insert" /\ db' = db
      BY <1>6, <2>2, <3>1, InsertEffect
    <3>2. CASE db' = w
      <4> HIDE DEF w
      <4> QED BY <3>2
    <3> QED BY <2>1, <3>1, <3>2
  <2>5. ASSUME NEW t, NEW r, ~Dropped(S, n, t), Row(E[0], t, r) PROVE Row(db', t, r)
    <3>1. m \in Nat /\ n \in Nat /\ k + 1 \in 1 .. n
      BY <1>4, <1>6, <2>3
    <3>2. ~Dropped(S, m, t)
      BY <2>3, <2>5, <3>1, Wider
    <3>3. Row(db, t, r)
      BY <1>4, <2>5, <3>2, FirstRows
    <3>4. CASE db' = db
      BY <3>3, <3>4
    <3>5. CASE db' = w /\ db = d
      <4>1. ~(s.do = "drop table" /\ s.table = t)
        BY <1>6, <2>5, <3>1 DEF Dropped
      <4>2. Row(w, t, r)
        BY <1>6, <2>1, <2>2, <3>3, <3>5, <4>1, OneGrows
      <4> HIDE DEF w
      <4> QED BY <3>5, <4>2
    <3> QED BY <2>1, <3>4, <3>5
  <2> HIDE DEF w
  <2>6. Agree(E, S, 0, n, db')
    <3>1. k + 1 \in Nat
      BY <1>6
    <3> QED BY <2>3, <2>4, <2>5, <3>1, AgreeBack
  <2>7. /\ n \in 0 .. Len(Of(f)) /\ Path(Stages(expected', Of(f)), Of(f), n)
        /\ Agree(Stages(expected', Of(f)), Of(f), 0, n, db')
        /\ Now(e)' = f /\ Executed(e)' <= n
        /\ Agree(Stages(expected', Of(f)), Of(f), Executed(e)', n, View(e)')
    BY <1>1, <2>1, <2>3, <2>6 DEF E, S
  <2> QED BY <1>2, <1>3, <1>5, <2>7, HalfAt
<1> QED BY <1>1, <1>7, <1>8

LEMMA CommittedHalf ==
  ASSUME IInv, HalfInv, NEW e \in Engines, pc[e] = "commit", Committed(e), UNCHANGED dir,
         Others(e), pc'[e] \in {"apply", "failed"}, ~disturbed'
  PROVE  HalfInv'
<1> DEFINE f == Now(e)
           S == Of(f)
           E == Stages(expected, S)
<1>1. /\ db' = View(e) /\ stmts[e] = << >> /\ expected' = E[Len(S)] /\ half' = half \ {f}
  BY Commits
<1>2. /\ Single' /\ OneHalf' /\ AtHalf(e) /\ OneHalf
  <2>1. Goes(e)
    BY DEF Goes, Ended, Migrating
  <2> QED BY <1>1, <2>1, GoesKeeps DEF HalfInv, OneHalf
<1>3. \A o \in Engines : o # e => pc[o] \in Ended
  BY DEF HalfInv, Single, Ended
<1>4. \A o \in Engines : pc'[o] \notin {"run", "commit"}
  BY <1>3 DEF Others, Stays, Ended
<1>5. /\ Executed(e) = Len(S) /\ S \in Seq(Stmts) /\ Len(S) \in Nat
  <2>1. S \in Seq(Stmts) /\ Len(S) \in Nat /\ Executed(e) = Len(S) - Len(stmts[e])
    BY AtFile
  <2>2. Len(stmts[e]) = 0
    BY <1>1
  <2> QED BY <2>1, <2>2
<1>6. CASE f \in half
  <2>1. half = {f}
    BY <1>2, <1>6 DEF OneHalf
  <2>2. PICK m \in 0 .. Len(S) : /\ Path(E, S, m) /\ Executed(e) <= m
                                 /\ Agree(E, S, Executed(e), m, View(e))
    BY <2>1, AtHalfDone
  <2>3. m = Len(S)
    BY <1>5, <2>2
  <2>4. View(e) \in Databases
    BY Views
  <2> HIDE DEF E, S
  <2>5. View(e) = E[m]
    BY <1>5, <2>2, <2>3, <2>4, AgreeFull
  <2>6. Left'
    BY <1>1, <2>1, <2>3, <2>5 DEF Left
  <2> QED BY <1>2, <1>4, <2>6, HalfNobody
<1>7. CASE f \notin half
  <2>1. Executed(e) = 0 /\ dirty[e] = {}
    BY <1>2, <1>7 DEF AtHalf
  <2>2. db' = db
    BY <1>1, <2>1, Views
  <2>3. expected' = expected
    <3>1. expected \in Databases
      BY DEF IInv, DataTyped
    <3> HIDE DEF S
    <3>2. E[0] = expected
      BY <1>5, <3>1, StagesPath
    <3> QED BY <1>1, <1>5, <2>1, <3>2
  <2>4. half' = half
    BY <1>1, <1>7
  <2>5. Left
    <3>1. Quiet
      BY <1>3 DEF Quiet, Ended
    <3> QED BY <3>1 DEF HalfInv
  <2>6. Left'
    BY <1>4, <2>2, <2>3, <2>4, <2>5, LeftKept
  <2> QED BY <1>2, <1>4, <2>6, HalfNobody
<1> QED BY <1>6, <1>7

LEMMA DirHalf ==
  ASSUME HalfInv, UNCHANGED <<db, pc, todo, stmts, dirty, expected, half>>
  PROVE  HalfInv'
<1>1. ASSUME NEW e PROVE Now(e)' = Now(e) /\ Executed(e)' = Executed(e) /\ View(e)' = View(e)
  BY DEF Now, Executed, View
<1>2. Single' /\ OneHalf'
  BY DEF HalfInv, Single, OneHalf
<1>3. \A e \in Engines : AtHalf(e)'
  BY <1>1 DEF HalfInv, AtHalf
<1>4. ASSUME NEW f, HalfDone(f) PROVE HalfDone(f)'
  <2>1. PICK m \in 0 .. Len(Of(f)) :
           /\ Path(Stages(expected, Of(f)), Of(f), m)
           /\ Agree(Stages(expected, Of(f)), Of(f), 0, m, db)
           /\ \A e \in Engines : pc[e] \in {"run", "commit"} /\ Now(e) = f =>
                 /\ Executed(e) <= m
                 /\ Agree(Stages(expected, Of(f)), Of(f), Executed(e), m, View(e))
    BY <1>4 DEF HalfDone
  <2>2. ASSUME NEW e \in Engines, pc'[e] \in {"run", "commit"}, Now(e)' = f
        PROVE  /\ Executed(e)' <= m
               /\ Agree(Stages(expected', Of(f)), Of(f), Executed(e)', m, View(e)')
    BY <1>1, <2>1, <2>2
  <2> QED BY <2>1, <2>2 DEF HalfDone
<1>5. Quiet' => Left'
  BY <1>4 DEF HalfInv, Quiet, Left
<1> QED BY <1>2, <1>3, <1>5 DEF HalfInv

-----------------------------------------------------------------------------
(* The invariant holds.                                                     *)

LEMMA InitInv == Init => MigInv
<1> SUFFICES ASSUME Init PROVE MigInv
  OBVIOUS
<1>1. dir \in [Names -> AllBodies \cup {None}]
  <2>1. dir = [n \in Names |-> dir[n]] /\ \A n \in Names : dir[n] \in Bodies[n] \cup {None}
    BY FirstDirsAssumption DEF Init
  <2>2. \A n \in Names : dir[n] \in AllBodies \cup {None}
    BY <2>1, BodiesTyped
  <2> QED BY <2>1, <2>2
<1>2. EmptyDb \in Databases
  <2>1. << >> \in [{} -> SUBSET STRING] /\ {} \in SUBSET STRING /\ {} \in SUBSET (STRING \X STRING)
    OBVIOUS
  <2> QED BY <2>1, DbOf DEF EmptyDb
<1>3. /\ db = EmptyDb /\ expected = EmptyDb /\ half = {} /\ disturbed = FALSE /\ versionTable = FALSE
      /\ recorded = [v \in Versions |-> None]
      /\ pc = [e \in Engines |-> "off"] /\ seen = [e \in Engines |-> recorded]
      /\ files = [e \in Engines |-> << >>] /\ todo = [e \in Engines |-> << >>]
      /\ stmts = [e \in Engines |-> << >>] /\ sum = [e \in Engines |-> None]
      /\ dirty = [e \in Engines |-> {}] /\ drops = [e \in Engines |-> {}]
      /\ failed = [e \in Engines |-> FALSE]
  BY DEF Init
<1>4. recorded \in [Versions -> AllBodies \cup {None}]
  BY <1>3
<1>5. DataTyped
  BY <1>1, <1>2, <1>3, <1>4 DEF DataTyped
<1>6. "off" \in Phases /\ "off" \in Ended
  BY DEF Phases, Ended
<1>7. EnginesTyped
  <2>1. << >> \in Seq(Files) /\ << >> \in Seq(Stmts)
    OBVIOUS
  <2> QED BY <1>3, <1>4, <1>6, <2>1 DEF EnginesTyped
<1>8. TableInv /\ AloneInv
  BY <1>3, <1>6 DEF TableInv, AloneInv
<1>9. EngineInv
  BY <1>3 DEF EngineInv, StepOK, RestOK, GapOK
<1>10. HalfInv
  BY <1>3, <1>6 DEF HalfInv, Single, OneHalf, AtHalf, Left
<1> QED BY <1>5, <1>7, <1>8, <1>9, <1>10 DEF MigInv, IInv

LEMMA NextInv == MigInv /\ [Next]_vars => MigInv'
<1> SUFFICES ASSUME IInv, disturbed \/ HalfInv, [Next]_vars PROVE IInv' /\ (disturbed' \/ HalfInv')
  BY DEF MigInv
<1>1. ASSUME NEW n \in Names, createMigrationFile(n) \/ importSchema(n) \/ Edit(n)
      PROVE  IInv' /\ (disturbed' \/ HalfInv')
  <2>1. PICK body \in AllBodies \cup {None} : Change(n, body)
    BY <1>1, BodiesTyped DEF createMigrationFile, importSchema, Edit
  <2>2. dir' \in [Names -> AllBodies \cup {None}]
    BY <2>1 DEF Change, IInv, DataTyped
  <2>3. UNCHANGED <<db, versionTable, recorded, pc, seen, files, todo, sum, stmts, dirty, drops, failed,
                    expected, half, disturbed>>
    BY <2>1 DEF Change, dbVars, engineVars, histVars
  <2> QED BY <2>2, <2>3, DirKeeps, DirHalf
<1>2. ASSUME NEW e \in Engines, NEW cmd \in {"load", "drop", "truncate"}, Start(e, cmd)
      PROVE  IInv' /\ (disturbed' \/ HalfInv')
  BY <1>2, StartKeeps, StartHalf
<1>3. ASSUME NEW e \in Engines, Load(e) PROVE IInv' /\ (disturbed' \/ HalfInv')
  <2>1. IInv' /\ Others(e) /\ pc[e] = "load" /\ pc'[e] = "check"
    BY <1>3, LoadKeeps
  <2>2. UNCHANGED <<db, expected, half, disturbed>>
    BY <1>3 DEF Load, histVars
  <2>3. Goes(e) /\ AtHalf(e)'
    BY <2>1 DEF Goes, Ended, Migrating, AtHalf
  <2> QED BY <2>1, <2>2, <2>3, HalfKept
<1>4. ASSUME NEW e \in Engines, Check(e) PROVE IInv' /\ (disturbed' \/ HalfInv')
  <2>1. IInv' /\ Others(e) /\ pc[e] = "check" /\ pc'[e] \in {"apply", "failed"}
    BY <1>4, CheckKeeps
  <2>2. UNCHANGED <<db, expected, half, disturbed>>
    BY <1>4 DEF Check, dbVars, histVars
  <2>3. Goes(e) /\ AtHalf(e)'
    BY <2>1 DEF Goes, Ended, Migrating, AtHalf
  <2> QED BY <2>1, <2>2, <2>3, HalfKept
<1>5. ASSUME NEW e \in Engines, Apply(e) PROVE IInv' /\ (disturbed' \/ HalfInv')
  <2>1. /\ IInv' /\ Others(e) /\ pc[e] = "apply"
        /\ \/ pc'[e] = "ok"
           \/ pc'[e] = "run" /\ Executed(e)' = 0 /\ dirty'[e] = {}
    BY <1>5, ApplyKeeps
  <2>2. UNCHANGED <<db, expected, half, disturbed>>
    BY <1>5 DEF Apply, dbVars, histVars
  <2>3. Goes(e) /\ AtHalf(e)'
    BY <2>1 DEF Goes, Ended, Migrating, AtHalf
  <2> QED BY <2>1, <2>2, <2>3, HalfKept
<1>6. ASSUME NEW e \in Engines, ImplicitCommit(e) PROVE IInv' /\ (disturbed' \/ HalfInv')
  BY <1>6, ImplicitCommitKeeps, ImplicitCommitHalf
<1>7. ASSUME NEW e \in Engines, Run(e) PROVE IInv' /\ (disturbed' \/ HalfInv')
  BY <1>7, RunKeeps, RunHalf
<1>8. ASSUME NEW e \in Engines, Record(e) PROVE IInv' /\ (disturbed' \/ HalfInv')
  <2>1. /\ IInv' /\ Others(e) /\ pc[e] = "run"
        /\ \/ pc'[e] = "failed"
           \/ /\ pc'[e] = "commit" /\ Now(e)' = Now(e) /\ Executed(e)' = Executed(e)
              /\ dirty' = dirty
        /\ UNCHANGED <<db, expected, half, disturbed>>
    BY <1>8, RecordKeeps
  <2>2. Goes(e)
    BY <2>1 DEF Goes, Ended, Migrating
  <2>3. disturbed \/ AtHalf(e)'
    BY <2>1 DEF HalfInv, AtHalf
  <2> QED BY <2>1, <2>2, <2>3, HalfKept
<1>9. ASSUME NEW e \in Engines, Commit(e) PROVE IInv' /\ (disturbed' \/ HalfInv')
  <2>1. /\ IInv' /\ Others(e) /\ pc[e] = "commit" /\ pc'[e] = "apply" /\ Committed(e)
        /\ UNCHANGED dir
    BY <1>9, CommitKeeps
  <2>2. disturbed => disturbed'
    BY <2>1 DEF Committed
  <2> QED BY <2>1, <2>2, CommittedHalf
<1>10. ASSUME NEW e \in Engines, Fault(e) PROVE IInv' /\ (disturbed' \/ HalfInv')
  <2>1. /\ IInv' /\ Others(e) /\ AtHalf(e)' /\ pc[e] \notin Ended /\ pc'[e] = "failed"
        /\ \/ /\ UNCHANGED <<db, expected, half>>
              /\ disturbed' = (disturbed \/ pc[e] \notin Migrating)
           \/ pc[e] = "commit" /\ Committed(e) /\ UNCHANGED dir
    BY <1>10, FaultKeeps
  <2>2. CASE UNCHANGED <<db, expected, half>> /\ disturbed' = (disturbed \/ pc[e] \notin Migrating)
    <3>1. Goes(e)
      BY <2>1 DEF Goes, Ended
    <3>2. pc[e] \in {"drop", "rebuild"} => disturbed'
      BY <2>2 DEF Migrating
    <3> QED BY <2>1, <2>2, <3>1, <3>2, HalfKept
  <2>3. CASE pc[e] = "commit" /\ Committed(e) /\ UNCHANGED dir
    <3>1. disturbed => disturbed'
      BY <2>3 DEF Committed
    <3> QED BY <2>1, <2>3, <3>1, CommittedHalf
  <2> QED BY <2>1, <2>2, <2>3
<1>11. ASSUME NEW e \in Engines, DropUserTable(e) PROVE IInv' /\ (disturbed' \/ HalfInv')
  BY <1>11, DropUserTableKeeps, RebuildHalf
<1>12. ASSUME NEW e \in Engines, DropVersionTable(e) PROVE IInv' /\ (disturbed' \/ HalfInv')
  BY <1>12, DropVersionTableKeeps, RebuildHalf
<1>13. ASSUME NEW e \in Engines, RebuildRun(e) PROVE IInv' /\ (disturbed' \/ HalfInv')
  BY <1>13, RebuildRunKeeps, RebuildHalf
<1>14. ASSUME NEW e \in Engines, RebuildEnd(e) PROVE IInv' /\ (disturbed' \/ HalfInv')
  BY <1>14, RebuildEndKeeps, RebuildEndHalf
<1>15. ASSUME NEW e \in Engines, Truncate(e) PROVE IInv' /\ (disturbed' \/ HalfInv')
  BY <1>15, TruncateKeeps, TruncateHalf
<1>16. CASE UNCHANGED vars
  <2>1. UNCHANGED <<dir, db, versionTable, recorded, pc, seen, files, todo, sum, stmts, dirty, drops, failed,
                    expected, half, disturbed>>
    BY <1>16 DEF vars, dirVars, dbVars, engineVars, histVars
  <2>2. dir' \in [Names -> AllBodies \cup {None}]
    BY <2>1 DEF IInv, DataTyped
  <2> QED BY <2>1, <2>2, DirKeeps, DirHalf
<1> QED BY <1>1, <1>2, <1>3, <1>4, <1>5, <1>6, <1>7, <1>8, <1>9, <1>10, <1>11, <1>12, <1>13, <1>14, <1>15,
           <1>16 DEF Next, Engine

LEMMA Invariant == Spec => []MigInv
<1>1. Init => MigInv
  BY InitInv
<1>2. MigInv /\ [Next]_vars => MigInv'
  BY NextInv
<1> QED BY <1>1, <1>2, PTL DEF Spec

\* A file is executed or recorded only when every file of a lower number that the engine
\* has found is recorded, for any number of engines, files and files of one number
\* (MigrationEngine::migrate).
THEOREM NoGapCorrect == Spec => []NoGap
<1>1. ASSUME MigInv PROVE NoGap
  <2> SUFFICES ASSUME NEW e \in Engines, pc[e] \in {"run", "commit"}, NEW i \in DOMAIN files[e],
                      Version[files[e][i].name] < NowVersion(e),
                      recorded[Version[files[e][i].name]] = None
               PROVE  FALSE
    BY DEF NoGap
  <2>1. IInv /\ FilesOK(e)
    BY <1>1 DEF MigInv, IInv, EngineInv, GapOK
  <2>2. files[e] \in Seq(Files) /\ todo[e] \in Seq(Files) /\ todo[e] # << >>
    BY <2>1, AtFile DEF IInv, EnginesTyped
  <2>3. i \in 1 .. Len(files[e])
    BY <2>2
  <2>4. PICK j \in 1 .. Len(todo[e]) : todo[e][j] = files[e][i]
    BY <2>1, <2>3 DEF FilesOK
  <2>5. Len(todo[e]) \in Nat \ {0} /\ Now(e) = todo[e][1]
    BY <2>2, HeadTail DEF Now
  <2>6. NowVersion(e) \in Nat /\ Version[files[e][i].name] \in Nat
    <3>1. files[e][i] \in Files
      BY <2>2, <2>3
    <3>2. files[e][i].name \in Names /\ Now(e).name \in Names
      BY <2>1, <3>1, AtFile, FileTyped
    <3> QED BY <3>2, VersionAssumption DEF NowVersion
  <2>7. CASE j = 1
    BY <2>4, <2>5, <2>6, <2>7 DEF NowVersion
  <2>8. CASE j # 1
    <3>1. 1 \in 1 .. Len(todo[e]) /\ 1 < j
      BY <2>5, <2>8
    <3>2. Version[todo[e][1].name] <= Version[todo[e][j].name]
      BY <2>1, <3>1 DEF FilesOK
    <3> QED BY <2>4, <2>5, <2>6, <3>2 DEF NowVersion
  <2> QED BY <2>7, <2>8
<1> QED BY <1>1, Invariant, PTL

\* Every variable has its type, and whenever migrate has succeeded and nothing else runs the
\* database is what the recorded contents give when each is executed once, for any files,
\* statements, kills and lost connections, as long as engines run one at a time, no file is
\* edited between being read and being recorded, and no half-done file is changed or overtaken
\* by another before it is done (MigrationEngine::applyMigration).
THEOREM ConvergedCorrect == Spec => []Converged
<1>1. ASSUME MigInv PROVE Converged
  <2>1. IInv /\ (disturbed \/ HalfInv)
    BY <1>1 DEF MigInv
  <2>2. TypeOK
    <3>1. IsDb(db) /\ IsDb(expected)
      BY <2>1, DbParts DEF IInv, DataTyped
    <3>2. ~versionTable => \A v \in Versions : recorded[v] = None
      BY <2>1 DEF IInv, TableInv
    <3>3. /\ dir \in [Names -> AllBodies \cup {None}]
          /\ recorded \in [Versions -> AllBodies \cup {None}]
          /\ versionTable \in BOOLEAN
          /\ pc \in [Engines -> Ended \cup Migrating \cup {"drop", "rebuild", "truncate"}]
      BY <2>1 DEF IInv, DataTyped, EnginesTyped, Phases
    <3>4. ASSUME NEW e \in Engines
          PROVE  /\ pc[e] \in {"run", "commit"} => todo[e] # << >>
                 /\ dirty[e] # {} => pc[e] \in {"run", "commit"}
                 /\ drops[e] # {} => pc[e] \in {"drop", "truncate"}
                 /\ stmts[e] # << >> => pc[e] \in {"run", "rebuild"}
      BY <2>1 DEF IInv, EngineInv, StepOK
    <3> QED BY <3>1, <3>2, <3>3, <3>4 DEF TypeOK
  <2>3. ASSUME Busy = {}, half = {}, ~disturbed PROVE db = expected
    <3>1. Quiet
      BY <2>3 DEF Quiet, Busy, Ended
    <3> QED BY <2>1, <2>3, <3>1 DEF HalfInv, Left
  <2> QED BY <2>2, <2>3 DEF Converged
<1> QED BY <1>1, Invariant, PTL

-----------------------------------------------------------------------------
(* Sums of natural numbers. *)

\* The units of one i are as many as its number.
LEMMA OneRow ==
  ASSUME NEW i, NEW n \in Nat
  PROVE  IsFiniteSet({i} \X (1 .. n)) /\ Cardinality({i} \X (1 .. n)) = n
<1> DEFINE A == {i}  B == 1 .. n
<1>1. IsFiniteSet(A) /\ Cardinality(A) = 1
  BY FS_Singleton
<1>2. IsFiniteSet(B) /\ Cardinality(B) = n
  BY FS_Interval
<1>3. IsFiniteSet(A \X B) /\ Cardinality(A \X B) = Cardinality(A) * Cardinality(B)
  <2> HIDE DEF A, B
  <2> QED BY <1>1, <1>2, FS_Product
<1>4. Cardinality(A \X B) = n
  <2> HIDE DEF A, B
  <2> QED BY <1>1, <1>2, <1>3
<1> QED BY <1>3, <1>4

LEMMA UnitIs ==
  ASSUME NEW f, NEW S, NEW u
  PROVE  u \in Units(f, S) <=> \E i \in S : \E k \in 1 .. f[i] : u = <<i, k>>
BY DEF Units

LEMMA SumNat ==
  ASSUME NEW S, IsFiniteSet(S), NEW f, \A i \in S : f[i] \in Nat
  PROVE  IsFiniteSet(Units(f, S)) /\ Sum(f, S) \in Nat
<1> DEFINE UnitRow(i) == {i} \X (1 .. f[i])
           R == {UnitRow(i) : i \in S}
           g == [i \in S |-> UnitRow(i)]
<1>1. g \in Surjection(S, R)
  <2>1. g \in [S -> R] /\ \A t \in R : \E i \in S : g[i] = t
    OBVIOUS
  <2> HIDE DEF g, R
  <2> QED BY <2>1, Fun_IsSurj
<1>2. IsFiniteSet(R)
  <2> HIDE DEF g, R
  <2> QED BY <1>1, FS_Surjection
<1>3. \A i \in S : IsFiniteSet(UnitRow(i))
  BY OneRow
<1>4. IsFiniteSet(UNION R)
  <2>1. \A T \in R : IsFiniteSet(T)
    <3> HIDE DEF UnitRow
    <3> QED BY <1>3
  <2> HIDE DEF R
  <2> QED BY <1>2, <2>1, FS_UNION
<1> QED BY <1>4, FS_CardinalityType DEF Units, Sum

\* Only the numbers over S count.
LEMMA SumSame ==
  ASSUME NEW S, NEW f, NEW g, \A i \in S : f[i] = g[i]
  PROVE  Sum(f, S) = Sum(g, S)
<1>1. Units(f, S) = Units(g, S)
  BY DEF Units
<1> QED BY <1>1 DEF Sum

\* What is zero does not count.
LEMMA SumWithin ==
  ASSUME NEW S, NEW T, T \subseteq S, NEW f, \A i \in S \ T : f[i] = 0
  PROVE  Sum(f, S) = Sum(f, T)
<1>1. ASSUME NEW u PROVE u \in Units(f, S) <=> u \in Units(f, T)
  <2>1. ASSUME NEW i \in S, NEW k \in 1 .. f[i] PROVE i \in T
    OBVIOUS
  <2> QED BY <2>1, UnitIs
<1>2. Units(f, S) = Units(f, T)
  BY <1>1
<1> QED BY <1>2 DEF Sum

\* One more of one.
LEMMA SumMore ==
  ASSUME NEW S, IsFiniteSet(S), NEW x \in S, NEW f, NEW g, \A i \in S : f[i] \in Nat,
         \A i \in S : g[i] = IF i = x THEN f[x] + 1 ELSE f[i]
  PROVE  Sum(g, S) = Sum(f, S) + 1
<1> DEFINE u == <<x, f[x] + 1>>
<1>1. ASSUME NEW v PROVE v \in Units(g, S) <=> v \in Units(f, S) \cup {u}
  <2>1. v \in Units(g, S) => v \in Units(f, S) \cup {u}
    <3> SUFFICES ASSUME NEW i \in S, NEW k \in 1 .. g[i], v = <<i, k>>
                 PROVE  v \in Units(f, S) \cup {u}
      BY UnitIs
    <3>1. k \in 1 .. f[i] \/ (i = x /\ k = f[x] + 1)
      OBVIOUS
    <3> QED BY <3>1, UnitIs
  <2>2. v \in Units(f, S) => v \in Units(g, S)
    <3> SUFFICES ASSUME NEW i \in S, NEW k \in 1 .. f[i], v = <<i, k>>
                 PROVE  v \in Units(g, S)
      BY UnitIs
    <3>1. k \in 1 .. g[i]
      OBVIOUS
    <3> QED BY <3>1, UnitIs
  <2>3. u \in Units(g, S)
    <3>1. f[x] + 1 \in 1 .. g[x]
      OBVIOUS
    <3> QED BY <3>1, UnitIs
  <2> QED BY <2>1, <2>2, <2>3
<1>2. Units(g, S) = Units(f, S) \cup {u}
  BY <1>1
<1>3. u \notin Units(f, S)
  <2> SUFFICES ASSUME NEW i \in S, NEW k \in 1 .. f[i], u = <<i, k>> PROVE FALSE
    BY UnitIs
  <2> QED OBVIOUS
<1>4. IsFiniteSet(Units(f, S))
  BY SumNat
<1> QED BY <1>2, <1>3, <1>4, FS_AddElement DEF Sum

LEMMA SumZero ==
  ASSUME NEW S, IsFiniteSet(S), NEW f, \A i \in S : f[i] \in Nat
  PROVE  Sum(f, S) = 0 <=> \A i \in S : f[i] = 0
<1>1. IsFiniteSet(Units(f, S))
  BY SumNat
<1>2. Sum(f, S) = 0 <=> Units(f, S) = {}
  BY <1>1, FS_EmptySet DEF Sum
<1>3. ASSUME NEW i \in S, f[i] # 0 PROVE <<i, 1>> \in Units(f, S)
  <2>1. 1 \in 1 .. f[i]
    BY <1>3
  <2> QED BY <2>1, UnitIs
<1>4. ASSUME NEW u \in Units(f, S), \A i \in S : f[i] = 0 PROVE FALSE
  BY <1>4, UnitIs
<1> QED BY <1>2, <1>3, <1>4

\* Of two functions with one sum, none is below the other.
LEMMA SumEqual ==
  ASSUME NEW S, IsFiniteSet(S), NEW f, NEW g, \A i \in S : f[i] \in Nat /\ g[i] \in Nat /\ f[i] <= g[i],
         Sum(f, S) = Sum(g, S)
  PROVE  \A i \in S : f[i] = g[i]
<1>1. Units(f, S) \subseteq Units(g, S)
  <2> SUFFICES ASSUME NEW i \in S, NEW k \in 1 .. f[i] PROVE <<i, k>> \in Units(g, S)
    BY UnitIs
  <2>1. k \in 1 .. g[i]
    OBVIOUS
  <2> QED BY <2>1, UnitIs
<1>2. IsFiniteSet(Units(g, S))
  BY SumNat
<1>3. Units(g, S) = Units(f, S)
  BY <1>1, <1>2, FS_Subset DEF Sum
<1> SUFFICES ASSUME NEW i \in S, f[i] < g[i] PROVE FALSE
  OBVIOUS
<1>4. g[i] \in 1 .. g[i]
  OBVIOUS
<1>5. <<i, g[i]>> \in Units(f, S)
  BY <1>3, <1>4, UnitIs
<1>6. PICK j \in S : \E k \in 1 .. f[j] : <<i, g[i]>> = <<j, k>>
  BY <1>5, UnitIs
<1> QED BY <1>6

LEMMA SumSplit ==
  ASSUME NEW S, IsFiniteSet(S), NEW x \in S, NEW f, \A i \in S : f[i] \in Nat
  PROVE  Sum(f, S) = Sum(f, S \ {x}) + f[x]
<1> DEFINE T == S \ {x}  UnitRow == {x} \X (1 .. f[x])
<1>1. IsFiniteSet(T)
  BY FS_RemoveElement
<1>2. Units(f, S) = Units(f, T) \cup UnitRow /\ Units(f, T) \cap UnitRow = {}
  BY DEF Units
<1>3. IsFiniteSet(Units(f, T)) /\ Sum(f, T) \in Nat
  BY <1>1, SumNat
<1>4. IsFiniteSet(UnitRow) /\ Cardinality(UnitRow) = f[x]
  BY OneRow
<1> HIDE DEF UnitRow, T
<1>5. Cardinality(Units(f, S)) = Cardinality(Units(f, T)) + f[x] - 0
  BY <1>2, <1>3, <1>4, FS_Union, FS_EmptySet
<1> QED BY <1>3, <1>5 DEF Sum, T

\* What holds of every number up to a factor holds of the sums.
LEMMA SumScaled ==
  ASSUME NEW a \in Nat, NEW b \in Nat, NEW f, NEW g, NEW D, IsFiniteSet(D),
         \A i \in D : f[i] \in Nat /\ g[i] \in Nat /\ a * f[i] <= b * g[i]
  PROVE  a * Sum(f, D) <= b * Sum(g, D)
<1> DEFINE Q(S) == a * Sum(f, S) <= b * Sum(g, S)
           U == {n \in Nat : \A S \in SUBSET D : Cardinality(S) = n => Q(S)}
<1>1. 0 \in U
  <2> SUFFICES ASSUME NEW S \in SUBSET D, Cardinality(S) = 0 PROVE Q(S)
    OBVIOUS
  <2>1. S = {}
    BY FS_Subset, FS_EmptySet
  <2>2. Sum(f, S) = 0 /\ Sum(g, S) = 0
    BY <2>1, SumZero, FS_EmptySet
  <2> QED BY <2>2
<1>2. ASSUME NEW n \in Nat, n \in U PROVE n + 1 \in U
  <2> SUFFICES ASSUME NEW S \in SUBSET D, Cardinality(S) = n + 1 PROVE Q(S)
    OBVIOUS
  <2>1. IsFiniteSet(S)
    BY FS_Subset
  <2>2. S # {}
    BY FS_EmptySet
  <2>3. PICK x : x \in S
    BY <2>2
  <2> DEFINE T == S \ {x}
  <2>4. T \in SUBSET D /\ Cardinality(T) = n /\ IsFiniteSet(T)
    <3>1. IsFiniteSet(T) /\ Cardinality(T) = Cardinality(S) - 1
      BY <2>1, <2>3, FS_RemoveElement
    <3>2. T \in SUBSET D
      OBVIOUS
    <3> HIDE DEF T
    <3> QED BY <3>1, <3>2
  <2>5. Q(T)
    BY <1>2, <2>4
  <2>6. Sum(f, S) = Sum(f, T) + f[x] /\ Sum(g, S) = Sum(g, T) + g[x]
    BY <2>1, <2>3, SumSplit
  <2>7. Sum(f, T) \in Nat /\ Sum(g, T) \in Nat
    BY <2>4, SumNat
  <2>8. f[x] \in Nat /\ g[x] \in Nat /\ a * f[x] <= b * g[x]
    BY <2>3
  <2> HIDE DEF T
  <2>9. \A y, z \in Nat : a * (y + z) = a * y + a * z /\ b * (y + z) = b * y + b * z
    OBVIOUS
  <2> QED BY <2>5, <2>6, <2>7, <2>8, <2>9
<1>3. Nat \subseteq U
  <2> HIDE DEF U
  <2> QED BY <1>1, <1>2, SetInduction
<1>4. Cardinality(D) \in Nat
  BY FS_CardinalityType
<1> QED BY <1>3, <1>4

-----------------------------------------------------------------------------
(* The wheel of the weighted round robin. *)

\* The places of i in a sequence.
Places(s, i) == {q \in 1 .. Len(s) : s[q] = i}

LEMMA TimesJoin ==
  ASSUME NEW T, NEW a \in Seq(T), NEW x \in T, NEW n \in Nat
  PROVE  Len(Join(a, Times(x, n))) = Len(a) + n
<1> DEFINE b == Times(x, n)
<1>1. b \in Seq(T) /\ Len(b) = n
  BY DEF Times
<1> HIDE DEF b
<1>2. Len(Join(a, b)) = Len(a) + Len(b)
  BY <1>1, Joins
<1> QED BY <1>1, <1>2 DEF b

LEMMA PlacesJoin ==
  ASSUME NEW T, NEW a \in Seq(T), NEW x \in T, NEW n \in Nat, NEW i
  PROVE  Cardinality(Places(Join(a, Times(x, n)), i)) = Cardinality(Places(a, i)) + (IF i = x THEN n ELSE 0)
<1> DEFINE b == Times(x, n)  c == Join(a, b)
           B == IF i = x THEN (Len(a) + 1) .. (Len(a) + n) ELSE {}
<1>1. b \in Seq(T) /\ Len(b) = n /\ \A q \in 1 .. n : b[q] = x
  BY DEF Times
<1>2. /\ c \in Seq(T) /\ Len(c) = Len(a) + n
      /\ \A q \in 1 .. Len(a) : c[q] = a[q]
      /\ \A q \in 1 .. n : c[Len(a) + q] = x
  <2> HIDE DEF b
  <2>1. /\ c \in Seq(T) /\ Len(c) = Len(a) + Len(b)
        /\ \A q \in 1 .. Len(a) : c[q] = a[q]
        /\ \A q \in 1 .. Len(b) : c[Len(a) + q] = b[q]
    <3>1. b \in Seq(T)
      BY <1>1
    <3>2. c \in Seq(T)
      BY <3>1, Joins
    <3>3. Len(c) = Len(a) + Len(b)
      BY <3>1, Joins
    <3>4. \A q \in 1 .. Len(a) : c[q] = a[q]
      BY <3>1, Joins
    <3>5. \A q \in 1 .. Len(b) : c[Len(a) + q] = b[q]
      BY <3>1, Joins
    <3> QED BY <3>2, <3>3, <3>4, <3>5
  <2> HIDE DEF c
  <2> QED BY <1>1, <2>1
<1> HIDE DEF b, c
<1>3. Len(a) \in Nat
  OBVIOUS
<1>4. \A q \in (Len(a) + 1) .. (Len(a) + n) : c[q] = x
  <2> SUFFICES ASSUME NEW q \in (Len(a) + 1) .. (Len(a) + n) PROVE c[q] = x
    OBVIOUS
  <2>1. q - Len(a) \in 1 .. n /\ Len(a) + (q - Len(a)) = q
    BY <1>3
  <2> QED BY <1>2, <2>1
<1>5. Places(c, i) = Places(a, i) \cup B
  <2>1. 1 .. Len(c) = (1 .. Len(a)) \cup ((Len(a) + 1) .. (Len(a) + n))
    BY <1>2, <1>3
  <2> QED BY <1>2, <1>4, <2>1 DEF Places
<1>6. Places(a, i) \cap B = {}
  BY <1>3 DEF Places
<1>7. IsFiniteSet(Places(a, i))
  <2>1. IsFiniteSet(1 .. Len(a))
    BY <1>3, FS_Interval
  <2>2. Places(a, i) \in SUBSET (1 .. Len(a))
    BY DEF Places
  <2> QED BY <2>1, <2>2, FS_Subset
<1>8. IsFiniteSet(B) /\ Cardinality(B) = IF i = x THEN n ELSE 0
  <2>1. CASE i = x
    <3>1. (Len(a) + n) - (Len(a) + 1) + 1 = n /\ (Len(a) + 1 > Len(a) + n <=> n = 0)
      BY <1>3
    <3> QED BY <1>3, <2>1, <3>1, FS_Interval
  <2>2. CASE i # x
    BY <2>2, FS_EmptySet
  <2> QED BY <2>1, <2>2
<1> HIDE DEF B
<1>9. Cardinality(Places(c, i)) = Cardinality(Places(a, i)) + Cardinality(B) - Cardinality({})
  BY <1>5, <1>6, <1>7, <1>8, FS_Union
<1>10. Cardinality(Places(a, i)) \in Nat /\ Cardinality(B) \in Nat
  BY <1>7, <1>8, FS_CardinalityType
<1> QED BY <1>2, <1>8, <1>9, <1>10, FS_EmptySet DEF b, c

\* The instances are in some order, each once.
Listed(n) ==
    /\ instances \in [1 .. n -> Ids]
    /\ \A j, k \in 1 .. n : j # k => instances[j] # instances[k]

LEMMA WheelIs ==
  ASSUME weight \in [Ids -> Nat], NEW n \in Nat, Listed(n)
  PROVE  /\ Wheel \in Seq(Members) /\ Len(Wheel) = Sum([i \in Members |-> Weighs(i)], Members)
         /\ \A i \in Members : Cardinality(Places(Wheel, i)) = Weighs(i)
<1> DEFINE ss == [k \in 1 .. n |-> Times(instances[k], Weighs(instances[k]))]
           W == [i \in Members |-> Weighs(i)]
           S(k) == {instances[j] : j \in 1 .. k}
<1>1. Members = S(n) /\ Members \subseteq Ids /\ \A k \in 1 .. n : instances[k] \in Members
  BY DEF Members, ToSet, Listed
<1>2. \A i \in Members : Weighs(i) \in Nat
  BY <1>1 DEF Weighs
<1>3. ss \in [1 .. n -> Seq(Members)]
  <2> SUFFICES ASSUME NEW k \in 1 .. n PROVE Times(instances[k], Weighs(instances[k])) \in Seq(Members)
    OBVIOUS
  <2> QED BY <1>1, <1>2 DEF Times
<1>4. Wheel = FlattenSeq(ss)
  BY DEF Wheel, Listed
<1>5. PICK f \in [0 .. n -> Seq(Members)] :
         /\ f[0] = << >> /\ \A k \in 1 .. n : f[k] = Join(f[k - 1], ss[k])
         /\ FlattenSeq(ss) = f[n]
  <2> HIDE DEF ss
  <2> QED BY <1>3, Flattened
<1> DEFINE Q(k) == /\ Len(f[k]) = Sum(W, S(k))
                   /\ \A i \in Members : Cardinality(Places(f[k], i)) = IF i \in S(k) THEN W[i] ELSE 0
           U == {k \in Nat : k <= n => Q(k)}
<1>6. \A k \in 0 .. n : IsFiniteSet(S(k)) /\ S(k) \subseteq Members
  <2> SUFFICES ASSUME NEW k \in 0 .. n PROVE IsFiniteSet(S(k)) /\ S(k) \subseteq Members
    OBVIOUS
  <2> DEFINE g == [j \in 1 .. k |-> instances[j]]  X == 1 .. k  Y == S(k)
  <2>1. g \in Surjection(X, Y)
    <3>1. g \in [X -> Y] /\ \A t \in Y : \E j \in X : g[j] = t
      OBVIOUS
    <3> HIDE DEF g, X, Y
    <3> QED BY <3>1, Fun_IsSurj
  <2>2. IsFiniteSet(X)
    BY FS_Interval
  <2>3. IsFiniteSet(Y)
    <3> HIDE DEF g, X, Y
    <3> QED BY <2>1, <2>2, FS_Surjection
  <2>4. S(k) \subseteq Members
    BY <1>1
  <2> QED BY <2>3, <2>4
<1>7. 0 \in U
  <2>1. S(0) = {} /\ Len(<< >>) = 0
    OBVIOUS
  <2>2. Sum(W, {}) = 0
    BY SumZero, FS_EmptySet
  <2>3. ASSUME NEW i PROVE Places(<< >>, i) = {}
    BY <2>1 DEF Places
  <2>4. Q(0)
    <3> HIDE DEF S
    <3> QED BY <1>5, <2>1, <2>2, <2>3, FS_EmptySet
  <2> HIDE DEF Q
  <2> QED BY <2>4
<1>8. ASSUME NEW k \in Nat, k \in U PROVE k + 1 \in U
  <2> SUFFICES ASSUME k + 1 <= n PROVE Q(k + 1)
    <3> HIDE DEF Q
    <3> QED OBVIOUS
  <2>1. Q(k)
    <3> HIDE DEF Q
    <3> QED BY <1>8
  <2> DEFINE x == instances[k + 1]
  <2>2. k \in 0 .. n /\ k + 1 \in 0 .. n /\ k + 1 \in 1 .. n /\ (k + 1) - 1 = k
    OBVIOUS
  <2>3. x \in Members /\ W[x] = Weighs(x) /\ W[x] \in Nat
    BY <1>1, <1>2, <2>2
  <2>4. S(k + 1) = S(k) \cup {x} /\ x \notin S(k) /\ S(k) = S(k + 1) \ {x}
    <3>1. 1 .. k + 1 = (1 .. k) \cup {k + 1}
      OBVIOUS
    <3>2. x \notin S(k)
      BY <2>2 DEF Listed
    <3> QED BY <3>1, <3>2
  <2>5. f[k + 1] = Join(f[k], Times(x, W[x])) /\ f[k] \in Seq(Members)
    BY <1>5, <2>2, <2>3
  <2>6. Sum(W, S(k + 1)) = Sum(W, S(k)) + W[x]
    <3>1. IsFiniteSet(S(k + 1)) /\ S(k + 1) \subseteq Members
      BY <1>6, <2>2
    <3>2. \A i \in Members : W[i] \in Nat
      BY <1>2
    <3>3. x \in S(k + 1)
      BY <2>4
    <3> HIDE DEF W, S, x
    <3> QED BY <2>4, <3>1, <3>2, <3>3, SumSplit
  <2> HIDE DEF W, S, x
  <2>a. /\ \A i : Cardinality(Places(f[k + 1], i)) = Cardinality(Places(f[k], i)) + (IF i = x THEN W[x] ELSE 0)
        /\ Len(f[k + 1]) = Len(f[k]) + W[x]
    <3> DEFINE a == f[k]  w == W[x]  M == Members
    <3>1. a \in Seq(M) /\ x \in M /\ w \in Nat /\ f[k + 1] = Join(a, Times(x, w))
      BY <2>3, <2>5
    <3> HIDE DEF a, w, M
    <3>2. ASSUME NEW i
          PROVE  Cardinality(Places(f[k + 1], i)) = Cardinality(Places(a, i)) + (IF i = x THEN w ELSE 0)
      BY <3>1, PlacesJoin
    <3>3. Len(f[k + 1]) = Len(a) + w
      BY <3>1, TimesJoin
    <3> QED BY <3>2, <3>3 DEF a, w
  <2>7. Len(f[k + 1]) = Sum(W, S(k + 1))
    BY <2>1, <2>6, <2>a
  <2>8. ASSUME NEW i \in Members
        PROVE  Cardinality(Places(f[k + 1], i)) = IF i \in S(k + 1) THEN W[i] ELSE 0
    <3>1. Cardinality(Places(f[k + 1], i)) = Cardinality(Places(f[k], i)) + (IF i = x THEN W[x] ELSE 0)
      BY <2>a
    <3>2. Cardinality(Places(f[k], i)) = IF i \in S(k) THEN W[i] ELSE 0
      BY <2>1
    <3>3. W[i] \in Nat
      BY <1>2 DEF W
    <3> QED BY <2>3, <2>4, <3>1, <3>2, <3>3
  <2> QED BY <2>7, <2>8
<1>9. Q(n)
  <2>1. Nat \subseteq U
    <3> HIDE DEF U
    <3> QED BY <1>7, <1>8, SetInduction
  <2> HIDE DEF Q
  <2> QED BY <2>1
<1>10. \A i \in Members : i \in S(n) /\ W[i] = Weighs(i)
  BY <1>1
<1> HIDE DEF W, S, ss
<1>11. Len(Wheel) = Sum(W, Members) /\ Wheel \in Seq(Members)
  BY <1>1, <1>4, <1>5, <1>9
<1>12. \A i \in Members : Cardinality(Places(Wheel, i)) = Weighs(i)
  BY <1>4, <1>5, <1>9, <1>10
<1> QED BY <1>11, <1>12 DEF W

-----------------------------------------------------------------------------
(* The turns of the round robins. *)

Ring == IF policy = "round_robin" THEN instances ELSE Wheel

\* The last m places of a ring of n before the one after c.
Visited(c, m, n) == {q \in 1 .. n : (IF q <= c THEN c - q ELSE c - q + n) < m}

LEMMA VisitNext ==
  ASSUME NEW n \in Nat \ {0}, NEW c \in 0 .. n - 1, NEW m \in 0 .. n
  PROVE  LET d == IF c = n - 1 THEN 0 ELSE c + 1
         IN  /\ m < n => Visited(d, m + 1, n) = Visited(c, m, n) \cup {c + 1} /\ c + 1 \notin Visited(c, m, n)
             /\ Visited(d, 1, n) = {c + 1}
             /\ Visited(c, n, n) = 1 .. n
             /\ Visited(c, 0, n) = {}
             /\ IsFiniteSet(Visited(c, m, n))
<1> DEFINE d == IF c = n - 1 THEN 0 ELSE c + 1
<1>1. ASSUME m < n PROVE Visited(d, m + 1, n) = Visited(c, m, n) \cup {c + 1}
  BY <1>1 DEF Visited
<1>2. m < n => c + 1 \notin Visited(c, m, n)
  BY DEF Visited
<1>3. Visited(d, 1, n) = {c + 1}
  BY DEF Visited
<1>4. Visited(c, n, n) = 1 .. n
  BY DEF Visited
<1>5. Visited(c, 0, n) = {}
  BY DEF Visited
<1>6. IsFiniteSet(Visited(c, m, n))
  <2>1. IsFiniteSet(1 .. n) /\ Visited(c, m, n) \in SUBSET (1 .. n)
    BY FS_Interval DEF Visited
  <2> QED BY <2>1, FS_Subset
<1> QED BY <1>1, <1>2, <1>3, <1>4, <1>5, <1>6

\* A number is determined by its quotient and its remainder.
LEMMA Remainder ==
  ASSUME NEW n \in Nat \ {0}, NEW q \in Int, NEW r \in 0 .. n - 1
  PROVE  (n * q + r) % n = r
<1> DEFINE x == n * q + r  p == x \div n  t == x % n
<1>1. x \in Int
  OBVIOUS
<1>2. p \in Int /\ t \in 0 .. n - 1 /\ x = n * p + t
  BY <1>1
<1>3. x = n * q + r
  OBVIOUS
<1> HIDE DEF x, p, t
<1>4. n * p - n * q = r - t /\ r - t < n /\ t - r < n
  BY <1>1, <1>2, <1>3
<1>5. p <= q
  <2> SUFFICES ASSUME p >= q + 1 PROVE FALSE
    BY <1>2
  <2>1. n * p >= n * (q + 1) /\ n * (q + 1) = n * q + n
    BY <1>2
  <2> QED BY <1>2, <1>4, <2>1
<1>6. q <= p
  <2> SUFFICES ASSUME q >= p + 1 PROVE FALSE
    BY <1>2
  <2>1. n * q >= n * (p + 1) /\ n * (p + 1) = n * p + n
    BY <1>2
  <2> QED BY <1>2, <1>4, <2>1
<1>7. p = q
  BY <1>2, <1>5, <1>6
<1>8. t = r
  BY <1>2, <1>3, <1>7
<1> QED BY <1>8 DEF t, x

\* The counter that is reduced modulo Cycle goes round every ring.
LEMMA NextPlace ==
  ASSUME NEW n \in Nat \ {0}, Cycle \in Nat \ {0}, Cycle % n = 0, NEW k \in 0 .. Cycle - 1
  PROVE  /\ k % n \in 0 .. n - 1
         /\ (k + 1) % Cycle \in 0 .. Cycle - 1
         /\ ((k + 1) % Cycle) % n = IF k % n = n - 1 THEN 0 ELSE (k % n) + 1
<1> DEFINE q == k \div n  r == k % n
<1>1. q \in Int /\ r \in 0 .. n - 1 /\ k = n * q + r
  OBVIOUS
<1>2. (k + 1) % n = IF r = n - 1 THEN 0 ELSE r + 1
  <2>1. CASE r = n - 1
    <3>1. k + 1 = n * (q + 1) + 0
      <4> HIDE DEF q, r
      <4> QED BY <1>1, <2>1
    <3>2. q + 1 \in Int /\ 0 \in 0 .. n - 1
      BY <1>1
    <3> HIDE DEF q, r
    <3> QED BY <2>1, <3>1, <3>2, Remainder
  <2>2. CASE r # n - 1
    <3>1. k + 1 = n * q + (r + 1) /\ r + 1 \in 0 .. n - 1
      <4> HIDE DEF q, r
      <4> QED BY <1>1, <2>2
    <3> HIDE DEF q, r
    <3> QED BY <1>1, <2>2, <3>1, Remainder
  <2> QED BY <2>1, <2>2
<1> HIDE DEF q, r
<1>3. CASE k + 1 = Cycle
  <2>1. Cycle = Cycle * 1 + 0 /\ 0 = n * 0 + 0
    OBVIOUS
  <2>2. (k + 1) % Cycle = 0
    <3>1. 0 \in 0 .. Cycle - 1
      OBVIOUS
    <3> QED BY <1>3, <2>1, <3>1, Remainder
  <2>3. 0 % n = 0
    <3>1. 0 \in 0 .. n - 1
      OBVIOUS
    <3> QED BY <2>1, <3>1, Remainder
  <2> QED BY <1>1, <1>2, <1>3, <2>2, <2>3 DEF r
<1>4. CASE k + 1 # Cycle
  <2>1. k + 1 \in 0 .. Cycle - 1 /\ k + 1 = Cycle * 0 + (k + 1)
    BY <1>4
  <2>2. (k + 1) % Cycle = k + 1
    BY <2>1, Remainder
  <2> QED BY <1>1, <1>2, <2>1, <2>2 DEF r
<1> QED BY <1>3, <1>4

LEMMA SumOnes ==
  ASSUME NEW S, IsFiniteSet(S), NEW f, \A i \in S : f[i] = 1
  PROVE  Sum(f, S) = Cardinality(S)
<1> DEFINE B == {1}
<1>1. Units(f, S) = S \X B
  <2>1. 1 .. 1 = B
    OBVIOUS
  <2> HIDE DEF B
  <2> QED BY <2>1 DEF Units
<1>2. IsFiniteSet(B) /\ Cardinality(B) = 1
  BY FS_Singleton
<1>3. Cardinality(S \X B) = Cardinality(S) * Cardinality(B)
  <2> HIDE DEF B
  <2> QED BY <1>2, FS_Product
<1>4. Cardinality(S) \in Nat
  BY FS_CardinalityType
<1> HIDE DEF B
<1> QED BY <1>1, <1>2, <1>3, <1>4 DEF Sum

\* What is listed is finite, and has as many members as places.
LEMMA MembersIs ==
  ASSUME NEW n \in Nat, Listed(n)
  PROVE  /\ Members \subseteq Ids /\ IsFiniteSet(Members) /\ Cardinality(Members) = n
         /\ instances \in Seq(Members) /\ Len(instances) = n
         /\ instances = << >> <=> n = 0
         /\ Members = {} <=> n = 0
<1> DEFINE X == 1 .. n
<1>1. Members = {instances[k] : k \in X} /\ DOMAIN instances = X
  BY DEF Members, ToSet, Listed
<1>2. instances \in Bijection(X, Members)
  <2>1. instances \in [X -> Members] /\ \A t \in Members : \E k \in X : instances[k] = t
    BY <1>1 DEF Listed
  <2>2. \A j, k \in X : instances[j] = instances[k] => j = k
    BY DEF Listed
  <2> HIDE DEF X
  <2> QED BY <2>1, <2>2, Fun_IsBij
<1>3. IsFiniteSet(X) /\ Cardinality(X) = n
  BY FS_Interval
<1>4. IsFiniteSet(Members) /\ Cardinality(Members) = n
  <2>1. ExistsBijection(X, Members)
    BY <1>2 DEF ExistsBijection
  <2> HIDE DEF X
  <2> QED BY <1>3, <2>1, FS_Bijection
<1>5. instances \in Seq(Members) /\ Len(instances) = n
  BY <1>1 DEF Listed
<1>6. instances = << >> <=> n = 0
  BY <1>5
<1>7. Members = {} <=> n = 0
  BY <1>4, FS_EmptySet
<1>8. Members \subseteq Ids
  BY <1>1 DEF Listed
<1> QED BY <1>4, <1>5, <1>6, <1>7, <1>8

\* A full turn of a round robin is once round the ring, on which each has its share of places.
LEMMA RingIs ==
  ASSUME policy \in {"round_robin", "weighted_rr"}, weight \in [Ids -> Weights],
         NEW n \in Nat \ {0}, Listed(n)
  PROVE  /\ Ring \in Seq(Members) /\ Len(Ring) = Turn /\ Turn \in Nat \ {0} /\ Cycle % Turn = 0
         /\ \A i \in Members : Cardinality(Places(Ring, i)) = Counted(i)
<1> DEFINE W == [i \in Members |-> Counted(i)]
<1>1. /\ Members \subseteq Ids /\ IsFiniteSet(Members) /\ Cardinality(Members) = n
      /\ instances \in Seq(Members) /\ Len(instances) = n /\ Members # {}
  BY MembersIs
<1>2. Turn = Sum(W, Members)
  BY DEF Turn
<1>3. \A i \in Members : W[i] = Counted(i)
  OBVIOUS
<1>4. CASE policy = "round_robin"
  <2>1. \A i \in Members : W[i] = 1 /\ Counted(i) = 1
    BY <1>4 DEF Counted, Share
  <2>2. Turn = n
    <3> HIDE DEF W
    <3> QED BY <1>1, <1>2, <2>1, SumOnes
  <2>3. Ring = instances
    BY <1>4 DEF Ring
  <2>4. Cycle % n = 0
    BY <1>1, BalancerAssumption
  <2>5. ASSUME NEW i \in Members PROVE Cardinality(Places(instances, i)) = 1
    <3>1. PICK k \in 1 .. n : i = instances[k]
      BY <1>1 DEF Members, ToSet
    <3>2. Places(instances, i) = {k}
      BY <1>1, <3>1 DEF Places, Listed
    <3> QED BY <3>2, FS_Singleton
  <2> QED BY <1>1, <2>1, <2>2, <2>3, <2>4, <2>5
<1>5. CASE policy = "weighted_rr"
  <2>1. \A i \in Members : W[i] = Weighs(i) /\ Counted(i) = Weighs(i)
    BY <1>5 DEF Counted, Share
  <2>2. weight \in [Ids -> Nat]
    BY BalancerAssumption
  <2>3. /\ Wheel \in Seq(Members) /\ Len(Wheel) = Sum([i \in Members |-> Weighs(i)], Members)
        /\ \A i \in Members : Cardinality(Places(Wheel, i)) = Weighs(i)
    BY <2>2, WheelIs
  <2>4. W = [i \in Members |-> Weighs(i)]
    BY <2>1
  <2>5. W \in [Members -> (Weights \ {0}) \cup {1}]
    BY <1>1, <2>4 DEF Weighs
  <2>6. Cycle % Sum(W, Members) = 0
    <3> HIDE DEF W
    <3> QED BY <1>1, <2>5, BalancerAssumption
  <2>7. \A i \in Members : W[i] \in Nat /\ W[i] # 0
    <3>1. Weights \subseteq Nat
      BY BalancerAssumption
    <3> SUFFICES ASSUME NEW i \in Members PROVE W[i] \in Nat /\ W[i] # 0
      OBVIOUS
    <3>2. W[i] \in (Weights \ {0}) \cup {1}
      <4> HIDE DEF W
      <4> QED BY <2>5
    <3>3. W[i] = 1 \/ (W[i] \in Nat /\ W[i] # 0)
      <4> HIDE DEF W
      <4> QED BY <3>1, <3>2, Zenon
    <3> HIDE DEF W
    <3> QED BY <3>3
  <2>8. Sum(W, Members) \in Nat /\ Sum(W, Members) # 0
    <3> HIDE DEF W
    <3> QED BY <1>1, <2>7, SumNat, SumZero
  <2>9. Ring = Wheel
    BY <1>5 DEF Ring
  <2> QED BY <1>2, <2>1, <2>3, <2>4, <2>6, <2>8, <2>9
<1> QED BY <1>4, <1>5

-----------------------------------------------------------------------------
(* The inductive invariant of the balancers that take turns. *)

BalTypes ==
    /\ weight \in [Ids -> Weights]
    /\ Len(instances) \in Nat /\ Listed(Len(instances))
    /\ idx \in 0 .. Cycle - 1
    /\ picks \in [Ids -> Nat] /\ \A i \in Ids \ Members : picks[i] = 0

Picked == Sum(picks, Ids)

\* The picks of this turn are the last places of the ring.
RingInv ==
    policy \in {"round_robin", "weighted_rr"} /\ Picked # 0 =>
        /\ Picked <= Turn
        /\ \A i \in Members :
             picks[i] = Cardinality({q \in Visited(idx % Turn, Picked, Turn) : Ring[q] = i})

\* A node is owed its weight for every pick, less the whole turn for its own; and it never owes
\* as much as a whole turn.
SmoothInv ==
    policy = "smooth_weighted" =>
        /\ \A i \in DOMAIN nodes : nodes[i].current \in Int /\ nodes[i].effective \in Nat \ {0}
        /\ even => \A i \in DOMAIN nodes : nodes[i].effective = Weighs(i)
        /\ Picked = 0 /\ even => AtRest
        /\ Picked # 0 =>
             /\ DOMAIN nodes = Members /\ Picked <= Turn
             /\ even => \A i \in Members :
                          /\ nodes[i].current = Picked * nodes[i].effective - Turn * picks[i]
                          /\ nodes[i].current > - Turn

BalInv == policy \in Rotating => BalTypes /\ RingInv /\ SmoothInv

LEMMA ShareNat ==
  ASSUME BalInv, policy \in Rotating
  PROVE  /\ IsFiniteSet(Members) /\ Members \subseteq Ids
         /\ \A i \in Members : Counted(i) \in Nat \ {0}
         /\ Turn \in Nat /\ (Turn = 0 <=> Members = {})
         /\ instances = << >> <=> Members = {}
<1>1. /\ IsFiniteSet(Members) /\ Members \subseteq Ids
      /\ instances = << >> <=> Members = {}
  BY MembersIs DEF BalInv, BalTypes
<1>2. ASSUME NEW i \in Members PROVE Counted(i) \in Nat \ {0}
  <2>1. Weighs(i) \in Nat \ {0}
    <3>1. weight[i] \in Weights
      BY <1>1 DEF BalInv, BalTypes
    <3>2. weight[i] \in Nat
      BY <3>1, BalancerAssumption
    <3> QED BY <3>2 DEF Weighs
  <2>2. CASE policy = "smooth_weighted"
    BY <2>1, <2>2 DEF Counted, Share, BalInv, SmoothInv
  <2> QED BY <2>1, <2>2 DEF Counted, Share, Rotating
<1> DEFINE W == [i \in Members |-> Counted(i)]
<1>3. Turn = Sum(W, Members) /\ \A i \in Members : W[i] \in Nat /\ W[i] # 0
  BY <1>2 DEF Turn
<1> HIDE DEF W
<1>4. Turn \in Nat /\ (Turn = 0 <=> Members = {})
  BY <1>1, <1>3, SumNat, SumZero
<1> QED BY <1>1, <1>2, <1>4

\* A pick counts for the one it picks; the first of a turn counts alone.
LEMMA PickCounts ==
  ASSUME BalTypes, NEW i \in Ids, i \in Members, Pick(i), Turn \in Nat \ {0}
  PROVE  /\ Picked \in Nat
         /\ picks' \in [Ids -> Nat] /\ \A j \in Ids \ Members : picks'[j] = 0
         /\ Picked \in {0, Turn} => /\ Picked' = 1
                                    /\ \A j \in Ids : picks'[j] = IF j = i THEN 1 ELSE 0
         /\ Picked \notin {0, Turn} =>
              /\ Picked' = Picked + 1
              /\ \A j \in Ids : picks'[j] = IF j = i THEN picks[i] + 1 ELSE picks[j]
<1>1. IsFiniteSet(Ids)
  BY BalancerAssumption
<1>2. \A j \in Ids : picks[j] \in Nat
  BY DEF BalTypes
<1>3. Picked \in Nat /\ (Picked = 0 => \A j \in Ids : picks[j] = 0)
  BY <1>1, <1>2, SumNat, SumZero DEF Picked
<1>4. Picked' = Sum(picks', Ids)
  BY DEF Picked
<1> DEFINE z == [j \in Ids |-> 0]
<1>5. Sum(z, Ids) = 0
  BY <1>1, SumZero
<1>6. CASE Picked = Turn
  <2>1. picks' = [j \in Ids |-> IF j = i THEN 1 ELSE 0]
    BY <1>6 DEF Pick, Picked
  <2>2. \A j \in Ids : picks'[j] = IF j = i THEN z[i] + 1 ELSE z[j]
    BY <2>1
  <2>3. Sum(picks', Ids) = Sum(z, Ids) + 1
    <3>1. \A j \in Ids : z[j] \in Nat
      OBVIOUS
    <3> HIDE DEF z
    <3> QED BY <1>1, <2>2, <3>1, SumMore
  <2> QED BY <1>3, <1>4, <1>5, <1>6, <2>1, <2>3
<1>7. CASE Picked # Turn
  <2>1. picks' = [picks EXCEPT ![i] = @ + 1]
    BY <1>7 DEF Pick, Picked
  <2>2. \A j \in Ids : picks'[j] = IF j = i THEN picks[i] + 1 ELSE picks[j]
    BY <2>1 DEF BalTypes
  <2>3. Picked' = Picked + 1
    BY <1>1, <1>2, <1>4, <2>2, SumMore DEF Picked
  <2>4. picks' \in [Ids -> Nat]
    BY <2>1 DEF BalTypes
  <2>5. \A j \in Ids \ Members : picks'[j] = 0
    BY <2>2 DEF BalTypes
  <2> QED BY <1>3, <1>7, <2>2, <2>3, <2>4, <2>5
<1> QED BY <1>6, <1>7

LEMMA BalBegins == BalancerInit => BalInv
<1> SUFFICES ASSUME BalancerInit PROVE BalInv
  OBVIOUS
<1>1. Listed(0) /\ Len(instances) = 0
  BY DEF BalancerInit, Listed
<1>2. Picked = 0
  <2>1. IsFiniteSet(Ids) /\ \A i \in Ids : picks[i] \in Nat /\ picks[i] = 0
    BY BalancerAssumption DEF BalancerInit
  <2> QED BY <2>1, SumZero DEF Picked
<1>3. BalTypes
  BY <1>1, BalancerAssumption DEF BalancerInit, BalTypes
<1>4. DOMAIN nodes = {}
  BY DEF BalancerInit
<1> QED BY <1>2, <1>3, <1>4 DEF BalInv, RingInv, SmoothInv, AtRest

LEMMA BalChanges == ASSUME BalInv, ChangeInstances PROVE BalInv'
<1> SUFFICES ASSUME policy \in Rotating PROVE BalTypes' /\ RingInv' /\ SmoothInv'
  BY DEF BalInv, ChangeInstances
<1>1. PICK S \in SUBSET Ids : instances' \in SetToSeqs(S)
  <2>1. Members \subseteq Ids
    BY ShareNat
  <2> QED BY <2>1 DEF ChangeInstances
<1>2. IsFiniteSet(S)
  BY BalancerAssumption, FS_Subset
<1>3. Cardinality(S) \in Nat
  BY <1>2, FS_CardinalityType
<1>4. Listed(Cardinality(S))' /\ Len(instances') = Cardinality(S)
  BY <1>1, <1>3 DEF SetToSeqs, Listed
<1>5. weight' \in [Ids -> Weights]
  <2>1. weight \in [Ids -> Weights]
    BY DEF BalInv, BalTypes
  <2> QED BY <2>1 DEF ChangeInstances
<1>6. picks' = [i \in Ids |-> 0] /\ UNCHANGED <<policy, idx, nodes>> 
      /\ even' = (even /\ AtRest /\ \A i \in DOMAIN nodes : weight'[i] = weight[i])
  BY DEF ChangeInstances
<1>7. Picked' = 0
  <2>1. IsFiniteSet(Ids) /\ \A i \in Ids : picks'[i] \in Nat /\ picks'[i] = 0
    BY <1>6, BalancerAssumption
  <2>2. Sum(picks', Ids) = 0
    BY <2>1, SumZero
  <2> QED BY <2>2 DEF Picked
<1>8. BalTypes'
  BY <1>3, <1>4, <1>5, <1>6 DEF BalInv, BalTypes
<1>9. SmoothInv'
  <2>1. ASSUME policy = "smooth_weighted", even', NEW i \in DOMAIN nodes
        PROVE  nodes[i].effective = Weighs(i)'
    <3>1. nodes[i].effective = Weighs(i) /\ weight'[i] = weight[i]
      BY <1>6, <2>1 DEF BalInv, SmoothInv
    <3> QED BY <3>1 DEF Weighs
  <2> QED BY <1>6, <1>7, <2>1 DEF BalInv, SmoothInv, AtRest
<1> QED BY <1>7, <1>8, <1>9 DEF RingInv

\* The round robins move on by one place.
LEMMA BalTurns ==
  ASSUME BalInv, policy \in {"round_robin", "weighted_rr"}, instances # << >>,
         idx' = (idx + 1) % Cycle, Pick(Ring[(idx % Len(Ring)) + 1]), UNCHANGED nodes
  PROVE  BalInv'
<1> DEFINE n == Turn  c == idx % n  i == Ring[c + 1]
           d == IF c = n - 1 THEN 0 ELSE c + 1
<1>0. policy \in Rotating /\ BalTypes /\ RingInv
  BY DEF BalInv, Rotating
<1>1. Members \subseteq Ids /\ Turn \in Nat \ {0}
  BY <1>0, ShareNat
<1>2. Ring \in Seq(Members) /\ Len(Ring) = Turn /\ Cycle % Turn = 0
  <2>1. Len(instances) \in Nat \ {0} /\ Listed(Len(instances)) /\ weight \in [Ids -> Weights]
    BY <1>0, MembersIs DEF BalTypes
  <2> QED BY <2>1, RingIs
<1>3. c \in 0 .. n - 1 /\ idx' \in 0 .. Cycle - 1 /\ idx' % n = d
  <2>1. Cycle \in Nat \ {0} /\ idx \in 0 .. Cycle - 1
    BY <1>0, BalancerAssumption DEF BalTypes
  <2> QED BY <1>1, <1>2, <2>1, NextPlace
<1> HIDE DEF c, d
<1>4. i \in Members /\ Pick(i) /\ i \in Ids
  BY <1>1, <1>2, <1>3 DEF c
<1>5. UNCHANGED <<policy, instances, weight, nodes>>
  BY <1>4 DEF Pick
<1>6. Ring' = Ring /\ Members' = Members /\ Turn' = Turn
  <2>1. Members' = Members /\ \A j : Weighs(j)' = Weighs(j) /\ Counted(j)' = Counted(j)
    BY <1>5 DEF Members, Weighs, Counted, Share
  <2>2. Wheel' = Wheel
    BY <1>5 DEF Wheel, Weighs
  <2> QED BY <1>5, <2>1, <2>2 DEF Ring, Turn
<1>7. /\ Picked \in Nat
      /\ picks' \in [Ids -> Nat] /\ \A j \in Ids \ Members : picks'[j] = 0
      /\ Picked \in {0, n} => /\ Picked' = 1
                              /\ \A j \in Ids : picks'[j] = IF j = i THEN 1 ELSE 0
      /\ Picked \notin {0, n} =>
           /\ Picked' = Picked + 1
           /\ \A j \in Ids : picks'[j] = IF j = i THEN picks[i] + 1 ELSE picks[j]
  BY <1>0, <1>1, <1>4, PickCounts
<1>8. BalTypes'
  <2>1. Len(instances)' \in Nat /\ Listed(Len(instances))'
    BY <1>0, <1>5 DEF BalTypes, Listed
  <2> QED BY <1>0, <1>3, <1>5, <1>6, <1>7, <2>1 DEF BalTypes
<1>9. Picked' # 0 /\ Picked' <= n
  BY <1>0, <1>1, <1>7 DEF RingInv
<1>10. ASSUME NEW j \in Members
       PROVE  picks'[j] = Cardinality({q \in Visited(d, Picked', n) : Ring[q] = j})
  <2>1. CASE Picked \in {0, n}
    <3>1. Visited(c, 0, n) = {} /\ Visited(d, 1, n) = {c + 1}
      <4>1. 0 \in 0 .. n /\ n \in Nat \ {0}
        BY <1>1
      <4> HIDE DEF n
      <4> QED BY <1>3, <4>1, VisitNext DEF d
    <3>2. {q \in Visited(d, Picked', n) : Ring[q] = j} = IF j = i THEN {c + 1} ELSE {}
      BY <1>7, <2>1, <3>1
    <3>3. picks'[j] = IF j = i THEN 1 ELSE 0
      BY <1>1, <1>7, <2>1
    <3> QED BY <3>2, <3>3, FS_Singleton, FS_EmptySet
  <2>2. CASE Picked \notin {0, n}
    <3> DEFINE V == Visited(c, Picked, n)
               A == {q \in V : Ring[q] = j}
    <3>1. Picked \in 0 .. n /\ Picked < n
      BY <1>0, <1>1, <1>7, <2>2 DEF RingInv
    <3>2. Visited(d, Picked + 1, n) = V \cup {c + 1} /\ c + 1 \notin V /\ IsFiniteSet(V)
      BY <1>1, <1>3, <3>1, VisitNext DEF d
    <3>3. picks[j] = Cardinality(A)
      BY <1>0, <2>2 DEF RingInv, c
    <3> HIDE DEF V
    <3>4. IsFiniteSet(A) /\ c + 1 \notin A
      <4>1. A \in SUBSET V
        OBVIOUS
      <4> HIDE DEF A
      <4>2. IsFiniteSet(A)
        BY <3>2, <4>1, FS_Subset
      <4> QED BY <3>2, <4>1, <4>2
    <3>5. {q \in Visited(d, Picked', n) : Ring[q] = j} = IF j = i THEN A \cup {c + 1} ELSE A
      BY <1>7, <2>2, <3>2
    <3>6. picks'[j] = IF j = i THEN picks[j] + 1 ELSE picks[j]
      BY <1>1, <1>7, <2>2
    <3> HIDE DEF A
    <3> QED BY <3>3, <3>4, <3>5, <3>6, FS_AddElement
  <2> QED BY <2>1, <2>2
<1>11. RingInv'
  BY <1>3, <1>6, <1>9, <1>10 DEF RingInv
<1>12. SmoothInv'
  BY <1>5 DEF SmoothInv
<1> QED BY <1>8, <1>11, <1>12 DEF BalInv

\* The node that has the most is owed something, so it does not go as far as a turn below.
LEMMA BestIsOwed ==
  ASSUME NEW S, IsFiniteSet(S), NEW w, NEW p, NEW m \in Nat, NEW x \in S, NEW t \in Nat \ {0},
         \A i \in S : w[i] \in Nat /\ p[i] \in Nat,
         Sum(w, S) = t, Sum(p, S) = m,
         \A i \in S : (m + 1) * w[i] - t * p[i] <= (m + 1) * w[x] - t * p[x]
  PROVE  (m + 1) * w[x] - t * p[x] > 0
<1> DEFINE a == m + 1
<1>0. a \in Nat /\ a = m + 1
  OBVIOUS
<1> HIDE DEF a
<1>1. \A i \in S : a * w[i] \in Nat /\ t * p[i] \in Nat
  BY <1>0
<1> SUFFICES ASSUME a * w[x] - t * p[x] <= 0 PROVE FALSE
  BY <1>0, <1>1 DEF a
<1>2. \A i \in S : a * w[i] <= t * p[i]
  BY <1>0, <1>1
<1>3. a * Sum(w, S) <= t * Sum(p, S)
  BY <1>0, <1>2, SumScaled
<1>4. (m + 1) * t <= t * m
  BY <1>0, <1>3
<1>5. (m + 1) * t = t * m + t /\ t * m \in Nat
  OBVIOUS
<1> QED BY <1>4, <1>5

LEMMA BalSmooth == ASSUME BalInv, SmoothWeightedRR PROVE BalInv'
<1> DEFINE W == [i \in Members |-> Counted(i)]  t == Turn  m == Picked
<1>0. policy = "smooth_weighted" /\ policy \in Rotating /\ BalTypes /\ SmoothInv /\ Members # {}
  BY ShareNat DEF BalInv, SmoothWeightedRR, Rotating
<1>1. /\ Members \subseteq Ids /\ IsFiniteSet(Members) /\ t \in Nat \ {0}
      /\ \A i \in Members : Counted(i) \in Nat \ {0}
  BY <1>0, ShareNat
<1>2. /\ DOMAIN Updated = Members
      /\ \A i \in Members : Updated[i].effective = Counted(i)
      /\ \A i \in Members : Updated[i].current = IF i \in DOMAIN nodes THEN nodes[i].current ELSE 0
  BY <1>0 DEF Updated, Counted, Share
<1>3. t = Sum(W, Members) /\ \A i \in Members : W[i] = Counted(i)
  BY DEF Turn
<1>4. Sum([i \in Members |-> Updated[i].effective], Members) = t
  <2>1. [i \in Members |-> Updated[i].effective] = W
    BY <1>2
  <2> QED BY <1>3, <2>1
<1> DEFINE gain(i) == Updated[i].current + Counted(i)
<1>5. PICK best \in Members :
        /\ \A i \in Members : gain(i) <= gain(best)
        /\ nodes' = [i \in Members |-> [current |-> gain(i) - (IF i = best THEN t ELSE 0),
                                        effective |-> Counted(i)]]
        /\ Pick(best)
  <2>1. PICK best \in Members :
          /\ \A i \in Members : [j \in Members |-> Updated[j].current + Updated[j].effective][i]
                                <= [j \in Members |-> Updated[j].current + Updated[j].effective][best]
          /\ nodes' = [i \in Members |->
               [current |-> [j \in Members |-> Updated[j].current + Updated[j].effective][i]
                              - (IF i = best THEN Sum([j \in Members |-> Updated[j].effective], Members) ELSE 0),
                effective |-> Updated[i].effective]]
          /\ Pick(best)
    BY Zenon DEF SmoothWeightedRR
  <2> QED BY <1>2, <1>4, <2>1
<1>6. best \in Ids /\ UNCHANGED <<policy, instances, weight, even, idx>>
  BY <1>1, <1>5 DEF Pick, SmoothWeightedRR
<1>7. /\ m \in Nat
      /\ picks' \in [Ids -> Nat] /\ \A j \in Ids \ Members : picks'[j] = 0
      /\ m \in {0, t} => /\ Picked' = 1
                         /\ \A j \in Ids : picks'[j] = IF j = best THEN 1 ELSE 0
      /\ m \notin {0, t} =>
           /\ Picked' = m + 1
           /\ \A j \in Ids : picks'[j] = IF j = best THEN picks[best] + 1 ELSE picks[j]
  BY <1>0, <1>1, <1>5, <1>6, PickCounts
<1>8. Members' = Members
  BY <1>6 DEF Members
<1>9. BalTypes'
  <2>1. Len(instances)' \in Nat /\ Listed(Len(instances))'
    BY <1>0, <1>6 DEF BalTypes, Listed
  <2> QED BY <1>0, <1>6, <1>7, <1>8, <2>1 DEF BalTypes
<1>10. /\ DOMAIN nodes' = Members /\ \A i \in Members : nodes'[i].effective = Counted(i)
       /\ \A i \in Members : nodes'[i].current = gain(i) - (IF i = best THEN t ELSE 0)
  BY <1>5
<1>11. Turn' = t
  <2>1. \A i \in Members : Counted(i)' = Counted(i)
    BY <1>0, <1>6, <1>10 DEF Counted, Share
  <2> QED BY <1>8, <2>1 DEF Turn
<1>12. \A i \in Members : Updated[i].current \in Int /\ picks[i] \in Nat
  BY <1>0, <1>1, <1>2 DEF SmoothInv, BalTypes
<1>13. \A i \in DOMAIN nodes' : nodes'[i].current \in Int /\ nodes'[i].effective \in Nat \ {0}
  BY <1>1, <1>10, <1>12
<1>18. even' => \A i \in DOMAIN nodes' : nodes'[i].effective = Weighs(i)'
  <2>1. even => \A i \in Members : Updated[i].effective = Weighs(i)
    BY <1>0 DEF Updated, SmoothInv
  <2> QED BY <1>2, <1>6, <1>10, <2>1 DEF Weighs
<1>14. Picked' # 0 /\ Picked' <= t
  BY <1>0, <1>1, <1>7 DEF SmoothInv
<1>15. ASSUME even, NEW i \in Members
       PROVE  /\ nodes'[i].current = Picked' * nodes'[i].effective - t * picks'[i]
              /\ nodes'[i].current > - t
  <2>a. m # 0 => /\ DOMAIN nodes = Members
                 /\ \A j \in Members : /\ nodes[j].current = m * Counted(j) - t * picks[j]
                                       /\ nodes[j].current > - t
    <3> SUFFICES ASSUME m # 0
                 PROVE  /\ DOMAIN nodes = Members
                        /\ \A j \in Members : /\ nodes[j].current = m * Counted(j) - t * picks[j]
                                              /\ nodes[j].current > - t
      OBVIOUS
    <3>1. /\ DOMAIN nodes = Members
          /\ \A j \in Members : /\ nodes[j].current = m * nodes[j].effective - t * picks[j]
                                /\ nodes[j].current > - t
      BY <1>0, <1>15 DEF SmoothInv
    <3>2. \A j \in Members : nodes[j].effective = Counted(j)
      BY <1>0, <3>1 DEF Counted, Share
    <3> HIDE DEF m, t
    <3> QED BY <3>1, <3>2
  <2>1. CASE m \in {0, t}
    <3>1. \A j \in Members : Updated[j].current = 0
      <4>1. CASE m = 0
        BY <1>0, <1>2, <1>15, <4>1 DEF SmoothInv, AtRest
      <4>2. CASE m = t
        <5>1. /\ DOMAIN nodes = Members
              /\ \A j \in Members : /\ nodes[j].current = t * Counted(j) - t * picks[j]
                                    /\ nodes[j].current > - t
          <6>1. m # 0
            BY <1>1, <4>2
          <6> QED BY <4>2, <6>1, <2>a
        <5>2. \A j \in Members : picks[j] \in Nat /\ W[j] \in Nat /\ picks[j] <= W[j]
          <6> SUFFICES ASSUME NEW j \in Members PROVE picks[j] <= Counted(j)
            BY <1>1, <1>12
          <6> DEFINE p == picks[j]  w == Counted(j)
          <6>1. p \in Nat /\ w \in Nat /\ t * w - t * p > - t /\ t \in Nat \ {0}
            BY <1>1, <1>12, <5>1
          <6> HIDE DEF p, w, t
          <6>2. ~(p >= w + 1)
            <7> SUFFICES ASSUME p >= w + 1 PROVE FALSE
              OBVIOUS
            <7>1. t * p >= t * (w + 1) /\ t * (w + 1) = t * w + t
              BY <6>1
            <7> QED BY <6>1, <7>1
          <6> QED BY <6>1, <6>2 DEF p, w
        <5>3. Sum(picks, Members) = t
          BY <1>0, <1>1, <4>2, SumWithin DEF BalTypes, Picked
        <5>4. \A j \in Members : picks[j] = W[j]
          <6> HIDE DEF W, t
          <6> QED BY <1>1, <1>3, <5>2, <5>3, SumEqual
        <5> QED BY <1>1, <1>2, <5>1, <5>4
      <4> QED BY <2>1, <4>1, <4>2
    <3>2. Picked' = 1 /\ picks'[i] = IF i = best THEN 1 ELSE 0
      BY <1>1, <1>7, <2>1
    <3>3. nodes'[i].current = Counted(i) - (IF i = best THEN t ELSE 0)
      BY <1>1, <1>10, <3>1
    <3> QED BY <1>1, <1>10, <3>2, <3>3
  <2>2. CASE m \notin {0, t}
    <3>1. /\ DOMAIN nodes = Members
          /\ \A j \in Members : /\ Updated[j].current = m * Counted(j) - t * picks[j]
                                /\ Updated[j].current > - t
      <4>1. m # 0
        BY <2>2
      <4> QED BY <1>2, <4>1, <2>a
    <3>2. \A j \in Members : gain(j) = (m + 1) * Counted(j) - t * picks[j]
      <4> SUFFICES ASSUME NEW j \in Members PROVE gain(j) = (m + 1) * Counted(j) - t * picks[j]
        OBVIOUS
      <4>1. Counted(j) \in Nat /\ picks[j] \in Nat /\ m \in Nat /\ t \in Nat
        BY <1>1, <1>7, <1>12
      <4>2. (m + 1) * Counted(j) = m * Counted(j) + Counted(j)
        BY <4>1
      <4>3. m * Counted(j) \in Nat /\ t * picks[j] \in Nat
        BY <4>1
      <4> QED BY <3>1, <4>1, <4>2, <4>3
    <3>3. gain(best) > 0
      <4>1. Sum(picks, Members) = m
        BY <1>0, <1>1, SumWithin DEF BalTypes, Picked
      <4>2. \A j \in Members : W[j] \in Nat /\ picks[j] \in Nat
        BY <1>1, <1>12
      <4>3. \A j \in Members : (m + 1) * W[j] - t * picks[j] <= (m + 1) * W[best] - t * picks[best]
        BY <1>3, <1>5, <3>2
      <4>4. (m + 1) * W[best] - t * picks[best] > 0
        <5> HIDE DEF W, t, m
        <5> QED BY <1>1, <1>3, <1>5, <1>7, <4>1, <4>2, <4>3, BestIsOwed
      <4> QED BY <1>3, <3>2, <4>4
    <3>4. nodes'[i].current > - t
      <4>1. nodes'[i].current = gain(i) - (IF i = best THEN t ELSE 0) /\ gain(i) \in Int
        BY <1>1, <1>10, <1>12
      <4>2. gain(i) > - t
        BY <1>1, <1>12, <3>1
      <4> QED BY <1>1, <3>3, <4>1, <4>2
    <3>5. picks'[i] = (IF i = best THEN picks[i] + 1 ELSE picks[i]) /\ Picked' = m + 1
      BY <1>1, <1>7, <2>2
    <3>6. nodes'[i].current = (m + 1) * Counted(i) - t * picks'[i]
      <4>1. Counted(i) \in Nat /\ picks[i] \in Nat /\ m \in Nat /\ t \in Nat
        BY <1>1, <1>7, <1>12
      <4>2. t * (picks[i] + 1) = t * picks[i] + t /\ t * picks[i] \in Nat /\ (m + 1) * Counted(i) \in Nat
        BY <4>1
      <4>3. nodes'[i].current = (m + 1) * Counted(i) - t * picks[i] - (IF i = best THEN t ELSE 0)
        BY <1>10, <3>2
      <4> HIDE DEF t, m
      <4> QED BY <3>5, <4>1, <4>2, <4>3
    <3> QED BY <1>10, <3>4, <3>5, <3>6
  <2> QED BY <2>1, <2>2
<1>16. SmoothInv'
  <2> HIDE DEF t
  <2> QED BY <1>6, <1>8, <1>11, <1>13, <1>10, <1>14, <1>15, <1>18 DEF SmoothInv
<1>17. RingInv'
  BY <1>0, <1>6 DEF RingInv
<1> QED BY <1>9, <1>16, <1>17 DEF BalInv

LEMMA BalKept ==
  ASSUME BalInv, UNCHANGED <<policy, instances, weight, idx, nodes, picks, even>>
  PROVE  BalInv'
<1>1. Members' = Members /\ Picked' = Picked /\ (AtRest' <=> AtRest)
  BY DEF Members, Picked, AtRest
<1>2. Turn' = Turn /\ Ring' = Ring
  <2>1. \A j : Weighs(j)' = Weighs(j) /\ Counted(j)' = Counted(j)
    BY DEF Weighs, Counted, Share
  <2>2. Wheel' = Wheel
    BY DEF Wheel, Weighs
  <2> QED BY <1>1, <2>1, <2>2 DEF Ring, Turn
<1> USE <1>1, <1>2
<1>3. BalTypes => BalTypes'
  BY DEF BalTypes, Listed
<1>4. RingInv => RingInv'
  BY DEF RingInv
<1>5. SmoothInv => SmoothInv'
  <2>1. \A j : Weighs(j)' = Weighs(j)
    BY DEF Weighs
  <2> QED BY <2>1 DEF SmoothInv
<1> QED BY <1>3, <1>4, <1>5 DEF BalInv

LEMMA BalInductive == BalInv /\ [BalancerNext]_balancerVars => BalInv'
<1> SUFFICES ASSUME BalInv, [BalancerNext]_balancerVars PROVE BalInv'
  OBVIOUS
<1>1. CASE RoundRobin
  <2>1. Ring = instances
    BY <1>1 DEF RoundRobin, Ring
  <2> QED BY <1>1, <2>1, BalTurns DEF RoundRobin
<1>2. CASE WeightedRR
  <2>1. Ring = Wheel
    BY <1>2 DEF WeightedRR, Ring
  <2> QED BY <1>2, <2>1, BalTurns DEF WeightedRR
<1>3. CASE Extreme \/ WeightedLoad \/ ConsistentHash
  BY <1>3 DEF Extreme, WeightedLoad, ConsistentHash, Pick, Least, Rotating, BalInv
<1>4. CASE Nobody \/ Lookup
  BY <1>4, BalKept DEF Nobody, Lookup
<1>5. CASE UNCHANGED balancerVars
  BY <1>5, BalKept DEF balancerVars
<1> QED BY <1>1, <1>2, <1>3, <1>4, <1>5, BalChanges, BalSmooth DEF BalancerNext

LEMMA BalShares == BalInv => Shares
<1> SUFFICES ASSUME BalInv, policy \in Rotating, Picked = Turn, even, NEW i \in Members
             PROVE  picks[i] = Share(i)
  BY DEF Shares, Picked
<1>0. Counted(i) = Share(i)
  BY DEF Counted, Share, BalInv, SmoothInv
<1> SUFFICES picks[i] = Counted(i)
  BY <1>0
<1> DEFINE W == [j \in Members |-> Counted(j)]
<1>1. /\ Members \subseteq Ids /\ IsFiniteSet(Members) /\ BalTypes /\ Turn \in Nat \ {0}
      /\ \A j \in Members : Counted(j) \in Nat \ {0}
      /\ instances # << >>
  BY ShareNat DEF BalInv
<1>2. CASE policy \in {"round_robin", "weighted_rr"}
  <2>1. Len(instances) \in Nat \ {0} /\ Listed(Len(instances)) /\ weight \in [Ids -> Weights]
    BY <1>1, MembersIs DEF BalTypes
  <2>2. Ring \in Seq(Members) /\ Len(Ring) = Turn /\ Cycle % Turn = 0
        /\ Cardinality(Places(Ring, i)) = Counted(i)
    BY <1>2, <2>1, RingIs
  <2>3. idx % Turn \in 0 .. Turn - 1
    <3>1. Cycle \in Nat \ {0} /\ idx \in 0 .. Cycle - 1
      BY <1>1, BalancerAssumption DEF BalTypes
    <3> QED BY <1>1, <2>2, <3>1, NextPlace
  <2>4. Visited(idx % Turn, Turn, Turn) = 1 .. Turn
    <3> DEFINE n == Turn  c == idx % Turn
    <3>1. n \in Nat \ {0} /\ n \in 0 .. n /\ c \in 0 .. n - 1
      BY <1>1, <2>3
    <3> HIDE DEF n, c
    <3>2. Visited(c, n, n) = 1 .. n
      BY <3>1, VisitNext
    <3> QED BY <3>2 DEF n, c
  <2>5. picks[i] = Cardinality({q \in 1 .. Turn : Ring[q] = i})
    BY <1>1, <1>2, <2>4 DEF BalInv, RingInv
  <2> QED BY <2>2, <2>5 DEF Places
<1>3. CASE policy = "smooth_weighted"
  <2> DEFINE t == Turn
  <2>1. DOMAIN nodes = Members
        /\ \A j \in Members : /\ nodes[j].current = t * Counted(j) - t * picks[j]
                              /\ nodes[j].current > - t
    BY <1>1, <1>3 DEF BalInv, SmoothInv, Counted, Share
  <2>2. \A j \in Members : picks[j] \in Nat /\ W[j] \in Nat /\ picks[j] <= W[j]
    <3> SUFFICES ASSUME NEW j \in Members PROVE picks[j] \in Nat /\ picks[j] <= Counted(j)
      BY <1>1
    <3> DEFINE p == picks[j]  w == Counted(j)
    <3>1. p \in Nat /\ w \in Nat /\ t * w - t * p > - t /\ t \in Nat \ {0}
      BY <1>1, <2>1 DEF BalTypes
    <3> HIDE DEF p, w, t
    <3>2. ~(p >= w + 1)
      <4> SUFFICES ASSUME p >= w + 1 PROVE FALSE
        OBVIOUS
      <4>1. t * p >= t * (w + 1) /\ t * (w + 1) = t * w + t
        BY <3>1
      <4> QED BY <3>1, <4>1
    <3> QED BY <3>1, <3>2 DEF p, w
  <2>3. Sum(picks, Members) = t
    BY <1>1, SumWithin DEF BalTypes, Picked
  <2>4. Sum(W, Members) = t
    BY DEF Turn
  <2>5. \A j \in Members : picks[j] = W[j]
    <3> HIDE DEF W, t
    <3> QED BY <1>1, <2>2, <2>3, <2>4, SumEqual
  <2> QED BY <2>5
<1> QED BY <1>2, <1>3 DEF Rotating

\* Over a full turn with the same instances weighted_rr and smooth_weighted pick every one of
\* them as often as it weighs and round_robin picks it once, for any instances and weights;
\* smooth_weighted while no node has changed its weight, and none came or went while another
\* was owed a pick (LoadBalancer.cpp:140 keeps the weight a node came with).
THEOREM SharesCorrect == BalancerSpec => []Shares
<1>1. BalancerInit => BalInv
  BY BalBegins
<1>2. BalInv /\ [BalancerNext]_balancerVars => BalInv'
  BY BalInductive
<1>3. BalInv => Shares
  BY BalShares
<1> QED BY <1>1, <1>2, <1>3, PTL DEF BalancerSpec
=============================================================================
