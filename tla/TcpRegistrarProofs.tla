-------------------------- MODULE TcpRegistrarProofs --------------------------
(***************************************************************************)
(* Proofs that what the centre tells its clients adds up to the registry,  *)
(* for any number of instances, connections and mishaps, however requests, *)
(* disconnects and expiries interleave.                                    *)
(*                                                                         *)
(* DeltasComplete is not inductive.  That a silent renewal changes nothing *)
(* needs to be known of the maps of the registrar: a connection that is    *)
(* mapped has its instance registered.  That no change is lost needs to be *)
(* known of the slots: they live as long as the maps name the connection.  *)
(***************************************************************************)
EXTENDS TcpRegistrar, FiniteSetTheorems, SequenceTheorems, WellFoundedInduction, TLAPS

----------------------------------------------------------------------------
(* What a list of changes makes of a set of ids.                           *)

\* The changes in a list that are about i.
About(infos, i) == {n \in DOMAIN infos : infos[n].inst = i}

\* Among the positions of a list, there is a last one.
LEMMA LastOne ==
  ASSUME NEW n \in Nat, NEW S, S \subseteq 1 .. n, S # {}
  PROVE  \E x \in S : \A y \in S : y <= x
<1> DEFINE R == {ss \in Nat \X Nat : ss[1] < ss[2]}
           T == {n - y : y \in S}
<1>1. ASSUME NEW a \in Nat, NEW b \in Nat PROVE <<a, b>> \in R <=> a < b
  OBVIOUS
<1>2. IsWellFoundedOn(R, Nat)
  BY NatLessThanWellFounded DEF OpToRel
<1>3. T \subseteq Nat /\ T # {}
  <2>1. \A y \in S : n - y \in Nat
    OBVIOUS
  <2> QED BY <2>1
<1> HIDE DEF R, T
<1>4. PICK x \in T : \A y \in T : ~(<<y, x>> \in R)
  BY <1>2, <1>3, WFMin
<1>5. PICK z \in S : x = n - z
  BY DEF T
<1>6. ASSUME NEW y \in S PROVE y <= z
  <2>1. y \in 1 .. n /\ z \in 1 .. n /\ n - y \in T
    BY DEF T
  <2>2. ~(n - y < n - z)
    BY <1>1, <1>3, <1>4, <1>5, <2>1
  <2> QED BY <2>1, <2>2
<1> QED BY <1>6

\* The last change about i decides.
LEMMA LastDecides ==
  ASSUME NEW ids, NEW infos \in Seq(Delta), NEW i, NEW n \in About(infos, i),
         \A m \in About(infos, i) : m <= n
  PROVE  i \in Apply(ids, infos) <=> infos[n].op = "UPSERT"
<1> DEFINE latest == CHOOSE k \in DOMAIN infos :
                       infos[k].inst = i /\ \A m \in DOMAIN infos : infos[m].inst = i => m <= k
           Named == {infos[k].inst : k \in DOMAIN infos}
<1>1. DOMAIN infos \subseteq Nat
  BY LenProperties
<1>2. n \in DOMAIN infos /\ infos[n].inst = i /\ \A m \in DOMAIN infos : infos[m].inst = i => m <= n
  BY DEF About
<1>3. latest = n
  <2>1. /\ latest \in DOMAIN infos /\ infos[latest].inst = i
        /\ \A m \in DOMAIN infos : infos[m].inst = i => m <= latest
    BY <1>2
  <2>2. latest <= n /\ n <= latest
    BY <1>2, <2>1
  <2> QED BY <1>1, <1>2, <2>1, <2>2
<1>4. i \in Named
  BY <1>2
<1>5. i \in Apply(ids, infos) <=> infos[latest].op = "UPSERT"
  BY <1>4 DEF Apply
<1> QED BY <1>3, <1>5

\* A list that says nothing about i leaves i alone.
LEMMA SilentKeeps ==
  ASSUME NEW ids, NEW infos \in Seq(Delta), NEW i, About(infos, i) = {}
  PROVE  i \in Apply(ids, infos) <=> i \in ids
BY DEF Apply, About

\* Two lists, one after the other.
LEMMA ApplyTwice ==
  ASSUME NEW ids, NEW a \in Seq(Delta), NEW b \in Seq(Delta), NEW i
  PROVE  i \in Apply(ids, a \o b) <=> i \in Apply(Apply(ids, a), b)
<1> DEFINE c == a \o b
<1>1. /\ c \in Seq(Delta) /\ Len(c) = Len(a) + Len(b)
      /\ \A k \in 1 .. Len(a) + Len(b) : c[k] = IF k <= Len(a) THEN a[k] ELSE b[k - Len(a)]
  BY ConcatProperties
<1>2. /\ Len(a) \in Nat /\ DOMAIN a = 1 .. Len(a)
      /\ Len(b) \in Nat /\ DOMAIN b = 1 .. Len(b)
      /\ DOMAIN c = 1 .. Len(a) + Len(b)
  BY <1>1, LenProperties
<1> HIDE DEF c
<1>3. \A k \in DOMAIN a : c[k] = a[k] /\ (k \in About(c, i) <=> k \in About(a, i))
  <2> SUFFICES ASSUME NEW k \in DOMAIN a
               PROVE  c[k] = a[k] /\ k \in DOMAIN c
    BY DEF About
  <2> QED BY <1>1, <1>2
<1>4. \A k \in DOMAIN b : /\ c[Len(a) + k] = b[k]
                          /\ Len(a) + k \in About(c, i) <=> k \in About(b, i)
  <2> SUFFICES ASSUME NEW k \in DOMAIN b
               PROVE  c[Len(a) + k] = b[k] /\ Len(a) + k \in DOMAIN c
    BY DEF About
  <2> QED BY <1>1, <1>2
<1>5. ASSUME NEW m \in About(c, i)
      PROVE  /\ m \in Nat
             /\ \/ m <= Len(a) /\ m \in About(a, i)
                \/ m > Len(a) /\ m - Len(a) \in About(b, i)
  <2>1. m \in 1 .. Len(a) + Len(b)
    BY <1>2 DEF About
  <2>2. ASSUME m <= Len(a) PROVE m \in About(a, i)
    <3>1. m \in DOMAIN a
      BY <1>2, <2>1, <2>2
    <3> QED BY <1>3, <3>1
  <2>3. ASSUME m > Len(a) PROVE m - Len(a) \in About(b, i)
    <3>1. m - Len(a) \in DOMAIN b /\ Len(a) + (m - Len(a)) = m
      BY <1>2, <2>1, <2>3
    <3> QED BY <1>4, <3>1
  <2> QED BY <1>2, <2>1, <2>2, <2>3
<1>6. CASE About(b, i) # {}
  <2>1. PICK n \in About(b, i) : \A m \in About(b, i) : m <= n
    <3>1. About(b, i) \subseteq 1 .. Len(b)
      BY <1>2 DEF About
    <3> QED BY <1>2, <1>6, <3>1, LastOne
  <2>2. n \in DOMAIN b /\ n \in Nat
    BY <1>2 DEF About
  <2>3. Len(a) + n \in About(c, i) /\ c[Len(a) + n] = b[n]
    BY <1>4, <2>2
  <2>4. ASSUME NEW m \in About(c, i) PROVE m <= Len(a) + n
    BY <1>2, <1>5, <2>1, <2>2
  <2>5. i \in Apply(ids, c) <=> b[n].op = "UPSERT"
    BY <1>1, <2>3, <2>4, LastDecides
  <2>6. i \in Apply(Apply(ids, a), b) <=> b[n].op = "UPSERT"
    BY <2>1, LastDecides
  <2> QED BY <2>5, <2>6 DEF c
<1>7. CASE About(b, i) = {} /\ About(a, i) # {}
  <2>1. PICK n \in About(a, i) : \A m \in About(a, i) : m <= n
    <3>1. About(a, i) \subseteq 1 .. Len(a)
      BY <1>2 DEF About
    <3> QED BY <1>2, <1>7, <3>1, LastOne
  <2>2. n \in DOMAIN a
    BY DEF About
  <2>3. n \in About(c, i) /\ c[n] = a[n]
    BY <1>3, <2>2
  <2>4. ASSUME NEW m \in About(c, i) PROVE m <= n
    BY <1>5, <1>7, <2>1
  <2>5. i \in Apply(ids, c) <=> a[n].op = "UPSERT"
    BY <1>1, <2>3, <2>4, LastDecides
  <2>6. i \in Apply(ids, a) <=> a[n].op = "UPSERT"
    BY <2>1, LastDecides
  <2>7. i \in Apply(Apply(ids, a), b) <=> i \in Apply(ids, a)
    BY <1>7, SilentKeeps
  <2> QED BY <2>5, <2>6, <2>7 DEF c
<1>8. CASE About(b, i) = {} /\ About(a, i) = {}
  <2>1. About(c, i) = {}
    BY <1>5, <1>8
  <2>2. i \in Apply(ids, c) <=> i \in ids
    BY <1>1, <2>1, SilentKeeps
  <2>3. i \in Apply(ids, a) <=> i \in ids
    BY <1>8, SilentKeeps
  <2>4. i \in Apply(Apply(ids, a), b) <=> i \in Apply(ids, a)
    BY <1>8, SilentKeeps
  <2> QED BY <2>2, <2>3, <2>4 DEF c
<1> QED BY <1>6, <1>7, <1>8

\* A list whose changes are all of one kind.
LEMMA ApplyOneKind ==
  ASSUME NEW ids, NEW infos \in Seq(Delta), NEW op, NEW i,
         \A n \in DOMAIN infos : infos[n].op = op
  PROVE  i \in Apply(ids, infos) <=> IF About(infos, i) # {} THEN op = "UPSERT" ELSE i \in ids
<1>1. CASE About(infos, i) # {}
  <2>1. Len(infos) \in Nat /\ About(infos, i) \subseteq 1 .. Len(infos)
    BY LenProperties DEF About
  <2>2. PICK n \in About(infos, i) : \A m \in About(infos, i) : m <= n
    BY <1>1, <2>1, LastOne
  <2>3. infos[n].op = op
    BY DEF About
  <2> QED BY <1>1, <2>2, <2>3, LastDecides
<1>2. CASE About(infos, i) = {}
  BY <1>2, SilentKeeps
<1> QED BY <1>1, <1>2

\* An element of two lists, one after the other, is an element of one of them.
LEMMA EitherPart ==
  ASSUME NEW a \in Seq(Delta), NEW b \in Seq(Delta), NEW n \in DOMAIN (a \o b)
  PROVE  \/ n \in DOMAIN a /\ (a \o b)[n] = a[n]
         \/ \E k \in DOMAIN b : (a \o b)[n] = b[k]
<1> DEFINE c == a \o b
<1>1. /\ c \in Seq(Delta) /\ Len(c) = Len(a) + Len(b)
      /\ \A k \in 1 .. Len(a) + Len(b) : c[k] = IF k <= Len(a) THEN a[k] ELSE b[k - Len(a)]
  BY ConcatProperties
<1>2. /\ Len(a) \in Nat /\ DOMAIN a = 1 .. Len(a)
      /\ Len(b) \in Nat /\ DOMAIN b = 1 .. Len(b)
      /\ DOMAIN c = 1 .. Len(a) + Len(b)
  BY <1>1, LenProperties
<1>3. n \in 1 .. Len(a) + Len(b)
  BY <1>2
<1> HIDE DEF c
<1>4. CASE n <= Len(a)
  BY <1>1, <1>2, <1>3, <1>4 DEF c
<1>5. CASE n > Len(a)
  <2>1. n - Len(a) \in DOMAIN b /\ c[n] = b[n - Len(a)]
    BY <1>1, <1>2, <1>3, <1>5
  <2> QED BY <2>1 DEF c
<1> QED BY <1>2, <1>3, <1>4, <1>5

----------------------------------------------------------------------------
(* The registry.                                                           *)

\* SetToSeq lists every element of a finite set.
LEMMA ListsAll ==
  ASSUME NEW S, IsFiniteSet(S)
  PROVE  /\ SetToSeq(S) \in Seq(S)
         /\ \A x \in S : \E n \in DOMAIN SetToSeq(S) : SetToSeq(S)[n] = x
<1> DEFINE f == SetToSeq(S)
           n == Cardinality(S)
<1>1. n \in Nat /\ ExistsBijection(1 .. n, S)
  BY FS_CardinalityType
<1>2. PICK g : g \in Bijection(1 .. n, S)
  BY <1>1 DEF ExistsBijection
<1>3. g \in [1 .. n -> S] /\ IsInjective(g)
  BY <1>2 DEF Bijection, Injection
<1>4. f \in [1 .. n -> S] /\ IsInjective(f)
  BY <1>3 DEF SetToSeq
<1>5. f \in Injection(1 .. n, S)
  BY <1>4 DEF Injection
<1>6. Cardinality(1 .. n) = n
  BY <1>1, FS_Interval
<1>7. f \in Surjection(1 .. n, S)
  BY <1>5, <1>6, FS_Injection
<1>8. \A x \in S : \E k \in 1 .. n : f[k] = x
  BY <1>7 DEF Surjection
<1>9. f \in Seq(S) /\ DOMAIN f = 1 .. n
  BY <1>1, <1>4
<1> QED BY <1>8, <1>9

\* The changes that s is told of when those of "ids" change.
Tells(infos, op, ids, s) == /\ \A n \in DOMAIN infos : infos[n].op = op /\ infos[n].inst \in ids
                            /\ \A i : About(infos, i) # {} <=> i \in ids \ {s}

\* What push_delta_to_others appends to the queue of s.
LEMMA Pushes ==
  ASSUME RegistryTypeOK, NEW op \in {"UPSERT", "OFFLINE"}, NEW ids \in SUBSET Ids,
         NEW s \in DOMAIN delta_map
  PROVE  \E infos \in Seq(Delta) :
            push_delta_to_others(op, ids)[s] = delta_map[s] \o infos /\ Tells(infos, op, ids, s)
<1> DEFINE changed == SetToSeq(ids \ {s})
           infos == [n \in DOMAIN changed |-> [op |-> op, inst |-> changed[n]]]
<1>1. IsFiniteSet(ids \ {s})
  BY RegistrarAssumption, FS_Subset
<1>2. /\ changed \in Seq(ids \ {s})
      /\ \A x \in ids \ {s} : \E n \in DOMAIN changed : changed[n] = x
  BY <1>1, ListsAll
<1>3. /\ DOMAIN changed = 1 .. Len(changed) /\ Len(changed) \in Nat
      /\ \A n \in DOMAIN changed : changed[n] \in ids \ {s}
  <2> HIDE DEF changed
  <2> QED BY <1>2, LenProperties
<1>4. push_delta_to_others(op, ids)[s] = delta_map[s] \o infos
  BY DEF push_delta_to_others
<1> HIDE DEF changed
<1>5. infos \in Seq(Delta)
  BY <1>3 DEF Delta
<1>6. \A n \in DOMAIN infos : infos[n].op = op /\ infos[n].inst = changed[n] /\ infos[n].inst \in ids
  BY <1>3
<1>7. \A i : About(infos, i) # {} <=> i \in ids \ {s}
  BY <1>2, <1>3, <1>6 DEF About
<1> HIDE DEF infos
<1>8. Tells(infos, op, ids, s)
  BY <1>6, <1>7 DEF Tells
<1> QED BY <1>4, <1>5, <1>8

----------------------------------------------------------------------------
(* The invariant.                                                          *)

\* The instances to which nothing unusual has happened.
Quiet == Ids \ disturbed

Mapped(i) == {c \in fd_to_inst_ : Owner(c) = i}
Handled(i) == handling # None /\ Owner(handling) = i

RegistryInv == RegistryTypeOK /\ \A i \in Ids : i \in registry <=> expirations[i] # "absent"

\* The steps of the accept thread.
Steps == {"idle", "regist_register", "regist_map", "renew", "find", "renew_found",
          "map_found", "resubscribe", "reregister", "remap", "pop", "answer", "cleanup",
          "closing"}

\* The state of the centre's threads.
CentreTyped == /\ conns \subseteq Conns /\ kicked \subseteq Conns
               /\ fd_to_id_ \subseteq Conns /\ fd_to_inst_ \subseteq Conns
               /\ fd_to_got_full_update_ \subseteq Conns
               /\ pc \in Steps
               /\ handling \in Conns \cup {None} /\ disconnecting \in Conns \cup {None}
               /\ deltas \in Seq(Delta)
               /\ late \subseteq Conns

\* The state of the clients.
ClientTyped == /\ online \subseteq Ids /\ disturbed \subseteq Ids
               /\ made \in [Ids -> Nat] /\ \A i \in Ids : made[i] <= MaxConn[i]
               /\ ready_ \in [Ids -> BOOLEAN] /\ told \in [Ids -> SUBSET Ids]
               /\ mishaps \in 0 .. MaxMishaps

Typed == RegistryInv /\ CentreTyped /\ ClientTyped

\* Where the accept thread is.
StepInv == /\ handling = None <=> pc \in {"idle", "closing"}
           /\ deltas # <<>> => pc = "answer"
           /\ disconnecting \notin conns

\* Connections that have been made.
Used == {c \in Conns : c[2] <= made[Owner(c)]}
UsedInv == /\ conns \cup kicked \cup fd_to_got_full_update_ \subseteq Used
           /\ handling # None => handling \in Used
           /\ disconnecting # None => disconnecting \in Used

\* What the maps say of an instance: the connection it is mapped to is open, or its end
\* is being handled, and while it is open the instance is registered and has its slot.
MapsOK(i) ==
  /\ \A c \in Conns : Owner(c) = i => (c \in fd_to_id_ <=> c \in fd_to_inst_)
  /\ \A c \in Mapped(i) : c = disconnecting \/ (c \in conns /\ i \in registry)
  /\ \A c, d \in Mapped(i) : c = d
  /\ \A c \in fd_to_got_full_update_ : Owner(c) = i => c \in fd_to_inst_
  /\ Mapped(i) # {} => i \in DOMAIN delta_map
  /\ disconnecting # None /\ Owner(disconnecting) = i => disconnecting \in Mapped(i) /\ ~Handled(i)

\* Why an instance is registered.
RegisteredOK(i) ==
  /\ expirations[i] # "past"
  /\ i \in registry => \/ \E c \in Mapped(i) : c \in conns
                       \/ Handled(i) /\ pc \in {"regist_map", "remap"}

\* What is known of the instance whose request is handled.
HandledOK(i) ==
  Handled(i) =>
    /\ handling \in conns /\ Mapped(i) \subseteq {handling}
    /\ pc \notin {"renew_found", "map_found"}
    /\ pc \in {"renew", "pop", "answer"} => handling \in Mapped(i)
    /\ pc = "find" => i \notin registry
    /\ pc \in {"regist_map", "remap"} => i \in registry
    /\ pc \in {"regist_register", "regist_map", "reregister", "remap"} => i \in DOMAIN delta_map

InstanceOK(i) == MapsOK(i) /\ RegisteredOK(i) /\ HandledOK(i)

\* Between pop_deltas and the answer nobody is registered.
AnswerInv == pc = "answer" => \A n \in DOMAIN Deltas(me) :
               Deltas(me)[n].op = "OFFLINE" /\ Deltas(me)[n].inst \notin registry

\* What is on its way to s in an answer.
Pending(s) == IF handling = Current(s) THEN deltas ELSE <<>>

KnowInv == \A s, i \in Quiet :
             s # i /\ Synced(s) => (i \in Apply(told[s], Pending(s) \o Deltas(s)) <=> i \in registry)

IInv == /\ Typed /\ StepInv /\ UsedInv
        /\ \A i \in Quiet : InstanceOK(i)
        /\ AnswerInv /\ KnowInv

----------------------------------------------------------------------------
(* Frames: what a step leaves alone keeps its part of the invariant.       *)

\* Connections and their owners.
LEMMA ConnFacts ==
  /\ \A c \in Conns : c[1] \in Ids /\ Owner(c) = c[1] /\ c[2] \in 1 .. MaxConn[c[1]]
  /\ \A i \in Ids : \A n \in 1 .. MaxConn[i] : <<i, n>> \in Conns /\ Owner(<<i, n>>) = i
<1>1. \A c \in Conns : c[1] \in Ids /\ c[2] \in 1 .. MaxConn[c[1]]
  BY DEF Conns
<1>2. \A i \in Ids : \A n \in 1 .. MaxConn[i] : <<i, n>> \in Conns
  BY DEF Conns
<1> QED BY <1>1, <1>2 DEF Owner

\* An instance whose connections, registration and slot a step leaves alone.
LEMMA OthersKeep ==
  ASSUME IInv, Typed', NEW i \in Quiet,
         \A c \in Conns : Owner(c) = i =>
            /\ c \in fd_to_id_' <=> c \in fd_to_id_
            /\ c \in fd_to_inst_' <=> c \in fd_to_inst_
            /\ c \in fd_to_got_full_update_' => c \in fd_to_got_full_update_
            /\ c \in conns => c \in conns'
            /\ c = disconnecting' <=> c = disconnecting,
         i \in registry' <=> i \in registry,
         expirations'[i] = expirations[i],
         i \in DOMAIN delta_map => i \in DOMAIN delta_map',
         \/ Handled(i) /\ handling' = handling /\ pc' = pc
         \/ ~Handled(i) /\ ~Handled(i)'
  PROVE  InstanceOK(i)'
<1>1. InstanceOK(i)
  BY DEF IInv
<1> /\ fd_to_inst_ \subseteq Conns /\ fd_to_inst_' \subseteq Conns
    /\ fd_to_got_full_update_' \subseteq Conns /\ disconnecting' \in Conns \cup {None}
  BY DEF IInv, Typed, CentreTyped
<1>2. /\ \A c : c \in Mapped(i)' <=> c \in Mapped(i)
      /\ Mapped(i) \subseteq Conns
      /\ \A c \in Mapped(i) : Owner(c) = i
  BY DEF Mapped
<1>3. MapsOK(i)'
  <2>1. \A c \in Conns : Owner(c) = i => (c \in fd_to_id_' <=> c \in fd_to_inst_')
    BY <1>1 DEF InstanceOK, MapsOK
  <2>2. \A c \in Mapped(i)' : c = disconnecting' \/ (c \in conns' /\ i \in registry')
    BY <1>1, <1>2 DEF InstanceOK, MapsOK
  <2>3. \A c, d \in Mapped(i)' : c = d
    BY <1>1, <1>2 DEF InstanceOK, MapsOK
  <2>4. \A c \in fd_to_got_full_update_' : Owner(c) = i => c \in fd_to_inst_'
    BY <1>1 DEF InstanceOK, MapsOK
  <2>5. Mapped(i)' # {} => i \in DOMAIN delta_map'
    BY <1>1, <1>2 DEF InstanceOK, MapsOK
  <2>6. disconnecting' # None /\ Owner(disconnecting') = i =>
          disconnecting' \in Mapped(i)' /\ ~Handled(i)'
    BY <1>1, <1>2 DEF InstanceOK, MapsOK
  <2> QED BY <2>1, <2>2, <2>3, <2>4, <2>5, <2>6 DEF MapsOK
<1>4. RegisteredOK(i)'
  BY <1>1, <1>2 DEF InstanceOK, RegisteredOK, Handled
<1>5. HandledOK(i)'
  <2>1. CASE ~Handled(i)'
    BY <2>1 DEF HandledOK
  <2>2. CASE Handled(i) /\ handling' = handling /\ pc' = pc
    <3>1. HandledOK(i) /\ Handled(i)
      BY <1>1, <2>2 DEF InstanceOK
    <3>2. handling' \in conns'
      <4>1. handling \in conns /\ handling \in Conns /\ Owner(handling) = i
        BY <3>1 DEF HandledOK, Handled, IInv, Typed, CentreTyped
      <4> QED BY <2>2, <4>1
    <3>3. Mapped(i)' = Mapped(i)
      BY <1>2
    <3> HIDE DEF Mapped
    <3> QED BY <2>2, <3>1, <3>2, <3>3 DEF HandledOK
  <2> QED BY <2>1, <2>2
<1> QED BY <1>3, <1>4, <1>5 DEF InstanceOK

\* What s knows of i is left alone.
LEMMA KnowledgeKept ==
  ASSUME IInv, NEW s \in Quiet, NEW i \in Quiet, s # i, Synced(s),
         told'[s] = told[s], Pending(s)' = Pending(s), Deltas(s)' = Deltas(s),
         i \in registry' <=> i \in registry
  PROVE  i \in Apply(told[s], Pending(s) \o Deltas(s))' <=> i \in registry'
<1>1. i \in Apply(told[s], Pending(s) \o Deltas(s)) <=> i \in registry
  BY DEF IInv, KnowInv
<1>2. Apply(told[s], Pending(s) \o Deltas(s))' = Apply(told'[s], Pending(s)' \o Deltas(s)')
  BY DEF Apply
<1> QED BY <1>1, <1>2

\* The queue of s grows by changes of one kind.
Grows(s, op, ids) ==
  \E infos \in Seq(Delta) :
    delta_map'[s] = delta_map[s] \o infos /\ Tells(infos, op, ids, s)

\* What s knows of i follows the registry, when s is told of the change.
LEMMA KnowledgeGrows ==
  ASSUME IInv, NEW s \in Quiet, NEW i \in Quiet, s # i, Synced(s),
         told'[s] = told[s], Pending(s)' = Pending(s),
         NEW op, NEW ids, s \in DOMAIN delta_map, s \in DOMAIN delta_map', Grows(s, op, ids),
         i \in registry' <=> IF i \in ids THEN op = "UPSERT" ELSE i \in registry
  PROVE  i \in Apply(told[s], Pending(s) \o Deltas(s))' <=> i \in registry'
<1> DEFINE a == Pending(s) \o Deltas(s)
<1>1. i \in Apply(told[s], a) <=> i \in registry
  BY DEF IInv, KnowInv
<1>2. PICK infos \in Seq(Delta) :
        /\ delta_map'[s] = delta_map[s] \o infos
        /\ \A n \in DOMAIN infos : infos[n].op = op
        /\ \A j : About(infos, j) # {} <=> j \in ids \ {s}
  BY DEF Grows, Tells
<1>3. Pending(s) \in Seq(Delta) /\ Deltas(s) \in Seq(Delta)
  <2>1. deltas \in Seq(Delta) /\ RegistryTypeOK
    BY DEF IInv, Typed, CentreTyped, RegistryInv
  <2>2. <<>> \in Seq(Delta)
    OBVIOUS
  <2> QED BY <2>1, <2>2 DEF Pending, Deltas, RegistryTypeOK
<1>4. Deltas(s)' = Deltas(s) \o infos
  BY <1>2 DEF Deltas
<1>5. Pending(s) \o (Deltas(s) \o infos) = a \o infos /\ a \in Seq(Delta)
  BY <1>3, ConcatAssociative, ConcatProperties
<1>6. Apply(told[s], Pending(s) \o Deltas(s))' = Apply(told'[s], Pending(s)' \o Deltas(s)')
  BY DEF Apply
<1> HIDE DEF a
<1>7. i \in Apply(told[s], a \o infos) <=> i \in Apply(Apply(told[s], a), infos)
  BY <1>5, ApplyTwice
<1>8. i \in Apply(Apply(told[s], a), infos) <=>
        IF About(infos, i) # {} THEN op = "UPSERT" ELSE i \in Apply(told[s], a)
  <2> DEFINE ids1 == Apply(told[s], a)
  <2>1. \A n \in DOMAIN infos : infos[n].op = op
    BY <1>2
  <2> HIDE DEF ids1
  <2>2. i \in Apply(ids1, infos) <=> IF About(infos, i) # {} THEN op = "UPSERT" ELSE i \in ids1
    BY <2>1, ApplyOneKind
  <2> QED BY <2>2 DEF ids1
<1> QED BY <1>1, <1>2, <1>4, <1>5, <1>6, <1>7, <1>8

----------------------------------------------------------------------------
(* What each operation of the registry does to its maps.                   *)

\* The queue of one that has none is empty.
LEMMA DeltasTyped == ASSUME RegistryTypeOK, NEW s PROVE Deltas(s) \in Seq(Delta)
<1>1. <<>> \in Seq(Delta)
  OBVIOUS
<1> QED BY <1>1 DEF Deltas, RegistryTypeOK

\* The queues keep their type and their subscribers when changes are pushed.
LEMMA PushesTyped ==
  ASSUME RegistryTypeOK, NEW op \in {"UPSERT", "OFFLINE"}, NEW ids \in SUBSET Ids,
         delta_map' = push_delta_to_others(op, ids)
  PROVE  /\ DOMAIN delta_map' = DOMAIN delta_map
         /\ \A s \in DOMAIN delta_map : delta_map'[s] \in Seq(Delta) /\ Grows(s, op, ids)
<1>1. DOMAIN delta_map' = DOMAIN delta_map
  BY DEF push_delta_to_others
<1>2. ASSUME NEW s \in DOMAIN delta_map PROVE delta_map'[s] \in Seq(Delta) /\ Grows(s, op, ids)
  <2>1. PICK infos \in Seq(Delta) :
          push_delta_to_others(op, ids)[s] = delta_map[s] \o infos /\ Tells(infos, op, ids, s)
    BY Pushes
  <2>2. delta_map'[s] = delta_map[s] \o infos
    BY <2>1
  <2>3. delta_map[s] \in Seq(Delta)
    BY DEF RegistryTypeOK
  <2>4. delta_map'[s] \in Seq(Delta)
    BY <2>2, <2>3, ConcatProperties
  <2> QED BY <2>1, <2>2, <2>4 DEF Grows
<1> QED BY <1>1, <1>2

\* register_instance.
LEMMA Registers ==
  ASSUME RegistryInv, NEW i \in Ids, NEW is_new \in BOOLEAN, register_instance(i, is_new)
  PROVE  /\ RegistryInv'
         /\ registry' = registry \cup {i}
         /\ expirations'[i] = "future"
         /\ \A j \in Ids : j # i => expirations'[j] = expirations[j]
         /\ DOMAIN delta_map' = DOMAIN delta_map
         /\ is_new => \A s \in DOMAIN delta_map : Grows(s, "UPSERT", {i})
         /\ ~is_new => delta_map' = delta_map
<1>1. RegistryTypeOK /\ \A j \in Ids : j \in registry <=> expirations[j] # "absent"
  BY DEF RegistryInv
<1>2. registry' = registry \cup {i} /\ expirations' = [expirations EXCEPT ![i] = "future"]
  BY DEF register_instance
<1>3. /\ expirations' \in [Ids -> {"absent", "future", "past"}]
      /\ expirations'[i] = "future"
      /\ \A j \in Ids : j # i => expirations'[j] = expirations[j]
  BY <1>1, <1>2 DEF RegistryTypeOK
<1>4. \A j \in Ids : j \in registry' <=> expirations'[j] # "absent"
  BY <1>1, <1>2, <1>3
<1>5. /\ DOMAIN delta_map' = DOMAIN delta_map
      /\ \A s \in DOMAIN delta_map : delta_map'[s] \in Seq(Delta)
      /\ is_new => \A s \in DOMAIN delta_map : Grows(s, "UPSERT", {i})
      /\ ~is_new => delta_map' = delta_map
  <2>1. CASE is_new
    <3>1. delta_map' = push_delta_to_others("UPSERT", {i})
      BY <2>1 DEF register_instance
    <3> QED BY <1>1, <2>1, <3>1, PushesTyped
  <2>2. CASE ~is_new
    BY <1>1, <2>2 DEF register_instance, RegistryTypeOK
  <2> QED BY <2>1, <2>2
<1>6. RegistryTypeOK'
  BY <1>1, <1>2, <1>3, <1>5 DEF RegistryTypeOK
<1> QED BY <1>2, <1>3, <1>4, <1>5, <1>6 DEF RegistryInv

\* What deregister_instance and cleanup_expired have in common.
LEMMA Withdraws ==
  ASSUME RegistryInv, NEW ids \in SUBSET Ids, Withdraw(ids)
  PROVE  /\ RegistryInv'
         /\ registry' = registry \ ids
         /\ \A j \in Ids : expirations'[j] = IF j \in ids THEN "absent" ELSE expirations[j]
         /\ DOMAIN delta_map' = DOMAIN delta_map
         /\ \A s \in DOMAIN delta_map : Grows(s, "OFFLINE", ids \cap registry)
<1>1. RegistryTypeOK /\ \A j \in Ids : j \in registry <=> expirations[j] # "absent"
  BY DEF RegistryInv
<1>2. /\ registry' = registry \ ids
      /\ expirations' = [j \in Ids |-> IF j \in ids THEN "absent" ELSE expirations[j]]
      /\ delta_map' = push_delta_to_others("OFFLINE", ids \cap registry)
  BY DEF Withdraw
<1>3. /\ expirations' \in [Ids -> {"absent", "future", "past"}]
      /\ \A j \in Ids : expirations'[j] = IF j \in ids THEN "absent" ELSE expirations[j]
  BY <1>1, <1>2 DEF RegistryTypeOK
<1>4. \A j \in Ids : j \in registry' <=> expirations'[j] # "absent"
  BY <1>1, <1>2, <1>3
<1>5. ids \cap registry \in SUBSET Ids
  OBVIOUS
<1>6. /\ DOMAIN delta_map' = DOMAIN delta_map
      /\ \A s \in DOMAIN delta_map :
           delta_map'[s] \in Seq(Delta) /\ Grows(s, "OFFLINE", ids \cap registry)
  BY <1>1, <1>2, <1>5, PushesTyped
<1>7. RegistryTypeOK'
  BY <1>1, <1>2, <1>3, <1>6 DEF RegistryTypeOK
<1> QED BY <1>2, <1>3, <1>4, <1>6, <1>7 DEF RegistryInv

\* subscribe.
LEMMA Subscribes ==
  ASSUME RegistryInv, NEW s \in Ids, subscribe(s)
  PROVE  /\ RegistryInv'
         /\ registry' = registry /\ expirations' = expirations
         /\ DOMAIN delta_map' = DOMAIN delta_map \cup {s}
         /\ \A t : Deltas(t)' = Deltas(t)
<1>1. RegistryTypeOK
  BY DEF RegistryInv
<1>2. /\ registry' = registry /\ expirations' = expirations
      /\ DOMAIN delta_map' = DOMAIN delta_map \cup {s}
      /\ \A t \in DOMAIN delta_map \cup {s} :
           delta_map'[t] = IF t \in DOMAIN delta_map THEN delta_map[t] ELSE <<>>
  BY DEF subscribe
<1>3. <<>> \in Seq(Delta)
  OBVIOUS
<1>4. RegistryTypeOK'
  BY <1>1, <1>2, <1>3 DEF RegistryTypeOK
<1>5. RegistryInv'
  BY <1>2, <1>4 DEF RegistryInv
<1>6. \A t : Deltas(t)' = Deltas(t)
  BY <1>2 DEF Deltas
<1> QED BY <1>2, <1>5, <1>6

\* unsubscribe.
LEMMA Unsubscribes ==
  ASSUME RegistryInv, NEW s, unsubscribe(s)
  PROVE  /\ RegistryInv'
         /\ registry' = registry /\ expirations' = expirations
         /\ DOMAIN delta_map' = DOMAIN delta_map \ {s}
         /\ \A t : Deltas(t)' = IF t = s THEN <<>> ELSE Deltas(t)
<1>1. RegistryTypeOK
  BY DEF RegistryInv
<1>2. /\ registry' = registry /\ expirations' = expirations
      /\ DOMAIN delta_map' = DOMAIN delta_map \ {s}
      /\ \A t \in DOMAIN delta_map \ {s} : delta_map'[t] = delta_map[t]
  BY DEF unsubscribe
<1>3. RegistryTypeOK'
  BY <1>1, <1>2 DEF RegistryTypeOK
<1>4. RegistryInv'
  BY <1>2, <1>3 DEF RegistryInv
<1>5. \A t : Deltas(t)' = IF t = s THEN <<>> ELSE Deltas(t)
  BY <1>2 DEF Deltas
<1> QED BY <1>2, <1>4, <1>5

\* pop_deltas.
LEMMA Pops ==
  ASSUME RegistryInv, NEW s, pop_deltas(s)
  PROVE  /\ RegistryInv'
         /\ registry' = registry /\ expirations' = expirations
         /\ DOMAIN delta_map' = DOMAIN delta_map
         /\ \A t : Deltas(t)' = IF t = s THEN <<>> ELSE Deltas(t)
<1>1. RegistryTypeOK
  BY DEF RegistryInv
<1>2. /\ registry' = registry /\ expirations' = expirations
      /\ DOMAIN delta_map' = DOMAIN delta_map
      /\ \A t \in DOMAIN delta_map : delta_map'[t] = IF t = s THEN <<>> ELSE delta_map[t]
  BY DEF pop_deltas
<1>3. <<>> \in Seq(Delta)
  OBVIOUS
<1>4. RegistryTypeOK'
  BY <1>1, <1>2, <1>3 DEF RegistryTypeOK
<1>5. RegistryInv'
  BY <1>2, <1>4 DEF RegistryInv
<1>6. \A t : Deltas(t)' = IF t = s THEN <<>> ELSE Deltas(t)
  BY <1>2 DEF Deltas
<1> QED BY <1>2, <1>5, <1>6

----------------------------------------------------------------------------
(* The types.                                                              *)

\* The three parts of the types.
LEMMA TypedParts == Typed => TypeOK
<1> SUFFICES ASSUME Typed PROVE TypeOK
  OBVIOUS
<1>1. \A i \in Ids : made[i] \in 0 .. MaxConn[i]
  BY RegistrarAssumption DEF Typed, ClientTyped
<1> QED BY <1>1 DEF Typed, RegistryInv, CentreTyped, ClientTyped, TypeOK, Steps

\* Who the accept thread works for, when it works.
LEMMA MeTyped == ASSUME CentreTyped, handling # None PROVE handling \in Conns /\ me \in Ids
BY ConnFacts DEF CentreTyped, me

\* What a new connection is.
LEMMA NewConnectionFacts ==
  ASSUME ClientTyped, NEW i \in Ids, NewConnection(i)
  PROVE  /\ <<i, made[i] + 1>> \in Conns
         /\ made' \in [Ids -> Nat] /\ made'[i] = made[i] + 1
         /\ \A j \in Ids : j # i => made'[j] = made[j]
         /\ \A j \in Ids : made'[j] <= MaxConn[j]
<1>1. made \in [Ids -> Nat] /\ MaxConn[i] \in Nat /\ made[i] < MaxConn[i]
  BY RegistrarAssumption DEF ClientTyped, NewConnection
<1>2. made[i] + 1 \in 1 .. MaxConn[i]
  BY <1>1
<1>3. <<i, made[i] + 1>> \in Conns
  BY <1>2, ConnFacts
<1>4. made' = [made EXCEPT ![i] = made[i] + 1]
  BY DEF NewConnection
<1>5. /\ made' \in [Ids -> Nat] /\ made'[i] = made[i] + 1
      /\ \A j \in Ids : j # i => made'[j] = made[j]
  BY <1>1, <1>4
<1>6. \A j \in Ids : made'[j] <= MaxConn[j]
  BY <1>2, <1>5 DEF ClientTyped
<1> QED BY <1>3, <1>5, <1>6

\* A registry that is left alone keeps its types.
LEMMA RegistryFrame == ASSUME RegistryInv, UNCHANGED registryvars PROVE RegistryInv'
BY DEF RegistryInv, RegistryTypeOK, registryvars

\* The registry keeps its types when a connection ends.
LEMMA BeginDisconnectRegistry ==
  ASSUME RegistryInv, NEW c \in Conns, BeginDisconnect(c)
  PROVE  RegistryInv'
<1>1. CASE c \in fd_to_id_ \cap fd_to_inst_
  <2>1. Withdraw({Owner(c)} \cap registry) /\ {Owner(c)} \cap registry \in SUBSET Ids
    BY <1>1, ConnFacts DEF BeginDisconnect, deregister_instance
  <2> QED BY <2>1, Withdraws
<1>2. CASE c \notin fd_to_id_ \cap fd_to_inst_
  <2>1. UNCHANGED registryvars
    BY <1>2 DEF BeginDisconnect, registryvars
  <2> QED BY <2>1, RegistryFrame
<1> QED BY <1>1, <1>2

\* The count of mishaps stays within its bound.
LEMMA MishapTyped ==
  ASSUME ClientTyped, Mishap \/ UNCHANGED mishaps PROVE mishaps' \in 0 .. MaxMishaps
<1>1. mishaps \in 0 .. MaxMishaps /\ MaxMishaps \in Nat
  BY RegistrarAssumption DEF ClientTyped
<1> QED BY <1>1 DEF Mishap

\* Changes to a set of ids make a set of ids.
LEMMA ApplyTyped ==
  ASSUME NEW ids \in SUBSET Ids, NEW infos \in Seq(Delta)
  PROVE  Apply(ids, infos) \in SUBSET Ids
<1>1. \A n \in DOMAIN infos : infos[n] \in Delta
  BY LenProperties
<1>2. \A n \in DOMAIN infos : infos[n].inst \in Ids
  BY <1>1 DEF Delta
<1> QED BY <1>2 DEF Apply

\* Every step of a client keeps the types.
LEMMA ClientTypes ==
  ASSUME Typed, NEW i \in Ids, Start(i) \/ Stop(i) \/ Reconnect(i) \/ LeaseLapses(i)
  PROVE  Typed'
<1>1. RegistryInv /\ CentreTyped /\ ClientTyped
  BY DEF Typed
<1>2. CASE Start(i)
  <2>1. RegistryInv'
    BY <1>1, <1>2, RegistryFrame DEF Start, registryvars
  <2>2. CentreTyped'
    BY <1>1, <1>2, NewConnectionFacts DEF Start, NewConnection, CentreTyped, mapvars, handlervars, timervars
  <2>3. ClientTyped'
    BY <1>1, <1>2, NewConnectionFacts DEF Start, ClientTyped
  <2> QED BY <2>1, <2>2, <2>3 DEF Typed
<1>3. CASE Stop(i)
  <2>1. RegistryInv'
    BY <1>1, <1>3, RegistryFrame DEF Stop, registryvars
  <2>2. CentreTyped'
    BY <1>1, <1>3 DEF Stop, GiveUp, CentreTyped, mapvars, handlervars, timervars
  <2>3. ClientTyped'
    BY <1>1, <1>3, RegistrarAssumption DEF Stop, GiveUp, Mishap, ClientTyped
  <2> QED BY <2>1, <2>2, <2>3 DEF Typed
<1>4. CASE Reconnect(i)
  <2>1. RegistryInv'
    BY <1>1, <1>4, RegistryFrame DEF Reconnect, registryvars
  <2>2. CentreTyped'
    BY <1>1, <1>4, NewConnectionFacts
       DEF Reconnect, NewConnection, GiveUp, CentreTyped, mapvars, handlervars, timervars
  <2>3. ClientTyped'
    <3>1. mishaps' \in 0 .. MaxMishaps
      BY <1>1, <1>4, MishapTyped DEF Reconnect, GiveUp
    <3> QED BY <1>1, <1>4, <3>1, NewConnectionFacts DEF Reconnect, ClientTyped
  <2> QED BY <2>1, <2>2, <2>3 DEF Typed
<1>5. CASE LeaseLapses(i)
  <2>1. RegistryInv'
    <3>1. /\ expirations' = [expirations EXCEPT ![i] = "past"] /\ expirations[i] = "future"
          /\ registry' = registry /\ delta_map' = delta_map
      BY <1>5 DEF LeaseLapses, Lapse
    <3> QED BY <1>1, <3>1 DEF RegistryInv, RegistryTypeOK
  <2>2. CentreTyped'
    BY <1>1, <1>5 DEF LeaseLapses, CentreTyped, mapvars, handlervars, timervars
  <2>3. ClientTyped'
    BY <1>1, <1>5, RegistrarAssumption DEF LeaseLapses, Mishap, ClientTyped, clientvars
  <2> QED BY <2>1, <2>2, <2>3 DEF Typed
<1> QED BY <1>2, <1>3, <1>4, <1>5

\* Every step of a request keeps the types.
LEMMA HandlerTypes ==
  ASSUME Typed, Handler, StepInv PROVE Typed'
<1>1. RegistryInv /\ CentreTyped /\ ClientTyped
  BY DEF Typed
<1>2. ASSUME handling # None PROVE me \in Ids /\ handling \in Conns
  BY <1>1, <1>2, MeTyped
<1>3. ASSUME NEW c \in Conns, RegistSubscribe(c) PROVE Typed'
  <2>1. RegistryInv'
    BY <1>1, <1>3, ConnFacts, Subscribes DEF RegistSubscribe
  <2>2. CentreTyped'
    BY <1>1, <1>3 DEF RegistSubscribe, Goto, CentreTyped, Steps, mapvars, timervars, Read
  <2>3. ClientTyped'
    BY <1>1, <1>3, ConnFacts DEF RegistSubscribe, ClientTyped, clientvars, Read
  <2> QED BY <2>1, <2>2, <2>3 DEF Typed
<1>4. ASSUME NEW c \in Conns, StatusLookup(c) PROVE Typed'
  <2>1. RegistryInv'
    BY <1>1, <1>4, RegistryFrame DEF StatusLookup, registryvars
  <2>2. CentreTyped'
    BY <1>1, <1>4 DEF StatusLookup, Goto, CentreTyped, Steps, mapvars, timervars, Read
  <2>3. ClientTyped'
    BY <1>1, <1>4, ConnFacts DEF StatusLookup, ClientTyped, clientvars, Read
  <2> QED BY <2>1, <2>2, <2>3 DEF Typed
<1>5. CASE RegistRegister
  <2>0. handling # None
    BY <1>5 DEF RegistRegister, At, StepInv
  <2>1. RegistryInv'
    BY <1>1, <1>5, <1>2, <2>0, Registers DEF RegistRegister
  <2>2. CentreTyped'
    BY <1>1, <1>5 DEF RegistRegister, Goto, CentreTyped, Steps, mapvars, timervars
  <2>3. ClientTyped'
    BY <1>1, <1>5 DEF RegistRegister, ClientTyped, clientvars
  <2> QED BY <2>1, <2>2, <2>3 DEF Typed
<1>6. CASE RegistMap
  <2>0. handling # None
    BY <1>6 DEF RegistMap, At, StepInv
  <2>1. RegistryInv'
    BY <1>1, <1>6, RegistryFrame DEF RegistMap, registryvars
  <2>2. CentreTyped'
    BY <1>1, <1>6, <1>2, <2>0 DEF RegistMap, Goto, CentreTyped, Steps, mapvars, timervars
  <2>3. ClientTyped'
    <3>1. mishaps' \in 0 .. MaxMishaps
      BY <1>1, <1>6, MishapTyped DEF RegistMap
    <3>2. ready_' = ready_ \/ ready_' = [ready_ EXCEPT ![me] = TRUE]
      BY <1>6 DEF RegistMap
    <3>3. ready_' \in [Ids -> BOOLEAN]
      BY <1>1, <1>2, <2>0, <3>2 DEF ClientTyped
    <3> QED BY <1>1, <1>6, <3>1, <3>3 DEF RegistMap, ClientTyped
  <2> QED BY <2>1, <2>2, <2>3 DEF Typed
<1>7. CASE Renew
  <2>0. handling # None
    BY <1>7 DEF Renew, At, StepInv
  <2>1. RegistryInv'
    BY <1>1, <1>7, <1>2, <2>0, Registers DEF Renew
  <2>2. CentreTyped'
    BY <1>1, <1>7 DEF Renew, Goto, CentreTyped, Steps, mapvars, timervars
  <2>3. ClientTyped'
    BY <1>1, <1>7 DEF Renew, ClientTyped, clientvars
  <2> QED BY <2>1, <2>2, <2>3 DEF Typed
<1>8. CASE Find
  <2>0. handling # None
    BY <1>8 DEF Find, At, StepInv
  <2>1. RegistryInv'
    BY <1>1, <1>8, RegistryFrame DEF Find, registryvars
  <2>2. CentreTyped'
    BY <1>1, <1>8 DEF Find, Goto, CentreTyped, Steps, mapvars, timervars
  <2>3. ClientTyped'
    BY <1>1, <1>8 DEF Find, ClientTyped, clientvars
  <2> QED BY <2>1, <2>2, <2>3 DEF Typed
<1>9. CASE RenewFound
  <2>0. handling # None
    BY <1>9 DEF RenewFound, At, StepInv
  <2>1. RegistryInv'
    BY <1>1, <1>9, <1>2, <2>0, Registers DEF RenewFound
  <2>2. CentreTyped'
    BY <1>1, <1>9 DEF RenewFound, Goto, CentreTyped, Steps, mapvars, timervars
  <2>3. ClientTyped'
    BY <1>1, <1>9 DEF RenewFound, ClientTyped, clientvars
  <2> QED BY <2>1, <2>2, <2>3 DEF Typed
<1>10. CASE MapFound
  <2>0. handling # None
    BY <1>10 DEF MapFound, At, StepInv
  <2>1. RegistryInv'
    BY <1>1, <1>10, RegistryFrame DEF MapFound, registryvars
  <2>2. CentreTyped'
    BY <1>1, <1>10, <1>2, <2>0 DEF MapFound, Goto, CentreTyped, Steps, mapvars, timervars
  <2>3. ClientTyped'
    BY <1>1, <1>10 DEF MapFound, ClientTyped, clientvars
  <2> QED BY <2>1, <2>2, <2>3 DEF Typed
<1>11. CASE Resubscribe
  <2>0. handling # None
    BY <1>11 DEF Resubscribe, At, StepInv
  <2>1. RegistryInv'
    BY <1>1, <1>11, <1>2, <2>0, Subscribes DEF Resubscribe
  <2>2. CentreTyped'
    BY <1>1, <1>11 DEF Resubscribe, Goto, CentreTyped, Steps, mapvars, timervars
  <2>3. ClientTyped'
    BY <1>1, <1>11 DEF Resubscribe, ClientTyped, clientvars
  <2> QED BY <2>1, <2>2, <2>3 DEF Typed
<1>12. CASE Reregister
  <2>0. handling # None
    BY <1>12 DEF Reregister, At, StepInv
  <2>1. RegistryInv'
    BY <1>1, <1>12, <1>2, <2>0, Registers DEF Reregister
  <2>2. CentreTyped'
    BY <1>1, <1>12 DEF Reregister, Goto, CentreTyped, Steps, mapvars, timervars
  <2>3. ClientTyped'
    BY <1>1, <1>12 DEF Reregister, ClientTyped, clientvars
  <2> QED BY <2>1, <2>2, <2>3 DEF Typed
<1>13. CASE Remap
  <2>0. handling # None
    BY <1>13 DEF Remap, At, StepInv
  <2>1. RegistryInv'
    BY <1>1, <1>13, RegistryFrame DEF Remap, registryvars
  <2>2. CentreTyped'
    BY <1>1, <1>13, <1>2, <2>0 DEF Remap, Goto, CentreTyped, Steps, mapvars, timervars
  <2>3. ClientTyped'
    BY <1>1, <1>13 DEF Remap, ClientTyped, clientvars
  <2> QED BY <2>1, <2>2, <2>3 DEF Typed
<1>14. CASE Pop
  <2>0. handling # None
    BY <1>14 DEF Pop, At, StepInv
  <2>1. RegistryInv'
    BY <1>1, <1>14, <1>2, <2>0, Pops DEF Pop
  <2>2. CentreTyped'
    BY <1>1, <1>14, <1>2, <2>0, DeltasTyped DEF Pop, Goto, CentreTyped, Steps, mapvars, timervars, RegistryInv
  <2>3. ClientTyped'
    BY <1>1, <1>14 DEF Pop, ClientTyped, clientvars
  <2> QED BY <2>1, <2>2, <2>3 DEF Typed
<1>15. CASE Respond
  <2>0. handling # None
    BY <1>15 DEF Respond, At, StepInv
  <2>1. RegistryInv'
    BY <1>1, <1>15, RegistryFrame DEF Respond, registryvars
  <2>2. CentreTyped'
    BY <1>1, <1>15, <1>2, <2>0 DEF Respond, Goto, CentreTyped, Steps, mapvars, timervars
  <2>3. ClientTyped'
    <3>1. told' \in [Ids -> SUBSET Ids]
      <4>1. registry \in SUBSET Ids
        BY <1>1 DEF RegistryInv, RegistryTypeOK
      <4>2. Apply(told[me], deltas) \in SUBSET Ids
        BY <1>1, <1>2, <2>0, ApplyTyped DEF ClientTyped, CentreTyped
      <4>3. told \in [Ids -> SUBSET Ids]
        BY <1>1 DEF ClientTyped
      <4> QED BY <1>2, <2>0, <1>15, <4>1, <4>2, <4>3 DEF Respond
    <3> QED BY <1>1, <1>15, <3>1 DEF Respond, ClientTyped, clientvars
  <2> QED BY <2>1, <2>2, <2>3 DEF Typed
<1>16. CASE Cleanup
  <2>1. RegistryInv'
    <3>1. {i \in Ids : expirations[i] = "past"} \in SUBSET Ids
      OBVIOUS
    <3> QED BY <1>1, <1>16, <3>1, Withdraws DEF Cleanup, cleanup_expired
  <2>2. CentreTyped'
    BY <1>1, <1>16 DEF Cleanup, Goto, CentreTyped, Steps, mapvars, timervars
  <2>3. ClientTyped'
    BY <1>1, <1>16 DEF Cleanup, ClientTyped, clientvars
  <2> QED BY <2>1, <2>2, <2>3 DEF Typed
<1> QED BY <1>3, <1>4, <1>5, <1>6, <1>7, <1>8, <1>9, <1>10, <1>11, <1>12, <1>13, <1>14, <1>15, <1>16 DEF Handler

\* Every step of a disconnect keeps the types.
LEMMA DisconnectTypes ==
  ASSUME Typed, NEW c \in Conns, NEW cs \in SUBSET conns,
         PeerClosed(c) \/ TimerPick(cs) \/ TimerRemove(c) \/ EndDisconnect
  PROVE  Typed'
<1>1. RegistryInv /\ CentreTyped /\ ClientTyped
  BY DEF Typed
<1>2. CASE PeerClosed(c)
  <2>1. RegistryInv'
    BY <1>1, <1>2, BeginDisconnectRegistry DEF PeerClosed
  <2>2. CentreTyped'
    BY <1>1, <1>2 DEF PeerClosed, BeginDisconnect, Goto, CentreTyped, Steps, mapvars
  <2>3. ClientTyped'
    BY <1>1, <1>2 DEF PeerClosed, ClientTyped, clientvars
  <2> QED BY <2>1, <2>2, <2>3 DEF Typed
<1>3. CASE TimerPick(cs)
  <2>1. RegistryInv'
    BY <1>1, <1>3, RegistryFrame DEF TimerPick, registryvars
  <2>2. CentreTyped'
    BY <1>1, <1>3 DEF TimerPick, CentreTyped, mapvars, handlervars
  <2>3. ClientTyped'
    BY <1>1, <1>3 DEF TimerPick, ClientTyped, clientvars
  <2> QED BY <2>1, <2>2, <2>3 DEF Typed
<1>4. CASE TimerRemove(c)
  <2>1. RegistryInv'
    BY <1>1, <1>4, BeginDisconnectRegistry DEF TimerRemove
  <2>2. CentreTyped'
    BY <1>1, <1>4 DEF TimerRemove, BeginDisconnect, CentreTyped, mapvars, handlervars
  <2>3. ClientTyped'
    BY <1>1, <1>4, ConnFacts DEF TimerRemove, ClientTyped, clientvars
  <2> QED BY <2>1, <2>2, <2>3 DEF Typed
<1>5. CASE EndDisconnect
  <2>1. RegistryInv'
    BY <1>1, <1>5, Unsubscribes DEF EndDisconnect
  <2>2. CentreTyped'
    BY <1>1, <1>5 DEF EndDisconnect, Goto, CentreTyped, Steps
  <2>3. ClientTyped'
    BY <1>1, <1>5 DEF EndDisconnect, ClientTyped, clientvars
  <2> QED BY <2>1, <2>2, <2>3 DEF Typed
<1> QED BY <1>2, <1>3, <1>4, <1>5

----------------------------------------------------------------------------
(* What the proofs of the steps share.                                     *)

\* What is known of a quiet instance.
LEMMA QuietFacts ==
  ASSUME IInv, NEW i \in Quiet
  PROVE  i \in Ids /\ i \notin disturbed /\ MapsOK(i) /\ RegisteredOK(i) /\ HandledOK(i)
BY DEF IInv, Quiet, InstanceOK

\* A quiet instance that has been given everything has its slot, and uses the
\* connection that the maps name.
LEMMA SyncedFacts ==
  ASSUME IInv, NEW s \in Quiet, Synced(s)
  PROVE  /\ Current(s) \in Conns /\ Owner(Current(s)) = s
         /\ Current(s) \in conns /\ Current(s) \in fd_to_inst_ /\ Current(s) \in Mapped(s)
         /\ s \in DOMAIN delta_map
<1>1. Current(s) \in conns /\ Current(s) \in fd_to_got_full_update_ /\ Owner(Current(s)) = s
  BY DEF Synced, Current, Owner
<1>2. Current(s) \in Conns
  BY <1>1 DEF IInv, Typed, CentreTyped
<1>3. Current(s) \in fd_to_inst_ /\ Current(s) \in Mapped(s)
  BY <1>1, QuietFacts DEF MapsOK, Mapped
<1> QED BY <1>1, <1>2, <1>3, QuietFacts DEF MapsOK

\* The instance whose request is handled.
LEMMA ActorFacts ==
  ASSUME IInv, handling # None
  PROVE  /\ handling \in Conns /\ me \in Ids /\ Handled(me)
         /\ \A i : Handled(i) <=> i = me
<1>1. handling \in Conns /\ me \in Ids
  BY MeTyped DEF IInv, Typed
<1> QED BY <1>1 DEF Handled, me

\* Nothing is on its way while no answer is made.
LEMMA NothingPending == ASSUME deltas = <<>>, NEW s PROVE Pending(s) = <<>>
BY DEF Pending

\* Instances do not become quiet again.
LEMMA QuietShrinks == ASSUME disturbed \subseteq disturbed' PROVE Quiet' \subseteq Quiet
BY DEF Quiet

\* A step that leaves the centre alone, but for connections that come, keeps what is
\* known of the instances.
LEMMA InstancesKept ==
  ASSUME IInv, Typed', UNCHANGED <<registryvars, mapvars, handlervars, disconnecting>>,
         conns \subseteq conns', disturbed \subseteq disturbed'
  PROVE  \A i \in Quiet' : InstanceOK(i)'
<1> TAKE i \in Quiet'
<1>1. i \in Quiet
  BY QuietShrinks
<1>2. /\ fd_to_id_' = fd_to_id_ /\ fd_to_inst_' = fd_to_inst_
      /\ fd_to_got_full_update_' = fd_to_got_full_update_
      /\ registry' = registry /\ expirations' = expirations /\ delta_map' = delta_map
      /\ handling' = handling /\ pc' = pc /\ disconnecting' = disconnecting
  BY DEF registryvars, mapvars, handlervars
<1>3. \/ Handled(i) /\ handling' = handling /\ pc' = pc
      \/ ~Handled(i) /\ ~Handled(i)'
  BY <1>2 DEF Handled
<1> QED BY <1>1, <1>2, <1>3, OthersKeep

\* A step that leaves the registry and its answers alone keeps what the instances know,
\* when none of them has become synced.
LEMMA KnowsKept ==
  ASSUME IInv, Quiet' \subseteq Quiet, told' = told,
         \A i \in Quiet : i \in registry' <=> i \in registry,
         \A s \in Quiet : Synced(s)' => /\ Synced(s) /\ Pending(s)' = Pending(s)
                                        /\ Deltas(s)' = Deltas(s)
  PROVE  KnowInv'
<1> SUFFICES ASSUME NEW s \in Quiet, NEW i \in Quiet, s # i, Synced(s)'
             PROVE  i \in Apply(told[s], Pending(s) \o Deltas(s))' <=> i \in registry'
  BY DEF KnowInv
<1> QED BY KnowledgeKept

\* A step that tells everybody of a change keeps what the instances know.
LEMMA KnowsGrown ==
  ASSUME IInv, Quiet' \subseteq Quiet, told' = told,
         NEW op, NEW ids, DOMAIN delta_map' = DOMAIN delta_map,
         \A s \in DOMAIN delta_map : Grows(s, op, ids),
         \A i \in Quiet : i \in registry' <=> IF i \in ids THEN op = "UPSERT" ELSE i \in registry,
         \A s \in Quiet : Synced(s)' => Synced(s) /\ Pending(s)' = Pending(s)
  PROVE  KnowInv'
<1> SUFFICES ASSUME NEW s \in Quiet, NEW i \in Quiet, s # i, Synced(s)'
             PROVE  i \in Apply(told[s], Pending(s) \o Deltas(s))' <=> i \in registry'
  BY DEF KnowInv
<1>1. Synced(s) /\ s \in DOMAIN delta_map
  BY SyncedFacts
<1> QED BY <1>1, KnowledgeGrows

\* The queue of whoever is answered: nothing is pushed, or the answer is not made.
LEMMA AnswerKept ==
  ASSUME IInv, UNCHANGED <<pc, handling, registry, delta_map>>
  PROVE  AnswerInv'
BY DEF IInv, AnswerInv, Deltas, me

----------------------------------------------------------------------------
(* The steps of the clients, and the timer's choice.                       *)

\* A process starts or connects again.
LEMMA Connects ==
  ASSUME IInv, Typed', NEW i \in Ids, NewConnection(i),
         UNCHANGED <<registryvars, mapvars, handlervars, timervars, told, disturbed>>,
         online' \subseteq online \cup {i}
  PROVE  IInv'
<1> DEFINE new == <<i, made[i] + 1>>
<1>1. /\ new \in Conns /\ Owner(new) = i /\ new[2] = made[i] + 1
      /\ made \in [Ids -> Nat] /\ made' \in [Ids -> Nat]
      /\ made'[i] = made[i] + 1 /\ \A j \in Ids : j # i => made'[j] = made[j]
      /\ conns' = conns \cup {new}
  BY NewConnectionFacts DEF IInv, Typed, ClientTyped, NewConnection, Owner
<1>2. /\ registry' = registry /\ expirations' = expirations /\ delta_map' = delta_map
      /\ fd_to_id_' = fd_to_id_ /\ fd_to_inst_' = fd_to_inst_
      /\ fd_to_got_full_update_' = fd_to_got_full_update_
      /\ pc' = pc /\ handling' = handling /\ deltas' = deltas
      /\ kicked' = kicked /\ disconnecting' = disconnecting
      /\ told' = told /\ disturbed' = disturbed
  BY DEF registryvars, mapvars, handlervars, timervars
<1> HIDE DEF new
<1>3. new \notin Used /\ \A c \in Used : c \in Used'
  <2>1. ASSUME NEW c \in Conns, c[2] <= made[Owner(c)] PROVE c[2] <= made'[Owner(c)]
    BY <1>1, <2>1, ConnFacts
  <2> QED BY <1>1, <2>1 DEF Used
<1>4. new \in Used'
  BY <1>1 DEF Used
<1>5. StepInv'
  <2>1. disconnecting # new
    BY <1>1, <1>3, NoneAssumption DEF IInv, UsedInv
  <2> QED BY <1>1, <1>2, <2>1 DEF IInv, StepInv
<1>6. UsedInv'
  BY <1>1, <1>2, <1>3, <1>4 DEF IInv, UsedInv
<1>7. \A j \in Quiet' : InstanceOK(j)'
  BY <1>1, <1>2, InstancesKept
<1>8. AnswerInv'
  BY <1>2, AnswerKept
<1>9. KnowInv'
  <2>1. ASSUME NEW s \in Quiet, Synced(s)'
        PROVE  Synced(s) /\ Pending(s)' = Pending(s) /\ Deltas(s)' = Deltas(s)
    <3>1. s \in Ids /\ Current(s)' = <<s, made'[s]>>
      BY DEF Quiet, Current
    <3>2. s # i
      <4>1. CASE s = i
        <5>1. Current(s)' = new
          BY <1>1, <3>1, <4>1 DEF new
        <5>2. new \in fd_to_got_full_update_
          BY <1>2, <2>1, <5>1 DEF Synced
        <5> QED BY <1>3, <5>2 DEF IInv, UsedInv
      <4> QED BY <4>1
    <3>3. Current(s)' = Current(s)
      BY <1>1, <3>1, <3>2 DEF Current
    <3>4. Current(s) # new
      BY <1>1, <3>2 DEF Current, Owner
    <3>5. Synced(s)
      BY <1>1, <1>2, <2>1, <3>2, <3>3, <3>4 DEF Synced
    <3> QED BY <1>2, <3>3, <3>5 DEF Pending, Deltas
  <2>2. Quiet' \subseteq Quiet
    BY <1>2, QuietShrinks
  <2>3. \A j \in Quiet : j \in registry' <=> j \in registry
    BY <1>2
  <2> QED BY <1>2, <2>1, <2>2, <2>3, KnowsKept
<1> QED BY <1>5, <1>6, <1>7, <1>8, <1>9 DEF IInv

\* A step of a client, or of the timer that chooses, that brings no connection.
LEMMA NothingNew ==
  ASSUME IInv, Typed',
         UNCHANGED <<registry, delta_map, mapvars, handlervars, disconnecting, conns, made, told>>,
         kicked' \subseteq kicked \cup conns,
         online' \subseteq online, disturbed \subseteq disturbed',
         \A i \in Quiet' : expirations'[i] = expirations[i]
  PROVE  IInv'
<1>1. /\ fd_to_id_' = fd_to_id_ /\ fd_to_inst_' = fd_to_inst_
      /\ fd_to_got_full_update_' = fd_to_got_full_update_
      /\ pc' = pc /\ handling' = handling /\ deltas' = deltas
  BY DEF mapvars, handlervars
<1>2. Quiet' \subseteq Quiet
  BY QuietShrinks
<1>3. StepInv'
  BY <1>1 DEF IInv, StepInv
<1>4. UsedInv'
  BY <1>1 DEF IInv, UsedInv, Used
<1>5. ASSUME NEW i \in Quiet' PROVE InstanceOK(i)'
  <2>1. \/ Handled(i) /\ handling' = handling /\ pc' = pc
        \/ ~Handled(i) /\ ~Handled(i)'
    BY <1>1 DEF Handled
  <2> QED BY <1>1, <1>2, <2>1, OthersKeep
<1>6. AnswerInv'
  BY <1>1, AnswerKept
<1>7. ASSUME NEW s \in Quiet, Synced(s)'
      PROVE  Synced(s) /\ Pending(s)' = Pending(s) /\ Deltas(s)' = Deltas(s)
  BY <1>1, <1>7 DEF Synced, Current, Pending, Deltas
<1>8. KnowInv'
  BY <1>2, <1>7, KnowsKept
<1> QED BY <1>3, <1>4, <1>5, <1>6, <1>8 DEF IInv

\* Every step of a client.
LEMMA ClientSteps ==
  ASSUME IInv, NEW i \in Ids, Start(i) \/ Stop(i) \/ Reconnect(i) \/ LeaseLapses(i)
  PROVE  IInv'
<1>1. Typed'
  BY ClientTypes DEF IInv
<1>2. CASE Start(i)
  BY <1>1, <1>2, Connects DEF Start
<1>3. CASE Reconnect(i)
  BY <1>1, <1>3, Connects DEF Reconnect
<1>4. CASE Stop(i)
  BY <1>1, <1>4, NothingNew DEF Stop, registryvars, timervars
<1>5. CASE LeaseLapses(i)
  <2>1. \A j \in Quiet' : expirations'[j] = expirations[j]
    <3>1. expirations' = [expirations EXCEPT ![i] = "past"] /\ i \in disturbed'
      BY <1>5 DEF LeaseLapses, Lapse
    <3>2. expirations \in [Ids -> {"absent", "future", "past"}]
      BY DEF IInv, Typed, RegistryInv, RegistryTypeOK
    <3> QED BY <3>1, <3>2 DEF Quiet
  <2> QED BY <1>1, <1>5, <2>1, NothingNew DEF LeaseLapses, Lapse, timervars, clientvars
<1> QED BY <1>2, <1>3, <1>4, <1>5

\* The timer picks silent connections.
LEMMA TimerPickStep == ASSUME IInv, NEW cs \in SUBSET conns, TimerPick(cs) PROVE IInv'
<1>1. PICK c \in cs : c \in Conns
  BY DEF TimerPick, IInv, Typed, CentreTyped
<1>2. Typed'
  BY <1>1, DisconnectTypes DEF IInv
<1> QED BY <1>2, NothingNew DEF TimerPick, registryvars, clientvars

----------------------------------------------------------------------------
(* The steps of a request.                                                 *)

\* No connection is new in a request.
LEMMA UsedKept ==
  ASSUME IInv, UNCHANGED <<conns, kicked, disconnecting, made>>,
         handling' \in {handling, None} \cup conns,
         \A c \in fd_to_got_full_update_' : c \in fd_to_got_full_update_ \/ (c = handling /\ c # None)
  PROVE  UsedInv'
<1>1. Used' = Used
  BY DEF Used
<1> QED BY <1>1 DEF IInv, UsedInv

\* Nobody becomes synced, and nothing is on its way, in the steps that make no answer.
LEMMA SyncedKept ==
  ASSUME deltas = <<>>, deltas' = <<>>, UNCHANGED <<conns, online, made>>,
         fd_to_got_full_update_' \subseteq fd_to_got_full_update_, NEW s
  PROVE  (Synced(s)' => Synced(s)) /\ Pending(s)' = Pending(s)
BY DEF Synced, Current, Pending

\* The instances whose request it is not.
LEMMA RequestOthers ==
  ASSUME IInv, Typed', handling # None, handling' \in {handling, None},
         UNCHANGED <<conns, disconnecting>>,
         DOMAIN delta_map \subseteq DOMAIN delta_map',
         \A c : c # handling => /\ c \in fd_to_id_' <=> c \in fd_to_id_
                                /\ c \in fd_to_inst_' <=> c \in fd_to_inst_
                                /\ c \in fd_to_got_full_update_' <=> c \in fd_to_got_full_update_,
         NEW i \in Quiet, i # me,
         i \in registry' <=> i \in registry, expirations'[i] = expirations[i]
  PROVE  InstanceOK(i)'
<1>1. \A c \in Conns : Owner(c) = i => c # handling
  BY DEF me
<1>2. ~Handled(i) /\ ~Handled(i)'
  BY DEF Handled, me
<1> QED BY <1>1, <1>2, OthersKeep

\* The instance whose request it is, when the maps of the registrar stay as they are.
LEMMA RequestMaps ==
  ASSUME IInv, UNCHANGED <<mapvars, conns, disconnecting>>, handling' \in {handling, None},
         NEW i \in Quiet, i \in registry => i \in registry',
         DOMAIN delta_map \subseteq DOMAIN delta_map'
  PROVE  MapsOK(i)' /\ Mapped(i)' = Mapped(i)
<1>1. /\ fd_to_id_' = fd_to_id_ /\ fd_to_inst_' = fd_to_inst_
      /\ fd_to_got_full_update_' = fd_to_got_full_update_
  BY DEF mapvars
<1>2. Mapped(i)' = Mapped(i)
  BY <1>1 DEF Mapped
<1>3. MapsOK(i)
  BY QuietFacts
<1>4. ~Handled(i) => ~Handled(i)'
  BY DEF Handled
<1> HIDE DEF Mapped, Handled
<1> QED BY <1>1, <1>2, <1>3, <1>4 DEF MapsOK

\* A request is read: from the connections of its owner there is no other, or the owner
\* is disturbed.
LEMMA Reads ==
  ASSUME IInv, Typed', NEW c \in Conns, NEW kind, Read(c, kind),
         UNCHANGED <<registry, expirations, conns, mapvars, disconnecting>>,
         DOMAIN delta_map \subseteq DOMAIN delta_map',
         \/ pc' = "regist_register" /\ Owner(c) \in DOMAIN delta_map'
         \/ pc' = IF c \in fd_to_inst_ THEN "renew" ELSE "find",
         NEW i \in Quiet'
  PROVE  InstanceOK(i)'
<1>1. /\ pc = "idle" /\ disconnecting = None /\ c \in conns /\ handling' = c
      /\ disturbed \subseteq disturbed'
      /\ (\E d \in conns : d # c /\ Owner(d) = Owner(c)) => Owner(c) \in disturbed'
  BY DEF Read, At, Locked
<1>2. i \in Quiet /\ handling = None /\ c # None
  BY <1>1, QuietShrinks, NoneAssumption DEF IInv, StepInv
<1>3. CASE i # Owner(c)
  <2>1. ~Handled(i) /\ ~Handled(i)'
    BY <1>1, <1>2, <1>3 DEF Handled
  <2> QED BY <1>2, <2>1, OthersKeep DEF mapvars
<1>4. CASE i = Owner(c)
  <2>1. MapsOK(i) /\ RegisteredOK(i)
    BY <1>2, QuietFacts
  <2>2. \A d \in conns : Owner(d) = i => d = c
    BY <1>1, <1>4 DEF Quiet
  <2>3. fd_to_inst_ \subseteq Conns
    BY DEF IInv, Typed, CentreTyped
  <2>4. \A d \in Mapped(i) : d \in conns /\ i \in registry /\ d = c
    BY <1>1, <2>1, <2>2, <2>3, NoneAssumption DEF MapsOK, Mapped
  <2>5. Mapped(i)' = Mapped(i) /\ (c \in fd_to_inst_ <=> c \in Mapped(i))
    BY <1>4 DEF Mapped, mapvars
  <2>6. MapsOK(i)'
    BY <1>1, <2>1, <2>5 DEF MapsOK, mapvars
  <2>7. RegisteredOK(i)'
    <3>1. ~Handled(i)
      BY <1>2 DEF Handled
    <3> QED BY <2>1, <2>5, <3>1 DEF RegisteredOK
  <2>8. HandledOK(i)'
    <3>1. handling' \in conns' /\ Mapped(i)' \subseteq {handling'}
      BY <1>1, <2>4, <2>5
    <3>2. i \in registry => c \in fd_to_inst_
      <4>1. ~Handled(i)
        BY <1>2 DEF Handled
      <4>2. i \in registry => \E d \in Mapped(i) : d \in conns
        BY <2>1, <4>1 DEF RegisteredOK
      <4> QED BY <2>4, <2>5, <4>2
    <3>3. CASE pc' = "regist_register" /\ Owner(c) \in DOMAIN delta_map'
      BY <1>4, <3>1, <3>3 DEF HandledOK
    <3>4. CASE pc' = "renew" /\ c \in fd_to_inst_
      BY <1>1, <2>5, <3>1, <3>4 DEF HandledOK
    <3>5. CASE pc' = "find" /\ c \notin fd_to_inst_
      BY <3>1, <3>2, <3>5 DEF HandledOK
    <3> QED BY <3>3, <3>4, <3>5
  <2> QED BY <2>6, <2>7, <2>8 DEF InstanceOK
<1> QED BY <1>3, <1>4

\* onRegist and onUpdateServiceStatus begin.
LEMMA ReadSteps ==
  ASSUME IInv, NEW c \in Conns, RegistSubscribe(c) \/ StatusLookup(c)
  PROVE  IInv'
<1>1. Typed'
  BY HandlerTypes DEF IInv, Handler
<1>2. PICK kind : Read(c, kind)
  BY DEF RegistSubscribe, StatusLookup
<1>3. /\ pc = "idle" /\ c \in conns /\ handling' = c /\ c # None
      /\ disturbed \subseteq disturbed'
  BY <1>2, NoneAssumption DEF Read, At
<1>4. deltas = <<>> /\ deltas' = <<>>
  BY <1>3 DEF IInv, StepInv, RegistSubscribe, StatusLookup
<1>5. /\ conns' = conns /\ kicked' = kicked /\ disconnecting' = disconnecting
      /\ fd_to_id_' = fd_to_id_ /\ fd_to_inst_' = fd_to_inst_
      /\ fd_to_got_full_update_' = fd_to_got_full_update_
      /\ online' = online /\ made' = made /\ told' = told
  BY DEF RegistSubscribe, StatusLookup, mapvars, timervars, clientvars
<1>6. /\ registry' = registry /\ expirations' = expirations
      /\ DOMAIN delta_map \subseteq DOMAIN delta_map'
      /\ \A s : Deltas(s)' = Deltas(s)
      /\ \/ pc' = "regist_register" /\ Owner(c) \in DOMAIN delta_map'
         \/ pc' = IF c \in fd_to_inst_ THEN "renew" ELSE "find"
  <2>1. CASE RegistSubscribe(c)
    <3>1. subscribe(Owner(c)) /\ Owner(c) \in Ids /\ pc' = "regist_register"
      BY <2>1, ConnFacts DEF RegistSubscribe, Goto
    <3> QED BY <3>1, Subscribes DEF IInv, Typed
  <2>2. CASE StatusLookup(c)
    BY <2>2 DEF StatusLookup, registryvars, Goto, Deltas
  <2> QED BY <2>1, <2>2
<1>7. StepInv'
  BY <1>3, <1>4, <1>5, <1>6 DEF IInv, StepInv
<1>8. UsedInv'
  BY <1>3, <1>5, UsedKept
<1>9. \A i \in Quiet' : InstanceOK(i)'
  BY <1>1, <1>2, <1>5, <1>6, Reads DEF mapvars
<1>10. AnswerInv'
  BY <1>6 DEF AnswerInv
<1>11. KnowInv'
  BY <1>3, <1>4, <1>5, <1>6, QuietShrinks, SyncedKept, KnowsKept
<1> QED BY <1>1, <1>7, <1>8, <1>9, <1>10, <1>11 DEF IInv

\* The instance is registered: anew, or because its request is renewed.
LEMMA RegisterSteps ==
  ASSUME IInv, RegistRegister \/ Reregister \/ Renew \/ RenewFound
  PROVE  IInv'
<1>1. Typed'
  BY HandlerTypes DEF IInv, Handler
<1>2. /\ \/ pc = "regist_register" /\ pc' = "regist_map" /\ register_instance(me, TRUE)
         \/ pc = "reregister" /\ pc' = "remap" /\ register_instance(me, TRUE)
         \/ pc = "renew" /\ pc' = "pop" /\ register_instance(me, FALSE)
         \/ pc = "renew_found" /\ pc' = "map_found" /\ register_instance(me, FALSE)
      /\ conns' = conns /\ handling' = handling /\ deltas' = deltas
      /\ online' = online /\ made' = made /\ told' = told /\ disturbed' = disturbed
      /\ UNCHANGED mapvars /\ kicked' = kicked /\ disconnecting' = disconnecting
  BY DEF RegistRegister, Reregister, Renew, RenewFound, At, Goto, timervars, clientvars
<1>3. handling # None /\ deltas = <<>> /\ deltas' = <<>>
  BY <1>2 DEF IInv, StepInv
<1>4. me \in Ids /\ Handled(me) /\ me' = me /\ \A i : Handled(i) <=> i = me
  BY <1>2, <1>3, ActorFacts DEF me
<1>5. /\ registry' = registry \cup {me} /\ expirations'[me] = "future"
      /\ \A j \in Ids : j # me => expirations'[j] = expirations[j]
      /\ DOMAIN delta_map' = DOMAIN delta_map
      /\ register_instance(me, TRUE) => \A s \in DOMAIN delta_map : Grows(s, "UPSERT", {me})
      /\ ~register_instance(me, TRUE) => delta_map' = delta_map
  <2>1. RegistryInv
    BY DEF IInv, Typed
  <2>2. CASE register_instance(me, TRUE)
    BY <1>4, <2>1, <2>2, Registers
  <2>3. CASE ~register_instance(me, TRUE) /\ register_instance(me, FALSE)
    BY <1>4, <2>1, <2>3, Registers
  <2> QED BY <1>2, <2>2, <2>3
<1>6. StepInv'
  BY <1>2, <1>3 DEF IInv, StepInv
<1>7. UsedInv'
  BY <1>2, UsedKept DEF mapvars
<1>8. ASSUME NEW i \in Quiet' PROVE InstanceOK(i)'
  <2>1. i \in Quiet /\ i \in Ids
    BY <1>2 DEF Quiet
  <2>2. CASE i # me
    BY <1>1, <1>2, <1>3, <1>5, <2>1, <2>2, RequestOthers DEF mapvars
  <2>3. CASE i = me
    <3>1. MapsOK(i)' /\ Mapped(i)' = Mapped(i)
      BY <1>2, <1>5, <2>1, RequestMaps
    <3>2. HandledOK(i) /\ Handled(i)
      BY <1>4, <2>1, <2>3, QuietFacts
    <3>3. handling \in conns /\ Mapped(i) \subseteq {handling} /\ pc # "renew_found"
      BY <3>2 DEF HandledOK
    <3>4. CASE pc = "renew"
      <4>1. handling \in Mapped(i)
        BY <3>2, <3>4 DEF HandledOK
      <4>2. RegisteredOK(i)'
        BY <1>2, <1>5, <2>3, <3>1, <3>3, <4>1 DEF RegisteredOK
      <4>3. HandledOK(i)'
        BY <1>2, <3>1, <3>3, <3>4, <4>1 DEF HandledOK
      <4> QED BY <3>1, <4>2, <4>3 DEF InstanceOK
    <3>5. CASE pc \in {"regist_register", "reregister"}
      <4>1. i \in DOMAIN delta_map /\ pc' \in {"regist_map", "remap"}
        BY <1>2, <3>2, <3>5 DEF HandledOK
      <4>2. Handled(i)'
        BY <1>2, <3>2 DEF Handled
      <4>3. RegisteredOK(i)'
        BY <1>5, <2>3, <4>1, <4>2 DEF RegisteredOK
      <4>4. HandledOK(i)'
        BY <1>2, <1>5, <2>3, <3>1, <3>3, <4>1 DEF HandledOK
      <4> QED BY <3>1, <4>3, <4>4 DEF InstanceOK
    <3> QED BY <1>2, <3>3, <3>4, <3>5
  <2> QED BY <2>2, <2>3
<1>9. AnswerInv'
  BY <1>2 DEF AnswerInv
<1>10. KnowInv'
  <2>1. \A s \in Quiet : Synced(s)' => Synced(s) /\ Pending(s)' = Pending(s)
    BY <1>2, <1>3, SyncedKept DEF mapvars
  <2>2. Quiet' \subseteq Quiet
    BY <1>2, QuietShrinks
  <2>3. CASE register_instance(me, TRUE)
    <3>1. \A i \in Quiet : i \in registry' <=> IF i \in {me} THEN "UPSERT" = "UPSERT" ELSE i \in registry
      BY <1>5
    <3> QED BY <1>2, <1>5, <2>1, <2>2, <2>3, <3>1, KnowsGrown
  <2>4. CASE ~register_instance(me, TRUE)
    <3>1. \A i \in Quiet : i \in registry' <=> i \in registry
      <4>1. CASE me \in Quiet
        <5>1. MapsOK(me) /\ HandledOK(me)
          BY <4>1, QuietFacts
        <5>2. handling \in conns /\ handling \in Mapped(me) /\ disconnecting \notin conns
          BY <1>2, <1>4, <2>4, <5>1 DEF HandledOK, IInv, StepInv
        <5>3. me \in registry
          BY <5>1, <5>2 DEF MapsOK
        <5> QED BY <1>5, <5>3
      <4> QED BY <1>5, <4>1
    <3>2. \A s : Deltas(s)' = Deltas(s)
      BY <1>5, <2>4 DEF Deltas
    <3> QED BY <1>2, <2>1, <2>2, <3>1, <3>2, KnowsKept
  <2> QED BY <2>3, <2>4
<1> QED BY <1>1, <1>6, <1>7, <1>8, <1>9, <1>10 DEF IInv

\* The instance is looked for, and gets its slot again.
LEMMA LookSteps == ASSUME IInv, Find \/ Resubscribe PROVE IInv'
<1>1. Typed'
  BY HandlerTypes DEF IInv, Handler
<1>2. /\ pc \in {"find", "resubscribe"}
      /\ conns' = conns /\ handling' = handling /\ deltas' = deltas
      /\ online' = online /\ made' = made /\ told' = told /\ disturbed' = disturbed
      /\ UNCHANGED mapvars /\ kicked' = kicked /\ disconnecting' = disconnecting
  BY DEF Find, Resubscribe, At, Goto, timervars, clientvars
<1>3. handling # None /\ deltas = <<>> /\ deltas' = <<>>
  BY <1>2 DEF IInv, StepInv
<1>4. me \in Ids /\ Handled(me) /\ \A i : Handled(i) <=> i = me
  BY <1>3, ActorFacts
<1>5. /\ registry' = registry /\ expirations' = expirations
      /\ DOMAIN delta_map \subseteq DOMAIN delta_map'
      /\ \A s : Deltas(s)' = Deltas(s)
      /\ \/ pc = "find" /\ pc' = IF me \in registry THEN "renew_found" ELSE "resubscribe"
         \/ pc' = "reregister" /\ me \in DOMAIN delta_map'
  <2>1. CASE Find
    BY <2>1 DEF Find, registryvars, At, Goto, Deltas
  <2>2. CASE Resubscribe
    <3>1. subscribe(me) /\ pc' = "reregister"
      BY <2>2 DEF Resubscribe, Goto
    <3> QED BY <1>4, <3>1, Subscribes DEF IInv, Typed
  <2> QED BY <2>1, <2>2
<1>6. StepInv'
  BY <1>2, <1>3, <1>5 DEF IInv, StepInv
<1>7. UsedInv'
  BY <1>2, UsedKept DEF mapvars
<1>8. ASSUME NEW i \in Quiet' PROVE InstanceOK(i)'
  <2>1. i \in Quiet /\ i \in Ids
    BY <1>2 DEF Quiet
  <2>2. CASE i # me
    BY <1>1, <1>2, <1>3, <1>5, <2>1, <2>2, RequestOthers DEF mapvars
  <2>3. CASE i = me
    <3>1. MapsOK(i)' /\ Mapped(i)' = Mapped(i)
      BY <1>2, <1>5, <2>1, RequestMaps
    <3>2. HandledOK(i) /\ RegisteredOK(i) /\ Handled(i)
      BY <1>4, <2>1, <2>3, QuietFacts
    <3>3. handling \in conns /\ Mapped(i) \subseteq {handling} /\ (pc = "find" => i \notin registry)
      BY <3>2 DEF HandledOK
    <3>4. RegisteredOK(i)'
      BY <1>2, <1>5, <3>1, <3>2 DEF RegisteredOK
    <3>5. HandledOK(i)'
      BY <1>2, <1>5, <2>3, <3>1, <3>3 DEF HandledOK
    <3> QED BY <3>1, <3>4, <3>5 DEF InstanceOK
  <2> QED BY <2>2, <2>3
<1>9. AnswerInv'
  BY <1>5 DEF AnswerInv
<1>10. KnowInv'
  BY <1>2, <1>3, <1>5, QuietShrinks, SyncedKept, KnowsKept DEF mapvars
<1> QED BY <1>1, <1>6, <1>7, <1>8, <1>9, <1>10 DEF IInv

\* The registrar's maps learn of the connection.
LEMMA MapSteps == ASSUME IInv, RegistMap \/ Remap \/ MapFound PROVE IInv'
<1>1. Typed'
  BY HandlerTypes DEF IInv, Handler
<1>2. /\ pc \in {"regist_map", "remap", "map_found"}
      /\ registry' = registry /\ expirations' = expirations /\ delta_map' = delta_map
      /\ conns' = conns /\ deltas' = deltas
      /\ online' = online /\ made' = made /\ told' = told /\ disturbed' = disturbed
      /\ kicked' = kicked /\ disconnecting' = disconnecting /\ disconnecting = None
      /\ fd_to_inst_' = fd_to_inst_ \cup {handling}
      /\ pc # "map_found" => fd_to_id_' = fd_to_id_ \cup {handling}
      /\ pc = "map_found" => fd_to_id_' = fd_to_id_
      /\ \/ fd_to_got_full_update_' = fd_to_got_full_update_
         \/ fd_to_got_full_update_' = fd_to_got_full_update_ \ {handling}
      /\ \/ pc' = "idle" /\ handling' = None
         \/ pc' = "pop" /\ handling' = handling
  BY DEF RegistMap, Remap, MapFound, At, Goto, Locked, registryvars, timervars, clientvars
<1>3. handling # None /\ deltas = <<>> /\ deltas' = <<>>
  BY <1>2 DEF IInv, StepInv
<1>4. handling \in Conns /\ me \in Ids /\ Handled(me) /\ Owner(handling) = me
  BY <1>3, ActorFacts DEF me
<1>5. StepInv'
  BY <1>2, <1>3 DEF IInv, StepInv
<1>6. UsedInv'
  BY <1>2, UsedKept
<1>7. ASSUME NEW i \in Quiet' PROVE InstanceOK(i)'
  <2>1. i \in Quiet /\ i \in Ids
    BY <1>2 DEF Quiet
  <2>2. CASE i # me
    <3>1. \A c : c # handling => /\ c \in fd_to_id_' <=> c \in fd_to_id_
                                 /\ c \in fd_to_inst_' <=> c \in fd_to_inst_
                                 /\ c \in fd_to_got_full_update_' <=> c \in fd_to_got_full_update_
      BY <1>2
    <3> QED BY <1>1, <1>2, <1>3, <2>1, <2>2, <3>1, RequestOthers
  <2>3. CASE i = me
    <3>1. HandledOK(i) /\ RegisteredOK(i) /\ MapsOK(i) /\ Handled(i)
      BY <1>4, <2>1, <2>3, QuietFacts
    <3>2. /\ handling \in conns /\ Mapped(i) \subseteq {handling} /\ pc # "map_found"
          /\ i \in registry /\ i \in DOMAIN delta_map
      BY <1>2, <3>1 DEF HandledOK
    <3>3. Mapped(i)' = {handling}
      BY <1>2, <1>4, <2>3, <3>2 DEF Mapped
    <3>4. MapsOK(i)'
      <4>1. \A c \in Conns : Owner(c) = i => (c \in fd_to_id_' <=> c \in fd_to_inst_')
        BY <1>2, <3>1, <3>2 DEF MapsOK
      <4>2. \A c \in fd_to_got_full_update_' : Owner(c) = i => c \in fd_to_inst_'
        BY <1>2, <3>1 DEF MapsOK
      <4> QED BY <1>2, <3>2, <3>3, <4>1, <4>2 DEF MapsOK
    <3>5. RegisteredOK(i)'
      BY <1>2, <3>1, <3>2, <3>3 DEF RegisteredOK
    <3>6. HandledOK(i)'
      BY <1>2, <3>2, <3>3 DEF HandledOK, Handled
    <3> QED BY <3>4, <3>5, <3>6 DEF InstanceOK
  <2> QED BY <2>2, <2>3
<1>8. AnswerInv'
  BY <1>2 DEF AnswerInv
<1>9. KnowInv'
  <2>1. \A s : Deltas(s)' = Deltas(s)
    BY <1>2 DEF Deltas
  <2>2. \A s : (Synced(s)' => Synced(s)) /\ Pending(s)' = Pending(s)
    BY <1>2, <1>3, SyncedKept
  <2> QED BY <1>2, <2>1, <2>2, QuietShrinks, KnowsKept
<1> QED BY <1>1, <1>5, <1>6, <1>7, <1>8, <1>9 DEF IInv

\* The queue of the instance that asks becomes the answer.
LEMMA PopStep == ASSUME IInv, Pop PROVE IInv'
<1>1. Typed'
  BY HandlerTypes DEF IInv, Handler
<1>2. /\ pc = "pop" /\ pc' = "answer" /\ deltas' = Deltas(me) /\ pop_deltas(me)
      /\ conns' = conns /\ handling' = handling
      /\ online' = online /\ made' = made /\ told' = told /\ disturbed' = disturbed
      /\ UNCHANGED mapvars /\ kicked' = kicked /\ disconnecting' = disconnecting
  BY DEF Pop, At, Goto, timervars, clientvars
<1>3. handling # None /\ deltas = <<>>
  BY <1>2 DEF IInv, StepInv
<1>4. me \in Ids /\ Handled(me) /\ me' = me /\ Owner(handling) = me
  BY <1>2, <1>3, ActorFacts DEF me
<1>5. /\ registry' = registry /\ expirations' = expirations
      /\ DOMAIN delta_map' = DOMAIN delta_map
      /\ \A t : Deltas(t)' = IF t = me THEN <<>> ELSE Deltas(t)
  BY <1>2, Pops DEF IInv, Typed
<1>6. StepInv'
  BY <1>2, <1>3 DEF IInv, StepInv
<1>7. UsedInv'
  BY <1>2, UsedKept DEF mapvars
<1>8. ASSUME NEW i \in Quiet' PROVE InstanceOK(i)'
  <2>1. i \in Quiet /\ i \in Ids
    BY <1>2 DEF Quiet
  <2>2. CASE i # me
    BY <1>1, <1>2, <1>3, <1>5, <2>1, <2>2, RequestOthers DEF mapvars
  <2>3. CASE i = me
    <3>1. MapsOK(i)' /\ Mapped(i)' = Mapped(i)
      BY <1>2, <1>5, <2>1, RequestMaps
    <3>2. HandledOK(i) /\ RegisteredOK(i) /\ Handled(i)
      BY <1>4, <2>1, <2>3, QuietFacts
    <3>3. handling \in conns /\ Mapped(i) \subseteq {handling} /\ handling \in Mapped(i)
      BY <1>2, <3>2 DEF HandledOK
    <3>4. RegisteredOK(i)'
      BY <1>2, <1>5, <3>1, <3>2 DEF RegisteredOK
    <3>5. HandledOK(i)'
      BY <1>2, <3>1, <3>3 DEF HandledOK
    <3> QED BY <3>1, <3>4, <3>5 DEF InstanceOK
  <2> QED BY <2>2, <2>3
<1>9. AnswerInv'
  <2>1. PICK i : i = me
    OBVIOUS
  <2>2. Deltas(i)' = <<>> /\ me' = i
    BY <1>4, <1>5, <2>1
  <2>3. Deltas(me)' = <<>>
    BY <2>2 DEF Deltas
  <2> QED BY <2>3 DEF AnswerInv
<1>10. KnowInv'
  <2> SUFFICES ASSUME NEW s \in Quiet, NEW i \in Quiet, s # i, Synced(s)'
               PROVE  i \in Apply(told[s], Pending(s) \o Deltas(s))' <=> i \in registry'
    BY <1>2 DEF KnowInv, Quiet
  <2>1. Synced(s) /\ Current(s)' = Current(s)
    BY <1>2 DEF Synced, Current, mapvars
  <2>2. CASE s # me
    <3>1. Current(s) # handling
      BY <1>4, <2>1, <2>2, SyncedFacts
    <3>2. Pending(s)' = Pending(s)
      BY <1>2, <2>1, <3>1 DEF Pending
    <3> QED BY <1>2, <1>5, <2>1, <2>2, <3>2, KnowledgeKept
  <2>3. CASE s = me
    <3>1. Current(s) = handling
      <4>1. Mapped(s) \subseteq {handling}
        BY <1>4, <2>3, QuietFacts DEF HandledOK
      <4> QED BY <2>1, <4>1, SyncedFacts
    <3>2. Pending(s) = <<>> /\ Pending(s)' = Deltas(s) /\ Deltas(s)' = <<>>
      BY <1>2, <1>3, <1>5, <2>1, <2>3, <3>1 DEF Pending
    <3>3. Deltas(s) \in Seq(Delta)
      BY DeltasTyped DEF IInv, Typed, RegistryInv
    <3>4. <<>> \o Deltas(s) = Deltas(s) \o <<>>
      BY <3>3, ConcatEmptySeq
    <3>5. i \in Apply(told[s], Pending(s) \o Deltas(s)) <=> i \in registry
      BY <2>1 DEF IInv, KnowInv
    <3>6. Apply(told[s], Pending(s) \o Deltas(s))' = Apply(told'[s], Pending(s)' \o Deltas(s)')
      BY DEF Apply
    <3> QED BY <1>2, <1>5, <3>2, <3>4, <3>5, <3>6
  <2> QED BY <2>2, <2>3
<1> QED BY <1>1, <1>6, <1>7, <1>8, <1>9, <1>10 DEF IInv

\* The answer: the changes, or everything.
LEMMA RespondStep == ASSUME IInv, Respond PROVE IInv'
<1> DEFINE full == deltas = <<>> /\ handling \notin fd_to_got_full_update_
<1>1. Typed'
  BY HandlerTypes DEF IInv, Handler
<1>2. /\ pc = "answer" /\ pc' = "cleanup" /\ deltas' = <<>>
      /\ registry' = registry /\ expirations' = expirations /\ delta_map' = delta_map
      /\ conns' = conns /\ handling' = handling
      /\ online' = online /\ made' = made /\ disturbed' = disturbed
      /\ kicked' = kicked /\ disconnecting' = disconnecting
      /\ fd_to_id_' = fd_to_id_ /\ fd_to_inst_' = fd_to_inst_
      /\ fd_to_got_full_update_' = IF full THEN fd_to_got_full_update_ \cup {handling}
                                           ELSE fd_to_got_full_update_
      /\ IF handling \in conns /\ handling = Current(me)
         THEN told' = [told EXCEPT ![me] = IF full THEN registry ELSE Apply(told[me], deltas)]
         ELSE told' = told
  BY DEF Respond, At, Goto, timervars, clientvars, registryvars
<1>3. handling # None
  BY <1>2 DEF IInv, StepInv
<1>4. handling \in Conns /\ me \in Ids /\ Handled(me) /\ me' = me /\ Owner(handling) = me
  BY <1>2, <1>3, ActorFacts DEF me
<1> HIDE DEF full
<1>5. StepInv'
  BY <1>2, <1>3 DEF IInv, StepInv
<1>6. UsedInv'
  BY <1>2, <1>3, UsedKept
<1>7. ASSUME NEW i \in Quiet' PROVE InstanceOK(i)'
  <2>1. i \in Quiet /\ i \in Ids
    BY <1>2 DEF Quiet
  <2>2. CASE i # me
    <3>1. \A c : c # handling => (c \in fd_to_got_full_update_' <=> c \in fd_to_got_full_update_)
      BY <1>2
    <3> QED BY <1>1, <1>2, <1>3, <2>1, <2>2, <3>1, RequestOthers
  <2>3. CASE i = me
    <3>1. HandledOK(i) /\ RegisteredOK(i) /\ MapsOK(i) /\ Handled(i)
      BY <1>4, <2>1, <2>3, QuietFacts
    <3>2. handling \in conns /\ Mapped(i) \subseteq {handling} /\ handling \in Mapped(i)
      BY <1>2, <3>1 DEF HandledOK
    <3>3. Mapped(i)' = Mapped(i) /\ (Handled(i)' <=> Handled(i)) /\ handling \in fd_to_inst_
      BY <1>2, <3>2 DEF Mapped, Handled
    <3>4. MapsOK(i)'
      <4>1. \A c \in fd_to_got_full_update_' : Owner(c) = i => c \in fd_to_inst_'
        BY <1>2, <3>1, <3>3 DEF MapsOK
      <4> HIDE DEF Mapped, Handled
      <4> QED BY <1>2, <3>1, <3>3, <4>1 DEF MapsOK
    <3>5. RegisteredOK(i)'
      BY <1>2, <3>1, <3>3 DEF RegisteredOK
    <3>6. HandledOK(i)'
      BY <1>2, <3>2, <3>3 DEF HandledOK
    <3> QED BY <3>4, <3>5, <3>6 DEF InstanceOK
  <2> QED BY <2>2, <2>3
<1>8. AnswerInv'
  BY <1>2 DEF AnswerInv
<1>9. KnowInv'
  <2> SUFFICES ASSUME NEW s \in Quiet, NEW i \in Quiet, s # i, Synced(s)'
               PROVE  i \in Apply(told[s], Pending(s) \o Deltas(s))' <=> i \in registry'
    BY <1>2 DEF KnowInv, Quiet
  <2>1. /\ Current(s)' = Current(s) /\ Current(s) \in conns /\ s \in online
        /\ Current(s) \in fd_to_got_full_update_' /\ Owner(Current(s)) = s
        /\ Deltas(s)' = Deltas(s) /\ Pending(s)' = <<>> /\ s \in Ids
    BY <1>2 DEF Synced, Current, Deltas, Pending, Owner, Quiet
  <2>2. told \in [Ids -> SUBSET Ids] /\ deltas \in Seq(Delta) /\ Deltas(s) \in Seq(Delta)
    BY DeltasTyped DEF IInv, Typed, ClientTyped, CentreTyped, RegistryInv
  <2>3. Apply(told[s], Pending(s) \o Deltas(s))' = Apply(told'[s], Pending(s)' \o Deltas(s)')
    BY DEF Apply
  <2>4. <<>> \o Deltas(s) = Deltas(s)
    BY <2>2, ConcatEmptySeq
  <2>5. CASE s # me
    <3>1. Current(s) # handling
      BY <1>4, <2>1, <2>5
    <3>2. Synced(s)
      BY <1>2, <2>1, <3>1 DEF Synced
    <3>3. Pending(s)' = Pending(s) /\ told'[s] = told[s]
      BY <1>2, <2>1, <2>2, <2>5, <3>1, <1>4 DEF Pending
    <3> QED BY <1>2, <2>1, <3>2, <3>3, KnowledgeKept
  <2>6. CASE s = me
    <3>1. HandledOK(s) /\ MapsOK(s) /\ Handled(s)
      BY <1>4, <2>6, QuietFacts
    <3>2. handling \in conns /\ Mapped(s) \subseteq {handling}
      BY <3>1 DEF HandledOK
    <3>3. Current(s) = handling
      <4>1. CASE Current(s) \in fd_to_got_full_update_
        <5>1. Current(s) \in Mapped(s)
          <6>1. Synced(s)
            BY <2>1, <4>1 DEF Synced
          <6> QED BY <6>1, SyncedFacts
        <5> QED BY <3>2, <5>1
      <4> QED BY <1>2, <2>1, <4>1
    <3>4. told'[s] = IF full THEN registry ELSE Apply(told[s], deltas)
      BY <1>2, <1>4, <2>2, <2>6, <3>2, <3>3
    <3>5. CASE full
      <4>1. \A n \in DOMAIN Deltas(s) :
              Deltas(s)[n].op = "OFFLINE" /\ Deltas(s)[n].inst \notin registry
        BY <1>2, <2>6 DEF IInv, AnswerInv
      <4>2. i \in Apply(registry, Deltas(s)) <=>
              IF About(Deltas(s), i) # {} THEN "OFFLINE" = "UPSERT" ELSE i \in registry
        BY <2>2, <4>1, ApplyOneKind
      <4>3. About(Deltas(s), i) # {} => i \notin registry
        BY <4>1 DEF About
      <4> QED BY <1>2, <2>1, <2>3, <2>4, <3>4, <3>5, <4>2, <4>3
    <3>6. CASE ~full
      <4>1. Synced(s) /\ Pending(s) = deltas
        BY <1>2, <2>1, <3>3, <3>6 DEF Synced, Pending
      <4>2. i \in Apply(told[s], deltas \o Deltas(s)) <=> i \in registry
        BY <4>1 DEF IInv, KnowInv
      <4>3. i \in Apply(told[s], deltas \o Deltas(s)) <=> i \in Apply(Apply(told[s], deltas), Deltas(s))
        BY <2>2, ApplyTwice
      <4> QED BY <1>2, <2>1, <2>3, <2>4, <3>4, <3>6, <4>2, <4>3
    <3> QED BY <3>5, <3>6
  <2> QED BY <2>5, <2>6
<1> QED BY <1>1, <1>5, <1>6, <1>7, <1>8, <1>9 DEF IInv

\* Whoever has expired is withdrawn; no lease of a quiet instance has.
LEMMA CleanupStep == ASSUME IInv, Cleanup PROVE IInv'
<1> DEFINE past == {j \in Ids : expirations[j] = "past"}
<1>1. Typed'
  BY HandlerTypes DEF IInv, Handler
<1>2. /\ pc = "cleanup" /\ pc' = "idle" /\ handling' = None /\ Withdraw(past)
      /\ conns' = conns /\ deltas' = deltas
      /\ online' = online /\ made' = made /\ told' = told /\ disturbed' = disturbed
      /\ UNCHANGED mapvars /\ kicked' = kicked /\ disconnecting' = disconnecting
  BY DEF Cleanup, At, Goto, timervars, clientvars, cleanup_expired
<1>3. handling # None /\ deltas = <<>>
  BY <1>2 DEF IInv, StepInv
<1>4. me \in Ids /\ Handled(me)
  BY <1>3, ActorFacts
<1>5. ASSUME NEW i \in Quiet PROVE i \notin past /\ i \in Ids
  BY QuietFacts DEF RegisteredOK
<1>6. past \in SUBSET Ids
  OBVIOUS
<1> HIDE DEF past
<1>7. /\ registry' = registry \ past
      /\ \A j \in Ids : expirations'[j] = IF j \in past THEN "absent" ELSE expirations[j]
      /\ DOMAIN delta_map' = DOMAIN delta_map
      /\ \A s \in DOMAIN delta_map : Grows(s, "OFFLINE", past \cap registry)
  BY <1>2, <1>6, Withdraws DEF IInv, Typed
<1>8. StepInv'
  BY <1>2, <1>3 DEF IInv, StepInv
<1>9. UsedInv'
  BY <1>2, UsedKept DEF mapvars
<1>10. ASSUME NEW i \in Quiet' PROVE InstanceOK(i)'
  <2>1. i \in Quiet /\ i \in Ids
    BY <1>2 DEF Quiet
  <2>2. (i \in registry' <=> i \in registry) /\ expirations'[i] = expirations[i]
    BY <1>5, <1>7, <2>1
  <2>3. CASE i # me
    BY <1>1, <1>2, <1>3, <1>7, <2>1, <2>2, <2>3, RequestOthers DEF mapvars
  <2>4. CASE i = me
    <3>1. MapsOK(i)' /\ Mapped(i)' = Mapped(i)
      BY <1>2, <1>7, <2>1, <2>2, RequestMaps
    <3>2. RegisteredOK(i)
      BY <2>1, QuietFacts
    <3>3. RegisteredOK(i)'
      BY <1>2, <2>2, <3>1, <3>2 DEF RegisteredOK
    <3>4. HandledOK(i)'
      BY <1>2 DEF HandledOK, Handled
    <3> QED BY <3>1, <3>3, <3>4 DEF InstanceOK
  <2> QED BY <2>3, <2>4
<1>11. AnswerInv'
  BY <1>2 DEF AnswerInv
<1>12. KnowInv'
  <2>1. \A i \in Quiet : i \in registry' <=>
          IF i \in past \cap registry THEN "OFFLINE" = "UPSERT" ELSE i \in registry
    BY <1>5, <1>7
  <2>2. \A s \in Quiet : Synced(s)' => Synced(s) /\ Pending(s)' = Pending(s)
    BY <1>2, <1>3, SyncedKept DEF mapvars
  <2> QED BY <1>2, <1>7, <2>1, <2>2, QuietShrinks, KnowsGrown
<1> QED BY <1>1, <1>8, <1>9, <1>10, <1>11, <1>12 DEF IInv

----------------------------------------------------------------------------
(* Connections that end.                                                   *)

\* A connection leaves the server.  Unless its message is being handled, or its owner is
\* not quiet, its instance is deregistered if the maps name it, and nothing else.
LEMMA BeginDisconnectStep ==
  ASSUME IInv, Typed', NEW c \in Conns, BeginDisconnect(c),
         UNCHANGED <<mapvars, handling, deltas, online, made, told>>,
         kicked' \subseteq kicked, disturbed \subseteq disturbed',
         handling = c => Owner(c) \in disturbed',
         pc' = pc \/ (pc = "idle" /\ pc' \in {"idle", "closing"}),
         c \in conns \cup kicked
  PROVE  IInv'
<1> DEFINE j == Owner(c)
<1>1. /\ disconnecting = None /\ conns' = conns \ {c} /\ c # None /\ j \in Ids
      /\ fd_to_id_' = fd_to_id_ /\ fd_to_inst_' = fd_to_inst_
      /\ fd_to_got_full_update_' = fd_to_got_full_update_
      /\ handling' = handling /\ deltas' = deltas
      /\ online' = online /\ made' = made /\ told' = told
  BY ConnFacts, NoneAssumption DEF BeginDisconnect, Locked, mapvars
<1>2. /\ RegistryInv /\ Quiet' \subseteq Quiet
      /\ fd_to_inst_ \subseteq Conns
      /\ (deltas # <<>> => pc = "answer") /\ (handling = None <=> pc \in {"idle", "closing"})
      /\ conns \subseteq Used /\ c \notin conns'
  BY <1>1, QuietShrinks DEF IInv, Typed, StepInv, UsedInv, CentreTyped
<1>3. \/ c \in fd_to_id_ \cap fd_to_inst_ /\ Withdraw({j} \cap registry) /\ disconnecting' = c
      \/ /\ c \notin fd_to_id_ \cap fd_to_inst_
         /\ registry' = registry /\ expirations' = expirations /\ delta_map' = delta_map
         /\ disconnecting' = None
  BY <1>1 DEF BeginDisconnect, deregister_instance, registryvars
<1>4. /\ \A i \in Ids : i # j => /\ i \in registry' <=> i \in registry
                                 /\ expirations'[i] = expirations[i]
      /\ DOMAIN delta_map' = DOMAIN delta_map
      /\ disconnecting' = c =>
           /\ j \notin registry' /\ expirations'[j] = "absent"
           /\ \A s \in DOMAIN delta_map : Grows(s, "OFFLINE", {j} \cap registry)
      /\ registry' \subseteq registry
  <2>1. CASE Withdraw({j} \cap registry)
    <3>1. {j} \cap registry \in SUBSET Ids /\ ({j} \cap registry) \cap registry = {j} \cap registry
      BY <1>1
    <3>2. j \notin registry => expirations[j] = "absent"
      BY <1>1, <1>2 DEF RegistryInv
    <3>0. PICK ids : ids = {j} \cap registry
      OBVIOUS
    <3>3. ids \in SUBSET Ids /\ Withdraw(ids) /\ ids \cap registry = ids
      BY <2>1, <3>0, <3>1
    <3>4. /\ registry' = registry \ ids
          /\ \A i \in Ids : expirations'[i] = IF i \in ids THEN "absent" ELSE expirations[i]
          /\ DOMAIN delta_map' = DOMAIN delta_map
          /\ \A s \in DOMAIN delta_map : Grows(s, "OFFLINE", ids \cap registry)
      BY <1>2, <3>3, Withdraws
    <3>5. /\ \A i \in Ids : i # j => i \notin ids
          /\ j \notin registry \ ids
          /\ j \notin ids => j \notin registry
      BY <3>0
    <3>6. j \notin registry' /\ expirations'[j] = "absent"
      BY <1>1, <3>2, <3>4, <3>5
    <3>7. \A i \in Ids : i # j => /\ i \in registry' <=> i \in registry
                                  /\ expirations'[i] = expirations[i]
      BY <3>4, <3>5
    <3>8. \A s \in DOMAIN delta_map : Grows(s, "OFFLINE", {j} \cap registry)
      BY <3>0, <3>3, <3>4, Zenon
    <3>9. registry' \subseteq registry
      BY <3>4
    <3> QED BY <3>4, <3>6, <3>7, <3>8, <3>9
  <2>2. CASE registry' = registry /\ expirations' = expirations /\ delta_map' = delta_map /\ disconnecting' = None
    BY <1>1, <2>2
  <2> QED BY <1>3, <2>1, <2>2
<1>5. StepInv'
  <2>1. disconnecting' \notin conns'
    <3>1. None \notin conns'
      BY <1>1, NoneAssumption DEF IInv, Typed, CentreTyped
    <3> QED BY <1>2, <1>3, <3>1
  <2> QED BY <1>1, <1>2, <2>1 DEF StepInv
<1>6. UsedInv'
  <2>1. c \in Used /\ Used' = Used
    BY <1>1 DEF IInv, UsedInv, Used
  <2> QED BY <1>1, <1>3, <2>1 DEF IInv, UsedInv
<1>7. ASSUME NEW i \in Quiet' PROVE InstanceOK(i)'
  <2>1. i \in Quiet /\ i \in Ids
    BY <1>2 DEF Quiet
  <2>2. MapsOK(i) /\ RegisteredOK(i) /\ HandledOK(i)
    BY <2>1, QuietFacts
  <2>3. Mapped(i)' = Mapped(i) /\ (Handled(i)' <=> Handled(i)) /\ Mapped(i) \subseteq Conns
    BY <1>1, <1>2 DEF Mapped, Handled
  <2>4. Handled(i) => pc' = pc
    BY <1>2 DEF Handled
  <2>5. CASE i # j
    <3>1. \A d \in Conns : Owner(d) = i => (d \in conns' <=> d \in conns) /\ d # c
      BY <1>1, <2>5
    <3>2. disconnecting' # None => Owner(disconnecting') # i
      BY <1>3, <2>5
    <3>3. \A d \in Conns : Owner(d) = i => (d = disconnecting' <=> d = disconnecting)
      BY <1>1, <1>3, <3>1, NoneAssumption
    <3>4. (Handled(i) /\ handling' = handling /\ pc' = pc) \/ (~Handled(i) /\ ~Handled(i)')
      BY <1>1, <2>3, <2>4
    <3> QED BY <1>1, <1>4, <2>1, <2>5, <3>1, <3>3, <3>4, OthersKeep
  <2>6. CASE i = j
    <3>1. handling # c
      BY <2>1, <2>6 DEF Quiet
    <3>2. \A d \in Mapped(i) : d \in conns /\ i \in registry
      BY <1>1, <2>2, <2>3, NoneAssumption DEF MapsOK
    <3>3. c \in fd_to_id_ \cap fd_to_inst_ <=> c \in Mapped(i)
      BY <2>2, <2>6 DEF MapsOK, Mapped
    <3>4. CASE c \in Mapped(i)
      <4>1. disconnecting' = c /\ Mapped(i) = {c}
        BY <1>3, <2>2, <3>3, <3>4 DEF MapsOK
      <4>2. ~Handled(i)
        BY <2>2, <3>1, <4>1 DEF HandledOK
      <4>3. MapsOK(i)'
        <5> HIDE DEF Mapped, Handled
        <5> QED BY <1>1, <1>4, <2>2, <2>3, <4>1, <4>2 DEF MapsOK
      <4>4. RegisteredOK(i)'
        BY <1>4, <2>6, <4>1 DEF RegisteredOK
      <4>5. HandledOK(i)'
        BY <2>3, <4>2 DEF HandledOK
      <4> QED BY <4>3, <4>4, <4>5 DEF InstanceOK
    <3>5. CASE c \notin Mapped(i)
      <4>1. /\ registry' = registry /\ expirations' = expirations /\ delta_map' = delta_map
            /\ disconnecting' = None
        BY <1>3, <3>3, <3>5
      <4>2. \A d \in Mapped(i) : d \in conns'
        BY <1>1, <3>2, <3>5
      <4>3. MapsOK(i)'
        <5> HIDE DEF Mapped, Handled
        <5> QED BY <1>1, <2>2, <2>3, <3>2, <4>1, <4>2 DEF MapsOK
      <4>4. RegisteredOK(i)'
        <5> HIDE DEF Mapped, Handled
        <5> QED BY <2>2, <2>3, <2>4, <4>1, <4>2 DEF RegisteredOK
      <4>5. HandledOK(i)'
        <5>1. Handled(i) => handling' \in conns'
          BY <1>1, <2>2, <3>1 DEF HandledOK
        <5> HIDE DEF Mapped, Handled
        <5> QED BY <1>1, <2>2, <2>3, <2>4, <4>1, <5>1 DEF HandledOK
      <4> QED BY <4>3, <4>4, <4>5 DEF InstanceOK
    <3> QED BY <3>4, <3>5
  <2> QED BY <2>5, <2>6
<1>8. AnswerInv'
  <2> SUFFICES ASSUME pc' = "answer"
               PROVE  \A n \in DOMAIN Deltas(me)' :
                        Deltas(me)'[n].op = "OFFLINE" /\ Deltas(me)'[n].inst \notin registry'
    BY DEF AnswerInv
  <2>1. PICK i : i = me
    OBVIOUS
  <2>2. me' = i /\ pc = "answer"
    BY <1>1, <2>1 DEF me
  <2>3. Deltas(me)' = Deltas(i)'
    BY <2>2 DEF Deltas
  <2>4. \A n \in DOMAIN Deltas(i) : Deltas(i)[n].op = "OFFLINE" /\ Deltas(i)[n].inst \notin registry
    BY <2>1, <2>2 DEF IInv, AnswerInv
  <2>5. \A n \in DOMAIN Deltas(i)' : Deltas(i)'[n].op = "OFFLINE" /\ Deltas(i)'[n].inst \notin registry'
    <3>1. CASE disconnecting' = c /\ i \in DOMAIN delta_map
      <4>1. PICK infos \in Seq(Delta) : /\ delta_map'[i] = delta_map[i] \o infos
                                        /\ \A n \in DOMAIN infos : infos[n].op = "OFFLINE" /\ infos[n].inst = j
        <5>1. Grows(i, "OFFLINE", {j} \cap registry)
          BY <1>4, <3>1
        <5> QED BY <5>1 DEF Grows, Tells
      <4>2. Deltas(i)' = Deltas(i) \o infos /\ Deltas(i) \in Seq(Delta)
        BY <1>2, <1>4, <3>1, <4>1, DeltasTyped DEF Deltas, RegistryInv
      <4>3. j \notin registry' /\ registry' \subseteq registry
        BY <1>4, <3>1
      <4>4. ASSUME NEW n \in DOMAIN Deltas(i)'
            PROVE  \/ n \in DOMAIN Deltas(i) /\ Deltas(i)'[n] = Deltas(i)[n]
                   \/ \E k \in DOMAIN infos : Deltas(i)'[n] = infos[k]
        BY <4>2, <4>4, EitherPart
      <4> QED BY <2>4, <4>1, <4>3, <4>4
    <3>2. CASE ~(disconnecting' = c /\ i \in DOMAIN delta_map)
      <4>1. Deltas(i)' = Deltas(i)
        BY <1>1, <1>3, <1>4, <3>2 DEF Deltas
      <4> QED BY <1>4, <2>4, <4>1
    <3> QED BY <3>1, <3>2
  <2> QED BY <2>3, <2>5
<1>9. KnowInv'
  <2>1. \A s \in Quiet : Synced(s)' => Synced(s) /\ Pending(s)' = Pending(s)
    BY <1>1 DEF Synced, Current, Pending
  <2>2. CASE disconnecting' = c
    <3>1. \A i \in Quiet : i \in registry' <=>
            IF i \in {j} \cap registry THEN "OFFLINE" = "UPSERT" ELSE i \in registry
      BY <1>4, <2>2 DEF Quiet
    <3> QED BY <1>1, <1>2, <1>4, <2>1, <2>2, <3>1, KnowsGrown
  <2>3. CASE disconnecting' # c
    <3>1. registry' = registry /\ delta_map' = delta_map
      BY <1>3, <2>3
    <3>2. \A s : Deltas(s)' = Deltas(s)
      BY <3>1 DEF Deltas
    <3> QED BY <1>1, <1>2, <2>1, <3>1, <3>2, KnowsKept
  <2> QED BY <2>2, <2>3
<1> QED BY <1>5, <1>6, <1>7, <1>8, <1>9 DEF IInv

\* The accept thread or the timer begins to end a connection.
LEMMA BeginSteps ==
  ASSUME IInv, NEW c \in Conns, PeerClosed(c) \/ TimerRemove(c)
  PROVE  IInv'
<1>1. Typed'
  BY DisconnectTypes DEF IInv
<1>2. CASE PeerClosed(c)
  <2>1. handling = None /\ pc = "idle" /\ pc' \in {"idle", "closing"} /\ handling # c
    BY <1>2, NoneAssumption DEF PeerClosed, At, Goto, IInv, StepInv
  <2> QED BY <1>1, <1>2, <2>1, BeginDisconnectStep DEF PeerClosed, clientvars
<1>3. CASE TimerRemove(c)
  <2>1. handling = c => Owner(c) \in disturbed'
    BY <1>3 DEF TimerRemove
  <2>2. /\ kicked' \subseteq kicked /\ disturbed \subseteq disturbed' /\ pc' = pc
        /\ c \in conns \cup kicked
    BY <1>3 DEF TimerRemove, handlervars
  <2> QED BY <1>1, <1>3, <2>1, <2>2, BeginDisconnectStep DEF TimerRemove, handlervars, clientvars
<1> QED BY <1>2, <1>3

\* Its slot is freed and the maps forget it.
LEMMA EndDisconnectStep == ASSUME IInv, EndDisconnect PROVE IInv'
<1> DEFINE d == disconnecting
<1>1. PICK j : j = Owner(disconnecting)
  OBVIOUS
<1>2. /\ d # None /\ d \in Conns /\ j \in Ids /\ Owner(d) = j /\ d \notin conns
      /\ unsubscribe(j) /\ disconnecting' = None
      /\ fd_to_id_' = fd_to_id_ \ {d} /\ fd_to_inst_' = fd_to_inst_ \ {d}
      /\ fd_to_got_full_update_' = fd_to_got_full_update_ \ {d}
      /\ pc' = IF pc = "closing" THEN "idle" ELSE pc
      /\ conns' = conns /\ handling' = handling /\ deltas' = deltas /\ kicked' = kicked
      /\ online' = online /\ made' = made /\ told' = told /\ disturbed' = disturbed
  BY <1>1, ConnFacts DEF EndDisconnect, Goto, clientvars, IInv, Typed, CentreTyped, StepInv
<1>3. /\ registry' = registry /\ expirations' = expirations
      /\ DOMAIN delta_map' = DOMAIN delta_map \ {j}
      /\ \A t : Deltas(t)' = IF t = j THEN <<>> ELSE Deltas(t)
  BY <1>2, Unsubscribes DEF IInv, Typed
<1>4. Typed'
  BY <1>2, DisconnectTypes DEF IInv
<1> HIDE DEF d
<1>5. StepInv'
  <2>1. None \notin conns'
    BY <1>4, NoneAssumption DEF Typed, CentreTyped
  <2> QED BY <1>2, <2>1 DEF IInv, StepInv
<1>6. UsedInv'
  BY <1>2 DEF IInv, UsedInv, Used
<1>7. ASSUME NEW i \in Quiet' PROVE InstanceOK(i)'
  <2>1. i \in Quiet /\ i \in Ids
    BY <1>2 DEF Quiet
  <2>2. MapsOK(i) /\ RegisteredOK(i) /\ HandledOK(i)
    BY <2>1, QuietFacts
  <2>3. CASE i # j
    <3>1. \A e \in Conns : Owner(e) = i => e # d /\ e # None
      BY <1>2, <2>3, NoneAssumption
    <3>2. \A e \in Conns : Owner(e) = i => ~(e = disconnecting') /\ ~(e = disconnecting)
      BY <1>2, <3>1 DEF d
    <3>3. \/ Handled(i) /\ handling' = handling /\ pc' = pc
          \/ ~Handled(i) /\ ~Handled(i)'
      BY <1>2 DEF Handled, IInv, StepInv
    <3>4. \A e \in Conns : Owner(e) = i =>
            /\ e \in fd_to_id_' <=> e \in fd_to_id_
            /\ e \in fd_to_inst_' <=> e \in fd_to_inst_
            /\ e \in fd_to_got_full_update_' => e \in fd_to_got_full_update_
      BY <1>2, <3>1
    <3>5. i \in DOMAIN delta_map => i \in DOMAIN delta_map'
      BY <1>3, <2>3
    <3> QED BY <1>2, <1>3, <1>4, <2>1, <3>2, <3>3, <3>4, <3>5, OthersKeep
  <2>4. CASE i = j
    <3>1. d \in Mapped(i) /\ ~Handled(i)
      BY <1>2, <2>2, <2>4 DEF MapsOK, d
    <3>2. Mapped(i) = {d} /\ Mapped(i)' = {}
      BY <1>2, <2>2, <3>1 DEF MapsOK, Mapped
    <3>3. ~Handled(i)'
      BY <1>2, <3>1 DEF Handled
    <3>4. \A e \in fd_to_inst_ : Owner(e) = i => e = d
      BY <3>2 DEF Mapped
    <3>5. MapsOK(i)'
      <4>1. \A e \in Conns : Owner(e) = i => (e \in fd_to_id_' <=> e \in fd_to_inst_')
        BY <1>2, <2>2 DEF MapsOK
      <4>2. \A e \in fd_to_got_full_update_' : Owner(e) = i => e \in fd_to_inst_'
        BY <1>2, <2>2, <3>4 DEF MapsOK
      <4> QED BY <1>2, <3>2, <4>1, <4>2 DEF MapsOK
    <3>6. RegisteredOK(i)'
      <4>1. i \notin registry
        BY <1>2, <2>2, <3>1, <3>2 DEF RegisteredOK
      <4> QED BY <1>3, <2>2, <4>1 DEF RegisteredOK
    <3>7. HandledOK(i)'
      BY <3>3 DEF HandledOK
    <3> QED BY <3>5, <3>6, <3>7 DEF InstanceOK
  <2> QED BY <2>3, <2>4
<1>8. AnswerInv'
  <2> SUFFICES ASSUME pc' = "answer"
               PROVE  \A n \in DOMAIN Deltas(me)' :
                        Deltas(me)'[n].op = "OFFLINE" /\ Deltas(me)'[n].inst \notin registry'
    BY DEF AnswerInv
  <2>1. PICK i : i = me
    OBVIOUS
  <2>2. me' = i /\ pc = "answer"
    BY <1>2, <2>1 DEF me
  <2>3. Deltas(me)' = Deltas(i)'
    BY <2>2 DEF Deltas
  <2>4. \A n \in DOMAIN Deltas(i) : Deltas(i)[n].op = "OFFLINE" /\ Deltas(i)[n].inst \notin registry
    BY <2>1, <2>2 DEF IInv, AnswerInv
  <2> QED BY <1>3, <2>3, <2>4
<1>9. KnowInv'
  <2>1. ASSUME NEW s \in Quiet, Synced(s)'
        PROVE  Synced(s) /\ Pending(s)' = Pending(s) /\ Deltas(s)' = Deltas(s)
    <3>1. Synced(s) /\ Pending(s)' = Pending(s) /\ Current(s) # d
      BY <1>2, <2>1 DEF Synced, Current, Pending
    <3>2. s # j
      <4>1. CASE s = j
        <5>1. d \in Mapped(s)
          BY <1>2, <4>1, QuietFacts DEF MapsOK, d
        <5> QED BY <3>1, <5>1, SyncedFacts, QuietFacts DEF MapsOK
      <4> QED BY <4>1
    <3> QED BY <1>3, <3>1, <3>2
  <2> QED BY <1>2, <1>3, <2>1, QuietShrinks, KnowsKept
<1> QED BY <1>4, <1>5, <1>6, <1>7, <1>8, <1>9 DEF IInv

----------------------------------------------------------------------------
(* The theorems.                                                           *)

\* A step that changes nothing.
LEMMA StutterStep == ASSUME IInv, UNCHANGED vars PROVE IInv'
<1>1. Typed'
  BY DEF vars, IInv, Typed, RegistryInv, RegistryTypeOK, CentreTyped, ClientTyped,
         registryvars, mapvars, handlervars, timervars, clientvars
<1> QED BY <1>1, NothingNew DEF vars, registryvars, timervars, clientvars

\* The invariant holds at first.
LEMMA InitInv == Init => IInv
<1> SUFFICES ASSUME Init PROVE IInv
  OBVIOUS
<1>1. RegistryInv
  BY DEF Init, RegistryInit, RegistryInv, RegistryTypeOK
<1>2. CentreTyped
  BY DEF Init, CentreTyped, Steps
<1>3. ClientTyped
  BY RegistrarAssumption DEF Init, ClientTyped
<1>4. StepInv /\ UsedInv /\ AnswerInv
  BY DEF Init, StepInv, UsedInv, AnswerInv
<1>5. ASSUME NEW i \in Quiet PROVE InstanceOK(i)
  BY DEF Init, RegistryInit, Quiet, InstanceOK, MapsOK, RegisteredOK, HandledOK, Mapped, Handled
<1>6. KnowInv
  BY DEF Init, KnowInv, Synced
<1> QED BY <1>1, <1>2, <1>3, <1>4, <1>5, <1>6 DEF IInv, Typed

\* Every step keeps it.
LEMMA Inductive == IInv /\ [Next]_vars => IInv'
<1> SUFFICES ASSUME IInv, [Next]_vars PROVE IInv'
  OBVIOUS
<1>1. ASSUME NEW i \in Ids, Start(i) \/ Stop(i) \/ Reconnect(i) \/ LeaseLapses(i) PROVE IInv'
  BY <1>1, ClientSteps
<1>2. CASE Handler
  BY <1>2, ReadSteps, RegisterSteps, LookSteps, MapSteps, PopStep, RespondStep, CleanupStep
     DEF Handler
<1>3. ASSUME NEW c \in Conns, PeerClosed(c) \/ TimerRemove(c) PROVE IInv'
  BY <1>3, BeginSteps
<1>4. ASSUME NEW cs \in SUBSET conns, TimerPick(cs) PROVE IInv'
  BY <1>4, TimerPickStep
<1>5. CASE EndDisconnect
  BY <1>5, EndDisconnectStep
<1>6. CASE UNCHANGED vars
  BY <1>6, StutterStep
<1> QED BY <1>1, <1>2, <1>3, <1>4, <1>5, <1>6 DEF Next

\* The deltas are complete: for any number of instances, what an undisturbed instance has
\* been told, is being told and will be told by its queue agrees with the registry about
\* every other undisturbed instance (TcpRegistrar.cpp and ServiceRegistry.cpp together);
\* and every variable has its type.
THEOREM DeltasCompleteCorrect == Spec => []DeltasComplete
<1>1. IInv => DeltasComplete
  <2> SUFFICES ASSUME IInv PROVE DeltasComplete
    OBVIOUS
  <2>1. TypeOK
    BY TypedParts DEF IInv
  <2>2. ASSUME NEW s \in Ids \ disturbed, NEW i \in Ids \ disturbed, s # i, Synced(s)
        PROVE  i \in Knows(s) <=> i \in registry
    BY <2>2 DEF IInv, KnowInv, Quiet, Knows, Pending
  <2> QED BY <2>1, <2>2 DEF DeltasComplete
<1> QED BY <1>1, InitInv, Inductive, PTL DEF Spec

=============================================================================
