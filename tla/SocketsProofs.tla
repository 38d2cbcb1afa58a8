---------------------------- MODULE SocketsProofs ----------------------------
(***************************************************************************)
(* Proofs about the sockets of a service: packets come out of a TCP        *)
(* connection whole and in order, and the tables of the WebSocket and KCP  *)
(* listeners lead to their own connections, for packets of any lengths and *)
(* any numbers of senders, connections, sessions and descriptors.          *)
(*                                                                         *)
(* InOrder is not inductive: that a sender finds nothing of another packet *)
(* waiting needs to be known of the buffer as well as of the senders, and  *)
(* that the units of a stream belong to packets that were sent.  Nor is    *)
(* Listed: that a descriptor is closed by the thread that took its         *)
(* connection out of the maps, and by no other, is in what the threads     *)
(* know (WsHand, KcpHand).                                                 *)
(*                                                                         *)
(* The last part is about a node and its link to the centre (IBusNet):     *)
(* what the threads that stop() and start() the link know of each other.   *)
(***************************************************************************)
EXTENDS Sockets, IBusNet, SequenceTheorems, FiniteSetTheorems, FunctionTheorems,
        WellFoundedInduction, TLAPS

Unit == (DOMAIN Length) \X Nat

FlagTyped ==
    /\ sent \in 0 .. Len(Length)
    /\ sending \in [Senders -> {"idle", "save", "arm"}]
    /\ wantWrite \in BOOLEAN /\ writable \in BOOLEAN
    /\ readable \in BOOLEAN /\ overlap \in BOOLEAN
    /\ loop \in {"wait", "write", "clear", "disarm"}
    /\ peer \in {"wait", "read", "parse", "closed"}

\* The places of units, and their capacities.
RestTyped ==
    /\ rest \in [Senders -> Seq(Unit)]
    /\ \A t \in Senders : rest[t] # << >> <=> sending[t] = "save"
BufferTyped ==
    /\ partial \in Seq(Unit) /\ offset \in 0 .. Len(partial)
    /\ partial # << >> /\ loop # "clear" => offset < Len(partial)
SocketTyped == socket \in Seq(Unit) /\ Len(socket) <= SocketCap
RingTyped == ring \in Seq(Unit) /\ Len(ring) <= RingCap
GotTyped == got \in Seq(Seq(Unit))

Typed == FlagTyped /\ RestTyped /\ BufferTyped /\ SocketTyped /\ RingTyped /\ GotTyped

\* What is left of a packet is in one place.
OneLeft ==
    \A t \in Senders : rest[t] # << >> =>
        partial = << >> /\ \A u \in Senders : rest[u] # << >> => t = u

\* The units after packet first, all of packets up to last.
InStream(units, first, last) ==
    /\ AreUnits(units, first, last)
    /\ \A i \in 1 .. Len(units) : units[i][1] <= last

GotInv == Len(got) <= sent /\ \A p \in DOMAIN got : got[p] = Units(p)

FlowInv == peer # "closed" => InStream(Stream, Len(got), sent)

\* What is about to be cleared was written.
Written == loop = "clear" => partial # << >> /\ offset = Len(partial)

StreamInv == OneLeft /\ GotInv /\ FlowInv /\ Written

IInv == Typed /\ (~overlap => StreamInv)

----------------------------------------------------------------------------
(* Sequences.                                                               *)

\* The less of two numbers.
LEMMA MinOfTwo ==
  ASSUME NEW a \in Nat, NEW b \in Nat
  PROVE  Min({a, b}) = IF a <= b THEN a ELSE b
<1> DEFINE S == {a, b}
           m == IF a <= b THEN a ELSE b
<1>1. m \in S /\ \A y \in S : m <= y
  OBVIOUS
<1>2. \A x \in S : (\A y \in S : x <= y) => x = m
  OBVIOUS
<1> QED BY <1>1, <1>2 DEF Min

\* A sequence is what comes before a cut and what comes after it.
LEMMA Cut ==
  ASSUME NEW S, NEW s \in Seq(S), NEW n \in 0 .. Len(s)
  PROVE  /\ SubSeq(s, 1, n) \in Seq(S) /\ Len(SubSeq(s, 1, n)) = n
         /\ \A i \in 1 .. n : SubSeq(s, 1, n)[i] = s[i]
         /\ SubSeq(s, n + 1, Len(s)) \in Seq(S)
         /\ Len(SubSeq(s, n + 1, Len(s))) = Len(s) - n
         /\ \A i \in 1 .. Len(s) - n : SubSeq(s, n + 1, Len(s))[i] = s[n + i]
         /\ SubSeq(s, 1, n) \o SubSeq(s, n + 1, Len(s)) = s
<1>1. Len(s) \in Nat /\ n \in Nat /\ n <= Len(s) /\ \A i \in 1 .. Len(s) : s[i] \in S
  BY LenProperties, ElementOfSeq
<1>2. /\ SubSeq(s, 1, n) \in Seq(S)
      /\ Len(SubSeq(s, 1, n)) = IF 1 <= n THEN n - 1 + 1 ELSE 0
      /\ \A i \in 1 .. n - 1 + 1 : SubSeq(s, 1, n)[i] = s[1 + i - 1]
  <2>1. \A i \in 1 .. n : s[i] \in S
    BY <1>1
  <2> HIDE <1>1
  <2>2. 1 \in Int /\ n \in Int
    OBVIOUS
  <2> QED BY <2>1, <2>2, SubSeqProperties
<1>3. /\ SubSeq(s, n + 1, Len(s)) \in Seq(S)
      /\ Len(SubSeq(s, n + 1, Len(s))) = IF n + 1 <= Len(s) THEN Len(s) - (n + 1) + 1 ELSE 0
      /\ \A i \in 1 .. Len(s) - (n + 1) + 1 : SubSeq(s, n + 1, Len(s))[i] = s[n + 1 + i - 1]
  <2>1. \A i \in n + 1 .. Len(s) : s[i] \in S
    BY <1>1
  <2>2. n + 1 \in Int /\ Len(s) \in Int
    BY <1>1
  <2> QED BY <2>1, <2>2, SubSeqProperties
<1>4. SubSeq(s, 1, n) \o SubSeq(s, n + 1, Len(s)) = s
  <2>1. SubSeq(s, 1, n) \o SubSeq(s, n + 1, Len(s)) = SubSeq(s, 1, Len(s))
    <3>1. /\ 1 \in 1 .. Len(s) + 1 /\ n \in 1 - 1 .. Len(s)
          /\ Len(s) \in n .. Len(s)
      BY <1>1
    <3> QED BY <3>1, ConcatAdjacentSubSeq
  <2> QED BY <2>1, SubSeqFull
<1>5. \A i \in 1 .. n : SubSeq(s, 1, n)[i] = s[i]
  BY <1>1, <1>2
<1>6. \A i \in 1 .. Len(s) - n : SubSeq(s, n + 1, Len(s))[i] = s[n + i]
  BY <1>1, <1>3
<1>7. Len(SubSeq(s, 1, n)) = n
  BY <1>1, <1>2
<1>8. Len(SubSeq(s, n + 1, Len(s))) = Len(s) - n
  BY <1>1, <1>3
<1> QED BY <1>2, <1>3, <1>4, <1>5, <1>6, <1>7, <1>8

\* Concatenation under a name that stays unexpanded where its laws are used: the
\* provers then match it as they match any function symbol.
Cat(a, b) == a \o b

\* Concatenation is associative.
LEMMA Assoc ==
  ASSUME NEW a \in Seq(Unit), NEW b \in Seq(Unit), NEW c \in Seq(Unit)
  PROVE  Cat(Cat(a, b), c) = Cat(a, Cat(b, c))
<1>1. (a \o b) \o c = a \o (b \o c)
  BY SMTT(60)
<1> QED BY <1>1 DEF Cat

LEMMA CatType ==
  ASSUME NEW a \in Seq(Unit), NEW b \in Seq(Unit)
  PROVE  Cat(a, b) \in Seq(Unit)
  BY ConcatProperties DEF Cat

\* What is moved over a boundary changes nothing.
LEMMA Move ==
  ASSUME NEW a \in Seq(Unit), NEW x \in Seq(Unit), NEW y \in Seq(Unit), NEW b \in Seq(Unit)
  PROVE  Cat(Cat(a, x), Cat(y, b)) = Cat(a, Cat(Cat(x, y), b))
<1>1. Cat(y, b) \in Seq(Unit)
  BY CatType
<1>2. Cat(Cat(a, x), Cat(y, b)) = Cat(a, Cat(x, Cat(y, b)))
  BY <1>1, Assoc
<1>3. Cat(Cat(x, y), b) = Cat(x, Cat(y, b))
  BY Assoc
<1> QED BY <1>2, <1>3

\* A cut inside the first of two sequences.
LEMMA CutFirst ==
  ASSUME NEW S, NEW a \in Seq(S), NEW b \in Seq(S), NEW n \in 0 .. Len(a)
  PROVE  SubSeq(a \o b, n + 1, Len(a \o b)) = SubSeq(a, n + 1, Len(a)) \o b
<1> DEFINE c == a \o b
           x == SubSeq(a, 1, n)
           y == SubSeq(a, n + 1, Len(a))
<1>1. x \in Seq(S) /\ y \in Seq(S) /\ Len(x) = n /\ x \o y = a
  BY Cut
<1>2. c \in Seq(S) /\ Len(c) = Len(a) + Len(b) /\ y \o b \in Seq(S)
  BY <1>1, ConcatProperties
<1>3. c = x \o (y \o b)
  <2> HIDE DEF x, y
  <2>1. x \in Seq(S) /\ y \in Seq(S)
    BY <1>1
  <2>2. (x \o y) \o b = x \o (y \o b)
    BY <2>1, ConcatAssociative
  <2> QED BY <1>1, <2>2
<1>4. Len(a) \in Nat /\ Len(b) \in Nat /\ n \in 0 .. Len(c)
  BY <1>2, LenProperties
<1>5. c = SubSeq(c, 1, n) \o SubSeq(c, n + 1, Len(c))
  BY <1>2, <1>4, Cut
<1>6. SubSeq(c, 1, n) = x
  <2>1. SubSeq(c, 1, n) \in Seq(S) /\ Len(SubSeq(c, 1, n)) = n
        /\ \A i \in 1 .. n : SubSeq(c, 1, n)[i] = c[i]
    BY <1>2, <1>4, Cut
  <2>2. \A i \in 1 .. n : x[i] = a[i]
    BY Cut
  <2>3. \A i \in 1 .. n : c[i] = a[i]
    BY <1>4, ConcatProperties
  <2> HIDE DEF c, x
  <2> QED BY <1>1, <2>1, <2>2, <2>3, SeqEqual
<1>7. SubSeq(c, n + 1, Len(c)) \in Seq(S)
  BY <1>2, <1>4, Cut
<1> HIDE DEF c, x, y
<1>8. x \o SubSeq(c, n + 1, Len(c)) = x \o (y \o b)
  BY <1>3, <1>5, <1>6
<1>9. SubSeq(c, n + 1, Len(c)) = y \o b
  BY <1>1, <1>2, <1>7, <1>8, ConcatSimplifications
<1> QED BY <1>9 DEF c, y

----------------------------------------------------------------------------
(* Streams of units.                                                        *)

\* A packet's units.
LEMMA UnitsOf ==
  ASSUME NEW p \in DOMAIN Length
  PROVE  /\ Length[p] \in Nat \ {0} /\ p \in Nat \ {0}
         /\ Units(p) \in Seq(Unit) /\ Len(Units(p)) = Length[p]
         /\ \A i \in 1 .. Length[p] : Units(p)[i] = <<p, i>>
<1>1. Length \in [1 .. Len(Length) -> Nat] /\ Len(Length) \in Nat
      /\ DOMAIN Length = 1 .. Len(Length)
  BY LengthAssumption, LenProperties
<1>2. Length[p] \in Nat \ {0} /\ p \in Nat \ {0}
  BY <1>1, LengthAssumption
<1>3. \A i \in 1 .. Length[p] : <<p, i>> \in Unit
  BY <1>2 DEF Unit
<1> QED BY <1>2, <1>3 DEF Units

\* A packet appended to a stream.
LEMMA AppendUnits ==
  ASSUME NEW w \in Seq(Unit), NEW first \in Nat, NEW last \in Nat,
         last + 1 \in DOMAIN Length, InStream(w, first, last)
  PROVE  InStream(w \o Units(last + 1), first, last + 1)
<1> DEFINE u == Units(last + 1)
           c == w \o u
           k == Length[last + 1]
<1>1. /\ k \in Nat \ {0} /\ u \in Seq(Unit) /\ Len(u) = k
      /\ \A i \in 1 .. k : u[i] = <<last + 1, i>>
  BY UnitsOf
<1> HIDE DEF u, k
<1>2. /\ c \in Seq(Unit) /\ Len(c) = Len(w) + k
      /\ \A i \in 1 .. Len(w) + k : c[i] = IF i <= Len(w) THEN w[i] ELSE u[i - Len(w)]
  BY <1>1, ConcatProperties
<1>3. Len(w) \in Nat /\ \A i \in 1 .. Len(w) : w[i] \in Unit
  BY LenProperties, ElementOfSeq
<1> HIDE DEF c
<1>4. \A i \in 1 .. Len(w) : c[i] = w[i]
  BY <1>1, <1>2, <1>3
<1>5. \A i \in 1 .. k : c[Len(w) + i] = <<last + 1, i>>
  <2> SUFFICES ASSUME NEW i \in 1 .. k PROVE c[Len(w) + i] = <<last + 1, i>>
    OBVIOUS
  <2>1. Len(w) + i \in 1 .. Len(w) + k /\ ~(Len(w) + i <= Len(w)) /\ (Len(w) + i) - Len(w) = i
    BY <1>1, <1>3
  <2>2. c[Len(w) + i] = u[(Len(w) + i) - Len(w)]
    BY <1>2, <2>1
  <2> QED BY <1>1, <2>1, <2>2
<1>6. c # << >> /\ c[Len(c)] = <<last + 1, Length[last + 1]>>
  <2>1. Len(c) # 0 /\ k \in 1 .. k
    BY <1>1, <1>2, <1>3
  <2> QED BY <1>2, <1>5, <2>1 DEF k
<1>7. c[1] = <<first + 1, 1>>
  <2>1. CASE w = << >>
    <3>1. first = last /\ Len(w) = 0
      BY <2>1 DEF InStream, AreUnits
    <3>2. c[Len(w) + 1] = <<last + 1, 1>>
      BY <1>1, <1>5
    <3> QED BY <3>1, <3>2
  <2>2. CASE w # << >>
    <3>1. 1 \in 1 .. Len(w) /\ w[1] = <<first + 1, 1>>
      BY <1>3, <2>2, EmptySeq DEF InStream, AreUnits
    <3> QED BY <1>4, <3>1
  <2> QED BY <2>1, <2>2
<1>8. ASSUME NEW i \in 1 .. Len(c) - 1 PROVE c[i + 1] = After(c[i])
  <2>1. CASE i < Len(w)
    <3>1. i \in 1 .. Len(w) - 1 /\ i \in 1 .. Len(w) /\ i + 1 \in 1 .. Len(w)
      BY <1>3, <2>1
    <3>2. w[i + 1] = After(w[i])
      BY <3>1 DEF InStream, AreUnits
    <3> QED BY <1>4, <3>1, <3>2
  <2>2. CASE i = Len(w)
    <3>1. w # << >> /\ i \in 1 .. Len(w) /\ i + 1 = Len(w) + 1 /\ 1 \in 1 .. k
      BY <1>1, <1>3, <2>2
    <3>2. c[i] = <<last, Length[last]>>
      BY <1>4, <2>2, <3>1 DEF InStream, AreUnits
    <3>3. c[i + 1] = <<last + 1, 1>>
      BY <1>5, <3>1
    <3>4. c[i] \in Unit
      BY <1>3, <1>4, <3>1
    <3>5. Length[last] \in Nat
      BY <3>2, <3>4 DEF Unit
    <3>6. After(c[i]) = <<last + 1, 1>>
      BY <3>2, <3>5 DEF After
    <3> QED BY <3>3, <3>6
  <2>3. CASE i > Len(w)
    <3> DEFINE j == i - Len(w)
    <3>1. j \in 1 .. k /\ j + 1 \in 1 .. k /\ i = Len(w) + j /\ i + 1 = Len(w) + (j + 1) /\ j < k
      BY <1>1, <1>2, <1>3, <2>3
    <3> HIDE DEF j
    <3>2. c[i] = <<last + 1, j>> /\ c[i + 1] = <<last + 1, j + 1>>
      BY <1>5, <3>1
    <3>3. After(c[i]) = <<last + 1, j + 1>>
      BY <3>1, <3>2 DEF After, k
    <3> QED BY <3>2, <3>3
  <2> QED BY <1>2, <1>3, <2>1, <2>2, <2>3
<1>9. ASSUME NEW i \in 1 .. Len(c) PROVE c[i][1] <= last + 1
  <2>1. CASE i <= Len(w)
    <3>1. i \in 1 .. Len(w)
      BY <1>3, <2>1
    <3>2. w[i][1] <= last /\ w[i][1] \in Nat
      <4>1. w[i] \in Unit
        BY <1>3, <3>1
      <4>2. w[i][1] \in DOMAIN Length
        BY <4>1 DEF Unit
      <4> QED BY <3>1, <4>2, UnitsOf DEF InStream
    <3> QED BY <1>4, <3>1, <3>2
  <2>2. CASE i > Len(w)
    <3> DEFINE j == i - Len(w)
    <3>1. j \in 1 .. k /\ i = Len(w) + j
      BY <1>1, <1>2, <1>3, <2>2
    <3> HIDE DEF j
    <3>2. c[i] = <<last + 1, j>>
      BY <1>5, <3>1
    <3> QED BY <3>2
  <2> QED BY <1>2, <1>3, <2>1, <2>2
<1> QED BY <1>6, <1>7, <1>8, <1>9 DEF InStream, AreUnits, c, u

\* A stream begins with the units of its first packet.
LEMMA FrontUnits ==
  ASSUME NEW w \in Seq(Unit), NEW first \in Nat, NEW last \in Nat, InStream(w, first, last),
         NEW n \in 1 .. Len(w), n <= Length[first + 1]
  PROVE  w[n] = <<first + 1, n>>
<1> DEFINE R == {ss \in Nat \X Nat : ss[1] < ss[2]}
           Wrong == {m \in 1 .. n : w[m] # <<first + 1, m>>}
<1>1. ASSUME NEW a \in Nat, NEW b \in Nat PROVE <<a, b>> \in R <=> a < b
  OBVIOUS
<1>2. IsWellFoundedOn(R, Nat)
  BY NatLessThanWellFounded DEF OpToRel
<1> HIDE DEF R
<1>3. Len(w) \in Nat /\ n \in Nat /\ n >= 1 /\ n <= Len(w) /\ w # << >>
  BY LenProperties, EmptySeq
<1>4. w[1] = <<first + 1, 1>> /\ w[1] \in Unit
  BY <1>3, ElementOfSeq DEF InStream, AreUnits
<1>5. Length[first + 1] \in Nat
  BY <1>4, UnitsOf DEF Unit
<1>6. CASE Wrong # {}
  <2>1. Wrong \subseteq Nat
    BY <1>3
  <2>2. PICK m \in Wrong : \A y \in Wrong : ~(<<y, m>> \in R)
    BY <1>2, <1>6, <2>1, WFMin
  <2>3. m \in 1 .. n /\ m \in Nat /\ w[m] # <<first + 1, m>>
    BY <2>1
  <2>4. m # 1
    BY <1>4, <2>3
  <2>5. m - 1 \in 1 .. n /\ m - 1 \in Nat /\ m - 1 < m /\ m - 1 \in 1 .. Len(w) - 1
        /\ (m - 1) + 1 = m /\ m - 1 < Length[first + 1]
    BY <1>3, <1>5, <2>3, <2>4
  <2>6. m - 1 \notin Wrong
    BY <1>1, <2>2, <2>3, <2>5
  <2>7. w[m - 1] = <<first + 1, m - 1>>
    BY <2>5, <2>6
  <2>8. w[(m - 1) + 1] = After(w[m - 1])
    BY <2>5 DEF InStream, AreUnits
  <2>9. After(w[m - 1]) = <<first + 1, m>>
    BY <2>5, <2>7 DEF After
  <2> QED BY <2>3, <2>5, <2>8, <2>9
<1>7. CASE Wrong = {}
  <2>1. n \in 1 .. n
    BY <1>3
  <2> QED BY <1>7, <2>1
<1> QED BY <1>6, <1>7

\* A stream from which its first packet is taken.
LEMMA DropUnits ==
  ASSUME NEW w \in Seq(Unit), NEW first \in Nat, NEW last \in Nat, InStream(w, first, last),
         w # << >>, Length[first + 1] <= Len(w)
  PROVE  /\ first + 1 \in DOMAIN Length /\ first + 1 <= last
         /\ SubSeq(w, 1, Length[first + 1]) = Units(first + 1)
         /\ InStream(SubSeq(w, Length[first + 1] + 1, Len(w)), first + 1, last)
<1> DEFINE k == Length[first + 1]
           v == SubSeq(w, k + 1, Len(w))
<1>1. Len(w) \in Nat \ {0} /\ \A i \in 1 .. Len(w) : w[i] \in Unit
  BY EmptySeq, ElementOfSeq
<1>2. w[1] = <<first + 1, 1>> /\ 1 \in 1 .. Len(w)
  BY <1>1 DEF InStream, AreUnits
<1>3. first + 1 \in DOMAIN Length
  BY <1>1, <1>2 DEF Unit
<1>4. first + 1 <= last
  <2>1. w[1][1] <= last
    BY <1>2 DEF InStream
  <2> QED BY <1>2, <2>1
<1>5. k \in Nat \ {0} /\ k <= Len(w)
  BY <1>3, UnitsOf
<1> HIDE DEF k
<1>6. \A i \in 1 .. k : w[i] = <<first + 1, i>>
  <2> SUFFICES ASSUME NEW i \in 1 .. k PROVE w[i] = <<first + 1, i>>
    OBVIOUS
  <2>1. i \in 1 .. Len(w) /\ i <= Length[first + 1]
    BY <1>1, <1>5 DEF k
  <2> QED BY <2>1, FrontUnits
<1>7. k \in 0 .. Len(w)
  BY <1>1, <1>5
<1>8. SubSeq(w, 1, k) = Units(first + 1)
  <2> DEFINE x == SubSeq(w, 1, k)
             u == Units(first + 1)
  <2>1. x \in Seq(Unit) /\ Len(x) = k /\ \A i \in 1 .. k : x[i] = w[i]
    BY <1>7, Cut
  <2>2. u \in Seq(Unit) /\ Len(u) = k /\ \A i \in 1 .. k : u[i] = <<first + 1, i>>
    BY <1>3, UnitsOf DEF k
  <2> HIDE DEF x, u
  <2>3. x = u
    BY <1>6, <2>1, <2>2, SeqEqual
  <2> QED BY <2>3 DEF x, u
<1>9. v \in Seq(Unit) /\ Len(v) = Len(w) - k /\ \A i \in 1 .. Len(w) - k : v[i] = w[k + i]
  BY <1>7, Cut
<1> HIDE DEF v
<1>10. w[k] = <<first + 1, k>> /\ k \in 1 .. Len(w)
  BY <1>1, <1>5, <1>6
<1>11. v = << >> => first + 1 = last
  <2> SUFFICES ASSUME v = << >> PROVE first + 1 = last
    OBVIOUS
  <2>1. Len(w) = k
    BY <1>1, <1>5, <1>9
  <2>2. w[Len(w)] = <<last, Length[last]>>
    BY DEF InStream, AreUnits
  <2> QED BY <1>10, <2>1, <2>2
<1>12. v # << >> => v[1] = <<(first + 1) + 1, 1>> /\ v[Len(v)] = <<last, Length[last]>>
  <2> SUFFICES ASSUME v # << >>
               PROVE  v[1] = <<(first + 1) + 1, 1>> /\ v[Len(v)] = <<last, Length[last]>>
    OBVIOUS
  <2>1. Len(v) \in Nat \ {0}
    BY <1>9, EmptySeq
  <2>2. /\ 1 \in 1 .. Len(w) - k /\ Len(v) \in 1 .. Len(w) - k
        /\ k \in 1 .. Len(w) - 1 /\ k + Len(v) = Len(w)
    BY <1>1, <1>5, <1>9, <2>1
  <2>3. v[1] = w[k + 1] /\ v[Len(v)] = w[Len(w)]
    BY <1>9, <2>2
  <2>4. w[k + 1] = After(w[k])
    BY <2>2 DEF InStream, AreUnits
  <2>5. After(w[k]) = <<(first + 1) + 1, 1>>
    <3>1. ~(k < Length[first + 1])
      BY <1>5 DEF k
    <3> QED BY <1>10, <3>1 DEF After
  <2>6. w[Len(w)] = <<last, Length[last]>>
    BY DEF InStream, AreUnits
  <2> QED BY <2>3, <2>4, <2>5, <2>6
<1>13. ASSUME NEW i \in 1 .. Len(v) - 1 PROVE v[i + 1] = After(v[i])
  <2>1. /\ i \in 1 .. Len(w) - k /\ i + 1 \in 1 .. Len(w) - k
        /\ k + i \in 1 .. Len(w) - 1 /\ k + (i + 1) = (k + i) + 1
    BY <1>1, <1>5, <1>9
  <2>2. v[i] = w[k + i] /\ v[i + 1] = w[(k + i) + 1]
    BY <1>9, <2>1
  <2>3. w[(k + i) + 1] = After(w[k + i])
    BY <2>1 DEF InStream, AreUnits
  <2> QED BY <2>2, <2>3
<1>14. ASSUME NEW i \in 1 .. Len(v) PROVE v[i][1] <= last
  <2>1. i \in 1 .. Len(w) - k /\ k + i \in 1 .. Len(w)
    BY <1>1, <1>5, <1>9
  <2> QED BY <1>9, <2>1 DEF InStream
<1> QED BY <1>3, <1>4, <1>8, <1>11, <1>12, <1>13, <1>14 DEF InStream, AreUnits, v, k

----------------------------------------------------------------------------
(* The places of units.                                                     *)

UnsavedOf(r) == IF \E t \in Senders : r[t] # << >>
                THEN r[CHOOSE t \in Senders : r[t] # << >>] ELSE << >>

\* When nobody but t has units to save, t's are what is unsaved.
LEMMA OnlyOne ==
  ASSUME NEW r, NEW t \in Senders, \A u \in Senders : r[u] # << >> => u = t
  PROVE  UnsavedOf(r) = r[t]
<1>1. CASE r[t] # << >>
  <2>1. \E u \in Senders : r[u] # << >>
    BY <1>1
  <2>2. (CHOOSE u \in Senders : r[u] # << >>) = t
    BY <2>1
  <2> QED BY <2>1, <2>2 DEF UnsavedOf
<1>2. CASE r[t] = << >>
  <2>1. ~(\E u \in Senders : r[u] # << >>)
    BY <1>2
  <2> QED BY <1>2, <2>1 DEF UnsavedOf
<1> QED BY <1>1, <1>2

\* What of the buffer is still to be written.
Left == SubSeq(partial, offset + 1, Len(partial))

\* Every place holds a sequence of units.
LEMMA Places ==
  ASSUME RestTyped, BufferTyped, SocketTyped, RingTyped
  PROVE  /\ Unsaved \in Seq(Unit) /\ Left \in Seq(Unit) /\ Len(Left) = Len(partial) - offset
         /\ Left \o Unsaved \in Seq(Unit) /\ socket \o (Left \o Unsaved) \in Seq(Unit)
         /\ Stream = ring \o (socket \o (Left \o Unsaved)) /\ Stream \in Seq(Unit)
<1>1. Unsaved \in Seq(Unit)
  BY DEF Unsaved, RestTyped
<1>2. Left \in Seq(Unit) /\ Len(Left) = Len(partial) - offset
  BY Cut DEF BufferTyped, Left
<1>3. Left \o Unsaved \in Seq(Unit)
  BY <1>1, <1>2, ConcatProperties
<1>4. socket \o (Left \o Unsaved) \in Seq(Unit)
  BY <1>3, ConcatProperties DEF SocketTyped
<1>5. ring \o (socket \o (Left \o Unsaved)) \in Seq(Unit)
  BY <1>4, ConcatProperties DEF RingTyped
<1>6. Stream = ring \o (socket \o (Left \o Unsaved))
  BY DEF Stream, Left
<1> QED BY <1>1, <1>2, <1>3, <1>4, <1>5, <1>6

\* A write takes no more than there is and no more than fits.
LEMMA TakenBounds ==
  ASSUME SocketTyped, NEW n \in Nat
  PROVE  Taken(n) \in 0 .. n /\ Len(socket) + Taken(n) <= SocketCap
<1>1. Len(socket) \in Nat /\ SocketCap \in Nat /\ SocketCap - Len(socket) \in Nat
  BY CapAssumption, LenProperties DEF SocketTyped
<1>2. Taken(n) = IF n <= SocketCap - Len(socket) THEN n ELSE SocketCap - Len(socket)
  BY <1>1, MinOfTwo DEF Taken
<1> QED BY <1>1, <1>2

\* A step that moves no unit keeps what is known of them.
LEMMA QuietKeeps ==
  ASSUME IInv, UNCHANGED <<sent, rest, partial, offset, socket, ring, got, overlap>>,
         peer = "closed" => peer' = "closed", loop' = "clear" => loop = "clear"
  PROVE  ~overlap' => StreamInv'
<1> SUFFICES ASSUME ~overlap' PROVE StreamInv'
  OBVIOUS
<1>1. OneLeft /\ GotInv /\ FlowInv /\ Written
  BY DEF IInv, StreamInv
<1>2. OneLeft'
  BY <1>1 DEF OneLeft
<1>3. GotInv'
  BY <1>1 DEF GotInv
<1>4. Stream' = Stream
  BY DEF Stream, Unsaved
<1>5. FlowInv'
  BY <1>1, <1>4 DEF FlowInv
<1>6. Written'
  BY <1>1 DEF Written
<1> QED BY <1>2, <1>3, <1>5, <1>6 DEF StreamInv

----------------------------------------------------------------------------
(* Senders.                                                                 *)

\* Moving a packet's first units into the socket and leaving the others with the
\* sender appends it to the stream.
LEMMA Sent ==
  ASSUME NEW r \in Seq(Unit), NEW s \in Seq(Unit), NEW a \in Seq(Unit), NEW b \in Seq(Unit)
  PROVE  Cat(r, Cat(Cat(s, a), Cat(<< >>, b)))
           = Cat(Cat(r, Cat(s, Cat(<< >>, << >>))), Cat(a, b))
<1>1. Cat(<< >>, b) = b /\ Cat(<< >>, << >>) = << >> /\ Cat(s, << >>) = s
  BY ConcatEmptySeq, EmptySeq DEF Cat
<1>2. Cat(a, b) \in Seq(Unit)
  BY CatType
<1>3. Cat(Cat(s, a), b) = Cat(s, Cat(a, b))
  BY Assoc
<1>4. Cat(Cat(r, s), Cat(a, b)) = Cat(r, Cat(s, Cat(a, b)))
  BY <1>2, Assoc
<1> QED BY <1>1, <1>3, <1>4

\* send: the packet is the next one of the stream.
LEMMA SendMsgKeeps ==
  ASSUME IInv, NEW t \in Senders, SendMsg(t)
  PROVE  IInv'
<1> DEFINE p == sent + 1
           u == Units(p)
           n == Taken(Length[p])
           a == SubSeq(u, 1, n)
           b == SubSeq(u, n + 1, Length[p])
<1>1. FlagTyped /\ RestTyped /\ BufferTyped /\ SocketTyped /\ RingTyped /\ GotTyped
  BY DEF IInv, Typed
<1>2. /\ sending[t] = "idle" /\ sent < Len(Length) /\ sent' = p /\ peer # "closed"
      /\ overlap' = (overlap \/ partial # << >> \/ \E o \in Senders : rest[o] # << >>)
  BY DEF SendMsg, Begin, Broken
<1>3. p \in DOMAIN Length /\ sent \in Nat /\ sent' \in 0 .. Len(Length)
  <2>1. DOMAIN Length = 1 .. Len(Length) /\ Len(Length) \in Nat
    BY LengthAssumption, LenProperties
  <2> QED BY <1>1, <1>2, <2>1 DEF FlagTyped
<1>4. Length[p] \in Nat /\ u \in Seq(Unit) /\ Len(u) = Length[p]
  BY <1>3, UnitsOf
<1>5. n \in 0 .. Len(u) /\ Len(socket) + n <= SocketCap
  BY <1>1, <1>4, TakenBounds
<1>6. /\ socket' = socket \o a /\ readable' = (readable \/ a # << >>)
      /\ rest' = [rest EXCEPT ![t] = b]
      /\ sending' = [sending EXCEPT ![t] = IF b = << >> THEN "idle" ELSE "save"]
      /\ UNCHANGED <<bufferVars, wantWrite, writable, loop, peerVars>>
  BY DEF SendMsg, Deliver
<1>7. UNCHANGED <<partial, offset, peer, ring, got>>
  BY <1>6 DEF bufferVars, peerVars
<1> HIDE DEF p, u, n
<1>8. a \in Seq(Unit) /\ b \in Seq(Unit) /\ Len(a) = n /\ a \o b = u
  BY <1>4, <1>5, Cut
<1> HIDE DEF a, b
<1>9. Typed'
  <2>1. RestTyped'
    BY <1>1, <1>6, <1>8 DEF RestTyped, FlagTyped
  <2>2. FlagTyped'
    <3>1. readable' \in BOOLEAN /\ overlap' \in BOOLEAN
      BY <1>2, <1>6
    <3>2. UNCHANGED <<wantWrite, writable, loop, peer>>
      BY <1>6, <1>7
    <3>3. sending' \in [Senders -> {"idle", "save", "arm"}]
      BY <1>1, <1>6 DEF FlagTyped
    <3> QED BY <1>1, <1>3, <3>1, <3>2, <3>3 DEF FlagTyped
  <2>3. SocketTyped'
    <3>1. socket \o a \in Seq(Unit) /\ Len(socket \o a) = Len(socket) + n
      BY <1>1, <1>8, ConcatProperties DEF SocketTyped
    <3> QED BY <1>5, <1>6, <3>1 DEF SocketTyped
  <2>4. BufferTyped' /\ RingTyped' /\ GotTyped'
    BY <1>1, <1>6, <1>7 DEF BufferTyped, RingTyped, GotTyped
  <2> QED BY <2>1, <2>2, <2>3, <2>4 DEF Typed
<1>10. ASSUME ~overlap' PROVE StreamInv'
  <2>1. ~overlap /\ partial = << >> /\ \A o \in Senders : rest[o] = << >>
    BY <1>2, <1>10
  <2>2. GotInv /\ FlowInv
    BY <2>1 DEF IInv, StreamInv
  <2>3. \A o \in Senders : rest'[o] # << >> => o = t
    BY <1>1, <1>6, <2>1 DEF RestTyped
  <2>4. rest'[t] = b /\ rest[t] = << >>
    BY <1>1, <1>6, <2>1 DEF RestTyped
  <2>5. OneLeft'
    BY <1>7, <2>1, <2>3 DEF OneLeft
  <2>6. GotInv'
    <3>1. Len(got) \in Nat
      BY <1>1, LenProperties DEF GotTyped
    <3> QED BY <1>2, <1>3, <1>7, <2>2, <3>1 DEF GotInv, p
  <2>7. Unsaved = << >> /\ Unsaved' = b
    <3>1. UnsavedOf(rest) = << >>
      BY <2>1, <2>4, OnlyOne
    <3>2. UnsavedOf(rest') = b
      BY <2>3, <2>4, OnlyOne
    <3> QED BY <3>1, <3>2 DEF UnsavedOf, Unsaved
  <2>8. Left = << >> /\ Left' = << >>
    <3>1. offset \in Nat /\ Len(partial) = 0 /\ offset = 0
      BY <1>1, <2>1, EmptySeq DEF BufferTyped
    <3>2. SubSeq(partial, offset + 1, Len(partial)) = << >>
      BY <3>1, SubSeqEmpty
    <3> QED BY <1>7, <3>2 DEF Left
  <2>9. Stream = ring \o (socket \o (<< >> \o << >>))
    BY <2>7, <2>8 DEF Stream, Left
  <2>10. Stream' = ring \o ((socket \o a) \o (<< >> \o b))
    BY <1>6, <1>7, <2>7, <2>8 DEF Stream, Left
  <2>11. Stream' = Stream \o u
    <3>1. ring \in Seq(Unit) /\ socket \in Seq(Unit) /\ a \in Seq(Unit) /\ b \in Seq(Unit)
      BY <1>1, <1>8 DEF RingTyped, SocketTyped
    <3>2. Cat(ring, Cat(Cat(socket, a), Cat(<< >>, b)))
            = Cat(Cat(ring, Cat(socket, Cat(<< >>, << >>))), Cat(a, b))
      BY <3>1, Sent
    <3>3. ring \o ((socket \o a) \o (<< >> \o b))
            = (ring \o (socket \o (<< >> \o << >>))) \o (a \o b)
      BY <3>2 DEF Cat
    <3>4. a \o b = u
      BY <1>8
    <3> QED BY <2>9, <2>10, <3>3, <3>4
  <2>12. FlowInv'
    <3>1. InStream(Stream, Len(got), sent) /\ Stream \in Seq(Unit)
      BY <1>1, <1>2, <2>2, Places DEF FlowInv
    <3>2. Len(got) \in Nat /\ sent + 1 \in DOMAIN Length
      BY <1>1, <1>3, LenProperties DEF GotTyped, p
    <3>3. InStream(Stream \o Units(sent + 1), Len(got), sent + 1)
      BY <1>3, <3>1, <3>2, AppendUnits
    <3> QED BY <1>2, <1>7, <2>11, <3>3 DEF FlowInv, u, p
  <2>13. Written'
    BY <1>6, <1>7, <2>1, <2>2 DEF IInv, StreamInv, Written
  <2> QED BY <2>5, <2>6, <2>12, <2>13 DEF StreamInv
<1> QED BY <1>9, <1>10 DEF IInv

\* What sendmsg left goes to the buffer, which is free.
LEMMA SaveKeeps ==
  ASSUME IInv, NEW t \in Senders, Save(t)
  PROVE  IInv'
<1>1. FlagTyped /\ RestTyped /\ BufferTyped /\ SocketTyped /\ RingTyped /\ GotTyped
  BY DEF IInv, Typed
<1>2. /\ sending[t] = "save" /\ partial' = rest[t] /\ offset' = 0
      /\ rest' = [rest EXCEPT ![t] = << >>]
      /\ sending' = [sending EXCEPT ![t] = "arm"]
      /\ UNCHANGED <<sent, socket, wantWrite, writable, readable, loop, peer, ring, got, overlap>>
  BY DEF Save, epollVars, peerVars
<1>3. rest[t] # << >> /\ rest[t] \in Seq(Unit) /\ Len(rest[t]) \in Nat \ {0}
  BY <1>1, <1>2, EmptySeq DEF RestTyped
<1>4. Typed'
  <2>1. RestTyped'
    BY <1>1, <1>2, EmptySeq DEF RestTyped, FlagTyped
  <2>2. BufferTyped'
    BY <1>2, <1>3 DEF BufferTyped
  <2>3. FlagTyped' /\ SocketTyped' /\ RingTyped' /\ GotTyped'
    BY <1>1, <1>2 DEF FlagTyped, SocketTyped, RingTyped, GotTyped
  <2> QED BY <2>1, <2>2, <2>3 DEF Typed
<1>5. ASSUME ~overlap' PROVE StreamInv'
  <2>1. OneLeft /\ GotInv /\ FlowInv /\ Written
    BY <1>2, <1>5 DEF IInv, StreamInv
  <2>2. partial = << >> /\ \A u \in Senders : rest[u] # << >> => u = t
    BY <1>3, <2>1 DEF OneLeft
  <2>3. \A u \in Senders : rest'[u] = << >>
    BY <1>1, <1>2, <2>2 DEF RestTyped
  <2>4. OneLeft'
    BY <2>3 DEF OneLeft
  <2>5. GotInv'
    BY <1>2, <2>1 DEF GotInv
  <2>6. Unsaved = rest[t] /\ Unsaved' = << >>
    <3>1. UnsavedOf(rest) = rest[t]
      BY <2>2, OnlyOne
    <3>2. UnsavedOf(rest') = << >>
      BY <2>3, OnlyOne
    <3> QED BY <3>1, <3>2 DEF UnsavedOf, Unsaved
  <2>7. Left = << >> /\ Left' = rest[t]
    <3>1. offset = 0 /\ Len(partial) = 0
      BY <1>1, <2>2, EmptySeq DEF BufferTyped
    <3>2. SubSeq(partial, offset + 1, Len(partial)) = << >>
      BY <3>1, SubSeqEmpty
    <3>3. SubSeq(rest[t], 1, Len(rest[t])) = rest[t]
      BY <1>3, SubSeqFull
    <3> QED BY <1>2, <3>2, <3>3 DEF Left
  <2>8. << >> \o rest[t] = rest[t] /\ rest[t] \o << >> = rest[t]
    BY <1>3, ConcatEmptySeq
  <2>9. Left' \o Unsaved' = Left \o Unsaved
    BY <2>6, <2>7, <2>8
  <2>10. Stream' = Stream
    BY <1>2, <2>9 DEF Stream, Left
  <2>11. FlowInv'
    BY <1>2, <2>1, <2>10 DEF FlowInv
  <2>12. Written'
    BY <1>2, <2>1, <2>2 DEF Written
  <2> QED BY <2>4, <2>5, <2>11, <2>12 DEF StreamInv
<1> QED BY <1>4, <1>5 DEF IInv

\* Asking for an event moves nothing.
LEMMA ArmKeeps ==
  ASSUME IInv, NEW t \in Senders, Arm(t)
  PROVE  IInv'
<1>1. FlagTyped /\ RestTyped /\ BufferTyped /\ SocketTyped /\ RingTyped /\ GotTyped
  BY DEF IInv, Typed
<1>2. /\ sending[t] = "arm" /\ wantWrite' = TRUE /\ writable' = (Len(socket) < SocketCap)
      /\ sending' = [sending EXCEPT ![t] = "idle"]
      /\ UNCHANGED <<sent, rest, partial, offset, socket, readable, loop, peer, ring, got, overlap>>
  BY DEF Arm, bufferVars, peerVars
<1>3. Typed'
  <2>1. RestTyped'
    BY <1>1, <1>2 DEF RestTyped, FlagTyped
  <2>2. FlagTyped'
    <3>1. wantWrite' \in BOOLEAN /\ writable' \in BOOLEAN
      BY <1>2
    <3>2. sending' \in [Senders -> {"idle", "save", "arm"}]
      BY <1>1, <1>2 DEF FlagTyped
    <3> QED BY <1>1, <1>2, <3>1, <3>2 DEF FlagTyped
  <2>3. BufferTyped' /\ SocketTyped' /\ RingTyped' /\ GotTyped'
    BY <1>1, <1>2 DEF BufferTyped, SocketTyped, RingTyped, GotTyped
  <2> QED BY <2>1, <2>2, <2>3 DEF Typed
<1>4. ~overlap' => StreamInv'
  BY <1>2, QuietKeeps
<1> QED BY <1>3, <1>4 DEF IInv

----------------------------------------------------------------------------
(* The event loop of the sender.                                            *)

\* Steps that only change what the loop does next.
LEMMA TurnKeeps ==
  ASSUME IInv, LoopWake \/ Disarm
  PROVE  IInv'
<1>1. FlagTyped /\ RestTyped /\ BufferTyped /\ SocketTyped /\ RingTyped /\ GotTyped
  BY DEF IInv, Typed
<1>2. UNCHANGED <<sent, sending, rest, partial, offset, socket, readable, peer, ring, got, overlap>>
  BY DEF LoopWake, Disarm, sendVars, bufferVars, peerVars
<1>3. /\ loop \in {"wait", "disarm"} /\ loop' \in {"wait", "write"}
      /\ writable' = FALSE /\ (wantWrite' = wantWrite \/ wantWrite' = FALSE)
  BY DEF LoopWake, Disarm
<1>4. Typed'
  <2>1. FlagTyped'
    <3>1. wantWrite' \in BOOLEAN /\ writable' \in BOOLEAN
      BY <1>1, <1>3 DEF FlagTyped
    <3> QED BY <1>1, <1>2, <1>3, <3>1 DEF FlagTyped
  <2>2. RestTyped' /\ BufferTyped' /\ SocketTyped' /\ RingTyped' /\ GotTyped'
    BY <1>1, <1>2, <1>3 DEF RestTyped, BufferTyped, SocketTyped, RingTyped, GotTyped
  <2> QED BY <2>1, <2>2 DEF Typed
<1>5. ~overlap' => StreamInv'
  BY <1>2, <1>3, QuietKeeps
<1> QED BY <1>4, <1>5 DEF IInv

\* onWritable that writes: units go from the buffer to the socket, from its front.
LEMMA WriteMoves ==
  ASSUME IInv, NEW n \in 1 .. Len(partial) - offset, Len(socket) + n <= SocketCap,
         Deliver(SubSeq(partial, offset + 1, offset + n)),
         UNCHANGED <<sent, sending, rest, wantWrite, writable, peer, ring, got, overlap>>,
         partial' = partial, offset' = offset + n,
         loop' = IF offset' >= Len(partial) THEN "clear" ELSE "wait"
  PROVE  IInv'
<1> DEFINE x == SubSeq(partial, offset + 1, offset + n)
           y == SubSeq(partial, offset + n + 1, Len(partial))
<1>1. FlagTyped /\ RestTyped /\ BufferTyped /\ SocketTyped /\ RingTyped /\ GotTyped
  BY DEF IInv, Typed
<1>2. /\ Len(partial) \in Nat /\ offset \in Nat /\ n \in Nat /\ n >= 1
      /\ offset + n <= Len(partial) /\ offset <= Len(partial) /\ partial \in Seq(Unit)
  BY <1>1, LenProperties DEF BufferTyped
<1>3. x \in Seq(Unit) /\ Len(x) = n
  <2>1. \A i \in offset + 1 .. offset + n : partial[i] \in Unit
    BY <1>2, ElementOfSeq
  <2>2. PICK l \in Int, m \in Int : l = offset + 1 /\ m = offset + n
    BY <1>2
  <2>3. \A i \in l .. m : partial[i] \in Unit
    BY <2>1, <2>2
  <2>4. /\ SubSeq(partial, l, m) \in Seq(Unit)
        /\ Len(SubSeq(partial, l, m)) = IF l <= m THEN m - l + 1 ELSE 0
    BY <2>3, SubSeqProperties
  <2>5. (IF l <= m THEN m - l + 1 ELSE 0) = n
    BY <1>2, <2>2
  <2>6. SubSeq(partial, l, m) \in Seq(Unit) /\ Len(SubSeq(partial, l, m)) = n
    BY <2>4, <2>5
  <2> QED BY <2>2, <2>6
<1>4. y \in Seq(Unit)
  BY <1>2, Cut
<1>5. x \o y = Left
  <2>1. /\ offset + 1 \in 1 .. Len(partial) + 1
        /\ offset + n \in (offset + 1) - 1 .. Len(partial)
        /\ Len(partial) \in offset + n .. Len(partial)
    BY <1>2
  <2> QED BY <1>2, <2>1, ConcatAdjacentSubSeq DEF Left
<1>6. Left' = y
  BY <1>2 DEF Left
<1>7. socket' = socket \o x /\ readable' = (readable \/ x # << >>)
  BY DEF Deliver
<1> HIDE DEF x, y
<1>8. Typed'
  <2>1. SocketTyped'
    <3>1. socket \o x \in Seq(Unit) /\ Len(socket \o x) = Len(socket) + n
      BY <1>1, <1>3, ConcatProperties DEF SocketTyped
    <3> QED BY <1>7, <3>1 DEF SocketTyped
  <2>2. BufferTyped'
    BY <1>2 DEF BufferTyped
  <2>3. FlagTyped'
    <3>1. readable' \in BOOLEAN
      BY <1>7
    <3> QED BY <1>1, <3>1 DEF FlagTyped
  <2>4. RestTyped' /\ RingTyped' /\ GotTyped'
    BY <1>1 DEF RestTyped, RingTyped, GotTyped
  <2> QED BY <2>1, <2>2, <2>3, <2>4 DEF Typed
<1>9. ASSUME ~overlap' PROVE StreamInv'
  <2>1. OneLeft /\ GotInv /\ FlowInv
    BY <1>9 DEF IInv, StreamInv
  <2>2. OneLeft'
    <3>1. partial # << >>
      BY <1>2, EmptySeq
    <3> QED BY <2>1, <3>1 DEF OneLeft
  <2>3. GotInv'
    BY <2>1 DEF GotInv
  <2>4. Unsaved' = Unsaved /\ Unsaved \in Seq(Unit)
    BY <1>1, Places DEF Unsaved
  <2>5. (socket \o x) \o (y \o Unsaved) = socket \o ((x \o y) \o Unsaved)
    <3>1. socket \in Seq(Unit)
      BY <1>1 DEF SocketTyped
    <3>2. x \in Seq(Unit) /\ y \in Seq(Unit)
      BY <1>3, <1>4
    <3>3. PICK u \in Seq(Unit) : u = Unsaved
      BY <2>4
    <3>4. Cat(Cat(socket, x), Cat(y, u)) = Cat(socket, Cat(Cat(x, y), u))
      BY <3>1, <3>2, Move
    <3>5. (socket \o x) \o (y \o u) = socket \o ((x \o y) \o u)
      BY <3>4 DEF Cat
    <3> QED BY <3>3, <3>5
  <2>6. Stream = ring \o (socket \o (Left \o Unsaved))
        /\ Stream' = ring' \o (socket' \o (Left' \o Unsaved'))
    BY DEF Stream, Left
  <2>7. Stream' = Stream
    BY <1>5, <1>6, <1>7, <2>4, <2>5, <2>6
  <2>8. FlowInv'
    BY <2>1, <2>7 DEF FlowInv
  <2>9. Written'
    BY <1>2, EmptySeq DEF Written
  <2> QED BY <2>2, <2>3, <2>8, <2>9 DEF StreamInv
<1> QED BY <1>8, <1>9 DEF IInv

\* onWritable: it writes, or there is nothing to write or no room.
LEMMA WriteKeeps ==
  ASSUME IInv, onWritable
  PROVE  IInv'
<1> DEFINE n == Taken(Len(partial) - offset)
<1>1. FlagTyped /\ RestTyped /\ BufferTyped /\ SocketTyped /\ RingTyped /\ GotTyped
  BY DEF IInv, Typed
<1>2. Len(partial) - offset \in Nat /\ offset \in Nat
  BY <1>1, LenProperties DEF BufferTyped
<1>3. n \in 0 .. Len(partial) - offset /\ Len(socket) + n <= SocketCap
  BY <1>1, <1>2, TakenBounds
<1>4. UNCHANGED <<sent, sending, rest, wantWrite, writable, peer, ring, got, overlap>>
  BY DEF onWritable, sendVars, peerVars
<1>5. CASE partial = << >> \/ n = 0
  <2>1. loop = "write" /\ loop' = "wait" /\ UNCHANGED <<partial, offset, socket, readable>>
    BY <1>5 DEF onWritable
  <2>2. Typed'
    BY <1>1, <1>4, <2>1
       DEF Typed, FlagTyped, RestTyped, BufferTyped, SocketTyped, RingTyped, GotTyped
  <2>3. ~overlap' => StreamInv'
    BY <1>4, <2>1, QuietKeeps
  <2> QED BY <2>2, <2>3 DEF IInv
<1>6. CASE ~(partial = << >> \/ n = 0)
  <2>1. /\ Deliver(SubSeq(partial, offset + 1, offset + n))
        /\ partial' = partial /\ offset' = offset + n
        /\ loop' = IF offset' >= Len(partial) THEN "clear" ELSE "wait"
    BY <1>6 DEF onWritable
  <2> HIDE DEF n
  <2>2. n \in 1 .. Len(partial) - offset
    BY <1>2, <1>3, <1>6
  <2> QED BY <1>3, <1>4, <2>1, <2>2, WriteMoves
<1> QED BY <1>5, <1>6

\* The buffer that was written is cleared: nothing was left in it.
LEMMA ClearKeeps ==
  ASSUME IInv, Clear
  PROVE  IInv'
<1>1. FlagTyped /\ RestTyped /\ BufferTyped /\ SocketTyped /\ RingTyped /\ GotTyped
  BY DEF IInv, Typed
<1>2. /\ loop = "clear" /\ loop' = "disarm" /\ partial' = << >> /\ offset' = 0
      /\ UNCHANGED <<sent, sending, rest, socket, wantWrite, writable, readable, peer, ring,
                     got, overlap>>
  BY DEF Clear, sendVars, epollVars, peerVars
<1>3. BufferTyped'
  BY <1>2, EmptySeq DEF BufferTyped
<1>4. Typed'
  BY <1>1, <1>2, <1>3 DEF Typed, FlagTyped, RestTyped, SocketTyped, RingTyped, GotTyped
<1>5. ASSUME ~overlap' PROVE StreamInv'
  <2>1. OneLeft /\ GotInv /\ FlowInv /\ partial # << >> /\ offset = Len(partial)
    BY <1>2, <1>5 DEF IInv, StreamInv, Written
  <2>2. OneLeft' /\ GotInv' /\ Written'
    BY <1>2, <2>1 DEF OneLeft, GotInv, Written
  <2>3. Left = << >> /\ Left' = << >>
    <3>1. Len(partial) \in Nat /\ Len(<< >>) = 0
      BY <1>1, LenProperties, EmptySeq DEF BufferTyped
    <3>2. SubSeq(partial, Len(partial) + 1, Len(partial)) = << >>
      BY <3>1, SubSeqEmpty
    <3>3. SubSeq(<< >>, 1, 0) = << >>
      BY SubSeqEmpty
    <3> QED BY <1>2, <2>1, <3>1, <3>2, <3>3 DEF Left
  <2>4. Stream' = Stream
    BY <1>2, <2>3 DEF Stream, Left, Unsaved
  <2>5. FlowInv'
    BY <1>2, <2>1, <2>4 DEF FlowInv
  <2> QED BY <2>2, <2>5 DEF StreamInv
<1> QED BY <1>4, <1>5 DEF IInv

----------------------------------------------------------------------------
(* The peer.                                                                *)

\* Steps of the peer that take nothing.
LEMMA PeerTurnKeeps ==
  ASSUME IInv, UNCHANGED <<sendVars, bufferVars, socket, wantWrite, writable, loop, ring, got, overlap>>,
         peer # "closed", peer' \in {"wait", "read", "parse", "closed"}, readable' \in BOOLEAN
  PROVE  IInv'
<1>1. FlagTyped /\ RestTyped /\ BufferTyped /\ SocketTyped /\ RingTyped /\ GotTyped
  BY DEF IInv, Typed
<1>2. UNCHANGED <<sent, sending, rest, partial, offset, socket, wantWrite, writable, loop, ring, got, overlap>>
  BY DEF sendVars, bufferVars
<1>3. Typed'
  <2>1. FlagTyped'
    BY <1>1, <1>2 DEF FlagTyped
  <2>2. RestTyped' /\ BufferTyped' /\ SocketTyped' /\ RingTyped' /\ GotTyped'
    BY <1>1, <1>2 DEF RestTyped, BufferTyped, SocketTyped, RingTyped, GotTyped
  <2> QED BY <2>1, <2>2 DEF Typed
<1>4. ~overlap' => StreamInv'
  BY <1>2, QuietKeeps
<1> QED BY <1>3, <1>4 DEF IInv

\* read(): units go from the front of the socket to the ring, or the ring is full and
\* the connection ends.
LEMMA ReadKeeps ==
  ASSUME IInv, Read
  PROVE  IInv'
<1> DEFINE n == Min({ReadMax, Len(socket)})
           x == SubSeq(socket, 1, n)
           y == SubSeq(socket, n + 1, Len(socket))
<1>1. FlagTyped /\ RestTyped /\ BufferTyped /\ SocketTyped /\ RingTyped /\ GotTyped
  BY DEF IInv, Typed
<1>2. UNCHANGED <<sent, sending, rest, partial, offset, wantWrite, readable, loop, got, overlap>>
  BY DEF Read, sendVars, bufferVars
<1>3. /\ peer = "read" /\ socket' = y
      /\ IF Len(ring) + n > RingCap
         THEN peer' = "closed" /\ UNCHANGED ring
         ELSE ring' = ring \o x /\ UNCHANGED peer
      /\ writable' = (writable \/ (wantWrite /\ Len(socket) = SocketCap))
  BY DEF Read
<1>4. n \in 0 .. Len(socket)
  <2>1. ReadMax \in Nat /\ Len(socket) \in Nat
    BY <1>1, CapAssumption, LenProperties DEF SocketTyped
  <2>2. n = IF ReadMax <= Len(socket) THEN ReadMax ELSE Len(socket)
    BY <2>1, MinOfTwo
  <2> QED BY <2>1, <2>2
<1> HIDE DEF n
<1>5. /\ x \in Seq(Unit) /\ Len(x) = n
      /\ y \in Seq(Unit) /\ Len(y) = Len(socket) - n /\ x \o y = socket
  BY <1>1, <1>4, Cut DEF SocketTyped
<1> HIDE DEF x, y
<1>6. SocketTyped'
  <2>1. Len(socket) \in Nat /\ Len(socket) <= SocketCap /\ SocketCap \in Nat
    BY <1>1, CapAssumption, LenProperties DEF SocketTyped
  <2> QED BY <1>3, <1>4, <1>5, <2>1 DEF SocketTyped
<1>7. RestTyped' /\ BufferTyped' /\ GotTyped'
  BY <1>1, <1>2 DEF RestTyped, BufferTyped, GotTyped
<1>8. peer' \in {"read", "closed"}
  BY <1>3
<1>9. FlagTyped'
  <2>1. writable' \in BOOLEAN
    BY <1>3
  <2>2. peer' \in {"wait", "read", "parse", "closed"}
    BY <1>8
  <2> QED BY <1>1, <1>2, <2>1, <2>2 DEF FlagTyped
<1>10. ring \o x \in Seq(Unit) /\ Len(ring \o x) = Len(ring) + n
  BY <1>1, <1>5, ConcatProperties DEF RingTyped
<1>11. RingTyped'
  <2>1. CASE Len(ring) + n > RingCap
    BY <1>1, <1>3, <2>1 DEF RingTyped
  <2>2. CASE ~(Len(ring) + n > RingCap)
    <3>1. Len(ring) \in Nat /\ n \in Nat /\ RingCap \in Nat
      BY <1>1, <1>4, CapAssumption, LenProperties DEF RingTyped
    <3>2. ring' = ring \o x
      BY <1>3, <2>2
    <3> QED BY <1>10, <2>2, <3>1, <3>2 DEF RingTyped
  <2> QED BY <2>1, <2>2
<1>12. ASSUME ~overlap' PROVE StreamInv'
  <2>1. OneLeft /\ GotInv /\ FlowInv /\ Written
    BY <1>2, <1>12 DEF IInv, StreamInv
  <2>2. OneLeft' /\ GotInv' /\ Written'
    BY <1>2, <2>1 DEF OneLeft, GotInv, Written
  <2>3. ASSUME peer' # "closed" PROVE InStream(Stream', Len(got'), sent')
    <3> DEFINE b == Left \o Unsaved
    <3>1. ring' = ring \o x /\ b \in Seq(Unit) /\ ring \in Seq(Unit)
      BY <1>1, <1>3, <2>3, Places DEF RingTyped
    <3>2. Stream = ring \o (socket \o b)
      BY <1>1, Places
    <3>3. Stream' = ring' \o (socket' \o b)
      BY <1>2 DEF Stream, Unsaved, Left
    <3> HIDE DEF b
    <3>4. (ring \o x) \o (y \o b) = ring \o ((x \o y) \o b)
      <4>1. x \in Seq(Unit) /\ y \in Seq(Unit)
        BY <1>5
      <4>2. Cat(Cat(ring, x), Cat(y, b)) = Cat(ring, Cat(Cat(x, y), b))
        BY <3>1, <4>1, Move
      <4> QED BY <4>2 DEF Cat
    <3>5. Stream' = Stream
      BY <1>3, <1>5, <3>1, <3>2, <3>3, <3>4
    <3> QED BY <1>2, <1>3, <2>1, <3>5 DEF FlowInv
  <2> QED BY <2>2, <2>3 DEF StreamInv, FlowInv
<1> QED BY <1>6, <1>7, <1>9, <1>11, <1>12 DEF IInv, Typed

\* The units of the ring are the first of the stream.
LEMMA RingFirst ==
  ASSUME NEW r \in Seq(Unit), NEW b \in Seq(Unit)
  PROVE  /\ r \o b \in Seq(Unit) /\ Len(r) <= Len(r \o b)
         /\ \A i \in 1 .. Len(r) : (r \o b)[i] = r[i]
         /\ \A n \in 0 .. Len(r) : SubSeq(r \o b, 1, n) = SubSeq(r, 1, n)
<1> DEFINE c == r \o b
<1>1. /\ c \in Seq(Unit) /\ Len(c) = Len(r) + Len(b)
      /\ \A i \in 1 .. Len(r) + Len(b) : c[i] = IF i <= Len(r) THEN r[i] ELSE b[i - Len(r)]
  BY ConcatProperties
<1>2. Len(r) \in Nat /\ Len(b) \in Nat
  BY LenProperties
<1> HIDE DEF c
<1>3. Len(r) <= Len(c) /\ \A i \in 1 .. Len(r) : c[i] = r[i]
  BY <1>1, <1>2
<1>4. ASSUME NEW n \in 0 .. Len(r) PROVE SubSeq(c, 1, n) = SubSeq(r, 1, n)
  <2> DEFINE s == SubSeq(c, 1, n)
             t == SubSeq(r, 1, n)
  <2>1. n \in 0 .. Len(c)
    BY <1>1, <1>2
  <2>2. s \in Seq(Unit) /\ Len(s) = n /\ \A i \in 1 .. n : s[i] = c[i]
    BY <1>1, <2>1, Cut
  <2>3. t \in Seq(Unit) /\ Len(t) = n /\ \A i \in 1 .. n : t[i] = r[i]
    BY Cut
  <2>4. \A i \in 1 .. n : c[i] = r[i]
    BY <1>2, <1>3
  <2> HIDE DEF s, t
  <2>5. s = t
    BY <2>2, <2>3, <2>4, SeqEqual
  <2> QED BY <2>5 DEF s, t
<1> QED BY <1>1, <1>3, <1>4 DEF c

\* What begins a ring is a header, and its packet the next one.
LEMMA HeaderFirst ==
  ASSUME RingTyped, NEW first \in Nat, NEW b \in Seq(Unit), NEW last \in Nat,
         InStream(ring \o b, first, last), Len(ring) >= HeaderLen
  PROVE  ring # << >> /\ ring[1][1] = first + 1 /\ first + 1 \in DOMAIN Length /\ IsHeader
<1>1. /\ ring \in Seq(Unit) /\ ring \o b \in Seq(Unit) /\ Len(ring) <= Len(ring \o b)
      /\ \A i \in 1 .. Len(ring) : (ring \o b)[i] = ring[i]
  BY RingFirst DEF RingTyped
<1>2. HeaderLen \in Nat \ {0} /\ Len(ring) \in Nat /\ Len(ring \o b) \in Nat
  BY <1>1, LengthAssumption, LenProperties
<1>3. ring # << >> /\ 1 \in 1 .. Len(ring) /\ ring \o b # << >>
  BY <1>1, <1>2, EmptySeq
<1>4. (ring \o b)[1] = <<first + 1, 1>>
  BY <1>3 DEF InStream, AreUnits
<1>5. ring[1] = <<first + 1, 1>> /\ ring[1] \in Unit
  BY <1>1, <1>3, <1>4, ElementOfSeq
<1>6. first + 1 \in DOMAIN Length
  BY <1>5 DEF Unit
<1>7. Length[first + 1] >= HeaderLen /\ Length[first + 1] \in Nat
  BY <1>6, UnitsOf, LengthAssumption
<1>8. ASSUME NEW i \in 1 .. HeaderLen PROVE ring[i] = <<ring[1][1], i>>
  <2>1. i \in 1 .. Len(ring) /\ i \in 1 .. Len(ring \o b) /\ i <= Length[first + 1]
    BY <1>1, <1>2, <1>7
  <2>2. (ring \o b)[i] = <<first + 1, i>>
    BY <1>1, <2>1, FrontUnits
  <2> QED BY <1>1, <1>5, <2>1, <2>2
<1> QED BY <1>3, <1>5, <1>6, <1>8 DEF IsHeader

\* processRecvBuffer takes a number of units from the front of the ring.
LEMMA TakeTypes ==
  ASSUME RingTyped, GotTyped, NEW n \in 0 .. Len(ring), Take(n)
  PROVE  RingTyped' /\ GotTyped' /\ Len(got') = Len(got) + 1
         /\ got'[Len(got) + 1] = SubSeq(ring, 1, n)
         /\ \A p \in 1 .. Len(got) : got'[p] = got[p]
<1>1. /\ got' = Append(got, SubSeq(ring, 1, n))
      /\ ring' = SubSeq(ring, n + 1, Len(ring))
  BY DEF Take
<1>2. /\ SubSeq(ring, 1, n) \in Seq(Unit)
      /\ SubSeq(ring, n + 1, Len(ring)) \in Seq(Unit)
      /\ Len(SubSeq(ring, n + 1, Len(ring))) = Len(ring) - n
  BY Cut DEF RingTyped
<1>3. Len(ring) \in Nat /\ Len(ring) <= RingCap /\ RingCap \in Nat /\ n \in Nat
  BY CapAssumption, LenProperties DEF RingTyped
<1>4. RingTyped'
  BY <1>1, <1>2, <1>3 DEF RingTyped
<1>5. PICK x \in Seq(Unit) : x = SubSeq(ring, 1, n)
  BY <1>2
<1>6. /\ Append(got, x) \in Seq(Seq(Unit)) /\ Len(Append(got, x)) = Len(got) + 1
      /\ Append(got, x)[Len(got) + 1] = x
      /\ \A p \in 1 .. Len(got) : Append(got, x)[p] = got[p]
  BY DEF GotTyped
<1> QED BY <1>1, <1>4, <1>5, <1>6 DEF GotTyped

\* processRecvBuffer that takes: of an orderly stream, the next packet.
LEMMA TakeKeeps ==
  ASSUME IInv, peer = "parse", NEW n \in 0 .. Len(ring), Take(n),
         ~overlap => IsHeader /\ n = Length[ring[1][1]],
         Len(ring) >= HeaderLen,
         UNCHANGED <<sendVars, bufferVars, socket, epollVars, loop, overlap>>
  PROVE  IInv'
<1>1. FlagTyped /\ RestTyped /\ BufferTyped /\ SocketTyped /\ RingTyped /\ GotTyped
  BY DEF IInv, Typed
<1>2. UNCHANGED <<sent, sending, rest, partial, offset, socket, wantWrite, writable, readable, loop, overlap, peer>>
  BY DEF sendVars, bufferVars, epollVars, Take
<1>3. RingTyped' /\ GotTyped' /\ Len(got') = Len(got) + 1
      /\ got'[Len(got) + 1] = SubSeq(ring, 1, n)
      /\ \A p \in 1 .. Len(got) : got'[p] = got[p]
  BY <1>1, TakeTypes
<1>4. Typed'
  <2>1. FlagTyped' /\ RestTyped' /\ BufferTyped' /\ SocketTyped'
    BY <1>1, <1>2 DEF FlagTyped, RestTyped, BufferTyped, SocketTyped
  <2> QED BY <1>3, <2>1 DEF Typed
<1>5. ASSUME ~overlap' PROVE StreamInv'
  <2> DEFINE b == socket \o (Left \o Unsaved)
  <2>1. OneLeft /\ GotInv /\ FlowInv /\ Written /\ n = Length[ring[1][1]]
    BY <1>2, <1>5 DEF IInv, StreamInv
  <2>2. Stream = ring \o b /\ b \in Seq(Unit) /\ Stream \in Seq(Unit) /\ ring \in Seq(Unit)
    BY <1>1, Places DEF RingTyped
  <2>3. Stream' = ring' \o b
    BY <1>2 DEF Stream, Unsaved, Left
  <2> HIDE DEF b
  <2>4. PICK first \in Nat : first = Len(got)
    BY <1>1, LenProperties DEF GotTyped
  <2>5. PICK last \in Nat : last = sent
    BY <1>1 DEF FlagTyped
  <2>6. InStream(ring \o b, first, last)
    BY <2>1, <2>2, <2>4, <2>5 DEF FlowInv
  <2>7. ring # << >> /\ ring[1][1] = first + 1 /\ first + 1 \in DOMAIN Length
    BY <1>1, <2>2, <2>6, HeaderFirst
  <2>8. n = Length[first + 1]
    BY <2>1, <2>7
  <2>9. /\ Len(ring) <= Len(ring \o b) /\ ring \o b \in Seq(Unit)
        /\ SubSeq(ring \o b, 1, n) = SubSeq(ring, 1, n)
    BY <2>2, RingFirst
  <2>10. Len(ring) \in Nat \ {0} /\ Len(ring \o b) \in Nat
    BY <2>2, <2>7, <2>9, EmptySeq, LenProperties
  <2>11. ring \o b # << >> /\ Length[first + 1] <= Len(ring \o b)
    BY <2>8, <2>9, <2>10, EmptySeq
  <2>12. /\ first + 1 <= last
         /\ SubSeq(ring \o b, 1, Length[first + 1]) = Units(first + 1)
         /\ InStream(SubSeq(ring \o b, Length[first + 1] + 1, Len(ring \o b)), first + 1, last)
    BY <2>6, <2>9, <2>11, DropUnits
  <2>13. SubSeq(ring \o b, n + 1, Len(ring \o b)) = SubSeq(ring, n + 1, Len(ring)) \o b
    BY <2>2, CutFirst
  <2>14. ring' = SubSeq(ring, n + 1, Len(ring))
    BY DEF Take
  <2>15. FlowInv'
    BY <1>2, <1>3, <2>3, <2>4, <2>5, <2>8, <2>12, <2>13, <2>14 DEF FlowInv
  <2>16. GotInv'
    <3>1. Len(got') <= sent'
      BY <1>2, <1>3, <2>4, <2>5, <2>12
    <3>2. ASSUME NEW p \in DOMAIN got' PROVE got'[p] = Units(p)
      <4>1. p \in 1 .. Len(got) + 1 /\ DOMAIN got = 1 .. Len(got)
        BY <1>1, <1>3, LenProperties DEF GotTyped
      <4>2. CASE p \in 1 .. Len(got)
        BY <1>3, <2>1, <4>1, <4>2 DEF GotInv
      <4>3. CASE p = Len(got) + 1
        BY <1>3, <2>4, <2>8, <2>9, <2>12, <4>3
      <4>4. p \in 1 .. Len(got) \/ p = Len(got) + 1
        BY <2>4, <4>1
      <4> QED BY <4>2, <4>3, <4>4
    <3> QED BY <3>1, <3>2 DEF GotInv
  <2>17. OneLeft'
    BY <1>2, <2>1 DEF OneLeft
  <2>18. Written'
    BY <1>2, <2>1 DEF Written
  <2> QED BY <2>15, <2>16, <2>17, <2>18 DEF StreamInv
<1> QED BY <1>4, <1>5 DEF IInv

\* Parse: it waits for more, takes a packet, or meets what is no header.
LEMMA ParseKeeps ==
  ASSUME IInv, Parse
  PROVE  IInv'
<1>1. FlagTyped /\ RestTyped /\ BufferTyped /\ SocketTyped /\ RingTyped /\ GotTyped
  BY DEF IInv, Typed
<1>2. /\ peer = "parse" /\ processRecvBuffer
      /\ UNCHANGED <<sendVars, bufferVars, socket, epollVars, loop, overlap>>
  BY DEF Parse
<1>3. Len(ring) \in Nat /\ HeaderLen \in Nat \ {0}
  BY <1>1, LengthAssumption, LenProperties DEF RingTyped
<1>4. CASE peer' \in {"wait", "closed"} /\ UNCHANGED <<ring, got>>
  <2>1. readable' \in BOOLEAN /\ UNCHANGED <<wantWrite, writable>>
    BY <1>1, <1>2 DEF epollVars, FlagTyped
  <2> QED BY <1>2, <1>4, <2>1, PeerTurnKeeps
<1>5. CASE /\ ~(Len(ring) < HeaderLen) /\ IsHeader
           /\ ~(Len(ring) < Length[ring[1][1]]) /\ Take(Length[ring[1][1]])
  <2>1. PICK n : n = Length[ring[1][1]]
    OBVIOUS
  <2>2. ring[1] \in Unit
    <3>1. 1 \in 1 .. Len(ring)
      BY <1>3, <1>5
    <3> QED BY <1>1, <3>1, ElementOfSeq DEF RingTyped
  <2>3. n \in Nat
    <3>1. ring[1][1] \in DOMAIN Length
      BY <2>2 DEF Unit
    <3> QED BY <2>1, <3>1, UnitsOf
  <2>4. n \in 0 .. Len(ring) /\ Len(ring) >= HeaderLen
    BY <1>3, <1>5, <2>1, <2>3
  <2>5. Take(n)
    BY <1>5, <2>1
  <2> QED BY <1>2, <1>5, <2>1, <2>4, <2>5, TakeKeeps
<1>6. CASE ~(Len(ring) < HeaderLen) /\ ~IsHeader /\ \E n \in HeaderLen .. Len(ring) : Take(n)
  <2>1. PICK n \in HeaderLen .. Len(ring) : Take(n)
    BY <1>6
  <2>2. n \in 0 .. Len(ring) /\ Len(ring) >= HeaderLen
    BY <1>3, <2>1
  <2>3. overlap
    <3>1. SUFFICES ASSUME ~overlap PROVE FALSE
      OBVIOUS
    <3> DEFINE b == socket \o (Left \o Unsaved)
    <3>2. FlowInv /\ Stream = ring \o b /\ b \in Seq(Unit)
      BY <1>1, <3>1, Places DEF IInv, StreamInv
    <3> HIDE DEF b
    <3>3. InStream(ring \o b, Len(got), sent)
      BY <1>2, <3>2 DEF FlowInv
    <3>4. Len(got) \in Nat /\ sent \in Nat
      BY <1>1, LenProperties DEF GotTyped, FlagTyped
    <3>5. IsHeader
      BY <1>1, <2>2, <3>2, <3>3, <3>4, HeaderFirst
    <3> QED BY <1>6, <3>5
  <2> QED BY <1>2, <2>1, <2>2, <2>3, TakeKeeps
<1> QED BY <1>2, <1>4, <1>5, <1>6 DEF processRecvBuffer

----------------------------------------------------------------------------
(* The invariant.                                                           *)

\* A connection that was just made.
LEMMA InitIInv == Init => IInv
<1> SUFFICES ASSUME Init PROVE IInv
  OBVIOUS
<1>1. << >> \in Seq(Unit) /\ << >> \in Seq(Seq(Unit)) /\ Len(<< >>) = 0
  BY EmptySeq
<1>2. FlagTyped
  <2>1. wantWrite \in BOOLEAN /\ writable \in BOOLEAN /\ readable \in BOOLEAN /\ overlap \in BOOLEAN
    BY DEF Init
  <2>2. sent \in 0 .. Len(Length)
    BY LengthAssumption, LenProperties DEF Init
  <2>3. sending \in [Senders -> {"idle", "save", "arm"}]
    BY DEF Init
  <2>4. loop = "wait" /\ peer = "wait"
    BY DEF Init
  <2> QED BY <2>1, <2>2, <2>3, <2>4 DEF FlagTyped
<1>3. RestTyped /\ BufferTyped
  BY <1>1 DEF Init, RestTyped, BufferTyped
<1>4. SocketTyped /\ RingTyped /\ GotTyped
  BY <1>1, CapAssumption DEF Init, SocketTyped, RingTyped, GotTyped
<1>5. OneLeft
  BY DEF Init, OneLeft
<1>6. GotInv
  <2>1. DOMAIN got = {} /\ Len(got) = 0 /\ sent = 0
    BY <1>1, LenProperties DEF Init
  <2> QED BY <2>1 DEF GotInv
<1>7. Stream = << >>
  <2>1. Unsaved = << >>
    BY DEF Init, Unsaved
  <2>2. SubSeq(partial, offset + 1, Len(partial)) = << >>
    <3>1. partial = << >> /\ offset = 0 /\ Len(partial) = 0
      BY <1>1 DEF Init
    <3> QED BY <3>1, SubSeqEmpty
  <2>3. << >> \o << >> = << >>
    BY <1>1, ConcatEmptySeq
  <2> QED BY <2>1, <2>2, <2>3 DEF Init, Stream
<1>8. FlowInv
  <2>1. Len(got) = 0 /\ sent = 0
    BY <1>1 DEF Init
  <2> QED BY <1>1, <1>7, <2>1 DEF FlowInv, InStream, AreUnits
<1>9. Written
  BY DEF Init, Written
<1> QED BY <1>2, <1>3, <1>4, <1>5, <1>6, <1>8, <1>9 DEF IInv, Typed, StreamInv

\* Every step keeps it.
LEMMA NextIInv == IInv /\ [Next]_vars => IInv'
<1> SUFFICES ASSUME IInv, [Next]_vars PROVE IInv'
  OBVIOUS
<1>1. CASE \E t \in Senders : SendMsg(t) \/ Sender(t)
  BY <1>1, SendMsgKeeps, SaveKeeps, ArmKeeps DEF Sender
<1>2. CASE Loop
  BY <1>2, TurnKeeps, WriteKeeps, ClearKeeps DEF Loop
<1>3. CASE PeerWake
  <2>1. peer # "closed" /\ peer' = "read" /\ readable' = FALSE
    BY <1>3 DEF PeerWake
  <2>2. UNCHANGED <<sendVars, bufferVars, socket, wantWrite, writable, loop, ring, got, overlap>>
    BY <1>3 DEF PeerWake
  <2> QED BY <2>1, <2>2, PeerTurnKeeps
<1>4. CASE ReadAgain
  <2>1. peer # "closed" /\ peer' = "parse"
    BY <1>4 DEF ReadAgain
  <2>2. UNCHANGED <<sendVars, bufferVars, socket, epollVars, loop, ring, got, overlap>>
    BY <1>4 DEF ReadAgain
  <2>3. readable' \in BOOLEAN /\ UNCHANGED <<wantWrite, writable>>
    BY <2>2 DEF IInv, Typed, FlagTyped, epollVars
  <2> QED BY <2>1, <2>2, <2>3, PeerTurnKeeps
<1>5. CASE Read \/ Parse
  BY <1>5, ReadKeeps, ParseKeeps
<1>6. CASE UNCHANGED vars
  <2>1. UNCHANGED <<sent, sending, rest, partial, offset, socket, wantWrite, writable, readable, loop, peer, ring, got, overlap>>
    BY <1>6 DEF vars, sendVars, bufferVars, epollVars, peerVars
  <2>2. Typed'
    BY <2>1 DEF IInv, Typed, FlagTyped, RestTyped, BufferTyped, SocketTyped, RingTyped, GotTyped
  <2>3. ~overlap' => StreamInv'
    BY <2>1, QuietKeeps
  <2> QED BY <2>2, <2>3 DEF IInv
<1> QED BY <1>1, <1>2, <1>3, <1>4, <1>5, <1>6 DEF Next, Peer

\* It implies what the run checks.
LEMMA IInvDelivered == IInv => Delivered
<1> SUFFICES ASSUME IInv PROVE Delivered
  OBVIOUS
<1>1. FlagTyped /\ RestTyped /\ BufferTyped /\ SocketTyped /\ RingTyped /\ GotTyped
  BY DEF IInv, Typed
<1>2. TypeOK
  <2>1. {wantWrite, writable, readable, overlap} \subseteq BOOLEAN
    BY <1>1 DEF FlagTyped
  <2> QED BY <1>1, <2>1
     DEF TypeOK, FlagTyped, RestTyped, BufferTyped, SocketTyped, RingTyped
<1>3. ASSUME ~overlap
      PROVE  /\ \A t, u \in Senders : rest[t] # << >> /\ rest[u] # << >> => t = u
             /\ \A p \in DOMAIN got : got[p] = Units(p)
             /\ peer # "closed" => AreUnits(Stream, Len(got), sent)
  <2>1. OneLeft /\ GotInv /\ FlowInv
    BY <1>3 DEF IInv, StreamInv
  <2> QED BY <2>1 DEF OneLeft, GotInv, FlowInv, InStream
<1> QED BY <1>2, <1>3 DEF Delivered, InOrder

\* As long as no packet is sent while units of another wait, the packets that come
\* out of a connection are those that were sent, whole and in order, and none of
\* their units is lost or doubled on the way (Connection::send_impl, onWritable,
\* onReadable, processRecvBuffer).
THEOREM DeliveredCorrect == Spec => []Delivered
<1>1. Spec => []IInv
  BY InitIInv, NextIInv, PTL DEF Spec
<1> QED BY <1>1, IInvDelivered, PTL
-----------------------------------------------------------------------------
(* The KCP listener.                                                        *)

KcpSteps == {"idle", "dispatch", "self-locked", "expire", "tell", "join", "stopped", "done"}

KcpTyped ==
    /\ kcp_convToSess \in [Convs -> Kcp!Sessions \cup {Kcp!None}]
    /\ kcp_nextId \in Nat /\ kcp_mu \in {"io", "none"} /\ kcp_expired \subseteq Convs
    /\ kcp_pc \in [Kcp!Threads -> KcpSteps]
    /\ kcp_at \in [Kcp!Threads -> Kcp!Sessions \cup {Kcp!None}]
    /\ kcp_closed \in [Kcp!Sessions -> Nat]
    /\ kcp_queue \subseteq Kcp!Sessions /\ kcp_answered \subseteq Kcp!Sessions
    /\ kcp_idle \subseteq Kcp!Sessions /\ kcp_connected \subseteq Kcp!Sessions

\* The two tables know the same sessions, a conversation each; their end is not told.
KcpTables ==
    /\ kcp_idToConv = Kcp!Alive
    /\ \A v, w \in Convs :
          v # w /\ kcp_convToSess[v] = kcp_convToSess[w] => kcp_convToSess[v] = Kcp!None
    /\ \A c \in kcp_idToConv : c \in kcp_connected /\ kcp_closed[c] = 0

KcpOld == \A c \in kcp_connected : c < kcp_nextId

KcpClosed ==
    \A c \in Kcp!Sessions : /\ kcp_closed[c] <= 1
                            /\ kcp_closed[c] = 1 => c \in kcp_connected

\* The io thread has mu_ as long as it handles messages.
KcpLock == (kcp_mu = "io") <=> (kcp_pc["io"] \in {"dispatch", "self-locked"})

\* Whoever is about to tell the end of a session has taken it out of the tables.
KcpHand ==
    /\ \A t \in Kcp!Threads : kcp_pc[t] = "tell" =>
          kcp_at[t] \in kcp_connected \ kcp_idToConv /\ kcp_closed[kcp_at[t]] = 0
    /\ \A t, u \in Kcp!Threads :
          kcp_pc[t] = "tell" /\ kcp_pc[u] = "tell" /\ t # u => kcp_at[t] # kcp_at[u]

KcpInv == KcpTyped /\ KcpTables /\ KcpOld /\ KcpClosed /\ KcpLock /\ KcpHand

\* No session is None; the threads are these four.
LEMMA KcpDistinct ==
  /\ Kcp!None \notin Kcp!Sessions /\ Kcp!Sessions \subseteq Nat
  /\ Kcp!Threads = {"io", "update", "app", "main"}
  BY KcpAssumption DEF Kcp!None, Kcp!Sessions, Kcp!Threads

\* A thread goes from one step to another.
LEMMA KcpGoes ==
  ASSUME KcpTyped, NEW t \in Kcp!Threads, NEW a, NEW b \in KcpSteps, Kcp!Go(t, a, b)
  PROVE  /\ kcp_pc[t] = a /\ kcp_pc'[t] = b
         /\ kcp_pc' \in [Kcp!Threads -> KcpSteps]
         /\ \A u \in Kcp!Threads : u # t => kcp_pc'[u] = kcp_pc[u]
  BY DEF KcpTyped, Kcp!Go

LEMMA KcpInitInv == Kcp!Init => KcpInv
<1> SUFFICES ASSUME Kcp!Init PROVE KcpInv
  OBVIOUS
<1> USE DEF Kcp!Init
<1>1. KcpTyped
  BY DEF KcpTyped, KcpSteps, Kcp!Threads
<1>2. Kcp!Alive = {}
  BY KcpDistinct DEF Kcp!Alive
<1>3. KcpTables /\ KcpOld /\ KcpClosed
  BY <1>2 DEF KcpTables, KcpOld, KcpClosed
<1>4. KcpLock
  BY DEF KcpLock, Kcp!Threads
<1>5. KcpHand
  BY DEF KcpHand
<1> QED BY <1>1, <1>3, <1>4, <1>5 DEF KcpInv

\* A step that leaves the tables, what is connected and what is told alone.
LEMMA KcpQuiet ==
  ASSUME KcpInv, KcpTyped', KcpLock',
         UNCHANGED <<kcp_convToSess, kcp_idToConv, kcp_nextId, kcp_connected, kcp_closed>>,
         \A t \in Kcp!Threads : kcp_pc'[t] = "tell" =>
             kcp_pc[t] = "tell" /\ kcp_at'[t] = kcp_at[t]
  PROVE  KcpInv'
<1>1. KcpTables' /\ KcpOld' /\ KcpClosed'
  BY DEF KcpInv, KcpTables, KcpOld, KcpClosed, Kcp!Alive
<1>2. KcpHand'
  BY DEF KcpInv, KcpHand
<1> QED BY <1>1, <1>2 DEF KcpInv

\* The actions of one thread that only read the tables.
LEMMA KcpReads ==
  ASSUME KcpInv, \/ Kcp!ioLoop \/ Kcp!ikcp_update \/ Kcp!UpdateAgain \/ Kcp!StopLoops
                 \/ \E c \in Kcp!Sessions : Kcp!send(c) \/ Kcp!Silence(c)
  PROVE  KcpInv'
<1>1. KcpTyped /\ KcpLock
  BY DEF KcpInv
<1>2. CASE Kcp!dispatchKcpData
  <2> DEFINE b == IF kcp_messages = 1 THEN "idle" ELSE "dispatch"
  <2>1. b \in KcpSteps /\ "io" \in Kcp!Threads /\ Kcp!Go("io", "dispatch", b)
    BY <1>2 DEF KcpSteps, Kcp!Threads, Kcp!dispatchKcpData
  <2>2. /\ kcp_pc["io"] = "dispatch" /\ kcp_pc'["io"] = b
        /\ kcp_pc' \in [Kcp!Threads -> KcpSteps]
        /\ \A u \in Kcp!Threads : u # "io" => kcp_pc'[u] = kcp_pc[u]
    BY <1>1, <2>1, KcpGoes
  <2>3. /\ kcp_mu' = (IF kcp_messages = 1 THEN "none" ELSE kcp_mu)
        /\ UNCHANGED <<kcp_convToSess, kcp_idToConv, kcp_nextId, kcp_connected, kcp_closed,
                       kcp_at, kcp_expired, kcp_queue, kcp_answered, kcp_idle>>
    BY <1>2 DEF Kcp!dispatchKcpData, Kcp!tables, Kcp!kcp, Kcp!told
  <2>4. KcpTyped'
    BY <1>1, <2>2, <2>3 DEF KcpTyped
  <2>5. KcpLock'
    BY <1>1, <2>2, <2>3 DEF KcpLock
  <2> QED BY <2>2, <2>3, <2>4, <2>5, KcpQuiet
<1>3. CASE Kcp!HandlerReplies
  <2>1. "self-locked" \in KcpSteps /\ "io" \in Kcp!Threads /\ Kcp!Go("io", "dispatch", "self-locked")
    BY <1>3 DEF KcpSteps, Kcp!Threads, Kcp!HandlerReplies
  <2>2. /\ kcp_pc["io"] = "dispatch" /\ kcp_pc'["io"] = "self-locked"
        /\ kcp_pc' \in [Kcp!Threads -> KcpSteps]
        /\ \A u \in Kcp!Threads : u # "io" => kcp_pc'[u] = kcp_pc[u]
    BY <1>1, <2>1, KcpGoes
  <2>3. UNCHANGED <<kcp_convToSess, kcp_idToConv, kcp_nextId, kcp_connected, kcp_closed,
                    kcp_mu, kcp_at, kcp_expired, kcp_queue, kcp_answered, kcp_idle>>
    BY <1>3 DEF Kcp!HandlerReplies, Kcp!tables, Kcp!kcp, Kcp!told
  <2>4. KcpTyped'
    BY <1>1, <2>2, <2>3 DEF KcpTyped
  <2>5. KcpLock'
    BY <1>1, <2>2, <2>3 DEF KcpLock
  <2> QED BY <2>2, <2>3, <2>4, <2>5, KcpQuiet
<1>4. CASE Kcp!ikcp_update
  <2>1. "expire" \in KcpSteps /\ "update" \in Kcp!Threads /\ Kcp!Go("update", "idle", "expire")
    BY <1>4 DEF KcpSteps, Kcp!Threads, Kcp!ikcp_update
  <2>2. /\ kcp_pc'["update"] = "expire" /\ kcp_pc' \in [Kcp!Threads -> KcpSteps]
        /\ \A u \in Kcp!Threads : u # "update" => kcp_pc'[u] = kcp_pc[u]
    BY <1>1, <2>1, KcpGoes
  <2>3. /\ UNCHANGED <<kcp_convToSess, kcp_idToConv, kcp_nextId, kcp_connected, kcp_closed,
                       kcp_mu, kcp_at, kcp_queue, kcp_idle>>
        /\ kcp_expired' \subseteq Convs
        /\ kcp_answered' = kcp_answered \/ kcp_answered' \subseteq kcp_answered \cup kcp_queue
    BY <1>4 DEF Kcp!ikcp_update, Kcp!Flush, Kcp!tables, Kcp!told
  <2>4. KcpTyped'
    BY <1>1, <2>2, <2>3 DEF KcpTyped
  <2>5. KcpLock'
    BY <1>1, <2>2, <2>3, KcpDistinct DEF KcpLock
  <2> QED BY <2>2, <2>3, <2>4, <2>5, KcpQuiet
<1>5. CASE Kcp!UpdateAgain
  <2>1. "idle" \in KcpSteps /\ "update" \in Kcp!Threads /\ Kcp!Go("update", "expire", "idle")
    BY <1>5 DEF KcpSteps, Kcp!Threads, Kcp!UpdateAgain
  <2>2. /\ kcp_pc'["update"] = "idle" /\ kcp_pc' \in [Kcp!Threads -> KcpSteps]
        /\ \A u \in Kcp!Threads : u # "update" => kcp_pc'[u] = kcp_pc[u]
    BY <1>1, <2>1, KcpGoes
  <2>3. /\ UNCHANGED <<kcp_convToSess, kcp_idToConv, kcp_nextId, kcp_connected, kcp_closed,
                       kcp_mu, kcp_expired, kcp_queue, kcp_answered, kcp_idle>>
        /\ kcp_at' = [kcp_at EXCEPT !["update"] = Kcp!None]
    BY <1>5 DEF Kcp!UpdateAgain, Kcp!tables, Kcp!told, Kcp!kcp
  <2>4. KcpTyped'
    BY <1>1, <2>2, <2>3 DEF KcpTyped
  <2>5. KcpLock'
    BY <1>1, <2>2, <2>3, KcpDistinct DEF KcpLock
  <2>6. \A t \in Kcp!Threads : t # "update" => kcp_at'[t] = kcp_at[t]
    BY <1>1, <2>3 DEF KcpTyped
  <2> QED BY <2>2, <2>3, <2>4, <2>5, <2>6, KcpQuiet
<1>6. CASE Kcp!StopLoops
  <2>1. "join" \in KcpSteps /\ "main" \in Kcp!Threads /\ Kcp!Go("main", "idle", "join")
    BY <1>6 DEF KcpSteps, Kcp!Threads, Kcp!StopLoops
  <2>2. /\ kcp_pc'["main"] = "join" /\ kcp_pc' \in [Kcp!Threads -> KcpSteps]
        /\ \A u \in Kcp!Threads : u # "main" => kcp_pc'[u] = kcp_pc[u]
    BY <1>1, <2>1, KcpGoes
  <2>3. UNCHANGED <<kcp_convToSess, kcp_idToConv, kcp_nextId, kcp_connected, kcp_closed,
                    kcp_mu, kcp_at, kcp_expired, kcp_queue, kcp_answered, kcp_idle>>
    BY <1>6 DEF Kcp!StopLoops, Kcp!tables, Kcp!told, Kcp!kcp
  <2>4. KcpTyped'
    BY <1>1, <2>2, <2>3 DEF KcpTyped
  <2>5. KcpLock'
    BY <1>1, <2>2, <2>3, KcpDistinct DEF KcpLock
  <2> QED BY <2>2, <2>3, <2>4, <2>5, KcpQuiet
<1>7. ASSUME NEW c \in Kcp!Sessions, Kcp!send(c) \/ Kcp!Silence(c) PROVE KcpInv'
  <2>1. /\ UNCHANGED <<kcp_convToSess, kcp_idToConv, kcp_nextId, kcp_connected, kcp_closed,
                       kcp_mu, kcp_pc, kcp_at, kcp_expired, kcp_answered>>
        /\ kcp_queue' \subseteq kcp_queue \cup {c} /\ kcp_idle' \subseteq kcp_idle \cup {c}
    BY <1>7 DEF Kcp!send, Kcp!Silence, Kcp!tables, Kcp!locals, Kcp!told, Kcp!kcp
  <2>2. KcpTyped'
    BY <1>1, <2>1 DEF KcpTyped
  <2>3. KcpLock'
    BY <1>1, <2>1 DEF KcpLock
  <2> QED BY <2>1, <2>2, <2>3, KcpQuiet
<1> QED BY <1>2, <1>3, <1>4, <1>5, <1>6, <1>7 DEF Kcp!ioLoop

\* A datagram opens a session or finds one.
LEMMA KcpPacket ==
  ASSUME KcpInv, NEW v \in Convs, NEW n \in 0 .. MaxMessages, Kcp!processUdpPacket(v, n)
  PROVE  KcpInv'
<1> DEFINE b == IF n = 0 THEN "idle" ELSE "dispatch"
           s == kcp_nextId
<1>1. KcpTyped /\ KcpTables /\ KcpOld /\ KcpClosed /\ KcpLock /\ KcpHand
  BY DEF KcpInv
<1>2. b \in KcpSteps /\ "io" \in Kcp!Threads /\ Kcp!Go("io", "idle", b)
  BY DEF KcpSteps, Kcp!Threads, Kcp!processUdpPacket
<1>3. /\ kcp_pc'["io"] = b /\ kcp_pc' \in [Kcp!Threads -> KcpSteps]
      /\ \A u \in Kcp!Threads : u # "io" => kcp_pc'[u] = kcp_pc[u]
  BY <1>1, <1>2, KcpGoes
<1>4. /\ UNCHANGED <<kcp_at, kcp_expired, kcp_queue, kcp_answered, kcp_closed>>
      /\ kcp_mu' = (IF n = 0 THEN "none" ELSE "io")
  BY DEF Kcp!processUdpPacket, Kcp!kcp
<1>5. KcpLock'
  BY <1>3, <1>4 DEF KcpLock
<1>6. b # "tell"
  OBVIOUS
<1> HIDE DEF b
<1>7. CASE kcp_convToSess[v] # Kcp!None
  <2>1. /\ UNCHANGED <<kcp_convToSess, kcp_idToConv, kcp_nextId, kcp_connected>>
        /\ kcp_idle' \subseteq kcp_idle
    BY <1>7 DEF Kcp!processUdpPacket, Kcp!tables
  <2>2. KcpTyped'
    BY <1>1, <1>3, <1>4, <2>1 DEF KcpTyped
  <2>3. \A t \in Kcp!Threads : kcp_pc'[t] = "tell" => kcp_pc[t] = "tell" /\ kcp_at'[t] = kcp_at[t]
    BY <1>3, <1>4, <1>6
  <2> QED BY <1>4, <1>5, <2>1, <2>2, <2>3, KcpQuiet
<1>8. CASE kcp_convToSess[v] = Kcp!None
  <2>1. /\ s \in Kcp!Sessions
        /\ kcp_convToSess' = [kcp_convToSess EXCEPT ![v] = s]
        /\ kcp_idToConv' = kcp_idToConv \cup {s} /\ kcp_nextId' = s + 1
        /\ kcp_connected' = kcp_connected \cup {s} /\ kcp_idle' = kcp_idle
    BY <1>8 DEF Kcp!processUdpPacket
  <2>2. s \notin kcp_connected /\ s \notin kcp_idToConv /\ kcp_closed[s] = 0
    <3>1. s \in Nat /\ ~(s < s)
      BY <1>1 DEF KcpTyped
    <3>2. s \notin kcp_connected
      BY <1>1, <3>1 DEF KcpOld
    <3>3. s \notin kcp_idToConv
      BY <1>1, <3>2 DEF KcpTables
    <3>4. kcp_closed[s] \in Nat /\ kcp_closed[s] <= 1 /\ kcp_closed[s] # 1
      BY <1>1, <2>1, <3>2 DEF KcpTyped, KcpClosed
    <3> QED BY <3>2, <3>3, <3>4
  <2>3. KcpTyped'
    <3>1. kcp_nextId' \in Nat
      BY <1>1, <2>1 DEF KcpTyped
    <3>2. kcp_mu' \in {"io", "none"}
      BY <1>4
    <3> QED BY <1>1, <1>3, <1>4, <2>1, <3>1, <3>2 DEF KcpTyped
  <2>4. /\ kcp_convToSess'[v] = s
        /\ \A w \in Convs : w # v => kcp_convToSess'[w] = kcp_convToSess[w]
    BY <1>1, <2>1 DEF KcpTyped
  <2>5. \A w \in Convs : kcp_convToSess[w] # s
    BY <1>1, <2>1, <2>2 DEF KcpTables, Kcp!Alive
  <2>6. KcpTables'
    <3>1. Kcp!Alive' = Kcp!Alive \cup {s}
      BY <1>8, <2>1, <2>4, KcpDistinct DEF Kcp!Alive
    <3>2. \A u, w \in Convs :
            u # w /\ kcp_convToSess'[u] = kcp_convToSess'[w] => kcp_convToSess'[u] = Kcp!None
      BY <1>1, <2>4, <2>5 DEF KcpTables
    <3>3. \A c \in kcp_idToConv' : c \in kcp_connected' /\ kcp_closed'[c] = 0
      BY <1>1, <1>4, <2>1, <2>2 DEF KcpTables
    <3> QED BY <1>1, <2>1, <3>1, <3>2, <3>3 DEF KcpTables
  <2>7. KcpOld'
    <3>1. ASSUME NEW c \in kcp_connected' PROVE c < kcp_nextId'
      <4>1. CASE c = s
        BY <1>1, <2>1, <4>1 DEF KcpTyped
      <4>2. CASE c \in kcp_connected
        <5>1. c \in Nat /\ s \in Nat /\ c < s
          BY <1>1, <4>2, KcpDistinct DEF KcpTyped, KcpOld
        <5> QED BY <2>1, <5>1
      <4> QED BY <2>1, <4>1, <4>2
    <3> QED BY <3>1 DEF KcpOld
  <2>8. KcpClosed'
    BY <1>1, <1>4, <2>1 DEF KcpClosed
  <2>9. KcpHand'
    <3>1. \A t \in Kcp!Threads : kcp_pc'[t] = "tell" => kcp_pc[t] = "tell" /\ kcp_at'[t] = kcp_at[t]
      BY <1>3, <1>4, <1>6
    <3> QED BY <1>1, <1>4, <2>1, <2>2, <3>1 DEF KcpHand
  <2> QED BY <1>5, <2>3, <2>6, <2>7, <2>8, <2>9 DEF KcpInv
<1> QED BY <1>7, <1>8

\* A thread takes session c out of both tables and has its end to tell.
LEMMA KcpTakesOut ==
  ASSUME KcpInv, KcpTyped', KcpLock', NEW t \in Kcp!Threads, NEW c \in kcp_idToConv,
         UNCHANGED <<kcp_nextId, kcp_connected, kcp_closed>>,
         kcp_idToConv' = kcp_idToConv \ {c},
         \A v \in Convs : kcp_convToSess'[v] =
             (IF kcp_convToSess[v] = c THEN Kcp!None ELSE kcp_convToSess[v]),
         kcp_at'[t] = c,
         \A u \in Kcp!Threads : u # t => kcp_pc'[u] = kcp_pc[u] /\ kcp_at'[u] = kcp_at[u]
  PROVE  KcpInv'
<1>1. KcpTyped /\ KcpTables /\ KcpOld /\ KcpClosed /\ KcpHand
  BY DEF KcpInv
<1>2. KcpTables'
  <2>1. Kcp!Alive' = Kcp!Alive \ {c}
    BY KcpDistinct DEF Kcp!Alive
  <2>2. \A u, w \in Convs :
          u # w /\ kcp_convToSess'[u] = kcp_convToSess'[w] => kcp_convToSess'[u] = Kcp!None
    BY <1>1 DEF KcpTables
  <2> QED BY <1>1, <2>1, <2>2 DEF KcpTables
<1>3. KcpOld' /\ KcpClosed'
  BY <1>1 DEF KcpOld, KcpClosed
<1>4. c \in kcp_connected /\ kcp_closed[c] = 0
  BY <1>1 DEF KcpTables
<1>5. KcpHand'
  BY <1>1, <1>4 DEF KcpHand
<1> QED BY <1>2, <1>3, <1>5 DEF KcpInv

\* The update thread removes the session that has a conversation by now.
LEMMA KcpRemove ==
  ASSUME KcpInv, Kcp!removeSession
  PROVE  KcpInv'
<1>1. KcpTyped /\ KcpTables /\ KcpLock
  BY DEF KcpInv
<1>2. PICK v \in kcp_expired :
        /\ Kcp!Go("update", "expire", IF kcp_convToSess[v] = Kcp!None THEN "expire" ELSE "tell")
        /\ kcp_expired' = kcp_expired \ {v}
        /\ kcp_at' = [kcp_at EXCEPT !["update"] = kcp_convToSess[v]]
        /\ kcp_idToConv' = kcp_idToConv \ {kcp_convToSess[v]}
        /\ kcp_convToSess' = [kcp_convToSess EXCEPT ![v] = Kcp!None]
        /\ UNCHANGED <<kcp_nextId, kcp_mu, kcp_queue, kcp_answered, kcp_idle, kcp_connected,
                       kcp_closed>>
  BY DEF Kcp!removeSession, Kcp!kcp, Kcp!told
<1> DEFINE c == kcp_convToSess[v]
           b == IF c = Kcp!None THEN "expire" ELSE "tell"
<1>3. v \in Convs /\ c \in Kcp!Sessions \cup {Kcp!None}
  BY <1>1 DEF KcpTyped
<1>4. b \in KcpSteps /\ "update" \in Kcp!Threads /\ Kcp!Go("update", "expire", b)
  BY <1>2 DEF KcpSteps, Kcp!Threads
<1>5. /\ kcp_pc'["update"] = b /\ kcp_pc' \in [Kcp!Threads -> KcpSteps]
      /\ \A u \in Kcp!Threads : u # "update" => kcp_pc'[u] = kcp_pc[u]
  BY <1>1, <1>4, KcpGoes
<1>6. KcpTyped'
  BY <1>1, <1>2, <1>3, <1>4, <1>5 DEF KcpTyped
<1>7. KcpLock'
  BY <1>1, <1>2, <1>5, KcpDistinct DEF KcpLock
<1>8. /\ kcp_at'["update"] = c
      /\ \A u \in Kcp!Threads : u # "update" => kcp_at'[u] = kcp_at[u]
  BY <1>1, <1>2, <1>4 DEF KcpTyped
<1>9. CASE c = Kcp!None
  <2>1. kcp_convToSess' = kcp_convToSess
    BY <1>1, <1>2, <1>3, <1>9 DEF KcpTyped
  <2>2. kcp_idToConv' = kcp_idToConv
    BY <1>1, <1>2, <1>9, KcpDistinct DEF KcpTables, Kcp!Alive
  <2> QED BY <1>2, <1>5, <1>6, <1>7, <1>8, <1>9, <2>1, <2>2, KcpQuiet
<1>10. CASE c # Kcp!None
  <2>1. c \in kcp_idToConv
    BY <1>1, <1>3, <1>10 DEF KcpTables, Kcp!Alive
  <2>2. \A w \in Convs : kcp_convToSess'[w] =
            (IF kcp_convToSess[w] = c THEN Kcp!None ELSE kcp_convToSess[w])
    BY <1>1, <1>2, <1>3, <1>10 DEF KcpTables, KcpTyped
  <2> QED BY <1>2, <1>4, <1>5, <1>6, <1>7, <1>8, <2>1, <2>2, KcpTakesOut
<1> QED BY <1>9, <1>10

LEMMA KcpClose ==
  ASSUME KcpInv, NEW c \in Kcp!Sessions, Kcp!close_conn(c)
  PROVE  KcpInv'
<1>1. KcpTyped /\ KcpLock
  BY DEF KcpInv
<1>2. /\ c \in kcp_idToConv
      /\ kcp_at' = [kcp_at EXCEPT !["app"] = c]
      /\ kcp_idToConv' = kcp_idToConv \ {c}
      /\ kcp_convToSess' = [v \in Convs |-> IF kcp_convToSess[v] = c THEN Kcp!None
                                            ELSE kcp_convToSess[v]]
      /\ UNCHANGED <<kcp_nextId, kcp_mu, kcp_expired, kcp_queue, kcp_answered, kcp_idle,
                     kcp_connected, kcp_closed>>
  BY DEF Kcp!close_conn, Kcp!kcp, Kcp!told
<1>3. "tell" \in KcpSteps /\ "app" \in Kcp!Threads /\ Kcp!Go("app", "idle", "tell")
  BY DEF KcpSteps, Kcp!Threads, Kcp!close_conn
<1>4. /\ kcp_pc' \in [Kcp!Threads -> KcpSteps]
      /\ \A u \in Kcp!Threads : u # "app" => kcp_pc'[u] = kcp_pc[u]
  BY <1>1, <1>3, KcpGoes
<1>5. KcpTyped'
  BY <1>1, <1>2, <1>4 DEF KcpTyped
<1>6. KcpLock'
  BY <1>1, <1>2, <1>4, KcpDistinct DEF KcpLock
<1>7. kcp_at'["app"] = c /\ \A u \in Kcp!Threads : u # "app" => kcp_at'[u] = kcp_at[u]
  BY <1>1, <1>2, <1>3 DEF KcpTyped
<1>8. \A v \in Convs : kcp_convToSess'[v] =
          (IF kcp_convToSess[v] = c THEN Kcp!None ELSE kcp_convToSess[v])
  BY <1>2
<1> QED BY <1>2, <1>3, <1>4, <1>5, <1>6, <1>7, <1>8, KcpTakesOut

\* close_handler_ is called for a session that is in no table and was not told.
LEMMA KcpTell ==
  ASSUME KcpInv, NEW t \in Kcp!Threads, Kcp!Tell(t)
  PROVE  KcpInv'
<1> DEFINE b == IF t = "update" THEN "expire" ELSE "idle"
           c == kcp_at[t]
<1>1. KcpTyped /\ KcpTables /\ KcpOld /\ KcpClosed /\ KcpLock /\ KcpHand
  BY DEF KcpInv
<1>2. /\ kcp_closed' = [kcp_closed EXCEPT ![c] = @ + 1]
      /\ UNCHANGED <<kcp_convToSess, kcp_idToConv, kcp_nextId, kcp_mu, kcp_at, kcp_expired,
                     kcp_queue, kcp_answered, kcp_idle, kcp_connected>>
  BY DEF Kcp!Tell, Kcp!tables, Kcp!kcp
<1>3. b \in KcpSteps /\ Kcp!Go(t, "tell", b)
  BY DEF KcpSteps, Kcp!Tell
<1>4. /\ kcp_pc[t] = "tell" /\ kcp_pc'[t] = b /\ kcp_pc' \in [Kcp!Threads -> KcpSteps]
      /\ \A u \in Kcp!Threads : u # t => kcp_pc'[u] = kcp_pc[u]
  BY <1>1, <1>3, KcpGoes
<1>5. c \in kcp_connected /\ c \in Kcp!Sessions /\ c \notin kcp_idToConv /\ kcp_closed[c] = 0
  BY <1>1, <1>4 DEF KcpHand, KcpTyped
<1>6. b \notin {"tell", "dispatch", "self-locked"}
  OBVIOUS
<1> HIDE DEF b, c
<1>7. kcp_closed'[c] = 1 /\ \A d \in Kcp!Sessions : d # c => kcp_closed'[d] = kcp_closed[d]
  BY <1>1, <1>2, <1>5 DEF KcpTyped
<1>8. KcpTyped'
  BY <1>1, <1>2, <1>4, <1>5, <1>7 DEF KcpTyped
<1>9. KcpTables'
  <2>1. \A d \in kcp_idToConv : d \in Kcp!Sessions /\ d # c
    BY <1>1, <1>5 DEF KcpTables, Kcp!Alive
  <2> QED BY <1>1, <1>2, <1>7, <2>1 DEF KcpTables, Kcp!Alive
<1>10. KcpOld' /\ KcpClosed'
  BY <1>1, <1>2, <1>5, <1>7 DEF KcpOld, KcpClosed
<1>11. KcpLock'
  BY <1>1, <1>2, <1>4, <1>6, KcpDistinct DEF KcpLock
<1>12. KcpHand'
  <2>1. ASSUME NEW u \in Kcp!Threads, kcp_pc'[u] = "tell"
        PROVE  /\ u # t /\ kcp_pc[u] = "tell" /\ kcp_at'[u] = kcp_at[u]
               /\ kcp_at[u] # c /\ kcp_at[u] \in Kcp!Sessions
    BY <1>1, <1>2, <1>4, <1>6, <2>1 DEF KcpHand, KcpTyped, c
  <2> QED BY <1>1, <1>2, <1>7, <2>1 DEF KcpHand
<1> QED BY <1>8, <1>9, <1>10, <1>11, <1>12 DEF KcpInv

\* stop drops what is left.
LEMMA KcpStop ==
  ASSUME KcpInv, Kcp!StopJoined
  PROVE  KcpInv'
<1>1. KcpTyped /\ KcpTables /\ KcpOld /\ KcpClosed /\ KcpLock /\ KcpHand
  BY DEF KcpInv
<1>2. /\ kcp_convToSess' = [v \in Convs |-> Kcp!None] /\ kcp_idToConv' = {}
      /\ UNCHANGED <<kcp_nextId, kcp_mu, kcp_at, kcp_expired, kcp_queue, kcp_answered, kcp_idle,
                     kcp_connected, kcp_closed>>
  BY DEF Kcp!StopJoined, Kcp!kcp, Kcp!told
<1>3. "stopped" \in KcpSteps /\ "main" \in Kcp!Threads /\ Kcp!Go("main", "join", "stopped")
  BY DEF KcpSteps, Kcp!Threads, Kcp!StopJoined
<1>4. /\ kcp_pc'["main"] = "stopped" /\ kcp_pc' \in [Kcp!Threads -> KcpSteps]
      /\ \A u \in Kcp!Threads : u # "main" => kcp_pc'[u] = kcp_pc[u]
  BY <1>1, <1>3, KcpGoes
<1>5. KcpTyped'
  BY <1>1, <1>2, <1>4 DEF KcpTyped
<1>6. KcpTables'
  <2>1. Kcp!Alive' = {}
    BY <1>2, KcpDistinct DEF Kcp!Alive
  <2> QED BY <1>2, <2>1 DEF KcpTables
<1>7. KcpOld' /\ KcpClosed'
  BY <1>1, <1>2 DEF KcpOld, KcpClosed
<1>8. KcpLock'
  BY <1>1, <1>2, <1>4, KcpDistinct DEF KcpLock
<1>9. KcpHand'
  BY <1>1, <1>2, <1>4 DEF KcpHand
<1> QED BY <1>5, <1>6, <1>7, <1>8, <1>9 DEF KcpInv

LEMMA KcpNextInv == KcpInv /\ [Kcp!Next]_kcp_vars => KcpInv'
<1> SUFFICES ASSUME KcpInv, [Kcp!Next]_kcp_vars PROVE KcpInv'
  OBVIOUS
<1>1. CASE UNCHANGED kcp_vars
  BY <1>1 DEF kcp_vars, KcpInv, KcpTyped, KcpTables, KcpOld, KcpClosed, KcpLock, KcpHand,
              Kcp!Alive
<1>2. CASE Kcp!Next
  BY <1>2, KcpPacket, KcpReads, KcpRemove, KcpClose, KcpTell, KcpStop
     DEF Kcp!Next, Kcp!ioLoop, Kcp!updateLoop
<1> QED BY <1>1, <1>2

LEMMA KcpInvListed == KcpInv => Kcp!TypeOK /\ Kcp!ToldOnce
<1> SUFFICES ASSUME KcpInv PROVE Kcp!TypeOK /\ Kcp!ToldOnce
  OBVIOUS
<1>1. KcpTyped /\ KcpTables /\ KcpClosed /\ KcpLock
  BY DEF KcpInv
<1>2. Kcp!TypeOK
  <2>1. (kcp_mu = "io") = (kcp_pc["io"] \in {"dispatch", "self-locked"})
    BY <1>1 DEF KcpLock
  <2> QED BY <1>1, <2>1 DEF Kcp!TypeOK, KcpTyped, KcpTables
<1>3. Kcp!ToldOnce
  BY <1>1 DEF Kcp!ToldOnce, KcpTables, KcpClosed
<1> QED BY <1>2, <1>3

-----------------------------------------------------------------------------
(* The WebSocket listener.                                                  *)

WsSteps == {"idle", "insert", "add", "read", "handshake", "frames", "erase", "close", "tell",
            "write"}
\* Steps at which a thread alone knows of the connection.
WsOwnSteps == {"insert", "close", "tell"}

WsTyped ==
    /\ ws_owner \in [Fds -> Ws!Conns \cup {Ws!Rest, Ws!Free}]
    /\ ws_fdToConn \in [Fds -> Ws!Conns \cup {Ws!None}]
    /\ ws_connFd \in [Ws!Conns -> Fds \cup {Ws!None}]
    /\ ws_nextId \in Nat /\ ws_closed \in [Ws!Conns -> Nat]
    /\ ws_polled \subseteq Ws!Conns /\ ws_ended \subseteq Ws!Conns /\ ws_ids \subseteq Ws!Conns
    /\ ws_handshaked \subseteq Ws!Conns /\ ws_connected \subseteq Ws!Conns
    /\ ws_mistaken \subseteq Ws!Conns

WsThreads ==
    /\ ws_pc \in [Ws!Threads -> WsSteps]
    /\ ws_conn \in [Ws!Threads -> Ws!Conns \cup {Ws!None}]
    /\ ws_fd \in [Ws!Threads -> Fds \cup {Ws!None}]

\* What was parsed was read, what was read had arrived, and its messages were handled.
WsStream ==
    /\ ws_arrived \in [Ws!Conns -> Nat] /\ ws_fetched \in [Ws!Conns -> Nat]
    /\ ws_parsed \in [Ws!Conns -> Nat] /\ ws_got \in [Ws!Conns -> Nat]
    /\ \A c \in Ws!Conns :
          /\ ws_parsed[c] <= ws_fetched[c] /\ ws_fetched[c] <= ws_arrived[c]
          /\ ws_arrived[c] <= Len(Script[c])
          /\ ws_got[c] = Ws!Messages(c)

\* What is known by its number has had a descriptor; what comes has not been closed.
WsOld ==
    /\ \A c \in Ws!Conns : IF c < ws_nextId THEN ws_connFd[c] \in Fds ELSE ws_closed[c] = 0
    /\ \A c \in ws_polled \cup ws_ids : c < ws_nextId
    /\ \A e \in ws_events : e.fd \in Fds /\ e.of \in Ws!Conns /\ e.of < ws_nextId

WsMaps ==
    /\ \A c \in ws_ids : /\ ws_owner[ws_connFd[c]] = c /\ ws_fdToConn[ws_connFd[c]] = c
                         /\ ws_closed[c] = 0
    /\ \A f \in Fds : ws_fdToConn[f] # Ws!None =>
          ws_fdToConn[f] \in ws_ids /\ ws_connFd[ws_fdToConn[f]] = f

WsClosed == \A c \in Ws!Conns : ws_closed[c] <= 1

\* What a thread knows of its connection and its descriptor.
WsHand(t) ==
    /\ ws_pc[t] # "idle" =>
          ws_conn[t] \in Ws!Conns /\ ws_conn[t] < ws_nextId /\ ws_fd[t] \in Fds
    /\ ws_pc[t] \in {"insert", "close"} => ws_owner[ws_fd[t]] = ws_conn[t]
    /\ ws_pc[t] = "insert" => ws_connFd[ws_conn[t]] = ws_fd[t]
    /\ ws_pc[t] \in WsOwnSteps => ws_conn[t] \notin ws_ids /\ ws_closed[ws_conn[t]] = 0

WsHands ==
    /\ \A t \in Ws!Threads : WsHand(t)
    /\ \A t, u \in Ws!Threads :
          ws_pc[t] \in WsOwnSteps /\ ws_pc[u] \in WsOwnSteps /\ t # u => ws_conn[t] # ws_conn[u]

WsInv == WsTyped /\ WsThreads /\ WsStream /\ WsOld /\ WsMaps /\ WsClosed /\ WsHands

\* No descriptor is None, no connection is None, Rest or Free.
LEMMA WsDistinct ==
  /\ Ws!None \notin Fds /\ Fds \subseteq Nat
  /\ Ws!None \notin Ws!Conns /\ Ws!Rest \notin Ws!Conns /\ Ws!Free \notin Ws!Conns
  /\ Ws!Rest # Ws!Free /\ Ws!Conns \subseteq Nat
  /\ Ws!Threads = {"io", "app"}
  BY WsAssumption DEF Ws!None, Ws!Rest, Ws!Free, Ws!Conns, Ws!Threads

\* A thread goes from one step to another.
LEMMA WsGoes ==
  ASSUME WsThreads, NEW t \in Ws!Threads, NEW a, NEW b \in WsSteps, Ws!Go(t, a, b)
  PROVE  /\ ws_pc[t] = a /\ ws_pc'[t] = b
         /\ ws_pc' \in [Ws!Threads -> WsSteps]
         /\ \A u \in Ws!Threads : u # t => ws_pc'[u] = ws_pc[u]
  BY DEF WsThreads, Ws!Go

\* A thread turns to a connection and a descriptor, or away from them.
LEMMA WsTurns ==
  ASSUME WsThreads, NEW t \in Ws!Threads, NEW c \in Ws!Conns \cup {Ws!None},
         NEW f \in Fds \cup {Ws!None}, Ws!At(t, c, f)
  PROVE  /\ ws_conn'[t] = c /\ ws_fd'[t] = f
         /\ ws_conn' \in [Ws!Threads -> Ws!Conns \cup {Ws!None}]
         /\ ws_fd' \in [Ws!Threads -> Fds \cup {Ws!None}]
         /\ \A u \in Ws!Threads : u # t => ws_conn'[u] = ws_conn[u] /\ ws_fd'[u] = ws_fd[u]
  BY DEF WsThreads, Ws!At

\* The two of them in one, for the thread that moves; what it is at afterwards.
Moves(t, b, c, f) ==
    /\ WsThreads' /\ ws_pc'[t] = b /\ ws_conn'[t] = c /\ ws_fd'[t] = f
    /\ \A u \in Ws!Threads : u # t =>
          ws_pc'[u] = ws_pc[u] /\ ws_conn'[u] = ws_conn[u] /\ ws_fd'[u] = ws_fd[u]

LEMMA WsMoves ==
  ASSUME WsThreads, NEW t \in Ws!Threads, NEW a, NEW b \in WsSteps,
         NEW c \in Ws!Conns \cup {Ws!None}, NEW f \in Fds \cup {Ws!None},
         Ws!Go(t, a, b), Ws!At(t, c, f)
  PROVE  ws_pc[t] = a /\ Moves(t, b, c, f)
  BY WsGoes, WsTurns DEF Moves, WsThreads

LEMMA WsRetires ==
  ASSUME WsThreads, NEW t \in Ws!Threads, NEW a, NEW b \in WsSteps, Ws!Go(t, a, b), Ws!Away(t)
  PROVE  ws_pc[t] = a /\ Moves(t, b, Ws!None, Ws!None)
  BY WsMoves DEF Ws!Away

LEMMA WsStays ==
  ASSUME WsThreads, NEW t \in Ws!Threads, NEW a, NEW b \in WsSteps, Ws!Go(t, a, b), Ws!Stay
  PROVE  ws_pc[t] = a /\ Moves(t, b, ws_conn[t], ws_fd[t])
  BY WsGoes DEF Moves, WsThreads, Ws!Stay

LEMMA WsInitInv == Ws!Init => WsInv
<1> SUFFICES ASSUME Ws!Init PROVE WsInv
  OBVIOUS
<1> USE DEF Ws!Init
<1>1. WsTyped
  BY DEF WsTyped
<1>2. WsThreads
  BY DEF WsThreads, WsSteps, Ws!Threads
<1>3. WsStream
  <2>1. ASSUME NEW c \in Ws!Conns PROVE Ws!Messages(c) = 0
    <3>1. {i \in 1 .. ws_parsed[c] : Script[c][i] = "message"} = {}
      OBVIOUS
    <3>2. Ws!Messages(c) = Cardinality({})
      BY <3>1 DEF Ws!Messages, Ws!Cardinality, Cardinality
    <3> QED BY <3>2, FS_EmptySet
  <2>2. ASSUME NEW c \in Ws!Conns PROVE 0 <= Len(Script[c])
    BY WsAssumption, LenProperties DEF Ws!Conns
  <2> QED BY <2>1, <2>2 DEF WsStream
<1>4. WsOld
  BY WsDistinct DEF WsOld, Ws!Conns
<1>5. WsMaps
  BY DEF WsMaps
<1>6. WsClosed
  BY DEF WsClosed
<1>7. WsHands
  BY DEF WsHands, WsHand, WsOwnSteps
<1> QED BY <1>1, <1>2, <1>3, <1>4, <1>5, <1>6, <1>7 DEF WsInv

-----------------------------------------------------------------------------
(* Steps that leave the maps and the kernel's descriptors alone.            *)

\* After such a step a thread is idle, or where it was, or at a connection that is
\* not its own only.
LEMMA WsQuiet ==
  ASSUME WsInv, WsThreads', WsStream',
         UNCHANGED <<ws_owner, ws_fdToConn, ws_ids, ws_nextId, ws_connFd, ws_closed, ws_mistaken>>,
         ws_ended' \subseteq Ws!Conns, ws_handshaked' \subseteq Ws!Conns,
         ws_connected' \subseteq Ws!Conns,
         \A c \in ws_polled' : c \in Ws!Conns /\ c < ws_nextId,
         \A e \in ws_events' : e.fd \in Fds /\ e.of \in Ws!Conns /\ e.of < ws_nextId,
         \A t \in Ws!Threads :
             \/ ws_pc'[t] = ws_pc[t] /\ ws_conn'[t] = ws_conn[t] /\ ws_fd'[t] = ws_fd[t]
             \/ ws_pc'[t] = "idle"
             \/ /\ ws_pc'[t] \notin WsOwnSteps
                /\ ws_conn'[t] \in Ws!Conns /\ ws_conn'[t] < ws_nextId /\ ws_fd'[t] \in Fds
  PROVE  WsInv'
<1>1. WsTyped /\ WsOld /\ WsMaps /\ WsClosed /\ WsHands
  BY DEF WsInv
<1>2. WsTyped'
  BY <1>1 DEF WsTyped
<1>3. WsOld'
  BY <1>1 DEF WsOld
<1>4. WsMaps' /\ WsClosed'
  BY <1>1 DEF WsMaps, WsClosed
<1>5. WsHands'
  <2>1. "idle" \notin WsOwnSteps
    BY DEF WsOwnSteps
  <2>2. ASSUME NEW t \in Ws!Threads PROVE WsHand(t)'
    <3>1. CASE ws_pc'[t] = ws_pc[t] /\ ws_conn'[t] = ws_conn[t] /\ ws_fd'[t] = ws_fd[t]
      BY <1>1, <3>1 DEF WsHands, WsHand
    <3>2. CASE ws_pc'[t] = "idle"
      BY <2>1, <3>2 DEF WsHand
    <3>3. CASE /\ ws_pc'[t] \notin WsOwnSteps
               /\ ws_conn'[t] \in Ws!Conns /\ ws_conn'[t] < ws_nextId /\ ws_fd'[t] \in Fds
      BY <3>3 DEF WsHand, WsOwnSteps
    <3> QED BY <3>1, <3>2, <3>3
  <2>3. ASSUME NEW t \in Ws!Threads, ws_pc'[t] \in WsOwnSteps
        PROVE  ws_pc[t] \in WsOwnSteps /\ ws_conn'[t] = ws_conn[t]
    BY <2>1, <2>3
  <2> QED BY <1>1, <2>2, <2>3 DEF WsHands
<1> QED BY <1>2, <1>3, <1>4, <1>5 DEF WsInv

LEMMA WsStreamKeeps ==
  ASSUME WsStream, UNCHANGED <<ws_arrived, ws_fetched, ws_parsed, ws_got>>
  PROVE  WsStream'
  BY DEF WsStream, Ws!Messages

\* What the listener's thread is at when it moves.
LEMMA WsAtConn ==
  ASSUME WsInv, NEW t \in Ws!Threads, ws_pc[t] # "idle"
  PROVE  /\ ws_conn[t] \in Ws!Conns /\ ws_conn[t] < ws_nextId /\ ws_fd[t] \in Fds
         /\ ws_connFd[ws_conn[t]] \in Fds
  BY DEF WsInv, WsHands, WsHand, WsOld

\* A thread that moves to a step at which the connection is not its own.
LEMMA WsQuietMove ==
  ASSUME WsInv, WsStream', NEW t \in Ws!Threads, NEW b, NEW c, NEW f, Moves(t, b, c, f),
         \/ b = "idle"
         \/ b \notin WsOwnSteps /\ c \in Ws!Conns /\ c < ws_nextId /\ f \in Fds,
         UNCHANGED <<ws_owner, ws_fdToConn, ws_ids, ws_nextId, ws_connFd, ws_closed, ws_mistaken,
                     ws_ended>>,
         ws_handshaked' \subseteq Ws!Conns, ws_connected' \subseteq Ws!Conns,
         \A d \in ws_polled' : d \in Ws!Conns /\ d < ws_nextId,
         ws_events' \subseteq ws_events
  PROVE  WsInv'
<1>1. WsThreads'
  BY DEF Moves
<1>2. ws_ended' \subseteq Ws!Conns
  BY DEF WsInv, WsTyped
<1>3. \A e \in ws_events' : e.fd \in Fds /\ e.of \in Ws!Conns /\ e.of < ws_nextId
  BY DEF WsInv, WsOld
<1>4. \A u \in Ws!Threads :
          \/ ws_pc'[u] = ws_pc[u] /\ ws_conn'[u] = ws_conn[u] /\ ws_fd'[u] = ws_fd[u]
          \/ ws_pc'[u] = "idle"
          \/ /\ ws_pc'[u] \notin WsOwnSteps
             /\ ws_conn'[u] \in Ws!Conns /\ ws_conn'[u] < ws_nextId /\ ws_fd'[u] \in Fds
  BY DEF Moves
<1> QED BY <1>1, <1>2, <1>3, <1>4, WsQuiet

\* The lowest of some numbers is one of them.
LEMMA WsLeast ==
  ASSUME NEW S, S \subseteq Nat, S # {}
  PROVE  Ws!Min(S) \in S /\ \A y \in S : Ws!Min(S) <= y
<1> DEFINE R == {ss \in Nat \X Nat : ss[1] < ss[2]}
<1>1. ASSUME NEW a \in Nat, NEW b \in Nat PROVE <<a, b>> \in R <=> a < b
  OBVIOUS
<1>2. IsWellFoundedOn(R, Nat)
  BY NatLessThanWellFounded DEF OpToRel
<1> HIDE DEF R
<1>3. PICK x \in S : \A y \in S : ~(<<y, x>> \in R)
  BY <1>2, WFMin
<1>4. ASSUME NEW y \in S PROVE x <= y
  <2>1. x \in Nat /\ y \in Nat
    OBVIOUS
  <2>2. ~(y < x)
    BY <1>1, <1>3, <2>1
  <2> QED BY <2>1, <2>2
<1> QED BY <1>4 DEF Ws!Min

\* Where the front of recv_buf ends, if it is all there.
Ends(c, n) ==
    /\ n \in ws_parsed[c] + 1 .. ws_fetched[c] /\ Script[c][n] # "more"
    /\ \A i \in ws_parsed[c] + 1 .. n - 1 : Script[c][i] = "more"

LEMMA WsComplete ==
  ASSUME WsStream, NEW c \in Ws!Conns, Ws!Complete(c) # 0
  PROVE  Ends(c, Ws!Complete(c))
<1> DEFINE S == {i \in ws_parsed[c] + 1 .. ws_fetched[c] : Script[c][i] # "more"}
<1>1. ws_parsed[c] \in Nat /\ ws_fetched[c] \in Nat
  BY DEF WsStream
<1>2. Ws!Complete(c) = Ws!Min(S) /\ S # {}
  BY DEF Ws!Complete
<1>3. S \subseteq Nat
  BY <1>1
<1>4. Ws!Min(S) \in S /\ \A y \in S : Ws!Min(S) <= y
  BY <1>2, <1>3, WsLeast
<1> DEFINE n == Ws!Min(S)
<1>5. n \in ws_parsed[c] + 1 .. ws_fetched[c] /\ Script[c][n] # "more"
  BY <1>4
<1>6. \A i \in S : n <= i
  BY <1>4
<1>7. ASSUME NEW i \in ws_parsed[c] + 1 .. n - 1 PROVE Script[c][i] = "more"
  <2> HIDE DEF n
  <2>1. i \in ws_parsed[c] + 1 .. ws_fetched[c] /\ ~(n <= i)
    BY <1>1, <1>5
  <2> QED BY <1>6, <2>1
<1> QED BY <1>2, <1>5, <1>7 DEF Ends

\* Parsing up to there counts the one message that may end there.
LEMMA WsParses ==
  ASSUME WsStream, NEW c \in Ws!Conns, NEW n, Ends(c, n),
         ws_parsed' = [ws_parsed EXCEPT ![c] = n]
  PROVE  /\ Ws!Messages(c)' = IF Script[c][n] = "message" THEN Ws!Messages(c) + 1
                              ELSE Ws!Messages(c)
         /\ \A d \in Ws!Conns : d # c => Ws!Messages(d)' = Ws!Messages(d)
<1> DEFINE p == ws_parsed[c]
           A == {i \in 1 .. p : Script[c][i] = "message"}
           B == {i \in 1 .. n : Script[c][i] = "message"}
<1>1. p \in Nat /\ n \in Nat /\ n \in p + 1 .. ws_fetched[c] /\ ws_fetched[c] \in Nat
  BY DEF WsStream, Ends
<1>2. ws_parsed'[c] = n /\ \A d \in Ws!Conns : d # c => ws_parsed'[d] = ws_parsed[d]
  BY DEF WsStream
<1>3. B = IF Script[c][n] = "message" THEN A \cup {n} ELSE A
  <2>1. ASSUME NEW i \in p + 1 .. n - 1 PROVE Script[c][i] # "message"
    BY <2>1 DEF Ends
  <2> HIDE DEF p
  <2>2. 1 .. n = (1 .. p) \cup (p + 1 .. n - 1) \cup {n}
    BY <1>1
  <2> QED BY <2>1, <2>2
<1>4. IsFiniteSet(A) /\ n \notin A
  <2> HIDE DEF p
  <2>1. IsFiniteSet(1 .. p)
    BY <1>1, FS_Interval
  <2>2. A \in SUBSET (1 .. p)
    OBVIOUS
  <2>3. n \notin 1 .. p
    BY <1>1
  <2> QED BY <2>1, <2>2, <2>3, FS_Subset
<1>5. Ws!Messages(c) = Cardinality(A)
  BY DEF Ws!Messages, Ws!Cardinality, Cardinality
<1>6. Ws!Messages(c)' = Cardinality(B)
  BY <1>2 DEF Ws!Messages, Ws!Cardinality, Cardinality
<1>7. \A d \in Ws!Conns : d # c => Ws!Messages(d)' = Ws!Messages(d)
  BY <1>2 DEF Ws!Messages
<1>8. Cardinality(A \cup {n}) = Cardinality(A) + 1
  BY <1>4, FS_AddElement
<1> HIDE DEF A, B
<1> QED BY <1>3, <1>5, <1>6, <1>7, <1>8

LEMMA WsAddInv ==
  ASSUME WsInv, Ws!Add
  PROVE  WsInv'
<1>1. WsTyped /\ WsThreads /\ WsStream /\ WsOld
  BY DEF WsInv
<1>2. "io" \in Ws!Threads /\ "idle" \in WsSteps
  BY DEF Ws!Threads, WsSteps
<1>3. ws_pc["io"] = "add" /\ Moves("io", "idle", Ws!None, Ws!None)
  BY <1>1, <1>2, WsRetires DEF Ws!Add
<1>4. /\ ws_polled' \subseteq ws_polled \cup {ws_conn["io"]}
      /\ UNCHANGED <<ws_owner, ws_ended, ws_arrived, ws_fdToConn, ws_ids, ws_nextId, ws_connFd,
                     ws_fetched, ws_parsed, ws_handshaked, ws_got, ws_events, ws_connected,
                     ws_closed, ws_mistaken>>
  BY DEF Ws!Add, Ws!peers, Ws!maps, Ws!stream
<1>5. WsStream'
  BY <1>1, <1>4, WsStreamKeeps
<1>6. ws_conn["io"] \in Ws!Conns /\ ws_conn["io"] < ws_nextId
  BY <1>2, <1>3, WsAtConn
<1>7. \A d \in ws_polled' : d \in Ws!Conns /\ d < ws_nextId
  BY <1>1, <1>4, <1>6 DEF WsTyped, WsOld
<1>8. ws_handshaked' \subseteq Ws!Conns /\ ws_connected' \subseteq Ws!Conns
  BY <1>1, <1>4 DEF WsTyped
<1> QED BY <1>2, <1>3, <1>4, <1>5, <1>7, <1>8, WsQuietMove

LEMMA WsEpollInv ==
  ASSUME WsInv, Ws!epoll_wait
  PROVE  WsInv'
<1>1. WsTyped /\ WsThreads /\ WsStream /\ WsOld
  BY DEF WsInv
<1>2. /\ ws_events' = {[fd |-> ws_connFd[c], event |-> ws_ready[c], of |-> c] : c \in Ws!Reported}
      /\ UNCHANGED <<ws_owner, ws_polled, ws_ended, ws_arrived, ws_fdToConn, ws_ids, ws_nextId,
                     ws_connFd, ws_fetched, ws_parsed, ws_handshaked, ws_got, ws_pc, ws_conn,
                     ws_fd, ws_connected, ws_closed, ws_mistaken>>
  BY DEF Ws!epoll_wait, Ws!maps, Ws!stream
<1>3. WsStream'
  BY <1>1, <1>2, WsStreamKeeps
<1>4. WsThreads'
  BY <1>1, <1>2 DEF WsThreads
<1>5. \A c \in ws_polled : c \in Ws!Conns /\ c < ws_nextId /\ ws_connFd[c] \in Fds
  BY <1>1 DEF WsTyped, WsOld
<1>6. \A e \in ws_events' : e.fd \in Fds /\ e.of \in Ws!Conns /\ e.of < ws_nextId
  BY <1>2, <1>5 DEF Ws!Reported
<1> QED BY <1>1, <1>2, <1>3, <1>4, <1>5, <1>6, WsQuiet DEF WsTyped

LEMMA WsEventInv ==
  ASSUME WsInv, Ws!handleEvent
  PROVE  WsInv'
<1>1. WsTyped /\ WsThreads /\ WsStream /\ WsOld /\ WsMaps
  BY DEF WsInv
<1>2. PICK e \in ws_events :
        LET c == ws_fdToConn[e.fd]
        IN  /\ ws_events' = ws_events \ {e}
            /\ Ws!Go("io", "idle", IF c = Ws!None THEN "idle"
                                   ELSE IF e.event = "hup" THEN "erase" ELSE "read")
            /\ IF c = Ws!None THEN Ws!Stay
               ELSE Ws!At("io", IF e.event = "hup" THEN e.of ELSE c, e.fd)
            /\ UNCHANGED <<ws_owner, ws_polled, ws_ended, ws_arrived, ws_fdToConn, ws_ids,
                           ws_nextId, ws_connFd, ws_fetched, ws_parsed, ws_handshaked, ws_got,
                           ws_connected, ws_closed, ws_mistaken>>
  BY DEF Ws!handleEvent, Ws!peers, Ws!maps, Ws!stream
<1> DEFINE c == ws_fdToConn[e.fd]
<1>3. "io" \in Ws!Threads /\ {"idle", "erase", "read"} \subseteq WsSteps
  BY DEF Ws!Threads, WsSteps
<1>4. e.fd \in Fds /\ e.of \in Ws!Conns /\ e.of < ws_nextId
  BY <1>1 DEF WsOld
<1>5. c # Ws!None => c \in Ws!Conns /\ c < ws_nextId
  BY <1>1, <1>4 DEF WsMaps, WsOld, WsTyped
<1>6. WsStream'
  BY <1>1, <1>2, WsStreamKeeps
<1>7. /\ \A d \in ws_polled' : d \in Ws!Conns /\ d < ws_nextId
      /\ ws_handshaked' \subseteq Ws!Conns /\ ws_connected' \subseteq Ws!Conns
  BY <1>1, <1>2 DEF WsTyped, WsOld
<1>8. CASE c = Ws!None
  <2>1. Ws!Go("io", "idle", "idle") /\ Ws!Stay
    BY <1>2, <1>8
  <2>2. Moves("io", "idle", ws_conn["io"], ws_fd["io"])
    BY <1>1, <1>3, <2>1, WsStays
  <2> QED BY <1>2, <1>3, <1>6, <1>7, <2>2, WsQuietMove
<1>9. CASE c # Ws!None /\ e.event = "hup"
  <2>1. Ws!Go("io", "idle", "erase") /\ Ws!At("io", e.of, e.fd)
    BY <1>2, <1>9
  <2>2. Moves("io", "erase", e.of, e.fd)
    BY <1>1, <1>3, <1>4, <2>1, WsMoves
  <2>3. "erase" \notin WsOwnSteps
    BY DEF WsOwnSteps
  <2> QED BY <1>2, <1>3, <1>4, <1>6, <1>7, <2>2, <2>3, WsQuietMove
<1>10. CASE c # Ws!None /\ e.event # "hup"
  <2>1. Ws!Go("io", "idle", "read") /\ Ws!At("io", c, e.fd)
    BY <1>2, <1>10
  <2>2. Moves("io", "read", c, e.fd)
    BY <1>1, <1>3, <1>4, <1>5, <1>10, <2>1, WsMoves
  <2>3. "read" \notin WsOwnSteps
    BY DEF WsOwnSteps
  <2> QED BY <1>2, <1>3, <1>4, <1>5, <1>6, <1>7, <1>10, <2>2, <2>3, WsQuietMove
<1> QED BY <1>8, <1>9, <1>10

\* What the steps of readData leave alone.
ReadFrame ==
    UNCHANGED <<ws_owner, ws_polled, ws_ready, ws_arrived, ws_ended, ws_fdToConn, ws_ids,
                ws_nextId, ws_connFd, ws_events, ws_closed, ws_mistaken>>

\* A step of the listener's thread inside readData.
LEMMA WsReadStep ==
  ASSUME WsInv, WsStream', ReadFrame, ws_pc["io"] # "idle",
         NEW a, NEW b \in {"idle", "read", "handshake", "frames", "erase"}, Ws!Go("io", a, b),
         \/ Ws!Stay
         \/ b = "idle" /\ Ws!Away("io")
         \/ Ws!At("io", ws_conn["io"], ws_connFd[ws_conn["io"]]),
         ws_handshaked' \subseteq Ws!Conns, ws_connected' \subseteq Ws!Conns
  PROVE  WsInv'
<1> DEFINE c == ws_conn["io"]
<1>1. WsTyped /\ WsThreads /\ WsOld
  BY DEF WsInv
<1>2. "io" \in Ws!Threads /\ b \in WsSteps /\ b \notin WsOwnSteps
  BY DEF Ws!Threads, WsSteps, WsOwnSteps
<1>3. c \in Ws!Conns /\ c < ws_nextId /\ ws_fd["io"] \in Fds /\ ws_connFd[c] \in Fds
  BY <1>2, WsAtConn
<1>4. \A d \in ws_polled' : d \in Ws!Conns /\ d < ws_nextId
  BY <1>1 DEF ReadFrame, WsTyped, WsOld
<1>5. UNCHANGED <<ws_owner, ws_fdToConn, ws_ids, ws_nextId, ws_connFd, ws_closed, ws_mistaken,
                  ws_ended>> /\ ws_events' \subseteq ws_events
  BY DEF ReadFrame
<1> HIDE DEF c
<1>6. CASE Ws!Stay
  <2>1. Moves("io", b, ws_conn["io"], ws_fd["io"])
    BY <1>1, <1>2, <1>6, WsStays
  <2> QED BY <1>2, <1>3, <1>4, <1>5, <2>1, WsQuietMove DEF c
<1>7. CASE b = "idle" /\ Ws!Away("io")
  <2>1. Moves("io", b, Ws!None, Ws!None)
    BY <1>1, <1>2, <1>7, WsRetires
  <2> QED BY <1>2, <1>4, <1>5, <1>7, <2>1, WsQuietMove
<1>8. CASE Ws!At("io", ws_conn["io"], ws_connFd[ws_conn["io"]])
  <2>1. Ws!At("io", c, ws_connFd[c])
    BY <1>8 DEF c
  <2>2. Moves("io", b, c, ws_connFd[c])
    BY <1>1, <1>2, <1>3, <2>1, WsMoves
  <2> QED BY <1>2, <1>3, <1>4, <1>5, <2>2, WsQuietMove
<1> QED BY <1>6, <1>7, <1>8

LEMMA WsReadInv ==
  ASSUME WsInv, Ws!Read
  PROVE  WsInv'
<1> DEFINE c == ws_conn["io"]
<1>1. WsTyped /\ WsStream
  BY DEF WsInv
<1>2. ws_pc["io"] # "idle" /\ "io" \in Ws!Threads
  BY DEF Ws!Read, Ws!Threads
<1>3. ReadFrame /\ UNCHANGED <<ws_parsed, ws_got, ws_handshaked, ws_connected>>
  BY DEF Ws!Read, ReadFrame, Ws!peers, Ws!maps, Ws!stream
<1>4. c \in Ws!Conns
  BY <1>2, WsAtConn
<1>5. ws_handshaked' \subseteq Ws!Conns /\ ws_connected' \subseteq Ws!Conns
  BY <1>1, <1>3 DEF WsTyped
<1>6. CASE /\ Ws!Go("io", "read", "read") /\ Ws!Stay
           /\ \E n \in ws_fetched[c] + 1 .. ws_arrived[c] :
                 ws_fetched' = [ws_fetched EXCEPT ![c] = n]
  <2>1. PICK n \in ws_fetched[c] + 1 .. ws_arrived[c] :
            ws_fetched' = [ws_fetched EXCEPT ![c] = n]
    BY <1>6
  <2>2. n \in Nat /\ ws_fetched[c] <= n /\ n <= ws_arrived[c]
    BY <1>1, <1>4 DEF WsStream
  <2> HIDE DEF c
  <2>3. ws_fetched' \in [Ws!Conns -> Nat]
    BY <1>1, <1>4, <2>1, <2>2 DEF WsStream
  <2>4. ASSUME NEW d \in Ws!Conns
        PROVE  ws_parsed[d] <= ws_fetched'[d] /\ ws_fetched'[d] <= ws_arrived[d]
    <3>1. ws_parsed[d] \in Nat /\ ws_fetched[d] \in Nat /\ ws_arrived[d] \in Nat
      BY <1>1 DEF WsStream
    <3>2. ws_parsed[d] <= ws_fetched[d] /\ ws_fetched[d] <= ws_arrived[d]
      BY <1>1 DEF WsStream
    <3>3. ws_fetched'[d] = IF d = c THEN n ELSE ws_fetched[d]
      BY <1>1, <1>4, <2>1 DEF WsStream
    <3> QED BY <2>2, <3>1, <3>2, <3>3
  <2>5. \A d \in Ws!Conns : Ws!Messages(d)' = Ws!Messages(d)
    BY <1>3 DEF Ws!Messages
  <2>6. WsStream'
    BY <1>1, <1>3, <2>3, <2>4, <2>5 DEF WsStream, ReadFrame
  <2> QED BY <1>2, <1>3, <1>5, <1>6, <2>6, WsReadStep
<1>7. CASE UNCHANGED ws_fetched /\ Ws!Go("io", "read", "erase") /\ Ws!At("io", c, ws_connFd[c])
  <2>1. WsStream'
    BY <1>1, <1>3, <1>7, WsStreamKeeps DEF ReadFrame
  <2> QED BY <1>2, <1>3, <1>5, <1>7, <2>1, WsReadStep
<1>8. CASE UNCHANGED ws_fetched /\ Ws!Stay
           /\ Ws!Go("io", "read", IF c \in ws_handshaked THEN "frames" ELSE "handshake")
  <2>1. WsStream'
    BY <1>1, <1>3, <1>8, WsStreamKeeps DEF ReadFrame
  <2>2. CASE c \in ws_handshaked
    <3>1. Ws!Go("io", "read", "frames")
      BY <1>8, <2>2
    <3> QED BY <1>2, <1>3, <1>5, <1>8, <2>1, <3>1, WsReadStep
  <2>3. CASE c \notin ws_handshaked
    <3>1. Ws!Go("io", "read", "handshake")
      BY <1>8, <2>3
    <3> QED BY <1>2, <1>3, <1>5, <1>8, <2>1, <3>1, WsReadStep
  <2> QED BY <2>2, <2>3
<1> QED BY <1>6, <1>7, <1>8 DEF Ws!Read, Ws!stream

\* Parsing up to where something ends keeps the types and bounds of the stream.
LEMMA WsParseStream ==
  ASSUME WsStream, NEW c \in Ws!Conns, NEW n, Ends(c, n),
         ws_parsed' = [ws_parsed EXCEPT ![c] = n],
         ws_got' = [ws_got EXCEPT ![c] = IF Script[c][n] = "message" THEN @ + 1 ELSE @],
         UNCHANGED <<ws_arrived, ws_fetched>>
  PROVE  WsStream'
<1>1. n \in Nat /\ n <= ws_fetched[c]
  BY DEF WsStream, Ends
<1>2. /\ ws_parsed'[c] = n /\ \A d \in Ws!Conns : d # c => ws_parsed'[d] = ws_parsed[d]
      /\ ws_parsed' \in [Ws!Conns -> Nat]
  BY <1>1 DEF WsStream
<1>3. /\ ws_got'[c] = (IF Script[c][n] = "message" THEN ws_got[c] + 1 ELSE ws_got[c])
      /\ \A d \in Ws!Conns : d # c => ws_got'[d] = ws_got[d]
      /\ ws_got' \in [Ws!Conns -> Nat]
  BY DEF WsStream
<1>4. /\ Ws!Messages(c)' = (IF Script[c][n] = "message" THEN Ws!Messages(c) + 1
                            ELSE Ws!Messages(c))
      /\ \A d \in Ws!Conns : d # c => Ws!Messages(d)' = Ws!Messages(d)
  BY WsParses
<1>5. \A d \in Ws!Conns : ws_got'[d] = Ws!Messages(d)'
  BY <1>3, <1>4 DEF WsStream
<1>6. \A d \in Ws!Conns : ws_parsed'[d] <= ws_fetched[d]
  BY <1>1, <1>2 DEF WsStream
<1> QED BY <1>2, <1>3, <1>5, <1>6 DEF WsStream

LEMMA WsHandshakeInv ==
  ASSUME WsInv, Ws!doHandshake
  PROVE  WsInv'
<1> DEFINE c == ws_conn["io"]
           n == Ws!Complete(c)
<1>1. WsTyped /\ WsStream
  BY DEF WsInv
<1>2. ws_pc["io"] # "idle" /\ "io" \in Ws!Threads
  BY DEF Ws!doHandshake, Ws!Threads
<1>3. ReadFrame /\ UNCHANGED <<ws_fetched, ws_got>>
  BY DEF Ws!doHandshake, ReadFrame, Ws!peers, Ws!maps, Ws!stream
<1>4. c \in Ws!Conns
  BY <1>2, WsAtConn
<1>5. CASE /\ UNCHANGED <<ws_parsed, ws_handshaked, ws_connected>>
           /\ \/ Ws!Go("io", "handshake", "idle") /\ Ws!Away("io")
              \/ Ws!Go("io", "handshake", "erase") /\ Ws!At("io", c, ws_connFd[c])
  <2>1. WsStream'
    BY <1>1, <1>3, <1>5, WsStreamKeeps DEF ReadFrame
  <2>2. ws_handshaked' \subseteq Ws!Conns /\ ws_connected' \subseteq Ws!Conns
    BY <1>1, <1>5 DEF WsTyped
  <2>3. CASE Ws!Go("io", "handshake", "idle") /\ Ws!Away("io")
    BY <1>2, <1>3, <2>1, <2>2, <2>3, WsReadStep
  <2>4. CASE Ws!Go("io", "handshake", "erase") /\ Ws!At("io", c, ws_connFd[c])
    BY <1>2, <1>3, <2>1, <2>2, <2>4, WsReadStep
  <2> QED BY <1>5, <2>3, <2>4
<1>6. CASE /\ n # 0 /\ Script[c][n] = "request"
           /\ ws_handshaked' = ws_handshaked \cup {c}
           /\ ws_parsed' = [ws_parsed EXCEPT ![c] = n]
           /\ ws_connected' = ws_connected \cup {c}
           /\ Ws!Go("io", "handshake", "frames") /\ Ws!Stay
  <2>1. Ends(c, n)
    BY <1>1, <1>4, <1>6, WsComplete
  <2>2. ws_got' = [ws_got EXCEPT ![c] = IF Script[c][n] = "message" THEN @ + 1 ELSE @]
    BY <1>1, <1>3, <1>4, <1>6 DEF WsStream
  <2>3. WsStream'
    <3> HIDE DEF c, n
    <3> QED BY <1>1, <1>3, <1>4, <1>6, <2>1, <2>2, WsParseStream DEF ReadFrame
  <2>4. ws_handshaked' \subseteq Ws!Conns /\ ws_connected' \subseteq Ws!Conns
    BY <1>1, <1>4, <1>6 DEF WsTyped
  <2> QED BY <1>2, <1>3, <1>6, <2>3, <2>4, WsReadStep
<1> QED BY <1>5, <1>6 DEF Ws!doHandshake, Ws!stream

LEMMA WsFramesInv ==
  ASSUME WsInv, Ws!parseFrames
  PROVE  WsInv'
<1> DEFINE c == ws_conn["io"]
           n == Ws!Complete(c)
<1>1. WsTyped /\ WsStream
  BY DEF WsInv
<1>2. ws_pc["io"] # "idle" /\ "io" \in Ws!Threads
  BY DEF Ws!parseFrames, Ws!Threads
<1>3. ReadFrame /\ UNCHANGED <<ws_fetched, ws_handshaked, ws_connected>>
  BY DEF Ws!parseFrames, ReadFrame, Ws!peers, Ws!maps, Ws!stream
<1>4. c \in Ws!Conns
  BY <1>2, WsAtConn
<1>5. ws_handshaked' \subseteq Ws!Conns /\ ws_connected' \subseteq Ws!Conns
  BY <1>1, <1>3 DEF WsTyped
<1>6. CASE n = 0
  <2>1. /\ Ws!Go("io", "frames", "idle") /\ Ws!Away("io")
        /\ UNCHANGED <<ws_parsed, ws_got>>
    BY <1>6 DEF Ws!parseFrames
  <2>2. WsStream'
    BY <1>1, <1>3, <2>1, WsStreamKeeps DEF ReadFrame
  <2> QED BY <1>2, <1>3, <1>5, <2>1, <2>2, WsReadStep
<1>7. CASE n # 0
  <2>1. /\ ws_parsed' = (IF Script[c][n] = "oversize" THEN ws_parsed
                         ELSE [ws_parsed EXCEPT ![c] = n])
        /\ IF Script[c][n] \in {"oversize", "close"}
           THEN Ws!Go("io", "frames", "erase") /\ Ws!At("io", c, ws_connFd[c])
           ELSE Ws!Go("io", "frames", "frames") /\ Ws!Stay
        /\ ws_got' = [ws_got EXCEPT ![c] = IF Script[c][n] = "message" THEN @ + 1 ELSE @]
    BY <1>7 DEF Ws!parseFrames
  <2>2. WsStream'
    <3>1. CASE Script[c][n] = "oversize"
      <4>1. ws_parsed' = ws_parsed /\ ws_got' = ws_got
        BY <1>1, <1>4, <2>1, <3>1 DEF WsStream
      <4> QED BY <1>1, <1>3, <4>1, WsStreamKeeps DEF ReadFrame
    <3>2. CASE Script[c][n] # "oversize"
      <4>1. Ends(c, n)
        BY <1>1, <1>4, <1>7, WsComplete
      <4>2. ws_parsed' = [ws_parsed EXCEPT ![c] = n]
        BY <2>1, <3>2
      <4> HIDE DEF c, n
      <4> QED BY <1>1, <1>3, <1>4, <2>1, <4>1, <4>2, WsParseStream DEF ReadFrame
    <3> QED BY <3>1, <3>2
  <2>3. CASE Script[c][n] \in {"oversize", "close"}
    <3>1. Ws!Go("io", "frames", "erase") /\ Ws!At("io", c, ws_connFd[c])
      BY <2>1, <2>3
    <3> QED BY <1>2, <1>3, <1>5, <2>2, <3>1, WsReadStep
  <2>4. CASE Script[c][n] \notin {"oversize", "close"}
    <3>1. Ws!Go("io", "frames", "frames") /\ Ws!Stay
      BY <2>1, <2>4
    <3> QED BY <1>2, <1>3, <1>5, <2>2, <3>1, WsReadStep
  <2> QED BY <2>3, <2>4
<1> QED BY <1>6, <1>7

\* Other threads look a connection up.
LEMMA WsCallInv ==
  ASSUME WsInv, NEW c \in Ws!Conns, Ws!close_conn(c) \/ Ws!send(c)
  PROVE  WsInv'
<1>1. WsTyped /\ WsThreads /\ WsStream /\ WsOld
  BY DEF WsInv
<1>2. "app" \in Ws!Threads /\ {"erase", "write"} \subseteq WsSteps
  BY DEF Ws!Threads, WsSteps
<1>3. /\ c \in ws_ids /\ Ws!At("app", c, ws_connFd[c])
      /\ Ws!Go("app", "idle", "erase") \/ Ws!Go("app", "idle", "write")
      /\ UNCHANGED <<ws_owner, ws_polled, ws_ended, ws_arrived, ws_fdToConn, ws_ids, ws_nextId,
                     ws_connFd, ws_fetched, ws_parsed, ws_handshaked, ws_got, ws_events,
                     ws_connected, ws_closed, ws_mistaken>>
  BY DEF Ws!close_conn, Ws!send, Ws!peers, Ws!maps, Ws!stream
<1>4. c < ws_nextId /\ ws_connFd[c] \in Fds
  BY <1>1, <1>3 DEF WsOld
<1>5. PICK b \in {"erase", "write"} : Ws!Go("app", "idle", b)
  BY <1>3
<1>6. Moves("app", b, c, ws_connFd[c])
  BY <1>1, <1>2, <1>3, <1>4, <1>5, WsMoves
<1>7. b \notin WsOwnSteps
  BY DEF WsOwnSteps
<1>8. WsStream'
  BY <1>1, <1>3, WsStreamKeeps
<1>9. /\ \A d \in ws_polled' : d \in Ws!Conns /\ d < ws_nextId
      /\ ws_handshaked' \subseteq Ws!Conns /\ ws_connected' \subseteq Ws!Conns
  BY <1>1, <1>3 DEF WsTyped, WsOld
<1> QED BY <1>2, <1>3, <1>4, <1>6, <1>7, <1>8, <1>9, WsQuietMove

LEMMA WsWriteInv ==
  ASSUME WsInv, Ws!Write
  PROVE  WsInv'
<1>1. WsTyped /\ WsThreads /\ WsStream /\ WsOld
  BY DEF WsInv
<1>2. "app" \in Ws!Threads /\ "idle" \in WsSteps
  BY DEF Ws!Threads, WsSteps
<1>3. UNCHANGED <<ws_owner, ws_polled, ws_ended, ws_arrived, ws_fdToConn, ws_ids, ws_nextId,
                  ws_connFd, ws_fetched, ws_parsed, ws_handshaked, ws_got, ws_events,
                  ws_connected, ws_closed, ws_mistaken>>
  BY DEF Ws!Write, Ws!peers, Ws!maps, Ws!stream
<1>4. Moves("app", "idle", Ws!None, Ws!None)
  BY <1>1, <1>2, WsRetires DEF Ws!Write
<1>5. WsStream'
  BY <1>1, <1>3, WsStreamKeeps
<1>6. /\ \A d \in ws_polled' : d \in Ws!Conns /\ d < ws_nextId
      /\ ws_handshaked' \subseteq Ws!Conns /\ ws_connected' \subseteq Ws!Conns
  BY <1>1, <1>3 DEF WsTyped, WsOld
<1> QED BY <1>2, <1>3, <1>4, <1>5, <1>6, WsQuietMove

\* Clients.
LEMMA WsClientInv ==
  ASSUME WsInv, NEW c \in Ws!Conns, Ws!Arrive(c) \/ Ws!HangUp(c)
  PROVE  WsInv'
<1>1. WsTyped /\ WsThreads /\ WsStream /\ WsOld
  BY DEF WsInv
<1>2. /\ ws_ended' \subseteq ws_ended \cup {c}
      /\ UNCHANGED <<ws_owner, ws_polled, ws_fdToConn, ws_ids, ws_nextId, ws_connFd, ws_fetched,
                     ws_parsed, ws_handshaked, ws_got, ws_events, ws_pc, ws_conn, ws_fd,
                     ws_connected, ws_closed, ws_mistaken>>
  BY DEF Ws!Arrive, Ws!HangUp, Ws!maps, Ws!stream
<1>3. WsThreads'
  BY <1>1, <1>2 DEF WsThreads
<1>4. WsStream'
  <2>1. CASE Ws!HangUp(c)
    <3>1. ws_arrived' = ws_arrived
      BY <2>1 DEF Ws!HangUp
    <3> QED BY <1>1, <1>2, <3>1, WsStreamKeeps
  <2>2. CASE Ws!Arrive(c)
    <3>1. /\ ws_arrived[c] < Len(Script[c])
          /\ ws_arrived' = [ws_arrived EXCEPT ![c] = @ + 1]
      BY <2>2 DEF Ws!Arrive
    <3>2. ws_arrived' \in [Ws!Conns -> Nat]
      BY <1>1, <3>1 DEF WsStream
    <3>3. ASSUME NEW d \in Ws!Conns
          PROVE  ws_fetched[d] <= ws_arrived'[d] /\ ws_arrived'[d] <= Len(Script[d])
      <4>1. ws_arrived[d] \in Nat /\ ws_fetched[d] \in Nat /\ Len(Script[d]) \in Nat
        BY <1>1, WsAssumption, LenProperties DEF WsStream, Ws!Conns
      <4>2. ws_fetched[d] <= ws_arrived[d] /\ ws_arrived[d] <= Len(Script[d])
        BY <1>1 DEF WsStream
      <4>3. ws_arrived'[d] = IF d = c THEN ws_arrived[d] + 1 ELSE ws_arrived[d]
        BY <1>1, <3>1 DEF WsStream
      <4> QED BY <3>1, <4>1, <4>2, <4>3
    <3>4. \A d \in Ws!Conns : Ws!Messages(d)' = Ws!Messages(d)
      BY <1>2 DEF Ws!Messages
    <3> QED BY <1>1, <1>2, <3>2, <3>3, <3>4 DEF WsStream
  <2> QED BY <2>1, <2>2
<1>5. /\ \A d \in ws_polled' : d \in Ws!Conns /\ d < ws_nextId
      /\ \A e \in ws_events' : e.fd \in Fds /\ e.of \in Ws!Conns /\ e.of < ws_nextId
      /\ ws_ended' \subseteq Ws!Conns
      /\ ws_handshaked' \subseteq Ws!Conns /\ ws_connected' \subseteq Ws!Conns
  BY <1>1, <1>2 DEF WsTyped, WsOld
<1> QED BY <1>2, <1>3, <1>4, <1>5, WsQuiet

-----------------------------------------------------------------------------
(* Steps that change the maps or what the kernel has open.                  *)

\* A descriptor without a connection in the maps belongs to none of them.
LEMMA WsNobody ==
  ASSUME WsMaps, NEW f \in Fds, ws_owner[f] \notin ws_ids
  PROVE  ws_fdToConn[f] = Ws!None /\ \A c \in ws_ids : ws_connFd[c] # f
  BY DEF WsMaps

LEMMA WsAcceptInv ==
  ASSUME WsInv, Ws!accept4
  PROVE  WsInv'
<1> DEFINE f == Ws!Min(Ws!Unopened)
           s == ws_nextId
<1>1. WsTyped /\ WsThreads /\ WsStream /\ WsOld /\ WsMaps /\ WsClosed /\ WsHands
  BY DEF WsInv
<1>2. /\ s \in Ws!Conns /\ Ws!Unopened # {}
      /\ ws_owner' = [ws_owner EXCEPT ![f] = s]
      /\ ws_connFd' = [ws_connFd EXCEPT ![s] = f]
      /\ Ws!Go("io", "idle", "insert") /\ Ws!At("io", s, f)
      /\ ws_nextId' = s + 1
      /\ UNCHANGED <<ws_polled, ws_ended, ws_arrived, ws_fdToConn, ws_ids, ws_fetched, ws_parsed,
                     ws_handshaked, ws_got, ws_events, ws_connected, ws_closed, ws_mistaken>>
  BY DEF Ws!accept4, Ws!peers, Ws!stream
<1>3. f \in Fds /\ ws_owner[f] = Ws!Free
  <2>1. Ws!Unopened \subseteq Nat
    BY WsDistinct DEF Ws!Unopened
  <2>2. f \in Ws!Unopened
    BY <1>2, <2>1, WsLeast
  <2> QED BY <2>2 DEF Ws!Unopened
<1> HIDE DEF f
<1>4. "io" \in Ws!Threads /\ "insert" \in WsSteps
  BY DEF Ws!Threads, WsSteps
<1>5. Moves("io", "insert", s, f)
  BY <1>1, <1>2, <1>3, <1>4, WsMoves
<1>6. WsTyped'
  <2>1. ws_nextId' \in Nat
    BY <1>1, <1>2 DEF WsTyped
  <2> QED BY <1>1, <1>2, <1>3, <2>1 DEF WsTyped
<1>7. WsThreads' /\ WsStream' /\ WsClosed'
  BY <1>1, <1>2, <1>5, WsStreamKeeps DEF Moves, WsClosed
<1>8. s \in Nat /\ \A c \in Ws!Conns : c \in Nat
  BY <1>1, WsDistinct DEF WsTyped
<1>9. /\ ws_connFd'[s] = f /\ ws_owner'[f] = s
      /\ \A c \in Ws!Conns : c # s => ws_connFd'[c] = ws_connFd[c]
      /\ \A g \in Fds : g # f => ws_owner'[g] = ws_owner[g]
  BY <1>1, <1>2, <1>3 DEF WsTyped
<1>10. \A c \in ws_ids : c \in Ws!Conns /\ c < s /\ c # s /\ ws_connFd[c] \in Fds
  BY <1>1, <1>8 DEF WsTyped, WsOld
<1>11. s \notin ws_ids /\ ws_closed[s] = 0
  <2>1. ~(s < s)
    BY <1>8
  <2> QED BY <1>1, <1>2, <1>10, <2>1 DEF WsOld
<1>12. WsOld'
  <2>1. ASSUME NEW c \in Ws!Conns
        PROVE  IF c < s + 1 THEN ws_connFd'[c] \in Fds ELSE ws_closed[c] = 0
    <3>1. CASE c = s
      BY <1>3, <1>8, <1>9, <3>1
    <3>2. CASE c # s
      <4>1. c < s + 1 <=> c < s
        BY <1>8, <3>2
      <4> QED BY <1>1, <1>9, <3>2, <4>1 DEF WsOld
    <3> QED BY <3>1, <3>2
  <2>2. \A c \in Ws!Conns : c < s => c < s + 1
    BY <1>8
  <2> QED BY <1>1, <1>2, <2>1, <2>2 DEF WsOld, WsTyped
<1>13. WsMaps'
  <2>1. ws_owner[f] \notin ws_ids
    BY <1>1, <1>3, WsDistinct DEF WsTyped
  <2>2. ws_fdToConn[f] = Ws!None /\ \A c \in ws_ids : ws_connFd[c] # f
    BY <1>1, <1>3, <2>1, WsNobody
  <2>3. ASSUME NEW c \in ws_ids
        PROVE  /\ ws_owner'[ws_connFd'[c]] = c /\ ws_fdToConn[ws_connFd'[c]] = c
               /\ ws_closed[c] = 0
    BY <1>1, <1>9, <1>10, <2>2 DEF WsMaps
  <2>4. ASSUME NEW g \in Fds, ws_fdToConn[g] # Ws!None
        PROVE  ws_fdToConn[g] \in ws_ids /\ ws_connFd'[ws_fdToConn[g]] = g
    BY <1>1, <1>9, <1>10, <2>4 DEF WsMaps
  <2> QED BY <1>2, <2>3, <2>4 DEF WsMaps
<1>14. WsHands'
  <2>1. ASSUME NEW u \in Ws!Threads, u # "io", ws_pc[u] # "idle"
        PROVE  /\ ws_conn[u] \in Ws!Conns /\ ws_conn[u] < s + 1 /\ ws_conn[u] # s
               /\ ws_fd[u] \in Fds
    <3>1. ws_conn[u] \in Ws!Conns /\ ws_conn[u] < s /\ ws_fd[u] \in Fds
      BY <1>1, <2>1 DEF WsHands, WsHand
    <3> QED BY <1>8, <3>1
  <2>2. ASSUME NEW u \in Ws!Threads, u # "io" PROVE WsHand(u)'
    <3>1. /\ ws_pc'[u] = ws_pc[u] /\ ws_conn'[u] = ws_conn[u] /\ ws_fd'[u] = ws_fd[u]
      BY <1>5, <2>2 DEF Moves
    <3>2. CASE ws_pc[u] = "idle"
      BY <3>1, <3>2 DEF WsHand, WsOwnSteps
    <3>3. CASE ws_pc[u] # "idle"
      <4>1. ws_pc[u] \in {"insert", "close"} => ws_fd[u] # f
        BY <1>1, <1>3, <2>2, <2>1, <3>3, WsDistinct DEF WsHands, WsHand
      <4> QED BY <1>1, <1>2, <1>9, <2>1, <2>2, <3>1, <3>3, <4>1 DEF WsHands, WsHand
    <3> QED BY <3>2, <3>3
  <2>3. WsHand("io")'
    BY <1>2, <1>3, <1>5, <1>8, <1>9, <1>11 DEF Moves, WsHand, WsOwnSteps
  <2>4. ASSUME NEW t \in Ws!Threads, NEW u \in Ws!Threads, t # u,
               ws_pc'[t] \in WsOwnSteps, ws_pc'[u] \in WsOwnSteps
        PROVE  ws_conn'[t] # ws_conn'[u]
    <3>1. "idle" \notin WsOwnSteps
      BY DEF WsOwnSteps
    <3> QED BY <1>1, <1>5, <2>1, <2>4, <3>1 DEF Moves, WsHands
  <2> QED BY <2>2, <2>3, <2>4 DEF WsHands
<1> QED BY <1>6, <1>7, <1>12, <1>13, <1>14 DEF WsInv

LEMMA WsInsertInv ==
  ASSUME WsInv, Ws!Insert
  PROVE  WsInv'
<1> DEFINE c == ws_conn["io"]
           f == ws_fd["io"]
<1>1. WsTyped /\ WsThreads /\ WsStream /\ WsOld /\ WsMaps /\ WsClosed /\ WsHands
  BY DEF WsInv
<1>2. /\ ws_fdToConn' = [ws_fdToConn EXCEPT ![f] = c] /\ ws_ids' = ws_ids \cup {c}
      /\ Ws!Go("io", "insert", "add") /\ Ws!Stay
      /\ UNCHANGED <<ws_owner, ws_polled, ws_ended, ws_arrived, ws_nextId, ws_connFd, ws_fetched,
                     ws_parsed, ws_handshaked, ws_got, ws_events, ws_connected, ws_closed,
                     ws_mistaken>>
  BY DEF Ws!Insert, Ws!peers, Ws!stream
<1>3. "io" \in Ws!Threads /\ "add" \in WsSteps /\ "add" \notin WsOwnSteps
  BY DEF Ws!Threads, WsSteps, WsOwnSteps
<1>4. ws_pc["io"] = "insert" /\ Moves("io", "add", c, f)
  BY <1>1, <1>2, <1>3, WsStays
<1>5. /\ c \in Ws!Conns /\ c < ws_nextId /\ f \in Fds /\ ws_owner[f] = c /\ ws_connFd[c] = f
      /\ c \notin ws_ids /\ ws_closed[c] = 0 /\ ws_pc["io"] \in WsOwnSteps
  BY <1>1, <1>3, <1>4 DEF WsHands, WsHand, WsOwnSteps
<1> HIDE DEF c, f
<1>6. WsTyped'
  BY <1>1, <1>2, <1>5 DEF WsTyped
<1>7. WsThreads' /\ WsStream' /\ WsClosed'
  BY <1>1, <1>2, <1>4, WsStreamKeeps DEF Moves, WsClosed
<1>8. WsOld'
  BY <1>1, <1>2, <1>5 DEF WsOld
<1>9. ws_fdToConn'[f] = c /\ \A g \in Fds : g # f => ws_fdToConn'[g] = ws_fdToConn[g]
  BY <1>1, <1>2, <1>5 DEF WsTyped
<1>10. WsMaps'
  <2>1. ws_fdToConn[f] = Ws!None /\ \A d \in ws_ids : ws_connFd[d] # f
    BY <1>1, <1>5, WsNobody
  <2>2. \A d \in ws_ids : ws_connFd[d] \in Fds
    BY <1>1 DEF WsOld, WsTyped
  <2> QED BY <1>1, <1>2, <1>5, <1>9, <2>1, <2>2 DEF WsMaps
<1>11. WsHands'
  <2>1. ASSUME NEW u \in Ws!Threads, u # "io" PROVE WsHand(u)'
    <3>1. ws_pc'[u] = ws_pc[u] /\ ws_conn'[u] = ws_conn[u] /\ ws_fd'[u] = ws_fd[u]
      BY <1>4, <2>1 DEF Moves
    <3>2. ws_pc[u] \in WsOwnSteps => ws_conn[u] # c
      BY <1>1, <1>3, <1>5, <2>1 DEF WsHands, c
    <3> QED BY <1>1, <1>2, <3>1, <3>2 DEF WsHands, WsHand
  <2>2. WsHand("io")'
    BY <1>2, <1>3, <1>4, <1>5 DEF Moves, WsHand, WsOwnSteps
  <2>3. \A u \in Ws!Threads : ws_pc'[u] \in WsOwnSteps =>
            u # "io" /\ ws_pc[u] \in WsOwnSteps /\ ws_conn'[u] = ws_conn[u]
    BY <1>3, <1>4 DEF Moves
  <2> QED BY <1>1, <2>1, <2>2, <2>3 DEF WsHands
<1> QED BY <1>6, <1>7, <1>8, <1>10, <1>11 DEF WsInv

LEMMA WsEraseInv ==
  ASSUME WsInv, NEW t \in Ws!Threads, Ws!Erase(t)
  PROVE  WsInv'
<1> DEFINE f == ws_fd[t]
           c == ws_fdToConn[f]
<1>1. WsTyped /\ WsThreads /\ WsStream /\ WsOld /\ WsMaps /\ WsClosed /\ WsHands
  BY DEF WsInv
<1>2. /\ Ws!Go(t, "erase", IF c = Ws!None THEN "idle" ELSE "close")
      /\ IF c = Ws!None THEN Ws!Away(t) ELSE Ws!At(t, c, f)
      /\ ws_fdToConn' = [ws_fdToConn EXCEPT ![f] = Ws!None] /\ ws_ids' = ws_ids \ {c}
      /\ ws_mistaken' \subseteq ws_mistaken \cup ({c} \ {Ws!None})
      /\ UNCHANGED <<ws_owner, ws_polled, ws_ended, ws_arrived, ws_nextId, ws_connFd, ws_fetched,
                     ws_parsed, ws_handshaked, ws_got, ws_events, ws_connected, ws_closed>>
  BY DEF Ws!Erase, Ws!peers, Ws!stream
<1>3. ws_pc[t] = "erase" /\ ws_pc[t] # "idle"
  BY <1>2 DEF Ws!Go
<1>4. f \in Fds /\ c \in Ws!Conns \cup {Ws!None}
  BY <1>1, <1>3, WsAtConn DEF WsTyped
<1>5. {"idle", "close"} \subseteq WsSteps /\ "idle" \notin WsOwnSteps
  BY DEF WsSteps, WsOwnSteps
<1> HIDE DEF f
<1>6. ws_fdToConn'[f] = Ws!None /\ \A g \in Fds : g # f => ws_fdToConn'[g] = ws_fdToConn[g]
  BY <1>1, <1>2, <1>4 DEF WsTyped
<1>7. WsStream' /\ WsClosed'
  BY <1>1, <1>2, WsStreamKeeps DEF WsClosed
<1>8. WsTyped'
  <2> HIDE DEF c
  <2> QED BY <1>1, <1>2, <1>4 DEF WsTyped
<1>9. WsOld'
  <2> HIDE DEF c
  <2> QED BY <1>1, <1>2 DEF WsOld
<1>10. WsMaps'
  <2>1. ASSUME NEW d \in ws_ids' PROVE ws_connFd[d] \in Fds /\ ws_connFd[d] # f /\ d \in ws_ids
    <3>1. d \in ws_ids /\ d # c /\ ws_fdToConn[ws_connFd[d]] = d /\ ws_connFd[d] \in Fds
      BY <1>1, <1>2 DEF WsMaps, WsOld, WsTyped
    <3> QED BY <3>1
  <2>2. ASSUME NEW g \in Fds, ws_fdToConn'[g] # Ws!None
        PROVE  ws_fdToConn[g] \in ws_ids' /\ ws_fdToConn'[g] = ws_fdToConn[g]
               /\ ws_connFd[ws_fdToConn[g]] = g
    <3>1. g # f /\ ws_fdToConn'[g] = ws_fdToConn[g]
      BY <1>6, <2>2
    <3>2. ws_fdToConn[g] \in ws_ids /\ ws_connFd[ws_fdToConn[g]] = g
      BY <1>1, <2>2, <3>1 DEF WsMaps
    <3>3. ws_fdToConn[g] # c
      BY <1>1, <1>4, <2>2, <3>1, <3>2 DEF WsMaps
    <3> QED BY <1>2, <3>1, <3>2, <3>3
  <2>3. ASSUME NEW d \in ws_ids'
        PROVE  ws_owner[ws_connFd[d]] = d /\ ws_fdToConn'[ws_connFd[d]] = d /\ ws_closed[d] = 0
    BY <1>1, <1>6, <2>1 DEF WsMaps
  <2> QED BY <1>2, <2>2, <2>3 DEF WsMaps
<1>11. CASE c = Ws!None
  <2>1. Moves(t, "idle", Ws!None, Ws!None)
    BY <1>1, <1>2, <1>5, <1>11, WsRetires
  <2>2. ASSUME NEW u \in Ws!Threads PROVE WsHand(u)'
    <3>1. CASE u = t
      BY <1>5, <2>1, <3>1 DEF Moves, WsHand
    <3>2. CASE u # t
      <4>1. ws_pc'[u] = ws_pc[u] /\ ws_conn'[u] = ws_conn[u] /\ ws_fd'[u] = ws_fd[u]
        BY <2>1, <3>2 DEF Moves
      <4> QED BY <1>1, <1>2, <4>1 DEF WsHands, WsHand
    <3> QED BY <3>1, <3>2
  <2>3. \A u \in Ws!Threads : ws_pc'[u] \in WsOwnSteps =>
            u # t /\ ws_pc[u] \in WsOwnSteps /\ ws_conn'[u] = ws_conn[u]
    BY <1>5, <2>1 DEF Moves
  <2>4. WsHands' /\ WsThreads'
    BY <1>1, <2>1, <2>2, <2>3 DEF WsHands, Moves
  <2> QED BY <1>7, <1>8, <1>9, <1>10, <2>4 DEF WsInv
<1>12. CASE c # Ws!None
  <2>1. Ws!Go(t, "erase", "close") /\ Ws!At(t, c, f)
    BY <1>2, <1>12
  <2>2. Moves(t, "close", c, f)
    BY <1>1, <1>4, <1>5, <2>1, WsMoves
  <2>3. /\ c \in ws_ids /\ ws_connFd[c] = f /\ ws_owner[f] = c /\ ws_closed[c] = 0
        /\ c \in Ws!Conns /\ c < ws_nextId
    BY <1>1, <1>4, <1>12 DEF WsMaps, WsOld
  <2> HIDE DEF c
  <2>4. ASSUME NEW u \in Ws!Threads, u # t PROVE WsHand(u)'
    <3>1. ws_pc'[u] = ws_pc[u] /\ ws_conn'[u] = ws_conn[u] /\ ws_fd'[u] = ws_fd[u]
      BY <2>2, <2>4 DEF Moves
    <3> QED BY <1>1, <1>2, <3>1 DEF WsHands, WsHand
  <2>5. WsHand(t)'
    BY <1>2, <1>4, <2>2, <2>3 DEF Moves, WsHand
  <2>6. ASSUME NEW u \in Ws!Threads, u # t, ws_pc'[u] \in WsOwnSteps
        PROVE  ws_pc[u] \in WsOwnSteps /\ ws_conn'[u] = ws_conn[u] /\ ws_conn[u] # c
    <3>1. ws_pc'[u] = ws_pc[u] /\ ws_conn'[u] = ws_conn[u]
      BY <2>2, <2>6 DEF Moves
    <3> QED BY <1>1, <2>3, <2>6, <3>1 DEF WsHands, WsHand
  <2>7. ws_conn'[t] = c
    BY <2>2 DEF Moves
  <2>8. WsHands'
    BY <1>1, <2>4, <2>5, <2>6, <2>7 DEF WsHands
  <2> QED BY <1>7, <1>8, <1>9, <1>10, <2>2, <2>8 DEF WsInv, Moves
<1> QED BY <1>11, <1>12

LEMMA WsCloseInv ==
  ASSUME WsInv, NEW t \in Ws!Threads, Ws!CloseFd(t)
  PROVE  WsInv'
<1> DEFINE f == ws_fd[t]
           c == ws_conn[t]
<1>1. WsTyped /\ WsThreads /\ WsStream /\ WsOld /\ WsMaps /\ WsClosed /\ WsHands
  BY DEF WsInv
<1>2. /\ Ws!Go(t, "close", "tell") /\ Ws!Stay
      /\ ws_owner' = [ws_owner EXCEPT ![f] = Ws!Free] /\ ws_polled' = ws_polled \ {c}
      /\ UNCHANGED <<ws_ended, ws_arrived, ws_fdToConn, ws_ids, ws_nextId, ws_connFd, ws_fetched,
                     ws_parsed, ws_handshaked, ws_got, ws_events, ws_connected, ws_closed,
                     ws_mistaken>>
  BY DEF Ws!CloseFd, Ws!peers, Ws!maps, Ws!stream
<1>3. "tell" \in WsSteps /\ {"tell", "close"} \subseteq WsOwnSteps
  BY DEF WsSteps, WsOwnSteps
<1>4. ws_pc[t] = "close" /\ Moves(t, "tell", c, f)
  BY <1>1, <1>2, <1>3, WsStays
<1>5. /\ c \in Ws!Conns /\ c < ws_nextId /\ f \in Fds /\ ws_owner[f] = c /\ c \notin ws_ids
      /\ ws_closed[c] = 0 /\ ws_pc[t] \in WsOwnSteps
  BY <1>1, <1>3, <1>4 DEF WsHands, WsHand
<1> HIDE DEF c, f
<1>6. WsTyped'
  BY <1>1, <1>2, <1>5 DEF WsTyped
<1>7. WsThreads' /\ WsStream' /\ WsClosed' /\ WsOld'
  BY <1>1, <1>2, <1>4, WsStreamKeeps DEF Moves, WsClosed, WsOld
<1>8. \A g \in Fds : g # f => ws_owner'[g] = ws_owner[g]
  BY <1>1, <1>2, <1>5 DEF WsTyped
<1>9. WsMaps'
  <2>1. \A d \in ws_ids : ws_connFd[d] # f /\ ws_connFd[d] \in Fds
    BY <1>1, <1>5, WsNobody DEF WsOld, WsTyped
  <2> QED BY <1>1, <1>2, <1>8, <2>1 DEF WsMaps
<1>10. WsHands'
  <2>1. ASSUME NEW u \in Ws!Threads, u # t PROVE WsHand(u)'
    <3>1. ws_pc'[u] = ws_pc[u] /\ ws_conn'[u] = ws_conn[u] /\ ws_fd'[u] = ws_fd[u]
      BY <1>4, <2>1 DEF Moves
    <3>2. ws_pc[u] \in WsOwnSteps => ws_conn[u] # c
      BY <1>1, <1>5, <2>1 DEF WsHands, c
    <3>3. ASSUME ws_pc[u] \in {"insert", "close"} PROVE ws_fd[u] \in Fds /\ ws_fd[u] # f
      <4>1. ws_fd[u] \in Fds /\ ws_owner[ws_fd[u]] = ws_conn[u] /\ ws_pc[u] \in WsOwnSteps
        BY <1>1, <3>3 DEF WsHands, WsHand, WsOwnSteps
      <4> QED BY <1>5, <3>2, <4>1
    <3> QED BY <1>1, <1>2, <1>8, <3>1, <3>3 DEF WsHands, WsHand
  <2>2. WsHand(t)'
    BY <1>2, <1>4, <1>5 DEF Moves, WsHand, WsOwnSteps
  <2>3. \A u \in Ws!Threads : ws_pc'[u] \in WsOwnSteps =>
            ws_pc[u] \in WsOwnSteps /\ ws_conn'[u] = ws_conn[u]
    BY <1>4, <1>5 DEF Moves, c
  <2> QED BY <1>1, <2>1, <2>2, <2>3 DEF WsHands
<1> QED BY <1>6, <1>7, <1>9, <1>10 DEF WsInv

LEMMA WsTellInv ==
  ASSUME WsInv, NEW t \in Ws!Threads, Ws!Tell(t)
  PROVE  WsInv'
<1> DEFINE c == ws_conn[t]
<1>1. WsTyped /\ WsThreads /\ WsStream /\ WsOld /\ WsMaps /\ WsClosed /\ WsHands
  BY DEF WsInv
<1>2. /\ Ws!Go(t, "tell", "idle") /\ Ws!Away(t)
      /\ ws_closed' = [ws_closed EXCEPT ![c] = @ + 1]
      /\ UNCHANGED <<ws_owner, ws_polled, ws_ended, ws_arrived, ws_fdToConn, ws_ids, ws_nextId,
                     ws_connFd, ws_fetched, ws_parsed, ws_handshaked, ws_got, ws_events,
                     ws_connected, ws_mistaken>>
  BY DEF Ws!Tell, Ws!peers, Ws!maps, Ws!stream
<1>3. "idle" \in WsSteps /\ "tell" \in WsOwnSteps /\ "idle" \notin WsOwnSteps
  BY DEF WsSteps, WsOwnSteps
<1>4. ws_pc[t] = "tell" /\ Moves(t, "idle", Ws!None, Ws!None)
  BY <1>1, <1>2, <1>3, WsRetires
<1>5. c \in Ws!Conns /\ c < ws_nextId /\ c \notin ws_ids /\ ws_closed[c] = 0
  BY <1>1, <1>3, <1>4 DEF WsHands, WsHand
<1> HIDE DEF c
<1>6. ws_closed'[c] = 1 /\ \A d \in Ws!Conns : d # c => ws_closed'[d] = ws_closed[d]
  BY <1>1, <1>2, <1>5 DEF WsTyped
<1>7. WsTyped'
  BY <1>1, <1>2, <1>5 DEF WsTyped
<1>8. WsThreads' /\ WsStream' /\ WsClosed'
  BY <1>1, <1>2, <1>4, <1>6, WsStreamKeeps DEF Moves, WsClosed
<1>9. WsOld'
  BY <1>1, <1>2, <1>5, <1>6 DEF WsOld
<1>10. WsMaps'
  <2>1. \A d \in ws_ids : d \in Ws!Conns /\ d # c
    BY <1>1, <1>5 DEF WsTyped
  <2> QED BY <1>1, <1>2, <1>6, <2>1 DEF WsMaps
<1>11. WsHands'
  <2>1. ASSUME NEW u \in Ws!Threads, u # t PROVE WsHand(u)'
    <3>1. ws_pc'[u] = ws_pc[u] /\ ws_conn'[u] = ws_conn[u] /\ ws_fd'[u] = ws_fd[u]
      BY <1>4, <2>1 DEF Moves
    <3>2. ws_pc[u] \in WsOwnSteps => ws_conn[u] \in Ws!Conns /\ ws_conn[u] # c
      BY <1>1, <1>3, <1>4, <2>1 DEF WsHands, WsHand, c
    <3> QED BY <1>1, <1>2, <1>6, <3>1, <3>2 DEF WsHands, WsHand
  <2>2. WsHand(t)'
    BY <1>3, <1>4 DEF Moves, WsHand
  <2>3. \A u \in Ws!Threads : ws_pc'[u] \in WsOwnSteps =>
            ws_pc[u] \in WsOwnSteps /\ ws_conn'[u] = ws_conn[u]
    BY <1>3, <1>4 DEF Moves
  <2> QED BY <1>1, <2>1, <2>2, <2>3 DEF WsHands
<1> QED BY <1>7, <1>8, <1>9, <1>10, <1>11 DEF WsInv

\* The rest of the process opens and closes descriptors of its own.
LEMMA WsOtherInv ==
  ASSUME WsInv, Ws!Other
  PROVE  WsInv'
<1>1. WsTyped /\ WsThreads /\ WsStream /\ WsOld /\ WsMaps /\ WsClosed /\ WsHands
  BY DEF WsInv
<1>2. UNCHANGED <<ws_polled, ws_ended, ws_arrived, ws_fdToConn, ws_ids, ws_nextId, ws_connFd,
                  ws_fetched, ws_parsed, ws_handshaked, ws_got, ws_events, ws_pc, ws_conn, ws_fd,
                  ws_connected, ws_closed, ws_mistaken>>
  BY DEF Ws!Other, Ws!peers, Ws!maps, Ws!stream
<1>3. PICK f \in Fds, x \in {Ws!Rest, Ws!Free} :
        ws_owner[f] \in {Ws!Rest, Ws!Free} /\ ws_owner' = [ws_owner EXCEPT ![f] = x]
  <2>1. CASE Ws!Unopened # {} /\ ws_owner' = [ws_owner EXCEPT ![Ws!Min(Ws!Unopened)] = Ws!Rest]
    <3>1. Ws!Unopened \subseteq Nat
      BY WsDistinct DEF Ws!Unopened
    <3>2. Ws!Min(Ws!Unopened) \in Ws!Unopened
      BY <2>1, <3>1, WsLeast
    <3> QED BY <2>1, <3>2 DEF Ws!Unopened
  <2>2. CASE \E f \in Fds : /\ ws_owner[f] = Ws!Rest
                            /\ ws_owner' = [ws_owner EXCEPT ![f] = Ws!Free]
    BY <2>2
  <2> QED BY <2>1, <2>2 DEF Ws!Other
<1>4. ws_owner[f] \notin Ws!Conns /\ \A g \in Fds : g # f => ws_owner'[g] = ws_owner[g]
  BY <1>1, <1>3, WsDistinct DEF WsTyped
<1>5. WsTyped'
  BY <1>1, <1>2, <1>3 DEF WsTyped
<1>6. WsThreads' /\ WsStream' /\ WsClosed' /\ WsOld'
  BY <1>1, <1>2, WsStreamKeeps DEF WsThreads, WsClosed, WsOld
<1>7. WsMaps'
  <2>1. \A d \in ws_ids : ws_connFd[d] # f /\ ws_connFd[d] \in Fds
    BY <1>1, <1>4, WsNobody DEF WsOld, WsTyped
  <2> QED BY <1>1, <1>2, <1>4, <2>1 DEF WsMaps
<1>8. WsHands'
  <2>1. ASSUME NEW u \in Ws!Threads, ws_pc[u] \in {"insert", "close"}
        PROVE  ws_fd[u] \in Fds /\ ws_fd[u] # f
    BY <1>1, <1>4, <2>1 DEF WsHands, WsHand
  <2>2. ASSUME NEW u \in Ws!Threads PROVE WsHand(u)'
    BY <1>1, <1>2, <1>4, <2>1 DEF WsHands, WsHand
  <2> QED BY <1>1, <1>2, <2>2 DEF WsHands
<1> QED BY <1>5, <1>6, <1>7, <1>8 DEF WsInv

LEMMA WsNextInv == WsInv /\ [Ws!Next]_ws_vars => WsInv'
<1> SUFFICES ASSUME WsInv, [Ws!Next]_ws_vars PROVE WsInv'
  OBVIOUS
<1>1. CASE UNCHANGED ws_vars
  BY <1>1 DEF ws_vars, WsInv, WsTyped, WsThreads, WsStream, WsOld, WsMaps, WsClosed, WsHands,
              WsHand, Ws!Messages
<1>2. CASE Ws!Next
  BY <1>2, WsAcceptInv, WsInsertInv, WsAddInv, WsEpollInv, WsEventInv, WsReadInv,
     WsHandshakeInv, WsFramesInv, WsEraseInv, WsCloseInv, WsTellInv, WsCallInv, WsWriteInv,
     WsClientInv, WsOtherInv
     DEF Ws!Next, Ws!acceptLoop, Ws!removeConn
<1> QED BY <1>1, <1>2

LEMMA WsInvListed == WsInv => Ws!TypeOK /\ Ws!MapsTrue /\ Ws!HandledOnce
<1> SUFFICES ASSUME WsInv PROVE Ws!TypeOK /\ Ws!MapsTrue /\ Ws!HandledOnce
  OBVIOUS
<1>1. WsTyped /\ WsThreads /\ WsStream /\ WsMaps /\ WsClosed
  BY DEF WsInv
<1>2. Ws!TypeOK
  BY <1>1 DEF Ws!TypeOK, WsTyped, WsThreads, WsStream
<1>3. Ws!MapsTrue
  BY <1>1 DEF Ws!MapsTrue, WsMaps
<1>4. Ws!HandledOnce
  BY <1>1 DEF Ws!HandledOnce, WsStream, WsClosed
<1> QED BY <1>2, <1>3, <1>4

-----------------------------------------------------------------------------
(* Both listeners.                                                          *)

\* The tables of the WebSocket listener lead to its own open connections, and each message
\* is handled once; of both listeners, the end of a connection is told at most once, after
\* it has left the tables (WsListener::acceptLoop, removeConn, readData, parseFrames;
\* KcpListener::processUdpPacket, updateLoop, close_conn, stop).
THEOREM ListedCorrect == SocketsSpec => []Listed
<1> DEFINE I == WsInv /\ KcpInv
<1>1. SocketsInit => I
  BY WsInitInv, KcpInitInv DEF SocketsInit
<1>2. I /\ [SocketsNext]_<<side, vars, ws_vars, kcp_vars>> => I'
  <2> SUFFICES ASSUME I, [SocketsNext]_<<side, vars, ws_vars, kcp_vars>> PROVE I'
    OBVIOUS
  <2>1. [Ws!Next]_ws_vars /\ [Kcp!Next]_kcp_vars
    BY DEF SocketsNext
  <2> QED BY <2>1, WsNextInv, KcpNextInv
<1>3. I => Listed
  BY WsInvListed, KcpInvListed DEF Listed
<1> QED BY <1>1, <1>2, <1>3, PTL DEF SocketsSpec

----------------------------------------------------------------------------
(* The link of a node to the centre.                                        *)

NodeAnswers == [kind : {"regist", "status"}, infos : SUBSET Others]

\* The tasks of the timer.
TasksInv ==
    /\ made \in [Callbacks -> 0 .. MaxTasks]
    /\ due \in Seq(Callbacks)
    /\ job \in Callbacks \cup {Idle}
    /\ \A cb \in Callbacks : Waiting(cb) \in Nat

\* The connection and the threads that use it.
ClientInv ==
    /\ running_ \in BOOLEAN /\ silent \in BOOLEAN
    /\ event_thread_ \in {"none", "loop", "ended"}
    /\ link \in {"none", "up"} \cup Gone
    /\ at \in [Threads -> Stages]
    /\ requests \in Seq({"regist", "status"}) /\ answers \in Seq(NodeAnswers)
    /\ Len(requests) + Len(answers) <= MaxInFlight
    /\ losses \in 0 .. MaxLosses

\* The timer's thread has joined the event thread before it closes the connection, and
\* nobody but itself makes the next.
StartInv ==
    /\ at["timer"] \in {"close", "start", "connect"} => event_thread_ = "none"
    /\ at["timer"] \in {"start", "connect"} => link # "up"

\* The centre knows a connection only while it is up, and each was made together with a
\* heartbeat.
LinkInv ==
    /\ mapped \in BOOLEAN /\ stale \in Nat
    /\ requests # <<>> => link = "up"
    /\ mapped => link = "up"
    /\ stale + (IF link = "up" THEN 1 ELSE 0) <= made["heartbeat"]

\* The tables of the node hold what an answer named, and differ between the two stores.
TablesInv ==
    /\ others \subseteq Others /\ queue \in Seq(Delta)
    /\ ServiceMap_ \subseteq Others /\ NameInstances_ \subseteq Others
    /\ storing = NoTable \/ storing \subseteq Others
    /\ IF storing = NoTable THEN NameInstances_ = ServiceMap_ ELSE storing = ServiceMap_

NodeInv == TasksInv /\ ClientInv /\ StartInv /\ LinkInv /\ TablesInv

\* How many of the tasks s have callback cb.
Tasks(s, cb) == Cardinality({n \in DOMAIN s : s[n] = cb})

LEMMA DueCount ==
  ASSUME NEW S, NEW s \in Seq(S), NEW cb
  PROVE  /\ IsFiniteSet({n \in DOMAIN s : s[n] = cb})
         /\ Tasks(s, cb) \in Nat
<1>1. IsFiniteSet(DOMAIN s)
  <2>1. DOMAIN s = 1 .. Len(s) /\ Len(s) \in Nat
    OBVIOUS
  <2> QED BY <2>1, FS_Interval
<1>2. IsFiniteSet({n \in DOMAIN s : s[n] = cb})
  BY <1>1, FS_Subset
<1> QED BY <1>2, FS_CardinalityType DEF Tasks

LEMMA DueMore ==
  ASSUME NEW S, NEW s \in Seq(S), NEW c \in S, NEW cb
  PROVE  Tasks(Append(s, c), cb) = Tasks(s, cb) + (IF c = cb THEN 1 ELSE 0)
<1> DEFINE A == {n \in DOMAIN s : s[n] = cb}
           B == {n \in DOMAIN Append(s, c) : Append(s, c)[n] = cb}
           k == Len(s) + 1
<1>1. /\ Len(s) \in Nat /\ DOMAIN s = 1 .. Len(s) /\ DOMAIN Append(s, c) = 1 .. k
      /\ Append(s, c)[k] = c /\ \A n \in 1 .. Len(s) : Append(s, c)[n] = s[n]
  OBVIOUS
<1>2. 1 .. k = (1 .. Len(s)) \cup {k} /\ k \notin 1 .. Len(s)
  BY <1>1
<1>3. IsFiniteSet(A) /\ k \notin A
  BY <1>1, <1>2, DueCount
<1>4. B = IF c = cb THEN A \cup {k} ELSE A
  BY <1>1, <1>2
<1>5. Cardinality(A \cup {k}) = Cardinality(A) + 1
  <2> HIDE DEF A, k
  <2> QED BY <1>3, FS_AddElement
<1>6. Cardinality(A) \in Nat
  BY DueCount DEF Tasks
<1> HIDE DEF A, B, k
<1>7. Cardinality(B) = Cardinality(A) + (IF c = cb THEN 1 ELSE 0)
  BY <1>4, <1>5, <1>6
<1> QED BY <1>7 DEF A, B, Tasks

LEMMA DueLess ==
  ASSUME NEW S, NEW s \in Seq(S), s # << >>, NEW cb
  PROVE  /\ Head(s) \in S /\ Tail(s) \in Seq(S)
         /\ Tasks(s, cb) = Tasks(Tail(s), cb) + (IF Head(s) = cb THEN 1 ELSE 0)
<1> DEFINE A == {n \in DOMAIN Tail(s) : Tail(s)[n] = cb}
           B == {n \in DOMAIN s : s[n] = cb}
           C == B \ {1}
           f == [n \in A |-> n + 1]
<1>1. /\ Len(s) \in Nat \ {0} /\ DOMAIN s = 1 .. Len(s) /\ DOMAIN Tail(s) = 1 .. Len(s) - 1
      /\ Head(s) = s[1] /\ Head(s) \in S /\ Tail(s) \in Seq(S)
      /\ \A n \in 1 .. Len(s) - 1 : Tail(s)[n] = s[n + 1]
  OBVIOUS
<1>2. IsFiniteSet(A) /\ IsFiniteSet(B) /\ Cardinality(A) \in Nat /\ Cardinality(B) \in Nat
  BY <1>1, DueCount DEF Tasks
<1>3. f \in Bijection(A, C)
  <2>1. ASSUME NEW n \in A PROVE f[n] \in C /\ f[n] = n + 1 /\ n \in Nat
    BY <1>1
  <2>2. ASSUME NEW n \in C PROVE n - 1 \in A /\ (n - 1) + 1 = n
    BY <1>1
  <2>3. f \in [A -> C]
    <3> HIDE DEF A, C
    <3> QED BY <2>1
  <2>4. \A n, m \in A : f[n] = f[m] => n = m
    <3> HIDE DEF A, C, f
    <3> QED BY <2>1
  <2>5. \A n \in C : \E m \in A : f[m] = n
    <3> SUFFICES ASSUME NEW n \in C PROVE f[n - 1] = n /\ n - 1 \in A
      OBVIOUS
    <3>1. n - 1 \in A /\ (n - 1) + 1 = n
      BY <2>2
    <3>2. f[n - 1] = (n - 1) + 1
      BY <3>1, <2>1
    <3> HIDE DEF A, C, f
    <3> QED BY <3>1, <3>2
  <2> HIDE DEF A, C, f
  <2> QED BY <2>3, <2>4, <2>5, Fun_IsBij
<1>4. Cardinality(C) = Cardinality(A)
  <2>1. ExistsBijection(A, C)
    <3> HIDE DEF A, C, f
    <3> QED BY <1>3 DEF ExistsBijection
  <2> HIDE DEF A, C
  <2> QED BY <1>2, <2>1, FS_Bijection
<1>5. Cardinality(C) = IF 1 \in B THEN Cardinality(B) - 1 ELSE Cardinality(B)
  <2> HIDE DEF B
  <2> QED BY <1>2, FS_RemoveElement
<1>6. 1 \in B <=> Head(s) = cb
  BY <1>1
<1> HIDE DEF A, B, C, f
<1>7. Cardinality(B) = Cardinality(A) + (IF Head(s) = cb THEN 1 ELSE 0)
  BY <1>2, <1>4, <1>5, <1>6
<1> QED BY <1>1, <1>7 DEF A, B, Tasks

\* Tasks are made one at a time, and stay where they are counted.
LEMMA TasksKept ==
  ASSUME TasksInv, due' = due, job' \in {job, Idle}, NEW c \in Callbacks,
         made' = made \/ (CanAdd(c) /\ made' = [made EXCEPT ![c] = @ + 1])
  PROVE  TasksInv' /\ \A cb \in Callbacks : made'[cb] >= made[cb]
<1>1. made' \in [Callbacks -> 0 .. MaxTasks] /\ \A cb \in Callbacks : made'[cb] >= made[cb]
  <2>1. made \in [Callbacks -> 0 .. MaxTasks] /\ MaxTasks \in Nat
    BY TimerAssumption DEF TasksInv
  <2>2. CASE made' = made
    BY <2>1, <2>2
  <2>3. CASE CanAdd(c) /\ made' = [made EXCEPT ![c] = @ + 1]
    BY <2>1, <2>3 DEF CanAdd
  <2> QED BY <2>2, <2>3
<1>2. ASSUME NEW cb \in Callbacks PROVE Waiting(cb)' \in Nat
  <2> DEFINE k == Tasks(due, cb)
  <2>0. k \in Nat
    BY DueCount DEF TasksInv
  <2>1. k \in Nat /\ made[cb] \in Nat /\ made'[cb] \in Nat /\ made'[cb] >= made[cb]
    <3> HIDE DEF k
    <3> QED BY <1>1, <2>0 DEF TasksInv
  <2>2. Waiting(cb) = made[cb] - k - (IF job = cb THEN 1 ELSE 0)
    BY DEF Waiting, Tasks
  <2>3. Waiting(cb)' = made'[cb] - k - (IF job' = cb THEN 1 ELSE 0)
    BY DEF Waiting, Tasks
  <2>4. job' = cb => job = cb
    BY TimerAssumption
  <2>5. Waiting(cb) \in Nat
    BY DEF TasksInv
  <2> HIDE DEF k
  <2> QED BY <2>1, <2>2, <2>3, <2>4, <2>5
<1> QED BY <1>1, <1>2 DEF TasksInv

LEMMA TasksSame ==
  ASSUME TasksInv, UNCHANGED timervars \/ Requeue
  PROVE  TasksInv' /\ made' = made
<1>1. "heartbeat" \in Callbacks
  BY NodeAssumption
<1>2. due' = due /\ job' \in {job, Idle} /\ made' = made
  BY DEF timervars, Requeue
<1> QED BY <1>1, <1>2, TasksKept

LEMMA TasksClock ==
  ASSUME TasksInv, TakeTask \/ \E cb \in Callbacks : FallDue(cb)
  PROVE  TasksInv' /\ made' = made
<1>1. CASE TakeTask
  <2>1. due \in Seq(Callbacks) /\ due # << >> /\ job = Idle /\ job' = Head(due) /\ due' = Tail(due) /\ made' = made
    BY <1>1 DEF TakeTask, TasksInv
  <2>2. job' \in Callbacks /\ due' \in Seq(Callbacks)
    BY <2>1, DueLess
  <2>3. ASSUME NEW cb \in Callbacks PROVE Waiting(cb)' \in Nat
    <3> DEFINE k == Tasks(due, cb)
               l == Tasks(Tail(due), cb)
    <3>0. l \in Nat /\ k \in Nat /\ k = l + (IF Head(due) = cb THEN 1 ELSE 0)
      <4>1. Tail(due) \in Seq(Callbacks)
        BY <2>1, <2>2
      <4>2. due \in Seq(Callbacks) /\ due # << >>
        BY <2>1
      <4>3. k \in Nat /\ l \in Nat
        BY ONLY <4>1, <4>2, DueCount
      <4>4. k = l + (IF Head(due) = cb THEN 1 ELSE 0)
        BY ONLY <4>2, DueLess
      <4> QED BY <4>3, <4>4
    <3>1. k = l + (IF job' = cb THEN 1 ELSE 0) /\ k \in Nat /\ l \in Nat /\ made[cb] \in Nat
      <4> HIDE DEF k, l
      <4> QED BY <2>1, <3>0 DEF TasksInv
    <3>2. Waiting(cb) = made[cb] - k /\ Waiting(cb) \in Nat
      <4>1. job # cb
        BY <2>1, TimerAssumption
      <4>2. Waiting(cb) = made[cb] - k - (IF job = cb THEN 1 ELSE 0)
        BY DEF Waiting, Tasks
      <4>3. Waiting(cb) \in Nat
        BY DEF TasksInv
      <4> HIDE DEF k, l
      <4> QED BY <3>1, <4>1, <4>2, <4>3
    <3>3. Waiting(cb)' = made[cb] - l - (IF job' = cb THEN 1 ELSE 0)
      BY <2>1 DEF Waiting, Tasks
    <3> HIDE DEF k, l
    <3> QED BY <3>1, <3>2, <3>3
  <2> QED BY <2>1, <2>2, <2>3 DEF TasksInv
<1>2. ASSUME NEW c \in Callbacks, FallDue(c) PROVE TasksInv' /\ made' = made
  <2>1. due \in Seq(Callbacks) /\ due' = Append(due, c) /\ made' = made /\ job' = job /\ Waiting(c) > 0
    BY <1>2 DEF FallDue, TasksInv
  <2>2. ASSUME NEW cb \in Callbacks PROVE Waiting(cb)' \in Nat
    <3> DEFINE k == Tasks(due, cb)
               l == Tasks(Append(due, c), cb)
    <3>0. l = k + (IF c = cb THEN 1 ELSE 0) /\ k \in Nat
      <4>1. due \in Seq(Callbacks) /\ c \in Callbacks
        BY <2>1
      <4>2. k \in Nat
        BY ONLY <4>1, DueCount
      <4>3. l = k + (IF c = cb THEN 1 ELSE 0)
        BY ONLY <4>1, DueMore
      <4> QED BY <4>2, <4>3
    <3>1. l = k + (IF c = cb THEN 1 ELSE 0) /\ k \in Nat /\ made[cb] \in Nat
      <4> HIDE DEF k, l
      <4> QED BY <3>0 DEF TasksInv
    <3>2. Waiting(cb) = made[cb] - k - (IF job = cb THEN 1 ELSE 0)
      BY DEF Waiting, Tasks
    <3>3. Waiting(cb)' = made[cb] - l - (IF job = cb THEN 1 ELSE 0)
      BY <2>1 DEF Waiting, Tasks
    <3>4. Waiting(cb) \in Nat /\ (c = cb => Waiting(cb) > 0)
      BY <2>1 DEF TasksInv
    <3> HIDE DEF k, l
    <3> QED BY <3>1, <3>2, <3>3, <3>4
  <2>3. due' \in Seq(Callbacks)
    BY <2>1
  <2> QED BY <2>1, <2>2, <2>3 DEF TasksInv
<1> QED BY <1>1, <1>2

LEMMA EmptyIn ==
  ASSUME NEW T
  PROVE  << >> \in Seq(T) /\ Len(<< >>) = 0
OBVIOUS

\* What an action that keeps the tables of the node does to their invariant.
LEMMA TablesKept ==
  ASSUME TablesInv, UNCHANGED <<ServiceMap_, NameInstances_, storing>>,
         others' \subseteq Others, queue' \in Seq(Delta)
  PROVE  TablesInv'
BY DEF TablesInv

\* A step of the threads that leaves the link as it is.
LEMMA LinkKept ==
  ASSUME LinkInv, UNCHANGED <<mapped, stale, link>>, requests' # << >> => link = "up",
         made'["heartbeat"] >= made["heartbeat"], made["heartbeat"] \in Nat, made'["heartbeat"] \in Nat
  PROVE  LinkInv'
BY DEF LinkInv

LEMMA Made ==
  ASSUME TasksInv
  PROVE  made["heartbeat"] \in Nat
BY NodeAssumption, TimerAssumption DEF TasksInv

LEMMA HandleKeeps ==
  ASSUME NodeInv, Handle
  PROVE  NodeInv'
<1>1. /\ requests \in Seq({"regist", "status"}) /\ answers \in Seq(NodeAnswers) /\ requests # << >>
      /\ requests' = Tail(requests)
      /\ UNCHANGED <<timervars, busvars, running_, event_thread_, link, silent, at, losses, others, stale>>
  BY DEF Handle, onRegist, onUpdateServiceStatus, NodeInv, ClientInv, Answer
<1>2. Upserted(queue) \subseteq Others
  <2>1. queue \in Seq(Delta)
    BY DEF NodeInv, TablesInv
  <2>2. \A n \in DOMAIN queue : queue[n] \in Delta
    BY <2>1
  <2>3. \A d \in Delta : d.inst \in Others
    BY DEF Delta
  <2> QED BY <2>2, <2>3 DEF Upserted
<1>3. PICK m \in NodeAnswers : answers' = Append(answers, m)
  <2>1. CASE onRegist
    BY <2>1 DEF onRegist, Answer, NodeAnswers
  <2>2. CASE onUpdateServiceStatus
    <3>1. others \subseteq Others
      BY DEF NodeInv, TablesInv
    <3> QED BY <1>2, <2>2, <3>1 DEF onUpdateServiceStatus, Answer, NodeAnswers
  <2> QED BY <2>1, <2>2 DEF Handle
<1>4. /\ answers' \in Seq(NodeAnswers) /\ Len(answers') = Len(answers) + 1
      /\ requests' \in Seq({"regist", "status"}) /\ Len(requests') = Len(requests) - 1
      /\ Len(answers) \in Nat /\ Len(requests) \in Nat \ {0}
  BY <1>1, <1>3
<1>5. link = "up"
  BY <1>1 DEF NodeInv, LinkInv
<1>6. mapped' \in BOOLEAN /\ queue' \in Seq(Delta)
  <2>1. queue' \in {queue, << >>} /\ mapped' \in {mapped, TRUE, mapped \/ (~cached /\ ~registered)}
    BY DEF Handle, onRegist, onUpdateServiceStatus
  <2>2. queue \in Seq(Delta) /\ mapped \in BOOLEAN
    BY DEF NodeInv, TablesInv, LinkInv
  <2> QED BY <2>1, <2>2, EmptyIn
<1>7. TasksInv' /\ made' = made
  BY <1>1, TasksSame DEF NodeInv
<1>8. ClientInv' /\ StartInv'
  BY <1>1, <1>4 DEF NodeInv, ClientInv, StartInv
<1>9. LinkInv'
  BY <1>1, <1>5, <1>6, <1>7 DEF NodeInv, LinkInv
<1>10. TablesInv'
  BY <1>1, <1>6, TablesKept DEF NodeInv, TablesInv, busvars
<1> QED BY <1>7, <1>8, <1>9, <1>10 DEF NodeInv

\* What the centre learns of others and forgets of this node.
LEMMA CenterKeeps ==
  ASSUME NodeInv, StaleClosed \/ Expire \/ \E i \in Others : Change(i)
  PROVE  NodeInv'
<1>1. UNCHANGED <<timervars, clientvars, busvars, mapped>>
  BY DEF StaleClosed, Expire, Change
<1>2. stale' \in Nat /\ stale' <= stale /\ stale \in Nat
  BY DEF StaleClosed, Expire, Change, NodeInv, LinkInv
<1>3. others' \subseteq Others /\ queue' \in Seq(Delta)
  <2>1. others \subseteq Others /\ queue \in Seq(Delta)
    BY DEF NodeInv, TablesInv
  <2>2. ASSUME NEW i \in Others, Change(i) PROVE others' \subseteq Others /\ queue' \in Seq(Delta)
    <3>1. \A op \in {"UPSERT", "OFFLINE"} : [op |-> op, inst |-> i] \in Delta
      BY DEF Delta
    <3>2. \A op \in {"UPSERT", "OFFLINE"} : Queued(op, i) \in Seq(Delta)
      <4> SUFFICES ASSUME NEW op \in {"UPSERT", "OFFLINE"} PROVE Queued(op, i) \in Seq(Delta)
        OBVIOUS
      <4>1. Append(queue, [op |-> op, inst |-> i]) \in Seq(Delta)
        BY <2>1, <3>1
      <4> QED BY <2>1, <4>1 DEF Queued
    <3> QED BY <2>1, <2>2, <3>2 DEF Change
  <2>3. CASE StaleClosed \/ Expire
    <3>1. others' = others /\ queue' \in {queue, << >>}
      BY <2>3 DEF StaleClosed, Expire, Deregister
    <3> QED BY <2>1, <3>1, EmptyIn
  <2> QED BY <2>2, <2>3
<1>4. TasksInv' /\ made' = made /\ made["heartbeat"] \in Nat
  BY <1>1, TasksSame, Made DEF NodeInv
<1>5. ClientInv' /\ StartInv'
  BY <1>1 DEF NodeInv, ClientInv, StartInv, clientvars
<1>6. LinkInv'
  BY <1>1, <1>2, <1>4 DEF NodeInv, LinkInv, clientvars
<1>7. TablesInv'
  BY <1>1, <1>3, TablesKept DEF NodeInv, busvars
<1> QED BY <1>4, <1>5, <1>6, <1>7 DEF NodeInv

\* The connection is lost.
LEMMA LossKeeps ==
  ASSUME NodeInv, Kick \/ Die
  PROVE  NodeInv'
<1>1. PICK how \in {"cut", "dead"} : Lose(how)
  BY DEF Kick, Die
<1>2. /\ link = "up" /\ link' = how /\ requests' = << >> /\ answers' \in {answers, << >>}
      /\ losses < MaxLosses /\ losses' = losses + 1
      /\ UNCHANGED <<timervars, running_, event_thread_, silent, at>>
  BY <1>1 DEF Lose, Spoil
<1>3. UNCHANGED <<busvars, others>> /\ mapped' = FALSE /\ stale' \in {stale, stale + 1}
  BY DEF Kick, Die, Forget, NodeInv, LinkInv
<1>4. queue' \in Seq(Delta)
  <2>1. queue \in Seq(Delta) /\ queue' \in {queue, << >>}
    BY DEF Kick, Die, Deregister, NodeInv, TablesInv
  <2> QED BY <2>1, EmptyIn
<1>5. TasksInv' /\ made' = made /\ made["heartbeat"] \in Nat
  BY <1>2, TasksSame, Made DEF NodeInv
<1>6. ClientInv'
  <2>1. requests' \in Seq({"regist", "status"}) /\ Len(requests') = 0
    BY <1>2
  <2>2. answers' \in Seq(NodeAnswers) /\ Len(answers') <= MaxInFlight
    <3>1. answers \in Seq(NodeAnswers) /\ Len(requests) \in Nat /\ Len(answers) \in Nat
          /\ Len(requests) + Len(answers) <= MaxInFlight
      BY DEF NodeInv, ClientInv
    <3>2. CASE answers' = answers
      BY <3>1, <3>2, ClientAssumption
    <3>3. CASE answers' = << >>
      BY <3>3, EmptyIn, ClientAssumption
    <3> QED BY <1>2, <3>2, <3>3
  <2>3. Len(answers') \in Nat
    BY <2>2
  <2>4. losses' \in 0 .. MaxLosses
    BY <1>2, ClientAssumption DEF NodeInv, ClientInv
  <2> QED BY <1>2, <2>1, <2>2, <2>3, <2>4, ClientAssumption DEF NodeInv, ClientInv, Gone
<1>7. StartInv'
  BY <1>2 DEF NodeInv, StartInv
<1>8. LinkInv'
  <2>1. stale \in Nat /\ stale + 1 <= made["heartbeat"] /\ link' # "up"
    BY <1>2 DEF NodeInv, LinkInv
  <2>2. stale' \in Nat /\ stale' <= made'["heartbeat"]
    BY <1>3, <1>5, <2>1
  <2>3. mapped' \in BOOLEAN /\ requests' = << >> /\ ~mapped'
    BY <1>2, <1>3
  <2> QED BY <2>1, <2>2, <2>3 DEF LinkInv
<1>9. TablesInv'
  BY <1>3, <1>4, TablesKept DEF NodeInv, TablesInv, busvars
<1> QED BY <1>5, <1>6, <1>7, <1>8, <1>9 DEF NodeInv

LEMMA Staged ==
  ASSUME ClientInv, NEW t \in Threads, NEW to \in Stages, at' = [at EXCEPT ![t] = to]
  PROVE  /\ at' \in [Threads -> Stages] /\ at'[t] = to /\ "timer" \in Threads
         /\ \A u \in Threads : u # t => at'[u] = at[u]
BY DEF ClientInv, Threads

\* The steps that change nothing but where the threads are and what they know.
LEMMA StepKeeps ==
  ASSUME NodeInv, UNCHANGED <<timervars, link, requests, answers, mapped, stale, others, queue,
                              ServiceMap_, NameInstances_, storing>> \/
                  (Requeue /\ UNCHANGED <<link, requests, answers, mapped, stale, others, queue,
                                          ServiceMap_, NameInstances_, storing>>),
         running_' \in BOOLEAN, silent' \in BOOLEAN, losses' \in 0 .. MaxLosses,
         event_thread_' \in {"none", "loop", "ended"}, at' \in [Threads -> Stages],
         StartInv'
  PROVE  NodeInv'
<1>1. TasksInv' /\ made' = made /\ made["heartbeat"] \in Nat
  BY TasksSame, Made DEF NodeInv
<1>2. ClientInv'
  BY DEF NodeInv, ClientInv
<1>3. LinkInv'
  BY <1>1 DEF NodeInv, LinkInv
<1>4. TablesInv'
  BY DEF NodeInv, TablesInv
<1> QED BY <1>1, <1>2, <1>3, <1>4 DEF NodeInv

\* A send by the main thread or the timer's.
LEMMA SendKeeps ==
  ASSUME NodeInv, NEW t \in {"main", "timer"}, NEW m \in {"regist", "status"}, send(t, m),
         UNCHANGED timervars \/ Requeue,
         UNCHANGED <<busvars, centervars, event_thread_, link, answers>>
  PROVE  NodeInv'
<1>1. /\ running_ \in BOOLEAN /\ silent \in BOOLEAN /\ losses \in 0 .. MaxLosses
      /\ event_thread_ \in {"none", "loop", "ended"} /\ at \in [Threads -> Stages]
  BY DEF NodeInv, ClientInv
<1>2. CASE SendTaken(m)
  <2>1. TasksInv' /\ made' = made /\ made["heartbeat"] \in Nat
    BY TasksSame, Made DEF NodeInv
  <2>2. /\ requests \in Seq({"regist", "status"}) /\ Len(requests) \in Nat /\ Len(answers) \in Nat
        /\ Len(requests) + Len(answers) < MaxInFlight
    BY <1>2 DEF SendTaken, NodeInv, ClientInv
  <2>3. /\ requests' \in Seq({"regist", "status"}) /\ Len(requests') + Len(answers) <= MaxInFlight
        /\ requests' # << >> => link = "up"
    <3>1. CASE link = "up"
      <4>1. requests' = Append(requests, m)
        BY <1>2, <3>1 DEF SendTaken
      <4>2. requests' \in Seq({"regist", "status"}) /\ Len(requests') = Len(requests) + 1
        BY <2>2, <4>1
      <4> QED BY <2>2, <3>1, <4>2, ClientAssumption
    <3>2. CASE link # "up"
      BY <1>2, <2>2, <3>2, ClientAssumption DEF SendTaken, NodeInv, LinkInv
    <3> QED BY <3>1, <3>2
  <2>4. ClientInv'
    BY <1>1, <1>2, <2>3 DEF SendTaken, NodeInv, ClientInv
  <2>5. StartInv'
    BY <1>2 DEF SendTaken, NodeInv, StartInv
  <2>6. LinkInv'
    BY <2>1, <2>3, LinkKept DEF NodeInv, centervars
  <2>7. TablesInv'
    BY DEF NodeInv, TablesInv, busvars, centervars
  <2> QED BY <2>1, <2>4, <2>5, <2>6, <2>7 DEF NodeInv
<1>3. CASE SendFails(t)
  <2>1. /\ at[t] = "no" /\ at' = [at EXCEPT ![t] = "check"] /\ running_' = FALSE
        /\ silent' = silent /\ requests' = requests
    BY <1>3 DEF SendFails, StopBegin, Stage
  <2>2. /\ at' \in [Threads -> Stages] /\ at'[t] = "check" /\ "timer" \in Threads
        /\ \A u \in Threads : u # t => at'[u] = at[u]
    BY <2>1, Staged DEF NodeInv, Threads, Stages
  <2>3. losses' \in 0 .. MaxLosses
    BY <1>1, <1>3, ClientAssumption DEF SendFails, Spoil
  <2>4. StartInv'
    BY <2>2 DEF NodeInv, StartInv
  <2> QED BY <1>1, <2>1, <2>2, <2>3, <2>4, StepKeeps DEF busvars, centervars
<1>4. CASE SendNot
  <2>1. StartInv'
    BY <1>4 DEF SendNot, NodeInv, StartInv
  <2> QED BY <1>1, <1>4, <2>1, StepKeeps DEF SendNot, busvars, centervars
<1> QED BY <1>2, <1>3, <1>4 DEF send

\* The answers that the node reads.
LEMMA ReceiveKeeps ==
  ASSUME NodeInv, Receive,
         UNCHANGED <<running_, event_thread_, link, at, requests, losses, mapped, stale>>,
         made'["heartbeat"] = made["heartbeat"], TasksInv', TablesInv'
  PROVE  NodeInv'
<1>1. /\ answers \in Seq(NodeAnswers) /\ answers # << >> /\ answers' = Tail(answers) /\ silent' = FALSE
  BY DEF Receive, NodeInv, ClientInv
<1>2. answers' \in Seq(NodeAnswers) /\ Len(answers') = Len(answers) - 1 /\ Len(answers) \in Nat \ {0}
  BY <1>1
<1>3. ClientInv'
  <2>1. Len(requests) \in Nat /\ Len(requests) + Len(answers) <= MaxInFlight
    BY DEF NodeInv, ClientInv
  <2>2. Len(requests) + Len(answers') <= MaxInFlight
    BY <1>2, <2>1, ClientAssumption
  <2> QED BY <1>1, <1>2, <2>2 DEF NodeInv, ClientInv
<1>4. StartInv'
  BY DEF NodeInv, StartInv
<1>5. LinkInv'
  BY Made, LinkKept DEF NodeInv, LinkInv
<1> QED BY <1>3, <1>4, <1>5 DEF NodeInv

LEMMA AnswersKeep ==
  ASSUME NodeInv, onCenterRegistRsp \/ StoreMap
  PROVE  NodeInv'
<1>1. CASE onCenterRegistRsp
  <2>1. "status" \in Callbacks /\ "status" # "heartbeat" /\ made \in [Callbacks -> 0 .. MaxTasks]
    BY NodeAssumption DEF NodeInv, TasksInv
  <2>2. CanAdd("status") /\ made' = [made EXCEPT !["status"] = @ + 1] /\ due' = due /\ job' = job
    BY <1>1 DEF onCenterRegistRsp, runEvery
  <2>3. TasksInv' /\ made'["heartbeat"] = made["heartbeat"]
    <3>1. TasksInv
      BY DEF NodeInv
    <3>2. TasksInv'
      BY ONLY <2>1, <2>2, <3>1, TasksKept
    <3>3. "heartbeat" \in Callbacks
      BY NodeAssumption
    <3> QED BY <2>1, <2>2, <3>2, <3>3
  <2>4. TablesInv'
    BY <1>1 DEF onCenterRegistRsp, NodeInv, TablesInv, centervars
  <2> QED BY <1>1, <2>3, <2>4, ReceiveKeeps DEF onCenterRegistRsp, centervars
<1>2. CASE StoreMap
  <2>1. TasksInv' /\ made' = made
    BY <1>2, TasksSame DEF StoreMap, NodeInv
  <2>2. Head(answers).infos \in SUBSET Others
    <3>1. answers \in Seq(NodeAnswers) /\ answers # << >>
      BY <1>2 DEF StoreMap, Receive, NodeInv, ClientInv
    <3>2. Head(answers) \in NodeAnswers
      BY <3>1
    <3> QED BY <3>2 DEF NodeAnswers
  <2>3. TablesInv'
    BY <1>2, <2>2, NodeAssumption DEF StoreMap, NodeInv, TablesInv, centervars
  <2> QED BY <1>2, <2>1, <2>3, ReceiveKeeps DEF StoreMap, centervars
<1> QED BY <1>1, <1>2

LEMMA StoreNamesKeeps ==
  ASSUME NodeInv, StoreNames
  PROVE  NodeInv'
<1>1. TasksInv' /\ made' = made
  BY TasksSame DEF StoreNames, NodeInv
<1>2. ClientInv' /\ StartInv' /\ LinkInv'
  BY <1>1 DEF StoreNames, NodeInv, ClientInv, StartInv, LinkInv, clientvars, centervars
<1>3. TablesInv'
  BY DEF StoreNames, NodeInv, TablesInv, centervars
<1> QED BY <1>1, <1>2, <1>3 DEF NodeInv

\* The steps of stop() on each of the threads.
LEMMA StopKeeps ==
  ASSUME NodeInv, NEW t \in Threads, Stopping(t) \/ StopClosesUp(t)
  PROVE  NodeInv'
<1>1. /\ running_ \in BOOLEAN /\ silent \in BOOLEAN /\ losses \in 0 .. MaxLosses
      /\ event_thread_ \in {"none", "loop", "ended"} /\ at \in [Threads -> Stages]
  BY DEF NodeInv, ClientInv
<1>2. CASE StopCheck(t) /\ UNCHANGED <<busvars, centervars>>
  <2> DEFINE to == IF t # "event" /\ event_thread_ # "none" THEN "join" ELSE "close"
  <2>1. at[t] = "check" /\ at' = [at EXCEPT ![t] = to] /\ to \in Stages
        /\ UNCHANGED <<timervars, running_, event_thread_, link, silent, requests, answers, losses>>
    BY <1>2 DEF StopCheck, Stage, Stages
  <2>2. /\ at' \in [Threads -> Stages] /\ at'[t] = to /\ "timer" \in Threads
        /\ \A u \in Threads : u # t => at'[u] = at[u]
    <3> HIDE DEF to
    <3> QED BY <2>1, Staged DEF NodeInv
  <2>3. StartInv'
    BY <2>1, <2>2 DEF NodeInv, StartInv
  <2> QED BY <1>1, <1>2, <2>1, <2>2, <2>3, StepKeeps DEF busvars, centervars
<1>3. CASE StopJoined(t) /\ UNCHANGED <<busvars, centervars>>
  <2>1. at[t] = "join" /\ at' = [at EXCEPT ![t] = "close"] /\ event_thread_' = "none"
        /\ UNCHANGED <<timervars, running_, link, silent, requests, answers, losses>>
    BY <1>3 DEF StopJoined, Stage
  <2>2. /\ at' \in [Threads -> Stages] /\ at'[t] = "close" /\ "timer" \in Threads
        /\ \A u \in Threads : u # t => at'[u] = at[u]
    BY <2>1, Staged DEF NodeInv, Stages
  <2>3. StartInv'
    BY <2>1, <2>2 DEF NodeInv, StartInv
  <2> QED BY <1>1, <1>3, <2>1, <2>2, <2>3, StepKeeps DEF busvars, centervars
<1>4. ASSUME NEW u \in Threads, JoinThrows(t, u), UNCHANGED <<busvars, centervars>> PROVE NodeInv'
  <2>1. /\ at[t] = "join" /\ UNCHANGED <<running_, event_thread_, link, silent, requests, answers, losses>>
        /\ \/ at' = [at EXCEPT ![t] = "no"] /\ Requeue
           \/ at' = at /\ UNCHANGED timervars
    BY <1>4 DEF JoinThrows
  <2>2. at' \in [Threads -> Stages] /\ "timer" \in Threads /\ at'["timer"] \in {at["timer"], "no"}
    <3>1. CASE at' = [at EXCEPT ![t] = "no"]
      BY <3>1, Staged DEF NodeInv, Stages
    <3>2. CASE at' = at
      BY <1>1, <3>2 DEF Threads
    <3> QED BY <2>1, <3>1, <3>2
  <2>3. StartInv'
    BY <2>1, <2>2 DEF NodeInv, StartInv
  <2> QED BY <1>1, <1>4, <2>1, <2>2, <2>3, StepKeeps DEF busvars, centervars
<1>5. CASE StopClose(t)
  <2> DEFINE to == IF t = "timer" /\ job = "heartbeat" THEN "start" ELSE "no"
  <2>1. /\ at[t] = "close" /\ at' = [at EXCEPT ![t] = to] /\ to \in Stages
        /\ link' \in {"none", "closed"} /\ requests' = << >> /\ answers' = << >>
        /\ UNCHANGED timervars \/ Requeue
        /\ UNCHANGED <<running_, event_thread_, silent, losses>>
    BY <1>5 DEF StopClose, Stage, Stages, Closed
  <2>2. /\ at' \in [Threads -> Stages] /\ at'[t] = to /\ "timer" \in Threads
        /\ \A u \in Threads : u # t => at'[u] = at[u]
    <3> HIDE DEF to
    <3> QED BY <2>1, Staged DEF NodeInv
  <2>3. TasksInv' /\ made' = made /\ made["heartbeat"] \in Nat
    BY <2>1, TasksSame, Made DEF NodeInv
  <2>4. ClientInv'
    <3>1. Len(<< >>) + Len(<< >>) <= MaxInFlight
      BY EmptyIn, ClientAssumption
    <3>2. << >> \in Seq({"regist", "status"}) /\ << >> \in Seq(NodeAnswers)
      BY EmptyIn
    <3> QED BY <1>1, <2>1, <2>2, <3>1, <3>2 DEF ClientInv, Gone
  <2>5. StartInv'
    BY <2>1, <2>2 DEF NodeInv, StartInv
  <2>6. /\ UNCHANGED <<busvars, others>> /\ queue' = queue
        /\ mapped' \in BOOLEAN /\ ~mapped'
        /\ stale' \in Nat /\ stale' <= made["heartbeat"]
    <3>1. CASE link # "up" /\ UNCHANGED <<busvars, centervars>>
      BY <2>3, <3>1 DEF busvars, centervars, NodeInv, LinkInv
    <3>2. CASE StopClosesUp(t)
      <4>1. link = "up" /\ mapped' = FALSE /\ UNCHANGED <<busvars, others>> /\ queue' = queue
        BY <3>2 DEF StopClosesUp, Forget
      <4>2. stale \in Nat /\ stale + 1 <= made["heartbeat"]
        BY <4>1 DEF NodeInv, LinkInv
      <4>3. stale' = stale \/ stale' = stale + 1
        BY <3>2, <4>2 DEF StopClosesUp, Forget
      <4>4. stale' \in Nat /\ stale' <= made["heartbeat"]
        BY <2>3, <4>2, <4>3
      <4> QED BY <4>1, <4>4
    <3> QED BY <1>5, <3>1, <3>2 DEF Stopping, StopCheck, StopJoined, JoinThrows, StopClose, Stage
  <2>7. LinkInv'
    BY <2>1, <2>3, <2>6 DEF LinkInv
  <2>8. TablesInv'
    BY <2>6 DEF busvars, NodeInv, TablesInv
  <2> QED BY <2>3, <2>4, <2>5, <2>7, <2>8 DEF NodeInv
<1> QED BY <1>2, <1>3, <1>4, <1>5 DEF Stopping, StopClosesUp

\* The heartbeat and start().
LEMMA RestartKeeps ==
  ASSUME NodeInv, Restarting
  PROVE  NodeInv'
<1>1. /\ running_ \in BOOLEAN /\ silent \in BOOLEAN /\ losses \in 0 .. MaxLosses
      /\ event_thread_ \in {"none", "loop", "ended"} /\ at \in [Threads -> Stages] /\ "timer" \in Threads
  BY DEF NodeInv, ClientInv, Threads
<1>2. UNCHANGED <<busvars, centervars>>
  BY DEF Restarting
<1>3. CASE StartBegin
  <2>1. /\ at["timer"] = "start" /\ at' = [at EXCEPT !["timer"] = "connect"] /\ running_' = TRUE
        /\ UNCHANGED <<timervars, event_thread_, link, silent, requests, answers, losses>>
    BY <1>3 DEF StartBegin, Stage
  <2>2. at' \in [Threads -> Stages] /\ at'["timer"] = "connect"
    BY <1>1, <2>1, Staged DEF NodeInv, Stages
  <2>3. StartInv'
    BY <2>1, <2>2 DEF NodeInv, StartInv
  <2> QED BY <1>1, <1>2, <2>1, <2>2, <2>3, StepKeeps DEF busvars, centervars
<1>4. CASE ConnectFails
  <2>1. /\ at' = [at EXCEPT !["timer"] = "no"] /\ Requeue
        /\ UNCHANGED <<running_, event_thread_, link, silent, requests, answers, losses>>
    BY <1>4 DEF ConnectFails, Stage
  <2>2. at' \in [Threads -> Stages] /\ at'["timer"] = "no"
    BY <1>1, <2>1, Staged DEF NodeInv, Stages
  <2>3. StartInv'
    BY <2>2 DEF StartInv
  <2> QED BY <1>1, <1>2, <2>1, <2>2, <2>3, StepKeeps DEF busvars, centervars
<1>5. CASE checkHeartbeat
  <2>1. /\ at["timer"] = "no"
        /\ \/ /\ at' = [at EXCEPT !["timer"] = "check"] /\ running_' = FALSE
              /\ UNCHANGED timervars
           \/ Requeue /\ UNCHANGED <<running_, at>>
        /\ UNCHANGED <<event_thread_, link, silent, requests, answers, losses>>
    BY <1>5 DEF checkHeartbeat, StopBegin, Stage
  <2>2. at' \in [Threads -> Stages] /\ at'["timer"] \in {"no", "check"}
    <3>1. CASE at' = [at EXCEPT !["timer"] = "check"]
      BY <1>1, <3>1, Staged DEF NodeInv, Stages
    <3>2. CASE at' = at
      BY <1>1, <2>1, <3>2
    <3> QED BY <2>1, <3>1, <3>2
  <2>3. StartInv'
    BY <2>2 DEF StartInv
  <2> QED BY <1>1, <1>2, <2>1, <2>2, <2>3, StepKeeps DEF busvars, centervars
<1>6. CASE ConnectSucceeds
  <2>1. /\ at["timer"] = "connect" /\ at' = [at EXCEPT !["timer"] = "no"]
        /\ link' = "up" /\ silent' = FALSE /\ requests' = << >> /\ answers' = << >>
        /\ event_thread_' = "loop" /\ UNCHANGED <<due, running_>>
        /\ CanAdd("heartbeat") /\ made' = [made EXCEPT !["heartbeat"] = @ + 1] /\ job' = Idle
    BY <1>6 DEF ConnectSucceeds, Stage
  <2>2. at' \in [Threads -> Stages] /\ at'["timer"] = "no"
    BY <1>1, <2>1, Staged DEF NodeInv, Stages
  <2>3. losses' \in 0 .. MaxLosses
    BY <1>1, <1>6, ClientAssumption DEF ConnectSucceeds, Spoil
  <2>4. TasksInv'
    <3>1. "heartbeat" \in Callbacks /\ TasksInv
      BY NodeAssumption DEF NodeInv
    <3> QED BY ONLY <2>1, <3>1, TasksKept
  <2>5. made'["heartbeat"] = made["heartbeat"] + 1 /\ made["heartbeat"] \in Nat
    <3>1. "heartbeat" \in Callbacks /\ made \in [Callbacks -> 0 .. MaxTasks]
      BY NodeAssumption DEF NodeInv, TasksInv
    <3> QED BY <2>1, <3>1, Made DEF NodeInv
  <2>6. ClientInv'
    <3>1. Len(<< >>) + Len(<< >>) <= MaxInFlight
      BY EmptyIn, ClientAssumption
    <3>2. << >> \in Seq({"regist", "status"}) /\ << >> \in Seq(NodeAnswers)
      BY EmptyIn
    <3> QED BY <1>1, <2>1, <2>2, <2>3, <3>1, <3>2 DEF ClientInv
  <2>7. StartInv'
    BY <2>2 DEF StartInv
  <2>8. LinkInv'
    <3>1. stale \in Nat /\ stale <= made["heartbeat"] /\ mapped \in BOOLEAN
      <4>1. link # "up"
        BY <2>1 DEF NodeInv, StartInv
      <4> QED BY <2>5, <4>1 DEF NodeInv, LinkInv
    <3>2. stale' = stale /\ mapped' = mapped /\ stale + 1 <= made'["heartbeat"]
      BY <1>2, <2>5, <3>1 DEF centervars
    <3> QED BY <2>1, <3>1, <3>2 DEF LinkInv
  <2>9. TablesInv'
    BY <1>2 DEF NodeInv, TablesInv, busvars, centervars
  <2> QED BY <2>4, <2>6, <2>7, <2>8, <2>9 DEF NodeInv
<1> QED BY <1>3, <1>4, <1>5, <1>6 DEF Restarting

\* The event thread between two events, the clock and the network.
LEMMA RestKeeps ==
  ASSUME NodeInv, EventThread \/ Silence \/ Timeout \/ Registered
  PROVE  NodeInv'
<1>1. /\ running_ \in BOOLEAN /\ silent \in BOOLEAN /\ losses \in 0 .. MaxLosses
      /\ event_thread_ \in {"none", "loop", "ended"} /\ at \in [Threads -> Stages] /\ "event" \in Threads
  BY DEF NodeInv, ClientInv, Threads
<1>2. CASE EventThread
  <2>1. CASE LoopEnds
    <3>1. StartInv'
      BY <2>1 DEF LoopEnds, InLoop, NodeInv, StartInv
    <3> QED BY <1>1, <1>2, <2>1, <3>1, StepKeeps DEF EventThread, LoopEnds, busvars, centervars
  <2>2. CASE eventHandler
    <3>1. /\ at' = [at EXCEPT !["event"] = "check"] /\ running_' = FALSE
          /\ UNCHANGED <<timervars, event_thread_, link, silent, requests, answers, losses>>
      BY <2>2 DEF eventHandler, StopBegin, Stage
    <3>2. at' \in [Threads -> Stages] /\ at'["timer"] = at["timer"]
      BY <1>1, <3>1, Staged DEF NodeInv, Stages
    <3>3. StartInv'
      BY <3>1, <3>2 DEF NodeInv, StartInv
    <3> QED BY <1>1, <1>2, <3>1, <3>2, <3>3, StepKeeps DEF EventThread, busvars, centervars
  <2> QED BY <1>2, <2>1, <2>2 DEF EventThread
<1>3. CASE Silence
  <2>1. StartInv'
    BY <1>3 DEF Silence, FallSilent, NodeInv, StartInv
  <2> QED BY <1>1, <1>3, <2>1, StepKeeps DEF Silence, FallSilent, busvars, centervars
<1>4. CASE Timeout
  <2>1. TasksInv' /\ made' = made
    BY <1>4, TasksSame DEF Timeout, GiveUp, NodeInv
  <2>2. ClientInv' /\ StartInv' /\ LinkInv' /\ TablesInv'
    BY <1>4, <2>1 DEF Timeout, GiveUp, NodeInv, ClientInv, StartInv, LinkInv, TablesInv, busvars, centervars, Gone
  <2> QED BY <2>1, <2>2 DEF NodeInv
<1>5. CASE Registered
  <2>1. StartInv'
    BY <1>5 DEF Registered, clientvars, NodeInv, StartInv
  <2> QED BY <1>1, <1>5, <2>1, StepKeeps DEF Registered, clientvars, centervars
<1> QED BY <1>2, <1>3, <1>4, <1>5

LEMMA ClockKeeps ==
  ASSUME NodeInv, Clock
  PROVE  NodeInv'
<1>1. TasksInv' /\ made' = made
  BY TasksClock DEF Clock, NodeInv
<1>2. ClientInv' /\ StartInv' /\ LinkInv' /\ TablesInv'
  BY <1>1 DEF Clock, NodeInv, ClientInv, StartInv, LinkInv, TablesInv, clientvars, busvars, centervars
<1> QED BY <1>1, <1>2 DEF NodeInv

LEMMA SenderKeeps ==
  ASSUME NodeInv, NEW s \in Callers, PickByName(s) \/ sendMsgTo(s)
  PROVE  NodeInv'
<1>1. /\ UNCHANGED <<timervars, clientvars, centervars>>
      /\ UNCHANGED <<ServiceMap_, NameInstances_, storing>>
  BY DEF PickByName, sendMsgTo
<1>2. TasksInv' /\ made' = made
  BY <1>1, TasksSame DEF NodeInv
<1>3. ClientInv' /\ StartInv' /\ LinkInv' /\ TablesInv'
  BY <1>1, <1>2 DEF NodeInv, ClientInv, StartInv, LinkInv, TablesInv, clientvars, centervars
<1> QED BY <1>2, <1>3 DEF NodeInv

LEMMA NodeBegins == NodeInit => NodeInv
<1> SUFFICES ASSUME NodeInit PROVE NodeInv
  OBVIOUS
<1>1. TasksInv
  <2>1. made = [cb \in Callbacks |-> IF has_center_ /\ cb = "heartbeat" THEN 1 ELSE 0] /\ due = << >> /\ job = Idle
    BY DEF NodeInit, LinkInit
  <2>2. made \in [Callbacks -> 0 .. MaxTasks] /\ due \in Seq(Callbacks)
    BY <2>1, EmptyIn, TimerAssumption, ClientAssumption
  <2>3. ASSUME NEW cb \in Callbacks PROVE Waiting(cb) \in Nat
    <3>1. {n \in DOMAIN due : due[n] = cb} = {} /\ job # cb /\ made[cb] \in Nat
      BY <2>1, <2>2, TimerAssumption
    <3>2. Waiting(cb) = made[cb] - Cardinality({}) - 0
      BY <3>1 DEF Waiting
    <3> QED BY <3>1, <3>2, FS_EmptySet
  <2> QED BY <2>1, <2>2, <2>3 DEF TasksInv
<1>2. ClientInv
  <2>1. at = [t \in Threads |-> "no"] /\ requests = << >> /\ answers = << >> /\ losses = 0
        /\ running_ = TRUE /\ silent = FALSE /\ link \in {"none", "up"} /\ event_thread_ \in {"loop", "none"}
    BY DEF NodeInit, LinkInit
  <2>2. Len(<< >>) + Len(<< >>) <= MaxInFlight /\ 0 \in 0 .. MaxLosses
    BY EmptyIn, ClientAssumption
  <2>3. << >> \in Seq({"regist", "status"}) /\ << >> \in Seq(NodeAnswers)
    BY EmptyIn
  <2>4. at \in [Threads -> Stages]
    BY <2>1 DEF Stages
  <2> QED BY <2>1, <2>2, <2>3, <2>4 DEF ClientInv
<1>3. StartInv
  BY DEF NodeInit, LinkInit, StartInv, Threads
<1>4. LinkInv
  <2>1. made["heartbeat"] = IF has_center_ THEN 1 ELSE 0
    BY NodeAssumption DEF NodeInit, LinkInit
  <2>2. stale = 0 /\ mapped = FALSE /\ requests = << >> /\ link = IF has_center_ THEN "up" ELSE "none"
    BY DEF NodeInit, LinkInit
  <2>3. stale + (IF link = "up" THEN 1 ELSE 0) <= made["heartbeat"]
    BY <2>1, <2>2
  <2> QED BY <2>2, <2>3 DEF LinkInv
<1>5. TablesInv
  BY EmptyIn DEF NodeInit, TablesInv
<1> QED BY <1>1, <1>2, <1>3, <1>4, <1>5 DEF NodeInv

LEMMA NodeSteps == NodeInv /\ [NodeNext]_nodevars => NodeInv'
<1> SUFFICES ASSUME NodeInv, [NodeNext]_nodevars PROVE NodeInv'
  OBVIOUS
<1>1. CASE UNCHANGED nodevars
  <2>1. TasksInv' /\ made' = made
    BY <1>1, TasksSame DEF nodevars, NodeInv
  <2>2. ClientInv' /\ StartInv' /\ LinkInv' /\ TablesInv'
    BY <1>1, <2>1 DEF nodevars, NodeInv, ClientInv, StartInv, LinkInv, TablesInv, clientvars, busvars, centervars
  <2> QED BY <2>1, <2>2 DEF NodeInv
<1>2. CASE Node
  <2>1. CASE regist2Center
    BY <2>1, SendKeeps DEF regist2Center
  <2>2. CASE updateServiceStatusReq
    BY <2>2, SendKeeps DEF updateServiceStatusReq
  <2>3. ASSUME NEW t \in Threads, Stopping(t) \/ StopClosesUp(t) PROVE NodeInv'
    BY <2>3, StopKeeps
  <2>4. ASSUME NEW s \in Callers, PickByName(s) \/ sendMsgTo(s) PROVE NodeInv'
    BY <2>4, SenderKeeps
  <2> QED BY <1>2, <2>1, <2>2, <2>3, <2>4, AnswersKeep, StoreNamesKeeps, RestartKeeps, RestKeeps DEF Node
<1>3. CASE Center
  BY <1>3, HandleKeeps, CenterKeeps, LossKeeps DEF Center
<1> QED BY <1>1, <1>2, <1>3, ClockKeeps, RestKeeps DEF NodeNext

\* What the senders hold: one that picked while the tables agreed, and has seen no store
\* since, has an instance that both tables give.
SenderInv ==
    /\ target \in [Callers -> SUBSET Others] /\ replaced \in [Callers -> BOOLEAN]
    /\ \A s \in Callers : Refused(s) => replaced[s]

LEMMA SenderSteps == NodeInv /\ SenderInv /\ [NodeNext]_nodevars => SenderInv'
<1> SUFFICES ASSUME NodeInv, SenderInv, [NodeNext]_nodevars PROVE SenderInv'
  OBVIOUS
<1>1. CASE UNCHANGED <<sendvars, ServiceMap_>>
  BY <1>1 DEF sendvars, SenderInv, Refused
<1>2. CASE StoreMap
  BY <1>2 DEF StoreMap, SenderInv, Refused
<1>3. ASSUME NEW s \in Callers, PickByName(s) PROVE SenderInv'
  <2>1. PICK i \in NameInstances_ : target' = [target EXCEPT ![s] = {i}]
    BY <1>3 DEF PickByName
  <2>2. replaced' = [replaced EXCEPT ![s] = (storing # NoTable)] /\ ServiceMap_' = ServiceMap_
    BY <1>3 DEF PickByName
  <2>3. i \in Others /\ (storing = NoTable => i \in ServiceMap_)
    BY DEF NodeInv, TablesInv
  <2> QED BY <2>1, <2>2, <2>3 DEF SenderInv, Refused
<1>4. ASSUME NEW s \in Callers, sendMsgTo(s) PROVE SenderInv'
  BY <1>4 DEF sendMsgTo, SenderInv, Refused
<1>5. CASE Node
  <2>1. ASSUME NEW t \in Threads, Stopping(t) \/ StopClosesUp(t) PROVE UNCHANGED <<sendvars, ServiceMap_>>
    BY <2>1 DEF Stopping, StopClosesUp, busvars
  <2>2. CASE regist2Center \/ Registered \/ updateServiceStatusReq \/ onCenterRegistRsp \/ StoreNames
             \/ Restarting \/ EventThread
    BY <1>1, <2>2 DEF regist2Center, Registered, updateServiceStatusReq, onCenterRegistRsp, StoreNames,
                      Restarting, EventThread, busvars
  <2> QED BY <1>1, <1>2, <1>3, <1>4, <1>5, <2>1, <2>2 DEF Node
<1>6. CASE Center
  BY <1>1, <1>6 DEF Center, Handle, StaleClosed, Expire, Kick, Die, Change, busvars
<1>7. CASE Clock \/ Silence \/ Timeout \/ UNCHANGED nodevars
  BY <1>1, <1>7 DEF Clock, Silence, Timeout, nodevars, busvars
<1> QED BY <1>5, <1>6, <1>7 DEF NodeNext

\* The node's variables have their types; start() never replaces an event thread that
\* nobody has joined, on which std::thread would end the process, however the main thread,
\* the timer's and the event thread stop() and start() the link; and a sender is refused an
\* instance it has picked by its name only if the tables were being replaced when it picked
\* or have been since, for any instances, senders and number of lost connections
\* (TcpClient::stop, start; IBusNet::onCenterUpdateServiceStatusRsp, sendMsgTo).
THEOREM NodeTypeCorrect == NodeSpec => []NodeTypeOK
<1>1. ASSUME NodeInv, SenderInv PROVE NodeTypeOK
  <2>1. TimerTypeOK
    BY <1>1 DEF NodeInv, TasksInv, TimerTypeOK
  <2>2. ClientTypeOK
    BY <1>1 DEF NodeInv, ClientInv, ClientTypeOK
  <2>3. stale \in 0 .. made["heartbeat"]
    <3>1. stale \in Nat /\ made["heartbeat"] \in Nat
      BY <1>1, Made DEF NodeInv, LinkInv
    <3>2. stale <= made["heartbeat"]
      BY <1>1, <3>1 DEF NodeInv, LinkInv
    <3> QED BY <3>1, <3>2
  <2> QED BY <1>1, <2>1, <2>2, <2>3 DEF NodeInv, TablesInv, StartInv, SenderInv, NodeTypeOK
<1>2. NodeInit => SenderInv
  BY DEF NodeInit, SenderInv, Refused
<1> QED BY <1>1, <1>2, NodeBegins, NodeSteps, SenderSteps, PTL DEF NodeSpec

=============================================================================
