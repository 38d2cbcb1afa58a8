------------------------ MODULE ShmRingBufferProofs ------------------------
(***************************************************************************)
(* Proofs about ShmRingBuffer for every ring size, set of threads and set  *)
(* of items.                                                               *)
(***************************************************************************)
EXTENDS Shm, SequenceTheorems, FiniteSetTheorems, WellFoundedInduction, TLAPS

\* The threads that are inside the critical section.
Inside == {"check", "wrap", "commit"}

\* The spin lock excludes: who is inside holds it, and who holds it is inside or
\* died there.
LockInv == \A t \in Threads : /\ pc[t] \in Inside => lock = t
                              /\ lock = t => pc[t] \in Inside \cup {"crashed"}

\* The checks that t made when it took the lock still hold while it copies.
CallInv == \A t \in Threads :
             /\ pc[t] \in Inside \cup {"spin"} => call[t] \in GoodCalls
             /\ pc[t] \in {"wrap", "commit"} => call[t].op \in Copies /\ ~Lacks(call[t])

\* The first n items of a push are in their slots.
Written(c, n) == c.op \in {"Push", "PushFront"} =>
                   \A j \in Slots : Dist(Start(c), j) < n => buffer[j] \in Items

CopyInv == \A t \in Threads :
             /\ pc[t] = "wrap" => Written(call[t], FirstPart(call[t]))
             /\ pc[t] = "commit" => Written(call[t], call[t].count)

IInv == TypeOK /\ LockInv /\ CallInv /\ CopyInv /\ NoJunkRead

----------------------------------------------------------------------------
\* What % does at the end of the ring.
LEMMA ModN == ASSUME NEW x \in 0 .. 2 * N - 1
              PROVE  x % N = IF x >= N THEN x - N ELSE x
BY RingAssumption

\* A call has at least one item, and a push carries as many as it says.
LEMMA GoodCall ==
  ASSUME NEW c \in GoodCalls
  PROVE  /\ c.op \in {"Push", "PushFront", "Pop", "Peek", "Drop", "Reset"}
         /\ c.op # "Reset" => c.count \in 1 .. MaxCount
         /\ c.op \in {"Push", "PushFront"} =>
              /\ c.items \in Seq(Items) /\ c.count = Len(c.items)
              /\ \A i \in 1 .. c.count : c.items[i] \in Items
<1>1. CASE c \in {[op |-> "Reset", items |-> <<>>, count |-> 0]}
  BY <1>1
<1>2. CASE c \in [op : {"Pop", "Peek", "Drop"}, items : {<<>>}, count : 1 .. MaxCount]
  BY <1>2
<1>3. CASE c \in [op : {"Push", "PushFront"}, items : Batches, count : 1 .. MaxCount]
  <2>1. PICK n \in 1 .. MaxCount : c.items \in [1 .. n -> Items]
    BY <1>3 DEF Batches
  <2>2. n \in Nat /\ c.items \in Seq(Items) /\ Len(c.items) = n
    BY <2>1, RingAssumption
  <2>3. c.count = Len(c.items)
    BY <1>3 DEF GoodCalls
  <2> QED BY <1>3, <2>1, <2>2, <2>3
<1> QED BY <1>1, <1>2, <1>3 DEF GoodCalls, Calls

\* Used and Available share the ring, but for the one slot that tells full from
\* empty.
LEMMA Room ==
  ASSUME head \in Slots, tail \in Slots
  PROVE  /\ Used \in 0 .. N - 1 /\ Available \in 0 .. N - 1
         /\ Used + Available = N - 1
BY RingAssumption DEF Slots, Used, Available

\* Where a call's copy starts, and that its parts are not longer than the call.
LEMMA CopyBounds ==
  ASSUME head \in Slots, tail \in Slots,
         NEW c \in GoodCalls, c.op \in Copies, ~Lacks(c)
  PROVE  /\ c.count \in 1 .. N - 1
         /\ Start(c) \in Slots
         /\ FirstPart(c) \in 1 .. c.count
         /\ c.op = "Push" => Start(c) = tail /\ c.count <= Available
         /\ c.op = "PushFront" =>
              /\ c.count <= Available
              /\ Start(c) = IF head >= c.count THEN head - c.count
                                               ELSE N - (c.count - head)
<1>1. c.count \in 1 .. N - 1 /\ c.count \in Nat
  BY Room, GoodCall, RingAssumption DEF Lacks, Copies
<1>2. head >= c.count => (head - c.count + N) % N = head - c.count
  BY <1>1, ModN, RingAssumption DEF Slots
<1>3. FrontHead(c.count) = IF head >= c.count THEN head - c.count
                                              ELSE N - (c.count - head)
  BY <1>2 DEF FrontHead
<1>4. Start(c) \in Slots
  BY <1>1, <1>3, RingAssumption DEF Start, Slots
<1>5. FirstPart(c) \in 1 .. c.count
  BY <1>1, <1>4, RingAssumption DEF FirstPart, Slots
<1>6. c.op \in {"Push", "PushFront"} => c.count <= Available
  BY <1>1, Room DEF Lacks
<1> QED BY <1>1, <1>3, <1>4, <1>5, <1>6 DEF Start

\* The slots a push writes hold nothing unread.
LEMMA TargetsNotLive ==
  ASSUME head \in Slots, tail \in Slots,
         NEW c \in GoodCalls, c.op \in {"Push", "PushFront"}, ~Lacks(c),
         NEW j \in Slots, Dist(Start(c), j) < c.count
  PROVE  j \notin Live
<1>1. c.op \in Copies BY DEF Copies
<1> QED BY <1>1, CopyBounds, Room, RingAssumption
        DEF Live, Dist, Slots, Used, Available

\* The index a push or a pop computes is the slot that many places further on.
LEMMA NewIndex ==
  ASSUME head \in Slots, tail \in Slots, NEW k \in 0 .. N - 1
  PROVE  /\ NewTail(k) = Slot(tail, k) /\ NewTail(k) \in Slots
         /\ NewHead(k) = Slot(head, k) /\ NewHead(k) \in Slots
         /\ (head + k) % N = Slot(head, k)
BY ModN, RingAssumption DEF NewTail, NewHead, Slot, Slots

\* One memcpy of a call: what it leaves well typed, alone and written.
LEMMA CopyStep ==
  ASSUME TypeOK,
         NEW t \in Threads, call[t] \in GoodCalls,
         call[t].op \in Copies, ~Lacks(call[t]),
         NEW lo \in 0 .. call[t].count, NEW hi \in lo .. call[t].count,
         CopyPart(t, call[t], lo, hi), UNCHANGED <<head, tail>>
  PROVE  /\ buffer' \in [Slots -> Items \cup {Junk}]
         /\ got' \in [Threads -> Seq(Items \cup {Junk})]
         /\ \A j \in Live : buffer'[j] = buffer[j]
         /\ (call[t].op \in {"Push", "PushFront"} /\ Written(call[t], lo)) =>
              \A j \in Slots : Dist(Start(call[t]), j) < hi => buffer'[j] \in Items
<1> DEFINE c == call[t]
<1> USE DEF TypeOK
<1>0. /\ c.count \in 1 .. N - 1 /\ Start(c) \in Slots
      /\ lo \in Nat /\ hi \in Nat /\ lo <= hi /\ hi <= c.count
  BY CopyBounds, RingAssumption
<1>1. CASE c.op \in {"Push", "PushFront"}
  <2>1. buffer' = [j \in Slots |->
                    IF lo <= Dist(Start(c), j) /\ Dist(Start(c), j) < hi
                    THEN c.items[Dist(Start(c), j) + 1] ELSE buffer[j]]
        /\ got' = got
    BY <1>1 DEF CopyPart
  <2>2. \A i \in 1 .. c.count : c.items[i] \in Items
    BY <1>1, GoodCall
  <2>3. \A j \in Slots : Dist(Start(c), j) \in 0 .. N - 1
    BY <1>0, RingAssumption DEF Dist, Slots
  <2>4. \A j \in Slots : lo <= Dist(Start(c), j) /\ Dist(Start(c), j) < hi
                           => buffer'[j] \in Items
    BY <1>0, <2>1, <2>2, <2>3
  <2>5. \A j \in Slots : ~(lo <= Dist(Start(c), j) /\ Dist(Start(c), j) < hi)
                           => buffer'[j] = buffer[j]
    BY <2>1
  <2>6. buffer' \in [Slots -> Items \cup {Junk}]
    BY <2>1, <2>4, <2>5
  <2>7. \A j \in Live : buffer'[j] = buffer[j]
    <3> SUFFICES ASSUME NEW j \in Live PROVE buffer'[j] = buffer[j]
      OBVIOUS
    <3>1. j \in Slots BY DEF Live
    <3>2. ~(Dist(Start(c), j) < c.count) BY <1>1, <3>1, TargetsNotLive
    <3> QED BY <1>0, <2>3, <2>5, <3>1, <3>2
  <2>8. Written(c, lo) =>
          \A j \in Slots : Dist(Start(c), j) < hi => buffer'[j] \in Items
    BY <1>0, <1>1, <2>3, <2>4, <2>5 DEF Written
  <2> QED BY <2>1, <2>6, <2>7, <2>8
<1>2. CASE c.op \notin {"Push", "PushFront"}
  <2> DEFINE s == [i \in 1 .. hi - lo |-> buffer[Slot(head, lo + i - 1)]]
  <2>1. buffer' = buffer /\ got' = [got EXCEPT ![t] = @ \o s]
    BY <1>2 DEF CopyPart
  <2>2. \A i \in 1 .. hi - lo : Slot(head, lo + i - 1) \in Slots
    BY <1>0, RingAssumption DEF Slot, Slots
  <2>3. s \in Seq(Items \cup {Junk})
    <3>1. hi - lo \in Nat BY <1>0
    <3>2. \A i \in 1 .. hi - lo : buffer[Slot(head, lo + i - 1)] \in Items \cup {Junk}
      BY <2>2
    <3> QED BY <3>1, <3>2
  <2>4. got[t] \o s \in Seq(Items \cup {Junk})
    BY <2>3
  <2> QED BY <1>2, <2>1, <2>4
<1> QED BY <1>1, <1>2

----------------------------------------------------------------------------
\* The constructor's state satisfies the inductive invariant.
LEMMA Initially == Init => IInv
<1> SUFFICES ASSUME Init PROVE IInv
  OBVIOUS
<1>1. TypeOK
  BY RingAssumption DEF Init, TypeOK, Slots, Idle, Refused
<1>2. Live = {}
  BY RingAssumption DEF Init, Live, Used, Dist, Slots
<1> QED BY <1>1, <1>2, RingAssumption
        DEF IInv, Init, LockInv, CallInv, CopyInv, NoJunkRead, Inside

\* Leaving the critical section with the header and the buffer unchanged.
LEMMA RefuseKeeps == ASSUME IInv, NEW t \in Threads, Refuse(t) PROVE IInv'
<1> USE DEF IInv, Refuse, Return
<1>1. UNCHANGED <<head, tail, buffer>> /\ pc[t] = "check" /\ lock = t
  BY DEF LockInv, Inside
<1>2. TypeOK' BY <1>1, RingAssumption DEF TypeOK, Slots, Refused
<1>3. LockInv' BY <1>1, RingAssumption DEF LockInv, TypeOK, Inside
<1>4. \A u \in Threads : u # t => pc'[u] = pc[u] /\ call'[u] = call[u]
  BY DEF TypeOK
<1>5. pc'[t] = "idle" BY DEF TypeOK
<1>6. CallInv'
  BY <1>1, <1>4, <1>5 DEF CallInv, Lacks, Available, Used, Inside
<1>7. CopyInv'
  BY <1>1, <1>4, <1>5 DEF CopyInv, Written, FirstPart, Start, FrontHead
<1>8. NoJunkRead' BY <1>1 DEF NoJunkRead, Live, Used
<1> QED BY <1>2, <1>3, <1>6, <1>7, <1>8

\* Calling an operation, before the lock is asked for, keeps the invariant.
LEMMA InvokeKeeps == ASSUME IInv, NEW t \in Threads, Invoke(t) PROVE IInv'
<1> USE DEF IInv, Invoke
<1>1. UNCHANGED <<head, tail, buffer, lock>> /\ pc[t] = "idle" OBVIOUS
<1>2. TypeOK' BY DEF TypeOK, Slots, Refused
<1>4. \A u \in Threads : u # t => pc'[u] = pc[u] /\ call'[u] = call[u]
  BY DEF TypeOK
<1>5. pc'[t] = "spin" BY DEF TypeOK
<1>3. LockInv' BY <1>1, <1>4, <1>5 DEF LockInv, Inside
<1>6. CallInv'
  <2>1. call'[t] \in GoodCalls BY DEF TypeOK
  <2> QED BY <1>1, <1>4, <1>5, <2>1 DEF CallInv, Lacks, Available, Used, Inside
<1>7. CopyInv'
  BY <1>1, <1>4, <1>5 DEF CopyInv, Written, FirstPart, Start, FrontHead
<1>8. NoJunkRead' BY <1>1 DEF NoJunkRead, Live, Used
<1> QED BY <1>2, <1>3, <1>6, <1>7, <1>8

\* Arc arithmetic: the unread slots run from h over Arc(h, t) places, and pushing
\* k items, putting k in front or taking k moves one end of the arc.
Arc(h, t) == IF t >= h THEN t - h ELSE N - (h - t)

\* A slot that a push at the tail makes live is one of the slots it wrote.
LEMMA PushArc ==
  ASSUME NEW h \in Slots, NEW t \in Slots, NEW j \in Slots, NEW k \in Nat,
         k <= N - 1 - Arc(h, t), Dist(h, j) < Arc(h, Slot(t, k)),
         ~(Dist(h, j) < Arc(h, t))
  PROVE  Dist(t, j) < k
BY RingAssumption DEF Slots, Arc, Dist, Slot

\* A slot that a push in front makes live is one of the slots it wrote.
LEMMA FrontArc ==
  ASSUME NEW h \in Slots, NEW t \in Slots, NEW j \in Slots, NEW k \in Nat,
         k <= N - 1 - Arc(h, t),
         NEW g, g = IF h >= k THEN h - k ELSE N - (k - h),
         Dist(g, j) < Arc(g, t), ~(Dist(h, j) < Arc(h, t))
  PROVE  Dist(g, j) < k
BY RingAssumption DEF Slots, Arc, Dist

\* A pop makes no slot live that was not.
LEMMA PopArc ==
  ASSUME NEW h \in Slots, NEW t \in Slots, NEW j \in Slots, NEW k \in Nat,
         k <= Arc(h, t), Dist(Slot(h, k), j) < Arc(Slot(h, k), t)
  PROVE  Dist(h, j) < Arc(h, t)
BY RingAssumption DEF Slots, Arc, Dist, Slot

\* What a thread in the critical section may do to the others: nothing.
LEMMA Alone ==
  ASSUME IInv, NEW t \in Threads, lock = t, NEW u \in Threads, u # t
  PROVE  pc[u] \notin Inside
BY DEF IInv, LockInv

\* A memcpy of a call, the first part or the wrapped one, keeps the invariant.
LEMMA CopyKeeps ==
  ASSUME IInv, NEW t \in Threads, Copy(t) \/ CopyWrapped(t) PROVE IInv'
<1> DEFINE c == call[t]
<1> USE DEF IInv
<1>1. /\ lock = t /\ pc[t] \in {"check", "wrap"}
      /\ c \in GoodCalls /\ c.op \in Copies /\ ~Lacks(c)
      /\ UNCHANGED <<head, tail, lock, call, result>>
  BY DEF Copy, CopyWrapped, LockInv, CallInv, Inside
<1>2. /\ head \in Slots /\ tail \in Slots
      /\ c.count \in 1 .. N - 1 /\ FirstPart(c) \in 1 .. c.count
  BY <1>1, CopyBounds DEF TypeOK
<1>3. PICK lo \in 0 .. c.count, hi \in 0 .. c.count :
        /\ lo <= hi
        /\ CopyPart(t, c, lo, hi)
        /\ lo = 0 \/ (pc[t] = "wrap" /\ lo = FirstPart(c))
        /\ \/ pc' = [pc EXCEPT ![t] = "commit"] /\ hi = c.count
           \/ pc' = [pc EXCEPT ![t] = "wrap"] /\ hi = FirstPart(c)
  <2>1. CASE Copy(t)
    <3>1. CopyPart(t, c, 0, FirstPart(c))
      BY <2>1 DEF Copy
    <3>2. \/ pc' = [pc EXCEPT ![t] = "commit"] /\ FirstPart(c) = c.count
          \/ pc' = [pc EXCEPT ![t] = "wrap"]
      <4>1. CASE FirstPart(c) < c.count
        BY <2>1, <4>1 DEF Copy
      <4>2. CASE ~(FirstPart(c) < c.count)
        <5>1. FirstPart(c) = c.count BY <1>2, <4>2, RingAssumption
        <5> QED BY <2>1, <4>2, <5>1 DEF Copy
      <4> QED BY <4>1, <4>2
    <3>3. 0 \in 0 .. c.count /\ FirstPart(c) \in 0 .. c.count /\ 0 <= FirstPart(c)
      BY <1>2, RingAssumption
    <3> QED BY <3>1, <3>2, <3>3
  <2>2. CASE CopyWrapped(t)
    <3>1. /\ CopyPart(t, c, FirstPart(c), c.count) /\ pc[t] = "wrap"
          /\ pc' = [pc EXCEPT ![t] = "commit"]
      BY <2>2 DEF CopyWrapped
    <3>2. FirstPart(c) \in 0 .. c.count /\ FirstPart(c) <= c.count /\ c.count \in 0 .. c.count
      BY <1>2, RingAssumption
    <3> QED BY <3>1, <3>2
  <2> QED BY <2>1, <2>2
<1>4. c.op \in {"Push", "PushFront"} => Written(c, lo)
  <2>1. CASE lo = 0
    <3>1. \A j \in Slots : ~(Dist(Start(c), j) < 0)
      BY <1>1, <1>2, CopyBounds, RingAssumption DEF Dist, Slots
    <3> QED BY <2>1, <3>1 DEF Written
  <2>2. CASE pc[t] = "wrap" /\ lo = FirstPart(c)
    BY <2>2 DEF CopyInv
  <2> QED BY <1>3, <2>1, <2>2
<1>5. /\ buffer' \in [Slots -> Items \cup {Junk}]
      /\ got' \in [Threads -> Seq(Items \cup {Junk})]
      /\ \A j \in Live : buffer'[j] = buffer[j]
      /\ c.op \in {"Push", "PushFront"} =>
           \A j \in Slots : Dist(Start(c), j) < hi => buffer'[j] \in Items
  <2>1. hi \in lo .. c.count BY <1>2, <1>3, RingAssumption
  <2> QED BY <1>1, <1>3, <1>4, <2>1, CopyStep
<1>6. /\ \A u \in Threads : u # t => pc'[u] = pc[u] /\ pc[u] \notin Inside
      /\ pc'[t] \in {"wrap", "commit"}
  BY <1>1, <1>3, Alone DEF TypeOK
<1>7. TypeOK' BY <1>1, <1>3, <1>5 DEF TypeOK
<1>8. LockInv' BY <1>1, <1>6 DEF LockInv, Inside
<1>9. CallInv'
  BY <1>1, <1>6 DEF CallInv, Lacks, Available, Used, Inside
<1>10. CopyInv'
  <2>1. Start(c)' = Start(c) /\ FirstPart(c)' = FirstPart(c)
    BY <1>1 DEF Start, FirstPart, FrontHead
  <2>2. Written(c, hi)'
    BY <1>1, <1>5, <2>1 DEF Written
  <2>3. pc'[t] = "wrap" => hi = FirstPart(c)
    BY <1>3 DEF TypeOK
  <2>4. pc'[t] = "commit" => hi = c.count
    BY <1>3 DEF TypeOK
  <2> QED BY <1>1, <1>6, <2>1, <2>2, <2>3, <2>4 DEF CopyInv, Inside
<1>11. NoJunkRead'
  <2>1. Live' = Live BY <1>1 DEF Live, Used
  <2> QED BY <1>5, <2>1 DEF NoJunkRead
<1> QED BY <1>7, <1>8, <1>9, <1>10, <1>11

\* Storing the header: the new items join the unread ones, or some leave them.
LEMMA CommitKeeps == ASSUME IInv, NEW t \in Threads, Commit(t) PROVE IInv'
<1> DEFINE c == call[t]
<1> USE DEF IInv, Commit, Return
<1>1. /\ lock = t /\ pc[t] = "commit" /\ buffer' = buffer
      /\ c \in GoodCalls /\ c.op \in Copies /\ ~Lacks(c)
  BY DEF LockInv, CallInv, Inside
<1>2. head \in Slots /\ tail \in Slots /\ c.count \in 1 .. N - 1
  BY <1>1, CopyBounds DEF TypeOK
<1>3. /\ \A u \in Threads : u # t => pc'[u] = pc[u] /\ pc[u] \notin Inside
      /\ pc'[t] = "idle" /\ lock' = Free
  BY <1>1, Alone DEF TypeOK
<1>4. /\ c.op = "Push" => tail' = Slot(tail, c.count) /\ tail' \in Slots
      /\ c.op # "Push" => tail' = tail
      /\ c.op = "Pop" => head' = Slot(head, c.count) /\ head' \in Slots
      /\ c.op = "PushFront" => head' = Start(c) /\ head' \in Slots
      /\ c.op \in {"Push", "Peek"} => head' = head
  <2>1. c.count \in 0 .. N - 1 BY <1>2, RingAssumption
  <2>2. c.op = "PushFront" => FrontHead(c.count) = Start(c) /\ Start(c) \in Slots
    BY <1>1, <1>2, CopyBounds DEF Start
  <2> QED BY <1>2, <2>1, <2>2, NewIndex
<1>5. head' \in Slots /\ tail' \in Slots
  BY <1>1, <1>2, <1>4 DEF Copies
<1>6. TypeOK'
  BY <1>1, <1>5, RingAssumption DEF TypeOK, Done
<1>7. LockInv' BY <1>1, <1>3, RingAssumption DEF LockInv, Inside
<1>8. CallInv' BY <1>3 DEF CallInv, Inside
<1>9. CopyInv' BY <1>3 DEF CopyInv, Inside
<1>10. NoJunkRead'
  <2> SUFFICES ASSUME NEW j \in Live' PROVE buffer[j] \in Items
    BY <1>1 DEF NoJunkRead
  <2>0. /\ j \in Slots /\ Dist(head', j) < Used'
        /\ Used' = Arc(head', tail') /\ Used = Arc(head, tail)
        /\ c.count \in Nat
    BY <1>2, RingAssumption DEF Live, Used, Arc
  <2>1. CASE j \in Live
    BY <2>1 DEF NoJunkRead
  <2>2. CASE j \notin Live /\ c.op \in {"Push", "PushFront"}
    <3>1. c.count <= N - 1 - Arc(head, tail)
      BY <1>1, <1>2, <2>0, <2>2, CopyBounds, Room, RingAssumption
    <3>2. Start(c) = IF c.op = "Push" THEN tail
                     ELSE IF head >= c.count THEN head - c.count
                                             ELSE N - (c.count - head)
      BY <1>1, <1>2, <2>2, CopyBounds
    <3>3. ~(Dist(head, j) < Used)
      BY <2>0, <2>2 DEF Live
    <3>4. Dist(Start(c), j) < c.count
      <4>1. CASE c.op = "Push"
        <5>1. head' = head /\ tail' = Slot(tail, c.count) /\ Start(c) = tail
          BY <1>4, <3>2, <4>1
        <5>2. /\ Dist(head, j) < Arc(head, Slot(tail, c.count))
              /\ ~(Dist(head, j) < Arc(head, tail))
          BY <2>0, <3>3, <5>1
        <5> QED BY <1>2, <2>0, <3>1, <5>1, <5>2, PushArc
      <4>2. CASE c.op = "PushFront"
        <5>1. /\ head' = Start(c) /\ tail' = tail
              /\ Start(c) = IF head >= c.count THEN head - c.count
                                               ELSE N - (c.count - head)
          BY <1>4, <3>2, <4>2
        <5>2. /\ Dist(Start(c), j) < Arc(Start(c), tail)
              /\ ~(Dist(head, j) < Arc(head, tail))
          BY <2>0, <3>3, <5>1
        <5> QED BY <1>2, <2>0, <3>1, <5>1, <5>2, FrontArc
      <4> QED BY <2>2, <4>1, <4>2
    <3> QED BY <1>1, <2>0, <2>2, <3>4 DEF CopyInv, Written
  <2>3. CASE j \notin Live /\ c.op \in {"Pop", "Peek"}
    <3>1. c.count <= Used
      BY <1>1, <1>2, <2>3, Room DEF Lacks
    <3>2. Dist(head, j) < Arc(head, tail)
      <4>1. CASE c.op = "Pop"
        BY <1>2, <1>4, <2>0, <3>1, <4>1, PopArc
      <4>2. CASE c.op = "Peek"
        BY <1>4, <2>0, <4>2
      <4> QED BY <2>3, <4>1, <4>2
    <3> QED BY <2>0, <2>3, <3>2 DEF Live
  <2> QED BY <1>1, <2>1, <2>2, <2>3 DEF Copies
<1> QED BY <1>6, <1>7, <1>8, <1>9, <1>10

\* Dropping and resetting, which move indices and copy nothing, keep it.
LEMMA DropResetKeeps ==
  ASSUME IInv, NEW t \in Threads, Drop(t) \/ Reset(t) PROVE IInv'
<1> USE DEF IInv, Drop, Reset, Return
<1>1. /\ lock = t /\ pc[t] = "check" /\ buffer' = buffer
      /\ head \in Slots /\ tail \in Slots
  BY DEF LockInv, Inside, TypeOK
<1>2. /\ \A u \in Threads : u # t => pc'[u] = pc[u] /\ pc[u] \notin Inside
      /\ pc'[t] = "idle" /\ lock' = Free /\ call' = [call EXCEPT ![t] = Idle]
      /\ got' = [got EXCEPT ![t] = <<>>]
      /\ result' = [result EXCEPT ![t] = Done(<<>>)]
  BY <1>1, Alone DEF TypeOK
<1>3. \/ \E k \in 0 .. Used : head' = Slot(head, k) /\ head' \in Slots /\ tail' = tail
      \/ head' = 0 /\ tail' = 0
  <2>1. CASE Drop(t)
    <3> DEFINE k == IF call[t].count > Used THEN Used ELSE call[t].count
    <3>1. Used \in 0 .. N - 1 BY <1>1, Room
    <3>2. call[t].count \in 1 .. MaxCount
      BY <1>1, <2>1, GoodCall DEF CallInv, Inside
    <3>3. k \in 0 .. Used /\ k \in 0 .. N - 1
      BY <3>1, <3>2, RingAssumption
    <3>4. head' = (head + k) % N /\ tail' = tail
      BY <2>1
    <3>5. head' = Slot(head, k)
      BY <1>1, <3>3, <3>4, NewIndex
    <3>6. head' \in Slots
      BY <1>1, <3>3, <3>4, <3>5, NewIndex
    <3> QED BY <3>3, <3>4, <3>5, <3>6
  <2>2. CASE Reset(t)
    BY <2>2
  <2> QED BY <2>1, <2>2
<1>4. head' \in Slots /\ tail' \in Slots
  BY <1>1, <1>3, RingAssumption DEF Slots
<1>5. TypeOK'
  <2>1. pc' = [pc EXCEPT ![t] = "idle"] OBVIOUS
  <2> QED BY <1>1, <1>2, <1>4, <2>1, RingAssumption DEF TypeOK, Done
<1>6. LockInv' BY <1>1, <1>2, RingAssumption DEF LockInv, Inside
<1>7. CallInv' BY <1>2 DEF CallInv, Inside
<1>8. CopyInv' BY <1>2 DEF CopyInv, Inside
<1>9. NoJunkRead'
  <2>1. Live' \subseteq Live
    <3> SUFFICES ASSUME NEW j \in Live' PROVE j \in Live
      OBVIOUS
    <3>1. /\ j \in Slots /\ Dist(head', j) < Arc(head', tail')
          /\ Used = Arc(head, tail) /\ Used \in 0 .. N - 1
      BY <1>1, Room DEF Live, Used, Arc
    <3>2. CASE head' = 0 /\ tail' = 0
      BY <3>1, <3>2, RingAssumption DEF Dist, Arc, Slots
    <3>3. ASSUME NEW k \in 0 .. Used, head' = Slot(head, k), tail' = tail
          PROVE  j \in Live
      <4>1. k \in Nat /\ k <= Arc(head, tail)
        BY <3>1
      <4>2. Dist(Slot(head, k), j) < Arc(Slot(head, k), tail)
        BY <3>1, <3>3
      <4>3. Dist(head, j) < Arc(head, tail)
        BY <1>1, <3>1, <4>1, <4>2, PopArc
      <4> QED BY <3>1, <4>3 DEF Live
    <3> QED BY <1>3, <3>2, <3>3
  <2> QED BY <1>1, <2>1 DEF NoJunkRead
<1> QED BY <1>5, <1>6, <1>7, <1>8, <1>9

\* Taking the lock, and dying with it or without it, keep it.
LEMMA AcquireCrashKeeps ==
  ASSUME IInv, NEW t \in Threads, Acquire(t) \/ Crash(t) PROVE IInv'
<1> USE DEF IInv, Acquire, Crash
<1>1. UNCHANGED <<head, tail, buffer, call, got, result>>
  OBVIOUS
<1>2. TypeOK' BY <1>1 DEF TypeOK, Slots
<1>3. LockInv' BY RingAssumption DEF LockInv, TypeOK, Inside
<1>4. CallInv'
  BY <1>1 DEF CallInv, Lacks, Available, Used, Inside, TypeOK
<1>5. CopyInv'
  BY <1>1 DEF CopyInv, Written, FirstPart, Start, FrontHead, TypeOK
<1>6. NoJunkRead' BY <1>1 DEF NoJunkRead, Live, Used
<1> QED BY <1>2, <1>3, <1>4, <1>5, <1>6

\* Every step of the ring keeps the invariant.
LEMMA Inductive == IInv /\ [Next]_vars => IInv'
<1> SUFFICES ASSUME IInv, [Next]_vars PROVE IInv'
  OBVIOUS
<1>1. CASE UNCHANGED vars
  BY <1>1 DEF vars, IInv, TypeOK, Slots, LockInv, CallInv, CopyInv, NoJunkRead,
              Live, Used, Available, Lacks, Written, Start, FirstPart, FrontHead
<1>2. ASSUME NEW t \in Threads, Invoke(t) \/ Step(t) \/ Crash(t) PROVE IInv'
  BY <1>2, InvokeKeeps, RefuseKeeps, CopyKeeps, CommitKeeps, DropResetKeeps,
     AcquireCrashKeeps DEF Step
<1> QED BY <1>1, <1>2 DEF Next

\* What every copy into the ring leaves alone.
LEMMA UnreadStep == IInv /\ [Next]_vars => \A j \in Live : buffer'[j] = buffer[j]
<1> SUFFICES ASSUME IInv, Next PROVE \A j \in Live : buffer'[j] = buffer[j]
  BY DEF vars
<1>1. PICK t \in Threads : Invoke(t) \/ Step(t) \/ Crash(t)
  BY DEF Next
<1>2. CASE Copy(t) \/ CopyWrapped(t)
  <2>1. /\ call[t] \in GoodCalls /\ call[t].op \in Copies /\ ~Lacks(call[t])
        /\ UNCHANGED <<head, tail>> /\ TypeOK
    BY <1>2 DEF IInv, CallInv, Inside, Copy, CopyWrapped
  <2>2. call[t].count \in 1 .. N - 1 /\ FirstPart(call[t]) \in 1 .. call[t].count
    BY <2>1, CopyBounds DEF TypeOK
  <2>3. CASE Copy(t)
    <3>1. 0 \in 0 .. call[t].count /\ FirstPart(call[t]) \in 0 .. call[t].count
      BY <2>2, RingAssumption
    <3>2. CopyPart(t, call[t], 0, FirstPart(call[t])) BY <2>3 DEF Copy
    <3> QED BY <2>1, <3>1, <3>2, CopyStep
  <2>4. CASE CopyWrapped(t)
    <3>1. /\ FirstPart(call[t]) \in 0 .. call[t].count
          /\ call[t].count \in FirstPart(call[t]) .. call[t].count
      BY <2>2, RingAssumption
    <3>2. CopyPart(t, call[t], FirstPart(call[t]), call[t].count)
      BY <2>4 DEF CopyWrapped
    <3> QED BY <2>1, <3>1, <3>2, CopyStep
  <2> QED BY <1>2, <2>3, <2>4
<1>3. CASE ~(Copy(t) \/ CopyWrapped(t))
  BY <1>1, <1>3 DEF Step, Invoke, Acquire, Refuse, Commit, Drop, Reset, Crash
<1> QED BY <1>2, <1>3

\* The shared header and every thread's locals keep their types; head and tail
\* stay inside the ring.
THEOREM TypeCorrect == Spec => []TypeOK
<1>1. IInv => TypeOK BY DEF IInv
<1> QED BY Initially, Inductive, <1>1, PTL DEF Spec

\* No reader of shm_ringbuffer ever meets a slot that nobody wrote.
THEOREM NoJunkCorrect == Spec => []NoJunkRead
<1>1. IInv => NoJunkRead BY DEF IInv
<1> QED BY Initially, Inductive, <1>1, PTL DEF Spec

\* No push, whole or cut short by a crash, overwrites an unread item.
THEOREM UnreadCorrect == Spec => UnreadKept
<1>1. IInv /\ [Next]_vars => [\A j \in Live : buffer'[j] = buffer[j]]_vars
  BY UnreadStep
<1> QED BY Initially, Inductive, <1>1, PTL DEF Spec, UnreadKept

----------------------------------------------------------------------------
(* The ring implements BoundedFifo: the unread slots, read from head on, are   *)
(* the queue, and a call takes effect when it stores the header.               *)

\* What a call has copied by step n: a push has its first n items in place, a pop
\* or peek holds the n oldest items; nobody touches either meanwhile.
Copied(t, n) ==
  IF call[t].op \in {"Push", "PushFront"}
  THEN /\ got[t] = <<>>
       /\ \A j \in Slots : Dist(Start(call[t]), j) < n =>
            buffer[j] = call[t].items[Dist(Start(call[t]), j) + 1]
  ELSE /\ Len(got[t]) = n
       /\ \A i \in 1 .. n : got[t][i] = buffer[Slot(head, i - 1)]

DataInv == \A t \in Threads :
             /\ pc[t] = "idle" => call[t] = Idle
             /\ pc[t] # "opening"
             /\ pc[t] \in {"idle", "spin", "check"} => got[t] = <<>>
             /\ pc[t] = "wrap" => Copied(t, FirstPart(call[t]))
             /\ pc[t] = "commit" => Copied(t, call[t].count)

\* Initially no call has copied anything.
LEMMA DataInitially == Init => DataInv
BY DEF Init, DataInv

\* The length and the elements of a concatenation.
LEMMA Concat ==
  ASSUME NEW S, NEW a \in Seq(S), NEW b \in Seq(S)
  PROVE  /\ Len(a \o b) = Len(a) + Len(b)
         /\ \A i \in 1 .. Len(a) + Len(b) : (a \o b)[i] = IF i <= Len(a) THEN a[i]
                                                            ELSE b[i - Len(a)]
BY ConcatProperties

\* A place of the ring is a slot.
LEMMA SlotInRing == ASSUME NEW h \in Slots, NEW k \in 0 .. N - 1 PROVE Slot(h, k) \in Slots
BY RingAssumption DEF Slot, Slots

\* A memcpy of items lo + 1 .. hi on top of the first lo leaves the first hi copied.
LEMMA CopyData ==
  ASSUME IInv, NEW t \in Threads, call[t] \in GoodCalls, call[t].op \in Copies,
         ~Lacks(call[t]),
         NEW lo \in 0 .. call[t].count, NEW hi \in lo .. call[t].count,
         lo = 0 => got[t] = <<>>, lo # 0 => Copied(t, lo),
         CopyPart(t, call[t], lo, hi), UNCHANGED <<head, tail, call>>
  PROVE  Copied(t, hi)'
<1> DEFINE c == call[t]
<1>0. /\ head \in Slots /\ tail \in Slots /\ got \in [Threads -> Seq(Items \cup {Junk})]
      /\ c.count \in 1 .. N - 1 /\ Start(c) \in Slots
      /\ lo \in Nat /\ hi \in Nat /\ lo <= hi /\ hi <= c.count
  BY CopyBounds, RingAssumption DEF IInv, TypeOK
<1>1. Start(c)' = Start(c)
  BY DEF Start, FrontHead
<1>2. \A j \in Slots : Dist(Start(c), j) \in 0 .. N - 1
  BY <1>0, RingAssumption DEF Dist, Slots
<1>3. CASE c.op \in {"Push", "PushFront"}
  <2>1. /\ buffer' = [j \in Slots |->
                       IF lo <= Dist(Start(c), j) /\ Dist(Start(c), j) < hi
                       THEN c.items[Dist(Start(c), j) + 1] ELSE buffer[j]]
        /\ got' = got
    BY <1>3 DEF CopyPart
  <2>2. got[t] = <<>> /\ \A j \in Slots : Dist(Start(c), j) < lo =>
                           buffer[j] = c.items[Dist(Start(c), j) + 1]
    BY <1>0, <1>2, <1>3 DEF Copied
  <2>3. \A j \in Slots : Dist(Start(c), j) < hi => buffer'[j] = c.items[Dist(Start(c), j) + 1]
    BY <1>0, <1>2, <2>1, <2>2
  <2> QED BY <1>1, <1>3, <2>1, <2>2, <2>3 DEF Copied
<1>4. CASE c.op \notin {"Push", "PushFront"}
  <2> DEFINE s == [i \in 1 .. hi - lo |-> buffer[Slot(head, lo + i - 1)]]
  <2>1. buffer' = buffer /\ got' = [got EXCEPT ![t] = @ \o s]
    BY <1>4 DEF CopyPart
  <2>2. \A i \in 1 .. hi - lo : Slot(head, lo + i - 1) \in Slots
    <3>1. \A i \in 1 .. hi - lo : lo + i - 1 \in 0 .. N - 1
      BY <1>0, RingAssumption
    <3>2. head \in Slots
      BY <1>0
    <3> QED BY <3>1, <3>2, SlotInRing
  <2>3. s \in Seq(Items \cup {Junk}) /\ Len(s) = hi - lo
    <3>1. hi - lo \in Nat BY <1>0
    <3>2. \A i \in 1 .. hi - lo : buffer[Slot(head, lo + i - 1)] \in Items \cup {Junk}
      BY <2>2 DEF IInv, TypeOK
    <3>3. s \in [1 .. hi - lo -> Items \cup {Junk}]
      BY <3>2
    <3> HIDE DEF s
    <3> QED BY <3>1, <3>3
  <2>4. got[t] \in Seq(Items \cup {Junk}) /\ got'[t] = got[t] \o s
    BY <1>0, <2>1
  <2>5. Len(got[t]) = lo /\ \A i \in 1 .. lo : got[t][i] = buffer[Slot(head, i - 1)]
    BY <1>0, <1>4 DEF Copied
  <2>6. /\ Len(got'[t]) = hi
        /\ \A i \in 1 .. hi : got'[t][i] = IF i <= lo THEN got[t][i] ELSE s[i - lo]
    <3> HIDE DEF s
    <3> DEFINE g == got[t]
    <3>0. g \in Seq(Items \cup {Junk}) /\ s \in Seq(Items \cup {Junk})
      BY <2>3, <2>4
    <3>1. /\ Len(g \o s) = Len(g) + Len(s)
          /\ \A i \in 1 .. Len(g) + Len(s) : (g \o s)[i] = IF i <= Len(g) THEN g[i]
                                                             ELSE s[i - Len(g)]
      <4> HIDE DEF g
      <4> QED BY <3>0, Concat
    <3> HIDE DEF g
    <3>2. got'[t] = g \o s /\ Len(g) = lo /\ g = got[t]
      BY <2>4, <2>5 DEF g
    <3>3. Len(g) + Len(s) = hi
      BY <1>0, <2>3, <3>2
    <3>4. Len(got'[t]) = hi
      BY <3>1, <3>2, <3>3
    <3>5. \A i \in 1 .. hi : got'[t][i] = IF i <= lo THEN g[i] ELSE s[i - lo]
      BY <3>1, <3>2, <3>3
    <3> QED BY <3>2, <3>4, <3>5
  <2>7. \A i \in 1 .. hi : got'[t][i] = buffer[Slot(head, i - 1)]
    <3> SUFFICES ASSUME NEW i \in 1 .. hi PROVE got'[t][i] = buffer[Slot(head, i - 1)]
      OBVIOUS
    <3>1. CASE i <= lo
      <4>1. i \in 1 .. lo BY <1>0, <3>1
      <4> QED BY <2>5, <2>6, <3>1, <4>1
    <3>2. CASE ~(i <= lo)
      <4>1. i - lo \in 1 .. hi - lo /\ lo + (i - lo) - 1 = i - 1
        BY <1>0, <3>2
      <4> QED BY <2>6, <3>2, <4>1
    <3> QED BY <3>1, <3>2
  <2> QED BY <1>4, <2>1, <2>6, <2>7 DEF Copied
<1> QED BY <1>3, <1>4

\* Every step keeps what has been copied.
LEMMA DataKeeps == IInv /\ DataInv /\ [Next]_vars => DataInv'
<1> SUFFICES ASSUME IInv, DataInv, [Next]_vars PROVE DataInv'
  OBVIOUS
<1>1. CASE UNCHANGED vars
  BY <1>1 DEF vars, DataInv, Copied, Start, FirstPart, FrontHead
<1>2. ASSUME NEW t \in Threads, Invoke(t) \/ Acquire(t) \/ Crash(t) PROVE DataInv'
  <2>1. UNCHANGED <<head, tail, buffer, got>> /\ TypeOK
    BY <1>2 DEF Invoke, Acquire, Crash, IInv
  <2>2. /\ \A u \in Threads : u # t => pc'[u] = pc[u] /\ call'[u] = call[u]
        /\ \/ pc'[t] = "spin" /\ got[t] = <<>>
           \/ pc'[t] = "check" /\ got[t] = <<>>
           \/ pc'[t] = "crashed"
    <3>1. CASE Invoke(t)
      <4>1. PICK x \in GoodCalls : call' = [call EXCEPT ![t] = x]
        BY <3>1 DEF Invoke
      <4> QED BY <2>1, <3>1, <4>1 DEF Invoke, DataInv, TypeOK
    <3>2. CASE Acquire(t)
      BY <2>1, <3>2 DEF Acquire, DataInv, TypeOK
    <3>3. CASE Crash(t)
      BY <2>1, <3>3 DEF Crash, TypeOK
    <3> QED BY <1>2, <3>1, <3>2, <3>3
  <2> QED BY <2>1, <2>2 DEF DataInv, Copied, Start, FirstPart, FrontHead
<1>3. ASSUME NEW t \in Threads, Refuse(t) \/ Commit(t) \/ Drop(t) \/ Reset(t) PROVE DataInv'
  <2>1. /\ pc' = [pc EXCEPT ![t] = "idle"] /\ call' = [call EXCEPT ![t] = Idle]
        /\ got' = [got EXCEPT ![t] = <<>>]
        /\ pc[t] \in Inside /\ lock = t /\ TypeOK
    BY <1>3 DEF Refuse, Commit, Drop, Reset, Return, Inside, IInv, LockInv
  <2>2. /\ \A u \in Threads : u # t => /\ pc'[u] = pc[u] /\ call'[u] = call[u]
                                       /\ got'[u] = got[u] /\ pc[u] \notin Inside
        /\ pc'[t] = "idle" /\ call'[t] = Idle /\ got'[t] = <<>>
    BY <2>1, Alone DEF TypeOK
  <2> QED BY <2>2 DEF DataInv, Inside
<1>4. ASSUME NEW t \in Threads, Copy(t) \/ CopyWrapped(t) PROVE DataInv'
  <2> DEFINE c == call[t]
  <2>1. /\ lock = t /\ pc[t] \in {"check", "wrap"}
        /\ c \in GoodCalls /\ c.op \in Copies /\ ~Lacks(c)
        /\ UNCHANGED <<head, tail, call>>
    BY <1>4 DEF Copy, CopyWrapped, IInv, LockInv, CallInv, Inside
  <2>2. c.count \in 1 .. N - 1 /\ FirstPart(c) \in 1 .. c.count /\ TypeOK
    BY <2>1, CopyBounds DEF IInv, TypeOK
  <2>3. /\ Start(c)' = Start(c) /\ FirstPart(c)' = FirstPart(c) /\ c.count' = c.count
    BY <2>1 DEF Start, FirstPart, FrontHead
  <2>4. /\ pc'[t] = "wrap" => Copied(t, FirstPart(c))'
        /\ pc'[t] = "commit" => Copied(t, c.count)'
        /\ pc'[t] \in {"wrap", "commit"}
    <3>1. CASE Copy(t)
      <4>1. CopyPart(t, c, 0, FirstPart(c)) /\ got[t] = <<>>
        BY <3>1 DEF Copy, DataInv
      <4>2. 0 \in 0 .. c.count /\ FirstPart(c) \in 0 .. c.count
        BY <2>2, RingAssumption
      <4>3. Copied(t, FirstPart(c))'
        <5>1. PICK n \in 0 .. c.count : n = FirstPart(c)
          BY <4>2
        <5>2. Copied(t, n)'
          BY <2>1, <4>1, <4>2, <5>1, CopyData
        <5>3. n = FirstPart(c)'
          BY <2>3, <5>1
        <5> QED BY <5>2, <5>3 DEF Copied
      <4>4. pc'[t] = IF FirstPart(c) < c.count THEN "wrap" ELSE "commit"
        BY <2>2, <3>1 DEF Copy, TypeOK
      <4>5. ~(FirstPart(c) < c.count) => FirstPart(c) = c.count
        BY <2>2, RingAssumption
      <4> QED BY <2>3, <4>3, <4>4, <4>5
    <3>2. CASE CopyWrapped(t)
      <4>1. CopyPart(t, c, FirstPart(c), c.count) /\ Copied(t, FirstPart(c)) /\ pc'[t] = "commit"
        BY <2>2, <3>2 DEF CopyWrapped, DataInv, TypeOK
      <4>2. FirstPart(c) \in 0 .. c.count /\ c.count \in FirstPart(c) .. c.count
            /\ FirstPart(c) # 0
        BY <2>2, RingAssumption
      <4>3. Copied(t, c.count)'
        BY <2>1, <4>1, <4>2, CopyData
      <4> QED BY <4>1, <4>3
    <3> QED BY <1>4, <3>1, <3>2
  <2>5. \A u \in Threads : u # t => pc'[u] = pc[u] /\ pc[u] \notin Inside /\ got'[u] = got[u]
    BY <1>4, <2>1, <2>2, Alone DEF Copy, CopyWrapped, CopyPart, TypeOK
  <2>6. \A u \in Threads : u # t => /\ pc[u] = "idle" => call'[u] = Idle
                                    /\ pc[u] # "opening"
                                    /\ pc[u] = "spin" => got[u] = <<>>
    BY <2>1 DEF DataInv
  <2> QED BY <2>1, <2>3, <2>4, <2>5, <2>6 DEF DataInv, Inside
<1> QED BY <1>1, <1>2, <1>3, <1>4 DEF Next, Step

----------------------------------------------------------------------------
(* The places of the queue as arcs: how each call changes the length, and which *)
(* slot each place is then.                                                    *)

\* A push at the tail adds k places after the last one.
LEMMA PushPlaces ==
  ASSUME NEW h \in Slots, NEW t \in Slots, NEW k \in Nat, k <= N - 1 - Arc(h, t)
  PROVE  /\ Arc(h, Slot(t, k)) = Arc(h, t) + k
         /\ \A i \in 1 .. k : /\ Slot(h, Arc(h, t) + i - 1) \in Slots
                              /\ Dist(t, Slot(h, Arc(h, t) + i - 1)) = i - 1
BY RingAssumption DEF Slots, Arc, Dist, Slot

\* A push in front puts k places before the first one.
LEMMA FrontPlaces ==
  ASSUME NEW h \in Slots, NEW t \in Slots, NEW k \in Nat, k <= N - 1 - Arc(h, t),
         NEW g, g = IF h >= k THEN h - k ELSE N - (k - h)
  PROVE  /\ Arc(g, t) = Arc(h, t) + k
         /\ \A i \in 1 .. k : Slot(g, i - 1) \in Slots /\ Dist(g, Slot(g, i - 1)) = i - 1
         /\ \A i \in 1 .. Arc(h, t) : Slot(g, k + i - 1) = Slot(h, i - 1)
BY RingAssumption DEF Slots, Arc, Dist, Slot

\* A pop moves every place k nearer the front.
LEMMA PopPlaces ==
  ASSUME NEW h \in Slots, NEW t \in Slots, NEW k \in Nat, k <= Arc(h, t)
  PROVE  /\ Arc(Slot(h, k), t) = Arc(h, t) - k
         /\ \A i \in 1 .. Arc(h, t) - k : Slot(Slot(h, k), i - 1) = Slot(h, k + i - 1)
BY RingAssumption DEF Slots, Arc, Slot

\* The unread items from h on, as a sequence.
Run(h, n, b) == [i \in 1 .. n |-> b[Slot(h, i - 1)]]

\* It is a sequence of that length.
LEMMA RunIsSeq ==
  ASSUME NEW h \in Slots, NEW n \in 0 .. N - 1,
         NEW b \in [Slots -> Items \cup {Junk}]
  PROVE  /\ Run(h, n, b) \in Seq(Items \cup {Junk}) /\ Len(Run(h, n, b)) = n
         /\ \A i \in 1 .. n : /\ Run(h, n, b)[i] = b[Slot(h, i - 1)]
                              /\ Slot(h, i - 1) \in Slots
                              /\ Dist(h, Slot(h, i - 1)) = i - 1
<1>1. \A i \in 1 .. n : Slot(h, i - 1) \in Slots /\ Dist(h, Slot(h, i - 1)) = i - 1
  BY RingAssumption DEF Slot, Slots, Dist
<1>2. n \in Nat /\ \A i \in 1 .. n : b[Slot(h, i - 1)] \in Items \cup {Junk}
  BY <1>1, RingAssumption
<1>3. Run(h, n, b) \in Seq(Items \cup {Junk}) /\ Len(Run(h, n, b)) = n
  BY <1>2 DEF Run
<1> QED BY <1>1, <1>3 DEF Run

QueueView == /\ Contents = Run(head, Arc(head, tail), buffer)
             /\ Used = Arc(head, tail) /\ Arc(head, tail) \in 0 .. N - 1
             /\ head \in Slots /\ tail \in Slots
             /\ buffer \in [Slots -> Items \cup {Junk}]

\* The queue that the ring stands for is the run of its unread items.
LEMMA ContentsRun == TypeOK => QueueView
<1> SUFFICES ASSUME TypeOK PROVE QueueView
  OBVIOUS
<1>1. head \in Slots /\ tail \in Slots /\ buffer \in [Slots -> Items \cup {Junk}]
  BY DEF TypeOK
<1>2. Used = Arc(head, tail) /\ Used \in 0 .. N - 1
  BY <1>1, Room DEF Used, Arc
<1> QED BY <1>1, <1>2 DEF Contents, Run, QueueView

\* A step that moves no index and writes no unread slot leaves the queue alone.
LEMMA SameContents ==
  ASSUME TypeOK, TypeOK', UNCHANGED <<head, tail>>, \A j \in Live : buffer'[j] = buffer[j]
  PROVE  Contents' = Contents
<1>1. Used' = Used /\ Used \in 0 .. N - 1 /\ head \in Slots
  BY ContentsRun DEF Used, QueueView
<1>2. \A i \in 1 .. Used : Slot(head, i - 1) \in Live
  BY <1>1, RingAssumption DEF Slot, Live, Slots, Dist
<1>3. \A i \in 1 .. Used : buffer'[Slot(head, i - 1)] = buffer[Slot(head, i - 1)]
  BY <1>2
<1> QED BY <1>1, <1>3 DEF Contents

\* Two runs of the ring that agree place by place with a concatenation are one.
LEMMA RunConcat ==
  ASSUME NEW h \in Slots, NEW n \in 0 .. N - 1, NEW b \in [Slots -> Items \cup {Junk}],
         NEW x \in Seq(Items \cup {Junk}), NEW y \in Seq(Items \cup {Junk}),
         n = Len(x) + Len(y),
         \A i \in 1 .. Len(x) : b[Slot(h, i - 1)] = x[i],
         \A i \in 1 .. Len(y) : b[Slot(h, Len(x) + i - 1)] = y[i]
  PROVE  Run(h, n, b) = x \o y
<1> DEFINE q == Run(h, n, b)
           z == x \o y
<1>1. q \in Seq(Items \cup {Junk}) /\ Len(q) = n /\ \A i \in 1 .. n : q[i] = b[Slot(h, i - 1)]
  BY RunIsSeq
<1>2. z \in Seq(Items \cup {Junk}) /\ Len(z) = n
  BY Concat
<1>3. \A i \in 1 .. n : z[i] = IF i <= Len(x) THEN x[i] ELSE y[i - Len(x)]
  BY Concat
<1>4. \A i \in 1 .. n : b[Slot(h, i - 1)] = IF i <= Len(x) THEN x[i] ELSE y[i - Len(x)]
  <2> SUFFICES ASSUME NEW i \in 1 .. n
               PROVE  b[Slot(h, i - 1)] = IF i <= Len(x) THEN x[i] ELSE y[i - Len(x)]
    OBVIOUS
  <2>1. Len(x) \in Nat /\ Len(y) \in Nat /\ n \in Nat
    BY RingAssumption
  <2>2. CASE i <= Len(x)
    BY <2>1, <2>2
  <2>3. CASE ~(i <= Len(x))
    <3>1. i - Len(x) \in 1 .. Len(y) /\ Len(x) + (i - Len(x)) - 1 = i - 1
      BY <2>1, <2>3
    <3> QED BY <2>3, <3>1
  <2> QED BY <2>2, <2>3
<1>5. \A i \in 1 .. Len(q) : q[i] = z[i]
  BY <1>1, <1>3, <1>4
<1> HIDE DEF q, z
<1> QED BY <1>1, <1>2, <1>5, SeqEqual DEF q, z

\* A pop or a drop of k items leaves the rest.
LEMMA RunRest ==
  ASSUME NEW h \in Slots, NEW t \in Slots, NEW b \in [Slots -> Items \cup {Junk}],
         NEW k \in Nat, k <= Arc(h, t), Arc(h, t) \in 0 .. N - 1, Slot(h, k) \in Slots
  PROVE  Run(Slot(h, k), Arc(Slot(h, k), t), b)
           = SubSeq(Run(h, Arc(h, t), b), k + 1, Arc(h, t))
<1> DEFINE n == Arc(h, t)
           q == Run(h, n, b)
           g == Slot(h, k)
           r == Run(g, n - k, b)
           z == SubSeq(q, k + 1, n)
<1>1. Arc(g, t) = n - k /\ n - k \in 0 .. N - 1 /\ n \in Nat
      /\ \A i \in 1 .. n - k : Slot(g, i - 1) = Slot(h, k + i - 1)
  BY PopPlaces, RingAssumption
<1>2. /\ r \in Seq(Items \cup {Junk}) /\ Len(r) = n - k
      /\ \A i \in 1 .. n - k : r[i] = b[Slot(g, i - 1)]
  BY <1>1, RunIsSeq
<1>3. q \in Seq(Items \cup {Junk}) /\ Len(q) = n /\ \A i \in 1 .. n : q[i] = b[Slot(h, i - 1)]
  BY RunIsSeq
<1>4. /\ z \in Seq(Items \cup {Junk}) /\ Len(z) = n - k
      /\ \A i \in 1 .. n - k : z[i] = q[k + i]
  <2> HIDE DEF q, n
  <2>1. \A i \in k + 1 .. n : q[i] \in Items \cup {Junk}
    BY <1>3, <1>1
  <2>2. k + 1 \in Int /\ n \in Int
    BY <1>1
  <2>3. /\ SubSeq(q, k + 1, n) \in Seq(Items \cup {Junk})
        /\ Len(SubSeq(q, k + 1, n)) = IF k + 1 <= n THEN n - (k + 1) + 1 ELSE 0
        /\ \A i \in 1 .. n - (k + 1) + 1 : SubSeq(q, k + 1, n)[i] = q[k + 1 + i - 1]
    BY <2>1, <2>2, SubSeqProperties
  <2>4. n - (k + 1) + 1 = n - k /\ \A i \in 1 .. n - k : k + 1 + i - 1 = k + i
    BY <1>1
  <2> QED BY <1>1, <2>3, <2>4
<1>5. \A i \in 1 .. n - k : r[i] = z[i]
  <2> SUFFICES ASSUME NEW i \in 1 .. n - k PROVE r[i] = z[i]
    OBVIOUS
  <2>1. k + i \in 1 .. n
    BY <1>1
  <2>2. q[k + i] = b[Slot(h, k + i - 1)]
    BY <1>3, <2>1
  <2>3. r[i] = b[Slot(g, i - 1)] /\ Slot(g, i - 1) = Slot(h, k + i - 1)
    BY <1>1, <1>2
  <2>4. z[i] = q[k + i]
    BY <1>4
  <2> HIDE DEF q, n, g, r, z
  <2> QED BY <2>2, <2>3, <2>4
<1> HIDE DEF q, r, z, n, g
<1>6. r = z BY <1>2, <1>4, <1>5, SeqEqual
<1> QED BY <1>1, <1>6 DEF q, r, z, n, g

----------------------------------------------------------------------------
\* Taking effect: what the return of a call does to the queue.
LEMMA PushEffect ==
  ASSUME IInv, DataInv, NEW t \in Threads, Commit(t), TypeOK',
         call[t].op \in {"Push", "PushFront"}
  PROVE  /\ Used + call[t].count <= N - 1 /\ got[t] = <<>>
         /\ Contents' = IF call[t].op = "Push" THEN Contents \o call[t].items
                                               ELSE call[t].items \o Contents
<1> DEFINE c == call[t]
           k == c.count
           n == Arc(head, tail)
<1>1. /\ pc[t] = "commit" /\ buffer' = buffer /\ TypeOK
      /\ c \in GoodCalls /\ c.op \in Copies /\ ~Lacks(c) /\ Copied(t, k)
  BY DEF Commit, IInv, CallInv, DataInv, Inside
<1>2. /\ Contents = Run(head, n, buffer) /\ Used = n /\ n \in 0 .. N - 1
      /\ head \in Slots /\ tail \in Slots /\ buffer \in [Slots -> Items \cup {Junk}]
      /\ Contents \in Seq(Items \cup {Junk}) /\ Len(Contents) = n
      /\ \A i \in 1 .. n : Contents[i] = buffer[Slot(head, i - 1)]
  BY <1>1, ContentsRun, RunIsSeq DEF QueueView
<1>3. k \in 1 .. N - 1 /\ k <= N - 1 - n
  BY <1>1, <1>2, CopyBounds, Room, RingAssumption
<1>4. c.items \in Seq(Items \cup {Junk}) /\ Len(c.items) = k
  BY <1>1, GoodCall, SeqMonotonic
<1>5. got[t] = <<>> /\ \A j \in Slots : Dist(Start(c), j) < k =>
                         buffer[j] = c.items[Dist(Start(c), j) + 1]
  BY <1>1 DEF Copied
<1>6. /\ Contents' = Run(head', Arc(head', tail'), buffer)
      /\ head' \in Slots /\ Arc(head', tail') \in 0 .. N - 1
  <2>1. QueueView'
    BY ContentsRun, PTL
  <2> QED BY <1>1, <2>1 DEF QueueView, Run, Arc
<1>7. CASE c.op = "Push"
  <2>1. head' = head /\ tail' = Slot(tail, k) /\ Start(c) = tail
    BY <1>2, <1>3, <1>7, NewIndex, RingAssumption DEF Commit, Start
  <2>2. /\ Arc(head', tail') = n + k
        /\ \A i \in 1 .. k : /\ Slot(head, n + i - 1) \in Slots
                             /\ Dist(tail, Slot(head, n + i - 1)) = i - 1
    BY <1>2, <1>3, <2>1, PushPlaces
  <2>3. \A i \in 1 .. k : buffer[Slot(head, n + i - 1)] = c.items[i]
    BY <1>3, <1>5, <2>1, <2>2
  <2>4. Run(head, n + k, buffer) = Contents \o c.items
    <3> HIDE DEF k, n, c
    <3>1. n + k \in 0 .. N - 1
      BY <1>6, <2>2
    <3>2. n + k = Len(Contents) + Len(c.items)
      BY <1>2, <1>3, <1>4
    <3>3. \A i \in 1 .. Len(c.items) : buffer[Slot(head, Len(Contents) + i - 1)] = c.items[i]
      BY <1>2, <1>4, <2>3
    <3>4. \A i \in 1 .. Len(Contents) : buffer[Slot(head, i - 1)] = Contents[i]
      BY <1>2
    <3> QED BY <1>2, <1>4, <3>1, <3>2, <3>3, <3>4, RunConcat
  <2>5. Contents' = Contents \o c.items
    BY <1>6, <2>1, <2>2, <2>4
  <2>6. Used + k <= N - 1
    BY <1>2, <1>3, RingAssumption
  <2> QED BY <1>5, <1>7, <2>5, <2>6
<1>8. CASE c.op = "PushFront"
  <2>1. /\ head' = Start(c) /\ tail' = tail
        /\ Start(c) = IF head >= k THEN head - k ELSE N - (k - head)
    BY <1>1, <1>2, <1>8, CopyBounds DEF Commit, Start
  <2>2. /\ Arc(head', tail') = n + k
        /\ \A i \in 1 .. k : /\ Slot(head', i - 1) \in Slots
                             /\ Dist(head', Slot(head', i - 1)) = i - 1
        /\ \A i \in 1 .. n : Slot(head', k + i - 1) = Slot(head, i - 1)
    BY <1>2, <1>3, <2>1, FrontPlaces
  <2>3. \A i \in 1 .. k : buffer[Slot(head', i - 1)] = c.items[i]
    BY <1>3, <1>5, <2>1, <2>2
  <2>4. \A i \in 1 .. n : buffer[Slot(head', k + i - 1)] = Contents[i]
    BY <1>2, <2>2
  <2>5. Run(head', n + k, buffer) = c.items \o Contents
    <3> HIDE DEF k, n, c
    <3>1. n + k \in 0 .. N - 1
      BY <1>6, <2>2
    <3>2. n + k = Len(c.items) + Len(Contents)
      BY <1>2, <1>3, <1>4
    <3>3. \A i \in 1 .. Len(Contents) : buffer[Slot(head', Len(c.items) + i - 1)] = Contents[i]
      BY <1>2, <1>4, <2>4
    <3>4. \A i \in 1 .. Len(c.items) : buffer[Slot(head', i - 1)] = c.items[i]
      BY <1>4, <2>3
    <3> QED BY <1>2, <1>4, <1>6, <3>1, <3>2, <3>3, <3>4, RunConcat
  <2>6. Contents' = c.items \o Contents
    BY <1>6, <2>2, <2>5
  <2>7. Used + k <= N - 1
    BY <1>2, <1>3, RingAssumption
  <2> QED BY <1>5, <1>8, <2>6, <2>7
<1> QED BY <1>7, <1>8

\* A pop returns the first items and leaves the rest.
LEMMA TakeEffect ==
  ASSUME IInv, DataInv, NEW t \in Threads, Commit(t), TypeOK',
         call[t].op \in {"Pop", "Peek"}
  PROVE  /\ Used >= call[t].count
         /\ got[t] = SubSeq(Contents, 1, call[t].count)
         /\ Contents' = IF call[t].op = "Pop"
                        THEN SubSeq(Contents, call[t].count + 1, Used) ELSE Contents
<1> DEFINE c == call[t]
           k == c.count
           n == Arc(head, tail)
<1>1. /\ pc[t] = "commit" /\ buffer' = buffer /\ TypeOK
      /\ c \in GoodCalls /\ c.op \in Copies /\ ~Lacks(c) /\ Copied(t, k)
  BY DEF Commit, IInv, CallInv, DataInv, Inside
<1>2. /\ Contents = Run(head, n, buffer) /\ Used = n /\ n \in 0 .. N - 1
      /\ head \in Slots /\ tail \in Slots /\ buffer \in [Slots -> Items \cup {Junk}]
      /\ Contents \in Seq(Items \cup {Junk}) /\ Len(Contents) = n
      /\ \A i \in 1 .. n : Contents[i] = buffer[Slot(head, i - 1)]
  BY <1>1, ContentsRun, RunIsSeq DEF QueueView
<1>3. k \in 1 .. N - 1 /\ k \in Nat /\ k <= n
  BY <1>1, <1>2, CopyBounds, RingAssumption DEF Lacks
<1>4. /\ got[t] \in Seq(Items \cup {Junk}) /\ Len(got[t]) = k
      /\ \A i \in 1 .. k : got[t][i] = buffer[Slot(head, i - 1)]
  BY <1>1 DEF Copied, TypeOK
<1>5. got[t] = SubSeq(Contents, 1, k)
  <2> DEFINE q == Contents
             z == SubSeq(q, 1, k)
  <2>1. \A i \in 1 .. k : i \in 1 .. n
    BY <1>2, <1>3
  <2>2. \A i \in 1 .. k : q[i] \in Items \cup {Junk}
    BY <1>2, <2>1, ElementOfSeq
  <2>3. /\ z \in Seq(Items \cup {Junk})
        /\ Len(z) = IF 1 <= k THEN k - 1 + 1 ELSE 0
        /\ \A i \in 1 .. k - 1 + 1 : z[i] = q[1 + i - 1]
    <3> HIDE DEF q, k
    <3>1. 1 \in Int /\ k \in Int BY <1>3
    <3> QED BY <2>2, <3>1, SubSeqProperties
  <2>4. Len(z) = k /\ \A i \in 1 .. k : z[i] = buffer[Slot(head, i - 1)]
    <3>1. k - 1 + 1 = k /\ 1 <= k /\ \A i \in 1 .. k : 1 + i - 1 = i
      BY <1>3, RingAssumption
    <3> HIDE DEF q, z, k, n
    <3>2. \A i \in 1 .. k : z[i] = q[i]
      BY <2>3, <3>1
    <3> QED BY <1>2, <2>1, <2>3, <3>1, <3>2 DEF q
  <2> HIDE DEF z
  <2>5. got[t] = z
    BY <1>4, <2>3, <2>4, SeqEqual
  <2> QED BY <2>5 DEF z
<1>6. /\ Contents' = Run(head', Arc(head', tail'), buffer)
      /\ head' \in Slots /\ tail' = tail
  <2>1. QueueView'
    BY ContentsRun, PTL
  <2> QED BY <1>1, <2>1 DEF QueueView, Run, Arc, Commit
<1>7. CASE c.op = "Pop"
  <2>1. k \in 0 .. N - 1
    BY <1>3, RingAssumption
  <2>2. head' = Slot(head, k) /\ Slot(head, k) \in Slots
    BY <1>2, <1>7, <2>1, NewIndex DEF Commit
  <2>3. Run(Slot(head, k), Arc(Slot(head, k), tail), buffer)
          = SubSeq(Run(head, n, buffer), k + 1, n)
    BY <1>2, <1>3, <2>2, RunRest
  <2>4. Contents' = SubSeq(Contents, k + 1, Used)
    BY <1>2, <1>6, <2>2, <2>3
  <2>5. Used >= k
    BY <1>2, <1>3, RingAssumption
  <2> QED BY <1>5, <1>7, <2>4, <2>5
<1>8. CASE c.op = "Peek"
  <2>1. head' = head
    BY <1>8 DEF Commit
  <2>2. Contents' = Contents
    BY <1>2, <1>6, <2>1
  <2>3. Used >= k
    BY <1>2, <1>3, RingAssumption
  <2> QED BY <1>5, <1>8, <2>2, <2>3
<1> QED BY <1>7, <1>8

\* Discarding from the front leaves the rest.
LEMMA DropEffect ==
  ASSUME IInv, NEW t \in Threads, Drop(t), TypeOK'
  PROVE  /\ Contents # <<>>
         /\ Contents' = IF call[t].count > Used THEN <<>>
                        ELSE SubSeq(Contents, call[t].count + 1, Used)
<1> DEFINE c == call[t]
           n == Arc(head, tail)
           k == IF c.count > Used THEN Used ELSE c.count
<1>1. /\ buffer' = buffer /\ tail' = tail /\ TypeOK /\ head' = (head + k) % N
      /\ c \in GoodCalls /\ c.op = "Drop" /\ ~Lacks(c)
  BY DEF Drop, IInv, CallInv, Inside
<1>2. /\ Contents = Run(head, n, buffer) /\ Used = n /\ n \in 0 .. N - 1
      /\ head \in Slots /\ tail \in Slots /\ buffer \in [Slots -> Items \cup {Junk}]
      /\ Contents \in Seq(Items \cup {Junk}) /\ Len(Contents) = n
  BY <1>1, ContentsRun, RunIsSeq DEF QueueView
<1>3. c.count \in 1 .. MaxCount /\ Used # 0
  BY <1>1, GoodCall DEF Lacks
<1>4. k \in 0 .. N - 1 /\ k \in Nat /\ k <= n
  BY <1>2, <1>3, RingAssumption
<1>5. head' = Slot(head, k) /\ Slot(head, k) \in Slots
  BY <1>1, <1>2, <1>4, NewIndex
<1>6. Contents' = Run(head', Arc(head', tail), buffer)
  <2>1. QueueView'
    BY ContentsRun, PTL
  <2> QED BY <1>1, <2>1 DEF QueueView, Run, Arc
<1>7. Run(Slot(head, k), Arc(Slot(head, k), tail), buffer)
        = SubSeq(Run(head, n, buffer), k + 1, n)
  <2> HIDE DEF k, n
  <2>1. n = Arc(head, tail) BY DEF n
  <2> QED BY <1>2, <1>4, <1>5, <2>1, RunRest
<1>8. Contents' = SubSeq(Contents, k + 1, Used)
  BY <1>2, <1>5, <1>6, <1>7
<1>9. CASE c.count > Used
  <2>1. Contents' = SubSeq(Contents, n + 1, n)
    BY <1>2, <1>8, <1>9
  <2>2. n + 1 \in Int /\ n \in Int /\ n < n + 1
    BY <1>2, RingAssumption
  <2> HIDE DEF n
  <2>3. Contents' = <<>>
    BY <2>1, <2>2, SubSeqEmpty
  <2> QED BY <1>2, <1>3, <1>9, <2>3, EmptySeq
<1>10. CASE ~(c.count > Used)
  BY <1>2, <1>3, <1>8, <1>10, EmptySeq
<1> QED BY <1>9, <1>10

\* Each step of the ring is a step of the queue, or leaves it alone.
LEMMA RefinesStep ==
  IInv /\ IInv' /\ DataInv /\ [Next]_vars => [Fifo!Next]_<<Contents, call, result>>
<1> SUFFICES ASSUME IInv, IInv', DataInv, Next
             PROVE  [Fifo!Next]_<<Contents, call, result>>
  <2>1. UNCHANGED vars => UNCHANGED <<Contents, call, result>>
    BY DEF vars, Contents, Used
  <2> QED BY <2>1
<1>0. TypeOK /\ TypeOK'
  BY DEF IInv
<1>1. PICK t \in Threads : Invoke(t) \/ Step(t) \/ Crash(t)
  BY DEF Next
<1>2. Fifo!Idle = Idle /\ Fifo!Refused = Refused /\ \A s : Fifo!Done(s) = Done(s)
  BY DEF Fifo!Idle, Idle, Fifo!Refused, Refused, Fifo!Done, Done
<1>3. Contents \in Seq(Items \cup {Junk}) /\ Len(Contents) = Used /\ Used \in 0 .. N - 1
  BY <1>0, ContentsRun, RunIsSeq DEF QueueView
<1>4. UNCHANGED <<head, tail>> => Contents' = Contents
  BY <1>0, UnreadStep, SameContents
<1>5. CASE Invoke(t)
  <2>1. /\ call[t] = Idle /\ UNCHANGED <<head, tail>>
        /\ \E c \in GoodCalls : call' = [call EXCEPT ![t] = c]
        /\ result' = [result EXCEPT ![t] = Refused]
    BY <1>5 DEF Invoke, DataInv
  <2>2. Fifo!Invoke(t)
    BY <1>2, <1>4, <2>1 DEF Fifo!Invoke
  <2> QED BY <2>2 DEF Fifo!Next
<1>6. CASE Acquire(t) \/ Copy(t) \/ CopyWrapped(t) \/ Crash(t)
  BY <1>4, <1>6 DEF Acquire, Copy, CopyWrapped, Crash
<1>7. CASE Refuse(t) \/ Commit(t) \/ Drop(t) \/ Reset(t)
  <2> DEFINE c == call[t]
  <2>1. c \in GoodCalls /\ (c.op # "Reset" => c.count \in Nat)
    BY <1>7, GoodCall DEF Refuse, Commit, Drop, Reset, IInv, CallInv, Inside
  <2>2. c # Idle
    BY <2>1, GoodCall DEF Idle
  <2>3. call' = [call EXCEPT ![t] = Fifo!Idle]
    BY <1>2, <1>7 DEF Refuse, Commit, Drop, Reset, Return
  <2>4. Fifo!Take(t, c)
    <3>1. CASE Refuse(t)
      <4>1. result' = [result EXCEPT ![t] = Refused] /\ Lacks(c) /\ Contents' = Contents
        BY <1>4, <3>1 DEF Refuse, Return
      <4>2. Used + Available = N - 1 /\ Available \in 0 .. N - 1
        BY <1>0, Room DEF TypeOK
      <4>3. CASE c.op \in {"Push", "PushFront"}
        <5>1. Len(Contents) + c.count > N - 1
          <6>1. c.count \in Nat /\ Available < c.count
            BY <2>1, <4>1, <4>3 DEF Lacks
          <6> HIDE DEF c
          <6> QED BY <1>3, <4>2, <6>1, RingAssumption
        <5> QED BY <1>2, <2>3, <4>1, <4>3, <5>1 DEF Fifo!Take, Fifo!Return
      <4>4. CASE c.op \in {"Pop", "Peek"}
        <5>1. Len(Contents) < c.count
          BY <1>3, <4>1, <4>4 DEF Lacks
        <5> QED BY <1>2, <2>3, <4>1, <4>4, <5>1 DEF Fifo!Take, Fifo!Return
      <4>5. CASE c.op = "Drop"
        <5>1. Contents = <<>>
          BY <1>3, <4>1, <4>5, EmptySeq DEF Lacks
        <5> QED BY <1>2, <2>3, <4>1, <4>5, <5>1 DEF Fifo!Take, Fifo!Return
      <4> QED BY <4>1, <4>3, <4>4, <4>5 DEF Lacks
    <3>2. CASE Commit(t)
      <4>1. c.op \in Copies /\ result' = [result EXCEPT ![t] = Done(got[t])]
        BY <3>2 DEF Commit, Return, IInv, CallInv
      <4>2. CASE c.op \in {"Push", "PushFront"}
        <5>1. /\ Used + c.count <= N - 1 /\ got[t] = <<>>
              /\ Contents' = IF c.op = "Push" THEN Contents \o c.items ELSE c.items \o Contents
          BY <1>0, <3>2, <4>2, PushEffect
        <5> QED BY <1>2, <1>3, <2>3, <4>1, <4>2, <5>1 DEF Fifo!Take, Fifo!Return
      <4>3. CASE c.op \in {"Pop", "Peek"}
        <5>1. /\ Used >= c.count /\ got[t] = SubSeq(Contents, 1, c.count)
              /\ Contents' = IF c.op = "Pop" THEN SubSeq(Contents, c.count + 1, Used)
                                             ELSE Contents
          BY <1>0, <3>2, <4>3, TakeEffect
        <5> QED BY <1>2, <1>3, <2>3, <4>1, <4>3, <5>1
                DEF Fifo!Take, Fifo!Return, Fifo!Front, Fifo!Rest
      <4> QED BY <4>1, <4>2, <4>3 DEF Copies
    <3>3. CASE Drop(t)
      <4>1. c.op = "Drop" /\ result' = [result EXCEPT ![t] = Done(<<>>)]
        BY <3>3 DEF Drop, Return
      <4>2. /\ Contents # <<>>
            /\ Contents' = IF c.count > Used THEN <<>> ELSE SubSeq(Contents, c.count + 1, Used)
        BY <1>0, <3>3, DropEffect
      <4> QED BY <1>2, <1>3, <2>3, <4>1, <4>2 DEF Fifo!Take, Fifo!Return, Fifo!Rest
    <3>4. CASE Reset(t)
      <4>1. c.op = "Reset" /\ result' = [result EXCEPT ![t] = Done(<<>>)]
            /\ head' = 0 /\ tail' = 0
        BY <3>4 DEF Reset, Return
      <4>2. Used' = 0
        BY <4>1, RingAssumption DEF Used
      <4>3. Contents' = <<>>
        BY <4>2 DEF Contents
      <4> QED BY <1>2, <2>3, <4>1, <4>3 DEF Fifo!Take, Fifo!Return
    <3> QED BY <1>7, <3>1, <3>2, <3>3, <3>4
  <2> QED BY <1>2, <2>2, <2>4 DEF Fifo!Next
<1> QED BY <1>1, <1>5, <1>6, <1>7 DEF Step

\* An empty ring is an empty queue.
LEMMA RefinesInit == Init => Fifo!Init
BY RingAssumption DEF Init, Fifo!Init, Contents, Used, Idle, Refused, Fifo!Idle, Fifo!Refused

\* The ring is a bounded FIFO queue for every size, whatever the threads interleave and
\* wherever processes die: what shm_ringbuffer.h promises and TEST_F(FIFOOrder) and the
\* wrap-around tests try on one thread.
THEOREM RingIsFifo == Spec => FifoSpec
<1>1. Spec => [](IInv /\ DataInv)
  BY Initially, Inductive, DataInitially, DataKeeps, PTL DEF Spec
<1>2. IInv /\ IInv' /\ DataInv /\ [Next]_vars => [Fifo!Next]_<<Contents, call, result>>
  BY RefinesStep
<1> QED BY <1>1, <1>2, RefinesInit, PTL DEF Spec, FifoSpec, Fifo!Spec

----------------------------------------------------------------------------
(* The slab allocator of Shm, for every number of processes, classes, pages *)
(* and blocks of a page.                                                    *)

\* How many blocks there are.
Total == Cardinality(Slab!Blocks)

\* The steps of a process: those with the mutex, those that give a block back, and those
\* that know a class.
Steps == {"off", "open", "create", "truncate", "created", "attached", "failed", "range",
          "size", "clear", "run", "want", "alloc", "head", "pop", "refused", "give",
          "link", "push"}
Locked == {"alloc", "head", "pop", "link", "push"}
Returning == {"give", "link", "push"}
WithClass == Locked \cup Returning \cup {"size", "clear", "want"}

\* The blocks of the pages that have been cut.
CutBlocks == {b \in Slab!Blocks : Slab!Class(b) \in Slab!Classes}

\* Types.  What a list or a process holds are blocks that have been cut.
SlabTyped ==
  /\ slab_shm \in [{"lock", "slab"} -> {"none", "empty", "sized"}]
  /\ slab_pc \in [Procs -> Steps] /\ slab_obj \in [Procs -> {"lock", "slab"}]
  /\ slab_lock \in Procs \cup {Free, Dead}
  /\ slab_magic \in BOOLEAN /\ slab_ready \in BOOLEAN /\ slab_reset \in BOOLEAN
  /\ slab_sized \subseteq Slab!Classes
  /\ slab_bump \in 0 .. Pages /\ slab_class \in [1 .. Pages -> {0} \cup Slab!Classes]
  /\ slab_free_list \in [Slab!Classes -> {0, Slab!Wild} \cup CutBlocks]
  /\ slab_next \in [Slab!Blocks -> {0, Slab!Wild} \cup CutBlocks]
  /\ slab_cls \in [Procs -> {0} \cup Slab!Classes]
  /\ slab_off \in [Procs -> {0} \cup CutBlocks] /\ slab_own \in [Procs -> SUBSET CutBlocks]
  /\ slab_lost \subseteq Slab!Blocks

\* What a process knows at its step.
StepInv ==
  \A p \in Procs : /\ slab_lock = p => slab_pc[p] \in Locked
                   /\ slab_pc[p] \in WithClass => slab_cls[p] \in Slab!Classes
                   /\ slab_pc[p] \in Returning => slab_off[p] \in CutBlocks

\* p has made the slab and is filling in its header.
Creating(p) == Slab!At(p, "created", "slab") \/ slab_pc[p] \in {"range", "size", "clear"}

\* One process at most makes the slab, and no page is cut before its header says which.
CreateInv ==
  /\ \A p \in Procs : /\ Slab!At(p, "truncate", "slab") => slab_shm["slab"] = "empty"
                      /\ Creating(p) => slab_shm["slab"] = "sized"
                      /\ Slab!At(p, "created", "slab") \/ slab_pc[p] = "range" => ~slab_ready
  /\ \A p, q \in Procs :
        p # q => /\ ~(Slab!At(p, "truncate", "slab") /\ Slab!At(q, "truncate", "slab"))
                 /\ ~(Creating(p) /\ Creating(q))
  /\ slab_ready => slab_shm["slab"] = "sized"
  /\ ~slab_ready => slab_bump = 0
  /\ \A g \in 1 .. Pages : g > slab_bump => slab_class[g] = 0

\* The blocks that p holds or gives back.
Hands(p) == slab_own[p] \cup Slab!Giving(p)

\* The list of a class whose head and links disagree for a moment: its first block is being
\* taken, or a block is being put before it.  Front is where the list begins meanwhile.
Popping(c) == /\ slab_lock \in Procs /\ slab_cls[slab_lock] = c
              /\ slab_pc[slab_lock] = "pop" /\ slab_off[slab_lock] # 0
Pushing(c) == slab_lock \in Procs /\ slab_cls[slab_lock] = c /\ slab_pc[slab_lock] = "push"

Front(c) == IF Popping(c) THEN slab_off[slab_lock]
            ELSE IF Pushing(c) THEN slab_next[slab_off[slab_lock]]
            ELSE slab_free_list[c]

\* The n blocks of s, all different, are linked by nx from h to an end.
Chain(s, n, h, nx) ==
  /\ s \in [1 .. n -> Slab!Blocks]
  /\ \A i, j \in 1 .. n : i # j => s[i] # s[j]
  /\ n = 0 => h \in {0, Slab!Wild}
  /\ n > 0 => h = s[1] /\ nx[s[n]] \in {0, Slab!Wild}
  /\ \A i \in 1 .. n - 1 : nx[s[i]] = s[i + 1]

\* The list of class c is the chain s of blocks of that class which no process has, or
\* has been cleared when it was; every other block of the class is with a process or lost.
Listing(c, s, n) ==
  /\ Chain(s, n, Front(c), slab_next)
  /\ \A i \in 1 .. n : Slab!Class(s[i]) = c /\ \A p \in Procs : s[i] \notin Hands(p)
  /\ \/ slab_free_list[c] = Front(c)
     \/ slab_free_list[c] = 0 /\ \A i \in 1 .. n : s[i] \in slab_lost
  /\ \A b \in Slab!Blocks : Slab!Class(b) = c =>
        b \in slab_lost \/ (\E i \in 1 .. n : b = s[i]) \/ \E p \in Procs : b \in Hands(p)

HasListing(c) == \E n \in 0 .. Total : \E s \in [1 .. n -> Slab!Blocks] : Listing(c, s, n)
Listings == \A c \in Slab!Classes : HasListing(c)

\* The mutex excludes, and no block is in two hands.
Mutex == \A p \in Procs : slab_pc[p] \in Locked => slab_lock = p
Apart == /\ \A p, q \in Procs : p # q => Hands(p) \cap Hands(q) = {}
         /\ \A p \in Procs : slab_own[p] \cap Slab!Giving(p) = {}

\* A process that found the list cleared finds it so until it unlocks; a block goes back
\* to the list of its class.
LocalInv ==
  \A p \in Procs :
     /\ slab_pc[p] = "pop" /\ slab_off[p] = 0 => slab_free_list[slab_cls[p]] = 0
     /\ slab_pc[p] \in Returning => slab_cls[p] = Slab!Class(slab_off[p])

\* Unless the mutex was initialised under its holder.
Safe == Mutex /\ Apart /\ LocalInv /\ Listings

SlabInv == SlabTyped /\ StepInv /\ CreateInv /\ (slab_reset \/ Safe)

----------------------------------------------------------------------------
(* Numbers, blocks and pages.                                               *)

\* Induction over the numbers, for one set: a counterexample would have a least member.
LEMMA SetInduction ==
  ASSUME NEW S, 0 \in S, \A n \in Nat : n \in S => n + 1 \in S
  PROVE  Nat \subseteq S
<1> DEFINE T == Nat \ S
<1> SUFFICES ASSUME T # {} PROVE FALSE
  OBVIOUS
<1>1. PICK x \in T : \A y \in T : ~(<<y, x>> \in OpToRel(<, Nat))
  BY NatLessThanWellFounded, WFMin
<1>2. x \in Nat /\ x # 0 /\ x - 1 \in Nat
  OBVIOUS
<1>3. x - 1 \notin S
  <2>1. (x - 1) + 1 = x
    BY <1>2
  <2> QED BY <1>2, <2>1
<1>4. <<x - 1, x>> \in OpToRel(<, Nat)
  BY <1>2 DEF OpToRel
<1> QED BY <1>1, <1>2, <1>3, <1>4

\* The quotient of the number that is r after q whole pages.
LEMMA Division ==
  ASSUME NEW q \in Nat, NEW r \in Nat, NEW k \in Nat, r < k
  PROVE  (q * k + r) \div k = q
OBVIOUS

\* A number is less than a page away from the whole pages before it.
LEMMA DivisionOf ==
  ASSUME NEW b \in Nat, NEW k \in Nat \ {0}
  PROVE  /\ b \div k \in Nat
         /\ (b \div k) * k <= b
         /\ b < (b \div k) * k + k
OBVIOUS

\* More pages have more blocks.
LEMMA Times ==
  ASSUME NEW a \in Nat, NEW b \in Nat, NEW k \in Nat, a <= b
  PROVE  a * k <= b * k /\ a * k \in Nat
OBVIOUS

\* The offsets of blocks are neither 0 nor Wild, and finitely many.
LEMMA BlockFacts ==
  /\ 0 \notin Slab!Blocks /\ Slab!Wild \notin Slab!Blocks /\ Slab!Wild # 0
  /\ IsFiniteSet(Slab!Blocks) /\ Total \in Nat
  /\ Slab!Blocks \subseteq Nat
<1>1. Pages * PageBlocks \in Nat
  BY SlabAssumption, Times
<1>2. IsFiniteSet(Slab!Blocks) /\ Total \in Nat
  BY <1>1, FS_Interval, FS_CardinalityType DEF Slab!Blocks, Total
<1> QED BY <1>1, <1>2 DEF Slab!Blocks, Slab!Wild

\* A block lies in its page, and a page has only its blocks.
LEMMA PageFacts ==
  /\ \A b \in Slab!Blocks : Slab!Page(b) \in 1 .. Pages
     /\ b \in Slab!First(Slab!Page(b)) .. Slab!First(Slab!Page(b)) + PageBlocks - 1
  /\ \A g \in 1 .. Pages : \A b \in Slab!First(g) .. Slab!First(g) + PageBlocks - 1 :
        b \in Slab!Blocks /\ Slab!Page(b) = g
  /\ \A g \in 1 .. Pages : Slab!First(g) \in Nat
<1> USE SlabAssumption
<1>1. ASSUME NEW b \in Slab!Blocks
      PROVE  Slab!Page(b) \in 1 .. Pages
               /\ b \in Slab!First(Slab!Page(b)) .. Slab!First(Slab!Page(b)) + PageBlocks - 1
  <2> DEFINE d == (b - 1) \div PageBlocks
  <2>1. b \in Nat /\ b >= 1 /\ b - 1 \in Nat /\ b <= Pages * PageBlocks
    BY Times DEF Slab!Blocks
  <2>2. d \in Nat /\ d * PageBlocks <= b - 1 /\ b - 1 < d * PageBlocks + PageBlocks
    BY <2>1, DivisionOf
  <2>3. d * PageBlocks \in Nat /\ Pages * PageBlocks \in Nat
    BY <2>2, Times
  <2>4. d < Pages
    <3> SUFFICES ASSUME Pages <= d PROVE FALSE
      BY <2>2
    <3>1. Pages * PageBlocks <= d * PageBlocks
      BY <2>2, Times
    <3> HIDE DEF d
    <3> QED BY <2>1, <2>2, <2>3, <3>1
  <2>5. Slab!Page(b) = d + 1
    BY DEF Slab!Page
  <2>6. Slab!First(d + 1) = d * PageBlocks + 1
    <3> HIDE DEF d
    <3> QED BY <2>2 DEF Slab!First
  <2> HIDE DEF d
  <2> QED BY <2>1, <2>2, <2>3, <2>4, <2>5, <2>6
<1>2. ASSUME NEW g \in 1 .. Pages
      PROVE  /\ Slab!First(g) \in Nat
             /\ \A b \in Slab!First(g) .. Slab!First(g) + PageBlocks - 1 : b \in Slab!Blocks
                /\ Slab!Page(b) = g
  <2>1. g - 1 \in Nat /\ (g - 1) * PageBlocks \in Nat
          /\ Slab!First(g) = (g - 1) * PageBlocks + 1
    BY Times DEF Slab!First
  <2>2. (g - 1) * PageBlocks + PageBlocks <= Pages * PageBlocks /\ Pages * PageBlocks \in Nat
    <3>1. g * PageBlocks <= Pages * PageBlocks /\ Pages * PageBlocks \in Nat
      BY Times
    <3>2. (g - 1) * PageBlocks + PageBlocks = g * PageBlocks
      OBVIOUS
    <3> QED BY <3>1, <3>2
  <2>3. ASSUME NEW b \in Slab!First(g) .. Slab!First(g) + PageBlocks - 1
        PROVE  b \in Slab!Blocks /\ Slab!Page(b) = g
    <3> DEFINE m == (g - 1) * PageBlocks
               r == b - 1 - m
    <3>1. m \in Nat /\ b \in m + 1 .. m + PageBlocks /\ m + PageBlocks <= Pages * PageBlocks
      BY <2>1, <2>2
    <3>2. r \in Nat /\ r < PageBlocks /\ b - 1 = m + r
      <4> HIDE DEF m
      <4> QED BY <3>1
    <3>3. (b - 1) \div PageBlocks = g - 1
      <4>1. (b - 1) = (g - 1) * PageBlocks + r
        BY <3>2
      <4> HIDE DEF m, r
      <4>2. g - 1 \in Nat /\ PageBlocks \in Nat
        BY <2>1
      <4>3. ((g - 1) * PageBlocks + r) \div PageBlocks = g - 1
        BY ONLY <4>2, <3>2, Division
      <4> QED BY ONLY <4>1, <4>3
    <3>4. b \in Slab!Blocks
      <4> HIDE DEF m
      <4> QED BY <3>1, <2>2 DEF Slab!Blocks
    <3> QED BY <3>3, <3>4 DEF Slab!Page
  <2> QED BY <2>1, <2>3
<1> QED BY <1>1, <1>2


----------------------------------------------------------------------------
(* Chains, and the walk along one.                                          *)

\* The next step of a walk f along the list of class c.
Further(f, c, n) == IF n = 0 THEN slab_free_list[c]
                    ELSE IF f[n - 1] \in {0, Slab!Wild} THEN f[n - 1] ELSE slab_next[f[n - 1]]

\* A function that satisfies the recursion of Walk exists only if Walk satisfies it, too.
LEMMA WalkIs ==
  ASSUME NEW c \in Slab!Classes, NEW w, w = [n \in 0 .. Total |-> Further(w, c, n)]
  PROVE  Slab!Walk(c) = [n \in 0 .. Total |-> Further(Slab!Walk(c), c, n)]
BY DEF Slab!Walk, Further, Total, Slab!Cardinality, Cardinality

\* The walk along a list that is a chain ends, and finds the members of the chain.
LEMMA WalkOfChain ==
  ASSUME NEW c \in Slab!Classes, NEW n \in 0 .. Total, NEW s,
         Chain(s, n, slab_free_list[c], slab_next)
  PROVE  /\ Slab!Walk(c)[Total] \in {0, Slab!Wild}
         /\ Slab!Listed(c) = {s[i] : i \in 1 .. n}
<1> DEFINE end == IF n = 0 THEN slab_free_list[c] ELSE slab_next[s[n]]
           w == [k \in 0 .. Total |-> IF k < n THEN s[k + 1] ELSE end]
           W == Slab!Walk(c)
<1>1. Total \in Nat /\ 0 \notin Slab!Blocks /\ Slab!Wild \notin Slab!Blocks
  BY BlockFacts
<1>2. end \in {0, Slab!Wild}
  BY DEF Chain
<1>3. \A i \in 1 .. n : s[i] \in Slab!Blocks /\ s[i] \notin {0, Slab!Wild}
  BY <1>1 DEF Chain
<1>4. \A k \in 0 .. Total : w[k] = Further(w, c, k)
  <2> SUFFICES ASSUME NEW k \in 0 .. Total PROVE w[k] = Further(w, c, k)
    OBVIOUS
  <2>1. CASE k = 0
    BY <1>1, <2>1 DEF Further, Chain
  <2>2. CASE k > 0 /\ k < n
    <3>1. k - 1 \in 0 .. Total /\ w[k - 1] = s[k] /\ w[k] = s[k + 1] /\ k \in 1 .. n - 1
      BY <1>1, <2>2
    <3>2. slab_next[s[k]] = s[k + 1]
      BY <3>1 DEF Chain
    <3> HIDE DEF w
    <3> QED BY <1>3, <2>2, <3>1, <3>2 DEF Further
  <2>3. CASE k > 0 /\ k = n
    <3>1. k - 1 \in 0 .. Total /\ w[k - 1] = s[n] /\ w[k] = slab_next[s[n]] /\ n \in 1 .. n
      BY <1>1, <2>3
    <3> HIDE DEF w
    <3> QED BY <1>3, <2>3, <3>1 DEF Further
  <2>4. CASE k > n
    <3>1. k - 1 \in 0 .. Total /\ w[k - 1] = end /\ w[k] = end /\ k # 0
      BY <1>1, <2>4
    <3> HIDE DEF w, end
    <3> QED BY <1>2, <3>1 DEF Further
  <2> QED BY <1>1, <2>1, <2>2, <2>3, <2>4
<1>5. w = [k \in 0 .. Total |-> Further(w, c, k)]
  <2>1. \A k \in 0 .. Total : w[k] = [j \in 0 .. Total |-> Further(w, c, j)][k]
    <3> HIDE DEF w
    <3> QED BY <1>4
  <2> QED BY <2>1
<1>6. W = [k \in 0 .. Total |-> Further(W, c, k)]
  <2> HIDE DEF w
  <2> QED BY <1>5, WalkIs
<1>7. \A k \in 0 .. Total : W[k] = Further(W, c, k)
  <2> HIDE DEF W
  <2> QED BY <1>6
<1>8. \A k \in 0 .. Total : W[k] = w[k]
  <2> DEFINE S == {k \in Nat : k \in 0 .. Total => W[k] = w[k]}
  <2>1. 0 \in S
    <3> HIDE DEF W, w
    <3>1. 0 \in 0 .. Total
      BY <1>1
    <3>2. W[0] = Further(W, c, 0) /\ w[0] = Further(w, c, 0)
      BY <1>4, <1>7, <3>1
    <3> QED BY <3>2 DEF Further
  <2>2. \A k \in Nat : k \in S => k + 1 \in S
    <3> HIDE DEF W, w
    <3> SUFFICES ASSUME NEW k \in Nat, k + 1 \in 0 .. Total, W[k] = w[k]
                 PROVE  W[k + 1] = w[k + 1]
      BY <1>1
    <3>1. W[k + 1] = Further(W, c, k + 1) /\ w[k + 1] = Further(w, c, k + 1)
      BY <1>4, <1>7
    <3>2. (k + 1) - 1 = k /\ k + 1 # 0
      OBVIOUS
    <3> QED BY <3>1, <3>2 DEF Further
  <2> HIDE DEF S
  <2>3. Nat \subseteq S
    BY <2>1, <2>2, SetInduction
  <2> HIDE DEF W, w
  <2> QED BY <1>1, <2>3 DEF S
<1> HIDE DEF W
<1>9. W[Total] \in {0, Slab!Wild}
  <2>1. w[Total] = end
    BY <1>1
  <2> QED BY <1>1, <1>2, <1>8, <2>1
<1>10. Slab!Listed(c) = {W[k] : k \in 0 .. Total} \ {0, Slab!Wild}
  <2>1. DOMAIN W = 0 .. Total
    BY <1>6
  <2> QED BY <2>1 DEF Slab!Listed, W
<1>11. \A k \in 0 .. Total : W[k] \notin {0, Slab!Wild} => k + 1 \in 1 .. n /\ W[k] = s[k + 1]
  BY <1>1, <1>2, <1>8
<1>12. \A i \in 1 .. n : i - 1 \in 0 .. Total /\ W[i - 1] = s[i]
  <2> SUFFICES ASSUME NEW i \in 1 .. n PROVE i - 1 \in 0 .. Total /\ W[i - 1] = s[i]
    OBVIOUS
  <2>1. i - 1 \in 0 .. Total /\ i - 1 < n /\ (i - 1) + 1 = i
    BY <1>1
  <2> QED BY <1>8, <2>1
<1> HIDE DEF w, end
<1> QED BY <1>3, <1>9, <1>10, <1>11, <1>12 DEF W

\* A chain has no more members than there are blocks.
LEMMA ChainBound ==
  ASSUME NEW n \in Nat, NEW s \in [1 .. n -> Slab!Blocks], \A i, j \in 1 .. n : i # j
           => s[i] # s[j]
  PROVE  n \in 0 .. Total
<1>1. s \in Injection(1 .. n, Slab!Blocks)
  BY DEF Injection, IsInjective
<1>2. IsFiniteSet(1 .. n) /\ Cardinality(1 .. n) = n
  BY FS_Interval
<1>3. Cardinality(1 .. n) <= Total
  BY <1>1, BlockFacts, FS_Injection DEF Total
<1> QED BY <1>2, <1>3, BlockFacts

\* The members of a chain without its first, and with one more in front.
LEMMA ChainRest ==
  ASSUME NEW n \in 0 .. Total, NEW s, NEW h, NEW nx, Chain(s, n, h, nx), n > 0,
         NEW ny, \A i \in 2 .. n : ny[s[i]] = nx[s[i]]
  PROVE  /\ n - 1 \in 0 .. Total
         /\ Chain([i \in 1 .. n - 1 |-> s[i + 1]], n - 1, nx[s[1]], ny)
<1> DEFINE t == [i \in 1 .. n - 1 |-> s[i + 1]]
<1>1. n \in Nat /\ n - 1 \in 0 .. Total
  BY BlockFacts
<1>2. t \in [1 .. n - 1 -> Slab!Blocks]
  BY <1>1 DEF Chain
<1>3. \A i, j \in 1 .. n - 1 : i # j => t[i] # t[j]
  BY <1>1 DEF Chain
<1>4. CASE n = 1
  BY <1>1, <1>2, <1>3, <1>4 DEF Chain
<1>5. CASE n > 1
  <2>1. nx[s[1]] = t[1]
    BY <1>1, <1>5 DEF Chain
  <2>2. ny[t[n - 1]] \in {0, Slab!Wild}
    <3>1. t[n - 1] = s[n] /\ n \in 2 .. n
      BY <1>1, <1>5
    <3> HIDE DEF t
    <3> QED BY <1>1, <3>1 DEF Chain
  <2>3. \A i \in 1 .. (n - 1) - 1 : ny[t[i]] = t[i + 1]
    <3> SUFFICES ASSUME NEW i \in 1 .. (n - 1) - 1 PROVE ny[t[i]] = t[i + 1]
      OBVIOUS
    <3>1. t[i] = s[i + 1] /\ t[i + 1] = s[(i + 1) + 1] /\ i + 1 \in 2 .. n
            /\ i + 1 \in 1 .. n - 1
      BY <1>1
    <3> HIDE DEF t
    <3> QED BY <3>1 DEF Chain
  <2> HIDE DEF t
  <2> QED BY <1>1, <1>2, <1>3, <1>5, <2>1, <2>2, <2>3 DEF Chain
<1> QED BY <1>1, <1>4, <1>5

\* A chain with one more member in front.
LEMMA ChainMore ==
  ASSUME NEW n \in 0 .. Total, NEW s, NEW h, NEW nx, Chain(s, n, h, nx),
         NEW b \in Slab!Blocks, \A i \in 1 .. n : s[i] # b, nx[b] = h
  PROVE  /\ n + 1 \in 0 .. Total
         /\ Chain([i \in 1 .. n + 1 |-> IF i = 1 THEN b ELSE s[i - 1]], n + 1, b, nx)
<1> DEFINE t == [i \in 1 .. n + 1 |-> IF i = 1 THEN b ELSE s[i - 1]]
<1>1. n \in Nat
  BY BlockFacts
<1>2. t \in [1 .. n + 1 -> Slab!Blocks]
  BY <1>1 DEF Chain
<1>3. \A i, j \in 1 .. n + 1 : i # j => t[i] # t[j]
  BY <1>1 DEF Chain
<1>4. n + 1 \in 0 .. Total
  <2> HIDE DEF t
  <2> QED BY <1>1, <1>2, <1>3, ChainBound
<1>5. t[1] = b /\ \A i \in 1 .. n : t[i + 1] = s[i]
  BY <1>1
<1>6. nx[t[n + 1]] \in {0, Slab!Wild}
  <2>1. CASE n = 0
    BY <1>1, <1>5, <2>1 DEF Chain
  <2>2. CASE n > 0
    <3>1. t[n + 1] = s[n]
      BY <1>1, <1>5, <2>2
    <3> HIDE DEF t
    <3> QED BY <2>2, <3>1 DEF Chain
  <2> QED BY <1>1, <2>1, <2>2
<1>7. \A i \in 1 .. (n + 1) - 1 : nx[t[i]] = t[i + 1]
  <2> HIDE DEF t
  <2>0. (n + 1) - 1 = n
    BY <1>1
  <2> SUFFICES ASSUME NEW i \in 1 .. n PROVE nx[t[i]] = t[i + 1]
    BY <2>0
  <2>1. CASE i = 1
    BY <1>1, <1>5, <2>1 DEF Chain
  <2>2. CASE i > 1
    <3>1. t[i] = s[i - 1] /\ t[i + 1] = s[i] /\ i - 1 \in 1 .. n - 1 /\ (i - 1) + 1 = i
      BY <1>1, <1>5, <2>2
    <3>2. nx[s[i - 1]] = s[(i - 1) + 1]
      BY <3>1 DEF Chain
    <3> QED BY <3>1, <3>2
  <2> QED BY <1>1, <2>1, <2>2
<1> HIDE DEF t
<1>8. Chain(t, n + 1, b, nx)
  BY <1>1, <1>2, <1>3, <1>5, <1>6, <1>7 DEF Chain
<1> QED BY <1>4, <1>8 DEF t

\* A walk has only blocks on its way, and an end, whatever the list.
LEMMA WalkExists ==
  ASSUME NEW c \in Slab!Classes
  PROVE  \E w : w = [n \in 0 .. Total |-> Further(w, c, n)]
<1> DEFINE Good(f, m) == \A k \in 0 .. m : f[k] = Further(f, c, k)
           S == {m \in Nat : \E f : Good(f, m)}
<1>1. 0 \in S
  <2> DEFINE f == [k \in 0 .. 0 |-> slab_free_list[c]]
  <2>1. Good(f, 0)
    BY DEF Further
  <2> HIDE DEF Good
  <2> QED BY <2>1
<1>2. \A m \in Nat : m \in S => m + 1 \in S
  <2> SUFFICES ASSUME NEW m \in Nat, NEW f, Good(f, m) PROVE \E g : Good(g, m + 1)
    OBVIOUS
  <2> DEFINE g == [k \in 0 .. m + 1 |-> IF k <= m THEN f[k] ELSE Further(f, c, m + 1)]
  <2>1. \A k \in 0 .. m : g[k] = f[k]
    OBVIOUS
  <2>2. \A k \in 0 .. m + 1 : Further(g, c, k) = Further(f, c, k)
    <3> SUFFICES ASSUME NEW k \in 0 .. m + 1 PROVE Further(g, c, k) = Further(f, c, k)
      OBVIOUS
    <3> HIDE DEF g
    <3>1. CASE k = 0
      BY <3>1 DEF Further
    <3>2. CASE k # 0
      <4>1. k - 1 \in 0 .. m
        BY <3>2
      <4> QED BY <2>1, <3>2, <4>1 DEF Further
    <3> QED BY <3>1, <3>2
  <2>3. \A k \in 0 .. m + 1 : g[k] = Further(f, c, k)
    <3> SUFFICES ASSUME NEW k \in 0 .. m + 1 PROVE g[k] = Further(f, c, k)
      OBVIOUS
    <3>1. CASE k \in 0 .. m
      BY <2>1, <3>1
    <3>2. CASE k = m + 1
      BY <3>2
    <3> QED BY <3>1, <3>2
  <2> HIDE DEF g
  <2>4. Good(g, m + 1)
    BY <2>2, <2>3
  <2> HIDE DEF Good
  <2> QED BY <2>4
<1> HIDE DEF S
<1>3. Total \in S
  BY <1>1, <1>2, SetInduction, BlockFacts
<1>4. PICK f : Good(f, Total)
  <2> HIDE DEF Good
  <2> QED BY <1>3 DEF S
<1> DEFINE w == [n \in 0 .. Total |-> f[n]]
<1>5. \A n \in 0 .. Total : w[n] = f[n]
  OBVIOUS
<1>6. \A n \in 0 .. Total : Further(w, c, n) = Further(f, c, n)
  <2> SUFFICES ASSUME NEW n \in 0 .. Total PROVE Further(w, c, n) = Further(f, c, n)
    OBVIOUS
  <2> HIDE DEF w
  <2>1. CASE n = 0
    BY <2>1 DEF Further
  <2>2. CASE n # 0
    <3>1. n - 1 \in 0 .. Total
      BY <2>2, BlockFacts
    <3> QED BY <1>5, <2>2, <3>1 DEF Further
  <2> QED BY <2>1, <2>2
<1>7. \A n \in 0 .. Total : f[n] = Further(f, c, n)
  BY <1>4
<1>8. w = [n \in 0 .. Total |-> Further(w, c, n)]
  BY <1>6, <1>7
<1> HIDE DEF w
<1> QED BY <1>8

\* Whatever a list is, what is found on it are blocks.
LEMMA ListedType ==
  ASSUME NEW c \in Slab!Classes, slab_free_list[c] \in {0, Slab!Wild} \cup Slab!Blocks,
         slab_next \in [Slab!Blocks -> {0, Slab!Wild} \cup Slab!Blocks]
  PROVE  Slab!Listed(c) \subseteq Slab!Blocks
<1> DEFINE W == Slab!Walk(c)
           S == {n \in Nat : n \in 0 .. Total => W[n] \in {0, Slab!Wild} \cup Slab!Blocks}
<1>1. W = [n \in 0 .. Total |-> Further(W, c, n)]
  BY WalkExists, WalkIs
<1> HIDE DEF W
<1>2. \A n \in 0 .. Total : W[n] = Further(W, c, n)
  BY <1>1
<1>3. 0 \in S
  BY <1>2 DEF Further
<1>4. \A n \in Nat : n \in S => n + 1 \in S
  <2> SUFFICES ASSUME NEW n \in Nat, n + 1 \in 0 .. Total,
  W[n] \in {0, Slab!Wild} \cup Slab!Blocks
               PROVE  W[n + 1] \in {0, Slab!Wild} \cup Slab!Blocks
    BY BlockFacts
  <2>1. W[n + 1] = Further(W, c, n + 1) /\ (n + 1) - 1 = n /\ n + 1 # 0
    BY <1>2
  <2> QED BY <2>1 DEF Further
<1> HIDE DEF S
<1>5. Nat \subseteq S
  BY <1>3, <1>4, SetInduction
<1>6. \A n \in 0 .. Total : W[n] \in {0, Slab!Wild} \cup Slab!Blocks
  BY <1>5, BlockFacts DEF S
<1>7. DOMAIN W = 0 .. Total
  BY <1>1
<1> QED BY <1>6, <1>7 DEF Slab!Listed, W

----------------------------------------------------------------------------
(* Types.                                                                   *)

\* Only NewPage changes which blocks have a class.
LEMMA CutBlocksKept == slab_class' = slab_class => CutBlocks' = CutBlocks
BY DEF CutBlocks, Slab!Class

\* The end of a process.
LEMMA TypedEnds ==
  ASSUME SlabTyped, StepInv, NEW p \in Procs, Slab!Ends(p),
         UNCHANGED <<slab_shm, Slab!header, slab_class, slab_free_list, slab_next, slab_reset>>,
         slab_bump' \in 0 .. Pages
  PROVE  SlabTyped' /\ StepInv'
<1>1. CutBlocks' = CutBlocks /\ CutBlocks \subseteq Slab!Blocks
  BY CutBlocksKept DEF CutBlocks
<1>2. slab_pc' \in [Procs -> Steps] /\ slab_obj' \in [Procs -> {"lock", "slab"}]
  BY SlabAssumption DEF SlabTyped, Slab!Ends, Slab!Goto, Steps
<1>3. slab_cls' \in [Procs -> {0} \cup Slab!Classes]
        /\ slab_off' \in [Procs -> {0} \cup CutBlocks]
      /\ slab_own' \in [Procs -> SUBSET CutBlocks]
  BY DEF SlabTyped, Slab!Ends
<1>4. slab_lost' \subseteq Slab!Blocks
  BY <1>1 DEF SlabTyped, StepInv, Slab!Ends, Returning
<1>5. slab_lock' \in Procs \cup {Free, Dead}
  BY DEF SlabTyped, Slab!Ends
<1>6. SlabTyped'
  BY <1>1, <1>2, <1>3, <1>4, <1>5 DEF SlabTyped, Slab!header
<1>7. StepInv'
  <2> SUFFICES ASSUME NEW q \in Procs
               PROVE  /\ slab_lock' = q => slab_pc'[q] \in Locked
                      /\ slab_pc'[q] \in WithClass => slab_cls'[q] \in Slab!Classes
                      /\ slab_pc'[q] \in Returning => slab_off'[q] \in CutBlocks'
    BY DEF StepInv
  <2>1. CASE q = p
    <3>1. slab_pc'[q] = "off" /\ slab_lock' # q
      BY <2>1, SlabAssumption DEF SlabTyped, Slab!Ends, Slab!Goto
    <3> QED BY <3>1 DEF Locked, WithClass, Returning
  <2>2. CASE q # p
    <3>1. slab_pc'[q] = slab_pc[q] /\ slab_cls'[q] = slab_cls[q] /\ slab_off'[q] = slab_off[q]
            /\ (slab_lock' = q => slab_lock = q)
      BY <2>2, SlabAssumption DEF SlabTyped, Slab!Ends, Slab!Goto
    <3> QED BY <1>1, <3>1 DEF StepInv
  <2> QED BY <2>1, <2>2
<1> QED BY <1>6, <1>7

\* The steps of a process in its constructors.
LEMMA TypedConstruct ==
  ASSUME SlabTyped, StepInv, NEW p \in Procs, Slab!Construct(p) \/ Slab!Start(p)
  PROVE  SlabTyped' /\ StepInv'
<1> USE SlabAssumption
<1>c. slab_class' = slab_class => CutBlocks' = CutBlocks
  BY CutBlocksKept
<1>t. ASSUME slab_pc' \in [Procs -> Steps], slab_obj' \in [Procs -> {"lock", "slab"}],
             \A q \in Procs : q # p => slab_pc'[q] = slab_pc[q],
             slab_pc[p] \notin Locked, slab_pc'[p] \notin Locked \cup Returning,
             UNCHANGED <<slab_lock, slab_class, slab_next, slab_off, slab_own>>,
             slab_cls' = [slab_cls EXCEPT ![p] = slab_cls'[p]], slab_cls'[p] \in {0} \cup Slab!Classes,
             slab_pc'[p] \in WithClass => slab_cls'[p] \in Slab!Classes,
             slab_shm' \in [{"lock", "slab"} -> {"none", "empty", "sized"}],
             slab_magic' \in BOOLEAN, slab_ready' \in BOOLEAN, slab_reset' = slab_reset, slab_sized' \subseteq Slab!Classes,
             slab_bump' \in 0 .. Pages, slab_free_list' \in [Slab!Classes -> {0, Slab!Wild} \cup CutBlocks],
             slab_lost' \subseteq Slab!Blocks
      PROVE  SlabTyped' /\ StepInv'
  <2>1. CutBlocks' = CutBlocks
    BY <1>c, <1>t
  <2>2. SlabTyped'
    <3>1. slab_cls' \in [Procs -> {0} \cup Slab!Classes]
      BY <1>t DEF SlabTyped
    <3> QED BY <1>t, <2>1, <3>1 DEF SlabTyped
  <2>3. StepInv'
    <3> SUFFICES ASSUME NEW q \in Procs
                 PROVE  /\ slab_lock' = q => slab_pc'[q] \in Locked
                        /\ slab_pc'[q] \in WithClass => slab_cls'[q] \in Slab!Classes
                        /\ slab_pc'[q] \in Returning => slab_off'[q] \in CutBlocks'
      BY DEF StepInv
    <3>1. CASE q = p
      BY <1>t, <2>1, <3>1 DEF StepInv
    <3>2. CASE q # p
      <4>1. slab_cls'[q] = slab_cls[q]
        BY <1>t, <3>2 DEF SlabTyped
      <4> QED BY <1>t, <2>1, <3>2, <4>1 DEF StepInv
    <3> QED BY <3>1, <3>2
  <2> QED BY <2>2, <2>3
<1> HIDE <1>t
<1>1. CASE Slab!Start(p)
  BY <1>1, <1>t DEF Slab!Start, Slab!Goto, Steps, Locked, Returning, WithClass, SlabTyped,
                    Slab!header, Slab!pages, Slab!local
<1>2. CASE Slab!OpenShared(p)
  <2>1. PICK o \in {"lock", "slab"} : Slab!OpenStep(p, o)
    BY <1>2 DEF Slab!OpenShared
  <2>2. CASE Slab!Open(p, o)
    BY <1>2, <2>2, <1>t DEF Slab!OpenShared, Slab!Open, Slab!At, Slab!Goto, Steps, Locked,
                            Returning, WithClass, SlabTyped, Slab!header, Slab!pages, Slab!local
  <2>3. CASE Slab!Create(p, o)
    BY <1>2, <2>3, <1>t DEF Slab!OpenShared, Slab!Create, Slab!At, Slab!Goto, Steps, Locked,
                            Returning, WithClass, SlabTyped, Slab!header, Slab!pages, Slab!local
  <2>4. CASE Slab!Truncate(p, o)
    BY <1>2, <2>4, <1>t DEF Slab!OpenShared, Slab!Truncate, Slab!At, Slab!Goto, Steps, Locked,
                            Returning, WithClass, SlabTyped, Slab!header, Slab!pages, Slab!local
  <2>5. CASE Slab!TruncateFails(p, o)
    BY <1>2, <2>5, <1>t DEF Slab!OpenShared, Slab!TruncateFails, Slab!At, Slab!Goto, Steps,
                            Locked, Returning, WithClass, SlabTyped, Slab!header, Slab!pages, Slab!local
  <2> QED BY <2>1, <2>2, <2>3, <2>4, <2>5 DEF Slab!OpenStep
<1>3. CASE Slab!OpenFailed(p) \/ Slab!Incompatible(p)
  <2>1. slab_bump' \in 0 .. Pages
    BY <1>3 DEF Slab!OpenFailed, Slab!Incompatible, Slab!pages, SlabTyped
  <2> QED BY <1>3, <2>1, TypedEnds DEF Slab!OpenFailed, Slab!Incompatible, Slab!pages
<1>4. CASE Slab!LockAttached(p)
  BY <1>4, <1>t DEF Slab!LockAttached, Slab!At, Slab!Goto, Steps, Locked, Returning, WithClass,
                    SlabTyped, Slab!header, Slab!pages, Slab!local
<1>5. CASE Slab!InitMutex(p)
  <2>1. CutBlocks' = CutBlocks
    BY <1>5, <1>c DEF Slab!InitMutex, Slab!pages
  <2>2. SlabTyped'
    BY <1>5, <2>1 DEF Slab!InitMutex, Slab!At, Slab!Goto, Steps, SlabTyped, Slab!header,
                      Slab!pages, Slab!local
  <2>3. StepInv'
    BY <1>5, <2>1 DEF Slab!InitMutex, Slab!At, Slab!Goto, StepInv, SlabTyped, Slab!local,
                      Returning, WithClass, Locked
  <2> QED BY <2>2, <2>3
<1>6. CASE Slab!SlabAttached(p)
  BY <1>6, <1>t DEF Slab!SlabAttached, Slab!At, Steps, Locked, Returning, WithClass, SlabTyped,
                    Slab!header, Slab!pages, Slab!local
<1>7. CASE Slab!SetMagic(p)
  BY <1>7, <1>t DEF Slab!SetMagic, Slab!At, Steps, Locked, Returning, WithClass, SlabTyped,
                    Slab!pages, Slab!local
<1>8. CASE Slab!SetRange(p)
  BY <1>8, <1>t DEF Slab!SetRange, Steps, Locked, Returning, WithClass, SlabTyped, Slab!Classes
<1>9. CASE Slab!SetSize(p)
  <2>1. slab_cls[p] \in Slab!Classes
    BY <1>9 DEF Slab!SetSize, StepInv, WithClass
  <2> QED BY <1>9, <2>1, <1>t DEF Slab!SetSize, Steps, Locked, Returning, WithClass, SlabTyped,
                                  Slab!pages, Slab!local
<1>10. CASE Slab!ClearList(p)
  <2>1. slab_cls[p] \in Slab!Classes
    BY <1>10 DEF Slab!ClearList, StepInv, WithClass
  <2>2. slab_free_list' \in [Slab!Classes -> {0, Slab!Wild} \cup CutBlocks]
    BY <1>10 DEF Slab!ClearList, SlabTyped
  <2>3. Slab!Listed(slab_cls[p]) \subseteq Slab!Blocks
    <3>1. CutBlocks \subseteq Slab!Blocks
      BY DEF CutBlocks
    <3>2. slab_free_list[slab_cls[p]] \in {0, Slab!Wild} \cup Slab!Blocks
            /\ slab_next \in [Slab!Blocks -> {0, Slab!Wild} \cup Slab!Blocks]
      BY <2>1, <3>1 DEF SlabTyped
    <3> QED BY <2>1, <3>2, ListedType
  <2>4. slab_lost' \subseteq Slab!Blocks
    BY <1>10, <2>3 DEF Slab!ClearList, SlabTyped
  <2>5. CASE slab_cls[p] = MaxClass
    BY <1>10, <2>1, <2>2, <2>4, <2>5, <1>t DEF Slab!ClearList, Steps, Locked, Returning,
                                               WithClass, SlabTyped, Slab!header
  <2>6. CASE slab_cls[p] # MaxClass
    <3>1. slab_cls[p] + 1 \in Slab!Classes
      BY <2>1, <2>6 DEF Slab!Classes
    <3>2. slab_cls' = [slab_cls EXCEPT ![p] = slab_cls[p] + 1]
            /\ slab_pc' = [slab_pc EXCEPT ![p] = "size"]
      BY <1>10, <2>6 DEF Slab!ClearList
    <3>3. slab_cls'[p] = slab_cls[p] + 1 /\ slab_cls' = [slab_cls EXCEPT ![p] = slab_cls'[p]]
      BY <3>2 DEF SlabTyped
    <3> QED BY <1>10, <2>1, <2>2, <2>4, <3>1, <3>2, <3>3, <1>t
               DEF Slab!ClearList, Steps, Locked, Returning, WithClass, SlabTyped, Slab!header
  <2> QED BY <2>5, <2>6
<1> QED BY <1>1, <1>2, <1>3, <1>4, <1>5, <1>6, <1>7, <1>8, <1>9, <1>10 DEF Slab!Construct

\* A block that has a class keeps one when a page is cut.
LEMMA PageCut ==
  ASSUME SlabTyped, NEW c \in Slab!Classes, slab_bump \in 0 .. Pages - 1,
         slab_class' = [slab_class EXCEPT ![slab_bump + 1] = c]
  PROVE  /\ CutBlocks \subseteq CutBlocks'
         /\ Slab!First(slab_bump + 1) .. Slab!First(slab_bump + 1) + PageBlocks - 1 \subseteq CutBlocks'
         /\ \A b \in Slab!Blocks : IF b \in Slab!First(slab_bump + 1) .. Slab!First(slab_bump + 1) + PageBlocks - 1
                                   THEN Slab!Class(b)' = c ELSE Slab!Class(b)' = Slab!Class(b)
<1>0. slab_bump + 1 \in 1 .. Pages
  BY SlabAssumption
<1>1. ASSUME NEW b \in Slab!Blocks
      PROVE  IF b \in Slab!First(slab_bump + 1) .. Slab!First(slab_bump + 1) + PageBlocks - 1
             THEN Slab!Class(b)' = c ELSE Slab!Class(b)' = Slab!Class(b)
  <2>1. Slab!Page(b) \in 1 .. Pages
          /\ b \in Slab!First(Slab!Page(b)) .. Slab!First(Slab!Page(b)) + PageBlocks - 1
    BY PageFacts
  <2>2. CASE b \in Slab!First(slab_bump + 1) .. Slab!First(slab_bump + 1) + PageBlocks - 1
    <3>1. Slab!Page(b) = slab_bump + 1
      BY <1>0, <2>2, PageFacts
    <3> QED BY <1>0, <2>2, <3>1 DEF Slab!Class, SlabTyped
  <2>3. CASE b \notin Slab!First(slab_bump + 1) .. Slab!First(slab_bump + 1) + PageBlocks - 1
    <3>1. Slab!Page(b) # slab_bump + 1
      BY <2>1, <2>3
    <3> QED BY <1>0, <2>1, <2>3, <3>1 DEF Slab!Class, SlabTyped
  <2> QED BY <2>2, <2>3
<1>2. Slab!First(slab_bump + 1) .. Slab!First(slab_bump + 1) + PageBlocks - 1 \subseteq Slab!Blocks
  BY <1>0, PageFacts
<1> QED BY <1>1, <1>2 DEF CutBlocks

\* The steps of a process in Alloc and Free, and its death.
LEMMA TypedOperate ==
  ASSUME SlabTyped, StepInv, CreateInv, NEW p \in Procs,
         \/ Slab!Operate(p) \/ Slab!Kill(p)
         \/ \E c \in Slab!Classes : Slab!Want(p, c)
         \/ \E b \in Slab!Blocks : Slab!Release(p, b)
  PROVE  SlabTyped' /\ StepInv'
<1> USE SlabAssumption
<1>c. slab_class' = slab_class => CutBlocks' = CutBlocks
  BY CutBlocksKept
<1>b. 0 \notin Slab!Blocks /\ Slab!Wild \notin Slab!Blocks /\ CutBlocks \subseteq Slab!Blocks
  BY BlockFacts DEF CutBlocks
\* What does not concern the steps: those of the other processes are as they were.
<1>s. ASSUME slab_pc' \in [Procs -> Steps], \A q \in Procs : q # p => slab_pc'[q] = slab_pc[q],
             \A q \in Procs : q # p => slab_cls'[q] = slab_cls[q] /\ slab_off'[q] = slab_off[q],
             CutBlocks \subseteq CutBlocks',
             slab_lock' = p => slab_pc'[p] \in Locked,
             slab_lock' \in {slab_lock, p, Free},
             slab_pc'[p] \in WithClass => slab_cls'[p] \in Slab!Classes,
             slab_pc'[p] \in Returning => slab_off'[p] \in CutBlocks
      PROVE  StepInv'
  <2> SUFFICES ASSUME NEW q \in Procs
               PROVE  /\ slab_lock' = q => slab_pc'[q] \in Locked
                      /\ slab_pc'[q] \in WithClass => slab_cls'[q] \in Slab!Classes
                      /\ slab_pc'[q] \in Returning => slab_off'[q] \in CutBlocks'
    BY DEF StepInv
  <2>1. CASE q = p
    BY <1>s, <2>1
  <2>2. CASE q # p
    BY <1>s, <2>2 DEF StepInv
  <2> QED BY <2>1, <2>2
<1>1. CASE Slab!TooLarge(p) \/ Slab!NoPack(p)
  <2>1. CutBlocks' = CutBlocks
    BY <1>1, <1>c DEF Slab!TooLarge, Slab!NoPack, Slab!pages
  <2>2. SlabTyped'
    BY <1>1, <2>1 DEF Slab!TooLarge, Slab!NoPack, Steps, SlabTyped, Slab!header, Slab!pages,
                      Slab!local
  <2>3. StepInv'
    BY <1>1, <2>1, <1>s DEF Slab!TooLarge, Slab!NoPack, Steps, SlabTyped, Slab!local,
                            Slab!pages, Returning, WithClass, Locked, StepInv
  <2> QED BY <2>2, <2>3
<1>2. CASE Slab!Lock(p)
  <2>1. CutBlocks' = CutBlocks
    BY <1>2, <1>c DEF Slab!Lock, Slab!pages
  <2>2. SlabTyped'
    BY <1>2, <2>1 DEF Slab!Lock, Steps, SlabTyped, Slab!header, Slab!pages, Slab!local
  <2>3. slab_pc'[p] \in {"alloc", "link"} /\ (slab_pc'[p] = "link" => slab_pc[p] = "give")
        /\ slab_cls'[p] = slab_cls[p] /\ slab_off'[p] = slab_off[p]
    BY <1>2 DEF Slab!Lock, SlabTyped, Slab!local
  <2>4. slab_cls[p] \in Slab!Classes /\ (slab_pc[p] = "give" => slab_off[p] \in CutBlocks)
    BY <1>2 DEF Slab!Lock, StepInv, WithClass, Returning
  <2>5. StepInv'
    BY <1>2, <2>1, <2>2, <2>3, <2>4, <1>s DEF Slab!Lock, SlabTyped, Slab!local, Returning,
                                              WithClass, Locked
  <2> QED BY <2>2, <2>5
<1>3. CASE Slab!NewPage(p)
  <2>1. slab_cls[p] \in Slab!Classes /\ slab_bump \in 0 .. Pages - 1
    BY <1>3 DEF Slab!NewPage, Slab!Room, SlabTyped, StepInv, WithClass, Locked
  <2> DEFINE new == Slab!First(slab_bump + 1) .. Slab!First(slab_bump + 1) + PageBlocks - 1
  <2>2. CutBlocks \subseteq CutBlocks' /\ new \subseteq CutBlocks'
    BY <1>3, <2>1, PageCut DEF Slab!NewPage
  <2>3. Slab!First(slab_bump + 1) \in Nat
    BY <2>1, PageFacts
  <2>4. slab_free_list' \in [Slab!Classes -> {0, Slab!Wild} \cup CutBlocks']
    <3>1. Slab!First(slab_bump + 1) + PageBlocks - 1 \in new
      BY <2>3
    <3> QED BY <1>3, <2>1, <2>2, <3>1 DEF Slab!NewPage, Slab!Cut, SlabTyped
  <2>5. slab_next' \in [Slab!Blocks -> {0, Slab!Wild} \cup CutBlocks']
    <3> SUFFICES ASSUME NEW b \in Slab!Blocks
                 PROVE  (IF b \in Slab!First(slab_bump + 1) + 1 .. Slab!First(slab_bump + 1) + PageBlocks - 1
                         THEN b - 1
                         ELSE IF b = Slab!First(slab_bump + 1) THEN slab_free_list[slab_cls[p]]
                           ELSE slab_next[b])
                        \in {0, Slab!Wild} \cup CutBlocks'
      BY <1>3 DEF Slab!NewPage, Slab!Cut
    <3>1. CASE b \in Slab!First(slab_bump + 1) + 1 .. Slab!First(slab_bump + 1) + PageBlocks - 1
      <4>1. b - 1 \in new
        BY <2>3, <3>1
      <4> QED BY <2>2, <3>1, <4>1
    <3>2. CASE b \notin Slab!First(slab_bump + 1) + 1 .. Slab!First(slab_bump + 1) + PageBlocks - 1
      <4>1. slab_free_list[slab_cls[p]] \in {0, Slab!Wild} \cup CutBlocks
              /\ slab_next[b] \in {0, Slab!Wild} \cup CutBlocks
        BY <2>1 DEF SlabTyped
      <4> QED BY <2>2, <3>2, <4>1
    <3> QED BY <3>1, <3>2
  <2>6. slab_class' \in [1 .. Pages -> {0} \cup Slab!Classes] /\ slab_bump' \in 0 .. Pages
    BY <1>3, <2>1 DEF Slab!NewPage, SlabTyped
  <2>7. slab_pc' \in [Procs -> Steps]
    BY <1>3 DEF Slab!NewPage, SlabTyped, Steps
  <2>8. slab_off' \in [Procs -> {0} \cup CutBlocks']
          /\ slab_own' \in [Procs -> SUBSET CutBlocks']
    BY <1>3, <2>2 DEF Slab!NewPage, SlabTyped, Slab!local
  <2> HIDE DEF new
  <2>9. SlabTyped'
    BY <1>3, <2>4, <2>5, <2>6, <2>7, <2>8 DEF Slab!NewPage, SlabTyped, Slab!header, Slab!local
  <2>10. StepInv'
    BY <1>3, <2>1, <2>2, <2>7, <1>s DEF Slab!NewPage, SlabTyped, Slab!local, Returning,
                                        WithClass, Locked
  <2> QED BY <2>9, <2>10
<1>4. CASE Slab!PageOfNothing(p) \/ Slab!NullWrite(p) \/ Slab!HeadWild(p) \/ Slab!Kill(p)
  <2>1. Slab!Ends(p)
          /\ UNCHANGED <<slab_shm, Slab!header, slab_class, slab_free_list, slab_next, slab_reset>>
    BY <1>4 DEF Slab!PageOfNothing, Slab!NullWrite, Slab!HeadWild, Slab!Kill, Slab!pages
  <2>2. slab_bump' \in 0 .. Pages
    BY <1>4 DEF Slab!PageOfNothing, Slab!NullWrite, Slab!HeadWild, Slab!Kill, Slab!pages,
                Slab!Room, SlabTyped
  <2> QED BY <2>1, <2>2, TypedEnds
<1>5. CASE Slab!Refuse(p)
  <2>1. CutBlocks' = CutBlocks
    BY <1>5, <1>c DEF Slab!Refuse, Slab!pages
  <2>2. SlabTyped'
    BY <1>5, <2>1 DEF Slab!Refuse, Slab!Unlock, Steps, SlabTyped, Slab!header, Slab!pages
  <2>3. StepInv'
    BY <1>5, <2>1, <2>2, <1>s DEF Slab!Refuse, Slab!Unlock, SlabTyped, Returning, WithClass,
                                  Locked
  <2> QED BY <2>2, <2>3
<1>6. CASE Slab!Found(p)
  <2>1. CutBlocks' = CutBlocks
    BY <1>6, <1>c DEF Slab!Found, Slab!pages
  <2>2. SlabTyped'
    BY <1>6, <2>1 DEF Slab!Found, Steps, SlabTyped, Slab!header, Slab!pages, Slab!local
  <2>3. slab_cls[p] \in Slab!Classes
    BY <1>6 DEF Slab!Found, StepInv, WithClass, Locked
  <2>4. StepInv'
    BY <1>6, <2>1, <2>2, <2>3, <1>s DEF Slab!Found, SlabTyped, Slab!local, Returning,
                                        WithClass, Locked
  <2> QED BY <2>2, <2>4
<1>7. CASE Slab!Head(p)
  <2>1. CutBlocks' = CutBlocks
    BY <1>7, <1>c DEF Slab!Head, Slab!pages
  <2>2. slab_cls[p] \in Slab!Classes
    BY <1>7 DEF Slab!Head, StepInv, WithClass, Locked
  <2>3. SlabTyped'
    <3>1. slab_off' \in [Procs -> {0} \cup CutBlocks]
      BY <1>7, <2>2 DEF Slab!Head, SlabTyped
    <3> QED BY <1>7, <2>1, <3>1 DEF Slab!Head, Steps, SlabTyped, Slab!header, Slab!pages
  <2>4. StepInv'
    BY <1>7, <2>1, <2>2, <2>3, <1>s DEF Slab!Head, SlabTyped, Returning, WithClass, Locked
  <2> QED BY <2>3, <2>4
<1>8. CASE Slab!Pop(p)
  <2>1. CutBlocks' = CutBlocks
    BY <1>8, <1>c DEF Slab!Pop
  <2>2. slab_cls[p] \in Slab!Classes /\ slab_off[p] \in {0} \cup CutBlocks
    BY <1>8 DEF Slab!Pop, StepInv, WithClass, Locked, SlabTyped
  <2>3. slab_free_list' \in [Slab!Classes -> {0, Slab!Wild} \cup CutBlocks]
    BY <1>8, <1>b, <2>2 DEF Slab!Pop, SlabTyped
  <2>4. slab_next' \in [Slab!Blocks -> {0, Slab!Wild} \cup CutBlocks]
    BY <1>8 DEF Slab!Pop, SlabTyped
  <2>5. slab_own' \in [Procs -> SUBSET CutBlocks]
    BY <1>8, <2>2 DEF Slab!Pop, SlabTyped
  <2>6. slab_pc' \in [Procs -> Steps] /\ slab_pc'[p] \in {"refused", "run"}
    BY <1>8 DEF Slab!Pop, SlabTyped, Steps
  <2>7. slab_cls' \in [Procs -> {0} \cup Slab!Classes]
          /\ slab_off' \in [Procs -> {0} \cup CutBlocks]
    BY <1>8 DEF Slab!Pop, SlabTyped
  <2>8. SlabTyped'
    BY <1>8, <2>1, <2>3, <2>4, <2>5, <2>6, <2>7 DEF Slab!Pop, Slab!Unlock, SlabTyped,
                                                    Slab!header
  <2>9. StepInv'
    BY <1>8, <2>1, <2>6, <1>s DEF Slab!Pop, Slab!Unlock, SlabTyped, Returning, WithClass, Locked
  <2> QED BY <2>8, <2>9
<1>9. CASE Slab!Link(p)
  <2>1. CutBlocks' = CutBlocks
    BY <1>9, <1>c DEF Slab!Link
  <2>2. slab_cls[p] \in Slab!Classes /\ slab_off[p] \in CutBlocks
    BY <1>9 DEF Slab!Link, StepInv, WithClass, Locked, Returning
  <2>3. slab_next' \in [Slab!Blocks -> {0, Slab!Wild} \cup CutBlocks]
    BY <1>9, <2>2 DEF Slab!Link, SlabTyped
  <2>4. SlabTyped'
    BY <1>9, <2>1, <2>3 DEF Slab!Link, Steps, SlabTyped, Slab!header, Slab!local
  <2>5. StepInv'
    BY <1>9, <2>1, <2>2, <2>4, <1>s DEF Slab!Link, SlabTyped, Slab!local, Returning, WithClass,
                                        Locked
  <2> QED BY <2>4, <2>5
<1>10. CASE Slab!Push(p)
  <2>1. CutBlocks' = CutBlocks
    BY <1>10, <1>c DEF Slab!Push
  <2>2. slab_off[p] \in CutBlocks
    BY <1>10 DEF Slab!Push, StepInv, Returning
  <2>3. slab_free_list' \in [Slab!Classes -> {0, Slab!Wild} \cup CutBlocks]
    BY <1>10, <2>2 DEF Slab!Push, SlabTyped
  <2>4. SlabTyped'
    BY <1>10, <2>1, <2>3 DEF Slab!Push, Slab!Unlock, Steps, SlabTyped, Slab!header
  <2>5. StepInv'
    BY <1>10, <2>1, <2>4, <1>s DEF Slab!Push, Slab!Unlock, SlabTyped, Returning, WithClass,
                                   Locked
  <2> QED BY <2>4, <2>5
<1>11. CASE \E c \in Slab!Classes : Slab!Want(p, c)
  <2>0. PICK c \in Slab!Classes : Slab!Want(p, c)
    BY <1>11
  <2>1. CutBlocks' = CutBlocks
    BY <2>0, <1>c DEF Slab!Want, Slab!pages
  <2>2. SlabTyped'
    BY <2>0, <2>1 DEF Slab!Want, Steps, SlabTyped, Slab!header, Slab!pages
  <2>3. StepInv'
    BY <2>0, <2>1, <2>2, <1>s DEF Slab!Want, SlabTyped, StepInv, Returning, WithClass, Locked
  <2> QED BY <2>2, <2>3
<1>12. CASE \E b \in Slab!Blocks : Slab!Release(p, b)
  <2>0. PICK b \in Slab!Blocks : Slab!Release(p, b)
    BY <1>12
  <2>1. CutBlocks' = CutBlocks
    BY <2>0, <1>c DEF Slab!Release, Slab!pages
  <2>2. b \in CutBlocks /\ Slab!Class(b) \in Slab!Classes
    BY <2>0 DEF Slab!Release, SlabTyped, CutBlocks
  <2>3. slab_own' \in [Procs -> SUBSET CutBlocks]
    BY <2>0 DEF Slab!Release, SlabTyped
  <2>4. SlabTyped'
    BY <2>0, <2>1, <2>2, <2>3 DEF Slab!Release, Steps, SlabTyped, Slab!header, Slab!pages
  <2>5. StepInv'
    BY <2>0, <2>1, <2>2, <2>4, <1>s DEF Slab!Release, SlabTyped, StepInv, Returning, WithClass,
                                        Locked
  <2> QED BY <2>4, <2>5
<1> QED BY <1>1, <1>2, <1>3, <1>4, <1>5, <1>6, <1>7, <1>8, <1>9, <1>10, <1>11, <1>12
           DEF Slab!Operate

----------------------------------------------------------------------------
(* One process at most fills in the header, before any page is cut.         *)

Truncating(p) == Slab!At(p, "truncate", "slab")
Early(p) == Slab!At(p, "created", "slab") \/ slab_pc[p] = "range"

\* A step of p after which the object, the header and the pages are as before, and p is
\* not further in the construction than it was.
LEMMA CreateOther ==
  ASSUME SlabTyped, CreateInv, NEW p \in Procs,
         \A q \in Procs : q # p => slab_pc'[q] = slab_pc[q] /\ slab_obj'[q] = slab_obj[q],
         UNCHANGED <<slab_ready, slab_bump, slab_class>>, slab_shm'["slab"] = slab_shm["slab"],
         Truncating(p)' => Truncating(p), Creating(p)' => Creating(p), Early(p)' => Early(p)
  PROVE  CreateInv'
<1>1. \A q \in Procs : q # p => /\ Truncating(q)' = Truncating(q)
                                /\ Creating(q)' = Creating(q)
                                /\ Early(q)' = Early(q)
  BY DEF Truncating, Creating, Early, Slab!At
<1>2. \A q \in Procs : /\ Truncating(q)' => Truncating(q)
                       /\ Creating(q)' => Creating(q)
                       /\ Early(q)' => Early(q)
  BY <1>1
<1>3. /\ \A q \in Procs : /\ Truncating(q) => slab_shm["slab"] = "empty"
                          /\ Creating(q) => slab_shm["slab"] = "sized"
                          /\ Early(q) => ~slab_ready
      /\ \A q, r \in Procs : q # r => ~(Truncating(q) /\ Truncating(r))
         /\ ~(Creating(q) /\ Creating(r))
  BY DEF CreateInv, Truncating, Early
<1>4. /\ \A q \in Procs : /\ Truncating(q)' => slab_shm'["slab"] = "empty"
                          /\ Creating(q)' => slab_shm'["slab"] = "sized"
                          /\ Early(q)' => ~slab_ready'
      /\ \A q, r \in Procs : q # r => ~(Truncating(q)' /\ Truncating(r)')
                                      /\ ~(Creating(q)' /\ Creating(r)')
  BY <1>2, <1>3
<1>5. (slab_ready' => slab_shm'["slab"] = "sized") /\ (~slab_ready' => slab_bump' = 0)
      /\ \A g \in 1 .. Pages : g > slab_bump' => slab_class'[g] = 0
  BY DEF CreateInv
<1> QED BY <1>4, <1>5 DEF CreateInv, Truncating, Early

\* Every step.
LEMMA CreateKept ==
  ASSUME SlabTyped, StepInv, CreateInv, NEW p \in Procs,
         \/ Slab!Start(p) \/ Slab!Kill(p) \/ Slab!Construct(p) \/ Slab!Operate(p)
         \/ \E c \in Slab!Classes : Slab!Want(p, c)
         \/ \E b \in Slab!Blocks : Slab!Release(p, b)
  PROVE  CreateInv'
<1> USE SlabAssumption
<1> DEFINE Else == \A q \in Procs : q # p => slab_pc'[q] = slab_pc[q]
      /\ slab_obj'[q] = slab_obj[q]
           Far == ~Truncating(p)' /\ ~Creating(p)' /\ ~Early(p)'
<1>0. ASSUME Else, Far, UNCHANGED <<slab_ready, slab_bump, slab_class>>,
             slab_shm'["slab"] = slab_shm["slab"]
      PROVE  CreateInv'
  BY <1>0, CreateOther
<1>e. ASSUME Slab!Ends(p) PROVE Else /\ Far
  BY <1>e DEF Slab!Ends, Slab!Goto, SlabTyped, Truncating, Creating, Early, Slab!At
<1>1. CASE Slab!Start(p) \/ Slab!LockAttached(p) \/ Slab!InitMutex(p)
  <2>1. Else /\ Far
    BY <1>1 DEF Slab!Start, Slab!LockAttached, Slab!InitMutex, Slab!Goto, SlabTyped,
                Truncating, Creating, Early, Slab!At
  <2> QED BY <1>1, <2>1, <1>0 DEF Slab!Start, Slab!LockAttached, Slab!InitMutex, Slab!header,
                                  Slab!pages
<1>2. CASE Slab!Kill(p) \/ Slab!OpenFailed(p) \/ Slab!Incompatible(p) \/ Slab!NullWrite(p)
             \/ Slab!HeadWild(p)
  <2>1. Slab!Ends(p)
    BY <1>2 DEF Slab!Kill, Slab!OpenFailed, Slab!Incompatible, Slab!NullWrite, Slab!HeadWild
  <2> QED BY <1>2, <2>1, <1>e, <1>0 DEF Slab!Kill, Slab!OpenFailed, Slab!Incompatible,
                                        Slab!NullWrite, Slab!HeadWild, Slab!header, Slab!pages
<1>3. CASE Slab!SlabAttached(p) \/ Slab!TooLarge(p) \/ Slab!NoPack(p) \/ Slab!Lock(p)
             \/ Slab!Refuse(p) \/ Slab!Found(p) \/ Slab!Head(p)
  <2>1. Else /\ Far
    BY <1>3 DEF Slab!SlabAttached, Slab!TooLarge, Slab!NoPack, Slab!Lock, Slab!Refuse,
                Slab!Found, Slab!Head, SlabTyped, Truncating, Creating, Early, Slab!At
  <2> QED BY <1>3, <2>1, <1>0
      DEF Slab!SlabAttached, Slab!TooLarge, Slab!NoPack, Slab!Lock, Slab!Refuse, Slab!Found,
          Slab!Head, Slab!header, Slab!pages
<1>4. CASE Slab!Pop(p) \/ Slab!Link(p) \/ Slab!Push(p)
  <2>1. Else /\ Far
    BY <1>4 DEF Slab!Pop, Slab!Link, Slab!Push, SlabTyped, Truncating, Creating, Early, Slab!At
  <2> QED BY <1>4, <2>1, <1>0 DEF Slab!Pop, Slab!Link, Slab!Push, Slab!header
<1>5. CASE (\E c \in Slab!Classes : Slab!Want(p, c))
             \/ (\E b \in Slab!Blocks : Slab!Release(p, b))
  <2>1. Else /\ Far
    BY <1>5 DEF Slab!Want, Slab!Release, SlabTyped, Truncating, Creating, Early, Slab!At
  <2> QED BY <1>5, <2>1, <1>0 DEF Slab!Want, Slab!Release, Slab!header, Slab!pages
<1>6. CASE Slab!NewPage(p)
  <2>1. Else /\ Far /\ slab_bump' = slab_bump + 1 /\ slab_ready /\ slab_bump \in 0 .. Pages - 1
        /\ slab_class' = [slab_class EXCEPT ![slab_bump + 1] = slab_cls[p]]
           /\ slab_shm' = slab_shm /\ slab_ready' = slab_ready
    BY <1>6 DEF Slab!NewPage, Slab!Room, SlabTyped, Truncating, Creating, Early, Slab!At,
                Slab!header
  <2>2. \A q \in Procs : /\ Truncating(q)' => Truncating(q)
                         /\ Creating(q)' => Creating(q)
                         /\ Early(q)' => Early(q)
    BY <2>1 DEF Truncating, Creating, Early, Slab!At
  <2>3. \A g \in 1 .. Pages : g > slab_bump' => slab_class'[g] = 0
    BY <2>1 DEF CreateInv, SlabTyped
  <2> QED BY <2>1, <2>2, <2>3 DEF CreateInv, Truncating, Early
<1>7. CASE Slab!PageOfNothing(p)
  <2>1. Else /\ Far /\ slab_bump' = slab_bump + 1 /\ slab_ready /\ slab_bump \in 0 .. Pages - 1
        /\ slab_class' = slab_class /\ slab_shm' = slab_shm /\ slab_ready' = slab_ready
    BY <1>7, <1>e DEF Slab!PageOfNothing, Slab!Room, SlabTyped, Slab!header
  <2>2. \A q \in Procs : /\ Truncating(q)' => Truncating(q)
                         /\ Creating(q)' => Creating(q)
                         /\ Early(q)' => Early(q)
    BY <2>1 DEF Truncating, Creating, Early, Slab!At
  <2>3. \A g \in 1 .. Pages : g > slab_bump' => slab_class'[g] = 0
    BY <2>1 DEF CreateInv, SlabTyped
  <2> QED BY <2>1, <2>2, <2>3 DEF CreateInv, Truncating, Early
<1>8. CASE Slab!SetMagic(p) \/ Slab!SetSize(p) \/ Slab!ClearList(p)
  <2>1. Else /\ ~Truncating(p)' /\ Creating(p)
    BY <1>8 DEF Slab!SetMagic, Slab!SetSize, Slab!ClearList, SlabTyped, Truncating, Creating,
                Slab!At
  <2>2. Early(p)' => Early(p)
    BY <1>8 DEF Slab!SetMagic, Slab!SetSize, Slab!ClearList, SlabTyped, Early, Slab!At
  <2>3. UNCHANGED <<slab_ready, slab_bump, slab_class, slab_shm>>
    BY <1>8 DEF Slab!SetMagic, Slab!SetSize, Slab!ClearList, Slab!header, Slab!pages
  <2> QED BY <2>1, <2>2, <2>3, CreateOther
<1>9. CASE Slab!SetRange(p)
  <2>1. Else /\ ~Truncating(p)' /\ ~Early(p)' /\ Creating(p) /\ Early(p) /\ slab_bump' = 0
          /\ UNCHANGED <<slab_class, slab_shm>>
    BY <1>9 DEF Slab!SetRange, SlabTyped, Truncating, Creating, Early, Slab!At
  <2>2. \A q \in Procs : /\ Truncating(q)' => Truncating(q)
                         /\ Creating(q)' => Creating(q)
                         /\ Early(q)' => q # p /\ Early(q)
    BY <2>1 DEF Truncating, Creating, Early, Slab!At
  <2>3. \A q \in Procs : Early(q) => Creating(q)
    BY DEF Early, Creating
  <2>4. ~slab_ready /\ slab_bump = 0 /\ slab_shm["slab"] = "sized"
    BY <2>1 DEF CreateInv, Early
  <2>5. \A q \in Procs : ~Early(q)'
    BY <2>1, <2>2, <2>3 DEF CreateInv
  <2> QED BY <2>1, <2>2, <2>4, <2>5 DEF CreateInv, Truncating, Early
<1>10. CASE Slab!OpenShared(p)
  <2>0. PICK o \in {"lock", "slab"} : Slab!OpenStep(p, o)
    BY <1>10 DEF Slab!OpenShared
  <2>u. UNCHANGED <<slab_ready, slab_bump, slab_class>>
    BY <1>10 DEF Slab!OpenShared, Slab!header, Slab!pages
  <2>1. CASE Slab!Open(p, o)
    <3>1. Else /\ Far /\ slab_shm' = slab_shm
      BY <2>1 DEF Slab!Open, Slab!Goto, SlabTyped, Truncating, Creating, Early, Slab!At
    <3> QED BY <2>u, <3>1, <1>0
  <2>2. CASE Slab!Create(p, o) /\ ~(o = "slab" /\ slab_shm[o] = "none")
    <3>1. Else /\ Far /\ slab_shm'["slab"] = slab_shm["slab"]
      BY <2>2 DEF Slab!Create, Slab!Goto, SlabTyped, Truncating, Creating, Early, Slab!At
    <3> QED BY <2>u, <3>1, <1>0
  <2>3. CASE Slab!Create(p, o) /\ o = "slab" /\ slab_shm[o] = "none"
    <3>1. Else /\ ~Creating(p)' /\ ~Early(p)' /\ slab_shm'["slab"] = "empty"
            /\ slab_shm["slab"] = "none"
      BY <2>3 DEF Slab!Create, Slab!Goto, SlabTyped, Creating, Early, Slab!At
    <3>2. \A q \in Procs : /\ Truncating(q)' => q = p
                           /\ Creating(q)' => Creating(q)
                           /\ Early(q)' => Early(q)
      BY <3>1 DEF CreateInv, Truncating, Creating, Early, Slab!At
    <3> QED BY <2>u, <3>1, <3>2 DEF CreateInv, Truncating, Early
  <2>4. CASE (Slab!Truncate(p, o) \/ Slab!TruncateFails(p, o)) /\ o # "slab"
    <3>1. Else /\ Far /\ slab_shm'["slab"] = slab_shm["slab"]
      BY <2>4 DEF Slab!Truncate, Slab!TruncateFails, Slab!Goto, SlabTyped, Truncating,
                  Creating, Early, Slab!At
    <3> QED BY <2>u, <3>1, <1>0
  <2>5. CASE Slab!Truncate(p, o) /\ o = "slab"
    <3>1. Else /\ Truncating(p) /\ ~Truncating(p)' /\ slab_shm'["slab"] = "sized"
            /\ slab_shm["slab"] = "empty"
      BY <2>5 DEF Slab!Truncate, Slab!Goto, SlabTyped, CreateInv, Truncating, Slab!At
    <3>2. \A q \in Procs : ~Truncating(q)' /\ (Creating(q)' => q = p) /\ (Early(q)' => q = p)
      BY <3>1 DEF CreateInv, Truncating, Creating, Early, Slab!At
    <3> QED BY <2>u, <3>1, <3>2 DEF CreateInv, Truncating, Early
  <2>6. CASE Slab!TruncateFails(p, o) /\ o = "slab"
    <3>1. Else /\ Far /\ Truncating(p) /\ slab_shm'["slab"] = "none"
            /\ slab_shm["slab"] = "empty"
      BY <2>6 DEF Slab!TruncateFails, Slab!Goto, SlabTyped, CreateInv, Truncating, Creating,
                  Early, Slab!At
    <3>2. \A q \in Procs : ~Truncating(q)' /\ ~Creating(q)' /\ ~Early(q)'
      BY <3>1 DEF CreateInv, Truncating, Creating, Early, Slab!At
    <3> QED BY <2>u, <3>1, <3>2 DEF CreateInv, Truncating, Early
  <2> QED BY <2>0, <2>1, <2>2, <2>3, <2>4, <2>5, <2>6 DEF Slab!OpenStep
<1> QED BY <1>1, <1>2, <1>3, <1>4, <1>5, <1>6, <1>7, <1>8, <1>9, <1>10
           DEF Slab!Construct, Slab!Operate

----------------------------------------------------------------------------
(* What keeps the list of a class.                                          *)

\* The list of class d after a step that writes no block of the list, gives no block of the
\* class to a process, and takes none from one without losing it.
LEMMA ListingKept ==
  ASSUME NEW d \in Slab!Classes, HasListing(d),
         \A b \in Slab!Blocks : Slab!Class(b)' = d <=> Slab!Class(b) = d,
         \A b \in Slab!Blocks : Slab!Class(b) = d /\ slab_next'[b] # slab_next[b]
           => \E q \in Procs : b \in Hands(q),
         slab_lost \subseteq slab_lost',
         \A b \in Slab!Blocks : \A q \in Procs :
            Slab!Class(b) = d /\ b \in Hands(q)' => \E r \in Procs : b \in Hands(r),
         \A b \in Slab!Blocks : \A q \in Procs :
            Slab!Class(b) = d /\ b \in Hands(q) => b \in slab_lost'
              \/ \E r \in Procs : b \in Hands(r)',
         slab_free_list'[d] = slab_free_list[d]
           \/ (slab_free_list'[d] = 0 /\ Slab!Listed(d) \subseteq slab_lost'),
         Front(d)' = Front(d) \/ Front(d)' = slab_free_list'[d]
  PROVE  HasListing(d)'
<1>0. PICK n \in 0 .. Total : \E s \in [1 .. n -> Slab!Blocks] : Listing(d, s, n)
  BY DEF HasListing
<1>1. PICK s \in [1 .. n -> Slab!Blocks] : Listing(d, s, n)
  BY <1>0
<1>2. Chain(s, n, Front(d), slab_next) /\ n \in Nat
  BY <1>1, BlockFacts DEF Listing
<1>3. \A i \in 1 .. n : s[i] \in Slab!Blocks /\ Slab!Class(s[i]) = d
        /\ \A q \in Procs : s[i] \notin Hands(q)
  BY <1>1 DEF Listing
<1>4. \A i \in 1 .. n : /\ Slab!Class(s[i])' = d /\ slab_next'[s[i]] = slab_next[s[i]]
                        /\ \A q \in Procs : s[i] \notin Hands(q)'
  BY <1>3
<1>5. \A b \in Slab!Blocks : Slab!Class(b)' = d =>
         b \in slab_lost' \/ (\E i \in 1 .. n : b = s[i]) \/ \E q \in Procs : b \in Hands(q)'
  BY <1>1 DEF Listing
<1>6. CASE Front(d)' = Front(d)
  <2>1. Chain(s, n, Front(d)', slab_next')
    BY <1>2, <1>4, <1>6 DEF Chain
  <2>2. slab_free_list'[d] = Front(d)'
          \/ (slab_free_list'[d] = 0 /\ \A i \in 1 .. n : s[i] \in slab_lost')
    <3>1. CASE slab_free_list[d] = Front(d)
      <4>1. CASE slab_free_list'[d] = slab_free_list[d]
        BY <1>6, <3>1, <4>1
      <4>2. CASE slab_free_list'[d] = 0 /\ Slab!Listed(d) \subseteq slab_lost'
        <5>1. Slab!Listed(d) = {s[i] : i \in 1 .. n}
          BY <1>2, <3>1, WalkOfChain
        <5> QED BY <4>2, <5>1
      <4> QED BY <4>1, <4>2
    <3>2. CASE slab_free_list[d] = 0 /\ \A i \in 1 .. n : s[i] \in slab_lost
      BY <3>2
    <3> QED BY <1>1, <3>1, <3>2 DEF Listing
  <2>3. Listing(d, s, n)'
    BY <2>1, <2>2, <1>4, <1>5 DEF Listing
  <2> QED BY <2>3 DEF HasListing
<1>7. CASE Front(d)' = slab_free_list'[d] /\ Front(d)' # Front(d)
  <2>1. \A i \in 1 .. n : s[i] \in slab_lost'
    <3>1. CASE slab_free_list[d] = Front(d)
      <4>1. Slab!Listed(d) = {s[i] : i \in 1 .. n}
        BY <1>2, <3>1, WalkOfChain
      <4> QED BY <1>7, <3>1, <4>1
    <3>2. CASE \A i \in 1 .. n : s[i] \in slab_lost
      BY <3>2
    <3> QED BY <1>1, <3>1, <3>2 DEF Listing
  <2>2. slab_free_list'[d] = 0
    <3>1. CASE slab_free_list[d] = Front(d)
      BY <1>7, <3>1
    <3>2. CASE slab_free_list[d] = 0
      BY <3>2
    <3> QED BY <1>1, <3>1, <3>2 DEF Listing
  <2> DEFINE t == [i \in 1 .. 0 |-> 1]
  <2>3. t \in [1 .. 0 -> Slab!Blocks] /\ 0 \in 0 .. Total
    BY BlockFacts
  <2>4. Chain(t, 0, Front(d)', slab_next')
    BY <1>7, <2>2, <2>3 DEF Chain
  <2>5. \A b \in Slab!Blocks : Slab!Class(b)' = d => b \in slab_lost'
          \/ \E q \in Procs : b \in Hands(q)'
    BY <1>5, <2>1
  <2> HIDE DEF t
  <2>6. Listing(d, t, 0)'
    BY <1>7, <2>4, <2>5 DEF Listing
  <2> QED BY <2>3, <2>6 DEF HasListing
<1> QED BY <1>6, <1>7

----------------------------------------------------------------------------
(* Steps by which no block changes hands.                                   *)

\* The step changes the hands of no process, no block of a list, and no list but for
\* clearing it.
LEMMA SafeQuiet ==
  ASSUME SlabTyped, StepInv, Safe,
         slab_class' = slab_class, slab_lost \subseteq slab_lost',
         \A q \in Procs : Hands(q)' = Hands(q) /\ slab_own'[q] \cap Slab!Giving(q)' = {},
         \A b \in Slab!Blocks : slab_next'[b] # slab_next[b] => \E q \in Procs : b \in Hands(q),
         \A c \in Slab!Classes : \/ slab_free_list'[c] = slab_free_list[c]
                                 \/ slab_free_list'[c] = 0
                                    /\ Slab!Listed(c) \subseteq slab_lost',
         \A c \in Slab!Classes : Front(c)' = Front(c) \/ Front(c)' = slab_free_list'[c],
         Mutex', LocalInv'
  PROVE  Safe'
<1>1. Apart'
  BY DEF Safe, Apart
<1>2. ASSUME NEW d \in Slab!Classes PROVE HasListing(d)'
  <2>1. HasListing(d)
    BY DEF Safe, Listings
  <2>2. \A b \in Slab!Blocks : Slab!Class(b)' = Slab!Class(b)
    BY DEF Slab!Class
  <2> QED BY <2>1, <2>2, ListingKept
<1> QED BY <1>1, <1>2 DEF Safe, Listings

\* p does not have the mutex, and does not get it.
LEMMA SafeOutside ==
  ASSUME SlabTyped, StepInv, Safe, NEW p \in Procs,
         \A q \in Procs : q # p => slab_pc'[q] = slab_pc[q] /\ slab_cls'[q] = slab_cls[q],
         slab_pc[p] \notin Locked \cup Returning, slab_pc'[p] \notin Locked \cup Returning,
         UNCHANGED <<slab_lock, slab_class, slab_next, slab_off, slab_own>>,
         slab_lost \subseteq slab_lost',
         \A c \in Slab!Classes : \/ slab_free_list'[c] = slab_free_list[c]
                                 \/ slab_free_list'[c] = 0
                                    /\ Slab!Listed(c) \subseteq slab_lost'
  PROVE  Safe'
<1>1. slab_lock # p
  BY DEF StepInv
<1>2. \A q \in Procs : Hands(q)' = Hands(q) /\ slab_own'[q] \cap Slab!Giving(q)' = {}
  BY DEF Hands, Slab!Giving, Safe, Apart, Returning
<1>3. \A c \in Slab!Classes : Front(c)' = Front(c) \/ Front(c)' = slab_free_list'[c]
  BY <1>1 DEF Front, Popping, Pushing
<1>4. Mutex'
  BY DEF Mutex, Safe
<1>5. LocalInv'
  <2> SUFFICES ASSUME NEW q \in Procs
               PROVE  /\ slab_pc'[q] = "pop" /\ slab_off'[q] = 0
                         => slab_free_list'[slab_cls'[q]] = 0
                      /\ slab_pc'[q] \in Returning => slab_cls'[q] = Slab!Class(slab_off[q])'
    BY DEF LocalInv
  <2>1. CASE q = p
    BY <2>1 DEF Locked
  <2>2. CASE q # p
    <3>1. /\ slab_pc[q] = "pop" /\ slab_off[q] = 0 => slab_free_list[slab_cls[q]] = 0
          /\ slab_pc[q] \in Returning => slab_cls[q] = Slab!Class(slab_off[q])
      BY DEF Safe, LocalInv
    <3>2. slab_pc[q] = "pop" => slab_cls[q] \in Slab!Classes
      BY DEF StepInv, WithClass, Locked
    <3> QED BY <2>2, <3>1, <3>2 DEF Slab!Class
  <2> QED BY <2>1, <2>2
<1> QED BY <1>2, <1>3, <1>4, <1>5, SafeQuiet

\* The steps of a constructor, and those before and after an allocation.
LEMMA SafeConstruct ==
  ASSUME SlabTyped, StepInv, Safe, ~slab_reset', NEW p \in Procs,
         \/ Slab!Start(p) \/ Slab!OpenShared(p) \/ Slab!LockAttached(p) \/ Slab!InitMutex(p)
            \/ Slab!SlabAttached(p)
         \/ Slab!SetMagic(p) \/ Slab!SetRange(p) \/ Slab!SetSize(p) \/ Slab!ClearList(p)
         \/ Slab!TooLarge(p) \/ Slab!NoPack(p) \/ \E c \in Slab!Classes : Slab!Want(p, c)
  PROVE  Safe'
<1>1. CASE Slab!Start(p) \/ Slab!LockAttached(p) \/ Slab!SlabAttached(p)
  BY <1>1, SafeOutside
     DEF Slab!Start, Slab!LockAttached, Slab!SlabAttached, Slab!At, Slab!Goto, SlabTyped,
         Locked, Returning, Slab!pages, Slab!local
<1>2. CASE Slab!OpenShared(p)
  <2>1. PICK o \in {"lock", "slab"} : Slab!OpenStep(p, o)
    BY <1>2 DEF Slab!OpenShared
  <2>2. slab_pc[p] \in {"open", "create", "truncate"}
        /\ slab_pc'[p] \in {"create", "failed", "attached", "truncate", "created"}
        /\ \A q \in Procs : q # p => slab_pc'[q] = slab_pc[q]
    BY <2>1 DEF Slab!OpenStep, Slab!Open, Slab!Create, Slab!Truncate, Slab!TruncateFails,
                Slab!At, Slab!Goto, SlabTyped
  <2> QED BY <1>2, <2>2, SafeOutside DEF Slab!OpenShared, Locked, Returning, Slab!pages,
                                         Slab!local
<1>3. CASE Slab!InitMutex(p)
  <2>1. slab_lock' = slab_lock
    BY <1>3 DEF Slab!InitMutex
  <2> QED BY <1>3, <2>1, SafeOutside DEF Slab!InitMutex, Slab!At, Slab!Goto, SlabTyped, Locked,
                                         Returning, Slab!pages, Slab!local
<1>4. CASE Slab!SetMagic(p) \/ Slab!SetRange(p) \/ Slab!SetSize(p)
  <2>1. UNCHANGED <<slab_lock, slab_class, slab_free_list, slab_next, slab_off, slab_own, slab_lost>>
    BY <1>4 DEF Slab!SetMagic, Slab!SetRange, Slab!SetSize, Slab!pages, Slab!local
  <2>2. \A q \in Procs : q # p => slab_pc'[q] = slab_pc[q] /\ slab_cls'[q] = slab_cls[q]
    BY <1>4 DEF Slab!SetMagic, Slab!SetRange, Slab!SetSize, Slab!local, SlabTyped
  <2>3. slab_pc[p] \notin Locked \cup Returning /\ slab_pc'[p] \notin Locked \cup Returning
    BY <1>4 DEF Slab!SetMagic, Slab!SetRange, Slab!SetSize, Slab!At, Locked, Returning,
                SlabTyped
  <2> QED BY <2>1, <2>2, <2>3, SafeOutside
<1>5. CASE Slab!ClearList(p)
  <2>1. UNCHANGED <<slab_lock, slab_class, slab_next, slab_off, slab_own>>
          /\ slab_lost' = slab_lost \cup Slab!Listed(slab_cls[p])
        /\ slab_free_list' = [slab_free_list EXCEPT ![slab_cls[p]] = 0]
    BY <1>5 DEF Slab!ClearList
  <2>2. \A q \in Procs : q # p => slab_pc'[q] = slab_pc[q] /\ slab_cls'[q] = slab_cls[q]
    BY <1>5 DEF Slab!ClearList, SlabTyped
  <2>3. slab_pc[p] \notin Locked \cup Returning /\ slab_pc'[p] \notin Locked \cup Returning
    BY <1>5 DEF Slab!ClearList, Locked, Returning, SlabTyped
  <2>4. \A c \in Slab!Classes : \/ slab_free_list'[c] = slab_free_list[c]
                                \/ slab_free_list'[c] = 0 /\ Slab!Listed(c) \subseteq slab_lost'
    BY <2>1 DEF SlabTyped
  <2> QED BY <2>1, <2>2, <2>3, <2>4, SafeOutside
<1>6. CASE Slab!TooLarge(p) \/ Slab!NoPack(p)
  BY <1>6, SafeOutside DEF Slab!TooLarge, Slab!NoPack, SlabTyped, Locked, Returning,
                           Slab!pages, Slab!local
<1>7. CASE \E c \in Slab!Classes : Slab!Want(p, c)
  BY <1>7, SafeOutside DEF Slab!Want, SlabTyped, Locked, Returning, Slab!pages
<1> QED BY <1>1, <1>2, <1>3, <1>4, <1>5, <1>6, <1>7

\* The mutex is taken, or given back with nothing; a block is looked for, is no longer
\* used, and is made to point to the list.
LEMMA SafeOperate ==
  ASSUME SlabTyped, StepInv, Safe, NEW p \in Procs,
         \/ Slab!Lock(p) \/ Slab!Refuse(p) \/ Slab!Found(p) \/ Slab!Head(p) \/ Slab!Link(p)
         \/ \E b \in Slab!Blocks : Slab!Release(p, b)
  PROVE  Safe'
<1> USE SlabAssumption
<1>b. 0 \notin Slab!Blocks
  BY BlockFacts
<1>1. CASE Slab!Lock(p)
  <2>1. slab_lock = Free /\ slab_lock' = p /\ slab_pc[p] \in {"want", "give"}
        /\ slab_pc' = [slab_pc EXCEPT ![p] = IF slab_pc[p] = "want" THEN "alloc" ELSE "link"]
        /\ UNCHANGED <<slab_class, slab_free_list, slab_next, slab_off, slab_own, slab_cls, slab_lost>>
    BY <1>1 DEF Slab!Lock, Slab!pages, Slab!local
  <2>2. \A q \in Procs : q # p => slab_pc'[q] = slab_pc[q]
    BY <2>1 DEF SlabTyped
  <2>3. slab_pc'[p] = IF slab_pc[p] = "want" THEN "alloc" ELSE "link"
    BY <2>1 DEF SlabTyped
  <2>4. \A q \in Procs : Hands(q)' = Hands(q) /\ slab_own'[q] \cap Slab!Giving(q)' = {}
    BY <2>1, <2>2, <2>3 DEF Hands, Slab!Giving, Safe, Apart
  <2>5. \A c \in Slab!Classes : Front(c)' = slab_free_list'[c]
    BY <2>1, <2>3 DEF Front, Popping, Pushing
  <2>6. Mutex'
    BY <2>1, <2>2 DEF Safe, Mutex
  <2>7. LocalInv'
    BY <2>1, <2>2, <2>3 DEF Safe, LocalInv, Returning, Slab!Class
  <2> QED BY <2>1, <2>4, <2>5, <2>6, <2>7, SafeQuiet
<1>2. CASE Slab!Refuse(p) \/ Slab!Found(p) \/ Slab!Head(p)
  <2>1. slab_lock = p /\ slab_pc[p] \in {"alloc", "head"}
    BY <1>2 DEF Slab!Refuse, Slab!Found, Slab!Head, Safe, Mutex, Locked
  <2>2. UNCHANGED <<slab_class, slab_free_list, slab_next, slab_own, slab_lost>>
    BY <1>2 DEF Slab!Refuse, Slab!Found, Slab!Head, Slab!pages, Slab!local
  <2>3. \A q \in Procs : q # p => slab_pc'[q] = slab_pc[q] /\ slab_cls'[q] = slab_cls[q]
          /\ slab_off'[q] = slab_off[q]
    BY <1>2 DEF Slab!Refuse, Slab!Found, Slab!Head, SlabTyped, Slab!local
  <2>4. slab_pc'[p] \in {"refused", "head", "pop"}
          /\ (slab_pc'[p] = "refused" => slab_lock' = Free)
        /\ (slab_pc'[p] # "refused" => slab_lock' = p)
    BY <1>2, <2>1 DEF Slab!Refuse, Slab!Found, Slab!Head, Slab!Unlock, SlabTyped
  <2>5. slab_pc'[p] = "pop" => slab_off'[p] = slab_free_list[slab_cls[p]]
          /\ slab_cls'[p] = slab_cls[p]
    BY <1>2 DEF Slab!Refuse, Slab!Found, Slab!Head, SlabTyped
  <2>6. \A q \in Procs : Hands(q)' = Hands(q) /\ slab_own'[q] \cap Slab!Giving(q)' = {}
    BY <2>1, <2>2, <2>3, <2>4 DEF Hands, Slab!Giving, Safe, Apart
  <2>7. \A c \in Slab!Classes : Front(c)' = slab_free_list'[c]
    BY <2>2, <2>4, <2>5 DEF Front, Popping, Pushing
  <2>8. Mutex'
    BY <2>1, <2>3, <2>4 DEF Safe, Mutex, Locked
  <2>9. LocalInv'
    BY <2>1, <2>2, <2>3, <2>4, <2>5 DEF Safe, LocalInv, Returning, Slab!Class
  <2> QED BY <2>2, <2>6, <2>7, <2>8, <2>9, SafeQuiet
<1>3. CASE Slab!Link(p)
  <2>1. slab_lock = p /\ slab_pc[p] = "link" /\ slab_pc'[p] = "push" /\ slab_lock' = slab_lock
        /\ UNCHANGED <<slab_class, slab_free_list, slab_off, slab_own, slab_cls, slab_lost>>
    BY <1>3 DEF Slab!Link, Safe, Mutex, Locked, SlabTyped, Slab!local
  <2>2. \A q \in Procs : q # p => slab_pc'[q] = slab_pc[q]
    BY <1>3 DEF Slab!Link, SlabTyped
  <2>3. slab_off[p] \in Slab!Blocks /\ slab_cls[p] \in Slab!Classes
    BY <2>1 DEF StepInv, Returning, WithClass, Locked, CutBlocks
  <2>4. slab_next'[slab_off[p]] = slab_free_list[slab_cls[p]]
          /\ \A b \in Slab!Blocks : b # slab_off[p] => slab_next'[b] = slab_next[b]
    BY <1>3, <2>3 DEF Slab!Link, SlabTyped
  <2>5. \A q \in Procs : Hands(q)' = Hands(q) /\ slab_own'[q] \cap Slab!Giving(q)' = {}
    BY <2>1, <2>2 DEF Hands, Slab!Giving, Safe, Apart
  <2>6. slab_off[p] \in Hands(p)
    BY <2>1 DEF Hands, Slab!Giving
  <2>7. \A c \in Slab!Classes : Front(c)' = slab_free_list'[c]
    BY <2>1, <2>4 DEF Front, Popping, Pushing
  <2>8. Mutex'
    BY <2>1, <2>2 DEF Safe, Mutex, Locked
  <2>9. LocalInv'
    BY <2>1, <2>2 DEF Safe, LocalInv, Returning, Slab!Class
  <2> QED BY <2>1, <2>4, <2>5, <2>6, <2>7, <2>8, <2>9, SafeQuiet
<1>4. CASE \E b \in Slab!Blocks : Slab!Release(p, b)
  <2>0. PICK b \in Slab!Blocks : Slab!Release(p, b)
    BY <1>4
  <2>1. slab_pc[p] = "run" /\ b \in slab_own[p] /\ slab_pc'[p] = "give" /\ slab_off'[p] = b
          /\ slab_cls'[p] = Slab!Class(b)
        /\ slab_own'[p] = slab_own[p] \ {b}
           /\ UNCHANGED <<slab_lock, slab_class, slab_free_list, slab_next, slab_lost>>
    BY <2>0 DEF Slab!Release, SlabTyped, Slab!pages
  <2>2. \A q \in Procs : q # p => slab_pc'[q] = slab_pc[q] /\ slab_off'[q] = slab_off[q]
          /\ slab_cls'[q] = slab_cls[q] /\ slab_own'[q] = slab_own[q]
    BY <2>0 DEF Slab!Release, SlabTyped
  <2>3. \A q \in Procs : Hands(q)' = Hands(q) /\ slab_own'[q] \cap Slab!Giving(q)' = {}
    BY <2>1, <2>2 DEF Hands, Slab!Giving, Safe, Apart
  <2>4. slab_lock # p
    BY <2>1 DEF StepInv, Locked
  <2>5. \A c \in Slab!Classes : Front(c)' = Front(c)
    BY <2>1, <2>2, <2>4 DEF Front, Popping, Pushing
  <2>6. Mutex'
    BY <2>1, <2>2 DEF Safe, Mutex, Locked
  <2>7. LocalInv'
    BY <2>1, <2>2 DEF Safe, LocalInv, Returning, Slab!Class
  <2> QED BY <2>1, <2>3, <2>5, <2>6, <2>7, SafeQuiet
<1> QED BY <1>1, <1>2, <1>3, <1>4

----------------------------------------------------------------------------
(* A process ends; a page is cut; a block is taken from a list and put back. *)

\* The end of a process: what it held is lost.
LEMMA SafeEnds ==
  ASSUME SlabTyped, StepInv, Safe, NEW p \in Procs, Slab!Ends(p),
         UNCHANGED <<slab_class, slab_free_list, slab_next>>
  PROVE  Safe'
<1> USE SlabAssumption
<1>1. /\ slab_pc'[p] = "off" /\ slab_own'[p] = {}
      /\ \A q \in Procs : q # p => /\ slab_pc'[q] = slab_pc[q] /\ slab_cls'[q] = slab_cls[q]
                                      /\ slab_off'[q] = slab_off[q]
                                   /\ slab_own'[q] = slab_own[q]
  BY DEF Slab!Ends, Slab!Goto, SlabTyped
<1>2. Hands(p)' = {} /\ \A q \in Procs : q # p => Hands(q)' = Hands(q)
  BY <1>1 DEF Hands, Slab!Giving
<1>3. slab_lost \subseteq slab_lost' /\ Hands(p) \subseteq slab_lost'
  BY DEF Slab!Ends, Hands, Slab!Giving
<1>4. IF slab_lock = p THEN slab_lock' = Dead ELSE slab_lock' = slab_lock
  BY DEF Slab!Ends
<1>5. \A c \in Slab!Classes : Front(c)' = Front(c) \/ Front(c)' = slab_free_list'[c]
  BY <1>1, <1>4 DEF Front, Popping, Pushing
<1>6. Mutex'
  BY <1>1, <1>4 DEF Safe, Mutex, Locked
<1>7. Apart'
  <2>1. \A q, r \in Procs : q # r => Hands(q)' \cap Hands(r)' = {}
    BY <1>2 DEF Safe, Apart
  <2>2. \A q \in Procs : slab_own'[q] \cap Slab!Giving(q)' = {}
    BY <1>1 DEF Safe, Apart, Slab!Giving
  <2> QED BY <2>1, <2>2 DEF Apart
<1>8. LocalInv'
  BY <1>1 DEF Safe, LocalInv, Returning, Slab!Class
<1>9. ASSUME NEW d \in Slab!Classes PROVE HasListing(d)'
  <2>1. HasListing(d)
    BY DEF Safe, Listings
  <2>2. \A b \in Slab!Blocks : Slab!Class(b)' = Slab!Class(b)
    BY DEF Slab!Class
  <2>3. \A b \in Slab!Blocks : \A q \in Procs : b \in Hands(q)'
          => \E r \in Procs : b \in Hands(r)
    BY <1>2
  <2>4. \A b \in Slab!Blocks : \A q \in Procs :
           b \in Hands(q) => b \in slab_lost' \/ \E r \in Procs : b \in Hands(r)'
    BY <1>2, <1>3
  <2> QED BY <1>3, <1>5, <2>1, <2>2, <2>3, <2>4, ListingKept
<1> QED BY <1>6, <1>7, <1>8, <1>9 DEF Safe, Listings

\* The list of p's class, while p has the mutex and has taken or put nothing.
LEMMA FrontIsHead ==
  ASSUME SlabTyped, NEW p \in Procs, slab_lock = p, NEW c \in Slab!Classes,
         slab_pc[p] \notin {"pop", "push"}
  PROVE  Front(c) = slab_free_list[c]
BY DEF Front, Popping, Pushing

\* Free: the block becomes the first of the list of its class.
LEMMA SafePush ==
  ASSUME SlabTyped, StepInv, Safe, NEW p \in Procs, Slab!Push(p)
  PROVE  Safe'
<1> USE SlabAssumption
<1>0. PICK b, c : b = slab_off[p] /\ c = slab_cls[p]
  OBVIOUS
<1>1. /\ slab_lock = p /\ slab_pc[p] = "push" /\ slab_pc'[p] = "run" /\ slab_lock' = Free
      /\ UNCHANGED <<slab_class, slab_next, slab_own, slab_lost>>
      /\ slab_free_list' = [slab_free_list EXCEPT ![c] = b]
  BY <1>0 DEF Slab!Push, Slab!Unlock, Safe, Mutex, Locked, SlabTyped
<1>2. \A q \in Procs : q # p => slab_pc'[q] = slab_pc[q] /\ slab_cls'[q] = slab_cls[q]
        /\ slab_off'[q] = slab_off[q]
  BY DEF Slab!Push, SlabTyped
<1>3. c \in Slab!Classes /\ b \in Slab!Blocks /\ b \in CutBlocks /\ c = Slab!Class(b)
  BY <1>0, <1>1 DEF StepInv, WithClass, Locked, Returning, CutBlocks, Safe, LocalInv
<1>4. slab_free_list'[c] = b /\ \A d \in Slab!Classes : d # c
        => slab_free_list'[d] = slab_free_list[d]
  BY <1>1, <1>3 DEF SlabTyped
<1>5. Hands(p) = slab_own[p] \cup {b} /\ Hands(p)' = slab_own[p] /\ \A q \in Procs : q # p
        => Hands(q)' = Hands(q)
  BY <1>0, <1>1, <1>2 DEF Hands, Slab!Giving
<1>6. \A d \in Slab!Classes : Front(d)' = slab_free_list'[d]
  BY <1>1 DEF Front, Popping, Pushing
<1>7. \A d \in Slab!Classes : Front(d) = IF d = c THEN slab_next[b] ELSE slab_free_list[d]
  BY <1>0, <1>1 DEF Front, Popping, Pushing
<1>8. \A x \in Slab!Blocks : Slab!Class(x)' = Slab!Class(x)
  BY <1>1 DEF Slab!Class
<1>9. b \notin slab_own[p] /\ \A q \in Procs : q # p => b \notin Hands(q)
  BY <1>0, <1>1, <1>5 DEF Safe, Apart, Slab!Giving
<1>10. Mutex'
  BY <1>1, <1>2 DEF Safe, Mutex, Locked
<1>11. Apart'
  <2>1. \A q, r \in Procs : q # r => Hands(q)' \cap Hands(r)' = {}
    BY <1>5 DEF Safe, Apart
  <2>2. \A q \in Procs : slab_own'[q] \cap Slab!Giving(q)' = {}
    BY <1>1, <1>2 DEF Safe, Apart, Slab!Giving
  <2> QED BY <2>1, <2>2 DEF Apart
<1>12. LocalInv'
  <2> SUFFICES ASSUME NEW q \in Procs
               PROVE  /\ slab_pc'[q] = "pop" /\ slab_off'[q] = 0
                         => slab_free_list'[slab_cls'[q]] = 0
                      /\ slab_pc'[q] \in Returning => slab_cls'[q] = Slab!Class(slab_off[q])'
    BY DEF LocalInv
  <2>1. CASE q = p
    BY <1>1, <2>1 DEF Returning
  <2>2. CASE q # p
    <3>1. slab_pc[q] # "pop"
      BY <1>1, <2>2 DEF Safe, Mutex, Locked
    <3>2. slab_pc[q] \in Returning => slab_cls[q] = Slab!Class(slab_off[q])
      BY DEF Safe, LocalInv
    <3> QED BY <1>1, <1>2, <2>2, <3>1, <3>2 DEF Slab!Class
  <2> QED BY <2>1, <2>2
<1>13. HasListing(c)'
  <2>1. PICK n \in 0 .. Total : \E s \in [1 .. n -> Slab!Blocks] : Listing(c, s, n)
    BY <1>3 DEF Safe, Listings, HasListing
  <2>2. PICK s \in [1 .. n -> Slab!Blocks] : Listing(c, s, n)
    BY <2>1
  <2> DEFINE t == [i \in 1 .. n + 1 |-> IF i = 1 THEN b ELSE s[i - 1]]
  <2>3. n \in Nat /\ Chain(s, n, slab_next[b], slab_next)
    BY <1>3, <1>7, <2>2, BlockFacts DEF Listing
  <2>4. \A i \in 1 .. n : s[i] # b
    BY <1>5, <2>2 DEF Listing
  <2>5. n + 1 \in 0 .. Total /\ Chain(t, n + 1, b, slab_next)
    BY <1>3, <2>3, <2>4, ChainMore
  <2>6. t \in [1 .. n + 1 -> Slab!Blocks]
    <3> HIDE DEF t
    <3> QED BY <2>5 DEF Chain
  <2>7. t[1] = b /\ \A i \in 1 .. n + 1 : i # 1 => i - 1 \in 1 .. n /\ t[i] = s[i - 1]
    BY <2>3
  <2>8. \A i \in 1 .. n : i + 1 \in 1 .. n + 1 /\ t[i + 1] = s[i]
    BY <2>3
  <2>9. 1 \in 1 .. n + 1
    BY <2>3
  <2> HIDE DEF t
  <2>10. \A i \in 1 .. n + 1 : Slab!Class(t[i])' = c /\ \A q \in Procs : t[i] \notin Hands(q)'
    <3> SUFFICES ASSUME NEW i \in 1 .. n + 1
                 PROVE  Slab!Class(t[i])' = c /\ \A q \in Procs : t[i] \notin Hands(q)'
      OBVIOUS
    <3>1. CASE i = 1
      BY <1>3, <1>5, <1>8, <1>9, <2>7, <3>1
    <3>2. CASE i # 1
      <4>1. i - 1 \in 1 .. n /\ t[i] = s[i - 1]
        BY <2>7, <3>2
      <4>2. s[i - 1] \in Slab!Blocks /\ Slab!Class(s[i - 1]) = c
              /\ \A q \in Procs : s[i - 1] \notin Hands(q)
        BY <2>2, <4>1 DEF Listing
      <4> QED BY <1>5, <1>8, <4>1, <4>2
    <3> QED BY <3>1, <3>2
  <2>11. \A x \in Slab!Blocks : Slab!Class(x)' = c =>
            x \in slab_lost' \/ (\E i \in 1 .. n + 1 : x = t[i])
              \/ \E q \in Procs : x \in Hands(q)'
    <3> SUFFICES ASSUME NEW x \in Slab!Blocks, Slab!Class(x)' = c
                 PROVE  x \in slab_lost' \/ (\E i \in 1 .. n + 1 : x = t[i])
                           \/ \E q \in Procs : x \in Hands(q)'
      OBVIOUS
    <3>1. x \in slab_lost \/ (\E i \in 1 .. n : x = s[i]) \/ \E q \in Procs : x \in Hands(q)
      BY <1>8, <2>2 DEF Listing
    <3>2. (\E i \in 1 .. n : x = s[i]) => \E i \in 1 .. n + 1 : x = t[i]
      BY <2>8
    <3>3. (\E q \in Procs : x \in Hands(q)) => x = b \/ \E q \in Procs : x \in Hands(q)'
      BY <1>5
    <3> QED BY <1>1, <2>7, <2>9, <3>1, <3>2, <3>3
  <2>12. Chain(t, n + 1, Front(c)', slab_next')
    BY <1>1, <1>3, <1>4, <1>6, <2>5
  <2>13. Listing(c, t, n + 1)'
    BY <1>3, <1>6, <2>10, <2>11, <2>12 DEF Listing
  <2> QED BY <2>5, <2>6, <2>13 DEF HasListing
<1>14. ASSUME NEW d \in Slab!Classes, d # c PROVE HasListing(d)'
  <2>1. HasListing(d)
    BY DEF Safe, Listings
  <2>2. \A x \in Slab!Blocks : \A q \in Procs : x \in Hands(q)'
          => \E r \in Procs : x \in Hands(r)
    BY <1>5
  <2>3. \A x \in Slab!Blocks : \A q \in Procs :
           Slab!Class(x) = d /\ x \in Hands(q) => x \in slab_lost'
             \/ \E r \in Procs : x \in Hands(r)'
    BY <1>3, <1>5, <1>14
  <2>4. Front(d)' = slab_free_list'[d] /\ slab_free_list'[d] = slab_free_list[d]
    BY <1>4, <1>6, <1>14
  <2> QED BY <1>1, <1>8, <2>1, <2>2, <2>3, <2>4, ListingKept
<1> QED BY <1>10, <1>11, <1>12, <1>13, <1>14 DEF Safe, Listings

\* Alloc: the first block of the list becomes the process's own.
LEMMA SafePop ==
  ASSUME SlabTyped, StepInv, Safe, NEW p \in Procs, Slab!Pop(p)
  PROVE  Safe'
<1> USE SlabAssumption
<1>0. PICK b, c : b = slab_off[p] /\ c = slab_cls[p]
  OBVIOUS
<1>1. /\ slab_lock = p /\ slab_pc[p] = "pop" /\ slab_pc'[p] \in {"run", "refused"}
         /\ slab_lock' = Free
      /\ UNCHANGED <<slab_class, slab_lost>>
      /\ slab_free_list' = [slab_free_list EXCEPT ![c] = IF b = 0 THEN Slab!Wild
         ELSE slab_next[b]]
      /\ slab_next' = [x \in Slab!Blocks |-> IF x = b THEN Slab!Wild ELSE slab_next[x]]
  BY <1>0 DEF Slab!Pop, Slab!Unlock, Safe, Mutex, Locked, SlabTyped
<1>2. \A q \in Procs : q # p => slab_pc'[q] = slab_pc[q] /\ slab_cls'[q] = slab_cls[q]
        /\ slab_off'[q] = slab_off[q] /\ slab_own'[q] = slab_own[q]
  BY DEF Slab!Pop, SlabTyped
<1>3. c \in Slab!Classes /\ b \in {0} \cup CutBlocks /\ CutBlocks \subseteq Slab!Blocks
        /\ 0 \notin Slab!Blocks /\ Slab!Wild # 0
  BY <1>0, <1>1, BlockFacts DEF StepInv, WithClass, Locked, CutBlocks, SlabTyped
<1>4. /\ slab_free_list'[c] = IF b = 0 THEN Slab!Wild ELSE slab_next[b]
      /\ \A d \in Slab!Classes : d # c => slab_free_list'[d] = slab_free_list[d]
      /\ \A x \in Slab!Blocks : slab_next'[x] = IF x = b THEN Slab!Wild ELSE slab_next[x]
  BY <1>1, <1>3 DEF SlabTyped
<1>5. /\ Hands(p) = slab_own[p] /\ Hands(p)' = slab_own[p] \cup ({b} \ {0})
         /\ slab_own'[p] = slab_own[p] \cup ({b} \ {0})
      /\ \A q \in Procs : q # p => Hands(q)' = Hands(q)
  <2>1. slab_own'[p] = slab_own[p] \cup ({b} \ {0})
    BY <1>0 DEF Slab!Pop, SlabTyped
  <2> QED BY <1>1, <1>2, <2>1 DEF Hands, Slab!Giving
<1>6. \A d \in Slab!Classes : Front(d)' = slab_free_list'[d]
  BY <1>1 DEF Front, Popping, Pushing
<1>7. \A d \in Slab!Classes : Front(d) = IF d = c /\ b # 0 THEN b ELSE slab_free_list[d]
  BY <1>0, <1>1 DEF Front, Popping, Pushing
<1>8. \A x \in Slab!Blocks : Slab!Class(x)' = Slab!Class(x)
  BY <1>1 DEF Slab!Class
<1>9. PICK n \in 0 .. Total : \E s \in [1 .. n -> Slab!Blocks] : Listing(c, s, n)
  BY <1>3 DEF Safe, Listings, HasListing
<1>10. PICK s \in [1 .. n -> Slab!Blocks] : Listing(c, s, n)
  BY <1>9
<1>11. n \in Nat /\ Chain(s, n, Front(c), slab_next)
  BY <1>10, BlockFacts DEF Listing
<1>12. \A i \in 1 .. n : s[i] \in Slab!Blocks /\ Slab!Class(s[i]) = c
         /\ \A q \in Procs : s[i] \notin Hands(q)
  BY <1>10 DEF Listing
<1>13. b # 0 => n > 0 /\ s[1] = b /\ 1 \in 1 .. n
  <2> SUFFICES ASSUME b # 0 PROVE n > 0 /\ s[1] = b /\ 1 \in 1 .. n
    OBVIOUS
  <2>1. Front(c) = b /\ b \notin {0, Slab!Wild}
    BY <1>3, <1>7, BlockFacts
  <2> QED BY <1>11, <2>1 DEF Chain
<1>14. b # 0 => Slab!Class(b) = c /\ \A q \in Procs : b \notin Hands(q)
  BY <1>12, <1>13
<1>15. Mutex'
  BY <1>1, <1>2 DEF Safe, Mutex, Locked
<1>16. Apart'
  <2>1. \A q, r \in Procs : q # r => Hands(q)' \cap Hands(r)' = {}
    <3> SUFFICES ASSUME NEW q \in Procs, NEW r \in Procs, q # r
                 PROVE  Hands(q)' \cap Hands(r)' = {}
      OBVIOUS
    <3>1. Hands(q) \cap Hands(r) = {}
      BY DEF Safe, Apart
    <3> QED BY <1>5, <1>14, <3>1
  <2>2. \A q \in Procs : slab_own'[q] \cap Slab!Giving(q)' = {}
    <3>1. Slab!Giving(p)' = {}
      BY <1>1 DEF Slab!Giving
    <3>2. \A q \in Procs : q # p => slab_own'[q] = slab_own[q]
            /\ Slab!Giving(q)' = Slab!Giving(q)
      BY <1>2 DEF Slab!Giving
    <3> QED BY <3>1, <3>2 DEF Safe, Apart
  <2> QED BY <2>1, <2>2 DEF Apart
<1>17. LocalInv'
  <2> SUFFICES ASSUME NEW q \in Procs
               PROVE  /\ slab_pc'[q] = "pop" /\ slab_off'[q] = 0
                         => slab_free_list'[slab_cls'[q]] = 0
                      /\ slab_pc'[q] \in Returning => slab_cls'[q] = Slab!Class(slab_off[q])'
    BY DEF LocalInv
  <2>1. CASE q = p
    BY <1>1, <2>1 DEF Returning
  <2>2. CASE q # p
    <3>1. slab_pc[q] # "pop"
      BY <1>1, <2>2 DEF Safe, Mutex, Locked
    <3>2. slab_pc[q] \in Returning => slab_cls[q] = Slab!Class(slab_off[q])
      BY DEF Safe, LocalInv
    <3> QED BY <1>1, <1>2, <2>2, <3>1, <3>2 DEF Slab!Class
  <2> QED BY <2>1, <2>2
<1>18. ASSUME b = 0 PROVE HasListing(c)'
  <2>1. slab_free_list[c] = 0
    BY <1>0, <1>1, <1>18 DEF Safe, LocalInv
  <2>2. n = 0
    <3> SUFFICES ASSUME n > 0 PROVE FALSE
      BY <1>11
    <3>1. 1 \in 1 .. n /\ Front(c) = s[1]
      BY <1>11 DEF Chain
    <3> QED BY <1>3, <1>7, <1>12, <1>18, <2>1, <3>1
  <2>3. Chain(s, n, Front(c)', slab_next')
    BY <1>3, <1>4, <1>6, <1>11, <1>18, <2>2 DEF Chain
  <2>4. \A x \in Slab!Blocks : Slab!Class(x)' = c =>
           x \in slab_lost' \/ (\E i \in 1 .. n : x = s[i]) \/ \E q \in Procs : x \in Hands(q)'
    <3>1. \A q \in Procs : Hands(q)' = Hands(q)
      BY <1>5, <1>18
    <3> QED BY <1>1, <1>8, <1>10, <3>1 DEF Listing
  <2>5. \A i \in 1 .. n : Slab!Class(s[i])' = c /\ \A q \in Procs : s[i] \notin Hands(q)'
    BY <1>11, <2>2
  <2>6. Listing(c, s, n)'
    BY <1>3, <1>6, <2>3, <2>4, <2>5 DEF Listing
  <2>7. HasListing(c)'
    BY <2>6 DEF HasListing
  <2> QED BY <2>7
<1>19. ASSUME b # 0 PROVE HasListing(c)'
  <2> DEFINE t == [i \in 1 .. n - 1 |-> s[i + 1]]
  <2>1. \A i \in 2 .. n : s[i] # b
    BY <1>11, <1>13, <1>19 DEF Chain
  <2>2. \A i \in 2 .. n : slab_next'[s[i]] = slab_next[s[i]]
    BY <1>4, <1>12, <2>1
  <2>3. n - 1 \in 0 .. Total /\ Chain(t, n - 1, slab_next[s[1]], slab_next')
    BY <1>11, <1>13, <1>19, <2>2, ChainRest
  <2>4. Chain(t, n - 1, Front(c)', slab_next')
    BY <1>3, <1>4, <1>6, <1>13, <1>19, <2>3
  <2>5. t \in [1 .. n - 1 -> Slab!Blocks]
    <3> HIDE DEF t
    <3> QED BY <2>3 DEF Chain
  <2>6. \A i \in 1 .. n - 1 : i + 1 \in 2 .. n /\ i + 1 \in 1 .. n /\ t[i] = s[i + 1]
    BY <1>11
  <2>7. \A i \in 1 .. n : i = 1 \/ (i - 1 \in 1 .. n - 1 /\ t[i - 1] = s[i])
    BY <1>11
  <2> HIDE DEF t
  <2>8. \A i \in 1 .. n - 1 : Slab!Class(t[i])' = c /\ \A q \in Procs : t[i] \notin Hands(q)'
    <3> SUFFICES ASSUME NEW i \in 1 .. n - 1
                 PROVE  Slab!Class(t[i])' = c /\ \A q \in Procs : t[i] \notin Hands(q)'
      OBVIOUS
    <3>1. t[i] \in Slab!Blocks /\ Slab!Class(t[i]) = c /\ t[i] # b
            /\ \A q \in Procs : t[i] \notin Hands(q)
      BY <1>12, <2>1, <2>6
    <3> QED BY <1>5, <1>8, <3>1
  <2>9. \A x \in Slab!Blocks : Slab!Class(x)' = c =>
           x \in slab_lost' \/ (\E i \in 1 .. n - 1 : x = t[i])
             \/ \E q \in Procs : x \in Hands(q)'
    <3> SUFFICES ASSUME NEW x \in Slab!Blocks, Slab!Class(x)' = c
                 PROVE  x \in slab_lost' \/ (\E i \in 1 .. n - 1 : x = t[i])
                           \/ \E q \in Procs : x \in Hands(q)'
      OBVIOUS
    <3>1. x \in slab_lost \/ (\E i \in 1 .. n : x = s[i]) \/ \E q \in Procs : x \in Hands(q)
      BY <1>8, <1>10 DEF Listing
    <3>2. (\E i \in 1 .. n : x = s[i]) => x = b \/ \E i \in 1 .. n - 1 : x = t[i]
      BY <1>13, <1>19, <2>7
    <3>3. (\E q \in Procs : x \in Hands(q)) => \E q \in Procs : x \in Hands(q)'
      BY <1>5
    <3>4. b \in Hands(p)'
      BY <1>5, <1>19
    <3> QED BY <1>1, <3>1, <3>2, <3>3, <3>4
  <2>10. Listing(c, t, n - 1)'
    BY <1>3, <1>6, <2>4, <2>8, <2>9 DEF Listing
  <2>11. HasListing(c)'
    BY <2>3, <2>5, <2>10 DEF HasListing
  <2> QED BY <2>11
<1>20. HasListing(c)'
  BY <1>18, <1>19
<1>21. ASSUME NEW d \in Slab!Classes, d # c PROVE HasListing(d)'
  <2>1. HasListing(d)
    BY DEF Safe, Listings
  <2>2. \A x \in Slab!Blocks : \A q \in Procs :
           Slab!Class(x) = d /\ x \in Hands(q)' => \E r \in Procs : x \in Hands(r)
    BY <1>5, <1>14, <1>21
  <2>3. \A x \in Slab!Blocks : \A q \in Procs :
           Slab!Class(x) = d /\ x \in Hands(q) => x \in slab_lost'
             \/ \E r \in Procs : x \in Hands(r)'
    BY <1>5
  <2>4. \A x \in Slab!Blocks : Slab!Class(x) = d => slab_next'[x] = slab_next[x]
    BY <1>3, <1>4, <1>14, <1>21
  <2>5. Front(d)' = slab_free_list'[d] /\ slab_free_list'[d] = slab_free_list[d]
    BY <1>4, <1>6, <1>21
  <2> QED BY <1>1, <1>8, <2>1, <2>2, <2>3, <2>4, <2>5, ListingKept
<1> QED BY <1>15, <1>16, <1>17, <1>20, <1>21 DEF Safe, Listings

\* NewPage: the blocks of the page become the list, which was empty.
LEMMA SafeNewPage ==
  ASSUME SlabTyped, StepInv, CreateInv, Safe, NEW p \in Procs, Slab!NewPage(p)
  PROVE  Safe'
<1> USE SlabAssumption
<1>0. PICK c, f : c = slab_cls[p] /\ f = Slab!First(slab_bump + 1)
  OBVIOUS
<1>1. /\ slab_lock = p /\ slab_pc[p] = "alloc" /\ slab_pc'[p] = "head" /\ slab_lock' = slab_lock
      /\ slab_free_list[c] = 0 /\ slab_bump \in 0 .. Pages - 1
      /\ slab_class' = [slab_class EXCEPT ![slab_bump + 1] = c]
      /\ slab_free_list' = [slab_free_list EXCEPT ![c] = f + PageBlocks - 1]
      /\ slab_next' = [x \in Slab!Blocks |-> IF x \in f + 1 .. f + PageBlocks - 1 THEN x - 1
                                             ELSE IF x = f THEN slab_free_list[c]
                                               ELSE slab_next[x]]
      /\ UNCHANGED <<slab_own, slab_lost, slab_off, slab_cls>>
  BY <1>0 DEF Slab!NewPage, Slab!Cut, Slab!Room, Safe, Mutex, Locked, SlabTyped, Slab!local
<1>2. \A q \in Procs : q # p => slab_pc'[q] = slab_pc[q]
  BY DEF Slab!NewPage, SlabTyped
<1>3. c \in Slab!Classes
  BY <1>0, <1>1 DEF StepInv, WithClass, Locked
<1>4. /\ slab_free_list'[c] = f + PageBlocks - 1
      /\ \A d \in Slab!Classes : d # c => slab_free_list'[d] = slab_free_list[d]
      /\ \A x \in Slab!Blocks : slab_next'[x] = IF x \in f + 1 .. f + PageBlocks - 1 THEN x - 1
                                                ELSE IF x = f THEN 0 ELSE slab_next[x]
  BY <1>1, <1>3 DEF SlabTyped
<1>5. \A q \in Procs : Hands(q)' = Hands(q)
  BY <1>1, <1>2 DEF Hands, Slab!Giving
<1>6. \A d \in Slab!Classes : Front(d)' = slab_free_list'[d] /\ Front(d) = slab_free_list[d]
  BY <1>1 DEF Front, Popping, Pushing
<1> DEFINE new == f .. f + PageBlocks - 1
<1>7. f \in Nat /\ new \subseteq Slab!Blocks /\ \A x \in new : Slab!Page(x) = slab_bump + 1
  BY <1>0, <1>1, PageFacts
<1>8. \A x \in new : Slab!Class(x) = 0
  BY <1>1, <1>7 DEF Slab!Class, CreateInv
<1>9. \A x \in Slab!Blocks : IF x \in new THEN Slab!Class(x)' = c
        ELSE Slab!Class(x)' = Slab!Class(x)
  BY <1>0, <1>1, <1>3, PageCut
<1>10. 0 \notin Slab!Classes /\ \A q \in Procs : Hands(q) \cap new = {}
  <2>1. 0 \notin Slab!Classes
    BY DEF Slab!Classes
  <2>2. \A q \in Procs : Hands(q) \subseteq CutBlocks
    BY DEF Hands, Slab!Giving, SlabTyped, StepInv, Returning
  <2>3. CutBlocks \cap new = {}
    BY <1>8, <2>1 DEF CutBlocks
  <2> HIDE DEF new
  <2> QED BY <2>1, <2>2, <2>3
<1>11. Mutex'
  BY <1>1, <1>2 DEF Safe, Mutex, Locked
<1>12. Apart'
  <2>1. \A q \in Procs : Slab!Giving(q)' = Slab!Giving(q)
    BY <1>1, <1>2 DEF Slab!Giving
  <2> QED BY <1>1, <1>5, <2>1 DEF Safe, Apart
<1>13. LocalInv'
  <2> SUFFICES ASSUME NEW q \in Procs
               PROVE  /\ slab_pc'[q] = "pop" /\ slab_off'[q] = 0
                         => slab_free_list'[slab_cls'[q]] = 0
                      /\ slab_pc'[q] \in Returning => slab_cls'[q] = Slab!Class(slab_off[q])'
    BY DEF LocalInv
  <2>1. CASE q = p
    BY <1>1, <2>1 DEF Returning
  <2>2. CASE q # p
    <3>1. slab_pc[q] # "pop"
      BY <1>1, <2>2 DEF Safe, Mutex, Locked
    <3>2. ASSUME slab_pc[q] \in Returning PROVE slab_cls[q] = Slab!Class(slab_off[q])'
      <4>1. slab_cls[q] = Slab!Class(slab_off[q]) /\ slab_off[q] \in CutBlocks
        BY <3>2 DEF Safe, LocalInv, StepInv
      <4>2. slab_off[q] \in Slab!Blocks /\ slab_off[q] \notin new
        BY <1>8, <1>10, <4>1 DEF CutBlocks
      <4>3. PICK x : x = slab_off[q]
        OBVIOUS
      <4>4. Slab!Class(x)' = Slab!Class(x) /\ x = slab_off'[q]
        BY <1>1, <1>9, <4>2, <4>3
      <4> QED BY <4>1, <4>3, <4>4 DEF Slab!Class
    <3> QED BY <1>1, <1>2, <2>2, <3>1, <3>2
  <2> QED BY <2>1, <2>2
<1>14. HasListing(c)'
  <2> DEFINE n == PageBlocks
             s == [i \in 1 .. n |-> f + n - i]
  <2>1. n \in Nat /\ n > 0 /\ \A i \in 1 .. n : s[i] = f + n - i /\ s[i] \in new
    BY <1>7
  <2>2. s \in [1 .. n -> Slab!Blocks]
    BY <1>7, <2>1
  <2>3. \A i, j \in 1 .. n : i # j => s[i] # s[j]
    BY <1>7
  <2>4. \A x \in new : f + n - x \in 1 .. n /\ s[f + n - x] = x
    BY <1>7, <2>1
  <2> HIDE DEF s
  <2>5. n \in 0 .. Total
    BY <2>1, <2>2, <2>3, ChainBound
  <2>6. \A i \in 1 .. n - 1 : slab_next'[s[i]] = s[i + 1]
    <3> SUFFICES ASSUME NEW i \in 1 .. n - 1 PROVE slab_next'[s[i]] = s[i + 1]
      OBVIOUS
    <3>1. i \in 1 .. n /\ i + 1 \in 1 .. n
      BY <2>1
    <3>2. s[i] = f + n - i /\ s[i + 1] = f + n - (i + 1) /\ s[i] \in Slab!Blocks
      BY <2>1, <2>2, <3>1
    <3>3. s[i] \in f + 1 .. f + n - 1 /\ s[i] - 1 = s[i + 1]
      BY <1>7, <2>1, <3>1, <3>2
    <3> QED BY <1>4, <3>2, <3>3
  <2>7. slab_next'[s[n]] = 0 /\ n \in 1 .. n
    <3>1. s[n] = f /\ f \in Slab!Blocks /\ n \in 1 .. n
      BY <1>7, <2>1, <2>2
    <3> QED BY <1>4, <1>7, <2>1, <3>1
  <2>8. Front(c)' = s[1]
    <3>1. s[1] = f + n - 1
      BY <2>1
    <3> QED BY <1>3, <1>4, <1>6, <3>1
  <2>9. Chain(s, n, Front(c)', slab_next')
    BY <2>1, <2>2, <2>3, <2>6, <2>7, <2>8 DEF Chain
  <2>10. \A i \in 1 .. n : Slab!Class(s[i])' = c /\ \A q \in Procs : s[i] \notin Hands(q)'
    BY <1>5, <1>7, <1>9, <1>10, <2>1
  <2>11. \A x \in Slab!Blocks : Slab!Class(x)' = c =>
            x \in slab_lost' \/ (\E i \in 1 .. n : x = s[i]) \/ \E q \in Procs : x \in Hands(q)'
    <3> SUFFICES ASSUME NEW x \in Slab!Blocks, Slab!Class(x)' = c, x \notin new
                 PROVE  x \in slab_lost' \/ (\E i \in 1 .. n : x = s[i])
                           \/ \E q \in Procs : x \in Hands(q)'
      BY <2>4
    <3>1. Slab!Class(x) = c
      BY <1>9
    <3>2. PICK m \in 0 .. Total : \E r \in [1 .. m -> Slab!Blocks] : Listing(c, r, m)
      BY <1>3 DEF Safe, Listings, HasListing
    <3>3. PICK r \in [1 .. m -> Slab!Blocks] : Listing(c, r, m)
      BY <3>2
    <3>4. m = 0
      <4> SUFFICES ASSUME m > 0 PROVE FALSE
        BY BlockFacts
      <4>1. r[1] = 0 /\ 1 \in 1 .. m
        BY <1>1, <1>3, <1>6, <3>3, BlockFacts DEF Listing, Chain
      <4>2. r[1] \in Slab!Blocks
        BY <4>1
      <4> QED BY <4>1, <4>2, BlockFacts
    <3>5. x \in slab_lost \/ \E q \in Procs : x \in Hands(q)
      BY <3>1, <3>3, <3>4 DEF Listing
    <3> QED BY <1>1, <1>5, <3>5
  <2>12. Listing(c, s, n)'
    BY <1>3, <1>6, <2>9, <2>10, <2>11 DEF Listing
  <2> QED BY <2>2, <2>5, <2>12 DEF HasListing
<1>15. ASSUME NEW d \in Slab!Classes, d # c PROVE HasListing(d)'
  <2>1. HasListing(d)
    BY DEF Safe, Listings
  <2>2. \A x \in Slab!Blocks : Slab!Class(x)' = d <=> Slab!Class(x) = d
    BY <1>8, <1>9, <1>10, <1>15
  <2>3. \A x \in Slab!Blocks : Slab!Class(x) = d => x \notin new
    BY <1>8, <1>10
  <2>4. \A x \in Slab!Blocks : Slab!Class(x) = d => slab_next'[x] = slab_next[x]
    <3> SUFFICES ASSUME NEW x \in Slab!Blocks, x \notin new PROVE slab_next'[x] = slab_next[x]
      BY <2>3
    <3>1. x \notin f + 1 .. f + PageBlocks - 1 /\ x # f
      BY <1>7
    <3> QED BY <1>4, <3>1
  <2>5. Front(d)' = Front(d) /\ slab_free_list'[d] = slab_free_list[d]
    BY <1>4, <1>6, <1>15
  <2> HIDE DEF new
  <2> QED BY <1>1, <1>5, <2>1, <2>2, <2>4, <2>5, ListingKept
<1> QED BY <1>11, <1>12, <1>13, <1>14, <1>15 DEF Safe, Listings

----------------------------------------------------------------------------
(* The theorem.                                                             *)

\* At first nothing is cut, and every list is empty.
LEMMA SlabInitially == Slab!Init => SlabInv
<1> SUFFICES ASSUME Slab!Init PROVE SlabInv
  OBVIOUS
<1> USE SlabAssumption
<1>1. SlabTyped
  <2>1. 0 \in 0 .. Pages
    OBVIOUS
  <2> QED BY <2>1 DEF Slab!Init, SlabTyped, Slab!header, Steps
<1>2. StepInv
  BY DEF Slab!Init, StepInv, Locked, WithClass, Returning
<1>3. CreateInv
  BY DEF Slab!Init, CreateInv, Creating, Slab!At
<1>4. Mutex /\ LocalInv /\ Apart
  BY DEF Slab!Init, Mutex, LocalInv, Apart, Hands, Slab!Giving, Locked, Returning
<1>5. Listings
  <2> SUFFICES ASSUME NEW c \in Slab!Classes PROVE HasListing(c)
    BY DEF Listings
  <2> DEFINE t == [i \in 1 .. 0 |-> 1]
  <2>1. t \in [1 .. 0 -> Slab!Blocks] /\ 0 \in 0 .. Total
    BY BlockFacts
  <2>2. Front(c) = 0 /\ slab_free_list[c] = 0
    BY DEF Slab!Init, Front, Popping, Pushing
  <2>3. Chain(t, 0, Front(c), slab_next)
    BY <2>1, <2>2 DEF Chain
  <2>4. \A b \in Slab!Blocks : Slab!Class(b) # c
    <3> SUFFICES ASSUME NEW b \in Slab!Blocks PROVE Slab!Class(b) = 0
      BY DEF Slab!Classes
    <3> QED BY PageFacts DEF Slab!Init, Slab!Class
  <2> HIDE DEF t
  <2>5. Listing(c, t, 0)
    BY <2>2, <2>3, <2>4 DEF Listing
  <2> QED BY <2>1, <2>5 DEF HasListing
<1> QED BY <1>1, <1>2, <1>3, <1>4, <1>5 DEF SlabInv, Safe

\* SlabInv is inductive.
LEMMA SlabInductive == SlabInv /\ [Slab!Next]_(Slab!vars) => SlabInv'
<1> SUFFICES ASSUME SlabInv, [Slab!Next]_(Slab!vars) PROVE SlabInv'
  OBVIOUS
<1>0. SlabTyped /\ StepInv /\ CreateInv /\ (slab_reset \/ Safe)
  BY DEF SlabInv
<1>1. CASE UNCHANGED Slab!vars
  <2> USE <1>1 DEF Slab!vars, Slab!header, Slab!pages, Slab!local
  <2>1. SlabTyped' /\ StepInv'
    BY <1>0, CutBlocksKept DEF SlabTyped, StepInv
  <2>2. CreateInv'
    BY <1>0 DEF CreateInv, Creating, Slab!At
  <2>3. slab_reset' \/ Safe'
    <3>1. ASSUME Safe PROVE Safe'
      <4>1. \A q \in Procs : Hands(q)' = Hands(q) /\ slab_own'[q] \cap Slab!Giving(q)' = {}
        BY <3>1 DEF Safe, Apart, Hands, Slab!Giving
      <4>2. \A c \in Slab!Classes : Front(c)' = Front(c)
        BY DEF Front, Popping, Pushing
      <4>3. Mutex' /\ LocalInv'
        BY <3>1 DEF Safe, Mutex, LocalInv, Slab!Class
      <4> QED BY <1>0, <3>1, <4>1, <4>2, <4>3, SafeQuiet
    <3> QED BY <1>0, <3>1
  <2> QED BY <2>1, <2>2, <2>3 DEF SlabInv
<1>2. CASE Slab!Next
  <2>1. PICK p \in Procs : \/ Slab!Start(p) \/ Slab!Kill(p) \/ Slab!Construct(p)
                              \/ Slab!Operate(p)
                           \/ \E c \in Slab!Classes : Slab!Want(p, c)
                           \/ \E b \in Slab!Blocks : Slab!Release(p, b)
    BY <1>2 DEF Slab!Next
  <2>2. SlabTyped' /\ StepInv'
    BY <1>0, <2>1, TypedConstruct, TypedOperate
  <2>3. CreateInv'
    BY <1>0, <2>1, CreateKept
  <2>4. slab_reset => slab_reset'
    <3>1. slab_reset' = slab_reset \/ Slab!InitMutex(p)
      BY <2>1 DEF Slab!Start, Slab!Kill, Slab!Construct, Slab!Operate, Slab!Want, Slab!Release,
                  Slab!OpenShared, Slab!OpenFailed,
                  Slab!LockAttached, Slab!SlabAttached, Slab!Incompatible, Slab!SetMagic,
                  Slab!SetRange, Slab!SetSize,
                  Slab!ClearList, Slab!TooLarge, Slab!Lock, Slab!NewPage, Slab!PageOfNothing,
                  Slab!Refuse, Slab!NoPack, Slab!NullWrite,
                  Slab!Found, Slab!Head, Slab!HeadWild, Slab!Pop, Slab!Link, Slab!Push
    <3> QED BY <3>1 DEF Slab!InitMutex
  <2>5. ASSUME ~slab_reset' PROVE Safe'
    <3>1. Safe /\ SlabTyped /\ StepInv /\ CreateInv
      BY <1>0, <2>4, <2>5
    <3>2. CASE Slab!OpenFailed(p) \/ Slab!Incompatible(p) \/ Slab!NullWrite(p)
                 \/ Slab!HeadWild(p) \/ Slab!Kill(p)
               \/ Slab!PageOfNothing(p)
      <4>1. Slab!Ends(p) /\ UNCHANGED <<slab_class, slab_free_list, slab_next>>
        BY <3>2 DEF Slab!OpenFailed, Slab!Incompatible, Slab!NullWrite, Slab!HeadWild,
                    Slab!Kill, Slab!PageOfNothing, Slab!pages
      <4> QED BY <3>1, <4>1, SafeEnds
    <3>3. CASE \/ Slab!Start(p) \/ Slab!OpenShared(p) \/ Slab!LockAttached(p)
                  \/ Slab!InitMutex(p) \/ Slab!SlabAttached(p)
               \/ Slab!SetMagic(p) \/ Slab!SetRange(p) \/ Slab!SetSize(p) \/ Slab!ClearList(p)
               \/ Slab!TooLarge(p) \/ Slab!NoPack(p) \/ \E c \in Slab!Classes : Slab!Want(p, c)
      BY <2>5, <3>1, <3>3, SafeConstruct
    <3>4. CASE \/ Slab!Lock(p) \/ Slab!Refuse(p) \/ Slab!Found(p) \/ Slab!Head(p)
                  \/ Slab!Link(p)
               \/ \E b \in Slab!Blocks : Slab!Release(p, b)
      BY <3>1, <3>4, SafeOperate
    <3>5. CASE Slab!NewPage(p)
      BY <3>1, <3>5, SafeNewPage
    <3>6. CASE Slab!Pop(p)
      BY <3>1, <3>6, SafePop
    <3>7. CASE Slab!Push(p)
      BY <3>1, <3>7, SafePush
    <3> QED BY <2>1, <3>2, <3>3, <3>4, <3>5, <3>6, <3>7 DEF Slab!Construct, Slab!Operate
  <2> QED BY <2>2, <2>3, <2>5 DEF SlabInv
<1> QED BY <1>1, <1>2

\* SlabInv says of the chains what the properties say of the walks along the lists.
LEMMA SlabImplies == SlabInv => Slab!TypeOK /\ Slab!OneOwner /\ Slab!NoneLost
<1> SUFFICES ASSUME SlabInv PROVE Slab!TypeOK /\ Slab!OneOwner /\ Slab!NoneLost
  OBVIOUS
<1>0. SlabTyped /\ StepInv /\ (slab_reset \/ Safe) /\ CutBlocks \subseteq Slab!Blocks
  BY DEF SlabInv, CutBlocks
<1>1. Slab!TypeOK
  <2>1. slab_free_list \in [Slab!Classes -> {0, Slab!Wild} \cup Slab!Blocks]
          /\ slab_next \in [Slab!Blocks -> {0, Slab!Wild} \cup Slab!Blocks]
        /\ slab_off \in [Procs -> {0} \cup Slab!Blocks]
    BY <1>0 DEF SlabTyped
  <2> QED BY <1>0, <2>1 DEF Slab!TypeOK, SlabTyped, StepInv, Locked
<1>2. ASSUME ~slab_reset, NEW c \in Slab!Classes
      PROVE  /\ Slab!Walk(c)[Total] \in {0, Slab!Wild}
             /\ \A b \in Slab!Listed(c) : Slab!Class(b) = c
                /\ \A p \in Procs : b \notin Hands(p)
             /\ \A b \in Slab!Blocks : Slab!Class(b) = c =>
                   b \in Slab!Listed(c) \cup slab_lost \/ \E p \in Procs : b \in Hands(p)
  <2>1. PICK n \in 0 .. Total : \E s \in [1 .. n -> Slab!Blocks] : Listing(c, s, n)
    BY <1>0, <1>2 DEF Safe, Listings, HasListing
  <2>2. PICK s \in [1 .. n -> Slab!Blocks] : Listing(c, s, n)
    BY <2>1
  <2>3. CASE slab_free_list[c] = Front(c)
    <3>1. Slab!Walk(c)[Total] \in {0, Slab!Wild} /\ Slab!Listed(c) = {s[i] : i \in 1 .. n}
      BY <2>2, <2>3, WalkOfChain DEF Listing
    <3> QED BY <2>2, <3>1 DEF Listing
  <2>4. CASE slab_free_list[c] = 0 /\ \A i \in 1 .. n : s[i] \in slab_lost
    <3> DEFINE t == [i \in 1 .. 0 |-> 1]
    <3>1. t \in [1 .. 0 -> Slab!Blocks] /\ 0 \in 0 .. Total
      BY BlockFacts
    <3>2. Chain(t, 0, slab_free_list[c], slab_next)
      BY <2>4, <3>1 DEF Chain
    <3> HIDE DEF t
    <3>3. Slab!Walk(c)[Total] \in {0, Slab!Wild} /\ Slab!Listed(c) = {t[i] : i \in 1 .. 0}
      BY <3>1, <3>2, WalkOfChain
    <3> QED BY <2>2, <2>4, <3>3 DEF Listing
  <2> QED BY <2>2, <2>3, <2>4 DEF Listing
<1>3. Slab!OneOwner
  <2> SUFFICES ASSUME ~slab_reset
               PROVE  /\ \A p, q \in Procs : p # q
                         => (slab_own[p] \cup Slab!Giving(p)) \cap slab_own[q] = {}
                      /\ \A c \in Slab!Classes : /\ Slab!Walk(c)[Total] \in {0, Slab!Wild}
                                                 /\ \A b \in Slab!Listed(c) : Slab!Class(b) = c
                                                 /\ \A p \in Procs : Slab!Listed(c) \cap slab_own[p] = {}
    BY DEF Slab!OneOwner, Total, Slab!Cardinality, Cardinality
  <2>1. \A p, q \in Procs : p # q => (slab_own[p] \cup Slab!Giving(p)) \cap slab_own[q] = {}
    BY <1>0 DEF Safe, Apart, Hands
  <2> QED BY <1>2, <2>1 DEF Hands
<1>4. Slab!NoneLost
  <2> SUFFICES ASSUME ~slab_reset, NEW b \in Slab!Blocks, Slab!Class(b) # 0
               PROVE  \/ b \in Slab!Listed(Slab!Class(b)) \cup slab_lost
                      \/ \E p \in Procs : b \in slab_own[p] \cup Slab!Giving(p)
    BY DEF Slab!NoneLost
  <2>1. Slab!Class(b) \in Slab!Classes
    BY <1>0, PageFacts DEF Slab!Class, SlabTyped
  <2> QED BY <1>2, <2>1 DEF Hands
<1> QED BY <1>1, <1>3, <1>4

\* BlocksAccounted of Shm.  In every state a block is with one process or on the list of
\* its class, the lists end, and only what a dead process held is lost: for every number
\* of processes, classes, pages and blocks of a page, whenever a process starts or dies.
THEOREM BlocksAccountedCorrect == ShmSpec => []BlocksAccounted
<1>1. ShmInit => SlabInv
  BY SlabInitially DEF ShmInit
<1>2. SlabInv /\ [ShmNext]_<<side, vars, slab_vars>> => SlabInv'
  <2>1. UNCHANGED slab_vars => UNCHANGED Slab!vars
    BY DEF slab_vars, Slab!vars, Slab!header, Slab!pages, Slab!local
  <2>2. [ShmNext]_<<side, vars, slab_vars>> => [Slab!Next]_(Slab!vars)
    BY <2>1 DEF ShmNext
  <2> QED BY <2>2, SlabInductive
<1>3. SlabInv => BlocksAccounted
  BY SlabImplies DEF BlocksAccounted
<1> QED BY <1>1, <1>2, <1>3, PTL DEF ShmSpec
=============================================================================
