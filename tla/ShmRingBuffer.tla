--------------------------- MODULE ShmRingBuffer ---------------------------
(***************************************************************************)
(* core/shm/shm_ringbuffer: a ring of N slots in shared memory, its header *)
(* (head, tail) and the spin lock every operation takes.  The threads may  *)
(* be of several processes.  An operation is broken where the code writes  *)
(* shared memory: take the lock and check the room, copy the first part,   *)
(* copy the part that wraps, store the header and unlock.  A process may   *)
(* die between any two of these steps.                                     *)
(***************************************************************************)
EXTENDS Integers, Sequences

CONSTANTS N,          \* ring_size_
          Threads,
          Free,       \* no thread: the lock is free
          Items,      \* what a slot can hold
          Junk,       \* what a slot holds before the first write
          MaxCount    \* bound: the longest batch of one call

ASSUME RingAssumption == /\ N \in Nat \ {0} /\ MaxCount \in Nat \ {0}
                         /\ Junk \notin Items /\ Free \notin Threads

VARIABLES head, tail, buffer,
          lock,    \* the holder of the spin lock, or Free
          pc, call, got, result

vars == <<head, tail, buffer, lock, pc, call, got, result>>

Slots == 0 .. N - 1
Idle == [op |-> "none", items |-> <<>>, count |-> 0]
Refused == [ok |-> FALSE, items |-> <<>>]
Done(s) == [ok |-> TRUE, items |-> s]

\* The arguments a caller passes: the batch of a push, the count of the others.
\* A count of 0 returns before any shared state is touched and is left out.
Batches == UNION {[1 .. n -> Items] : n \in 1 .. MaxCount}
Calls == [op : {"Push", "PushFront"}, items : Batches, count : 1 .. MaxCount]
         \cup [op : {"Pop", "Peek", "Drop"}, items : {<<>>}, count : 1 .. MaxCount]
         \cup {[op |-> "Reset", items |-> <<>>, count |-> 0]}
GoodCalls == {c \in Calls : c.op \in {"Push", "PushFront"} => c.count = Len(c.items)}

Used == IF tail >= head THEN tail - head ELSE N - (head - tail)
Available == IF tail >= head THEN N - (tail - head) - 1 ELSE head - tail - 1

\* The slot that is i places after slot s, and how many places slot j is after s:
\* a copy goes up to the end of the ring and on from slot 0.
Slot(s, i) == IF s + i < N THEN s + i ELSE s + i - N
Dist(s, j) == IF j >= s THEN j - s ELSE j - s + N

\* Mutant: the new tail is not taken modulo N.
NewTailNoWrap(k) == IF N - tail >= k THEN tail + k ELSE k - (N - tail)

NewTail(k) == IF N - tail >= k THEN (tail + k) % N ELSE k - (N - tail)
NewHead(k) == IF N - head >= k THEN (head + k) % N ELSE k - (N - head)
FrontHead(k) == IF head >= k THEN (head - k + N) % N ELSE N - (k - head)

----------------------------------------------------------------------------
Init == /\ head = 0 /\ tail = 0
        /\ buffer = [j \in Slots |-> Junk]
        /\ lock = Free
        /\ pc = [t \in Threads |-> "idle"]
        /\ call = [t \in Threads |-> Idle]
        /\ got = [t \in Threads |-> <<>>]
        /\ result = [t \in Threads |-> Refused]

\* A thread enters the operation and spins on TryLock ...
Invoke(t) == /\ pc[t] = "idle"
             /\ \E c \in GoodCalls : call' = [call EXCEPT ![t] = c]
             /\ pc' = [pc EXCEPT ![t] = "spin"]
             /\ result' = [result EXCEPT ![t] = Refused]
             /\ UNCHANGED <<head, tail, buffer, lock, got>>

\* Mutant: the lock is taken whoever holds it.
AcquireHeld(t) == /\ pc[t] = "spin"
                  /\ lock' = t
                  /\ pc' = [pc EXCEPT ![t] = "check"]
                  /\ UNCHANGED <<head, tail, buffer, call, got, result>>

\* ... until the lock is free.  A lock whose holder died is not: TryLock takes
\* every error code of pthread_mutex_trylock for "held by another".
Acquire(t) == /\ pc[t] = "spin" /\ lock = Free
              /\ lock' = t
              /\ pc' = [pc EXCEPT ![t] = "check"]
              /\ UNCHANGED <<head, tail, buffer, call, got, result>>

\* The guard's destructor unlocks; the call returns r.
Return(t, r) == /\ lock' = Free
                /\ pc' = [pc EXCEPT ![t] = "idle"]
                /\ call' = [call EXCEPT ![t] = Idle]
                /\ got' = [got EXCEPT ![t] = <<>>]
                /\ result' = [result EXCEPT ![t] = r]

\* Mutant: PushFront does not check the room.
LacksNotFront(c) == \/ c.op = "Push" /\ Available < c.count
                    \/ c.op \in {"Pop", "Peek"} /\ Used < c.count
                    \/ c.op = "Drop" /\ Used = 0

Lacks(c) == \/ c.op \in {"Push", "PushFront"} /\ Available < c.count
            \/ c.op \in {"Pop", "Peek"} /\ Used < c.count
            \/ c.op = "Drop" /\ Used = 0

Refuse(t) == /\ pc[t] = "check" /\ Lacks(call[t])
             /\ Return(t, Refused)
             /\ UNCHANGED <<head, tail, buffer>>

\* Where the copy of a call starts, and how many items lie before the end of
\* the ring: the size of the first memcpy.
Start(c) == IF c.op = "Push" THEN tail
            ELSE IF c.op = "PushFront" THEN FrontHead(c.count) ELSE head
FirstPart(c) == IF N - Start(c) >= c.count THEN c.count ELSE N - Start(c)

\* memcpy of items lo + 1 .. hi of the call, into the ring or out of it.
CopyPart(t, c, lo, hi) ==
  IF c.op \in {"Push", "PushFront"}
  THEN /\ buffer' = [j \in Slots |->
                       LET d == Dist(Start(c), j)
                       IN  IF lo <= d /\ d < hi THEN c.items[d + 1] ELSE buffer[j]]
       /\ UNCHANGED got
  ELSE /\ got' = [got EXCEPT ![t] =
                    @ \o [i \in 1 .. hi - lo |-> buffer[Slot(head, lo + i - 1)]]]
       /\ UNCHANGED buffer

Copies == {"Push", "PushFront", "Pop", "Peek"}

Copy(t) == /\ pc[t] = "check" /\ call[t].op \in Copies /\ ~Lacks(call[t])
           /\ CopyPart(t, call[t], 0, FirstPart(call[t]))
           /\ pc' = [pc EXCEPT ![t] =
                       IF FirstPart(call[t]) < call[t].count THEN "wrap" ELSE "commit"]
           /\ UNCHANGED <<head, tail, lock, call, result>>

CopyWrapped(t) == /\ pc[t] = "wrap"
                  /\ CopyPart(t, call[t], FirstPart(call[t]), call[t].count)
                  /\ pc' = [pc EXCEPT ![t] = "commit"]
                  /\ UNCHANGED <<head, tail, lock, call, result>>

Commit(t) == /\ pc[t] = "commit"
             /\ tail' = IF call[t].op = "Push" THEN NewTail(call[t].count) ELSE tail
             /\ head' = IF call[t].op = "PushFront" THEN FrontHead(call[t].count)
                        ELSE IF call[t].op = "Pop" THEN NewHead(call[t].count) ELSE head
             /\ Return(t, Done(got[t]))
             /\ UNCHANGED buffer

\* Mutant: Drop moves head past tail when there is less than it was asked for.
DropUnclamped(t) == /\ pc[t] = "check" /\ call[t].op = "Drop" /\ ~Lacks(call[t])
                    /\ head' = (head + call[t].count) % N
                    /\ Return(t, Done(<<>>))
                    /\ UNCHANGED <<tail, buffer>>

\* Drop takes at most what is there.
Drop(t) == /\ pc[t] = "check" /\ call[t].op = "Drop" /\ ~Lacks(call[t])
           /\ LET k == IF call[t].count > Used THEN Used ELSE call[t].count
              IN  head' = (head + k) % N
           /\ Return(t, Done(<<>>))
           /\ UNCHANGED <<tail, buffer>>

Reset(t) == /\ pc[t] = "check" /\ call[t].op = "Reset"
            /\ head' = 0 /\ tail' = 0
            /\ Return(t, Done(<<>>))
            /\ UNCHANGED buffer

\* The process of t dies inside the operation.  Nobody ever unlocks for it.
Crash(t) == /\ pc[t] \in {"spin", "check", "wrap", "commit"}
            /\ pc' = [pc EXCEPT ![t] = "crashed"]
            /\ UNCHANGED <<head, tail, buffer, lock, call, got, result>>

Step(t) == Acquire(t) \/ Refuse(t) \/ Copy(t) \/ CopyWrapped(t) \/ Commit(t)
           \/ Drop(t) \/ Reset(t)

Next == \E t \in Threads : Invoke(t) \/ Step(t) \/ Crash(t)

Spec == Init /\ [][Next]_vars

\* The scheduler runs every thread that can take a step: a spinning thread
\* retries TryLock for ever.
FairSpec == Spec /\ \A t \in Threads : WF_vars(Step(t))

----------------------------------------------------------------------------
(* A process that sends to this ring opens it itself the first time          *)
(* (LocalServiceMap_[id] = make_unique<ShmRingBuffer>), and the constructor  *)
(* stores head = 0 and tail = 0 without the lock, whatever the ring holds.   *)

PeerOpen(t) == /\ pc[t] = "idle"
               /\ head' = 0
               /\ pc' = [pc EXCEPT ![t] = "opening"]
               /\ UNCHANGED <<tail, buffer, lock, call, got, result>>

PeerOpened(t) == /\ pc[t] = "opening"
                 /\ tail' = 0
                 /\ pc' = [pc EXCEPT ![t] = "idle"]
                 /\ UNCHANGED <<head, buffer, lock, call, got, result>>

SharedNext == Next \/ \E t \in Threads : PeerOpen(t) \/ PeerOpened(t)
SharedSpec == Init /\ [][SharedNext]_vars

----------------------------------------------------------------------------
\* The types of the state: the indices stay inside the ring, the lock is free or held.
TypeOK == /\ head \in Slots /\ tail \in Slots
          /\ buffer \in [Slots -> Items \cup {Junk}]
          /\ lock \in Threads \cup {Free}
          /\ pc \in [Threads -> {"idle", "spin", "check", "wrap", "commit",
                                 "opening", "crashed"}]
          /\ call \in [Threads -> GoodCalls \cup {Idle}]
          /\ got \in [Threads -> Seq(Items \cup {Junk})]
          /\ result \in [Threads -> [ok : BOOLEAN, items : Seq(Items \cup {Junk})]]

\* The slots that hold an unread item.
Live == {j \in Slots : Dist(head, j) < Used}

\* Every unread slot holds an item that was pushed: whatever the interleaving and
\* wherever a process died, a reader never meets a slot nobody has written.
NoJunkRead == \A j \in Live : buffer[j] \in Items

\* A copy into the ring, whole or cut short by a crash, writes only slots that
\* hold no unread item (the boundary tests of Available and FrontHead).
UnreadKept == [][\A j \in Live : buffer'[j] = buffer[j]]_vars

\* The ring is a bounded FIFO queue of N - 1 items on which each call takes effect
\* when it stores the header: the promise of TEST_F(FIFOOrder) and of the
\* wrap-around tests, for every interleaving.
Contents == [i \in 1 .. Used |-> buffer[Slot(head, i - 1)]]
Fifo == INSTANCE BoundedFifo WITH queue <- Contents, Calls <- GoodCalls, Cap <- N - 1
FifoSpec == Fifo!Spec

\* shm_lock.h:194-195: when the process that holds the lock crashes, the others
\* can recover it; so a thread that spins on it gets past the dead holder.
LockRecovered ==
  \A t, u \in Threads : (lock = t /\ pc[t] = "crashed" /\ pc[u] = "spin")
                         ~> (lock # t \/ pc[u] = "crashed")
=============================================================================
