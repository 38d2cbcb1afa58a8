---------------------------- MODULE BoundedFifo ----------------------------
(***************************************************************************)
(* What a ring buffer promises to the threads that share it: a queue of at *)
(* most Cap items on which every call takes effect at one instant between  *)
(* its invocation and its return.  A call is refused only when, at that    *)
(* instant, the queue has no room for it or too few items.                 *)
(***************************************************************************)
EXTENDS Integers, Sequences

CONSTANTS Threads, Calls, Cap

VARIABLES queue,   \* the unread items, oldest first
          call,    \* call[t]: what t has invoked and not returned from, or Idle
          result   \* result[t]: what t's last call returned, once it has

Idle == [op |-> "none", items |-> <<>>, count |-> 0]
Refused == [ok |-> FALSE, items |-> <<>>]
Done(s) == [ok |-> TRUE, items |-> s]

Init == /\ queue = <<>>
        /\ call = [t \in Threads |-> Idle]
        /\ result = [t \in Threads |-> Refused]

Invoke(t) == /\ call[t] = Idle
             /\ \E c \in Calls : call' = [call EXCEPT ![t] = c]
             /\ result' = [result EXCEPT ![t] = Refused]
             /\ UNCHANGED queue

Front(k) == SubSeq(queue, 1, k)
Rest(k) == SubSeq(queue, k + 1, Len(queue))

\* t's pending call c answers r and leaves q in the queue.
Return(t, r, q) == /\ queue' = q
                   /\ result' = [result EXCEPT ![t] = r]
                   /\ call' = [call EXCEPT ![t] = Idle]

Take(t, c) ==
  \/ /\ c.op \in {"Push", "PushFront"}
     /\ Len(queue) + c.count > Cap
     /\ Return(t, Refused, queue)
  \/ /\ c.op = "Push" /\ Len(queue) + c.count <= Cap
     /\ Return(t, Done(<<>>), queue \o c.items)
  \/ /\ c.op = "PushFront" /\ Len(queue) + c.count <= Cap
     /\ Return(t, Done(<<>>), c.items \o queue)
  \/ /\ c.op \in {"Pop", "Peek"}
     /\ Len(queue) < c.count
     /\ Return(t, Refused, queue)
  \/ /\ c.op = "Pop" /\ Len(queue) >= c.count
     /\ Return(t, Done(Front(c.count)), Rest(c.count))
  \/ /\ c.op = "Peek" /\ Len(queue) >= c.count
     /\ Return(t, Done(Front(c.count)), queue)
  \/ /\ c.op = "Drop" /\ queue = <<>>
     /\ Return(t, Refused, queue)
  \/ /\ c.op = "Drop" /\ queue # <<>>
     /\ Return(t, Done(<<>>), IF c.count > Len(queue) THEN <<>> ELSE Rest(c.count))
  \/ /\ c.op = "Reset"
     /\ Return(t, Done(<<>>), <<>>)

Next == \E t \in Threads : Invoke(t) \/ (call[t] # Idle /\ Take(t, call[t]))

Spec == Init /\ [][Next]_<<queue, call, result>>
=============================================================================
