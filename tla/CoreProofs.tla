----------------------------- MODULE CoreProofs -----------------------------
(***************************************************************************)
(* Proofs about the parts every server process runs on: the coroutine      *)
(* scheduler (CoroutineScheduler), for any number of coroutines, workers   *)
(* and delivering threads, the frame of the application (IApp), for any    *)
(* number of signals, commands and edits, and the parser of its command    *)
(* line (CommandLineParser).                                               *)
(***************************************************************************)
EXTENDS CoroutineScheduler, IApp, CommandLineParser, FiniteSetTheorems, SequenceTheorems, TLAPS

-----------------------------------------------------------------------------
(* The coroutine scheduler.                                                 *)

\* What the threads that wake coroutines hold while they work.
HandInv == /\ \A r \in Resumers : rpc[r] # "idle" => rmsg[r] \in Tasks \X Requests
           /\ tpc # "idle" => expired # <<>>

TInv == TypeOK /\ HandInv

----------------------------------------------------------------------------
\* Every value is of its type when the scheduler starts.
LEMMA InitTypes == Init => TInv
<1> SUFFICES ASSUME Init PROVE TInv
  OBVIOUS
<1> USE SchedAssumption DEF Init
<1>1. 1 \in Requests BY DEF Requests
<1>2. outcome \in [Tasks -> [Requests -> Requests \cup {Pending, None}]]
  OBVIOUS
<1>3. task_queue \in Seq(Tasks) /\ expired \in Seq(Tasks)
  OBVIOUS
<1> QED BY <1>1, <1>2, <1>3 DEF TInv, TypeOK, HandInv

\* The queue with one more coroutine, or without its first.
LEMMA QueueTypes ==
  ASSUME NEW q \in Seq(Tasks)
  PROVE  /\ \A t \in Tasks : Append(q, t) \in Seq(Tasks)
         /\ q # <<>> => Head(q) \in Tasks /\ Tail(q) \in Seq(Tasks)
OBVIOUS

\* The coroutines the timeout thread collects are a sequence.
LEMMA CollectTypes == ASSUME TypeOK, TimeoutCollect PROVE expired' \in Seq(Tasks)
<1>1. Overdue \subseteq Tasks
  BY DEF TypeOK, Overdue
<1>2. Cardinality(Overdue) \in Nat
  BY <1>1, SchedAssumption, FS_Subset, FS_CardinalityType
<1>3. expired' \in [1 .. Cardinality(Overdue) -> Overdue]
  BY DEF TimeoutCollect
<1> QED BY <1>1, <1>2, <1>3

\* Each step of a worker outside a body, and of schedule, keeps the types.
LEMMA WorkerTypes ==
  ASSUME TInv, NEW w \in Workers, WorkerPop(w) \/ WorkerResume(w) \/ WorkerAfter(w)
  PROVE  TInv'
<1> USE SchedAssumption DEF TInv, HandInv
<1>1. CASE WorkerPop(w)
  <2>1. Head(task_queue) \in Tasks /\ Tail(task_queue) \in Seq(Tasks)
    BY <1>1, QueueTypes DEF WorkerPop, TypeOK
  <2>2. /\ task_queue' = Tail(task_queue)
        /\ \/ UNCHANGED <<wpc, wtask>>
           \/ WorkerAt(w, "popped", Head(task_queue))
        /\ UNCHANGED <<all_tasks, taskvars, bodyvars, replies, rpc, rmsg, timervars>>
    BY <1>1 DEF WorkerPop
  <2>3. /\ wpc' \in [Workers -> {"wait", "popped", "running", "ran"}]
        /\ wtask' \in [Workers -> Tasks \cup {None}]
        /\ \A v \in Workers : wpc'[v] = "wait" <=> wtask'[v] = None
    <3>1. CASE UNCHANGED <<wpc, wtask>>
      BY <3>1 DEF TypeOK
    <3>2. CASE WorkerAt(w, "popped", Head(task_queue))
      BY <2>1, <3>2 DEF WorkerAt, TypeOK
    <3> QED BY <2>2, <3>1, <3>2
  <2> QED BY <2>1, <2>2, <2>3 DEF TypeOK, taskvars, bodyvars, timervars
<1>2. CASE WorkerResume(w)
  <2>1. /\ wpc' \in [Workers -> {"wait", "popped", "running", "ran"}] /\ wtask' = wtask
        /\ \A v \in Workers : wpc'[v] = "wait" <=> wpc[v] = "wait"
    <3>1. wpc \in [Workers -> {"wait", "popped", "running", "ran"}] /\ wpc[w] = "popped"
      BY <1>2 DEF WorkerResume, TypeOK
    <3>2. wtask \in [Workers -> Tasks \cup {None}]
      BY DEF TypeOK
    <3>3. PICK l \in {"ran", "running"} : WorkerAt(w, l, wtask[w])
      BY <1>2 DEF WorkerResume
    <3>4. wpc' = [wpc EXCEPT ![w] = l] /\ wtask' = [wtask EXCEPT ![w] = wtask[w]]
      BY <3>3 DEF WorkerAt
    <3>5. wtask' = wtask
      BY <3>2, <3>4
    <3> QED BY <3>1, <3>4, <3>5
  <2>2. UNCHANGED <<task_queue, all_tasks, taskvars, bodyvars, replies, rpc, rmsg, timervars>>
    BY <1>2 DEF WorkerResume
  <2> QED BY <2>1, <2>2 DEF TypeOK, taskvars, bodyvars, timervars
<1>3. CASE WorkerAfter(w)
  <2>1. wtask[w] \in Tasks
    BY <1>3 DEF WorkerAfter, TypeOK
  <2>2. task_queue' \in Seq(Tasks)
    <3>1. task_queue' = task_queue \/ task_queue' = Append(task_queue, wtask[w])
      BY <1>3 DEF WorkerAfter, enqueue_ready
    <3>2. task_queue \in Seq(Tasks)
      BY DEF TypeOK
    <3>3. Append(task_queue, wtask[w]) \in Seq(Tasks)
      BY <2>1, <3>2, QueueTypes
    <3> QED BY <3>1, <3>2, <3>3
  <2> QED BY <1>3, <2>1, <2>2 DEF WorkerAfter, WorkerAt, TypeOK, taskvars, bodyvars, timervars
<1> QED BY <1>1, <1>2, <1>3

\* Each step of a body keeps them.
LEMMA BodyTypes ==
  ASSUME TInv, NEW w \in Workers, NEW t \in Tasks,
         Send(w, t) \/ SendFails(w, t) \/ Mark(w, t) \/ Arm(w, t) \/ Park(w, t)
           \/ YieldReturn(w, t)
  PROVE  TInv'
<1> USE SchedAssumption DEF TInv, HandInv
<1>1. CASE Send(w, t)
  <2>1. <<t, req[t]>> \in Tasks \X Requests
    BY DEF TypeOK
  <2> QED BY <1>1, <2>1 DEF Send, Body, TypeOK, taskvars, timervars
<1>2. CASE Mark(w, t)
  BY <1>2 DEF Mark, Body, TypeOK, timervars
<1>3. CASE Arm(w, t)
  BY <1>3 DEF Arm, Body, TypeOK, timervars
<1>4. CASE Park(w, t)
  BY <1>4 DEF Park, Body, WorkerAt, TypeOK, taskvars, timervars
<1>5. CASE SendFails(w, t) \/ YieldReturn(w, t)
  <2>0. PICK from \in {"start", "parked"}, res \in Requests \cup {None} : Return(w, t, from, res)
    BY <1>5 DEF SendFails, YieldReturn, TypeOK
  <2>1. PICK to \in (IF req[t] < MaxReq THEN {"start"} ELSE {"finished"})
                       \cup (IF res = None THEN {"finished"} ELSE {}) :
             /\ Body(w, t, from, to)
             /\ IF to = "finished" THEN WorkerAt(w, "ran", t) ELSE UNCHANGED <<wpc, wtask>>
             /\ req' = [req EXCEPT ![t] = IF to = "start" THEN @ + 1 ELSE @]
    BY <2>0 DEF Return
  <2>2. res \in Requests \cup {None}
    OBVIOUS
  <2>3. outcome' = [outcome EXCEPT ![t][req[t]] = res]
    BY <2>0 DEF Return
  <2>4. outcome' \in [Tasks -> [Requests -> Requests \cup {Pending, None}]]
    BY <2>2, <2>3 DEF TypeOK
  <2>5. req' \in [Tasks -> Requests]
    <3>1. to = "start" => req[t] + 1 \in Requests
      BY <2>1 DEF TypeOK, Requests
    <3> QED BY <2>1, <3>1 DEF TypeOK
  <2>6. to \in {"start", "finished"}
    BY <2>1
  <2>7. /\ at' \in [Tasks -> {"new", "start", "sent", "marked", "armed", "parked",
                             "finished"}]
        /\ wpc' \in [Workers -> {"wait", "popped", "running", "ran"}]
        /\ wtask' \in [Workers -> Tasks \cup {None}]
        /\ \A v \in Workers : wpc'[v] = "wait" <=> wtask'[v] = None
    BY <2>1, <2>6 DEF Body, WorkerAt, TypeOK
  <2>8. UNCHANGED <<task_queue, all_tasks, taskvars, replies, rpc, rmsg, timervars>>
    BY <2>0 DEF Return
  <2> QED BY <2>4, <2>5, <2>7, <2>8 DEF TypeOK, taskvars, timervars
<1> QED BY <1>1, <1>2, <1>3, <1>4, <1>5

\* Each step of a thread that wakes coroutines keeps them.
LEMMA WakeTypes ==
  ASSUME TInv,
         \/ \E r \in Resumers : ResumeClaim(r) \/ ResumeStore(r) \/ ResumeEnqueue(r)
         \/ Timeouts
  PROVE  TInv'
<1> USE SchedAssumption DEF TInv, HandInv
<1>1. ASSUME NEW r \in Resumers, ResumeClaim(r) PROVE TInv'
  <2>1. PICK m \in replies :
          /\ replies' = replies \ {m}
          /\ \/ /\ waiting' = [waiting EXCEPT ![m[1]] = FALSE]
                /\ ResumerAt(r, "claimed", m)
             \/ UNCHANGED <<waiting, rpc, rmsg>>
          /\ UNCHANGED <<task_queue, all_tasks, timeout_enabled, timed_out, resume_value,
                         due, bodyvars, wpc, wtask, timervars>>
    BY <1>1 DEF ResumeClaim
  <2>2. m \in Tasks \X Requests
    BY DEF TypeOK
  <2>3. /\ waiting' \in [Tasks -> BOOLEAN] /\ replies' \subseteq Tasks \X Requests
        /\ rpc' \in [Resumers -> {"idle", "claimed", "stored"}]
        /\ rmsg' \in [Resumers -> (Tasks \X Requests) \cup {None}]
        /\ \A s \in Resumers : rpc'[s] # "idle" => rmsg'[s] \in Tasks \X Requests
    <3>1. CASE ResumerAt(r, "claimed", m) /\ waiting' = [waiting EXCEPT ![m[1]] = FALSE]
      <4>1. waiting' \in [Tasks -> BOOLEAN]
        BY <2>2, <3>1 DEF TypeOK
      <4> QED BY <2>1, <2>2, <3>1, <4>1 DEF ResumerAt, TypeOK
    <3>2. CASE UNCHANGED <<waiting, rpc, rmsg>>
      BY <2>1, <3>2 DEF TypeOK
    <3> QED BY <2>1, <3>1, <3>2
  <2> QED BY <2>1, <2>3 DEF TypeOK, bodyvars, timervars
<1>2. ASSUME NEW r \in Resumers, ResumeStore(r) PROVE TInv'
  <2>1. rmsg[r] \in Tasks \X Requests /\ rmsg[r][2] \in Requests
    BY <1>2 DEF ResumeStore
  <2> QED BY <1>2, <2>1 DEF ResumeStore, ResumerAt, TypeOK, bodyvars, timervars
<1>3. ASSUME NEW r \in Resumers, ResumeEnqueue(r) PROVE TInv'
  <2>1. rmsg[r][1] \in Tasks
    BY <1>3 DEF ResumeEnqueue
  <2>2. task_queue' \in Seq(Tasks)
    BY <1>3, <2>1, QueueTypes DEF ResumeEnqueue, enqueue_ready, TypeOK
  <2> QED BY <1>3, <2>2 DEF ResumeEnqueue, ResumerAt, TypeOK, taskvars, bodyvars, timervars
<1>4. CASE TimeoutCollect
  <2>1. expired' \in Seq(Tasks)
    BY <1>4, CollectTypes
  <2> QED BY <1>4, <2>1 DEF TimeoutCollect, TypeOK, taskvars, bodyvars
<1>5. CASE TimeoutClaim
  <2>1. Head(expired) \in Tasks /\ Tail(expired) \in Seq(Tasks) /\ expired # <<>>
    BY <1>5, QueueTypes DEF TimeoutClaim, TypeOK
  <2>2. CASE waiting[Head(expired)]
    BY <1>5, <2>1, <2>2 DEF TimeoutClaim, TypeOK, bodyvars
  <2>3. CASE ~waiting[Head(expired)]
    BY <1>5, <2>1, <2>3 DEF TimeoutClaim, TypeOK, bodyvars
  <2> QED BY <2>2, <2>3
<1>6. CASE TimeoutStore
  <2>1. Head(expired) \in Tasks
    BY <1>6, QueueTypes DEF TimeoutStore, TypeOK
  <2> QED BY <1>6, <2>1 DEF TimeoutStore, TypeOK, bodyvars
<1>7. CASE TimeoutEnqueue
  <2>1. Head(expired) \in Tasks /\ Tail(expired) \in Seq(Tasks)
    BY <1>7, QueueTypes DEF TimeoutEnqueue, TypeOK
  <2>2. task_queue' \in Seq(Tasks)
    BY <1>7, <2>1, QueueTypes DEF TimeoutEnqueue, enqueue_ready, TypeOK
  <2> QED BY <1>7, <2>1, <2>2 DEF TimeoutEnqueue, TypeOK, taskvars, bodyvars
<1> QED BY <1>1, <1>2, <1>3, <1>4, <1>5, <1>6, <1>7 DEF Timeouts

\* Every step keeps the types.
LEMMA StepTypes == TInv /\ [Next]_vars => TInv'
<1> SUFFICES ASSUME TInv, [Next]_vars PROVE TInv'
  OBVIOUS
<1>1. ASSUME NEW t \in Tasks, schedule(t) PROVE TInv'
  <2>1. task_queue' \in Seq(Tasks)
    BY <1>1, QueueTypes DEF schedule, enqueue_ready, TInv, TypeOK
  <2> QED BY <1>1, <2>1 DEF schedule, TInv, TypeOK, HandInv, taskvars, timervars
<1>2. ASSUME NEW t \in Tasks, TimePasses(t) PROVE TInv'
  BY <1>2 DEF TimePasses, TInv, TypeOK, HandInv, bodyvars, timervars
<1>3. CASE UNCHANGED vars
  BY <1>3 DEF vars, TInv, TypeOK, HandInv, taskvars, bodyvars, timervars
<1> QED BY <1>1, <1>2, <1>3, WorkerTypes, BodyTypes, WakeTypes DEF Next, WorkerStep

\* The fields of every task, the queue and the threads' locals keep their types, for
\* any number of requests a handler makes.
THEOREM TypeCorrect == Spec => []TypeOK
<1>1. TInv => TypeOK BY DEF TInv
<1> QED BY InitTypes, StepTypes, <1>1, PTL DEF Spec

----------------------------------------------------------------------------
(* No coroutine is lost, as long as a handler makes one request: with more it  *)
(* is not so, because the end of resume() for the first request can switch off *)
(* the timeout of the second (CoroutineScheduler.cpp:140).                     *)

\* A thread has set waiting of t back and has not queued t yet.
Claimed(t) == \/ \E r \in Resumers : rpc[r] # "idle" /\ rmsg[r][1] = t
              \/ tpc # "idle" /\ Head(expired) = t

Held(t) == \E w \in Workers : wtask[w] = t
Early == {"new", "start", "sent"}

\* A coroutine waits once in its life, is claimed once after that, and parks with its
\* timeout on unless it has been claimed; between Request and the switch it is running.
LifeInv == \A t \in Tasks :
             /\ at[t] \in {"sent", "marked", "armed"} => Running(t)
             /\ at[t] \in Early => ~waiting[t]
             /\ at[t] \in Early \/ waiting[t] => ~Claimed(t)
             /\ at[t] \in {"armed", "parked"} /\ waiting[t] => timeout_enabled[t]

Kept(t) == \/ at[t] = "finished" \/ InQueue(t) \/ Held(t) \/ Claimed(t)
           \/ waiting[t] /\ timeout_enabled[t]
KeptInv == \A t \in all_tasks : Kept(t)

\* Steps of a worker outside a body keep LifeInv.
LEMMA WorkerLife ==
  ASSUME TInv, LifeInv, NEW w \in Workers, WorkerPop(w) \/ WorkerResume(w) \/ WorkerAfter(w)
  PROVE  LifeInv'
<1>1. /\ UNCHANGED <<at, waiting, timeout_enabled, rpc, rmsg, tpc, expired>>
      /\ wpc[w] # "running"
      /\ \A v \in Workers : v # w => wpc'[v] = wpc[v] /\ wtask'[v] = wtask[v]
  <2>1. CASE WorkerPop(w)
    <3>1. \A v \in Workers : v # w => wpc'[v] = wpc[v] /\ wtask'[v] = wtask[v]
      <4>1. UNCHANGED <<wpc, wtask>> \/ WorkerAt(w, "popped", Head(task_queue))
        BY <2>1 DEF WorkerPop
      <4> QED BY <4>1 DEF WorkerAt, TInv, TypeOK
    <3> QED BY <2>1, <3>1 DEF WorkerPop, taskvars, bodyvars, timervars
  <2>2. CASE WorkerResume(w)
    BY <2>2 DEF WorkerResume, WorkerAt, TInv, TypeOK, taskvars, bodyvars, timervars
  <2>3. CASE WorkerAfter(w)
    BY <2>3 DEF WorkerAfter, WorkerAt, TInv, TypeOK, taskvars, bodyvars, timervars
  <2> QED BY <2>1, <2>2, <2>3
<1>2. \A t \in Tasks : Running(t) => Running(t)'
  BY <1>1 DEF Running
<1>3. \A t \in Tasks : Claimed(t)' = Claimed(t)
  BY <1>1 DEF Claimed
<1> QED BY <1>1, <1>2, <1>3 DEF LifeInv

\* Steps of a body keep it.
LEMMA BodyLife ==
  ASSUME MaxReq = 1, TInv, LifeInv, NEW w \in Workers, NEW t \in Tasks,
         Send(w, t) \/ SendFails(w, t) \/ Mark(w, t) \/ Arm(w, t) \/ Park(w, t)
           \/ YieldReturn(w, t)
  PROVE  LifeInv'
<1> USE DEF TInv
<1>1. /\ wpc[w] = "running" /\ wtask[w] = t
      /\ UNCHANGED <<rpc, rmsg, tpc, expired>>
      /\ \A u \in Tasks : u # t => at'[u] = at[u] /\ waiting'[u] = waiting[u]
                                     /\ timeout_enabled'[u] = timeout_enabled[u]
      /\ \A v \in Workers : v # w => wpc'[v] = wpc[v] /\ wtask'[v] = wtask[v]
  <2>1. CASE Send(w, t) \/ Mark(w, t) \/ Arm(w, t)
    BY <2>1 DEF Send, Mark, Arm, Body, TypeOK, taskvars, timervars
  <2>2. CASE Park(w, t)
    BY <2>2 DEF Park, Body, WorkerAt, TypeOK, taskvars, timervars
  <2>3. CASE SendFails(w, t) \/ YieldReturn(w, t)
    <3>1. PICK from, got : Return(w, t, from, got)
      BY <2>3 DEF SendFails, YieldReturn
    <3> QED BY <3>1 DEF Return, Body, WorkerAt, TypeOK, taskvars, timervars
  <2> QED BY <2>1, <2>2, <2>3
<1>2. \A u \in Tasks : u # t /\ Running(u) => Running(u)'
  BY <1>1 DEF Running
<1>3. \A u \in Tasks : Claimed(u)' = Claimed(u)
  BY <1>1 DEF Claimed
<1>4. /\ at'[t] \in {"sent", "marked", "armed"} => Running(t)'
      /\ at'[t] \in Early => ~waiting'[t]
      /\ at'[t] \in Early \/ waiting'[t] => ~Claimed(t)
      /\ at'[t] \in {"armed", "parked"} /\ waiting'[t] => timeout_enabled'[t]
  <2>1. CASE Send(w, t)
    BY <1>1, <2>1 DEF Send, Body, TypeOK, LifeInv, Early, Running, taskvars
  <2>2. CASE Mark(w, t)
    BY <1>1, <2>2 DEF Mark, Body, TypeOK, LifeInv, Early, Running
  <2>3. CASE Arm(w, t)
    BY <1>1, <2>3 DEF Arm, Body, TypeOK, LifeInv, Early, Running
  <2>4. CASE Park(w, t)
    BY <2>4 DEF Park, Body, TypeOK, LifeInv, Early, taskvars
  <2>5. CASE SendFails(w, t) \/ YieldReturn(w, t)
    <3>1. PICK from \in {"start", "parked"} : \E got : Return(w, t, from, got)
      BY <2>5 DEF SendFails, YieldReturn
    <3>2. ~(req[t] < MaxReq)
      BY DEF TypeOK, Requests
    <3>3. at'[t] = "finished" /\ at[t] \in {"start", "parked"}
      BY <3>1, <3>2 DEF Return, Body, TypeOK
    <3> QED BY <3>1, <3>3 DEF Return, TypeOK, LifeInv, Early, taskvars
  <2> QED BY <2>1, <2>2, <2>3, <2>4, <2>5
<1>5. ASSUME NEW u \in Tasks, u # t
      PROVE  /\ at'[u] \in {"sent", "marked", "armed"} => Running(u)'
             /\ at'[u] \in Early => ~waiting'[u]
             /\ at'[u] \in Early \/ waiting'[u] => ~Claimed(u)
             /\ at'[u] \in {"armed", "parked"} /\ waiting'[u] => timeout_enabled'[u]
  BY <1>1, <1>2, <1>5 DEF LifeInv
<1> QED BY <1>3, <1>4, <1>5 DEF LifeInv

\* Steps of the threads that wake coroutines keep it.
LEMMA WakeLife ==
  ASSUME TInv, LifeInv,
         \/ \E r \in Resumers : ResumeClaim(r) \/ ResumeStore(r) \/ ResumeEnqueue(r)
         \/ Timeouts
  PROVE  LifeInv'
<1> USE DEF TInv, HandInv
<1>1. ASSUME UNCHANGED <<at, wpc, wtask>>, NEW t \in Tasks, waiting[t],
             ~waiting'[t],
             \A u \in Tasks : /\ u # t => waiting'[u] = waiting[u]
                              /\ Claimed(u)' => Claimed(u) \/ u = t
                              /\ timeout_enabled'[u] = timeout_enabled[u]
      PROVE  LifeInv'
  <2>1. \A u \in Tasks : Running(u) => Running(u)'
    BY <1>1 DEF Running
  <2> QED BY <1>1, <2>1 DEF LifeInv
<1>2. ASSUME UNCHANGED <<at, wpc, wtask, waiting>>,
             \A u \in Tasks : /\ Claimed(u)' => Claimed(u)
                              /\ timeout_enabled'[u] # timeout_enabled[u] => Claimed(u)
      PROVE  LifeInv'
  <2>1. \A u \in Tasks : Running(u) => Running(u)'
    BY <1>2 DEF Running
  <2> QED BY <1>2, <2>1 DEF LifeInv, TypeOK
<1>3. ASSUME NEW r \in Resumers, ResumeClaim(r) PROVE LifeInv'
  <2>1. PICK m \in replies :
          /\ rpc[r] = "idle"
          /\ \/ /\ waiting[m[1]]
                /\ waiting' = [waiting EXCEPT ![m[1]] = FALSE]
                /\ ResumerAt(r, "claimed", m)
             \/ UNCHANGED <<waiting, rpc, rmsg>>
          /\ UNCHANGED <<timeout_enabled, bodyvars, wpc, wtask, timervars>>
    BY <1>3 DEF ResumeClaim
  <2>2. m[1] \in Tasks
    BY DEF TypeOK
  <2>3. CASE UNCHANGED <<waiting, rpc, rmsg>>
    <3>1. \A u \in Tasks : Claimed(u)' = Claimed(u)
      BY <2>1, <2>3 DEF Claimed, timervars
    <3> QED BY <1>2, <2>1, <2>3, <3>1 DEF bodyvars
  <2>4. CASE waiting[m[1]] /\ waiting' = [waiting EXCEPT ![m[1]] = FALSE]
             /\ ResumerAt(r, "claimed", m)
    <3>1. \A u \in Tasks : Claimed(u)' => Claimed(u) \/ u = m[1]
      BY <2>1, <2>4 DEF Claimed, ResumerAt, TypeOK, timervars
    <3>2. ~waiting'[m[1]] /\ \A u \in Tasks : u # m[1] => waiting'[u] = waiting[u]
      BY <2>2, <2>4 DEF TypeOK
    <3> QED BY <1>1, <2>1, <2>2, <2>4, <3>1, <3>2 DEF bodyvars
  <2> QED BY <2>1, <2>3, <2>4
<1>4. ASSUME NEW r \in Resumers, ResumeStore(r) PROVE LifeInv'
  <2>1. \A u \in Tasks : Claimed(u)' => Claimed(u)
    BY <1>4 DEF ResumeStore, ResumerAt, Claimed, TypeOK, timervars
  <2>2. Claimed(rmsg[r][1]) /\ rmsg[r][1] \in Tasks
    BY <1>4 DEF ResumeStore, Claimed
  <2>3. \A u \in Tasks : u # rmsg[r][1] => timeout_enabled'[u] = timeout_enabled[u]
    BY <1>4, <2>2 DEF ResumeStore, TypeOK
  <2> QED BY <1>2, <1>4, <2>1, <2>2, <2>3 DEF ResumeStore, bodyvars
<1>5. ASSUME NEW r \in Resumers, ResumeEnqueue(r) PROVE LifeInv'
  <2>1. \A u \in Tasks : Claimed(u)' => Claimed(u)
    BY <1>5 DEF ResumeEnqueue, ResumerAt, Claimed, TypeOK, timervars
  <2> QED BY <1>2, <1>5, <2>1 DEF ResumeEnqueue, taskvars, bodyvars
<1>6. CASE TimeoutCollect
  <2>1. \A u \in Tasks : Claimed(u)' => Claimed(u)
    BY <1>6 DEF TimeoutCollect, Claimed
  <2> QED BY <1>2, <1>6, <2>1 DEF TimeoutCollect, taskvars, bodyvars
<1>7. CASE TimeoutClaim
  <2>0. Head(expired) \in Tasks
    BY <1>7, QueueTypes DEF TimeoutClaim, TypeOK
  <2>1. CASE waiting[Head(expired)]
    <3>1. \A u \in Tasks : Claimed(u)' => Claimed(u) \/ u = Head(expired)
      BY <1>7, <2>1 DEF TimeoutClaim, Claimed
    <3>2. /\ ~waiting'[Head(expired)]
          /\ \A u \in Tasks : u # Head(expired) => waiting'[u] = waiting[u]
      BY <1>7, <2>0, <2>1 DEF TimeoutClaim, TypeOK
    <3> QED BY <1>1, <1>7, <2>0, <2>1, <3>1, <3>2 DEF TimeoutClaim, bodyvars
  <2>2. CASE ~waiting[Head(expired)]
    <3>1. \A u \in Tasks : Claimed(u)' => Claimed(u)
      BY <1>7, <2>2 DEF TimeoutClaim, Claimed
    <3> QED BY <1>2, <1>7, <2>2, <3>1 DEF TimeoutClaim, bodyvars
  <2> QED BY <2>1, <2>2
<1>8. CASE TimeoutStore
  <2>0. Head(expired) \in Tasks
    BY <1>8, QueueTypes DEF TimeoutStore, TypeOK
  <2>1. \A u \in Tasks : Claimed(u)' => Claimed(u)
    BY <1>8 DEF TimeoutStore, Claimed
  <2>2. Claimed(Head(expired))
    BY <1>8 DEF TimeoutStore, Claimed
  <2>3. \A u \in Tasks : u # Head(expired) => timeout_enabled'[u] = timeout_enabled[u]
    BY <1>8, <2>0 DEF TimeoutStore, TypeOK
  <2> QED BY <1>2, <1>8, <2>1, <2>2, <2>3 DEF TimeoutStore, bodyvars
<1>9. CASE TimeoutEnqueue
  <2>1. \A u \in Tasks : Claimed(u)' => Claimed(u)
    BY <1>9 DEF TimeoutEnqueue, Claimed
  <2> QED BY <1>2, <1>9, <2>1 DEF TimeoutEnqueue, taskvars, bodyvars
<1> QED BY <1>3, <1>4, <1>5, <1>6, <1>7, <1>8, <1>9 DEF Timeouts

\* Every step keeps it.
LEMMA StepLife == ASSUME MaxReq = 1 PROVE TInv /\ LifeInv /\ [Next]_vars => LifeInv'
<1> SUFFICES ASSUME TInv, LifeInv, [Next]_vars PROVE LifeInv'
  OBVIOUS
<1>1. ASSUME NEW t \in Tasks, schedule(t) PROVE LifeInv'
  <2>1. /\ UNCHANGED <<waiting, timeout_enabled, wpc, wtask, rpc, rmsg, tpc, expired>>
        /\ \A u \in Tasks : at'[u] = at[u] \/ (at[u] = "new" /\ at'[u] = "start")
    BY <1>1 DEF schedule, TInv, TypeOK, taskvars, timervars
  <2> QED BY <2>1 DEF LifeInv, Running, Claimed, Early
<1>2. ASSUME NEW t \in Tasks, TimePasses(t) PROVE LifeInv'
  BY <1>2 DEF TimePasses, LifeInv, Running, Claimed, bodyvars, timervars
<1>3. CASE UNCHANGED vars
  BY <1>3 DEF vars, LifeInv, Running, Claimed, taskvars, bodyvars, timervars
<1> QED BY <1>1, <1>2, <1>3, WorkerLife, BodyLife, WakeLife DEF Next, WorkerStep

\* A coroutine stays in a queue that grows, and in one that loses another at its front.
LEMMA QueueKeeps ==
  ASSUME NEW q \in Seq(Tasks), NEW t \in Tasks
  PROVE  /\ \A u \in Tasks : /\ \E i \in DOMAIN Append(q, u) : Append(q, u)[i] = u
                             /\ (\E i \in DOMAIN q : q[i] = t) =>
                                  \E i \in DOMAIN Append(q, u) : Append(q, u)[i] = t
         /\ q # <<>> /\ t # Head(q) /\ (\E i \in DOMAIN q : q[i] = t) =>
              \E i \in DOMAIN Tail(q) : Tail(q)[i] = t
<1>1. ASSUME NEW u \in Tasks
      PROVE  /\ \E i \in DOMAIN Append(q, u) : Append(q, u)[i] = u
             /\ (\E i \in DOMAIN q : q[i] = t) =>
                  \E i \in DOMAIN Append(q, u) : Append(q, u)[i] = t
  <2>1. /\ DOMAIN Append(q, u) = 1 .. Len(q) + 1 /\ Len(q) \in Nat
        /\ Append(q, u)[Len(q) + 1] = u
        /\ DOMAIN q = 1 .. Len(q)
        /\ \A i \in 1 .. Len(q) : Append(q, u)[i] = q[i]
    OBVIOUS
  <2>2. Len(q) + 1 \in DOMAIN Append(q, u) /\ \A i \in DOMAIN q : i \in DOMAIN Append(q, u)
    BY <2>1
  <2> QED BY <2>1, <2>2
<1>2. ASSUME q # <<>>, t # Head(q), NEW i \in DOMAIN q, q[i] = t
      PROVE  \E j \in DOMAIN Tail(q) : Tail(q)[j] = t
  <2>1. /\ Len(Tail(q)) = Len(q) - 1 /\ Tail(q) \in Seq(Tasks)
        /\ \A j \in 1 .. Len(Tail(q)) : Tail(q)[j] = q[j + 1]
    BY <1>2, HeadTailProperties
  <2>2. i \in 1 .. Len(q) /\ i # 1 /\ Len(q) \in Nat /\ DOMAIN Tail(q) = 1 .. Len(Tail(q))
    BY <1>2, <2>1
  <2>3. i - 1 \in 1 .. Len(Tail(q)) /\ (i - 1) + 1 = i
    BY <2>1, <2>2
  <2>4. Tail(q)[i - 1] = t
    BY <1>2, <2>1, <2>3
  <2> QED BY <2>2, <2>3, <2>4
<1> QED BY <1>1, <1>2

\* The same for the state's queue.
LEMMA Enqueued ==
  ASSUME TypeOK, NEW u \in Tasks, enqueue_ready(u)
  PROVE  InQueue(u)' /\ \A t \in Tasks : InQueue(t) => InQueue(t)'
<1>1. task_queue \in Seq(Tasks) /\ task_queue' = Append(task_queue, u)
  BY DEF TypeOK, enqueue_ready
<1>2. InQueue(u)'
  <2>1. \E i \in DOMAIN Append(task_queue, u) : Append(task_queue, u)[i] = u
    BY <1>1, QueueKeeps
  <2> QED BY <1>1, <2>1 DEF InQueue
<1>3. ASSUME NEW t \in Tasks, InQueue(t) PROVE InQueue(t)'
  <2>1. \E i \in DOMAIN task_queue : task_queue[i] = t
    BY <1>3 DEF InQueue
  <2>2. \E i \in DOMAIN Append(task_queue, u) : Append(task_queue, u)[i] = t
    BY <1>1, <2>1, QueueKeeps
  <2> QED BY <1>1, <2>2 DEF InQueue
<1> QED BY <1>2, <1>3

\* A step that changes one coroutine, and leaves that one in a place, leaves all in one.
LEMMA OneMoves ==
  ASSUME TypeOK, KeptInv, NEW t \in Tasks, all_tasks' \subseteq all_tasks \cup {t}, Kept(t)',
         \A u \in Tasks : u # t =>
            /\ UNCHANGED <<at[u], waiting[u], timeout_enabled[u]>>
            /\ InQueue(u) => InQueue(u)'
            /\ Held(u) => Held(u)'
            /\ Claimed(u) => Claimed(u)'
  PROVE  KeptInv'
<1> SUFFICES ASSUME NEW u \in all_tasks' PROVE Kept(u)'
  BY DEF KeptInv
<1>1. CASE u = t
  BY <1>1
<1>2. CASE u # t
  <2>1. u \in Tasks /\ Kept(u)
    BY <1>2 DEF TypeOK, KeptInv
  <2> QED BY <1>2, <2>1 DEF Kept
<1> QED BY <1>1, <1>2

\* Steps of a worker keep every coroutine somewhere.
LEMMA WorkerKeeps ==
  ASSUME TInv, LifeInv, KeptInv, NEW w \in Workers,
         WorkerPop(w) \/ WorkerResume(w) \/ WorkerAfter(w)
  PROVE  KeptInv'
<1> USE DEF TInv
<1>1. /\ UNCHANGED <<at, waiting, timeout_enabled>>
      /\ \A t \in Tasks : Claimed(t)' = Claimed(t)
  BY DEF WorkerPop, WorkerResume, WorkerAfter, taskvars, bodyvars, timervars, Claimed
<1>2. all_tasks \subseteq Tasks /\ task_queue \in Seq(Tasks)
  BY DEF TypeOK
<1>3. CASE WorkerPop(w)
  <2>1. /\ task_queue # <<>> /\ task_queue' = Tail(task_queue) /\ all_tasks' = all_tasks
        /\ wpc[w] = "wait" /\ wtask[w] = None
    BY <1>3 DEF WorkerPop, TypeOK
  <2>2. PICK h \in Tasks : h = Head(task_queue)
    BY <1>2, <2>1, QueueTypes
  <2>3. \A t \in Tasks : t # h /\ InQueue(t) => InQueue(t)'
    BY <1>2, <2>1, <2>2, QueueKeeps DEF InQueue
  <2>4. \/ at[h] = "finished" /\ wtask' = wtask
        \/ wtask' = [wtask EXCEPT ![w] = h]
    BY <1>3, <2>2 DEF WorkerPop, WorkerAt
  <2>5. \A t \in Tasks : Held(t) => Held(t)'
    <3>1. \A v \in Workers : wtask[v] \in Tasks => wtask'[v] = wtask[v]
      BY <2>1, <2>4, SchedAssumption DEF TypeOK
    <3> QED BY <3>1 DEF Held
  <2>6. Kept(h)'
    <3>1. CASE at[h] = "finished"
      BY <1>1, <3>1 DEF Kept
    <3>2. CASE wtask' = [wtask EXCEPT ![w] = h]
      <4>1. wtask'[w] = h
        BY <3>2 DEF TypeOK
      <4>2. Held(h)'
        BY <4>1 DEF Held
      <4> QED BY <4>2 DEF Kept
    <3> QED BY <2>4, <3>1, <3>2
  <2> QED BY <1>1, <2>1, <2>3, <2>5, <2>6, OneMoves
<1>4. CASE WorkerResume(w)
  <2>1. UNCHANGED <<task_queue, all_tasks, wtask>>
    BY <1>4 DEF WorkerResume, WorkerAt, TypeOK
  <2> QED BY <1>1, <1>2, <2>1 DEF KeptInv, Kept, InQueue, Held
<1>5. CASE WorkerAfter(w)
  <2>0. PICK t \in Tasks : t = wtask[w]
    BY <1>5 DEF WorkerAfter, TypeOK
  <2>1. /\ wpc[w] = "ran" /\ wtask[w] = t /\ all_tasks' \subseteq all_tasks
        /\ wtask' = [wtask EXCEPT ![w] = None]
        /\ enqueue_ready(t) \/ task_queue' = task_queue
    BY <1>5, <2>0 DEF WorkerAfter, WorkerAt, TypeOK
  <2>2. \A u \in Tasks : InQueue(u) => InQueue(u)'
    BY <2>1, Enqueued DEF InQueue
  <2>3. \A u \in Tasks : u # t /\ Held(u) => Held(u)'
    BY <2>1 DEF Held, TypeOK
  <2>4. Kept(t)'
    <3>1. CASE at[t] = "finished"
      BY <1>1, <3>1 DEF Kept
    <3>2. CASE at[t] # "finished" /\ ~waiting[t]
      <4>1. enqueue_ready(t)
        BY <1>5, <2>0, <3>2 DEF WorkerAfter
      <4>2. InQueue(t)'
        BY <2>1, <4>1, Enqueued
      <4> QED BY <4>2 DEF Kept
    <3>3. CASE at[t] # "finished" /\ waiting[t]
      <4>1. at[t] \in {"marked", "armed", "parked"}
        BY <2>1, <3>3 DEF LifeInv, Early, TypeOK
      <4>2. CASE at[t] \in {"marked", "armed"}
        <5>1. PICK v \in Workers : v # w /\ wtask[v] = t
          BY <2>1, <4>2 DEF LifeInv, Running
        <5>2. wtask'[v] = t
          BY <2>1, <5>1 DEF TypeOK
        <5>3. Held(t)'
          BY <1>1, <5>2 DEF Held
        <5> QED BY <5>3 DEF Kept
      <4>3. CASE at[t] = "parked"
        <5>1. waiting[t] /\ timeout_enabled[t]
          BY <2>1, <3>3, <4>3 DEF LifeInv
        <5> QED BY <1>1, <5>1 DEF Kept
      <4> QED BY <4>1, <4>2, <4>3
    <3> QED BY <3>1, <3>2, <3>3
  <2> QED BY <1>1, <2>1, <2>2, <2>3, <2>4, OneMoves
<1> QED BY <1>3, <1>4, <1>5

\* Steps of a body keep every coroutine somewhere: the worker has it.
LEMMA BodyKeeps ==
  ASSUME TInv, KeptInv, NEW w \in Workers, NEW t \in Tasks,
         Send(w, t) \/ SendFails(w, t) \/ Mark(w, t) \/ Arm(w, t) \/ Park(w, t)
           \/ YieldReturn(w, t)
  PROVE  KeptInv'
<1> USE DEF TInv
<1>1. /\ wtask[w] = t /\ UNCHANGED <<task_queue, all_tasks, rpc, rmsg, tpc, expired>>
      /\ \A u \in Tasks : u # t => at'[u] = at[u] /\ waiting'[u] = waiting[u]
                                     /\ timeout_enabled'[u] = timeout_enabled[u]
      /\ wtask' = wtask
  <2>1. CASE Send(w, t) \/ Mark(w, t) \/ Arm(w, t)
    BY <2>1 DEF Send, Mark, Arm, Body, TypeOK, taskvars, timervars
  <2>2. CASE Park(w, t)
    BY <2>2 DEF Park, Body, WorkerAt, TypeOK, taskvars, timervars
  <2>3. CASE SendFails(w, t) \/ YieldReturn(w, t)
    <3>1. PICK from, got : Return(w, t, from, got)
      BY <2>3 DEF SendFails, YieldReturn
    <3> QED BY <3>1 DEF Return, Body, WorkerAt, TypeOK, taskvars, timervars
  <2> QED BY <2>1, <2>2, <2>3
<1>2. Held(t)' /\ \A u \in Tasks : (InQueue(u) => InQueue(u)') /\ (Held(u) => Held(u)')
                                    /\ (Claimed(u) => Claimed(u)')
  BY <1>1 DEF Held, InQueue, Claimed
<1>3. Kept(t)'
  BY <1>2 DEF Kept
<1> QED BY <1>1, <1>2, <1>3, OneMoves

\* Steps of the threads that wake coroutines keep every coroutine somewhere.
LEMMA WakeKeeps ==
  ASSUME TInv, KeptInv,
         \/ \E r \in Resumers : ResumeClaim(r) \/ ResumeStore(r) \/ ResumeEnqueue(r)
         \/ Timeouts
  PROVE  KeptInv'
<1> USE DEF TInv, HandInv
<1>1. ASSUME UNCHANGED <<at, wtask, all_tasks>>, NEW t \in Tasks,
             Claimed(t)' \/ InQueue(t)',
             \A u \in Tasks : u # t => UNCHANGED <<waiting[u], timeout_enabled[u]>>,
             \A u \in Tasks : /\ InQueue(u) => InQueue(u)'
                              /\ u # t /\ Claimed(u) => Claimed(u)'
      PROVE  KeptInv'
  <2>1. \A u \in Tasks : Held(u) => Held(u)'
    BY <1>1 DEF Held
  <2>2. Kept(t)'
    BY <1>1 DEF Kept
  <2> QED BY <1>1, <2>1, <2>2, OneMoves
<1>2. ASSUME UNCHANGED <<at, wtask, all_tasks, waiting, timeout_enabled>>,
             \A u \in Tasks : (InQueue(u) => InQueue(u)') /\ (Claimed(u) => Claimed(u)')
      PROVE  KeptInv'
  BY <1>2 DEF KeptInv, Kept, Held, TypeOK
<1>3. ASSUME NEW r \in Resumers, ResumeClaim(r) PROVE KeptInv'
  <2>1. PICK m \in replies :
          /\ rpc[r] = "idle"
          /\ \/ /\ waiting' = [waiting EXCEPT ![m[1]] = FALSE]
                /\ ResumerAt(r, "claimed", m)
             \/ UNCHANGED <<waiting, rpc, rmsg>>
          /\ UNCHANGED <<task_queue, all_tasks, timeout_enabled, bodyvars, wpc, wtask,
                         timervars>>
    BY <1>3 DEF ResumeClaim
  <2>0. PICK t \in Tasks : t = m[1]
    BY DEF TypeOK
  <2>2. \A u \in Tasks : InQueue(u) => InQueue(u)'
    BY <2>1 DEF InQueue
  <2>3. CASE UNCHANGED <<waiting, rpc, rmsg>>
    <3>1. \A u \in Tasks : Claimed(u) => Claimed(u)'
      BY <2>1, <2>3 DEF Claimed, timervars
    <3> QED BY <1>2, <2>1, <2>2, <2>3, <3>1 DEF bodyvars
  <2>4. CASE waiting' = [waiting EXCEPT ![t] = FALSE] /\ ResumerAt(r, "claimed", m)
    <3>1. \A u \in Tasks : Claimed(u) => Claimed(u)'
      BY <2>1, <2>4 DEF Claimed, ResumerAt, TypeOK, timervars
    <3>2. Claimed(t)'
      BY <2>0, <2>4 DEF Claimed, ResumerAt, TypeOK
    <3>3. \A u \in Tasks : u # t => waiting'[u] = waiting[u]
      BY <2>4 DEF TypeOK
    <3> QED BY <1>1, <2>1, <2>2, <3>1, <3>2, <3>3 DEF bodyvars
  <2> QED BY <2>0, <2>1, <2>3, <2>4
<1>4. ASSUME NEW r \in Resumers, ResumeStore(r) PROVE KeptInv'
  <2>1. \A u \in Tasks : Claimed(u) => Claimed(u)'
    BY <1>4 DEF ResumeStore, ResumerAt, Claimed, TypeOK, timervars
  <2>0. PICK t \in Tasks : t = rmsg[r][1]
    BY <1>4 DEF ResumeStore
  <2>2. Claimed(t)'
    BY <1>4, <2>0 DEF ResumeStore, ResumerAt, Claimed, TypeOK
  <2>3. \A u \in Tasks : u # t => timeout_enabled'[u] = timeout_enabled[u]
    BY <1>4, <2>0 DEF ResumeStore, TypeOK
  <2>4. \A u \in Tasks : InQueue(u) => InQueue(u)'
    BY <1>4 DEF ResumeStore, InQueue
  <2>5. UNCHANGED <<at, wtask, all_tasks, waiting>>
    BY <1>4 DEF ResumeStore, bodyvars
  <2> QED BY <1>1, <2>1, <2>2, <2>3, <2>4, <2>5
<1>5. ASSUME NEW r \in Resumers, ResumeEnqueue(r) PROVE KeptInv'
  <2>1. PICK t \in Tasks : t = rmsg[r][1]
    BY <1>5 DEF ResumeEnqueue
  <2>2. InQueue(t)' /\ \A u \in Tasks : InQueue(u) => InQueue(u)'
    BY <1>5, <2>1, Enqueued DEF ResumeEnqueue
  <2>3. \A u \in Tasks : u # t /\ Claimed(u) => Claimed(u)'
    BY <1>5, <2>1 DEF ResumeEnqueue, ResumerAt, Claimed, TypeOK, timervars
  <2>4. UNCHANGED <<at, wtask, all_tasks, waiting, timeout_enabled>>
    BY <1>5 DEF ResumeEnqueue, taskvars, bodyvars
  <2> QED BY <1>1, <2>1, <2>2, <2>3, <2>4
<1>6. CASE TimeoutCollect
  <2>1. \A u \in Tasks : (Claimed(u) => Claimed(u)') /\ (InQueue(u) => InQueue(u)')
    BY <1>6 DEF TimeoutCollect, Claimed, InQueue
  <2> QED BY <1>2, <1>6, <2>1 DEF TimeoutCollect, taskvars, bodyvars
<1>7. CASE TimeoutClaim
  <2>0. PICK t \in Tasks : t = Head(expired)
    BY <1>7, QueueTypes DEF TimeoutClaim, TypeOK
  <2>1. \A u \in Tasks : (Claimed(u) => Claimed(u)') /\ (InQueue(u) => InQueue(u)')
    BY <1>7 DEF TimeoutClaim, Claimed, InQueue
  <2>2. UNCHANGED <<at, wtask, all_tasks, timeout_enabled>>
    BY <1>7 DEF TimeoutClaim, bodyvars
  <2>3. CASE waiting[t]
    <3>1. Claimed(t)'
      BY <1>7, <2>0, <2>3 DEF TimeoutClaim, Claimed
    <3>2. \A u \in Tasks : u # t => waiting'[u] = waiting[u]
      BY <1>7, <2>0, <2>3 DEF TimeoutClaim, TypeOK
    <3> QED BY <1>1, <2>0, <2>1, <2>2, <3>1, <3>2
  <2>4. CASE ~waiting[t]
    <3>1. waiting' = waiting
      BY <1>7, <2>0, <2>4 DEF TimeoutClaim
    <3> QED BY <1>2, <2>1, <2>2, <3>1
  <2> QED BY <2>3, <2>4
<1>8. CASE TimeoutStore
  <2>0. PICK t \in Tasks : t = Head(expired)
    BY <1>8, QueueTypes DEF TimeoutStore, TypeOK
  <2>4. Claimed(t)'
    BY <1>8, <2>0 DEF TimeoutStore, Claimed
  <2>1. \A u \in Tasks : (Claimed(u) => Claimed(u)') /\ (InQueue(u) => InQueue(u)')
    BY <1>8 DEF TimeoutStore, Claimed, InQueue
  <2>2. \A u \in Tasks : u # t => timeout_enabled'[u] = timeout_enabled[u]
    BY <1>8, <2>0 DEF TimeoutStore, TypeOK
  <2>3. UNCHANGED <<at, wtask, all_tasks, waiting>>
    BY <1>8 DEF TimeoutStore, bodyvars
  <2> QED BY <1>1, <2>0, <2>1, <2>2, <2>3, <2>4
<1>9. CASE TimeoutEnqueue
  <2>0. PICK t \in Tasks : t = Head(expired)
    BY <1>9, QueueTypes DEF TimeoutEnqueue, TypeOK
  <2>1. InQueue(t)' /\ \A u \in Tasks : InQueue(u) => InQueue(u)'
    BY <1>9, <2>0, Enqueued DEF TimeoutEnqueue
  <2>2. \A u \in Tasks : u # t /\ Claimed(u) => Claimed(u)'
    BY <1>9, <2>0 DEF TimeoutEnqueue, Claimed
  <2>3. UNCHANGED <<at, wtask, all_tasks, waiting, timeout_enabled>>
    BY <1>9 DEF TimeoutEnqueue, taskvars, bodyvars
  <2> QED BY <1>1, <2>0, <2>1, <2>2, <2>3
<1> QED BY <1>3, <1>4, <1>5, <1>6, <1>7, <1>8, <1>9 DEF Timeouts

\* Every step keeps every coroutine somewhere.
LEMMA StepKept == TInv /\ LifeInv /\ KeptInv /\ [Next]_vars => KeptInv'
<1> SUFFICES ASSUME TInv, LifeInv, KeptInv, [Next]_vars PROVE KeptInv'
  OBVIOUS
<1>0. all_tasks \subseteq Tasks
  BY DEF TInv, TypeOK
<1>1. ASSUME NEW t \in Tasks, schedule(t) PROVE KeptInv'
  <2>1. InQueue(t)' /\ \A u \in Tasks : InQueue(u) => InQueue(u)'
    BY <1>1, Enqueued DEF schedule, TInv
  <2>2. /\ UNCHANGED <<waiting, timeout_enabled, wtask, rpc, rmsg, tpc, expired>>
        /\ all_tasks' = all_tasks \cup {t}
        /\ \A u \in Tasks : u # t => at'[u] = at[u]
    BY <1>1 DEF schedule, TInv, TypeOK, taskvars, timervars
  <2>3. Kept(t)' /\ \A u \in Tasks : (Held(u) => Held(u)') /\ (Claimed(u) => Claimed(u)')
    BY <2>1, <2>2 DEF Kept, Held, Claimed
  <2> QED BY <2>1, <2>2, <2>3, OneMoves DEF TInv
<1>2. ASSUME NEW t \in Tasks, TimePasses(t) PROVE KeptInv'
  BY <1>2 DEF TimePasses, KeptInv, Kept, InQueue, Held, Claimed, bodyvars, timervars
<1>3. CASE UNCHANGED vars
  BY <1>3 DEF vars, KeptInv, Kept, InQueue, Held, Claimed, taskvars, bodyvars, timervars
<1> QED BY <1>1, <1>2, <1>3, WorkerKeeps, BodyKeeps, WakeKeeps DEF Next, WorkerStep

\* Nobody has been scheduled, marked or claimed yet.
LEMMA InitKept == Init => LifeInv /\ KeptInv
BY DEF Init, LifeInv, KeptInv, Kept, Claimed, Early

\* A handler that makes one request is never lost, however many there are and however the
\* reply, the deadline and the worker that ran it overlap: until it has completed it is
\* queued, in a thread's hands, or waiting with its timeout on
\* (CoroutineScheduler.cpp:127-147, 159-205, 214-249).
THEOREM NoLostCorrect == ASSUME MaxReq = 1 PROVE Spec => []NoLostTask
<1>1. TInv /\ LifeInv /\ [Next]_vars => LifeInv'
  BY StepLife
<1>2. TInv /\ KeptInv => NoLostTask
  BY DEF TInv, KeptInv, Kept, NoLostTask, Held, Claimed, InHand
<1> QED BY InitTypes, StepTypes, InitKept, StepKept, <1>1, <1>2, PTL DEF Spec

-----------------------------------------------------------------------------
(* The frame of the application: its code runs only while the timer exists. *)
(* TimerOutlives is not inductive: that no tick and no reload of the        *)
(* terminal is left when the timer is deleted follows from where the main   *)
(* thread can be while each of those threads is at work.                    *)

\* Where the main thread has made the timer and not deleted it.
WithTimer == {"init", "cleanup", "stop", "join tick", "join stdio", "delete"} \cup Serving

\* Where the tick thread and the terminal may be at work.
Threaded == {"cleanup", "stop", "join tick"} \cup Serving

TimerInv == pc \in WithTimer => timer = "live"

TickInv == tick \in {"check", "run"} => pc \in Threaded

\* The terminal runs until the join of its thread; then that thread reads and
\* runs commands only while it is waited for.
StdioInv ==
    /\ termRunning => pc \in Threaded
    /\ stdio \notin {"none", "check", "ended"} => termRunning \/ pc = "join stdio"

\* AppTypeOK in three parts, one for each of the modules.
SigType ==
    /\ handlers \in [Signals -> {"default", "app"}]
    /\ queue \in Seq(Signals) /\ Len(queue) <= QueueSize
    /\ sigMutex \in {"none", "main", "signal"} /\ sigRunning \in BOOLEAN
    /\ sigPc \in {"top", "pop", "wait", "handle", "ended"}
    /\ frame \in [Threads -> {"none", "push"}]

CfgType ==
    /\ file \in [content : Broken .. used, mtime : Nat] /\ last \in Nat /\ used \in Nat
    /\ root \in Part .. used /\ synced \in Part .. used
    /\ cfgMutex \in {"none", "monitor", "stdio"} /\ monRunning \in BOOLEAN
    /\ monPc \in {"none", "sleep", "load", "stat", "ended"}

AppType ==
    /\ pc \in Starting \cup Serving \cup Stopping \cup Over
    /\ terminal \in BOOLEAN /\ running \in BOOLEAN /\ shouldReload \in BOOLEAN
    /\ termRunning \in BOOLEAN /\ owed \in BOOLEAN
    /\ tick \in {"none", "check", "run", "ended"}
    /\ timer \in {"none", "live", "deleted"}
    /\ stdio \in {"none", "check", "read", "saving", "ended"} \cup Commands
    /\ events \in 0 .. MaxEvents

HistoryType == applied \in Part .. used

Typed == SigType /\ CfgType /\ AppType /\ HistoryType

IInv == Typed /\ TimerInv /\ TickInv /\ StdioInv

----------------------------------------------------------------------------
(* The steps of the two modules below, and what they keep.                  *)

\* What a step of the program does to the state of SignalHandler.
SigStep ==
    \/ \E s \in Signals : registerHandler(s)
    \/ \E t \in Threads : handleSignalAsync(t) \/ pushSignal(t)
    \/ SigTop \/ popSignal \/ SigHandled
    \/ StopLock \/ StopFlag
    \/ UNCHANGED sigVars

\* What it does to that of ConfigManager.
CfgStep ==
    \/ enableHotReload \/ stopHotReloadMonitor
    \/ MonitorCheck \/ MonitorLoad \/ MonitorStat
    \/ setValue \/ SaveWrite \/ SaveStat
    \/ EditBegin \/ EditEnd
    \/ UNCHANGED cfgVars

\* The parts are AppTypeOK.
LEMMA TypedIsTypeOK == Typed <=> AppTypeOK
<1>1. Typed => AppTypeOK
  BY DEF Typed, SigType, CfgType, AppType, HistoryType, AppTypeOK
<1>2. AppTypeOK => Typed
  BY DEF Typed, SigType, CfgType, AppType, HistoryType, AppTypeOK
<1> QED BY <1>1, <1>2

\* The queue of signals and its lock keep their types; the queue its bound.
LEMMA SigKept ==
  ASSUME SigType, SigStep
  PROVE  SigType'
<1> USE DEF SigType
<1>1. CASE \E s \in Signals : registerHandler(s)
  BY <1>1 DEF registerHandler
<1>2. CASE \E t \in Threads : handleSignalAsync(t)
  BY <1>2 DEF handleSignalAsync
<1>3. CASE \E t \in Threads : pushSignal(t)
  <2>1. PICK t \in Threads : pushSignal(t)
    BY <1>3
  <2>2. frame' \in [Threads -> {"none", "push"}]
    BY <2>1 DEF pushSignal
  <2>3. queue' \in Seq(Signals) /\ Len(queue') <= QueueSize
    <3>1. CASE Len(queue) < QueueSize
      <4>1. queue' = Append(queue, "HUP")
        BY <2>1, <3>1 DEF pushSignal
      <4>2. "HUP" \in Signals
        BY DEF Signals
      <4>3. queue' \in Seq(Signals) /\ Len(queue') = Len(queue) + 1
        BY <4>1, <4>2
      <4> QED BY <3>1, <4>3, QueueAssumption
    <3>2. CASE ~(Len(queue) < QueueSize)
      BY <2>1, <3>2 DEF pushSignal
    <3> QED BY <3>1, <3>2
  <2> QED BY <2>1, <2>2, <2>3 DEF pushSignal
<1>4. CASE SigTop
  BY <1>4 DEF SigTop
<1>5. CASE popSignal
  <2>1. queue # << >> => Tail(queue) \in Seq(Signals) /\ Len(Tail(queue)) = Len(queue) - 1
    OBVIOUS
  <2>2. queue' = queue \/ (queue # << >> /\ queue' = Tail(queue))
    BY <1>5 DEF popSignal
  <2>3. Len(queue) \in Nat /\ QueueSize \in Nat
    BY QueueAssumption
  <2>4. queue' \in Seq(Signals) /\ Len(queue') <= QueueSize
    <3>1. CASE queue' = queue
      BY <3>1
    <3>2. CASE queue # << >> /\ queue' = Tail(queue)
      BY <2>1, <2>3, <3>2
    <3> QED BY <2>2, <3>1, <3>2
  <2> QED BY <1>5, <2>4 DEF popSignal
<1>6. CASE SigHandled
  BY <1>6 DEF SigHandled
<1>7. CASE StopLock \/ StopFlag
  BY <1>7 DEF StopLock, StopFlag
<1>8. CASE UNCHANGED sigVars
  BY <1>8 DEF sigVars
<1> QED BY <1>1, <1>2, <1>3, <1>4, <1>5, <1>6, <1>7, <1>8 DEF SigStep

\* Versions only grow, and memory and the file hold one that there has been.
LEMMA CfgKept ==
  ASSUME CfgType, CfgStep
  PROVE  CfgType' /\ used <= used'
<1> USE DEF CfgType, Broken, Part
<1>1. CASE enableHotReload
  BY <1>1 DEF enableHotReload
<1>11. CASE stopHotReloadMonitor
  <2>1. monRunning' \in BOOLEAN
    BY <1>11 DEF stopHotReloadMonitor
  <2>2. UNCHANGED <<file, root, last, cfgMutex, monPc, used, synced>>
    BY <1>11 DEF stopHotReloadMonitor
  <2> QED BY <2>1, <2>2
<1>2. CASE MonitorCheck
  BY <1>2 DEF MonitorCheck
<1>3. CASE MonitorLoad
  BY <1>3 DEF MonitorLoad
<1>4. CASE MonitorStat
  BY <1>4 DEF MonitorStat
<1>5. CASE setValue
  BY <1>5 DEF setValue
<1>6. CASE SaveWrite
  BY <1>6 DEF SaveWrite
<1>7. CASE SaveStat
  BY <1>7 DEF SaveStat
<1>8. CASE EditBegin
  BY <1>8 DEF EditBegin, Edit
<1>9. CASE EditEnd
  BY <1>9 DEF EditEnd, Edit
<1>10. CASE UNCHANGED cfgVars
  BY <1>10 DEF cfgVars
<1> QED BY <1>1, <1>2, <1>3, <1>4, <1>5, <1>6, <1>7, <1>8, <1>9, <1>10, <1>11
   DEF CfgStep

\* Each step is one of SignalHandler, one of ConfigManager, or leaves them alone.
LEMMA StepsBelow ==
  ASSUME [AppNext]_appVars
  PROVE  SigStep /\ CfgStep
<1> USE DEF SigStep, CfgStep
<1>1. CASE UNCHANGED appVars
  BY <1>1 DEF appVars
<1>2. CASE Main
  <2>1. CASE RegisterHandlers
    BY <2>1 DEF RegisterHandlers, Signals
  <2>2. CASE StartMonitor
    BY <2>2 DEF StartMonitor
  <2>3. CASE EnterInit \/ InitFails \/ InitDone
    BY <2>3 DEF EnterInit, InitFails, InitDone
  <2>4. CASE Reload \/ Turn
    BY <2>4 DEF Reload, Turn
  <2>5. CASE CleanedUp \/ Stop \/ JoinTick
    BY <2>5 DEF CleanedUp, Stop, JoinTick
  <2>6. CASE JoinStdio \/ DeleteTimer
    BY <2>6 DEF JoinStdio, DeleteTimer
  <2>7. CASE StopSignals
    BY <2>7 DEF StopSignals
  <2>8. CASE StopMonitor
    BY <2>8 DEF StopMonitor
  <2>9. CASE JoinMonitor
    BY <2>9 DEF JoinMonitor
  <2> QED BY <1>2, <2>1, <2>2, <2>3, <2>4, <2>5, <2>6, <2>7, <2>8, <2>9 DEF Main
<1>3. CASE tickThread
  BY <1>3 DEF tickThread
<1>4. CASE SignalThread
  BY <1>4 DEF SignalThread
<1>5. CASE MonitorThread
  BY <1>5 DEF MonitorThread
<1>6. CASE stdioThread
  BY <1>6 DEF stdioThread, StdioCheck, Command
<1>7. CASE Editor(EditEnd)
  BY <1>7 DEF Editor
<1>8. CASE \E t \in Threads : Push(t)
  BY <1>8 DEF Push
<1>9. CASE Environment
  BY <1>9 DEF Environment, Terminate, handleSignalSync, Editor, EndOfInput, HangUp, ReadLine
<1> QED BY <1>1, <1>2, <1>3, <1>4, <1>5, <1>6, <1>7, <1>8, <1>9 DEF AppNext

----------------------------------------------------------------------------
(* The threads of the application.                                          *)

\* What of the state TimerOutlives is about.
frameVars == <<pc, tick, timer, stdio, termRunning>>

\* The invariant depends on nothing else.
LEMMA FrameKept ==
  ASSUME TimerInv, TickInv, StdioInv, UNCHANGED frameVars
  PROVE  TimerInv' /\ TickInv' /\ StdioInv'
BY DEF TimerInv, TickInv, StdioInv, frameVars

\* Until onInit ends there is neither a tick thread nor one of the terminal.
LEMMA StartKeeps ==
  ASSUME AppType, TimerInv, TickInv, StdioInv,
         RegisterHandlers \/ StartMonitor \/ EnterInit \/ InitFails \/ InitDone
  PROVE  TimerInv' /\ TickInv' /\ StdioInv'
<1> USE DEF TimerInv, TickInv, StdioInv, WithTimer, Threaded, Serving, Go
<1>1. CASE RegisterHandlers
  BY <1>1 DEF RegisterHandlers, tickVars, termVars
<1>2. CASE StartMonitor
  BY <1>2 DEF StartMonitor, tickVars, termVars
<1>3. CASE EnterInit
  BY <1>3 DEF EnterInit, tickVars, termVars
<1>4. CASE InitFails
  BY <1>4 DEF InitFails, tickVars, termVars
<1>5. CASE InitDone
  BY <1>5 DEF InitDone, tickVars, termVars, AppType
<1> QED BY <1>1, <1>2, <1>3, <1>4, <1>5

\* The loops: nothing is deleted and no thread ends with them.
LEMMA ServeKeeps ==
  ASSUME AppType, TimerInv, TickInv, StdioInv, Reload \/ Turn
  PROVE  TimerInv' /\ TickInv' /\ StdioInv'
<1> USE DEF TimerInv, TickInv, StdioInv, WithTimer, Threaded, Serving, Go
<1>1. CASE Reload
  BY <1>1 DEF Reload, tickVars, termVars
<1>2. CASE Turn
  BY <1>2 DEF Turn, tickVars, termVars
<1> QED BY <1>1, <1>2

\* The joins come before the deletion: the tick thread has ended, and the one of
\* the terminal has been told to stop before and has no command left, or is
\* waited for.
LEMMA StopKeeps ==
  ASSUME AppType, TimerInv, TickInv, StdioInv,
         \/ CleanedUp \/ Stop \/ JoinTick \/ JoinStdio \/ DeleteTimer
         \/ StopSignals \/ StopMonitor \/ JoinMonitor
  PROVE  TimerInv' /\ TickInv' /\ StdioInv'
<1> USE DEF TimerInv, TickInv, StdioInv, WithTimer, Threaded, Serving, Go
<1>1. CASE CleanedUp
  BY <1>1 DEF CleanedUp, tickVars, termVars
<1>2. CASE Stop
  BY <1>2 DEF Stop, tickVars, termVars
<1>3. CASE JoinTick
  BY <1>3 DEF JoinTick, tickVars, AppType
<1>4. CASE JoinStdio
  BY <1>4 DEF JoinStdio, tickVars
<1>5. CASE DeleteTimer
  BY <1>5 DEF DeleteTimer, termVars
<1>6. CASE StopSignals
  BY <1>6 DEF StopSignals, tickVars, termVars
<1>7. CASE StopMonitor
  BY <1>7 DEF StopMonitor, tickVars, termVars
<1>8. CASE JoinMonitor
  BY <1>8 DEF JoinMonitor, tickVars, termVars
<1> QED BY <1>1, <1>2, <1>3, <1>4, <1>5, <1>6, <1>7, <1>8

\* The other threads, and what comes from outside: a tick begins only from the
\* thread of ticks, a command only after a line was read.
LEMMA ThreadsKeep ==
  ASSUME AppType, TimerInv, TickInv, StdioInv,
         \/ tickThread \/ SignalThread \/ MonitorThread \/ stdioThread
         \/ Editor(EditEnd) \/ (\E t \in Threads : Push(t)) \/ Environment
  PROVE  TimerInv' /\ TickInv' /\ StdioInv'
<1> USE DEF TimerInv, TickInv, StdioInv
<1>1. CASE tickThread
  BY <1>1 DEF tickThread, termVars
<1>2. CASE SignalThread
  BY <1>2 DEF SignalThread, tickVars, termVars
<1>3. CASE MonitorThread
  BY <1>3 DEF MonitorThread, tickVars, termVars
<1>4. CASE stdioThread
  <2>1. UNCHANGED <<pc, tick, timer>>
    BY <1>4 DEF stdioThread, tickVars
  <2>2. CASE StdioCheck
    BY <2>1, <2>2 DEF StdioCheck
  <2>3. CASE Command
    <3>1. stdio \notin {"none", "check", "ended"} /\ stdio' \in {"check", "saving"}
      BY <2>3 DEF Command
    <3>2. CASE UNCHANGED termRunning
      BY <2>1, <3>1, <3>2
    <3>3. CASE termRunning' = FALSE /\ stdio' = "check"
      BY <2>1, <3>1, <3>3
    <3>4. UNCHANGED termRunning \/ (termRunning' = FALSE /\ stdio' = "check")
      BY <2>3 DEF Command
    <3> QED BY <3>2, <3>3, <3>4
  <2> QED BY <1>4, <2>2, <2>3 DEF stdioThread
<1>5. CASE Editor(EditEnd)
  BY <1>5 DEF Editor, tickVars, termVars
<1>6. CASE \E t \in Threads : Push(t)
  <2>1. UNCHANGED frameVars
    BY <1>6 DEF Push, tickVars, termVars, frameVars
  <2> QED BY <2>1, FrameKept
<1>7. CASE Environment
  <2>1. CASE Terminate
    BY <2>1 DEF Terminate, tickVars, termVars
  <2>2. CASE Editor(EditBegin)
    BY <2>2 DEF Editor, tickVars, termVars
  <2>3. CASE EndOfInput
    BY <2>3 DEF EndOfInput, tickVars
  <2>4. CASE \E t \in Threads : HangUp(t)
    <3>1. UNCHANGED frameVars
      BY <2>4 DEF HangUp, tickVars, termVars, frameVars
    <3> QED BY <3>1, FrameKept
  <2>5. CASE \E cmd \in Commands : ReadLine(cmd)
    <3>1. stdio = "read" /\ UNCHANGED <<pc, tick, timer, termRunning>>
      BY <2>5 DEF ReadLine, tickVars
    <3> QED BY <3>1
  <2> QED BY <1>7, <2>1, <2>2, <2>3, <2>4, <2>5 DEF Environment
<1> QED BY <1>1, <1>2, <1>3, <1>4, <1>5, <1>6, <1>7

----------------------------------------------------------------------------
(* Types.                                                                   *)

\* What the main thread writes has its type.
LEMMA MainTyped ==
  ASSUME AppType, HistoryType, CfgType, CfgType', used <= used', Main, UNCHANGED terminal
  PROVE  HistoryType' /\ (events' \in 0 .. MaxEvents => AppType')
<1> USE DEF Go
<1>1. applied' \in {applied, synced}
  BY DEF Main, RegisterHandlers, StartMonitor, EnterInit, InitFails, InitDone, Reload, Turn,
         CleanedUp, Stop, JoinTick, JoinStdio, DeleteTimer, StopSignals, StopMonitor,
         JoinMonitor, history
<1>2. HistoryType'
  <2>1. applied \in 0 .. used /\ synced \in 0 .. used /\ used \in Nat /\ used' \in Nat
    BY DEF HistoryType, CfgType, Part
  <2>2. applied' \in Nat /\ applied' <= used
    BY <1>1, <2>1
  <2>3. used <= used'
    OBVIOUS
  <2>4. applied' \in 0 .. used'
    BY <2>1, <2>2, <2>3
  <2> QED BY <2>4 DEF HistoryType, Part
<1>3. SUFFICES ASSUME events' \in 0 .. MaxEvents PROVE AppType'
  BY <1>2
<1> USE <1>3 DEF AppType, Starting, Serving, Stopping, Over
<1>4. CASE RegisterHandlers \/ StartMonitor
  BY <1>4 DEF RegisterHandlers, StartMonitor, flags, tickVars, termVars, history
<1>5. CASE EnterInit \/ InitFails
  BY <1>5 DEF EnterInit, InitFails, flags, tickVars, termVars, history
<1>6. CASE InitDone
  BY <1>6 DEF InitDone, flags, history
<1>7. CASE Reload
  BY <1>7 DEF Reload, tickVars, termVars
<1>8. CASE Turn
  <2>1. UNCHANGED <<running, shouldReload, tick, timer, stdio, termRunning, owed>>
    BY <1>8 DEF Turn, flags, tickVars, termVars, history
  <2>2. pc' \in {"work", "wait", "cleanup", "loop"}
    BY <1>8 DEF Turn
  <2>3. pc' \in Starting \cup Serving \cup Stopping \cup Over
    BY <2>2
  <2>4. terminal' = terminal
    OBVIOUS
  <2> QED BY <2>1, <2>3, <2>4
<1>9. CASE CleanedUp \/ Stop
  BY <1>9 DEF CleanedUp, Stop, flags, tickVars, termVars, history
<1>10. CASE JoinTick \/ JoinStdio
  BY <1>10 DEF JoinTick, JoinStdio, flags, tickVars, history
<1>11. CASE DeleteTimer
  BY <1>11 DEF DeleteTimer, flags, termVars, history
<1>12. CASE StopSignals \/ StopMonitor \/ JoinMonitor
  BY <1>12 DEF StopSignals, StopMonitor, JoinMonitor, flags, tickVars, termVars, history
<1> QED BY <1>4, <1>5, <1>6, <1>7, <1>8, <1>9, <1>10, <1>11, <1>12 DEF Main

\* So has what the other threads and the outside write.
LEMMA OthersTyped ==
  ASSUME AppType, HistoryType, CfgType, CfgType', used <= used', UNCHANGED terminal,
         \/ tickThread \/ SignalThread \/ MonitorThread \/ stdioThread
         \/ Editor(EditEnd) \/ (\E t \in Threads : Push(t)) \/ Environment
  PROVE  HistoryType' /\ (events' \in 0 .. MaxEvents => AppType')
<1>1. applied' \in {applied, synced}
  BY DEF tickThread, SignalThread, MonitorThread, stdioThread, StdioCheck, Command, Editor,
         Push, Environment, Terminate, EndOfInput, HangUp, ReadLine, history
<1>2. HistoryType'
  <2>1. applied \in 0 .. used /\ synced \in 0 .. used /\ used \in Nat /\ used' \in Nat
    BY DEF HistoryType, CfgType, Part
  <2>2. applied' \in Nat /\ applied' <= used
    BY <1>1, <2>1
  <2>3. used <= used'
    OBVIOUS
  <2>4. applied' \in 0 .. used'
    BY <2>1, <2>2, <2>3
  <2> QED BY <2>4 DEF HistoryType, Part
<1>3. SUFFICES ASSUME events' \in 0 .. MaxEvents PROVE AppType'
  BY <1>2
<1> USE <1>3 DEF AppType
<1>4. CASE tickThread
  BY <1>4 DEF tickThread, flags, termVars, history
<1>5. CASE SignalThread
  BY <1>5 DEF SignalThread, tickVars, termVars, history
<1>6. CASE MonitorThread
  BY <1>6 DEF MonitorThread, tickVars, termVars, history
<1>7. CASE stdioThread
  BY <1>7 DEF stdioThread, StdioCheck, Command, tickVars, history
<1>8. CASE Editor(EditEnd) \/ Editor(EditBegin)
  BY <1>8 DEF Editor, flags, tickVars, termVars, history
<1>9. CASE \E t \in Threads : Push(t)
  BY <1>9 DEF Push, flags, tickVars, termVars
<1>10. CASE Terminate
  BY <1>10 DEF Terminate, tickVars, termVars, history
<1>11. CASE EndOfInput
  BY <1>11 DEF EndOfInput, flags, tickVars, history
<1>12. CASE \E t \in Threads : HangUp(t)
  BY <1>12 DEF HangUp, flags, tickVars, termVars, history
<1>13. CASE \E cmd \in Commands : ReadLine(cmd)
  BY <1>13 DEF ReadLine, flags, tickVars, history
<1> QED BY <1>4, <1>5, <1>6, <1>7, <1>8, <1>9, <1>10, <1>11, <1>12, <1>13 DEF Environment

----------------------------------------------------------------------------
(* The invariant.                                                           *)

\* It holds when loadConfig and SignalHandler::initialize have returned.
LEMMA InitIInv == AppInit => IInv
<1> SUFFICES ASSUME AppInit PROVE IInv
  OBVIOUS
<1>1. SigType
  BY QueueAssumption DEF AppInit, SigInit, SigType
<1>2. CfgType
  <2>1. monRunning \in BOOLEAN
    BY DEF AppInit, CfgInit
  <2>2. file = [content |-> 1, mtime |-> 0] /\ root = 1 /\ synced = 1 /\ used = 1 /\ last = 0
    BY DEF AppInit, CfgInit
  <2>3. cfgMutex = "none" /\ monPc = "none"
    BY DEF AppInit, CfgInit
  <2> QED BY <2>1, <2>2, <2>3 DEF CfgType, Broken, Part
<1>3. AppType
  <2>1. terminal \in BOOLEAN /\ running \in BOOLEAN /\ shouldReload \in BOOLEAN
    BY DEF AppInit
  <2>2. termRunning \in BOOLEAN /\ owed \in BOOLEAN
    BY DEF AppInit
  <2>3. events \in 0 .. MaxEvents
    BY EventAssumption DEF AppInit
  <2>4. pc = "handlers" /\ tick = "none" /\ timer = "none" /\ stdio = "none"
    BY DEF AppInit
  <2> QED BY <2>1, <2>2, <2>3, <2>4 DEF AppType, Starting
<1>4. HistoryType
  BY DEF AppInit, CfgInit, HistoryType, Part
<1>5. TimerInv /\ TickInv /\ StdioInv
  BY DEF AppInit, TimerInv, TickInv, StdioInv, WithTimer, Serving
<1> QED BY <1>1, <1>2, <1>3, <1>4, <1>5 DEF IInv, Typed

\* Every step keeps it.
LEMMA NextIInv == IInv /\ [AppNext]_appVars => IInv'
<1> SUFFICES ASSUME IInv, [AppNext]_appVars PROVE IInv'
  OBVIOUS
<1>1. SigType /\ CfgType /\ AppType /\ HistoryType /\ TimerInv /\ TickInv /\ StdioInv
  BY DEF IInv, Typed
<1>2. SigStep /\ CfgStep
  BY StepsBelow
<1>3. SigType'
  BY <1>1, <1>2, SigKept
<1>4. CfgType' /\ used <= used'
  BY <1>1, <1>2, CfgKept
<1>5. AppType' /\ HistoryType'
  <2>1. CASE UNCHANGED appVars
    BY <1>1, <2>1 DEF appVars, cfgVars, flags, tickVars, termVars, history, AppType, HistoryType
  <2>2. CASE AppNext
    <3>1. events' \in 0 .. MaxEvents
      BY <1>1, <2>2, EventAssumption DEF AppNext, AppType
    <3>2. CASE Main
      BY <1>1, <1>4, <2>2, <3>1, <3>2, MainTyped DEF AppNext
    <3>3. CASE ~Main
      BY <1>1, <1>4, <2>2, <3>1, <3>3, OthersTyped DEF AppNext
    <3> QED BY <3>2, <3>3
  <2> QED BY <2>1, <2>2
<1>6. TimerInv' /\ TickInv' /\ StdioInv'
  <2>1. CASE UNCHANGED appVars
    BY <1>1, <2>1, FrameKept DEF appVars, tickVars, termVars, frameVars
  <2>2. CASE Main
    BY <1>1, <2>2, StartKeeps, ServeKeeps, StopKeeps DEF Main
  <2>3. CASE AppNext /\ ~Main
    BY <1>1, <2>3, ThreadsKeep DEF AppNext
  <2> QED BY <2>1, <2>2, <2>3
<1> QED BY <1>3, <1>4, <1>5, <1>6 DEF IInv, Typed

\* It implies what the run checks.
LEMMA IInvTimer == IInv => TimerOutlives
<1> SUFFICES ASSUME IInv PROVE TimerOutlives
  OBVIOUS
<1>1. AppTypeOK
  BY TypedIsTypeOK DEF IInv
<1>2. TimerInv /\ TickInv /\ StdioInv
  BY DEF IInv
<1>3. pc \in {"init", "reload", "cleanup"} => timer = "live"
  BY <1>2 DEF TimerInv, WithTimer, Serving
<1>4. tick = "run" => timer = "live"
  BY <1>2 DEF TimerInv, TickInv, WithTimer, Threaded
<1>5. stdio = "reload" => timer = "live"
  BY <1>2 DEF TimerInv, StdioInv, WithTimer, Threaded
<1> QED BY <1>1, <1>3, <1>4, <1>5 DEF TimerOutlives

\* onInit, onTick, onReload and onCleanup never overlap the deletion of the timer
\* in IApp's destructor, whichever thread calls them and however the application
\* was told to stop; and every variable has its type.
THEOREM TimerOutlivesCorrect == AppSpec => []TimerOutlives
<1>1. AppSpec => []IInv
  BY InitIInv, NextIInv, PTL DEF AppSpec
<1> QED BY <1>1, IInvTimer, PTL

-----------------------------------------------------------------------------
(* The command line that the application is started with.                  *)

\* Word i is the last option for a that was read.
LastRead(i, a) ==
    /\ i \in 1 .. Len(argv) /\ i < next /\ IsOption(i, a)
    /\ \A j \in 1 .. Len(argv) : j < next /\ IsOption(j, a) => j <= i

\* An argument has the value of its last option so far.
ValuesInv ==
    /\ DOMAIN values = Args
    /\ \A a \in Args :
         \/ /\ \A i \in 1 .. Len(argv) : i < next => ~IsOption(i, a)
            /\ values[a] = Defaults[a]
         \/ \E i \in 1 .. Len(argv) : LastRead(i, a) /\ values[a] = valueOf(i)

\* The words found plain so far, each at the place that its rank gives it.
WordsInv ==
    /\ positional \in Seq({w.value : w \in Words})
    /\ Len(positional) = Cardinality(Plain(next - 1))
    /\ \A i \in Plain(next - 1) : /\ Cardinality(Plain(i)) \in 1 .. Len(positional)
                                  /\ positional[Cardinality(Plain(i))] = argv[i].value
    /\ \A k \in 1 .. Len(positional) : \E i \in Plain(next - 1) : Cardinality(Plain(i)) = k

\* The next word is no option's value.
ArgsInv ==
    /\ argv \in Seq(Words) /\ next \in 1 .. Len(argv) + 2
    /\ ~IsBound(next)
    /\ ValuesInv /\ WordsInv
    /\ next = Len(argv) + 2 =>
         /\ modes = {a \in {"help", "terminal"} : values[a] = "true"}
         /\ called = {<<a, values[a]>> : a \in Args}

\* A name stands for one argument or for none.
LEMMA Names ==
  ASSUME NEW name
  PROVE  \/ findCanonicalName(name) = {}
         \/ \E a \in Args : findCanonicalName(name) = {a}
  BY ArgsAssumption DEF findCanonicalName

\* Whether the next word is bound depends on this one alone.
LEMMA NextBound ==
  ASSUME argv \in Seq(Words), NEW i \in 1 .. Len(argv)
  PROVE  IsBound(i + 1) <=> /\ argv[i].dashes > 0 /\ findCanonicalName(argv[i].name) # {}
                            /\ TakesNext(i)
<1>1. i + 1 > 1 /\ i + 1 - 1 = i
  OBVIOUS
<1>2. IsBound(i + 1) <=> \E a \in Args : IsOption(i, a) /\ TakesNext(i)
  BY <1>1 DEF IsBound
<1>3. findCanonicalName(argv[i].name) # {} <=> \E a \in Args : findCanonicalName(argv[i].name) = {a}
  BY Names
<1> QED BY <1>2, <1>3, Zenon DEF IsOption

\* There are finitely many plain words.
LEMMA PlainFinite ==
  ASSUME argv \in Seq(Words), NEW n
  PROVE  IsFiniteSet(Plain(n)) /\ Cardinality(Plain(n)) \in Nat
<1>1. IsFiniteSet(1 .. Len(argv))
  BY FS_Interval
<1>2. Plain(n) \subseteq 1 .. Len(argv)
  BY DEF Plain
<1> QED BY <1>1, <1>2, FS_Subset, FS_CardinalityType

\* What it is to be one of them.
LEMMA InPlain ==
  ASSUME NEW n, NEW i
  PROVE  i \in Plain(n) <=> /\ i \in 1 .. Len(argv) /\ i <= n
                            /\ argv[i].dashes = 0 /\ ~IsBound(i) /\ argv[i].value # ""
  BY Zenon DEF Plain

\* A word that is not plain is passed over.
LEMMA PlainSame ==
  ASSUME argv \in Seq(Words), NEW n \in Nat, n \notin Plain(n)
  PROVE  Plain(n) = Plain(n - 1)
<1>1. \A i \in 1 .. Len(argv) : i <= n <=> i <= n - 1 \/ i = n
  OBVIOUS
<1>2. \A i : i \in Plain(n) <=> i \in Plain(n - 1)
  BY <1>1, InPlain, Zenon
<1> QED BY <1>2, Zenon

\* The next plain word gets the next rank.
LEMMA PlainMore ==
  ASSUME argv \in Seq(Words), NEW n \in Nat, n \in Plain(n)
  PROVE  /\ Plain(n) = Plain(n - 1) \cup {n}
         /\ Cardinality(Plain(n)) = Cardinality(Plain(n - 1)) + 1
<1>1. (\A i \in 1 .. Len(argv) : i <= n <=> i <= n - 1 \/ i = n) /\ ~(n <= n - 1)
  OBVIOUS
<1>2. \A i : i \in Plain(n) <=> i \in Plain(n - 1) \/ i = n
  BY <1>1, InPlain, Zenon
<1>3. n \notin Plain(n - 1)
  BY <1>1, InPlain, Zenon
<1>4. Plain(n) = Plain(n - 1) \cup {n}
  BY <1>2
<1> QED BY <1>3, <1>4, PlainFinite, FS_AddElement

LEMMA ArgsBegins == ArgsInit => ArgsInv
<1> SUFFICES ASSUME ArgsInit PROVE ArgsInv
  OBVIOUS
<1>1. argv \in Seq(Words) /\ next = 1 /\ next \in 1 .. Len(argv) + 2
  BY ArgsAssumption DEF ArgsInit
<1>2. ~IsBound(next)
  BY <1>1 DEF IsBound
<1>3. ValuesInv
  BY <1>1, ArgsAssumption DEF ArgsInit, ValuesInv
<1>4. Plain(next - 1) = {}
  <2>1. \A i \in 1 .. Len(argv) : ~(i <= next - 1)
    BY <1>1
  <2> QED BY <2>1, InPlain, Zenon
<1>5. WordsInv
  <2>1. Cardinality(Plain(next - 1)) = 0
    BY <1>4, FS_EmptySet
  <2>2. positional = <<>> /\ Len(positional) = 0
    BY DEF ArgsInit
  <2> QED BY <1>4, <2>1, <2>2 DEF WordsInv
<1>6. next # Len(argv) + 2
  BY <1>1
<1> QED BY <1>1, <1>2, <1>3, <1>5, <1>6 DEF ArgsInv

\* The words are what they were, and so is what is said of them.
LEMMA WordsStay ==
  ASSUME argv' = argv
  PROVE  /\ \A i : (TakesNext(i) <=> TakesNext(i)') /\ valueOf(i)' = valueOf(i)
         /\ \A i : IsBound(i)' <=> IsBound(i)
         /\ \A i, a : IsOption(i, a)' <=> IsOption(i, a)
         /\ \A n : Plain(n)' = Plain(n)
<1>1. \A i : (TakesNext(i) <=> TakesNext(i)') /\ valueOf(i)' = valueOf(i)
  BY DEF TakesNext, valueOf
<1>2. \A i, a : IsOption(i, a)' <=> IsOption(i, a)
  BY DEF IsOption
<1>3. \A i : IsBound(i)' <=> IsBound(i)
  BY <1>1, <1>2 DEF IsBound
<1>4. \A n : Plain(n)' = Plain(n)
  BY <1>3 DEF Plain
<1> QED BY <1>1, <1>2, <1>3, <1>4

\* An option gives its argument a value, and nothing else; a word it takes for the
\* value is not looked at again.
LEMMA ArgsOption ==
  ASSUME ArgsInv, parseArg
  PROVE  ArgsInv'
<1> DEFINE known == findCanonicalName(argv[next].name)
<1>1. /\ next \in 1 .. Len(argv) /\ argv[next].dashes > 0
      /\ UNCHANGED <<argv, positional, modes, called>>
      /\ next' = IF known # {} /\ TakesNext(next) THEN next + 2 ELSE next + 1
      /\ values' = [a \in Args |-> IF a \in known THEN valueOf(next) ELSE values[a]]
  BY DEF parseArg, ArgsInv
<1>2. argv \in Seq(Words) /\ argv[next].dashes \in Nat /\ argv[next].dashes # 0
  BY <1>1, ArgsAssumption DEF ArgsInv
<1>3. IsBound(next + 1) <=> known # {} /\ TakesNext(next)
  BY <1>1, <1>2, NextBound
<1>4. TakesNext(next) => next + 1 \in 1 .. Len(argv) /\ argv[next + 1].dashes = 0
  BY <1>1, <1>2 DEF TakesNext
<1> HIDE DEF known
<1>5. next' \in 1 .. Len(argv) + 1
  BY <1>1, <1>2, <1>4
<1>6. ~IsBound(next')
  <2>1. CASE known # {} /\ TakesNext(next)
    <3>1. next' = (next + 1) + 1
      BY <1>1, <2>1
    <3>2. IsBound((next + 1) + 1) => argv[next + 1].dashes > 0
      BY <1>2, <1>4, <2>1, NextBound
    <3> QED BY <1>4, <2>1, <3>1, <3>2
  <2>2. CASE ~(known # {} /\ TakesNext(next))
    BY <1>1, <1>3, <2>2
  <2> QED BY <2>1, <2>2
<1>7. Plain(next' - 1) = Plain(next - 1)
  <2>1. Plain(next) = Plain(next - 1)
    <3>1. next \notin Plain(next)
      BY <1>2, InPlain, Zenon
    <3> QED BY <1>1, <1>2, <3>1, PlainSame
  <2>2. CASE known # {} /\ TakesNext(next)
    <3>1. next' - 1 = next + 1 /\ (next + 1) - 1 = next
      BY <1>1, <2>2
    <3>2. Plain(next + 1) = Plain(next)
      <4>1. next + 1 \notin Plain(next + 1)
        BY <1>3, <2>2, InPlain, Zenon
      <4> QED BY <1>2, <1>4, <2>2, <3>1, <4>1, PlainSame
    <3> QED BY <2>1, <3>1, <3>2
  <2>3. CASE ~(known # {} /\ TakesNext(next))
    <3>1. next' - 1 = next
      BY <1>1, <2>3
    <3> QED BY <2>1, <3>1
  <2> QED BY <2>2, <2>3
<1>8. WordsInv'
  BY <1>1, <1>7, WordsStay DEF ArgsInv, WordsInv
<1>9. ValuesInv'
  <2>1. \A i \in 1 .. Len(argv), a \in Args :
          i < next' /\ IsOption(i, a) <=> IsOption(i, a) /\ (i < next \/ i = next)
    <3> SUFFICES ASSUME NEW i \in 1 .. Len(argv), NEW a \in Args, IsOption(i, a)
                 PROVE  i < next' <=> i < next \/ i = next
      OBVIOUS
    <3>1. argv[i].dashes > 0
      BY DEF IsOption
    <3>2. i = next + 1 => ~TakesNext(next)
      BY <1>4, <3>1
    <3> QED BY <1>1, <1>2, <3>2
  <2>2. \A a \in Args : IsOption(next, a) <=> a \in known
    BY <1>1, Names DEF IsOption, known
  <2>3. DOMAIN values' = Args
    BY <1>1
  <2>4. ASSUME NEW a \in Args
        PROVE  \/ /\ \A i \in 1 .. Len(argv) : i < next' => ~IsOption(i, a)
                  /\ values'[a] = Defaults[a]
               \/ \E i \in 1 .. Len(argv) : LastRead(i, a)' /\ values'[a] = valueOf(i)
    <3>1. CASE a \in known
      <4>1. \A i \in 1 .. Len(argv) : i = next => LastRead(i, a)'
        BY <1>1, <1>2, <2>1, <2>2, <3>1, WordsStay DEF LastRead
      <4> QED BY <1>1, <3>1, <4>1
    <3>2. CASE a \notin known
      <4>1. values'[a] = values[a]
        BY <1>1, <3>2
      <4>2. CASE (\A i \in 1 .. Len(argv) : i < next => ~IsOption(i, a)) /\ values[a] = Defaults[a]
        BY <2>1, <2>2, <3>2, <4>1, <4>2
      <4>3. ASSUME NEW i \in 1 .. Len(argv), LastRead(i, a), values[a] = valueOf(i)
            PROVE  LastRead(i, a)' /\ values'[a] = valueOf(i)
        BY <1>1, <2>1, <2>2, <3>2, <4>1, <4>3, WordsStay DEF LastRead
      <4> QED BY <4>2, <4>3 DEF ArgsInv, ValuesInv
    <3> QED BY <3>1, <3>2
  <2> QED BY <1>1, <2>3, <2>4, WordsStay DEF ValuesInv
<1> QED BY <1>1, <1>2, <1>5, <1>6, <1>8, <1>9, WordsStay DEF ArgsInv

\* A plain word.
LEMMA ArgsWord ==
  ASSUME ArgsInv, parseWord
  PROVE  ArgsInv'
<1>1. /\ next \in 1 .. Len(argv) /\ argv[next].dashes = 0
      /\ UNCHANGED <<argv, values, modes, called>>
      /\ next' = next + 1
  <2>1. next \in 1 .. Len(argv) + 2 /\ argv \in Seq(Words) /\ next <= Len(argv)
    BY Zenon DEF parseWord, ArgsInv
  <2>2. next \in 1 .. Len(argv)
    BY <2>1
  <2> QED BY <2>2, Zenon DEF parseWord
<1>2. argv \in Seq(Words) /\ argv[next] \in Words /\ ~(argv[next].dashes > 0)
  <2>1. argv \in Seq(Words)
    BY DEF ArgsInv
  <2> QED BY <1>1, <2>1
<1>5. positional' = IF next \in Plain(next) THEN Append(positional, argv[next].value)
                    ELSE positional
  <2>1. next <= next /\ ~IsBound(next)
    BY <1>1 DEF ArgsInv
  <2>2. next \in Plain(next) <=> argv[next].value # ""
    BY <1>1, <2>1, InPlain, Zenon
  <2> QED BY <2>2, Zenon DEF parseWord
<1>3. ~IsBound(next')
  BY <1>1, <1>2, NextBound, Zenon
<1>4. ~IsBound(next) /\ next' - 1 = next
  <2>1. next \in 1 .. Len(argv) /\ next' = next + 1 /\ argv \in Seq(Words)
    BY <1>1, <1>2, Zenon
  <2>2. next' - 1 = next
    BY <2>1
  <2> QED BY <2>2, Zenon DEF ArgsInv
<1>6. WordsInv'
  <2> DEFINE P == Plain(next - 1)
             W == {w.value : w \in Words}
  <2>1. /\ positional \in Seq(W) /\ Len(positional) = Cardinality(P)
        /\ \A i \in P : /\ Cardinality(Plain(i)) \in 1 .. Len(positional)
                        /\ positional[Cardinality(Plain(i))] = argv[i].value
        /\ \A k \in 1 .. Len(positional) : \E i \in P : Cardinality(Plain(i)) = k
    BY DEF ArgsInv, WordsInv
  <2>2. SUFFICES
          /\ positional' \in Seq(W) /\ Len(positional') = Cardinality(Plain(next))
          /\ \A i \in Plain(next) : /\ Cardinality(Plain(i)) \in 1 .. Len(positional')
                                    /\ positional'[Cardinality(Plain(i))] = argv[i].value
          /\ \A k \in 1 .. Len(positional') : \E i \in Plain(next) : Cardinality(Plain(i)) = k
    BY <1>1, <1>4, WordsStay DEF WordsInv
  <2>3. CASE next \notin Plain(next)
    <3>1. Plain(next) = P
      BY <1>1, <1>2, <2>3, PlainSame
    <3> QED BY <1>5, <2>1, <2>3, <3>1
  <2>4. CASE next \in Plain(next)
    <3>1. Plain(next) = P \cup {next} /\ Cardinality(Plain(next)) = Len(positional) + 1
      BY <1>1, <1>2, <2>1, <2>4, PlainMore
    <3>2. argv[next].value \in W
      BY <1>2
    <3>3. /\ positional' \in Seq(W) /\ Len(positional') = Len(positional) + 1
          /\ \A k \in 1 .. Len(positional) : positional'[k] = positional[k]
          /\ positional'[Len(positional) + 1] = argv[next].value
      BY <1>5, <2>1, <2>4, <3>2
    <3>4. Len(positional) \in Nat
      BY <2>1
    <3> HIDE DEF P, W
    <3>5. ASSUME NEW i \in Plain(next)
          PROVE  /\ Cardinality(Plain(i)) \in 1 .. Len(positional')
                 /\ positional'[Cardinality(Plain(i))] = argv[i].value
      <4>1. CASE i = next
        <5>1. Cardinality(Plain(i)) = Len(positional) + 1
          BY <3>1, <4>1
        <5> QED BY <3>3, <3>4, <4>1, <5>1
      <4>2. CASE i \in P
        <5> DEFINE k == Cardinality(Plain(i))
        <5>1. k \in 1 .. Len(positional) /\ positional[k] = argv[i].value
          BY <2>1, <4>2
        <5> HIDE DEF k
        <5>2. k \in 1 .. Len(positional') /\ positional'[k] = positional[k]
          BY <3>3, <3>4, <5>1
        <5> QED BY <5>1, <5>2 DEF k
      <4> QED BY <3>1, <4>1, <4>2
    <3>6. ASSUME NEW k \in 1 .. Len(positional')
          PROVE  \E i \in Plain(next) : Cardinality(Plain(i)) = k
      <4>1. k = Len(positional) + 1 \/ k \in 1 .. Len(positional)
        BY <3>3, <3>4
      <4> QED BY <2>1, <3>1, <4>1
    <3> QED BY <3>1, <3>3, <3>5, <3>6
  <2> QED BY <2>3, <2>4
<1>7. ValuesInv'
  <2>1. \A i \in 1 .. Len(argv), a \in Args : IsOption(i, a) => (i < next' <=> i < next)
    <3> SUFFICES ASSUME NEW i \in 1 .. Len(argv), NEW a \in Args, IsOption(i, a)
                 PROVE  i # next
      BY <1>1
    <3> QED BY <1>1 DEF IsOption
  <2>2. \A i \in 1 .. Len(argv), a \in Args : LastRead(i, a) => LastRead(i, a)'
    BY <1>1, <2>1, WordsStay DEF LastRead
  <2> QED BY <1>1, <2>1, <2>2, WordsStay DEF ArgsInv, ValuesInv
<1> QED BY <1>1, <1>2, <1>3, <1>6, <1>7, WordsStay DEF ArgsInv

\* After the last word.
LEMMA ArgsEnd ==
  ASSUME ArgsInv, parseEnd
  PROVE  ArgsInv'
<1>1. /\ next = Len(argv) + 1 /\ next' = next + 1 /\ argv \in Seq(Words)
      /\ UNCHANGED <<argv, values, positional>>
  BY DEF parseEnd, ArgsInv
<1>2. next' = Len(argv) + 2 /\ Len(argv) \in Nat
  BY <1>1
<1>3. ~IsBound(next')
  <2>1. next' - 1 = Len(argv) + 1
    BY <1>2
  <2>2. ~TakesNext(Len(argv) + 1)
    BY <1>2 DEF TakesNext
  <2> QED BY <2>1, <2>2 DEF IsBound
<1>4. Plain(next' - 1) = Plain(next - 1)
  <2>1. \A i \in 1 .. Len(argv) : i <= next' - 1 /\ i <= next - 1
    BY <1>1, <1>2
  <2>2. \A i : i \in Plain(next' - 1) <=> i \in Plain(next - 1)
    BY <2>1, InPlain, Zenon
  <2> QED BY <2>2, Zenon
<1>5. WordsInv'
  BY <1>1, <1>4, WordsStay DEF ArgsInv, WordsInv
<1>6. \A i \in 1 .. Len(argv) : i < next' /\ i < next
  BY <1>1, <1>2
<1>7. \A i \in 1 .. Len(argv), a \in Args : LastRead(i, a) => LastRead(i, a)'
  BY <1>1, <1>6, WordsStay DEF LastRead
<1>8. ValuesInv'
  BY <1>1, <1>6, <1>7, WordsStay DEF ArgsInv, ValuesInv
<1>9. modes' = {a \in {"help", "terminal"} : values[a] = "true"}
  <2>1. /\ \A a \in {"help", "terminal"} : getValue(a) = values[a]
        /\ getValue("h") = values["help"] /\ getValue("t") = values["terminal"]
    BY ArgsAssumption DEF getValue, findCanonicalName
  <2> QED BY <2>1 DEF parseEnd
<1> QED BY <1>1, <1>2, <1>3, <1>5, <1>8, <1>9, WordsStay DEF ArgsInv, parseEnd

LEMMA ArgsParsed == ArgsInv => Parsed
<1> SUFFICES ASSUME ArgsInv, next = Len(argv) + 2
             PROVE  /\ \A a \in Args : getValue(a) = Meaning(a) /\ <<a, Meaning(a)>> \in called
                    /\ \A s \in DOMAIN Shorts \ Args : getValue(s) = Meaning(Shorts[s])
                    /\ positional = PlainWords
                    /\ modes = {a \in {"help", "terminal"} : Meaning(a) = "true"}
  BY DEF Parsed
<1>1. argv \in Seq(Words) /\ \A i \in 1 .. Len(argv) : i < next /\ i <= Len(argv)
  BY DEF ArgsInv
<1>2. ASSUME NEW a \in Args PROVE values[a] = Meaning(a)
  <2> DEFINE given == {i \in 1 .. Len(argv) : IsOption(i, a)}
  <2>1. CASE given = {}
    <3>1. ~\E i \in 1 .. Len(argv) : LastRead(i, a)
      BY <2>1 DEF LastRead
    <3>2. values[a] = Defaults[a]
      BY <3>1 DEF ArgsInv, ValuesInv
    <3> QED BY <2>1, <3>2 DEF Meaning
  <2>2. CASE given # {}
    <3>1. PICK i \in 1 .. Len(argv) : LastRead(i, a) /\ values[a] = valueOf(i)
      BY <1>1, <2>2 DEF ArgsInv, ValuesInv
    <3>2. i \in given /\ \A j \in given : j <= i
      BY <1>1, <3>1 DEF LastRead
    <3>3. \A k \in given : (\A j \in given : j <= k) => k = i
      BY <3>2
    <3>4. (CHOOSE k \in given : \A j \in given : j <= k) = i
      <4> HIDE DEF given
      <4> QED BY <3>2, <3>3
    <3> QED BY <2>2, <3>1, <3>4 DEF Meaning
  <2> QED BY <2>1, <2>2
<1>3. \A a \in Args : getValue(a) = Meaning(a)
  <2> TAKE a \in Args
  <2>1. findCanonicalName(a) = {a}
    BY DEF findCanonicalName
  <2> QED BY <1>2, <2>1 DEF getValue
<1>4. \A s \in DOMAIN Shorts \ Args : getValue(s) = Meaning(Shorts[s])
  <2> TAKE s \in DOMAIN Shorts \ Args
  <2>1. findCanonicalName(s) = {Shorts[s]} /\ Shorts[s] \in Args
    BY ArgsAssumption DEF findCanonicalName
  <2> QED BY <1>2, <2>1 DEF getValue
<1>5. positional = PlainWords
  <2> DEFINE P == Plain(Len(argv))
             nth(k) == CHOOSE i \in P : Cardinality(Plain(i)) = k
  <2>1. Plain(next - 1) = P
    <3>1. \A i \in 1 .. Len(argv) : i <= next - 1 /\ i <= Len(argv)
      BY <1>1 DEF ArgsInv
    <3>2. \A i : i \in Plain(next - 1) <=> i \in P
      BY <3>1, InPlain, Zenon
    <3> QED BY <3>2, Zenon
  <2>2. Len(positional) = Cardinality(P) /\ positional = [k \in 1 .. Len(positional) |-> positional[k]]
    BY <2>1 DEF ArgsInv, WordsInv
  <2>3. ASSUME NEW k \in 1 .. Len(positional) PROVE positional[k] = argv[nth(k)].value
    <3>1. nth(k) \in P /\ Cardinality(Plain(nth(k))) = k
      BY <2>1 DEF ArgsInv, WordsInv
    <3> QED BY <2>1, <3>1 DEF ArgsInv, WordsInv
  <2> QED BY <2>2, <2>3 DEF PlainWords
<1>6. modes = {a \in {"help", "terminal"} : Meaning(a) = "true"}
  BY <1>2, ArgsAssumption DEF ArgsInv
<1> QED BY <1>2, <1>3, <1>4, <1>5, <1>6 DEF ArgsInv

\* Once parse (CommandLineParser.cpp) has returned, every argument has the value of its
\* last option, by either of its names, and the positional words are the plain words no
\* option took, in order, for any arguments, short names and words.
THEOREM ParsedCorrect == ArgsSpec => []Parsed
<1>1. ArgsInv /\ [ArgsNext]_cmdVars => ArgsInv'
  <2> SUFFICES ASSUME ArgsInv, UNCHANGED cmdVars PROVE ArgsInv'
    BY ArgsOption, ArgsWord, ArgsEnd DEF ArgsNext
  <2>1. UNCHANGED <<argv, next, values, positional, modes, called>>
    BY DEF cmdVars
  <2>2. \A i, a : LastRead(i, a)' <=> LastRead(i, a)
    BY <2>1, WordsStay DEF LastRead
  <2> QED BY <2>1, <2>2, WordsStay DEF ArgsInv, ValuesInv, WordsInv
<1> QED BY <1>1, ArgsBegins, ArgsParsed, PTL DEF ArgsSpec
=============================================================================
