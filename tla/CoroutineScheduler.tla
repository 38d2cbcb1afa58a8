------------------------- MODULE CoroutineScheduler -------------------------
(***************************************************************************)
(* core/coroutine/CoroutineScheduler and the two operations of BusClient   *)
(* built on it, Request (send, then yield for 3 s) and HandleResponse      *)
(* (resume the coroutine the reply names).  A coroutine is a message       *)
(* handler that makes up to MaxReq requests, one after the other.  The     *)
(* worker threads, the threads that deliver replies and the timeout thread *)
(* interleave at every atomic, every mutex and every switch of coroutine.  *)
(***************************************************************************)
EXTENDS Integers, Sequences, FiniteSets

CONSTANTS Tasks,      \* coroutines; a task is also its co_id
          Workers, Resumers,
          MaxReq,     \* bound: requests one handler makes
          None        \* nullptr

ASSUME SchedAssumption == /\ MaxReq \in Nat \ {0} /\ IsFiniteSet(Tasks)
                          /\ None \notin Tasks /\ None \notin Nat

VARIABLES
  task_queue,       \* queue of runnable coroutines, with repetitions
  all_tasks,        \* the coroutines resume() and the timeout thread can find
  waiting, timeout_enabled, timed_out, resume_value,   \* fields of TaskItem
  due,              \* the timeout_point of the last yield has passed
  at,               \* where the body of the coroutine is
  req,              \* the number of the request it is making
  outcome,          \* outcome[t][n]: what request n returned
  wpc, wtask,       \* each worker's step and its task
  replies,          \* replies in the rings: <<co_id, request answered>>
  rpc, rmsg,        \* each delivering thread's step and the reply it holds
  expired,          \* what the timeout thread has collected, in its order
  tpc               \* the timeout thread's step for the first of them

taskvars == <<waiting, timeout_enabled, timed_out, resume_value, due>>
bodyvars == <<at, req, outcome>>
timervars == <<expired, tpc>>
vars == <<task_queue, all_tasks, taskvars, bodyvars, wpc, wtask, replies, rpc, rmsg,
          timervars>>

Requests == 1 .. MaxReq
Pending == 0         \* outcome of a request that has not returned
Running(t) == \E w \in Workers : wpc[w] = "running" /\ wtask[w] = t

Init == /\ task_queue = <<>> /\ all_tasks = {}
        /\ waiting = [t \in Tasks |-> FALSE]
        /\ timeout_enabled = [t \in Tasks |-> FALSE]
        /\ timed_out = [t \in Tasks |-> FALSE]
        /\ resume_value = [t \in Tasks |-> None]
        /\ due = [t \in Tasks |-> FALSE]
        /\ at = [t \in Tasks |-> "new"]
        /\ req = [t \in Tasks |-> 1]
        /\ outcome = [t \in Tasks |-> [n \in Requests |-> Pending]]
        /\ wpc = [w \in Workers |-> "wait"] /\ wtask = [w \in Workers |-> None]
        /\ replies = {}
        /\ rpc = [r \in Resumers |-> "idle"] /\ rmsg = [r \in Resumers |-> None]
        /\ expired = <<>> /\ tpc = "idle"

enqueue_ready(t) == task_queue' = Append(task_queue, t)

\* IoLoop: a message arrived, its handler becomes a coroutine.
schedule(t) == /\ at[t] = "new"
               /\ at' = [at EXCEPT ![t] = "start"]
               /\ all_tasks' = all_tasks \cup {t}
               /\ enqueue_ready(t)
               /\ UNCHANGED <<taskvars, req, outcome, wpc, wtask, replies, rpc, rmsg,
                              timervars>>

----------------------------------------------------------------------------
(* A worker: worker_routine.                                               *)

WorkerAt(w, step, t) == wpc' = [wpc EXCEPT ![w] = step] /\ wtask' = [wtask EXCEPT ![w] = t]

\* Takes the front of the queue; a coroutine that has completed is skipped.
WorkerPop(w) == /\ wpc[w] = "wait" /\ task_queue # <<>>
                /\ task_queue' = Tail(task_queue)
                /\ IF at[Head(task_queue)] = "finished"
                   THEN UNCHANGED <<wpc, wtask>>
                   ELSE WorkerAt(w, "popped", Head(task_queue))
                /\ UNCHANGED <<all_tasks, taskvars, bodyvars, replies, rpc, rmsg, timervars>>

\* task->resume().  It refuses a coroutine that runs or has completed; one that
\* is parked in yield goes on, whether or not somebody meant to wake it.
WorkerResume(w) == /\ wpc[w] = "popped"
                   /\ IF Running(wtask[w]) \/ at[wtask[w]] = "finished"
                      THEN WorkerAt(w, "ran", wtask[w])
                      ELSE WorkerAt(w, "running", wtask[w])
                   /\ UNCHANGED <<task_queue, all_tasks, taskvars, bodyvars, replies,
                                  rpc, rmsg, timervars>>

\* After the switch back: a coroutine that is neither complete nor waiting is
\* queued again, a complete one is forgotten.
WorkerAfter(w) == /\ wpc[w] = "ran"
                  /\ LET t == wtask[w]
                     IN  IF at[t] = "finished"
                         THEN /\ all_tasks' = all_tasks \ {t}
                              /\ UNCHANGED task_queue
                         ELSE /\ IF waiting[t] THEN UNCHANGED task_queue ELSE enqueue_ready(t)
                              /\ UNCHANGED all_tasks
                  /\ WorkerAt(w, "wait", None)
                  /\ UNCHANGED <<taskvars, bodyvars, replies, rpc, rmsg, timervars>>

----------------------------------------------------------------------------
(* The body of the coroutine that worker w is running: Request and yield.  *)

Body(w, t, from, to) == /\ wpc[w] = "running" /\ wtask[w] = t
                        /\ at[t] = from
                        /\ at' = [at EXCEPT ![t] = to]

\* Request puts co_id in the message and sends it: the answer can come from now
\* on, before the coroutine waits for it.
Send(w, t) == /\ Body(w, t, "start", "sent")
              /\ replies' = replies \cup {<<t, req[t]>>}
              /\ UNCHANGED <<task_queue, all_tasks, taskvars, req, outcome, wpc, wtask,
                             rpc, rmsg, timervars>>

\* yield marks the task as waiting ...
Mark(w, t) == /\ Body(w, t, "sent", "marked")
              /\ waiting' = [waiting EXCEPT ![t] = TRUE]
              /\ UNCHANGED <<task_queue, all_tasks, timeout_enabled, timed_out,
                             resume_value, due, req, outcome, wpc, wtask, replies, rpc,
                             rmsg, timervars>>

\* Mutant of the next: armed as a yield without a time is.
ArmForever(w, t) == /\ Body(w, t, "marked", "armed")
                    /\ timeout_enabled' = [timeout_enabled EXCEPT ![t] = FALSE]
                    /\ timed_out' = [timed_out EXCEPT ![t] = FALSE]
                    /\ due' = [due EXCEPT ![t] = FALSE]
                    /\ UNCHANGED <<task_queue, all_tasks, waiting, resume_value, req,
                                   outcome, wpc, wtask, replies, rpc, rmsg, timervars>>

\* ... arms the timeout ...
Arm(w, t) == /\ Body(w, t, "marked", "armed")
             /\ timeout_enabled' = [timeout_enabled EXCEPT ![t] = TRUE]
             /\ timed_out' = [timed_out EXCEPT ![t] = FALSE]
             /\ due' = [due EXCEPT ![t] = FALSE]
             /\ UNCHANGED <<task_queue, all_tasks, waiting, resume_value, req, outcome,
                            wpc, wtask, replies, rpc, rmsg, timervars>>

\* ... and switches back to the worker.
Park(w, t) == /\ Body(w, t, "armed", "parked")
              /\ WorkerAt(w, "ran", t)
              /\ UNCHANGED <<task_queue, all_tasks, taskvars, req, outcome, replies, rpc,
                             rmsg, timervars>>

\* A request is over with result got.  After nullptr the handler may end or go on.
Return(w, t, from, got) ==
  LET next == IF req[t] < MaxReq THEN {"start"} ELSE {"finished"}
  IN  /\ \E to \in next \cup (IF got = None THEN {"finished"} ELSE {}) :
           /\ Body(w, t, from, to)
           /\ IF to = "finished" THEN WorkerAt(w, "ran", t) ELSE UNCHANGED <<wpc, wtask>>
           /\ req' = [req EXCEPT ![t] = IF to = "start" THEN @ + 1 ELSE @]
      /\ outcome' = [outcome EXCEPT ![t][req[t]] = got]
      /\ UNCHANGED <<task_queue, all_tasks, taskvars, replies, rpc, rmsg, timervars>>

\* Running again: yield returns nullptr after a timeout, on which Request throws, and
\* resume_value otherwise.
YieldReturn(w, t) ==
  Return(w, t, "parked", IF timed_out[t] THEN None ELSE resume_value[t])

\* The bus is not ready, shared memory is full or there is nobody to send to: Request
\* returns nullptr and has not yielded.
SendFails(w, t) == Return(w, t, "start", None)

----------------------------------------------------------------------------
(* A thread that delivers a reply: HandleResponse and resume().            *)

ResumerAt(r, step, m) == rpc' = [rpc EXCEPT ![r] = step] /\ rmsg' = [rmsg EXCEPT ![r] = m]

\* find_task and the exchange waiting: true -> false.  When it fails the reply
\* is dropped.
ResumeClaim(r) ==
  \E m \in replies :
    /\ rpc[r] = "idle"
    /\ replies' = replies \ {m}
    /\ IF m[1] \in all_tasks /\ at[m[1]] # "finished" /\ waiting[m[1]]
       THEN /\ waiting' = [waiting EXCEPT ![m[1]] = FALSE]
            /\ ResumerAt(r, "claimed", m)
       ELSE UNCHANGED <<waiting, rpc, rmsg>>
    /\ UNCHANGED <<task_queue, all_tasks, timeout_enabled, timed_out, resume_value, due,
                   bodyvars, wpc, wtask, timervars>>

\* Under val_mtx: the value is stored and the timeout switched off.
ResumeStore(r) == /\ rpc[r] = "claimed"
                  /\ LET t == rmsg[r][1]
                     IN  /\ resume_value' = [resume_value EXCEPT ![t] = rmsg[r][2]]
                         /\ timeout_enabled' = [timeout_enabled EXCEPT ![t] = FALSE]
                  /\ ResumerAt(r, "stored", rmsg[r])
                  /\ UNCHANGED <<task_queue, all_tasks, waiting, timed_out, due, bodyvars,
                                 wpc, wtask, replies, timervars>>

\* Mutant of the next: the coroutine is left to the worker that ran it.
ResumeWithoutQueueing(r) == /\ rpc[r] = "stored"
                            /\ ResumerAt(r, "idle", None)
                            /\ UNCHANGED <<task_queue, all_tasks, taskvars, bodyvars, wpc,
                                           wtask, replies, timervars>>

ResumeEnqueue(r) == /\ rpc[r] = "stored"
                    /\ enqueue_ready(rmsg[r][1])
                    /\ ResumerAt(r, "idle", None)
                    /\ UNCHANGED <<all_tasks, taskvars, bodyvars, wpc, wtask, replies,
                                   timervars>>

----------------------------------------------------------------------------
(* The timeout thread.                                                     *)

\* Time goes by: the deadline of a yield passes.
TimePasses(t) == /\ at[t] \in {"armed", "parked"} /\ ~due[t]
                 /\ due' = [due EXCEPT ![t] = TRUE]
                 /\ UNCHANGED <<task_queue, all_tasks, waiting, timeout_enabled, timed_out,
                                resume_value, bodyvars, wpc, wtask, replies, rpc, rmsg,
                                timervars>>

Overdue == {t \in all_tasks : timeout_enabled[t] /\ waiting[t] /\ due[t]}

\* One pass over all_tasks_ under its mutex.
TimeoutCollect == /\ expired = <<>> /\ Overdue # {}
                  /\ expired' \in {s \in [1 .. Cardinality(Overdue) -> Overdue] :
                                     \A i, j \in DOMAIN s : i # j => s[i] # s[j]}
                  /\ UNCHANGED <<task_queue, all_tasks, taskvars, bodyvars, wpc, wtask,
                                 replies, rpc, rmsg, tpc>>

\* Later, for each of them: the same exchange as resume(); the next one when it fails.
TimeoutClaim == /\ tpc = "idle" /\ expired # <<>>
                /\ LET t == Head(expired)
                   IN  IF waiting[t]
                       THEN /\ waiting' = [waiting EXCEPT ![t] = FALSE]
                            /\ tpc' = "claimed"
                            /\ UNCHANGED expired
                       ELSE /\ expired' = Tail(expired)
                            /\ UNCHANGED <<waiting, tpc>>
                /\ UNCHANGED <<task_queue, all_tasks, timeout_enabled, timed_out,
                               resume_value, due, bodyvars, wpc, wtask, replies, rpc, rmsg>>

\* Under val_mtx: no value, and a timeout.
TimeoutStore == /\ tpc = "claimed"
                /\ LET t == Head(expired)
                   IN  /\ timed_out' = [timed_out EXCEPT ![t] = TRUE]
                       /\ timeout_enabled' = [timeout_enabled EXCEPT ![t] = FALSE]
                       /\ resume_value' = [resume_value EXCEPT ![t] = None]
                /\ tpc' = "stored"
                /\ UNCHANGED <<task_queue, all_tasks, waiting, due, bodyvars, wpc, wtask,
                               replies, rpc, rmsg, expired>>

TimeoutEnqueue == /\ tpc = "stored"
                  /\ enqueue_ready(Head(expired))
                  /\ expired' = Tail(expired) /\ tpc' = "idle"
                  /\ UNCHANGED <<all_tasks, taskvars, bodyvars, wpc, wtask, replies, rpc,
                                 rmsg>>

----------------------------------------------------------------------------
WorkerStep(w) == \/ WorkerPop(w) \/ WorkerResume(w) \/ WorkerAfter(w)
                 \/ \E t \in Tasks : \/ Send(w, t) \/ SendFails(w, t) \/ Mark(w, t)
                                     \/ Arm(w, t) \/ Park(w, t) \/ YieldReturn(w, t)

Timeouts == TimeoutCollect \/ TimeoutClaim \/ TimeoutStore \/ TimeoutEnqueue

Next == \/ \E t \in Tasks : schedule(t) \/ TimePasses(t)
        \/ \E w \in Workers : WorkerStep(w)
        \/ \E r \in Resumers : ResumeClaim(r) \/ ResumeStore(r) \/ ResumeEnqueue(r)
        \/ Timeouts

\* Every thread that start() makes goes on running and time goes on passing; replies
\* may be lost.  IBus.cpp:75 makes the scheduler and no code of the repository calls
\* start(): nothing below is promised of a process that leaves it so.
Fairness == /\ \A w \in Workers : WF_vars(WorkerStep(w))
            /\ \A r \in Resumers : WF_vars(ResumeStore(r) \/ ResumeEnqueue(r))
            /\ \A t \in Tasks : WF_vars(TimePasses(t))
            /\ WF_vars(Timeouts)

Spec == Init /\ [][Next]_vars /\ Fairness

----------------------------------------------------------------------------
\* The types of the state; a worker knows a task only while it handles it
\* (tls_current_task_ is reset).
TypeOK == /\ task_queue \in Seq(Tasks) /\ all_tasks \subseteq Tasks
          /\ waiting \in [Tasks -> BOOLEAN] /\ timeout_enabled \in [Tasks -> BOOLEAN]
          /\ timed_out \in [Tasks -> BOOLEAN] /\ due \in [Tasks -> BOOLEAN]
          /\ resume_value \in [Tasks -> Requests \cup {None}]
          /\ at \in [Tasks -> {"new", "start", "sent", "marked", "armed", "parked",
                               "finished"}]
          /\ req \in [Tasks -> Requests]
          /\ outcome \in [Tasks -> [Requests -> Requests \cup {Pending, None}]]
          /\ wpc \in [Workers -> {"wait", "popped", "running", "ran"}]
          /\ wtask \in [Workers -> Tasks \cup {None}]
          /\ replies \subseteq Tasks \X Requests
          /\ \A w \in Workers : wpc[w] = "wait" <=> wtask[w] = None
          /\ rpc \in [Resumers -> {"idle", "claimed", "stored"}]
          /\ rmsg \in [Resumers -> (Tasks \X Requests) \cup {None}]
          /\ expired \in Seq(Tasks) /\ tpc \in {"idle", "claimed", "stored"}

InQueue(t) == \E i \in DOMAIN task_queue : task_queue[i] = t
InHand(t) == \/ \E w \in Workers : wtask[w] = t
             \/ \E r \in Resumers : rpc[r] # "idle" /\ rmsg[r][1] = t
             \/ tpc # "idle" /\ Head(expired) = t

\* No coroutine is lost: one that is unfinished and that nobody is about to run or
\* to queue is waiting with its timeout on.  (worker_routine looks at waiting after
\* the switch, resume() and the timeout thread clear it before they queue.)  Every
\* variable has its type.
NoLostTask ==
  /\ TypeOK
  /\ \A t \in all_tasks : at[t] = "finished" \/ InQueue(t) \/ InHand(t)
                             \/ (waiting[t] /\ timeout_enabled[t])

\* IBus.h:52, CoroutineScheduler.cpp:115: Request returns the reply to it, or fails.
OwnReply == \A t \in Tasks, n \in Requests : outcome[t][n] \in {Pending, None, n}

\* CoroutineScheduler.h:47: a coroutine that yields resumes by itself after the
\* given time, whether or not a reply comes.
YieldReturns == \A t \in Tasks : (at[t] = "parked") ~> (at[t] # "parked")
=============================================================================
