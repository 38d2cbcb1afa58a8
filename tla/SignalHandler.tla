--------------------------- MODULE SignalHandler ---------------------------
(***************************************************************************)
(* SignalHandler.cpp: a signal interrupts some thread.  SIGTERM (SIGINT is *)
(* the same) is handled on the spot, SIGHUP is put into a queue, under a   *)
(* mutex, for the thread that runs its handler.                            *)
(*                                                                         *)
(* IApp extends this module and says what the handlers do.                 *)
(***************************************************************************)
EXTENDS Naturals, Sequences

CONSTANT QueueSize         \* SIGNAL_QUEUE_SIZE

ASSUME QueueAssumption == QueueSize \in Nat \ {0}

VARIABLES
    handlers,      \* handlers: who registered last for a signal
    queue,         \* signal_queue
    sigMutex,      \* the thread that has signal_mutex, or "none"
    sigRunning,    \* running
    sigPc,         \* where the thread of the handler is
    frame          \* frame[t]: the handler that has interrupted thread t

sigVars == <<handlers, queue, sigMutex, sigRunning, sigPc, frame>>

Threads == {"main", "tick", "signal", "monitor", "stdio"}
Signals == {"TERM", "HUP"}

\* The state after SignalHandler::initialize.
SigInit ==
    /\ handlers = [s \in Signals |-> "default"]
    /\ queue = << >>
    /\ sigMutex = "none"
    /\ sigRunning = TRUE
    /\ sigPc = "top"
    /\ frame = [t \in Threads |-> "none"]

\* A thread goes on when no handler is on top of it.
Free(t) == frame[t] = "none"

registerHandler(s) ==
    /\ handlers' = [handlers EXCEPT ![s] = "app"]
    /\ UNCHANGED <<queue, sigMutex, sigRunning, sigPc, frame>>

\* handleSignal of a synchronous signal: its handler runs to its end.
handleSignalSync == UNCHANGED sigVars

\* handleSignal of an asynchronous one: the handler wants signal_mutex.
handleSignalAsync(t) ==
    /\ Free(t)
    /\ frame' = [frame EXCEPT ![t] = "push"]
    /\ UNCHANGED <<handlers, queue, sigMutex, sigRunning, sigPc>>

pushSignal(t) ==
    /\ frame[t] = "push"
    /\ sigMutex = "none"
    /\ queue' = IF Len(queue) < QueueSize THEN Append(queue, "HUP") ELSE queue
    /\ frame' = [frame EXCEPT ![t] = "none"]
    /\ UNCHANGED <<handlers, sigMutex, sigRunning, sigPc>>

-----------------------------------------------------------------------------
(* The thread of the handler.                                               *)

\* A wrong wait: only a signal ends it.
SigTopDeaf ==
    /\ Free("signal")
    /\ \/ /\ sigPc = "top" /\ ~sigRunning
          /\ sigPc' = "ended"
          /\ UNCHANGED sigMutex
       \/ /\ \/ sigPc = "top" /\ sigRunning
             \/ sigPc = "wait" /\ queue # << >>
          /\ sigMutex = "none"
          /\ sigMutex' = "signal"
          /\ sigPc' = "pop"
    /\ UNCHANGED <<handlers, queue, sigRunning, frame>>

\* The loop condition; then popSignal takes the mutex.
SigTop ==
    /\ Free("signal")
    /\ \/ /\ sigPc = "top" /\ ~sigRunning
          /\ sigPc' = "ended"
          /\ UNCHANGED sigMutex
       \/ /\ \/ sigPc = "top" /\ sigRunning
             \/ sigPc = "wait" /\ (queue # << >> \/ ~sigRunning)
          /\ sigMutex = "none"
          /\ sigMutex' = "signal"
          /\ sigPc' = "pop"
    /\ UNCHANGED <<handlers, queue, sigRunning, frame>>

\* popSignal with the mutex: wait, give up, or take the first.
popSignal ==
    /\ Free("signal") /\ sigPc = "pop"
    /\ sigMutex' = "none"
    /\ \/ /\ sigRunning /\ queue = << >>
          /\ sigPc' = "wait"
          /\ UNCHANGED queue
       \/ /\ ~sigRunning
          /\ sigPc' = "top"
          /\ UNCHANGED queue
       \/ /\ sigRunning /\ queue # << >>
          /\ queue' = Tail(queue)
          /\ sigPc' = "handle"
    /\ UNCHANGED <<handlers, sigRunning, frame>>

\* The handler of the signal that was taken.
SigHandled ==
    /\ Free("signal") /\ sigPc = "handle"
    /\ sigPc' = "top"
    /\ UNCHANGED <<handlers, queue, sigMutex, sigRunning, frame>>

\* Impl::stop, by the main thread: the mutex, the flag, the join.
StopLock ==
    /\ sigMutex = "none"
    /\ sigMutex' = "main"
    /\ UNCHANGED <<handlers, queue, sigRunning, sigPc, frame>>

StopFlag ==
    /\ sigMutex = "main"
    /\ sigMutex' = "none"
    /\ sigRunning' = FALSE
    /\ UNCHANGED <<handlers, queue, sigPc, frame>>
=============================================================================
