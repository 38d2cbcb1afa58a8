------------------------------ MODULE TcpClient ------------------------------
(***************************************************************************)
(* core/network/TcpClient as a node uses it for its link to the centre:    *)
(* one connection at a time, the event thread that reads it, the main      *)
(* thread and the timer thread that send on it, and the heartbeat that     *)
(* gives up a silent connection and makes the next.  stop() runs on any of *)
(* the three threads: it clears running_, looks whether the event thread   *)
(* can be joined, waits for its end, and closes conn_.                     *)
(* common/Timer comes first: periodic tasks and the one thread that runs   *)
(* them, in the order in which they fall due.  While a callback runs its   *)
(* task is out of the table.  Two tasks with the same callback are alike,  *)
(* and how long an interval is does not matter here.                       *)
(***************************************************************************)
EXTENDS Naturals, Sequences, FiniteSets

CONSTANTS
    Callbacks, Idle,
    MaxTasks,      \* bound: tasks that are ever made of a callback
    MaxInFlight,   \* bound: requests under way before another is sent
    MaxLosses      \* bound: connections that are lost or spoiled

ASSUME ClientAssumption == MaxInFlight \in Nat /\ MaxLosses \in Nat /\ MaxTasks > 0

ASSUME TimerAssumption == MaxTasks \in Nat /\ Idle \notin Callbacks

VARIABLES
    made,        \* how many tasks were made of each callback
    due,         \* tasks_ whose nextRun has passed, in that order
    job          \* the callback that runs, or Idle

timervars == <<made, due, job>>

TimerInit == made = [cb \in Callbacks |-> 0] /\ due = <<>> /\ job = Idle

\* The tasks of cb whose nextRun is to come.
Waiting(cb) == made[cb] - Cardinality({n \in DOMAIN due : due[n] = cb})
                        - (IF job = cb THEN 1 ELSE 0)

CanAdd(cb) == made[cb] < MaxTasks

runEvery(cb) ==
    /\ CanAdd(cb)
    /\ made' = [made EXCEPT ![cb] = @ + 1]

FallDue(cb) ==
    /\ Waiting(cb) > 0
    /\ due' = Append(due, cb)
    /\ UNCHANGED <<made, job>>

\* workerThread takes the earliest task out and calls it, the mutex free.
TakeTask ==
    /\ job = Idle /\ due # <<>>
    /\ job' = Head(due)
    /\ due' = Tail(due)
    /\ UNCHANGED made

\* The callback is back, or has thrown: the task waits for its next turn.
Requeue ==
    /\ job' = Idle
    /\ UNCHANGED <<made, due>>

TimerTypeOK ==
    /\ made \in [Callbacks -> 0 .. MaxTasks]
    /\ job \in Callbacks \cup {Idle}
    /\ \A cb \in Callbacks : Waiting(cb) \in Nat

----------------------------------------------------------------------------
(* TcpClient                                                               *)

VARIABLES
    running_,
    event_thread_, \* "none" (not joinable), "loop" or "ended"
    link,          \* conn_: "none", "up", "cut" (the peer closed it), "dead" (nothing
                   \* gets through, nobody is told) or "closed" by this side
    silent,        \* lastActiveTime of conn_ is 30 s ago
    at,            \* where a thread is in stop() and, for the timer's, in start()
    requests, answers,  \* what is under way on the connection
    losses,
    terminated     \* std::terminate was called

clientvars == <<running_, event_thread_, link, silent, at, requests, answers, losses,
                terminated>>

Threads == {"main", "timer", "event"}
Stages == {"no", "check", "join", "close", "start", "connect"}

\* TcpClient_->start() of IBusNet::init.  When it fails running_ stays set and no
\* heartbeat was installed.
LinkInit(connected) ==
    /\ running_ = TRUE
    /\ event_thread_ = IF connected THEN "loop" ELSE "none"
    /\ link = IF connected THEN "up" ELSE "none"
    /\ silent = FALSE
    /\ at = [t \in Threads |-> "no"]
    /\ requests = <<>> /\ answers = <<>>
    /\ losses = 0 /\ terminated = FALSE
    /\ made = [cb \in Callbacks |-> IF connected /\ cb = "heartbeat" THEN 1 ELSE 0]
    /\ due = <<>> /\ job = Idle

Stage(t, from, to) == at[t] = from /\ at' = [at EXCEPT ![t] = to]

----------------------------------------------------------------------------
(* stop()                                                                  *)

StopBegin(t) == Stage(t, "no", "check") /\ running_' = FALSE

\* Mutant of the next: what is not running needs no join.
StopCheckHasty(t) ==
    /\ Stage(t, "check", IF t = "main" /\ event_thread_ # "none" THEN "join" ELSE "close")
    /\ UNCHANGED <<timervars, running_, event_thread_, link, silent, requests, answers,
                   losses, terminated>>

\* joinable(), and not this thread.
StopCheck(t) ==
    /\ Stage(t, "check", IF t # "event" /\ event_thread_ # "none" THEN "join" ELSE "close")
    /\ UNCHANGED <<timervars, running_, event_thread_, link, silent, requests, answers,
                   losses, terminated>>

StopJoined(t) ==
    /\ Stage(t, "join", "close")
    /\ event_thread_ = "ended" /\ \A u \in Threads \ {t} : at[u] # "join"
    /\ event_thread_' = "none"
    /\ UNCHANGED <<timervars, running_, link, silent, requests, answers, losses,
                   terminated>>

\* A second join of the same thread throws: the timer's thread swallows what its
\* callback throws, the main thread does not.
JoinThrows(t, u) ==
    /\ t # u /\ at[t] = "join" /\ at[u] = "join"
    /\ IF t = "timer"
       THEN /\ at' = [at EXCEPT ![t] = "no"]
            /\ Requeue
            /\ UNCHANGED terminated
       ELSE terminated' = TRUE /\ UNCHANGED <<timervars, at>>
    /\ UNCHANGED <<running_, event_thread_, link, silent, requests, answers, losses>>

Closed(l) == IF l = "none" THEN "none" ELSE "closed"

\* What is under way is lost with the connection.
StopClose(t) ==
    /\ Stage(t, "close", IF t = "timer" /\ job = "heartbeat" THEN "start" ELSE "no")
    /\ link' = Closed(link)
    /\ requests' = <<>> /\ answers' = <<>>
    /\ IF t = "timer" /\ job # "heartbeat" THEN Requeue ELSE UNCHANGED timervars
    /\ UNCHANGED <<running_, event_thread_, silent, losses, terminated>>

----------------------------------------------------------------------------
(* start() of the heartbeat.                                               *)

StartBegin ==
    /\ Stage("timer", "start", "connect")
    /\ running_' = TRUE
    /\ UNCHANGED <<timervars, event_thread_, link, silent, requests, answers, losses,
                   terminated>>

\* connectToServer fails: running_ stays set, conn_ is still the old one.  It takes longer
\* than the rest of a stop() on the main thread, but for MaxLosses times.
ConnectFails ==
    /\ Stage("timer", "connect", "no")
    /\ at["main"] = "no" \/ losses < MaxLosses
    /\ Requeue
    /\ UNCHANGED <<running_, event_thread_, link, silent, requests, answers, losses,
                   terminated>>

Spoil == losses < MaxLosses /\ losses' = losses + 1

\* It succeeds: a new conn_, a new thread, and one more heartbeat.  A main thread in the
\* middle of stop() is going to spoil it.
ConnectSucceeds ==
    /\ Stage("timer", "connect", "no")
    /\ CanAdd("heartbeat")
    /\ link' = "up" /\ silent' = FALSE
    /\ requests' = <<>> /\ answers' = <<>>
    /\ terminated' = (event_thread_ # "none")
    /\ event_thread_' = "loop"
    /\ made' = [made EXCEPT !["heartbeat"] = @ + 1]
    /\ job' = Idle
    /\ IF at["main"] = "no" THEN UNCHANGED losses ELSE Spoil
    /\ UNCHANGED <<due, running_>>

checkHeartbeat ==
    /\ job = "heartbeat" /\ at["timer"] = "no"
    /\ IF silent
       THEN StopBegin("timer") /\ UNCHANGED timervars
       ELSE Requeue /\ UNCHANGED <<running_, at>>
    /\ UNCHANGED <<event_thread_, link, silent, requests, answers, losses, terminated>>

----------------------------------------------------------------------------
(* send() of thread t, which does something else otherwise.                *)

Gone == {"cut", "dead", "closed"}

\* On a lost connection the data may still be taken, and go nowhere; it counts as a sign of
\* life all the same.
SendTaken(m) ==
    /\ running_ /\ link \in {"up", "cut", "dead"}
    /\ Len(requests) + Len(answers) < MaxInFlight
    /\ requests' = IF link = "up" THEN Append(requests, m) ELSE requests
    /\ silent' = FALSE
    /\ UNCHANGED <<running_, at, losses>>

\* The socket refuses: the close handler is stop(), on this thread.  In the middle of
\* start() that spoils the connection which is being made: it counts as a loss.
SendFails(t) ==
    /\ running_ /\ link \in Gone
    /\ IF at["timer"] = "connect" THEN Spoil ELSE UNCHANGED losses
    /\ StopBegin(t)
    /\ UNCHANGED <<silent, requests>>

\* "Cannot send, client not running"
SendNot == ~running_ /\ UNCHANGED <<running_, at, silent, requests, losses>>

send(t, m) == at[t] = "no" /\ (SendTaken(m) \/ SendFails(t) \/ SendNot)

----------------------------------------------------------------------------
(* The event thread, which between two events looks at running_.           *)

InLoop == event_thread_ = "loop" /\ at["event"] = "no"

LoopEnds ==
    /\ InLoop /\ ~running_
    /\ event_thread_' = "ended"
    /\ UNCHANGED <<timervars, running_, link, silent, at, requests, answers, losses,
                   terminated>>

\* eventHandler: RDHUP, or a read of nothing.
eventHandler ==
    /\ InLoop /\ link = "cut"
    /\ StopBegin("event")
    /\ UNCHANGED <<timervars, event_thread_, link, silent, requests, answers, losses,
                   terminated>>

\* onReadable hands the next answer to the node.
Receive ==
    /\ InLoop /\ link \in {"up", "cut"} /\ answers # <<>>
    /\ answers' = Tail(answers)
    /\ silent' = FALSE

----------------------------------------------------------------------------
(* The network and the clock.                                              *)

Lose(how) ==
    /\ link = "up" /\ Spoil
    /\ link' = how
    /\ requests' = <<>>
    /\ answers' = IF how = "dead" THEN <<>> ELSE answers
    /\ UNCHANGED <<timervars, running_, event_thread_, silent, at, terminated>>

\* TCP gives a dead connection up: from then on the socket reports an error.
GiveUp ==
    /\ link = "dead" /\ link' = "cut"
    /\ UNCHANGED <<timervars, running_, event_thread_, silent, at, requests, answers,
                   losses, terminated>>

\* No data for 30 s, in either direction.  The steps of stop() and start() that wait for
\* nobody take less than that.
FallSilent ==
    /\ \A t \in Threads : at[t] \in {"no", "join"}
    /\ ~silent /\ (link \in Gone \/ (link = "up" /\ event_thread_ # "loop"))
    /\ silent' = TRUE
    /\ UNCHANGED <<timervars, running_, event_thread_, link, at, requests, answers, losses,
                   terminated>>

ClientTypeOK ==
    /\ running_ \in BOOLEAN /\ silent \in BOOLEAN
    /\ event_thread_ \in {"none", "loop", "ended"}
    /\ link \in {"none", "up"} \cup Gone
    /\ at \in [Threads -> Stages]
    /\ Len(requests) + Len(answers) <= MaxInFlight
    /\ losses \in 0 .. MaxLosses
=============================================================================
