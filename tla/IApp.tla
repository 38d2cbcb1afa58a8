-------------------------------- MODULE IApp --------------------------------
(***************************************************************************)
(* IApp.cpp with the threads it starts: the main thread (initialize, the   *)
(* main loop or the terminal's loop, the shut-down and the destructors),   *)
(* the tick thread, the monitor of the configuration file, the thread for  *)
(* signals and the terminal's stdio thread (TerminalInterface.cpp).        *)
(*                                                                         *)
(* on... callbacks of the application end, and have no effect here.        *)
(***************************************************************************)
EXTENDS SignalHandler, ConfigManager

CONSTANT MaxEvents       \* bound: signals, commands and edits of a run

ASSUME EventAssumption == MaxEvents \in Nat

VARIABLES
    terminal,      \* isTerminalMode()
    pc,            \* where the main thread is
    running,       \* m_running
    shouldReload,  \* m_should_reload
    tick,          \* the tick thread
    timer,         \* GlobalSpace()->timer_
    stdio,         \* the stdio thread of the terminal
    termRunning,   \* m_running of TerminalInterface
    events,        \* signals, commands and edits so far
    applied,       \* history: the content the last onInit or onReload found
    owed           \* history: a SIGHUP was taken since the last onReload

flags == <<running, shouldReload>>
tickVars == <<tick, timer>>
termVars == <<stdio, termRunning>>
history == <<applied, owed>>
appVars == <<sigVars, cfgVars, terminal, pc, flags, tickVars, termVars, events, history>>

Starting == {"handlers", "monitor", "bus", "init"}
Serving == {"loop", "reload", "work", "wait", "sleep"}
Stopping == {"cleanup", "stop", "join tick", "join stdio", "delete", "signals",
             "join signals", "join monitor"}
Over == {"ended", "aborted"}
Commands == {"reload", "set", "save", "stop", "help", "exit"}

AppTypeOK ==
    /\ handlers \in [Signals -> {"default", "app"}]
    /\ queue \in Seq(Signals) /\ Len(queue) <= QueueSize
    /\ sigMutex \in {"none", "main", "signal"} /\ sigRunning \in BOOLEAN
    /\ sigPc \in {"top", "pop", "wait", "handle", "ended"}
    /\ frame \in [Threads -> {"none", "push"}]
    /\ file \in [content : Broken .. used, mtime : Nat] /\ last \in Nat /\ used \in Nat
    /\ {root, synced, applied} \subseteq Part .. used
    /\ cfgMutex \in {"none", "monitor", "stdio"} /\ monRunning \in BOOLEAN
    /\ monPc \in {"none", "sleep", "load", "stat", "ended"}
    /\ pc \in Starting \cup Serving \cup Stopping \cup Over
    /\ {terminal, running, shouldReload, termRunning, owed} \subseteq BOOLEAN
    /\ tick \in {"none", "check", "run", "ended"}
    /\ timer \in {"none", "live", "deleted"}
    /\ stdio \in {"none", "check", "read", "saving", "ended"} \cup Commands
    /\ events \in 0 .. MaxEvents

\* After loadConfig and SignalHandler::initialize.
AppInit ==
    /\ SigInit /\ CfgInit
    /\ terminal \in BOOLEAN
    /\ pc = "handlers"
    /\ running = FALSE /\ shouldReload = FALSE
    /\ tick = "none" /\ timer = "none"
    /\ stdio = "none" /\ termRunning = FALSE
    /\ events = 0
    /\ applied = 0 /\ owed = FALSE

\* A step of the main thread, when no signal handler is on top of it.
Go(from, to) == pc = from /\ Free("main") /\ pc' = to

-----------------------------------------------------------------------------
(* initialize.                                                              *)

\* The second registerHandler for each of the signals.
RegisterHandlers ==
    /\ \/ Go("handlers", "handlers") /\ handlers["TERM"] # "app" /\ registerHandler("TERM")
       \/ Go("handlers", "monitor") /\ handlers["TERM"] = "app" /\ registerHandler("HUP")
    /\ UNCHANGED <<cfgVars, flags, tickVars, termVars, history>>

\* The monitor sleeps first: the listener is there when it looks.
StartMonitor ==
    /\ Go("monitor", "bus") /\ enableHotReload
    /\ UNCHANGED <<sigVars, flags, tickVars, termVars, history>>

\* The bus, the timer, and m_running whatever it was; then onInit.
EnterInit ==
    /\ Go("bus", "init")
    /\ timer' = "live"
    /\ running' = TRUE
    /\ applied' = synced
    /\ UNCHANGED <<sigVars, cfgVars, shouldReload, tick, termVars, owed>>

InitFails ==
    /\ Go("init", "stop")
    /\ UNCHANGED <<sigVars, cfgVars, flags, tickVars, termVars, history>>

InitDone ==
    /\ Go("init", IF terminal THEN "sleep" ELSE "loop")
    /\ tick' = "check"
    /\ termRunning' = terminal
    /\ stdio' = IF terminal THEN "check" ELSE "none"
    /\ UNCHANGED <<sigVars, cfgVars, flags, timer, history>>

-----------------------------------------------------------------------------
(* The main loop, and the loop of run() in terminal mode.                   *)

Reload ==
    /\ running /\ shouldReload
    /\ Go("loop", "reload")
    /\ shouldReload' = FALSE
    /\ applied' = synced
    /\ owed' = FALSE
    /\ UNCHANGED <<sigVars, cfgVars, running, tickVars, termVars>>

\* The end of onReload; onMessageLoop, which may end the loop; the wait, which
\* ends after 100 ms at the latest.
Turn ==
    /\ \/ Go("reload", "work")
       \/ running /\ ~shouldReload /\ Go("loop", "work")
       \/ Go("work", "wait")
       \/ Go("work", "cleanup")
       \/ Go("wait", "loop")
       \/ ~running /\ (Go("loop", "cleanup") \/ Go("sleep", "cleanup"))
    /\ UNCHANGED <<sigVars, cfgVars, flags, tickVars, termVars, history>>

-----------------------------------------------------------------------------
(* stop, then the destructors.                                              *)

CleanedUp ==
    /\ Go("cleanup", "stop")
    /\ UNCHANGED <<sigVars, cfgVars, flags, tickVars, termVars, history>>

Stop ==
    /\ Go("stop", "join tick")
    /\ running' = FALSE
    /\ UNCHANGED <<sigVars, cfgVars, shouldReload, tickVars, termVars, history>>

\* A wrong stop: the tick thread is not joined.
JoinTickNot ==
    /\ Go("join tick", IF termRunning THEN "join stdio" ELSE "delete")
    /\ termRunning' = FALSE
    /\ UNCHANGED <<sigVars, cfgVars, flags, tickVars, stdio, history>>

\* The join, and TerminalInterface::stop, which returns when it is not running.
JoinTick ==
    /\ tick \in {"none", "ended"}
    /\ Go("join tick", IF termRunning THEN "join stdio" ELSE "delete")
    /\ termRunning' = FALSE
    /\ UNCHANGED <<sigVars, cfgVars, flags, tickVars, stdio, history>>

\* A thread that was joined is none.
JoinStdio ==
    /\ stdio = "ended"
    /\ Go("join stdio", "delete")
    /\ stdio' = "none"
    /\ UNCHANGED <<sigVars, cfgVars, flags, tickVars, termRunning, history>>

\* ... and ~IApp: ~TerminalInterface ends the process when a thread of the
\* terminal was never joined.
DeleteTimer ==
    /\ Go("delete", IF stdio = "none" THEN "signals" ELSE "aborted")
    /\ timer' = "deleted"
    /\ UNCHANGED <<sigVars, cfgVars, flags, tick, termVars, history>>

StopSignals ==
    /\ \/ Go("signals", "signals") /\ StopLock
       \/ Go("signals", "join signals") /\ StopFlag
    /\ UNCHANGED <<cfgVars, flags, tickVars, termVars, history>>

StopMonitor ==
    /\ sigPc = "ended"
    /\ Go("join signals", "join monitor") /\ stopHotReloadMonitor
    /\ UNCHANGED <<sigVars, flags, tickVars, termVars, history>>

JoinMonitor ==
    /\ monPc = "ended"
    /\ Go("join monitor", "ended")
    /\ UNCHANGED <<sigVars, cfgVars, flags, tickVars, termVars, history>>

-----------------------------------------------------------------------------
(* The other threads.                                                       *)

tickThread ==
    /\ Free("tick")
    /\ \/ tick = "check" /\ tick' = IF running THEN "run" ELSE "ended"
       \/ tick = "run" /\ tick' = "check"
    /\ UNCHANGED <<sigVars, cfgVars, pc, flags, timer, termVars, history>>

\* The handler of SIGHUP: the first one registered does nothing.
SignalThread ==
    /\ SigTop \/ popSignal \/ SigHandled
    /\ shouldReload' = (shouldReload \/ (sigPc = "handle" /\ handlers["HUP"] = "app"))
    /\ UNCHANGED <<cfgVars, pc, running, tickVars, termVars, history>>

\* The listener for CONFIG_RELOADED runs at the end of a load.
MonitorThread ==
    /\ Free("monitor")
    /\ MonitorCheck \/ MonitorLoad \/ MonitorStat
    /\ shouldReload' = (shouldReload \/ monPc = "stat")
    /\ UNCHANGED <<sigVars, pc, running, tickVars, termVars, history>>

\* stdioThread: the loop condition, getline, or the end of the input.
StdioCheck ==
    /\ stdio = "check"
    /\ stdio' = IF termRunning THEN "read" ELSE "ended"
    /\ UNCHANGED <<cfgVars, running, termRunning, history>>

ReadLine(cmd) ==
    /\ stdio = "read" /\ Free("stdio")
    /\ stdio' = cmd
    /\ UNCHANGED <<sigVars, cfgVars, pc, flags, tickVars, termRunning, history>>

\* processCommand has m_commands_mutex; help wants it again and stays there.
Command ==
    \/ /\ stdio = "reload"
       /\ stdio' = "check"
       /\ applied' = synced /\ owed' = FALSE
       /\ UNCHANGED <<cfgVars, running, termRunning>>
    \/ /\ stdio = "set" /\ setValue
       /\ stdio' = "check"
       /\ UNCHANGED <<running, termRunning, history>>
    \/ /\ \/ stdio = "save" /\ SaveWrite /\ stdio' = "saving"
          \/ stdio = "saving" /\ SaveStat /\ stdio' = "check"
       /\ UNCHANGED <<running, termRunning, history>>
    \/ /\ stdio = "stop"
       /\ stdio' = "check"
       /\ running' = FALSE
       /\ UNCHANGED <<cfgVars, termRunning, history>>
    \/ /\ stdio = "exit"
       /\ stdio' = "check"
       /\ termRunning' = FALSE
       /\ UNCHANGED <<cfgVars, running, history>>

stdioThread ==
    /\ Free("stdio")
    /\ StdioCheck \/ Command
    /\ UNCHANGED <<sigVars, pc, shouldReload, tickVars>>

-----------------------------------------------------------------------------
(* Signals, and whoever types or edits the file.                            *)

Alive(t) ==
    CASE t = "main" -> TRUE
      [] t = "tick" -> tick \in {"check", "run"}
      [] t = "signal" -> sigPc # "ended"
      [] t = "monitor" -> monPc \notin {"none", "ended"}
      [] t = "stdio" -> stdio \notin {"none", "ended"}

\* Until the destructor puts the default handlers back.
Caught == pc # "join monitor"

\* The first handler of SIGTERM sets a flag that nobody reads.
Terminate ==
    /\ Caught /\ handleSignalSync
    /\ running' = (running /\ handlers["TERM"] # "app")
    /\ UNCHANGED <<cfgVars, pc, shouldReload, tickVars, termVars, history>>

HangUp(t) ==
    /\ Caught /\ Alive(t) /\ handleSignalAsync(t)
    /\ UNCHANGED <<cfgVars, pc, flags, tickVars, termVars, history>>

Push(t) ==
    /\ pushSignal(t)
    /\ owed' = (owed \/ (Len(queue) < QueueSize /\ pc \in Serving))
    /\ UNCHANGED <<cfgVars, pc, flags, tickVars, termVars, applied>>

Editor(step) == step /\ UNCHANGED <<sigVars, pc, flags, tickVars, termVars, history>>

EndOfInput ==
    /\ stdio = "read" /\ Free("stdio")
    /\ stdio' = "ended"
    /\ UNCHANGED <<sigVars, cfgVars, pc, flags, tickVars, termRunning, history>>

Environment ==
    \/ Terminate \/ Editor(EditBegin) \/ EndOfInput
    \/ \E t \in Threads : HangUp(t)
    \/ \E cmd \in Commands : ReadLine(cmd)

Main ==
    \/ RegisterHandlers \/ StartMonitor \/ EnterInit \/ InitFails \/ InitDone
    \/ Reload \/ Turn
    \/ CleanedUp \/ Stop \/ JoinTick \/ JoinStdio \/ DeleteTimer
    \/ StopSignals \/ StopMonitor \/ JoinMonitor

AppNext ==
    /\ pc \notin Over
    /\ UNCHANGED terminal
    /\ \/ /\ \/ Main \/ tickThread \/ SignalThread \/ MonitorThread \/ stdioThread
             \/ Editor(EditEnd)
             \/ \E t \in Threads : Push(t)
          /\ UNCHANGED events
       \/ /\ Environment
          /\ events < MaxEvents
          /\ events' = events + 1

\* Threads run and callbacks return; nobody has to type, edit or send a signal.
Thread(step) == step /\ pc \notin Over /\ UNCHANGED <<terminal, events>>

AppFairness ==
    /\ WF_appVars(Thread(Main)) /\ WF_appVars(Thread(tickThread)) /\ WF_appVars(Thread(SignalThread))
    /\ WF_appVars(Thread(MonitorThread)) /\ WF_appVars(Thread(stdioThread))
    /\ \A t \in Threads : WF_appVars(Thread(Push(t)))

AppSpec == AppInit /\ [][AppNext]_appVars /\ AppFairness

-----------------------------------------------------------------------------
(* Properties.                                                              *)

\* A thread wants a mutex that it has itself: a SIGHUP interrupted it while it
\* had signal_mutex, or it runs the command help.
SelfLocked ==
    \/ \E t \in Threads : frame[t] = "push" /\ sigMutex = t
    \/ stdio = "help"

\* The code of the application runs only while the timer of GlobalSpace exists:
\* no onInit, onTick, onReload or onCleanup overlaps its deletion, whichever
\* thread calls them and whichever way the application was stopped.  Every
\* variable has its type.
TimerOutlives ==
    /\ AppTypeOK
    /\ pc \in {"init", "reload", "cleanup"} \/ tick = "run" \/ stdio = "reload"
          => timer = "live"

\* An application that serves and is told to stop, by a signal or by the
\* terminal, ends.  Two things may keep it: a thread that locks a mutex twice,
\* and the stdio thread, which is joined while it waits for a line.
StopEnds ==
    (pc \in Serving /\ ~running)
        ~> (pc \in Over \/ SelfLocked \/ (pc = "join stdio" /\ stdio = "read"))

Daemon == ~terminal /\ pc \in Serving /\ running

\* A SIGHUP that was queued makes a daemon call onReload after it, also when it
\* comes while onReload runs, unless the daemon stops first.
HangUpReloads == (Daemon /\ owed) ~> (~owed \/ ~Daemon \/ SelfLocked)

\* What is written to the configuration file reaches onReload of a daemon, also
\* when the file was looked at before it was complete, unless the time of the
\* file does not show the edit or the next one has begun.
EditReloads ==
    (Daemon /\ file.content \notin {Broken, applied})
        ~> (file.content \in {Broken, applied} \/ Missed \/ ~Daemon \/ SelfLocked)

\* No reload is lost, whether a signal or an edit of the file asked for it.
ReloadsHappen == HangUpReloads /\ EditReloads
=============================================================================
