--------------------------- MODULE ConfigManager ---------------------------
(***************************************************************************)
(* ConfigManager.cpp: the configuration in memory, the file it came from,  *)
(* and the thread that looks at the file's modification time every second  *)
(* and loads it again.  Someone else edits the file.                       *)
(*                                                                         *)
(* A content is its version; Broken is a file that does not parse, because *)
(* its editor has not finished, and Part what a failed load may leave in   *)
(* memory.  Times are in seconds, as getFileModifiedTime rounds them.      *)
(***************************************************************************)
EXTENDS Integers

Broken == -1
Part == 0

VARIABLES
    file,          \* the file: content and modification time
    root,          \* config_root
    last,          \* last_modified_time
    cfgMutex,      \* the thread that has config_mutex, or "none"
    monRunning,    \* hot_reload_running
    monPc,         \* where hotReloadMonitorThread is
    used,          \* versions so far
    synced         \* history: the content memory was loaded from or saved to

cfgVars == <<file, root, last, cfgMutex, monRunning, monPc, used, synced>>

\* After loadConfig.
CfgInit ==
    /\ file = [content |-> 1, mtime |-> 0]
    /\ root = 1 /\ synced = 1 /\ used = 1
    /\ last = 0
    /\ cfgMutex = "none"
    /\ monRunning = FALSE
    /\ monPc = "none"

\* The editor: it empties the file, then writes it, in this second or a later one.
Edit(c) ==
    \E m \in {file.mtime, file.mtime + 1} :
        /\ file' = [content |-> c, mtime |-> m]
        /\ UNCHANGED <<root, last, cfgMutex, monRunning, monPc, synced>>

EditBegin == file.content # Broken /\ Edit(Broken) /\ UNCHANGED used

EditEnd ==
    /\ file.content = Broken
    /\ used' = used + 1
    /\ Edit(used + 1)

\* An edit the file's time does not show: it came in the same second, or
\* between the load and the reading of the time.
Missed == file.content # synced /\ file.mtime <= last

-----------------------------------------------------------------------------
enableHotReload ==
    /\ monRunning' = TRUE
    /\ monPc' = "sleep"
    /\ UNCHANGED <<file, root, last, cfgMutex, used, synced>>

isConfigFileModified ==
    /\ cfgMutex = "none"
    /\ file.mtime > last

\* The monitor wakes up and looks; the mutex is free again before it loads.
MonitorCheck ==
    /\ monPc = "sleep"
    /\ \/ monRunning /\ isConfigFileModified /\ monPc' = "load"
       \/ ~monRunning /\ monPc' = "ended"
    /\ UNCHANGED <<file, root, last, cfgMutex, monRunning, used, synced>>

\* A wrong monitor: a file that does not parse ends it.
MonitorLoadOnce ==
    /\ monPc = "load"
    /\ cfgMutex = "none"
    /\ IF file.content = Broken
       THEN monPc' = "ended" /\ UNCHANGED <<root, cfgMutex, synced>>
       ELSE /\ root' = file.content
            /\ synced' = file.content
            /\ monPc' = "stat"
            /\ cfgMutex' = "monitor"
    /\ UNCHANGED <<file, last, monRunning, used>>

\* loadFromFile reads the file; one that does not parse may leave a part of itself.
MonitorLoad ==
    /\ monPc = "load"
    /\ cfgMutex = "none"
    /\ IF file.content = Broken
       THEN /\ root' \in {root, Part}
            /\ monPc' = "sleep"
            /\ UNCHANGED <<cfgMutex, synced>>
       ELSE /\ root' = file.content
            /\ synced' = file.content
            /\ monPc' = "stat"
            /\ cfgMutex' = "monitor"
    /\ UNCHANGED <<file, last, monRunning, used>>

\* The modification time is read after the content; then fireEvent.
MonitorStat ==
    /\ monPc = "stat"
    /\ monPc' = "sleep"
    /\ last' = file.mtime
    /\ cfgMutex' = "none"
    /\ UNCHANGED <<file, root, monRunning, used, synced>>

-----------------------------------------------------------------------------
setValue ==
    /\ cfgMutex = "none"
    /\ used' = used + 1
    /\ root' = used + 1
    /\ UNCHANGED <<file, last, cfgMutex, monRunning, monPc, synced>>

\* saveConfig, whose mutex is held from the write to the reading of the time.
SaveWrite ==
    /\ cfgMutex = "none"
    /\ cfgMutex' = "stdio"
    /\ \E m \in {file.mtime, file.mtime + 1} : file' = [content |-> root, mtime |-> m]
    /\ synced' = root
    /\ UNCHANGED <<root, last, monRunning, monPc, used>>

SaveStat ==
    /\ cfgMutex' = "none"
    /\ last' = file.mtime
    /\ UNCHANGED <<file, root, monRunning, monPc, used, synced>>

stopHotReloadMonitor ==
    /\ monRunning' = FALSE
    /\ UNCHANGED <<file, root, last, cfgMutex, monPc, used, synced>>
=============================================================================
