--------------------------- MODULE MigrationEngine ---------------------------
(***************************************************************************)
(* dbmigrate (MigrationEngine.cpp, main.cpp): a tool that is started, does *)
(* one command against a directory of migration files and a database, and  *)
(* ends.  Two may run at once, and one may be killed, or lose its          *)
(* connection, between any two statements.                                 *)
(*                                                                         *)
(* MySQL commits before every DDL statement, so the transaction around a   *)
(* file covers its last INSERTs and the row of the version table only.     *)
(* --dry-run, status, list-tables and validate change nothing.             *)
(***************************************************************************)
EXTENDS Integers, SQLGenerator

CONSTANTS
    Engines,       \* processes of the tool
    Names,         \* file names V{NNN}__{text}.xml
    Version,       \* Version[n]: the number in the name
    Bodies,        \* Bodies[n]: what that file may hold
    FirstDirs,     \* the directories to begin with
    SqlFile,       \* the statements of rebuild's file: [sql, commented]
    MaxWipes,      \* bounds: rebuilds and truncations, kills and lost
    MaxFaults,     \* connections, changes of the directory
    MaxEdits,
    None           \* no file, or a version that is not recorded

ASSUME VersionAssumption == IsFiniteSet(Names) /\ Version \in [Names -> Nat \ {0}]
ASSUME BodiesAssumption ==
    /\ \A n \in Names : Bodies[n] \subseteq Seq(Operations)
    /\ SqlFile \in Seq([sql : Stmts, commented : BOOLEAN])
    /\ None \notin Seq(Operations)
    /\ "id" \in STRING   \* true of every literal, and not known to the provers
ASSUME FirstDirsAssumption ==
    \A d \in FirstDirs : /\ d = [n \in Names |-> d[n]]
                         /\ \A n \in Names : d[n] \in Bodies[n] \cup {None}

VARIABLES
    dir,           \* dir[n]: what file n holds, or None
    db,            \* the user tables, as committed
    versionTable,  \* db_schema_version exists
    recorded,      \* its rows: the body whose checksum version v has
    pc,            \* what an engine is doing
    seen,          \* seen[e]: applied, the rows it loaded
    files,         \* files[e]: the files it found, in order, [name, body]
    todo,          \* todo[e]: those of them still to apply
    stmts,         \* stmts[e]: statements still to execute
    sum,           \* sum[e]: the checksum in its uncommitted version row
    dirty,         \* dirty[e]: rows its transaction has inserted
    drops,         \* drops[e]: tables still to drop or truncate
    failed,        \* failed[e]: rebuild's fail_count > 0
    expected,      \* history: the recorded files applied whole, one by one
    half,          \* history: files that were begun and not yet recorded
    disturbed,     \* history: two engines have run at once, a rebuild was cut, a file
                   \* was executed while another one was half done, or was edited
                   \* between being read and being recorded
    wipes, faults, edits

dirVars == <<dir, edits>>
dbVars == <<db, versionTable, recorded>>
engineVars == <<seen, files, todo, sum, stmts, dirty, drops, failed>>
histVars == <<expected, half, disturbed>>
counts == <<wipes, faults>>
vars == <<dirVars, dbVars, pc, engineVars, histVars, counts>>

Versions == {Version[n] : n \in Names}

\* The exit of the process: migrate returned true or false, or the end of
\* another command ("off").
Ended == {"off", "ok", "failed"}
Migrating == {"load", "check", "apply", "run", "record", "commit"}

\* What import makes of the file: a table with the column id per CREATE TABLE.
Imported ==
    LET creates == Keep(SqlFile, {r \in ToSet(SqlFile) : r.sql.do = "create table"})
    IN  [i \in DOMAIN creates |-> [type |-> "create_table", table |-> creates[i].sql.table,
                                    columns |-> <<"id">>, indexes |-> << >>]]

AllBodies == (UNION {Bodies[n] : n \in Names}) \cup {Imported, << >>}

Init ==
    /\ dir \in FirstDirs /\ edits = 0
    /\ db = EmptyDb /\ versionTable = FALSE /\ recorded = [v \in Versions |-> None]
    /\ pc = [e \in Engines |-> "off"]
    /\ seen = [e \in Engines |-> recorded]
    /\ files = [e \in Engines |-> << >>]
    /\ todo = [e \in Engines |-> << >>]
    /\ stmts = [e \in Engines |-> << >>]
    /\ sum = [e \in Engines |-> None]
    /\ dirty = [e \in Engines |-> {}]
    /\ drops = [e \in Engines |-> {}]
    /\ failed = [e \in Engines |-> FALSE]
    /\ expected = EmptyDb /\ half = {} /\ disturbed = FALSE
    /\ wipes = 0 /\ faults = 0

Go(e, to) == pc' = [pc EXCEPT ![e] = to]

\* What engine e sees: the committed tables and its own rows.
View(e) == [db EXCEPT !.rows = @ \cup dirty[e]]

Busy == {e \in Engines : pc[e] \notin Ended}

-----------------------------------------------------------------------------
(* The directory.  Files come by create and import, which number them one   *)
(* up, or with a merge; they are edited and removed.                        *)

Change(n, body) ==
    /\ edits < MaxEdits
    /\ edits' = edits + 1
    /\ dir' = [dir EXCEPT ![n] = body]
    /\ UNCHANGED <<dbVars, pc, engineVars, histVars, counts>>

MaxVersion == Max({0} \cup {Version[n] : n \in {m \in Names : dir[m] # None}})

\* create: a skeleton without operations, which does not parse.
createMigrationFile(n) ==
    /\ dir[n] = None
    /\ Version[n] = MaxVersion + 1
    /\ Change(n, << >>)

importSchema(n) ==
    /\ dir[n] = None
    /\ Version[n] = MaxVersion + 1
    /\ Imported # << >>
    /\ Change(n, Imported)

Edit(n) == \E body \in Bodies[n] \cup {None} : body # dir[n] /\ Change(n, body)

-----------------------------------------------------------------------------
(* migrate.                                                                 *)

\* An operator does not rebuild or truncate while anything else runs.
Start(e, cmd) ==
    /\ pc[e] \in Ended
    /\ IF cmd = "load" THEN UNCHANGED wipes
       ELSE Busy = {} /\ wipes < MaxWipes /\ wipes' = wipes + 1
    /\ \A o \in Busy : pc[o] \in Migrating
    /\ disturbed' = (disturbed \/ Busy # {})
    /\ Go(e, cmd)
    /\ drops' = [drops EXCEPT ![e] = IF cmd = "load" THEN {} ELSE DOMAIN db.tables]
    /\ UNCHANGED <<dirVars, dbVars, seen, files, todo, sum, stmts, dirty, failed, expected, half, faults>>

\* ensureVersionTable and loadAppliedMigrations.
Load(e) ==
    /\ pc[e] = "load"
    /\ versionTable' = TRUE
    /\ seen' = [seen EXCEPT ![e] = recorded]
    /\ Go(e, "check")
    /\ UNCHANGED <<dirVars, db, recorded, files, todo, sum, stmts, dirty, drops, failed, histVars, counts>>

\* The end of a session: the server forgets what was not committed.
Quit(e, to) ==
    /\ Go(e, to)
    /\ sum' = [sum EXCEPT ![e] = None]
    /\ dirty' = [dirty EXCEPT ![e] = {}]
    /\ stmts' = [stmts EXCEPT ![e] = << >>]
    /\ files' = [files EXCEPT ![e] = << >>]
    /\ todo' = [todo EXCEPT ![e] = << >>]
    /\ drops' = [drops EXCEPT ![e] = {}]
    /\ failed' = [failed EXCEPT ![e] = FALSE]
    /\ seen' = [seen EXCEPT ![e] = [v \in Versions |-> None]]

\* Mutant: the files are left in the order of the directory.
OrdersUnsorted ==
    [S \in SUBSET Names |-> {order \in SetToAllKPermutations(S) : Len(order) = Cardinality(S)}]

\* The orders in which std::sort may leave a set of files: by number, files
\* of one number in any order.
Orders ==
    [S \in SUBSET Names |->
       {order \in SetToAllKPermutations(S) :
          /\ Len(order) = Cardinality(S)
          /\ \A i, j \in DOMAIN order : i < j => Version[order[i]] <= Version[order[j]]}]

\* The file of version v that the check looks at: the first one.
FirstOf(fs, v) == SelectInSeq(fs, LAMBDA f : Version[f.name] = v)

Unchanged(e, fs) ==
    \A v \in Versions : seen[e][v] # None =>
        FirstOf(fs, v) # 0 /\ fs[FirstOf(fs, v)].body = seen[e][v]

\* Mutant: recorded versions are not left out.
PendingAll(e, fs) == fs

Pending(e, fs) == Keep(fs, {f \in ToSet(fs) : seen[e][Version[f.name]] = None})

\* scanMigrationFiles and the comparison of checksums.  A file that does not
\* parse throws.
Check(e) ==
    /\ pc[e] = "check"
    /\ LET names == {n \in Names : dir[n] # None}
       IN  \E order \in Orders[names] :
             LET fs == [i \in DOMAIN order |-> [name |-> order[i], body |-> dir[order[i]]]]
             IN  IF (\A n \in names : parseMigrationFile(dir[n])) /\ Unchanged(e, fs)
                 THEN /\ files' = [files EXCEPT ![e] = fs]
                      /\ todo' = [todo EXCEPT ![e] = Pending(e, fs)]
                      /\ Go(e, "apply")
                      /\ UNCHANGED <<seen, sum, stmts, dirty, drops, failed>>
                 ELSE Quit(e, "failed")
    /\ UNCHANGED <<dirVars, dbVars, histVars, counts>>

Now(e) == Head(todo[e])
NowVersion(e) == Version[Now(e).name]

\* START TRANSACTION for the next file, or the end.
Apply(e) ==
    /\ pc[e] = "apply"
    /\ IF todo[e] = << >>
       THEN Quit(e, "ok")
       ELSE /\ Go(e, "run")
            /\ stmts' = [stmts EXCEPT ![e] = Statements(Now(e).body)]
            /\ UNCHANGED <<seen, files, todo, sum, dirty, drops, failed>>
    /\ UNCHANGED <<dirVars, dbVars, histVars, counts>>

\* A DDL statement first commits, and waits for the rows of others.
Ready(e) ==
    IsDDL(Head(stmts[e])) =>
        /\ dirty[e] = {}
        /\ \A o \in Engines \ {e} : \A r \in dirty[o] : r[1] # Head(stmts[e]).table

ImplicitCommit(e) ==
    /\ pc[e] = "run" /\ stmts[e] # << >>
    /\ IsDDL(Head(stmts[e])) /\ dirty[e] # {}
    /\ db' = View(e)
    /\ dirty' = [dirty EXCEPT ![e] = {}]
    /\ UNCHANGED <<dirVars, versionTable, recorded, pc, seen, files, todo, sum, stmts, drops, failed, histVars, counts>>

Execute(e, s) ==
    IF IsDDL(s) THEN db' = Effect(db, s) /\ UNCHANGED dirty
    ELSE dirty' = [dirty EXCEPT ![e] = Effect(View(e), s).rows \ db.rows] /\ UNCHANGED db

\* One statement of the file; an error rolls back and ends the run.
Run(e) ==
    /\ pc[e] = "run" /\ stmts[e] # << >> /\ Ready(e)
    /\ LET s == Head(stmts[e])
       IN  IF Fails(View(e), s)
           THEN Quit(e, "failed") /\ UNCHANGED db
           ELSE /\ Execute(e, s)
                /\ stmts' = [stmts EXCEPT ![e] = Tail(@)]
                /\ UNCHANGED <<pc, seen, files, todo, sum, drops, failed>>
    /\ half' = half \cup {Now(e)}
    /\ disturbed' = (disturbed \/ ~(half \subseteq {Now(e)}))
    /\ UNCHANGED <<dirVars, versionTable, recorded, expected, counts>>

\* Mutant: the version is recorded before the statements have run.
RecordEarly(e) ==
    /\ pc[e] = "run"
    /\ Go(e, "commit")
    /\ sum' = [sum EXCEPT ![e] = Now(e).body]
    /\ UNCHANGED <<seen, files, todo, stmts, dirty, drops, failed>>
    /\ UNCHANGED <<dirVars, dbVars, histVars, counts>>

\* The INSERT into the version table, with the checksum of the file as it is
\* on the disk now: the primary key lets one through, and one that meets
\* another's uncommitted row waits.
Record(e) ==
    /\ pc[e] = "run" /\ stmts[e] = << >>
    /\ \A o \in Engines \ {e} : ~(pc[o] = "commit" /\ NowVersion(o) = NowVersion(e))
    /\ IF dir[Now(e).name] # None /\ versionTable /\ recorded[NowVersion(e)] = None
       THEN /\ Go(e, "commit")
            /\ sum' = [sum EXCEPT ![e] = dir[Now(e).name]]
            /\ UNCHANGED <<seen, files, todo, stmts, dirty, drops, failed>>
       ELSE Quit(e, "failed")
    /\ UNCHANGED <<dirVars, dbVars, histVars, counts>>

\* What a recorded file stands for.
Given(body) == IF parseMigrationFile(body) THEN Statements(body) ELSE << >>

Committed(e) ==
    /\ db' = View(e)
    /\ recorded' = [recorded EXCEPT ![NowVersion(e)] = sum[e]]
    /\ expected' = Replay(expected, Given(sum[e]))
    /\ half' = half \ {Now(e)}
    /\ disturbed' = (disturbed \/ sum[e] # Now(e).body)
    /\ UNCHANGED versionTable

Commit(e) ==
    /\ pc[e] = "commit"
    /\ Committed(e)
    /\ dirty' = [dirty EXCEPT ![e] = {}]
    /\ todo' = [todo EXCEPT ![e] = Tail(@)]
    /\ Go(e, "apply")
    /\ UNCHANGED <<dirVars, seen, files, sum, stmts, drops, failed, counts>>

\* The process is killed or its connection breaks.  A COMMIT that has no
\* answer may have been done.  Where the tool goes on after errors, a broken
\* connection makes all that is left fail.
Fault(e) ==
    /\ pc[e] \notin Ended
    /\ faults < MaxFaults
    /\ faults' = faults + 1
    /\ Quit(e, "failed")
    /\ \/ UNCHANGED <<dbVars, expected, half>> /\ disturbed' = (disturbed \/ pc[e] \notin Migrating)
       \/ pc[e] = "commit" /\ Committed(e)
    /\ UNCHANGED <<dirVars, wipes>>

-----------------------------------------------------------------------------
(* rebuild and truncate-all.                                                *)

DropUserTable(e) ==
    /\ pc[e] = "drop"
    /\ \E t \in drops[e] :
          /\ db' = Effect(db, [do |-> "drop table", table |-> t])
          /\ drops' = [drops EXCEPT ![e] = @ \ {t}]
    /\ UNCHANGED <<dirVars, versionTable, recorded, pc, seen, files, todo, sum, stmts, dirty, failed, histVars, counts>>

\* A statement that follows a comment line is skipped with it.
DropVersionTable(e) ==
    /\ pc[e] = "drop" /\ drops[e] = {}
    /\ versionTable' = FALSE
    /\ recorded' = [v \in Versions |-> None]
    /\ LET kept == Keep(SqlFile, {r \in ToSet(SqlFile) : ~r.commented})
       IN  stmts' = [stmts EXCEPT ![e] = [i \in DOMAIN kept |-> kept[i].sql]]
    /\ Go(e, "rebuild")
    /\ UNCHANGED <<dirVars, db, seen, files, todo, sum, dirty, drops, failed, histVars, counts>>

\* Errors are counted and the next statement is executed.
RebuildRun(e) ==
    /\ pc[e] = "rebuild" /\ stmts[e] # << >>
    /\ LET s == Head(stmts[e])
       IN  /\ db' = Replay(db, <<s>>)
           /\ failed' = [failed EXCEPT ![e] = @ \/ Fails(db, s)]
    /\ stmts' = [stmts EXCEPT ![e] = Tail(@)]
    /\ UNCHANGED <<dirVars, versionTable, recorded, pc, seen, files, todo, sum, dirty, drops, histVars, counts>>

\* The schema that later migrations build on is what rebuild has left.
RebuildEnd(e) ==
    /\ pc[e] = "rebuild" /\ stmts[e] = << >>
    /\ Quit(e, IF failed[e] THEN "failed" ELSE "off")
    /\ expected' = db /\ half' = {}
    /\ UNCHANGED <<dirVars, dbVars, disturbed, counts>>

\* The version table is not among the user tables and keeps its rows.
Truncate(e) ==
    /\ pc[e] = "truncate"
    /\ IF drops[e] = {} THEN Go(e, "off") /\ UNCHANGED <<db, drops, expected>>
       ELSE /\ \E t \in drops[e] :
                  /\ db' = [db EXCEPT !.rows = {r \in @ : r[1] # t}]
                  /\ expected' = [expected EXCEPT !.rows = {r \in @ : r[1] # t}]
                  /\ drops' = [drops EXCEPT ![e] = @ \ {t}]
            /\ UNCHANGED pc
    /\ UNCHANGED <<dirVars, versionTable, recorded, seen, files, todo, sum, stmts, dirty, failed, half, disturbed, counts>>

-----------------------------------------------------------------------------
Engine(e) ==
    \/ Load(e) \/ Check(e) \/ Apply(e) \/ ImplicitCommit(e) \/ Run(e) \/ Record(e) \/ Commit(e)
    \/ DropUserTable(e) \/ DropVersionTable(e) \/ RebuildRun(e) \/ RebuildEnd(e) \/ Truncate(e)

Next ==
    \/ \E n \in Names : createMigrationFile(n) \/ importSchema(n) \/ Edit(n)
    \/ \E e \in Engines : \/ \E cmd \in {"load", "drop", "truncate"} : Start(e, cmd)
                          \/ Engine(e)
                          \/ Fault(e)

\* A process that runs goes on.
Fairness == \A e \in Engines : WF_vars(Engine(e))

Spec == Init /\ [][Next]_vars /\ Fairness

-----------------------------------------------------------------------------
IsDb(d) == \A t \in DOMAIN d.tables : t \in STRING /\ d.tables[t] \subseteq STRING

TypeOK ==
    /\ dir \in [Names -> AllBodies \cup {None}]
    /\ recorded \in [Versions -> AllBodies \cup {None}]
    /\ IsDb(db) /\ IsDb(expected)
    /\ versionTable \in BOOLEAN
    /\ ~versionTable => \A v \in Versions : recorded[v] = None
    /\ pc \in [Engines -> Ended \cup Migrating \cup {"drop", "rebuild", "truncate"}]
    /\ \A e \in Engines :
          /\ pc[e] \in {"run", "commit"} => todo[e] # << >>
          /\ dirty[e] # {} => pc[e] \in {"run", "commit"}
          /\ drops[e] # {} => pc[e] \in {"drop", "truncate"}
          /\ stmts[e] # << >> => pc[e] \in {"run", "rebuild"}

\* When migrate has succeeded and nothing else runs, the tables and the seed
\* data are what the recorded contents give when each is executed once, whole,
\* in the order in which they were recorded: whatever was killed or lost its
\* connection on the way (MigrationEngine::applyMigration).  This is so as long
\* as engines run one at a time, no file is edited between being read and being
\* recorded (RecordedIsRun), and a half-done file is not changed, removed or
\* overtaken by another before it is done.  Every variable has its type.
Converged ==
    /\ TypeOK
    /\ (\E e \in Engines : pc[e] = "ok") /\ Busy = {} /\ half = {} /\ ~disturbed
          => db = expected

\* MigrationEngine.h:9-15: a row of the version table is an applied migration and
\* has the checksum of the file that was applied.
RecordedIsRun == \A e \in Engines : pc[e] = "commit" => sum[e] = Now(e).body

\* A file is executed or recorded only when every file of a lower number that
\* the engine has found is recorded, also when another engine is at work on
\* the same files (MigrationEngine::migrate).
NoGap ==
    \A e \in Engines : pc[e] \in {"run", "commit"} =>
        \A i \in DOMAIN files[e] :
            Version[files[e][i].name] < NowVersion(e) => recorded[Version[files[e][i].name]] # None

RepeatableBodies ==
    {b \in AllBodies : /\ parseMigrationFile(b)
                       /\ \A i \in DOMAIN Statements(b) : Repeatable(Statements(b)[i])}

\* The files as they are now: none edited or removed after it was recorded,
\* each number once, each a file that a second run can repeat.
Sound ==
    /\ \A v \in Versions : recorded[v] # None =>
          \E n \in Names : Version[n] = v /\ dir[n] = recorded[v]
    /\ \A n, m \in Names : dir[n] # None /\ dir[m] # None /\ n # m => Version[n] # Version[m]
    /\ \A n \in Names : dir[n] \in RepeatableBodies \cup {None}

UpToDate == \A n \in Names : dir[n] # None => recorded[Version[n]] # None

\* A migrate that was killed or lost its connection anywhere, or met another
\* one, is made good by running migrate again: if it is run again and again
\* over sound files, in the end one at a time, all of them are recorded in the
\* end (MigrationEngine::migrate).
Completes ==
    /\ <>[](Sound /\ Cardinality(Busy) <= 1)
    /\ []<>(\E e \in Engines : pc[e] = "load")
    => <>[]UpToDate
=============================================================================
