---------------------------- MODULE SQLGenerator ----------------------------
(***************************************************************************)
(* What a migration file holds, what XmlParser.cpp accepts of it, the      *)
(* statements SQLGenerator.cpp makes of it, and what MySQL does with them. *)
(*                                                                         *)
(* A column or an index is its name (an item of its table), a row of seed  *)
(* data is a name and its columns in order; types, defaults and values are *)
(* left out.  "" is an attribute that is not there.                        *)
(***************************************************************************)
EXTENDS Sequences, FiniteSets, SequencesExt, Functions, TLC

\* The elements of s that are in K, in their order.
Keep(s, K) == FlattenSeq([i \in DOMAIN s |-> IF s[i] \in K THEN <<s[i]>> ELSE << >>])

Attributes == Seq(STRING)

\* An element <operation> as it may be written.
Operations ==
    [type : {"create_table"}, table : STRING, columns : Attributes, indexes : Attributes]
    \cup [type : {"alter_table"}, table : STRING, add : Attributes, drop : Attributes, modify : Attributes]
    \cup [type : {"create_index"}, table : STRING, index : STRING, columns : Attributes]
    \cup [type : {"drop_index"}, table : STRING, index : STRING]
    \cup [type : {"drop_table"}, table : STRING]
    \cup [type : {"seed_data"}, table : STRING, rows : Seq([name : STRING, columns : Attributes])]
    \cup [type : {"unknown"}]

-----------------------------------------------------------------------------
(* Parsing: each function throws, here is FALSE, when an attribute that it  *)
(* needs is missing.                                                        *)

parseColumns(cols) == "" \notin ToSet(cols)

parseCreateTable(op) == /\ op.table # ""
                        /\ parseColumns(op.columns)
                        /\ \A i \in DOMAIN op.indexes : op.indexes[i] # ""

parseAlterTable(op) == /\ op.table # ""
                       /\ parseColumns(op.add) /\ parseColumns(op.drop) /\ parseColumns(op.modify)

parseIndexOp(op) == op.table # "" /\ op.index # ""

Parses(op) ==
    CASE op.type = "create_table" -> parseCreateTable(op)
      [] op.type = "alter_table" -> parseAlterTable(op)
      [] op.type = "create_index" -> parseIndexOp(op) /\ op.columns # << >>
      [] op.type = "drop_index" -> parseIndexOp(op)
      [] op.type \in {"drop_table", "seed_data"} -> op.table # ""
      [] OTHER -> FALSE

\* A file with no operation at all does not parse either.
parseMigrationFile(body) == body # << >> /\ \A i \in DOMAIN body : Parses(body[i])

-----------------------------------------------------------------------------
(* Generating.  if_exists is always true (XmlParser.cpp:180).               *)

generateCreateTable(op) ==
    << [do |-> "create table", table |-> op.table, items |-> ToSet(op.columns \o op.indexes),
        empty |-> op.columns = << >>] >>

generateAlterTable(op) ==
    LET Each(what, cols) == [i \in DOMAIN cols |-> [do |-> what, table |-> op.table, item |-> cols[i]]]
    IN  Each("add", op.add) \o Each("remove", op.drop) \o Each("modify", op.modify)

generateCreateIndex(op) ==
    << [do |-> "add", table |-> op.table, item |-> op.index] >>

generateDropIndex(op) ==
    << [do |-> "remove", table |-> op.table, item |-> op.index] >>

generateDropTable(op) == << [do |-> "drop table", table |-> op.table] >>

\* One INSERT IGNORE for all rows, with the columns of the first.
generateSeedData(op) ==
    IF op.rows = << >> THEN << >>
    ELSE << [do |-> "insert", table |-> op.table, columns |-> op.rows[1].columns,
             rows |-> {op.rows[i].name : i \in DOMAIN op.rows},
             ragged |-> \E i \in DOMAIN op.rows : Len(op.rows[i].columns) # Len(op.rows[1].columns)] >>

operationToSQL(op) ==
    CASE op.type = "create_table" -> generateCreateTable(op)
      [] op.type = "alter_table" -> generateAlterTable(op)
      [] op.type = "create_index" -> generateCreateIndex(op)
      [] op.type = "drop_index" -> generateDropIndex(op)
      [] op.type = "drop_table" -> generateDropTable(op)
      [] op.type = "seed_data" -> generateSeedData(op)

Stmts ==
    [do : {"create table"}, table : STRING, items : SUBSET STRING, empty : BOOLEAN]
    \cup [do : {"drop table"}, table : STRING]
    \cup [do : {"add", "remove", "modify"}, table : STRING, item : STRING]
    \cup [do : {"insert"}, table : STRING, columns : Attributes, rows : SUBSET STRING, ragged : BOOLEAN]

\* The statements of a file, as applyMigration cuts them at the semicolons.
Statements(body) == FlattenSeq([i \in DOMAIN body |-> operationToSQL(body[i])])

-----------------------------------------------------------------------------
(* The server.  A database is its tables, each with its items, and the rows *)
(* of seed data in it.                                                      *)

EmptyDb == [tables |-> << >>, rows |-> {}]

IsDDL(s) == s.do # "insert"

\* The statement is an error.
Fails(db, s) ==
    LET there == s.table \in DOMAIN db.tables
    IN  CASE s.do = "create table" -> s.empty
          [] s.do = "drop table" -> FALSE
          [] s.do = "add" -> ~there \/ s.item \in db.tables[s.table]
          [] s.do \in {"remove", "modify"} -> ~there \/ s.item \notin db.tables[s.table]
          [] s.do = "insert" -> ~there \/ s.ragged \/ ~(ToSet(s.columns) \subseteq db.tables[s.table])

\* What a statement that is no error leaves.
Effect(db, s) ==
    CASE s.do = "create table" ->
           IF s.table \in DOMAIN db.tables THEN db
           ELSE [db EXCEPT !.tables =
                    [t \in DOMAIN @ \cup {s.table} |-> IF t = s.table THEN s.items ELSE @[t]]]
      [] s.do = "drop table" ->
           [tables |-> Restrict(db.tables, DOMAIN db.tables \ {s.table}),
            rows |-> {r \in db.rows : r[1] # s.table}]
      [] s.do = "add" -> [db EXCEPT !.tables[s.table] = @ \cup {s.item}]
      [] s.do = "remove" -> [db EXCEPT !.tables[s.table] = @ \ {s.item}]
      [] s.do = "modify" -> db
      [] s.do = "insert" -> [db EXCEPT !.rows = @ \cup ({s.table} \X s.rows)]

\* The database after each of the statements, those that fail left out.
Stages(db, stmts) ==
    LET after[n \in 0 .. Len(stmts)] ==
          IF n = 0 THEN db
          ELSE IF Fails(after[n - 1], stmts[n]) THEN after[n - 1] ELSE Effect(after[n - 1], stmts[n])
    IN  after

Replay(db, stmts) == Stages(db, stmts)[Len(stmts)]

\* A statement that a second run repeats without an error: all but ALTER
\* TABLE, CREATE INDEX and DROP INDEX.
Repeatable(s) == s.do \in {"create table", "drop table", "insert", "modify"}
=============================================================================
