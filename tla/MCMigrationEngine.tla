-------------------------- MODULE MCMigrationEngine --------------------------
(* Three files, two of one version: a table, which may be edited to have a  *)
(* column more; the table dropped, made anew and filled, which a second run *)
(* can repeat; a row and a column, which it cannot, and which ends a        *)
(* transaction with work in it.                                             *)
EXTENDS MigrationEngine

MCVersion == "V1" :> 1 @@ "V2" :> 2 @@ "V2b" :> 2

CreateTable(t, cols) == [type |-> "create_table", table |-> t, columns |-> cols, indexes |-> << >>]
Seed(t, cols) == [type |-> "seed_data", table |-> t, rows |-> << [name |-> "r", columns |-> cols] >>]
AddColumn(t, c) == [type |-> "alter_table", table |-> t, add |-> <<c>>, drop |-> << >>, modify |-> << >>]

MCBodies ==
    "V1" :> {<<CreateTable("users", <<"id">>)>>, <<CreateTable("users", <<"id", "age">>)>>}
    @@ "V2" :> {<<[type |-> "drop_table", table |-> "users"],
                  CreateTable("users", <<"name">>), Seed("users", <<"name">>)>>}
    @@ "V2b" :> {<<Seed("users", <<"name">>), AddColumn("users", "age")>>}

\* The merge of V2b is to come, or only V1 is there.
MCFirstDirs ==
    LET all == [n \in DOMAIN MCBodies |-> CHOOSE b \in MCBodies[n] : TRUE]
    IN  {[all EXCEPT !["V2b"] = None], [all EXCEPT !["V2"] = None, !["V2b"] = None]}

MCSqlFile == << [sql |-> [do |-> "create table", table |-> "users", items |-> {"id"}, empty |-> FALSE],
                 commented |-> FALSE],
                [sql |-> [do |-> "drop table", table |-> "chat"], commented |-> TRUE],
                [sql |-> [do |-> "insert", table |-> "users", columns |-> <<"age">>, rows |-> {"r"},
                          ragged |-> FALSE], commented |-> FALSE] >>
=============================================================================
