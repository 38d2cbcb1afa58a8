------------------------------ MODULE MCParts ------------------------------
(***************************************************************************)
(* Six parts that do not interact, each checked by itself: the load        *)
(* balancers, the command line, the settings, the client with its logins,  *)
(* the terminal, and a node whose threads send while its tables change.    *)
(* side is the one that runs; the others stay in one initial state.        *)
(***************************************************************************)
EXTENDS LoadBalancer, CommandLineParser, ConndClient, TerminalInterface, IBusNet, TLC

VARIABLES side, json_root, json_last, json_sets

json_vars == <<json_root, json_last, json_sets>>

-----------------------------------------------------------------------------
Hashes == <<1, 2>>

\* -t, -tfile, -h, --config, --config=, --unknown, a word and an empty one.
MCWords ==
    {[dashes |-> 1, name |-> "t", value |-> "none"],
     [dashes |-> 1, name |-> "t", value |-> "file"],
     [dashes |-> 1, name |-> "h", value |-> "none"],
     [dashes |-> 2, name |-> "config", value |-> "none"],
     [dashes |-> 2, name |-> "config", value |-> ""],
     [dashes |-> 2, name |-> "unknown", value |-> "none"],
     [dashes |-> 0, name |-> "", value |-> "true"],
     [dashes |-> 0, name |-> "", value |-> ""]}

MCShorts == [h |-> "help", t |-> "terminal", c |-> "config"]
MCDefaults == [help |-> "false", terminal |-> "false", config |-> "config.json"]

\* A name that is not ASCII, one with a backslash, and one that is too long.
MCAccounts == {<<195, 169>>, <<92>>, <<97, 97, 97>>}

\* {"a": {"b": ["text"]}, "b": null, "c": 1} and {"a": true}.
Nested == (<<>> :> "object") @@ (<<"a">> :> "object") @@ (<<"a", "b">> :> "array")
          @@ (<<"a", "b", "0">> :> "text") @@ (<<"b">> :> "null")
          @@ (<<"c">> :> "number")
Flat == (<<>> :> "object") @@ (<<"a">> :> "flag")

MCPaths ==
    {<<"a">>, <<"b">>, <<"a", "b">>, <<"a", "b", "0">>, <<"a", "b", "1x">>,
     <<"a", "b", "1">>, <<"b", "a">>, <<"b", "0">>, <<"b", "1">>, <<"b", "1", "a">>,
     <<"a", "b", "a">>, <<"a", "b", "1", "b">>, <<"c">>}

Json == INSTANCE JsonParser
    WITH Elem <- (0 :> "0" @@ 1 :> "1"),
         Index <- ("0" :> 0 @@ "1" :> 1 @@ "1x" :> 1),
         Docs <- {Nested, Flat}, Paths <- MCPaths, MaxSets <- 3,
         root <- json_root, last <- json_last, sets <- json_sets

-----------------------------------------------------------------------------
PartsInit ==
    /\ side \in {"balancer", "arguments", "settings", "client", "terminal", "node"}
    /\ ArgsInit /\ (side # "arguments" => argv = <<>>)
    /\ Json!Init /\ (side # "settings" => json_root = Flat)
    /\ ClientInit /\ (side # "client" => secret.connd = 1)
    /\ TermInit
    /\ NodeInit /\ (side # "node" => ~has_center_)
    /\ BalancerInit
    /\ side # "balancer" => policy = "round_robin" /\ \A i \in Ids : weight[i] = 0

PartsNext ==
    \/ /\ side = "balancer" /\ BalancerNext
       /\ UNCHANGED <<side, cmdVars, json_vars, ccVars, termVars, nodevars>>
    \/ /\ side = "arguments" /\ ArgsNext
       /\ UNCHANGED <<side, balancerVars, json_vars, ccVars, termVars, nodevars>>
    \/ /\ side = "settings" /\ Json!Next
       /\ UNCHANGED <<side, balancerVars, cmdVars, ccVars, termVars, nodevars>>
    \/ /\ side = "client" /\ ClientNext
       /\ UNCHANGED <<side, balancerVars, cmdVars, json_vars, termVars, nodevars>>
    \/ /\ side = "terminal" /\ TermNext
       /\ UNCHANGED <<side, balancerVars, cmdVars, json_vars, ccVars, nodevars>>
    \/ /\ side = "node" /\ NodeNext
       /\ UNCHANGED <<side, balancerVars, cmdVars, json_vars, ccVars, termVars>>

PartsSpec ==
    PartsInit /\ [][PartsNext]_<<side, balancerVars, cmdVars, json_vars, ccVars, termVars, nodevars>>

-----------------------------------------------------------------------------
\* JsonParser.tla: getValue reads what setValue wrote, and nothing else has changed.
SetGet == Json!SetGet
=============================================================================
