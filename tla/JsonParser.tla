----------------------------- MODULE JsonParser -----------------------------
(***************************************************************************)
(* JsonParser.cpp and the accessors of ConfigManager.cpp: a configuration  *)
(* read and written by key paths ("a.b.0").                                *)
(*                                                                         *)
(* A document is a function from the paths it has to the kind of the node  *)
(* there: object, array, null, text, number or flag; <<>> is the root.     *)
(* The elements of an array are the tokens Elem[0], Elem[1], ...; Index is *)
(* what std::stoul makes of a token, so that several tokens ("1", "1x")    *)
(* may lead to one element, and is not defined on a token it throws on.    *)
(***************************************************************************)
EXTENDS Integers, Sequences, FiniteSets, SequencesExt

CONSTANTS
    Elem,       \* the token std::to_string gives for an index, from 0
    Index,      \* a function from some tokens to the number they begin with
    Docs,       \* the documents the file may hold
    Paths,      \* the key paths asked for
    MaxSets     \* bound on the calls of setValue

VARIABLES
    root,       \* config_root
    last,       \* history: the last call that may have written, and its answer
    sets        \* calls of setValue so far

jsonVars == <<root, last, sets>>

NoCall == [path |-> <<>>, value |-> <<>>, ok |-> FALSE, found |-> <<>>]

Init ==
    /\ root \in Docs
    /\ last = NoCall
    /\ sets = 0

Size(t, p) == Cardinality({q \in DOMAIN t : Len(q) = Len(p) + 1 /\ IsPrefix(p, q)})

\* The node at p and everything under it becomes v, a document of its own.
Put(t, p, v) ==
    LET kept == {q \in DOMAIN t : ~IsPrefix(p, q)}
        new == {p \o q : q \in DOMAIN v}
    IN [q \in kept \cup new |->
            IF q \in kept THEN t[q] ELSE v[SubSeq(q, Len(p) + 1, Len(q))]]

Leaf(kind) == (<<>> :> kind)

\* One turn of the loop of getConstJsonRef, s = [ok, t, at].
Descend(s, tok) ==
    LET there == CASE s.t[s.at] = "object" -> {Append(s.at, tok)}
                   [] s.t[s.at] = "array" /\ tok \in DOMAIN Index ->
                         {Append(s.at, Elem[i]) : i \in {Index[tok]} \cap DOMAIN Elem}
                   [] OTHER -> {}
        found == there \cap DOMAIN s.t
    IN IF s.ok /\ found # {}
       THEN [s EXCEPT !.at = CHOOSE p \in found : TRUE]
       ELSE [s EXCEPT !.ok = FALSE]

getConstJsonRef(t, p) == FoldLeft(Descend, [ok |-> TRUE, t |-> t, at |-> <<>>], p)

\* hasKey, and whether getValue has an answer.
hasKey(t, p) == LET s == getConstJsonRef(t, p) IN s.ok /\ t[s.at] # "null"

\* What getValue copies out: the document under the path.
getValue(t, p) ==
    LET at == getConstJsonRef(t, p).at IN
    [q \in {SubSeq(r, Len(at) + 1, Len(r)) : r \in {r \in DOMAIN t : IsPrefix(at, r)}} |->
        t[at \o q]]

\* The types that ConfigManager can be asked for.
Types == {"string", "int", "double", "bool", "list", "uint8", "int16", "uint16",
          "int64", "uint64"}

\* The kinds of node that the library converts to a type: a flag to the integers that
\* are not its own, nothing but a text to a string.
Kinds(type) ==
    CASE type = "string" -> {"text"}
      [] type = "list" -> {"array"}
      [] type = "bool" -> {"flag"}
      [] type \in {"double", "int64", "uint64"} -> {"number"}
      [] OTHER -> {"number", "flag"}

\* What ConfigManager reads: the default if nothing is there, or nothing of the type.
getJsonValue(t, p, type, default) ==
    LET v == getValue(t, p) IN
    IF /\ hasKey(t, p)
       /\ v[<<>>] \in Kinds(type)
       /\ type = "list" => \A q \in DOMAIN v \ {<<>>} : v[q] = "text"
    THEN v ELSE default

\* An array grows by empty objects until it has element i.
Extend(t, p, i) ==
    FoldLeft(LAMBDA u, n : Put(u, Append(p, Elem[n]), Leaf("object")), t,
             [n \in 1..(i + 1 - Size(t, p)) |-> Size(t, p) + n - 1])

\* A bug: a null on the way is given members and stays null.
CreateUnderNull(s, tok) ==
    LET p == Append(s.at, tok)
        down == Descend(s, tok)
    IN IF s.ok /\ ~down.ok /\ s.t[s.at] \in {"object", "null"}
       THEN [s EXCEPT !.t = Put(s.t, p, Leaf("object")), !.at = p] ELSE down

\* One turn of the loop of getMutableJsonRef with createIfNotExist.
Create(s, tok) ==
    LET p == Append(s.at, tok)
        made == Put(s.t, p, Leaf("object"))
        down == Descend(s, tok)
    IN CASE ~s.ok \/ down.ok -> down
         [] s.t[s.at] = "object" -> [s EXCEPT !.t = made, !.at = p]
         [] s.t[s.at] = "null" -> [s EXCEPT !.t = [made EXCEPT ![s.at] = "object"], !.at = p]
         [] s.t[s.at] = "array" /\ tok \in DOMAIN Index ->
               [s EXCEPT !.t = Extend(s.t, s.at, Index[tok]),
                         !.at = Append(s.at, Elem[Index[tok]])]
         [] OTHER -> down

getMutableJsonRef(t, p) == FoldLeft(Create, [ok |-> TRUE, t |-> t, at |-> <<>>], p)

\* setValue of a string or of a list of strings; the caller is not told ok.
setValue(p, v) ==
    LET s == getMutableJsonRef(root, p) IN
    /\ sets < MaxSets /\ sets' = sets + 1
    /\ root' = IF s.ok THEN Put(s.t, s.at, v) ELSE s.t
    /\ last' = [path |-> p, value |-> v, ok |-> s.ok, found |-> s.at]

\* The file is loaded again, or the configuration cleared.
Replace(d) ==
    /\ root' = d
    /\ last' = NoCall
    /\ UNCHANGED sets

Text == Leaf("text")
List == Leaf("array") @@ (<<Elem[0]>> :> "text")

Next ==
    \/ \E p \in Paths, v \in {Text, List} : setValue(p, v)
    \/ \E d \in Docs \cup {Leaf("object")} : Replace(d)

Spec == Init /\ [][Next]_jsonVars

-----------------------------------------------------------------------------
\* A document's shape: each node but the root hangs under an object or an
\* array, and an array has its elements from 0 on without a gap.
IsDocument(t) ==
    /\ \A p \in DOMAIN t : p # <<>> => Front(p) \in DOMAIN t
                                       /\ t[Front(p)] \in {"object", "array"}
    /\ \A p \in DOMAIN t : t[p] = "array" =>
          {Last(q) : q \in {q \in DOMAIN t : q # <<>> /\ Front(q) = p}}
             = {Elem[i] : i \in 0..(Size(t, p) - 1)}

\* A string or a list of strings is there for those who ask for just that.
ReadBack(u, c) ==
    LET default == Leaf("default") IN
    \A type \in Types :
        getJsonValue(u, c.path, type, default) =
            IF type = (IF c.value = Text THEN "string" ELSE "list")
            THEN c.value ELSE default

\* The step from t to u with call c.
Wrote(t, u, c) ==
    LET below == {q \in DOMAIN u : IsPrefix(c.found, q)}
        above == {q \in DOMAIN u : IsStrictPrefix(q, c.found)}
    IN /\ hasKey(u, c.path) /\ getValue(u, c.path) = c.value
       /\ ReadBack(u, c)
       /\ \A q \in DOMAIN t : ~IsPrefix(c.found, q) =>
             q \in DOMAIN u /\ (u[q] = t[q] \/ (q \in above /\ t[q] = "null"))
       /\ \A q \in DOMAIN u \ (DOMAIN t \cup below \cup above) :
             u[q] = "object" /\ t[Front(q)] = "array"

\* What setValue wrote under a path is what getValue reads under it, whoever asks
\* for another type gets the default (config set of a number is a string), and the
\* rest of the configuration is as it was, but for the nodes above the path
\* and the elements an array on the way had to be given.  A path setValue
\* cannot follow leaves everything as it was: nothing is made on the way.
\* The result is a document again.
SetGet ==
    [][sets' # sets =>
          /\ IsDocument(root')
          /\ IF last'.ok THEN Wrote(root, root', last') ELSE root' = root]_jsonVars
=============================================================================
