------------------------- MODULE CommandLineParser -------------------------
(***************************************************************************)
(* CommandLineParser.cpp: one pass over argv that gives the registered     *)
(* arguments their values and collects the other words.                    *)
(*                                                                         *)
(* A word is what the parser sees of it: the dashes in front, the name and *)
(* the value written in the same word, NoValue if it has none.  A short    *)
(* option is one letter, and the rest of its word is its value, so -help   *)
(* is -h with the value "elp".  A plain word has no dash, and its text is  *)
(* in value, "" for an empty word.                                         *)
(***************************************************************************)
EXTENDS Integers, Sequences, FiniteSets

CONSTANTS
    Args,       \* the registered arguments, by their long names
    Shorts,     \* m_name_map: a function from short names to Args
    Defaults,   \* default_value of each argument
    NoValue,
    Words,      \* the words a command line is made of
    MaxWords    \* argc - 1, at most

ASSUME ArgsAssumption ==
    /\ MaxWords \in Nat /\ \A w \in Words : w.dashes \in Nat
    /\ \A s \in DOMAIN Shorts : Shorts[s] \in Args
    /\ Defaults = [a \in Args |-> Defaults[a]]
    \* what the constructor registers, and no application registers again
    /\ {"help", "terminal"} \subseteq Args /\ {"h", "t"} \subseteq DOMAIN Shorts \ Args
    /\ Shorts["h"] = "help" /\ Shorts["t"] = "terminal"

VARIABLES
    argv,       \* the words after the program's name
    next,       \* i, the next word
    values,     \* m_values
    positional, \* m_positional_args
    modes,      \* m_help_mode and m_terminal_mode, as the set of those that are on
    called      \* the callbacks parse has made: arguments with the values given

cmdVars == <<argv, next, values, positional, modes, called>>

ArgsInit ==
    /\ argv \in UNION {[1..n -> Words] : n \in 0..MaxWords}
    /\ next = 1
    /\ values = Defaults
    /\ positional = <<>>
    /\ modes = {}
    /\ called = {}

\* The argument a name stands for: the long name before the short.
findCanonicalName(name) ==
    IF name \in Args THEN {name}
    ELSE IF name \in DOMAIN Shorts THEN {Shorts[name]} ELSE {}

\* The word after i, if there is one and it does not begin with a dash.
TakesNext(i) ==
    /\ argv[i].value = NoValue
    /\ i < Len(argv) /\ argv[i + 1].dashes = 0

valueOf(i) ==
    IF argv[i].value # NoValue THEN argv[i].value
    ELSE IF TakesNext(i) THEN argv[i + 1].value ELSE "true"

\* A bug: the word taken as a value is looked at again.
ArgKeepsWord ==
    /\ next <= Len(argv) /\ argv[next].dashes > 0
    /\ values' = [a \in Args |-> IF a \in findCanonicalName(argv[next].name)
                               THEN valueOf(next) ELSE values[a]]
    /\ next' = next + 1
    /\ UNCHANGED <<argv, positional, modes, called>>

\* parseArg returns the index of the last word it used.
parseArg ==
    /\ next <= Len(argv) /\ argv[next].dashes > 0
    /\ LET known == findCanonicalName(argv[next].name) IN
       /\ values' = [a \in Args |-> IF a \in known THEN valueOf(next) ELSE values[a]]
       /\ next' = IF known # {} /\ TakesNext(next) THEN next + 2 ELSE next + 1
    /\ UNCHANGED <<argv, positional, modes, called>>

\* A plain word.  An empty one is passed over.
parseWord ==
    /\ next <= Len(argv) /\ argv[next].dashes = 0
    /\ positional' = IF argv[next].value = "" THEN positional
                     ELSE Append(positional, argv[next].value)
    /\ next' = next + 1
    /\ UNCHANGED <<argv, values, modes, called>>

\* The value of an argument, by either name; of one nobody registered, "".
getValue(name) ==
    LET known == findCanonicalName(name) IN
    IF known = {} THEN "" ELSE values[CHOOSE a \in known : TRUE]

\* After the last word: the modes, then every argument's callback.
parseEnd ==
    /\ next = Len(argv) + 1
    /\ modes' = (IF getValue("help") = "true" \/ getValue("h") = "true" THEN {"help"} ELSE {})
           \cup (IF getValue("terminal") = "true" \/ getValue("t") = "true"
                 THEN {"terminal"} ELSE {})
    /\ called' = {<<a, values[a]>> : a \in Args}
    /\ next' = next + 1
    /\ UNCHANGED <<argv, values, positional>>

ArgsNext == parseArg \/ parseWord \/ parseEnd

ArgsSpec == ArgsInit /\ [][ArgsNext]_cmdVars

-----------------------------------------------------------------------------
(* What a command line means, said of all its words at once. *)

IsOption(i, a) == argv[i].dashes > 0 /\ findCanonicalName(argv[i].name) = {a}

\* Word i is the value of the option before it.
IsBound(i) == i > 1 /\ \E a \in Args : IsOption(i - 1, a) /\ TakesNext(i - 1)

Meaning(a) ==
    LET given == {i \in 1..Len(argv) : IsOption(i, a)} IN
    IF given = {} THEN Defaults[a]
    ELSE valueOf(CHOOSE i \in given : \A j \in given : j <= i)

\* The places of the plain words up to n that no option takes and that are not empty.
Plain(n) == {i \in 1..Len(argv) : i <= n /\ argv[i].dashes = 0 /\ ~IsBound(i) /\ argv[i].value # ""}

PlainWords ==
    [k \in 1..Cardinality(Plain(Len(argv))) |->
        argv[CHOOSE i \in Plain(Len(argv)) : Cardinality(Plain(i)) = k].value]

\* Once parse has returned, every argument, by either of its names, has the value
\* of its last option, or its default, and was called back with it; the positional
\* words are the plain words that no option took as its value, in order; and help and
\* terminal mode are on exactly when their value is the word true.
Parsed ==
    next = Len(argv) + 2 =>
        /\ \A a \in Args : getValue(a) = Meaning(a) /\ <<a, Meaning(a)>> \in called
        /\ \A s \in DOMAIN Shorts \ Args : getValue(s) = Meaning(Shorts[s])
        /\ positional = PlainWords
        /\ modes = {a \in {"help", "terminal"} : Meaning(a) = "true"}
=============================================================================
