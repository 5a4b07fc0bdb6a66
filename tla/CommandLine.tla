---------------------------- MODULE CommandLine ----------------------------
(***************************************************************************)
(* The command line of src/lib/cmd_parser.c and the client's commands.  A  *)
(* line is a name, the tokens behind it and the spaces it ends with; a     *)
(* token begins with a dash (a flag) or it does not (a value), and a value *)
(* may stand in quotes.                                                    *)
(***************************************************************************)
EXTENDS Naturals, SequencesExt

CONSTANTS
    Flag,     \* tokens that begin with a dash
    Value,    \* the other tokens
    Quoted,   \* those among them that stand in quotes
    ArgsSize, \* how many arguments parsed_cmd_t has room for: 10
    NoValue   \* a NULL value, and no flag

ASSUME CommandLineAssumption ==
    /\ Flag \cap Value = {} /\ Quoted \subseteq Value
    /\ ArgsSize \in Nat \ {0}
    /\ NoValue \notin Flag \cup Value

Empty == "" \* the token that p points at when it stops on a space
ASSUME EmptyAssumption == Empty \notin Flag \cup Value

\* Trailing spaces are skipped up to the last one.  The quote that closes a
\* value is overwritten, so that one space behind it is one too many.
tokens(line) ==
    IF line.spaces >= 2 \/ (line.spaces = 1 /\ line.args # <<>>
                              /\ Last(line.args) \in Quoted)
    THEN Append(line.args, Empty)
    ELSE line.args

flag_repeats(args, flag) == \E i \in DOMAIN args : args[i].flag = flag

Arg(f, v) == [flag |-> f, value |-> v]

\* What the loop of cmd_parse knows: the arguments it has, the flag that may
\* still get a value, and whether it has returned.
Parsing(args, flag) == [args |-> args, flag |-> flag, status |-> "parsing"]
Rejected(st) == [st EXCEPT !.status = "rejected"]

\* An argument is added; the rest of the line is not read when that fills args.
Added(st, value, flag) ==
    LET args == Append(st.args, Arg(st.flag, value))
    IN  IF Len(args) = ArgsSize
        THEN [args |-> args, flag |-> NoValue, status |-> "full"]
        ELSE Parsing(args, flag)

\* Mistake: the token behind a flag is its value, whatever it is.
ParseAnyValue(st, token) ==
    IF st.status # "parsing" THEN st
    ELSE IF st.flag # NoValue THEN Added(st, token, NoValue)
    ELSE IF token \notin Flag \/ flag_repeats(st.args, token) THEN Rejected(st)
    ELSE Parsing(st.args, token)

\* One round of the loop of cmd_parse.
ParseToken(st, token) ==
    IF st.status # "parsing" THEN st
    ELSE IF token \in Flag THEN
        IF flag_repeats(st.args, token) THEN Rejected(st)
        ELSE IF st.flag = NoValue THEN Parsing(st.args, token)
        ELSE Added(st, NoValue, token)
    ELSE IF st.flag = NoValue THEN Rejected(st)
    ELSE Added(st, token, NoValue)

\* cmd_parse: a flag at the end of the line has no value.
cmd_parse(line) ==
    LET st == FoldLeft(ParseToken, Parsing(<<>>, NoValue), tokens(line))
    IN  [ok   |-> st.status # "rejected",
         name |-> line.name,
         args |-> IF st.flag = NoValue THEN st.args
                  ELSE Append(st.args, Arg(st.flag, NoValue))]

-----------------------------------------------------------------------------
\* The table of client_init: what a command means without arguments, and for
\* each argument what it means, whether it must be the only one, and whether
\* it has a placeholder, which says that it takes a value.
Option(type, names, alone, value) ==
    [type |-> type, names |-> names, excl |-> alone, placeholder |-> value]
Alone(type, names) == Option(type, names, TRUE, FALSE)

cmds == [
    tracker |-> [type |-> "UNKNOWN", args |-> {
        Alone("TRACKER_HELP", {"-h", "--help"}),
        Alone("TRACKER_START", {"-s", "--start"}),
        Alone("TRACKER_STOP", {"-t", "--stop"}),
        Alone("TRACKER_STATE", {"-l", "--state"}),
        Alone("TRACKER_STABILIZE", {"-r", "--stabilize"})}],
    search |-> [type |-> "SEARCH", args |-> {
        Alone("SEARCH_HELP", {"-h", "--help"}),
        Option("SEARCH", {"-i", "--id"}, FALSE, TRUE),
        Option("SEARCH", {"-n", "--name"}, FALSE, TRUE),
        Option("SEARCH", {"-s", "--size"}, FALSE, TRUE)}],
    download |-> [type |-> "UNKNOWN", args |-> {
        Alone("DOWNLOAD_HELP", {"-h", "--help"}),
        Option("DOWNLOAD", {"-i", "--id"}, TRUE, TRUE),
        Alone("DOWNLOAD_LIST", {"-l", "--list"}),
        Option("DOWNLOAD_PAUSE", {"-p", "--pause"}, TRUE, TRUE)}],
    upload |-> [type |-> "UNKNOWN", args |-> {
        Alone("UPLOAD_HELP", {"-h", "--help"}),
        Option("UPLOAD", {"-p", "--path"}, TRUE, TRUE)}],
    help  |-> [type |-> "HELP", args |-> {}],
    clear |-> [type |-> "CLEAR", args |-> {}],
    quit  |-> [type |-> "QUIT", args |-> {}]]

\* The options that argument a of a command may be: one or none.
Meant(name, a) == {o \in cmds[name].args : a.flag \in o.names}

\* cmds_get_cmd_type: every argument is checked, the last one decides.
cmds_get_cmd_type(cmd) ==
    LET Allowed(a) == \E o \in Meant(cmd.name, a) :
            /\ o.excl => Len(cmd.args) = 1
            /\ o.placeholder => a.value # NoValue
    IN  IF cmd.name \notin DOMAIN cmds THEN "UNKNOWN"
        ELSE IF cmd.args = <<>> THEN cmds[cmd.name].type
        ELSE IF \E i \in DOMAIN cmd.args : ~Allowed(cmd.args[i]) THEN "ERROR"
        ELSE (CHOOSE o \in Meant(cmd.name, Last(cmd.args)) : TRUE).type

\* CMD_SEARCH of the client's main: the criteria of the query are read from
\* the short names only, and there must be one.
Criteria(cmd) ==
    {cmd.args[i].flag : i \in DOMAIN cmd.args} \cap {"-i", "-n", "-s"}

\* What the client does with a line.
Understood(line) ==
    LET cmd == cmd_parse(line) IN
    IF ~cmd.ok THEN "ERROR"
    ELSE IF cmds_get_cmd_type(cmd) = "SEARCH" /\ Criteria(cmd) = {}
    THEN "ERROR"
    ELSE cmds_get_cmd_type(cmd)
-----------------------------------------------------------------------------
Lines(n) ==
    [name : DOMAIN cmds, args : SeqOf(Flag \cup Value, n), spaces : 0 .. 2]

\* "cmd_name [-flag [value]] [-flag [value]]...": a line that ends with its
\* last token is accepted exactly when every value follows a flag and no flag
\* comes twice, save a flag without a value that is repeated at once; its
\* arguments are the flags, each with the value behind it.
WellFormed(a) ==
    /\ \A i \in DOMAIN a : a[i] \in Value => i > 1 /\ a[i - 1] \in Flag
    /\ \A i, j \in DOMAIN a :
          i < j /\ a[i] \in Flag /\ a[i] = a[j] => j = i + 1

\* Flag k of a line, with the value behind it, is argument k.
FlagsAt(a)  == {i \in DOMAIN a : a[i] \in Flag}
Ordinal(a, i) == Cardinality({j \in FlagsAt(a) : j <= i})
ArgAt(a, i) ==
    Arg(a[i], IF i < Len(a) /\ a[i + 1] \in Value THEN a[i + 1] ELSE NoValue)
FlagsOf(a) ==
    [k \in 1 .. Cardinality(FlagsAt(a)) |->
        ArgAt(a, CHOOSE i \in FlagsAt(a) : Ordinal(a, i) = k)]

ReadsGrammar(n) ==
    \A line \in Lines(n) : line.spaces = 0 /\ Cardinality(FlagsAt(line.args)) < ArgsSize =>
        LET cmd == cmd_parse(line) IN
        /\ cmd.ok <=> WellFormed(line.args)
        /\ cmd.ok => cmd.args = FlagsOf(line.args)

\* The commands whose argument the client reads without looking at it, and the
\* criteria of a search, have a value, however the line ends.
FindsValues(n) ==
    \A line \in Lines(n) :
        LET cmd == cmd_parse(line) IN
        /\ Understood(line) \in {"DOWNLOAD", "DOWNLOAD_PAUSE", "UPLOAD"} =>
               Len(cmd.args) = 1 /\ cmd.args[1].value # NoValue
        /\ Understood(line) = "SEARCH" =>
               \A i \in DOMAIN cmd.args : cmd.args[i].value # NoValue
=============================================================================
