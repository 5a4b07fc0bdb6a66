------------------------------ MODULE MCClient ------------------------------
(***************************************************************************)
(* A client with two server threads.  Lines are typed for every command    *)
(* that makes a difference to the tracker; the command line is checked for *)
(* all lines of up to three tokens.                                        *)
(***************************************************************************)
EXTENDS Client

Line(name, args) == [name |-> name, args |-> args, spaces |-> 0]

MCTyped ==
    {Line("tracker", <<"-s">>), Line("tracker", <<"-t">>),
     Line("tracker", <<"-l">>), Line("tracker", <<"--stabilize">>),
     Line("download", <<"-i">>), Line("quit", <<>>)}
=============================================================================
