------------------------------ MODULE Messages ------------------------------
(***************************************************************************)
(* The messages of src/lib/network.c as the system carries them: a header  *)
(* that announces the size of the body behind it.                          *)
(***************************************************************************)
EXTENDS Integers, Sequences

CONSTANTS
    Msg,     \* messages: requests and answers
    Size,    \* Size[m]: bytes of the body of m
    Header,  \* sizeof(req_header_t), sizeof(res_header_t)
    Torn     \* what a receiver gets that is not a message

ASSUME MessageAssumption ==
    /\ Header \in Nat \ {0}
    /\ Size \in [Msg -> Nat]
    /\ Torn \notin Msg
=============================================================================
