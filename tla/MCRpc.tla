------------------------------- MODULE MCRpc -------------------------------
(***************************************************************************)
(* Requests and answers for TLC: a request with one answer, one that is    *)
(* refused, MOVE_DATA with a torrent and the zeroed one, and SHUTDOWN.     *)
(***************************************************************************)
EXTENDS Rpc

CONSTANTS ping, move, shutdown, block, file, ok, refused

MCAnswers == (ping :> <<ok>>) @@ (move :> <<file, Zero>>) @@ (shutdown :> <<>>)
             @@ (block :> <<refused>>)
MCSize == (ping :> 0) @@ (move :> 1) @@ (shutdown :> 0) @@ (block :> 1) @@ (file :> 2)
          @@ (ok :> 0) @@ (refused :> 1) @@ (Zero :> 1)
=============================================================================
