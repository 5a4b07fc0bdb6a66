------------------------------ MODULE Channel ------------------------------
(***************************************************************************)
(* What one direction of a connection promises: messages arrive whole, in  *)
(* the order in which they were sent, until the connection is replaced by  *)
(* the next one.  Stream.tla implements it with bytes.                     *)
(***************************************************************************)
EXTENDS Sequences

CONSTANT Msg

VARIABLES underway,  \* sent and not yet delivered
          delivered  \* handed to the receiver

vars == <<underway, delivered>>

Init == underway = <<>> /\ delivered = <<>>

Connected == underway' = <<>> /\ delivered' = <<>>

Sent(m) == underway' = Append(underway, m) /\ UNCHANGED delivered

Arrives ==
    /\ underway # <<>>
    /\ delivered' = Append(delivered, Head(underway))
    /\ underway' = Tail(underway)

Next == Connected \/ Arrives \/ \E m \in Msg : Sent(m)
Spec == Init /\ [][Next]_vars
=============================================================================
