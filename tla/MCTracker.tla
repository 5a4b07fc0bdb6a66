----------------------------- MODULE MCTracker ------------------------------
(***************************************************************************)
(* Values for TLC of the constants of Tracker.tla that a configuration      *)
(* cannot write: the finger every tracker refreshes, and where it starts.   *)
(***************************************************************************)
EXTENDS Tracker

MCFixIndex == [n \in Node |-> 1]
\* Half the circle away.
MCFixStart == [n \in Node |-> (n + KeySpace \div 2) % KeySpace]
=============================================================================
