---------------------------- MODULE MCBootstrap -----------------------------
(***************************************************************************)
(* Bootstrap.tla with the history that Registry.tla speaks of: for every   *)
(* registered tracker, who must be named before it is named again.         *)
(***************************************************************************)
EXTENDS Bootstrap

VARIABLE owed

\* The trackers this step names in the answer to CONNECT_TRACKER.
Named == {peer'[n] : n \in {m \in Node : pc[m] = "connect" /\ pc'[m] = "join"}}
            \ {None}

Owing ==
    owed' = [q \in Node |-> IF q \in Named THEN clients' \ {q}
                            ELSE IF q \in clients' THEN (owed[q] \ Named) \cap clients'
                            ELSE {}]

MCInit == Init /\ owed = [n \in Node |-> {}]
MCNext == Next /\ Owing
MCSpec == MCInit /\ [][MCNext]_<<vars, owed>> /\ Fairness

\* CONNECT_TRACKER names a tracker that is registered, and round-robin.
Desk == INSTANCE Registry WITH members <- clients
ImplementsRegistry == Desk!Spec
=============================================================================
