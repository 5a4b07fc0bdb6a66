------------------------------ MODULE Registry ------------------------------
(***************************************************************************)
(* What the bootstrap server promises to trackers that want to join: who   *)
(* registers while another tracker is registered is introduced to one of   *)
(* those, and introductions go round: nobody is named again while a        *)
(* tracker that was registered at its last introduction, and still is, has *)
(* not had its turn.  Bootstrap.tla implements this.                       *)
(***************************************************************************)
CONSTANT Node
VARIABLES members,  \* the registered trackers
          owed      \* owed[p]: who is to be named before p is named again

Init == members = {} /\ owed = [n \in Node |-> {}]

\* The only tracker is not introduced to anyone.
RegisterFirst(n) ==
    /\ members \subseteq {n}
    /\ members' = {n}
    /\ UNCHANGED owed

\* n registers and is introduced to p.
Introduce(n, p) ==
    /\ p \in members /\ members # {n}
    /\ owed[p] = {}
    /\ members' = members \cup {n}
    /\ owed' = [q \in Node |-> IF q = p THEN members' \ {p} ELSE owed[q] \ {p}]

\* Trackers are forgotten, one that leaves or, when the server stops, all.
Forget(L) ==
    /\ members' = members \ L
    /\ owed' = [q \in Node |-> IF q \in L THEN {} ELSE owed[q] \ L]

Next ==
    \/ \E n \in Node : RegisterFirst(n) \/ Forget({n})
    \/ \E n, p \in Node : Introduce(n, p)
    \/ Forget(members)

Spec == Init /\ [][Next]_<<members, owed>>
=============================================================================
