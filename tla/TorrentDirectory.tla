-------------------------- MODULE TorrentDirectory --------------------------
(***************************************************************************)
(* What the network of trackers promises about torrent files: an upload    *)
(* publishes a torrent at some running tracker; after that trackers hand   *)
(* torrents over to each other, and a torrent disappears only with the     *)
(* tracker that holds it, or at a tracker that cannot store it.  Who is    *)
(* connected to whom, and who answers for a key, is left to Tracker.tla,   *)
(* which implements this specification.                                    *)
(***************************************************************************)
CONSTANTS Node, File,
          Careless  \* trackers that may lose a torrent while they run
VARIABLES active,  \* trackers that are running (joining and leaving included)
          holds    \* the torrents each tracker answers for

Init == active = {} /\ holds = [n \in Node |-> {}]

Start(n) == /\ active' = active \cup {n}
            /\ UNCHANGED holds

\* The user of some tracker uploads f; it lands at n.
Publish(n, f) ==
    /\ n \in active
    /\ holds' = [holds EXCEPT ![n] = @ \cup {f}]
    /\ UNCHANGED active

\* m gives the torrents S to n and forgets R: a migration, a join (MOVE_DATA)
\* or a departure.  It may keep one that it was about to receive a second time.
HandOver(m, n, S, R) ==
    /\ m \in active /\ n \in active
    /\ S \subseteq holds[m] /\ R \subseteq S
    /\ holds' = [holds EXCEPT ![m] = @ \ R, ![n] = @ \cup S]
    /\ UNCHANGED active

\* n stops, or dies, with what it still holds.
Depart(n) ==
    /\ n \in active
    /\ active' = active \ {n}
    /\ holds' = [holds EXCEPT ![n] = {}]

\* n answers for f since it was sent to it, and cannot store it.
Lose(n, f) ==
    /\ n \in active \cap Careless
    /\ holds' = [holds EXCEPT ![n] = @ \ {f}]
    /\ UNCHANGED active

Next ==
    \/ \E n \in Node : Start(n) \/ Depart(n)
    \/ \E n \in Node, f \in File : Publish(n, f) \/ Lose(n, f)
    \/ \E m, n \in Node : \E S \in SUBSET File : \E R \in SUBSET S :
           HandOver(m, n, S, R)

Spec == Init /\ [][Next]_<<active, holds>>
=============================================================================
