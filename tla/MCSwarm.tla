------------------------------ MODULE MCSwarm ------------------------------
(***************************************************************************)
(* Instances for TLC: an uploader u, a tracker h and a client c without    *)
(* a tracker.                                                              *)
(***************************************************************************)
EXTENDS Swarm

CONSTANTS u, h, c

\* One worker each: two of one client are the subject of Downloader.tla.
MCWorker == {p \in {<<h, "1">>, <<c, "1">>} : p[1] \in Node}
=============================================================================
