---------------------------- MODULE DownloadJobs ----------------------------
(***************************************************************************)
(* The life of a download as its user is told of it: IDLE until a worker   *)
(* takes it, then RUNNING until it is PAUSED (by the user, or because some *)
(* block could not be had) or DONE; a PAUSED download may be retried, a    *)
(* DONE one is final, and blocks arrive while it is RUNNING only.  Who the *)
(* workers are is left to Downloader.tla, which implements this.           *)
(***************************************************************************)
CONSTANTS File, Block(_)
VARIABLES listed, state, blocks

Init == /\ listed = {}
        /\ state = [f \in File |-> "IDLE"]
        /\ blocks = [f \in File |-> {}]

Request(f) == /\ f \notin listed
              /\ listed' = listed \cup {f}
              /\ UNCHANGED <<state, blocks>>

\* Several downloads may be taken at once.
Take(S) == /\ S \subseteq {f \in listed : state[f] = "IDLE"}
           /\ state' = [f \in File |-> IF f \in S THEN "RUNNING" ELSE state[f]]
           /\ UNCHANGED <<listed, blocks>>

Move(f, from, to) == /\ f \in listed /\ state[f] = from
                     /\ state' = [state EXCEPT ![f] = to]
                     /\ UNCHANGED <<listed, blocks>>

Receive(f, b) == /\ f \in listed /\ state[f] = "RUNNING" /\ b \in Block(f)
                 /\ blocks' = [blocks EXCEPT ![f] = @ \cup {b}]
                 /\ UNCHANGED <<listed, state>>

Next ==
    \/ \E f \in File :
          \/ Request(f) \/ Move(f, "PAUSED", "IDLE")
          \/ Move(f, "RUNNING", "PAUSED") \/ Move(f, "RUNNING", "DONE")
          \/ \E b \in Block(f) : Receive(f, b)
    \/ \E S \in SUBSET listed : Take(S)

Spec == Init /\ [][Next]_<<listed, state, blocks>>
=============================================================================
