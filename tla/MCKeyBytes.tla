----------------------------- MODULE MCKeyBytes -----------------------------
(***************************************************************************)
(* The keys for TLC: bytes are empty, full or, from the fourth on, one.     *)
(***************************************************************************)
EXTENDS KeyBytes

MCIds == {k \in [Place -> {0, 1, Base - 1}] : \A i \in 0 .. 2 : k[i] # 1}
=============================================================================
