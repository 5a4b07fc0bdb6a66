---------------------------- MODULE MCDownloader ----------------------------
(***************************************************************************)
(* The sizes of the files and the bounds on pauses, for TLC.                *)
(***************************************************************************)
EXTENDS Downloader

CONSTANT Small  \* files of one block, never paused; the others have two

MCBlocks == [f \in File |-> IF f \in Small THEN 1 ELSE 2]
MCMaxPauses == [f \in File |-> IF f \in Small THEN 0 ELSE 1]
=============================================================================
