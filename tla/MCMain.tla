------------------------------- MODULE MCMain -------------------------------
(***************************************************************************)
(* Instances of Main for TLC.                                              *)
(***************************************************************************)
EXTENDS Main
=============================================================================
