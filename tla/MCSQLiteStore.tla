---------------------------- MODULE MCSQLiteStore ----------------------------
(***************************************************************************)
(* Instances of SQLiteStore for TLC.                                       *)
(***************************************************************************)
EXTENDS SQLiteStore
=============================================================================
