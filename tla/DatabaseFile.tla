---------------------------- MODULE DatabaseFile ----------------------------
(***************************************************************************)
(* What Open of internal/store promises the processes that share a         *)
(* database file: to them a migration is one instant.  A file has the      *)
(* schema of one release or another, never something between; the first    *)
(* process that serves takes an older one to this release, and nobody      *)
(* takes a file back or touches it again.                                  *)
(***************************************************************************)
EXTENDS Naturals

CONSTANTS
    Processes,       \* the processes that open the file
    SchemaVersion    \* schemaVersion

VARIABLES
    file,      \* the version in the file and the schema steps it has had
    servers    \* the processes that have it open

vars == <<file, servers>>

Release(v) == [version |-> v, steps |-> 1 .. v]

Init ==
    /\ file \in {Release(v) : v \in 0 .. SchemaVersion + 1}
    /\ servers = {}

\* Open returns the store.
Open(p) ==
    /\ p \notin servers
    /\ servers' = servers \cup {p}
    /\ file' = IF file.version < SchemaVersion THEN Release(SchemaVersion) ELSE file

\* The process dies.
Die(p) ==
    /\ p \in servers
    /\ servers' = servers \ {p}
    /\ UNCHANGED file

Next == \E p \in Processes : Open(p) \/ Die(p)

Spec == Init /\ [][Next]_vars
=============================================================================
