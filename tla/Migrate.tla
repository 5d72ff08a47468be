------------------------------ MODULE Migrate ------------------------------
(***************************************************************************)
(* internal/store/migrate.go: what Open does to a database file of any     *)
(* earlier release, when several processes open it at once (two containers *)
(* on one volume) and when they die on the way.                            *)
(*                                                                         *)
(* The version is read before the transaction begins.  The statements of   *)
(* the transaction run on what is committed when the first of them gets    *)
(* the write lock; SQLite waits for the lock, busy_timeout at most.        *)
(***************************************************************************)
EXTENDS Naturals, FiniteSets

CONSTANTS
    Processes,       \* the processes that open the database file
    Nobody,          \* nobody holds the write lock
    SchemaVersion,   \* schemaVersion
    MaxCrashes       \* bound: processes are killed this often

ASSUME SchemaVersionAssumption == SchemaVersion \in Nat \ {0}
ASSUME NobodyAssumption == Nobody \notin Processes
ASSUME MaxCrashesAssumption == MaxCrashes \in Nat

VARIABLES
    db,        \* what is committed: user_version, and the schema steps applied
    lock,      \* the process whose transaction has the write lock
    pc,        \* where a process is in Open
    next,      \* the schema step a process applies next
    work,      \* what the transaction of a process sees
    crashes    \* how often a process was killed

vars == <<db, lock, pc, next, work, crashes>>

Files == [version : 0 .. SchemaVersion + 1, steps : SUBSET (1 .. SchemaVersion + 1)]
Release(v) == [version |-> v, steps |-> 1 .. v]
Empty == Release(0)

\* A new file, one of an earlier release, of this one, or of a later one.
Init ==
    /\ db \in {Release(v) : v \in 0 .. SchemaVersion + 1}
    /\ lock = Nobody
    /\ pc = [p \in Processes |-> "off"]
    /\ next = [p \in Processes |-> 0]
    /\ work = [p \in Processes |-> Empty]
    /\ crashes = 0
-----------------------------------------------------------------------------

\* The process leaves migrate; the deferred Rollback ends its transaction.
Leave(p, place) ==
    /\ pc' = [pc EXCEPT ![p] = place]
    /\ lock' = IF lock = p THEN Nobody ELSE lock
    /\ next' = [next EXCEPT ![p] = 0]
    /\ work' = [work EXCEPT ![p] = Empty]

\* MUTANT of ReadVersion: a file that is one version behind is taken for current.
ReadVersionOffByOne(p) ==
    /\ pc[p] = "off"
    /\ IF db.version >= SchemaVersion - 1
       THEN /\ pc' = [pc EXCEPT ![p] = "open"]
            /\ UNCHANGED next
       ELSE /\ pc' = [pc EXCEPT ![p] = "begun"]
            /\ next' = [next EXCEPT ![p] = db.version + 1]
    /\ UNCHANGED <<db, lock, work, crashes>>

\* A process starts and reads user_version.
ReadVersion(p) ==
    /\ pc[p] = "off"
    /\ IF db.version >= SchemaVersion
       THEN /\ pc' = [pc EXCEPT ![p] = "open"]
            /\ UNCHANGED next
       ELSE /\ pc' = [pc EXCEPT ![p] = "begun"]
            /\ next' = [next EXCEPT ![p] = db.version + 1]
    /\ UNCHANGED <<db, lock, work, crashes>>

\* What the next statement of the process runs on, if it has or gets the lock.
Sees(p) == IF lock = p THEN work[p] ELSE db

\* A column cannot be added twice; the table is created if it does not exist.
Refused(p) == next[p] > 1 /\ next[p] \in Sees(p).steps

\* MUTANT of Apply: the statements are executed on db instead of tx.
ApplyWithoutTransaction(p) ==
    /\ pc[p] = "begun"
    /\ lock \in {p, Nobody}
    /\ next[p] <= SchemaVersion
    /\ next[p] = 1 \/ next[p] \notin db.steps
    /\ db' = [db EXCEPT !.steps = @ \cup {next[p]}]
    /\ lock' = p
    /\ work' = [work EXCEPT ![p] = db']
    /\ next' = [next EXCEPT ![p] = @ + 1]
    /\ UNCHANGED <<pc, crashes>>

\* One schema step; the first takes the write lock.
Apply(p) ==
    /\ pc[p] = "begun"
    /\ lock \in {p, Nobody}
    /\ next[p] <= SchemaVersion /\ ~ Refused(p)
    /\ lock' = p
    /\ work' = [work EXCEPT ![p] = [Sees(p) EXCEPT !.steps = @ \cup {next[p]}]]
    /\ next' = [next EXCEPT ![p] = @ + 1]
    /\ UNCHANGED <<db, pc, crashes>>

\* Somebody else has added the column meanwhile: Open fails, main exits.
Duplicate(p) ==
    /\ pc[p] = "begun"
    /\ lock \in {p, Nobody}
    /\ next[p] <= SchemaVersion /\ Refused(p)
    /\ Leave(p, "off")
    /\ UNCHANGED <<db, crashes>>

\* Somebody else keeps the lock for longer than the busy timeout.
Busy(p) ==
    /\ pc[p] = "begun"
    /\ lock \notin {p, Nobody}
    /\ Leave(p, "off")
    /\ UNCHANGED <<db, crashes>>

\* MUTANT of Stamp: the version that was read is advanced by one.
StampNext(p) ==
    /\ pc[p] = "begun" /\ lock = p
    /\ next[p] = SchemaVersion + 1
    /\ work' = [work EXCEPT ![p] = [@ EXCEPT !.version = db.version + 1]]
    /\ pc' = [pc EXCEPT ![p] = "stamped"]
    /\ UNCHANGED <<db, lock, next, crashes>>

\* PRAGMA user_version.
Stamp(p) ==
    /\ pc[p] = "begun" /\ lock = p
    /\ next[p] = SchemaVersion + 1
    /\ work' = [work EXCEPT ![p] = [@ EXCEPT !.version = SchemaVersion]]
    /\ pc' = [pc EXCEPT ![p] = "stamped"]
    /\ UNCHANGED <<db, lock, next, crashes>>

\* The transaction is committed, Open returns the store.
Commit(p) ==
    /\ pc[p] = "stamped"
    /\ db' = work[p]
    /\ Leave(p, "open")
    /\ UNCHANGED crashes

\* The process dies; its transaction is rolled back.
Crash(p) ==
    /\ pc[p] # "off"
    /\ crashes < MaxCrashes
    /\ crashes' = crashes + 1
    /\ Leave(p, "off")
    /\ UNCHANGED db

Open(p) == ReadVersion(p) \/ Apply(p) \/ Duplicate(p) \/ Stamp(p) \/ Commit(p)

\* All processes have opened the file and serve.
Running ==
    /\ \A p \in Processes : pc[p] = "open"
    /\ UNCHANGED vars

Next ==
    \/ \E p \in Processes : Open(p) \/ Busy(p) \/ Crash(p)
    \/ Running

Spec == Init /\ [][Next]_vars

\* A process is started until it runs, and runs on.
Fairness == \A p \in Processes : WF_vars(Open(p))

FairSpec == Spec /\ Fairness
-----------------------------------------------------------------------------
\* Every variable has its type; the lock is held by a process that has applied
\* a step.
TypeOK ==
    /\ db \in Files
    /\ lock \in Processes \cup {Nobody}
    /\ pc \in [Processes -> {"off", "begun", "stamped", "open"}]
    /\ next \in [Processes -> 0 .. SchemaVersion + 1]
    /\ work \in [Processes -> Files]
    /\ crashes \in 0 .. MaxCrashes
    /\ \A p \in Processes : lock = p <=> work[p].steps # {}

\* A process that waits for the lock has the version it read still right, or the
\* file has meanwhile been migrated by another one.
WaitingOK(p) ==
    pc[p] = "begun" /\ lock # p =>
        \/ db.version < SchemaVersion /\ next[p] = db.version + 1
        \/ db.version = SchemaVersion /\ next[p] \in 1 .. SchemaVersion

\* A process that has the lock has added steps to those of the file, without a
\* gap; if the file was migrated meanwhile it has added nothing, and its second
\* step, a column, will be refused.
HoldingOK(p) ==
    pc[p] = "begun" /\ lock = p =>
        \/ /\ db.version < SchemaVersion
           /\ next[p] \in db.version + 2 .. SchemaVersion + 1
           /\ work[p] = [version |-> db.version, steps |-> 1 .. next[p] - 1]
        \/ db.version = SchemaVersion /\ next[p] = 2 /\ work[p] = db

\* What is about to be committed is this release.
StampedOK(p) ==
    /\ pc[p] = "stamped" => lock = p /\ db.version <= SchemaVersion /\ work[p] = Release(SchemaVersion)
    /\ lock = p => pc[p] \in {"begun", "stamped"}
    /\ lock # p => work[p] = Empty

\* A version that was read before the transaction began may be out of date, but
\* never in a way that lets a step be applied twice or left out.
StaleVersionIsHarmless == \A p \in Processes : WaitingOK(p) /\ HoldingOK(p) /\ StampedOK(p)

\* The version in the file says which steps its schema has had, so that the next
\* start knows what is missing: no crash leaves one without the other.
VersionIsTruthful == db = Release(db.version)

\* A process that serves has every column it selects.
OpenSeesAllColumns ==
    \A p \in Processes : pc[p] = "open" => 1 .. SchemaVersion \subseteq db.steps

\* Whatever processes race for the lock, give up or die, to those that serve a
\* migration is one instant.
File == INSTANCE DatabaseFile WITH file <- db, servers <- {p \in Processes : pc[p] = "open"}
OpenIsAtomic == File!Spec

\* Every process gets the store open in the end: who loses the race against
\* another, or dies, finds a file the next start can work with.
EveryProcessOpens == \A p \in Processes : <>[](pc[p] = "open")
=============================================================================
