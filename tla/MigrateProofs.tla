--------------------------- MODULE MigrateProofs ---------------------------
(***************************************************************************)
(* Proofs about Migrate, for any processes, any schemaVersion and any      *)
(* number of crashes.  VersionIsTruthful alone is not inductive: a commit  *)
(* writes what the transaction has gathered in work, so the invariant has  *)
(* to say what that is (StaleVersionIsHarmless), and who may serve.        *)
(***************************************************************************)
EXTENDS Migrate, TLAPS

IInv == TypeOK /\ VersionIsTruthful /\ OpenSeesAllColumns /\ StaleVersionIsHarmless

\* What a step must keep for one process.
ProcessOK(p) ==
    /\ WaitingOK(p) /\ HoldingOK(p) /\ StampedOK(p)
    /\ pc[p] = "open" => 1 .. SchemaVersion \subseteq db.steps
-----------------------------------------------------------------------------
\* The invariant speaks of every process alike.
LEMMA ByProcess ==
    /\ OpenSeesAllColumns /\ StaleVersionIsHarmless <=> \A p \in Processes : ProcessOK(p)
    /\ (OpenSeesAllColumns /\ StaleVersionIsHarmless)' <=> \A p \in Processes : ProcessOK(p)'
  BY DEF OpenSeesAllColumns, StaleVersionIsHarmless, ProcessOK

\* A release is a file, with as many steps as its version says.
LEMMA ReleaseType ==
    ASSUME NEW v \in 0 .. SchemaVersion + 1
    PROVE  /\ Release(v) \in Files
           /\ Release(v).version = v /\ Release(v).steps = 1 .. v
           /\ Release(v).steps = {} <=> v = 0
  BY SchemaVersionAssumption DEF Release, Files

LEMMA EmptyType == Empty \in Files /\ Empty.steps = {}
  BY ReleaseType, SchemaVersionAssumption DEF Empty

\* A file whose version tells the truth has all columns from schemaVersion on.
LEMMA ColumnsMeaning ==
    ASSUME db \in Files, VersionIsTruthful
    PROVE  /\ db.steps = 1 .. db.version
           /\ db.version \in 0 .. SchemaVersion + 1
           /\ 1 .. SchemaVersion \subseteq db.steps <=> db.version >= SchemaVersion
  <1>1. db.steps = 1 .. db.version /\ db.version \in 0 .. SchemaVersion + 1
    BY DEF VersionIsTruthful, Release, Files
  <1>2. 1 .. SchemaVersion \subseteq 1 .. db.version <=> db.version >= SchemaVersion
    BY <1>1, SchemaVersionAssumption
  <1> QED
    BY <1>1, <1>2

LEMMA InitInv == Init => IInv
  <1> SUFFICES ASSUME Init PROVE IInv
    OBVIOUS
  <1>1. PICK v \in 0 .. SchemaVersion + 1 : db = Release(v)
    BY DEF Init
  <1>2. TypeOK
    BY <1>1, ReleaseType, EmptyType, SchemaVersionAssumption, NobodyAssumption,
       MaxCrashesAssumption DEF Init, TypeOK
  <1>3. VersionIsTruthful
    BY <1>1, ReleaseType DEF VersionIsTruthful
  <1>4. \A p \in Processes : ProcessOK(p)
    BY NobodyAssumption DEF Init, ProcessOK, WaitingOK, HoldingOK, StampedOK
  <1> QED
    BY <1>2, <1>3, <1>4, ByProcess DEF IInv

\* A process that leaves without having changed the file: a refused statement, a
\* lock that is not given, a kill.
LEMMA LeaveInv ==
    ASSUME IInv, NEW p \in Processes, Leave(p, "off"), UNCHANGED db,
           crashes' \in 0 .. MaxCrashes
    PROVE  IInv'
  <1>1. TypeOK'
    BY EmptyType, NobodyAssumption, SchemaVersionAssumption DEF IInv, TypeOK, Leave
  <1>2. VersionIsTruthful'
    BY DEF IInv, VersionIsTruthful
  <1>3. ASSUME NEW q \in Processes PROVE ProcessOK(q)'
    <2>1. ProcessOK(q)
      BY ByProcess DEF IInv
    <2> QED
      BY <2>1, NobodyAssumption
         DEF IInv, TypeOK, Leave, ProcessOK, WaitingOK, HoldingOK, StampedOK
  <1> QED
    BY <1>1, <1>2, <1>3, ByProcess DEF IInv

LEMMA ReadVersionInv ==
    ASSUME IInv, NEW p \in Processes, ReadVersion(p)
    PROVE  IInv'
  <1>1. db \in Files /\ db.version \in 0 .. SchemaVersion + 1
    BY DEF IInv, TypeOK, Files
  <1>2. TypeOK'
    BY <1>1, SchemaVersionAssumption DEF IInv, TypeOK, ReadVersion
  <1>3. VersionIsTruthful'
    BY DEF IInv, VersionIsTruthful, ReadVersion
  <1>4. lock # p
    BY ByProcess DEF IInv, ProcessOK, StampedOK, ReadVersion
  <1>5. ASSUME NEW q \in Processes PROVE ProcessOK(q)'
    <2>1. ProcessOK(q)
      BY ByProcess DEF IInv
    <2>2. CASE q = p
      BY <1>1, <1>4, <2>1, <2>2, ColumnsMeaning, SchemaVersionAssumption
         DEF IInv, TypeOK, ReadVersion, ProcessOK, WaitingOK, HoldingOK, StampedOK
    <2>3. CASE q # p
      BY <2>1, <2>3
         DEF IInv, TypeOK, ReadVersion, ProcessOK, WaitingOK, HoldingOK, StampedOK
    <2> QED
      BY <2>2, <2>3
  <1> QED
    BY <1>2, <1>3, <1>5, ByProcess DEF IInv

\* What a step makes of the steps there are: the next one follows the last, or
\* it is the first one again on a file that was migrated meanwhile.
LEMMA ApplyGathers ==
    ASSUME IInv, NEW p \in Processes, Apply(p)
    PROVE  /\ next[p] \in 1 .. SchemaVersion
           /\ work'[p] \in Files /\ work'[p].steps # {}
           /\ \/ /\ db.version < SchemaVersion
                 /\ next[p] \in db.version + 1 .. SchemaVersion
                 /\ work'[p] = [version |-> db.version, steps |-> 1 .. next[p]]
              \/ db.version = SchemaVersion /\ next[p] = 1 /\ work'[p] = db
  <1>1. /\ ProcessOK(p) /\ db \in Files /\ work[p] \in Files
        /\ work \in [Processes -> Files]
    BY ByProcess DEF IInv, TypeOK
  <1>2. /\ db.steps = 1 .. db.version /\ db.version \in 0 .. SchemaVersion + 1
        /\ db = [version |-> db.version, steps |-> 1 .. db.version]
    BY <1>1, ColumnsMeaning DEF IInv, Files
  <1>3. work'[p] = [Sees(p) EXCEPT !.steps = @ \cup {next[p]}]
    BY <1>1 DEF Apply
  <1>4. pc[p] = "begun" /\ next[p] <= SchemaVersion /\ ~ Refused(p)
    BY DEF Apply
  <1>5. CASE lock # p
    <2>1. Sees(p) = db
      BY <1>5 DEF Sees
    <2>2. CASE db.version < SchemaVersion /\ next[p] = db.version + 1
      <3>1. 1 .. db.version \cup {next[p]} = 1 .. next[p]
        BY <1>2, <2>2, SchemaVersionAssumption
      <3>2. work'[p] = [version |-> db.version, steps |-> 1 .. next[p]]
        BY <1>2, <1>3, <2>1, <3>1
      <3>3. next[p] \in db.version + 1 .. SchemaVersion /\ next[p] \in 1 .. SchemaVersion
        BY <1>2, <2>2, SchemaVersionAssumption
      <3>4. work'[p] \in Files /\ work'[p].steps # {}
        BY <1>2, <3>2, <3>3, SchemaVersionAssumption DEF Files
      <3> QED
        BY <2>2, <3>2, <3>3, <3>4
    <2>3. CASE db.version = SchemaVersion /\ next[p] \in 1 .. SchemaVersion
      <3>1. next[p] = 1
        BY <1>2, <1>4, <2>1, <2>3, SchemaVersionAssumption DEF Refused
      <3>2. db.steps \cup {next[p]} = db.steps
        BY <1>2, <2>3
      <3>3. work'[p] = db
        BY <1>2, <1>3, <2>1, <3>2
      <3>4. db.steps # {}
        BY <1>2, <2>3
      <3> QED
        BY <1>1, <2>3, <3>1, <3>3, <3>4
    <2> QED
      BY <1>1, <1>4, <1>5, <2>2, <2>3 DEF ProcessOK, WaitingOK
  <1>6. CASE lock = p
    <2>1. Sees(p) = work[p]
      BY <1>6 DEF Sees
    <2>2. ~ (db.version = SchemaVersion /\ next[p] = 2 /\ work[p] = db)
      BY <1>2, <1>4, <2>1, SchemaVersionAssumption DEF Refused
    <2>3. /\ db.version < SchemaVersion
          /\ next[p] \in db.version + 2 .. SchemaVersion + 1
          /\ work[p] = [version |-> db.version, steps |-> 1 .. next[p] - 1]
      BY <1>1, <1>4, <1>6, <2>2 DEF ProcessOK, HoldingOK
    <2>4. next[p] \in db.version + 1 .. SchemaVersion /\ next[p] \in 1 .. SchemaVersion
      BY <1>2, <1>4, <2>3, SchemaVersionAssumption
    <2>5. 1 .. next[p] - 1 \cup {next[p]} = 1 .. next[p]
      BY <2>4, SchemaVersionAssumption
    <2>6. work'[p] = [version |-> db.version, steps |-> 1 .. next[p]]
      <3>1. work[p].steps = 1 .. next[p] - 1
        BY <2>3
      <3>2. work'[p] = [work[p] EXCEPT !.steps = 1 .. next[p]]
        BY <1>3, <2>1, <2>5, <3>1
      <3> QED
        BY <2>3, <3>2
    <2>7. work'[p] \in Files /\ work'[p].steps # {}
      BY <1>2, <2>4, <2>6, SchemaVersionAssumption DEF Files
    <2> QED
      BY <2>3, <2>4, <2>6, <2>7
  <1> QED
    BY <1>5, <1>6

LEMMA ApplyInv ==
    ASSUME IInv, NEW p \in Processes, Apply(p)
    PROVE  IInv'
  <1>1. next[p] \in 1 .. SchemaVersion /\ work'[p] \in Files /\ work'[p].steps # {}
    BY ApplyGathers
  <1>2. TypeOK'
    <2>1. \A q \in Processes : q # p => work'[q] = work[q]
      BY DEF IInv, TypeOK, Apply
    <2>2. work' \in [Processes -> Files]
      BY <1>1, <2>1 DEF IInv, TypeOK, Apply
    <2>3. next' \in [Processes -> 0 .. SchemaVersion + 1]
      BY <1>1, SchemaVersionAssumption DEF IInv, TypeOK, Apply
    <2>4. \A q \in Processes : lock' = q <=> work'[q].steps # {}
      BY <1>1, <2>1, NobodyAssumption DEF IInv, TypeOK, Apply
    <2> QED
      BY <2>2, <2>3, <2>4 DEF IInv, TypeOK, Apply
  <1>3. VersionIsTruthful'
    BY DEF IInv, VersionIsTruthful, Apply
  <1>4. ASSUME NEW q \in Processes PROVE ProcessOK(q)'
    <2>1. ProcessOK(q)
      BY ByProcess DEF IInv
    <2>2. CASE q = p
      <3>1. pc'[p] = "begun" /\ lock' = p /\ db' = db /\ next'[p] = next[p] + 1
        BY DEF IInv, TypeOK, Apply
      <3>2. db.version \in 0 .. SchemaVersion + 1
        BY DEF IInv, TypeOK, Files
      <3>3. HoldingOK(p)'
        BY <1>1, <3>1, <3>2, ApplyGathers, SchemaVersionAssumption DEF HoldingOK
      <3> QED
        BY <2>2, <3>1, <3>3 DEF ProcessOK, WaitingOK, StampedOK
    <2>3. CASE q # p
      BY <2>1, <2>3, NobodyAssumption
         DEF IInv, TypeOK, Apply, ProcessOK, WaitingOK, HoldingOK, StampedOK
    <2> QED
      BY <2>2, <2>3
  <1> QED
    BY <1>2, <1>3, <1>4, ByProcess DEF IInv

LEMMA StampInv ==
    ASSUME IInv, NEW p \in Processes, Stamp(p)
    PROVE  IInv'
  <1>1. ProcessOK(p) /\ db \in Files /\ work[p] \in Files /\ db.version \in 0 .. SchemaVersion + 1
    BY ByProcess DEF IInv, TypeOK, Files
  <1>2. work'[p] = [work[p] EXCEPT !.version = SchemaVersion]
    BY DEF IInv, TypeOK, Stamp
  <1>3. work[p].steps = 1 .. SchemaVersion /\ db.version <= SchemaVersion
    <2>1. pc[p] = "begun" /\ lock = p /\ next[p] = SchemaVersion + 1
      BY DEF Stamp
    <2>2. CASE db.version < SchemaVersion /\ work[p] = [version |-> db.version, steps |-> 1 .. next[p] - 1]
      <3>1. work[p].steps = 1 .. next[p] - 1 /\ next[p] - 1 = SchemaVersion
        BY <2>1, <2>2, SchemaVersionAssumption
      <3> QED
        BY <1>1, <2>2, <3>1, SchemaVersionAssumption
    <2>3. CASE db.version = SchemaVersion /\ work[p] = db
      BY <1>1, <2>3, ColumnsMeaning, SchemaVersionAssumption DEF IInv
    <2> QED
      BY <1>1, <2>1, <2>2, <2>3 DEF ProcessOK, HoldingOK
  <1>4. work'[p] = Release(SchemaVersion)
    BY <1>1, <1>2, <1>3 DEF Release, Files
  <1>5. work'[p] \in Files /\ work'[p].steps # {}
    BY <1>4, ReleaseType, SchemaVersionAssumption
  <1>6. TypeOK'
    BY <1>5 DEF IInv, TypeOK, Stamp
  <1>7. VersionIsTruthful'
    BY DEF IInv, VersionIsTruthful, Stamp
  <1>8. ASSUME NEW q \in Processes PROVE ProcessOK(q)'
    <2>1. ProcessOK(q)
      BY ByProcess DEF IInv
    <2>2. CASE q = p
      BY <1>3, <1>4, <2>2
         DEF IInv, TypeOK, Stamp, ProcessOK, WaitingOK, HoldingOK, StampedOK
    <2>3. CASE q # p
      BY <2>1, <2>3
         DEF IInv, TypeOK, Stamp, ProcessOK, WaitingOK, HoldingOK, StampedOK
    <2> QED
      BY <2>2, <2>3
  <1> QED
    BY <1>6, <1>7, <1>8, ByProcess DEF IInv

\* What a commit makes of the file.
LEMMA CommitReleases ==
    ASSUME IInv, NEW p \in Processes, Commit(p)
    PROVE  /\ lock = p /\ db.version <= SchemaVersion
           /\ db' = Release(SchemaVersion)
           /\ db' # db => db.version < SchemaVersion
           /\ db' \in Files /\ db'.version = SchemaVersion
           /\ db'.steps = 1 .. SchemaVersion
  <1>1. lock = p /\ db.version <= SchemaVersion /\ work[p] = Release(SchemaVersion)
    BY ByProcess DEF IInv, Commit, ProcessOK, StampedOK
  <1>2. db' = Release(SchemaVersion)
    BY <1>1 DEF Commit
  <1>3. db.version = SchemaVersion => db' = db
    BY <1>2 DEF IInv, VersionIsTruthful
  <1>4. db.version \in 0 .. SchemaVersion + 1
    BY DEF IInv, TypeOK, Files
  <1> QED
    BY <1>1, <1>2, <1>3, <1>4, ReleaseType, SchemaVersionAssumption

LEMMA CommitInv ==
    ASSUME IInv, NEW p \in Processes, Commit(p)
    PROVE  IInv'
  <1>1. TypeOK'
    BY CommitReleases, EmptyType, NobodyAssumption, SchemaVersionAssumption
       DEF IInv, TypeOK, Commit, Leave
  <1>2. VersionIsTruthful'
    BY CommitReleases DEF VersionIsTruthful
  <1>3. ASSUME NEW q \in Processes PROVE ProcessOK(q)'
    <2>1. ProcessOK(q) /\ db.version \in 0 .. SchemaVersion + 1
      BY ByProcess DEF IInv, TypeOK, Files
    <2>2. 1 .. SchemaVersion \subseteq db'.steps
      BY CommitReleases
    <2>3. CASE q = p
      BY <2>2, <2>3, NobodyAssumption
         DEF IInv, TypeOK, Commit, Leave, ProcessOK, WaitingOK, HoldingOK, StampedOK
    <2>4. CASE q # p
      <3>1. lock # q /\ lock' # q /\ pc'[q] = pc[q] /\ next'[q] = next[q] /\ work'[q] = work[q]
        BY <2>4, CommitReleases, NobodyAssumption DEF IInv, TypeOK, Commit, Leave
      <3>2. WaitingOK(q)'
        BY <2>1, <3>1, CommitReleases, SchemaVersionAssumption DEF ProcessOK, WaitingOK
      <3>3. HoldingOK(q)' /\ StampedOK(q)'
        BY <2>1, <3>1 DEF ProcessOK, HoldingOK, StampedOK
      <3> QED
        BY <2>2, <3>2, <3>3 DEF ProcessOK
    <2> QED
      BY <2>3, <2>4
  <1> QED
    BY <1>1, <1>2, <1>3, ByProcess DEF IInv

LEMMA NextInv == IInv /\ [Next]_vars => IInv'
  <1> SUFFICES ASSUME IInv, [Next]_vars PROVE IInv'
    OBVIOUS
  <1>1. CASE UNCHANGED vars
    BY <1>1 DEF vars, IInv, TypeOK, VersionIsTruthful, OpenSeesAllColumns,
                StaleVersionIsHarmless, WaitingOK, HoldingOK, StampedOK
  <1>2. crashes \in 0 .. MaxCrashes
    BY DEF IInv, TypeOK
  <1>3. ASSUME NEW p \in Processes, Open(p) PROVE IInv'
    <2>1. CASE Duplicate(p)
      BY <1>2, <2>1, LeaveInv DEF Duplicate
    <2> QED
      BY <1>3, <2>1, ReadVersionInv, ApplyInv, StampInv, CommitInv DEF Open
  <1>4. ASSUME NEW p \in Processes, Busy(p) PROVE IInv'
    BY <1>2, <1>4, LeaveInv DEF Busy
  <1>5. ASSUME NEW p \in Processes, Crash(p) PROVE IInv'
    <2>1. crashes' \in 0 .. MaxCrashes
      BY <1>2, <1>5, MaxCrashesAssumption DEF Crash
    <2> QED
      BY <1>5, <2>1, LeaveInv DEF Crash
  <1> QED
    BY <1>1, <1>3, <1>4, <1>5 DEF Next, Running
-----------------------------------------------------------------------------
\* IInv holds in every reachable state of Migrate.
THEOREM Invariance == Spec => []IInv
  <1> QED
    BY InitInv, NextInv, PTL DEF Spec

\* Every variable keeps its type.
THEOREM TypeCorrect == Spec => []TypeOK
  <1>1. IInv => TypeOK
    BY DEF IInv
  <1> QED
    BY <1>1, Invariance, PTL

\* The version in the file tells which schema steps it has had, wherever
\* processes die and however many open it.
THEOREM VersionsAreTruthful == Spec => []VersionIsTruthful
  <1>1. IInv => VersionIsTruthful
    BY DEF IInv
  <1> QED
    BY <1>1, Invariance, PTL

\* An out-of-date version never lets a step be applied twice or left out.
THEOREM StaleVersionsAreHarmless == Spec => []StaleVersionIsHarmless
  <1>1. IInv => StaleVersionIsHarmless
    BY DEF IInv
  <1> QED
    BY <1>1, Invariance, PTL

\* A process that serves has every column it selects.
THEOREM ServersSeeAllColumns == Spec => []OpenSeesAllColumns
  <1>1. IInv => OpenSeesAllColumns
    BY DEF IInv
  <1> QED
    BY <1>1, Invariance, PTL

\* A file is migrated once, whoever reads an old version from it meanwhile.
MigratedOnce == [][db' # db => db.version < SchemaVersion /\ db'.version = SchemaVersion]_vars

\* So it is for every schemaVersion and any number of processes and crashes.
THEOREM FilesAreMigratedOnce == Spec => MigratedOnce
  <1>1. IInv /\ [Next]_vars =>
          [db' # db => db.version < SchemaVersion /\ db'.version = SchemaVersion]_vars
    <2> SUFFICES ASSUME IInv, [Next]_vars, db' # db
                 PROVE  db.version < SchemaVersion /\ db'.version = SchemaVersion
      OBVIOUS
    <2>1. PICK p \in Processes : Commit(p)
      BY DEF Next, Open, ReadVersion, Apply, Duplicate, Stamp, Busy, Crash, Running, vars
    <2> QED
      BY <2>1, CommitReleases
  <1> QED
    BY <1>1, Invariance, PTL DEF Spec, MigratedOnce
-----------------------------------------------------------------------------
\* Open fails only when another process has the lock, or has had it and left the
\* file as this release wants it: the supervisor's next start does not meet the
\* same failure for ever.  (A kill is not a failure of Open.)
OnlyRacesFail ==
    [][\A p \in Processes :
          pc[p] \in {"begun", "stamped"} /\ pc'[p] = "off" /\ crashes' = crashes =>
             \/ lock \in Processes \ {p}
             \/ db.version = SchemaVersion /\ db = Release(SchemaVersion)]_vars

\* A process fails alone.
LEMMA WhoFails ==
    ASSUME IInv, NEW p \in Processes, Next,
           pc[p] \in {"begun", "stamped"}, pc'[p] = "off", crashes' = crashes
    PROVE  Duplicate(p) \/ Busy(p)
  <1>1. PICK q \in Processes : Open(q) \/ Busy(q) \/ Crash(q)
    BY DEF Next, Running, vars
  <1>2. ~Crash(q)
    BY DEF Crash, IInv, TypeOK
  <1>3. q = p
    BY <1>1, <1>2
       DEF Open, ReadVersion, Apply, Duplicate, Stamp, Commit, Busy, Leave, IInv, TypeOK
  <1>4. ~(ReadVersion(p) \/ Apply(p) \/ Stamp(p) \/ Commit(p))
    BY DEF ReadVersion, Apply, Stamp, Commit, Leave, IInv, TypeOK
  <1> QED
    BY <1>1, <1>2, <1>3, <1>4 DEF Open

\* A statement is refused on a file that another process has migrated, and on no
\* other.
LEMMA RefusedMeaning ==
    ASSUME IInv, NEW p \in Processes, Duplicate(p)
    PROVE  db.version = SchemaVersion
  <1>1. /\ ProcessOK(p) /\ db \in Files /\ db.version \in 0 .. SchemaVersion + 1
        /\ db.steps = 1 .. db.version
    BY ByProcess, ColumnsMeaning DEF IInv, TypeOK
  <1>2. pc[p] = "begun" /\ next[p] \in Sees(p).steps
    BY DEF Duplicate, Refused
  <1>3. CASE lock # p
    <2>1. next[p] \in 1 .. db.version
      BY <1>1, <1>2, <1>3 DEF Sees
    <2> QED
      BY <1>1, <1>2, <1>3, <2>1 DEF ProcessOK, WaitingOK
  <1>4. CASE lock = p
    <2>1. next[p] \in work[p].steps
      BY <1>2, <1>4 DEF Sees
    <2>2. ASSUME next[p] \in db.version + 2 .. SchemaVersion + 1,
                 work[p] = [version |-> db.version, steps |-> 1 .. next[p] - 1]
          PROVE  FALSE
      <3>1. next[p] \in 1 .. next[p] - 1
        BY <2>1, <2>2
      <3>2. next[p] \in Nat
        BY <1>1, <2>2, SchemaVersionAssumption
      <3> QED
        BY <3>1, <3>2
    <2> QED
      BY <1>1, <1>2, <1>4, <2>2 DEF ProcessOK, HoldingOK
  <1> QED
    BY <1>3, <1>4

\* The safety half of EveryProcessOpens: no process is turned away by a file that
\* nobody is going to repair.
THEOREM OnlyRacesFailAlways == Spec => OnlyRacesFail
  <1>1. IInv /\ [Next]_vars =>
          [\A p \in Processes :
              pc[p] \in {"begun", "stamped"} /\ pc'[p] = "off" /\ crashes' = crashes =>
                 \/ lock \in Processes \ {p}
                 \/ db.version = SchemaVersion /\ db = Release(SchemaVersion)]_vars
    <2> SUFFICES ASSUME IInv, Next, NEW p \in Processes,
                        pc[p] \in {"begun", "stamped"}, pc'[p] = "off", crashes' = crashes
                 PROVE  \/ lock \in Processes \ {p}
                        \/ db.version = SchemaVersion /\ db = Release(SchemaVersion)
      OBVIOUS
    <2>1. CASE Busy(p)
      BY <2>1 DEF Busy, IInv, TypeOK
    <2>2. CASE Duplicate(p)
      BY <2>2, RefusedMeaning DEF IInv, VersionIsTruthful
    <2> QED
      BY <2>1, <2>2, WhoFails
  <1> QED
    BY <1>1, Invariance, PTL DEF Spec, OnlyRacesFail
-----------------------------------------------------------------------------
\* The refinement of DatabaseFile: a process that finds the file current, and the
\* commit of one that does not, map to Open, the end of one that serves to Die, all
\* else to stuttering.
Servers == {p \in Processes : pc[p] = "open"}

\* A process that is not a server, and whose place changes only.
LEMMA ServersStay ==
    ASSUME IInv, NEW p \in Processes, pc[p] # "open",
           \A q \in Processes \ {p} : pc'[q] = pc[q]
    PROVE  /\ pc'[p] # "open" => Servers' = Servers
           /\ pc'[p] = "open" => p \notin Servers /\ Servers' = Servers \cup {p}
  BY DEF Servers

LEMMA MigrateStepRefines == IInv /\ [Next]_vars => [File!Next]_(File!vars)
  <1> SUFFICES ASSUME IInv, [Next]_vars PROVE [File!Next]_(File!vars)
    OBVIOUS
  <1> USE DEF Servers
  <1>1. CASE UNCHANGED vars
    BY <1>1 DEF vars, File!vars
  <1>2. ASSUME NEW p \in Processes, ReadVersion(p) PROVE [File!Next]_(File!vars)
    <2>1. /\ UNCHANGED db /\ pc[p] # "open" /\ \A q \in Processes \ {p} : pc'[q] = pc[q]
          /\ pc'[p] = "open" => db.version >= SchemaVersion
      BY <1>2 DEF ReadVersion, IInv, TypeOK
    <2>2. CASE pc'[p] = "open"
      <3>1. ~(db.version < SchemaVersion)
        BY <2>1, <2>2, SchemaVersionAssumption DEF IInv, TypeOK, Files
      <3>2. File!Open(p)
        BY <2>1, <2>2, <3>1, ServersStay DEF File!Open
      <3> QED
        BY <3>2 DEF File!Next
    <2>3. CASE pc'[p] # "open"
      BY <2>1, <2>3, ServersStay DEF File!vars
    <2> QED
      BY <2>2, <2>3
  <1>3. ASSUME NEW p \in Processes, Apply(p) \/ Stamp(p) \/ Duplicate(p) \/ Busy(p)
        PROVE  [File!Next]_(File!vars)
    <2>1. /\ UNCHANGED db /\ pc[p] # "open" /\ \A q \in Processes \ {p} : pc'[q] = pc[q]
          /\ pc'[p] # "open"
      BY <1>3 DEF Apply, Stamp, Duplicate, Busy, Leave, IInv, TypeOK
    <2> QED
      BY <2>1, ServersStay DEF File!vars
  <1>4. ASSUME NEW p \in Processes, Commit(p) PROVE File!Next
    <2>1. /\ pc[p] # "open" /\ pc'[p] = "open"
          /\ \A q \in Processes \ {p} : pc'[q] = pc[q]
      BY <1>4 DEF Commit, Leave, IInv, TypeOK
    <2>2. /\ db' = Release(SchemaVersion)
          /\ db' # db => db.version < SchemaVersion
      BY <1>4, CommitReleases
    <2>3. db' = IF db.version < SchemaVersion THEN File!Release(SchemaVersion) ELSE db
      BY <2>2 DEF Release, File!Release
    <2>4. File!Open(p)
      BY <2>1, <2>3, ServersStay DEF File!Open
    <2> QED
      BY <2>4 DEF File!Next
  <1>5. ASSUME NEW p \in Processes, Crash(p) PROVE [File!Next]_(File!vars)
    <2>1. /\ UNCHANGED db /\ pc'[p] = "off"
          /\ \A q \in Processes \ {p} : pc'[q] = pc[q]
      BY <1>5 DEF Crash, Leave, IInv, TypeOK
    <2>2. CASE pc[p] = "open"
      <3>1. File!Die(p)
        BY <2>1, <2>2 DEF File!Die
      <3> QED
        BY <3>1 DEF File!Next
    <2>3. CASE pc[p] # "open"
      BY <2>1, <2>3, ServersStay DEF File!vars
    <2> QED
      BY <2>2, <2>3
  <1> QED
    BY <1>1, <1>2, <1>3, <1>4, <1>5 DEF Next, Running, Open

\* Every behaviour of the processes that open one file, with their races, failures
\* and crashes, is one in which a migration is a single instant.
THEOREM MigrationIsAtomic == Spec => OpenIsAtomic
  <1>1. Init => File!Init
    BY DEF Init, Release, File!Init, File!Release
  <1> QED
    BY <1>1, MigrateStepRefines, Invariance, PTL DEF Spec, OpenIsAtomic, File!Spec
=============================================================================
