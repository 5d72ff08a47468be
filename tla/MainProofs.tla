------------------------------ MODULE MainProofs ------------------------------
(***************************************************************************)
(* Proofs about Main, for any requests and any number of signals.  The two *)
(* goroutines share errCh and the server: MInv says how far the one can be *)
(* when the other is at a given place.                                     *)
(***************************************************************************)
EXTENDS Main, TLAPS

\* The types of the variables that the argument needs.
MType ==
    /\ env \in Environments
    /\ main \in {"load", "open", "build", "go", "notify", "select", "shutdown", "return"}
    /\ listener \in {"off", "starting", "listening", "closing", "ended"}
    /\ errCh \in {"empty", "error", "closed"}
    /\ stop \in Nat /\ signals \in Nat

\* The listener is told to close by a main that has got a signal, and that waits
\* until it has; only then errCh is closed without an error.
Handshake ==
    /\ stop > 0 \/ main \in {"shutdown", "return"} => signals > 0
    /\ main \in {"load", "open", "build", "go"} => listener = "off"
    /\ errCh = "closed" => main \in {"shutdown", "return"}
    /\ listener = "closing" => main = "shutdown"
    /\ main \in {"shutdown", "return"} => listener # "listening"
    /\ main = "return" => open = {}
    /\ exit = 0 => main = "return" /\ store = "closed"

MInv == MType /\ Handshake
-----------------------------------------------------------------------------
\* A process that has just been started is in order.
LEMMA MainInit == Init => MInv
  BY StatusAssumption DEF Init, MInv, MType, Handshake

\* A step of the main goroutine, and the end of a drain that takes too long.
LEMMA MainStepInv ==
    ASSUME MInv, MainStep \/ DrainTimeout, exit = Running, UNCHANGED <<env, signals>>
    PROVE  MInv'
  <1> USE StatusAssumption DEF MInv, MType, Handshake, Proceed, Exit, goroutines
  <1>1. CASE LoadConfig
    <2>1. CASE cfg' = Invalid
      BY <1>1, <2>1 DEF LoadConfig
    <2>2. CASE cfg' # Invalid
      BY <1>1, <2>2 DEF LoadConfig
    <2> QED
      BY <2>1, <2>2
  <1>2. CASE OpenStore
    BY <1>2 DEF OpenStore
  <1>3. CASE BuildRegistry
    <2>1. main = "build" /\ (Exit(1) \/ (Proceed("go") /\ UNCHANGED <<listener, store>>))
      BY <1>3, Zenon DEF BuildRegistry
    <2> QED
      BY <2>1
  <1>4. CASE Go \/ Notify
    BY <1>4 DEF Go, Notify
  <1>5. CASE ReceiveError
    BY <1>5 DEF ReceiveError
  <1>6. CASE ReceiveSignal
    BY <1>6 DEF ReceiveSignal
  <1>7. CASE Drained
    BY <1>7 DEF Drained
  <1>8. CASE DrainTimeout
    BY <1>8 DEF DrainTimeout
  <1>9. CASE Return
    BY <1>9 DEF Return
  <1> QED
    BY <1>1, <1>2, <1>3, <1>4, <1>5, <1>6, <1>7, <1>8, <1>9 DEF MainStep

\* A step of the goroutine that listens.
LEMMA ListenerStepInv ==
    ASSUME MInv, ListenerStep, exit = Running, UNCHANGED <<env, signals>>
    PROVE  MInv'
  BY StatusAssumption
     DEF MInv, MType, Handshake, ListenerStep, Listen, ListenerFails,
         ListenerCloses

\* A request comes while somebody listens only, and goes.
LEMMA RequestInv ==
    ASSUME MInv, NEW r \in Requests, Accept(r) \/ Answer(r), exit = Running,
           UNCHANGED <<env, signals>>
    PROVE  MInv'
  BY StatusAssumption
     DEF MInv, MType, Handshake, Accept, Answer, goroutines

\* A signal kills the process or is put into the channel.
LEMMA SignalInv ==
    ASSUME MInv, Signal, exit = Running, UNCHANGED env
    PROVE  MInv'
  BY StatusAssumption
     DEF MInv, MType, Handshake, Signal, Exit, goroutines

\* MInv is inductive.
LEMMA MainNextInv == MInv /\ [Next]_vars => MInv'
  <1> SUFFICES ASSUME MInv, [Next]_vars PROVE MInv'
    OBVIOUS
  <1>1. CASE UNCHANGED vars
    BY <1>1 DEF MInv, MType, Handshake, vars, goroutines
  <1>2. CASE Next
    BY <1>2, MainStepInv, ListenerStepInv, RequestInv, SignalInv DEF Next
  <1> QED
    BY <1>1, <1>2

\* MInv holds in every state of a process.
THEOREM MainInvariance == Spec => []MInv
  <1> QED
    BY MainInit, MainNextInv, PTL DEF Spec

\* Exit status 0 means: asked to stop, every accepted request answered, nobody
\* listens, the store is closed, for any number of requests and signals.
THEOREM CleanExitIsDrainedAlways == Spec => []CleanExitIsDrained
  <1>1. MInv => CleanExitIsDrained
    BY DEF MInv, MType, Handshake, CleanExitIsDrained
  <1> QED
    BY <1>1, MainInvariance, PTL
-----------------------------------------------------------------------------
Misconfigured == ~ (env.secret >= 32 /\ env.baseURL # "" /\ env.dev # "maybe")

\* The safety half of MisconfiguredAborts: without a valid configuration main does
\* not get past Load, so no store is opened and no request accepted.
THEOREM MisconfiguredNeverServes ==
    Init /\ [][Next]_vars => [](Misconfigured => open = {} /\ store = "none")
  <1> DEFINE Halted ==
        Misconfigured => main = "load" /\ listener = "off" /\ open = {} /\ store = "none"
  <1>1. Init => Halted
    BY DEF Init
  <1>2. MType /\ Halted /\ [Next]_vars => Halted'
    <2> SUFFICES ASSUME MType, Halted, [Next]_vars, Misconfigured'
                 PROVE  main' = "load" /\ listener' = "off" /\ open' = {} /\ store' = "none"
      OBVIOUS
    <2>1. UNCHANGED env
      BY DEF Next, vars
    <2>2. Misconfigured /\ main = "load" /\ listener = "off" /\ open = {} /\ store = "none"
      BY <2>1 DEF Misconfigured
    <2>3. Load(env) = Invalid
      <3>1. minSecretLen = 32 /\ minSecretLen - 1 = 31
        BY DEF minSecretLen
      <3>2. env.secret \in {0, 31, 32}
        BY <3>1 DEF MType, Environments
      <3>3. env.secret < minSecretLen \/ env.secret >= 32
        BY <3>1, <3>2
      <3>4. env.secret < minSecretLen \/ env.baseURL = "" \/ env.dev = "maybe"
        BY <2>2, <3>3, Zenon DEF Misconfigured
      <3> QED
        BY <3>4 DEF Load
    <2>4. CASE UNCHANGED vars
      BY <2>2, <2>4 DEF vars, goroutines
    <2>5. CASE MainStep \/ DrainTimeout
      BY <2>2, <2>3, <2>5
         DEF MainStep, LoadConfig, OpenStore, BuildRegistry, Go, Notify, ReceiveError,
             ReceiveSignal, Drained, DrainTimeout, Return, Exit, goroutines
    <2>6. CASE ListenerStep \/ (\E r \in Requests : Accept(r) \/ Answer(r)) \/ Signal
      BY <2>2, <2>6
         DEF ListenerStep, Listen, ListenerFails, ListenerCloses, Accept, Answer, Signal,
             Exit, goroutines
    <2> QED
      BY <2>4, <2>5, <2>6 DEF Next
  <1>3. MInv => MType
    BY DEF MInv
  <1>4. Init /\ [][Next]_vars => []MInv
    BY MainInit, MainNextInv, PTL
  <1>5. Halted => (Misconfigured => open = {} /\ store = "none")
    OBVIOUS
  <1> HIDE DEF Halted
  <1> QED
    BY <1>1, <1>2, <1>3, <1>4, <1>5, PTL
-----------------------------------------------------------------------------
\* A signal that has not killed the process is in the channel until main takes it.
SignalIsKept ==
    signals > 0 /\ exit = Running =>
        main \in {"shutdown", "return"} \/ (main = "select" /\ stop > 0)

\* The safety half of SignalEndsIt: no signal is lost, whether it comes before
\* Notify, between Notify and the select, or when the channel is full.
THEOREM SignalIsKeptAlways == Spec => []SignalIsKept
  <1>1. Init => SignalIsKept
    BY DEF Init, SignalIsKept
  <1>2. MInv /\ SignalIsKept /\ [Next]_vars => SignalIsKept'
    <2> SUFFICES ASSUME MInv, SignalIsKept, [Next]_vars PROVE SignalIsKept'
      OBVIOUS
    <2> USE DEF SignalIsKept, MInv, MType, Handshake
    <2>1. CASE UNCHANGED vars
      BY <2>1 DEF vars, goroutines
    <2>2. CASE Next /\ MainStep /\ UNCHANGED signals
      BY <2>2, StatusAssumption
         DEF Next, MainStep, LoadConfig, OpenStore, BuildRegistry, Go, Notify, ReceiveError,
             ReceiveSignal, Drained, Return, Proceed, Exit, goroutines
    <2>3. CASE Next /\ DrainTimeout /\ UNCHANGED signals
      BY <2>3 DEF Next, DrainTimeout, Exit, goroutines
    <2>4. CASE /\ ListenerStep \/ \E r \in Requests : Accept(r) \/ Answer(r)
               /\ UNCHANGED signals
      BY <2>4 DEF ListenerStep, Accept, Answer, goroutines
    <2>5. CASE Signal
      BY <2>5, StatusAssumption DEF Signal, Exit, goroutines
    <2> QED
      BY <2>1, <2>2, <2>3, <2>4, <2>5 DEF Next
  <1> QED
    BY <1>1, <1>2, MainInvariance, PTL DEF Spec
-----------------------------------------------------------------------------
\* How many steps of their own the two goroutines have before them at most.
MainLeft ==
    CASE main = "load" -> 7 [] main = "open" -> 6 [] main = "build" -> 5
      [] main = "go" -> 4 [] main = "notify" -> 3 [] main = "select" -> 2
      [] main = "shutdown" -> 1 [] main = "return" -> 0
ListenerLeft ==
    CASE listener = "off" -> 4 [] listener = "starting" -> 3
      [] listener = "listening" -> 2 [] listener = "closing" -> 1
      [] listener = "ended" -> 0
Left == IF exit = Running THEN 1 + MainLeft + ListenerLeft ELSE 0

\* The process goes forward: no step of a goroutine, no timeout, no request and no
\* signal takes it back to a place it has left.
GoesForward ==
    [][/\ MainStep \/ DrainTimeout \/ ListenerStep => Left' < Left
       /\ Left' <= Left]_vars

LeftOK ==
    /\ MainLeft \in 0 .. 7 /\ ListenerLeft \in 0 .. 4
    /\ Left \in 0 .. 12 /\ (exit = Running => Left \in 1 .. 12)

LEMMA LeftType == MType => LeftOK
  <1> SUFFICES ASSUME MType PROVE LeftOK
    OBVIOUS
  <1>1. MainLeft \in 0 .. 7 /\ ListenerLeft \in 0 .. 4
    BY DEF MType, MainLeft, ListenerLeft
  <1> QED
    BY <1>1 DEF Left, LeftOK

LEMMA Sums ==
    ASSUME NEW m \in 0 .. 7, NEW n \in 0 .. 7, NEW k \in 0 .. 4, NEW l \in 0 .. 4,
           n <= m, l <= k
    PROVE  /\ 1 + n + l <= 1 + m + k
           /\ n < m \/ l < k => 1 + n + l < 1 + m + k
  OBVIOUS

\* Both goroutines go forward or stay.
LEMMA PlacesLeft ==
    ASSUME MType, MType', Next, exit' = Running,
           MainLeft' <= MainLeft, ListenerLeft' <= ListenerLeft
    PROVE  /\ Left' <= Left
           /\ MainLeft' < MainLeft \/ ListenerLeft' < ListenerLeft => Left' < Left
  <1>1. LeftOK
    BY LeftType
  <1>2. LeftOK'
    BY LeftType, PTL
  <1>3. exit = Running
    BY DEF Next
  <1>4. Left = 1 + MainLeft + ListenerLeft /\ Left' = 1 + MainLeft' + ListenerLeft'
    BY <1>3 DEF Left
  <1>5. /\ MainLeft \in 0 .. 7 /\ ListenerLeft \in 0 .. 4
        /\ MainLeft' \in 0 .. 7 /\ ListenerLeft' \in 0 .. 4
    BY <1>1, <1>2 DEF LeftOK
  <1> QED
    BY <1>4, <1>5, Sums

\* A step of the main goroutine.
LEMMA MainStepForward ==
    ASSUME MInv, MainStep, exit = Running, exit' = Running
    PROVE  MainLeft' < MainLeft /\ MainLeft' <= MainLeft /\ ListenerLeft' <= ListenerLeft
  <1> USE DEF MInv, MType, MainLeft, ListenerLeft, Proceed, Exit, goroutines
  <1>1. CASE LoadConfig
    BY <1>1, StatusAssumption DEF LoadConfig
  <1>2. CASE OpenStore
    BY <1>2, StatusAssumption DEF OpenStore
  <1>3. CASE BuildRegistry
    <2>1. main = "build" /\ (Exit(1) \/ (Proceed("go") /\ UNCHANGED listener))
      BY <1>3, Zenon DEF BuildRegistry
    <2> QED
      BY <2>1, StatusAssumption
  <1>4. CASE Go
    BY <1>4 DEF Go, Handshake
  <1>5. CASE Notify
    BY <1>5 DEF Notify
  <1>6. CASE ReceiveError
    BY <1>6, StatusAssumption DEF ReceiveError
  <1>7. CASE ReceiveSignal
    BY <1>7 DEF ReceiveSignal
  <1>8. CASE Drained
    BY <1>8 DEF Drained
  <1>9. CASE Return
    BY <1>9, StatusAssumption DEF Return
  <1> QED
    BY <1>1, <1>2, <1>3, <1>4, <1>5, <1>6, <1>7, <1>8, <1>9 DEF MainStep

\* A step of the goroutine that listens.
LEMMA ListenerStepForward ==
    ASSUME MType, ListenerStep
    PROVE  /\ MainLeft' <= MainLeft /\ ListenerLeft' <= ListenerLeft
           /\ ListenerLeft' < ListenerLeft
  BY DEF MType, MainLeft, ListenerLeft, ListenerStep, Listen, ListenerFails, ListenerCloses

\* The process takes at most 12 steps of its own in its life, whatever requests
\* and signals come meanwhile: what may keep it is only what SignalEndsIt needs
\* fairness for, never a loop.
THEOREM GoesForwardAlways == Spec => GoesForward
  <1>1. MInv /\ MInv' /\ [Next]_vars =>
          [/\ MainStep \/ DrainTimeout \/ ListenerStep => Left' < Left
           /\ Left' <= Left]_vars
    <2> DEFINE Own == MainStep \/ DrainTimeout \/ ListenerStep
    <2> SUFFICES ASSUME MInv, MInv', Next
                 PROVE  (Own => Left' < Left) /\ Left' <= Left
      OBVIOUS
    <2>1. exit = Running /\ MType /\ MType'
      BY DEF Next, MInv
    <2>2. Left \in 1 .. 12
      BY <2>1, LeftType DEF LeftOK
    <2>3. CASE exit' # Running
      <3>1. Left' = 0
        BY <2>3 DEF Left
      <3> QED
        BY <2>2, <3>1
    <2>4. CASE exit' = Running
      <3>1. CASE Own
        <4>1. /\ MainLeft' <= MainLeft /\ ListenerLeft' <= ListenerLeft
              /\ MainLeft' < MainLeft \/ ListenerLeft' < ListenerLeft
          <5>1. CASE MainStep
            BY <2>1, <2>4, <5>1, MainStepForward
          <5>2. CASE DrainTimeout
            BY <2>4, <5>2, StatusAssumption DEF DrainTimeout, Exit
          <5>3. CASE ListenerStep
            BY <2>1, <5>3, ListenerStepForward
          <5> QED
            BY <3>1, <5>1, <5>2, <5>3
        <4> QED
          BY <2>1, <2>4, <4>1, PlacesLeft
      <3>2. CASE ~Own
        <4>1. main' = main /\ listener' = listener
          BY <3>2 DEF Next, Signal, Accept, Answer, Exit, goroutines
        <4>2. Left' = Left
          BY <2>1, <2>4, <4>1 DEF Left, MainLeft, ListenerLeft
        <4> QED
          BY <2>2, <3>2, <4>2
      <3> QED
        BY <3>1, <3>2
    <2> QED
      BY <2>3, <2>4
  <1> QED
    BY <1>1, MainInvariance, PTL DEF Spec, GoesForward
=============================================================================
