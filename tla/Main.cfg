\* Every environment, two requests, two signals.  The process ends.
CHECK_DEADLOCK FALSE
SPECIFICATION Spec
CONSTANTS
    Requests = {r1, r2}
    Unset = Unset
    Invalid = Invalid
    Running = Running
    Killed = Killed
    MaxSignals = 2
INVARIANTS
    CleanExitIsDrained
PROPERTIES
    SignalEndsIt
    MisconfiguredAborts
