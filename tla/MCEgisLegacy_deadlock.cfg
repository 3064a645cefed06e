\* enumerate() racing a running capture loop for the two mutexes.
CONSTANTS
    Binder = Binder
    NoRequest = NoRequest
    NoCaller = NoCaller
    EnrollTimeouts <- FrameworkTimeouts
    MaxFaults = 1
SPECIFICATION Spec
INVARIANT NoLockCycle
