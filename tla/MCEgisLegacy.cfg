\* The legacy Egistec HAL with two failing calls per behaviour.  The HAL can
\* deadlock (MCEgisLegacy_deadlock.cfg), so TLC's deadlock check is off.
CONSTANTS
    Binder = Binder
    NoRequest = NoRequest
    NoCaller = NoCaller
    EnrollTimeouts <- FrameworkTimeouts
    MaxFaults = 2
SPECIFICATION Spec
PROPERTY TerminalAtLeastOnce
CHECK_DEADLOCK FALSE
