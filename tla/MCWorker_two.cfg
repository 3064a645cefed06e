\* Two caller threads racing Pause, waitForState, moveToState and Stop.
CONSTANTS
    c1 = c1
    c2 = c2
    NoRequest = NoRequest
    NoCaller = NoCaller
    Callers <- TwoCallers
SPECIFICATION Spec

PROPERTY CallersEventuallyReturn
