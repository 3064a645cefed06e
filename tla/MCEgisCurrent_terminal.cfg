\* One terminal notification per capture-loop run: violated by the rc overwrite.
CONSTANTS
    Binder = Binder
    NoRequest = NoRequest
    NoCaller = NoCaller
    NoGid = NoGid
    NoPrint = NoPrint
    g1 = g1
    g2 = g2
    p1 = p1
    Gids <- OneGroup
    PrintIds <- OnePrint
    PrintCapacity = 1
    Challenges = {7}
    OpIds = {5}
    EnrollTimeouts = {60}
    HwIds <- BothHwIds
    Percentages = {50, 100}
    MaxFaults = 1
SPECIFICATION Spec
PROPERTY TerminalNotifiedOnce
