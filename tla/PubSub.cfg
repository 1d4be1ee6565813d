SPECIFICATION Spec
CONSTANTS
    Publishers = {p1, p2}
    Subscribers = {s1, s2}
    Whole = {s2}
    All = all
    HWM = 1
INVARIANT InStep
PROPERTY KeepsPrinting
