\* One writer killed between the bytes of an entry and the newline.
SPECIFICATION Spec
CONSTANTS
    Proc = {w1}
    d1 = d1
    d2 = d2
    x1 = x1
    a1 = a1
    Subject = {d1}
    NoSubject = NoSubject
    Names <- MCNames
    Expiries <- NoExpiries
    Dest = {}
    CrashPoints = {"newline"}
    MaxEntries = 4
    MaxCrashes = 1
CHECK_DEADLOCK FALSE
INVARIANT LogStaysReadable
