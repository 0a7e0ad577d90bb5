\* One writer, killed anywhere but between the two writes of a line.
SPECIFICATION Spec
CONSTANTS
    Proc = {w1}
    d1 = d1
    d2 = d2
    x1 = x1
    a1 = a1
    Subject = {d1, d2, x1, a1}
    NoSubject = NoSubject
    Names <- MCNames
    Expiries <- PlainExpiries
    Dest = {a1}
    CrashPoints = {"payload", "entry", "head", "unlink"}
    MaxEntries = 4
    MaxCrashes = 3
INVARIANTS
    TypeOK
    NeverLooksRewritten
    UncoveredTailIsBounded
    AbsentIsExpired
    AnchorsHold
    MemoryIsPrefix
PROPERTY AppendOnly
