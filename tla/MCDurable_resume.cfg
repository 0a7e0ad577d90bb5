\* Two processes at once, either killed anywhere: a task is resumed beside the
\* run that is doing it, or beside another resume, while payloads expire.
SPECIFICATION Spec
CONSTANTS
    Process = {r1, r2}
    OneAtATime = FALSE
    Mortal = {r1, r2}
    Recorded <- Nothing
    Expirable = {"state.checkpoint"}
    Null = Null
    MaxRuns = 3
    MaxEvents = 5
    Task = {audit, index}
    Steps = 2
    Content = {old, new}
SYMMETRY Alike
CHECK_DEADLOCK FALSE
INVARIANTS
    CheckpointRestoresAll
    ResumeCarriesOver
    NoStepIsRepeated
    SealedTaskIsWhole
