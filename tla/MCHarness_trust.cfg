\* Rungs earned and lost, one process at a time.
SPECIFICATION Spec
CONSTANTS
    alice = alice
    read = read
    push = push
    force = force
    leak = leak
    stray = stray
    readTool = readTool
    shell = shell
    junk = junk
    Process = {b1, o1}
    Broker = {b1}
    Approver = {}
    Orchestrators = {o1}
    Call = {push, force}
    Tool = {shell}
    Publishable = {shell}
    Refused = {}
    Scopes <- NoScopes
    CanFail = FALSE
    Identity = {alice, bob}
    Approvers = {alice}
    Triggers <- AllTriggers
    RunsAtRung = 2
    Capability <- GitAssisted
    Recorded <- Nothing
    Expirable = {}
    Null = Null
    OneAtATime = TRUE
    Mortal = {b1, o1}
    MaxRuns = 3
    MaxEvents = 14
    Rule <- MCRule
    ToolOf <- MCToolOf
CHECK_DEADLOCK FALSE
INVARIANTS
    DecisionIsReplayable
    ChangeMovesOneRung
    PromotionIsEarned
    DenialNarrows
    PagesAgree
