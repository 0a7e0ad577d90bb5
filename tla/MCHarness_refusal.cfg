\* A request approved and then refused before it is retried.
SPECIFICATION Spec
CONSTANTS
    alice = alice
    read = read
    push = push
    force = force
    leak = leak
    stray = stray
    readTool = readTool
    shell = shell
    junk = junk
    Process = {b1, a1}
    Broker = {b1}
    Approver = {a1}
    Orchestrators = {}
    Call = {push}
    Tool = {shell}
    Publishable = {shell}
    Refused = {}
    Scopes <- NoScopes
    CanFail = FALSE
    Identity = {alice, bob}
    Approvers = {alice}
    Triggers <- AllTriggers
    RunsAtRung = 2
    Capability <- GitAssisted
    Recorded <- Nothing
    Expirable = {}
    Null = Null
    OneAtATime = TRUE
    Mortal = {}
    MaxRuns = 4
    MaxEvents = 20
    Rule <- MCRule
    ToolOf <- MCToolOf
CHECK_DEADLOCK FALSE
INVARIANT RefusalStands
