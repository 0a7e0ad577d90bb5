\* The payload that spends a grant expires.
SPECIFICATION Spec
CONSTANTS
    alice = alice
    read = read
    push = push
    force = force
    leak = leak
    stray = stray
    readTool = readTool
    shell = shell
    junk = junk
    Process = {b1}
    Broker = {b1}
    Approver = {}
    Orchestrators = {}
    Call = {push}
    Tool = {shell}
    Publishable = {shell}
    Refused = {}
    Scopes <- NoScopes
    CanFail = FALSE
    Identity = {alice, bob}
    Approvers = {alice}
    Triggers <- AllTriggers
    RunsAtRung = 2
    Capability <- GitAssisted
    Recorded <- HeldAndApproved
    Expirable = {"approval.use"}
    Null = Null
    OneAtATime = TRUE
    Mortal = {}
    MaxRuns = 4
    MaxEvents = 24
    Rule <- MCRule
    ToolOf <- MCToolOf
CHECK_DEADLOCK FALSE
INVARIANT GrantReleasesOneCall
