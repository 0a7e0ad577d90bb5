\* Every kind of call a run can make, delegated or not.
SPECIFICATION FairSpec
CONSTANTS
    alice = alice
    read = read
    push = push
    force = force
    leak = leak
    stray = stray
    readTool = readTool
    shell = shell
    junk = junk
    Process = {b1}
    Broker = {b1}
    Approver = {}
    Orchestrators = {}
    Call = {push, leak, force, stray}
    Tool = {shell, readTool, junk}
    Publishable = {shell, readTool}
    Refused = {leak}
    Scopes <- GitScope
    CanFail = TRUE
    Identity = {alice, bob}
    Approvers = {alice}
    Triggers <- AllTriggers
    RunsAtRung = 2
    Capability <- GitAutonomous
    Recorded <- Nothing
    Expirable = {}
    Null = Null
    OneAtATime = TRUE
    Mortal = {b1}
    MaxRuns = 1
    MaxEvents = 8
    Rule <- MCRule
    ToolOf <- MCToolOf
CHECK_DEADLOCK FALSE
INVARIANTS
    DelegationNarrows
    SealAccountsForRun
PROPERTY EveryRequestIsAnswered
