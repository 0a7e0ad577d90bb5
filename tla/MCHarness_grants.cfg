\* A held call answered and retried while the broker is at work.
SPECIFICATION Spec
CONSTANTS
    alice = alice
    read = read
    push = push
    force = force
    leak = leak
    stray = stray
    readTool = readTool
    shell = shell
    junk = junk
    Process = {b1, a1}
    Broker = {b1}
    Approver = {a1}
    Orchestrators = {}
    Call = {push}
    Tool = {shell}
    Publishable = {shell}
    Refused = {}
    Scopes <- NoScopes
    CanFail = FALSE
    Identity = {alice, bob}
    Approvers = {alice}
    Triggers <- AllTriggers
    RunsAtRung = 2
    Capability <- GitAssisted
    Recorded <- HeldLongAgo
    Expirable = {"tool.request"}
    Null = Null
    OneAtATime = FALSE
    Mortal = {b1, a1}
    MaxRuns = 5
    MaxEvents = 15
    Rule <- MCRule
    ToolOf <- MCToolOf
CHECK_DEADLOCK FALSE
INVARIANTS
    TypeOK
    ExecutedWasCleared
    GrantReleasesOneCall
    InboxCommandAnswers
PROPERTY InboxAgreesWithBroker
