\* One operator's commands, killed anywhere, and two clients of the console.
SPECIFICATION MCSpec
CONSTANTS
    Command = {"p"}
    Mortal = {"p"}
    Url = {"repo", "fork"}
    Path = {"dir"}
    IdOf <- IdOfTarget
    MaxRev = 1
    MaxCommands = 3
    Torn = Torn
    Client = {"c1", "c2"}
    Request <- Requests
    Cut <- CutRoute
    Outgrows = {"r"}
    MaxHead = 6
    MaxDrain = 3
CHECK_DEADLOCK FALSE
INVARIANTS
    RegisteredTreeIsPinned
    RoutedTargetIsWhole
    ListOmitsNoStandingProject
PROPERTIES
    RefusalLeavesNothingUnread
    EveryClientIsAnswered
