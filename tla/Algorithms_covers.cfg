\* Two patterns, the first claimed to cover the second.
SPECIFICATION Spec
CONSTANTS
    Entry = {}
    MaxKept = 0
    MaxSize = 0
    Alphabet = {"a", "/", "*", "?"}
    MaxPattern = 3
    MaxTarget = 4
CHECK_DEADLOCK FALSE
INVARIANT CoversIsSound
