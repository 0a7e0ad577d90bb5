\* Pairs of logs of two entries, every short one kept against every longer one;
\* and pairs of texts, a pattern and a target or two patterns.
SPECIFICATION Spec
CONSTANTS
    Entry = {"x", "y"}
    MaxKept = 4
    MaxSize = 6
    Alphabet = {"a", "/", ".", "*", "?"}
    MaxPattern = 4
    MaxTarget = 3
CHECK_DEADLOCK FALSE
INVARIANTS
    HonestProofsVerify
    InclusionIsSound
    ConsistencyIsSound
    GlobInnerDecides
    CoversIsSoundForStars
