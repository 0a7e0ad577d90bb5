\* One process of each command, killed anywhere, on a ledger they share.
SPECIFICATION MCSpec
CONSTANTS
    Null = Null
    Process = {"sensor", "gateway", "drift", "skill"}
    OneAtATime = FALSE
    Mortal = {"sensor", "gateway", "drift", "skill"}
    Recorded <- Nothing
    Expirable = {"sensor.verdict", "model.call"}
    MaxRuns = 2
    MaxEvents = 4
    SensorRuns = {"sensor"}
    Sensors <- MCSensors
    Text = {"good", "bad"}
    GatewayRuns = {"gateway"}
    Usage = {1, 2, Null}
    Requirements <- MCRequirements
    OnUnavailable = "refuse"
    Laptop = FALSE
    Published = {"k2"}
    Backends = {"landlock-v4", "landlock-v3"}
    Seeds = {"k1", "k2", Null}
    DriftRuns = {"drift"}
    Fields <- MCFields
    Files = {"v1"}
    ScoreRules <- MCScoreRules
    File = {"f1", "f2"}
    Words <- MCWords
    Long = {"long"}
    SkillRuns = {"skill"}
    Manifests <- MCManifests
    Keys = {"k1", "k2"}
    Parent <- MCParent
    ReadCap = "read"
    Templates <- MCTemplates
    Strays = {"policy", "seed"}
CHECK_DEADLOCK FALSE
INVARIANTS
    SealTellsItsRun
    DriftObservesOthers
    SnapshotsAgree
    HitsAreCurrent
    SeedComesLast
PROPERTY SkillIsWhatWasSigned
