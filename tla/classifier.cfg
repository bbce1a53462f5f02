CONSTANTS
    Types = {"Ready", "Drifted", "Failed"}
    Reasons <- SomeReasons
    MaxTime = 1
SPECIFICATION Spec
INVARIANTS ListFaithful  DriftRecordedAsDrift
