CONSTANTS
    Objects = {"talos1", "talos2"}
    Kinds = {"InfrastructureTalosCluster"}
    KindOf <- KindOfObjects
    States = {"up", "moved"}
    Keys <- AllKeys
    Values <- AllValues
    Derive <- DeriveObjects
    GlueKey <- Glue
    Held = {"talos2"}
    IPs <- Addresses
    FallbackIP <- NoFallback
    Authority <- AuthorityRecord
    SameSecond = FALSE
    MaxEdits = 3
    MaxFaults = 2
    SubjectHash <- NoSubjects
SPECIFICATION Spec
INVARIANTS   QuietMeansPublished
PROPERTIES ImplementsDirectory
