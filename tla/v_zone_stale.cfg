CONSTANTS
    Objects = {"talos1", "pack1"}
    Kinds = {"InfrastructureTalosCluster", "InfrastructurePackInstance"}
    KindOf <- KindOfObjects
    States = {"up", "down"}
    Keys <- AllKeys
    Values <- AllValues
    Derive <- DeriveObjects
    GlueKey <- Glue
    Held = {}
    IPs <- NoAddresses
    FallbackIP <- NoFallback
    Authority <- NoAuthority
    SameSecond = FALSE
    MaxEdits = 3
    MaxFaults = 0
    SubjectHash <- NoSubjects
SPECIFICATION Spec
INVARIANTS QuietMeansPublished
