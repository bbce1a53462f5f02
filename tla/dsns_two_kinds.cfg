CONSTANTS
    Objects = {"talos1", "pack1"}
    Kinds = {"InfrastructureTalosCluster", "InfrastructurePackInstance"}
    KindOf <- KindOfObjects
    States = {"up"}
    Keys <- AllKeys
    Values <- AllValues
    Derive <- DeriveObjects
    GlueKey <- Glue
    Held = {}
    IPs <- NoAddresses
    FallbackIP <- NoFallback
    Authority <- NoAuthority
    SameSecond = TRUE
    MaxEdits = 3
    MaxFaults = 1
    SubjectHash <- NoSubjects
SPECIFICATION FairSpec
INVARIANTS TypeOK FinalizerGuardsZone
PROPERTIES EventuallyProjected
