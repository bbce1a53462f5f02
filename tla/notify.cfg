CONSTANTS
    Objects = {"runner1"}
    Kinds = {"InfrastructureRunnerConfig"}
    KindOf <- KindOfRunner
    States = {"up", "moved"}
    Keys <- AllKeys
    Values <- AllValues
    Derive <- DeriveRunner
    GlueKey <- Glue
    Held = {}
    IPs <- Addresses
    FallbackIP <- EnvIP
    Authority <- NoAuthority
    SameSecond = FALSE
    MaxEdits = 2
    MaxFaults = 1
    SubjectHash <- NoSubjects
    Sinks = {"log", "hook"}
    Responsive = {"log"}
    CategoryOf <- CategoryOfKinds
    ContextOf <- ContextOfObjects
    SeverityOf <- SeverityOfObjects
SPECIFICATION NotifyFairSpec
INVARIANTS EventsAccurate DeletionAnnounced
PROPERTIES SinksNeverBlock EventuallyAnnounced EventuallyReleased EventuallyGlued
