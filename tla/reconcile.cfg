CONSTANTS
    c1 = c1
    Others = {c1}
    MaxIncarnations = 2
    MaxEdits = 2
    MaxFaults = 2
    MaxLag = 2
SPECIFICATION FairSpec
INVARIANTS TypeOK IndexBeforeClaim QuietMeansSynced 
PROPERTIES StatusPatchLosesOnlyLate EventuallyIndexed
