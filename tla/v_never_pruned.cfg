CONSTANTS
    c1 = c1
    Others = {}
    MaxIncarnations = 1
    MaxEdits = 1
    MaxFaults = 0
    MaxLag = 1
SPECIFICATION FairSpec
PROPERTIES EventuallyPruned
