CONSTANTS
    u1 = u1
    u2 = u2
    n1 = n1
    n2 = n2
    k1 = k1
    k2 = k2
    i1 = i1
    i2 = i2
    alice = alice
    Uids = {u1, u2}
    Names = {n1}
    Kinds = {k1}
    DescendantKinds = {k1}
    OutcomeKinds = {k1}
    ILIs = {i1}
    Principals = {alice}
    OutcomeTypes = {"Succeeded"}
    NameOf <- NameOfRecreated
    KindOf <- KindOfRecreated
    Labels <- LabelsRefused
    Legacy = {}
    Retentions = {}
    DefaultRetention = 1
    MaxTime = 0
    MaxLag = 1
    MaxFaults = 1
    MaxPrunes = 0
SPECIFICATION FairSpec
PROPERTIES EventuallyRegistered EventuallyRecorded
