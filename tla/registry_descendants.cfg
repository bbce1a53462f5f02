CONSTANTS
    u1 = u1
    u2 = u2
    n1 = n1
    n2 = n2
    k1 = k1
    k2 = k2
    i1 = i1
    i2 = i2
    alice = alice
    Uids = {u1, u2}
    Names = {n1}
    Kinds = {k1}
    DescendantKinds = {k1}
    OutcomeKinds = {}
    ILIs = {i1, i2}
    Principals = {alice}
    OutcomeTypes = {}
    NameOf <- NameOfRecreated
    KindOf <- KindOfRecreated
    Labels <- LabelsTwo
    Legacy = {u1}
    Retentions = {2}
    DefaultRetention = 1
    MaxTime = 1
    MaxLag = 1
    MaxFaults = 1
    MaxPrunes = 1
SPECIFICATION Spec
INVARIANTS UniqueDescendants 
PROPERTIES SettledEntriesStay
