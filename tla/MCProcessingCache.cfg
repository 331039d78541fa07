SPECIFICATION Spec
CONSTANTS
    Tasks = {t1, t2}
    Addresses = {1, 2, 3, 4}
    Values = {0, 1}
    NewValue = 0
    Inputs = {"set", "flip", "error"}
    Apply <- MCApply
    Failing = {"error"}
    HashKeys = {0, 1}
    Hash <- MCHash
    Nothing = Nothing
INVARIANTS
    EntriesSound
PROPERTY
    ServesTheAlgorithm
