SPECIFICATION FairSpec
CONSTANTS
    Obj = {o1, o2, o3}
    Nil = Nil
    MinThreshold = 8
    Torture = TRUE
    ClientKinds = {"func", "list", "map"}
    MaxHeld = 1
    MaxSlots = 1
INVARIANTS
    NoDangling
PROPERTIES
    CollectionIsExact
    CollectionTerminates
    CollectionAdvances
