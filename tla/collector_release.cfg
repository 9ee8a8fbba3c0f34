SPECIFICATION Spec
CONSTANTS
    Obj = {o1, o2, o3, o4}
    Nil = Nil
    MinThreshold = 2
    Torture = FALSE
    ClientKinds = {"func", "struct"}
    MaxHeld = 1
    MaxSlots = 1
SYMMETRY Interchangeable
INVARIANTS
    TypeOK
    TriColour
    NoStaleMarks
    CountIsExact
    NothingOutlivesTheInterpreter
PROPERTIES
    ImplementsReachableHeap
