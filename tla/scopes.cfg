SPECIFICATION Spec
CONSTANTS
    x = x
    y = y
    Name <- MCName
    Data = {0, 1}
    Null = 0
    MaxVars = 2
    MaxParams = 1
    MaxScopes = 3
    MaxDepth = 4
    Fuel = 4
INVARIANTS
    ChainsAreOlder
PROPERTIES
    WritesAreLexical
    AssignmentsAreReadBack
    ImplementsBindings
SYMMETRY Names
