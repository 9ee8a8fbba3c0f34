SPECIFICATION Spec
CONSTANTS
    x = x
    y = y
    Name <- MCName
    Data = {0}
    Null = 0
    MaxVars = 2
    MaxParams = 1
    MaxScopes = 3
    MaxDepth = 3
    Fuel = 3
INVARIANT BodiesSeeTheirDefinition
