SPECIFICATION Spec
CONSTANTS
    MaxStructs = 1
    MaxInterfaces = 2
    MaxMethods = 2
    MaxImplIfaces = 1
    Path <- MCPath
    Main = "main"
    Sources <- MCSources
    MaxModules = 2
INVARIANTS
    RegistryIsWellFormed
    TypesAreComplete
    LoadingIsTheStack
    NamespacesAreShared
PROPERTIES
    RefusalsAreJustified
    ImplementsNestedLoading
