SPECIFICATION Spec
CONSTANTS
    IntBits = 3
    LongBits = 6
    MantissaBits = 4
    Vocabularies <- MCVocabularies
    CompoundOps = {"", "+"}
    FieldNames <- MCFieldNames
    OtherName <- MCOtherName
    MaxObjects = 2
    MaxLength = 2
    MaxDepth = 1
    Fuel = 3
INVARIANTS
    ContainersAreWellFormed
    OperatorsKeepTheirRules
PROPERTIES
    ElementsAreReadBack
VIEW Future
