SPECIFICATION FairSpec
CONSTANTS
    Obj = {1, 2, 3, 4, 5, 6, 7, 8, 9, 10, 11, 12, 13, 14}
    Nil = Nil
    Scalar = Scalar
    Junk = Junk
    Fuel = 5
    MaxArity = 1
    Languages = {{"call", "expression", "return", "while", "for", "forin", "break", "continue", "if", "forin_return", "program_return"}}
    Prelude = {"func", "list"}
INVARIANTS
    LoopDepthIsExact
    SignalsHaveAReceiver
    BreakStaysInItsBody
    PinsAreBalanced
PROPERTIES
    NothingRunsDuringReturn
    ReturnIsReceived
    ReturnAdvances
