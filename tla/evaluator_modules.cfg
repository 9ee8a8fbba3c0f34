SPECIFICATION Spec
CONSTANTS
    Obj = {1, 2, 3, 4, 5, 6, 7, 8, 9, 10, 11, 12, 13, 14}
    Nil = Nil
    Scalar = Scalar
    Junk = Junk
    Fuel = 5
    MaxArity = 0
    Languages = {
        {"import", "call", "expression", "fn", "return", "assign", "undefined", "error"},
        {"import", "call", "expression", "fn", "return", "for", "break", "header_signal", "module_signal", "error"}}
    Prelude = {"func"}
INVARIANTS
    NoUseAfterFree
    LiveScopesMatchActivations
    FinalSweepReclaimsAll
