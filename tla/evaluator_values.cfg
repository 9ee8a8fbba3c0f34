SPECIFICATION Spec
CONSTANTS
    Obj = {1, 2, 3, 4, 5, 6, 7, 8, 9, 10, 11, 12, 13, 14}
    Nil = Nil
    Scalar = Scalar
    Junk = Junk
    Fuel = 4
    MaxArity = 1
    Languages = {
        {"string", "call", "callv", "method", "struct", "builtin", "binary", "index", "list", "map", "expression", "assign", "fn", "return", "error"},
        {"string", "call", "field", "field_assign", "unary", "expression", "return", "error"},
        {"string", "call", "field", "index_assign", "expression", "return", "error"}}
    Prelude = {"func", "list", "struct"}
INVARIANTS
    NoUseAfterFree
    PinsMatchActivations
