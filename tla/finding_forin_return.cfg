SPECIFICATION Spec
CONSTANTS
    Obj = {1, 2, 3, 4, 5, 6, 7, 8, 9, 10, 11, 12, 13, 14}
    Nil = Nil
    Scalar = Scalar
    Junk = Junk
    Fuel = 5
    MaxArity = 1
    Languages = {{"string", "call", "forin", "return", "expression", "forin_return"}}
    Prelude = {"func", "list"}
INVARIANTS
    NoUseAfterFree
