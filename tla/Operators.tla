----------------------------- MODULE Operators ------------------------------
(***************************************************************************)
(* eval_binary_op of src/interpreter.c and the operations next to it, on   *)
(* values with their type.  A Value is a C union, and arithmetic on `int'  *)
(* goes through double: an operation has the set of the outcomes that the  *)
(* build can produce, which are several where the code reads the wrong     *)
(* member or converts a double that does not fit.                          *)
(*                                                                         *)
(* Of the doubles there are the integral ones, NaN and, as a neighbour of  *)
(* what they lie next to, the others.                                      *)
(***************************************************************************)
EXTENDS Integers

CONSTANTS
    IntBits,       \* the width of a C int, of a C long, and
    LongBits,
    MantissaBits   \* of the integers that a double holds exactly

ASSUME WidthAssumption ==
    /\ {IntBits, LongBits, MantissaBits} \subseteq Nat \ {0}
    /\ IntBits <= LongBits /\ MantissaBits + 2 <= LongBits

(* The powers of two that are asked for.                                    *)
Power[k \in 0 .. 2 * LongBits] == IF k = 0 THEN 1 ELSE 2 * Power[k - 1]

Value == [type : {"int", "float", "string", "bool", "null", "list", "map", "struct"}, of : Int]

Number(n) == [type |-> "int", of |-> n]
Float(d) == [type |-> "float", of |-> d]
Bool(b) == [type |-> "bool", of |-> IF b THEN 1 ELSE 0]
Text(s) == [type |-> "string", of |-> s]
Null == [type |-> "null", of |-> 0]

(* Not an integral double.                                                  *)
NaN == Power[LongBits]

(* runtime_error; and the end of the process.                               *)
Failure == [type |-> "error", of |-> 0]
Trap == [type |-> "trap", of |-> 0]

MinLong == -(Power[LongBits - 1])
MaxLong == Power[LongBits - 1] - 1

Abs(n) == IF n < 0 THEN -n ELSE n
Quotient(n, d) == IF (n < 0) = (d < 0) THEN Abs(n) \div Abs(d) ELSE -(Abs(n) \div Abs(d))

-----------------------------------------------------------------------------
(* Conversions of C.                                                        *)

(* To double, to the nearest, ties to even.                                 *)
Spacing(n) ==
    CHOOSE s \in {Power[k] : k \in DOMAIN Power} :
        /\ Abs(n) <= s * Power[MantissaBits]
        /\ s = 1 \/ Abs(n) > (s \div 2) * Power[MantissaBits]

ToDouble(n) ==
    LET s == Spacing(n)
        below == Abs(n) \div s
        rest == 2 * (Abs(n) % s)
        near == IF rest > s \/ (rest = s /\ below % 2 = 1) THEN below + 1 ELSE below
    IN  IF n < 0 THEN -(near * s) ELSE near * s

(* To long; what does not fit is undefined, and becomes one of the ends.    *)
ToLong(d) == IF d \in MinLong .. MaxLong THEN {d} ELSE {MinLong, MaxLong}

(* To int, from long: the upper bits are cut off.                           *)
ToInt(n) ==
    LET half == Power[IntBits - 1]
    IN  ((n + half) % (2 * half)) - half

(* A pointer or an int that is read as a double is zero or tiny.            *)
DoublesIn(v) ==
    CASE v.type = "int" -> {ToDouble(v.of)}
      [] v.type = "float" -> {v.of}
      [] v.type = "null" -> {0}
      [] OTHER -> {0, 1}

(* The member `boolean' lies over the lower half of the others; that of a   *)
(* pointer, or of a double other than zero, may be anything.                *)
BooleansIn(v) ==
    CASE v.type = "bool" -> {v.of # 0}
      [] v.type = "int" -> {ToInt(v.of) # 0}
      [] v.type = "null" \/ v = Float(0) -> {FALSE}
      [] OTHER -> BOOLEAN

-----------------------------------------------------------------------------
Ordering == {"<", "<=", ">", ">="}
Arithmetic == {"+", "-", "*", "/", "%"}
Operator == {"&&", "||", "==", "!="} \cup Ordering \cup Arithmetic

Equal(u, v) == u.type = v.type /\ u.of = v.of /\ u # Float(NaN)

Compare(op, l, r) ==
    /\ l # NaN /\ r # NaN
    /\ CASE op = "<" -> l < r [] op = "<=" -> l <= r [] op = ">" -> l > r [] op = ">=" -> l >= r

(* A division is inexact: the result is one of the doubles around it.       *)
Divide(l, r) == {q \in -Abs(l) - 1 .. Abs(l) + 1 : Abs(l - q * r) < Abs(r)}

Compute(op, l, r) ==
    IF l = NaN \/ r = NaN THEN {NaN}
    ELSE CASE op = "+" -> {ToDouble(l + r)}
           [] op = "-" -> {ToDouble(l - r)}
           [] op = "*" -> {ToDouble(l * r)}
           [] op = "/" -> Divide(l, r)

(* Where neither operand is a float, both have to be int.                   *)
Calculate(op, u, v) ==
    LET bothInt == u.type = "int" /\ v.type = "int"
        doubles == DoublesIn(u) \X DoublesIn(v)
        results == UNION {Compute(op, d[1], d[2]) : d \in doubles}
    IN  CASE op \in Ordering -> {Bool(Compare(op, d[1], d[2])) : d \in doubles}
          [] op = "%" /\ ~bothInt -> {Failure}
          [] op = "%" /\ bothInt ->
               IF v.of = 0 THEN {Failure}
               ELSE IF u.of = MinLong /\ v.of = -1 THEN {Trap}
               ELSE {Number(u.of - v.of * Quotient(u.of, v.of))}
          [] op = "/" ->
               UNION {IF d[2] = 0 THEN {Failure} ELSE {Float(q) : q \in Compute(op, d[1], d[2])} :
                      d \in doubles}
          [] OTHER ->
               IF bothInt THEN {Number(n) : n \in UNION {ToLong(d) : d \in results}}
               ELSE {Float(d) : d \in results}

(* Mutant: a string that is not added to a string counts as a number.       *)
ApplyUnchecked(op, u, v) ==
    CASE op = "&&" -> {Bool(a /\ b) : a \in BooleansIn(u), b \in BooleansIn(v)}
      [] op = "||" -> {Bool(a \/ b) : a \in BooleansIn(u), b \in BooleansIn(v)}
      [] op = "==" -> {Bool(Equal(u, v))}
      [] op = "!=" -> {Bool(~Equal(u, v))}
      [] OTHER ->
           IF op = "+" /\ {u.type, v.type} = {"string"} THEN {Text(u.of + v.of)}
           ELSE Calculate(op, u, v)

(* eval_binary_op.                                                          *)
Apply(op, u, v) ==
    CASE op = "&&" -> {Bool(a /\ b) : a \in BooleansIn(u), b \in BooleansIn(v)}
      [] op = "||" -> {Bool(a \/ b) : a \in BooleansIn(u), b \in BooleansIn(v)}
      [] op = "==" -> {Bool(Equal(u, v))}
      [] op = "!=" -> {Bool(~Equal(u, v))}
      [] OTHER ->
           IF "float" \in {u.type, v.type} \/ {u.type, v.type} = {"int"} THEN Calculate(op, u, v)
           ELSE IF op = "+" /\ {u.type, v.type} = {"string"} THEN {Text(u.of + v.of)}
           ELSE {Failure}

(* The unary operators, and the built-ins int and float.                    *)
Negative(v) ==
    CASE v.type = "int" -> {Number(IF v.of = MinLong THEN MinLong ELSE -v.of)}
      [] v.type = "float" -> {Float(IF v.of = NaN THEN NaN ELSE -v.of)}
      [] OTHER -> {Failure}

Not(v) == {Bool(~b) : b \in BooleansIn(v)}

AsInt(v) ==
    CASE v.type = "int" -> {v}
      [] v.type = "float" -> {Number(n) : n \in ToLong(v.of)}
      [] OTHER -> {Failure}

AsFloat(v) ==
    CASE v.type = "int" -> {Float(ToDouble(v.of))}
      [] v.type = "float" -> {v}
      [] OTHER -> {Failure}

(* is_truthy.                                                               *)
Truthy(v) ==
    /\ v.type # "null"
    /\ v.type \in {"bool", "int", "float"} => v.of # 0

-----------------------------------------------------------------------------
(* The rules of the README, over all ints and a few other values.           *)

Ints == MinLong .. MaxLong
Exact == -(Power[MantissaBits]) .. Power[MantissaBits]
Numbers == {Number(n) : n \in Ints} \cup {Float(d) : d \in Exact \cup {NaN}}
Others == {Bool(TRUE), Bool(FALSE), Null, Text(0), Text(1)}
             \cup {[type |-> t, of |-> a] : t \in {"list", "map", "struct"}, a \in {1, 2}}

(* Sums, differences and products of ints are exact, as far as doubles are; *)
(* a remainder always is, and has the sign of the dividend.                 *)
IntsAreExact ==
    \A a, b \in Ints :
        /\ \A r \in {<<"+", a + b>>, <<"-", a - b>>, <<"*", a * b>>} :
              {a, b, r[2]} \subseteq Exact => Apply(r[1], Number(a), Number(b)) = {Number(r[2])}
        /\ b # 0 /\ ~(a = MinLong /\ b = -1) =>
              \A m \in Apply("%", Number(a), Number(b)) :
                  /\ m.type = "int" /\ Abs(m.of) < Abs(b)
                  /\ (a - m.of) % Abs(b) = 0
                  /\ m.of * a >= 0

(* An int is never found to be less than one that is not greater, and no    *)
(* two small ones are confused.                                             *)
IntsAreOrdered ==
    \A a, b \in Ints :
        LET less == Apply("<", Number(a), Number(b)) IN
        /\ less = {Bool(TRUE)} => a < b
        /\ a < b /\ {a, b} \subseteq Exact => less = {Bool(TRUE)}
        /\ Apply(">=", Number(a), Number(b)) = {Bool(less = {Bool(FALSE)})}

(* "Equality compares value and type", of anything with anything.           *)
EqualityIsIdentity ==
    \A u, v \in Numbers \cup Others :
        /\ Apply("==", u, v) = {Bool(u = v /\ u # Float(NaN))}
        /\ Apply("!=", u, v) = {Bool(u # v \/ u = Float(NaN))}

(* "/ always yields a float", and a float makes the others one; zero is not *)
(* divided by.                                                              *)
FloatsAreKept ==
    \A u, v \in Numbers :
        /\ \A w \in Apply("/", u, v) : IF v.of = 0 THEN w = Failure ELSE w.type = "float"
        /\ "float" \in {u.type, v.type} =>
              /\ \A op \in {"+", "-", "*"} : \A w \in Apply(op, u, v) : w.type = "float"
              /\ Apply("%", u, v) = {Failure}

(* "Numbers only", but for the sum of two strings.  (With a float on the    *)
(* other side anything is taken for a number.)                              *)
OthersAreRefused ==
    \A u \in Others, v \in Others \cup {Number(1)}, op \in Ordering \cup Arithmetic :
        ~(op = "+" /\ {u.type, v.type} = {"string"}) =>
            Apply(op, u, v) = {Failure} /\ Apply(op, v, u) = {Failure}

(* The values whose member `boolean' is zero when the value is: a long that *)
(* an int cannot hold, and a double, need not be among them.                *)
Logical ==
    {Bool(TRUE), Bool(FALSE), Null, Float(0)} \cup {Number(n) : n \in {i \in Ints : ToInt(i) = i}}

(* The table of what a condition takes for true: of the bools, ints and     *)
(* floats all but false and zero, null never, anything else always.  The    *)
(* logical operators, which look at one member whatever the type is, agree  *)
(* with it where that member tells.                                         *)
LogicIsTruth ==
    /\ \A v \in Numbers \cup Others :
          Truthy(v) <=> v \notin {Bool(FALSE), Number(0), Float(0), Null}
    /\ \A u, v \in Logical :
          /\ Not(u) = {Bool(~Truthy(u))}
          /\ Apply("&&", u, v) = {Bool(Truthy(u) /\ Truthy(v))}
          /\ Apply("||", u, v) = {Bool(Truthy(u) \/ Truthy(v))}

(* Conversions go there and back.                                           *)
ConversionsAreExact ==
    \A n \in Exact :
        /\ AsFloat(Number(n)) = {Float(n)} /\ AsInt(Float(n)) = {Number(n)}
        /\ Negative(Number(n)) = Apply("-", Number(0), Number(n))

RulesHold ==
    /\ IntsAreExact /\ IntsAreOrdered /\ EqualityIsIdentity /\ FloatsAreKept
    /\ OthersAreRefused /\ LogicIsTruth /\ ConversionsAreExact
=============================================================================
