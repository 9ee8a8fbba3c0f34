----------------------------- MODULE Containers ------------------------------
(***************************************************************************)
(* Lists, maps and structs: the arrays of src/value.c and what the         *)
(* expressions, statements and built-ins of src/interpreter.c do with      *)
(* them.  All are shared by reference.  What the collector does with them  *)
(* is modelled elsewhere.                                                  *)
(*                                                                         *)
(* The program is not fixed.  Between the parts of an assignment and the   *)
(* rounds of a loop any code may run, so that a list may shrink while an   *)
(* assignment to its last element is under way.                            *)
(***************************************************************************)
EXTENDS Operators, Sequences, SequencesExt, FiniteSets

CONSTANTS
    Vocabularies, \* a program writes down the values of one of these
    CompoundOps,  \* the operators of its assignments; "" is the plain one
    FieldNames,   \* the fields of a struct, and
    OtherName,    \* a name that is not among them
    MaxObjects,   \* with so many containers, no more are made
    MaxLength,    \* bound on the elements of a list
    MaxDepth,     \* bound on the assignments and loops under way
    Fuel          \* bound on the steps of the program

ASSUME LiteralAssumption == \A l \in Vocabularies : l \subseteq Value
ASSUME CompoundAssumption == CompoundOps \subseteq Arithmetic \cup {""}
ASSUME NameAssumption == FieldNames \in Seq(Value) /\ OtherName \in Value
ASSUME SizeAssumption ==
    MaxObjects \in Nat /\ MaxLength \in Nat /\ MaxDepth \in Nat /\ Fuel \in Nat

VARIABLES
    objects,   \* the containers: a list has values, the others have pairs
    stack,     \* the assignments and the loops that are under way
    result,    \* the value of the last expression; a statement has none
    failed,    \* interp->had_error
    fuel,
    literals   \* the values of this program

vars == <<objects, stack, result, failed, fuel, literals>>

Pair(k, v) == [key |-> k, value |-> v]
Ref(a) == [type |-> objects[a].kind, of |-> a]
Containers == {Ref(a) : a \in DOMAIN objects}
Operands == literals \cup Containers

(* What lies outside of an array.                                           *)
Stray == [type |-> "stray", of |-> 0]
At(items, i) == IF i \in DOMAIN items THEN items[i] ELSE Stray

Top == stack[Len(stack)]
Below == SubSeq(stack, 1, Len(stack) - 1)
First(places) == CHOOSE i \in places : \A j \in places : i <= j

-----------------------------------------------------------------------------
(* value.c.                                                                 *)

ListGet(items, i) == IF i \in 0 .. Len(items) - 1 THEN items[i + 1] ELSE Null
ListSet(items, i, v) ==
    IF i \in 0 .. Len(items) - 1 THEN [items EXCEPT ![i + 1] = v] ELSE items

(* Mutant: an int and a float with the same value are the same key.         *)
KeyEqualAcrossTypes(j, k) ==
    /\ j.type = k.type \/ {j.type, k.type} = {"int", "float"}
    /\ j.of = k.of /\ j # Float(NaN)

(* map_key_equal.                                                           *)
KeyEqual(j, k) == j.type = k.type /\ j.of = k.of /\ j # Float(NaN)

Places(pairs, k) == {i \in DOMAIN pairs : KeyEqual(pairs[i].key, k)}
MapHas(pairs, k) == Places(pairs, k) # {}
MapGet(pairs, k) == pairs[First(Places(pairs, k))].value

(* Mutant: the pairs are not searched.                                      *)
MapSetAppending(pairs, k, v) == Append(pairs, Pair(k, v))

(* map_set: the pair keeps its place, and its key.                          *)
MapSet(pairs, k, v) ==
    IF MapHas(pairs, k) THEN [pairs EXCEPT ![First(Places(pairs, k))].value = v]
    ELSE Append(pairs, Pair(k, v))

-----------------------------------------------------------------------------
(* Expressions.  Their operands have been evaluated.                        *)

Step == ~failed /\ fuel > 0 /\ fuel' = fuel - 1

Answer(v) == result' = v /\ UNCHANGED failed
Reject == result' = Null /\ failed' = TRUE
Unchanged == UNCHANGED <<objects, stack>>

Allocate(kind, items) ==
    /\ Len(objects) < MaxObjects
    /\ objects' = Append(objects, [kind |-> kind, items |-> items])
    /\ Answer([type |-> kind, of |-> Len(objects) + 1])
    /\ UNCHANGED stack

Is(v, kind) == v.type = kind
Items(v) == objects[v.of].items
Update(v, items) == objects' = [objects EXCEPT ![v.of].items = items]

NewList(values) == Step /\ Allocate("list", values)

(* A map literal sets its pairs one after the other.                        *)
Filled(pairs) ==
    LET map[n \in 0 .. Len(pairs)] ==
            IF n = 0 THEN <<>> ELSE MapSet(map[n - 1], pairs[n].key, pairs[n].value)
    IN  map[Len(pairs)]

NewMap(pairs) == Step /\ Allocate("map", Filled(pairs))

(* construct_struct: a field that got no argument is null.                  *)
NewStruct(arguments) ==
    /\ Step
    /\ Allocate("struct", [i \in DOMAIN FieldNames |-> Pair(FieldNames[i], arguments[i])])

(* range, with the start that a single argument leaves out.                 *)
MakeRange(start, end) ==
    /\ Step
    /\ IF Is(start, "int") /\ Is(end, "int")
       THEN LET n == IF start.of < end.of THEN end.of - start.of ELSE 0
            IN  n <= MaxLength /\ Allocate("list", [i \in 1 .. n |-> Number(start.of + i - 1)])
       ELSE Reject /\ Unchanged

Push(l, v) ==
    /\ Step
    /\ IF Is(l, "list")
       THEN /\ Len(Items(l)) < MaxLength
            /\ Update(l, Append(Items(l), v))
            /\ Answer(Null)
       ELSE Reject /\ UNCHANGED objects
    /\ UNCHANGED stack

Pop(l) ==
    /\ Step
    /\ IF Is(l, "list") /\ Items(l) # <<>>
       THEN Answer(At(Items(l), Len(Items(l)))) /\ Update(l, Front(Items(l)))
       ELSE Reject /\ UNCHANGED objects
    /\ UNCHANGED stack

Length(v) ==
    /\ Step
    /\ IF v.type \in {"list", "map"} THEN Answer(Number(Len(Items(v)))) ELSE Reject
    /\ Unchanged

Has(m, k) ==
    /\ Step
    /\ IF Is(m, "map") THEN Answer(Bool(MapHas(Items(m), k))) ELSE Reject
    /\ Unchanged

(* keys and values make a list; items makes a list of new lists of two.     *)
Enumerate(m, what) ==
    /\ Step
    /\ IF Is(m, "map")
       THEN LET pairs == Items(m)
            IN  Allocate("list", [i \in DOMAIN pairs |-> pairs[i][what]])
       ELSE Reject /\ Unchanged

MakeItems(m) ==
    /\ Step
    /\ IF Is(m, "map")
       THEN LET pairs == Items(m)
                n == Len(objects)
                lists == [i \in DOMAIN pairs |->
                            [kind |-> "list", items |-> <<pairs[i].key, pairs[i].value>>]]
                refs == [i \in DOMAIN pairs |-> [type |-> "list", of |-> n + 1 + i]]
            IN  /\ n < MaxObjects
                /\ objects' = Append(objects, [kind |-> "list", items |-> refs]) \o lists
                /\ Answer([type |-> "list", of |-> n + 1])
       ELSE Reject /\ UNCHANGED objects
    /\ UNCHANGED stack

(* EXPR_INDEX: null, where there is nothing.                                *)
Lookup(v, k) ==
    CASE v.type = "list" -> IF Is(k, "int") THEN ListGet(Items(v), ToInt(k.of)) ELSE Failure
      [] v.type = "map" -> IF MapHas(Items(v), k) THEN MapGet(Items(v), k) ELSE Null
      [] OTHER -> Failure

Index(v, k) ==
    /\ Step
    /\ IF Lookup(v, k) = Failure THEN Reject ELSE Answer(Lookup(v, k))
    /\ Unchanged

HasField(v, name) == Is(v, "struct") /\ MapHas(Items(v), name)

Field(v, name) ==
    /\ Step
    /\ IF HasField(v, name) THEN Answer(MapGet(Items(v), name)) ELSE Reject
    /\ Unchanged

-----------------------------------------------------------------------------
(* Assignments: the container and the key are there, then comes the value.  *)

Starts == ~failed /\ fuel > 0 /\ UNCHANGED fuel
Begin(frame) == Len(stack) < MaxDepth /\ stack' = Append(stack, frame)
Frame(kind, v, k, operator) == [kind |-> kind, of |-> v, key |-> k, op |-> operator, next |-> 0]

(* What an assignment stores, in place of `old'.                            *)
Stored(op, old, v) == IF op = "" THEN {v} ELSE Apply(op, old, v)

(* An operator that fails yields null, which is stored.                     *)
OrNull(w) == IF w = Failure THEN Null ELSE w
FailIf(w) == failed' = (failed \/ w = Failure)

BeginIndexAssign(v, k, op) ==
    /\ Starts
    /\ Begin(Frame("index", v, k, op))
    /\ Answer(Null)
    /\ UNCHANGED objects

(* Whether the place exists is looked at now.                               *)
Assignable(v, k, op) ==
    \/ Is(v, "list") /\ Is(k, "int") /\ ToInt(k.of) \in 0 .. Len(Items(v)) - 1
    \/ Is(v, "map") /\ (op # "" => MapHas(Items(v), k))

FinishIndexAssign(v) ==
    LET o == Top.of
        k == Top.key
        Put(w) == Update(o, IF Is(o, "list") THEN ListSet(Items(o), ToInt(k.of), OrNull(w))
                            ELSE MapSet(Items(o), k, OrNull(w)))
    IN  /\ Step
        /\ stack # <<>> /\ Top.kind = "index"
        /\ IF Assignable(o, k, Top.op)
           THEN \E w \in Stored(Top.op, Lookup(o, k), v) \ {Trap} : Put(w) /\ FailIf(w)
           ELSE failed' = TRUE /\ UNCHANGED objects
        /\ stack' = Below
        /\ result' = Null

BeginFieldAssign(v, name, op) ==
    /\ Starts
    /\ IF HasField(v, name)
       THEN Begin(Frame("field", v, name, op)) /\ Answer(Null)
       ELSE Reject /\ UNCHANGED stack
    /\ UNCHANGED objects

(* What eval_expr can hand over: after an error also null or a bool that no *)
(* program wrote, besides whatever had been computed by then.               *)
Returned == IF failed THEN Operands \cup {Null, Bool(TRUE), Bool(FALSE)} ELSE Operands

(* The error flag is not looked at: an assignment whose value failed is     *)
(* done like any other.                                                     *)
FinishFieldAssign(v) ==
    LET o == Top.of
        old == MapGet(Items(o), Top.key)
    IN  /\ Step \/ (failed /\ UNCHANGED fuel)
        /\ stack # <<>> /\ Top.kind = "field"
        /\ \E w \in Stored(Top.op, old, v) \ {Trap} :
              Update(o, MapSet(Items(o), Top.key, OrNull(w))) /\ FailIf(w)
        /\ stack' = Below
        /\ result' = Null

-----------------------------------------------------------------------------
(* STMT_FOR_IN: each round looks at the length of the list again.           *)

BeginForIn(l) ==
    /\ Starts
    /\ IF Is(l, "list")
       THEN Begin(Frame("forin", l, Null, "")) /\ UNCHANGED <<result, failed>>
       ELSE Reject /\ UNCHANGED stack
    /\ UNCHANGED objects

InLoop == stack # <<>> /\ Top.kind = "forin"

NextRound ==
    /\ Step /\ InLoop
    /\ Top.next < Len(Items(Top.of))
    /\ Answer(At(Items(Top.of), Top.next + 1))
    /\ stack' = [stack EXCEPT ![Len(stack)].next = @ + 1]
    /\ UNCHANGED objects

(* The end of the list, a break, or a return.                               *)
LeaveLoop ==
    /\ InLoop /\ ~failed
    /\ stack' = Below
    /\ UNCHANGED <<objects, result, failed, fuel>>

(* An error ends what is under way, but for the assignment to a field.      *)
Unwind ==
    /\ failed /\ stack # <<>> /\ Top.kind # "field"
    /\ stack' = Below
    /\ UNCHANGED <<objects, result, failed, fuel>>

Done == (failed \/ fuel = 0) /\ UNCHANGED vars
-----------------------------------------------------------------------------
(* After a first statement that made a container.                           *)
Init ==
    /\ \/ objects = <<[kind |-> "list", items |-> <<Null, Number(1)>>]>>
       \/ objects = <<[kind |-> "map", items |-> <<>>]>>
       \/ objects = <<[kind |-> "struct",
                       items |-> [i \in DOMAIN FieldNames |-> Pair(FieldNames[i], Null)]]>>
    /\ stack = <<>>
    /\ result = Null
    /\ failed = FALSE
    /\ fuel = Fuel
    /\ literals \in Vocabularies

(* Where a container is asked for, one of another kind is as good as no     *)
(* container at all.                                                        *)
Create ==
    \/ \E values \in {<<>>} \cup {<<v>> : v \in Operands} : NewList(values)
    \/ \E u, v \in literals :
          \/ MakeRange(u, v)
          \/ NewMap(<<Pair(u, Null), Pair(v, u)>>)
          \/ NewStruct([i \in DOMAIN FieldNames |-> IF i = 1 THEN u ELSE Null])

Containing == \E c \in Containers, v \in Operands : Push(c, v) \/ Has(c, v) \/ Index(c, v)

Whole ==
    \E c \in Containers :
        \/ Pop(c) \/ Length(c) \/ MakeItems(c)
        \/ \E what \in {"key", "value"} : Enumerate(c, what)

Fields ==
    \E c \in Containers, name \in ToSet(FieldNames) \cup {OtherName}, op \in CompoundOps :
        Field(c, name) \/ BeginFieldAssign(c, name, op)

Assign ==
    \/ \E c \in Containers, k \in Operands, op \in CompoundOps : BeginIndexAssign(c, k, op)
    \/ \E v \in Operands : FinishIndexAssign(v)
    \/ \E v \in Returned : FinishFieldAssign(v)

Loop == (\E l \in Containers : BeginForIn(l)) \/ NextRound \/ LeaveLoop

Next ==
    \/ /\ Create \/ Containing \/ Whole \/ Fields \/ Assign \/ Loop \/ Unwind
       /\ UNCHANGED literals
    \/ Done

Spec == Init /\ [][Next]_vars
-----------------------------------------------------------------------------
(* Type correctness.                                                        *)
TypeOK ==
    /\ \A a \in DOMAIN objects :
          LET o == objects[a]
          IN  \/ o.kind = "list" /\ o.items \in Seq(Value)
              \/ o.kind \in {"map", "struct"} /\ o.items \in Seq([key : Value, value : Value])
    /\ stack \in Seq([kind : {"index", "field", "forin"}, of : Value, key : Value,
                      op : CompoundOps \cup {""}, next : Nat])
    /\ result \in Value
    /\ failed \in BOOLEAN
    /\ fuel \in Nat
    /\ literals \in Vocabularies

(* No access leaves its array, although code runs between the test and the  *)
(* next round of a loop, or between an index and the assignment to it: what *)
(* containers hold, and what expressions yield, was stored before.  A map   *)
(* has no two keys that `==' takes for one ("map keys compare exactly like  *)
(* the == operator"), a struct has the fields of its type, once each.       *)
ContainersAreWellFormed ==
    /\ result # Stray
    /\ \A a \in DOMAIN objects :
          LET items == objects[a].items
          IN  CASE objects[a].kind = "list" -> Stray \notin ToSet(items)
                [] objects[a].kind = "map" ->
                     /\ \A i, j \in DOMAIN items : Equal(items[i].key, items[j].key) => i = j
                     /\ \A i \in DOMAIN items : items[i].value # Stray
                [] OTHER ->
                     [i \in DOMAIN items |-> items[i].key] = FieldNames

(* An index that C does not cut.                                            *)
Fits(k) == k.type = "int" => ToInt(k.of) = k.of

(* v was assigned to the element k of o, with the operator op: that is what *)
(* k now finds, every other key finds what it found before, and the other   *)
(* containers are left alone.                                               *)
Reads(v, o, k, op) ==
    /\ \A j \in {j \in Operands : Fits(j) \/ Is(o, "map")} :
          Lookup(o, j)' \in IF Equal(j, k) THEN Stored(op, Lookup(o, j), v) ELSE {Lookup(o, j)}
    /\ \A a \in DOMAIN objects \ {o.of} : objects'[a] = objects[a]

(* What was assigned is read back, under every key that `==' takes for the  *)
(* one of the assignment; and what every other key finds in the container   *)
(* is left alone, and so are the other containers.  (For a list, as long    *)
(* as the index fits into a C int.)                                         *)
ElementsAreReadBack ==
    [][\A v \in Operands :
          FinishIndexAssign(v) /\ ~failed' =>
              \A o \in {Top.of}, k \in {Top.key}, op \in {Top.op} :
                  Fits(k) \/ Is(o, "map") => Reads(v, o, k, op)]_vars

(* What eval_binary_op and its neighbours compute follows the rules of the  *)
(* README, for all pairs of operands.  They depend on no state: one look    *)
(* before the program starts is enough.                                     *)
OperatorsKeepTheirRules == fuel = Fuel /\ stack = <<>> => RulesHold
=============================================================================
