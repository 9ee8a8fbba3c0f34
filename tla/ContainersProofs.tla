-------------------------- MODULE ContainersProofs --------------------------
(***************************************************************************)
(* Theorems about lists, maps and structs, for any widths of the numbers,  *)
(* any literals, any fields of a struct and any number of containers; and  *)
(* about the operators on numbers.                                         *)
(***************************************************************************)
EXTENDS Containers, CommonLemmas, SequenceTheorems, TLAPS

-----------------------------------------------------------------------------
(* The inductive invariant.                                                 *)

(* A Value that was stored: it has a type and a content, and is not what    *)
(* lies outside of an array.                                                *)
IsValue(v) == v = [type |-> v.type, of |-> v.of] /\ v.type # "stray"
IsPair(p) == p = Pair(p.key, p.value) /\ IsValue(p.key) /\ IsValue(p.value)

AreValues(items) == IsSequence(items) /\ \A i \in DOMAIN items : IsValue(items[i])
ArePairs(pairs) == IsSequence(pairs) /\ \A i \in DOMAIN pairs : IsPair(pairs[i])
AreDistinct(pairs) == \A i, j \in DOMAIN pairs : Equal(pairs[i].key, pairs[j].key) => i = j
AreFields(pairs) == [i \in DOMAIN pairs |-> pairs[i].key] = FieldNames

(* What an array holds, by the kind of its container.                       *)
Fitting(kind, items) ==
    \/ kind = "list" /\ AreValues(items)
    \/ kind = "map" /\ ArePairs(items) /\ AreDistinct(items)
    \/ kind = "struct" /\ ArePairs(items) /\ AreFields(items)

ObjectFits(o) == o = [kind |-> o.kind, items |-> o.items] /\ Fitting(o.kind, o.items)
ObjectsFit == IsSequence(objects) /\ \A a \in DOMAIN objects : ObjectFits(objects[a])

(* A value that refers to a container that exists, of the kind it says.     *)
IsRef(v) == IsValue(v) /\ v.of \in DOMAIN objects /\ objects[v.of].kind = v.type
IsField(name) == \E i \in DOMAIN FieldNames : KeyEqual(FieldNames[i], name)

(* What waits for its value: containers are never of another kind later, so *)
(* that a loop still has a list and an assignment still has its field.      *)
FrameFits(f) ==
    /\ f = [kind |-> f.kind, of |-> f.of, key |-> f.key, op |-> f.op, next |-> f.next]
    /\ IsRef(f.of) /\ IsValue(f.key)
    /\ f.op \in Arithmetic \cup {""}
    /\ f.next \in Nat
    /\ f.kind = "forin" => f.of.type = "list"
    /\ f.kind = "field" => f.of.type = "struct" /\ IsField(f.key)

StackFits == IsSequence(stack) /\ \A i \in DOMAIN stack : FrameFits(stack[i])

ContainersInv ==
    /\ ObjectsFit
    /\ StackFits
    /\ IsValue(result)
    /\ literals \in Vocabularies

-----------------------------------------------------------------------------
(* Values and operators.                                                    *)

(* The members of Value are values, and so are the constants.               *)
LEMMA ValuesAreValues ==
    /\ \A v \in Value : IsValue(v)
    /\ IsValue(Null) /\ IsValue(Failure)
    /\ \A n : IsValue(Number(n)) /\ IsValue(Float(n)) /\ IsValue(Text(n)) /\ IsValue(Bool(n))
    /\ \A kind \in {"list", "map", "struct"} : \A a : IsValue([type |-> kind, of |-> a])
BY DEF Value, IsValue, Null, Failure, Number, Float, Text, Bool

(* Whatever the operands are, an arithmetic operator yields a value.        *)
LEMMA OperatorsYieldValues ==
    ASSUME NEW op \in Arithmetic, NEW u, NEW v, NEW w \in Apply(op, u, v)
    PROVE  IsValue(w)
<1> DEFINE Known(x) == x = Failure \/ x = Trap \/ \E n : x = Number(n) \/ x = Float(n) \/ x = Text(n)
<1>1. op \notin {"&&", "||", "==", "!="} \cup Ordering
  BY DEF Arithmetic, Ordering
<1>2. w \in Calculate(op, u, v) \/ w = Text(u.of + v.of) \/ w = Failure
  BY <1>1 DEF Apply
<1>3. ASSUME w \in Calculate(op, u, v) PROVE Known(w)
  <2> DEFINE doubles == DoublesIn(u) \X DoublesIn(v)
             results == UNION {Compute(op, d[1], d[2]) : d \in doubles}
             bothInt == u.type = "int" /\ v.type = "int"
  <2>1. Calculate(op, u, v) =
          CASE op \in Ordering -> {Bool(Compare(op, d[1], d[2])) : d \in doubles}
            [] op = "%" /\ ~bothInt -> {Failure}
            [] op = "%" /\ bothInt ->
                 IF v.of = 0 THEN {Failure}
                 ELSE IF u.of = MinLong /\ v.of = -1 THEN {Trap}
                 ELSE {Number(u.of - v.of * Quotient(u.of, v.of))}
            [] op = "/" ->
                 UNION {IF d[2] = 0 THEN {Failure} ELSE {Float(q) : q \in Compute(op, d[1], d[2])} :
                        d \in doubles}
            [] OTHER ->
                 IF bothInt THEN {Number(n) : n \in UNION {ToLong(d) : d \in results}}
                 ELSE {Float(d) : d \in results}
    BY DEF Calculate
  <2> HIDE DEF doubles, results, bothInt
  <2>2. CASE op = "%"
    <3>1. \/ w = Failure \/ w = Trap
          \/ w = Number(u.of - v.of * Quotient(u.of, v.of))
      BY <1>1, <1>3, <2>1, <2>2
    <3> QED
      BY <3>1
  <2>3. CASE op = "/"
    <3>1. PICK d \in doubles :
              w \in IF d[2] = 0 THEN {Failure} ELSE {Float(q) : q \in Compute(op, d[1], d[2])}
      BY <1>1, <1>3, <2>1, <2>3
    <3>2. w = Failure \/ \E q : w = Float(q)
      BY <3>1
    <3> QED
      BY <3>2
  <2>4. CASE op \notin {"%", "/"}
    <3>1. w \in IF bothInt THEN {Number(n) : n \in UNION {ToLong(d) : d \in results}}
                ELSE {Float(d) : d \in results}
      BY <1>1, <1>3, <2>1, <2>4
    <3>2. \E n : w = Number(n) \/ w = Float(n)
      BY <3>1
    <3> QED
      BY <3>2
  <2> QED
    BY <2>2, <2>3, <2>4
<1>4. Known(w)
  BY <1>2, <1>3
<1> QED
  BY <1>4, ValuesAreValues DEF IsValue, Trap

(* What an assignment stores is a value.                                    *)
LEMMA StoredIsValue ==
    ASSUME NEW op \in Arithmetic \cup {""}, NEW old, NEW v, IsValue(v), NEW w \in Stored(op, old, v)
    PROVE  IsValue(OrNull(w))
<1>1. IsValue(w)
  <2>1. CASE op = ""
    BY <2>1 DEF Stored
  <2>2. CASE op # ""
    <3>1. op \in Arithmetic /\ w \in Apply(op, old, v)
      BY <2>2 DEF Stored
    <3> QED
      BY <3>1, OperatorsYieldValues
  <2> QED
    BY <2>1, <2>2
<1> QED
  BY <1>1, ValuesAreValues DEF OrNull

(* Keys are compared as the operator `==' compares.                         *)
LEMMA KeysAreEqual ==
    ASSUME NEW j, NEW k
    PROVE  KeyEqual(j, k) <=> Equal(j, k)
BY DEF KeyEqual, Equal

(* Among values, equality is that of the values, NaN left aside.            *)
LEMMA EqualIsSame ==
    ASSUME NEW u, NEW v, IsValue(u), IsValue(v)
    PROVE  Equal(u, v) <=> u = v /\ u # Float(NaN)
BY DEF Equal, IsValue

-----------------------------------------------------------------------------
(* Arrays.                                                                  *)

(* A sequence given by its elements.                                        *)
LEMMA Made ==
    ASSUME NEW n \in Nat, NEW s, s = [i \in 1 .. n |-> s[i]]
    PROVE  IsSequence(s) /\ Len(s) = n /\ DOMAIN s = 1 .. n
<1>1. s \in Seq({s[i] : i \in DOMAIN s}) /\ DOMAIN s = 1 .. n
  BY IsASeq
<1> QED
  BY <1>1, LenProperties DEF IsSequence

(* The sequence of nothing.                                                 *)
LEMMA EmptySequence == IsSequence(<<>>) /\ DOMAIN <<>> = {}
<1>1. <<>> \in Seq({0}) /\ Len(<<>>) = 0
  OBVIOUS
<1>2. IsSequence(<<>>)
  BY <1>1, SequenceOfAnything
<1> QED
  BY <1>1, <1>2, SequenceParts

(* A struct is made with the fields of its type.                            *)
LEMMA StructFits ==
    ASSUME NEW pairs, NEW arguments, \A i \in DOMAIN FieldNames : IsValue(arguments[i]),
           pairs = [i \in DOMAIN FieldNames |-> Pair(FieldNames[i], arguments[i])]
    PROVE  Fitting("struct", pairs)
<1>1. pairs = [i \in DOMAIN FieldNames |-> pairs[i]]
      /\ \A i \in DOMAIN FieldNames : pairs[i] = Pair(FieldNames[i], arguments[i])
  OBVIOUS
<1>2. Len(FieldNames) \in Nat /\ DOMAIN FieldNames = 1 .. Len(FieldNames)
      /\ \A i \in DOMAIN FieldNames : FieldNames[i] \in Value
  BY NameAssumption, LenProperties, ElementOfSeq
<1>3. IsSequence(pairs) /\ DOMAIN pairs = DOMAIN FieldNames
  BY <1>1, <1>2, Made
<1>4. ASSUME NEW i \in DOMAIN FieldNames
      PROVE  IsPair(pairs[i]) /\ pairs[i].key = FieldNames[i]
  <2>1. IsValue(FieldNames[i]) /\ IsValue(arguments[i])
    BY <1>2, ValuesAreValues
  <2> QED
    BY <1>1, <2>1 DEF IsPair, Pair
<1>5. AreFields(pairs)
  <2>1. FieldNames = [i \in DOMAIN FieldNames |-> FieldNames[i]]
    BY NameAssumption
  <2>2. [i \in DOMAIN pairs |-> pairs[i].key] = [i \in DOMAIN FieldNames |-> FieldNames[i]]
    BY <1>3, <1>4
  <2> QED
    BY <2>1, <2>2 DEF AreFields
<1> QED
  BY <1>3, <1>4, <1>5 DEF Fitting, ArePairs

(* The search for a key finds the first place where it is.                  *)
LEMMA SearchFinds ==
    ASSUME NEW pairs, ArePairs(pairs), NEW k, MapHas(pairs, k)
    PROVE  /\ First(Places(pairs, k)) \in DOMAIN pairs
           /\ KeyEqual(pairs[First(Places(pairs, k))].key, k)
<1>1. DOMAIN pairs \subseteq Nat
  BY SequenceParts DEF ArePairs
<1>2. Places(pairs, k) \subseteq Nat /\ Places(pairs, k) # {}
  BY <1>1 DEF Places, MapHas
<1>3. First(Places(pairs, k)) \in Places(pairs, k)
  BY <1>2, LeastIsIn DEF First
<1> QED
  BY <1>3 DEF Places

(* What map_get returns was stored.                                         *)
LEMMA GetIsValue ==
    ASSUME NEW pairs, ArePairs(pairs), NEW k, MapHas(pairs, k)
    PROVE  IsValue(MapGet(pairs, k))
BY SearchFinds DEF ArePairs, IsPair, MapGet

(* map_set either gives the value to the first pair that has the key or     *)
(* adds one at the end; the keys that were there stay.                      *)
LEMMA SetWrites ==
    ASSUME NEW pairs, ArePairs(pairs), NEW k, NEW v
    PROVE  /\ MapHas(pairs, k) =>
                 /\ IsSequence(MapSet(pairs, k, v)) /\ DOMAIN MapSet(pairs, k, v) = DOMAIN pairs
                 /\ \A i \in DOMAIN pairs :
                       MapSet(pairs, k, v)[i] =
                           IF i = First(Places(pairs, k)) THEN Pair(pairs[i].key, v) ELSE pairs[i]
           /\ ~MapHas(pairs, k) =>
                 /\ IsSequence(MapSet(pairs, k, v))
                 /\ DOMAIN MapSet(pairs, k, v) = 1 .. Len(pairs) + 1
                 /\ \A i \in DOMAIN pairs : MapSet(pairs, k, v)[i] = pairs[i]
                 /\ MapSet(pairs, k, v)[Len(pairs) + 1] = Pair(k, v)
<1>1. Len(pairs) \in Nat /\ DOMAIN pairs = 1 .. Len(pairs)
  BY SequenceParts DEF ArePairs
<1>2. ASSUME MapHas(pairs, k)
      PROVE  LET new == MapSet(pairs, k, v)
             IN  /\ IsSequence(new) /\ DOMAIN new = DOMAIN pairs
                 /\ \A i \in DOMAIN pairs :
                       new[i] = IF i = First(Places(pairs, k)) THEN Pair(pairs[i].key, v)
                                ELSE pairs[i]
  <2> PICK n : n = First(Places(pairs, k))
    OBVIOUS
  <2> DEFINE new == [pairs EXCEPT ![n].value = v]
  <2>1. n \in DOMAIN pairs
    BY <1>2, SearchFinds
  <2>2. MapSet(pairs, k, v) = new
    BY <1>2 DEF MapSet
  <2>3. DOMAIN new = 1 .. Len(pairs) /\ new = [i \in 1 .. Len(pairs) |-> new[i]]
    BY <1>1
  <2>4. \A i \in DOMAIN pairs : new[i] = IF i = n THEN Pair(pairs[i].key, v) ELSE pairs[i]
    BY <2>1 DEF ArePairs, IsPair, Pair
  <2> HIDE DEF new
  <2>5. IsSequence(new)
    BY <1>1, <2>3, IsASeq DEF IsSequence
  <2> QED
    BY <1>1, <2>2, <2>3, <2>4, <2>5
<1>3. ASSUME ~MapHas(pairs, k)
      PROVE  LET new == MapSet(pairs, k, v)
             IN  /\ IsSequence(new) /\ DOMAIN new = 1 .. Len(pairs) + 1
                 /\ \A i \in DOMAIN pairs : new[i] = pairs[i]
                 /\ new[Len(pairs) + 1] = Pair(k, v)
  <2>1. MapSet(pairs, k, v) = Append(pairs, Pair(k, v))
    BY <1>3 DEF MapSet
  <2>2. IsSequence(pairs)
    BY DEF ArePairs
  <2> QED
    BY <1>1, <2>1, <2>2, Appended
<1> QED
  BY <1>2, <1>3

(* map_set keeps the layout of a map and, under a name that a struct has,   *)
(* that of a struct.                                                        *)
LEMMA SetFits ==
    ASSUME NEW pairs, ArePairs(pairs), NEW k, IsValue(k), NEW v, IsValue(v)
    PROVE  /\ ArePairs(MapSet(pairs, k, v))
           /\ AreDistinct(pairs) => AreDistinct(MapSet(pairs, k, v))
           /\ AreFields(pairs) /\ MapHas(pairs, k) => AreFields(MapSet(pairs, k, v))
<1>1. Len(pairs) \in Nat /\ DOMAIN pairs = 1 .. Len(pairs) /\ \A i \in DOMAIN pairs : IsPair(pairs[i])
  BY SequenceParts DEF ArePairs
<1> PICK new : new = MapSet(pairs, k, v)
  OBVIOUS
<1>2. \A key, w : IsValue(key) /\ IsValue(w) => IsPair(Pair(key, w))
  BY DEF IsPair, Pair
<1>3. CASE MapHas(pairs, k)
  <2>1. IsSequence(new) /\ DOMAIN new = DOMAIN pairs
    BY <1>3, SetWrites
  <2>2. \A i \in DOMAIN pairs : IsPair(new[i]) /\ new[i].key = pairs[i].key
    <3>1. \A i \in DOMAIN pairs : new[i] = Pair(pairs[i].key, v) \/ new[i] = pairs[i]
      BY <1>3, SetWrites
    <3>2. \A i \in DOMAIN pairs : IsValue(pairs[i].key)
      BY <1>1 DEF IsPair
    <3>3. \A key : Pair(key, v).key = key
      BY DEF Pair
    <3> QED
      BY <1>1, <1>2, <3>1, <3>2, <3>3
  <2> QED
    BY <2>1, <2>2 DEF ArePairs, AreDistinct, AreFields
<1>4. CASE ~MapHas(pairs, k)
  <2> PICK n \in Nat : n = Len(pairs)
    BY <1>1
  <2>1. /\ IsSequence(new) /\ DOMAIN new = 1 .. n + 1
        /\ \A i \in 1 .. n : new[i] = pairs[i]
        /\ new[n + 1] = Pair(k, v)
    BY <1>1, <1>4, SetWrites
  <2>2. \A i \in 1 .. n + 1 : i \in 1 .. n \/ i = n + 1
    OBVIOUS
  <2>3. \A i \in 1 .. n + 1 : IsPair(new[i])
    BY <1>1, <1>2, <2>1, <2>2
  <2>4. \A i \in 1 .. n : IsValue(pairs[i].key) /\ ~Equal(pairs[i].key, k)
    BY <1>1, <1>4, KeysAreEqual DEF MapHas, Places, IsPair
  <2>5. \A i \in 1 .. n : ~Equal(k, pairs[i].key)
    BY <2>4, EqualIsSame
  <2>6. \A i \in 1 .. n : new[i].key = pairs[i].key
    BY <2>1
  <2>7. new[n + 1].key = k
    BY <2>1 DEF Pair
  <2>8. ASSUME AreDistinct(pairs), NEW i \in 1 .. n + 1, NEW j \in 1 .. n + 1,
               Equal(new[i].key, new[j].key)
        PROVE  i = j
    <3>1. CASE i \in 1 .. n /\ j \in 1 .. n
      BY <1>1, <2>6, <2>8, <3>1 DEF AreDistinct
    <3>2. CASE i = n + 1 \/ j = n + 1
      BY <2>2, <2>4, <2>5, <2>6, <2>7, <2>8, <3>2
    <3> QED
      BY <2>2, <3>1, <3>2
  <2> QED
    BY <1>4, <2>1, <2>3, <2>8 DEF ArePairs, AreDistinct
<1> QED
  BY <1>3, <1>4

(* list_set keeps a list.                                                   *)
LEMMA ListSetWrites ==
    ASSUME NEW items, IsSequence(items), NEW i \in 0 .. Len(items) - 1, NEW v
    PROVE  /\ IsSequence(ListSet(items, i, v))
           /\ Len(ListSet(items, i, v)) = Len(items)
           /\ DOMAIN ListSet(items, i, v) = DOMAIN items
           /\ \A j \in DOMAIN items :
                 ListSet(items, i, v)[j] = IF j = i + 1 THEN v ELSE items[j]
<1>1. Len(items) \in Nat /\ DOMAIN items = 1 .. Len(items)
  BY SequenceParts
<1> DEFINE new == [items EXCEPT ![i + 1] = v]
<1>2. ListSet(items, i, v) = new
  BY DEF ListSet
<1>3. i + 1 \in DOMAIN items
  BY <1>1
<1>4. /\ DOMAIN new = 1 .. Len(items) /\ new = [j \in 1 .. Len(items) |-> new[j]]
      /\ \A j \in DOMAIN items : new[j] = IF j = i + 1 THEN v ELSE items[j]
  BY <1>1, <1>3
<1> HIDE DEF new
<1>5. new \in Seq({new[j] : j \in DOMAIN new})
  BY <1>1, <1>4, IsASeq
<1>6. Len(new) = Len(items)
  BY <1>1, <1>4, <1>5, LenProperties
<1> QED
  BY <1>1, <1>2, <1>4, <1>5, <1>6 DEF IsSequence

(* list_set of a value keeps an array of values.                            *)
LEMMA ListSetFits ==
    ASSUME NEW items, AreValues(items), NEW i \in 0 .. Len(items) - 1, NEW v, IsValue(v)
    PROVE  AreValues(ListSet(items, i, v))
BY ListSetWrites DEF AreValues

-----------------------------------------------------------------------------
(* A map literal.                                                           *)

(* The maps after each of the first n pairs.                                *)
Fills(pairs, n, map) ==
    map = [i \in 0 .. n |-> IF i = 0 THEN <<>>
                             ELSE MapSet(map[i - 1], pairs[i].key, pairs[i].value)]

(* There are such maps for any pairs.                                       *)
LEMMA FillingExists ==
    ASSUME NEW pairs, NEW n \in Nat
    PROVE  \E map : Fills(pairs, n, map)
<1> DEFINE Bad == {m \in Nat : ~\E map : Fills(pairs, m, map)}
<1>1. SUFFICES ASSUME Bad # {} PROVE FALSE
  OBVIOUS
<1>2. PICK m \in Bad : \A k \in Bad : m <= k
  <2>1. Bad \subseteq Nat
    OBVIOUS
  <2> HIDE DEF Bad
  <2> QED
    BY <1>1, <2>1, LeastPlace
<1>3. CASE m = 0
  <2> DEFINE e == [i \in 0 .. 0 |-> <<>>]
  <2>1. e = [i \in 0 .. 0 |-> IF i = 0 THEN <<>> ELSE MapSet(e[i - 1], pairs[i].key, pairs[i].value)]
    OBVIOUS
  <2>2. Fills(pairs, 0, e)
    BY <2>1 DEF Fills
  <2> QED
    BY <1>2, <1>3, <2>2
<1>4. CASE m # 0
  <2>1. m \in Nat /\ m - 1 \in Nat /\ m - 1 \notin Bad
    BY <1>2, <1>4
  <2>2. PICK g : Fills(pairs, m - 1, g)
    BY <2>1
  <2> DEFINE h == [i \in 0 .. m |-> IF i = m THEN MapSet(g[m - 1], pairs[m].key, pairs[m].value)
                                     ELSE g[i]]
  <2>3. ASSUME NEW i \in 0 .. m
        PROVE  h[i] = IF i = 0 THEN <<>> ELSE MapSet(h[i - 1], pairs[i].key, pairs[i].value)
    <3>1. CASE i = m
      <4>1. h[i] = MapSet(g[m - 1], pairs[m].key, pairs[m].value)
        BY <3>1
      <4>2. h[i - 1] = g[m - 1]
        BY <2>1, <3>1
      <4> QED
        BY <1>4, <3>1, <4>1, <4>2
    <3>2. CASE i # m
      <4>1. i \in 0 .. m - 1 /\ h[i] = g[i] /\ (i # 0 => i - 1 \in 0 .. m /\ i - 1 # m)
        BY <2>1, <3>2
      <4>2. i # 0 => h[i - 1] = g[i - 1]
        BY <4>1
      <4>3. g[i] = IF i = 0 THEN <<>> ELSE MapSet(g[i - 1], pairs[i].key, pairs[i].value)
        BY <2>2, <4>1 DEF Fills
      <4> QED
        BY <4>1, <4>2, <4>3
    <3> QED
      BY <3>1, <3>2
  <2>4. h = [i \in 0 .. m |-> h[i]]
    OBVIOUS
  <2>5. Fills(pairs, m, h)
    <3> HIDE DEF h
    <3> QED
      BY <2>3, <2>4 DEF Fills
  <2> QED
    BY <1>2, <2>5
<1> QED
  BY <1>3, <1>4

(* A literal makes a map, whichever of its keys are the same.               *)
LEMMA FilledFits ==
    ASSUME NEW pairs, ArePairs(pairs)
    PROVE  ArePairs(Filled(pairs)) /\ AreDistinct(Filled(pairs))
<1> PICK n \in Nat : n = Len(pairs)
  BY SequenceParts DEF ArePairs
<1>1. \A i \in 1 .. n : IsValue(pairs[i].key) /\ IsValue(pairs[i].value)
  BY SequenceParts DEF ArePairs, IsPair
<1> DEFINE map == CHOOSE map : Fills(pairs, n, map)
<1>2. Fills(pairs, n, map)
  BY FillingExists
<1>3. Filled(pairs) = map[n]
  BY DEF Filled, Fills
<1> HIDE DEF map
<1> DEFINE Fit(m) == ArePairs(m) /\ AreDistinct(m)
           Bad == {i \in 0 .. n : ~Fit(map[i])}
<1>4. Bad = {}
  <2> SUFFICES ASSUME Bad # {} PROVE FALSE
    OBVIOUS
  <2>1. PICK k \in Bad : \A j \in Bad : k <= j
    <3>1. Bad \subseteq Nat
      OBVIOUS
    <3> HIDE DEF Bad
    <3> QED
      BY <3>1, LeastPlace
  <2>2. k \in 0 .. n
    OBVIOUS
  <2>3. map[k] = IF k = 0 THEN <<>> ELSE MapSet(map[k - 1], pairs[k].key, pairs[k].value)
    BY <1>2, <2>2 DEF Fills
  <2>4. CASE k = 0
    <3>1. Fit(<<>>)
      BY EmptySequence DEF ArePairs, AreDistinct
    <3> QED
      BY <2>1, <2>3, <2>4, <3>1
  <2>5. CASE k # 0
    <3>1. k - 1 \in 0 .. n /\ ~(k <= k - 1) /\ k \in 1 .. n
      BY <2>2, <2>5
    <3>2. Fit(map[k - 1])
      BY <2>1, <3>1
    <3>3. Fit(MapSet(map[k - 1], pairs[k].key, pairs[k].value))
      BY <1>1, <3>1, <3>2, SetFits
    <3> QED
      BY <2>3, <2>5, <3>3
  <2> QED
    BY <2>4, <2>5
<1>5. Fit(map[n])
  BY <1>4
<1> QED
  BY <1>3, <1>5

-----------------------------------------------------------------------------
(* Shapes of steps.                                                         *)

(* Containers are changed and added, and never are of another kind.         *)
Grows ==
    /\ ObjectsFit'
    /\ \A a \in DOMAIN objects : a \in DOMAIN objects' /\ objects'[a].kind = objects[a].kind

(* What a step does to the assignments and loops under way.                 *)
Turns ==
    \/ stack' = stack
    \/ stack # <<>> /\ stack' = Below
    \/ \E f : FrameFits(f) /\ stack' = Append(stack, f)
    \/ \E f : FrameFits(f) /\ stack # <<>> /\ stack' = [stack EXCEPT ![Len(stack)] = f]

Moves == Grows /\ Turns /\ IsValue(result')

(* A reference stays one.                                                   *)
LEMMA RefsStay ==
    ASSUME Grows, NEW v, IsRef(v)
    PROVE  IsRef(v)'
BY DEF Grows, IsRef

(* A frame that fits still fits when containers are added or changed.       *)
LEMMA FramesStay ==
    ASSUME Grows, NEW f, FrameFits(f)
    PROVE  FrameFits(f)'
<1>1. IsRef(f.of)
  BY DEF FrameFits
<1>2. IsRef(f.of)'
  BY <1>1, RefsStay DEF Grows, IsRef
<1>3. FrameFits(f)' <=>
        /\ f = [kind |-> f.kind, of |-> f.of, key |-> f.key, op |-> f.op, next |-> f.next]
        /\ IsRef(f.of)' /\ IsValue(f.key)
        /\ f.op \in Arithmetic \cup {""}
        /\ f.next \in Nat
        /\ f.kind = "forin" => f.of.type = "list"
        /\ f.kind = "field" => f.of.type = "struct" /\ IsField(f.key)
  BY DEF FrameFits
<1> QED
  BY <1>2, <1>3 DEF FrameFits

(* Every step of these shapes keeps the invariant.                          *)
LEMMA MovesKeepInv ==
    ASSUME ContainersInv, Moves, UNCHANGED literals
    PROVE  ContainersInv'
<1>1. Grows /\ Turns /\ IsValue(result') /\ StackFits /\ literals \in Vocabularies
  BY DEF ContainersInv, Moves
<1>2. IsSequence(stack) /\ \A i \in DOMAIN stack : FrameFits(stack[i])
  BY <1>1 DEF StackFits
<1> PICK n \in Nat : n = Len(stack)
  BY <1>2, SequenceParts
<1>3. DOMAIN stack = 1 .. n /\ (stack = <<>> <=> n = 0) /\ stack = [i \in 1 .. n |-> stack[i]]
  BY <1>2, SequenceParts
<1>4. IsSequence(stack') /\ \A i \in DOMAIN stack' : FrameFits(stack'[i])
  <2>1. CASE stack' = stack
    BY <1>2, <2>1
  <2>2. CASE stack # <<>> /\ stack' = Below
    <3>1. n - 1 \in 0 .. n
      BY <1>3, <2>2
    <3> PICK m \in 0 .. n : m = n - 1
      BY <3>1
    <3>2. stack' = SubSeq(stack, 1, m)
      BY <2>2 DEF Below
    <3>3. IsSequence(stack') /\ DOMAIN stack' = 1 .. m /\ \A i \in 1 .. m : stack'[i] = stack[i]
      BY <1>2, <3>2, Cut
    <3>4. \A i \in 1 .. m : i \in 1 .. n
      OBVIOUS
    <3> QED
      BY <1>2, <1>3, <3>3, <3>4
  <2>3. ASSUME NEW f, FrameFits(f), stack' = Append(stack, f)
        PROVE  IsSequence(stack') /\ \A i \in DOMAIN stack' : FrameFits(stack'[i])
    <3>1. /\ IsSequence(stack') /\ DOMAIN stack' = 1 .. n + 1
          /\ \A i \in 1 .. n : stack'[i] = stack[i]
          /\ stack'[n + 1] = f
      BY <1>2, <2>3, Appended
    <3>2. \A i \in 1 .. n + 1 : i \in 1 .. n \/ i = n + 1
      OBVIOUS
    <3> QED
      BY <1>2, <1>3, <2>3, <3>1, <3>2
  <2>4. ASSUME NEW f, FrameFits(f), stack # <<>>, stack' = [stack EXCEPT ![Len(stack)] = f]
        PROVE  IsSequence(stack') /\ \A i \in DOMAIN stack' : FrameFits(stack'[i])
    <3> DEFINE new == [stack EXCEPT ![n] = f]
    <3>1. stack' = new
      BY <2>4
    <3>2. /\ DOMAIN new = 1 .. n /\ new = [i \in 1 .. n |-> new[i]]
          /\ \A i \in 1 .. n : new[i] = IF i = n THEN f ELSE stack[i]
      BY <1>3
    <3> HIDE DEF new
    <3>3. IsSequence(new)
      BY <3>2, IsASeq DEF IsSequence
    <3> QED
      BY <1>2, <1>3, <2>4, <3>1, <3>2, <3>3
  <2> QED
    BY <1>1, <2>1, <2>2, <2>3, <2>4 DEF Turns
<1>5. ASSUME NEW i \in DOMAIN stack' PROVE FrameFits(stack[i])'
  <2> PICK g : g = stack'[i]
    OBVIOUS
  <2>1. FrameFits(g)
    BY <1>4
  <2>2. FrameFits(g)'
    BY <1>1, <2>1, FramesStay
  <2> QED
    BY <2>2 DEF FrameFits, IsRef
<1>6. StackFits'
  BY <1>4, <1>5 DEF StackFits
<1> QED
  BY <1>1, <1>6 DEF ContainersInv, Grows

-----------------------------------------------------------------------------
(* What the expressions read and write.                                     *)

(* The containers that expressions name exist; all their operands are       *)
(* values.                                                                  *)
LEMMA ContainersAreRefs ==
    ASSUME ObjectsFit, NEW c \in Containers
    PROVE  IsRef(c) /\ c.type \in {"list", "map", "struct"}
<1> PICK a \in DOMAIN objects : c = Ref(a)
  BY DEF Containers
<1>1. objects[a].kind \in {"list", "map", "struct"}
  BY DEF ObjectsFit, ObjectFits, Fitting
<1>2. IsValue(c) /\ c.type = objects[a].kind /\ c.of = a
  BY <1>1 DEF Ref, IsValue
<1> QED
  BY <1>1, <1>2 DEF IsRef

(* Literals and the containers of the heap are values.                      *)
LEMMA OperandsAreValues ==
    ASSUME ContainersInv, NEW v \in Operands
    PROVE  IsValue(v)
<1>1. CASE v \in literals
  BY <1>1, LiteralAssumption, ValuesAreValues DEF ContainersInv
<1>2. CASE v \in Containers
  BY <1>2, ContainersAreRefs DEF ContainersInv, IsRef
<1> QED
  BY <1>1, <1>2 DEF Operands

(* What a reference leads to fits the type it says.                         *)
LEMMA ItemsFit ==
    ASSUME ObjectsFit, NEW v, IsRef(v)
    PROVE  /\ v.type \in {"list", "map", "struct"}
           /\ v.type = "list" => AreValues(Items(v))
           /\ v.type # "list" => ArePairs(Items(v))
           /\ v.type = "map" => AreDistinct(Items(v))
           /\ v.type = "struct" => AreFields(Items(v))
<1>1. Fitting(objects[v.of].kind, objects[v.of].items) /\ objects[v.of].kind = v.type
  BY DEF ObjectsFit, ObjectFits, IsRef
<1> QED
  BY <1>1 DEF Fitting, Items

(* A struct finds the fields of its type, and those only.                   *)
LEMMA FieldsAreFound ==
    ASSUME NEW pairs, AreFields(pairs), NEW name
    PROVE  MapHas(pairs, name) <=> IsField(name)
<1>1. DOMAIN pairs = DOMAIN FieldNames /\ \A i \in DOMAIN pairs : pairs[i].key = FieldNames[i]
  BY DEF AreFields
<1> QED
  BY <1>1 DEF MapHas, Places, IsField

(* Reading an element yields a value.                                       *)
LEMMA LookupIsValue ==
    ASSUME ObjectsFit, NEW v, IsRef(v), NEW k
    PROVE  IsValue(Lookup(v, k))
<1>1. CASE v.type = "list"
  <2>1. Lookup(v, k) = Failure \/ Lookup(v, k) = ListGet(Items(v), ToInt(k.of))
    BY <1>1 DEF Lookup
  <2>2. ASSUME NEW items, AreValues(items), NEW i PROVE IsValue(ListGet(items, i))
    <3>1. DOMAIN items = 1 .. Len(items) /\ Len(items) \in Nat /\ \A j \in DOMAIN items : IsValue(items[j])
      BY <2>2, SequenceParts DEF AreValues
    <3>2. CASE i \in 0 .. Len(items) - 1
      BY <3>1, <3>2 DEF ListGet
    <3>3. CASE i \notin 0 .. Len(items) - 1
      BY <3>3, ValuesAreValues DEF ListGet
    <3> QED
      BY <3>2, <3>3
  <2>3. IsValue(ListGet(Items(v), ToInt(k.of)))
    BY <1>1, <2>2, ItemsFit
  <2> QED
    BY <2>1, <2>3, ValuesAreValues
<1>2. CASE v.type = "map"
  <2>1. Lookup(v, k) = IF MapHas(Items(v), k) THEN MapGet(Items(v), k) ELSE Null
    BY <1>2 DEF Lookup
  <2> QED
    BY <1>2, <2>1, ItemsFit, GetIsValue, ValuesAreValues
<1>3. CASE v.type \notin {"list", "map"}
  <2>1. Lookup(v, k) = Failure
    BY <1>3 DEF Lookup
  <2> QED
    BY <2>1, ValuesAreValues
<1> QED
  BY <1>1, <1>2, <1>3

(* A new container.                                                         *)
LEMMA AllocateMoves ==
    ASSUME ContainersInv, NEW kind, NEW items, Fitting(kind, items), Allocate(kind, items)
    PROVE  Moves
<1> PICK o : o = [kind |-> kind, items |-> items]
  OBVIOUS
<1>1. /\ objects' = Append(objects, o) /\ stack' = stack
      /\ result' = [type |-> kind, of |-> Len(objects) + 1]
  BY DEF Allocate, Answer
<1>2. ObjectFits(o) /\ kind \in {"list", "map", "struct"}
  BY DEF ObjectFits, Fitting
<1>3. IsSequence(objects) /\ \A a \in DOMAIN objects : ObjectFits(objects[a])
  BY DEF ContainersInv, ObjectsFit
<1> PICK n \in Nat : n = Len(objects)
  BY <1>3, SequenceParts
<1>4. /\ DOMAIN objects = 1 .. n
      /\ IsSequence(objects') /\ DOMAIN objects' = 1 .. n + 1
      /\ \A a \in 1 .. n : objects'[a] = objects[a]
      /\ objects'[n + 1] = o
  BY <1>1, <1>3, SequenceParts, Appended
<1>5. \A a \in 1 .. n + 1 : a \in 1 .. n \/ a = n + 1
  OBVIOUS
<1>6. \A a \in DOMAIN objects' : ObjectFits(objects'[a])
  BY <1>2, <1>3, <1>4, <1>5
<1>7. Grows
  <2>1. \A a \in DOMAIN objects : a \in DOMAIN objects' /\ objects'[a].kind = objects[a].kind
    BY <1>4
  <2> QED
    BY <1>4, <1>6, <2>1 DEF Grows, ObjectsFit, ObjectFits
<1> QED
  BY <1>1, <1>2, <1>7, ValuesAreValues DEF Moves, Turns

(* New items for a container that exists.                                   *)
LEMMA UpdateGrows ==
    ASSUME ObjectsFit, NEW v, IsRef(v), NEW items, Fitting(v.type, items), Update(v, items)
    PROVE  Grows
<1> PICK b : b = v.of
  OBVIOUS
<1>1. b \in DOMAIN objects /\ objects[b].kind = v.type
  BY DEF IsRef
<1>2. IsSequence(objects) /\ \A a \in DOMAIN objects : ObjectFits(objects[a])
  BY DEF ObjectsFit
<1>3. objects' = [objects EXCEPT ![b].items = items]
  BY DEF Update
<1> PICK o : o = [objects[b] EXCEPT !.items = items]
  OBVIOUS
<1>4. o = [kind |-> v.type, items |-> items]
  BY <1>1, <1>2 DEF ObjectFits
<1>5. ObjectFits(o)
  BY <1>4 DEF ObjectFits
<1>6. /\ DOMAIN objects' = DOMAIN objects
      /\ \A a \in DOMAIN objects : objects'[a] = IF a = b THEN o ELSE objects[a]
  BY <1>1, <1>3
<1>7. IsSequence(objects')
  <2>1. objects' = [a \in 1 .. Len(objects) |-> objects'[a]] /\ Len(objects) \in Nat
    BY <1>2, <1>3, SequenceParts
  <2> QED
    BY <2>1, IsASeq DEF IsSequence
<1>8. \A a \in DOMAIN objects' : ObjectFits(objects'[a])
  BY <1>2, <1>5, <1>6
<1>9. \A a \in DOMAIN objects : a \in DOMAIN objects' /\ objects'[a].kind = objects[a].kind
  BY <1>1, <1>4, <1>6
<1> QED
  BY <1>7, <1>8, <1>9 DEF Grows, ObjectsFit, ObjectFits

(* The containers are left alone.                                           *)
LEMMA NothingGrows ==
    ASSUME ObjectsFit, UNCHANGED objects
    PROVE  Grows
BY DEF Grows, ObjectsFit, ObjectFits

-----------------------------------------------------------------------------
(* The expressions.                                                         *)

(* An expression that only reads.                                           *)
LEMMA AnswerMoves ==
    ASSUME ContainersInv, Unchanged, IsValue(result')
    PROVE  Moves
BY NothingGrows DEF ContainersInv, Unchanged, Moves, Turns

(* An error yields the empty value.                                         *)
LEMMA RejectIsValue ==
    ASSUME Reject PROVE IsValue(result')
BY ValuesAreValues DEF Reject

(* Containers that an expression makes.                                     *)
LEMMA CreateMoves ==
    ASSUME ContainersInv, Create
    PROVE  Moves
<1>1. literals \subseteq Value
  BY LiteralAssumption DEF ContainersInv
<1>2. ASSUME NEW values \in {<<>>} \cup {<<v>> : v \in Operands}, NewList(values)
      PROVE  Moves
  <2>1. AreValues(values)
    <3>1. CASE values = <<>>
      BY <3>1, EmptySequence DEF AreValues
    <3>2. ASSUME NEW v \in Operands, values = <<v>> PROVE AreValues(values)
      <4>1. values = [i \in 1 .. 1 |-> values[i]] /\ values[1] = v
        BY <3>2
      <4>2. IsSequence(values) /\ DOMAIN values = 1 .. 1
        BY <4>1, Made
      <4>3. IsValue(v)
        BY OperandsAreValues
      <4> QED
        BY <4>1, <4>2, <4>3 DEF AreValues
    <3> QED
      BY <1>2, <3>1, <3>2
  <2>2. Fitting("list", values)
    BY <2>1 DEF Fitting
  <2> QED
    BY <1>2, <2>2, AllocateMoves DEF NewList
<1>3. ASSUME NEW u \in literals, NEW v \in literals, MakeRange(u, v)
      PROVE  Moves
  <2>1. CASE Is(u, "int") /\ Is(v, "int")
    <3> DEFINE n == IF u.of < v.of THEN v.of - u.of ELSE 0
               items == [i \in 1 .. n |-> Number(u.of + i - 1)]
    <3>1. n \in Nat
      BY <1>1 DEF Value
    <3>2. Allocate("list", items)
      BY <1>3, <2>1 DEF MakeRange
    <3> HIDE DEF n
    <3>3. AreValues(items)
      <4>1. items = [i \in 1 .. n |-> items[i]] /\ \A i \in 1 .. n : items[i] = Number(u.of + i - 1)
        OBVIOUS
      <4> HIDE DEF items
      <4>2. IsSequence(items) /\ DOMAIN items = 1 .. n
        BY <3>1, <4>1, Made
      <4> QED
        BY <4>1, <4>2, ValuesAreValues DEF AreValues
    <3>4. Fitting("list", items)
      BY <3>3 DEF Fitting
    <3> QED
      BY <3>2, <3>4, AllocateMoves
  <2>2. CASE ~(Is(u, "int") /\ Is(v, "int"))
    BY <1>3, <2>2, RejectIsValue, AnswerMoves DEF MakeRange
  <2> QED
    BY <2>1, <2>2
<1>4. ASSUME NEW u \in literals, NEW v \in literals, NewMap(<<Pair(u, Null), Pair(v, u)>>)
      PROVE  Moves
  <2> DEFINE pairs == <<Pair(u, Null), Pair(v, u)>>
  <2>1. IsPair(Pair(u, Null)) /\ IsPair(Pair(v, u))
    <3>1. IsValue(u) /\ IsValue(v) /\ IsValue(Null)
      BY <1>1, ValuesAreValues
    <3> QED
      BY <3>1 DEF IsPair, Pair
  <2>2. /\ pairs = [i \in 1 .. 2 |-> pairs[i]]
        /\ pairs[1] = Pair(u, Null) /\ pairs[2] = Pair(v, u)
    OBVIOUS
  <2>3. Allocate("map", Filled(pairs))
    BY <1>4 DEF NewMap
  <2> HIDE DEF pairs
  <2>4. ArePairs(pairs)
    <3>1. IsSequence(pairs) /\ DOMAIN pairs = 1 .. 2
      BY <2>2, Made
    <3> QED
      BY <2>1, <2>2, <3>1 DEF ArePairs
  <2>5. Fitting("map", Filled(pairs))
    BY <2>4, FilledFits DEF Fitting
  <2> QED
    BY <2>3, <2>5, AllocateMoves
<1>5. ASSUME NEW u \in literals, NewStruct([i \in DOMAIN FieldNames |-> IF i = 1 THEN u ELSE Null])
      PROVE  Moves
  <2> DEFINE arguments == [i \in DOMAIN FieldNames |-> IF i = 1 THEN u ELSE Null]
             pairs == [i \in DOMAIN FieldNames |-> Pair(FieldNames[i], arguments[i])]
  <2>1. Allocate("struct", pairs)
    BY <1>5 DEF NewStruct
  <2>2. \A i \in DOMAIN FieldNames : IsValue(arguments[i])
    BY <1>1, ValuesAreValues
  <2> HIDE DEF arguments
  <2>3. Fitting("struct", pairs)
    BY <2>2, StructFits
  <2> QED
    BY <2>1, <2>3, AllocateMoves
<1> QED
  BY <1>2, <1>3, <1>4, <1>5 DEF Create

(* Reading, pushing and asking for a key.                                   *)
LEMMA ContainingMoves ==
    ASSUME ContainersInv, Containing
    PROVE  Moves
<1> PICK c \in Containers, v \in Operands : Push(c, v) \/ Has(c, v) \/ Index(c, v)
  BY DEF Containing
<1>1. ObjectsFit /\ IsRef(c) /\ IsValue(v)
  BY ContainersAreRefs, OperandsAreValues DEF ContainersInv
<1>2. ASSUME Push(c, v) PROVE Moves
  <2>1. CASE Is(c, "list")
    <3>1. Update(c, Append(Items(c), v)) /\ result' = Null /\ stack' = stack
      BY <1>2, <2>1 DEF Push, Answer
    <3> PICK items : items = Items(c)
      OBVIOUS
    <3>2. AreValues(items) /\ c.type = "list"
      BY <1>1, <2>1, ItemsFit DEF Is
    <3>3. AreValues(Append(items, v))
      <4> PICK n \in Nat : n = Len(items)
        BY <3>2, SequenceParts DEF AreValues
      <4>1. /\ IsSequence(Append(items, v)) /\ DOMAIN Append(items, v) = 1 .. n + 1
            /\ \A i \in 1 .. n : Append(items, v)[i] = items[i]
            /\ Append(items, v)[n + 1] = v
        BY <3>2, Appended DEF AreValues
      <4>2. \A i \in 1 .. n + 1 : i \in 1 .. n \/ i = n + 1
        OBVIOUS
      <4>3. \A i \in 1 .. n : IsValue(items[i])
        BY <3>2, SequenceParts DEF AreValues
      <4> QED
        BY <1>1, <4>1, <4>2, <4>3 DEF AreValues
    <3>4. Fitting(c.type, Append(items, v))
      BY <3>2, <3>3 DEF Fitting
    <3>5. Grows
      BY <1>1, <3>1, <3>4, UpdateGrows
    <3> QED
      BY <3>1, <3>5, ValuesAreValues DEF Moves, Turns
  <2>2. CASE ~Is(c, "list")
    BY <1>2, <2>2, RejectIsValue, AnswerMoves DEF Push, Unchanged
  <2> QED
    BY <2>1, <2>2
<1>3. ASSUME Has(c, v) PROVE Moves
  <2>1. Unchanged /\ (Reject \/ \E b : result' = Bool(b))
    BY <1>3 DEF Has, Answer
  <2> QED
    BY <2>1, RejectIsValue, ValuesAreValues, AnswerMoves DEF Bool, IsValue
<1>4. ASSUME Index(c, v) PROVE Moves
  <2>1. Unchanged /\ (Reject \/ result' = Lookup(c, v))
    BY <1>4 DEF Index, Answer
  <2> QED
    BY <1>1, <2>1, RejectIsValue, LookupIsValue, AnswerMoves
<1> QED
  BY <1>2, <1>3, <1>4

(* Expressions about a container as a whole.                                *)
LEMMA PopMoves ==
    ASSUME ContainersInv, NEW c \in Containers, Pop(c)
    PROVE  Moves
<1>1. ObjectsFit /\ IsRef(c)
  BY ContainersAreRefs DEF ContainersInv
<1>2. CASE Is(c, "list") /\ Items(c) # <<>>
  <2> PICK items : items = Items(c)
    OBVIOUS
  <2>1. Update(c, Front(items)) /\ result' = At(items, Len(items)) /\ stack' = stack
    BY <1>2 DEF Pop, Answer
  <2>2. AreValues(items) /\ c.type = "list" /\ items # <<>>
    BY <1>1, <1>2, ItemsFit DEF Is
  <2> PICK n \in Nat : n = Len(items)
    BY <2>2, SequenceParts DEF AreValues
  <2>3. DOMAIN items = 1 .. n /\ n # 0 /\ IsSequence(items) /\ \A i \in 1 .. n : IsValue(items[i])
    BY <2>2, SequenceParts DEF AreValues
  <2> PICK m \in 0 .. n : m = n - 1
    BY <2>3
  <2>4. AreValues(Front(items))
    <3>1. /\ IsSequence(SubSeq(items, 1, m)) /\ DOMAIN SubSeq(items, 1, m) = 1 .. m
          /\ \A i \in 1 .. m : SubSeq(items, 1, m)[i] = items[i]
      BY <2>3, Cut
    <3>2. Front(items) = SubSeq(items, 1, m)
      BY DEF Front
    <3>3. \A i \in 1 .. m : i \in 1 .. n
      OBVIOUS
    <3> QED
      BY <2>3, <3>1, <3>2, <3>3 DEF AreValues
  <2>5. Fitting(c.type, Front(items))
    BY <2>2, <2>4 DEF Fitting
  <2>6. Grows
    BY <1>1, <2>1, <2>5, UpdateGrows
  <2>7. IsValue(result')
    BY <2>1, <2>3 DEF At
  <2> QED
    BY <2>1, <2>6, <2>7 DEF Moves, Turns
<1>3. CASE ~(Is(c, "list") /\ Items(c) # <<>>)
  BY <1>3, RejectIsValue, AnswerMoves DEF Pop, Unchanged
<1> QED
  BY <1>2, <1>3

(* map_keys and map_values make a list of the keys or of the values.        *)
LEMMA EnumerateMoves ==
    ASSUME ContainersInv, NEW c \in Containers, NEW what \in {"key", "value"}, Enumerate(c, what)
    PROVE  Moves
<1>1. ObjectsFit /\ IsRef(c)
  BY ContainersAreRefs DEF ContainersInv
<1>2. CASE Is(c, "map")
  <2> PICK pairs : pairs = Items(c)
    OBVIOUS
  <2>1. ArePairs(pairs)
    BY <1>1, <1>2, ItemsFit DEF Is
  <2> DEFINE items == [i \in DOMAIN pairs |-> pairs[i][what]]
  <2>2. Allocate("list", items)
    BY <1>2 DEF Enumerate
  <2>3. items = [i \in DOMAIN pairs |-> items[i]] /\ \A i \in DOMAIN pairs : items[i] = pairs[i][what]
    OBVIOUS
  <2> HIDE DEF items
  <2>4. DOMAIN pairs = 1 .. Len(pairs) /\ Len(pairs) \in Nat /\ \A i \in DOMAIN pairs : IsPair(pairs[i])
    BY <2>1, SequenceParts DEF ArePairs
  <2>5. IsSequence(items) /\ DOMAIN items = DOMAIN pairs
    BY <2>3, <2>4, Made
  <2>6. \A i \in DOMAIN pairs : IsValue(pairs[i][what])
    BY <2>4 DEF IsPair
  <2>7. Fitting("list", items)
    BY <2>3, <2>5, <2>6 DEF Fitting, AreValues
  <2> QED
    BY <2>2, <2>7, AllocateMoves
<1>3. CASE ~Is(c, "map")
  BY <1>3, RejectIsValue, AnswerMoves DEF Enumerate
<1> QED
  BY <1>2, <1>3

(* The list of the pairs of a map comes first, then the list of each pair.  *)
LEMMA MakeItemsMoves ==
    ASSUME ContainersInv, NEW c \in Containers, MakeItems(c)
    PROVE  Moves
<1>1. ObjectsFit /\ IsRef(c) /\ IsSequence(objects) /\ \A a \in DOMAIN objects : ObjectFits(objects[a])
  BY ContainersAreRefs DEF ContainersInv, ObjectsFit
<1>2. CASE Is(c, "map")
  <2> PICK pairs : pairs = Items(c)
    OBVIOUS
  <2>1. ArePairs(pairs)
    BY <1>1, <1>2, ItemsFit DEF Is
  <2> PICK n \in Nat : n = Len(objects)
    BY <1>1, SequenceParts
  <2> PICK m \in Nat : m = Len(pairs)
    BY <2>1, SequenceParts DEF ArePairs
  <2> DEFINE lists == [i \in DOMAIN pairs |->
                         [kind |-> "list", items |-> <<pairs[i].key, pairs[i].value>>]]
             refs == [i \in DOMAIN pairs |-> [type |-> "list", of |-> n + 1 + i]]
             all == [kind |-> "list", items |-> refs]
             first == Append(objects, all)
  <2>2. /\ objects' = first \o lists /\ result' = [type |-> "list", of |-> n + 1] /\ stack' = stack
    BY <1>2 DEF MakeItems, Answer
  <2>3. DOMAIN objects = 1 .. n /\ DOMAIN pairs = 1 .. m /\ \A i \in 1 .. m : IsPair(pairs[i])
    BY <1>1, <2>1, SequenceParts DEF ArePairs
  <2>4. /\ refs = [i \in 1 .. m |-> refs[i]] /\ \A i \in 1 .. m : refs[i] = [type |-> "list", of |-> n + 1 + i]
        /\ lists = [i \in 1 .. m |-> lists[i]]
        /\ \A i \in 1 .. m : lists[i] = [kind |-> "list", items |-> <<pairs[i].key, pairs[i].value>>]
    BY <2>3
  <2> HIDE DEF refs, lists
  <2>5. IsSequence(refs) /\ DOMAIN refs = 1 .. m /\ IsSequence(lists) /\ Len(lists) = m
    BY <2>4, Made
  <2>6. ObjectFits(all)
    <3>1. AreValues(refs)
      BY <2>4, <2>5, ValuesAreValues DEF AreValues
    <3> QED
      BY <3>1 DEF ObjectFits, Fitting
  <2>7. ASSUME NEW i \in 1 .. m PROVE ObjectFits(lists[i])
    <3> PICK items : items = <<pairs[i].key, pairs[i].value>>
      OBVIOUS
    <3>1. items = [j \in 1 .. 2 |-> items[j]] /\ items[1] = pairs[i].key /\ items[2] = pairs[i].value
      OBVIOUS
    <3>2. IsSequence(items) /\ DOMAIN items = 1 .. 2
      BY <3>1, Made
    <3>3. IsValue(pairs[i].key) /\ IsValue(pairs[i].value)
      BY <2>3 DEF IsPair
    <3>4. AreValues(items)
      BY <3>1, <3>2, <3>3 DEF AreValues
    <3>5. lists[i] = [kind |-> "list", items |-> items]
      BY <2>4
    <3> QED
      BY <3>4, <3>5 DEF ObjectFits, Fitting
  <2> HIDE DEF all
  <2>8. /\ IsSequence(first) /\ Len(first) = n + 1
        /\ \A a \in 1 .. n : first[a] = objects[a]
        /\ first[n + 1] = all
    BY <1>1, Appended
  <2> HIDE DEF first
  <2>9. /\ IsSequence(objects') /\ Len(objects') = n + 1 + m
        /\ \A a \in 1 .. n + 1 + m : objects'[a] = IF a <= n + 1 THEN first[a] ELSE lists[a - (n + 1)]
    <3> PICK both : both = first \o lists
      OBVIOUS
    <3>1. /\ IsSequence(both) /\ Len(both) = Len(first) + Len(lists)
          /\ \A a \in 1 .. Len(first) + Len(lists) :
                both[a] = IF a <= Len(first) THEN first[a] ELSE lists[a - Len(first)]
      BY <2>5, <2>8, Joined
    <3>2. Len(first) = n + 1 /\ Len(lists) = m
      BY <2>5, <2>8
    <3>3. /\ IsSequence(both) /\ Len(both) = n + 1 + m
          /\ \A a \in 1 .. n + 1 + m : both[a] = IF a <= n + 1 THEN first[a] ELSE lists[a - (n + 1)]
      BY <3>1, <3>2
    <3> QED
      BY <2>2, <3>3
  <2>10. DOMAIN objects' = 1 .. n + 1 + m
    BY <2>9, SequenceParts
  <2>11. ASSUME NEW a \in 1 .. n + 1 + m PROVE ObjectFits(objects'[a])
    <3>1. CASE a \in 1 .. n
      <4>1. a <= n + 1
        BY <3>1
      <4> QED
        BY <1>1, <2>3, <2>8, <2>9, <3>1, <4>1
    <3>2. CASE a = n + 1
      BY <2>6, <2>8, <2>9, <3>2
    <3>3. CASE a \notin 1 .. n /\ a # n + 1
      <4>1. ~(a <= n + 1) /\ a - (n + 1) \in 1 .. m
        BY <3>3
      <4>2. objects'[a] = lists[a - (n + 1)]
        BY <2>9, <4>1
      <4> QED
        BY <2>7, <4>1, <4>2
    <3> QED
      BY <3>1, <3>2, <3>3
  <2>12. \A a \in 1 .. n : a \in 1 .. n + 1 + m /\ a <= n + 1
    OBVIOUS
  <2>13. \A a \in DOMAIN objects : a \in DOMAIN objects' /\ objects'[a].kind = objects[a].kind
    BY <2>3, <2>8, <2>9, <2>10, <2>12
  <2>14. \A a \in DOMAIN objects' : ObjectFits(objects'[a])
    BY <2>10, <2>11
  <2>15. Grows
    BY <2>9, <2>13, <2>14 DEF Grows, ObjectsFit, ObjectFits
  <2> QED
    BY <2>2, <2>15, ValuesAreValues DEF Moves, Turns
<1>3. CASE ~Is(c, "map")
  BY <1>3, RejectIsValue, AnswerMoves DEF MakeItems, Unchanged
<1> QED
  BY <1>2, <1>3

(* The methods on a whole container: length, pop, items, keys, values.      *)
LEMMA WholeMoves ==
    ASSUME ContainersInv, Whole
    PROVE  Moves
<1>1. PICK c \in Containers :
          Pop(c) \/ Length(c) \/ MakeItems(c) \/ \E what \in {"key", "value"} : Enumerate(c, what)
  BY DEF Whole
<1>2. ASSUME Length(c) PROVE Moves
  <2>1. Unchanged /\ (Reject \/ result' = Number(Len(Items(c))))
    BY <1>2 DEF Length, Answer
  <2> QED
    BY <2>1, RejectIsValue, ValuesAreValues, AnswerMoves
<1> QED
  BY <1>1, <1>2, PopMoves, MakeItemsMoves, EnumerateMoves

-----------------------------------------------------------------------------
(* Assignments and loops.                                                   *)

(* A new assignment or loop finds a container and a key; a loop has a list, *)
(* a field that is assigned to is one that the struct has.                  *)
LEMMA NewFrameFits ==
    ASSUME NEW c, IsRef(c), NEW k, IsValue(k), NEW op, op \in Arithmetic \cup {""}
    PROVE  /\ FrameFits(Frame("index", c, k, op))
           /\ c.type = "list" => FrameFits(Frame("forin", c, k, op))
           /\ c.type = "struct" /\ IsField(k) => FrameFits(Frame("field", c, k, op))
BY DEF FrameFits, Frame

(* Evaluating the target of an assignment leaves the heap alone.            *)
LEMMA BeginMoves ==
    ASSUME ContainersInv, NEW f, FrameFits(f), Begin(f), UNCHANGED objects, IsValue(result')
    PROVE  Moves
BY NothingGrows DEF ContainersInv, Begin, Moves, Turns

(* Reading a field, and the start of an assignment to one.                  *)
LEMMA FieldsMoves ==
    ASSUME ContainersInv, Fields
    PROVE  Moves
<1> PICK c \in Containers, name \in ToSet(FieldNames) \cup {OtherName}, op \in CompoundOps :
        Field(c, name) \/ BeginFieldAssign(c, name, op)
  BY DEF Fields
<1>1. ObjectsFit /\ IsRef(c)
  BY ContainersAreRefs DEF ContainersInv
<1>2. IsValue(name)
  <2>1. \A i \in DOMAIN FieldNames : FieldNames[i] \in Value
    BY NameAssumption, LenProperties, ElementOfSeq
  <2> QED
    BY <2>1, NameAssumption, ValuesAreValues DEF ToSet
<1>3. ASSUME Field(c, name) PROVE Moves
  <2>1. Unchanged /\ (Reject \/ (HasField(c, name) /\ result' = MapGet(Items(c), name)))
    BY <1>3 DEF Field, Answer
  <2>2. HasField(c, name) => IsValue(MapGet(Items(c), name))
    BY <1>1, ItemsFit, GetIsValue DEF HasField, Is
  <2> QED
    BY <2>1, <2>2, RejectIsValue, AnswerMoves
<1>4. ASSUME BeginFieldAssign(c, name, op) PROVE Moves
  <2>1. CASE HasField(c, name)
    <3>1. Begin(Frame("field", c, name, op)) /\ result' = Null /\ UNCHANGED objects
      BY <1>4, <2>1 DEF BeginFieldAssign, Answer
    <3>2. IsValue(result') /\ op \in Arithmetic \cup {""}
      BY <3>1, ValuesAreValues, CompoundAssumption
    <3>3. c.type = "struct" /\ IsField(name)
      BY <1>1, <2>1, ItemsFit, FieldsAreFound DEF HasField, Is
    <3>4. FrameFits(Frame("field", c, name, op))
      BY <1>1, <1>2, <3>2, <3>3, NewFrameFits
    <3> QED
      BY <3>1, <3>2, <3>4, BeginMoves
  <2>2. CASE ~HasField(c, name)
    BY <1>4, <2>2, RejectIsValue, AnswerMoves DEF BeginFieldAssign, Unchanged
  <2> QED
    BY <2>1, <2>2
<1> QED
  BY <1>3, <1>4

(* What is on top fits.                                                     *)
LEMMA TopFits ==
    ASSUME ContainersInv, stack # <<>>
    PROVE  FrameFits(Top)
<1>1. IsSequence(stack) /\ \A i \in DOMAIN stack : FrameFits(stack[i])
  BY DEF ContainersInv, StackFits
<1>2. Len(stack) \in DOMAIN stack
  BY <1>1, SequenceParts
<1> QED
  BY <1>1, <1>2 DEF Top

(* The assignment to an element: what it stores fits, because the place is  *)
(* looked for after the value is there.                                     *)
LEMMA FinishIndexMoves ==
    ASSUME ContainersInv, NEW v \in Operands, FinishIndexAssign(v)
    PROVE  Moves
<1> PICK o : o = Top.of
  OBVIOUS
<1> PICK k : k = Top.key
  OBVIOUS
<1> PICK op : op = Top.op
  OBVIOUS
<1>1. stack # <<>> /\ stack' = Below /\ result' = Null
  BY DEF FinishIndexAssign
<1>2. ObjectsFit /\ IsRef(o) /\ IsValue(k) /\ op \in Arithmetic \cup {""}
  BY <1>1, TopFits DEF ContainersInv, FrameFits
<1>3. Grows
  <2>1. CASE Assignable(o, k, op)
    <3>1. PICK w \in Stored(op, Lookup(o, k), v) :
              Update(o, IF Is(o, "list") THEN ListSet(Items(o), ToInt(k.of), OrNull(w))
                        ELSE MapSet(Items(o), k, OrNull(w)))
      BY <2>1 DEF FinishIndexAssign
    <3>2. IsValue(OrNull(w))
      BY <1>2, OperandsAreValues, StoredIsValue
    <3>3. CASE Is(o, "list")
      <4>1. ToInt(k.of) \in 0 .. Len(Items(o)) - 1 /\ o.type = "list"
        BY <2>1, <3>3 DEF Assignable, Is
      <4>2. AreValues(ListSet(Items(o), ToInt(k.of), OrNull(w)))
        BY <1>2, <3>2, <4>1, ItemsFit, ListSetFits
      <4>3. Fitting(o.type, ListSet(Items(o), ToInt(k.of), OrNull(w)))
        BY <4>1, <4>2 DEF Fitting
      <4> QED
        BY <1>2, <3>1, <3>3, <4>3, UpdateGrows
    <3>4. CASE ~Is(o, "list")
      <4>1. o.type = "map"
        BY <2>1, <3>4 DEF Assignable, Is
      <4>2. ArePairs(MapSet(Items(o), k, OrNull(w))) /\ AreDistinct(MapSet(Items(o), k, OrNull(w)))
        BY <1>2, <3>2, <4>1, ItemsFit, SetFits
      <4>3. Fitting(o.type, MapSet(Items(o), k, OrNull(w)))
        BY <4>1, <4>2 DEF Fitting
      <4> QED
        BY <1>2, <3>1, <3>4, <4>3, UpdateGrows
    <3> QED
      BY <3>3, <3>4
  <2>2. CASE ~Assignable(o, k, op)
    BY <1>2, <2>2, NothingGrows DEF FinishIndexAssign
  <2> QED
    BY <2>1, <2>2
<1> QED
  BY <1>1, <1>3, ValuesAreValues DEF Moves, Turns

(* The assignment to a field, which the struct still has.                   *)
LEMMA FinishFieldMoves ==
    ASSUME ContainersInv, NEW v \in Returned, FinishFieldAssign(v)
    PROVE  Moves
<1> PICK o : o = Top.of
  OBVIOUS
<1> PICK k : k = Top.key
  OBVIOUS
<1> PICK op : op = Top.op
  OBVIOUS
<1>1. stack # <<>> /\ Top.kind = "field" /\ stack' = Below /\ result' = Null
  BY DEF FinishFieldAssign
<1>2. /\ ObjectsFit /\ IsRef(o) /\ IsValue(k) /\ op \in Arithmetic \cup {""}
      /\ o.type = "struct" /\ IsField(k)
  BY <1>1, TopFits DEF ContainersInv, FrameFits
<1>3. PICK w \in Stored(op, MapGet(Items(o), k), v) : Update(o, MapSet(Items(o), k, OrNull(w)))
  BY DEF FinishFieldAssign
<1>4. IsValue(OrNull(w))
  <2>1. v \in Operands \/ v \in {Null, Bool(TRUE), Bool(FALSE)}
    BY DEF Returned
  <2>2. IsValue(v)
    BY <2>1, OperandsAreValues, ValuesAreValues
  <2> QED
    BY <1>2, <1>3, <2>2, StoredIsValue
<1> PICK pairs : pairs = Items(o)
  OBVIOUS
<1>5. ArePairs(pairs) /\ AreFields(pairs)
  BY <1>2, ItemsFit
<1>6. MapHas(pairs, k)
  BY <1>2, <1>5, FieldsAreFound
<1>7. ArePairs(MapSet(pairs, k, OrNull(w))) /\ AreFields(MapSet(pairs, k, OrNull(w)))
  BY <1>2, <1>4, <1>5, <1>6, SetFits
<1>8. Fitting(o.type, MapSet(pairs, k, OrNull(w)))
  BY <1>2, <1>7 DEF Fitting
<1>9. Grows
  BY <1>2, <1>3, <1>8, UpdateGrows
<1> QED
  BY <1>1, <1>9, ValuesAreValues DEF Moves, Turns

(* Element assignments: their start, their refusal and their end.           *)
LEMMA AssignMoves ==
    ASSUME ContainersInv, Assign
    PROVE  Moves
<1>1. ASSUME NEW c \in Containers, NEW k \in Operands, NEW op \in CompoundOps,
             BeginIndexAssign(c, k, op)
      PROVE  Moves
  <2>1. Begin(Frame("index", c, k, op)) /\ UNCHANGED objects /\ result' = Null
    BY <1>1 DEF BeginIndexAssign, Answer
  <2>2. IsValue(k) /\ IsValue(result') /\ op \in Arithmetic \cup {""}
    BY <2>1, OperandsAreValues, ValuesAreValues, CompoundAssumption
  <2>3. FrameFits(Frame("index", c, k, op))
    BY <2>2, ContainersAreRefs, NewFrameFits DEF ContainersInv
  <2> QED
    BY <2>1, <2>2, <2>3, BeginMoves
<1> QED
  BY <1>1, FinishIndexMoves, FinishFieldMoves DEF Assign

(* The next round of a loop reads inside of the list, because it looks at   *)
(* the length again.                                                        *)
LEMMA NextRoundMoves ==
    ASSUME ContainersInv, NextRound
    PROVE  Moves
<1> PICK t : t = Top
  OBVIOUS
<1>1. /\ stack # <<>> /\ t.kind = "forin" /\ UNCHANGED objects
      /\ t.next < Len(Items(t.of))
      /\ result' = At(Items(t.of), t.next + 1)
      /\ stack' = [stack EXCEPT ![Len(stack)].next = @ + 1]
  BY DEF NextRound, InLoop, Answer
<1>2. FrameFits(t) /\ ObjectsFit
  BY <1>1, TopFits DEF ContainersInv
<1>3. IsRef(t.of) /\ t.next \in Nat /\ t.of.type = "list"
  BY <1>1, <1>2 DEF FrameFits
<1> PICK items : items = Items(t.of)
  OBVIOUS
<1>4. AreValues(items)
  BY <1>2, <1>3, ItemsFit
<1>5. DOMAIN items = 1 .. Len(items) /\ Len(items) \in Nat /\ \A i \in DOMAIN items : IsValue(items[i])
  BY <1>4, SequenceParts DEF AreValues
<1>6. t.next + 1 \in DOMAIN items
  BY <1>1, <1>3, <1>5
<1>7. IsValue(result')
  BY <1>1, <1>5, <1>6 DEF At
<1> PICK f : f = [t EXCEPT !.next = t.next + 1]
  OBVIOUS
<1>8. FrameFits(f)
  <2>1. t = [kind |-> t.kind, of |-> t.of, key |-> t.key, op |-> t.op, next |-> t.next]
    BY <1>2 DEF FrameFits
  <2>2. f = [kind |-> t.kind, of |-> t.of, key |-> t.key, op |-> t.op, next |-> t.next + 1]
    BY <2>1
  <2>3. t.next + 1 \in Nat
    BY <1>3
  <2> QED
    BY <1>2, <2>2, <2>3 DEF FrameFits
<1>9. stack' = [stack EXCEPT ![Len(stack)] = f]
  <2>1. Len(stack) \in DOMAIN stack
    BY <1>1, SequenceParts DEF ContainersInv, StackFits
  <2>2. t = stack[Len(stack)]
    BY DEF Top
  <2> QED
    BY <1>1, <2>1, <2>2
<1> QED
  BY <1>1, <1>2, <1>7, <1>8, <1>9, NothingGrows DEF Moves, Turns

(* A for-in loop starts, takes its next element or ends.                    *)
LEMMA LoopMoves ==
    ASSUME ContainersInv, Loop
    PROVE  Moves
<1>1. ASSUME NEW l \in Containers, BeginForIn(l) PROVE Moves
  <2>1. CASE Is(l, "list")
    <3>1. Begin(Frame("forin", l, Null, "")) /\ UNCHANGED objects /\ result' = result
      BY <1>1, <2>1 DEF BeginForIn
    <3>2. IsValue(Null) /\ IsValue(result') /\ "" \in Arithmetic \cup {""}
      BY <3>1, ValuesAreValues DEF ContainersInv
    <3>3. FrameFits(Frame("forin", l, Null, ""))
      BY <2>1, <3>2, ContainersAreRefs, NewFrameFits DEF ContainersInv, Is
    <3> QED
      BY <3>1, <3>2, <3>3, BeginMoves
  <2>2. CASE ~Is(l, "list")
    BY <1>1, <2>2, RejectIsValue, AnswerMoves DEF BeginForIn, Unchanged
  <2> QED
    BY <2>1, <2>2
<1>2. ASSUME LeaveLoop PROVE Moves
  BY <1>2, NothingGrows DEF LeaveLoop, InLoop, ContainersInv, Moves, Turns
<1> QED
  BY <1>1, <1>2, NextRoundMoves DEF Loop

(* An error drops the assignments and loops under way.                      *)
LEMMA UnwindMoves ==
    ASSUME ContainersInv, Unwind
    PROVE  Moves
BY NothingGrows DEF Unwind, ContainersInv, Moves, Turns

-----------------------------------------------------------------------------
(* Powers of two.                                                           *)

(* The first n + 1 powers.                                                  *)
Doubles(n, g) == g = [k \in 0 .. n |-> IF k = 0 THEN 1 ELSE 2 * g[k - 1]]

(* There are as many as one likes.                                          *)
LEMMA DoublesExist ==
    ASSUME NEW n \in Nat
    PROVE  \E g : Doubles(n, g)
<1> DEFINE Bad == {m \in Nat : ~\E g : Doubles(m, g)}
<1>1. SUFFICES ASSUME Bad # {} PROVE FALSE
  OBVIOUS
<1>2. PICK m \in Bad : \A k \in Bad : m <= k
  <2>1. Bad \subseteq Nat
    OBVIOUS
  <2> HIDE DEF Bad
  <2> QED
    BY <1>1, <2>1, LeastPlace
<1>3. m # 0
  <2>1. Doubles(0, [k \in 0 .. 0 |-> 1])
    BY DEF Doubles
  <2> QED
    BY <2>1
<1>4. m \in Nat /\ m - 1 \in Nat /\ m - 1 \notin Bad
  BY <1>2, <1>3
<1>5. PICK g : Doubles(m - 1, g)
  BY <1>4
<1> DEFINE h == [k \in 0 .. m |-> IF k = 0 THEN 1 ELSE 2 * g[k - 1]]
<1>6. \A k \in 0 .. m - 1 : h[k] = g[k]
  BY <1>4, <1>5 DEF Doubles
<1>7. \A k \in 0 .. m : h[k] = IF k = 0 THEN 1 ELSE 2 * h[k - 1]
  <2>1. ASSUME NEW k \in 0 .. m, k # 0 PROVE h[k] = 2 * h[k - 1]
    <3>1. k - 1 \in 0 .. m - 1
      BY <1>4, <2>1
    <3> QED
      BY <1>6, <2>1, <3>1
  <2> QED
    BY <1>4, <2>1
<1>8. h = [k \in 0 .. m |-> h[k]]
  OBVIOUS
<1>9. Doubles(m, h)
  <2> HIDE DEF h
  <2> QED
    BY <1>7, <1>8 DEF Doubles
<1> QED
  BY <1>2, <1>9

(* Power is what its definition says.                                       *)
LEMMA PowerDoubles ==
    /\ LongBits \in Nat /\ DOMAIN Power = 0 .. 2 * LongBits
    /\ Power[0] = 1
    /\ \A k \in 1 .. 2 * LongBits : Power[k] = 2 * Power[k - 1]
<1>1. LongBits \in Nat /\ 2 * LongBits \in Nat
  BY WidthAssumption
<1> DEFINE P == CHOOSE g : Doubles(2 * LongBits, g)
<1>2. Doubles(2 * LongBits, P)
  <2> HIDE DEF P
  <2>1. \E g : Doubles(2 * LongBits, g)
    BY <1>1, DoublesExist
  <2> QED
    BY <2>1 DEF P
<1>3. Power = P
  BY DEF Power, Doubles
<1> HIDE DEF P
<1> QED
  BY <1>1, <1>2, <1>3 DEF Doubles

(* The powers are positive, and grow.                                       *)
LEMMA PowersGrow ==
    /\ \A k \in 0 .. 2 * LongBits : Power[k] \in Nat \ {0}
    /\ \A j, k \in 0 .. 2 * LongBits : j < k => 2 * Power[j] <= Power[k]
<1>1. LongBits \in Nat
  BY WidthAssumption
<1>2. \A k \in 0 .. 2 * LongBits : Power[k] \in Nat \ {0}
  <2> DEFINE Bad == {k \in 0 .. 2 * LongBits : Power[k] \notin Nat \ {0}}
  <2>1. SUFFICES ASSUME Bad # {} PROVE FALSE
    OBVIOUS
  <2>2. PICK m \in Bad : \A k \in Bad : m <= k
    <3>1. Bad \subseteq Nat
      OBVIOUS
    <3> HIDE DEF Bad
    <3> QED
      BY <2>1, <3>1, LeastPlace
  <2>3. CASE m = 0
    BY <2>2, <2>3, PowerDoubles
  <2>4. CASE m # 0
    <3>1. m - 1 \in 0 .. 2 * LongBits /\ m - 1 \notin Bad
      BY <1>1, <2>2, <2>4
    <3>2. Power[m - 1] \in Nat \ {0} /\ Power[m] = 2 * Power[m - 1]
      BY <1>1, <2>4, <3>1, PowerDoubles
    <3> QED
      BY <2>2, <3>2
  <2> QED
    BY <2>3, <2>4
<1>3. ASSUME NEW j \in 0 .. 2 * LongBits
      PROVE  \A k \in 0 .. 2 * LongBits : j < k => 2 * Power[j] <= Power[k]
  <2> DEFINE Bad == {k \in 0 .. 2 * LongBits : j < k /\ ~(2 * Power[j] <= Power[k])}
  <2>1. SUFFICES ASSUME Bad # {} PROVE FALSE
    OBVIOUS
  <2>2. PICK m \in Bad : \A k \in Bad : m <= k
    <3>1. Bad \subseteq Nat
      OBVIOUS
    <3> HIDE DEF Bad
    <3> QED
      BY <2>1, <3>1, LeastPlace
  <2>3. m - 1 \in 0 .. 2 * LongBits /\ m - 1 \notin Bad /\ m \in 1 .. 2 * LongBits
    BY <1>1, <2>2
  <2>4. Power[m] = 2 * Power[m - 1]
    BY <2>3, PowerDoubles
  <2>5. Power[m] \in Nat /\ Power[m - 1] \in Nat /\ Power[j] \in Nat
    BY <1>2, <2>3
  <2>6. CASE m - 1 = j
    BY <2>2, <2>4, <2>5, <2>6
  <2>7. CASE m - 1 # j
    <3>1. j < m - 1
      BY <1>1, <2>2, <2>7
    <3>2. 2 * Power[j] <= Power[m - 1]
      BY <2>3, <3>1
    <3> QED
      BY <2>2, <2>4, <2>5, <3>2
  <2> QED
    BY <2>6, <2>7
<1> QED
  BY <1>2, <1>3

(* What the powers of the widths are, and that a double holds all ints of   *)
(* fewer bits: "int" is a long of 64 bits, and a mantissa has 53.           *)
LEMMA Widths ==
    /\ Power[MantissaBits] \in Nat /\ Power[MantissaBits] >= 2 /\ Power[MantissaBits] % 2 = 0
    /\ Power[LongBits - 1] \in Nat /\ 2 * Power[MantissaBits] <= Power[LongBits - 1]
    /\ NaN = 2 * Power[LongBits - 1]
<1> DEFINE m == MantissaBits  l == LongBits
<1>1. m \in 1 .. 2 * l /\ l - 1 \in 0 .. 2 * l /\ l \in 1 .. 2 * l /\ m < l - 1 /\ m - 1 \in 0 .. 2 * l /\ l \in 0 .. 2 * l /\ m \in 0 .. 2 * l
  BY WidthAssumption
<1>2. Power[m] = 2 * Power[m - 1] /\ Power[l] = 2 * Power[l - 1]
  BY <1>1, PowerDoubles
<1>3. Power[m] \in Nat /\ Power[m - 1] \in Nat \ {0} /\ Power[l - 1] \in Nat
  BY <1>1, PowersGrow
<1>4. 2 * Power[m] <= Power[l - 1]
  BY <1>1, PowersGrow
<1> QED
  BY <1>2, <1>3, <1>4 DEF NaN

-----------------------------------------------------------------------------
(* Rounding.                                                                *)

(* A product is at most as large as one of larger factors.                  *)
LEMMA Larger ==
    ASSUME NEW a \in Nat, NEW b \in Nat, NEW c \in Nat, a <= b
    PROVE  a * c <= b * c /\ c * a <= c * b /\ a * c \in Nat /\ b * c \in Nat
OBVIOUS

(* Products of naturals, with their signs.                                  *)
LEMMA Signs ==
    ASSUME NEW q \in Nat, NEW y \in Nat
    PROVE  /\ q * y \in Nat /\ (-q) * y = -(q * y) /\ (-y) * q = -(q * y)
           /\ y * (-q) = -(q * y) /\ (-y) * (-q) = q * y /\ y * q = q * y
<1>1. q * y \in Nat
  OBVIOUS
<1>2. (-q) * y = -(q * y)
  OBVIOUS
<1>3. (-y) * q = -(q * y)
  OBVIOUS
<1>4. y * (-q) = -(q * y)
  OBVIOUS
<1>5. (-y) * (-q) = q * y
  OBVIOUS
<1>6. y * q = q * y
  OBVIOUS
<1> QED
  BY <1>1, <1>2, <1>3, <1>4, <1>5, <1>6

(* A multiple leaves no rest.                                               *)
LEMMA Multiples ==
    ASSUME NEW q \in Int, NEW y \in Nat, y > 0
    PROVE  (q * y) % y = 0
OBVIOUS

(* Division with rest.                                                      *)
LEMMA Rest ==
    ASSUME NEW a \in Nat, NEW s \in Nat \ {0}
    PROVE  /\ a \div s \in Nat /\ a % s \in 0 .. s - 1
           /\ a = (a \div s) * s + (a % s)
           /\ a < (a \div s + 1) * s
<1>1. a \div s \in Nat /\ a % s \in 0 .. s - 1
  OBVIOUS
<1>2. a = (a \div s) * s + (a % s)
  OBVIOUS
<1> PICK q \in Nat : q = a \div s
  BY <1>1
<1>3. (q + 1) * s = q * s + s /\ q * s \in Nat
  OBVIOUS
<1> QED
  BY <1>1, <1>2, <1>3

(* What Spacing is to find.                                                 *)
IsSpacing(a, s) ==
    /\ s \in {Power[k] : k \in DOMAIN Power}
    /\ a <= s * Power[MantissaBits]
    /\ s = 1 \/ a > (s \div 2) * Power[MantissaBits]

(* A spacing is 1 or even.                                                  *)
LEMMA Spacings ==
    ASSUME NEW s \in {Power[k] : k \in DOMAIN Power}
    PROVE  s \in Nat \ {0} /\ (s # 1 => s \div 2 \in Nat \ {0} /\ s = 2 * (s \div 2))
<1> PICK k \in 0 .. 2 * LongBits : s = Power[k]
  BY PowerDoubles
<1>1. CASE k = 0
  BY <1>1, PowerDoubles
<1>2. CASE k # 0
  <2>1. k \in 1 .. 2 * LongBits /\ k - 1 \in 0 .. 2 * LongBits
    BY <1>2, PowerDoubles
  <2>2. s = 2 * Power[k - 1] /\ Power[k - 1] \in Nat \ {0}
    BY <2>1, PowerDoubles, PowersGrow
  <2>3. \A p \in Nat \ {0} : (2 * p) \div 2 = p
    OBVIOUS
  <2> QED
    BY <2>2, <2>3
<1> QED
  BY <1>1, <1>2

(* A spacing that is larger is at least twice as large.                     *)
LEMMA SpacingsDouble ==
    ASSUME NEW s \in {Power[k] : k \in DOMAIN Power}, NEW t \in {Power[k] : k \in DOMAIN Power}, s < t
    PROVE  2 * s <= t
<1> PICK j \in 0 .. 2 * LongBits, k \in 0 .. 2 * LongBits : s = Power[j] /\ t = Power[k]
  BY PowerDoubles
<1>1. s \in Nat \ {0} /\ t \in Nat \ {0}
  BY PowersGrow
<1>2. ~(k < j)
  <2>1. SUFFICES ASSUME k < j PROVE FALSE
    OBVIOUS
  <2>2. 2 * t <= s
    BY <2>1, PowersGrow
  <2> QED
    BY <1>1, <2>2
<1>3. j # k
  BY <1>1
<1> QED
  BY <1>2, <1>3, PowersGrow, PowerDoubles

(* The spacing of an int is found.                                          *)
LEMMA SpacingIsFound ==
    ASSUME NEW n \in Int, Abs(n) <= Power[LongBits - 1]
    PROVE  IsSpacing(Abs(n), Spacing(n))
<1> DEFINE T == Power[MantissaBits]
<1> PICK a \in Nat : a = Abs(n)
  BY DEF Abs
<1>1. T \in Nat /\ T >= 2 /\ LongBits - 1 \in 0 .. 2 * LongBits
  BY Widths, WidthAssumption
<1> HIDE DEF T
<1> DEFINE Enough == {k \in 0 .. 2 * LongBits : a <= Power[k] * T}
<1>2. LongBits - 1 \in Enough
  <2> PICK p \in Nat : p = Power[LongBits - 1]
    BY Widths
  <2>1. p <= p * T
    BY <1>1
  <2> QED
    BY <1>1, <2>1
<1>3. PICK k \in Enough : \A j \in Enough : k <= j
  <2>1. Enough \subseteq Nat
    OBVIOUS
  <2> HIDE DEF Enough
  <2> QED
    BY <1>2, <2>1, LeastPlace
<1>4. IsSpacing(a, Power[k])
  <2>1. CASE k = 0
    BY <1>3, <2>1, PowerDoubles DEF IsSpacing, T
  <2>2. CASE k # 0
    <3>1. k \in 1 .. 2 * LongBits /\ k - 1 \in 0 .. 2 * LongBits /\ k - 1 \notin Enough
      BY <1>3, <2>2, PowerDoubles
    <3>2. Power[k] = 2 * Power[k - 1] /\ Power[k - 1] \in Nat
      BY <3>1, PowerDoubles, PowersGrow
    <3>3. Power[k] \div 2 = Power[k - 1]
      BY <3>2
    <3>4. a > Power[k - 1] * T
      BY <1>1, <3>1, <3>2
    <3> QED
      BY <1>3, <3>3, <3>4, PowerDoubles DEF IsSpacing, T
  <2> QED
    BY <2>1, <2>2
<1>5. Power[k] \in {Power[j] : j \in DOMAIN Power}
  BY <1>4 DEF IsSpacing
<1> QED
  BY <1>4, <1>5 DEF Spacing, IsSpacing

(* A magnitude, rounded to a multiple of s.                                 *)
Rounded(a, s) ==
    LET below == a \div s
        rest == 2 * (a % s)
    IN  (IF rest > s \/ (rest = s /\ below % 2 = 1) THEN below + 1 ELSE below) * s

(* A multiple next to it, and it itself if s is 1.                          *)
LEMMA RoundedIsNear ==
    ASSUME NEW a \in Nat, NEW s \in Nat \ {0}
    PROVE  /\ Rounded(a, s) \in {(a \div s) * s, (a \div s + 1) * s}
           /\ a % s = 0 => Rounded(a, s) = (a \div s) * s
           /\ Rounded(a, s) \in Nat
           /\ s = 1 => Rounded(a, s) = a
<1>1. a \div s \in Nat /\ a % s \in 0 .. s - 1 /\ a = (a \div s) * s + (a % s)
  BY Rest
<1>2. Rounded(a, s) \in {(a \div s) * s, (a \div s + 1) * s}
  BY DEF Rounded
<1>3. a % s = 0 => Rounded(a, s) = (a \div s) * s
  BY <1>1 DEF Rounded
<1>4. (a \div s) * s \in Nat /\ (a \div s + 1) * s \in Nat
  BY <1>1
<1>5. s = 1 => a % s = 0
  BY <1>1
<1> QED
  BY <1>1, <1>2, <1>3, <1>4, <1>5

(* Rounding to one spacing keeps the order.                                 *)
LEMMA RoundedIsMonotonic ==
    ASSUME NEW a \in Nat, NEW b \in Nat, a <= b, NEW s \in Nat \ {0}
    PROVE  Rounded(a, s) <= Rounded(b, s)
<1> PICK p \in Nat, q \in Nat : p = a \div s /\ q = b \div s
  BY Rest
<1> PICK x \in 0 .. s - 1, y \in 0 .. s - 1 : x = a % s /\ y = b % s
  BY Rest
<1>1. a = p * s + x /\ b = q * s + y /\ a < (p + 1) * s /\ b < (q + 1) * s
  BY Rest
<1> DEFINE u == IF 2 * x > s \/ (2 * x = s /\ p % 2 = 1) THEN p + 1 ELSE p
           v == IF 2 * y > s \/ (2 * y = s /\ q % 2 = 1) THEN q + 1 ELSE q
<1>2. Rounded(a, s) = u * s /\ Rounded(b, s) = v * s
  BY DEF Rounded
<1>3. p <= q
  <2>1. SUFFICES ASSUME q + 1 <= p PROVE FALSE
    OBVIOUS
  <2>2. (q + 1) * s <= p * s
    BY <2>1, Larger
  <2> QED
    BY <1>1, <2>2
<1>4. p = q => x <= y
  BY <1>1
<1>5. u <= v /\ u \in Nat /\ v \in Nat
  BY <1>3, <1>4
<1> QED
  BY <1>2, <1>5, Larger

(* So does rounding with the spacings that two magnitudes have.             *)
LEMMA RoundingIsMonotonic ==
    ASSUME NEW a \in Nat, NEW b \in Nat, a <= b,
           NEW s, IsSpacing(a, s), NEW t, IsSpacing(b, t)
    PROVE  Rounded(a, s) <= Rounded(b, t)
<1> PICK T \in Nat : T = Power[MantissaBits] /\ T >= 2 /\ T % 2 = 0
  BY Widths
<1> PICK m \in Nat : T = 2 * m
  BY Widths
<1>1. s \in Nat \ {0} /\ t \in Nat \ {0}
  BY Spacings DEF IsSpacing
<1>2. a <= s * T /\ (t # 1 => t \div 2 \in Nat /\ t = 2 * (t \div 2) /\ b > (t \div 2) * T)
  BY Spacings DEF IsSpacing
<1>3. s < t => 2 * s <= t
  BY SpacingsDouble DEF IsSpacing
<1>4. t < s => 2 * t <= s
  BY SpacingsDouble DEF IsSpacing
<1>5. CASE s = t
  BY <1>1, <1>5, RoundedIsMonotonic
<1>6. ~(t < s)
  <2>1. SUFFICES ASSUME t < s PROVE FALSE
    OBVIOUS
  <2> PICK h \in Nat : s = 2 * h /\ a > h * T
    BY <1>1, <2>1, Spacings DEF IsSpacing
  <2>2. t <= h
    BY <1>1, <1>4, <2>1
  <2>3. t * T <= h * T
    BY <1>1, <2>2, Larger
  <2>4. b <= t * T
    BY DEF IsSpacing
  <2> QED
    BY <1>1, <2>3, <2>4
<1>7. CASE s < t
  <2> PICK h \in Nat : t = 2 * h /\ b > h * T
    BY <1>1, <1>2, <1>7
  <2>1. s <= h
    BY <1>1, <1>3, <1>7
  <2>2. s * T <= h * T
    BY <1>1, <2>1, Larger
  <2>3. Rounded(a, s) <= s * T
    <3> PICK p \in Nat : p = a \div s
      BY <1>1, Rest
    <3>1. a = p * s + (a % s) /\ a % s \in 0 .. s - 1
      BY <1>1, Rest
    <3>2. p <= T
      <4>1. SUFFICES ASSUME T + 1 <= p PROVE FALSE
        OBVIOUS
      <4>2. (T + 1) * s <= p * s /\ (T + 1) * s = s * T + s
        BY <1>1, <4>1, Larger
      <4> QED
        BY <1>1, <1>2, <3>1, <4>2
    <3>3. CASE p = T
      <4>1. a % s = 0
        BY <1>1, <1>2, <3>1, <3>3
      <4>2. Rounded(a, s) = p * s
        BY <1>1, <4>1, RoundedIsNear
      <4> QED
        BY <1>1, <3>3, <4>2
    <3>4. CASE p < T
      <4>1. p * s <= T * s /\ (p + 1) * s <= T * s
        BY <1>1, <3>4, Larger
      <4>2. Rounded(a, s) \in {p * s, (p + 1) * s}
        BY <1>1, RoundedIsNear
      <4>3. s * T = T * s
        BY <1>1
      <4> QED
        BY <4>1, <4>2, <4>3
    <3> QED
      BY <3>2, <3>3, <3>4
  <2>4. Rounded(b, t) >= m * t
    <3> PICK q \in Nat : q = b \div t
      BY <1>1, Rest
    <3>1. m * t = h * T
      OBVIOUS
    <3>2. m <= q
      <4>1. SUFFICES ASSUME q + 1 <= m PROVE FALSE
        OBVIOUS
      <4>2. (q + 1) * t <= m * t
        BY <1>1, <4>1, Larger
      <4>3. b < (q + 1) * t
        BY <1>1, Rest
      <4> QED
        BY <1>1, <3>1, <4>2, <4>3
    <3>3. m * t <= q * t /\ m * t <= (q + 1) * t
      BY <1>1, <3>2, Larger
    <3> QED
      BY <1>1, <3>3, RoundedIsNear
  <2>5. m * t = h * T
    OBVIOUS
  <2>6. Rounded(a, s) \in Nat /\ Rounded(b, t) \in Nat /\ s * T \in Nat /\ h * T \in Nat /\ m * t \in Nat
    BY <1>1, RoundedIsNear
  <2> QED
    BY <2>2, <2>3, <2>4, <2>5, <2>6
<1> QED
  BY <1>1, <1>5, <1>6, <1>7

-----------------------------------------------------------------------------
(* Conversion to double.                                                    *)

(* ToDouble rounds the magnitude and keeps the sign.                        *)
LEMMA ToDoubleRounds ==
    ASSUME NEW n \in Int
    PROVE  ToDouble(n) = IF n < 0 THEN -(Rounded(Abs(n), Spacing(n))) ELSE Rounded(Abs(n), Spacing(n))
BY DEF ToDouble, Rounded

(* What a mantissa can hold is exact.                                       *)
LEMMA SmallIsExact ==
    ASSUME NEW n \in Exact
    PROVE  n \in Int /\ ToDouble(n) = n
<1> PICK a \in Nat : a = Abs(n) /\ n \in Int
  BY Widths DEF Abs, Exact
<1>1. a <= Power[MantissaBits] /\ a <= Power[LongBits - 1]
  BY Widths DEF Abs, Exact
<1>2. IsSpacing(a, Spacing(n))
  BY <1>1, SpacingIsFound
<1> PICK s \in Nat \ {0} : s = Spacing(n)
  BY <1>2, Spacings DEF IsSpacing
<1>3. s = 1
  <2>1. SUFFICES ASSUME s # 1 PROVE FALSE
    OBVIOUS
  <2> PICK h \in Nat \ {0} : h = s \div 2
    BY <1>2, <2>1, Spacings DEF IsSpacing
  <2>2. a > h * Power[MantissaBits]
    BY <1>2, <2>1 DEF IsSpacing
  <2>3. Power[MantissaBits] <= h * Power[MantissaBits]
    BY Widths, Larger
  <2> QED
    BY <1>1, <2>2, <2>3, Widths
<1>4. Rounded(a, s) = a
  BY <1>3, RoundedIsNear
<1> QED
  BY <1>4, ToDoubleRounds DEF Abs

(* An int keeps its place among the others, and is not taken for NaN.       *)
LEMMA ToDoubleIsMonotonic ==
    ASSUME NEW a \in Ints, NEW b \in Ints, a <= b
    PROVE  ToDouble(a) \in Int /\ ToDouble(b) \in Int /\ ToDouble(a) <= ToDouble(b)
<1>1. a \in Int /\ b \in Int /\ Abs(a) \in Nat /\ Abs(b) \in Nat
  BY Widths DEF Ints, MinLong, MaxLong, Abs
<1>2. Abs(a) <= Power[LongBits - 1] /\ Abs(b) <= Power[LongBits - 1]
  BY Widths DEF Ints, MinLong, MaxLong, Abs
<1> PICK x \in Nat, y \in Nat : x = Abs(a) /\ y = Abs(b)
  BY <1>1
<1>3. IsSpacing(x, Spacing(a)) /\ IsSpacing(y, Spacing(b))
  BY <1>1, <1>2, SpacingIsFound
<1> PICK s \in Nat \ {0}, t \in Nat \ {0} : s = Spacing(a) /\ t = Spacing(b)
  BY <1>3, Spacings DEF IsSpacing
<1>4. Rounded(x, s) \in Nat /\ Rounded(y, t) \in Nat
  BY RoundedIsNear
<1>5. /\ ToDouble(a) = IF a < 0 THEN -(Rounded(x, s)) ELSE Rounded(x, s)
      /\ ToDouble(b) = IF b < 0 THEN -(Rounded(y, t)) ELSE Rounded(y, t)
  BY <1>1, ToDoubleRounds
<1>6. CASE a < 0 /\ b < 0
  <2>1. y <= x
    BY <1>1, <1>6 DEF Abs
  <2>2. Rounded(y, t) <= Rounded(x, s)
    BY <1>3, <2>1, RoundingIsMonotonic
  <2> QED
    BY <1>4, <1>5, <1>6, <2>2
<1>7. CASE a >= 0 /\ b >= 0
  <2>1. x <= y
    BY <1>1, <1>7 DEF Abs
  <2>2. Rounded(x, s) <= Rounded(y, t)
    BY <1>3, <2>1, RoundingIsMonotonic
  <2> QED
    BY <1>1, <1>4, <1>5, <1>7, <2>2
<1>8. CASE a < 0 /\ b >= 0
  BY <1>1, <1>4, <1>5, <1>8
<1> QED
  BY <1>1, <1>6, <1>7, <1>8


(* None is taken for NaN, and none but zero for zero.                       *)
LEMMA IntsAreDoubles ==
    ASSUME NEW n \in Ints
    PROVE  /\ n \in Int /\ ToDouble(n) \in Int /\ ToDouble(n) # NaN
           /\ ToDouble(n) = 0 <=> n = 0
<1> PICK p \in Nat : p = Power[LongBits - 1] /\ p >= 4
  BY Widths
<1>1. n \in Int /\ -p <= n /\ n < p /\ NaN = 2 * p
  BY Widths DEF Ints, MinLong, MaxLong
<1>2. {-1, 0, 1} \subseteq Exact /\ {-1, 0, 1} \subseteq Ints
  BY Widths DEF Exact, Ints, MinLong, MaxLong
<1>3. ToDouble(-1) = -1 /\ ToDouble(0) = 0 /\ ToDouble(1) = 1
  BY <1>2, SmallIsExact
<1>4. ToDouble(n) \in Int
  BY ToDoubleIsMonotonic, <1>1
<1>5. ToDouble(n) = 0 <=> n = 0
  <2>1. CASE n < 0
    <3>1. n <= -1
      BY <1>1, <2>1
    <3>2. ToDouble(n) <= ToDouble(-1)
      BY <1>2, <3>1, ToDoubleIsMonotonic
    <3> QED
      BY <1>3, <1>4, <2>1, <3>2
  <2>2. CASE n > 0
    <3>1. 1 <= n
      BY <1>1, <2>2
    <3>2. ToDouble(1) <= ToDouble(n)
      BY <1>2, <3>1, ToDoubleIsMonotonic
    <3> QED
      BY <1>1, <1>3, <1>4, <2>2, <3>2
  <2> QED
    BY <1>1, <1>3, <2>1, <2>2
<1>6. ToDouble(n) < 2 * p
  <2>1. CASE n < 0
    <3>1. n <= -1
      BY <1>1, <2>1
    <3>2. ToDouble(n) <= ToDouble(-1)
      BY <1>2, <3>1, ToDoubleIsMonotonic
    <3> QED
      BY <1>3, <1>4, <3>2
  <2>2. CASE n >= 0
    <3>1. Abs(n) = n /\ n \in Nat /\ n <= Power[LongBits - 1]
      BY <1>1, <2>2 DEF Abs
    <3>2. IsSpacing(n, Spacing(n))
      BY <1>1, <3>1, SpacingIsFound
    <3> PICK s \in Nat \ {0} : s = Spacing(n)
      BY <3>2, Spacings DEF IsSpacing
    <3>3. ToDouble(n) = Rounded(n, s)
      BY <1>1, <2>2, <3>1, ToDoubleRounds
    <3>4. CASE s = 1
      BY <1>1, <3>1, <3>3, <3>4, RoundedIsNear
    <3>5. CASE s # 1
      <4> PICK h \in Nat \ {0}, T \in Nat : s = 2 * h /\ h = s \div 2 /\ T = Power[MantissaBits] /\ T >= 2
        BY <3>2, <3>5, Spacings, Widths DEF IsSpacing
      <4>1. h * T < n
        BY <3>2, <3>5 DEF IsSpacing
      <4>2. h * 2 <= h * T
        BY Larger
      <4> PICK q \in Nat : q = n \div s
        BY <3>1, Rest
      <4>3. n = q * s + (n % s) /\ n % s \in 0 .. s - 1
        BY <3>1, Rest
      <4>4. q * s <= n /\ (q + 1) * s <= n + s
        BY <3>1, <4>3
      <4>5. Rounded(n, s) <= n + s
        <5>1. Rounded(n, s) \in {q * s, (q + 1) * s}
          BY <3>1, RoundedIsNear
        <5> QED
          BY <3>1, <4>4, <5>1
      <4> QED
        BY <1>1, <3>1, <3>3, <4>1, <4>2, <4>5, <1>4
    <3> QED
      BY <3>4, <3>5
  <2> QED
    BY <1>1, <2>1, <2>2
<1> QED
  BY <1>1, <1>4, <1>5, <1>6

-----------------------------------------------------------------------------
(* The rules.                                                               *)

(* Division of C rounds to zero, so that the remainder has the sign of the  *)
(* dividend.                                                                *)
LEMMA RemainderIsRight ==
    ASSUME NEW a \in Int, NEW b \in Int \ {0}
    PROVE  LET m == a - b * Quotient(a, b)
           IN  /\ m \in Int /\ Abs(m) < Abs(b)
               /\ (a - m) % Abs(b) = 0
               /\ m * a >= 0
<1> PICK x \in Nat, y \in Nat \ {0} : x = Abs(a) /\ y = Abs(b)
  BY DEF Abs
<1> PICK q \in Nat : q = x \div y
  BY Rest
<1> PICK r \in 0 .. y - 1 : r = x % y
  BY Rest
<1>1. x = q * y + r
  BY Rest
<1>2. Quotient(a, b) = IF (a < 0) = (b < 0) THEN q ELSE -q
  BY DEF Quotient
<1>3. b = (IF b < 0 THEN -y ELSE y) /\ a = (IF a < 0 THEN -x ELSE x)
  BY DEF Abs
<1>n. PICK n \in Nat : n = q * y
  BY Signs
<1>4. b * Quotient(a, b) = IF a < 0 THEN -n ELSE n
  <2>1. (-q) * y = -n /\ (-y) * q = -n /\ y * (-q) = -n /\ (-y) * (-q) = n /\ y * q = n
    BY <1>n, Signs
  <2> QED
    BY <1>2, <1>3, <2>1
<1> PICK p \in Int : p = IF a < 0 THEN -n ELSE n
  OBVIOUS
<1> DEFINE m == a - p
<1>5. m = IF a < 0 THEN -r ELSE r
  <2>1. x = n + r
    BY <1>1, <1>n
  <2> QED
    BY <1>3, <1>4, <2>1
<1>6. a - m = n \/ a - m = -n
  <2>1. x = n + r
    BY <1>1, <1>n
  <2> QED
    BY <1>3, <1>5, <2>1
<1>7. n % y = 0 /\ (-n) % y = 0
  <2>1. n % y = 0
    BY <1>n, Multiples
  <2>2. (-n) = (-q) * y
    BY <1>n, Signs
  <2>3. (-q) \in Int
    OBVIOUS
  <2> QED
    BY <2>1, <2>2, <2>3, Multiples
<1>8. m * a >= 0
  <2>1. r * x \in Nat /\ (-r) * (-x) = r * x
    BY Signs
  <2> QED
    BY <1>3, <1>5, <2>1
<1>9. m \in Int /\ Abs(m) < y
  BY <1>5 DEF Abs
<1> QED
  BY <1>4, <1>6, <1>7, <1>8, <1>9

(* Of two ints, an operator but + and division takes what a double makes of *)
(* them.                                                                    *)
LEMMA OperandsAreDoubles ==
    ASSUME NEW a \in Ints, NEW b \in Ints
    PROVE  DoublesIn(Number(a)) \X DoublesIn(Number(b)) = {<<ToDouble(a), ToDouble(b)>>}
BY DEF DoublesIn, Number

(* Operators of numbers go to Calculate.                                    *)
LEMMA NumbersAreCalculated ==
    ASSUME NEW op \in Ordering \cup Arithmetic, NEW u, NEW v,
           u.type \in {"int", "float"}, v.type \in {"int", "float"}
    PROVE  Apply(op, u, v) = Calculate(op, u, v)
<1>1. op \notin {"&&", "||", "==", "!="}
  BY DEF Ordering, Arithmetic
<1>2. "float" \in {u.type, v.type} \/ {u.type, v.type} = {"int"}
  OBVIOUS
<1> QED
  BY <1>1, <1>2 DEF Apply

(* The two booleans.                                                        *)
True == [type |-> "bool", of |-> 1]
False == [type |-> "bool", of |-> 0]

(* Bool makes them, and they differ.                                        *)
LEMMA Booleans == True # False /\ Bool(TRUE) = True /\ Bool(FALSE) = False
<1>1. True # False
  <2>1. True.of = 1 /\ False.of = 0
    BY DEF True, False
  <2> QED
    BY <2>1
<1>2. Bool(TRUE) = True /\ Bool(FALSE) = False
  BY DEF Bool, True, False
<1> QED
  BY <1>1, <1>2

(* The order of two ints is that of their doubles.                          *)
LEMMA IntsAreCompared ==
    ASSUME NEW op \in Ordering, NEW a \in Ints, NEW b \in Ints
    PROVE  Apply(op, Number(a), Number(b)) =
               IF Compare(op, ToDouble(a), ToDouble(b)) THEN {True} ELSE {False}
<1> DEFINE d == <<ToDouble(a), ToDouble(b)>>
           pairs == DoublesIn(Number(a)) \X DoublesIn(Number(b))
<1>1. Apply(op, Number(a), Number(b)) = Calculate(op, Number(a), Number(b))
  BY NumbersAreCalculated DEF Number
<1>2. Calculate(op, Number(a), Number(b)) = {Bool(Compare(op, e[1], e[2])) : e \in pairs}
  <2>1. op # "%" /\ op # "/"
    BY DEF Ordering
  <2> HIDE DEF pairs
  <2>2. Calculate(op, Number(a), Number(b)) =
            {Bool(Compare(op, e[1], e[2])) : e \in DoublesIn(Number(a)) \X DoublesIn(Number(b))}
    BY <2>1 DEF Calculate
  <2> QED
    BY <2>2 DEF pairs
<1>3. pairs = {d}
  BY OperandsAreDoubles
<1> HIDE DEF pairs
<1>4. {Bool(Compare(op, e[1], e[2])) : e \in pairs} = {Bool(Compare(op, d[1], d[2]))}
  BY <1>3
<1>5. Bool(Compare(op, d[1], d[2])) =
          IF Compare(op, ToDouble(a), ToDouble(b)) THEN True ELSE False
  BY DEF Bool, True, False
<1> QED
  BY <1>1, <1>2, <1>4, <1>5

(* Ints are ordered.                                                        *)
LEMMA OrderRule == IntsAreOrdered
<1> SUFFICES ASSUME NEW a \in Ints, NEW b \in Ints
             PROVE  LET less == Apply("<", Number(a), Number(b)) IN
                    /\ less = {Bool(TRUE)} => a < b
                    /\ a < b /\ {a, b} \subseteq Exact => less = {Bool(TRUE)}
                    /\ Apply(">=", Number(a), Number(b)) = {Bool(less = {Bool(FALSE)})}
  BY DEF IntsAreOrdered
<1> PICK x \in Int, y \in Int : x = ToDouble(a) /\ y = ToDouble(b) /\ x # NaN /\ y # NaN
  BY IntsAreDoubles
<1>1. a \in Int /\ b \in Int
  BY IntsAreDoubles
<1> DEFINE less == Apply("<", Number(a), Number(b))
<1>2. less = IF x < y THEN {True} ELSE {False}
  <2>1. Compare("<", x, y) <=> x < y
    BY DEF Compare
  <2> QED
    BY <2>1, IntsAreCompared DEF Ordering
<1>3. Apply(">=", Number(a), Number(b)) = IF x >= y THEN {True} ELSE {False}
  <2>1. Compare(">=", x, y) <=> x >= y
    BY DEF Compare
  <2> QED
    BY <2>1, IntsAreCompared DEF Ordering
<1>4. Bool(less = {Bool(FALSE)}) = IF less = {False} THEN True ELSE False
  BY Booleans DEF Bool, True, False
<1>5. x < y => a < b
  BY <1>1, ToDoubleIsMonotonic
<1>6. {a, b} \subseteq Exact => x = a /\ y = b
  BY SmallIsExact
<1> HIDE DEF less
<1>7. less = {True} => x < y
  BY <1>2, Booleans
<1>8. x < y => less = {True} /\ less # {False}
  BY <1>2, Booleans
<1>9. ~(x < y) => less = {False}
  BY <1>2
<1>10. Apply(">=", Number(a), Number(b)) = {IF less = {False} THEN True ELSE False}
  BY <1>3, <1>8, <1>9
<1> QED
  BY <1>4, <1>5, <1>6, <1>7, <1>8, <1>10, Booleans DEF less

(* Sums, differences and products.                                          *)
LEMMA ResultsAreExact ==
    ASSUME NEW a \in Exact, NEW b \in Exact, a \in Ints, b \in Ints,
           NEW op \in {"+", "-", "*"}, NEW r \in Exact,
           r = CASE op = "+" -> a + b [] op = "-" -> a - b [] op = "*" -> a * b
    PROVE  Apply(op, Number(a), Number(b)) = {Number(r)}
<1> DEFINE u == Number(a)  v == Number(b)  d == <<a, b>>
           pairs == DoublesIn(u) \X DoublesIn(v)
           results == UNION {Compute(op, e[1], e[2]) : e \in pairs}
<1>1. u.type = "int" /\ v.type = "int"
  BY DEF Number
<1>2. Apply(op, u, v) = Calculate(op, u, v)
  <2>1. op \in Arithmetic
    BY DEF Arithmetic
  <2> QED
    BY <2>1, NumbersAreCalculated DEF Number
<1>3. Calculate(op, u, v) = {Number(n) : n \in UNION {ToLong(e) : e \in results}}
  <2>1. op \notin Ordering /\ op # "%" /\ op # "/"
    BY DEF Ordering
  <2> QED
    BY <1>1, <2>1 DEF Calculate
<1>4. a \in Int /\ b \in Int /\ r \in Int /\ ToDouble(a) = a /\ ToDouble(b) = b /\ ToDouble(r) = r
  BY SmallIsExact
<1>5. pairs = {d}
  BY <1>4, OperandsAreDoubles
<1>6. a # NaN /\ b # NaN
  BY <1>4, Widths DEF Exact
<1>7. Compute(op, a, b) = {r}
  BY <1>4, <1>6 DEF Compute
<1> HIDE DEF pairs
<1>8. results = {r}
  BY <1>5, <1>7
<1>9. ToLong(r) = {r}
  <2>1. r \in MinLong .. MaxLong
    BY <1>4, Widths DEF Exact, MinLong, MaxLong
  <2> QED
    BY <2>1 DEF ToLong
<1> HIDE DEF results
<1>10. UNION {ToLong(e) : e \in results} = {r}
  BY <1>8, <1>9
<1> QED
  BY <1>2, <1>3, <1>10

(* Remainders.                                                              *)
LEMMA RemaindersAreExact ==
    ASSUME NEW a \in Ints, NEW b \in Ints, b # 0, ~(a = MinLong /\ b = -1),
           NEW m \in Apply("%", Number(a), Number(b))
    PROVE  /\ m.type = "int" /\ Abs(m.of) < Abs(b)
           /\ (a - m.of) % Abs(b) = 0
           /\ m.of * a >= 0
<1> DEFINE u == Number(a)  v == Number(b)
<1>1. u.type = "int" /\ v.type = "int" /\ u.of = a /\ v.of = b
  BY DEF Number
<1>2. Apply("%", u, v) = Calculate("%", u, v)
  BY <1>1, NumbersAreCalculated DEF Arithmetic
<1>3. Calculate("%", u, v) = {Number(u.of - v.of * Quotient(u.of, v.of))}
  <2>1. "%" \notin Ordering
    BY DEF Ordering
  <2> HIDE DEF u, v
  <2> QED
    BY <1>1, <2>1 DEF Calculate
<1>4. m = Number(a - b * Quotient(a, b))
  BY <1>1, <1>2, <1>3
<1>5. a \in Int /\ b \in Int \ {0}
  BY IntsAreDoubles
<1>6. m.type = "int" /\ m.of = a - b * Quotient(a, b)
  BY <1>4 DEF Number
<1> QED
  BY <1>5, <1>6, RemainderIsRight

(* Ints are exact.                                                          *)
LEMMA ExactRule == IntsAreExact
<1> SUFFICES ASSUME NEW a \in Ints, NEW b \in Ints
             PROVE  /\ \A r \in {<<"+", a + b>>, <<"-", a - b>>, <<"*", a * b>>} :
                          {a, b, r[2]} \subseteq Exact =>
                              Apply(r[1], Number(a), Number(b)) = {Number(r[2])}
                    /\ b # 0 /\ ~(a = MinLong /\ b = -1) =>
                          \A m \in Apply("%", Number(a), Number(b)) :
                              /\ m.type = "int" /\ Abs(m.of) < Abs(b)
                              /\ (a - m.of) % Abs(b) = 0
                              /\ m.of * a >= 0
  BY DEF IntsAreExact
<1>1. {a, b, a + b} \subseteq Exact => Apply("+", Number(a), Number(b)) = {Number(a + b)}
  BY ResultsAreExact
<1>2. {a, b, a - b} \subseteq Exact => Apply("-", Number(a), Number(b)) = {Number(a - b)}
  BY ResultsAreExact
<1>3. {a, b, a * b} \subseteq Exact => Apply("*", Number(a), Number(b)) = {Number(a * b)}
  BY ResultsAreExact
<1> QED
  BY <1>1, <1>2, <1>3, RemaindersAreExact

(* Equality.                                                                *)
LEMMA EqualityRule == EqualityIsIdentity
<1> SUFFICES ASSUME NEW u \in Numbers \cup Others, NEW v \in Numbers \cup Others
             PROVE  /\ Apply("==", u, v) = {Bool(u = v /\ u # Float(NaN))}
                    /\ Apply("!=", u, v) = {Bool(u # v \/ u = Float(NaN))}
  BY DEF EqualityIsIdentity
<1>1. \A w \in Numbers \cup Others : w = [type |-> w.type, of |-> w.of]
  BY DEF Numbers, Others, Number, Float, Bool, Null, Text
<1>2. u = v <=> u.type = v.type /\ u.of = v.of
  BY <1>1
<1>3. Equal(u, v) <=> u = v /\ u # Float(NaN)
  BY <1>2 DEF Equal
<1>4. Apply("==", u, v) = {IF Equal(u, v) THEN True ELSE False}
  BY DEF Apply, Bool, True, False
<1>5. Apply("!=", u, v) = {IF Equal(u, v) THEN False ELSE True}
  BY DEF Apply, Bool, True, False
<1>6. Bool(u = v /\ u # Float(NaN)) = IF Equal(u, v) THEN True ELSE False
  BY <1>3 DEF Bool, True, False
<1>7. Bool(u # v \/ u = Float(NaN)) = IF Equal(u, v) THEN False ELSE True
  BY <1>3 DEF Bool, True, False
<1> QED
  BY <1>4, <1>5, <1>6, <1>7

(* What the others are.                                                     *)
LEMMA OthersAreTyped ==
    ASSUME NEW w \in Others
    PROVE  w \in {Bool(TRUE), Bool(FALSE), Null} \/ w.type \in {"string", "list", "map", "struct"}
BY DEF Others, Bool, Null, Text

(* What a condition takes for true.                                         *)
LEMMA TruthTable ==
    ASSUME NEW v \in Numbers \cup Others
    PROVE  Truthy(v) <=> v \notin {Bool(FALSE), Number(0), Float(0), Null}
<1>1. CASE v \in Numbers
  <2>1. v.type \in {"int", "float"} /\ v = [type |-> v.type, of |-> v.of]
    BY <1>1 DEF Numbers, Number, Float
  <2>2. Truthy(v) <=> v.of # 0
    BY <2>1 DEF Truthy
  <2>3. v \in {Number(0), Float(0)} <=> v.of = 0
    BY <2>1 DEF Number, Float
  <2>4. v \notin {Bool(FALSE), Null}
    BY <2>1 DEF Bool, Null
  <2> QED
    BY <2>2, <2>3, <2>4
<1>2. CASE v \in {Bool(TRUE), Bool(FALSE), Null}
  <2>1. Truthy(v) <=> v = Bool(TRUE)
    BY <1>2 DEF Truthy, Bool, Null
  <2>2. v = Bool(TRUE) <=> v \notin {Bool(FALSE), Number(0), Float(0), Null}
    BY <1>2 DEF Bool, Number, Float, Null
  <2> QED
    BY <2>1, <2>2
<1>3. CASE v \in Others \ {Bool(TRUE), Bool(FALSE), Null}
  <2>1. v.type \in {"string", "list", "map", "struct"}
    BY <1>3, OthersAreTyped
  <2>2. Truthy(v)
    BY <2>1 DEF Truthy
  <2>3. v \notin {Bool(FALSE), Number(0), Float(0), Null}
    BY <2>1 DEF Bool, Number, Float, Null
  <2> QED
    BY <2>2, <2>3
<1> QED
  BY <1>1, <1>2, <1>3

(* The member `boolean' by the type of the value.                           *)
LEMMA BooleanMembers ==
    ASSUME NEW w
    PROVE  /\ w.type = "bool" => BooleansIn(w) = {w.of # 0}
           /\ w.type = "int" => BooleansIn(w) = {ToInt(w.of) # 0}
<1>1. ASSUME w.type = "bool" PROVE BooleansIn(w) = {w.of # 0}
  <2>1. w.type # "int" /\ w.type # "null" /\ w # Float(0)
    BY <1>1 DEF Float
  <2> QED
    BY <1>1, <2>1 DEF BooleansIn
<1>2. ASSUME w.type = "int" PROVE BooleansIn(w) = {ToInt(w.of) # 0}
  <2>1. w.type # "bool" /\ w.type # "null" /\ w # Float(0)
    BY <1>2 DEF Float
  <2> QED
    BY <1>2, <2>1 DEF BooleansIn
<1> QED
  BY <1>1, <1>2

(* The member `boolean' of a value that tells.                              *)
LEMMA BooleanTells ==
    ASSUME NEW v \in Logical
    PROVE  BooleansIn(v) = {Truthy(v)}
<1>1. CASE v.type \in {"bool", "int"}
  <2>1. v.type = "int" => ToInt(v.of) = v.of
    BY DEF Logical, Bool, Number, Float, Null
  <2>2. BooleansIn(v) = {v.of # 0}
    BY <1>1, <2>1, BooleanMembers, Zenon
  <2>3. Truthy(v) <=> v.of # 0
    BY <1>1 DEF Truthy
  <2>4. (v.of # 0) = Truthy(v)
    BY <2>3, Zenon DEF Truthy
  <2> QED
    BY <2>2, <2>4, Zenon
<1>2. CASE v \in {Null, Float(0)}
  <2>1. BooleansIn(v) = {FALSE}
    <3>1. v.type \notin {"bool", "int"} /\ (v.type = "null" \/ v = Float(0))
      BY <1>2 DEF Null, Float
    <3> QED
      BY <3>1 DEF BooleansIn
  <2>2. ~Truthy(v)
    BY <1>2 DEF Truthy, Null, Float
  <2>3. Truthy(v) = FALSE
    BY <2>2, Zenon DEF Truthy
  <2> QED
    BY <2>1, <2>3, Zenon
<1>3. v.type \in {"bool", "int"} \/ v \in {Null, Float(0)}
  BY DEF Logical, Bool, Number
<1> QED
  BY <1>1, <1>2, <1>3

(* The logical operators.                                                   *)
LEMMA LogicRule == LogicIsTruth
<1> SUFFICES ASSUME NEW u \in Logical, NEW v \in Logical
             PROVE  /\ Not(u) = {Bool(~Truthy(u))}
                    /\ Apply("&&", u, v) = {Bool(Truthy(u) /\ Truthy(v))}
                    /\ Apply("||", u, v) = {Bool(Truthy(u) \/ Truthy(v))}
  BY TruthTable DEF LogicIsTruth
<1>2. BooleansIn(u) = {Truthy(u)} /\ BooleansIn(v) = {Truthy(v)}
  BY BooleanTells, Zenon
<1>3. Not(u) = {Bool(~Truthy(u))}
  <2>1. Not(u) = {Bool(~b) : b \in {Truthy(u)}}
    BY <1>2, Zenon DEF Not
  <2> QED
    BY <2>1, Zenon
<1>p. PICK p : p = Truthy(u)
  BY Zenon
<1>q. PICK q : q = Truthy(v)
  BY Zenon
<1>5. BooleansIn(u) = {p} /\ BooleansIn(v) = {q}
  BY <1>2, <1>p, <1>q, Zenon
<1>6. Apply("&&", u, v) = {Bool(p /\ q)} /\ Apply("||", u, v) = {Bool(p \/ q)}
  <2>1. Apply("&&", u, v) = {Bool(a /\ b) : a \in BooleansIn(u), b \in BooleansIn(v)}
    BY DEF Apply
  <2>2. Apply("||", u, v) = {Bool(a \/ b) : a \in BooleansIn(u), b \in BooleansIn(v)}
    BY DEF Apply
  <2>3. \A w : w \in Apply("&&", u, v) => w = Bool(p /\ q)
    BY <1>5, <2>1
  <2>4. \A w : w \in Apply("||", u, v) => w = Bool(p \/ q)
    BY <1>5, <2>2
  <2>5. Bool(p /\ q) \in Apply("&&", u, v) /\ Bool(p \/ q) \in Apply("||", u, v)
    BY <1>5, <2>1, <2>2
  <2> QED
    BY <2>3, <2>4, <2>5
<1>7. Apply("&&", u, v) = {Bool(Truthy(u) /\ Truthy(v))}
  BY <1>6, <1>p, <1>q, Zenon
<1>8. Apply("||", u, v) = {Bool(Truthy(u) \/ Truthy(v))}
  BY <1>6, <1>p, <1>q, Zenon
<1> QED
  BY <1>3, <1>7, <1>8

(* Others than numbers.                                                     *)
LEMMA RefusalRule == OthersAreRefused
<1> SUFFICES ASSUME NEW u \in Others, NEW v \in Others \cup {Number(1)},
                    NEW op \in Ordering \cup Arithmetic,
                    ~(op = "+" /\ {u.type, v.type} = {"string"})
             PROVE  Apply(op, u, v) = {Failure} /\ Apply(op, v, u) = {Failure}
  BY DEF OthersAreRefused
<1>1. op \notin {"&&", "||", "==", "!="}
  BY DEF Ordering, Arithmetic
<1>2. u.type \in {"bool", "null", "string", "list", "map", "struct"}
  BY DEF Others, Bool, Null, Text
<1>3. v.type \in {"bool", "null", "string", "list", "map", "struct", "int"}
  BY DEF Others, Bool, Null, Text, Number
<1>4. ~("float" \in {u.type, v.type} \/ {u.type, v.type} = {"int"})
  BY <1>2, <1>3
<1> QED
  BY <1>1, <1>4 DEF Apply

(* There and back.                                                          *)
LEMMA ConversionRule == ConversionsAreExact
<1> SUFFICES ASSUME NEW n \in Exact
             PROVE  /\ AsFloat(Number(n)) = {Float(n)} /\ AsInt(Float(n)) = {Number(n)}
                    /\ Negative(Number(n)) = Apply("-", Number(0), Number(n))
  BY DEF ConversionsAreExact
<1>1. n \in Int /\ ToDouble(n) = n
  BY SmallIsExact
<1>2. n \in MinLong .. MaxLong /\ n # MinLong /\ n \in Ints /\ 0 \in Ints /\ 0 \in Exact /\ -n \in Exact
  BY <1>1, Widths DEF Exact, MinLong, MaxLong, Ints
<1>3. AsFloat(Number(n)) = {Float(n)}
  BY <1>1 DEF AsFloat, Number
<1>4. AsInt(Float(n)) = {Number(n)}
  <2>1. ToLong(n) = {n}
    BY <1>2 DEF ToLong
  <2>2. AsInt(Float(n)) = {Number(m) : m \in ToLong(n)}
    BY DEF AsInt, Float
  <2> QED
    BY <2>1, <2>2
<1>5. Negative(Number(n)) = {Number(-n)}
  BY <1>2 DEF Negative, Number
<1>6. Apply("-", Number(0), Number(n)) = {Number(-n)}
  <2>1. -n = 0 - n
    BY <1>1
  <2> QED
    BY <1>2, <2>1, ResultsAreExact
<1> QED
  BY <1>3, <1>4, <1>5, <1>6

(* Floats.                                                                  *)
LEMMA FloatRule == FloatsAreKept
<1> SUFFICES ASSUME NEW u \in Numbers, NEW v \in Numbers
             PROVE  /\ \A w \in Apply("/", u, v) : IF v.of = 0 THEN w = Failure ELSE w.type = "float"
                    /\ "float" \in {u.type, v.type} =>
                          /\ \A op \in {"+", "-", "*"} : \A w \in Apply(op, u, v) : w.type = "float"
                          /\ Apply("%", u, v) = {Failure}
  BY DEF FloatsAreKept
<1>1. \A w \in Numbers : w.type \in {"int", "float"}
  BY DEF Numbers, Number, Float
<1>2. \A op \in Arithmetic : Apply(op, u, v) = Calculate(op, u, v)
  BY <1>1, NumbersAreCalculated
<1> DEFINE pairs == DoublesIn(u) \X DoublesIn(v)
<1>3. Arithmetic \cap Ordering = {} /\ Arithmetic = {"+", "-", "*", "/", "%"}
  BY DEF Arithmetic, Ordering
<1>4. ASSUME NEW w \in Apply("/", u, v)
      PROVE  IF v.of = 0 THEN w = Failure ELSE w.type = "float"
  <2>1. Calculate("/", u, v) =
            UNION {IF d[2] = 0 THEN {Failure} ELSE {Float(q) : q \in Compute("/", d[1], d[2])} : d \in pairs}
    BY <1>3 DEF Calculate
  <2>2. PICK d \in pairs : w \in IF d[2] = 0 THEN {Failure} ELSE {Float(q) : q \in Compute("/", d[1], d[2])}
    BY <1>2, <1>3, <2>1
  <2>3. d[2] \in DoublesIn(v)
    BY <2>2
  <2>4. d[2] = 0 <=> v.of = 0
    <3>1. CASE v.type = "int"
      <4>1. v.of \in Ints
        BY <3>1, Widths DEF Numbers, Number, Float
      <4>2. d[2] = ToDouble(v.of)
        BY <2>3, <3>1 DEF DoublesIn
      <4> QED
        BY <4>1, <4>2, IntsAreDoubles
    <3>2. CASE v.type = "float"
      BY <2>3, <3>2 DEF DoublesIn
    <3> QED
      BY <1>1, <3>1, <3>2
  <2> QED
    BY <2>2, <2>4 DEF Float
<1>5. ASSUME "float" \in {u.type, v.type}, NEW op \in {"+", "-", "*"}, NEW w \in Apply(op, u, v)
      PROVE  w.type = "float"
  <2>1. ~(u.type = "int" /\ v.type = "int")
    BY <1>5
  <2> DEFINE results == UNION {Compute(op, d[1], d[2]) : d \in pairs}
  <2>2. Calculate(op, u, v) = {Float(d) : d \in results}
    BY <1>3, <2>1 DEF Calculate
  <2>3. w \in {Float(d) : d \in results}
    BY <1>2, <1>3, <2>2
  <2> QED
    BY <2>3 DEF Float
<1>6. ASSUME "float" \in {u.type, v.type} PROVE Apply("%", u, v) = {Failure}
  <2>1. ~(u.type = "int" /\ v.type = "int")
    BY <1>6
  <2> QED
    BY <1>2, <1>3, <2>1 DEF Calculate
<1> QED
  BY <1>4, <1>5, <1>6

-----------------------------------------------------------------------------
(* The theorems.                                                            *)

(* One container, whatever it is, is a sequence of containers.              *)
LEMMA OneObject ==
    ASSUME NEW o, ObjectFits(o), objects = <<o>>
    PROVE  ObjectsFit
<1>1. objects = [a \in 1 .. 1 |-> objects[a]] /\ objects[1] = o
  OBVIOUS
<1>2. IsSequence(objects) /\ DOMAIN objects = 1 .. 1
  BY <1>1, Made
<1> QED
  BY <1>1, <1>2 DEF ObjectsFit

(* The program starts with a container, and with nothing under way.         *)
LEMMA InitFits ==
    ASSUME Init
    PROVE  ContainersInv
<1>1. StackFits
  BY EmptySequence DEF Init, StackFits
<1>2. ASSUME objects = <<[kind |-> "list", items |-> <<Null, Number(1)>>]>> PROVE ObjectsFit
  <2> PICK items : items = <<Null, Number(1)>>
    OBVIOUS
  <2>1. items = [i \in 1 .. 2 |-> items[i]] /\ items[1] = Null /\ items[2] = Number(1)
    OBVIOUS
  <2>2. IsSequence(items) /\ DOMAIN items = 1 .. 2
    BY <2>1, Made
  <2>3. AreValues(items)
    BY <2>1, <2>2, ValuesAreValues DEF AreValues
  <2>4. ObjectFits([kind |-> "list", items |-> items])
    BY <2>3 DEF ObjectFits, Fitting
  <2> QED
    BY <1>2, <2>4, OneObject
<1>3. ASSUME objects = <<[kind |-> "map", items |-> <<>>]>> PROVE ObjectsFit
  <2>1. ArePairs(<<>>) /\ AreDistinct(<<>>)
    BY EmptySequence DEF ArePairs, AreDistinct
  <2>2. ObjectFits([kind |-> "map", items |-> <<>>])
    BY <2>1 DEF ObjectFits, Fitting
  <2> QED
    BY <1>3, <2>2, OneObject
<1>4. ASSUME objects = <<[kind |-> "struct",
                          items |-> [i \in DOMAIN FieldNames |-> Pair(FieldNames[i], Null)]]>>
      PROVE  ObjectsFit
  <2> DEFINE nulls == [i \in DOMAIN FieldNames |-> Null]
             pairs == [i \in DOMAIN FieldNames |-> Pair(FieldNames[i], nulls[i])]
  <2>1. objects = <<[kind |-> "struct", items |-> pairs]>>
    BY <1>4
  <2>2. \A i \in DOMAIN FieldNames : IsValue(nulls[i])
    BY ValuesAreValues
  <2> HIDE DEF nulls
  <2>3. Fitting("struct", pairs)
    BY <2>2, StructFits
  <2> HIDE DEF pairs
  <2>4. ObjectFits([kind |-> "struct", items |-> pairs])
    BY <2>3 DEF ObjectFits
  <2> QED
    BY <2>1, <2>4, OneObject
<1> QED
  BY <1>1, <1>2, <1>3, <1>4, ValuesAreValues DEF Init, ContainersInv

(* The inductive invariant: every array holds what its kind may hold, what  *)
(* is under way refers to containers that are what they were, and no        *)
(* expression yields what lies outside of an array.                         *)
THEOREM ContainersAreSound == Spec => []ContainersInv
<1>1. Init => ContainersInv
  BY InitFits
<1>2. ContainersInv /\ [Next]_vars => ContainersInv'
  <2> SUFFICES ASSUME ContainersInv, [Next]_vars PROVE ContainersInv'
    OBVIOUS
  <2>1. CASE UNCHANGED vars
    BY <2>1 DEF vars, ContainersInv, ObjectsFit, StackFits, FrameFits, IsRef
  <2>2. CASE Done
    BY <2>1, <2>2 DEF Done
  <2>3. CASE /\ Create \/ Containing \/ Whole \/ Fields \/ Assign \/ Loop \/ Unwind
             /\ UNCHANGED literals
    <3>1. Moves
      BY <2>3, CreateMoves, ContainingMoves, WholeMoves, FieldsMoves, AssignMoves, LoopMoves,
         UnwindMoves
    <3> QED
      BY <2>3, <3>1, MovesKeepInv
  <2> QED
    BY <2>1, <2>2, <2>3 DEF Next
<1> QED
  BY <1>1, <1>2, PTL DEF Spec

(* Nothing outside of an array is read or stored, however lists shrink      *)
(* between the parts of an assignment or the rounds of a loop; the keys of  *)
(* a map are unique by `==', and a struct keeps the fields of its type.     *)
THEOREM ArraysAreSafe == Spec => []ContainersAreWellFormed
<1>1. ContainersInv => ContainersAreWellFormed
  <2> SUFFICES ASSUME ContainersInv PROVE ContainersAreWellFormed
    OBVIOUS
  <2>1. \A v : IsValue(v) => v # Stray
    BY DEF IsValue, Stray
  <2>2. ASSUME NEW a \in DOMAIN objects, NEW items, items = objects[a].items
        PROVE  CASE objects[a].kind = "list" -> Stray \notin ToSet(items)
                 [] objects[a].kind = "map" ->
                      /\ \A i, j \in DOMAIN items : Equal(items[i].key, items[j].key) => i = j
                      /\ \A i \in DOMAIN items : items[i].value # Stray
                 [] OTHER -> [i \in DOMAIN items |-> items[i].key] = FieldNames
    <3>1. Fitting(objects[a].kind, items)
      BY <2>2 DEF ContainersInv, ObjectsFit, ObjectFits
    <3>2. CASE objects[a].kind = "list" /\ AreValues(items)
      BY <2>1, <3>2 DEF AreValues, ToSet
    <3>3. CASE objects[a].kind = "map" /\ ArePairs(items) /\ AreDistinct(items)
      <4>1. \A i \in DOMAIN items : items[i].value # Stray
        BY <2>1, <3>3 DEF ArePairs, IsPair
      <4>2. \A i, j \in DOMAIN items : Equal(items[i].key, items[j].key) => i = j
        BY <3>3 DEF AreDistinct
      <4> QED
        BY <3>3, <4>1, <4>2
    <3>4. CASE objects[a].kind = "struct" /\ ArePairs(items) /\ AreFields(items)
      BY <3>4 DEF AreFields
    <3> QED
      BY <3>1, <3>2, <3>3, <3>4 DEF Fitting
  <2>3. result # Stray
    BY <2>1 DEF ContainersInv
  <2> QED
    BY <2>2, <2>3 DEF ContainersAreWellFormed
<1> QED
  BY <1>1, ContainersAreSound, PTL

-----------------------------------------------------------------------------
(* Reading back.                                                            *)

(* After map_set the key is found with the new value, and every other key   *)
(* is found where it was, or not found as before.                           *)
LEMMA MapReadsBack ==
    ASSUME NEW pairs, ArePairs(pairs), NEW k, IsValue(k), NEW w, NEW j, IsValue(j)
    PROVE  LET new == MapSet(pairs, k, w)
           IN  /\ Equal(j, k) => MapHas(new, j) /\ MapGet(new, j) = w
               /\ ~Equal(j, k) => /\ MapHas(new, j) <=> MapHas(pairs, j)
                                  /\ MapHas(pairs, j) => MapGet(new, j) = MapGet(pairs, j)
<1> PICK new : new = MapSet(pairs, k, w)
  OBVIOUS
<1> PICK n \in Nat : n = Len(pairs)
  BY SequenceParts DEF ArePairs
<1>1. DOMAIN pairs = 1 .. n /\ \A i \in 1 .. n : IsPair(pairs[i]) /\ IsValue(pairs[i].key)
  BY SequenceParts DEF ArePairs, IsPair
<1>2. \A i \in 1 .. n : KeyEqual(pairs[i].key, k) <=> pairs[i].key = k /\ k # Float(NaN)
  BY <1>1, KeysAreEqual, EqualIsSame
<1>3. \A i \in 1 .. n : KeyEqual(pairs[i].key, j) <=> pairs[i].key = j /\ j # Float(NaN)
  BY <1>1, KeysAreEqual, EqualIsSame
<1>4. Equal(j, k) <=> j = k /\ k # Float(NaN)
  BY EqualIsSame
<1>5. CASE MapHas(pairs, k)
  <2> PICK p : p = First(Places(pairs, k))
    OBVIOUS
  <2>1. p \in 1 .. n /\ pairs[p].key = k /\ k # Float(NaN)
    BY <1>1, <1>2, <1>5, SearchFinds
  <2>2. /\ DOMAIN new = 1 .. n
        /\ \A i \in 1 .. n : new[i] = IF i = p THEN Pair(pairs[i].key, w) ELSE pairs[i]
    BY <1>1, <1>5, SetWrites
  <2>3. \A i \in 1 .. n : new[i].key = pairs[i].key
    BY <2>2 DEF Pair
  <2>4. Places(new, j) = Places(pairs, j)
    BY <1>1, <2>2, <2>3 DEF Places
  <2>5. MapHas(new, j) <=> MapHas(pairs, j)
    BY <2>4 DEF MapHas
  <2>6. MapGet(new, j) = new[First(Places(pairs, j))].value
    BY <2>4 DEF MapGet
  <2>7. CASE Equal(j, k)
    <3>1. j = k /\ MapHas(pairs, j)
      BY <1>4, <1>5, <2>7
    <3>2. new[p].value = w
      BY <2>1, <2>2 DEF Pair
    <3> QED
      BY <2>5, <2>6, <2>7, <3>1, <3>2
  <2>8. CASE ~Equal(j, k)
    <3>1. ASSUME MapHas(pairs, j) PROVE MapGet(new, j) = MapGet(pairs, j)
      <4> PICK q : q = First(Places(pairs, j))
        OBVIOUS
      <4>1. q \in 1 .. n /\ pairs[q].key = j /\ j # Float(NaN)
        BY <1>1, <1>3, <3>1, SearchFinds
      <4>2. q # p
        BY <1>4, <2>1, <2>8, <4>1
      <4> QED
        BY <2>2, <2>6, <4>1, <4>2 DEF MapGet
    <3> QED
      BY <2>5, <2>8, <3>1
  <2> QED
    BY <2>7, <2>8
<1>6. CASE ~MapHas(pairs, k)
  <2>1. /\ DOMAIN new = 1 .. n + 1
        /\ \A i \in 1 .. n : new[i] = pairs[i]
        /\ new[n + 1] = Pair(k, w)
    BY <1>1, <1>6, SetWrites
  <2>2. \A i \in 1 .. n + 1 : i \in 1 .. n \/ i = n + 1
    OBVIOUS
  <2>3. new[n + 1].key = k /\ new[n + 1].value = w
    BY <2>1 DEF Pair
  <2>4. KeyEqual(k, j) <=> Equal(j, k)
    BY <1>4, KeysAreEqual, EqualIsSame
  <2>5. CASE Equal(j, k)
    <3>1. j = k
      BY <1>4, <2>5
    <3>2. \A i \in 1 .. n : ~KeyEqual(new[i].key, j)
      BY <1>1, <1>6, <2>1, <3>1 DEF MapHas, Places
    <3>3. Places(new, j) = {n + 1}
      BY <2>1, <2>2, <2>3, <2>4, <2>5, <3>2 DEF Places
    <3>4. First(Places(new, j)) = n + 1
      <4>1. Places(new, j) \subseteq Nat /\ Places(new, j) # {}
        BY <3>3
      <4>2. First(Places(new, j)) \in Places(new, j)
        BY <4>1, LeastIsIn DEF First
      <4> QED
        BY <3>3, <4>2
    <3> QED
      BY <2>3, <2>5, <3>3, <3>4 DEF MapHas, MapGet
  <2>6. CASE ~Equal(j, k)
    <3>1. Places(new, j) = Places(pairs, j)
      <4>1. ASSUME NEW i \in 1 .. n + 1, KeyEqual(new[i].key, j) PROVE i \in 1 .. n
        BY <2>2, <2>3, <2>4, <2>6, <4>1
      <4>2. \A i \in 1 .. n : i \in 1 .. n + 1
        OBVIOUS
      <4> QED
        BY <1>1, <2>1, <4>1, <4>2 DEF Places
    <3>2. ASSUME MapHas(pairs, j) PROVE MapGet(new, j) = MapGet(pairs, j)
      <4>1. First(Places(pairs, j)) \in 1 .. n
        BY <1>1, <3>2, SearchFinds
      <4> QED
        BY <2>1, <3>1, <4>1 DEF MapGet
    <3> QED
      BY <2>6, <3>1, <3>2 DEF MapHas
  <2> QED
    BY <2>5, <2>6
<1> QED
  BY <1>5, <1>6

(* After list_set the element is the new one, and the others are as before. *)
LEMMA ListReadsBack ==
    ASSUME NEW items, IsSequence(items), NEW i \in 0 .. Len(items) - 1, NEW w, NEW m \in Int
    PROVE  ListGet(ListSet(items, i, w), m) = IF m = i THEN w ELSE ListGet(items, m)
<1>1. DOMAIN items = 1 .. Len(items) /\ Len(items) \in Nat
  BY SequenceParts
<1> PICK new : new = ListSet(items, i, w)
  OBVIOUS
<1>2. /\ Len(new) = Len(items)
      /\ \A j \in DOMAIN items : new[j] = IF j = i + 1 THEN w ELSE items[j]
  BY ListSetWrites
<1>3. CASE m \in 0 .. Len(items) - 1
  <2>1. m + 1 \in DOMAIN items /\ (m + 1 = i + 1 <=> m = i)
    BY <1>1, <1>3
  <2>2. ListGet(new, m) = new[m + 1] /\ ListGet(items, m) = items[m + 1]
    BY <1>2, <1>3 DEF ListGet
  <2> QED
    BY <1>2, <2>1, <2>2
<1>4. CASE m \notin 0 .. Len(items) - 1
  <2>1. ListGet(new, m) = Null /\ ListGet(items, m) = Null /\ m # i
    BY <1>2, <1>4 DEF ListGet
  <2> QED
    BY <2>1
<1> QED
  BY <1>3, <1>4

(* What is read in the next state.                                          *)
LEMMA NextLookup ==
    ASSUME NEW o, NEW j, NEW items, objects'[o.of].items = items
    PROVE  /\ o.type = "list" =>
                 Lookup(o, j)' = IF Is(j, "int") THEN ListGet(items, ToInt(j.of)) ELSE Failure
           /\ o.type = "map" =>
                 Lookup(o, j)' = IF MapHas(items, j) THEN MapGet(items, j) ELSE Null
BY DEF Lookup, Items

(* What was assigned to an element is read back, under every key that is    *)
(* equal to the one of the assignment; what other keys find, and the other  *)
(* containers, are left alone.                                              *)
THEOREM AssignmentsAreReadBack == Spec => ElementsAreReadBack
<1>1. ASSUME ContainersInv, NEW v \in Operands, FinishIndexAssign(v), ~failed',
             NEW o, o = Top.of, NEW k, k = Top.key, NEW op, op = Top.op,
             Fits(k) \/ Is(o, "map")
      PROVE  Reads(v, o, k, op)
  <2>1. ObjectsFit /\ IsRef(o) /\ IsValue(k)
    BY <1>1, TopFits DEF ContainersInv, FrameFits, FinishIndexAssign
  <2>2. Assignable(o, k, op)
    BY <1>1 DEF FinishIndexAssign
  <2>3. PICK w \in Stored(op, Lookup(o, k), v) :
            /\ Update(o, IF Is(o, "list") THEN ListSet(Items(o), ToInt(k.of), OrNull(w))
                         ELSE MapSet(Items(o), k, OrNull(w)))
            /\ FailIf(w)
    BY <1>1, <2>2 DEF FinishIndexAssign
  <2>4. OrNull(w) = w
    BY <1>1, <2>3 DEF FailIf, OrNull
  <2> PICK items : items = Items(o)
    OBVIOUS
  <2> PICK new : new = IF Is(o, "list") THEN ListSet(items, ToInt(k.of), w) ELSE MapSet(items, k, w)
    OBVIOUS
  <2>5. /\ objects'[o.of].items = new
        /\ \A a \in DOMAIN objects \ {o.of} : objects'[a] = objects[a]
    <3>1. objects' = [objects EXCEPT ![o.of].items = new]
      BY <2>3, <2>4 DEF Update
    <3>2. o.of \in DOMAIN objects /\ objects[o.of] = [kind |-> objects[o.of].kind, items |-> objects[o.of].items]
      BY <2>1 DEF IsRef, ObjectsFit, ObjectFits
    <3> QED
      BY <3>1, <3>2
  <2>6. ASSUME NEW j \in Operands, Fits(j) \/ Is(o, "map")
        PROVE  Lookup(o, j)' \in IF Equal(j, k) THEN Stored(op, Lookup(o, j), v) ELSE {Lookup(o, j)}
    <3>1. IsValue(j)
      BY <1>1, OperandsAreValues
    <3>2. Equal(j, k) => j = k
      BY <2>1, <3>1, EqualIsSame
    <3>3. CASE Is(o, "list")
      <4>1. /\ o.type = "list" /\ Is(k, "int") /\ ToInt(k.of) \in 0 .. Len(items) - 1
            /\ ToInt(k.of) = k.of
        BY <1>1, <2>2, <3>3 DEF Assignable, Is, Fits
      <4>2. IsSequence(items) /\ new = ListSet(items, ToInt(k.of), w)
        BY <2>1, <3>3, <4>1, ItemsFit DEF AreValues
      <4>3. CASE Is(j, "int")
        <5>1. ToInt(j.of) = j.of /\ j.of \in Int
          <6>1. j \in literals
            BY <2>1, <4>3, ContainersAreRefs DEF Operands, Is
          <6>2. j \in Value
            BY <1>1, <6>1, LiteralAssumption DEF ContainersInv
          <6> QED
            BY <2>6, <3>3, <4>3, <6>2 DEF Value, Fits, Is
        <5>2. /\ Lookup(o, j) = ListGet(items, j.of)
              /\ Lookup(o, j)' = ListGet(new, j.of)
          <6>1. Lookup(o, j) = ListGet(items, ToInt(j.of))
            BY <4>1, <4>3 DEF Lookup
          <6>2. Lookup(o, j)' = ListGet(new, ToInt(j.of))
            BY <2>5, <4>1, <4>3, NextLookup
          <6> QED
            BY <5>1, <6>1, <6>2
        <5>3. ListGet(new, j.of) = IF j.of = k.of THEN w ELSE ListGet(items, j.of)
          BY <4>1, <4>2, <5>1, ListReadsBack
        <5>4. Equal(j, k) <=> j.of = k.of
          BY <4>1, <4>3 DEF Equal, Is, Float
        <5> QED
          BY <2>3, <3>2, <5>2, <5>3, <5>4
      <4>4. CASE ~Is(j, "int")
        <5>1. Lookup(o, j) = Failure
          BY <4>1, <4>4 DEF Lookup
        <5>2. Lookup(o, j)' = Failure
          BY <2>5, <4>1, <4>4, NextLookup
        <5>3. ~Equal(j, k)
          BY <4>1, <4>4 DEF Equal, Is
        <5> QED
          BY <5>1, <5>2, <5>3
      <4> QED
        BY <4>3, <4>4
    <3>4. CASE ~Is(o, "list")
      <4>1. o.type = "map"
        BY <2>2, <3>4 DEF Assignable, Is
      <4>2. ArePairs(items) /\ new = MapSet(items, k, w)
        BY <2>1, <3>4, <4>1, ItemsFit
      <4>3. Lookup(o, j) = IF MapHas(items, j) THEN MapGet(items, j) ELSE Null
        BY <4>1 DEF Lookup
      <4>4. Lookup(o, j)' = IF MapHas(new, j) THEN MapGet(new, j) ELSE Null
        BY <2>5, <4>1, NextLookup
      <4>5. /\ Equal(j, k) => MapHas(new, j) /\ MapGet(new, j) = w
            /\ ~Equal(j, k) => /\ MapHas(new, j) <=> MapHas(items, j)
                               /\ MapHas(items, j) => MapGet(new, j) = MapGet(items, j)
        BY <2>1, <3>1, <4>2, MapReadsBack
      <4> QED
        BY <2>3, <3>2, <4>3, <4>4, <4>5
    <3> QED
      BY <3>3, <3>4
  <2> QED
    BY <2>5, <2>6 DEF Reads
<1>2. ContainersInv =>
        [\A v \in Operands :
            FinishIndexAssign(v) /\ ~failed' =>
                \A o \in {Top.of}, k \in {Top.key}, op \in {Top.op} :
                    Fits(k) \/ Is(o, "map") => Reads(v, o, k, op)]_vars
  BY <1>1
<1> QED
  BY <1>2, ContainersAreSound, PTL DEF ElementsAreReadBack

(* What eval_binary_op and its neighbours compute keeps the rules of the    *)
(* README for all pairs of ints of any width, the 64 bits of a long among   *)
(* them: sums and products that a double holds are exact, remainders always *)
(* are and have the sign of the dividend, comparison keeps the order and    *)
(* equality the type, and what is no number is refused.                     *)
THEOREM OperatorsAreRight == Spec => []OperatorsKeepTheirRules
<1>1. RulesHold
  BY ExactRule, OrderRule, EqualityRule, FloatRule, RefusalRule, LogicRule, ConversionRule
     DEF RulesHold
<1>2. OperatorsKeepTheirRules
  BY <1>1 DEF OperatorsKeepTheirRules
<1> QED
  BY <1>2, PTL
=============================================================================
