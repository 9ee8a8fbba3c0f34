---------------------------- MODULE MemoryProofs ----------------------------
(***************************************************************************)
(* Theorems about what the collections in the middle of an evaluation      *)
(* free, for any program of any length, any number of arguments and any    *)
(* memory in which there is an address left.                               *)
(***************************************************************************)
EXTENDS EvaluatorProofs
-----------------------------------------------------------------------------
(* The inductive invariant, in two parts.                                   *)

(* The first: whose scope is whose.  An activation that opens a scope, and  *)
(* the import of a module that is running, for which it is no one else's.   *)
Opens(f) ==
    IF f.at \in ScopeFrames \cup {"program"} THEN {f.env}
    ELSE IF f.at = "module" THEN {f.target} ELSE {}

OpenedBy(s, n) == UNION {Opens(s[i]) : i \in 1 .. n}
Opened(s) == OpenedBy(s, Len(s))

IsObject(x) == x = [kind |-> x.kind, refs |-> x.refs, link |-> x.link]
IsHeap(h) == DOMAIN h \subseteq Obj /\ \A o \in DOMAIN h : IsObject(h[o])
IsScope(h, e) == e \in DOMAIN h /\ h[e].kind = "env"

(* Frame i works in a scope that it or a frame below it has opened, and     *)
(* what it has opened itself is neither a module nor any other frame's.     *)
FramePlaced(h, m, s, i) ==
    /\ s[i].env \in OpenedBy(s, i)
    /\ s[i].at = "program" => s[i].env = Globals
    /\ Opens(s[i]) \cap m = {}
    /\ \A j \in 1 .. i - 1 : Opens(s[i]) \cap Opens(s[j]) = {}
    /\ s[i].at = "module" => IsScope(h, s[i].target) /\ h[s[i].target].link = Globals

Placed(h, m, s) == \A i \in DOMAIN s : FramePlaced(h, m, s, i)

(* The innermost activation evaluates and executes in such a scope too, and *)
(* only a value that is handed back is kept in a local.                     *)
ControlPlaced(c, s) ==
    /\ IF c.mode \in {"eval", "exec", "block"} THEN c.env \in Opened(s) ELSE c.env = Nil
    /\ c.mode # "value" => c.val = Scalar

(* The scope of a module that failed is left behind.                        *)
LeftBehind(h, o) == hadError /\ "import" \in constructs /\ h[o].link = Globals

ModulesAreImported(s) == \A i \in DOMAIN s : s[i].at = "module" => "import" \in constructs

Registered ==
    /\ IsHeap(heap)
    /\ \A o \in live : IsScope(heap, o)
    /\ Opened(stack) \subseteq live
    /\ ctl.mode # "done" => modules \subseteq live
    /\ \A o \in live :
          o \in Opened(stack) \/ (ctl.mode # "done" /\ o \in modules) \/ LeftBehind(heap, o)
    /\ Placed(heap, modules, stack)
    /\ ModulesAreImported(stack)
    /\ ControlPlaced(ctl, stack)
    /\ ctl.mode = "done" /\ ~hadError /\ ~signals.returning => DOMAIN heap = {}

(* The second: what is held.  A value that is used again is not dangling,   *)
(* and the only scopes that are values are the modules.                     *)
Proper(h, m, v) == v \in Obj => v \in DOMAIN h /\ (h[v].kind = "env" => v \in m)

NoneDangles(h, m) ==
    \A o \in DOMAIN h : /\ h[o].link \in Obj => IsScope(h, h[o].link)
                        /\ \A v \in h[o].refs : Proper(h, m, v)

(* The scopes that a search from e passes in the heap h.                    *)
ChainIn(h, e) ==
    Trace([o \in Obj |-> IF o \in DOMAIN h /\ h[o].kind \in {"env"} THEN {h[o].link} \cap Obj
                         ELSE {}], {e})

(* The function that frame i is about to call is kept by the call it was    *)
(* the callee of, or by a module or a scope that a variable is looked up in. *)
Keeps(h, m, f, e) ==
    /\ e \in m \cup ChainIn(h, f.env)
    /\ IsScope(h, e)
    /\ f.target \in h[e].refs

Held(h, m, s, i) ==
    /\ s[i].target \in Obj
    /\ \/ i > 1 /\ s[i - 1].at = "callv" /\ s[i].target = s[i - 1].pinned[1]
       \/ \E e \in DOMAIN h : Keeps(h, m, s[i], e)

FrameSafe(h, m, s, i) ==
    /\ \A v \in Pinned(s[i].pinned) : Proper(h, m, v)
    /\ IF s[i].at = "arg_function" THEN Held(h, m, s, i)
       ELSE s[i].at = "module" \/ s[i].target = Nil
    /\ s[i].at \in {"forin_next", "forin_body"} => s[i].pinned[1] \in Obj
    /\ s[i].at \in ScopeFrames => \A j \in 1 .. i - 1 : s[i].env \notin ChainIn(h, s[j].env)

FramesSafe(h, m, s) == \A i \in DOMAIN s : FrameSafe(h, m, s, i)

Safe ==
    /\ NoneDangles(heap, modules)
    /\ Proper(heap, modules, ctl.val)
    /\ signals.returning => Proper(heap, modules, signals.value)
    /\ FramesSafe(heap, modules, stack)

CalleesStayPut == "rebind" \notin constructs

-----------------------------------------------------------------------------
(* The chain of a scope.                                                    *)

Links(h) == [o \in Obj |-> IF o \in DOMAIN h /\ h[o].kind \in {"env"} THEN {h[o].link} \cap Obj
                           ELSE {}]

(* A chain is what the parents of a scope lead to.                          *)
LEMMA ChainIsReach ==
    ASSUME NEW h, NEW e \in Obj
    PROVE  /\ Links(h) \in [Obj -> SUBSET Obj] /\ {e} \in SUBSET Obj
           /\ ChainIn(h, e) = Reach(Links(h), {e})
           /\ e \in ChainIn(h, e)
<1>1. Links(h) \in [Obj -> SUBSET Obj] /\ {e} \in SUBSET Obj
  BY DEF Links
<1>2. ChainIn(h, e) = Trace(Links(h), {e})
  BY DEF ChainIn, Links
<1> HIDE DEF Links
<1>3. Trace(Links(h), {e}) = Reach(Links(h), {e})
  BY <1>1, ObjAssumption, TraceFindsWhatIsReached
<1>4. {e} \subseteq Reach(Links(h), {e})
  BY <1>1, ReachContainsRoots
<1> QED
  BY <1>1, <1>2, <1>3, <1>4

(* It consists of scopes.                                                   *)
LEMMA ChainsAreScopes ==
    ASSUME NEW h, DOMAIN h \subseteq Obj, NEW e, IsScope(h, e),
           \A o \in DOMAIN h : h[o].link \in Obj => IsScope(h, h[o].link)
    PROVE  \A s \in ChainIn(h, e) : IsScope(h, s)
<1> DEFINE S == {s \in DOMAIN h : h[s].kind = "env"}
<1>1. S \in SUBSET Obj /\ {e} \subseteq S /\ e \in Obj
  BY DEF IsScope
<1>2. Closed(Links(h), S)
  BY DEF Closed, Links, IsScope
<1> HIDE DEF S
<1>3. Reach(Links(h), {e}) \subseteq S
  BY <1>1, <1>2, ChainIsReach, ReachIsLeast
<1> QED
  BY <1>1, <1>3, ChainIsReach DEF S, IsScope

(* It only depends on the scopes it consists of.                            *)
LEMMA ChainsStay ==
    ASSUME NEW h, DOMAIN h \subseteq Obj, NEW e, IsScope(h, e),
           \A o \in DOMAIN h : h[o].link \in Obj => IsScope(h, h[o].link),
           NEW h2,
           \A s \in ChainIn(h, e) : /\ s \in DOMAIN h2 /\ h2[s].kind = h[s].kind
                                    /\ h2[s].link = h[s].link
    PROVE  ChainIn(h2, e) = ChainIn(h, e)
<1>1. e \in Obj
  BY DEF IsScope
<1>2. /\ Links(h) \in [Obj -> SUBSET Obj] /\ Links(h2) \in [Obj -> SUBSET Obj] /\ {e} \in SUBSET Obj
      /\ ChainIn(h, e) = Reach(Links(h), {e}) /\ ChainIn(h2, e) = Reach(Links(h2), {e})
  BY <1>1, ChainIsReach
<1>3. \A s \in ChainIn(h, e) : s \in DOMAIN h
  BY ChainsAreScopes DEF IsScope
<1>4. \A s \in ChainIn(h, e) : Links(h2)[s] = Links(h)[s]
  BY <1>3 DEF Links
<1>5. PICK e1 \in [Obj -> SUBSET Obj], e2 \in [Obj -> SUBSET Obj] : e1 = Links(h) /\ e2 = Links(h2)
  BY <1>2
<1>6. \A s \in Reach(e1, {e}) : e2[s] = e1[s]
  BY <1>2, <1>4, <1>5
<1>7. Reach(e2, {e}) = Reach(e1, {e})
  <2>1. {e} \in SUBSET Obj
    BY <1>1
  <2>2. \A roots \in SUBSET Obj : (\A o \in Reach(e1, roots) : e2[o] = e1[o])
                                 => Reach(e2, roots) = Reach(e1, roots)
    BY ReachIsLocal
  <2> QED
    BY <1>6, <2>1, <2>2, Zenon
<1> QED
  BY <1>2, <1>5, <1>7

(* The parents of the scopes in a chain are in it.                          *)
LEMMA ChainsLieIn ==
    ASSUME NEW h, NEW e \in Obj, NEW S \in SUBSET Obj, e \in S,
           \A o \in S \cap DOMAIN h : h[o].kind = "env" => {h[o].link} \cap Obj \subseteq S
    PROVE  ChainIn(h, e) \subseteq S
<1>1. Closed(Links(h), S)
  BY DEF Closed, Links
<1>2. Reach(Links(h), {e}) \subseteq S
  BY <1>1, ChainIsReach, ReachIsLeast
<1> QED
  BY <1>2, ChainIsReach

(* What env_get and env_set search is the chain in the present heap.        *)
LEMMA ChainIsChainIn == \A e : Chain(e) = ChainIn(heap, e)
BY DEF Chain, ChainIn, IsKind

-----------------------------------------------------------------------------
(* What a collection keeps.                                                 *)

PointersIn(h) == [o \in Obj |-> IF o \in DOMAIN h THEN (h[o].refs \cup {h[o].link}) \cap DOMAIN h
                                ELSE {}]

(* What is traced from some objects: they, and what they lead to.           *)
LEMMA KeptIsClosed ==
    ASSUME NEW h, DOMAIN h \subseteq Obj, NEW roots \in SUBSET DOMAIN h, NEW kept,
           kept = Trace(PointersIn(h), roots)
    PROVE  /\ kept \subseteq DOMAIN h
           /\ roots \subseteq kept
           /\ \A o \in kept : (h[o].refs \cup {h[o].link}) \cap DOMAIN h \subseteq kept
           /\ roots = {} => kept = {}
<1>1. PointersIn(h) \in [Obj -> SUBSET Obj] /\ roots \in SUBSET Obj
  BY DEF PointersIn
<1>2. kept = Reach(PointersIn(h), roots)
  BY <1>1, ObjAssumption, TraceFindsWhatIsReached
<1>3. Closed(PointersIn(h), DOMAIN h)
  BY DEF Closed, PointersIn
<1>4. kept \subseteq DOMAIN h
  BY <1>1, <1>2, <1>3, ReachIsLeast
<1>5. roots \subseteq kept
  BY <1>1, <1>2, ReachContainsRoots
<1>6. Closed(PointersIn(h), kept)
  BY <1>1, <1>2, ReachIsClosed
<1>7. ASSUME roots = {} PROVE kept = {}
  BY <1>1, <1>2, <1>7, ReachIsLeast DEF Closed
<1> QED
  BY <1>4, <1>5, <1>6, <1>7 DEF Closed, PointersIn

-----------------------------------------------------------------------------
(* What a step without a collection does to the heap.                       *)

(* Nothing goes, and no object changes its kind or its parent.              *)
Grows(h, g) ==
    /\ DOMAIN h \subseteq DOMAIN g /\ IsHeap(g)
    /\ \A o \in DOMAIN h : g[o].kind = h[o].kind /\ g[o].link = h[o].link

(* What keeps a function that is about to be called still does.             *)
KeepsCallees(h, g, m, s) ==
    \A i \in DOMAIN s, e \in DOMAIN h :
        s[i].at = "arg_function" /\ Keeps(h, m, s[i], e) => s[i].target \in g[e].refs

(* A handle that may be used stays so.                                      *)
LEMMA ProperStays ==
    ASSUME NEW h, NEW g, Grows(h, g), NEW m, NEW n, m \subseteq n
    PROVE  /\ \A v : Proper(h, m, v) => Proper(g, n, v)
           /\ \A e : IsScope(h, e) => IsScope(g, e) /\ g[e].link = h[e].link
BY DEF Grows, Proper, IsScope

(* The heap with the references R in the object c.                          *)
Stored(h, c, R) == [h EXCEPT ![c].refs = R]

(* Storing them changes nothing else.                                       *)
LEMMA StoreGrows ==
    ASSUME NEW h, IsHeap(h), NEW c, NEW R, NEW g, g = Stored(h, c, R)
    PROVE  /\ Grows(h, g)
           /\ DOMAIN g = DOMAIN h
           /\ c \in DOMAIN h => g[c].refs = R
           /\ \A o \in DOMAIN h : /\ o # c => g[o] = h[o]
                                  /\ g[o].kind = h[o].kind /\ g[o].link = h[o].link
<1>1. ASSUME NEW x, IsObject(x), NEW y, y = [x EXCEPT !.refs = R]
      PROVE  IsObject(y) /\ y.refs = R /\ y.kind = x.kind /\ y.link = x.link
  BY <1>1 DEF IsObject
<1>2. DOMAIN g = DOMAIN h /\ \A o \in DOMAIN h : o # c => g[o] = h[o]
  BY DEF Stored
<1>3. c \in DOMAIN h => g[c] = [h[c] EXCEPT !.refs = R]
  BY DEF Stored
<1>4. \A o \in DOMAIN h : IsObject(h[o])
  BY DEF IsHeap
<1>5. ASSUME c \in DOMAIN h
      PROVE  IsObject(g[c]) /\ g[c].refs = R /\ g[c].kind = h[c].kind /\ g[c].link = h[c].link
  BY <1>1, <1>3, <1>4, <1>5
<1>6. \A o \in DOMAIN h : /\ IsObject(g[o])
                          /\ g[o].kind = h[o].kind /\ g[o].link = h[o].link
  BY <1>2, <1>4, <1>5
<1> QED
  BY <1>2, <1>5, <1>6 DEF Grows, IsHeap

(* It has no dangling handle if there is none among R.                      *)
LEMMA StoreIsSafe ==
    ASSUME NEW h, IsHeap(h), NEW c, NEW R, NEW g, g = Stored(h, c, R),
           NEW m, NEW n, m \subseteq n, NoneDangles(h, m),
           c \in DOMAIN h => \A v \in R : Proper(h, n, v)
    PROVE  NoneDangles(g, n)
<1>1. /\ DOMAIN g = DOMAIN h
      /\ c \in DOMAIN h => g[c].refs = R
      /\ \A o \in DOMAIN h : /\ o # c => g[o] = h[o]
                             /\ g[o].kind = h[o].kind /\ g[o].link = h[o].link
  BY StoreGrows
<1>2. \A v : Proper(h, n, v) => Proper(g, n, v)
  BY <1>1 DEF Proper
<1>3. \A v : Proper(h, m, v) => Proper(h, n, v)
  BY DEF Proper
<1>4. ASSUME NEW o \in DOMAIN g, NEW v \in g[o].refs PROVE Proper(g, n, v)
  BY <1>1, <1>2, <1>3, <1>4 DEF NoneDangles
<1>5. ASSUME NEW o \in DOMAIN g, g[o].link \in Obj PROVE IsScope(g, g[o].link)
  BY <1>1, <1>5 DEF NoneDangles, IsScope
<1> QED
  BY <1>4, <1>5 DEF NoneDangles

(* It keeps the functions that are about to be called if R has those of c.  *)
LEMMA StoreKeepsCallees ==
    ASSUME NEW h, IsHeap(h), NEW c, NEW R, NEW g, g = Stored(h, c, R), NEW m, NEW s,
           \A i \in DOMAIN s : s[i].at = "arg_function" /\ Keeps(h, m, s[i], c) => s[i].target \in R
    PROVE  KeepsCallees(h, g, m, s)
<1>1. /\ c \in DOMAIN h => g[c].refs = R
      /\ \A o \in DOMAIN h : o # c => g[o] = h[o]
  BY StoreGrows
<1> QED
  BY <1>1 DEF KeepsCallees, Keeps, IsScope

MemoryIsLeft == DOMAIN heap # Obj

(* The allocator finds an address.                                          *)
LEMMA FreshIsFree ==
    ASSUME IsHeap(heap), MemoryIsLeft
    PROVE  Fresh \in Obj /\ Fresh \notin DOMAIN heap
<1>1. Obj \ DOMAIN heap \subseteq Nat /\ Obj \ DOMAIN heap # {}
  BY ObjAssumption DEF IsHeap, MemoryIsLeft
<1>2. \E o \in Obj \ DOMAIN heap : \A p \in Obj \ DOMAIN heap : o <= p
  BY <1>1, LeastPlace
<1> QED
  BY <1>2 DEF Fresh

(* The heap with a new object.                                              *)
LEMMA AllocationGrows ==
    ASSUME IsHeap(heap), MemoryIsLeft, NEW k, NEW R, NEW l, NEW g, g = HeapWith(Object(k, R, l))
    PROVE  /\ Fresh \in Obj /\ Fresh \notin DOMAIN heap
           /\ DOMAIN g = DOMAIN heap \cup {Fresh}
           /\ g[Fresh] = Object(k, R, l)
           /\ g[Fresh].kind = k /\ g[Fresh].refs = R /\ g[Fresh].link = l
           /\ \A o \in DOMAIN heap : g[o] = heap[o]
           /\ Grows(heap, g)
<1>1. Fresh \in Obj /\ Fresh \notin DOMAIN heap
  BY FreshIsFree
<1>2. /\ DOMAIN g = DOMAIN heap \cup {Fresh} /\ g[Fresh] = Object(k, R, l)
      /\ \A o \in DOMAIN heap : g[o] = heap[o]
  BY <1>1 DEF HeapWith
<1>3. /\ IsObject(Object(k, R, l)) /\ Object(k, R, l).kind = k /\ Object(k, R, l).refs = R
      /\ Object(k, R, l).link = l
  BY DEF IsObject, Object
<1> QED
  BY <1>1, <1>2, <1>3 DEF Grows, IsHeap

(* It has no dangling handle if the new object has none.                    *)
LEMMA AllocationIsSafe ==
    ASSUME IsHeap(heap), MemoryIsLeft, NEW k, NEW R, NEW l, NEW g, g = HeapWith(Object(k, R, l)),
           NoneDangles(heap, modules), l \in Obj => IsScope(heap, l),
           \A v \in R : Proper(heap, modules, v)
    PROVE  /\ NoneDangles(g, modules)
           /\ KeepsCallees(heap, g, modules, stack)
           /\ k # "env" => Proper(g, modules, Fresh)
<1>1. /\ Fresh \in Obj /\ Fresh \notin DOMAIN heap
      /\ DOMAIN g = DOMAIN heap \cup {Fresh}
      /\ g[Fresh].kind = k /\ g[Fresh].refs = R /\ g[Fresh].link = l
      /\ \A o \in DOMAIN heap : g[o] = heap[o]
      /\ Grows(heap, g)
  BY AllocationGrows
<1>2. \A v : Proper(heap, modules, v) => Proper(g, modules, v)
  BY <1>1, ProperStays
<1>3. ASSUME NEW o \in DOMAIN g, NEW v \in g[o].refs PROVE Proper(g, modules, v)
  BY <1>1, <1>2, <1>3 DEF NoneDangles
<1>4. ASSUME NEW o \in DOMAIN g, g[o].link \in Obj PROVE IsScope(g, g[o].link)
  BY <1>1, <1>4 DEF NoneDangles, IsScope
<1>5. NoneDangles(g, modules)
  BY <1>3, <1>4 DEF NoneDangles
<1>6. KeepsCallees(heap, g, modules, stack)
  BY <1>1 DEF KeepsCallees, Keeps, IsScope
<1>7. k # "env" => Proper(g, modules, Fresh)
  BY <1>1 DEF Proper
<1> QED
  BY <1>5, <1>6, <1>7

-----------------------------------------------------------------------------
(* The stack with a frame more or less.                                     *)

(* Every frame of a stack is one of the smaller stack or the new one.       *)
LEMMA FramesOfAppend ==
    ASSUME NEW b, IsStack(b), NEW f, IsFrame(f)
    PROVE  /\ DOMAIN b \subseteq DOMAIN Append(b, f)
           /\ \A i \in DOMAIN b : Append(b, f)[i] = b[i]
           /\ Len(b) + 1 \in DOMAIN Append(b, f) /\ Append(b, f)[Len(b) + 1] = f
           /\ \A i \in DOMAIN Append(b, f) : i \in DOMAIN b \/ i = Len(b) + 1
<1>1. /\ DOMAIN b = 1 .. Len(b) /\ DOMAIN Append(b, f) = 1 .. Len(b) + 1 /\ Len(b) \in Nat
      /\ (\A i \in 1 .. Len(b) : Append(b, f)[i] = b[i]) /\ Append(b, f)[Len(b) + 1] = f
  BY StackWith
<1> PICK n \in Nat : n = Len(b)
  BY <1>1
<1>2. 1 .. n + 1 = (1 .. n) \cup {n + 1}
  OBVIOUS
<1> QED
  BY <1>1, <1>2

(* A module on a stack was imported.                                        *)
LEMMA ModulesOfAppend ==
    ASSUME NEW b, IsStack(b), NEW f, IsFrame(f)
    PROVE  ModulesAreImported(Append(b, f)) <=>
              ModulesAreImported(b) /\ (f.at = "module" => "import" \in constructs)
BY FramesOfAppend DEF ModulesAreImported

(* What is open on a stack.                                                 *)
LEMMA OpenedOfAppend ==
    ASSUME NEW b, IsStack(b), NEW f, IsFrame(f)
    PROVE  /\ Opened(Append(b, f)) = Opened(b) \cup Opens(f)
           /\ \A i \in DOMAIN b : OpenedBy(Append(b, f), i) = OpenedBy(b, i)
           /\ \A i \in DOMAIN b : Opens(b[i]) \subseteq Opened(b)
<1> DEFINE t == Append(b, f)
<1> PICK n \in Nat : n = Len(b)
  BY SequenceParts DEF IsStack
<1>1. /\ DOMAIN b = 1 .. n /\ Len(t) = n + 1 /\ (\A i \in 1 .. n : t[i] = b[i]) /\ t[n + 1] = f
  BY StackWith
<1> HIDE DEF t
<1>2. ASSUME NEW i \in 0 .. n PROVE OpenedBy(t, i) = OpenedBy(b, i)
  <2>1. \A j \in 1 .. i : t[j] = b[j]
    BY <1>1
  <2> QED
    BY <2>1 DEF OpenedBy
<1>3. OpenedBy(t, n + 1) = OpenedBy(t, n) \cup Opens(t[n + 1])
  <2>1. 1 .. n + 1 = (1 .. n) \cup {n + 1}
    OBVIOUS
  <2> QED
    BY <2>1 DEF OpenedBy
<1>4. n \in 0 .. n
  OBVIOUS
<1>5. \A i \in 1 .. n : Opens(b[i]) \subseteq OpenedBy(b, n)
  BY DEF OpenedBy
<1> QED
  BY <1>1, <1>2, <1>3, <1>4, <1>5 DEF Opened, t

(* The innermost frame is placed when it works in an open scope and has     *)
(* opened none that is another's.                                           *)
TopPlaced(h, m, b, f) ==
    /\ f.env \in Opened(b) \cup Opens(f)
    /\ f.at = "program" => f.env = Globals
    /\ Opens(f) \cap m = {} /\ Opens(f) \cap Opened(b) = {}
    /\ f.at = "module" => IsScope(h, f.target) /\ h[f.target].link = Globals

(* Frames are placed when those below are and the innermost one is.         *)
LEMMA PlacedOfAppend ==
    ASSUME NEW b, IsStack(b), NEW f, IsFrame(f), NEW h, NEW m
    PROVE  Placed(h, m, Append(b, f)) <=> Placed(h, m, b) /\ TopPlaced(h, m, b, f)
<1> DEFINE t == Append(b, f)
<1> PICK n \in Nat : n = Len(b)
  BY SequenceParts DEF IsStack
<1>1. /\ DOMAIN b = 1 .. n /\ DOMAIN t = 1 .. n + 1 /\ Len(t) = n + 1
      /\ (\A i \in 1 .. n : t[i] = b[i]) /\ t[n + 1] = f
      /\ OpenedBy(t, n + 1) = OpenedBy(b, n) \cup Opens(f)
      /\ \A i \in 1 .. n : OpenedBy(t, i) = OpenedBy(b, i)
  BY StackWith, OpenedOfAppend DEF Opened
<1> HIDE DEF t
<1>2. ASSUME NEW i \in 1 .. n PROVE FramePlaced(h, m, t, i) <=> FramePlaced(h, m, b, i)
  <2>1. \A j \in 1 .. i - 1 : t[j] = b[j]
    BY <1>1
  <2>2. t[i] = b[i] /\ OpenedBy(t, i) = OpenedBy(b, i)
    BY <1>1
  <2> QED
    BY <2>1, <2>2 DEF FramePlaced
<1>3. FramePlaced(h, m, t, n + 1) <=> TopPlaced(h, m, b, f)
  <2>1. (\A j \in 1 .. n + 1 - 1 : Opens(f) \cap Opens(t[j]) = {}) <=> Opens(f) \cap OpenedBy(b, n) = {}
    <3>1. n + 1 - 1 = n
      OBVIOUS
    <3>2. \A j \in 1 .. n : Opens(t[j]) = Opens(b[j])
      BY <1>1
    <3> QED
      BY <3>1, <3>2 DEF OpenedBy
  <2> QED
    BY <1>1, <2>1 DEF FramePlaced, TopPlaced, Opened
<1>4. 1 .. n + 1 = (1 .. n) \cup {n + 1}
  OBVIOUS
<1> QED
  BY <1>1, <1>2, <1>3, <1>4 DEF Placed, t

(* The frames below the innermost one are as safe as without it.            *)
LEMMA SafeOfAppend ==
    ASSUME NEW b, IsStack(b), NEW f, IsFrame(f), NEW h, NEW m
    PROVE  FramesSafe(h, m, Append(b, f)) <=>
               FramesSafe(h, m, b) /\ FrameSafe(h, m, Append(b, f), Len(b) + 1)
<1> DEFINE t == Append(b, f)
<1> PICK n \in Nat : n = Len(b)
  BY SequenceParts DEF IsStack
<1>1. /\ DOMAIN b = 1 .. n /\ DOMAIN t = 1 .. n + 1
      /\ (\A i \in 1 .. n : t[i] = b[i])
  BY StackWith
<1> HIDE DEF t
<1>2. ASSUME NEW i \in 1 .. n PROVE FrameSafe(h, m, t, i) <=> FrameSafe(h, m, b, i)
  <2>1. \A j \in 1 .. i - 1 : t[j] = b[j]
    BY <1>1
  <2>2. t[i] = b[i]
    BY <1>1
  <2>3. i > 1 => i - 1 \in 1 .. i - 1
    OBVIOUS
  <2>4. i > 1 => t[i - 1] = b[i - 1]
    BY <2>1, <2>3
  <2>5. Held(h, m, t, i) <=> Held(h, m, b, i)
    BY <2>2, <2>4 DEF Held
  <2> QED
    BY <2>1, <2>2, <2>5 DEF FrameSafe
<1>3. 1 .. n + 1 = (1 .. n) \cup {n + 1}
  OBVIOUS
<1> QED
  BY <1>1, <1>2, <1>3 DEF FramesSafe, t

(* The innermost frame is safe when its pins, its callee and its scope are. *)
TopSafe(h, m, b, f) ==
    /\ \A v \in Pinned(f.pinned) : Proper(h, m, v)
    /\ IF f.at = "arg_function"
       THEN /\ f.target \in Obj
            /\ \/ b # <<>> /\ b[Len(b)].at = "callv" /\ f.target = b[Len(b)].pinned[1]
               \/ \E e \in DOMAIN h : Keeps(h, m, f, e)
       ELSE f.at = "module" \/ f.target = Nil
    /\ f.at \in {"forin_next", "forin_body"} => f.pinned[1] \in Obj
    /\ f.at \in ScopeFrames => \A j \in DOMAIN b : f.env \notin ChainIn(h, b[j].env)

(* It is safe by what is on the frame below and in the heap.                *)
LEMMA TopSafeSuffices ==
    ASSUME NEW b, IsStack(b), NEW f, IsFrame(f), NEW h, NEW m
    PROVE  TopSafe(h, m, b, f) <=> FrameSafe(h, m, Append(b, f), Len(b) + 1)
<1> DEFINE t == Append(b, f)
<1> PICK n \in Nat : n = Len(b)
  BY SequenceParts DEF IsStack
<1>1. /\ DOMAIN b = 1 .. n /\ (\A i \in 1 .. n : t[i] = b[i]) /\ t[n + 1] = f
  BY StackWith
<1> HIDE DEF t
<1>2. /\ n + 1 - 1 = n
      /\ n > 0 => n \in 1 .. n
      /\ n + 1 > 1 <=> n > 0
      /\ b # <<>> <=> n > 0
  BY SequenceParts DEF IsStack
<1>3. n > 0 => t[n] = b[n]
  BY <1>1, <1>2
<1>4. Held(h, m, t, n + 1) <=>
        /\ f.target \in Obj
        /\ \/ b # <<>> /\ b[n].at = "callv" /\ f.target = b[n].pinned[1]
           \/ \E e \in DOMAIN h : Keeps(h, m, f, e)
  BY <1>1, <1>2, <1>3 DEF Held
<1>5. (\A j \in 1 .. n + 1 - 1 : f.env \notin ChainIn(h, t[j].env))
        <=> \A j \in DOMAIN b : f.env \notin ChainIn(h, b[j].env)
  <2>1. \A j \in 1 .. n : t[j] = b[j]
    BY <1>1
  <2> QED
    BY <1>1, <1>2, <2>1
<1> QED
  BY <1>1, <1>4, <1>5 DEF FrameSafe, TopSafe, t

-----------------------------------------------------------------------------
(* The first part, while nothing is collected.                              *)

(* The scopes that activations work in are allocated.                       *)
LEMMA EnvsAreScopes ==
    ASSUME Sound, Registered
    PROVE  /\ \A i \in DOMAIN stack : stack[i].env \in live /\ IsScope(heap, stack[i].env)
           /\ ctl.mode \in {"eval", "exec", "block"} => ctl.env \in live /\ IsScope(heap, ctl.env)
           /\ ctl.mode # "done" => Globals \in live /\ IsScope(heap, Globals)
           /\ ctl.mode # "done" => \A e \in modules : IsScope(heap, e)
<1>1. IsStack(stack) /\ Ordered(stack) /\ (stack # <<>> <=> ctl.mode # "done")
  BY DEF Sound, Grounded, Disciplined, Ordered
<1>2. DOMAIN stack = 1 .. Len(stack) /\ Len(stack) \in Nat /\ (stack = <<>> <=> Len(stack) = 0)
  BY <1>1, SequenceParts DEF IsStack
<1>3. ASSUME NEW i \in DOMAIN stack PROVE stack[i].env \in Opened(stack)
  <2>1. OpenedBy(stack, i) \subseteq Opened(stack)
    BY <1>2 DEF OpenedBy, Opened
  <2> QED
    BY <2>1 DEF Registered, Placed, FramePlaced
<1>4. ctl.mode # "done" => Globals \in live
  <2>1. ctl.mode # "done" => 1 \in DOMAIN stack
    BY <1>1, <1>2
  <2>2. 1 \in DOMAIN stack => stack[1].env = Globals
    BY <1>1 DEF Ordered, Fits, Registered, Placed, FramePlaced
  <2> QED
    BY <1>3, <2>1, <2>2 DEF Registered
<1> QED
  BY <1>3, <1>4 DEF Registered, ControlPlaced

(* What is placed stays so while the heap grows.                            *)
LEMMA PlacedStays ==
    ASSUME NEW h, NEW g, Grows(h, g), NEW m, NEW s, Placed(h, m, s)
    PROVE  Placed(g, m, s)
<1>1. \A e : IsScope(h, e) => IsScope(g, e) /\ g[e].link = h[e].link
  BY ProperStays DEF Grows, IsScope
<1> QED
  BY <1>1 DEF Placed, FramePlaced

(* What a step may do that keeps the first part: the scopes N are opened,   *)
(* and nothing is closed.                                                   *)
LEMMA RegisteredFollows ==
    ASSUME Registered, ctl.mode # "done", Grows(heap, heap'), modules' = modules,
           hadError => hadError', constructs' = constructs,
           NEW N, \A o \in N : IsScope(heap', o),
           live' = live \cup N, Opened(stack') = Opened(stack) \cup N,
           Placed(heap', modules, stack'), ModulesAreImported(stack'),
           ControlPlaced(ctl', stack'), ctl'.mode # "done"
    PROVE  Registered'
<1>1. IsHeap(heap')
  BY DEF Grows
<1>2. \A e : IsScope(heap, e) => IsScope(heap', e) /\ heap'[e].link = heap[e].link
  BY ProperStays
<1>3. \A o \in live' : IsScope(heap', o)
  BY <1>2 DEF Registered
<1>4. Opened(stack') \subseteq live' /\ modules' \subseteq live'
  BY DEF Registered
<1>5. ASSUME NEW o \in live'
      PROVE  o \in Opened(stack') \/ o \in modules' \/ LeftBehind(heap, o)'
  BY <1>2 DEF Registered, LeftBehind
<1>6. ModulesAreImported(stack)'
  BY DEF ModulesAreImported
<1>7. ControlPlaced(ctl, stack)'
  OBVIOUS
<1>8. Placed(heap, modules, stack)'
  OBVIOUS
<1> QED
  BY <1>1, <1>3, <1>4, <1>5, <1>6, <1>7, <1>8 DEF Registered

(* The activation is over, or goes on where it is, and opened no scope.     *)
LEMMA RegisteredAtRest ==
    ASSUME Sound, Registered, ctl.mode # "done", Grows(heap, heap'), modules' = modules,
           hadError => hadError', constructs' = constructs, live' = live,
           stack' = stack \/ (stack' = Below /\ Opens(Top) = {}),
           ControlPlaced(ctl', stack'), ctl'.mode # "done"
    PROVE  Registered'
<1>1. IsFrame(Top) /\ IsStack(Below) /\ stack = Append(Below, Top)
  BY TopParts DEF Sound
<1>2. Placed(heap, modules, Below) /\ Opened(stack) = Opened(Below) \cup Opens(Top)
  BY <1>1, PlacedOfAppend, OpenedOfAppend DEF Registered
<1>3. ModulesAreImported(Below)
  BY <1>1, ModulesOfAppend DEF Registered
<1>4. Placed(heap, modules, stack') /\ ModulesAreImported(stack') /\ Opened(stack') = Opened(stack) \cup {}
  BY <1>2, <1>3 DEF Registered
<1>5. Placed(heap', modules, stack')
  BY <1>4, PlacedStays
<1> QED
  BY <1>4, <1>5, RegisteredFollows

(* A new activation, or the next point of one, without a new scope.         *)
LEMMA RegisteredGoesOn ==
    ASSUME Sound, Registered, ctl.mode # "done", Grows(heap, heap'), modules' = modules,
           hadError => hadError', constructs' = constructs, live' = live,
           NEW f, IsFrame(f), f.at \notin {"program", "module"},
           \/ stack' = Append(stack, f) /\ Opens(f) = {} /\ f.env \in Opened(stack)
           \/ /\ stack' = Append(Below, f) /\ f.env = Top.env /\ Opens(f) = Opens(Top)
              /\ Top.at \notin {"program", "module"},
           ControlPlaced(ctl', stack'), ctl'.mode # "done"
    PROVE  Registered'
<1>1. IsStack(stack) /\ IsFrame(Top) /\ IsStack(Below) /\ stack = Append(Below, Top)
  BY TopParts DEF Sound
<1>2. Placed(heap, modules, Below) /\ TopPlaced(heap, modules, Below, Top)
      /\ Opened(stack) = Opened(Below) \cup Opens(Top)
  BY <1>1, PlacedOfAppend, OpenedOfAppend DEF Registered
<1>3. ModulesAreImported(stack) /\ ModulesAreImported(Below)
  BY <1>1, ModulesOfAppend DEF Registered
<1>4. ModulesAreImported(stack')
  BY <1>1, <1>3, ModulesOfAppend
<1>5. CASE stack' = Append(stack, f) /\ Opens(f) = {} /\ f.env \in Opened(stack)
  <2>1. Opened(stack') = Opened(stack) \cup {}
    BY <1>1, <1>5, OpenedOfAppend
  <2>2. Placed(heap, modules, stack')
    BY <1>1, <1>5, PlacedOfAppend DEF TopPlaced, Registered
  <2>3. Placed(heap', modules, stack')
    BY <2>2, PlacedStays
  <2> QED
    BY <1>4, <1>5, <2>1, <2>3, RegisteredFollows
<1>6. CASE /\ stack' = Append(Below, f) /\ f.env = Top.env /\ Opens(f) = Opens(Top)
           /\ Top.at \notin {"program", "module"}
  <2>1. Opened(stack') = Opened(stack) \cup {}
    BY <1>1, <1>2, <1>6, OpenedOfAppend
  <2>2. Placed(heap, modules, stack')
    BY <1>1, <1>2, <1>6, PlacedOfAppend DEF TopPlaced
  <2>3. Placed(heap', modules, stack')
    BY <2>2, PlacedStays
  <2> QED
    BY <1>4, <1>6, <2>1, <2>3, RegisteredFollows
<1> QED
  BY <1>5, <1>6

(* An activation with a new scope, which an address outside of the heap is. *)
LEMMA RegisteredOpens ==
    ASSUME Sound, Registered, ctl.mode # "done", Grows(heap, heap'), modules' = modules,
           hadError => hadError', constructs' = constructs,
           NEW n, n \notin DOMAIN heap, IsScope(heap', n), live' = live \cup {n},
           NEW f, IsFrame(f), f.at # "program", Opens(f) = {n},
           NEW b, b = stack \/ (b = Below /\ Opens(Top) = {}), stack' = Append(b, f),
           f.env = n \/ f.env \in Opened(b),
           f.at = "module" => heap'[n].link = Globals /\ "import" \in constructs,
           ControlPlaced(ctl', stack'), ctl'.mode # "done"
    PROVE  Registered'
<1>1. IsStack(stack) /\ IsFrame(Top) /\ IsStack(Below) /\ stack = Append(Below, Top)
  BY TopParts DEF Sound
<1>2. Placed(heap, modules, Below) /\ Opened(stack) = Opened(Below) \cup Opens(Top)
  BY <1>1, PlacedOfAppend, OpenedOfAppend DEF Registered
<1>3. ModulesAreImported(stack) /\ ModulesAreImported(Below)
  BY <1>1, ModulesOfAppend DEF Registered
<1>4. /\ IsStack(b) /\ Placed(heap, modules, b) /\ ModulesAreImported(b) /\ Opened(b) = Opened(stack)
  BY <1>1, <1>2, <1>3 DEF Registered
<1>5. n \notin modules /\ n \notin Opened(b)
  BY <1>4 DEF Registered, IsScope
<1>6. f.at = "module" => f.target = n
  BY DEF Opens, ScopeFrames
<1>7. TopPlaced(heap', modules, b, f)
  BY <1>5, <1>6 DEF TopPlaced
<1>8. Placed(heap', modules, stack')
  BY <1>4, <1>7, PlacedStays, PlacedOfAppend
<1>9. Opened(stack') = Opened(stack) \cup {n}
  BY <1>4, OpenedOfAppend
<1>10. ModulesAreImported(stack')
  BY <1>4, ModulesOfAppend
<1> QED
  BY <1>8, <1>9, <1>10, RegisteredFollows

-----------------------------------------------------------------------------
(* The second part, while nothing is collected.                             *)

(* A frame stays safe while the heap grows and its callee is kept.          *)
LEMMA FramesStaySafe ==
    ASSUME NEW h, IsHeap(h), NEW g, Grows(h, g), NEW m, NoneDangles(h, m), NEW n, m \subseteq n,
           NEW s, \A i \in DOMAIN s : IsScope(h, s[i].env), \A i \in DOMAIN s : \A j \in 1 .. i - 1 : j \in DOMAIN s,
           KeepsCallees(h, g, m, s), FramesSafe(h, m, s)
    PROVE  /\ FramesSafe(g, n, s)
           /\ \A i \in DOMAIN s : ChainIn(g, s[i].env) = ChainIn(h, s[i].env)
           /\ \A i \in DOMAIN s : ChainIn(g, s[i].env) \subseteq DOMAIN h
<1>1. /\ DOMAIN h \subseteq Obj
      /\ \A o \in DOMAIN h : h[o].link \in Obj => IsScope(h, h[o].link)
  BY DEF IsHeap, NoneDangles
<1>2. /\ \A v : Proper(h, m, v) => Proper(g, n, v)
      /\ \A e : IsScope(h, e) => IsScope(g, e)
  BY ProperStays
<1>3. ASSUME NEW i \in DOMAIN s
      PROVE  /\ ChainIn(g, s[i].env) = ChainIn(h, s[i].env)
             /\ ChainIn(g, s[i].env) \subseteq DOMAIN h
  <2>1. IsScope(h, s[i].env)
    OBVIOUS
  <2>2. \A e \in ChainIn(h, s[i].env) : IsScope(h, e)
    BY <1>1, <2>1, ChainsAreScopes
  <2>3. \A e \in ChainIn(h, s[i].env) : e \in DOMAIN g /\ g[e].kind = h[e].kind /\ g[e].link = h[e].link
    BY <2>2 DEF Grows, IsScope
  <2>4. ChainIn(g, s[i].env) = ChainIn(h, s[i].env)
    BY <1>1, <2>1, <2>3, ChainsStay
  <2> QED
    BY <2>2, <2>4 DEF IsScope
<1>4. ASSUME NEW i \in DOMAIN s PROVE FrameSafe(g, n, s, i)
  <2>1. FrameSafe(h, m, s, i)
    BY DEF FramesSafe
  <2>2. ASSUME s[i].at = "arg_function" PROVE Held(g, n, s, i)
    <3>1. Held(h, m, s, i)
      BY <2>1, <2>2 DEF FrameSafe
    <3>2. ASSUME NEW e \in DOMAIN h, Keeps(h, m, s[i], e) PROVE e \in DOMAIN g /\ Keeps(g, n, s[i], e)
      <4>1. s[i].target \in g[e].refs
        BY <2>2, <3>2 DEF KeepsCallees
      <4> QED
        BY <1>2, <1>3, <3>2, <4>1 DEF Keeps, Grows
    <3> QED
      BY <3>1, <3>2 DEF Held
  <2>3. s[i].at \in ScopeFrames => \A j \in 1 .. i - 1 : s[i].env \notin ChainIn(g, s[j].env)
    BY <1>3, <2>1 DEF FrameSafe
  <2> QED
    BY <1>2, <2>1, <2>2, <2>3 DEF FrameSafe
<1> QED
  BY <1>3, <1>4 DEF FramesSafe

(* The programs of which this is shown, and all that is known of them.      *)
Switchless == ReturnsStayPut /\ CalleesStayPut
Secure == Switchless /\ Exact /\ Safe

(* What a step does besides moving the stack and the control.               *)
Carries ==
    /\ Grows(heap, heap') /\ modules' = modules
    /\ hadError => hadError'
    /\ constructs' = constructs
    /\ Secure => /\ NoneDangles(heap', modules)
                 /\ KeepsCallees(heap, heap', modules, stack)
                 /\ signals'.returning => Proper(heap', modules, signals'.value)

(* What is known of the top before a step.                                  *)
LEMMA TopIsPlaced ==
    ASSUME Sound, Registered, ctl.mode # "done"
    PROVE  /\ IsStack(stack) /\ IsFrame(Top) /\ IsStack(Below) /\ stack = Append(Below, Top)
           /\ Top.env \in Opened(stack) /\ Top.env \in live /\ IsScope(heap, Top.env)
           /\ Opened(stack) = Opened(Below) \cup Opens(Top)
           /\ Opened(stack) \subseteq live
           /\ Globals \in Opened(stack)
           /\ Placed(heap, modules, Below) /\ TopPlaced(heap, modules, Below, Top)
           /\ ModulesAreImported(Below)
           /\ Safe => FramesSafe(heap, modules, Below) /\ TopSafe(heap, modules, Below, Top)
           /\ \A i \in DOMAIN Below : i \in DOMAIN stack /\ Below[i] = stack[i]
<1>1. /\ IsStack(stack) /\ IsFrame(Top) /\ IsStack(Below) /\ stack = Append(Below, Top)
      /\ Len(stack) \in DOMAIN stack /\ Fits(stack, 1) /\ 1 \in DOMAIN stack
  BY TopParts DEF Sound, Grounded, Disciplined
<1>2. Placed(heap, modules, Below) /\ TopPlaced(heap, modules, Below, Top)
      /\ Opened(stack) = Opened(Below) \cup Opens(Top)
  BY <1>1, PlacedOfAppend, OpenedOfAppend DEF Registered
<1>3. ModulesAreImported(Below)
  BY <1>1, ModulesOfAppend DEF Registered
<1>4. IsScope(heap, Top.env) /\ Top.env \in live
  BY <1>1, EnvsAreScopes DEF Top
<1>5. Top.env \in Opened(stack) /\ Opened(stack) \subseteq live
  BY <1>2 DEF TopPlaced, Registered
<1>6. Safe => FramesSafe(heap, modules, Below) /\ TopSafe(heap, modules, Below, Top)
  BY <1>1, SafeOfAppend, TopSafeSuffices DEF Safe
<1>7. Globals \in Opened(stack)
  <2>1. stack[1].env = Globals /\ stack[1].env \in OpenedBy(stack, 1)
    BY <1>1 DEF Registered, Placed, FramePlaced, Fits
  <2>2. OpenedBy(stack, 1) \subseteq Opened(stack)
    <3>1. 1 .. 1 \subseteq 1 .. Len(stack)
      BY TopParts DEF Sound
    <3> QED
      BY <3>1 DEF OpenedBy, Opened
  <2> QED
    BY <2>1, <2>2
<1>8. \A i \in DOMAIN Below : i \in DOMAIN stack /\ Below[i] = stack[i]
  <2>1. \A i \in DOMAIN Below : Append(Below, Top)[i] = Below[i] /\ i \in DOMAIN Append(Below, Top)
    BY <1>1, FramesOfAppend
  <2> QED
    BY <1>1, <2>1
<1> QED
  BY <1>1, <1>2, <1>3, <1>4, <1>5, <1>6, <1>7, <1>8

(* The frames are safe when such a step is over.                            *)
LEMMA CarriedFrames ==
    ASSUME Sound, Registered, ctl.mode # "done", Carries, Secure
    PROVE  /\ FramesSafe(heap', modules, stack) /\ FramesSafe(heap', modules, Below)
           /\ TopSafe(heap', modules, Below, Top)
           /\ \A i \in DOMAIN stack : ChainIn(heap', stack[i].env) = ChainIn(heap, stack[i].env)
           /\ \A i \in DOMAIN stack : ChainIn(heap', stack[i].env) \subseteq DOMAIN heap
           /\ \A v : Proper(heap, modules, v) => Proper(heap', modules, v)
<1>1. /\ IsStack(stack) /\ IsFrame(Top) /\ IsStack(Below) /\ stack = Append(Below, Top)
  BY TopIsPlaced
<1>2. IsHeap(heap) /\ Grows(heap, heap') /\ NoneDangles(heap, modules) /\ FramesSafe(heap, modules, stack)
      /\ KeepsCallees(heap, heap', modules, stack)
  BY DEF Registered, Secure, Safe, Carries
<1>3. \A i \in DOMAIN stack : IsScope(heap, stack[i].env)
  BY EnvsAreScopes
<1>4. \A i \in DOMAIN stack : \A j \in 1 .. i - 1 : j \in DOMAIN stack
  <2> PICK n \in Nat : n = Len(stack)
    BY TopParts DEF Sound
  <2>1. DOMAIN stack = 1 .. n
    BY TopParts DEF Sound
  <2> QED
    BY <2>1
<1>5. /\ FramesSafe(heap', modules, stack)
      /\ \A i \in DOMAIN stack : ChainIn(heap', stack[i].env) = ChainIn(heap, stack[i].env)
      /\ \A i \in DOMAIN stack : ChainIn(heap', stack[i].env) \subseteq DOMAIN heap
  BY <1>2, <1>3, <1>4, FramesStaySafe
<1>6. FramesSafe(heap', modules, Below) /\ TopSafe(heap', modules, Below, Top)
  BY <1>1, <1>5, SafeOfAppend, TopSafeSuffices
<1>7. \A v : Proper(heap, modules, v) => Proper(heap', modules, v)
  BY <1>2, ProperStays
<1> QED
  BY <1>5, <1>6, <1>7

(* The first part, after a step that opens the scopes N.                    *)
LEMMA CarriedScopes ==
    ASSUME Registered, ctl.mode # "done", Carries,
           NEW N, \A o \in N : IsScope(heap', o),
           live' = live \cup N, Opened(stack') = Opened(stack) \cup N,
           Placed(heap', modules, stack'), ModulesAreImported(stack'),
           ControlPlaced(ctl', stack'), ctl'.mode # "done"
    PROVE  Registered'
BY RegisteredFollows DEF Carries

(* The activation is over, or goes on where it is, and opened no scope.     *)
LEMMA Rests ==
    ASSUME Sound, Registered, ctl.mode # "done", Carries, live' = live,
           stack' = stack \/ (stack' = Below /\ Opens(Top) = {}),
           ControlPlaced(ctl', stack'), ctl'.mode # "done",
           Secure => Proper(heap', modules, ctl'.val)
    PROVE  Registered' /\ (Secure => Safe')
<1>1. Registered'
  BY RegisteredAtRest DEF Carries
<1>2. ASSUME Secure PROVE Safe'
  <2>1. FramesSafe(heap', modules, stack')
    BY <1>2, CarriedFrames
  <2> QED
    BY <1>2, <2>1 DEF Safe, Carries
<1> QED
  BY <1>1, <1>2

(* A new activation, or the next point of one, without a new scope.         *)
LEMMA GoesOn ==
    ASSUME Sound, Registered, ctl.mode # "done", Carries, live' = live,
           NEW f, IsFrame(f), f.at \notin {"program", "module"},
           \/ stack' = Append(stack, f) /\ Opens(f) = {} /\ f.env \in Opened(stack)
              /\ (Secure => TopSafe(heap', modules, stack, f))
           \/ /\ stack' = Append(Below, f) /\ f.env = Top.env /\ Opens(f) = Opens(Top)
              /\ Top.at \notin {"program", "module"}
              /\ (Secure => TopSafe(heap', modules, Below, f)),
           ControlPlaced(ctl', stack'), ctl'.mode # "done",
           Secure => Proper(heap', modules, ctl'.val)
    PROVE  Registered' /\ (Secure => Safe')
<1>1. Registered'
  BY RegisteredGoesOn DEF Carries
<1>2. ASSUME Secure PROVE Safe'
  <2>1. FramesSafe(heap', modules, stack) /\ FramesSafe(heap', modules, Below)
        /\ IsStack(stack) /\ IsStack(Below)
    BY <1>2, CarriedFrames, TopIsPlaced
  <2>2. \/ stack' = Append(stack, f) /\ TopSafe(heap', modules, stack, f)
        \/ stack' = Append(Below, f) /\ TopSafe(heap', modules, Below, f)
    BY <1>2
  <2>3. FramesSafe(heap', modules, Append(stack, f)) \/ ~TopSafe(heap', modules, stack, f)
    BY <2>1, SafeOfAppend, TopSafeSuffices
  <2>4. FramesSafe(heap', modules, Append(Below, f)) \/ ~TopSafe(heap', modules, Below, f)
    BY <2>1, SafeOfAppend, TopSafeSuffices
  <2>5. FramesSafe(heap', modules, stack')
    BY <2>2, <2>3, <2>4
  <2> QED
    BY <1>2, <2>5 DEF Safe, Carries
<1> QED
  BY <1>1, <1>2

(* An activation with a new scope.                                          *)
LEMMA OpensScope ==
    ASSUME Sound, Registered, ctl.mode # "done", Carries,
           NEW n, n \notin DOMAIN heap, IsScope(heap', n), live' = live \cup {n},
           NEW f, IsFrame(f), f.at # "program", f.at # "arg_function", Opens(f) = {n},
           NEW b, b = stack \/ (b = Below /\ Opens(Top) = {}), stack' = Append(b, f),
           f.env = n \/ f.env \in Opened(b),
           f.at = "module" => heap'[n].link = Globals /\ "import" \in constructs,
           f.at = "module" \/ f.target = Nil,
           f.at \in {"forin_next", "forin_body"} => f.pinned[1] \in Obj,
           Secure => \A v \in Pinned(f.pinned) : Proper(heap', modules, v),
           ControlPlaced(ctl', stack'), ctl'.mode # "done",
           Secure => Proper(heap', modules, ctl'.val)
    PROVE  Registered' /\ (Secure => Safe')
<1>1. Registered'
  BY RegisteredOpens DEF Carries
<1>2. ASSUME Secure PROVE Safe'
  <2>1. /\ FramesSafe(heap', modules, stack) /\ FramesSafe(heap', modules, Below)
        /\ IsStack(stack) /\ IsStack(Below)
        /\ \A i \in DOMAIN stack : ChainIn(heap', stack[i].env) \subseteq DOMAIN heap
        /\ \A i \in DOMAIN Below : i \in DOMAIN stack /\ Below[i] = stack[i]
    BY <1>2, CarriedFrames, TopIsPlaced
  <2>2. \A j \in DOMAIN b : n \notin ChainIn(heap', b[j].env)
    BY <2>1
  <2>3. f.at \in ScopeFrames => f.env = n
    BY DEF Opens
  <2>4. TopSafe(heap', modules, b, f)
    BY <1>2, <2>2, <2>3 DEF TopSafe
  <2>5. FramesSafe(heap', modules, stack')
    BY <2>1, <2>4, SafeOfAppend, TopSafeSuffices
  <2> QED
    BY <1>2, <2>5 DEF Safe, Carries
<1> QED
  BY <1>1, <1>2

-----------------------------------------------------------------------------
(* What the steps are put together from.                                    *)

(* The fields of new frames, and what frames open.                          *)
LEMMA FrameFields ==
    /\ \A k, e : Frame(k, e).env = e /\ Frame(k, e).target = Nil
    /\ \A k, e, t : ArgFrame(k, e, t).env = e /\ ArgFrame(k, e, t).target = t
    /\ \A f : f.at \notin ScopeFrames \cup {"program", "module"} => Opens(f) = {}
    /\ \A f : f.at \in ScopeFrames => Opens(f) = {f.env}
    /\ \A f : f.at = "module" => Opens(f) = {f.target}
    /\ \A p : p = <<>> => Pinned(p) = {}
<1>1. \A p : p = <<>> => Pinned(p) = {}
  BY EmptyStack DEF Pinned
<1>2. \A f : f.at = "module" => Opens(f) = {f.target}
  BY DEF Opens, ScopeFrames
<1>3. \A k, e : Frame(k, e).env = e /\ Frame(k, e).target = Nil
  BY DEF Frame
<1>4. \A k, e, t : ArgFrame(k, e, t).env = e /\ ArgFrame(k, e, t).target = t
  BY DEF ArgFrame, Frame
<1>5. \A f : f.at \notin ScopeFrames \cup {"program", "module"} => Opens(f) = {}
  BY DEF Opens
<1>6. \A f : f.at \in ScopeFrames => Opens(f) = {f.env}
  BY DEF Opens
<1> QED
  BY <1>1, <1>2, <1>3, <1>4, <1>5, <1>6

(* The new control.                                                         *)
LEMMA ControlIsPlaced ==
    ASSUME NEW m, NEW e, NEW v, ctl' = [mode |-> m, env |-> e, val |-> v], NEW s,
           IF m \in {"eval", "exec", "block"} THEN e \in Opened(s) ELSE e = Nil,
           m # "value" => v = Scalar
    PROVE  ControlPlaced(ctl', s) /\ ctl'.mode = m /\ ctl'.val = v
BY DEF ControlPlaced

(* A value with nothing on the heap, or none.                               *)
LEMMA ScalarIsProper == \A h, m : Proper(h, m, Scalar) /\ Proper(h, m, Junk)
BY ValueAssumption DEF Proper

(* A frame that has pinned nothing, keeps nothing and has no scope is safe. *)
LEMMA PlainFrameIsSafe ==
    ASSUME NEW f, f.at \notin ScopeFrames \cup {"arg_function"}, f.pinned = <<>>,
           f.at = "module" \/ f.target = Nil,
           NEW h, NEW m, NEW b
    PROVE  TopSafe(h, m, b, f)
BY FrameFields DEF TopSafe, ScopeFrames

(* The next point of an activation is safe when its pins are.               *)
LEMMA TurnedFrameIsSafe ==
    ASSUME NEW h, NEW m, NEW b, NEW t, TopSafe(h, m, b, t), NEW f,
           f.at \notin {"arg_function", "module"}, f.target = t.target, t.at \notin {"arg_function", "module"},
           f.at \in ScopeFrames => t.at \in ScopeFrames /\ f.env = t.env,
           f.at \in {"forin_next", "forin_body"} =>
               t.at \in {"forin_next", "forin_body"} /\ f.pinned[1] = t.pinned[1],
           \A v \in Pinned(f.pinned) : Proper(h, m, v)
    PROVE  TopSafe(h, m, b, f)
BY DEF TopSafe

(* The pins of an activation and the value it gets may be used.             *)
LEMMA OperandsAreProper ==
    ASSUME Sound, Registered, ctl.mode # "done", Safe
    PROVE  /\ \A v \in Pinned(Top.pinned) : Proper(heap, modules, v)
           /\ \A i \in 1 .. Len(Top.pinned) : Proper(heap, modules, Top.pinned[i])
           /\ Proper(heap, modules, ctl.val)
<1>1. \A v \in Pinned(Top.pinned) : Proper(heap, modules, v)
  BY TopIsPlaced DEF TopSafe
<1>2. DOMAIN Top.pinned = 1 .. Len(Top.pinned)
  BY TopIsPlaced, SequenceParts DEF IsFrame
<1> QED
  BY <1>1, <1>2 DEF Pinned, Safe

(* A variable is found in a scope that is still there.                      *)
LEMMA VariablesAreProper ==
    ASSUME Registered, Safe, NEW e, IsScope(heap, e)
    PROVE  /\ \A s \in Chain(e) : IsScope(heap, s)
           /\ \A v \in Visible(e) : /\ Proper(heap, modules, v)
                                    /\ \E s \in DOMAIN heap : /\ s \in ChainIn(heap, e) /\ IsScope(heap, s)
                                                              /\ v \in heap[s].refs
<1>1. DOMAIN heap \subseteq Obj /\ NoneDangles(heap, modules)
  BY DEF Registered, IsHeap, Safe
<1>2. \A s \in ChainIn(heap, e) : IsScope(heap, s)
  BY <1>1, ChainsAreScopes DEF NoneDangles
<1>3. Chain(e) = ChainIn(heap, e)
  BY ChainIsChainIn
<1> QED
  BY <1>1, <1>2, <1>3 DEF Visible, NoneDangles, IsScope

(* Steps that leave the heap as it is.                                      *)
LEMMA QuietCarries ==
    ASSUME Registered, heap' = heap, modules' = modules, hadError => hadError',
           constructs' = constructs,
           \/ signals' = signals
           \/ Secure /\ signals'.returning => Proper(heap, modules, signals'.value)
    PROVE  Carries
<1>1. Grows(heap, heap')
  BY DEF Registered, Grows
<1>2. KeepsCallees(heap, heap', modules, stack)
  BY DEF KeepsCallees, Keeps
<1>3. Secure /\ signals'.returning => Proper(heap, modules, signals'.value)
  BY DEF Secure, Safe
<1> QED
  BY <1>1, <1>2, <1>3 DEF Carries, Secure, Safe

(* A return value on its way out stays proper.                              *)
LEMMA SignalStaysProper ==
    ASSUME Grows(heap, heap'), modules' = modules, signals' = signals, Safe
    PROVE  signals'.returning => Proper(heap', modules, signals'.value)
<1>1. signals.returning => Proper(heap, modules, signals.value)
  BY DEF Safe
<1> QED
  BY <1>1, ProperStays

(* Steps that allocate an object.                                           *)
LEMMA AllocationCarries ==
    ASSUME Registered, MemoryIsLeft, NEW k, NEW R, NEW l, heap' = HeapWith(Object(k, R, l)),
           modules' = modules, hadError => hadError', constructs' = constructs, signals' = signals,
           Secure => (l \in Obj => IsScope(heap, l)) /\ \A v \in R : Proper(heap, modules, v)
    PROVE  /\ Carries
           /\ Fresh \in Obj /\ Fresh \notin DOMAIN heap
           /\ heap'[Fresh].link = l
           /\ k = "env" => IsScope(heap', Fresh)
           /\ k # "env" => Proper(heap', modules, Fresh)
<1>1. IsHeap(heap)
  BY DEF Registered
<1>2. /\ Fresh \in Obj /\ Fresh \notin DOMAIN heap
      /\ DOMAIN heap' = DOMAIN heap \cup {Fresh}
      /\ heap'[Fresh].kind = k /\ heap'[Fresh].refs = R /\ heap'[Fresh].link = l
      /\ Grows(heap, heap')
  <2> PICK g : g = heap'
    OBVIOUS
  <2>1. g = HeapWith(Object(k, R, l))
    OBVIOUS
  <2>2. /\ Fresh \in Obj /\ Fresh \notin DOMAIN heap
        /\ DOMAIN g = DOMAIN heap \cup {Fresh}
        /\ g[Fresh].kind = k /\ g[Fresh].refs = R /\ g[Fresh].link = l
        /\ Grows(heap, g)
    BY ONLY <1>1, <2>1, MemoryIsLeft, AllocationGrows
  <2> QED
    BY <2>2
<1>3. ASSUME Secure
      PROVE  /\ NoneDangles(heap', modules) /\ KeepsCallees(heap, heap', modules, stack)
             /\ signals'.returning => Proper(heap', modules, signals'.value)
  <2>1. Safe /\ NoneDangles(heap, modules)
    BY <1>3 DEF Secure, Safe
  <2>2. (l \in Obj => IsScope(heap, l)) /\ \A v \in R : Proper(heap, modules, v)
    BY <1>3
  <2>3. NoneDangles(heap', modules) /\ KeepsCallees(heap, heap', modules, stack)
    BY <1>1, <2>1, <2>2, AllocationIsSafe
  <2> QED
    BY <1>2, <2>1, <2>3, SignalStaysProper
<1>4. Carries
  BY <1>2, <1>3 DEF Carries
<1> QED
  BY <1>2, <1>4 DEF IsScope, Proper

(* Steps that store references in an object.                                *)
LEMMA StoreCarries ==
    ASSUME Registered, NEW c, NEW R, heap' = Stored(heap, c, R),
           modules' = modules, hadError => hadError', constructs' = constructs, signals' = signals,
           Secure /\ c \in DOMAIN heap => \A v \in R : Proper(heap, modules, v),
           Secure => \A i \in DOMAIN stack :
               stack[i].at = "arg_function" /\ Keeps(heap, modules, stack[i], c) => stack[i].target \in R
    PROVE  Carries
<1>1. IsHeap(heap)
  BY DEF Registered
<1> PICK g : g = heap'
  OBVIOUS
<1>2. g = Stored(heap, c, R)
  OBVIOUS
<1>3. Grows(heap, g)
  BY <1>1, <1>2, StoreGrows
<1>4. ASSUME Secure
      PROVE  /\ NoneDangles(heap', modules) /\ KeepsCallees(heap, heap', modules, stack)
             /\ signals'.returning => Proper(heap', modules, signals'.value)
  <2>1. Safe /\ NoneDangles(heap, modules)
    BY <1>4 DEF Secure, Safe
  <2>2. c \in DOMAIN heap => \A v \in R : Proper(heap, modules, v)
    BY <1>4
  <2>3. NoneDangles(g, modules)
    BY <1>1, <1>2, <2>1, <2>2, StoreIsSafe
  <2>4. KeepsCallees(heap, g, modules, stack)
    BY <1>1, <1>2, <1>4, StoreKeepsCallees
  <2> QED
    BY <1>3, <2>1, <2>3, <2>4, SignalStaysProper
<1> QED
  BY <1>3, <1>4 DEF Carries

-----------------------------------------------------------------------------
(* Every step keeps both parts: the expressions first.                      *)

(* What is shown of every step.                                             *)
Preserved == Registered' /\ (Secure => Safe')

(* Nothing is freed or registered, and an error stays one.                  *)
Steady == live' = live /\ modules' = modules /\ constructs' = constructs /\ (hadError => hadError')

(* The innermost activation is over or goes on, and opened no scope.        *)
Settles == stack' = stack \/ (stack' = Below /\ Opens(Top) = {})

(* A value that is yielded by an activation without a scope, or that has    *)
(* not started one, when the heap stays as it is.                           *)
LEMMA YieldsQuietly ==
    ASSUME Sound, Registered, ctl.mode # "done",
           Steady, heap' = heap, signals' = signals, Settles,
           NEW v, ctl' = [mode |-> "value", env |-> Nil, val |-> v],
           Secure => Proper(heap, modules, v)
    PROVE  Preserved
<1>1. Carries
  BY QuietCarries DEF Steady
<1>2. ControlPlaced(ctl', stack') /\ ctl'.mode = "value" /\ ctl'.val = v
  BY ControlIsPlaced
<1> QED
  BY <1>1, <1>2, Rests DEF Preserved, Steady, Settles

(* The same for one that is allocated.                                      *)
LEMMA YieldsNew ==
    ASSUME Sound, Registered, ctl.mode # "done", MemoryIsLeft,
           NEW k, k # "env", NEW R, heap' = HeapWith(Object(k, R, Nil)),
           Steady, signals' = signals, Settles,
           Secure => \A v \in R : Proper(heap, modules, v),
           ctl' = [mode |-> "value", env |-> Nil, val |-> Fresh]
    PROVE  Preserved
<1>1. Nil \notin Obj
  BY ValueAssumption
<1>2. Carries /\ Proper(heap', modules, Fresh)
  BY <1>1, AllocationCarries DEF Steady
<1>3. ControlPlaced(ctl', stack') /\ ctl'.mode = "value" /\ ctl'.val = Fresh
  BY ControlIsPlaced
<1> QED
  BY <1>2, <1>3, Rests DEF Preserved, Steady, Settles

(* An activation is over, or goes on where it is, without a value.          *)
LEMMA RestsQuietly ==
    ASSUME Sound, Registered, ctl.mode # "done",
           Steady, heap' = heap, Settles,
           \/ signals' = signals
           \/ Secure /\ signals'.returning => Proper(heap, modules, signals'.value),
           ControlPlaced(ctl', stack), ctl'.mode # "done", ctl'.val = Scalar
    PROVE  Preserved
<1>1. Carries
  BY QuietCarries DEF Steady
<1>2. Opened(stack') = Opened(stack)
  BY TopIsPlaced DEF Settles
<1>3. ControlPlaced(ctl', stack')
  BY <1>2 DEF ControlPlaced
<1>4. Proper(heap', modules, Scalar)
  BY ScalarIsProper
<1> QED
  BY <1>1, <1>3, <1>4, Rests DEF Preserved, Steady, Settles

(* An activation that has pinned nothing and opens no scope begins.         *)
LEMMA BeginsQuietly ==
    ASSUME Sound, Registered, ctl.mode # "done",
           Steady, heap' = heap, signals' = signals,
           NEW k, k \notin ScopeFrames \cup {"program", "module", "arg_function"},
           NEW e, e \in Opened(stack), stack' = Append(stack, Frame(k, e)),
           NEW m, NEW d, ctl' = [mode |-> m, env |-> d, val |-> Scalar], m # "done",
           IF m \in {"eval", "exec", "block"} THEN d \in Opened(stack) ELSE d = Nil
    PROVE  Preserved
<1> PICK f : f = Frame(k, e)
  OBVIOUS
<1>1. IsFrame(f) /\ f.at = k /\ f.pinned = <<>> /\ f.env = e /\ f.target = Nil /\ Opens(f) = {}
  BY NewFrame, FrameFields
<1>2. Carries
  BY QuietCarries DEF Steady
<1>3. TopSafe(heap', modules, stack, f)
  BY <1>1, PlainFrameIsSafe
<1>4. Opened(stack') = Opened(stack) /\ stack' = Append(stack, f)
  <2>1. IsStack(stack)
    BY TopIsPlaced
  <2>2. Opened(Append(stack, f)) = Opened(stack) \cup Opens(f)
    BY <1>1, <2>1, OpenedOfAppend
  <2> QED
    BY <1>1, <2>2
<1>5. ControlPlaced(ctl', stack') /\ ctl'.mode = m /\ ctl'.val = Scalar
  BY <1>4, ControlIsPlaced
<1>6. Proper(heap', modules, Scalar)
  BY ScalarIsProper
<1> QED
  BY <1>1, <1>2, <1>3, <1>4, <1>5, <1>6, GoesOn DEF Preserved, Steady

(* An activation goes on in its scope.                                      *)
LEMMA TurnsSafely ==
    ASSUME Sound, Registered, ctl.mode # "done", Carries, Steady,
           NEW f, IsFrame(f), stack' = Append(Below, f), f.env = Top.env, f.target = Top.target,
           f.at \notin {"program", "module", "arg_function"},
           Top.at \notin {"program", "module", "arg_function"},
           f.at \in ScopeFrames <=> Top.at \in ScopeFrames,
           f.at \in {"forin_next", "forin_body"} =>
               Top.at \in {"forin_next", "forin_body"} /\ f.pinned[1] = Top.pinned[1],
           Secure => \A v \in Pinned(f.pinned) : Proper(heap', modules, v),
           ControlPlaced(ctl', stack), ctl'.mode # "done", ctl'.val = Scalar
    PROVE  Preserved
<1>1. Opens(f) = Opens(Top)
  <2>1. CASE Top.at \in ScopeFrames
    <3>1. f.at \in ScopeFrames
      BY <2>1
    <3>2. Opens(f) = {f.env} /\ Opens(Top) = {Top.env}
      BY <2>1, <3>1, FrameFields
    <3> QED
      BY <3>2
  <2>2. CASE Top.at \notin ScopeFrames
    <3>1. Opens(f) = {} /\ Opens(Top) = {}
      BY <2>2, FrameFields
    <3> QED
      BY <3>1
  <2> QED
    BY <2>1, <2>2
<1>2. Opened(stack') = Opened(stack)
  <2>1. IsStack(Below) /\ Opened(stack) = Opened(Below) \cup Opens(Top)
    BY TopIsPlaced
  <2>2. Opened(Append(Below, f)) = Opened(Below) \cup Opens(f)
    BY <2>1, OpenedOfAppend
  <2> QED
    BY <1>1, <2>1, <2>2
<1>3. ControlPlaced(ctl', stack')
  BY <1>2 DEF ControlPlaced
<1>4. ASSUME Secure PROVE TopSafe(heap', modules, Below, f)
  <2>1. TopSafe(heap', modules, Below, Top)
    BY <1>4, CarriedFrames
  <2> QED
    BY <1>4, <2>1, TurnedFrameIsSafe
<1>5. Proper(heap', modules, Scalar)
  BY ScalarIsProper
<1> QED
  BY <1>1, <1>3, <1>4, <1>5, GoesOn DEF Preserved, Steady

(* A leaf.                                                                  *)
LEMMA LeafPreserves ==
    ASSUME Sound, Registered, MemoryIsLeft, constructs' = constructs, Leaf
    PROVE  Preserved
<1>1. ctl.mode = "eval" /\ Steady /\ Settles /\ signals' = signals
  BY DEF Leaf, AtEval, Yield, control, Steady, Settles
<1>2. \/ heap' = heap /\ \E v \in {Scalar, Junk} : ctl' = [mode |-> "value", env |-> Nil, val |-> v]
      \/ /\ heap' = HeapWith(Object("string", {}, Nil))
         /\ ctl' = [mode |-> "value", env |-> Nil, val |-> Fresh]
      \/ heap' = heap /\ \E v \in Visible(ctl.env) : ctl' = [mode |-> "value", env |-> Nil, val |-> v]
  BY DEF Leaf, Yield
<1>3. CASE heap' = heap /\ \E v \in {Scalar, Junk} : ctl' = [mode |-> "value", env |-> Nil, val |-> v]
  <2>1. PICK v \in {Scalar, Junk} : ctl' = [mode |-> "value", env |-> Nil, val |-> v]
    BY <1>3
  <2>2. Proper(heap, modules, v)
    BY ScalarIsProper
  <2> QED
    BY <1>1, <1>3, <2>1, <2>2, YieldsQuietly
<1>4. CASE /\ heap' = HeapWith(Object("string", {}, Nil))
           /\ ctl' = [mode |-> "value", env |-> Nil, val |-> Fresh]
  BY <1>1, <1>4, YieldsNew
<1>5. CASE heap' = heap /\ \E v \in Visible(ctl.env) : ctl' = [mode |-> "value", env |-> Nil, val |-> v]
  <2>1. PICK v \in Visible(ctl.env) : ctl' = [mode |-> "value", env |-> Nil, val |-> v]
    BY <1>5
  <2>2. IsScope(heap, ctl.env)
    BY <1>1, EnvsAreScopes
  <2>3. Secure => Proper(heap, modules, v)
    BY <2>2, VariablesAreProper DEF Secure
  <2> QED
    BY <1>1, <1>5, <2>1, <2>3, YieldsQuietly
<1> QED
  BY <1>2, <1>3, <1>4, <1>5

(* The first operand.                                                       *)
LEMMA BeginOperandPreserves ==
    ASSUME Sound, Registered, constructs' = constructs, BeginOperand
    PROVE  Preserved
<1>1. /\ ctl.mode = "eval"
      /\ heap' = heap /\ signals' = signals /\ Steady
      /\ \E k \in {"unary", "binary_left", "callee", "index_object", "field", "receiver"} :
            /\ stack' = Append(stack, Frame(k, ctl.env))
            /\ ctl' = [mode |-> "eval", env |-> ctl.env, val |-> Scalar]
  BY DEF BeginOperand, Evaluating, AtEval, Evaluate, memory, control, Steady
<1>2. PICK k \in {"unary", "binary_left", "callee", "index_object", "field", "receiver"} :
            /\ stack' = Append(stack, Frame(k, ctl.env))
            /\ ctl' = [mode |-> "eval", env |-> ctl.env, val |-> Scalar]
  BY <1>1
<1>3. k \notin ScopeFrames \cup {"program", "module", "arg_function"}
  BY DEF ScopeFrames
<1>4. ctl.env \in Opened(stack)
  BY <1>1 DEF Registered, ControlPlaced
<1> QED
  BY <1>1, <1>2, <1>3, <1>4, BeginsQuietly

(* An expression is over: it had opened no scope.                           *)
LEMMA ExpressionSettles ==
    ASSUME stack' = Below,
           Top.at \in {"unary", "binary_right", "callee", "callv", "receiver", "list", "map",
                       "index_key", "field"} \cup ArgFrames
    PROVE  Settles
<1>1. Top.at \notin ScopeFrames \cup {"program", "module"}
  BY DEF ScopeFrames, ArgFrames
<1> QED
  BY <1>1, FrameFields DEF Settles

(* A unary operator.                                                        *)
LEMMA UnaryPreserves ==
    ASSUME Sound, Registered, constructs' = constructs, Unary
    PROVE  Preserved
<1>1. /\ ctl.mode = "value" /\ Top.at = "unary" /\ stack' = Below
      /\ heap' = heap /\ signals' = signals /\ Steady
      /\ ctl' = [mode |-> "value", env |-> Nil, val |-> Scalar]
  BY DEF Unary, AtValue, Yield, FailWith, memory, control, Steady
<1> QED
  BY <1>1, ScalarIsProper, ExpressionSettles, YieldsQuietly

(* A binary operator.                                                       *)
LEMMA BinaryPreserves ==
    ASSUME Sound, Registered, MemoryIsLeft, constructs' = constructs, Binary
    PROVE  Preserved
<1>1. /\ ctl.mode = "value" /\ Top.at = "binary_right" /\ stack' = Below
      /\ signals' = signals /\ Steady
      /\ \/ heap' = heap /\ ctl' = [mode |-> "value", env |-> Nil, val |-> Scalar]
         \/ /\ heap' = HeapWith(Object("string", {}, Nil))
            /\ ctl' = [mode |-> "value", env |-> Nil, val |-> Fresh]
  BY DEF Binary, AtValue, Yield, FailWith, control, Steady
<1>2. Settles
  BY <1>1, ExpressionSettles
<1>3. CASE heap' = heap /\ ctl' = [mode |-> "value", env |-> Nil, val |-> Scalar]
  BY <1>1, <1>2, <1>3, ScalarIsProper, YieldsQuietly
<1>4. CASE /\ heap' = HeapWith(Object("string", {}, Nil))
           /\ ctl' = [mode |-> "value", env |-> Nil, val |-> Fresh]
  BY <1>1, <1>2, <1>4, YieldsNew
<1> QED
  BY <1>1, <1>3, <1>4

(* The end of a call on a value.                                            *)
LEMMA CalleeReturnedPreserves ==
    ASSUME Sound, Registered, constructs' = constructs, CalleeReturned
    PROVE  Preserved
<1>1. /\ ctl.mode = "value" /\ Top.at = "callv" /\ stack' = Below
      /\ heap' = heap /\ signals' = signals /\ Steady
      /\ ctl' = [mode |-> "value", env |-> Nil, val |-> ctl.val]
  BY DEF CalleeReturned, AtValue, Yield, control, Steady
<1>2. Secure => Proper(heap, modules, ctl.val)
  BY DEF Secure, Safe
<1> QED
  BY <1>1, <1>2, ExpressionSettles, YieldsQuietly

(* A call with the wrong arguments.                                         *)
LEMMA BadArgumentsPreserves ==
    ASSUME Sound, Registered, constructs' = constructs, BadArguments
    PROVE  Preserved
<1>1. /\ ctl.mode = "resume" /\ Top.at \in ArgFrames /\ stack' = Below
      /\ heap' = heap /\ signals' = signals /\ Steady
      /\ ctl' = [mode |-> "value", env |-> Nil, val |-> Scalar]
  BY DEF BadArguments, AtArguments, Yield, FailWith, control, Steady
<1> QED
  BY <1>1, ScalarIsProper, ExpressionSettles, YieldsQuietly

(* A new struct instance holds its arguments.                               *)
LEMMA ConstructStructPreserves ==
    ASSUME Sound, Registered, MemoryIsLeft, constructs' = constructs, ConstructStruct
    PROVE  Preserved
<1>1. /\ ctl.mode = "resume" /\ Top.at \in ArgFrames /\ stack' = Below
      /\ heap' = HeapWith(Object("struct", HandlesIn(Top.pinned), Nil))
      /\ signals' = signals /\ Steady
      /\ ctl' = [mode |-> "value", env |-> Nil, val |-> Fresh]
  BY DEF ConstructStruct, AtResume, ArgFrames, Yield, control, Steady
<1>2. Secure => \A v \in HandlesIn(Top.pinned) : Proper(heap, modules, v)
  BY <1>1, OperandsAreProper DEF Secure, HandlesIn
<1> QED
  BY <1>1, <1>2, ExpressionSettles, YieldsNew

(* A literal hands over the container it pinned.                            *)
LEMMA EndContainerPreserves ==
    ASSUME Sound, Registered, constructs' = constructs, EndContainer
    PROVE  Preserved
<1>1. /\ ctl.mode = "resume" /\ Top.at \in {"list", "map"} /\ stack' = Below
      /\ heap' = heap /\ signals' = signals /\ Steady
      /\ ctl' = [mode |-> "value", env |-> Nil, val |-> Top.pinned[1]]
  BY DEF EndContainer, AtContainer, Yield, control, Steady
<1>2. 1 \in 1 .. Len(Top.pinned)
  BY <1>1, TopParts DEF Sound, PinsFit, PinCount, ArgFrames
<1>3. Secure => Proper(heap, modules, Top.pinned[1])
  BY <1>1, <1>2, OperandsAreProper DEF Secure
<1> QED
  BY <1>1, <1>3, ExpressionSettles, YieldsQuietly

(* A member of a container, which may not be in it.                         *)
LEMMA MemberPreserves ==
    ASSUME Sound, Registered, constructs' = constructs, ctl.mode # "done",
           heap' = heap, live' = live, signals' = signals, modules' = modules,
           stack' = Below => Settles, NEW c, NEW kinds, Member(c, kinds)
    PROVE  Preserved
<1>1. Settles /\ Steady
  BY DEF Member, Yield, FailWith, Steady
<1>2. \/ /\ IsKind(c, kinds)
         /\ \E v \in heap[c].refs \cup {Scalar} : ctl' = [mode |-> "value", env |-> Nil, val |-> v]
      \/ ctl' = [mode |-> "value", env |-> Nil, val |-> Scalar]
  BY DEF Member, Yield, FailWith
<1>3. CASE /\ IsKind(c, kinds)
           /\ \E v \in heap[c].refs \cup {Scalar} : ctl' = [mode |-> "value", env |-> Nil, val |-> v]
  <2>1. PICK v \in heap[c].refs \cup {Scalar} : ctl' = [mode |-> "value", env |-> Nil, val |-> v]
    BY <1>3
  <2>2. Secure => Proper(heap, modules, v)
    BY <1>3, ScalarIsProper DEF Secure, Safe, NoneDangles, IsKind
  <2> QED
    BY <1>1, <2>1, <2>2, YieldsQuietly
<1>4. CASE ctl' = [mode |-> "value", env |-> Nil, val |-> Scalar]
  BY <1>1, <1>4, ScalarIsProper, YieldsQuietly
<1> QED
  BY <1>2, <1>3, <1>4

(* An index expression.                                                     *)
LEMMA IndexPreserves ==
    ASSUME Sound, Registered, constructs' = constructs, Index
    PROVE  Preserved
<1>1. /\ ctl.mode = "value" /\ Top.at = "index_key" /\ Member(Top.pinned[1], {"list", "map"})
      /\ heap' = heap /\ live' = live /\ signals' = signals /\ modules' = modules
  BY DEF Index, AtValue, control
<1> QED
  BY <1>1, ExpressionSettles, MemberPreserves

(* A field access.                                                          *)
LEMMA FieldPreserves ==
    ASSUME Sound, Registered, constructs' = constructs, Field
    PROVE  Preserved
<1>1. /\ ctl.mode = "value" /\ Top.at = "field" /\ Member(ctl.val, {"struct", "env"})
      /\ heap' = heap /\ live' = live /\ signals' = signals /\ modules' = modules
  BY DEF Field, AtValue, memory, control
<1> QED
  BY <1>1, ExpressionSettles, MemberPreserves

(* What is pinned after one more pin.                                       *)
LEMMA PinnedAfter ==
    ASSUME NEW p, IsSequence(p), NEW v
    PROVE  /\ \A u \in Pinned(Append(p, v)) : u \in Pinned(p) \/ u = v
           /\ Len(p) > 0 => Append(p, v)[1] = p[1]
           /\ IsSequence(Append(p, v))
<1> PICK n \in Nat : n = Len(p)
  BY SequenceParts
<1>1. /\ DOMAIN p = 1 .. n /\ DOMAIN Append(p, v) = 1 .. n + 1 /\ IsSequence(Append(p, v))
      /\ (\A i \in 1 .. n : Append(p, v)[i] = p[i]) /\ Append(p, v)[n + 1] = v
  BY Appended, SequenceParts
<1>2. 1 .. n + 1 = (1 .. n) \cup {n + 1} /\ (n > 0 => 1 \in 1 .. n)
  OBVIOUS
<1>3. \A u \in Pinned(Append(p, v)) : \E i \in 1 .. n + 1 : u = Append(p, v)[i]
  BY <1>1 DEF Pinned
<1> QED
  BY <1>1, <1>2, <1>3 DEF Pinned

(* The only pin.                                                            *)
LEMMA OnePin == \A v : IsSequence(<<v>>) /\ Pinned(<<v>>) = {v} /\ <<v>>[1] = v
<1> TAKE v
<1> DEFINE p == <<v>>
<1>1. p[1] = v /\ IsSequence(<<>>)
  BY EmptyStack
<1>2. IsSequence(p) /\ Len(p) = 1
  BY <1>1, AppendIsJoin
<1> HIDE DEF p
<1>3. DOMAIN p = 1 .. 1
  BY <1>2, SequenceParts
<1>4. IsSequence(p) /\ Pinned(p) = {v} /\ p[1] = v
  BY <1>1, <1>2, <1>3 DEF Pinned
<1> QED
  BY <1>4 DEF p

(* A value is pinned and the next one asked for.                            *)
LEMMA PinAndEvaluatePreserves ==
    ASSUME Sound, Registered, constructs' = constructs, ctl.mode = "value",
           NEW k, PinAndEvaluate(TopAt(k)),
           k \notin ScopeFrames \cup {"program", "module", "arg_function"},
           Top.at \notin ScopeFrames \cup {"program", "module", "arg_function"}
    PROVE  Preserved
<1> DEFINE g == TopAt(k)
           f == [g EXCEPT !.pinned = Append(g.pinned, ctl.val)]
<1>1. /\ stack' = Append(Below, f)
      /\ ctl' = [mode |-> "eval", env |-> g.env, val |-> Scalar]
      /\ heap' = heap /\ signals' = signals /\ Steady
  BY DEF PinAndEvaluate, Evaluate, control, Steady
<1>2. IsFrame(Top) /\ IsSequence(Top.pinned) /\ Top.env \in Opened(stack)
  BY TopIsPlaced DEF IsFrame
<1>3. /\ IsFrame(g) /\ g.at = k /\ g.pinned = Top.pinned /\ g.env = Top.env
      /\ g.target = Top.target
  BY <1>2, MovedFrame DEF TopAt
<1> HIDE DEF g
<1>4. IsSequence(Append(g.pinned, ctl.val))
  BY <1>2, <1>3, PinnedAfter
<1>5. /\ IsFrame(f) /\ f.at = g.at /\ f.pinned = Append(g.pinned, ctl.val) /\ f.env = g.env
      /\ f.target = g.target
  BY <1>3, <1>4, RepinnedFrame
<1> HIDE DEF f
<1>6. Secure => \A v \in Pinned(f.pinned) : Proper(heap, modules, v)
  BY <1>2, <1>3, <1>5, PinnedAfter, OperandsAreProper DEF Secure
<1>7. Carries
  BY <1>1, QuietCarries DEF Steady
<1>8. f.at \notin ScopeFrames \cup {"program", "module", "arg_function", "forin_next", "forin_body"}
  BY <1>3, <1>5 DEF ScopeFrames
<1>9. /\ f.env = Top.env /\ f.target = Top.target /\ ctl.mode # "done"
      /\ ctl' = [mode |-> "eval", env |-> Top.env, val |-> Scalar]
      /\ Secure => \A v \in Pinned(f.pinned) : Proper(heap', modules, v)
  BY <1>1, <1>3, <1>5, <1>6
<1>10. /\ f.at \in ScopeFrames <=> Top.at \in ScopeFrames
       /\ f.at \in {"forin_next", "forin_body"} =>
               Top.at \in {"forin_next", "forin_body"} /\ f.pinned[1] = Top.pinned[1]
       /\ f.at \notin {"program", "module", "arg_function"}
       /\ Top.at \notin {"program", "module", "arg_function"}
  BY <1>8
<1>11. ControlPlaced(ctl', stack) /\ ctl'.mode # "done" /\ ctl'.val = Scalar
  BY <1>2, <1>9, ControlIsPlaced
<1> QED
  BY <1>1, <1>5, <1>7, <1>9, <1>10, <1>11, TurnsSafely

(* The second operand.                                                      *)
LEMMA NextOperandPreserves ==
    ASSUME Sound, Registered, constructs' = constructs, NextOperand
    PROVE  Preserved
<1>1. PICK step \in {<<"binary_left", "binary_right">>, <<"index_object", "index_key">>,
                     <<"map_key", "map_value">>, <<"target_object", "target_key">>,
                     <<"target_key", "target_value">>} :
          AtValue(step[1]) /\ PinAndEvaluate(TopAt(step[2]))
  BY DEF NextOperand
<1>2. ctl.mode = "value" /\ Top.at = step[1]
  BY <1>1 DEF AtValue
<1>3. /\ step[1] \notin ScopeFrames \cup {"program", "module", "arg_function"}
      /\ step[2] \notin ScopeFrames \cup {"program", "module", "arg_function"}
  BY DEF ScopeFrames
<1> QED
  BY <1>1, <1>2, <1>3, PinAndEvaluatePreserves

(* Another activation takes the place of one, and neither opens a scope.    *)
LEMMA ReplacesQuietly ==
    ASSUME Sound, Registered, ctl.mode # "done",
           Steady, heap' = heap, signals' = signals,
           NEW f, IsFrame(f), stack' = Append(Below, f), f.env = Top.env,
           f.at \notin ScopeFrames \cup {"program", "module"},
           Top.at \notin ScopeFrames \cup {"program", "module"},
           ctl' = [mode |-> "resume", env |-> Nil, val |-> Scalar],
           Secure => TopSafe(heap, modules, Below, f)
    PROVE  Preserved
<1>1. Carries
  BY QuietCarries DEF Steady
<1>2. ControlPlaced(ctl', stack') /\ ctl'.mode = "resume" /\ ctl'.val = Scalar
  BY ControlIsPlaced
<1>3. Opens(f) = {} /\ Opens(Top) = {}
  BY FrameFields
<1>4. Proper(heap', modules, Scalar)
  BY ScalarIsProper
<1> QED
  BY <1>1, <1>2, <1>3, <1>4, GoesOn DEF Preserved, Steady

(* A call by name.                                                          *)
LEMMA BeginCallPreserves ==
    ASSUME Sound, Registered, constructs' = constructs, BeginCall
    PROVE  Preserved
<1>1. /\ ctl.mode = "eval" /\ heap' = heap /\ signals' = signals /\ Steady
      /\ ctl' = [mode |-> "resume", env |-> Nil, val |-> Scalar]
  BY DEF BeginCall, Evaluating, AtEval, Resume, memory, control, Steady
<1>2. ctl.env \in Opened(stack) /\ IsScope(heap, ctl.env) /\ IsStack(stack)
  BY <1>1, EnvsAreScopes, TopIsPlaced DEF Registered, ControlPlaced
<1>3. \/ \E v \in Visible(ctl.env) : /\ IsKind(v, {"func"})
                                     /\ stack' = Append(stack, ArgFrame("arg_function", ctl.env, v))
      \/ \E k \in {"arg_struct", "arg_builtin"} : stack' = Append(stack, Frame(k, ctl.env))
  BY DEF BeginCall, Resume
<1>4. CASE \E k \in {"arg_struct", "arg_builtin"} : stack' = Append(stack, Frame(k, ctl.env))
  <2>1. PICK k \in {"arg_struct", "arg_builtin"} : stack' = Append(stack, Frame(k, ctl.env))
    BY <1>4
  <2>2. k \notin ScopeFrames \cup {"program", "module", "arg_function"}
    BY DEF ScopeFrames
  <2> QED
    BY <1>1, <1>2, <2>1, <2>2, BeginsQuietly
<1>5. CASE \E v \in Visible(ctl.env) : /\ IsKind(v, {"func"})
                                       /\ stack' = Append(stack, ArgFrame("arg_function", ctl.env, v))
  <2>1. PICK v \in Visible(ctl.env) : /\ IsKind(v, {"func"})
                                      /\ stack' = Append(stack, ArgFrame("arg_function", ctl.env, v))
    BY <1>5
  <2> DEFINE f == ArgFrame("arg_function", ctl.env, v)
  <2>2. /\ IsFrame(f) /\ f.at = "arg_function" /\ f.pinned = <<>> /\ f.env = ctl.env
        /\ f.target = v
    BY NewFrame, FrameFields
  <2>3. stack' = Append(stack, f)
    BY <2>1
  <2> HIDE DEF f
  <2>4. f.at \notin ScopeFrames \cup {"program", "module"} /\ Opens(f) = {}
    BY <2>2, FrameFields DEF ScopeFrames
  <2>5. ASSUME Secure PROVE TopSafe(heap, modules, stack, f)
    <3>1. \E s \in DOMAIN heap : s \in ChainIn(heap, ctl.env) /\ IsScope(heap, s) /\ v \in heap[s].refs
      BY <1>2, <2>5, VariablesAreProper DEF Secure
    <3>2. \E s \in DOMAIN heap : Keeps(heap, modules, f, s)
      BY <2>2, <3>1 DEF Keeps
    <3>3. v \in Obj
      BY <2>1 DEF IsKind, Registered, IsHeap
    <3>4. Pinned(f.pinned) = {}
      BY <2>2, FrameFields
    <3> QED
      BY <2>2, <2>4, <3>2, <3>3, <3>4 DEF TopSafe
  <2>6. Carries
    BY <1>1, QuietCarries DEF Steady
  <2>7. ControlPlaced(ctl', stack') /\ ctl'.mode = "resume" /\ ctl'.val = Scalar
    BY <1>1, ControlIsPlaced
  <2>8. Proper(heap', modules, Scalar) /\ (Secure => TopSafe(heap', modules, stack, f))
    BY <1>1, <2>5, ScalarIsProper
  <2>9. live' = live /\ f.at \notin {"program", "module"} /\ f.env \in Opened(stack)
    BY <1>1, <1>2, <2>2, <2>4 DEF Steady
  <2> QED
    BY <1>1, <2>2, <2>3, <2>4, <2>6, <2>7, <2>8, <2>9, GoesOn DEF Preserved
<1> QED
  BY <1>3, <1>4, <1>5

(* A call on a value pins it.                                               *)
LEMMA CalleePreserves ==
    ASSUME Sound, Registered, constructs' = constructs, Callee
    PROVE  Preserved
<1>1. /\ ctl.mode = "value" /\ Top.at = "callee" /\ heap' = heap /\ signals' = signals /\ Steady
  BY DEF Callee, ApplyCallee, AtValue, FailWith, control, Steady
<1>2. CASE ~IsKind(ctl.val, {"func"})
  <2>1. stack' = Below /\ ctl' = [mode |-> "value", env |-> Nil, val |-> Scalar]
    BY <1>2 DEF Callee, ApplyCallee, FailWith, Yield
  <2> QED
    BY <1>1, <2>1, ScalarIsProper, ExpressionSettles, YieldsQuietly
<1>3. CASE IsKind(ctl.val, {"func"})
  <2> DEFINE h == TopAt("callv")
             f == [h EXCEPT !.pinned = <<ctl.val>>]
             g == ArgFrame("arg_function", Top.env, ctl.val)
             b == Append(Below, f)
  <2>1. /\ stack' = Below \o <<f, g>>
        /\ ctl' = [mode |-> "resume", env |-> Nil, val |-> Scalar]
    BY <1>3 DEF Callee, ApplyCallee, Resume
  <2>2. /\ IsFrame(Top) /\ IsStack(Below) /\ Top.env \in Opened(stack)
        /\ Opened(stack) = Opened(Below) \cup Opens(Top)
        /\ Placed(heap, modules, Below) /\ ModulesAreImported(Below)
        /\ Safe => FramesSafe(heap, modules, Below) /\ TopSafe(heap, modules, Below, Top)
    BY <1>1, TopIsPlaced
  <2>3. IsFrame(h) /\ h.at = "callv" /\ h.env = Top.env /\ h.target = Top.target
    BY <2>2, MovedFrame DEF TopAt
  <2>4. IsFrame(f) /\ f.at = "callv" /\ f.pinned = <<ctl.val>> /\ f.env = Top.env /\ f.target = Top.target
    <3> HIDE DEF h
    <3> QED
      BY <2>3, OnePin, RepinnedFrame
  <2>5. /\ IsFrame(g) /\ g.at = "arg_function" /\ g.pinned = <<>> /\ g.env = Top.env
        /\ g.target = ctl.val
    BY NewFrame, FrameFields
  <2> HIDE DEF f, g, h
  <2>6. stack' = Append(b, g)
    <3>1. IsSequence(Below)
      BY <2>2 DEF IsStack
    <3> QED
      BY <2>1, <3>1, JoinTwo
  <2>7. Opens(f) = {} /\ Opens(g) = {} /\ Opens(Top) = {}
    BY <1>1, <2>4, <2>5, FrameFields DEF ScopeFrames
  <2>8. IsStack(b) /\ Opened(b) = Opened(Below) /\ Opened(stack') = Opened(b)
    <3>1. IsStack(b)
      BY <2>2, <2>4, StackWith
    <3>2. Opened(b) = Opened(Below) \cup Opens(f)
      BY <2>2, <2>4, OpenedOfAppend
    <3> HIDE DEF b
    <3>3. Opened(Append(b, g)) = Opened(b) \cup Opens(g)
      BY <2>5, <3>1, OpenedOfAppend
    <3> QED
      BY <2>6, <2>7, <3>1, <3>2, <3>3
  <2>9. Placed(heap', modules, stack')
    <3>1. TopPlaced(heap, modules, Below, f)
      BY <2>2, <2>4, <2>7 DEF TopPlaced
    <3>2. Placed(heap, modules, b)
      BY <2>2, <2>4, <3>1, PlacedOfAppend
    <3>3. TopPlaced(heap, modules, b, g)
      BY <2>2, <2>5, <2>7, <2>8 DEF TopPlaced
    <3> HIDE DEF b
    <3>4. Placed(heap, modules, Append(b, g))
      BY <2>5, <2>8, <3>2, <3>3, PlacedOfAppend
    <3> QED
      BY <1>1, <2>6, <3>4
  <2>10. ModulesAreImported(stack')
    <3>1. ModulesAreImported(b)
      BY <2>2, <2>4, ModulesOfAppend
    <3> HIDE DEF b
    <3>2. ModulesAreImported(Append(b, g))
      BY <2>5, <2>8, <3>1, ModulesOfAppend
    <3> QED
      BY <2>6, <3>2
  <2>11. ControlPlaced(ctl', stack') /\ ctl'.mode = "resume" /\ ctl'.val = Scalar
    BY <2>1, ControlIsPlaced
  <2>12. Carries
    BY <1>1, QuietCarries DEF Steady
  <2>13. Registered'
    <3> PICK N : N = {}
      OBVIOUS
    <3>1. live' = live \cup N /\ Opened(stack') = Opened(stack) \cup N
      BY <1>1, <2>2, <2>7, <2>8 DEF Steady
    <3>2. (\A o \in N : IsScope(heap', o)) /\ ctl.mode # "done" /\ ctl'.mode # "done"
      BY <1>1, <2>11
    <3> QED
      BY <2>9, <2>10, <2>11, <2>12, <3>1, <3>2, CarriedScopes
  <2>14. ASSUME Secure PROVE Safe'
    <3>1. Proper(heap, modules, ctl.val) /\ Safe
      BY <2>14 DEF Secure, Safe
    <3>2. \A v \in Pinned(f.pinned) : Proper(heap, modules, v)
      BY <2>4, <3>1, OnePin
    <3>3. f.at \notin ScopeFrames \cup {"arg_function", "module"}
      BY <2>4 DEF ScopeFrames
    <3>4. TopSafe(heap, modules, Below, f)
      <4>1. TopSafe(heap, modules, Below, Top)
        BY <2>2, <3>1
      <4>2. f.at \notin {"forin_next", "forin_body"}
        BY <2>4
      <4> QED
        BY <1>1, <2>4, <3>2, <3>3, <4>1, <4>2, TurnedFrameIsSafe
    <3>5. FramesSafe(heap, modules, b)
      BY <2>2, <2>4, <3>1, <3>4, SafeOfAppend, TopSafeSuffices
    <3>6. b # <<>> /\ b[Len(b)] = f
      <4>1. /\ b # <<>> /\ Len(b) = Len(Below) + 1 /\ b[Len(Below) + 1] = f
        BY <2>2, <2>4, StackWith
      <4> HIDE DEF b
      <4> QED
        BY <4>1
    <3>7. ctl.val \in Obj
      BY <1>3 DEF IsKind, Registered, IsHeap
    <3>8. TopSafe(heap, modules, b, g)
      <4> HIDE DEF b
      <4>1. f.pinned[1] = ctl.val
        BY <2>4, OnePin
      <4>2. Pinned(g.pinned) = {}
        BY <2>5, FrameFields
      <4>3. g.at \notin ScopeFrames
        BY <2>5 DEF ScopeFrames
      <4> QED
        BY <2>4, <2>5, <3>6, <3>7, <4>1, <4>2, <4>3 DEF TopSafe
    <3>9. FramesSafe(heap, modules, Append(b, g))
      <4> HIDE DEF b
      <4> QED
        BY <2>5, <2>8, <3>5, <3>8, SafeOfAppend, TopSafeSuffices
    <3>10. FramesSafe(heap', modules', stack')
      BY <1>1, <2>6, <3>9 DEF Steady
    <3>11. Proper(heap', modules', ctl'.val)
      BY <2>11, ScalarIsProper
    <3>12. NoneDangles(heap', modules') /\ (signals'.returning => Proper(heap', modules', signals'.value))
      BY <2>12, <2>14 DEF Carries
    <3> QED
      BY <3>10, <3>11, <3>12 DEF Safe
  <2> QED
    BY <2>13, <2>14 DEF Preserved
<1> QED
  BY <1>2, <1>3

(* A call on a module or an instance: the module keeps the function, and    *)
(* the instance is pinned.                                                  *)
LEMMA ReceiverPreserves ==
    ASSUME Sound, Registered, constructs' = constructs, Receiver
    PROVE  Preserved
<1>1. /\ ctl.mode = "value" /\ Top.at = "receiver"
      /\ heap' = heap /\ signals' = signals /\ Steady
  BY DEF Receiver, AtValue, FailWith, Resume, control, Steady
<1>2. \/ /\ ctl' = [mode |-> "resume", env |-> Nil, val |-> Scalar]
         /\ \/ \E v : /\ IsKind(ctl.val, {"env"}) /\ v \in heap[ctl.val].refs /\ IsKind(v, {"func"})
                      /\ stack' = Append(Below, ArgFrame("arg_function", Top.env, v))
            \/ stack' = Append(Below, Frame("arg_struct", Top.env))
            \/ stack' = Append(Below, [Frame("arg_method", Top.env) EXCEPT !.pinned = <<ctl.val>>])
      \/ stack' = Below /\ ctl' = [mode |-> "value", env |-> Nil, val |-> Scalar]
  BY DEF Receiver, Resume, FailWith, Yield
<1>3. Top.at \notin ScopeFrames \cup {"program", "module"}
  BY <1>1 DEF ScopeFrames
<1>4. ASSUME NEW f, IsFrame(f), stack' = Append(Below, f), f.env = Top.env,
             f.at \in {"arg_function", "arg_struct", "arg_method"},
             ctl' = [mode |-> "resume", env |-> Nil, val |-> Scalar],
             Secure => TopSafe(heap, modules, Below, f)
      PROVE  Preserved
  <2>1. f.at \notin ScopeFrames \cup {"program", "module"}
    BY <1>4 DEF ScopeFrames
  <2> QED
    BY <1>1, <1>3, <1>4, <2>1, ReplacesQuietly
<1>5. CASE /\ ctl' = [mode |-> "resume", env |-> Nil, val |-> Scalar]
           /\ \E v : /\ IsKind(ctl.val, {"env"}) /\ v \in heap[ctl.val].refs /\ IsKind(v, {"func"})
                     /\ stack' = Append(Below, ArgFrame("arg_function", Top.env, v))
  <2>1. PICK v : /\ IsKind(ctl.val, {"env"}) /\ v \in heap[ctl.val].refs /\ IsKind(v, {"func"})
                 /\ stack' = Append(Below, ArgFrame("arg_function", Top.env, v))
    BY <1>5
  <2> PICK f : f = ArgFrame("arg_function", Top.env, v)
    OBVIOUS
  <2>2. /\ IsFrame(f) /\ f.at = "arg_function" /\ f.pinned = <<>> /\ f.env = Top.env
        /\ f.target = v /\ Pinned(f.pinned) = {}
    BY NewFrame, FrameFields
  <2>3. ASSUME Secure PROVE TopSafe(heap, modules, Below, f)
    <3>1. ctl.val \in modules /\ IsScope(heap, ctl.val) /\ v \in Obj
      BY <2>1, <2>3 DEF Secure, Safe, Proper, IsKind, IsScope, Registered, IsHeap
    <3>2. \E s \in DOMAIN heap : Keeps(heap, modules, f, s)
      BY <2>1, <2>2, <3>1 DEF Keeps, IsScope
    <3>3. f.at \notin ScopeFrames
      BY <2>2 DEF ScopeFrames
    <3> QED
      BY <2>2, <3>1, <3>2, <3>3 DEF TopSafe
  <2> QED
    BY <1>4, <1>5, <2>1, <2>2, <2>3
<1>6. CASE /\ ctl' = [mode |-> "resume", env |-> Nil, val |-> Scalar]
           /\ stack' = Append(Below, Frame("arg_struct", Top.env))
  <2> PICK f : f = Frame("arg_struct", Top.env)
    OBVIOUS
  <2>1. /\ IsFrame(f) /\ f.at = "arg_struct" /\ f.pinned = <<>> /\ f.env = Top.env
        /\ f.target = Nil
    BY NewFrame, FrameFields
  <2>2. f.at \notin ScopeFrames \cup {"arg_function"}
    BY <2>1 DEF ScopeFrames
  <2>3. TopSafe(heap, modules, Below, f)
    BY <2>1, <2>2, PlainFrameIsSafe
  <2> QED
    BY <1>4, <1>6, <2>1, <2>3
<1>7. CASE /\ ctl' = [mode |-> "resume", env |-> Nil, val |-> Scalar]
           /\ stack' = Append(Below, [Frame("arg_method", Top.env) EXCEPT !.pinned = <<ctl.val>>])
  <2> PICK g : g = Frame("arg_method", Top.env)
    OBVIOUS
  <2>1. /\ IsFrame(g) /\ g.at = "arg_method" /\ g.env = Top.env /\ g.target = Nil
    BY NewFrame, FrameFields
  <2> PICK p : p = <<ctl.val>>
    OBVIOUS
  <2>2. IsSequence(p) /\ Pinned(p) = {ctl.val}
    BY OnePin
  <2> PICK f : f = [g EXCEPT !.pinned = p]
    OBVIOUS
  <2>3. IsFrame(f) /\ f.at = "arg_method" /\ f.pinned = p /\ f.env = Top.env /\ f.target = Nil
    BY <2>1, <2>2, RepinnedFrame
  <2>4. ASSUME Secure PROVE TopSafe(heap, modules, Below, f)
    <3>1. f.at \notin ScopeFrames \cup {"arg_function", "forin_next", "forin_body"}
      BY <2>3 DEF ScopeFrames
    <3>2. Proper(heap, modules, ctl.val)
      BY <2>4 DEF Secure, Safe
    <3>3. \A v \in Pinned(f.pinned) : Proper(heap, modules, v)
      BY <2>2, <2>3, <3>2
    <3> QED
      BY <2>3, <3>1, <3>3 DEF TopSafe
  <2> QED
    BY <1>4, <1>7, <2>3, <2>4
<1>8. CASE stack' = Below /\ ctl' = [mode |-> "value", env |-> Nil, val |-> Scalar]
  BY <1>1, <1>8, ScalarIsProper, ExpressionSettles, YieldsQuietly
<1> QED
  BY <1>2, <1>5, <1>6, <1>7, <1>8

(* The next argument is asked for.                                          *)
LEMMA NextArgumentPreserves ==
    ASSUME Sound, Registered, constructs' = constructs, NextArgument
    PROVE  Preserved
<1>1. /\ ctl.mode = "resume" /\ heap' = heap /\ signals' = signals /\ Steady
      /\ stack' = stack /\ ctl' = [mode |-> "eval", env |-> Top.env, val |-> Scalar]
  BY DEF NextArgument, AtArguments, Evaluate, memory, control, Steady
<1>2. ControlPlaced(ctl', stack) /\ ctl'.mode = "eval" /\ ctl'.val = Scalar
  BY <1>1, TopIsPlaced, ControlIsPlaced
<1> QED
  BY <1>1, <1>2, RestsQuietly DEF Settles

(* An argument is pinned.                                                   *)
LEMMA ArgumentPreserves ==
    ASSUME Sound, Registered, constructs' = constructs, Argument
    PROVE  Preserved
<1> DEFINE f == [Top EXCEPT !.pinned = Append(Top.pinned, ctl.val)]
<1>1. /\ ctl.mode = "value" /\ Top.at \in ArgFrames /\ heap' = heap /\ signals' = signals /\ Steady
      /\ stack' = Append(Below, f)
      /\ ctl' = [mode |-> "resume", env |-> Nil, val |-> Scalar]
  BY DEF Argument, Resume, control, Steady
<1>2. IsFrame(Top) /\ IsSequence(Top.pinned)
  BY <1>1, TopIsPlaced DEF IsFrame
<1>3. IsSequence(Append(Top.pinned, ctl.val))
  BY <1>2, PinnedAfter
<1>4. /\ IsFrame(f) /\ f.at = Top.at /\ f.pinned = Append(Top.pinned, ctl.val) /\ f.env = Top.env
      /\ f.target = Top.target
  BY <1>2, <1>3, RepinnedFrame
<1> HIDE DEF f
<1>5. Top.at \notin ScopeFrames \cup {"program", "module", "forin_next", "forin_body"}
  BY <1>1 DEF ScopeFrames, ArgFrames
<1>6. ASSUME Secure PROVE TopSafe(heap, modules, Below, f)
  <2>1. TopSafe(heap, modules, Below, Top)
    BY <1>1, <1>6, TopIsPlaced DEF Secure
  <2>2. \A v \in Pinned(f.pinned) : Proper(heap, modules, v)
    BY <1>1, <1>2, <1>4, <1>6, PinnedAfter, OperandsAreProper DEF Secure
  <2>3. \A e : Keeps(heap, modules, Top, e) => Keeps(heap, modules, f, e)
    BY <1>4 DEF Keeps
  <2> QED
    BY <1>4, <1>5, <2>1, <2>2, <2>3 DEF TopSafe
<1>7. f.at \notin ScopeFrames \cup {"program", "module"} /\ Top.at \notin ScopeFrames \cup {"program", "module"}
  BY <1>4, <1>5
<1> QED
  BY <1>1, <1>4, <1>6, <1>7, ReplacesQuietly

-----------------------------------------------------------------------------
(* The calls of functions.                                                  *)

(* A function that is about to be called has not been freed.                *)
LEMMA CalleesAreThere ==
    ASSUME Sound, Registered, Safe, NEW i \in DOMAIN stack, stack[i].at = "arg_function"
    PROVE  stack[i].target \in DOMAIN heap
<1>1. IsStack(stack) /\ Ordered(stack)
  BY DEF Sound, Grounded, Disciplined, Ordered
<1>2. Held(heap, modules, stack, i)
  BY DEF Safe, FramesSafe, FrameSafe
<1>3. CASE \E e \in DOMAIN heap : Keeps(heap, modules, stack[i], e)
  BY <1>2, <1>3 DEF Held, Keeps, Safe, NoneDangles, Proper
<1>4. CASE i > 1 /\ stack[i - 1].at = "callv" /\ stack[i].target = stack[i - 1].pinned[1]
  <2> PICK n \in Nat : n = Len(stack)
    BY <1>1, SequenceParts DEF IsStack
  <2>1. DOMAIN stack = 1 .. n
    BY <1>1, SequenceParts DEF IsStack
  <2>2. i \in 1 .. n /\ i - 1 \in 1 .. n
    BY <1>4, <2>1
  <2>3. Len(stack[i - 1].pinned) = PinCount("callv")
    BY <1>1, <1>4, <2>1, <2>2 DEF Ordered, Fits, ArgFrames
  <2>4. IsSequence(stack[i - 1].pinned)
    BY <1>1, <2>1, <2>2 DEF IsStack, IsFrame
  <2>5. 1 \in DOMAIN stack[i - 1].pinned
    BY <2>3, <2>4, SequenceParts DEF PinCount
  <2>6. Proper(heap, modules, stack[i - 1].pinned[1])
    BY <2>1, <2>2, <2>5 DEF Safe, FramesSafe, FrameSafe, Pinned
  <2> QED
    BY <1>2, <1>4, <2>6 DEF Held, Proper
<1> QED
  BY <1>2, <1>3, <1>4 DEF Held

(* What a step leaves alone that allocates.                                 *)
Calm == modules' = modules /\ constructs' = constructs /\ signals' = signals /\ (hadError => hadError')

(* An activation with a scope of its own begins or takes another's place.   *)
LEMMA BeginsScope ==
    ASSUME Sound, Registered, ctl.mode # "done", MemoryIsLeft, Calm,
           NEW R, NEW l, heap' = HeapWith(Object("env", R, l)), live' = live \cup {Fresh},
           Secure => (l \in Obj => IsScope(heap, l)) /\ \A v \in R : Proper(heap, modules, v),
           NEW f, IsFrame(f), f.at \in ScopeFrames, f.env = Fresh, f.target = Nil,
           f.at \in {"forin_next", "forin_body"} => f.pinned[1] \in Obj,
           Secure => \A v \in Pinned(f.pinned) : Proper(heap, modules, v),
           NEW b, b = stack \/ (b = Below /\ Opens(Top) = {}), stack' = Append(b, f),
           NEW m \in {"exec", "block", "resume"}, NEW d, ctl' = [mode |-> m, env |-> d, val |-> Scalar],
           d = IF m = "resume" THEN Nil ELSE Fresh
    PROVE  Preserved
<1>1. /\ Carries /\ Fresh \in Obj /\ Fresh \notin DOMAIN heap /\ IsScope(heap', Fresh)
  BY AllocationCarries DEF Calm
<1> PICK n : n = Fresh
  OBVIOUS
<1>2. Opens(f) = {n} /\ f.at \notin {"program", "arg_function", "module"}
  BY FrameFields DEF ScopeFrames
<1>3. IsStack(b)
  BY TopIsPlaced
<1>4. Opened(stack') = Opened(b) \cup {n}
  BY <1>2, <1>3, OpenedOfAppend
<1>5. ControlPlaced(ctl', stack') /\ ctl'.mode = m /\ ctl'.val = Scalar
  <2>1. IF m \in {"eval", "exec", "block"} THEN d \in Opened(stack') ELSE d = Nil
    BY <1>4
  <2> QED
    BY <2>1, ControlIsPlaced
<1>6. Proper(heap', modules, Scalar)
  BY ScalarIsProper
<1>7. Secure => \A v \in Pinned(f.pinned) : Proper(heap', modules, v)
  BY <1>1, CarriedFrames
<1> QED
  BY <1>1, <1>2, <1>5, <1>6, <1>7, OpensScope DEF Preserved

(* The body of a function or method.                                        *)
LEMMA EnterBodyPreserves ==
    ASSUME Sound, Registered, MemoryIsLeft, constructs' = constructs,
           ctl.mode = "resume", Top.at \in ArgFrames,
           NEW parent, NEW params, NEW depth, EnterBody(parent, params, depth),
           Secure => (parent \in Obj => IsScope(heap, parent)),
           Secure => \A v \in HandlesIn(params) : Proper(heap, modules, v)
    PROVE  Preserved
<1> PICK g : g = Frame("activation", Fresh)
  OBVIOUS
<1> PICK f : f = [g EXCEPT !.n = loopDepth]
  OBVIOUS
<1>1. /\ heap' = HeapWith(Object("env", HandlesIn(params), parent))
      /\ live' = live \cup {Fresh}
      /\ stack' = Append(Below, f)
      /\ ctl' = [mode |-> "block", env |-> Fresh, val |-> Scalar]
      /\ Calm
  BY DEF EnterBody, ExecuteBlock, Calm
<1>2. /\ IsFrame(g) /\ g.at = "activation" /\ g.pinned = <<>> /\ g.env = Fresh /\ g.target = Nil
  BY NewFrame, FrameFields
<1>3. /\ IsFrame(f) /\ f.at = "activation" /\ f.pinned = <<>> /\ f.env = Fresh /\ f.target = Nil
  BY <1>2, RecountedFrame
<1>4. f.at \in ScopeFrames /\ f.at \notin {"forin_next", "forin_body"} /\ Pinned(f.pinned) = {}
  BY <1>3, FrameFields DEF ScopeFrames
<1>5. Opens(Top) = {}
  BY FrameFields DEF ArgFrames, ScopeFrames
<1>6. Secure => (parent \in Obj => IsScope(heap, parent)) /\ \A v \in HandlesIn(params) : Proper(heap, modules, v)
  OBVIOUS
<1> PICK R : R = HandlesIn(params)
  OBVIOUS
<1> PICK b : b = Below
  OBVIOUS
<1>7. /\ heap' = HeapWith(Object("env", R, parent)) /\ stack' = Append(b, f)
      /\ Secure => (parent \in Obj => IsScope(heap, parent)) /\ \A v \in R : Proper(heap, modules, v)
      /\ b = stack \/ (b = Below /\ Opens(Top) = {})
      /\ Secure => \A v \in Pinned(f.pinned) : Proper(heap, modules, v)
      /\ ctl.mode # "done"
  BY <1>1, <1>4, <1>5, <1>6
<1> QED
  BY ONLY <1>1, <1>3, <1>4, <1>7, Sound, Registered, MemoryIsLeft, BeginsScope

(* The call of a function.                                                  *)
LEMMA CallFunctionPreserves ==
    ASSUME Sound, Registered, MemoryIsLeft, constructs' = constructs, CallFunction
    PROVE  Preserved
<1>1. /\ ctl.mode = "resume" /\ Top.at = "arg_function"
      /\ EnterBody(heap[Top.target].link, Top.pinned, 0)
  BY DEF CallFunction, AtResume
<1>2. ASSUME Secure
      PROVE  /\ heap[Top.target].link \in Obj => IsScope(heap, heap[Top.target].link)
             /\ \A v \in HandlesIn(Top.pinned) : Proper(heap, modules, v)
  <2>1. Top.target \in DOMAIN heap
    <3>1. Len(stack) \in DOMAIN stack
      BY <1>1, TopParts DEF Sound
    <3> QED
      BY <1>1, <1>2, <3>1, CalleesAreThere DEF Secure, Top
  <2> QED
    BY <1>1, <1>2, <2>1, OperandsAreProper DEF Secure, Safe, NoneDangles, HandlesIn
<1> QED
  BY <1>1, <1>2, EnterBodyPreserves DEF ArgFrames

(* The call of a method.                                                    *)
LEMMA CallMethodPreserves ==
    ASSUME Sound, Registered, MemoryIsLeft, constructs' = constructs, CallMethod
    PROVE  Preserved
<1>1. /\ ctl.mode = "resume" /\ Top.at = "arg_method"
      /\ \E p \in {Top.pinned, <<>>} : EnterBody(Globals, p, 0)
  BY DEF CallMethod, AtResume
<1>2. PICK p \in {Top.pinned, <<>>} : EnterBody(Globals, p, 0)
  BY <1>1
<1>3. IsScope(heap, Globals)
  BY <1>1, EnvsAreScopes
<1>4. Secure => \A v \in HandlesIn(p) : Proper(heap, modules, v)
  BY <1>1, OperandsAreProper, FrameFields DEF Secure, HandlesIn
<1> QED
  BY <1>1, <1>2, <1>3, <1>4, EnterBodyPreserves DEF ArgFrames

-----------------------------------------------------------------------------
(* Built-ins and literals.                                                  *)

(* More references in an object that has no reason to lose any.             *)
LEMMA AddingCarries ==
    ASSUME Registered, NEW c, NEW X, heap' = Stored(heap, c, heap[c].refs \cup X), Calm,
           Secure => \A v \in X : Proper(heap, modules, v)
    PROVE  Carries
<1> PICK R : R = heap[c].refs \cup X
  OBVIOUS
<1>1. heap' = Stored(heap, c, R)
  OBVIOUS
<1>2. Secure /\ c \in DOMAIN heap => \A v \in R : Proper(heap, modules, v)
  BY DEF Secure, Safe, NoneDangles
<1>3. Secure => \A i \in DOMAIN stack :
               stack[i].at = "arg_function" /\ Keeps(heap, modules, stack[i], c) => stack[i].target \in R
  BY DEF Keeps
<1> QED
  BY <1>1, <1>2, <1>3, StoreCarries DEF Calm

(* The activation is over or goes on after a store.                         *)
LEMMA RestsAfterStore ==
    ASSUME Sound, Registered, ctl.mode # "done", Carries, live' = live, Settles,
           NEW m \in {"value", "resume"}, NEW v, ctl' = [mode |-> m, env |-> Nil, val |-> v],
           m # "value" => v = Scalar,
           Secure => Proper(heap, modules, v)
    PROVE  Preserved
<1>1. ControlPlaced(ctl', stack') /\ ctl'.mode = m /\ ctl'.val = v
  BY ControlIsPlaced
<1>2. Secure => Proper(heap', modules, v)
  BY CarriedFrames
<1> QED
  BY <1>1, <1>2, Rests DEF Preserved, Settles

(* A built-in is called.                                                    *)
LEMMA CallBuiltinPreserves ==
    ASSUME Sound, Registered, MemoryIsLeft, constructs' = constructs, CallBuiltin
    PROVE  Preserved
<1> PICK args : args = Top.pinned
  OBVIOUS
<1>1. /\ ctl.mode = "resume" /\ Top.at = "arg_builtin" /\ stack' = Below
      /\ signals' = signals /\ Steady /\ Calm /\ live' = live
      /\ \/ heap' = heap /\ ctl' = [mode |-> "value", env |-> Nil, val |-> Scalar]
         \/ /\ heap' = HeapWith(Object("string", {}, Nil))
            /\ ctl' = [mode |-> "value", env |-> Nil, val |-> Fresh]
         \/ /\ Len(args) = 2
            /\ heap' = Stored(heap, args[1], heap[args[1]].refs \cup HandlesOf(args[2]))
            /\ ctl' = [mode |-> "value", env |-> Nil, val |-> Scalar]
         \/ /\ IsKind(args[1], {"list"})
            /\ \E v \in heap[args[1]].refs : \E lost :
                  /\ heap' = Stored(heap, args[1], heap[args[1]].refs \ lost)
                  /\ ctl' = [mode |-> "value", env |-> Nil, val |-> v]
         \/ /\ IsKind(args[1], {"map"})
            /\ \E taken : /\ taken \subseteq heap[args[1]].refs
                          /\ heap' = HeapWith(Object("list", taken, Nil))
            /\ ctl' = [mode |-> "value", env |-> Nil, val |-> Fresh]
  BY DEF CallBuiltin, AtResume, Yield, control, Steady, Calm, Stored
<1>2. Settles
  BY <1>1, ExpressionSettles DEF ArgFrames
<1>3. CASE heap' = heap /\ ctl' = [mode |-> "value", env |-> Nil, val |-> Scalar]
  BY <1>1, <1>2, <1>3, ScalarIsProper, YieldsQuietly
<1>4. CASE /\ heap' = HeapWith(Object("string", {}, Nil))
           /\ ctl' = [mode |-> "value", env |-> Nil, val |-> Fresh]
  BY <1>1, <1>2, <1>4, YieldsNew
<1>5. CASE /\ Len(args) = 2
           /\ heap' = Stored(heap, args[1], heap[args[1]].refs \cup HandlesOf(args[2]))
           /\ ctl' = [mode |-> "value", env |-> Nil, val |-> Scalar]
  <2>1. Secure => \A v \in HandlesOf(args[2]) : Proper(heap, modules, v)
    <3>1. 2 \in 1 .. Len(Top.pinned)
      BY <1>5
    <3>2. Secure => Proper(heap, modules, Top.pinned[2])
      BY <1>1, <3>1, OperandsAreProper DEF Secure
    <3> QED
      BY <3>2 DEF HandlesOf
  <2>2. Carries
    BY <1>1, <1>5, <2>1, AddingCarries
  <2> QED
    BY <1>1, <1>2, <1>5, <2>2, ScalarIsProper, RestsAfterStore
<1>6. CASE /\ IsKind(args[1], {"list"})
           /\ \E v \in heap[args[1]].refs : \E lost :
                 /\ heap' = Stored(heap, args[1], heap[args[1]].refs \ lost)
                 /\ ctl' = [mode |-> "value", env |-> Nil, val |-> v]
  <2>0. PICK v \in heap[args[1]].refs : \E lost :
                 /\ heap' = Stored(heap, args[1], heap[args[1]].refs \ lost)
                 /\ ctl' = [mode |-> "value", env |-> Nil, val |-> v]
    BY <1>6
  <2>1. PICK lost :
                 /\ heap' = Stored(heap, args[1], heap[args[1]].refs \ lost)
                 /\ ctl' = [mode |-> "value", env |-> Nil, val |-> v]
    BY <2>0
  <2> PICK c : c = args[1]
    OBVIOUS
  <2> PICK R : R = heap[c].refs \ lost
    OBVIOUS
  <2>2. /\ heap' = Stored(heap, c, R) /\ c \in DOMAIN heap /\ heap[c].kind = "list"
        /\ v \in heap[c].refs
    BY <1>6, <2>1 DEF IsKind
  <2>3. Secure => \A u \in heap[c].refs : Proper(heap, modules, u)
    BY <2>2 DEF Secure, Safe, NoneDangles
  <2>4. Carries
    <3>1. Secure /\ c \in DOMAIN heap => \A u \in R : Proper(heap, modules, u)
      BY <2>3
    <3>2. Secure => \A i \in DOMAIN stack :
               stack[i].at = "arg_function" /\ Keeps(heap, modules, stack[i], c) => stack[i].target \in R
      BY <2>2 DEF Keeps, IsScope
    <3> QED
      BY <1>1, <2>2, <3>1, <3>2, StoreCarries DEF Calm
  <2>5. Secure => Proper(heap, modules, v)
    BY <2>2, <2>3
  <2> QED
    BY <1>1, <1>2, <2>1, <2>4, <2>5, RestsAfterStore
<1>7. CASE /\ IsKind(args[1], {"map"})
           /\ \E taken : /\ taken \subseteq heap[args[1]].refs
                         /\ heap' = HeapWith(Object("list", taken, Nil))
           /\ ctl' = [mode |-> "value", env |-> Nil, val |-> Fresh]
  <2>1. PICK taken : /\ taken \subseteq heap[args[1]].refs
                     /\ heap' = HeapWith(Object("list", taken, Nil))
    BY <1>7
  <2>2. Secure => \A v \in taken : Proper(heap, modules, v)
    BY <1>7, <2>1 DEF Secure, Safe, NoneDangles, IsKind
  <2> QED
    BY <1>1, <1>2, <1>7, <2>1, <2>2, YieldsNew
<1> QED
  BY <1>1, <1>3, <1>4, <1>5, <1>6, <1>7

(* A list or a map literal pins the new container.                          *)
LEMMA BeginContainerPreserves ==
    ASSUME Sound, Registered, MemoryIsLeft, constructs' = constructs, BeginContainer
    PROVE  Preserved
<1>1. PICK k \in {"list", "map"} :
         /\ ctl.mode = "eval" /\ live' = live /\ Calm
         /\ heap' = HeapWith(Object(k, {}, Nil))
         /\ stack' = Append(stack, [Frame(k, ctl.env) EXCEPT !.pinned = <<Fresh>>])
         /\ ctl' = [mode |-> "resume", env |-> Nil, val |-> Scalar]
  BY DEF BeginContainer, Evaluating, AtEval, Resume, control, Calm
<1>2. ctl.env \in Opened(stack)
  BY <1>1 DEF Registered, ControlPlaced
<1>3. Carries /\ Proper(heap', modules, Fresh)
  BY <1>1, AllocationCarries, ValueAssumption DEF Calm
<1> PICK g : g = Frame(k, ctl.env)
  OBVIOUS
<1>4. /\ IsFrame(g) /\ g.at = k /\ g.env = ctl.env /\ g.target = Nil
  BY NewFrame, FrameFields
<1> PICK p : p = <<Fresh>>
  OBVIOUS
<1>5. IsSequence(p) /\ Pinned(p) = {Fresh}
  BY OnePin
<1> PICK f : f = [g EXCEPT !.pinned = p]
  OBVIOUS
<1>6. IsFrame(f) /\ f.at = k /\ f.pinned = p /\ f.env = ctl.env /\ f.target = Nil
  BY <1>4, <1>5, RepinnedFrame
<1>7. /\ f.at \notin ScopeFrames \cup {"program", "module", "arg_function", "forin_next", "forin_body"}
      /\ Opens(f) = {}
  BY <1>6, FrameFields DEF ScopeFrames
<1>8. TopSafe(heap', modules, stack, f)
  BY <1>3, <1>5, <1>6, <1>7 DEF TopSafe
<1>9. ControlPlaced(ctl', stack') /\ ctl'.mode = "resume" /\ ctl'.val = Scalar
  BY <1>1, ControlIsPlaced
<1>10. Proper(heap', modules, Scalar)
  BY ScalarIsProper
<1>11. stack' = Append(stack, f) /\ f.env \in Opened(stack) /\ f.at \notin {"program", "module"}
       /\ ctl.mode # "done" /\ ctl'.mode # "done"
  BY <1>1, <1>2, <1>6, <1>7, <1>9
<1> QED
  BY <1>1, <1>3, <1>6, <1>7, <1>8, <1>9, <1>10, <1>11, GoesOn DEF Preserved

(* The next element of a literal.                                           *)
LEMMA NextElementPreserves ==
    ASSUME Sound, Registered, constructs' = constructs, NextElement
    PROVE  Preserved
<1> DEFINE g == [Top EXCEPT !.n = Top.n + 1]
           k == IF Top.at = "map" THEN "map_key" ELSE Top.at
           f == [g EXCEPT !.at = k]
<1>1. /\ ctl.mode = "resume" /\ Top.at \in {"list", "map"}
      /\ heap' = heap /\ signals' = signals /\ Steady
      /\ ctl' = [mode |-> "eval", env |-> Top.env, val |-> Scalar]
  BY DEF NextElement, AtContainer, Evaluate, memory, control, Steady
<1>2. IsFrame(Top) /\ Top.env \in Opened(stack)
  BY <1>1, TopIsPlaced
<1>3. stack' = Append(Below, f)
  <2>1. stack' = Append(Below, [Top EXCEPT !.n = Top.n + 1,
                                          !.at = IF Top.at = "map" THEN "map_key" ELSE Top.at])
    BY DEF NextElement, Evaluate
  <2>2. [Top EXCEPT !.n = Top.n + 1, !.at = IF Top.at = "map" THEN "map_key" ELSE Top.at] = f
    BY <1>2 DEF IsFrame
  <2> QED
    BY <2>1, <2>2
<1>4. IsFrame(g) /\ g.at = Top.at /\ g.pinned = Top.pinned /\ g.env = Top.env /\ g.target = Top.target
  BY <1>2, RecountedFrame
<1> HIDE DEF g
<1>5. IsFrame(f) /\ f.at = k /\ f.pinned = Top.pinned /\ f.env = Top.env /\ f.target = Top.target
  BY <1>4, MovedFrame
<1> HIDE DEF f
<1>6. f.at \in {"list", "map_key"}
  BY <1>1, <1>5
<1>7. Carries
  BY <1>1, QuietCarries DEF Steady
<1>8. Secure => \A v \in Pinned(f.pinned) : Proper(heap', modules, v)
  BY <1>1, <1>5, OperandsAreProper DEF Secure
<1>9. ControlPlaced(ctl', stack) /\ ctl'.mode = "eval" /\ ctl'.val = Scalar
  BY <1>1, <1>2, ControlIsPlaced
<1>10. /\ f.at \notin ScopeFrames \cup {"program", "module", "arg_function", "forin_next", "forin_body"}
       /\ Top.at \notin ScopeFrames \cup {"program", "module", "arg_function"}
  BY <1>1, <1>6 DEF ScopeFrames
<1>11. /\ f.at \in ScopeFrames <=> Top.at \in ScopeFrames
       /\ f.at \in {"forin_next", "forin_body"} =>
               Top.at \in {"forin_next", "forin_body"} /\ f.pinned[1] = Top.pinned[1]
       /\ f.at \notin {"program", "module", "arg_function"}
       /\ Top.at \notin {"program", "module", "arg_function"}
       /\ ctl.mode # "done" /\ ctl'.mode # "done"
  BY <1>1, <1>9, <1>10
<1> QED
  BY <1>1, <1>3, <1>5, <1>7, <1>8, <1>9, <1>11, TurnsSafely

(* An element goes into the list.                                           *)
LEMMA ListElementPreserves ==
    ASSUME Sound, Registered, constructs' = constructs, ListElement
    PROVE  Preserved
<1>1. /\ ctl.mode = "value" /\ Top.at = "list" /\ stack' = stack /\ live' = live /\ Calm
      /\ heap' = Stored(heap, Top.pinned[1], heap[Top.pinned[1]].refs \cup HandlesOf(ctl.val))
      /\ ctl' = [mode |-> "resume", env |-> Nil, val |-> Scalar]
  BY DEF ListElement, AtValue, Resume, control, Stored, Calm
<1>2. Secure => \A v \in HandlesOf(ctl.val) : Proper(heap, modules, v)
  BY DEF Secure, Safe, HandlesOf
<1>3. Carries
  BY <1>1, <1>2, AddingCarries
<1> QED
  BY <1>1, <1>3, ScalarIsProper, RestsAfterStore DEF Settles

(* A key and its value go into the map.                                     *)
LEMMA MapValuePreserves ==
    ASSUME Sound, Registered, constructs' = constructs, MapValue
    PROVE  Preserved
<1> DEFINE g == TopAt("map")
           f == [g EXCEPT !.pinned = <<g.pinned[1]>>]
<1>1. /\ ctl.mode = "value" /\ Top.at = "map_value" /\ live' = live /\ Calm /\ Steady
      /\ \E key \in {{}, HandlesOf(Top.pinned[2])} :
            heap' = Stored(heap, Top.pinned[1], (heap[Top.pinned[1]].refs \cup key) \cup HandlesOf(ctl.val))
      /\ ctl' = [mode |-> "resume", env |-> Nil, val |-> Scalar]
      /\ stack' = Append(Below, f)
  BY DEF MapValue, AtValue, Resume, control, Stored, Calm, Steady
<1>2. PICK key \in {{}, HandlesOf(Top.pinned[2])} :
            heap' = Stored(heap, Top.pinned[1], (heap[Top.pinned[1]].refs \cup key) \cup HandlesOf(ctl.val))
  BY <1>1
<1>3. IsFrame(Top) /\ PinsFit(Top)
  BY <1>1, TopParts DEF Sound
<1>4. Len(Top.pinned) = 2
  BY <1>1, <1>3 DEF PinsFit, PinCount, ArgFrames
<1>5. Secure => Proper(heap, modules, Top.pinned[1]) /\ Proper(heap, modules, Top.pinned[2])
                /\ Proper(heap, modules, ctl.val)
  <2>1. 1 \in 1 .. Len(Top.pinned) /\ 2 \in 1 .. Len(Top.pinned)
    BY <1>4
  <2> QED
    BY <1>1, <2>1, OperandsAreProper DEF Secure
<1>6. Carries
  <2> PICK c : c = Top.pinned[1]
    OBVIOUS
  <2> PICK X : X = key \cup HandlesOf(ctl.val)
    OBVIOUS
  <2>1. heap' = Stored(heap, c, heap[c].refs \cup X)
    <3>1. (heap[c].refs \cup key) \cup HandlesOf(ctl.val) = heap[c].refs \cup X
      OBVIOUS
    <3> QED
      BY <1>2, <3>1
  <2>2. Secure => \A v \in X : Proper(heap, modules, v)
    BY <1>2, <1>5 DEF HandlesOf
  <2> QED
    BY <1>1, <2>1, <2>2, AddingCarries
<1>7. IsFrame(g) /\ g.at = "map" /\ g.pinned = Top.pinned /\ g.env = Top.env /\ g.target = Top.target
  BY <1>3, MovedFrame DEF TopAt
<1> HIDE DEF g
<1> PICK p : p = <<g.pinned[1]>>
  OBVIOUS
<1>8. IsSequence(p) /\ Pinned(p) = {Top.pinned[1]}
  BY <1>7, OnePin
<1> PICK fr : fr = [g EXCEPT !.pinned = p]
  OBVIOUS
<1>9. /\ IsFrame(fr) /\ fr.at = "map" /\ fr.pinned = p /\ fr.env = Top.env /\ fr.target = Top.target
      /\ stack' = Append(Below, fr)
  BY <1>1, <1>7, <1>8, RepinnedFrame
<1>10. Secure => \A v \in Pinned(fr.pinned) : Proper(heap', modules, v)
  BY <1>1, <1>5, <1>6, <1>8, <1>9, CarriedFrames
<1>11. ControlPlaced(ctl', stack) /\ ctl'.mode = "resume" /\ ctl'.val = Scalar
  BY <1>1, ControlIsPlaced
<1>12. /\ fr.at \notin ScopeFrames \cup {"program", "module", "arg_function", "forin_next", "forin_body"}
       /\ Top.at \notin ScopeFrames \cup {"program", "module", "arg_function"}
  BY <1>1, <1>9 DEF ScopeFrames
<1>13. /\ fr.at \in ScopeFrames <=> Top.at \in ScopeFrames
       /\ fr.at \in {"forin_next", "forin_body"} =>
               Top.at \in {"forin_next", "forin_body"} /\ fr.pinned[1] = Top.pinned[1]
       /\ fr.at \notin {"program", "module", "arg_function"}
       /\ Top.at \notin {"program", "module", "arg_function"}
       /\ ctl.mode # "done" /\ ctl'.mode # "done"
  BY <1>1, <1>11, <1>12
<1> QED
  BY <1>1, <1>6, <1>9, <1>10, <1>11, <1>13, TurnsSafely

-----------------------------------------------------------------------------
(* Collections.                                                             *)

(* What is in a sequence of two parts is in one of them.                    *)
LEMMA PinnedJoined ==
    ASSUME NEW p, IsSequence(p), NEW q, IsSequence(q)
    PROVE  Pinned(p \o q) = Pinned(p) \cup Pinned(q)
<1> PICK m \in Nat : m = Len(p)
  BY SequenceParts
<1> PICK n \in Nat : n = Len(q)
  BY SequenceParts
<1> PICK r : r = p \o q
  OBVIOUS
<1>1. /\ IsSequence(r) /\ Len(r) = m + n
      /\ \A i \in 1 .. m + n : r[i] = IF i <= m THEN p[i] ELSE q[i - m]
  BY Joined
<1>2. DOMAIN p = 1 .. m /\ DOMAIN q = 1 .. n /\ DOMAIN r = 1 .. m + n
  BY <1>1, SequenceParts
<1>3. ASSUME NEW i \in 1 .. m PROVE p[i] \in Pinned(r)
  <2>1. i \in 1 .. m + n /\ i <= m
    OBVIOUS
  <2>2. r[i] = p[i]
    BY <1>1, <2>1
  <2> QED
    BY <1>2, <2>1, <2>2 DEF Pinned
<1>4. ASSUME NEW i \in 1 .. n PROVE q[i] \in Pinned(r)
  <2>1. m + i \in 1 .. m + n /\ ~(m + i <= m) /\ (m + i) - m = i
    OBVIOUS
  <2>2. r[m + i] = q[i]
    BY <1>1, <2>1
  <2> QED
    BY <1>2, <2>1, <2>2 DEF Pinned
<1>5. ASSUME NEW i \in 1 .. m + n PROVE r[i] \in Pinned(p) \cup Pinned(q)
  <2>1. CASE i <= m
    <3>1. r[i] = p[i] /\ i \in 1 .. m
      BY <1>1, <2>1
    <3> QED
      BY <1>2, <3>1 DEF Pinned
  <2>2. CASE ~(i <= m)
    <3>1. i - m \in 1 .. n
      BY <2>2
    <3>2. r[i] = q[i - m]
      BY <1>1, <2>2
    <3> QED
      BY <1>2, <3>1, <3>2 DEF Pinned
  <2> QED
    BY <2>1, <2>2
<1>6. Pinned(p) \subseteq Pinned(r)
  BY <1>2, <1>3 DEF Pinned
<1>7. Pinned(q) \subseteq Pinned(r)
  BY <1>2, <1>4 DEF Pinned
<1>8. Pinned(r) \subseteq Pinned(p) \cup Pinned(q)
  <2>1. Pinned(r) = {r[i] : i \in 1 .. m + n}
    BY <1>2 DEF Pinned
  <2> QED
    BY <1>5, <2>1
<1> QED
  BY <1>6, <1>7, <1>8

(* The pins of the stack are what its activations have pinned.              *)
LEMMA FramePinsAreInPins ==
    ASSUME NEW s, IsStack(s)
    PROVE  /\ \A i \in DOMAIN s : Pinned(s[i].pinned) \subseteq Pinned(Pins(s))
           /\ \A v \in Pinned(Pins(s)) : \E i \in DOMAIN s : v \in Pinned(s[i].pinned)
<1> PICK n \in Nat : n = Len(s)
  BY SequenceParts DEF IsStack
<1>1. DOMAIN s = 1 .. n /\ IsSequence(s)
  BY SequenceParts DEF IsStack
<1> DEFINE Bad == {k \in 0 .. n :
                      Pinned(Pins(SubSeq(s, 1, k))) # UNION {Pinned(s[i].pinned) : i \in 1 .. k}}
<1>2. ASSUME Bad # {} PROVE FALSE
  <2>1. Bad \subseteq Nat
    OBVIOUS
  <2>2. PICK k \in Bad : \A j \in Bad : k <= j
    BY <1>2, <2>1, LeastPlace
  <2>3. k \in 1 .. n /\ k - 1 \in 0 .. n
    <3>1. ASSUME k = 0 PROVE FALSE
      <4> PICK t : t = SubSeq(s, 1, 0)
        OBVIOUS
      <4>1. IsSequence(t) /\ Len(t) = 0
        <5>1. 0 \in 0 .. Len(s)
          OBVIOUS
        <5> QED
          BY <1>1, <5>1, Cut
      <4>2. t = <<>>
        BY <4>1, SequenceParts
      <4>3. Pinned(Pins(t)) = {}
        BY <4>2, EmptyStack, FrameFields
      <4>4. 1 .. 0 = {}
        OBVIOUS
      <4> QED
        BY <2>2, <3>1, <4>3, <4>4
    <3> QED
      BY <2>2, <3>1
  <2>4. k - 1 \notin Bad
    BY <2>2, <2>3
  <2> DEFINE b == SubSeq(s, 1, k - 1)
             t == SubSeq(s, 1, k)
  <2>5. /\ IsSequence(b) /\ Len(b) = k - 1 /\ \A i \in 1 .. k - 1 : b[i] = s[i]
    BY <1>1, <2>3, Cut
  <2>6. /\ IsSequence(t) /\ Len(t) = k /\ \A i \in 1 .. k : t[i] = s[i]
    BY <1>1, <2>3, Cut
  <2> HIDE DEF b, t
  <2>7. IsStack(b) /\ IsFrame(s[k])
    <3>1. DOMAIN b = 1 .. k - 1
      BY <2>5, SequenceParts
    <3>2. \A i \in 1 .. k - 1 : i \in 1 .. n
      BY <2>3
    <3> QED
      BY <1>1, <2>3, <2>5, <3>1, <3>2 DEF IsStack
  <2>8. t = Append(b, s[k])
    <3> PICK u : u = Append(b, s[k])
      OBVIOUS
    <3>1. IsSequence(u) /\ Len(u) = k /\ (\A i \in 1 .. k - 1 : u[i] = b[i]) /\ u[k] = s[k]
      BY <2>3, <2>5, Appended
    <3>2. \A i \in 1 .. k : t[i] = u[i]
      BY <2>3, <2>5, <2>6, <3>1
    <3>3. t = u
      BY <2>6, <3>1, <3>2, SameElements
    <3> QED
      BY <3>3
  <2>9. Pinned(Pins(t)) = Pinned(Pins(b)) \cup Pinned(s[k].pinned)
    <3>1. IsSequence(Pins(b)) /\ Pins(t) = Pins(b) \o s[k].pinned /\ IsSequence(s[k].pinned)
      BY <2>7, <2>8, PinsOfAppend DEF IsFrame
    <3> QED
      BY <3>1, PinnedJoined
  <2>10. Pinned(Pins(b)) = UNION {Pinned(s[i].pinned) : i \in 1 .. k - 1}
    BY <2>3, <2>4 DEF b
  <2>11. Pinned(Pins(t)) = UNION {Pinned(s[i].pinned) : i \in 1 .. k}
    <3>1. 1 .. k = (1 .. k - 1) \cup {k}
      BY <2>3
    <3> QED
      BY <2>9, <2>10, <3>1
  <2> QED
    BY <2>2, <2>11 DEF t
<1>3. n \in 0 .. n
  OBVIOUS
<1>4. SubSeq(s, 1, n) = s
  <2> PICK t : t = SubSeq(s, 1, n)
    OBVIOUS
  <2>1. IsSequence(t) /\ Len(t) = n /\ \A i \in 1 .. n : t[i] = s[i]
    BY <1>1, <1>3, Cut
  <2>2. t = s
    BY <1>1, <2>1, SameElements
  <2> QED
    BY <2>2
<1>5. Pinned(Pins(SubSeq(s, 1, n))) = UNION {Pinned(s[i].pinned) : i \in 1 .. n}
  BY <1>2, <1>3
<1>6. Pinned(Pins(s)) = UNION {Pinned(s[i].pinned) : i \in DOMAIN s}
  BY <1>1, <1>4, <1>5
<1> QED
  BY <1>6

(* What an activation has pinned is on the protect stack, and so is a       *)
(* return value.                                                            *)
LEMMA PinsAreProtected ==
    ASSUME Sound, Exact
    PROVE  /\ \A i \in DOMAIN stack : Pinned(stack[i].pinned) \subseteq Pinned(protect)
           /\ signals.returning => signals.value \in Pinned(protect)
<1>1. IsStack(stack)
  BY DEF Sound, Grounded, Disciplined
<1>2. IsSequence(Pins(stack))
  <2>1. CASE stack = <<>>
    BY <2>1, EmptyStack
  <2>2. CASE stack # <<>>
    <3>1. IsStack(Below) /\ IsFrame(Top) /\ stack = Append(Below, Top)
      BY <1>1, <2>2, StackParts DEF Below, Top
    <3> QED
      BY <3>1, PinsGrow
  <2> QED
    BY <2>1, <2>2
<1>3. IsSequence(InTransit)
  BY OnePin, EmptyStack DEF InTransit
<1>4. Pinned(protect) = Pinned(Pins(stack)) \cup Pinned(InTransit)
  BY <1>2, <1>3, PinnedJoined DEF Exact
<1>5. signals.returning => signals.value \in Pinned(InTransit)
  BY OnePin DEF InTransit
<1> QED
  BY <1>1, <1>4, <1>5, FramePinsAreInPins

(* A heap shrinks to some of its objects, unchanged, and what they lead to. *)
Shrinks(h, g) ==
    /\ DOMAIN g \subseteq DOMAIN h
    /\ \A o \in DOMAIN g : g[o] = h[o]
    /\ \A o \in DOMAIN g : (h[o].refs \cup {h[o].link}) \cap DOMAIN h \subseteq DOMAIN g

(* A collection keeps the live scopes, what is pinned and what they lead to. *)
LEMMA Collected ==
    ASSUME IsHeap(heap), NEW S, DropScopes(S), live \subseteq DOMAIN heap
    PROVE  /\ live' = live \ S
           /\ Shrinks(heap, heap') /\ IsHeap(heap')
           /\ live' \subseteq DOMAIN heap'
           /\ Pinned(protect) \cap DOMAIN heap \subseteq DOMAIN heap'
           /\ live' = {} /\ Pinned(protect) = {} => DOMAIN heap' = {}
<1> PICK roots : roots = (live' \cup Pinned(protect)) \cap DOMAIN heap
  OBVIOUS
<1> PICK kept : kept = Trace(PointersIn(heap), roots)
  OBVIOUS
<1>1. live' = live \ S /\ heap' = [o \in kept |-> heap[o]]
  BY DEF DropScopes, Pointers, PointersIn
<1>2. DOMAIN heap \subseteq Obj /\ roots \in SUBSET DOMAIN heap
  BY DEF IsHeap
<1>3. /\ kept \subseteq DOMAIN heap /\ roots \subseteq kept
      /\ \A o \in kept : (heap[o].refs \cup {heap[o].link}) \cap DOMAIN heap \subseteq kept
      /\ roots = {} => kept = {}
  <2> PICK h : h = heap
    OBVIOUS
  <2>1. DOMAIN h \subseteq Obj /\ roots \in SUBSET DOMAIN h /\ kept = Trace(PointersIn(h), roots)
    BY <1>2
  <2>2. /\ kept \subseteq DOMAIN h /\ roots \subseteq kept
        /\ \A o \in kept : (h[o].refs \cup {h[o].link}) \cap DOMAIN h \subseteq kept
        /\ roots = {} => kept = {}
    BY ONLY <2>1, KeptIsClosed
  <2> QED
    BY <2>2
<1>4. DOMAIN heap' = kept /\ \A o \in kept : heap'[o] = heap[o]
  BY <1>1
<1>5. Shrinks(heap, heap')
  BY <1>3, <1>4 DEF Shrinks
<1>6. IsHeap(heap')
  BY <1>3, <1>4 DEF IsHeap
<1> QED
  BY <1>1, <1>3, <1>4, <1>5, <1>6

(* What is left does not dangle.                                            *)
LEMMA ShrunkIsSafe ==
    ASSUME NEW h, NEW g, Shrinks(h, g), NEW m, NoneDangles(h, m)
    PROVE  /\ NoneDangles(g, m)
           /\ \A v : Proper(h, m, v) /\ (v \in DOMAIN h => v \in DOMAIN g) => Proper(g, m, v)
<1>1. \A v : Proper(h, m, v) /\ (v \in DOMAIN h => v \in DOMAIN g) => Proper(g, m, v)
  BY DEF Shrinks, Proper
<1>2. ASSUME NEW o \in DOMAIN g, NEW v \in g[o].refs PROVE Proper(g, m, v)
  <2>1. o \in DOMAIN h /\ v \in h[o].refs
    BY <1>2 DEF Shrinks
  <2>2. Proper(h, m, v)
    BY <2>1 DEF NoneDangles
  <2>3. v \in DOMAIN h => v \in DOMAIN g
    BY <2>1 DEF Shrinks
  <2> QED
    BY <1>1, <2>2, <2>3
<1>3. ASSUME NEW o \in DOMAIN g, g[o].link \in Obj PROVE IsScope(g, g[o].link)
  <2>1. o \in DOMAIN h /\ g[o].link = h[o].link
    BY DEF Shrinks
  <2>2. IsScope(h, h[o].link)
    BY <1>3, <2>1 DEF NoneDangles
  <2>3. h[o].link \in DOMAIN g
    BY <2>2 DEF Shrinks, IsScope
  <2> QED
    BY <2>1, <2>2, <2>3 DEF IsScope, Shrinks
<1> QED
  BY <1>1, <1>2, <1>3 DEF NoneDangles

(* The scopes around a scope that is left are left.                         *)
LEMMA ShrunkChains ==
    ASSUME NEW h, IsHeap(h), NEW g, Shrinks(h, g), NEW m, NoneDangles(h, m),
           NEW e, IsScope(h, e), e \in DOMAIN g
    PROVE  ChainIn(g, e) = ChainIn(h, e) /\ ChainIn(h, e) \subseteq DOMAIN g
<1>1. /\ DOMAIN h \subseteq Obj /\ DOMAIN g \subseteq DOMAIN h /\ e \in Obj
      /\ \A o \in DOMAIN h : h[o].link \in Obj => IsScope(h, h[o].link)
  BY DEF IsHeap, NoneDangles, Shrinks
<1>2. \A o \in DOMAIN g \cap DOMAIN h : h[o].kind = "env" => {h[o].link} \cap Obj \subseteq DOMAIN g
  BY <1>1 DEF Shrinks, IsScope
<1>3. DOMAIN g \in SUBSET Obj
  BY <1>1
<1>4. ChainIn(h, e) \subseteq DOMAIN g
  BY <1>1, <1>2, <1>3, ChainsLieIn
<1>5. \A s \in ChainIn(h, e) : s \in DOMAIN g /\ g[s].kind = h[s].kind /\ g[s].link = h[s].link
  BY <1>4 DEF Shrinks
<1>6. ChainIn(g, e) = ChainIn(h, e)
  BY <1>1, <1>5, ChainsStay
<1> QED
  BY <1>4, <1>6

(* Frames whose scopes and pins are left stay safe.                         *)
LEMMA ShrunkFrames ==
    ASSUME NEW h, IsHeap(h), NEW g, Shrinks(h, g), NEW m, NoneDangles(h, m),
           NEW s, FramesSafe(h, m, s),
           \A i \in DOMAIN s : IsScope(h, s[i].env) /\ s[i].env \in DOMAIN g,
           \A i \in DOMAIN s : \A j \in 1 .. i - 1 : j \in DOMAIN s,
           \A i \in DOMAIN s : Pinned(s[i].pinned) \cap DOMAIN h \subseteq DOMAIN g,
           m \cap DOMAIN h \subseteq DOMAIN g
    PROVE  FramesSafe(g, m, s)
<1>1. \A i \in DOMAIN s : /\ ChainIn(g, s[i].env) = ChainIn(h, s[i].env)
                          /\ ChainIn(h, s[i].env) \subseteq DOMAIN g
  BY ShrunkChains
<1>2. \A v : Proper(h, m, v) /\ (v \in DOMAIN h => v \in DOMAIN g) => Proper(g, m, v)
  BY ShrunkIsSafe
<1>3. ASSUME NEW i \in DOMAIN s PROVE FrameSafe(g, m, s, i)
  <2>1. FrameSafe(h, m, s, i)
    BY DEF FramesSafe
  <2>2. \A v \in Pinned(s[i].pinned) : Proper(g, m, v)
    <3> TAKE v \in Pinned(s[i].pinned)
    <3>1. Proper(h, m, v)
      BY <2>1 DEF FrameSafe
    <3>2. v \in DOMAIN h => v \in DOMAIN g
      OBVIOUS
    <3> QED
      BY <1>2, <3>1, <3>2
  <2>3. ASSUME NEW e \in DOMAIN h, Keeps(h, m, s[i], e) PROVE e \in DOMAIN g /\ Keeps(g, m, s[i], e)
    <3>1. e \in DOMAIN g
      BY <1>1, <2>3 DEF Keeps
    <3> QED
      BY <1>1, <2>3, <3>1 DEF Keeps, IsScope, Shrinks
  <2>4. Held(h, m, s, i) => Held(g, m, s, i)
    BY <2>3 DEF Held
  <2>5. s[i].at \in ScopeFrames => \A j \in 1 .. i - 1 : s[i].env \notin ChainIn(g, s[j].env)
    BY <1>1, <2>1 DEF FrameSafe
  <2> QED
    BY <2>1, <2>2, <2>4, <2>5 DEF FrameSafe
<1> QED
  BY <1>3 DEF FramesSafe

(* What a step leaves alone that collects.                                  *)
Tidy ==
    /\ modules' = modules /\ constructs' = constructs /\ (hadError => hadError')
    /\ signals'.returning => signals.returning /\ signals'.value = signals.value

(* A scope is dropped with the activation that opened it.                   *)
LEMMA CollectingRegistered ==
    ASSUME Sound, Registered, ctl.mode # "done", Tidy,
           Top.at \in ScopeFrames, DropScopes({Top.env}), stack' = Below,
           ControlPlaced(ctl', stack'), ctl'.mode # "done"
    PROVE  Registered'
<1>1. /\ IsStack(Below) /\ Opened(stack) = Opened(Below) \cup {Top.env}
      /\ Placed(heap, modules, Below) /\ TopPlaced(heap, modules, Below, Top)
      /\ ModulesAreImported(Below) /\ Opened(stack) \subseteq live /\ Opens(Top) = {Top.env}
  BY TopIsPlaced, FrameFields
<1>2. IsHeap(heap) /\ live \subseteq DOMAIN heap
  BY DEF Registered, IsScope
<1>3. /\ live' = live \ {Top.env} /\ Shrinks(heap, heap') /\ IsHeap(heap')
      /\ live' \subseteq DOMAIN heap'
  BY <1>2, Collected
<1>4. \A o \in live' : IsScope(heap', o) /\ heap'[o] = heap[o]
  BY <1>3 DEF Registered, IsScope, Shrinks
<1>5. Opened(Below) \subseteq live' /\ modules' \subseteq live'
  BY <1>1, <1>3 DEF TopPlaced, Registered, Tidy
<1>6. ASSUME NEW o \in live'
      PROVE  o \in Opened(Below) \/ o \in modules' \/ LeftBehind(heap, o)'
  <2>1. o \in live /\ o # Top.env
    BY <1>3
  <2>2. o \in Opened(Below) \/ o \in modules \/ LeftBehind(heap, o)
    BY <1>1, <2>1 DEF Registered
  <2>3. LeftBehind(heap, o) => LeftBehind(heap, o)'
    BY <1>4 DEF LeftBehind, Tidy
  <2> QED
    BY <2>2, <2>3 DEF Tidy
<1>7. Placed(heap', modules', Below)
  <2>1. ASSUME NEW i \in DOMAIN Below PROVE FramePlaced(heap', modules, Below, i)
    <3>1. FramePlaced(heap, modules, Below, i)
      BY <1>1 DEF Placed
    <3>2. Opens(Below[i]) \subseteq live'
      BY <1>1, <1>5, OpenedOfAppend, TopIsPlaced
    <3>3. Below[i].at = "module" => Opens(Below[i]) = {Below[i].target}
      BY FrameFields
    <3>4. Below[i].at = "module" => IsScope(heap', Below[i].target) /\ heap'[Below[i].target] = heap[Below[i].target]
      BY <1>4, <3>2, <3>3
    <3> QED
      BY <3>1, <3>4 DEF FramePlaced
  <2> QED
    BY <2>1 DEF Placed, Tidy
<1>8. ModulesAreImported(stack)'
  BY <1>1 DEF ModulesAreImported, Tidy
<1>9. /\ \A o \in live' : IsScope(heap', o)
      /\ Opened(stack') \subseteq live' /\ modules' \subseteq live'
      /\ \A o \in live' : o \in Opened(stack') \/ o \in modules' \/ LeftBehind(heap, o)'
      /\ Placed(heap', modules', stack')
  BY <1>4, <1>5, <1>6, <1>7
<1> QED
  BY <1>3, <1>8, <1>9 DEF Registered

(* A scope is dropped, and with it what only it led to.                     *)
LEMMA CollectingPreserves ==
    ASSUME Sound, Registered, ctl.mode # "done", Tidy,
           Top.at \in ScopeFrames, DropScopes({Top.env}), stack' = Below,
           NEW m \in {"value", "resume"}, NEW v, ctl' = [mode |-> m, env |-> Nil, val |-> v],
           m # "value" => v = Scalar,
           Secure => Proper(heap, modules, v) /\ (v \in Obj => v \in Pinned(protect))
    PROVE  Preserved
<1>1. ControlPlaced(ctl', stack') /\ ctl'.mode = m /\ ctl'.val = v
  BY ControlIsPlaced
<1>2. Registered'
  BY <1>1, CollectingRegistered
<1>3. ASSUME Secure PROVE Safe'
  <2>1. /\ IsStack(Below) /\ Opened(stack) \subseteq live /\ Opened(stack) = Opened(Below) \cup Opens(Top)
        /\ FramesSafe(heap, modules, Below) /\ TopPlaced(heap, modules, Below, Top)
        /\ \A i \in DOMAIN Below : i \in DOMAIN stack /\ Below[i] = stack[i]
        /\ Placed(heap, modules, Below)
    BY <1>3, TopIsPlaced DEF Secure
  <2>2. IsHeap(heap) /\ live \subseteq DOMAIN heap /\ NoneDangles(heap, modules)
    BY <1>3 DEF Registered, IsScope, Secure, Safe
  <2>3. /\ live' = live \ {Top.env} /\ Shrinks(heap, heap')
        /\ live' \subseteq DOMAIN heap'
        /\ Pinned(protect) \cap DOMAIN heap \subseteq DOMAIN heap'
    BY <2>2, Collected
  <2>4. NoneDangles(heap', modules)
        /\ \A u : Proper(heap, modules, u) /\ (u \in DOMAIN heap => u \in DOMAIN heap') => Proper(heap', modules, u)
    BY <2>2, <2>3, ShrunkIsSafe
  <2>5. /\ \A i \in DOMAIN stack : Pinned(stack[i].pinned) \subseteq Pinned(protect)
        /\ signals.returning => signals.value \in Pinned(protect)
    BY <1>3, PinsAreProtected DEF Secure
  <2>6. Opens(Top) = {Top.env}
    BY FrameFields
  <2>7. Opened(Below) \subseteq live' /\ modules \subseteq live'
    BY <2>1, <2>3, <2>6 DEF TopPlaced, Registered
  <2>8. \A i \in DOMAIN Below : IsScope(heap, Below[i].env) /\ Below[i].env \in DOMAIN heap'
    <3> TAKE i \in DOMAIN Below
    <3>1. Below[i].env \in OpenedBy(Below, i)
      BY <2>1 DEF Placed, FramePlaced
    <3>2. OpenedBy(Below, i) \subseteq Opened(Below)
      <4> PICK n \in Nat : n = Len(Below)
        BY <2>1, SequenceParts DEF IsStack
      <4>1. DOMAIN Below = 1 .. n
        BY <2>1, SequenceParts DEF IsStack
      <4>2. 1 .. i \subseteq 1 .. n
        BY <4>1
      <4> QED
        BY <4>2 DEF OpenedBy, Opened
    <3>3. Below[i].env \in live'
      BY <2>7, <3>1, <3>2
    <3> QED
      BY <2>3, <3>3 DEF Registered
  <2>9. \A i \in DOMAIN Below : \A j \in 1 .. i - 1 : j \in DOMAIN Below
    <3> PICK n \in Nat : n = Len(Below)
      BY <2>1, SequenceParts DEF IsStack
    <3>1. DOMAIN Below = 1 .. n
      BY <2>1, SequenceParts DEF IsStack
    <3> QED
      BY <3>1
  <2>10. \A i \in DOMAIN Below : Pinned(Below[i].pinned) \cap DOMAIN heap \subseteq DOMAIN heap'
    BY <2>1, <2>3, <2>5
  <2>11. FramesSafe(heap', modules, Below)
    BY <2>1, <2>2, <2>3, <2>7, <2>8, <2>9, <2>10, ShrunkFrames
  <2>12. Proper(heap', modules, v)
    BY <1>3, <2>2, <2>3, <2>4 DEF IsHeap
  <2>13. signals'.returning => Proper(heap', modules, signals'.value)
    <3>1. signals.returning => Proper(heap, modules, signals.value)
      BY <1>3 DEF Secure, Safe
    <3> QED
      BY <2>3, <2>4, <2>5, <3>1 DEF Tidy
  <2> QED
    BY <1>1, <2>4, <2>11, <2>12, <2>13 DEF Safe, Tidy
<1> QED
  BY <1>2, <1>3 DEF Preserved

(* The return from a body hands on a value that is pinned.                  *)
LEMMA ReturnFromBodyPreserves ==
    ASSUME Sound, Registered, constructs' = constructs, ReturnFromBody
    PROVE  Preserved
<1> DEFINE v == IF signals.returning THEN signals.value ELSE Scalar
<1>1. /\ ctl.mode = "resume" /\ Top.at = "activation" /\ DropScopes({Top.env}) /\ stack' = Below
      /\ ctl' = [mode |-> "value", env |-> Nil, val |-> v]
      /\ modules' = modules /\ hadError' = hadError
      /\ signals' = [signals EXCEPT !.returning = FALSE, !.value = Scalar]
  BY DEF ReturnFromBody, LeaveBody, AtResume, Yield
<1>2. ~signals'.returning
  BY <1>1 DEF Sound, Grounded, IsSignal
<1>3. Tidy
  BY <1>1, <1>2 DEF Tidy
<1>4. ASSUME Secure PROVE Proper(heap, modules, v) /\ (v \in Obj => v \in Pinned(protect))
  <2>1. signals.returning => Proper(heap, modules, signals.value) /\ signals.value \in Pinned(protect)
    BY <1>4, PinsAreProtected DEF Secure, Safe
  <2>2. Scalar \notin Obj /\ Proper(heap, modules, Scalar)
    BY ValueAssumption, ScalarIsProper
  <2> QED
    BY <2>1, <2>2
<1>5. Top.at \in ScopeFrames
  BY <1>1 DEF ScopeFrames
<1> HIDE DEF v
<1> QED
  BY <1>1, <1>3, <1>4, <1>5, CollectingPreserves

(* Every step of an expression keeps both parts.                            *)
LEMMA ExpressionPreserves ==
    ASSUME Sound, Registered, MemoryIsLeft, constructs' = constructs, Expression
    PROVE  Preserved
BY LeafPreserves, BeginOperandPreserves, UnaryPreserves, NextOperandPreserves, BinaryPreserves,
   BeginCallPreserves, CalleePreserves, CalleeReturnedPreserves, ReceiverPreserves,
   NextArgumentPreserves, ArgumentPreserves, BadArgumentsPreserves,
   ConstructStructPreserves, CallFunctionPreserves, CallMethodPreserves, ReturnFromBodyPreserves,
   CallBuiltinPreserves, BeginContainerPreserves, NextElementPreserves, ListElementPreserves,
   MapValuePreserves, EndContainerPreserves, IndexPreserves, FieldPreserves DEF Expression

-----------------------------------------------------------------------------
(* The statements.                                                          *)

(* A statement that is skipped.                                             *)
LEMMA SkipPreserves ==
    ASSUME Sound, Registered, constructs' = constructs, Skip
    PROVE  Preserved
<1>1. /\ ctl.mode # "done" /\ stack' = stack /\ heap' = heap /\ signals' = signals /\ Steady
      /\ ctl' = [mode |-> "resume", env |-> Nil, val |-> Scalar]
  BY DEF Skip, Resume, memory, control, Steady
<1>2. ControlPlaced(ctl', stack) /\ ctl'.mode = "resume" /\ ctl'.val = Scalar
  BY <1>1, ControlIsPlaced
<1> QED
  BY <1>1, <1>2, RestsQuietly DEF Settles

(* The operand of a statement.                                              *)
LEMMA BeginStatementPreserves ==
    ASSUME Sound, Registered, constructs' = constructs, BeginStatement
    PROVE  Preserved
<1>1. /\ ctl.mode = "exec"
      /\ heap' = heap /\ signals' = signals /\ Steady
      /\ \E k \in {"assign", "expression", "if", "forin_list", "return", "field_object",
                   "target_object"} :
            /\ stack' = Append(stack, Frame(k, ctl.env))
            /\ ctl' = [mode |-> "eval", env |-> ctl.env, val |-> Scalar]
  BY DEF BeginStatement, Executing, Evaluate, memory, control, Steady
<1>2. PICK k \in {"assign", "expression", "if", "forin_list", "return", "field_object",
                  "target_object"} :
            /\ stack' = Append(stack, Frame(k, ctl.env))
            /\ ctl' = [mode |-> "eval", env |-> ctl.env, val |-> Scalar]
  BY <1>1
<1>3. k \notin ScopeFrames \cup {"program", "module", "arg_function"}
  BY DEF ScopeFrames
<1>4. ctl.env \in Opened(stack)
  BY <1>1 DEF Registered, ControlPlaced
<1> QED
  BY <1>1, <1>2, <1>3, <1>4, BeginsQuietly

(* A statement is over: it had opened no scope.                             *)
LEMMA StatementSettles ==
    ASSUME stack' = Below,
           Top.at \in {"assign", "expression", "if", "forin_list", "return", "field_object",
                       "field_value", "target_value", "while_cond", "while_body"}
    PROVE  Settles
<1>1. Top.at \notin ScopeFrames \cup {"program", "module"}
  BY DEF ScopeFrames
<1> QED
  BY <1>1, FrameFields DEF Settles

(* A statement is over without a value.                                     *)
LEMMA StatementRests ==
    ASSUME Sound, Registered, ctl.mode # "done", Steady, heap' = heap, Settles,
           \/ signals' = signals
           \/ Secure /\ signals'.returning => Proper(heap, modules, signals'.value),
           ctl' = [mode |-> "resume", env |-> Nil, val |-> Scalar]
    PROVE  Preserved
<1>1. ControlPlaced(ctl', stack) /\ ctl'.mode = "resume" /\ ctl'.val = Scalar
  BY ControlIsPlaced
<1> QED
  BY <1>1, RestsQuietly

(* An expression as a statement.                                            *)
LEMMA ExpressionStatementPreserves ==
    ASSUME Sound, Registered, constructs' = constructs, ExpressionStatement
    PROVE  Preserved
<1>1. /\ ctl.mode = "value" /\ Top.at = "expression" /\ stack' = Below
      /\ heap' = heap /\ signals' = signals /\ Steady
      /\ ctl' = [mode |-> "resume", env |-> Nil, val |-> Scalar]
  BY DEF ExpressionStatement, AtValue, Resume, memory, control, Steady
<1> QED
  BY <1>1, StatementSettles, StatementRests

(* The target of a field assignment.                                        *)
LEMMA FieldTargetPreserves ==
    ASSUME Sound, Registered, constructs' = constructs, FieldTarget
    PROVE  Preserved
<1>1. ctl.mode = "value" /\ Top.at = "field_object"
  BY DEF FieldTarget, AtValue
<1>2. CASE PinAndEvaluate(TopAt("field_value"))
  <2>1. /\ "field_value" \notin ScopeFrames \cup {"program", "module", "arg_function"}
        /\ Top.at \notin ScopeFrames \cup {"program", "module", "arg_function"}
    BY <1>1 DEF ScopeFrames
  <2> QED
    BY <1>1, <1>2, <2>1, PinAndEvaluatePreserves
<1>3. CASE StopWith(Below) /\ UNCHANGED <<memory, control, fuel>>
  <2>1. /\ stack' = Below /\ heap' = heap /\ signals' = signals /\ Steady
        /\ ctl' = [mode |-> "resume", env |-> Nil, val |-> Scalar]
    BY <1>3 DEF StopWith, Resume, memory, control, Steady
  <2> QED
    BY <1>1, <2>1, StatementSettles, StatementRests
<1> QED
  BY <1>2, <1>3 DEF FieldTarget

(* The activation goes on in its scope.                                     *)
LEMMA GoesOnInScope ==
    ASSUME Sound, Registered, ctl.mode # "done", Steady, heap' = heap, signals' = signals,
           Settles,
           NEW m \in {"eval", "exec", "block"}, ctl' = [mode |-> m, env |-> Top.env, val |-> Scalar]
    PROVE  Preserved
<1>1. Top.env \in Opened(stack)
  BY TopIsPlaced
<1>2. ControlPlaced(ctl', stack) /\ ctl'.mode = m /\ ctl'.val = Scalar
  BY <1>1, ControlIsPlaced
<1> QED
  BY <1>2, RestsQuietly

(* The next statement of a block.                                           *)
LEMMA NextStatementPreserves ==
    ASSUME Sound, Registered, constructs' = constructs, NextStatement
    PROVE  Preserved
<1>1. /\ ctl.mode = "resume" /\ stack' = stack /\ heap' = heap /\ signals' = signals /\ Steady
      /\ ctl' = [mode |-> "exec", env |-> Top.env, val |-> Scalar]
  BY DEF NextStatement, AtResume, Execute, memory, control, Steady
<1> QED
  BY <1>1, GoesOnInScope DEF Settles

(* A conditional.                                                           *)
LEMMA IfPreserves ==
    ASSUME Sound, Registered, constructs' = constructs, If
    PROVE  Preserved
<1>1. /\ ctl.mode = "value" /\ Top.at = "if" /\ stack' = Below
      /\ heap' = heap /\ signals' = signals /\ Steady
      /\ \/ ctl' = [mode |-> "resume", env |-> Nil, val |-> Scalar]
         \/ ctl' = [mode |-> "block", env |-> Top.env, val |-> Scalar]
  BY DEF If, AtValue, Resume, ExecuteBlock, memory, control, Steady
<1>2. Settles
  BY <1>1, StatementSettles
<1>3. CASE ctl' = [mode |-> "resume", env |-> Nil, val |-> Scalar]
  BY <1>1, <1>2, <1>3, StatementRests
<1>4. CASE ctl' = [mode |-> "block", env |-> Top.env, val |-> Scalar]
  BY <1>1, <1>2, <1>4, GoesOnInScope
<1> QED
  BY <1>1, <1>3, <1>4

(* The next condition of a conditional.                                     *)
LEMMA ElseIfPreserves ==
    ASSUME Sound, Registered, constructs' = constructs, ElseIf
    PROVE  Preserved
<1>1. /\ ctl.mode = "value" /\ stack' = stack /\ heap' = heap /\ signals' = signals /\ Steady
      /\ ctl' = [mode |-> "eval", env |-> Top.env, val |-> Scalar]
  BY DEF ElseIf, AtValue, Evaluate, memory, control, Steady
<1> QED
  BY <1>1, GoesOnInScope DEF Settles

(* A while begins with its condition.                                       *)
LEMMA BeginWhilePreserves ==
    ASSUME Sound, Registered, constructs' = constructs, BeginWhile
    PROVE  Preserved
<1>1. /\ ctl.mode = "exec" /\ heap' = heap /\ signals' = signals /\ Steady
      /\ stack' = Append(stack, Frame("while_cond", ctl.env))
      /\ ctl' = [mode |-> "eval", env |-> ctl.env, val |-> Scalar]
  BY DEF BeginWhile, StartWhile, Executing, Evaluate, memory, Steady
<1>2. "while_cond" \notin ScopeFrames \cup {"program", "module", "arg_function"}
  BY DEF ScopeFrames
<1>3. ctl.env \in Opened(stack)
  BY <1>1 DEF Registered, ControlPlaced
<1> QED
  BY <1>1, <1>2, <1>3, BeginsQuietly

(* A break or a continue.                                                   *)
LEMMA BreakOrContinuePreserves ==
    ASSUME Sound, Registered, constructs' = constructs, BreakOrContinue
    PROVE  Preserved
<1>1. /\ ctl.mode = "exec" /\ stack' = stack /\ heap' = heap /\ Steady
      /\ ctl' = [mode |-> "resume", env |-> Nil, val |-> Scalar]
      /\ \/ signals' = signals
         \/ \E k \in {"breaking", "continuing"} : signals' = [signals EXCEPT ![k] = TRUE]
  BY DEF BreakOrContinue, SignalUnless, Executing, Resume, memory, Steady
<1>2. IsSignal(signals)
  BY DEF Sound, Grounded
<1>3. signals'.returning = signals.returning /\ signals'.value = signals.value
  BY <1>1, <1>2 DEF IsSignal
<1>4. Secure /\ signals'.returning => Proper(heap, modules, signals'.value)
  BY <1>3 DEF Secure, Safe
<1> QED
  BY <1>1, <1>4, StatementRests DEF Settles

(* A return: the value is put aside.                                        *)
LEMMA ReturnPreserves ==
    ASSUME Sound, Registered, constructs' = constructs, Return
    PROVE  Preserved
<1>1. /\ ctl.mode = "value" /\ Top.at = "return" /\ stack' = Below /\ heap' = heap /\ Steady
      /\ ctl' = [mode |-> "resume", env |-> Nil, val |-> Scalar]
      /\ signals' = [signals EXCEPT !.returning = TRUE, !.value = ctl.val]
  BY DEF Return, AtValue, Resume, Steady
<1>2. IsSignal(signals)
  BY DEF Sound, Grounded
<1>3. signals'.value = ctl.val
  BY <1>1, <1>2 DEF IsSignal
<1>4. Secure /\ signals'.returning => Proper(heap, modules, signals'.value)
  BY <1>3 DEF Secure, Safe
<1> QED
  BY <1>1, <1>4, StatementSettles, StatementRests

(* A block has a scope of its own.                                          *)
LEMMA EnterBlockPreserves ==
    ASSUME Sound, Registered, MemoryIsLeft, constructs' = constructs, EnterBlock
    PROVE  Preserved
<1> PICK f : f = Frame("block", Fresh)
  OBVIOUS
<1>1. /\ ctl.mode = "block" /\ heap' = HeapWith(Object("env", {}, ctl.env)) /\ live' = live \cup {Fresh}
      /\ stack' = Append(stack, f) /\ Calm
      /\ ctl' = [mode |-> "resume", env |-> Nil, val |-> Scalar]
  BY DEF EnterBlock, Resume, control, Calm
<1>2. /\ IsFrame(f) /\ f.at = "block" /\ f.pinned = <<>> /\ f.env = Fresh /\ f.target = Nil
      /\ Pinned(f.pinned) = {}
  BY NewFrame, FrameFields
<1>3. f.at \in ScopeFrames /\ f.at \notin {"forin_next", "forin_body"}
  BY <1>2 DEF ScopeFrames
<1> PICK b : b = stack
  OBVIOUS
<1>4. /\ ctl.mode # "done" /\ stack' = Append(b, f)
      /\ b = stack \/ (b = Below /\ Opens(Top) = {})
      /\ Secure => (ctl.env \in Obj => IsScope(heap, ctl.env)) /\ \A v \in {} : Proper(heap, modules, v)
      /\ Secure => \A v \in Pinned(f.pinned) : Proper(heap, modules, v)
  BY <1>1, <1>2, EnvsAreScopes
<1> QED
  BY ONLY <1>1, <1>2, <1>3, <1>4, Sound, Registered, MemoryIsLeft, BeginsScope

(* A for has a scope of its own.                                            *)
LEMMA BeginForPreserves ==
    ASSUME Sound, Registered, MemoryIsLeft, constructs' = constructs, BeginFor
    PROVE  Preserved
<1> PICK f : f = Frame("for_init", Fresh)
  OBVIOUS
<1>1. /\ ctl.mode = "exec" /\ heap' = HeapWith(Object("env", {}, ctl.env)) /\ live' = live \cup {Fresh}
      /\ stack' = Append(stack, f) /\ Calm
      /\ \/ ctl' = [mode |-> "resume", env |-> Nil, val |-> Scalar]
         \/ ctl' = [mode |-> "exec", env |-> Fresh, val |-> Scalar]
  BY DEF BeginFor, Executing, Execute, Resume, control, Calm
<1>2. /\ IsFrame(f) /\ f.at = "for_init" /\ f.pinned = <<>> /\ f.env = Fresh /\ f.target = Nil
      /\ Pinned(f.pinned) = {}
  BY NewFrame, FrameFields
<1>3. f.at \in ScopeFrames /\ f.at \notin {"forin_next", "forin_body"}
  BY <1>2 DEF ScopeFrames
<1> PICK b : b = stack
  OBVIOUS
<1>4. /\ ctl.mode # "done" /\ stack' = Append(b, f)
      /\ b = stack \/ (b = Below /\ Opens(Top) = {})
      /\ Secure => (ctl.env \in Obj => IsScope(heap, ctl.env)) /\ \A v \in {} : Proper(heap, modules, v)
      /\ Secure => \A v \in Pinned(f.pinned) : Proper(heap, modules, v)
  BY <1>1, <1>2, EnvsAreScopes
<1>5. \E m \in {"exec", "block", "resume"} : \E d :
         /\ ctl' = [mode |-> m, env |-> d, val |-> Scalar]
         /\ d = IF m = "resume" THEN Nil ELSE Fresh
  BY <1>1
<1> QED
  BY ONLY <1>1, <1>2, <1>3, <1>4, <1>5, Sound, Registered, MemoryIsLeft, BeginsScope

(* A for-in has a scope of its own, and pins its list.                      *)
LEMMA BeginForInPreserves ==
    ASSUME Sound, Registered, MemoryIsLeft, constructs' = constructs, BeginForIn
    PROVE  Preserved
<1>1. ctl.mode = "value" /\ Top.at = "forin_list"
  BY DEF BeginForIn, AtValue
<1>2. CASE ~IsKind(ctl.val, {"list"})
  <2>1. /\ stack' = Below /\ heap' = heap /\ signals' = signals /\ Steady
        /\ ctl' = [mode |-> "resume", env |-> Nil, val |-> Scalar]
    BY <1>2 DEF BeginForIn, StopWith, Resume, memory, Steady
  <2> QED
    BY <1>1, <2>1, StatementSettles, StatementRests
<1>3. CASE IsKind(ctl.val, {"list"})
  <2> PICK g : g = Frame("forin_next", Fresh)
    OBVIOUS
  <2> PICK p : p = <<ctl.val>>
    OBVIOUS
  <2> PICK f : f = [g EXCEPT !.pinned = p]
    OBVIOUS
  <2> PICK b : b = Below
    OBVIOUS
  <2>1. /\ heap' = HeapWith(Object("env", {}, Top.env)) /\ live' = live \cup {Fresh}
        /\ stack' = Append(b, f) /\ Calm
        /\ ctl' = [mode |-> "resume", env |-> Nil, val |-> Scalar]
    BY <1>3 DEF BeginForIn, Resume, Calm
  <2>2. /\ IsFrame(g) /\ g.at = "forin_next" /\ g.env = Fresh /\ g.target = Nil
    BY NewFrame, FrameFields
  <2>3. IsSequence(p) /\ Pinned(p) = {ctl.val} /\ p[1] = ctl.val
    BY OnePin
  <2>4. IsFrame(f) /\ f.at = "forin_next" /\ f.pinned = p /\ f.env = Fresh /\ f.target = Nil
    BY <2>2, <2>3, RepinnedFrame
  <2>5. f.at \in ScopeFrames
    BY <2>4 DEF ScopeFrames
  <2>6. ctl.val \in Obj
    BY <1>3 DEF IsKind, Registered, IsHeap
  <2>7. Secure => \A v \in Pinned(f.pinned) : Proper(heap, modules, v)
    BY <2>3, <2>4 DEF Secure, Safe
  <2>8. Secure => (Top.env \in Obj => IsScope(heap, Top.env)) /\ \A v \in {} : Proper(heap, modules, v)
    BY <1>1, TopIsPlaced
  <2>9. Opens(Top) = {}
    BY <1>1, FrameFields DEF ScopeFrames
  <2>10. /\ ctl.mode # "done" /\ (b = stack \/ (b = Below /\ Opens(Top) = {}))
         /\ f.at \in {"forin_next", "forin_body"} => f.pinned[1] \in Obj
    BY <1>1, <2>3, <2>4, <2>6, <2>9
  <2> QED
    BY ONLY <2>1, <2>4, <2>5, <2>7, <2>8, <2>10, Sound, Registered, MemoryIsLeft, BeginsScope
<1> QED
  BY <1>2, <1>3

(* A block is over, and its scope goes.                                     *)
LEMMA LeaveBlockPreserves ==
    ASSUME Sound, Registered, constructs' = constructs, LeaveBlock
    PROVE  Preserved
<1>1. /\ ctl.mode = "resume" /\ Top.at = "block" /\ DropScopes({Top.env}) /\ stack' = Below
      /\ ctl' = [mode |-> "resume", env |-> Nil, val |-> Scalar] /\ Tidy
  BY DEF LeaveBlock, LeaveBlockDropping, AtResume, Resume, control, Tidy
<1>2. Top.at \in ScopeFrames
  BY <1>1 DEF ScopeFrames
<1>3. Scalar \notin Obj /\ Proper(heap, modules, Scalar)
  BY ValueAssumption, ScalarIsProper
<1> QED
  BY <1>1, <1>2, <1>3, CollectingPreserves

(* A loop is over.                                                          *)
LEMMA LeaveLoopPreserves ==
    ASSUME Sound, Registered, ctl.mode # "done", LeaveLoop,
           Top.at \in LoopFrames, constructs' = constructs, modules' = modules,
           hadError' = hadError,
           signals'.returning => signals.returning /\ signals'.value = signals.value
    PROVE  Preserved
<1>1. /\ stack' = Below
      /\ ctl' = [mode |-> "resume", env |-> Nil, val |-> Scalar] /\ Tidy
  BY DEF LeaveLoop, Resume, Tidy
<1>2. CASE Top.at \in ScopeFrames
  <2>1. DropScopes({Top.env})
    BY <1>2 DEF LeaveLoop
  <2>2. Scalar \notin Obj /\ Proper(heap, modules, Scalar)
    BY ValueAssumption, ScalarIsProper
  <2> QED
    BY <1>1, <1>2, <2>1, <2>2, CollectingPreserves
<1>3. CASE Top.at \notin ScopeFrames
  <2>1. heap' = heap /\ Steady
    BY <1>3 DEF LeaveLoop, Steady
  <2>2. Top.at \in {"while_cond", "while_body"}
    BY <1>3 DEF LoopFrames, ScopeFrames
  <2>3. Settles
    BY <1>1, <2>2, StatementSettles
  <2>4. Secure /\ signals'.returning => Proper(heap, modules, signals'.value)
    BY DEF Secure, Safe
  <2> QED
    BY <1>1, <2>1, <2>3, <2>4, StatementRests
<1> QED
  BY <1>2, <1>3

-----------------------------------------------------------------------------
(* Assignments.                                                             *)

(* Steps that store references in a heap that has grown by an object.       *)
LEMMA StoreInGrown ==
    ASSUME Registered, NEW h, Grows(heap, h), \A o \in DOMAIN heap : h[o] = heap[o],
           Secure => NoneDangles(h, modules), Calm,
           NEW c, NEW R, heap' = Stored(h, c, R),
           Secure /\ c \in DOMAIN h => \A v \in R : Proper(h, modules, v),
           Secure => \A i \in DOMAIN stack :
               stack[i].at = "arg_function" /\ Keeps(heap, modules, stack[i], c) => stack[i].target \in R
    PROVE  Carries
<1>1. IsHeap(h)
  BY DEF Grows
<1> PICK g : g = heap'
  OBVIOUS
<1>2. g = Stored(h, c, R)
  OBVIOUS
<1>3. /\ Grows(h, g)
      /\ DOMAIN g = DOMAIN h
      /\ c \in DOMAIN h => g[c].refs = R
      /\ \A o \in DOMAIN h : o # c => g[o] = h[o]
  BY <1>1, <1>2, StoreGrows
<1>4. Grows(heap, g)
  BY <1>3 DEF Grows
<1>5. ASSUME Secure
      PROVE  /\ NoneDangles(heap', modules) /\ KeepsCallees(heap, heap', modules, stack)
             /\ signals'.returning => Proper(heap', modules, signals'.value)
  <2>1. Safe
    BY <1>5 DEF Secure
  <2>2. NoneDangles(h, modules) /\ (c \in DOMAIN h => \A v \in R : Proper(h, modules, v))
    BY <1>5
  <2>3. NoneDangles(g, modules)
    BY <1>1, <1>2, <2>2, StoreIsSafe
  <2>4. \A o \in DOMAIN heap : o \in DOMAIN h /\ (o # c => g[o] = heap[o])
    BY <1>3 DEF Grows
  <2>5. KeepsCallees(heap, g, modules, stack)
    BY <1>3, <1>5, <2>4 DEF KeepsCallees, Keeps
  <2> QED
    BY <1>4, <2>1, <2>3, <2>5, SignalStaysProper DEF Calm
<1> QED
  BY <1>4, <1>5 DEF Carries, Calm

(* An object may lose what it holds, unless it is a scope and a function    *)
(* that is being called is lost.                                            *)
LEMMA CalleesStay ==
    ASSUME Secure, NEW c, NEW lost, "rebind" \notin constructs => ~LosesCallee(c, lost)
    PROVE  \A i \in DOMAIN stack :
               stack[i].at = "arg_function" /\ Keeps(heap, modules, stack[i], c)
                   => stack[i].target \in heap[c].refs \ lost
BY DEF Secure, Switchless, CalleesStayPut, LosesCallee, Keeps, IsScope, IsKind

(* A slot is overwritten.                                                   *)
LEMMA SlotCarries ==
    ASSUME Registered, MemoryIsLeft, constructs' = constructs, modules' = modules,
           signals' = signals, NEW c, NEW keys, NEW v, StoreInSlot(c, keys, v),
           Secure => \A u \in keys \cup HandlesOf(v) : Proper(heap, modules, u)
    PROVE  Carries
<1>1. Calm
  <2>1. hadError' \in {hadError, hadError \/ MayFail}
    BY DEF StoreInSlot
  <2> QED
    BY <2>1 DEF Calm
<1>2. PICK lost, op :
         /\ op \in {"none"} \cup {"scalar", "string"}
         /\ "rebind" \notin constructs => ~LosesCallee(c, lost)
         /\ heap' = Stored(IF op = "string" THEN HeapWith(Object("string", {}, Nil)) ELSE heap, c,
                           (((IF op = "string" THEN HeapWith(Object("string", {}, Nil)) ELSE heap)[c].refs
                               \ lost) \cup keys)
                             \cup CASE op = "none" -> HandlesOf(v)
                                    [] op = "scalar" -> {} [] op = "string" -> {Fresh})
  BY DEF StoreInSlot, Stored, Computable
<1> PICK h : h = IF op = "string" THEN HeapWith(Object("string", {}, Nil)) ELSE heap
  OBVIOUS
<1> PICK new : new = CASE op = "none" -> HandlesOf(v) [] op = "scalar" -> {} [] op = "string" -> {Fresh}
  OBVIOUS
<1> PICK R : R = ((h[c].refs \ lost) \cup keys) \cup new
  OBVIOUS
<1>3. heap' = Stored(h, c, R)
  BY <1>2
<1>4. IsHeap(heap)
  BY DEF Registered
<1>5. op = "string" =>
        /\ Fresh \in Obj /\ Fresh \notin DOMAIN heap
        /\ DOMAIN h = DOMAIN heap \cup {Fresh} /\ h[Fresh].refs = {} /\ h[Fresh].kind = "string"
        /\ \A o \in DOMAIN heap : h[o] = heap[o]
        /\ Grows(heap, h)
  BY <1>4, AllocationGrows
<1>6. Grows(heap, h) /\ \A o \in DOMAIN heap : h[o] = heap[o]
  <2>1. Grows(heap, heap)
    BY <1>4 DEF Grows
  <2> QED
    BY <1>5, <2>1
<1>7. ASSUME Secure PROVE NoneDangles(h, modules)
  <2>1. NoneDangles(heap, modules)
    BY <1>7 DEF Secure, Safe
  <2>2. Nil \notin Obj
    BY ValueAssumption
  <2>3. CASE op = "string"
    <3>1. h = HeapWith(Object("string", {}, Nil))
      BY <2>3
    <3> QED
      BY <1>4, <2>1, <2>2, <3>1, AllocationIsSafe
  <2> QED
    BY <2>1, <2>3
<1>8. ASSUME Secure, c \in DOMAIN h, NEW u \in R PROVE Proper(h, modules, u)
  <2>1. \A w : Proper(heap, modules, w) => Proper(h, modules, w)
    BY <1>6, ProperStays
  <2>2. CASE u \in h[c].refs
    BY <1>7, <1>8, <2>2 DEF NoneDangles
  <2>3. CASE u \in keys \cup HandlesOf(v)
    BY <1>8, <2>1, <2>3
  <2>4. CASE op = "string" /\ u = Fresh
    BY <1>5, <2>4 DEF Proper
  <2>5. u \in h[c].refs \/ u \in keys \cup HandlesOf(v) \/ (op = "string" /\ u = Fresh)
    BY <1>2
  <2> QED
    BY <2>2, <2>3, <2>4, <2>5
<1>9. ASSUME Secure
      PROVE  \A i \in DOMAIN stack :
               stack[i].at = "arg_function" /\ Keeps(heap, modules, stack[i], c) => stack[i].target \in R
  <2>1. \A i \in DOMAIN stack :
               stack[i].at = "arg_function" /\ Keeps(heap, modules, stack[i], c)
                  => stack[i].target \in heap[c].refs \ lost /\ c \in DOMAIN heap
    BY <1>2, <1>9, CalleesStay DEF Keeps, IsScope
  <2> QED
    BY <1>6, <2>1
<1> QED
  BY <1>1, <1>3, <1>6, <1>7, <1>8, <1>9, StoreInGrown

(* An assignment to a variable.                                             *)
LEMMA AssignPreserves ==
    ASSUME Sound, Registered, MemoryIsLeft, constructs' = constructs, Assign
    PROVE  Preserved
<1>1. /\ ctl.mode = "value" /\ Top.at = "assign" /\ stack' = Below /\ live' = live
      /\ signals' = signals /\ modules' = modules
      /\ ctl' = [mode |-> "resume", env |-> Nil, val |-> Scalar]
      /\ \E s \in Chain(Top.env) : StoreInSlot(s, {}, ctl.val)
  BY DEF Assign, AtValue, Resume, control
<1>2. PICK s \in Chain(Top.env) : StoreInSlot(s, {}, ctl.val)
  BY <1>1
<1>3. Secure => \A u \in {} \cup HandlesOf(ctl.val) : Proper(heap, modules, u)
  BY DEF Secure, Safe, HandlesOf
<1>4. Carries
  BY <1>1, <1>2, <1>3, SlotCarries
<1> QED
  BY <1>1, <1>4, ScalarIsProper, StatementSettles, RestsAfterStore

(* An assignment to a field.                                                *)
LEMMA FieldAssignPreserves ==
    ASSUME Sound, Registered, MemoryIsLeft, constructs' = constructs, FieldAssign
    PROVE  Preserved
<1>1. /\ ctl.mode = "value" /\ Top.at = "field_value" /\ stack' = Below /\ live' = live
      /\ signals' = signals /\ modules' = modules
      /\ ctl' = [mode |-> "resume", env |-> Nil, val |-> Scalar]
      /\ StoreInSlot(Top.pinned[1], {}, ctl.val)
  BY DEF FieldAssign, AtValue, Resume, control
<1>2. Secure => \A u \in {} \cup HandlesOf(ctl.val) : Proper(heap, modules, u)
  BY DEF Secure, Safe, HandlesOf
<1>3. Carries
  BY <1>1, <1>2, SlotCarries
<1> QED
  BY <1>1, <1>3, ScalarIsProper, StatementSettles, RestsAfterStore

(* An assignment to an element.                                             *)
LEMMA IndexAssignPreserves ==
    ASSUME Sound, Registered, MemoryIsLeft, constructs' = constructs, IndexAssign
    PROVE  Preserved
<1>1. /\ ctl.mode = "value" /\ Top.at = "target_value" /\ stack' = Below /\ live' = live
      /\ signals' = signals /\ modules' = modules
      /\ ctl' = [mode |-> "resume", env |-> Nil, val |-> Scalar]
      /\ \/ \E keys \in {{}, HandlesOf(Top.pinned[2])} : StoreInSlot(Top.pinned[1], keys, ctl.val)
         \/ hadError' = TRUE /\ heap' = heap
  BY DEF IndexAssign, StoreIndexed, AtValue, Resume, control
<1>2. Settles
  BY <1>1, StatementSettles
<1>3. CASE \E keys \in {{}, HandlesOf(Top.pinned[2])} : StoreInSlot(Top.pinned[1], keys, ctl.val)
  <2>1. PICK keys \in {{}, HandlesOf(Top.pinned[2])} : StoreInSlot(Top.pinned[1], keys, ctl.val)
    BY <1>3
  <2>2. 2 \in 1 .. Len(Top.pinned)
    <3>1. IsFrame(Top) /\ PinsFit(Top)
      BY <1>1, TopParts DEF Sound
    <3>2. Len(Top.pinned) = 2
      BY <1>1, <3>1 DEF PinsFit, PinCount, ArgFrames
    <3> QED
      BY <3>2
  <2>3. Secure => \A u \in keys \cup HandlesOf(ctl.val) : Proper(heap, modules, u)
    BY <1>1, <2>1, <2>2, OperandsAreProper DEF Secure, HandlesOf
  <2>4. Carries
    BY <1>1, <2>1, <2>3, SlotCarries
  <2> QED
    BY <1>1, <1>2, <2>4, ScalarIsProper, RestsAfterStore
<1>4. CASE hadError' = TRUE /\ heap' = heap
  <2>1. Steady
    BY <1>1, <1>4 DEF Steady
  <2> QED
    BY <1>1, <1>2, <1>4, <2>1, StatementRests
<1> QED
  BY <1>1, <1>3, <1>4

(* A function definition: the new function is in the scope it captures.     *)
LEMMA DefineFunctionPreserves ==
    ASSUME Sound, Registered, MemoryIsLeft, constructs' = constructs, DefineFunction
    PROVE  Preserved
<1> PICK h : h = HeapWith(Object("func", {}, ctl.env))
  OBVIOUS
<1> PICK R : R = h[ctl.env].refs \cup {Fresh}
  OBVIOUS
<1>1. /\ ctl.mode = "exec" /\ stack' = stack /\ live' = live /\ Calm
      /\ ctl' = [mode |-> "resume", env |-> Nil, val |-> Scalar]
      /\ heap' = Stored(h, ctl.env, R)
  BY DEF DefineFunction, Executing, Resume, control, Stored, Calm
<1>2. IsHeap(heap) /\ IsScope(heap, ctl.env)
  BY <1>1, EnvsAreScopes DEF Registered
<1>3. /\ Fresh \in Obj /\ Fresh \notin DOMAIN heap /\ DOMAIN h = DOMAIN heap \cup {Fresh}
      /\ h[Fresh].kind = "func"
      /\ \A o \in DOMAIN heap : h[o] = heap[o]
      /\ Grows(heap, h)
  BY <1>2, AllocationGrows
<1>4. ASSUME Secure PROVE NoneDangles(h, modules)
  <2>1. NoneDangles(heap, modules)
    BY <1>4 DEF Secure, Safe
  <2> QED
    BY <1>2, <2>1, AllocationIsSafe
<1>5. ASSUME Secure, NEW u \in R PROVE Proper(h, modules, u)
  <2>1. ctl.env \in DOMAIN h
    BY <1>2, <1>3 DEF IsScope
  <2>2. u \in h[ctl.env].refs => Proper(h, modules, u)
    BY <1>4, <1>5, <2>1 DEF NoneDangles
  <2>3. Proper(h, modules, Fresh)
    BY <1>3 DEF Proper
  <2> QED
    BY <2>2, <2>3
<1>6. \A i \in DOMAIN stack :
         stack[i].at = "arg_function" /\ Keeps(heap, modules, stack[i], ctl.env) => stack[i].target \in R
  BY <1>2, <1>3 DEF Keeps, IsScope
<1>7. Carries
  BY <1>1, <1>3, <1>4, <1>5, <1>6, StoreInGrown
<1> QED
  BY <1>1, <1>7, ScalarIsProper, RestsAfterStore DEF Settles

-----------------------------------------------------------------------------
(* Loops.                                                                   *)

(* A loop goes on, in its scope and with its pins.                          *)
LEMMA LoopGoesOn ==
    ASSUME Sound, Registered, ctl.mode # "done", Carries, Steady,
           NEW k, stack' = Append(Below, TopAt(k)),
           \/ k \in {"for_test", "for_cond", "for_body"} /\ Top.at \in {"for_init", "for_test", "for_cond", "for_body"}
           \/ k \in {"forin_next", "forin_body"} /\ Top.at \in {"forin_next", "forin_body"}
           \/ k \in {"while_cond", "while_body"} /\ Top.at \in {"while_cond", "while_body"},
           NEW m \in {"eval", "exec", "block", "resume"}, NEW d,
           ctl' = [mode |-> m, env |-> d, val |-> Scalar],
           d = IF m = "resume" THEN Nil ELSE Top.env
    PROVE  Preserved
<1> PICK f : f = TopAt(k)
  OBVIOUS
<1>1. IsFrame(Top) /\ Top.env \in Opened(stack)
  BY TopIsPlaced
<1>2. /\ IsFrame(f) /\ f.at = k /\ f.pinned = Top.pinned /\ f.env = Top.env /\ f.target = Top.target
  BY <1>1, MovedFrame DEF TopAt
<1>3. /\ f.at \notin {"program", "module", "arg_function"}
      /\ Top.at \notin {"program", "module", "arg_function"}
      /\ f.at \in ScopeFrames <=> Top.at \in ScopeFrames
      /\ f.at \in {"forin_next", "forin_body"} =>
               Top.at \in {"forin_next", "forin_body"} /\ f.pinned[1] = Top.pinned[1]
  BY <1>2 DEF ScopeFrames
<1>4. Secure => \A v \in Pinned(f.pinned) : Proper(heap', modules, v)
  BY <1>2, OperandsAreProper, CarriedFrames DEF Secure
<1>5. ControlPlaced(ctl', stack) /\ ctl'.mode = m /\ ctl'.val = Scalar
  <2>1. IF m \in {"eval", "exec", "block"} THEN d \in Opened(stack) ELSE d = Nil
    BY <1>1
  <2> QED
    BY <2>1, ControlIsPlaced
<1>6. stack' = Append(Below, f) /\ ctl'.mode # "done"
  BY <1>5
<1> QED
  BY <1>2, <1>3, <1>4, <1>5, <1>6, TurnsSafely

(* The initializer of a for is over.                                        *)
LEMMA ForInitDonePreserves ==
    ASSUME Sound, Registered, constructs' = constructs, ForInitDone
    PROVE  Preserved
<1>1. /\ ctl.mode = "resume" /\ Top.at = "for_init" /\ heap' = heap /\ signals' = signals /\ Steady
      /\ stack' = Append(Below, TopAt("for_test"))
      /\ ctl' = [mode |-> "resume", env |-> Nil, val |-> Scalar]
  BY DEF ForInitDone, AtResume, Resume, memory, Steady
<1>2. Carries
  BY <1>1, QuietCarries DEF Steady
<1> QED
  BY <1>1, <1>2, LoopGoesOn

(* The test of a for.                                                       *)
LEMMA ForTestPreserves ==
    ASSUME Sound, Registered, constructs' = constructs, ForTest
    PROVE  Preserved
<1>1. /\ ctl.mode = "resume" /\ Top.at = "for_test" /\ signals' = signals
      /\ hadError' = hadError /\ modules' = modules
      /\ \/ LeaveLoop
         \/ /\ \/ Evaluate(Append(Below, TopAt("for_cond")), Top.env)
               \/ ExecuteBlock(Append(Below, TopAt("for_body")), Top.env)
            /\ UNCHANGED memory
  BY DEF ForTest, ForTestUnless, AtResume
<1>2. CASE LeaveLoop
  BY <1>1, <1>2, LeaveLoopPreserves DEF LoopFrames
<1>3. CASE /\ \/ Evaluate(Append(Below, TopAt("for_cond")), Top.env)
              \/ ExecuteBlock(Append(Below, TopAt("for_body")), Top.env)
           /\ UNCHANGED memory
  <2>1. heap' = heap /\ Steady
    BY <1>1, <1>3 DEF memory, Steady
  <2>2. Carries
    BY <1>1, <2>1, QuietCarries DEF Steady
  <2>3. \/ /\ stack' = Append(Below, TopAt("for_cond"))
           /\ ctl' = [mode |-> "eval", env |-> Top.env, val |-> Scalar]
        \/ /\ stack' = Append(Below, TopAt("for_body"))
           /\ ctl' = [mode |-> "block", env |-> Top.env, val |-> Scalar]
    BY <1>3 DEF Evaluate, ExecuteBlock
  <2> QED
    BY <1>1, <2>1, <2>2, <2>3, LoopGoesOn
<1> QED
  BY <1>1, <1>2, <1>3

(* The condition of a loop.                                                 *)
LEMMA ConditionPreserves ==
    ASSUME Sound, Registered, constructs' = constructs, Condition
    PROVE  Preserved
<1>1. PICK loop \in {<<"while_cond", "while_body">>, <<"for_cond", "for_body">>} :
        /\ AtValue(loop[1])
        /\ \/ LeaveLoop
           \/ ExecuteBlock(Append(Below, TopAt(loop[2])), Top.env) /\ UNCHANGED memory
        /\ signals' = signals /\ hadError' = hadError /\ modules' = modules
  BY DEF Condition
<1>2. /\ ctl.mode = "value"
      /\ \/ Top.at = "while_cond" /\ loop[2] = "while_body"
         \/ Top.at = "for_cond" /\ loop[2] = "for_body"
  BY <1>1 DEF AtValue
<1>3. CASE LeaveLoop
  <2>1. Top.at \in LoopFrames /\ ctl.mode # "done"
    BY <1>2 DEF LoopFrames
  <2> QED
    BY <1>1, <1>3, <2>1, LeaveLoopPreserves
<1>4. CASE ExecuteBlock(Append(Below, TopAt(loop[2])), Top.env) /\ UNCHANGED memory
  <2>1. heap' = heap /\ Steady
    BY <1>1, <1>4 DEF memory, Steady
  <2>2. Carries
    BY <1>1, <2>1, QuietCarries DEF Steady
  <2> PICK k : k = loop[2]
    OBVIOUS
  <2>3. /\ stack' = Append(Below, TopAt(k))
        /\ ctl' = [mode |-> "block", env |-> Top.env, val |-> Scalar]
        /\ ctl.mode # "done"
    BY <1>2, <1>4 DEF ExecuteBlock
  <2>4. \/ Top.at = "while_cond" /\ k = "while_body"
        \/ Top.at = "for_cond" /\ k = "for_body"
    BY <1>2
  <2> QED
    BY <2>1, <2>2, <2>3, <2>4, LoopGoesOn
<1> QED
  BY <1>1, <1>3, <1>4

(* The next element: no function that is called is kept by the scope of the *)
(* loop variable.                                                           *)
LEMMA ForInNextPreserves ==
    ASSUME Sound, Registered, constructs' = constructs, ForInNext
    PROVE  Preserved
<1>1. /\ ctl.mode = "resume" /\ Top.at = "forin_next" /\ signals' = signals
      /\ hadError' = hadError /\ modules' = modules
      /\ \/ LeaveLoop
         \/ /\ \E v \in heap[Top.pinned[1]].refs \cup {Scalar} :
                  heap' = Stored(heap, Top.env, HandlesOf(v))
            /\ ExecuteBlock(Append(Below, TopAt("forin_body")), Top.env)
            /\ live' = live
  BY DEF ForInNext, AtResume, Stored
<1>2. CASE LeaveLoop
  BY <1>1, <1>2, LeaveLoopPreserves DEF LoopFrames
<1>3. CASE /\ \E v \in heap[Top.pinned[1]].refs \cup {Scalar} :
                 heap' = Stored(heap, Top.env, HandlesOf(v))
           /\ ExecuteBlock(Append(Below, TopAt("forin_body")), Top.env)
           /\ live' = live
  <2>1. PICK v \in heap[Top.pinned[1]].refs \cup {Scalar} :
           heap' = Stored(heap, Top.env, HandlesOf(v))
    BY <1>3
  <2>2. Steady
    BY <1>1, <1>3 DEF Steady
  <2>3. /\ stack' = Append(Below, TopAt("forin_body"))
        /\ ctl' = [mode |-> "block", env |-> Top.env, val |-> Scalar]
    BY <1>3 DEF ExecuteBlock
  <2>4. Carries
    <3> PICK c : c = Top.env
      OBVIOUS
    <3> PICK R : R = HandlesOf(v)
      OBVIOUS
    <3>1. ASSUME Secure PROVE \A u \in R : Proper(heap, modules, u)
      <4>1. TopSafe(heap, modules, Below, Top)
        BY <1>1, <3>1, TopIsPlaced DEF Secure
      <4>2. Top.pinned[1] \in Obj
        BY <1>1, <4>1 DEF TopSafe
      <4>3. Proper(heap, modules, Top.pinned[1])
        <5>1. 1 \in 1 .. Len(Top.pinned)
          <6>1. IsFrame(Top) /\ PinsFit(Top)
            BY <1>1, TopParts DEF Sound
          <6>2. Len(Top.pinned) = 1
            BY <1>1, <6>1 DEF PinsFit, PinCount, ArgFrames
          <6> QED
            BY <6>2
        <5> QED
          BY <1>1, <3>1, <5>1, OperandsAreProper DEF Secure
      <4> QED
        BY <2>1, <3>1, <4>2, <4>3, ScalarIsProper DEF Secure, Safe, NoneDangles, Proper, HandlesOf
    <3>2. ASSUME Secure, NEW i \in DOMAIN stack, stack[i].at = "arg_function",
                 Keeps(heap, modules, stack[i], c)
          PROVE  FALSE
      <4>1. /\ TopSafe(heap, modules, Below, Top) /\ TopPlaced(heap, modules, Below, Top)
            /\ IsStack(Below) /\ IsFrame(Top) /\ stack = Append(Below, Top)
        BY <1>1, <3>2, TopIsPlaced DEF Secure
      <4>2. Top.at \in ScopeFrames /\ Opens(Top) = {c}
        BY <1>1, FrameFields DEF ScopeFrames
      <4>3. c \notin modules
        BY <4>1, <4>2 DEF TopPlaced
      <4>4. \/ i \in DOMAIN Below /\ stack[i] = Below[i]
            \/ stack[i] = Top
        BY <4>1, FramesOfAppend
      <4>5. i \in DOMAIN Below /\ stack[i] = Below[i]
        BY <1>1, <3>2, <4>4
      <4>6. c \notin ChainIn(heap, stack[i].env)
        BY <4>1, <4>2, <4>5 DEF TopSafe
      <4> QED
        BY <3>2, <4>3, <4>6 DEF Keeps
    <3>3. heap' = Stored(heap, c, R)
      BY <2>1
    <3>4. hadError => hadError'
      BY <1>1
    <3>5. Secure /\ c \in DOMAIN heap => \A u \in R : Proper(heap, modules, u)
      BY <3>1
    <3>6. Secure => \A i \in DOMAIN stack :
             stack[i].at = "arg_function" /\ Keeps(heap, modules, stack[i], c) => stack[i].target \in R
      BY <3>2
    <3> QED
      BY <1>1, <3>3, <3>4, <3>5, <3>6, StoreCarries
  <2> QED
    BY <1>1, <2>2, <2>3, <2>4, LoopGoesOn
<1> QED
  BY <1>1, <1>2, <1>3

(* The body of a loop is over.                                              *)
LEMMA BodyDonePreserves ==
    ASSUME Sound, Registered, constructs' = constructs, BodyDone
    PROVE  Preserved
<1>1. PICK loop \in {<<"while_body", "while_cond">>, <<"for_body", "for_test">>,
                     <<"forin_body", "forin_next">>} :
        /\ AtResume(loop[1])
        /\ signals' = signals \/ signals' = Lowered
        /\ \/ LeaveLoop
           \/ /\ LET s == Append(Below, TopAt(loop[2]))
                 IN  Evaluate(s, Top.env) \/ Execute(s, Top.env) \/ Resume(s)
              /\ UNCHANGED memory
        /\ hadError' = hadError /\ modules' = modules
  BY DEF BodyDone, AfterBody, Lowered
<1>2. /\ ctl.mode = "resume"
      /\ \/ Top.at = "while_body" /\ loop[2] = "while_cond"
         \/ Top.at = "for_body" /\ loop[2] = "for_test"
         \/ Top.at = "forin_body" /\ loop[2] = "forin_next"
  BY <1>1 DEF AtResume
<1>3. signals'.returning = signals.returning /\ signals'.value = signals.value
  BY <1>1, LoweredValue DEF Sound
<1>4. CASE LeaveLoop
  <2>1. Top.at \in LoopFrames /\ ctl.mode # "done"
    BY <1>2 DEF LoopFrames
  <2> QED
    BY <1>1, <1>3, <1>4, <2>1, LeaveLoopPreserves
<1>5. CASE /\ LET s == Append(Below, TopAt(loop[2]))
              IN  Evaluate(s, Top.env) \/ Execute(s, Top.env) \/ Resume(s)
           /\ UNCHANGED memory
  <2>1. heap' = heap /\ Steady
    BY <1>1, <1>5 DEF memory, Steady
  <2>2. Secure /\ signals'.returning => Proper(heap, modules, signals'.value)
    BY <1>3 DEF Secure, Safe
  <2>3. Carries
    BY <1>1, <2>1, <2>2, QuietCarries DEF Steady
  <2> PICK k : k = loop[2]
    OBVIOUS
  <2>4. /\ stack' = Append(Below, TopAt(k))
        /\ \E m \in {"eval", "exec", "block", "resume"} : \E d :
              /\ ctl' = [mode |-> m, env |-> d, val |-> Scalar]
              /\ d = IF m = "resume" THEN Nil ELSE Top.env
        /\ ctl.mode # "done"
    BY <1>2, <1>5 DEF Evaluate, Execute, Resume
  <2>5. \/ Top.at = "while_body" /\ k = "while_cond"
        \/ Top.at = "for_body" /\ k = "for_test"
        \/ Top.at = "forin_body" /\ k = "forin_next"
    BY <1>2
  <2> QED
    BY <2>1, <2>3, <2>4, <2>5, LoopGoesOn
<1> QED
  BY <1>1, <1>4, <1>5

(* Every step of a statement keeps both parts.                              *)
LEMMA StatementPreserves ==
    ASSUME Sound, Registered, MemoryIsLeft, constructs' = constructs, Statement
    PROVE  Preserved
BY SkipPreserves, BeginStatementPreserves, ExpressionStatementPreserves, AssignPreserves,
   FieldTargetPreserves, FieldAssignPreserves, IndexAssignPreserves, EnterBlockPreserves,
   NextStatementPreserves, LeaveBlockPreserves, IfPreserves, ElseIfPreserves,
   BeginWhilePreserves, BeginForPreserves, ForInitDonePreserves, ForTestPreserves,
   ConditionPreserves, BeginForInPreserves, ForInNextPreserves, BodyDonePreserves,
   BreakOrContinuePreserves, ReturnPreserves, DefineFunctionPreserves DEF Statement

-----------------------------------------------------------------------------
(* The program and its modules.                                             *)

(* The scope of a module is bound to a name.                                *)
LEMMA BindCarries ==
    ASSUME Sound, Registered, ctl.mode # "done", Calm,
           NEW menv, NEW e, Bind(menv, e), Secure => Proper(heap, modules, menv)
    PROVE  Carries
<1>1. PICK s \in Chain(e) : \E lost \in {{}} \cup {{o} : o \in heap[s].refs} :
          /\ "rebind" \notin constructs => ~LosesCallee(s, lost)
          /\ heap' = [heap EXCEPT ![s].refs = (@ \ lost) \cup {menv}]
  BY DEF Bind
<1>2. PICK lost \in {{}} \cup {{o} : o \in heap[s].refs} :
          /\ "rebind" \notin constructs => ~LosesCallee(s, lost)
          /\ heap' = [heap EXCEPT ![s].refs = (@ \ lost) \cup {menv}]
  BY <1>1
<1> PICK R : R = (heap[s].refs \ lost) \cup {menv}
  OBVIOUS
<1>3. heap' = Stored(heap, s, R)
  BY <1>2 DEF Stored
<1>4. ASSUME Secure, s \in DOMAIN heap, NEW v \in R PROVE Proper(heap, modules, v)
  <2>1. v \in heap[s].refs \/ v = menv
    OBVIOUS
  <2>2. NoneDangles(heap, modules)
    BY <1>4 DEF Secure, Safe
  <2> QED
    BY <1>4, <2>1, <2>2 DEF NoneDangles
<1>5. ASSUME Secure
      PROVE  \A i \in DOMAIN stack :
               stack[i].at = "arg_function" /\ Keeps(heap, modules, stack[i], s) => stack[i].target \in R
  <2>1. \A i \in DOMAIN stack :
               stack[i].at = "arg_function" /\ Keeps(heap, modules, stack[i], s)
                  => stack[i].target \in heap[s].refs \ lost
    BY <1>2, <1>5, CalleesStay
  <2> QED
    BY <2>1
<1>6. modules' = modules /\ (hadError => hadError') /\ constructs' = constructs /\ signals' = signals
  BY DEF Calm
<1> QED
  BY <1>3, <1>4, <1>5, <1>6, StoreCarries

(* An import: of a module in the cache, of one that is loaded, or of none.  *)
LEMMA ImportPreserves ==
    ASSUME Sound, Registered, MemoryIsLeft, constructs' = constructs, Import
    PROVE  Preserved
<1> PICK f : f = ArgFrame("module", ctl.env, Fresh)
  OBVIOUS
<1>1. /\ ctl.mode = "exec" /\ "import" \in constructs /\ signals' = signals /\ modules' = modules
      /\ ctl' = [mode |-> "resume", env |-> Nil, val |-> Scalar]
      /\ \/ /\ \E menv \in modules : Bind(menv, ctl.env)
            /\ stack' = stack /\ live' = live /\ hadError' = hadError
         \/ /\ heap' = HeapWith(Object("env", {}, Globals)) /\ live' = live \cup {Fresh}
            /\ stack' = Append(stack, f) /\ hadError' = hadError
         \/ /\ stack' = stack /\ heap' = heap /\ live' = live /\ hadError' = TRUE
  BY DEF Import, ImportInto, Executing, Node, Resume, StopWith, control
<1>2. IsHeap(heap) /\ ctl.env \in Opened(stack) /\ IsScope(heap, Globals)
      /\ \A m \in modules : IsScope(heap, m)
  BY <1>1, EnvsAreScopes DEF Registered, ControlPlaced
<1>3. CASE /\ \E menv \in modules : Bind(menv, ctl.env)
           /\ stack' = stack /\ live' = live /\ hadError' = hadError
  <2>1. PICK menv \in modules : Bind(menv, ctl.env)
    BY <1>3
  <2>2. Calm
    BY <1>1, <1>3 DEF Calm
  <2>3. Proper(heap, modules, menv)
    BY <1>2 DEF Proper, IsScope
  <2>4. Carries
    BY <1>1, <2>1, <2>2, <2>3, BindCarries
  <2> QED
    BY <1>1, <1>3, <2>4, ScalarIsProper, RestsAfterStore DEF Settles
<1>4. CASE /\ heap' = HeapWith(Object("env", {}, Globals)) /\ live' = live \cup {Fresh}
           /\ stack' = Append(stack, f) /\ hadError' = hadError
  <2>1. /\ IsFrame(f) /\ f.at = "module" /\ f.pinned = <<>> /\ f.env = ctl.env /\ f.target = Fresh
        /\ Pinned(f.pinned) = {} /\ Opens(f) = {Fresh}
    BY NewFrame, FrameFields
  <2>2. /\ Carries /\ Fresh \notin DOMAIN heap /\ heap'[Fresh].link = Globals
        /\ IsScope(heap', Fresh)
    <3>1. /\ modules' = modules /\ (hadError => hadError') /\ signals' = signals
          /\ Secure => (Globals \in Obj => IsScope(heap, Globals)) /\ \A v \in {} : Proper(heap, modules, v)
      BY <1>1, <1>2, <1>4
    <3> QED
      BY <1>4, <3>1, AllocationCarries
  <2>3. ControlPlaced(ctl', stack') /\ ctl'.mode = "resume" /\ ctl'.val = Scalar
    BY <1>1, ControlIsPlaced
  <2> PICK n : n = Fresh
    OBVIOUS
  <2> PICK b : b = stack
    OBVIOUS
  <2>4. /\ n \notin DOMAIN heap /\ IsScope(heap', n) /\ live' = live \cup {n}
        /\ f.at # "program" /\ f.at # "arg_function" /\ Opens(f) = {n}
        /\ b = stack \/ (b = Below /\ Opens(Top) = {})
        /\ stack' = Append(b, f)
        /\ f.env = n \/ f.env \in Opened(b)
        /\ f.at = "module" => heap'[n].link = Globals /\ "import" \in constructs
        /\ f.at = "module" \/ f.target = Nil
        /\ f.at \in {"forin_next", "forin_body"} => f.pinned[1] \in Obj
        /\ Secure => \A v \in Pinned(f.pinned) : Proper(heap', modules, v)
    BY <1>1, <1>2, <1>4, <2>1, <2>2
  <2>5. ctl.mode # "done" /\ ctl'.mode # "done" /\ (Secure => Proper(heap', modules, ctl'.val))
    BY <1>1, <2>3, ScalarIsProper
  <2> QED
    BY <2>1, <2>2, <2>3, <2>4, <2>5, OpensScope DEF Preserved
<1>5. CASE stack' = stack /\ heap' = heap /\ live' = live /\ hadError' = TRUE
  <2>1. Steady
    BY <1>1, <1>5 DEF Steady
  <2> QED
    BY <1>1, <1>5, <2>1, StatementRests DEF Settles
<1> QED
  BY <1>1, <1>3, <1>4, <1>5

(* A statement of a module runs in the scope of the module.                 *)
LEMMA NextTopLevelStatementPreserves ==
    ASSUME Sound, Registered, constructs' = constructs, NextTopLevelStatement
    PROVE  Preserved
<1> PICK e : e = IF Top.at = "module" THEN Top.target ELSE Top.env
  OBVIOUS
<1>1. /\ ctl.mode = "resume" /\ stack' = stack /\ heap' = heap /\ signals' = signals /\ Steady
      /\ ctl' = [mode |-> "exec", env |-> e, val |-> Scalar]
  BY DEF NextTopLevelStatement, AtResume, Execute, memory, control, Steady
<1>2. e \in Opened(stack)
  BY <1>1, TopIsPlaced, FrameFields
<1>3. ControlPlaced(ctl', stack) /\ ctl'.mode = "exec" /\ ctl'.val = Scalar
  BY <1>1, <1>2, ControlIsPlaced
<1> QED
  BY <1>1, <1>3, RestsQuietly DEF Settles

(* A module that failed leaves its scope behind.                            *)
LEMMA ModuleFailedPreserves ==
    ASSUME Sound, Registered, constructs' = constructs, ModuleFailed
    PROVE  Preserved
<1>1. /\ ctl.mode = "resume" /\ Top.at = "module" /\ hadError /\ stack' = Below
      /\ heap' = heap /\ live' = live /\ signals' = signals /\ modules' = modules /\ hadError' = hadError
      /\ ctl' = [mode |-> "resume", env |-> Nil, val |-> Scalar]
  BY DEF ModuleFailed, AtResume, Resume, memory, control
<1>2. /\ IsStack(Below) /\ IsFrame(Top) /\ stack = Append(Below, Top)
      /\ Opened(stack) = Opened(Below) \cup Opens(Top) /\ Opened(stack) \subseteq live
      /\ Placed(heap, modules, Below) /\ TopPlaced(heap, modules, Below, Top)
      /\ ModulesAreImported(Below)
      /\ Safe => FramesSafe(heap, modules, Below)
  BY <1>1, TopIsPlaced
<1>3. ControlPlaced(ctl', stack') /\ ctl'.mode = "resume" /\ ctl'.val = Scalar
  BY <1>1, ControlIsPlaced
<1>4. LeftBehind(heap, Top.target) /\ Opens(Top) = {Top.target}
  <2>1. "import" \in constructs
    <3>1. ModulesAreImported(Append(Below, Top))
      BY <1>2 DEF Registered
    <3> QED
      BY <1>1, <1>2, <3>1, ModulesOfAppend
  <2> QED
    BY <1>1, <1>2, <2>1, FrameFields DEF LeftBehind, TopPlaced
<1>5. Registered'
  <2>1. /\ IsHeap(heap') /\ \A o \in live' : IsScope(heap', o)
        /\ Opened(stack') \subseteq live' /\ modules' \subseteq live'
        /\ Placed(heap', modules', stack')
    BY <1>1, <1>2 DEF Registered
  <2>2. ASSUME NEW o \in live'
        PROVE  o \in Opened(stack') \/ o \in modules' \/ LeftBehind(heap, o)'
    <3>1. o \in Opened(Below) \/ o = Top.target \/ o \in modules \/ LeftBehind(heap, o)
      BY <1>1, <1>2, <1>4, <2>2 DEF Registered
    <3>2. LeftBehind(heap, o) => LeftBehind(heap, o)'
      BY <1>1 DEF LeftBehind
    <3> QED
      BY <1>1, <1>4, <3>1, <3>2
  <2>3. ModulesAreImported(stack)'
    BY <1>1, <1>2 DEF ModulesAreImported
  <2> QED
    BY <1>3, <2>1, <2>2, <2>3 DEF Registered
<1>6. ASSUME Secure PROVE Safe'
  BY <1>1, <1>2, <1>3, <1>6, ScalarIsProper DEF Secure, Safe
<1> QED
  BY <1>5, <1>6 DEF Preserved

(* A module is cached: more scopes may be values now.                       *)
LEMMA MoreModulesPlaced ==
    ASSUME NEW h, NEW m, NEW s, Placed(h, m, s), NEW t,
           \A i \in DOMAIN s : Opens(s[i]) \cap t = {}
    PROVE  Placed(h, m \cup t, s)
BY DEF Placed, FramePlaced

(* A module that is loaded is cached and bound.                             *)
LEMMA ModuleLoadedPreserves ==
    ASSUME Sound, Registered, constructs' = constructs, ModuleLoaded
    PROVE  Preserved
<1>1. /\ ctl.mode = "resume" /\ Top.at = "module" /\ stack' = Below
      /\ live' = live /\ signals' = signals /\ modules' = modules \cup {Top.target} /\ hadError' = hadError
      /\ ctl' = [mode |-> "resume", env |-> Nil, val |-> Scalar]
      /\ Bind(Top.target, Top.env)
  BY DEF ModuleLoaded, CacheAndBind, AtResume, Resume
<1> PICK n : n = modules \cup {Top.target}
  OBVIOUS
<1>2. /\ IsStack(Below) /\ IsFrame(Top) /\ stack = Append(Below, Top)
      /\ Opened(stack) = Opened(Below) \cup Opens(Top) /\ Opened(stack) \subseteq live
      /\ Placed(heap, modules, Below) /\ TopPlaced(heap, modules, Below, Top)
      /\ ModulesAreImported(Below)
      /\ Safe => FramesSafe(heap, modules, Below)
      /\ \A i \in DOMAIN Below : i \in DOMAIN stack /\ Below[i] = stack[i]
  BY <1>1, TopIsPlaced
<1>3. ControlPlaced(ctl', stack') /\ ctl'.mode = "resume" /\ ctl'.val = Scalar
  BY <1>1, ControlIsPlaced
<1>4. Opens(Top) = {Top.target} /\ IsScope(heap, Top.target) /\ IsHeap(heap)
  BY <1>1, <1>2, FrameFields DEF TopPlaced, Registered
<1>5. PICK s \in Chain(Top.env) : \E lost \in {{}} \cup {{o} : o \in heap[s].refs} :
          /\ "rebind" \notin constructs => ~LosesCallee(s, lost)
          /\ heap' = [heap EXCEPT ![s].refs = (@ \ lost) \cup {Top.target}]
  BY <1>1 DEF Bind
<1>6. PICK lost \in {{}} \cup {{o} : o \in heap[s].refs} :
          /\ "rebind" \notin constructs => ~LosesCallee(s, lost)
          /\ heap' = [heap EXCEPT ![s].refs = (@ \ lost) \cup {Top.target}]
  BY <1>5
<1> PICK R : R = (heap[s].refs \ lost) \cup {Top.target}
  OBVIOUS
<1> PICK g : g = heap'
  OBVIOUS
<1>7. g = Stored(heap, s, R)
  BY <1>6 DEF Stored
<1>8. Grows(heap, g)
  BY <1>4, <1>7, StoreGrows
<1>9. Registered'
  <2>1. \A o \in live : IsScope(g, o) /\ g[o].link = heap[o].link
    BY <1>8 DEF Registered, Grows, IsScope
  <2>2. Opened(stack') \subseteq live' /\ modules' \subseteq live'
    BY <1>1, <1>2, <1>4 DEF Registered
  <2>3. ASSUME NEW o \in live'
        PROVE  o \in Opened(stack') \/ o \in modules' \/ LeftBehind(heap, o)'
    <3>1. o \in Opened(Below) \/ o = Top.target \/ o \in modules \/ LeftBehind(heap, o)
      BY <1>1, <1>2, <1>4, <2>3 DEF Registered
    <3>2. LeftBehind(heap, o) => LeftBehind(heap, o)'
      BY <1>1, <2>1, <2>3 DEF LeftBehind
    <3> QED
      BY <1>1, <3>1, <3>2
  <2>4. Placed(g, n, Below)
    <3>1. Placed(g, modules, Below)
      BY <1>2, <1>8, PlacedStays
    <3>2. \A i \in DOMAIN Below : Opens(Below[i]) \subseteq Opened(Below)
      BY <1>2, OpenedOfAppend
    <3>3. \A i \in DOMAIN Below : Opens(Below[i]) \cap {Top.target} = {}
      BY <1>2, <1>4, <3>2 DEF TopPlaced
    <3> QED
      BY <3>1, <3>3, MoreModulesPlaced
  <2>5. ModulesAreImported(stack)'
    BY <1>1, <1>2 DEF ModulesAreImported
  <2>6. IsHeap(heap') /\ \A o \in live' : IsScope(heap', o)
    BY <1>1, <1>8, <2>1 DEF Grows
  <2>7. Placed(heap', modules', stack')
    BY <1>1, <2>4
  <2> QED
    BY <1>3, <2>2, <2>3, <2>5, <2>6, <2>7 DEF Registered
<1>10. ASSUME Secure PROVE Safe'
  <2>1. /\ NoneDangles(heap, modules) /\ FramesSafe(heap, modules, Below)
        /\ modules \subseteq n /\ Safe
    BY <1>2, <1>10 DEF Secure, Safe
  <2>2. Proper(heap, n, Top.target)
    BY <1>4 DEF Proper, IsScope
  <2>3. Grows(heap, heap)
    BY <1>4 DEF Grows
  <2>4. \A v : Proper(heap, modules, v) => Proper(heap, n, v)
    BY <2>1, <2>3, ProperStays
  <2>5. ASSUME s \in DOMAIN heap, NEW v \in R PROVE Proper(heap, n, v)
    <3>1. v \in heap[s].refs \/ v = Top.target
      OBVIOUS
    <3> QED
      BY <2>1, <2>2, <2>4, <2>5, <3>1 DEF NoneDangles
  <2>6. NoneDangles(g, n)
    BY <1>4, <1>7, <2>1, <2>5, StoreIsSafe
  <2>7. KeepsCallees(heap, g, modules, Below)
    <3>1. \A i \in DOMAIN stack :
             stack[i].at = "arg_function" /\ Keeps(heap, modules, stack[i], s)
                 => stack[i].target \in heap[s].refs \ lost
      BY <1>6, <1>10, CalleesStay
    <3>2. \A i \in DOMAIN Below :
             Below[i].at = "arg_function" /\ Keeps(heap, modules, Below[i], s) => Below[i].target \in R
      BY <1>2, <3>1
    <3> QED
      BY <1>4, <1>7, <3>2, StoreKeepsCallees
  <2>8. \A i \in DOMAIN Below : IsScope(heap, Below[i].env)
    BY <1>2, EnvsAreScopes
  <2>9. \A i \in DOMAIN Below : \A j \in 1 .. i - 1 : j \in DOMAIN Below
    <3> PICK l \in Nat : l = Len(Below)
      BY <1>2, SequenceParts DEF IsStack
    <3>1. DOMAIN Below = 1 .. l
      BY <1>2, SequenceParts DEF IsStack
    <3> QED
      BY <3>1
  <2>10. FramesSafe(g, n, Below)
    BY <1>4, <1>8, <2>1, <2>7, <2>8, <2>9, FramesStaySafe
  <2>11. \A v : Proper(heap, modules, v) => Proper(g, n, v)
    BY <1>8, <2>1, ProperStays
  <2>12. signals'.returning => Proper(g, n, signals'.value)
    BY <1>1, <2>1, <2>11 DEF Safe
  <2>13. Proper(g, n, ctl'.val)
    BY <1>3, ScalarIsProper
  <2>14. heap' = g /\ modules' = n /\ stack' = Below
    BY <1>1
  <2> QED
    BY <2>6, <2>10, <2>12, <2>13, <2>14 DEF Safe
<1> QED
  BY <1>9, <1>10 DEF Preserved

(* Nothing is on an empty stack.                                            *)
LEMMA NothingOpened ==
    /\ Opened(<<>>) = {}
    /\ \A h, m : Placed(h, m, <<>>) /\ FramesSafe(h, m, <<>>)
    /\ \A i \in DOMAIN <<>> : FALSE
<1>1. DOMAIN <<>> = {} /\ Len(<<>>) = 0
  BY EmptyStack
<1>2. 1 .. 0 = {}
  OBVIOUS
<1>3. Opened(<<>>) = {}
  BY <1>1, <1>2 DEF Opened, OpenedBy
<1> QED
  BY <1>1, <1>3 DEF Placed, FramesSafe

(* The final collection takes everything, but for what an error or a return *)
(* has left.                                                                *)
LEMMA FinishPreserves ==
    ASSUME Sound, Registered, constructs' = constructs, Finish
    PROVE  Preserved
<1>1. /\ ctl.mode = "resume" /\ Top.at = "program" /\ DropScopes(modules \cup {Globals})
      /\ stack' = <<>> /\ ctl' = [ctl EXCEPT !.mode = "done"]
      /\ protect' = protect /\ signals' = signals /\ modules' = modules /\ hadError' = hadError
  BY DEF Finish, DropAndCollect, AtResume, control
<1>2. /\ IsStack(Below) /\ IsFrame(Top) /\ stack = Append(Below, Top)
      /\ Opened(stack) = Opened(Below) \cup Opens(Top)
      /\ TopPlaced(heap, modules, Below, Top)
  BY <1>1, TopIsPlaced
<1>3. Below = <<>> /\ PinsFit(Top)
  BY <1>1, BelowOrdered DEF Sound
<1>4. Opened(stack) = {Globals}
  BY <1>1, <1>2, <1>3, NothingOpened DEF Opens, TopPlaced
<1>5. IsHeap(heap) /\ live \subseteq DOMAIN heap
  BY DEF Registered, IsScope
<1>6. /\ live' = live \ (modules \cup {Globals})
      /\ Shrinks(heap, heap') /\ IsHeap(heap')
      /\ live' \subseteq DOMAIN heap'
      /\ Pinned(protect) \cap DOMAIN heap \subseteq DOMAIN heap'
      /\ live' = {} /\ Pinned(protect) = {} => DOMAIN heap' = {}
  BY <1>1, <1>5, Collected
<1>7. \A o \in live' : LeftBehind(heap, o)
  BY <1>1, <1>4, <1>6 DEF Registered
<1>8. ctl' = [mode |-> "done", env |-> Nil, val |-> Scalar]
  <2>1. ctl.env = Nil /\ ctl.val = Scalar
    BY <1>1 DEF Registered, ControlPlaced
  <2>2. IsControl(ctl)
    BY DEF Sound, Grounded
  <2> QED
    BY <1>1, <2>1, <2>2 DEF IsControl
<1>9. ControlPlaced(ctl', stack') /\ ctl'.mode = "done" /\ ctl'.val = Scalar
  BY <1>8, ControlIsPlaced
<1>10. ~hadError /\ ~signals.returning => DOMAIN heap' = {}
  <2>1. ~hadError => live' = {}
    BY <1>7 DEF LeftBehind
  <2>2. ASSUME ~signals.returning PROVE Pinned(protect) = {}
    <3>1. /\ Pins(stack) = Pins(Below) \o Top.pinned /\ IsSequence(Top.pinned)
          /\ Len(Pins(stack)) = Len(Pins(Below)) + Len(Top.pinned)
          /\ IsSequence(protect)
      BY <1>1, PinsBefore DEF Sound
    <3>2. Len(Pins(Below)) = 0
      BY <1>3, EmptyStack
    <3>3. Len(Top.pinned) = 0
      BY <1>1, <1>3 DEF PinsFit, PinCount, ArgFrames
    <3>4. Len(protect) = 0
      BY <2>2, <3>1, <3>2, <3>3 DEF Sound, Balanced, InFlight
    <3>5. protect = <<>>
      BY <3>1, <3>4, SequenceParts
    <3> QED
      BY <3>5, FrameFields
  <2> QED
    BY <1>6, <2>1, <2>2
<1>11. Registered'
  <2>1. \A o \in live' : IsScope(heap', o) /\ heap'[o] = heap[o]
    BY <1>6 DEF Registered, IsScope, Shrinks
  <2>2. \A o \in live' : LeftBehind(heap, o)'
    BY <1>1, <1>7, <2>1 DEF LeftBehind
  <2>3. ModulesAreImported(stack)'
    BY <1>1, NothingOpened DEF ModulesAreImported
  <2>4. Opened(stack') = {} /\ Placed(heap', modules', stack')
    BY <1>1, NothingOpened
  <2>5. hadError' = hadError /\ signals' = signals
    BY <1>1
  <2> QED
    BY <1>6, <1>9, <1>10, <2>1, <2>2, <2>3, <2>4, <2>5 DEF Registered
<1>12. ASSUME Secure PROVE Safe'
  <2>1. NoneDangles(heap, modules) /\ (signals.returning => Proper(heap, modules, signals.value))
    BY <1>12 DEF Secure, Safe
  <2>2. /\ NoneDangles(heap', modules)
        /\ \A v : Proper(heap, modules, v) /\ (v \in DOMAIN heap => v \in DOMAIN heap') => Proper(heap', modules, v)
    BY <1>6, <2>1, ShrunkIsSafe
  <2>3. signals.returning => signals.value \in Pinned(protect)
    BY <1>12, PinsAreProtected DEF Secure
  <2>4. signals'.returning => Proper(heap', modules, signals'.value)
    BY <1>1, <1>6, <2>1, <2>2, <2>3
  <2>5. FramesSafe(heap', modules, stack') /\ Proper(heap', modules, ctl'.val)
    BY <1>1, <1>9, NothingOpened, ScalarIsProper
  <2> QED
    BY <1>1, <2>2, <2>4, <2>5 DEF Safe
<1> QED
  BY <1>11, <1>12 DEF Preserved

(* Every step of the program keeps both parts.                              *)
LEMMA ProgramPreserves ==
    ASSUME Sound, Registered, MemoryIsLeft, constructs' = constructs, Program
    PROVE  Preserved
BY ImportPreserves, NextTopLevelStatementPreserves, ModuleFailedPreserves, ModuleLoadedPreserves,
   FinishPreserves DEF Program

-----------------------------------------------------------------------------
(* The invariant.                                                           *)

(* The stack is exact, the registry of scopes is, and what is held is held. *)
MemInv == Precise /\ Registered /\ (Switchless => Safe)

(* The objects that the declarations of a program left in the globals.      *)
LEMMA InitialHeap ==
    ASSUME Init
    PROVE  /\ IsHeap(heap) /\ IsScope(heap, Globals) /\ heap[Globals].link = Nil
           /\ NoneDangles(heap, {})
<1> DEFINE address == [func |-> 2, list |-> 3, struct |-> 4]
           declared == {address[k] : k \in Prelude}
           chosen(o) == CHOOSE k \in Prelude : address[k] = o
<1>1. heap = [o \in {Globals} \cup declared |->
                      IF o = Globals THEN Object("env", declared, Nil)
                      ELSE Object(chosen(o), {}, IF chosen(o) = "func" THEN Globals ELSE Nil)]
  BY DEF Init
<1>2. \A k \in Prelude : k \in {"func", "list", "struct"} /\ address[k] \in {2, 3, 4}
  BY PreludeAssumption
<1>3. Globals \in Obj /\ {2, 3, 4} \subseteq Obj /\ Globals \notin {2, 3, 4} /\ Nil \notin Obj
  BY ObjAssumption, ValueAssumption DEF Globals
<1>4. \A o \in declared : chosen(o) \in Prelude
  <2> TAKE o \in declared
  <2>1. \E k \in Prelude : address[k] = o
    OBVIOUS
  <2> QED
    BY <2>1
<1> HIDE DEF chosen
<1>5. declared \subseteq {2, 3, 4}
  BY <1>2
<1> HIDE DEF address
<1> HIDE DEF declared
<1>6. /\ DOMAIN heap = {Globals} \cup declared
      /\ heap[Globals] = Object("env", declared, Nil)
      /\ \A o \in declared :
            heap[o] = Object(chosen(o), {}, IF chosen(o) = "func" THEN Globals ELSE Nil)
  BY <1>1, <1>3, <1>5
<1>7. /\ heap[Globals].kind = "env" /\ heap[Globals].refs = declared /\ heap[Globals].link = Nil
      /\ IsObject(heap[Globals])
  BY <1>6 DEF Object, IsObject
<1>8. \A o \in declared : /\ heap[o].kind # "env" /\ heap[o].refs = {} /\ heap[o].link \in {Globals, Nil}
                          /\ IsObject(heap[o])
  <2> TAKE o \in declared
  <2>1. chosen(o) # "env"
    BY <1>2, <1>4
  <2>2. PICK l \in {Globals, Nil} : heap[o] = Object(chosen(o), {}, l)
    BY <1>6
  <2> QED
    BY <2>1, <2>2 DEF Object, IsObject
<1>9. IsHeap(heap)
  BY <1>3, <1>5, <1>6, <1>7, <1>8 DEF IsHeap
<1>10. IsScope(heap, Globals)
  BY <1>6, <1>7 DEF IsScope
<1>11. NoneDangles(heap, {})
  BY <1>3, <1>6, <1>7, <1>8, <1>10 DEF NoneDangles, Proper
<1> QED
  BY <1>7, <1>9, <1>10, <1>11

(* The program begins in its globals.                                       *)
LEMMA InitMemory == Init => MemInv
<1> SUFFICES ASSUME Init PROVE MemInv
  OBVIOUS
<1> PICK f : f = Frame("program", Globals)
  OBVIOUS
<1>1. /\ stack = <<f>> /\ live = {Globals} /\ modules = {} /\ ~signals.returning
      /\ ctl = [mode |-> "resume", env |-> Nil, val |-> Scalar]
  BY DEF Init
<1>2. /\ IsFrame(f) /\ f.at = "program" /\ f.pinned = <<>> /\ f.env = Globals /\ f.target = Nil
      /\ Opens(f) = {Globals}
  BY NewFrame, FrameFields DEF Opens
<1>3. stack = Append(<<>>, f)
  <2>1. <<>> \o <<f>> = Append(<<>>, f) /\ <<>> \o <<f>> = <<f>>
    BY EmptyStack, AppendIsJoin
  <2> QED
    BY <1>1, <2>1
<1>4. Opened(stack) = {Globals}
  BY <1>2, <1>3, EmptyStack, OpenedOfAppend, NothingOpened
<1>5. Placed(heap, modules, stack)
  <2>1. TopPlaced(heap, modules, <<>>, f)
    BY <1>1, <1>2, NothingOpened DEF TopPlaced
  <2> QED
    BY <1>2, <1>3, <2>1, EmptyStack, NothingOpened, PlacedOfAppend
<1>6. ModulesAreImported(stack)
  <2>1. ModulesAreImported(<<>>)
    BY NothingOpened DEF ModulesAreImported
  <2> QED
    BY <1>2, <1>3, <2>1, EmptyStack, ModulesOfAppend
<1>7. ctl.mode = "resume" /\ ctl.val = Scalar /\ ControlPlaced(ctl, stack)
  BY <1>1 DEF ControlPlaced
<1>8. Registered
  BY <1>1, <1>4, <1>5, <1>6, <1>7, InitialHeap DEF Registered
<1>9. FramesSafe(heap, modules, stack)
  <2>1. f.at \notin ScopeFrames \cup {"arg_function"}
    BY <1>2 DEF ScopeFrames
  <2>2. TopSafe(heap, modules, <<>>, f)
    BY <1>2, <2>1, PlainFrameIsSafe
  <2>3. FrameSafe(heap, modules, Append(<<>>, f), Len(<<>>) + 1)
    BY <1>2, <2>2, EmptyStack, TopSafeSuffices
  <2> QED
    BY <1>2, <1>3, <2>3, EmptyStack, NothingOpened, SafeOfAppend
<1>10. Safe
  BY <1>1, <1>7, <1>9, InitialHeap, ScalarIsProper DEF Safe
<1> QED
  BY <1>8, <1>10, InitPrecise DEF MemInv

(* Every step keeps it while there is memory.                               *)
LEMMA StepMemory == MemInv /\ MemoryIsLeft /\ Step => MemInv'
<1> SUFFICES ASSUME MemInv, MemoryIsLeft, Step PROVE MemInv'
  OBVIOUS
<1>1. Sound /\ Registered /\ (Switchless => Exact /\ Safe)
  BY DEF MemInv, Precise, Switchless
<1>2. constructs' = constructs /\ (Expression \/ Statement \/ Program)
  BY DEF Step
<1>3. Preserved
  BY <1>1, <1>2, ExpressionPreserves, StatementPreserves, ProgramPreserves
<1>4. Precise'
  BY StepPrecise DEF MemInv
<1>5. Switchless' = Switchless
  BY <1>2 DEF Switchless, ReturnsStayPut, CalleesStayPut
<1>6. Switchless => Safe'
  BY <1>1, <1>3 DEF Preserved, Secure
<1>7. Registered'
  BY <1>3 DEF Preserved
<1> QED
  BY <1>4, <1>5, <1>6, <1>7 DEF MemInv

(* So does a step of something else.                                        *)
LEMMA StutterMemory == MemInv /\ UNCHANGED vars => MemInv'
<1> SUFFICES ASSUME MemInv, UNCHANGED vars PROVE MemInv'
  OBVIOUS
<1>1. UNCHANGED <<heap, live, protect, stack, ctl, signals, hadError, modules, constructs>>
  BY DEF vars, memory, control
<1>2. Precise'
  BY StutterPrecise DEF MemInv
<1>3. Registered'
  BY <1>1 DEF MemInv, Registered, LeftBehind, ModulesAreImported
<1>4. Switchless' = Switchless
  BY <1>1 DEF Switchless, ReturnsStayPut, CalleesStayPut
<1>5. Safe => Safe'
  BY <1>1 DEF Safe
<1> QED
  BY <1>2, <1>3, <1>4, <1>5 DEF MemInv

(* As long as an allocation finds an address, every program keeps what the  *)
(* registry of scopes says and what its activations hold.                   *)
THEOREM MemoryDiscipline == Spec /\ []MemoryIsLeft => []MemInv
<1>1. MemInv /\ MemoryIsLeft /\ [Next]_vars => MemInv'
  BY StepMemory, StutterMemory DEF Next, Terminated
<1> QED
  BY <1>1, InitMemory, PTL DEF Spec

(* No scope is dropped while an activation, the program or a module works   *)
(* in it, and none stays registered after a return, a break or an error,    *)
(* but for the scope of a module that failed.                               *)
THEOREM ScopesAreRegistered == Spec /\ []MemoryIsLeft => []LiveScopesMatchActivations
<1>1. MemInv => LiveScopesMatchActivations
  <2> SUFFICES ASSUME Sound, Registered PROVE LiveScopesMatchActivations
    BY DEF MemInv, Precise
  <2>1. /\ \A i \in DOMAIN stack : stack[i].env \in live
        /\ ctl.mode # "done" => Globals \in live /\ modules \subseteq live
    BY EnvsAreScopes DEF Registered
  <2>2. Opened(stack) = UNION {Opens(stack[i]) : i \in DOMAIN stack}
    BY SequenceParts DEF Opened, OpenedBy, Sound, Grounded, Disciplined, IsStack
  <2>3. \A i \in DOMAIN stack : stack[i].at = "module" => stack[i].target \in live
    <3> TAKE i \in DOMAIN stack
    <3>1. stack[i].at = "module" => stack[i].target \in Opens(stack[i])
      BY FrameFields
    <3> QED
      BY <2>2, <3>1 DEF Registered
  <2>4. ScopesInUse \subseteq live
    BY <2>1, <2>3 DEF ScopesInUse
  <2>5. ASSUME NEW i \in DOMAIN stack, NEW o \in Opens(stack[i])
        PROVE  o \in ScopesInUse
    <3>1. stack[i].at = "program" => stack[i].env = Globals
      BY DEF Registered, Placed, FramePlaced
    <3>2. ctl.mode # "done"
      BY EmptyStack DEF Sound, Grounded, Disciplined
    <3> QED
      BY <2>5, <3>1, <3>2 DEF Opens, ScopesInUse
  <2>6. ASSUME NEW o \in live \ ScopesInUse
        PROVE  hadError /\ "import" \in constructs /\ IsKind(o, {"env"}) /\ heap[o].link = Globals
    <3>1. o \notin Opened(stack)
      BY <2>2, <2>5, <2>6
    <3>2. ~(ctl.mode # "done" /\ o \in modules)
      BY <2>6 DEF ScopesInUse
    <3>3. LeftBehind(heap, o) /\ IsScope(heap, o)
      BY <2>6, <3>1, <3>2 DEF Registered
    <3> QED
      BY <3>3 DEF LeftBehind, IsScope, IsKind
  <2> QED
    BY <2>4, <2>6 DEF LiveScopesMatchActivations
<1> QED
  BY <1>1, MemoryDiscipline, PTL

(* The last collection leaves nothing behind, whatever the program did,     *)
(* unless an error or a return outside of every function stopped it.        *)
THEOREM SweepIsComplete == Spec /\ []MemoryIsLeft => []FinalSweepReclaimsAll
<1>1. MemInv => FinalSweepReclaimsAll
  BY DEF MemInv, Registered, FinalSweepReclaimsAll
<1> QED
  BY <1>1, MemoryDiscipline, PTL

(* What the evaluator needs is there.                                       *)
LEMMA NothingDangles ==
    ASSUME Sound, Registered, Exact, Safe
    PROVE  NoUseAfterFree
<1>1. live \subseteq DOMAIN heap
  BY DEF Registered, IsScope
<1>2. \A i \in DOMAIN stack : \A v \in Pinned(stack[i].pinned) : Proper(heap, modules, v)
  BY DEF Safe, FramesSafe, FrameSafe
<1>3. signals.returning => Proper(heap, modules, signals.value)
  BY DEF Safe
<1>4. \A v \in Pinned(protect) : Proper(heap, modules, v)
  <2>1. IsStack(stack)
    BY DEF Sound, Grounded, Disciplined
  <2>2. IsSequence(Pins(stack)) /\ \A v \in Pinned(Pins(stack)) : Proper(heap, modules, v)
    <3>1. IsSequence(Pins(stack))
      BY <2>1, NewFrame, PinsGrow
    <3> QED
      BY <1>2, <2>1, <3>1, FramePinsAreInPins
  <2>3. IsSequence(InTransit) /\ \A v \in Pinned(InTransit) : Proper(heap, modules, v)
    BY <1>3, OnePin, EmptyStack, FrameFields DEF InTransit
  <2>4. Pinned(protect) = Pinned(Pins(stack)) \cup Pinned(InTransit)
    BY <2>2, <2>3, PinnedJoined DEF Exact
  <2> QED
    BY <2>2, <2>3, <2>4
<1>5. ctl.env \in Obj => ctl.env \in DOMAIN heap
  BY <1>1, EnvsAreScopes, ValueAssumption DEF Registered, ControlPlaced
<1>6. \A i \in DOMAIN stack : stack[i].env \in DOMAIN heap
  BY EnvsAreScopes DEF IsScope
<1>7. \A i \in DOMAIN stack : stack[i].target \in Obj => stack[i].target \in DOMAIN heap
  <2> TAKE i \in DOMAIN stack
  <2>1. CASE stack[i].at = "arg_function"
    BY <2>1, CalleesAreThere
  <2>2. CASE stack[i].at = "module"
    BY <2>2 DEF Registered, Placed, FramePlaced, IsScope
  <2>3. CASE stack[i].at \notin {"arg_function", "module"}
    BY <2>3, ValueAssumption DEF Safe, FramesSafe, FrameSafe
  <2> QED
    BY <2>1, <2>2, <2>3
<1>8. \A v : Proper(heap, modules, v) /\ v \in Obj => v \in DOMAIN heap
  BY DEF Proper
<1>9. Proper(heap, modules, ctl.val)
  BY DEF Safe
<1>10. Needed \cap Obj \subseteq DOMAIN heap
  <2> SUFFICES ASSUME NEW v \in Needed, v \in Obj PROVE v \in DOMAIN heap
    OBVIOUS
  <2>1. \/ v \in live \/ v \in Pinned(protect) \/ v = ctl.env \/ v = ctl.val
        \/ (signals.returning /\ v = signals.value)
        \/ \E i \in DOMAIN stack :
              v = stack[i].env \/ v = stack[i].target \/ v \in Pinned(stack[i].pinned)
    BY DEF Needed
  <2> QED
    BY <1>1, <1>2, <1>3, <1>4, <1>5, <1>6, <1>7, <1>8, <1>9, <2>1
<1>11. \A o \in DOMAIN heap : (heap[o].refs \cup {heap[o].link}) \cap Obj \subseteq DOMAIN heap
  BY <1>8 DEF Safe, NoneDangles, IsScope
<1> QED
  BY <1>10, <1>11 DEF NoUseAfterFree

(* No collection frees an operand, an argument, a callee, a receiver, a     *)
(* half-built container, a scope or a return value that is used again, at   *)
(* any depth of evaluation, unless the program returns from inside a for-in *)
(* loop or outside of every function, or rebinds the name of a function     *)
(* while it evaluates the arguments of its call.                            *)
THEOREM NothingIsUsedAfterFree ==
    Spec /\ []MemoryIsLeft => [](ReturnsStayPut /\ CalleesStayPut => NoUseAfterFree)
<1>1. MemInv => (ReturnsStayPut /\ CalleesStayPut => NoUseAfterFree)
  BY NothingDangles DEF MemInv, Precise, Switchless
<1> QED
  BY <1>1, MemoryDiscipline, PTL

=============================================================================
