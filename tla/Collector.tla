------------------------------ MODULE Collector ------------------------------
(***************************************************************************)
(* The mark-and-sweep collector of src/value.c together with the registry  *)
(* of live scopes of src/env.c, under a client that uses their interface   *)
(* in any order.  A collection is not one step: every call of the marker   *)
(* and every object the sweeper visits is a step of its own.               *)
(***************************************************************************)
EXTENDS ObjectGraph, Integers, Sequences

CONSTANTS
    Obj,            \* addresses the allocator can hand out
    Nil,            \* the null pointer
    MinThreshold,   \* the least allocation threshold (256 in the code)
    Torture,        \* built with -DGC_TORTURE: collect at every teardown
    ClientKinds,    \* what the client allocates besides scopes; with "module" it
                    \* also stores scopes as values
    MaxHeld,        \* bound on the handles pinned or in C locals at one time
    MaxSlots        \* bound on the handles one object stores (256 in a scope)

ASSUME NilAssumption == Nil \notin Obj
ASSUME ObjAssumption == IsFiniteSet(Obj)
ASSUME ThresholdAssumption == MinThreshold \in Nat \ {0}
ASSUME TortureAssumption == Torture \in BOOLEAN
ASSUME KindAssumption == ClientKinds \subseteq {"string", "list", "map", "struct", "func", "module"}
ASSUME BoundAssumption == MaxHeld \in Nat /\ MaxSlots \in Nat

VARIABLES
    kind,      \* kind[o]: what o holds; "fields" is the map of a struct
    refs,      \* refs[o]: handles in the list, map or scope o
    link,      \* link[o]: fields of a struct, closure of a function, parent of a scope
    live,      \* g_live_envs
    protect,   \* g_protect, the newest entry last
    temps,     \* handles in C locals that nothing pins
    count,     \* g_obj_count
    threshold, \* g_threshold
    phase,     \* run: the client; mark, sweep: inside gc_collect; done: after interpreter_free
    closing,   \* the collection is the one of interpreter_free
    marked,    \* objects whose mark bit is set
    pending,   \* arguments of the marking calls still to be made
    unswept    \* the part of g_objects the sweeper has not reached

mutatorVars == <<kind, refs, link, live, protect, temps>>
vars == <<mutatorVars, count, threshold, phase, closing, marked, pending, unswept>>

Kinds == {"string", "list", "map", "struct", "fields", "func", "env"}
Containers == {"list", "map", "fields", "env"}   \* objects that store handles

Allocated == {o \in Obj : kind[o] # "free"}
Pinned == {protect[i] : i \in DOMAIN protect}
Roots == live \cup Pinned

Edges == [o \in Obj |-> refs[o] \cup ({link[o]} \ {Nil})]

(* What the client can get at: everything below its roots and its locals. *)
Known == Reach(Edges, Roots \cup temps)

(* The handles a Value can hold.  The map of a struct is private to it, and *)
(* only a module value holds a scope.                                       *)
Handles == {o \in Known : kind[o] # "fields" /\ (kind[o] = "env" => "module" \in ClientKinds)}

TypeOK ==
    /\ kind \in [Obj -> Kinds \cup {"free"}]
    /\ refs \in [Obj -> SUBSET Obj]
    /\ link \in [Obj -> Obj \cup {Nil}]
    /\ live \subseteq Obj
    /\ protect \in Seq(Obj)
    /\ temps \subseteq Obj
    /\ count \in Int
    /\ threshold \in Nat /\ threshold >= MinThreshold
    /\ phase \in {"run", "mark", "sweep", "done"}
    /\ closing \in BOOLEAN
    /\ marked \subseteq Obj
    /\ pending \subseteq Obj
    /\ unswept \subseteq Obj

Init ==
    /\ kind = [o \in Obj |-> "free"]
    /\ refs = [o \in Obj |-> {}]
    /\ link = [o \in Obj |-> Nil]
    /\ live = {}
    /\ protect = <<>>
    /\ temps = {}
    /\ count = 0
    /\ threshold = MinThreshold
    /\ phase = "run"
    /\ closing = FALSE
    /\ marked = {}
    /\ pending = {}
    /\ unswept = {}

-----------------------------------------------------------------------------
(* The client between two collections.                                     *)

gcVars == <<threshold, phase, closing, marked, pending, unswept>>

HeldWithinBound == Len(protect') + Cardinality(temps') <= MaxHeld

(* gc_register: o joins the all-objects list, unmarked.                     *)
Register(o, k) ==
    /\ kind[o] = "free"
    /\ kind' = [kind EXCEPT ![o] = k]
    /\ count' = count + 1

NewData(o, k) ==
    /\ phase = "run"
    /\ Register(o, k)
    /\ temps' = temps \cup {o}
    /\ UNCHANGED <<refs, link, live, protect, gcVars>>
    /\ HeldWithinBound

StructWith(s, m, counted) ==
    /\ phase = "run"
    /\ s # m
    /\ kind[s] = "free" /\ kind[m] = "free"
    /\ kind' = [kind EXCEPT ![s] = "struct", ![m] = "fields"]
    /\ count' = count + counted
    /\ link' = [link EXCEPT ![s] = m]
    /\ temps' = temps \cup {s}
    /\ UNCHANGED <<refs, live, protect, gcVars>>
    /\ HeldWithinBound

(* Mutant: the map of a struct is not counted.                              *)
NewStructCountedOnce(s, m) == StructWith(s, m, 1)

(* A struct comes with a second object, the map that stores its fields.     *)
NewStruct(s, m) == StructWith(s, m, 2)

NewFunction(f, e) ==
    /\ phase = "run"
    /\ kind[e] = "env"
    /\ Register(f, "func")
    /\ link' = [link EXCEPT ![f] = e]
    /\ temps' = temps \cup {f}
    /\ UNCHANGED <<refs, live, protect, gcVars>>
    /\ HeldWithinBound

EnvNew(e, parent) ==
    /\ phase = "run"
    /\ parent # Nil => kind[parent] = "env"
    /\ Register(e, "env")
    /\ link' = [link EXCEPT ![e] = parent]
    /\ live' = live \cup {e}
    /\ UNCHANGED <<refs, protect, temps, gcVars>>

(* env_define, env_set, list_push, list_set, map_set and struct_set on a    *)
(* slot of c: the handle the slot held may lose its last holder in c, and   *)
(* the new value may be a handle or a scalar.                               *)
Store(c, lost, stored) ==
    /\ phase = "run"
    /\ kind[c] \in Containers
    /\ refs' = [refs EXCEPT ![c] = (@ \ lost) \cup stored]
    /\ Cardinality(refs'[c]) <= MaxSlots
    /\ UNCHANGED <<kind, link, live, protect, temps, count, gcVars>>

(* struct_set of a field the map has no key for: the key is a new string.  *)
StoreNewField(m, key, stored) ==
    /\ phase = "run"
    /\ kind[m] = "fields"
    /\ Register(key, "string")
    /\ refs' = [refs EXCEPT ![m] = @ \cup {key} \cup stored]
    /\ Cardinality(refs'[m]) <= MaxSlots
    /\ UNCHANGED <<link, live, protect, temps, gcVars>>

(* gc_protect: o no longer depends on the local that held it.               *)
Protect(o) ==
    /\ phase = "run"
    /\ protect' = Append(protect, o)
    /\ temps' = temps \ {o}
    /\ UNCHANGED <<kind, refs, link, live, count, gcVars>>
    /\ HeldWithinBound

(* gc_pop: the caller still has in its locals what it took off the stack.  *)
Pop(n) ==
    LET left == IF n > Len(protect) THEN 0 ELSE Len(protect) - n
    IN  /\ phase = "run"
        /\ protect' = SubSeq(protect, 1, left)
        /\ temps' = temps \cup {protect[i] : i \in left + 1 .. Len(protect)}
        /\ UNCHANGED <<kind, refs, link, live, count, gcVars>>

-----------------------------------------------------------------------------
(* Collections.                                                             *)

(* The mark loop starts with every live scope and every pinned value.       *)
StartCollection ==
    /\ phase' = "mark"
    /\ pending' = live' \cup Pinned

(* env_free: the scope stops being a root, and gc_maybe_collect decides.    *)
(* What the client holds only in its locals does not survive this call.     *)
EnvFree(e) ==
    /\ phase = "run"
    /\ live' = live \ {e}
    /\ temps' = {}
    /\ IF Torture \/ count >= threshold
       THEN StartCollection
       ELSE UNCHANGED <<phase, pending>>
    /\ UNCHANGED <<kind, refs, link, protect, count, threshold, closing, marked, unswept>>

(* Mutant: interpreter_free leaves it to gc_maybe_collect to collect.       *)
FinalCollectIfDue ==
    /\ phase = "run"
    /\ live' = live
    /\ temps' = {}
    /\ closing' = TRUE
    /\ IF Torture \/ count >= threshold
       THEN StartCollection
       ELSE phase' = "done" /\ UNCHANGED pending
    /\ UNCHANGED <<kind, refs, link, protect, count, threshold, marked, unswept>>

(* The call of gc_collect in interpreter_free.  It does not depend on what  *)
(* is left by then: values may be pinned, and the scope of a module that    *)
(* failed half way is live, for interpreter_free does not know of it.       *)
FinalCollect ==
    /\ phase = "run"
    /\ live' = live
    /\ temps' = {}
    /\ closing' = TRUE
    /\ StartCollection
    /\ UNCHANGED <<kind, refs, link, protect, count, threshold, marked, unswept>>

(* Mutant: the marker does not look at the mark bit.                        *)
NeverAlreadyMarked(o) == FALSE

(* A string is a leaf and needs no test of its mark bit; anything else is   *)
(* entered only once.                                                       *)
AlreadyMarked(o) == o \in marked /\ kind[o] # "string"

(* The map of a struct is marked without a call of its own.                 *)
MarkedBy(o) == {o} \cup (IF kind[o] = "struct" THEN {link[o]} ELSE {})

(* Mutants: the map of a struct gets a call of its own, and is found marked *)
(* already; the parent of a scope, and the closure of a function, are not   *)
(* marked.                                                                  *)
CallsWithStructMap(o) ==
    CASE kind[o] = "string"           -> {}
      [] kind[o] \in {"list", "map"}  -> refs[o]
      [] kind[o] \in {"struct", "func"} -> {link[o]}
      [] kind[o] = "env"              -> refs[o] \cup ({link[o]} \ {Nil})
      [] kind[o] = "fields"           -> refs[o]

CallsWithoutLink(o) ==
    IF kind[o] = "struct" THEN refs[link[o]] ELSE refs[o]

(* The calls gc_mark_value or env_gc_mark makes for the object it enters.   *)
CallsFrom(o) ==
    CASE kind[o] = "string"           -> {}
      [] kind[o] \in {"list", "map"}  -> refs[o]
      [] kind[o] = "struct"           -> refs[link[o]]
      [] kind[o] = "func"             -> {link[o]}
      [] kind[o] = "env"              -> refs[o] \cup ({link[o]} \ {Nil})

Mark(o) ==
    /\ phase = "mark"
    /\ o \in pending
    /\ IF AlreadyMarked(o)
       THEN /\ pending' = pending \ {o}
            /\ marked' = marked
       ELSE /\ pending' = (pending \ {o}) \cup CallsFrom(o)
            /\ marked' = marked \cup MarkedBy(o)
    /\ UNCHANGED <<mutatorVars, count, threshold, phase, closing, unswept>>

MarkDone ==
    /\ phase = "mark"
    /\ pending = {}
    /\ phase' = "sweep"
    /\ unswept' = Allocated
    /\ UNCHANGED <<mutatorVars, count, threshold, closing, marked, pending>>

SweepOver(o, unmarked) ==
    /\ phase = "sweep"
    /\ o \in unswept
    /\ o \in marked
    /\ marked' = marked \ unmarked
    /\ unswept' = unswept \ {o}
    /\ UNCHANGED <<mutatorVars, count, threshold, phase, closing, pending>>

(* Mutant: the mark bit stays set.                                          *)
SweepKeepMarked(o) == SweepOver(o, {})

SweepKeep(o) == SweepOver(o, {o})

(* gc_free_object: only the object itself goes; what it points at is swept  *)
(* on its own turn.                                                         *)
SweepFree(o) ==
    /\ phase = "sweep"
    /\ o \in unswept
    /\ o \notin marked
    /\ kind' = [kind EXCEPT ![o] = "free"]
    /\ refs' = [refs EXCEPT ![o] = {}]
    /\ link' = [link EXCEPT ![o] = Nil]
    /\ count' = count - 1
    /\ unswept' = unswept \ {o}
    /\ UNCHANGED <<live, protect, temps, threshold, phase, closing, marked, pending>>

EndSweep(floor) ==
    /\ phase = "sweep"
    /\ unswept = {}
    /\ phase' = IF closing THEN "done" ELSE "run"
    /\ threshold' = IF count * 2 < floor THEN floor ELSE count * 2
    /\ UNCHANGED <<mutatorVars, count, closing, marked, pending, unswept>>

(* Mutant: the next threshold has no floor.                                 *)
SweepDoneWithoutFloor == EndSweep(0)

SweepDone == EndSweep(MinThreshold)

(* The process is about to exit: nothing more happens.                      *)
Terminated ==
    /\ phase = "done"
    /\ UNCHANGED vars

-----------------------------------------------------------------------------
AtMostOneOf(S) == {{}} \cup {{o} : o \in S}

(* The client only ever works on what it can get at.                        *)
Client ==
    \/ \E o \in Obj : \E k \in ClientKinds \cap {"string", "list", "map"} : NewData(o, k)
    \/ "struct" \in ClientKinds /\ \E s, m \in Obj : NewStruct(s, m)
    \/ "func" \in ClientKinds /\ \E e \in Known, f \in Obj : NewFunction(f, e)
    \/ \E p \in Known \cup {Nil}, e \in Obj : EnvNew(e, p)
    \/ \E c \in Known, stored \in AtMostOneOf(Handles) :
          \E lost \in AtMostOneOf(refs[c]) : Store(c, lost, stored)
    \/ \E m \in Known, stored \in AtMostOneOf(Handles) :
          \E key \in Obj : StoreNewField(m, key, stored)
    \/ \E o \in Handles : Protect(o)
    \/ \E n \in 1 .. MaxHeld : Pop(n)
    \/ \E e \in live : EnvFree(e)
    \/ FinalCollect

Collect ==
    \/ \E o \in Obj : Mark(o) \/ SweepKeep(o) \/ SweepFree(o)
    \/ MarkDone
    \/ SweepDone

Next == Client \/ Collect \/ Terminated

Spec == Init /\ [][Next]_vars

(* gc_collect runs to its end in the thread that called it.                 *)
FairSpec == Spec /\ WF_vars(Collect)

-----------------------------------------------------------------------------
(* A handle the client can reach, through any chain of pointers, from a     *)
(* live scope, a pinned value or a local it has not carried across a        *)
(* collection, points at memory that has not been freed: while the client   *)
(* runs, while marking (the marker dereferences it) and while sweeping.     *)
NoDangling == Known \subseteq Allocated

(* The object count, which decides when to collect, is the length of the    *)
(* all-objects list: every allocation, struct or plain, and every free is   *)
(* counted once.                                                            *)
CountIsExact == count = Cardinality(Allocated)

(* While marking, a marked object never points at one that is neither       *)
(* marked nor about to be visited.  The map of a struct is marked without   *)
(* being visited, so its contents must be accounted for by the struct.      *)
TriColour ==
    phase = "mark" =>
        /\ Roots \subseteq marked \cup pending
        /\ \A o \in marked : Edges[o] \subseteq marked \cup pending

(* No mark bit outlives its collection; a stale one would hide an object's  *)
(* contents from the next collection.                                       *)
NoStaleMarks == phase \in {"run", "done"} => marked = {} /\ pending = {}

(* A collection frees all garbage, cycles included, not just some of it:    *)
(* when it ends, what is allocated is what the roots reach.                 *)
CollectionIsExact ==
    [][phase = "sweep" /\ phase' # "sweep"
         => Allocated' = Reach(Edges, Roots)']_vars

(* "The final sweep reclaims all environments, closures, and other objects" *)
(* (interpreter_free): what is left then is what a pin nobody released (the *)
(* value of a return outside of every function) and a scope nobody freed    *)
(* (that of a module that failed half way) still hold.  When there is no    *)
(* such pin and no such scope, nothing is left.                             *)
NothingOutlivesTheInterpreter ==
    phase = "done" =>
        /\ Allocated = Reach(Edges, Roots)
        /\ live = {} /\ protect = <<>> => Allocated = {} /\ count = 0

(* A collection ends, whatever cycles the heap has.                         *)
CollectionTerminates == phase = "mark" ~> phase \in {"run", "done"}

Collecting == phase \in {"mark", "sweep"}

(* What is left of a collection at most: as many calls of the marker as     *)
(* objects are left to be marked, each with a call for every object, and    *)
(* then a visit of every object by the sweeper.                             *)
Work ==
    CASE phase = "mark" ->
            Cardinality(pending) + (Cardinality(Obj) + 1) * (Cardinality(Obj \ marked) + 1) + 1
      [] phase = "sweep" -> Cardinality(unswept) + 1
      [] OTHER -> 0

(* Every step of gc_mark_value, env_gc_mark and gc_collect brings the       *)
(* collection nearer to its end, whatever cycles the heap has, and it ends  *)
(* when nothing is left to be done.                                         *)
CollectionAdvances ==
    [][Collecting =>
           /\ Work \in Nat /\ Work' < Work
           /\ Work' = 0 <=> ~Collecting']_vars

-----------------------------------------------------------------------------
(* The collector implements the abstract heap.  An object that the sweeper  *)
(* is going to free is gone from the moment marking ends.                   *)
Doomed == IF phase = "sweep" THEN unswept \ marked ELSE {}
Survivors == Allocated \ Doomed

Heap == INSTANCE ReachableHeap WITH
            alloc <- Survivors,
            edges <- [o \in Obj |-> IF o \in Doomed THEN {} ELSE Edges[o]],
            roots <- Roots \cup temps

(* Every step of the client and of the collector is a step of the abstract  *)
(* heap or leaves it unchanged: a collection takes effect at once when      *)
(* marking ends, and frees what is unreachable and nothing else.            *)
ImplementsReachableHeap == Heap!Spec
-----------------------------------------------------------------------------
(* The inductive invariant behind these properties.                         *)

(* What an object of each kind stores.  A scope that is not the globals has *)
(* a parent; no handle but the struct itself refers to the map of a struct. *)
WellFormed(o) ==
    /\ \A r \in refs[o] : kind[r] # "fields"
    /\ kind[o] \in {"string", "struct", "func"} => refs[o] = {}
    /\ kind[o] \in {"string", "list", "map", "fields"} => link[o] = Nil
    /\ kind[o] = "struct" => link[o] \in Obj /\ kind[link[o]] = "fields"
    /\ kind[o] = "func" => link[o] \in Obj /\ kind[link[o]] = "env"
    /\ kind[o] = "env" => link[o] = Nil \/ kind[link[o]] = "env"

SurvivorsClosed ==
    /\ Roots \cup temps \subseteq Survivors
    /\ \A o \in Survivors : refs[o] \subseteq Survivors /\ link[o] \in Survivors \cup {Nil}

(* The state of the marker and the sweeper in each phase.                   *)
PhaseOK ==
    /\ phase # "run" => temps = {}
    /\ phase # "mark" => pending = {}
    /\ phase \in {"run", "done"} => marked = {}
    /\ phase = "mark" => marked \cup pending \subseteq Allocated
    /\ phase = "sweep" => marked \subseteq unswept /\ unswept \subseteq Allocated

(* At every moment the part of the heap that is not about to be freed is    *)
(* closed under its pointers, holds every root, and has the layout that the *)
(* marker takes for granted.                                                *)
HeapInv ==
    /\ PhaseOK
    /\ SurvivorsClosed
    /\ \A o \in Survivors : WellFormed(o)
    /\ \A o \in Obj : kind[o] = "free" => refs[o] = {} /\ link[o] = Nil
    /\ \A o \in Roots \cup temps \cup pending : kind[o] # "fields"
    /\ TriColour
=============================================================================
