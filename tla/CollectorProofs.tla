-------------------------- MODULE CollectorProofs ---------------------------
(***************************************************************************)
(* Theorems about the collector, for any number of objects, any threshold  *)
(* and any client.  The invariant they rest on, HeapInv, says of the part  *)
(* of the heap that is not about to be freed what the marker relies on.    *)
(***************************************************************************)
EXTENDS Collector, CommonLemmas

-----------------------------------------------------------------------------
(* Types.                                                                   *)

USE DEF Kinds, Containers, gcVars, mutatorVars

(* The pointers of the heap form a graph on the objects.                    *)
LEMMA EdgesType == TypeOK => Edges \in [Obj -> SUBSET Obj] /\ Roots \subseteq Obj
BY DEF TypeOK, Edges, Roots, Pinned

(* What the client can get at is an object.                                 *)
LEMMA KnownIsObj == Known \subseteq Obj /\ Handles \subseteq Known
BY DEF Known, Handles, Reach, Edges

(* The collector starts with values of the right types.                     *)
LEMMA TypeInit == Init => TypeOK
<1> SUFFICES ASSUME Init
             PROVE  TypeOK
  OBVIOUS
<1>1. protect \in Seq(Obj)
  BY DEF Init
<1>2. threshold \in Nat /\ threshold >= MinThreshold /\ count \in Int
  BY ThresholdAssumption DEF Init
<1>3. kind \in [Obj -> Kinds \cup {"free"}] /\ refs \in [Obj -> SUBSET Obj]
        /\ link \in [Obj -> Obj \cup {Nil}]
  BY DEF Init
<1>4. QED
  BY <1>1, <1>2, <1>3 DEF Init, TypeOK

(* The marker calls itself only on objects, and between its calls and what  *)
(* it marks on the spot no pointer is forgotten.                            *)
LEMMA CallsCoverPointers ==
    ASSUME TypeOK, NEW o \in Obj, WellFormed(o), kind[o] # "free", kind[o] # "fields"
    PROVE  /\ CallsFrom(o) \subseteq Obj
           /\ MarkedBy(o) \subseteq Obj
           /\ Edges[o] \subseteq MarkedBy(o) \cup CallsFrom(o)
BY NilAssumption DEF TypeOK, WellFormed, CallsFrom, MarkedBy, Edges

(* No step of the client or of the collector breaks a type.                 *)
LEMMA TypeNext == TypeOK /\ HeapInv /\ [Next]_vars => TypeOK'
<1> SUFFICES ASSUME TypeOK, HeapInv, [Next]_vars
             PROVE  TypeOK'
  OBVIOUS
<1> USE ThresholdAssumption, KnownIsObj DEF TypeOK
<1>1. ASSUME NEW o \in Obj, NEW k \in ClientKinds \cap {"string", "list", "map"}, NewData(o, k)
      PROVE  TypeOK'
  BY <1>1 DEF NewData, Register
<1>2. ASSUME NEW s \in Obj, NEW m \in Obj, NewStruct(s, m)
      PROVE  TypeOK'
  BY <1>2 DEF NewStruct, StructWith
<1>3. ASSUME NEW e \in Known, NEW f \in Obj, NewFunction(f, e)
      PROVE  TypeOK'
  BY <1>3 DEF NewFunction, Register
<1>4. ASSUME NEW p \in Known \cup {Nil}, NEW e \in Obj, EnvNew(e, p)
      PROVE  TypeOK'
  BY <1>4 DEF EnvNew, Register
<1>5. ASSUME NEW c \in Known, NEW stored \in AtMostOneOf(Handles),
             NEW lost \in AtMostOneOf(refs[c]), Store(c, lost, stored)
      PROVE  TypeOK'
  BY <1>5 DEF Store, AtMostOneOf
<1>6. ASSUME NEW m \in Known, NEW stored \in AtMostOneOf(Handles), NEW key \in Obj,
             StoreNewField(m, key, stored)
      PROVE  TypeOK'
  BY <1>6 DEF StoreNewField, Register, AtMostOneOf
<1>7. ASSUME NEW o \in Handles, Protect(o)
      PROVE  TypeOK'
  BY <1>7 DEF Protect
<1>8. ASSUME NEW n \in 1 .. MaxHeld, Pop(n)
      PROVE  TypeOK'
  BY <1>8 DEF Pop
<1>9. ASSUME NEW e \in live, EnvFree(e)
      PROVE  TypeOK'
  BY <1>9 DEF EnvFree, StartCollection, Pinned
<1>10. CASE FinalCollect
  BY <1>10 DEF FinalCollect, StartCollection, Pinned
<1>11. ASSUME NEW o \in Obj, Mark(o)
       PROVE  TypeOK'
  <2>1. o \in Survivors /\ kind[o] # "free" /\ kind[o] # "fields" /\ WellFormed(o)
    BY <1>11 DEF Mark, HeapInv, PhaseOK, Survivors, Doomed, Allocated
  <2>2. CallsFrom(o) \subseteq Obj /\ MarkedBy(o) \subseteq Obj
    BY <2>1, CallsCoverPointers
  <2>3. QED
    BY <1>11, <2>2 DEF Mark
<1>12. ASSUME NEW o \in Obj, SweepKeep(o)
       PROVE  TypeOK'
  BY <1>12 DEF SweepKeep, SweepOver
<1>13. ASSUME NEW o \in Obj, SweepFree(o)
       PROVE  TypeOK'
  BY <1>13 DEF SweepFree
<1>14. CASE MarkDone
  BY <1>14 DEF MarkDone, Allocated
<1>15. CASE SweepDone
  BY <1>15 DEF SweepDone, EndSweep
<1>16. CASE UNCHANGED vars
  BY <1>16 DEF vars
<1>17. QED
  BY <1>1, <1>2, <1>3, <1>4, <1>5, <1>6, <1>7, <1>8, <1>9, <1>10, <1>11, <1>12,
     <1>13, <1>14, <1>15, <1>16 DEF Next, Client, Collect, Terminated

-----------------------------------------------------------------------------
(* The invariant of the heap.                                               *)

(* No handle the client can get at is about to be freed.                    *)
LEMMA KnownSurvives ==
    ASSUME TypeOK, SurvivorsClosed
    PROVE  Known \subseteq Survivors
<1>1. Survivors \subseteq Obj
  BY DEF Survivors, Allocated
<1>2. Closed(Edges, Survivors)
  BY <1>1 DEF Closed, Edges, SurvivorsClosed
<1>3. Roots \cup temps \subseteq Survivors
  BY DEF SurvivorsClosed
<1>4. QED
  BY <1>1, <1>2, <1>3, EdgesType, ReachIsLeast DEF Known

(* The empty heap satisfies the inductive invariant.                        *)
LEMMA HeapInit == Init => HeapInv
BY DEF Init, HeapInv, PhaseOK, SurvivorsClosed, WellFormed, TriColour, Survivors, Doomed,
       Allocated, Roots, Pinned

(* The part of the invariant that speaks of single objects and of handles.  *)
Layout ==
    /\ SurvivorsClosed
    /\ \A o \in Survivors : WellFormed(o)
    /\ \A o \in Obj : kind[o] = "free" => refs[o] = {} /\ link[o] = Nil
    /\ \A o \in Roots \cup temps : kind[o] # "fields"

(* What the client does to the collector: nothing, or it starts a           *)
(* collection, and then drops what it holds in locals.                      *)
LEMMA ClientSteps ==
    ASSUME Client
    PROVE  /\ phase = "run"
           /\ UNCHANGED <<closing, marked, unswept, threshold>> \/ FinalCollect
           /\ \/ phase' = "run" /\ UNCHANGED pending
              \/ /\ phase' = "mark" /\ temps' = {}
                 /\ pending' = live' \cup Pinned
                 /\ UNCHANGED <<kind, refs, link, protect>>
           /\ UNCHANGED marked
BY DEF Client, NewData, Register, NewStruct, StructWith, NewFunction, EnvNew, Store, StoreNewField,
       Protect, Pop, EnvFree, FinalCollect, StartCollection

(* Allocations, stores and pins keep every object laid out as its kind is.  *)
LEMMA ClientKeepsLayout ==
    ASSUME TypeOK, HeapInv, Client
    PROVE  Layout'
<1>1. phase = "run" /\ Survivors = Allocated /\ Survivors' = Allocated'
  BY ClientSteps DEF Survivors, Doomed, Allocated
<1>2. Layout /\ Known \subseteq Allocated /\ Handles \subseteq Allocated
  BY <1>1, KnownSurvives, KnownIsObj DEF HeapInv, Layout
<1> USE NilAssumption DEF TypeOK, Layout, SurvivorsClosed, WellFormed, Roots, Pinned, Allocated
<1>3. ASSUME NEW o \in Obj, NEW k \in ClientKinds \cap {"string", "list", "map"}, NewData(o, k)
      PROVE  Layout'
  BY <1>1, <1>2, <1>3 DEF NewData, Register
<1>4. ASSUME NEW s \in Obj, NEW m \in Obj, NewStruct(s, m)
      PROVE  Layout'
  BY <1>1, <1>2, <1>4 DEF NewStruct, StructWith
<1>5. ASSUME NEW e \in Known, NEW f \in Obj, NewFunction(f, e)
      PROVE  Layout'
  BY <1>1, <1>2, <1>5 DEF NewFunction, Register
<1>6. ASSUME NEW p \in Known \cup {Nil}, NEW e \in Obj, EnvNew(e, p)
      PROVE  Layout'
  BY <1>1, <1>2, <1>6 DEF EnvNew, Register
<1>7. ASSUME NEW c \in Known, NEW stored \in AtMostOneOf(Handles),
             NEW lost \in AtMostOneOf(refs[c]), Store(c, lost, stored)
      PROVE  Layout'
  BY <1>1, <1>2, <1>7 DEF Store, AtMostOneOf, Handles
<1>8. ASSUME NEW m \in Known, NEW stored \in AtMostOneOf(Handles), NEW key \in Obj,
             StoreNewField(m, key, stored)
      PROVE  Layout'
  BY <1>1, <1>2, <1>8 DEF StoreNewField, Register, AtMostOneOf, Handles
<1>9. ASSUME NEW o \in Handles, Protect(o)
      PROVE  Layout'
  BY <1>1, <1>2, <1>9 DEF Protect, Handles
<1>10. ASSUME NEW n \in 1 .. MaxHeld, Pop(n)
       PROVE  Layout'
  BY <1>1, <1>2, <1>10 DEF Pop
<1>11. ASSUME NEW e \in live, EnvFree(e)
       PROVE  Layout'
  BY <1>1, <1>2, <1>11 DEF EnvFree
<1>12. CASE FinalCollect
  BY <1>1, <1>2, <1>12 DEF FinalCollect
<1>13. QED
  BY <1>3, <1>4, <1>5, <1>6, <1>7, <1>8, <1>9, <1>10, <1>11, <1>12 DEF Client

(* No call of the interface of value.c and env.c breaks the invariant.      *)
LEMMA ClientKeepsHeapInv ==
    ASSUME TypeOK, HeapInv, Client
    PROVE  HeapInv'
<1>1. Layout'
  BY ClientKeepsLayout
<1>2. marked' = {} /\ (pending' = {} \/ pending' = Roots')
  BY ClientSteps DEF HeapInv, PhaseOK, Roots, Pinned
<1>3. PhaseOK'
  BY <1>1, <1>2, ClientSteps DEF PhaseOK, Layout, SurvivorsClosed, Survivors, HeapInv
<1>4. TriColour'
  BY <1>2, ClientSteps DEF TriColour, Roots, Pinned
<1>5. QED
  BY <1>1, <1>2, <1>3, <1>4 DEF Layout, HeapInv

(* The marker only moves objects from the calls still to be made to the     *)
(* marked ones, and puts the objects these point at in their place.         *)
LEMMA MarkKeepsHeapInv ==
    ASSUME TypeOK, HeapInv, NEW o \in Obj, Mark(o)
    PROVE  HeapInv'
<1> USE DEF TypeOK
<1>1. /\ phase = "mark" /\ phase' = "mark" /\ o \in pending
      /\ UNCHANGED <<kind, refs, link, live, protect, temps, unswept>>
  BY DEF Mark
<1>2. /\ Survivors = Allocated /\ Survivors' = Survivors
      /\ Edges' = Edges /\ Roots' = Roots /\ Allocated' = Allocated
  BY <1>1 DEF Survivors, Doomed, Allocated, Edges, Roots, Pinned
<1>3. o \in Survivors /\ kind[o] # "free" /\ kind[o] # "fields" /\ WellFormed(o)
  BY <1>1, <1>2 DEF HeapInv, PhaseOK, Allocated
<1>4. Edges[o] \subseteq MarkedBy(o) \cup CallsFrom(o)
  BY <1>3, CallsCoverPointers
<1>5. MarkedBy(o) \subseteq Survivors /\ CallsFrom(o) \subseteq Survivors
  BY <1>3, NilAssumption DEF MarkedBy, CallsFrom, HeapInv, SurvivorsClosed, WellFormed
<1>6. \A c \in CallsFrom(o) : kind[c] # "fields"
  BY <1>3, <1>5, NilAssumption DEF CallsFrom, HeapInv, SurvivorsClosed, WellFormed, MarkedBy
<1>7. \A m \in MarkedBy(o) : Edges[m] \subseteq MarkedBy(o) \cup CallsFrom(o)
  BY <1>3, <1>4, <1>5, NilAssumption
     DEF MarkedBy, CallsFrom, Edges, HeapInv, WellFormed, Survivors, Allocated
<1>8. TriColour'
  BY <1>1, <1>2, <1>3, <1>7 DEF TriColour, Mark, MarkedBy, HeapInv, AlreadyMarked
<1>9. PhaseOK'
  BY <1>1, <1>2, <1>5 DEF PhaseOK, Mark, HeapInv
<1>10. \A p \in Roots' \cup temps' \cup pending' : kind'[p] # "fields"
  BY <1>1, <1>2, <1>6 DEF Mark, HeapInv
<1>11. SurvivorsClosed' /\ \A p \in Survivors' : WellFormed(p)'
  BY <1>1, <1>2 DEF HeapInv, SurvivorsClosed, WellFormed
<1>12. QED
  BY <1>1, <1>8, <1>9, <1>10, <1>11 DEF HeapInv

(* When marking ends the survivors shrink to the marked objects, which no   *)
(* pointer leaves.                                                          *)
LEMMA MarkDoneKeepsHeapInv ==
    ASSUME TypeOK, HeapInv, MarkDone
    PROVE  HeapInv' /\ Survivors' = marked
<1> USE DEF TypeOK
<1>1. /\ phase = "mark" /\ phase' = "sweep" /\ pending = {} /\ pending' = {}
      /\ unswept' = Allocated
      /\ UNCHANGED <<kind, refs, link, live, protect, temps, marked>>
  BY DEF MarkDone
<1>2. marked \subseteq Allocated
  BY <1>1 DEF HeapInv, PhaseOK
<1>3. Survivors' = marked /\ Survivors = Allocated
  BY <1>1, <1>2 DEF Survivors, Doomed, Allocated
<1>4. SurvivorsClosed'
  <2>1. Roots \subseteq marked /\ \A p \in marked : Edges[p] \subseteq marked
    BY <1>1 DEF HeapInv, TriColour
  <2>2. Roots' \cup temps' \subseteq marked
    BY <1>1, <2>1 DEF HeapInv, PhaseOK, Roots, Pinned
  <2>3. \A p \in marked : refs[p] \subseteq marked /\ link[p] \in marked \cup {Nil}
    BY <2>1, NilAssumption DEF Edges
  <2>4. QED
    BY <1>1, <1>3, <2>2, <2>3 DEF SurvivorsClosed
<1>5. \A p \in Survivors' : WellFormed(p)'
  BY <1>1, <1>2, <1>3 DEF HeapInv, WellFormed
<1>6. PhaseOK' /\ TriColour'
  BY <1>1, <1>2 DEF HeapInv, PhaseOK, TriColour, Allocated
<1>7. QED
  BY <1>1, <1>3, <1>4, <1>5, <1>6 DEF HeapInv, Roots, Pinned

(* The sweeper frees the doomed objects and leaves the survivors alone.     *)
LEMMA SweepKeepsHeapInv ==
    ASSUME TypeOK, HeapInv, NEW o \in Obj, SweepKeep(o) \/ SweepFree(o)
    PROVE  /\ HeapInv'
           /\ Survivors' = Survivors
           /\ \A p \in Survivors : Edges'[p] = Edges[p]
<1> USE DEF TypeOK
<1>1. /\ phase = "sweep" /\ phase' = "sweep" /\ o \in unswept
      /\ unswept' = unswept \ {o}
      /\ UNCHANGED <<live, protect, temps, pending>>
  BY DEF SweepKeep, SweepOver, SweepFree
<1>2. marked \subseteq unswept /\ unswept \subseteq Allocated
  BY <1>1 DEF HeapInv, PhaseOK
<1>3. /\ Survivors' = Survivors
      /\ \A p \in Survivors : /\ kind'[p] = kind[p] /\ refs'[p] = refs[p]
                              /\ link'[p] = link[p]
  <2>1. CASE SweepKeep(o)
    BY <1>1, <1>2, <2>1 DEF SweepKeep, SweepOver, Survivors, Doomed, Allocated
  <2>2. CASE SweepFree(o)
    BY <1>1, <1>2, <2>2 DEF SweepFree, Survivors, Doomed, Allocated
  <2>3. QED
    BY <2>1, <2>2
<1>4. SurvivorsClosed'
  BY <1>1, <1>3 DEF HeapInv, SurvivorsClosed, Roots, Pinned
<1>5. \A p \in Survivors' : WellFormed(p)'
  BY <1>3, NilAssumption DEF HeapInv, WellFormed, SurvivorsClosed
<1>6. \A p \in Obj : kind'[p] = "free" => refs'[p] = {} /\ link'[p] = Nil
  BY DEF SweepKeep, SweepOver, SweepFree, HeapInv
<1>7. PhaseOK' /\ TriColour'
  BY <1>1, <1>2 DEF SweepKeep, SweepOver, SweepFree, HeapInv, PhaseOK, TriColour, Allocated
<1>8. \A p \in Roots' \cup temps' \cup pending' : kind'[p] # "fields"
  BY <1>1, <1>3 DEF HeapInv, PhaseOK, SurvivorsClosed, Roots, Pinned
<1>9. \A p \in Survivors : Edges'[p] = Edges[p]
  BY <1>3 DEF Edges, Survivors, Allocated
<1>10. QED
  BY <1>3, <1>4, <1>5, <1>6, <1>7, <1>8, <1>9 DEF HeapInv

(* The end of the sweep, which sets the threshold, keeps the invariant.     *)
LEMMA SweepDoneKeepsHeapInv ==
    ASSUME TypeOK, HeapInv, SweepDone
    PROVE  HeapInv' /\ Survivors' = Survivors /\ Allocated' = Survivors
BY DEF TypeOK, SweepDone, EndSweep, HeapInv, PhaseOK, SurvivorsClosed, WellFormed, TriColour,
       Survivors, Doomed, Allocated, Roots, Pinned

(* HeapInv is inductive.                                                    *)
LEMMA HeapNext == TypeOK /\ HeapInv /\ [Next]_vars => HeapInv'
<1> SUFFICES ASSUME TypeOK, HeapInv, [Next]_vars
             PROVE  HeapInv'
  OBVIOUS
<1>1. CASE Client
  BY <1>1, ClientKeepsHeapInv
<1>2. CASE Collect
  BY <1>2, MarkKeepsHeapInv, MarkDoneKeepsHeapInv, SweepKeepsHeapInv, SweepDoneKeepsHeapInv
     DEF Collect
<1>3. CASE UNCHANGED vars
  BY <1>3 DEF vars, HeapInv, PhaseOK, SurvivorsClosed, WellFormed, TriColour, Survivors, Doomed,
              Allocated, Roots, Pinned, Edges
<1>4. QED
  BY <1>1, <1>2, <1>3 DEF Next, Terminated

(* Every variable holds a value of its type, and the heap keeps its layout, *)
(* at every point of every run.                                             *)
THEOREM HeapIsWellFormed == Spec => []TypeOK /\ []HeapInv
<1>1. Init => TypeOK /\ HeapInv
  BY TypeInit, HeapInit
<1>2. (TypeOK /\ HeapInv) /\ [Next]_vars => (TypeOK /\ HeapInv)'
  BY TypeNext, HeapNext
<1>3. QED
  BY <1>1, <1>2, PTL DEF Spec

(* Type correctness by itself.                                              *)
THEOREM TypeCorrect == Spec => []TypeOK
BY HeapIsWellFormed, PTL

(* No handle the client can reach points at freed memory: not while the     *)
(* client runs, and not at any point of a collection.                       *)
THEOREM HandlesAreValid == Spec => []NoDangling
<1>1. TypeOK /\ HeapInv => NoDangling
  BY KnownSurvives DEF HeapInv, NoDangling, Survivors
<1>2. QED
  BY <1>1, HeapIsWellFormed, PTL

(* The invariant of the marker, with the map of a struct that is marked     *)
(* without being visited.                                                   *)
THEOREM MarkingIsTriColour == Spec => []TriColour
<1>1. HeapInv => TriColour
  BY DEF HeapInv
<1>2. QED
  BY <1>1, HeapIsWellFormed, PTL

(* A collection starts with every mark bit clear.                           *)
THEOREM MarksAreCleared == Spec => []NoStaleMarks
<1>1. HeapInv => NoStaleMarks
  BY DEF HeapInv, PhaseOK, NoStaleMarks
<1>2. QED
  BY <1>1, HeapIsWellFormed, PTL

-----------------------------------------------------------------------------
(* The object count.                                                        *)

(* Every gc_register and every gc_free_object counts exactly one object.    *)
LEMMA CountNext == TypeOK /\ HeapInv /\ CountIsExact /\ [Next]_vars => CountIsExact'
<1> SUFFICES ASSUME TypeOK, HeapInv, CountIsExact, [Next]_vars
             PROVE  CountIsExact'
  OBVIOUS
<1> USE DEF TypeOK, CountIsExact
<1>1. IsFiniteSet(Allocated) /\ Cardinality(Allocated) \in Nat
  BY ObjAssumption, FS_Subset, FS_CardinalityType DEF Allocated
<1>2. ASSUME NEW o \in Obj, NEW k \in Kinds, Register(o, k)
      PROVE  CountIsExact'
  <2>1. Allocated' = Allocated \cup {o} /\ o \notin Allocated
    BY <1>2 DEF Register, Allocated
  <2>2. QED
    BY <1>1, <1>2, <2>1, FS_AddElement DEF Register
<1>3. ASSUME NEW s \in Obj, NEW m \in Obj, NewStruct(s, m)
      PROVE  CountIsExact'
  <2>1. /\ Allocated' = (Allocated \cup {s}) \cup {m}
        /\ s \notin Allocated /\ m \notin Allocated \cup {s}
    BY <1>3 DEF NewStruct, StructWith, Allocated
  <2>2. /\ IsFiniteSet(Allocated \cup {s})
        /\ Cardinality(Allocated \cup {s}) = Cardinality(Allocated) + 1
    BY <1>1, <2>1, FS_AddElement
  <2>3. Cardinality(Allocated') = Cardinality(Allocated) + 1 + 1
    BY <2>1, <2>2, FS_AddElement
  <2>4. QED
    BY <1>1, <1>3, <2>3 DEF NewStruct, StructWith
<1>4. ASSUME NEW o \in Obj, SweepFree(o)
      PROVE  CountIsExact'
  <2>1. Allocated' = Allocated \ {o} /\ o \in Allocated
    BY <1>4 DEF SweepFree, Allocated, HeapInv, PhaseOK
  <2>2. QED
    BY <1>1, <1>4, <2>1, FS_RemoveElement DEF SweepFree
<1>5. CASE UNCHANGED <<kind, count>>
  BY <1>5 DEF Allocated
<1>6. CASE Client
  <2>1. CASE UNCHANGED <<kind, count>>
    BY <2>1, <1>5
  <2>2. CASE \E o \in Obj, k \in Kinds : Register(o, k)
    BY <2>2, <1>2
  <2>3. CASE \E s, m \in Obj : NewStruct(s, m)
    BY <2>3, <1>3
  <2>4. QED
    BY <1>6, <2>1, <2>2, <2>3
       DEF Client, NewData, NewFunction, EnvNew, Store, StoreNewField, Protect, Pop, EnvFree,
           FinalCollect
<1>7. CASE Collect
  BY <1>4, <1>5, <1>7 DEF Collect, Mark, SweepKeep, SweepOver, MarkDone, SweepDone, EndSweep
<1>8. CASE UNCHANGED vars
  BY <1>5, <1>8 DEF vars
<1>9. QED
  BY <1>6, <1>7, <1>8 DEF Next, Terminated

(* The count that decides when to collect is the number of objects.         *)
THEOREM CountingIsExact == Spec => []CountIsExact
<1>1. Init => CountIsExact
  BY FS_EmptySet DEF Init, CountIsExact, Allocated
<1>2. QED
  BY <1>1, CountNext, HeapIsWellFormed, PTL DEF Spec

-----------------------------------------------------------------------------
(* A collection frees everything that cannot be reached.                    *)

(* What is marked, and later what survives, can be reached.                 *)
ExactInv ==
    /\ phase = "mark" => marked \cup pending \subseteq Reach(Edges, Roots)
    /\ phase \in {"sweep", "done"} => Survivors \subseteq Reach(Edges, Roots)

(* The survivors are exactly what the roots reach, once marking is over.    *)
LEMMA SurvivorsAreReached ==
    ASSUME TypeOK, HeapInv, ExactInv, phase \in {"sweep", "done"}
    PROVE  Survivors = Reach(Edges, Roots)
<1>1. Known \subseteq Survivors
  BY KnownSurvives DEF HeapInv
<1>2. Roots \cup temps = Roots
  BY DEF HeapInv, PhaseOK
<1>3. QED
  BY <1>1, <1>2 DEF ExactInv, Known

(* The marker marks nothing that the roots do not reach.                    *)
LEMMA MarkKeepsExact ==
    ASSUME TypeOK, HeapInv, ExactInv, NEW o \in Obj, Mark(o)
    PROVE  ExactInv'
<1>1. /\ phase = "mark" /\ phase' = "mark" /\ o \in pending
      /\ UNCHANGED <<kind, refs, link, live, protect, closing>>
  BY DEF Mark
<1>2. Edges' = Edges /\ Roots' = Roots
  BY <1>1 DEF Edges, Roots, Pinned
<1>3. kind[o] # "free" /\ kind[o] # "fields" /\ WellFormed(o)
  BY <1>1 DEF HeapInv, PhaseOK, Survivors, Doomed, Allocated
<1>4. o \in Reach(Edges, Roots) /\ Closed(Edges, Reach(Edges, Roots))
  BY <1>1, EdgesType, ReachIsClosed DEF ExactInv
<1>5. MarkedBy(o) \subseteq {o} \cup Edges[o]
  BY <1>3, NilAssumption DEF MarkedBy, Edges, WellFormed, TypeOK
<1>6. MarkedBy(o) \subseteq Reach(Edges, Roots)
  BY <1>4, <1>5 DEF Closed
<1>7. \A c \in CallsFrom(o) : \E m \in MarkedBy(o) : c \in Edges[m]
  BY <1>3, NilAssumption DEF CallsFrom, MarkedBy, Edges, WellFormed, TypeOK
<1>8. CallsFrom(o) \subseteq Reach(Edges, Roots)
  BY <1>4, <1>6, <1>7 DEF Closed
<1>9. QED
  BY <1>1, <1>2, <1>6, <1>8 DEF ExactInv, Mark

(* Freeing what cannot be reached changes nothing of what can.              *)
LEMMA SweepKeepsReach ==
    ASSUME TypeOK, HeapInv, ExactInv, NEW o \in Obj, SweepKeep(o) \/ SweepFree(o)
    PROVE  Survivors' = Survivors /\ Roots' = Roots /\ Reach(Edges, Roots)' = Reach(Edges, Roots)
<1>1. /\ phase = "sweep" /\ UNCHANGED <<live, protect>>
      /\ Survivors' = Survivors
      /\ \A p \in Survivors : Edges'[p] = Edges[p]
  BY SweepKeepsHeapInv DEF SweepKeep, SweepOver, SweepFree
<1>2. Reach(Edges, Roots) = Survivors
  BY <1>1, SurvivorsAreReached
<1>3. Roots' = Roots /\ Roots \subseteq Obj /\ Edges \in [Obj -> SUBSET Obj]
  BY <1>1, EdgesType DEF Roots, Pinned
<1>4. Edges' \in [Obj -> SUBSET Obj]
  <2>1. TypeOK'
    BY TypeNext DEF Next, Collect
  <2>2. QED
    BY <2>1 DEF TypeOK, Edges
<1>5. Reach(Edges', Roots) = Reach(Edges, Roots)
  BY <1>1, <1>2, <1>3, <1>4, ReachIsLocal
<1>6. QED
  BY <1>1, <1>3, <1>5

(* No step breaks the invariant that makes a collection exact.              *)
LEMMA ExactNext == TypeOK /\ HeapInv /\ ExactInv /\ [Next]_vars => ExactInv'
<1> SUFFICES ASSUME TypeOK, HeapInv, ExactInv, [Next]_vars
             PROVE  ExactInv'
  OBVIOUS
<1>1. CASE Client
  <2>1. CASE phase' = "run"
    BY <1>1, <2>1, ClientSteps DEF ExactInv, FinalCollect, StartCollection
  <2>2. CASE phase' = "mark"
    <3>1. pending' = Roots' /\ marked' = {}
      BY <1>1, <2>2, ClientSteps DEF HeapInv, PhaseOK, Roots, Pinned
    <3>2. pending' \subseteq Reach(Edges, Roots)'
      <4>1. TypeOK'
        BY TypeNext
      <4>2. Edges' \in [Obj -> SUBSET Obj] /\ Roots' \subseteq Obj
        BY <4>1 DEF TypeOK, Edges, Roots, Pinned
      <4>3. QED
        BY <3>1, <4>2, ReachContainsRoots
    <3>3. QED
      BY <2>2, <3>1, <3>2 DEF ExactInv
  <2>3. QED
    BY <1>1, <2>1, <2>2, ClientSteps
<1>2. ASSUME NEW o \in Obj, Mark(o)
      PROVE  ExactInv'
  BY <1>2, MarkKeepsExact
<1>3. CASE MarkDone
  <2>1. Edges' = Edges /\ Roots' = Roots /\ Survivors' = marked
    BY <1>3, MarkDoneKeepsHeapInv DEF MarkDone, Edges, Roots, Pinned
  <2>2. QED
    BY <1>3, <2>1 DEF ExactInv, MarkDone
<1>4. ASSUME NEW o \in Obj, SweepKeep(o) \/ SweepFree(o)
      PROVE  ExactInv'
  BY <1>4, SweepKeepsReach DEF ExactInv, SweepKeep, SweepOver, SweepFree
<1>5. CASE SweepDone
  <2>1. Edges' = Edges /\ Roots' = Roots /\ Survivors' = Survivors
    BY <1>5, SweepDoneKeepsHeapInv DEF SweepDone, EndSweep, Edges, Roots, Pinned
  <2>2. QED
    BY <1>5, <2>1 DEF ExactInv, SweepDone, EndSweep
<1>6. CASE UNCHANGED vars
  BY <1>6 DEF vars, ExactInv, Survivors, Doomed, Allocated, Roots, Pinned, Edges
<1>7. QED
  BY <1>1, <1>2, <1>3, <1>4, <1>5, <1>6 DEF Next, Collect, Terminated

(* What is marked is reached from the roots, at every point.                *)
LEMMA ExactAlways == Spec => []ExactInv
<1>1. Init => ExactInv
  BY DEF Init, ExactInv
<1>2. QED
  BY <1>1, ExactNext, HeapIsWellFormed, PTL DEF Spec

(* When a collection ends, no garbage is left, cyclic garbage included.     *)
THEOREM CollectionsAreExact == Spec => CollectionIsExact
<1>1. TypeOK /\ HeapInv /\ ExactInv /\ [Next]_vars
        => [phase = "sweep" /\ phase' # "sweep" => Allocated' = Reach(Edges, Roots)']_vars
  <2>1. SUFFICES ASSUME TypeOK, HeapInv, ExactInv, Next, phase = "sweep", phase' # "sweep"
                 PROVE  Allocated' = Reach(Edges, Roots)'
    BY DEF vars
  <2>2. SweepDone
    BY <2>1, ClientSteps
       DEF Next, Collect, Mark, MarkDone, SweepKeep, SweepOver, SweepFree, Terminated
  <2>3. Edges' = Edges /\ Roots' = Roots
    BY <2>2 DEF SweepDone, EndSweep, Edges, Roots, Pinned
  <2>4. QED
    BY <2>1, <2>2, <2>3, SweepDoneKeepsHeapInv, SurvivorsAreReached
<1>2. QED
  BY <1>1, HeapIsWellFormed, ExactAlways, PTL DEF Spec, CollectionIsExact

(* When the interpreter has gone, what is left is what the pins and scopes  *)
(* nobody released hold, and without any of these nothing is.               *)
THEOREM NothingIsLeft == Spec => []NothingOutlivesTheInterpreter
<1>1. TypeOK /\ HeapInv /\ ExactInv /\ CountIsExact => NothingOutlivesTheInterpreter
  <2>1. SUFFICES ASSUME TypeOK, HeapInv, ExactInv, CountIsExact, phase = "done"
                 PROVE  /\ Allocated = Reach(Edges, Roots)
                        /\ live = {} /\ protect = <<>> => Allocated = {} /\ count = 0
    BY DEF NothingOutlivesTheInterpreter
  <2>2. Allocated = Reach(Edges, Roots)
    BY <2>1, SurvivorsAreReached DEF Survivors, Doomed
  <2>3. ASSUME live = {}, protect = <<>>
        PROVE  Allocated = {} /\ count = 0
    <3>1. Roots = {}
      BY <2>3 DEF Roots, Pinned
    <3>2. Reach(Edges, {}) = {}
      BY <2>1, EdgesType, ReachIsLeast DEF Closed
    <3>3. Allocated = {}
      BY <2>2, <3>1, <3>2
    <3> QED
      BY <2>1, <3>3, FS_EmptySet DEF CountIsExact
  <2> QED
    BY <2>2, <2>3
<1>2. QED
  BY <1>1, HeapIsWellFormed, ExactAlways, CountingIsExact, PTL

-----------------------------------------------------------------------------
(* The collector implements the abstract heap.                              *)

(* The pointers of the abstract heap.                                       *)
HeapEdges == [o \in Obj |-> IF o \in Doomed THEN {} ELSE Edges[o]]

(* What the abstract heap calls reachable is what the client can get at.    *)
LEMMA AbstractReach == Heap!Reachable = Reach(HeapEdges, Roots \cup temps)
BY DEF Heap!Reachable, Heap!Reach, Heap!Closed, Reach, Closed, HeapEdges

(* What one step of the client does, in terms of what it knew before it.    *)
Gained == Known \cup (Allocated' \ Allocated)

ClientStep ==
    /\ Allocated \subseteq Allocated'
    /\ Roots' \cup temps' \subseteq Gained
    /\ \A o \in Obj : /\ Edges'[o] \subseteq Edges[o] \cup Gained
                      /\ o \notin Gained => Edges'[o] = Edges[o]

(* A call by the client takes its handles from what it can get at.          *)
LEMMA ClientTakesStep ==
    ASSUME TypeOK, HeapInv, Client
    PROVE  ClientStep
<1>1. Roots \cup temps \subseteq Known
  <2>1. Roots \cup temps \subseteq Obj
    BY EdgesType DEF TypeOK
  <2>2. QED
    BY <2>1, EdgesType, ReachContainsRoots DEF Known
<1>2. \A o \in Obj : kind[o] = "free" => Edges[o] = {}
  BY DEF HeapInv, Edges
<1> USE KnownIsObj, NilAssumption DEF TypeOK, ClientStep, Gained, Allocated, Edges, Roots, Pinned
<1>3. ASSUME NEW o \in Obj, NEW k \in ClientKinds \cap {"string", "list", "map"}, NewData(o, k)
      PROVE  ClientStep
  BY <1>1, <1>3, KindAssumption DEF NewData, Register
<1>4. ASSUME NEW s \in Obj, NEW m \in Obj, NewStruct(s, m)
      PROVE  ClientStep
  BY <1>1, <1>2, <1>4 DEF NewStruct, StructWith
<1>5. ASSUME NEW e \in Known, NEW f \in Obj, NewFunction(f, e)
      PROVE  ClientStep
  BY <1>1, <1>2, <1>5 DEF NewFunction, Register
<1>6. ASSUME NEW p \in Known \cup {Nil}, NEW e \in Obj, EnvNew(e, p)
      PROVE  ClientStep
  BY <1>1, <1>2, <1>6 DEF EnvNew, Register
<1>7. ASSUME NEW c \in Known, NEW stored \in AtMostOneOf(Handles),
             NEW lost \in AtMostOneOf(refs[c]), Store(c, lost, stored)
      PROVE  ClientStep
  BY <1>1, <1>7 DEF Store, AtMostOneOf
<1>8. ASSUME NEW m \in Known, NEW stored \in AtMostOneOf(Handles), NEW key \in Obj,
             StoreNewField(m, key, stored)
      PROVE  ClientStep
  BY <1>1, <1>8 DEF StoreNewField, Register, AtMostOneOf
<1>9. ASSUME NEW o \in Handles, Protect(o)
      PROVE  ClientStep
  BY <1>1, <1>9 DEF Protect
<1>10. ASSUME NEW n \in 1 .. MaxHeld, Pop(n)
       PROVE  ClientStep
  BY <1>1, <1>10 DEF Pop
<1>11. ASSUME NEW e \in live, EnvFree(e)
       PROVE  ClientStep
  BY <1>1, <1>11 DEF EnvFree
<1>12. CASE FinalCollect
  BY <1>1, <1>12 DEF FinalCollect
<1>13. QED
  BY <1>3, <1>4, <1>5, <1>6, <1>7, <1>8, <1>9, <1>10, <1>11, <1>12 DEF Client

(* A call by the client is a mutation of the abstract heap.                 *)
LEMMA ClientMutates ==
    ASSUME TypeOK, TypeOK', HeapInv, Client
    PROVE  Heap!Mutate
<1>1. /\ Doomed = {} /\ Survivors = Allocated
      /\ Doomed' = {} /\ Survivors' = Allocated'
  BY ClientSteps DEF Doomed, Survivors
<1>2. Edges \in [Obj -> SUBSET Obj] /\ Edges' \in [Obj -> SUBSET Obj]
  BY DEF TypeOK, Edges
<1>3. HeapEdges = Edges /\ HeapEdges' = Edges'
  BY <1>1, <1>2 DEF HeapEdges
<1>4. Heap!Reachable = Known
  BY <1>3, AbstractReach DEF Known
<1>5. QED
  BY <1>1, <1>2, <1>3, <1>4, ClientTakesStep
     DEF Heap!Mutate, ClientStep, Gained, HeapEdges, Allocated

(* When no marking call is left, the marked objects are the reachable ones. *)
LEMMA MarkedIsReached ==
    ASSUME TypeOK, HeapInv, ExactInv, phase = "mark", pending = {}
    PROVE  marked = Reach(Edges, Roots)
<1>1. Roots \subseteq marked /\ Closed(Edges, marked)
  BY DEF HeapInv, TriColour, Closed
<1>2. Reach(Edges, Roots) \subseteq marked
  BY <1>1, EdgesType, ReachIsLeast DEF TypeOK
<1>3. QED
  BY <1>2 DEF ExactInv

(* The end of the marking is where the abstract heap reclaims.              *)
LEMMA MarkDoneReclaims ==
    ASSUME TypeOK, HeapInv, ExactInv, MarkDone
    PROVE  Heap!Reclaim
<1>1. /\ phase = "mark" /\ phase' = "sweep" /\ unswept' = Allocated /\ pending = {}
      /\ UNCHANGED <<kind, refs, link, live, protect, temps, marked>>
  BY DEF MarkDone
<1>2. /\ Doomed = {} /\ Doomed' = Allocated \ marked /\ temps = {}
      /\ Edges' = Edges /\ Roots' = Roots /\ temps' = temps
  BY <1>1 DEF Doomed, Edges, Roots, Pinned, HeapInv, PhaseOK
<1>3. HeapEdges = Edges
  BY <1>2 DEF HeapEdges, Edges
<1>4. Heap!Reachable = marked
  <2>1. Roots \cup temps = Roots
    BY <1>2
  <2>2. QED
    BY <1>1, <1>3, <2>1, MarkedIsReached, AbstractReach
<1>5. \A o \in Obj : o \notin Allocated => Edges[o] = {}
  BY DEF HeapInv, Allocated, Edges
<1>6. HeapEdges' = [o \in Obj |-> IF o \in marked THEN HeapEdges[o] ELSE {}]
  BY <1>2, <1>3, <1>5 DEF HeapEdges
<1>7. Survivors' = marked
  BY MarkDoneKeepsHeapInv
<1>8. QED
  BY <1>2, <1>4, <1>6, <1>7 DEF Heap!Reclaim, HeapEdges

(* Freeing a doomed object is invisible to the abstract heap.               *)
LEMMA SweepStutters ==
    ASSUME TypeOK, HeapInv, NEW o \in Obj, SweepKeep(o) \/ SweepFree(o)
    PROVE  UNCHANGED <<Survivors, HeapEdges, Roots \cup temps>>
<1>1. UNCHANGED <<live, protect, temps>>
  BY DEF SweepKeep, SweepOver, SweepFree
<1>2. HeapInv' /\ Survivors' = Survivors /\ \A p \in Survivors : Edges'[p] = Edges[p]
  BY SweepKeepsHeapInv
<1>3. /\ Survivors = Allocated \ Doomed /\ Survivors' = Allocated' \ Doomed'
      /\ \A p \in Obj : p \notin Allocated => Edges[p] = {}
      /\ \A p \in Obj : p \notin Allocated' => Edges'[p] = {}
  BY <1>2 DEF Survivors, HeapInv, Allocated, Edges
<1>4. HeapEdges' = HeapEdges
  BY <1>2, <1>3 DEF HeapEdges
<1>5. QED
  BY <1>1, <1>2, <1>4 DEF Roots, Pinned

(* Every step of a collection reclaims or is invisible to the client.       *)
LEMMA CollectorSteps ==
    TypeOK /\ TypeOK' /\ HeapInv /\ ExactInv /\ [Next]_vars => [Heap!Next]_Heap!vars
<1> SUFFICES ASSUME TypeOK, TypeOK', HeapInv, ExactInv, [Next]_vars
             PROVE  Heap!Next \/ UNCHANGED <<Survivors, HeapEdges, Roots \cup temps>>
  BY DEF Heap!vars, HeapEdges
<1>1. CASE Client
  BY <1>1, ClientMutates DEF Heap!Next
<1>2. CASE MarkDone
  BY <1>2, MarkDoneReclaims DEF Heap!Next
<1>3. ASSUME NEW o \in Obj, SweepKeep(o) \/ SweepFree(o)
      PROVE  UNCHANGED <<Survivors, HeapEdges, Roots \cup temps>>
  BY <1>3, SweepStutters
<1>4. ASSUME NEW o \in Obj, Mark(o)
      PROVE  UNCHANGED <<Survivors, HeapEdges, Roots \cup temps>>
  BY <1>4 DEF Mark, Survivors, Doomed, Allocated, HeapEdges, Edges, Roots, Pinned
<1>5. CASE SweepDone
  BY <1>5 DEF SweepDone, EndSweep, Survivors, Doomed, Allocated, HeapEdges, Edges, Roots, Pinned
<1>6. CASE UNCHANGED vars
  BY <1>6 DEF vars, Survivors, Doomed, Allocated, HeapEdges, Edges, Roots, Pinned
<1>7. QED
  BY <1>1, <1>2, <1>3, <1>4, <1>5, <1>6 DEF Next, Collect, Terminated

(* Every run of the client and the collector is a run of the abstract heap: *)
(* whatever the client does and however the marker's calls and the          *)
(* sweeper's visits are ordered, a collection has the effect of one step    *)
(* that frees the unreachable objects and no others.                        *)
THEOREM Refinement == Spec => ImplementsReachableHeap
<1>1. Init => Heap!Init
  BY DEF Init, Heap!Init, Survivors, Doomed, Allocated, Edges, Roots, Pinned
<1>2. QED
  BY <1>1, CollectorSteps, HeapIsWellFormed, ExactAlways, PTL
     DEF Spec, Heap!Spec, ImplementsReachableHeap

-----------------------------------------------------------------------------
(* A collection comes to its end.                                           *)

(* Sets of objects have a size, at most that of all objects, and lose one   *)
(* by the loss of a member.                                                 *)
LEMMA Sizes ==
    /\ Cardinality(Obj) \in Nat
    /\ \A S \in SUBSET Obj : Cardinality(S) \in Nat /\ Cardinality(S) <= Cardinality(Obj)
    /\ \A S \in SUBSET Obj : \A o \in S : Cardinality(S \ {o}) = Cardinality(S) - 1
    /\ \A S, T \in SUBSET Obj : T \subseteq S => Cardinality(T) <= Cardinality(S)
<1>1. \A S \in SUBSET Obj :
        /\ IsFiniteSet(S) /\ Cardinality(S) \in Nat /\ Cardinality(S) <= Cardinality(Obj)
  BY ObjAssumption, FS_Subset, FS_CardinalityType
<1>2. \A S \in SUBSET Obj : \A o \in S : Cardinality(S \ {o}) = Cardinality(S) - 1
  BY <1>1, FS_RemoveElement
<1>3. \A S, T \in SUBSET Obj : T \subseteq S => Cardinality(T) <= Cardinality(S)
  BY <1>1, FS_Subset
<1> QED
  BY <1>1, <1>2, <1>3, FS_CardinalityType, ObjAssumption

(* One factor grows.                                                        *)
LEMMA ProductsGrow ==
    ASSUME NEW a \in Nat, NEW b \in Nat, NEW c \in Nat, b <= c
    PROVE  a * b \in Nat /\ a * c \in Nat /\ a * b <= a * c
<1>1. PICK d \in Nat : c = b + d
  BY SMT
<1>2. a * c = a * b + a * d /\ a * b \in Nat /\ a * d \in Nat
  BY <1>1, SMT
<1> QED
  BY <1>2, SMT

(* A call of the marker, which may make as many calls as there are objects. *)
LEMMA MarkAdvances ==
    ASSUME TypeOK, TypeOK', NEW o \in Obj, Mark(o)
    PROVE  Work \in Nat /\ Work' < Work /\ Work' # 0
<1> DEFINE all == Cardinality(Obj)
           calls == Cardinality(pending)
           calls2 == Cardinality(pending')
           rest == Cardinality(Obj \ marked)
           rest2 == Cardinality(Obj \ marked')
<1>1. phase = "mark" /\ phase' = "mark" /\ o \in pending
  BY DEF Mark
<1>2. Work = calls + (all + 1) * (rest + 1) + 1 /\ Work' = calls2 + (all + 1) * (rest2 + 1) + 1
  BY <1>1 DEF Work
<1>3. /\ pending \subseteq Obj /\ pending' \subseteq Obj
      /\ marked \subseteq Obj /\ marked' \subseteq Obj
  BY DEF TypeOK
<1>4. all \in Nat /\ calls \in Nat /\ calls2 \in Nat /\ rest \in Nat /\ rest2 \in Nat /\ calls2 <= all
  BY <1>3, Sizes
<1>5. \/ pending' = pending \ {o} /\ marked' = marked
      \/ o \notin marked /\ marked \cup {o} \subseteq marked'
  <2>1. CASE AlreadyMarked(o)
    BY <2>1 DEF Mark
  <2>2. CASE ~AlreadyMarked(o) /\ o \notin marked
    BY <2>2 DEF Mark, MarkedBy
  <2>3. CASE ~AlreadyMarked(o) /\ o \in marked
    <3>1. kind[o] = "string"
      BY <2>3 DEF AlreadyMarked
    <3>2. CallsFrom(o) = {} /\ MarkedBy(o) = {o}
      BY <3>1 DEF CallsFrom, MarkedBy
    <3>3. pending' = (pending \ {o}) \cup CallsFrom(o) /\ marked' = marked \cup MarkedBy(o)
      BY <2>3 DEF Mark
    <3> QED
      BY <2>3, <3>2, <3>3
  <2> QED
    BY <2>1, <2>2, <2>3
<1> HIDE DEF all, calls, calls2, rest, rest2
<1>6. CASE pending' = pending \ {o} /\ marked' = marked
  <2>1. calls2 = calls - 1 /\ rest2 = rest
    BY <1>1, <1>3, <1>6, Sizes DEF calls, calls2, rest, rest2
  <2>2. (all + 1) * (rest + 1) \in Nat
    BY <1>4, ProductsGrow
  <2> QED
    BY <1>2, <1>4, <2>1, <2>2
<1>7. CASE o \notin marked /\ marked \cup {o} \subseteq marked'
  <2>1. rest2 <= rest - 1
    <3>1. /\ Obj \ marked' \subseteq (Obj \ marked) \ {o} /\ o \in Obj \ marked
          /\ (Obj \ marked) \ {o} \in SUBSET Obj /\ Obj \ marked' \in SUBSET Obj
          /\ Obj \ marked \in SUBSET Obj
      BY <1>7
    <3>2. Cardinality((Obj \ marked) \ {o}) = rest - 1
      BY <3>1, Sizes DEF rest
    <3> QED
      BY <3>1, <3>2, Sizes DEF rest2
  <2>2. calls >= 1
    <3>1. Cardinality(pending \ {o}) \in Nat /\ Cardinality(pending \ {o}) = calls - 1
      BY <1>1, <1>3, Sizes DEF calls
    <3> QED
      BY <1>4, <3>1
  <2>3. /\ (all + 1) * (rest2 + 1) \in Nat /\ (all + 1) * rest \in Nat
        /\ (all + 1) * (rest2 + 1) <= (all + 1) * rest
    BY <1>4, <2>1, ProductsGrow
  <2>4. (all + 1) * (rest + 1) = (all + 1) * rest + all + 1
    BY <1>4
  <2> QED
    BY <1>2, <1>4, <2>2, <2>3, <2>4
<1> QED
  BY <1>5, <1>6, <1>7

(* The sweep has less to do than any marking before it.                     *)
LEMMA MarkDoneAdvances ==
    ASSUME TypeOK, MarkDone
    PROVE  Work \in Nat /\ Work' < Work /\ Work' # 0
<1>1. phase = "mark" /\ phase' = "sweep" /\ unswept' = Allocated /\ pending = {}
  BY DEF MarkDone
<1> DEFINE all == Cardinality(Obj)
           calls == Cardinality(pending)
           rest == Cardinality(Obj \ marked)
           found == Cardinality(Allocated)
<1>2. Work = calls + (all + 1) * (rest + 1) + 1 /\ Work' = found + 1
  BY <1>1 DEF Work
<1>3. all \in Nat /\ calls \in Nat /\ rest \in Nat /\ found \in Nat /\ found <= all
  BY <1>1, Sizes DEF TypeOK, Allocated
<1> HIDE DEF all, calls, rest, found
<1>4. /\ (all + 1) * (rest + 1) \in Nat /\ (all + 1) * 1 \in Nat
      /\ (all + 1) * 1 <= (all + 1) * (rest + 1)
  BY <1>3, ProductsGrow
<1> QED
  BY <1>2, <1>3, <1>4

(* The sweeper visits an object only once.                                  *)
LEMMA SweepAdvances ==
    ASSUME TypeOK, NEW o \in Obj, SweepKeep(o) \/ SweepFree(o)
    PROVE  Work \in Nat /\ Work' < Work /\ Work' # 0
<1>1. /\ phase = "sweep" /\ phase' = "sweep"
      /\ o \in unswept /\ unswept' = unswept \ {o} /\ unswept \subseteq Obj
  BY DEF SweepKeep, SweepOver, SweepFree, TypeOK
<1>2. Work = Cardinality(unswept) + 1 /\ Work' = Cardinality(unswept') + 1
  BY <1>1 DEF Work
<1>3. /\ Cardinality(unswept) \in Nat /\ Cardinality(unswept') \in Nat
      /\ Cardinality(unswept') = Cardinality(unswept) - 1
  BY <1>1, Sizes
<1> QED
  BY <1>2, <1>3

(* Every step inside gc_collect leaves less to be done than there was, in a *)
(* well-founded measure, and nothing is left exactly when it returns: no    *)
(* cycle of pointers can keep it busy.                                      *)
THEOREM CollectionsAdvance == Spec => CollectionAdvances
<1>1. ASSUME TypeOK, TypeOK', [Next]_vars
      PROVE  [Collecting => /\ Work \in Nat /\ Work' < Work
                            /\ Work' = 0 <=> ~Collecting']_vars
  <2> SUFFICES ASSUME Next, phase \in {"mark", "sweep"}, ~ UNCHANGED vars
               PROVE  /\ Work \in Nat /\ Work' < Work
                      /\ Work' = 0 <=> phase' \notin {"mark", "sweep"}
    BY <1>1 DEF Collecting
  <2>1. Collect
    <3>1. ~Client
      BY DEF Client, NewData, NewStruct, StructWith, NewFunction, EnvNew, Store, StoreNewField,
             Protect, Pop, EnvFree, FinalCollect
    <3> QED
      BY <3>1 DEF Next, Terminated
  <2>2. CASE \E o \in Obj : Mark(o)
    BY <1>1, <2>2, MarkAdvances DEF Mark
  <2>3. CASE \E o \in Obj : SweepKeep(o) \/ SweepFree(o)
    <3>1. phase' = "sweep"
      BY <2>3 DEF SweepKeep, SweepOver, SweepFree
    <3> QED
      BY <1>1, <2>3, <3>1, SweepAdvances
  <2>4. CASE MarkDone
    BY <1>1, <2>4, MarkDoneAdvances DEF MarkDone
  <2>5. CASE SweepDone
    <3>1. phase = "sweep" /\ unswept = {} /\ phase' \in {"run", "done"}
      BY <2>5 DEF SweepDone, EndSweep
    <3>2. Work = 1 /\ Work' = 0
      BY <3>1, FS_EmptySet DEF Work
    <3> QED
      BY <3>1, <3>2
  <2> QED
    BY <2>1, <2>2, <2>3, <2>4, <2>5 DEF Collect
<1> QED
  BY <1>1, TypeCorrect, PTL DEF Spec, CollectionAdvances
=============================================================================
