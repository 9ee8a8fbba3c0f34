--------------------------- MODULE ReachableHeap ---------------------------
(***************************************************************************)
(* What a garbage collector promises to the interpreter, with no mention   *)
(* of marks, sweeps or thresholds.  The program works on a heap through    *)
(* the handles it can reach from its roots; an object goes away only when  *)
(* the heap is reclaimed, and reclaiming keeps exactly what is reachable.  *)
(***************************************************************************)
EXTENDS ObjectGraph

CONSTANT Obj      \* addresses the allocator can hand out

VARIABLES alloc,   \* objects whose memory is valid
          edges,   \* edges[o]: the objects o points at
          roots    \* the handles the program starts from

vars == <<alloc, edges, roots>>

Reachable == Reach(edges, roots)

Init ==
    /\ alloc = {}
    /\ edges = [o \in Obj |-> {}]
    /\ roots = {}

(* The program allocates some objects, redirects pointers of objects it    *)
(* can reach and changes its roots.  It takes every handle it uses from    *)
(* what it could reach before the step or has just allocated, it frees     *)
(* nothing, and it cannot touch an object it has lost.                     *)
Mutate ==
    /\ alloc \subseteq alloc'
    /\ alloc' \subseteq Obj
    /\ LET known == Reachable \cup (alloc' \ alloc)
       IN  /\ roots' \subseteq known
           /\ edges' \in [Obj -> SUBSET Obj]
           /\ \A o \in Obj :
                 /\ edges'[o] \subseteq edges[o] \cup known
                 /\ o \notin known => edges'[o] = edges[o]

(* Every object that cannot be reached is freed, all at once; no other     *)
(* object is freed or altered.                                             *)
Reclaim ==
    /\ alloc' = Reachable
    /\ edges' = [o \in Obj |-> IF o \in Reachable THEN edges[o] ELSE {}]
    /\ roots' = roots

Next == Mutate \/ Reclaim

Spec == Init /\ [][Next]_vars

(* The promise as an invariant: a handle the program can reach is valid.   *)
NoDangling == Reachable \subseteq alloc
=============================================================================
