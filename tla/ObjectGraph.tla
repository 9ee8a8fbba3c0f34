---------------------------- MODULE ObjectGraph ----------------------------
(***************************************************************************)
(* The heap of the interpreter seen as a directed graph: a node is a heap  *)
(* object, an edge is a pointer the collector would follow.  `edges' is a  *)
(* function from objects to the set of objects they point at.              *)
(***************************************************************************)
EXTENDS FiniteSets, Naturals

(* A set of objects that no pointer leaves. *)
Closed(edges, S) == \A o \in S : edges[o] \subseteq S

(* The objects that can be reached from the set `roots': the smallest     *)
(* closed set that contains them.                                          *)
Reach(edges, roots) ==
    LET closedSets == {S \in SUBSET DOMAIN edges : roots \subseteq S /\ Closed(edges, S)}
    IN  {o \in DOMAIN edges : \A S \in closedSets : o \in S}

Rounds(edges, roots, n) ==
    LET after[i \in 0 .. n] ==
            IF i = 0 THEN roots ELSE UNION {{o} \cup edges[o] : o \in after[i - 1]}
    IN  after[n]

(* The same set computed by following the pointers round after round: no   *)
(* path is longer than the number of objects.                              *)
Trace(edges, roots) == Rounds(edges, roots, Cardinality(DOMAIN edges))
=============================================================================
