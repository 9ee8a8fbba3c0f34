---------------------------- MODULE NestedLoading ----------------------------
(***************************************************************************)
(* What importing promises: a module is loaded at most once, within the    *)
(* loading of the module that asked for it, and can be used only when its  *)
(* loading is over; after a failure nothing is loaded any more.            *)
(***************************************************************************)
EXTENDS Sequences, SequencesExt

CONSTANT Path

VARIABLES
    loading,  \* modules whose loading has begun, each within the one before
    ready,    \* modules that can be used
    failed

vars == <<loading, ready, failed>>

Init == loading = <<>> /\ ready = {} /\ failed = FALSE

Begin ==
    /\ ~failed
    /\ \E p \in Path \ (ready \cup ToSet(loading)) : loading' = Append(loading, p)
    /\ UNCHANGED <<ready, failed>>

Complete ==
    /\ ~failed
    /\ loading # <<>>
    /\ ready' = ready \cup {loading[Len(loading)]}
    /\ loading' = SubSeq(loading, 1, Len(loading) - 1)
    /\ UNCHANGED failed

Fail == ~failed /\ failed' = TRUE /\ UNCHANGED <<loading, ready>>

(* The loading that failed returns to the one around it.                    *)
Abandon ==
    /\ failed
    /\ loading # <<>>
    /\ loading' = SubSeq(loading, 1, Len(loading) - 1)
    /\ UNCHANGED <<ready, failed>>

Next == Begin \/ Complete \/ Fail \/ Abandon

Spec == Init /\ [][Next]_vars
=============================================================================
