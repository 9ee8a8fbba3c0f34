------------------------------ MODULE Bindings ------------------------------
(***************************************************************************)
(* What scopes promise: each binds a name to one value or not at all; a    *)
(* statement gives a value to a name in the scope it runs in, or to the    *)
(* innermost binding of the name that is visible from there; and no        *)
(* binding ever goes away.                                                 *)
(***************************************************************************)
EXTENDS Integers, Sequences

CONSTANTS
    Name,
    Value,
    Unbound

VARIABLES
    chain,    \* for each scope, the scopes visible from it, itself first
    binding,  \* for each scope, what it binds each name to
    active    \* the scopes that statements run in, the innermost one last

vars == <<chain, binding, active>>

First(places) == CHOOSE k \in places : \A j \in places : k <= j

Binders(s, x) == {k \in DOMAIN chain[s] : binding[chain[s][k]][x] # Unbound}
Binder(s, x) == chain[s][First(Binders(s, x))]

Here == active[Len(active)]
Outer == SubSeq(active, 1, Len(active) - 1)

Init ==
    /\ chain = << <<1>> >>
    /\ binding = <<[x \in Name |-> Unbound]>>
    /\ active = <<1>>

(* A scope is opened in another one, with its parameters if it has any.     *)
Enter ==
    /\ active # <<>>
    /\ \E s \in DOMAIN chain : chain' = Append(chain, <<Len(chain) + 1>> \o chain[s])
    /\ \E b \in {binding'[Len(chain) + 1]} :
          /\ b \in [Name -> Value \cup {Unbound}]
          /\ binding' = Append(binding, b)
    /\ active' = Append(active, Len(chain) + 1)

Leave ==
    /\ active # <<>>
    /\ active' = Outer
    /\ UNCHANGED <<chain, binding>>

(* The name gets a value in this scope, whatever the value is.              *)
Bind(s, x) ==
    /\ binding'[s][x] \in Value
    /\ binding' = [binding EXCEPT ![s][x] = binding'[s][x]]
    /\ UNCHANGED chain

Assign(s, x) ==
    \/ Binders(s, x) # {} /\ Bind(Binder(s, x), x)
    \/ Binders(s, x) = {} /\ Bind(s, x)

Declare ==
    /\ active # <<>>
    /\ \E x \in Name : binding[Here][x] = Unbound /\ Bind(Here, x)
    /\ UNCHANGED active

AssignHere ==
    /\ active # <<>>
    /\ \E x \in Name : Assign(Here, x)
    /\ UNCHANGED active

(* What was entered last ends with an assignment by the one around it.      *)
LeaveAndAssign ==
    /\ Len(active) > 1
    /\ \E x \in Name : Assign(Outer[Len(Outer)], x)
    /\ active' = Outer

Next == Enter \/ Leave \/ Declare \/ AssignHere \/ LeaveAndAssign

Spec == Init /\ [][Next]_vars
=============================================================================
