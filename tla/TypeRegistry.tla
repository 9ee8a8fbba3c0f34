---------------------------- MODULE TypeRegistry ----------------------------
(***************************************************************************)
(* The registry of struct and interface types of src/interpreter.c, shared *)
(* by the program and all of its modules, and what interpreter_prepare     *)
(* does to it with one declaration.  Loader says when.                     *)
(*                                                                         *)
(* A declaration is a record [kind, name, iface, methods]: the struct or   *)
(* interface it is about, the interface of an implement block, and the     *)
(* names of its methods or signatures in the order they are written.       *)
(* Fields, parameters and bodies are left out: nothing here looks at them. *)
(***************************************************************************)
EXTENDS Integers, Sequences, SequencesExt

CONSTANTS
    MaxStructs,     \* MAX_STRUCT_TYPES
    MaxInterfaces,  \* MAX_INTERFACES
    MaxMethods,     \* MAX_METHODS
    MaxImplIfaces   \* MAX_IMPL_IFACES

ASSUME LimitAssumption ==
    /\ MaxStructs \in Nat /\ MaxInterfaces \in Nat
    /\ MaxMethods \in Nat /\ MaxImplIfaces \in Nat

VARIABLES
    structs,     \* interp->structs, in the order of registration
    interfaces,  \* interp->interfaces
    error        \* what was reported; had_error is error # "none"

registry == <<structs, interfaces>>

LoadErrors == {"duplicate struct", "too many structs", "duplicate interface",
               "too many interfaces", "impl of undefined struct", "duplicate impl",
               "implement of undefined interface", "implement for undefined struct",
               "already implements", "implements too many", "duplicate method",
               "too many methods", "does not conform"}

StructType == [name : STRING, methods : Seq(STRING), hasImpl : BOOLEAN, ifaces : Seq(STRING)]
InterfaceType == [name : STRING, sigs : Seq(STRING)]

NewStruct(n) == [name |-> n, methods |-> <<>>, hasImpl |-> FALSE, ifaces |-> <<>>]

(* A linear search by name: the first entry, if there is one.               *)
Entries(table, n) == {i \in DOMAIN table : table[i].name = n}
Known(table, n) == Entries(table, n) # {}
Find(table, n) == CHOOSE i \in Entries(table, n) : \A j \in Entries(table, n) : i <= j

hadError == error # "none"

(* load_error and runtime_error.                                            *)
Refuse(message) == error' = message /\ UNCHANGED registry

-----------------------------------------------------------------------------
(* Pass 1.                                                                  *)

RegisterStruct(s) ==
    \/ /\ Known(structs, s.name)
       /\ Refuse("duplicate struct")
    \/ /\ ~Known(structs, s.name) /\ Len(structs) >= MaxStructs
       /\ Refuse("too many structs")
    \/ /\ ~Known(structs, s.name) /\ Len(structs) < MaxStructs
       /\ structs' = Append(structs, NewStruct(s.name))
       /\ UNCHANGED <<interfaces, error>>

RegisterInterface(s) ==
    \/ /\ Known(interfaces, s.name)
       /\ Refuse("duplicate interface")
    \/ /\ ~Known(interfaces, s.name) /\ Len(interfaces) >= MaxInterfaces
       /\ Refuse("too many interfaces")
    \/ /\ ~Known(interfaces, s.name) /\ Len(interfaces) < MaxInterfaces
       /\ interfaces' = Append(interfaces, [name |-> s.name, sigs |-> s.methods])
       /\ UNCHANGED <<structs, error>>

-----------------------------------------------------------------------------
(* Pass 2: a block is opened, its methods are added one by one, and an      *)
(* implement block is compared with its interface at the end.               *)

OpenImpl(s) ==
    LET i == Find(structs, s.name)
    IN  \/ /\ ~Known(structs, s.name)
           /\ Refuse("impl of undefined struct")
        \/ /\ Known(structs, s.name) /\ structs[i].hasImpl
           /\ Refuse("duplicate impl")
        \/ /\ Known(structs, s.name) /\ ~structs[i].hasImpl
           /\ structs' = [structs EXCEPT ![i].hasImpl = TRUE]
           /\ UNCHANGED <<interfaces, error>>

OpenImplement(s) ==
    LET i == Find(structs, s.name)
        done == Contains(structs[i].ifaces, s.iface)
        full == Len(structs[i].ifaces) >= MaxImplIfaces
    IN  \/ /\ ~Known(interfaces, s.iface)
           /\ Refuse("implement of undefined interface")
        \/ /\ Known(interfaces, s.iface) /\ ~Known(structs, s.name)
           /\ Refuse("implement for undefined struct")
        \/ /\ Known(interfaces, s.iface) /\ Known(structs, s.name) /\ done
           /\ Refuse("already implements")
        \/ /\ Known(interfaces, s.iface) /\ Known(structs, s.name) /\ ~done /\ full
           /\ Refuse("implements too many")
        \/ /\ Known(interfaces, s.iface) /\ Known(structs, s.name) /\ ~done /\ ~full
           /\ structs' = [structs EXCEPT ![i].ifaces = Append(@, s.iface)]
           /\ UNCHANGED <<interfaces, error>>

(* Mutant: type_add_method does not look for a method of that name.         *)
AddMethodUnchecked(s, m) ==
    LET i == Find(structs, s.name)
    IN  \/ /\ Len(structs[i].methods) >= MaxMethods
           /\ Refuse("too many methods")
        \/ /\ Len(structs[i].methods) < MaxMethods
           /\ structs' = [structs EXCEPT ![i].methods = Append(@, m)]
           /\ UNCHANGED <<interfaces, error>>

(* type_add_method.                                                         *)
AddMethod(s, m) ==
    LET i == Find(structs, s.name)
    IN  \/ /\ Contains(structs[i].methods, m)
           /\ Refuse("duplicate method")
        \/ /\ ~Contains(structs[i].methods, m) /\ Len(structs[i].methods) >= MaxMethods
           /\ Refuse("too many methods")
        \/ /\ ~Contains(structs[i].methods, m) /\ Len(structs[i].methods) < MaxMethods
           /\ structs' = [structs EXCEPT ![i].methods = Append(@, m)]
           /\ UNCHANGED <<interfaces, error>>

(* Mutant: the two sides of the comparison are swapped.                     *)
ConformsBackwards(s) ==
    s.kind = "implement" =>
        ToSet(s.methods) \subseteq ToSet(interfaces[Find(interfaces, s.iface)].sigs)

(* The methods must be in this very block: one in the impl block, or in a   *)
(* block of another interface, does not count.                              *)
Conforms(s) ==
    s.kind = "implement" =>
        ToSet(interfaces[Find(interfaces, s.iface)].sigs) \subseteq ToSet(s.methods)

CloseBlock(s) ==
    \/ /\ ~Conforms(s)
       /\ Refuse("does not conform")
    \/ /\ Conforms(s)
       /\ UNCHANGED <<registry, error>>
=============================================================================
