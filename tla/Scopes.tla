------------------------------- MODULE Scopes -------------------------------
(***************************************************************************)
(* Variables: the scopes of src/env.c and what the statements, the calls   *)
(* and the imports of src/interpreter.c do with them.  Here a scope is the *)
(* array that env.c searches; the collector that frees scopes is modelled  *)
(* elsewhere, so that a scope is only ever added here.                     *)
(*                                                                         *)
(* The program is not fixed: an activation may do anything that a          *)
(* statement or an expression can do to variables, and the value of an     *)
(* expression is any datum or anything that some variable holds.           *)
(***************************************************************************)
EXTENDS Integers, Sequences, SequencesExt

CONSTANTS
    Name,
    Data,        \* values that refer to no scope
    Null,        \* val_null()
    MaxVars,     \* ENV_MAX_VARS
    MaxParams,   \* bound on the parameters of a function
    MaxScopes,   \* bound on the scopes of a behaviour
    MaxDepth,    \* bound on the nesting of blocks and calls
    Fuel         \* bound on the statements that run

ASSUME DataAssumption == Data \subseteq Nat /\ Null \in Data
ASSUME LimitAssumption ==
    /\ MaxVars \in Nat /\ MaxParams \in Nat /\ MaxScopes \in Nat
    /\ MaxDepth \in Nat /\ Fuel \in Nat

VARIABLES
    scopes,   \* the scopes, in the order of their allocation; 1 is the globals
    stack,    \* the blocks, loops, calls and modules being executed
    files,    \* the scopes that the top levels of programs run in
    failed,   \* interp->had_error
    fuel

vars == <<scopes, stack, files, failed, fuel>>

(* A function refers to the scope it was defined in, a module to its own.   *)
Value == [kind : {"data", "function", "module"}, of : Nat]
Datum(d) == [kind |-> "data", of |-> d]
Function(s) == [kind |-> "function", of |-> s]
Module(s) == [kind |-> "module", of |-> s]

Variable == [name : Name, value : Value]

(* A scope with the array of its variables and the chain of its parents,    *)
(* the scope itself first and the globals last.                             *)
Scope == [vars : Seq(Variable), chain : Seq(Nat)]

(* A frame has the scope its statements run in, the loop variable or the    *)
(* alias of an import, and the scope around the text that it executes.      *)
Frame == [kind : {"program", "block", "forin", "call", "module"}, env : Nat,
          name : Name \cup {""}, home : Nat]

Top == stack[Len(stack)]
Below == SubSeq(stack, 1, Len(stack) - 1)

(* The first of some places.                                                *)
First(places) == CHOOSE i \in places : \A j \in places : i <= j

-----------------------------------------------------------------------------
(* env.c.                                                                   *)

Slots(s, x) == {i \in DOMAIN scopes[s].vars : scopes[s].vars[i].name = x}

(* How far up the chain of a scope the name is found.                       *)
Holders(s, x) == {k \in DOMAIN scopes[s].chain : Slots(scopes[s].chain[k], x) # {}}
Holder(s, x) == scopes[s].chain[First(Holders(s, x))]

IsFull(s) == Len(scopes[s].vars) >= MaxVars

(* env_get.                                                                 *)
Read(s, x) == LET h == Holder(s, x) IN scopes[h].vars[First(Slots(h, x))].value

(* env_define: the 257th variable is dropped, and its callers do not look.  *)
Define(s, x, v) ==
    scopes' = IF IsFull(s)
              THEN scopes
              ELSE [scopes EXCEPT ![s].vars = Append(@, [name |-> x, value |-> v])]

(* Mutant: the search begins at the globals.                                *)
SetOutermost(s, x, v) ==
    LET k == CHOOSE k \in Holders(s, x) : \A j \in Holders(s, x) : j <= k
        h == scopes[s].chain[k]
    IN  scopes' = [scopes EXCEPT ![h].vars[First(Slots(h, x))].value = v]

(* Mutant: the search begins at the newest variable of a scope.             *)
SetNewest(s, x, v) ==
    LET h == Holder(s, x)
        newest == CHOOSE i \in Slots(h, x) : \A j \in Slots(h, x) : j <= i
    IN  scopes' = [scopes EXCEPT ![h].vars[newest].value = v]

(* env_set, when the name is found.                                         *)
Set(s, x, v) ==
    LET h == Holder(s, x)
    IN  scopes' = [scopes EXCEPT ![h].vars[First(Slots(h, x))].value = v]

(* Assignment, and the binding of an alias.                                 *)
SetOrDefine(s, x, v) ==
    \/ Holders(s, x) # {} /\ Set(s, x, v)
    \/ Holders(s, x) = {} /\ Define(s, x, v)

(* Mutant: a scope does not search itself.                                  *)
NewScopeUnlinked(parent, params) ==
    [vars |-> SubSeq(params, 1, IF Len(params) < MaxVars THEN Len(params) ELSE MaxVars),
     chain |-> scopes[parent].chain]

(* A new scope in another one.  The parameters are defined one by one, as   *)
(* long as there is room.                                                   *)
NewScope(parent, params) ==
    [vars |-> SubSeq(params, 1, IF Len(params) < MaxVars THEN Len(params) ELSE MaxVars),
     chain |-> <<Len(scopes) + 1>> \o scopes[parent].chain]

Open(parent, params) ==
    /\ Len(scopes) < MaxScopes
    /\ scopes' = Append(scopes, NewScope(parent, params))

-----------------------------------------------------------------------------
(* The interpreter.                                                         *)

Held == UNION {{scopes[s].vars[i].value : i \in DOMAIN scopes[s].vars} : s \in DOMAIN scopes}
Results == {Datum(d) : d \in Data} \cup Held

(* A statement of the innermost activation.                                 *)
Running == stack # <<>> /\ ~failed
Step == Running /\ fuel > 0 /\ fuel' = fuel - 1

Enter(kind, name, home) ==
    /\ Len(stack) < MaxDepth
    /\ stack' = Append(stack, [kind |-> kind, env |-> Len(scopes) + 1,
                               name |-> name, home |-> home])

(* A statement stores what eval_expr hands over, also after the expression  *)
(* has failed.  That may be null, what a call had stored last, or anything  *)
(* else; nothing reads it any more.  (Fuel bounds these stores, too.)       *)
Stored(v) == stack # <<>> /\ fuel > 0 /\ fuel' = fuel - 1

(* STMT_VAR_DECL.  A value that does not fit its annotation is an error,    *)
(* and is stored nevertheless.                                              *)
Declare(x, v) ==
    /\ Stored(v)
    /\ Define(Top.env, x, v)
    /\ failed' \in {failed, TRUE}
    /\ UNCHANGED <<stack, files>>

(* STMT_ASSIGN.                                                             *)
Assign(x, v) ==
    /\ Stored(v)
    /\ SetOrDefine(Top.env, x, v)
    /\ UNCHANGED <<stack, files, failed>>

(* STMT_ASSIGN with an operator.  The variable is read after the expression *)
(* has been evaluated, when whatever that called is over; an operation that *)
(* fails stores null.                                                       *)
Update(x, v) ==
    /\ Stored(v)
    /\ v.kind = "data"
    /\ \/ /\ Holders(Top.env, x) # {}
          /\ Set(Top.env, x, v)
          /\ failed' \in {failed, v = Datum(Null)}
       \/ /\ Holders(Top.env, x) = {}
          /\ failed' = TRUE
          /\ UNCHANGED scopes
    /\ UNCHANGED <<stack, files>>

(* STMT_FN_DEF.                                                             *)
DefineFunction(x) ==
    /\ Step
    /\ Define(Top.env, x, Function(Top.env))
    /\ UNCHANGED <<stack, files, failed>>

(* STMT_BLOCK; a for loop has such a scope, too, around its initializer.    *)
EnterBlock ==
    /\ Step
    /\ Open(Top.env, <<>>)
    /\ Enter("block", "", Top.home)
    /\ UNCHANGED <<files, failed>>

(* STMT_FOR_IN: the scope of the loop defines the variable, each round sets *)
(* it; the body is a block.                                                 *)
EnterForIn(x) ==
    /\ Step
    /\ Open(Top.env, <<[name |-> x, value |-> Datum(Null)]>>)
    /\ Enter("forin", x, Top.home)
    /\ UNCHANGED <<files, failed>>

NextRound(v) ==
    /\ Step
    /\ Top.kind = "forin"
    /\ SetOrDefine(Top.env, Top.name, v)
    /\ UNCHANGED <<stack, files, failed>>

(* The parameters of a call, with the values of the arguments.              *)
Parameters == SeqOf([name : Name, value : Results], MaxParams)

(* Mutant: the scope of the call is made in that of the caller.             *)
CallFromHere(f, params) ==
    /\ Step
    /\ Open(Top.env, params)
    /\ Enter("call", "", f.of)
    /\ UNCHANGED <<files, failed>>

(* call_function.                                                           *)
Call(f, params) ==
    /\ Step
    /\ Open(f.of, params)
    /\ Enter("call", "", f.of)
    /\ UNCHANGED <<files, failed>>

(* EXPR_METHOD on a struct.  The method was written in the file that        *)
(* declares its type, at its top level.                                     *)
CallMethod(file, params) ==
    /\ Step
    /\ Open(1, params)
    /\ Enter("call", "", file)
    /\ UNCHANGED <<files, failed>>

(* STMT_IMPORT of a module that is not loaded yet, and of one that is.      *)
EnterModule(alias) ==
    /\ Step
    /\ Open(1, <<>>)
    /\ Enter("module", alias, Len(scopes) + 1)
    /\ files' = files \cup {Len(scopes) + 1}
    /\ UNCHANGED failed

ImportAgain(alias, m) ==
    /\ Step
    /\ m \in files \ ({1} \cup {stack[k].env : k \in DOMAIN stack})
    /\ SetOrDefine(Top.env, alias, Module(m))
    /\ UNCHANGED <<stack, files, failed>>

(* An activation ends: env_free takes its scope from the roots, and leaves  *)
(* the variables to the functions that see them.                            *)
Leave ==
    /\ stack # <<>> /\ (Top.kind = "module" => failed)
    /\ stack' = Below
    /\ UNCHANGED <<scopes, files, failed, fuel>>

(* The end of a module: the importer binds its alias.                       *)
FinishModule ==
    /\ Running /\ Top.kind = "module"
    /\ stack' = Below
    /\ SetOrDefine(Below[Len(Below)].env, Top.name, Module(Top.env))
    /\ UNCHANGED <<files, failed, fuel>>

Fail ==
    /\ Step
    /\ failed' = TRUE
    /\ UNCHANGED <<scopes, stack, files>>

Terminated == stack = <<>> /\ UNCHANGED vars

-----------------------------------------------------------------------------
Init ==
    /\ scopes = <<[vars |-> <<>>, chain |-> <<1>>]>>
    /\ stack = <<[kind |-> "program", env |-> 1, name |-> "", home |-> 1]>>
    /\ files = {1}
    /\ failed = FALSE
    /\ fuel = Fuel

Write ==
    \E x \in Name :
        \/ \E v \in Results : Declare(x, v) \/ Assign(x, v) \/ Update(x, v)
        \/ DefineFunction(x)
        \/ \E m \in files : ImportAgain(x, m)

Begin ==
    \/ EnterBlock
    \/ \E x \in Name : EnterForIn(x) \/ EnterModule(x)
    \/ \E params \in Parameters :
          \/ \E f \in {v \in Held : v.kind = "function"} : Call(f, params)
          \/ \E file \in files : CallMethod(file, params)

Next ==
    \/ Write
    \/ \E v \in Results : NextRound(v)
    \/ Begin
    \/ Leave \/ FinishModule \/ Fail
    \/ Terminated

Spec == Init /\ [][Next]_vars
-----------------------------------------------------------------------------
TypeOK ==
    /\ scopes \in Seq(Scope) /\ scopes # <<>>
    /\ stack \in Seq(Frame)
    /\ \A k \in DOMAIN stack : {stack[k].env, stack[k].home} \subseteq DOMAIN scopes
    /\ 1 \in files /\ files \subseteq DOMAIN scopes
    /\ failed \in BOOLEAN
    /\ fuel \in Nat

(* A scope lies in scopes that were there before it, all chains end in the  *)
(* globals, and a value refers to a scope that exists: the searches of      *)
(* env.c end.                                                               *)
ChainsAreOlder ==
    \A s \in DOMAIN scopes :
        LET c == scopes[s].chain
        IN  /\ c # <<>> /\ c[1] = s /\ c[Len(c)] = 1
            /\ \A k \in 1 .. Len(c) - 1 : c[k + 1] \in 1 .. c[k] - 1
            /\ \A i \in DOMAIN scopes[s].vars :
                  LET v == scopes[s].vars[i].value
                  IN  v.kind = "data" \/ v.of \in DOMAIN scopes

(* The activations that execute the text the innermost one is in.           *)
InThisText ==
    {k \in DOMAIN stack :
        \A j \in k + 1 .. Len(stack) : stack[j].kind \notin {"call", "module"}}

(* The variables that a text can name: those of the blocks around it, and   *)
(* of the scopes around the function it belongs to.                         *)
LexicallyVisible ==
    {stack[k].env : k \in InThisText} \cup ToSet(scopes[Top.home].chain)

(* "Lexical scoping": a step changes no variable that its text cannot name; *)
(* in particular a callee changes none of its caller.  The end of a module  *)
(* is a step of the importer.                                               *)
WritesAreLexical ==
    [][\A s \in DOMAIN scopes :
          scopes'[s] # scopes[s] =>
              s \in LexicallyVisible \/ (FinishModule /\ s \in LexicallyVisible')]_vars

(* What was assigned is read back, also where the name has been declared    *)
(* twice; unless the scope has its 256 variables.                           *)
AssignmentsAreReadBack ==
    [][\A x \in Name, v \in Results :
          Assign(x, v) /\ (Holders(Top.env, x) # {} \/ ~IsFull(Top.env))
              => Read(Top.env, x)' = v]_vars

(* A body sees the scope it was defined in (README: "function bodies run in *)
(* a scope whose parent is the scope where the function was defined").      *)
BodiesSeeTheirDefinition ==
    \A k \in DOMAIN stack : stack[k].home \in ToSet(scopes[stack[k].env].chain)

(* An array of variables is a function, as Bindings says.                   *)
Unbound == [kind |-> "unbound", of |-> 0]

Promise == INSTANCE Bindings WITH
    chain <- [s \in DOMAIN scopes |-> scopes[s].chain],
    binding <- [s \in DOMAIN scopes |->
                  [x \in Name |->
                     IF Slots(s, x) = {} THEN Unbound
                     ELSE scopes[s].vars[First(Slots(s, x))].value]],
    active <- [k \in DOMAIN stack |-> stack[k].env]

ImplementsBindings == Promise!Spec
=============================================================================
