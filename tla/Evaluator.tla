------------------------------ MODULE Evaluator ------------------------------
(***************************************************************************)
(* The interpreter of src/interpreter.c from interpreter_run to            *)
(* interpreter_free: the statements of a program, the modules they import, *)
(* and the final collection, with what must hold of the evaluator.         *)
(***************************************************************************)
EXTENDS Statements

(* STMT_IMPORT binds the scope of the module to an alias, a new name or one *)
(* that a variable in scope has.                                            *)
Bind(menv, e) ==
    \E s \in Chain(e) : \E lost \in {{}} \cup {{o} : o \in heap[s].refs} :
        /\ "rebind" \notin constructs => ~LosesCallee(s, lost)
        /\ heap' = [heap EXCEPT ![s].refs = (@ \ lost) \cup {menv}]

ImportInto(newScopes) ==
    /\ Executing
    /\ Node("import")
    /\ \/ /\ \E menv \in modules : Bind(menv, ctl.env)
          /\ Resume(stack)
          /\ UNCHANGED <<live, hadError>>
       \/ /\ heap' = HeapWith(Object("env", {}, Globals))
          /\ live' = live \cup newScopes
          /\ Resume(Append(stack, ArgFrame("module", ctl.env, Fresh)))
          /\ UNCHANGED hadError
       \/ /\ MayFail
          /\ StopWith(stack)
          /\ UNCHANGED <<heap, live>>
    /\ UNCHANGED <<protect, control>>

(* Mutant: the scope of a module that is being loaded is not a root.        *)
ImportUnregistered == ImportInto({})

(* A module is found in the cache, or loaded on its first import; or the    *)
(* import fails: it is circular, one too many, unreadable or ill-formed.    *)
Import == ImportInto({Fresh})

(* The statements of a module run in its own scope, those of the program in *)
(* the globals.  Neither loop looks at the signals.                         *)
NextTopLevelStatement ==
    /\ AtResume("module") \/ AtResume("program")
    /\ ~hadError
    /\ fuel > 0
    /\ Execute(stack, IF Top.at = "module" THEN Top.target ELSE Top.env)
    /\ UNCHANGED <<memory, control, hadError, fuel>>

(* load_module gives up on an error and leaves the new scope registered.    *)
ModuleFailed ==
    /\ AtResume("module")
    /\ hadError
    /\ Resume(Below)
    /\ UNCHANGED <<memory, control, hadError, fuel>>

CacheAndBind(cached) ==
    /\ AtResume("module")
    /\ ~hadError
    /\ modules' = modules \cup cached
    /\ Bind(Top.target, Top.env)
    /\ Resume(Below)
    /\ UNCHANGED <<live, protect, signals, loopDepth, hadError, fuel>>

(* Mutant: the module is not entered into the cache.                        *)
ModuleNotCached == CacheAndBind({})

ModuleLoaded == CacheAndBind({Top.target})

DropAndCollect(scopes) ==
    /\ AtResume("program")
    /\ DropScopes(scopes)
    /\ stack' = <<>>
    /\ ctl' = [ctl EXCEPT !.mode = "done"]
    /\ UNCHANGED <<protect, control, hadError, fuel>>

(* Mutant: the scopes of the modules stay registered.                       *)
FinishKeepsModules == DropAndCollect({Globals})

(* interpreter_free: every module, the globals, and a last collection.      *)
Finish == DropAndCollect(modules \cup {Globals})

Program == Import \/ NextTopLevelStatement \/ ModuleFailed \/ ModuleLoaded \/ Finish

Terminated == ctl.mode = "done" /\ UNCHANGED vars

Step == (Expression \/ Statement \/ Program) /\ UNCHANGED constructs

Next == Step \/ Terminated

Spec == Init /\ [][Next]_vars

(* The evaluator is one thread that never waits.                            *)
FairSpec == Spec /\ WF_vars(Step)

-----------------------------------------------------------------------------
(* What a C local or a root still refers to, to be read later.              *)
Needed ==
    live \cup Pinned(protect) \cup {ctl.env, ctl.val}
         \cup (IF signals.returning THEN {signals.value} ELSE {})
         \cup UNION {{stack[i].env, stack[i].target} \cup Pinned(stack[i].pinned) : i \in DOMAIN stack}

(* No collection frees an object the evaluator is going to use: an operand, *)
(* an argument, a callee, a receiver, a half-built container, a scope or a  *)
(* return value on its way out, however deep the collection happens in the  *)
(* evaluation of the rest.                                                  *)
NoUseAfterFree ==
    /\ Needed \cap Obj \subseteq DOMAIN heap
    /\ \A o \in DOMAIN heap : (heap[o].refs \cup {heap[o].link}) \cap Obj \subseteq DOMAIN heap

(* "Always balance them": at every moment the protect stack holds exactly   *)
(* what the C activations have pinned, in their order, with a return value  *)
(* that is unwinding on top.                                                *)
PinsMatchActivations ==
    protect = FlattenSeq([i \in DOMAIN stack |-> stack[i].pinned])
                \o (IF signals.returning THEN <<signals.value>> ELSE <<>>)

(* The same for the height of the stack alone, which even a program that    *)
(* returns out of a for-in loop keeps.                                      *)
PinsAreBalanced ==
    Len(protect) = Len(FlattenSeq([i \in DOMAIN stack |-> stack[i].pinned]))
                     + (IF signals.returning THEN 1 ELSE 0)

(* g_loop_depth counts the loops that are running in the current function   *)
(* activation and no others, through calls, errors and early exits.         *)
LoopDepthIsExact ==
    ctl.mode # "done" =>
        LET activations == {i \in DOMAIN stack : stack[i].at \in {"activation", "program"}}
        IN  loopDepth = Cardinality({i \in DOMAIN stack : /\ stack[i].at \in LoopFrames
                                                          /\ \A j \in activations : j < i})

(* At most one signal is up, and a break or continue is only up while a     *)
(* loop of the current activation is there to consume it.                   *)
SignalsHaveAReceiver ==
    /\ \A f, g \in {"returning", "breaking", "continuing"} : signals[f] /\ signals[g] => f = g
    /\ signals.breaking \/ signals.continuing => loopDepth > 0

(* "break" and "continue" "only affect the innermost loop; using them      *)
(* outside a loop is a runtime error": the loop is in the body of the       *)
(* function, module or program that contains the statement.                 *)
BreakStaysInItsBody ==
    signals.breaking \/ signals.continuing =>
        \E i \in DOMAIN stack :
            /\ stack[i].at \in LoopFrames
            /\ \A j \in DOMAIN stack : stack[j].at \in BodyFrames => j < i

(* The live-scope registry holds the scopes of the activations on the       *)
(* stack, the globals and the loaded modules: none is dropped while in use, *)
(* and none is left behind by a return, a break or an error, but for the    *)
(* scope of a module that failed.                                           *)
ScopesInUse ==
    (IF ctl.mode = "done" THEN {} ELSE modules \cup {Globals})
        \cup {stack[i].env : i \in {j \in DOMAIN stack : stack[j].at \in ScopeFrames}}
        \cup {stack[i].target : i \in {j \in DOMAIN stack : stack[j].at = "module"}}

LiveScopesMatchActivations ==
    /\ ScopesInUse \subseteq live
    /\ \A o \in live \ ScopesInUse :
          hadError /\ "import" \in constructs /\ IsKind(o, {"env"}) /\ heap[o].link = Globals

(* "the final sweep reclaims all environments, closures, and other          *)
(* objects", unless the program was stopped by an error or by a return      *)
(* outside of every function.                                               *)
FinalSweepReclaimsAll ==
    ctl.mode = "done" /\ ~hadError /\ ~signals.returning => DOMAIN heap = {}

(* "Reading the wrong member is undefined behavior in C - always check type *)
(* first": every value a collection looks at, in the protect stack or in an *)
(* object it keeps, was written before.                                     *)
CollectionsReadOnlyValues ==
    [][live' # live /\ live' \subseteq live
         => /\ Junk \notin Pinned(protect)
            /\ \A o \in DOMAIN heap' : Junk \notin heap'[o].refs]_vars

(* Between a return and its call site nothing of the program runs.          *)
NothingRunsDuringReturn == [][signals.returning /\ signals'.returning => fuel' = fuel]_vars

(* A return inside a function reaches the call that is waiting for it,      *)
(* through every loop and block in between.                                 *)
ReturnIsReceived ==
    (signals.returning /\ \E i \in DOMAIN stack : stack[i].at = "activation")
        ~> ~signals.returning

(* The statement that runs is inside of a function.                         *)
InFunction == stack # <<>> /\ stack[InnermostBody].at = "activation"

(* How many steps a return is away from its call at most: two for each      *)
(* activation in between, and one if a statement is about to be skipped.    *)
Way ==
    2 * Len(stack) + (IF Top.at = "for_init" THEN 1 ELSE 0)
                   + (IF ctl.mode = "resume" THEN 0 ELSE 1)

(* Every step of a return inside a function brings it nearer to the call    *)
(* that is waiting for it, the innermost one, which receives it: it neither *)
(* goes round in a loop or block nor passes a call by.                      *)
ReturnAdvances ==
    [][signals.returning /\ InFunction =>
          \/ ~signals'.returning /\ Len(stack') = InnermostBody - 1
          \/ /\ signals' = signals /\ InFunction' /\ InnermostBody' = InnermostBody
             /\ Way \in Nat /\ Way' < Way]_vars
=============================================================================
