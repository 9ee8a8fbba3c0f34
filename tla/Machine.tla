------------------------------- MODULE Machine -------------------------------
(***************************************************************************)
(* What src/interpreter.c runs on: the heap of src/value.c, the scopes of  *)
(* src/env.c, the stack of C activations of eval_expr and exec_stmt, and   *)
(* the globals that carry break, continue and return.                      *)
(*                                                                         *)
(* The program is not fixed: wherever the evaluator meets a syntax node,   *)
(* any node of the chosen constructs may be there.  What is kept of a      *)
(* value is the heap object it holds, if any; what is kept of a scope, a   *)
(* list or a map is the set of objects it holds.  The build is the one     *)
(* with -DGC_TORTURE: every env_free collects, so that an object is freed  *)
(* no later than under any allocation threshold.                           *)
(***************************************************************************)
EXTENDS ObjectGraph, Integers, Sequences, SequencesExt

CONSTANTS
    Obj,          \* addresses the allocator can hand out
    Nil,          \* the null pointer
    Scalar,       \* a value with nothing on the heap
    Junk,         \* a Value that was never written
    Fuel,         \* bound on the syntax nodes of the program
    MaxArity,     \* bound on call arguments and literal elements
    Languages,    \* the program is made of the constructs of one of these
    Prelude       \* kinds of the objects its declarations left in the globals

Syntax == {"string", "undefined", "unary", "binary", "callv", "index", "field", "method",
           "call", "struct", "builtin", "list", "map", "assign", "expression", "if", "while",
           "for", "forin", "break", "continue", "return", "fn", "field_assign",
           "index_assign", "import"}

(* Things programs do that have a switch of their own: a failing operation; *)
(* a name rebound while the function it held is being called; a return from *)
(* inside a for-in loop or outside of every function; a break or continue   *)
(* at the top level of a module, or in the header of a for.                 *)
Switches == {"error", "rebind", "forin_return", "program_return", "module_signal",
             "header_signal"}

ASSUME ObjAssumption == Obj \subseteq Nat /\ IsFiniteSet(Obj) /\ 1 .. 4 \subseteq Obj
ASSUME ValueAssumption == {Nil, Scalar, Junk} \cap Obj = {} /\ Scalar # Junk
ASSUME BoundAssumption == Fuel \in Nat /\ MaxArity \in Nat
ASSUME LanguageAssumption == \A l \in Languages : l \subseteq Syntax \cup Switches
ASSUME PreludeAssumption == Prelude \subseteq {"func", "list", "struct"}

VARIABLES
    heap,        \* the allocated objects: [kind, refs, link] by address
    live,        \* g_live_envs
    protect,     \* g_protect, the newest entry last
    stack,       \* the activations of eval_expr, exec_stmt and their callees
    ctl,         \* what the innermost activation is doing
    signals,     \* g_returning, g_return_val, g_breaking, g_continuing
    loopDepth,   \* g_loop_depth
    hadError,    \* interp->had_error
    modules,     \* interp->module_envs
    fuel,        \* syntax nodes the program may still contain
    constructs   \* what it may contain

memory == <<heap, live, protect>>
control == <<signals, loopDepth, modules>>      \* what no expression changes by itself
vars == <<memory, stack, ctl, control, hadError, fuel, constructs>>

Globals == 1
Values == Obj \cup {Scalar, Junk}

-----------------------------------------------------------------------------
(* The heap.                                                                *)

HandlesOf(v) == {v} \ {Scalar}

Pinned(p) == {p[i] : i \in DOMAIN p}

HandlesIn(p) == Pinned(p) \ {Scalar}

Object(k, contents, l) == [kind |-> k, refs |-> contents, link |-> l]

IsKind(v, kinds) == v \in DOMAIN heap /\ heap[v].kind \in kinds

Fresh == CHOOSE o \in Obj \ DOMAIN heap : \A p \in Obj \ DOMAIN heap : o <= p

(* The heap with a new object in it.                                        *)
HeapWith(object) ==
    [p \in DOMAIN heap \cup {Fresh} |-> IF p = Fresh THEN object ELSE heap[p]]

(* What the collector follows; a value that was never written is a pointer  *)
(* to nothing (see CollectionsReadOnlyValues).                              *)
Pointers ==
    [o \in Obj |-> IF o \in DOMAIN heap THEN (heap[o].refs \cup {heap[o].link}) \cap DOMAIN heap
                   ELSE {}]

(* env_free: the scopes S stop being roots, and everything unreachable goes. *)
DropScopes(S) ==
    /\ live' = live \ S
    /\ LET kept == Trace(Pointers, (live' \cup Pinned(protect)) \cap DOMAIN heap)
       IN  heap' = [o \in kept |-> heap[o]]

(* A scope and the scopes it is nested in.                                  *)
Chain(e) ==
    Trace([o \in Obj |-> IF IsKind(o, {"env"}) THEN {heap[o].link} \cap Obj ELSE {}], {e})

Visible(e) == UNION {heap[s].refs : s \in Chain(e)}

-----------------------------------------------------------------------------
(* The C stack.  A frame is one activation: the point it is at, the scope   *)
(* it works in, what it has pinned, a handle it keeps in a local without a  *)
(* pin, and a number it has put aside.                                      *)

Frame(k, e) == [at |-> k, env |-> e, pinned |-> <<>>, target |-> Nil, n |-> 0]

ArgFrames == {"arg_function", "arg_struct", "arg_method", "arg_builtin"}
LoopFrames == {"while_cond", "while_body", "for_test", "for_cond", "for_body",
               "forin_next", "forin_body"}
BodyFrames == {"activation", "module", "program"}
ScopeFrames == {"activation", "block", "for_init", "for_test", "for_cond", "for_body",
                "forin_next", "forin_body"}
OperandFrames == {"unary", "binary_left", "binary_right", "callee", "callv", "list", "map",
                  "map_key", "map_value", "index_object", "index_key", "field", "receiver",
                  "assign", "expression", "if", "forin_list", "return", "field_object",
                  "field_value", "target_object", "target_key", "target_value"}

Top == stack[Len(stack)]
Below == SubSeq(stack, 1, Len(stack) - 1)
TopAt(k) == [Top EXCEPT !.at = k]

(* The innermost activation is about to evaluate an expression, to execute  *)
(* a statement or a block, or it is back from that.                         *)
AtEval == ctl.mode = "eval"
AtValue(k) == ctl.mode = "value" /\ Top.at = k
AtResume(k) == ctl.mode = "resume" /\ Top.at = k

Evaluate(s, e) == stack' = s /\ ctl' = [mode |-> "eval", env |-> e, val |-> Scalar]
Execute(s, e) == stack' = s /\ ctl' = [mode |-> "exec", env |-> e, val |-> Scalar]
ExecuteBlock(s, e) == stack' = s /\ ctl' = [mode |-> "block", env |-> e, val |-> Scalar]
Yield(s, v) == stack' = s /\ ctl' = [mode |-> "value", env |-> Nil, val |-> v]
Resume(s) == stack' = s /\ ctl' = [mode |-> "resume", env |-> Nil, val |-> Scalar]

PopPins(n) == SubSeq(protect, 1, IF n > Len(protect) THEN 0 ELSE Len(protect) - n)

(* The program contains a node of construct c here.                         *)
Node(c) ==
    /\ c \in constructs
    /\ fuel > 0
    /\ fuel' = fuel - 1

(* runtime_error.                                                           *)
MayFail == "error" \in constructs

FailWith(s) == hadError' = TRUE /\ Yield(s, Scalar)
StopWith(s) == hadError' = TRUE /\ Resume(s)

Unwinding == signals.returning \/ signals.breaking \/ signals.continuing

-----------------------------------------------------------------------------
(* What the switches allow.                                                 *)
Bodies == {i \in DOMAIN stack : stack[i].at \in BodyFrames}
InnermostBody == CHOOSE i \in Bodies : \A j \in Bodies : j <= i

MayBreak ==
    /\ stack[InnermostBody].at = "module" => "module_signal" \in constructs
    /\ "header_signal" \in constructs \/
          \A i \in DOMAIN stack :
              stack[i].at \in {"for_init", "for_test"} =>
                  \E j \in i + 1 .. Len(stack) :
                      stack[j].at \in (LoopFrames \cup BodyFrames) \ {"for_test"}

MayReturn ==
    /\ stack[InnermostBody].at \in {"program", "module"} => "program_return" \in constructs
    /\ "forin_return" \in constructs \/
          \A i \in DOMAIN stack : stack[i].at = "forin_body" => i < InnermostBody

(* The call of a function that nothing pins may lose it (see `rebind').     *)
LosesCallee(c, lost) ==
    /\ IsKind(c, {"env"})
    /\ \E i \in DOMAIN stack : stack[i].at = "arg_function" /\ stack[i].target \in lost

-----------------------------------------------------------------------------
TypeOK ==
    /\ DOMAIN heap \subseteq Obj
    /\ \A o \in DOMAIN heap :
          heap[o] \in [kind : {"string", "list", "map", "struct", "func", "env"},
                       refs : SUBSET (Values \ {Scalar}),
                       link : Obj \cup {Nil}]
    /\ live \subseteq Obj
    /\ protect \in Seq(Values)
    /\ stack \in Seq([at : ArgFrames \cup LoopFrames \cup BodyFrames \cup ScopeFrames
                              \cup OperandFrames,
                      env : Obj, pinned : Seq(Values), target : Obj \cup {Nil}, n : Nat])
    /\ ctl \in [mode : {"eval", "value", "exec", "block", "resume", "done"},
                env : Obj \cup {Nil}, val : Values]
    /\ signals \in [returning : BOOLEAN, value : Values, breaking : BOOLEAN, continuing : BOOLEAN]
    /\ loopDepth \in Nat
    /\ hadError \in BOOLEAN
    /\ modules \subseteq Obj
    /\ fuel \in 0 .. Fuel
    /\ constructs \in Languages

(* The globals after the declarations of the program: at most one function, *)
(* one list and one struct instance.                                        *)
Init ==
    LET address == [func |-> 2, list |-> 3, struct |-> 4]
        declared == {address[k] : k \in Prelude}
    IN  /\ heap = [o \in {Globals} \cup declared |->
                      IF o = Globals THEN Object("env", declared, Nil)
                      ELSE LET k == CHOOSE k \in Prelude : address[k] = o
                           IN  Object(k, {}, IF k = "func" THEN Globals ELSE Nil)]
        /\ live = {Globals}
        /\ protect = <<>>
        /\ stack = <<Frame("program", Globals)>>
        /\ ctl = [mode |-> "resume", env |-> Nil, val |-> Scalar]
        /\ signals = [returning |-> FALSE, value |-> Scalar,
                      breaking |-> FALSE, continuing |-> FALSE]
        /\ loopDepth = 0
        /\ hadError = FALSE
        /\ modules = {}
        /\ fuel = Fuel
        /\ constructs \in Languages
=============================================================================
