----------------------------- MODULE Expressions -----------------------------
(***************************************************************************)
(* eval_expr of src/interpreter.c and what it calls: bind_args,            *)
(* call_function, construct_struct, call_builtin and eval_binary_op.  A    *)
(* node is entered with an AtEval step; the steps after it are what the    *)
(* activation does each time a subexpression hands it a value.             *)
(***************************************************************************)
EXTENDS Machine

(* The leaves: null at once after an error; a number, a boolean or null; a  *)
(* string literal; a variable.  When env_get fails the local that it should *)
(* fill stays as it was.                                                    *)
Leaf ==
    /\ AtEval
    /\ \/ Yield(stack, Scalar) /\ UNCHANGED <<heap, hadError>>
       \/ /\ ~hadError
          /\ \/ /\ "string" \in constructs
                /\ heap' = HeapWith(Object("string", {}, Nil))
                /\ Yield(stack, Fresh)
                /\ UNCHANGED hadError
             \/ /\ \E v \in Visible(ctl.env) : Yield(stack, v)
                /\ UNCHANGED <<heap, hadError>>
             \/ /\ "undefined" \in constructs
                /\ hadError' = TRUE
                /\ \E v \in {Scalar, Junk} : Yield(stack, v)
                /\ UNCHANGED heap
    /\ UNCHANGED <<live, protect, control, fuel>>

Evaluating == AtEval /\ ~hadError

(* The nodes that start by evaluating an operand.                           *)
BeginOperand ==
    /\ Evaluating
    /\ \E node \in {<<"unary", "unary">>, <<"binary", "binary_left">>, <<"callv", "callee">>,
                    <<"index", "index_object">>, <<"field", "field">>, <<"method", "receiver">>} :
          /\ Node(node[1])
          /\ Evaluate(Append(stack, Frame(node[2], ctl.env)), ctl.env)
    /\ UNCHANGED <<memory, control, hadError>>

Unary ==
    /\ AtValue("unary")
    /\ \/ Yield(Below, Scalar) /\ UNCHANGED hadError
       \/ MayFail /\ FailWith(Below)
    /\ UNCHANGED <<memory, control, fuel>>

(* The value is pinned while the activation, now f, evaluates the next one. *)
PinAndEvaluate(f) ==
    /\ protect' = Append(protect, ctl.val)
    /\ Evaluate(Append(Below, [f EXCEPT !.pinned = Append(@, ctl.val)]), f.env)
    /\ UNCHANGED <<heap, live, control, hadError, fuel>>

(* The first operand of a binary operator and of an index expression, a map *)
(* key, and the object and the index of an assignment.                      *)
NextOperand ==
    \E step \in {<<"binary_left", "binary_right">>, <<"index_object", "index_key">>,
                 <<"map_key", "map_value">>, <<"target_object", "target_key">>,
                 <<"target_key", "target_value">>} :
        AtValue(step[1]) /\ PinAndEvaluate(TopAt(step[2]))

(* What an operator computes: a scalar, or a new string from two strings.   *)
Computable(u, v) ==
    {"scalar"} \cup (IF IsKind(u, {"string"}) /\ IsKind(v, {"string"}) THEN {"string"} ELSE {})

(* eval_binary_op reads both operands, the left one no longer pinned.       *)
Binary ==
    /\ AtValue("binary_right")
    /\ protect' = PopPins(1)
    /\ \/ Yield(Below, Scalar) /\ UNCHANGED <<heap, hadError>>
       \/ /\ "string" \in Computable(Top.pinned[1], ctl.val)
          /\ heap' = HeapWith(Object("string", {}, Nil))
          /\ Yield(Below, Fresh)
          /\ UNCHANGED hadError
       \/ MayFail /\ FailWith(Below) /\ UNCHANGED heap
    /\ UNCHANGED <<live, control, fuel>>

-----------------------------------------------------------------------------
(* Calls.  An argument frame is bind_args, or the loop over the arguments   *)
(* of a built-in; the first pin of a method call is the receiver.           *)

ArgFrame(k, e, f) == [Frame(k, e) EXCEPT !.target = f]

(* A call by name: a struct type, a function that a variable in scope       *)
(* holds, or a built-in.  The function is not pinned.                       *)
BeginCall ==
    /\ Evaluating
    /\ \/ /\ Node("call")
          /\ \E f \in Visible(ctl.env) :
                /\ IsKind(f, {"func"})
                /\ Resume(Append(stack, ArgFrame("arg_function", ctl.env, f)))
       \/ Node("struct") /\ Resume(Append(stack, Frame("arg_struct", ctl.env)))
       \/ Node("builtin") /\ Resume(Append(stack, Frame("arg_builtin", ctl.env)))
    /\ UNCHANGED <<memory, control, hadError>>

ApplyCallee(pins) ==
    /\ AtValue("callee")
    /\ IF IsKind(ctl.val, {"func"})
       THEN /\ protect' = protect \o pins
            /\ Resume(Below \o <<[TopAt("callv") EXCEPT !.pinned = <<ctl.val>>],
                                 ArgFrame("arg_function", Top.env, ctl.val)>>)
            /\ UNCHANGED hadError
       ELSE FailWith(Below) /\ UNCHANGED protect
    /\ UNCHANGED <<heap, live, control, fuel>>

(* Mutant: the callee is left unpinned.                                     *)
CalleeUnpinned == ApplyCallee(<<>>)

(* A call of what an expression evaluates to: it stays pinned until the     *)
(* call is over.                                                            *)
Callee == ApplyCallee(<<ctl.val>>)

CalleeReturned ==
    /\ AtValue("callv")
    /\ protect' = PopPins(1)
    /\ Yield(Below, ctl.val)
    /\ UNCHANGED <<heap, live, control, hadError, fuel>>

(* A call on a value: a function or a struct type of a module, or a method  *)
(* of a struct instance, which is pinned while the arguments are evaluated. *)
Receiver ==
    /\ AtValue("receiver")
    /\ LET members == IF IsKind(ctl.val, {"env"})
                      THEN {f \in heap[ctl.val].refs : IsKind(f, {"func"})} ELSE {}
       IN  \/ /\ \/ \E f \in members : Resume(Append(Below, ArgFrame("arg_function", Top.env, f)))
                 \/ /\ "struct" \in constructs
                    /\ IsKind(ctl.val, {"env"})
                    /\ Resume(Append(Below, Frame("arg_struct", Top.env)))
              /\ UNCHANGED <<protect, hadError>>
           \/ /\ IsKind(ctl.val, {"struct"})
              /\ protect' = Append(protect, ctl.val)
              /\ Resume(Append(Below, [Frame("arg_method", Top.env) EXCEPT !.pinned = <<ctl.val>>]))
              /\ UNCHANGED hadError
           \/ /\ MayFail \/ (members = {} /\ ~IsKind(ctl.val, {"struct"}))
              /\ FailWith(Below)
              /\ UNCHANGED protect
    /\ UNCHANGED <<heap, live, control, fuel>>

AtArguments == ctl.mode = "resume" /\ Top.at \in ArgFrames

NextArgument ==
    /\ AtArguments
    /\ Len(Top.pinned) < MaxArity + (IF Top.at = "arg_method" THEN 1 ELSE 0)
    /\ Evaluate(stack, Top.env)
    /\ UNCHANGED <<memory, control, hadError, fuel>>

Argument ==
    /\ ctl.mode = "value" /\ Top.at \in ArgFrames
    /\ protect' = Append(protect, ctl.val)
    /\ Resume(Append(Below, [Top EXCEPT !.pinned = Append(@, ctl.val)]))
    /\ UNCHANGED <<heap, live, control, hadError, fuel>>

(* Too many arguments, an unknown name, one given twice, a named argument   *)
(* of a built-in, or a built-in that rejects what it got.                   *)
BadArguments ==
    /\ AtArguments
    /\ MayFail
    /\ protect' = PopPins(Len(Top.pinned))
    /\ FailWith(Below)
    /\ UNCHANGED <<heap, live, control, fuel>>

ConstructStruct ==
    /\ AtResume("arg_struct")
    /\ protect' = PopPins(Len(Top.pinned))
    /\ heap' = HeapWith(Object("struct", HandlesIn(Top.pinned), Nil))
    /\ Yield(Below, Fresh)
    /\ UNCHANGED <<live, control, hadError, fuel>>

(* env_new, the parameters, and the body, with `depth' loops around it.     *)
EnterBody(parent, params, depth) ==
    /\ protect' = PopPins(Len(Top.pinned))
    /\ heap' = HeapWith(Object("env", HandlesIn(params), parent))
    /\ live' = live \cup {Fresh}
    /\ loopDepth' = depth
    /\ ExecuteBlock(Append(Below, [Frame("activation", Fresh) EXCEPT !.n = loopDepth]), Fresh)
    /\ UNCHANGED <<signals, hadError, modules, fuel>>

(* Mutant: the body still counts the loops around the call.                 *)
CallInsideLoops ==
    AtResume("arg_function") /\ EnterBody(heap[Top.target].link, Top.pinned, loopDepth)

(* The body runs in the scope the closure captured, not in the caller's.    *)
CallFunction ==
    AtResume("arg_function") /\ EnterBody(heap[Top.target].link, Top.pinned, 0)

(* The receiver becomes the first parameter, unless the method has none.    *)
CallMethod ==
    /\ AtResume("arg_method")
    /\ \/ EnterBody(Globals, Top.pinned, 0)
       \/ Len(Top.pinned) = 1 /\ EnterBody(Globals, <<>>, 0)

(* The activation goes while the return value is still pinned.              *)
LeaveBody(depth, pins) ==
    /\ AtResume("activation")
    /\ DropScopes({Top.env})
    /\ loopDepth' = depth
    /\ protect' = PopPins(pins)
    /\ signals' = [signals EXCEPT !.returning = FALSE, !.value = Scalar]
    /\ Yield(Below, IF signals.returning THEN signals.value ELSE Scalar)
    /\ UNCHANGED <<hadError, modules, fuel>>

(* Mutants: the pin of the return value is taken off even when there was no *)
(* return; the loop depth of the caller is not restored.                    *)
ReturnAlwaysPops == LeaveBody(Top.n, 1)
ReturnForgetsLoops == LeaveBody(loopDepth, IF signals.returning THEN 1 ELSE 0)

ReturnFromBody == LeaveBody(Top.n, IF signals.returning THEN 1 ELSE 0)

(* call_builtin, by what it does to the heap: print, int, float, len and    *)
(* has; type; push; pop; range, keys, values and items (whose pairs are     *)
(* part of the list here).                                                  *)
CallBuiltin ==
    /\ AtResume("arg_builtin")
    /\ protect' = PopPins(Len(Top.pinned))
    /\ LET args == Top.pinned
       IN  \/ Yield(Below, Scalar) /\ UNCHANGED heap
          \/ /\ Len(args) = 1
             /\ heap' = HeapWith(Object("string", {}, Nil))
             /\ Yield(Below, Fresh)
          \/ /\ Len(args) = 2 /\ IsKind(args[1], {"list"})
             /\ heap' = [heap EXCEPT ![args[1]].refs = @ \cup HandlesOf(args[2])]
             /\ Yield(Below, Scalar)
          \/ /\ Len(args) = 1 /\ IsKind(args[1], {"list"})
             /\ \E v \in heap[args[1]].refs : \E lost \in {{}, {v}} :
                   /\ heap' = [heap EXCEPT ![args[1]].refs = @ \ lost]
                   /\ Yield(Below, v)
          \/ /\ Len(args) = 1 /\ IsKind(args[1], {"map"})
             /\ \E taken \in SUBSET heap[args[1]].refs : heap' = HeapWith(Object("list", taken, Nil))
             /\ Yield(Below, Fresh)
    /\ UNCHANGED <<live, control, hadError, fuel>>

-----------------------------------------------------------------------------
(* Literals, indexing and fields.                                           *)

(* The container is pinned from its creation until its last element is in.  *)
BeginContainer ==
    /\ Evaluating
    /\ \E k \in {"list", "map"} :
          /\ Node(k)
          /\ heap' = HeapWith(Object(k, {}, Nil))
          /\ Resume(Append(stack, [Frame(k, ctl.env) EXCEPT !.pinned = <<Fresh>>]))
    /\ protect' = Append(protect, Fresh)
    /\ UNCHANGED <<live, control, hadError>>

AtContainer == ctl.mode = "resume" /\ Top.at \in {"list", "map"}

NextElement ==
    /\ AtContainer
    /\ Top.n < MaxArity
    /\ Evaluate(Append(Below, [Top EXCEPT !.n = @ + 1, !.at = IF @ = "map" THEN "map_key" ELSE @]),
                Top.env)
    /\ UNCHANGED <<memory, control, hadError, fuel>>

ListElement ==
    /\ AtValue("list")
    /\ heap' = [heap EXCEPT ![Top.pinned[1]].refs = @ \cup HandlesOf(ctl.val)]
    /\ Resume(stack)
    /\ UNCHANGED <<live, protect, control, hadError, fuel>>

(* map_set keeps the key it already has when an equal one is set again.     *)
MapValue ==
    /\ AtValue("map_value")
    /\ \E key \in {{}, HandlesOf(Top.pinned[2])} :
          heap' = [heap EXCEPT ![Top.pinned[1]].refs = @ \cup key \cup HandlesOf(ctl.val)]
    /\ protect' = PopPins(1)
    /\ Resume(Append(Below, [TopAt("map") EXCEPT !.pinned = <<@[1]>>]))
    /\ UNCHANGED <<live, control, hadError, fuel>>

EndContainer ==
    /\ AtContainer
    /\ protect' = PopPins(1)
    /\ Yield(Below, Top.pinned[1])
    /\ UNCHANGED <<heap, live, control, hadError, fuel>>

(* A member of v, or null when the key or the index finds none.             *)
Member(v, kinds) ==
    \/ /\ IsKind(v, kinds)
       /\ \E m \in heap[v].refs \cup {Scalar} : Yield(Below, m)
       /\ UNCHANGED hadError
    \/ /\ MayFail \/ ~IsKind(v, kinds)
       /\ FailWith(Below)

Index ==
    /\ AtValue("index_key")
    /\ protect' = PopPins(1)
    /\ Member(Top.pinned[1], {"list", "map"})
    /\ UNCHANGED <<heap, live, control, fuel>>

Field ==
    /\ AtValue("field")
    /\ Member(ctl.val, {"struct", "env"})
    /\ UNCHANGED <<memory, control, fuel>>

Expression ==
    \/ Leaf \/ BeginOperand \/ Unary \/ NextOperand \/ Binary
    \/ BeginCall \/ Callee \/ CalleeReturned \/ Receiver
    \/ NextArgument \/ Argument \/ BadArguments
    \/ ConstructStruct \/ CallFunction \/ CallMethod \/ ReturnFromBody \/ CallBuiltin
    \/ BeginContainer \/ NextElement \/ ListElement \/ MapValue \/ EndContainer
    \/ Index \/ Field
=============================================================================
