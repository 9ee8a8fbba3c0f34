----------------------------- MODULE Statements ------------------------------
(***************************************************************************)
(* exec_stmt of src/interpreter.c: assignments, blocks, loops and the      *)
(* three signals (break, continue, return) that cut statements short.      *)
(***************************************************************************)
EXTENDS Expressions

(* exec_stmt returns at once after an error and while a signal is up.       *)
Skip ==
    /\ ctl.mode \in {"exec", "block"}
    /\ hadError \/ Unwinding
    /\ Resume(stack)
    /\ UNCHANGED <<memory, control, hadError, fuel>>

Executing == ctl.mode = "exec" /\ ~hadError /\ ~Unwinding

(* The statements that start by evaluating an operand.                      *)
BeginStatement ==
    /\ Executing
    /\ \E node \in {<<"assign", "assign">>, <<"expression", "expression">>, <<"if", "if">>,
                    <<"forin", "forin_list">>, <<"return", "return">>,
                    <<"field_assign", "field_object">>, <<"index_assign", "target_object">>} :
          /\ Node(node[1])
          /\ node[1] = "return" => MayReturn
          /\ Evaluate(Append(stack, Frame(node[2], ctl.env)), ctl.env)
    /\ UNCHANGED <<memory, control, hadError>>

ExpressionStatement ==
    /\ AtValue("expression")
    /\ Resume(Below)
    /\ UNCHANGED <<memory, control, hadError, fuel>>

-----------------------------------------------------------------------------
(* Assignments.                                                             *)

(* A slot of c gets v, or what an operator computes from its old value and  *)
(* v, which can fail on its operands.  The old value may be in another slot *)
(* of c too.                                                                *)
StoreInSlot(c, keys, v) ==
    \E old \in {Scalar} \cup heap[c].refs :
    \E lost \in {{}, HandlesOf(old)}, op \in {"none"} \cup Computable(old, v) :
        LET h == IF op = "string" THEN HeapWith(Object("string", {}, Nil)) ELSE heap
            new == CASE op = "none" -> HandlesOf(v) [] op = "scalar" -> {} [] op = "string" -> {Fresh}
        IN  /\ "rebind" \notin constructs => ~LosesCallee(c, lost)
            /\ heap' = [h EXCEPT ![c].refs = (@ \ lost) \cup keys \cup new]
            /\ hadError' \in {hadError, hadError \/ MayFail}

(* A declaration, which stores the value even when it does not have the     *)
(* declared type, or an assignment to a variable somewhere up the chain.    *)
Assign ==
    /\ AtValue("assign")
    /\ \E s \in Chain(Top.env) : StoreInSlot(s, {}, ctl.val)
    /\ Resume(Below)
    /\ UNCHANGED <<live, protect, control, fuel>>

FieldTarget ==
    /\ AtValue("field_object")
    /\ \/ IsKind(ctl.val, {"struct"}) /\ PinAndEvaluate(TopAt("field_value"))
       \/ /\ MayFail \/ ~IsKind(ctl.val, {"struct"})
          /\ StopWith(Below)
          /\ UNCHANGED <<memory, control, fuel>>

FieldAssign ==
    /\ AtValue("field_value")
    /\ protect' = PopPins(1)
    /\ StoreInSlot(Top.pinned[1], {}, ctl.val)
    /\ Resume(Below)
    /\ UNCHANGED <<live, control, fuel>>

(* Object, key and value are all pinned by now (the pin of the value comes  *)
(* and goes within this step); every way out releases them.                 *)
StoreIndexed(pins) ==
    /\ AtValue("target_value")
    /\ protect' = PopPins(pins)
    /\ LET obj == Top.pinned[1]
           key == Top.pinned[2]
           storable == IsKind(obj, {"map"}) \/ (IsKind(obj, {"list"}) /\ key \notin Obj)
       IN  \/ /\ ~hadError
              /\ storable
              /\ \E keys \in {{}} \cup (IF IsKind(obj, {"map"}) THEN {HandlesOf(key)} ELSE {}) :
                    StoreInSlot(obj, keys, ctl.val)
           \/ /\ hadError \/ MayFail \/ ~storable
              /\ hadError' = TRUE
              /\ UNCHANGED heap
    /\ Resume(Below)
    /\ UNCHANGED <<live, control, fuel>>

(* Mutant: the way out after an error forgets the pins.                     *)
IndexAssignErrorKeepsPins == StoreIndexed(IF hadError THEN 0 ELSE 2)

IndexAssign == StoreIndexed(2)

-----------------------------------------------------------------------------
(* Blocks and conditions.                                                   *)

EnterBlock ==
    /\ ctl.mode = "block" /\ ~hadError /\ ~Unwinding
    /\ heap' = HeapWith(Object("env", {}, ctl.env))
    /\ live' = live \cup {Fresh}
    /\ Resume(Append(stack, Frame("block", Fresh)))
    /\ UNCHANGED <<protect, control, hadError, fuel>>

NextStatement ==
    /\ AtResume("block") /\ ~Unwinding
    /\ fuel > 0
    /\ Execute(stack, Top.env)
    /\ UNCHANGED <<memory, control, hadError, fuel>>

LeaveBlockDropping(scopes) ==
    /\ AtResume("block")
    /\ DropScopes(scopes)
    /\ Resume(Below)
    /\ UNCHANGED <<protect, control, hadError, fuel>>

(* Mutant: a signal leaves the block without dropping its scope.            *)
LeaveBlockUnwinding == LeaveBlockDropping(IF Unwinding THEN {} ELSE {Top.env})

LeaveBlock == LeaveBlockDropping({Top.env})

(* is_truthy: every value with something on the heap is true.               *)
CanBeFalse(v) == v \notin Obj

If ==
    /\ AtValue("if")
    /\ ExecuteBlock(Below, Top.env) \/ (CanBeFalse(ctl.val) /\ Resume(Below))
    /\ UNCHANGED <<memory, control, hadError, fuel>>

ElseIf ==
    /\ AtValue("if")
    /\ CanBeFalse(ctl.val)
    /\ Node("if")
    /\ Evaluate(stack, Top.env)
    /\ UNCHANGED <<memory, control, hadError>>

-----------------------------------------------------------------------------
(* Loops.                                                                   *)

(* The scope of the loop, if it has one, goes, and so does what it pinned.  *)
LeaveLoop ==
    /\ loopDepth' = loopDepth - 1
    /\ IF Top.at \in ScopeFrames THEN DropScopes({Top.env}) ELSE UNCHANGED <<heap, live>>
    /\ protect' = PopPins(Len(Top.pinned))
    /\ Resume(Below)

StartWhile(depth) ==
    /\ Executing
    /\ Node("while")
    /\ loopDepth' = depth
    /\ Evaluate(Append(stack, Frame("while_cond", ctl.env)), ctl.env)
    /\ UNCHANGED <<memory, signals, hadError, modules>>

(* Mutant: the loop is not counted on the way in.                           *)
BeginWhileUncounted == StartWhile(loopDepth)

BeginWhile == StartWhile(loopDepth + 1)

(* The initializer and the update of a C-style for are statements of any    *)
(* kind, and both may be missing.                                           *)
BeginFor ==
    /\ Executing
    /\ Node("for")
    /\ heap' = HeapWith(Object("env", {}, ctl.env))
    /\ live' = live \cup {Fresh}
    /\ LET s == Append(stack, Frame("for_init", Fresh))
       IN  (fuel' > 0 /\ Execute(s, Fresh)) \/ Resume(s)
    /\ UNCHANGED <<protect, control, hadError>>

ForInitDone ==
    /\ AtResume("for_init")
    /\ loopDepth' = loopDepth + 1
    /\ Resume(Append(Below, TopAt("for_test")))
    /\ UNCHANGED <<memory, signals, hadError, modules, fuel>>

ForTestUnless(stops) ==
    /\ AtResume("for_test")
    /\ IF stops
       THEN LeaveLoop
       ELSE /\ \/ Evaluate(Append(Below, TopAt("for_cond")), Top.env)
               \/ ExecuteBlock(Append(Below, TopAt("for_body")), Top.env)
            /\ UNCHANGED <<memory, loopDepth>>
    /\ UNCHANGED <<signals, hadError, modules, fuel>>

(* Mutant: the test does not look for a return.                             *)
ForTestIgnoresReturn == ForTestUnless(hadError)

(* A for tests for an error and a return, but not for a break, before it    *)
(* evaluates its condition, if it has one.                                  *)
ForTest == ForTestUnless(hadError \/ signals.returning)

Condition ==
    \E loop \in {<<"while_cond", "while_body">>, <<"for_cond", "for_body">>} :
        /\ AtValue(loop[1])
        /\ \/ (CanBeFalse(ctl.val) \/ hadError) /\ LeaveLoop
           \/ /\ ~hadError
              /\ ExecuteBlock(Append(Below, TopAt(loop[2])), Top.env)
              /\ UNCHANGED <<memory, loopDepth>>
        /\ UNCHANGED <<signals, hadError, modules, fuel>>

(* The list is pinned and the loop variable gets a scope of its own.        *)
BeginForIn ==
    /\ AtValue("forin_list")
    /\ IF IsKind(ctl.val, {"list"})
       THEN /\ protect' = Append(protect, ctl.val)
            /\ heap' = HeapWith(Object("env", {}, Top.env))
            /\ live' = live \cup {Fresh}
            /\ loopDepth' = loopDepth + 1
            /\ Resume(Append(Below, [Frame("forin_next", Fresh) EXCEPT !.pinned = <<ctl.val>>]))
            /\ UNCHANGED hadError
       ELSE StopWith(Below) /\ UNCHANGED <<memory, loopDepth>>
    /\ UNCHANGED <<signals, modules, fuel>>

(* The list may have changed since the last pass: its length is read again. *)
ForInNext ==
    /\ AtResume("forin_next")
    /\ \/ LeaveLoop
       \/ /\ \E v \in heap[Top.pinned[1]].refs \cup {Scalar} :
                heap' = [heap EXCEPT ![Top.env].refs = HandlesOf(v)]
          /\ ExecuteBlock(Append(Below, TopAt("forin_body")), Top.env)
          /\ UNCHANGED <<live, protect, loopDepth>>
    /\ UNCHANGED <<signals, hadError, modules, fuel>>

(* The body has run: the loop stops, or it consumes the break or continue   *)
(* that is up and goes on unless it was a break.                            *)
AfterBody(stops) ==
    \E loop \in {<<"while_body", "while_cond">>, <<"for_body", "for_test">>,
                 <<"forin_body", "forin_next">>} :
        /\ AtResume(loop[1])
        /\ signals' = IF stops THEN signals
                      ELSE [signals EXCEPT ![IF signals.breaking THEN "breaking"
                                             ELSE "continuing"] = FALSE]
        /\ IF stops \/ signals.breaking
           THEN LeaveLoop
           ELSE /\ LET s == Append(Below, TopAt(loop[2]))
                   IN  \/ Top.at = "while_body" /\ Evaluate(s, Top.env)
                       \/ Top.at = "for_body" /\ fuel > 0 /\ Execute(s, Top.env)
                       \/ Top.at # "while_body" /\ Resume(s)
                /\ UNCHANGED <<memory, loopDepth>>
        /\ UNCHANGED <<hadError, modules, fuel>>

(* Mutant: a return does not end the loop.                                  *)
BodyIgnoresReturn == AfterBody(FALSE)

(* Only for-in looks for an error here; the conditions of the others do.    *)
BodyDone == AfterBody(signals.returning \/ (hadError /\ Top.at = "forin_body"))

-----------------------------------------------------------------------------
(* Break, continue, return, and nested functions.                           *)

SignalUnless(rejected) ==
    /\ Executing
    /\ MayBreak
    /\ \E node \in {<<"break", "breaking">>, <<"continue", "continuing">>} :
          /\ Node(node[1])
          /\ IF rejected
             THEN hadError' = TRUE /\ UNCHANGED signals
             ELSE signals' = [signals EXCEPT ![node[2]] = TRUE] /\ UNCHANGED hadError
    /\ Resume(stack)
    /\ UNCHANGED <<memory, loopDepth, modules>>

(* Mutant: a break outside of every loop is not an error.                   *)
BreakAnywhere == SignalUnless(FALSE)

BreakOrContinue == SignalUnless(loopDepth = 0)

(* The value is pinned for the scopes that are torn down on its way out.    *)
Return ==
    /\ AtValue("return")
    /\ signals' = [signals EXCEPT !.returning = TRUE, !.value = ctl.val]
    /\ protect' = Append(protect, ctl.val)
    /\ Resume(Below)
    /\ UNCHANGED <<heap, live, loopDepth, hadError, modules, fuel>>

(* A function definition captures the scope in force.                       *)
DefineFunction ==
    /\ Executing
    /\ Node("fn")
    /\ heap' = [HeapWith(Object("func", {}, ctl.env)) EXCEPT ![ctl.env].refs = @ \cup {Fresh}]
    /\ Resume(stack)
    /\ UNCHANGED <<live, protect, control, hadError>>

Statement ==
    \/ Skip \/ BeginStatement \/ ExpressionStatement
    \/ Assign \/ FieldTarget \/ FieldAssign \/ IndexAssign
    \/ EnterBlock \/ NextStatement \/ LeaveBlock \/ If \/ ElseIf
    \/ BeginWhile \/ BeginFor \/ ForInitDone \/ ForTest \/ Condition
    \/ BeginForIn \/ ForInNext \/ BodyDone
    \/ BreakOrContinue \/ Return \/ DefineFunction
=============================================================================
