--------------------------- MODULE EvaluatorProofs ---------------------------
(***************************************************************************)
(* Theorems about the evaluator, for any program of any length, any number *)
(* of arguments and any memory.                                            *)
(***************************************************************************)
EXTENDS Evaluator, CommonLemmas, FiniteSetTheorems, SequenceTheorems, TLAPS

-----------------------------------------------------------------------------
(* FlattenSeq joins what it flattened before with the last sequence.        *)

(* g holds what FlattenSeq has joined after each of the first n sequences.  *)
Flattens(s, n, g) ==
    g = [i \in 1 .. n |-> IF i = 1 THEN s[i] ELSE g[i - 1] \o s[i]]

(* There is one for any sequence, up to any length.                         *)
LEMMA FlatteningExists ==
    ASSUME NEW s, NEW n \in Nat
    PROVE  \E g : Flattens(s, n, g)
<1> DEFINE Bad == {m \in Nat : ~\E g : Flattens(s, m, g)}
<1>1. SUFFICES ASSUME Bad # {} PROVE FALSE
  OBVIOUS
<1>2. PICK m \in Bad : \A k \in Bad : m <= k
  <2>1. Bad \subseteq Nat
    OBVIOUS
  <2> HIDE DEF Bad
  <2> QED
    BY <1>1, <2>1, LeastPlace
<1>3. CASE m = 0
  <2> DEFINE e == [i \in 1 .. 0 |-> s[i]]
  <2>1. e = [i \in 1 .. 0 |-> IF i = 1 THEN s[i] ELSE e[i - 1] \o s[i]]
    OBVIOUS
  <2>2. Flattens(s, 0, e)
    BY <2>1 DEF Flattens
  <2> QED
    BY <1>2, <1>3, <2>2
<1>4. CASE m # 0
  <2>1. m \in Nat /\ m - 1 \in Nat /\ m - 1 \notin Bad
    BY <1>2, <1>4
  <2>2. PICK g : Flattens(s, m - 1, g)
    BY <2>1
  <2> DEFINE h == [i \in 1 .. m |-> IF i = m THEN (IF m = 1 THEN s[1] ELSE g[m - 1] \o s[m]) ELSE g[i]]
  <2>3. ASSUME NEW i \in 1 .. m
        PROVE  h[i] = IF i = 1 THEN s[i] ELSE h[i - 1] \o s[i]
    <3>1. CASE i = m
      BY <2>1, <3>1
    <3>2. CASE i # m
      <4>1. i \in 1 .. m - 1 /\ h[i] = g[i] /\ (i # 1 => i - 1 \in 1 .. m /\ i - 1 # m)
        BY <2>1, <3>2
      <4>2. i # 1 => h[i - 1] = g[i - 1]
        BY <4>1
      <4>3. g[i] = IF i = 1 THEN s[i] ELSE g[i - 1] \o s[i]
        BY <2>2, <4>1 DEF Flattens
      <4> QED
        BY <4>1, <4>2, <4>3
    <3> QED
      BY <3>1, <3>2
  <2>4. h = [i \in 1 .. m |-> h[i]]
    OBVIOUS
  <2>5. Flattens(s, m, h)
    <3> HIDE DEF h
    <3> QED
      BY <2>3, <2>4 DEF Flattens
  <2> QED
    BY <1>2, <2>5
<1> QED
  BY <1>3, <1>4

(* FlattenSeq is where such a function ends.                                *)
LEMMA FlattenedSeq ==
    ASSUME NEW s, IsSequence(s), Len(s) > 0
    PROVE  \E g : Flattens(s, Len(s), g) /\ FlattenSeq(s) = g[Len(s)]
<1>1. Len(s) \in Nat
  BY SequenceParts
<1> DEFINE g == CHOOSE g : Flattens(s, Len(s), g)
<1>2. Flattens(s, Len(s), g)
  BY <1>1, FlatteningExists
<1>3. FlattenSeq(s) = g[Len(s)]
  BY <1>1 DEF FlattenSeq, Flattens
<1> QED
  BY <1>2, <1>3

(* Two of them agree on the places where the sequences do, and all their    *)
(* values are sequences.                                                    *)
LEMMA FlattensAgree ==
    ASSUME NEW s, NEW t, NEW g, NEW h, NEW n \in Nat, NEW m \in Nat, n <= m,
           Flattens(s, n, g), Flattens(t, m, h),
           \A i \in 1 .. n : s[i] = t[i] /\ IsSequence(s[i])
    PROVE  \A i \in 1 .. n : g[i] = h[i] /\ IsSequence(g[i])
<1> DEFINE Bad == {i \in 1 .. n : ~(g[i] = h[i] /\ IsSequence(g[i]))}
<1>1. SUFFICES ASSUME Bad # {} PROVE FALSE
  OBVIOUS
<1>2. PICK k \in Bad : \A j \in Bad : k <= j
  <2>1. Bad \subseteq Nat
    OBVIOUS
  <2> HIDE DEF Bad
  <2> QED
    BY <1>1, <2>1, LeastPlace
<1>3. k \in 1 .. n /\ k \in 1 .. m /\ s[k] = t[k] /\ IsSequence(s[k])
  OBVIOUS
<1>4. /\ g[k] = IF k = 1 THEN s[k] ELSE g[k - 1] \o s[k]
      /\ h[k] = IF k = 1 THEN t[k] ELSE h[k - 1] \o t[k]
  BY <1>3 DEF Flattens
<1>5. CASE k = 1
  BY <1>3, <1>4, <1>5
<1>6. CASE k # 1
  <2>1. k - 1 \in 1 .. n /\ ~(k <= k - 1)
    BY <1>3, <1>6
  <2>2. g[k - 1] = h[k - 1] /\ IsSequence(g[k - 1])
    BY <1>2, <2>1
  <2>3. IsSequence(g[k - 1] \o s[k])
    BY <1>3, <2>2, Joined
  <2> QED
    BY <1>3, <1>4, <1>6, <2>2, <2>3
<1> QED
  BY <1>5, <1>6

(* One more sequence adds its elements at the end.                          *)
LEMMA FlattenAppended ==
    ASSUME NEW s, IsSequence(s), \A i \in 1 .. Len(s) : IsSequence(s[i]),
           NEW x, IsSequence(x)
    PROVE  /\ IsSequence(FlattenSeq(s))
           /\ FlattenSeq(Append(s, x)) = FlattenSeq(s) \o x
<1> PICK n \in Nat : n = Len(s)
  BY SequenceParts
<1> DEFINE t == Append(s, x)
<1>1. IsSequence(t) /\ Len(t) = n + 1 /\ (\A i \in 1 .. n : t[i] = s[i]) /\ t[n + 1] = x
  BY Appended
<1> HIDE DEF t
<1>2. PICK h : Flattens(t, n + 1, h) /\ FlattenSeq(t) = h[n + 1]
  BY <1>1, FlattenedSeq
<1>3. h[n + 1] = IF n + 1 = 1 THEN t[n + 1] ELSE h[n + 1 - 1] \o t[n + 1]
  <2> PICK m \in Nat : m = n + 1
    OBVIOUS
  <2>1. m \in 1 .. m
    OBVIOUS
  <2>2. h = [i \in 1 .. m |-> IF i = 1 THEN t[i] ELSE h[i - 1] \o t[i]]
    BY <1>2 DEF Flattens
  <2>3. h[m] = IF m = 1 THEN t[m] ELSE h[m - 1] \o t[m]
    BY <2>1, <2>2
  <2> QED
    BY <2>3
<1>4. CASE n = 0
  <2>1. s = <<>> /\ FlattenSeq(s) = s
    BY <1>4, SequenceParts DEF FlattenSeq
  <2>2. FlattenSeq(t) = x
    BY <1>1, <1>2, <1>3, <1>4
  <2> QED
    BY <2>1, <2>2, AppendIsJoin DEF t
<1>5. CASE n # 0
  <2>1. PICK g : Flattens(s, n, g) /\ FlattenSeq(s) = g[n]
    BY <1>5, FlattenedSeq
  <2>2. \A i \in 1 .. n : s[i] = t[i] /\ IsSequence(s[i])
    BY <1>1
  <2>3. \A i \in 1 .. n : g[i] = h[i] /\ IsSequence(g[i])
    <3>1. n + 1 \in Nat /\ n <= n + 1
      OBVIOUS
    <3> PICK m \in Nat : m = n + 1
      BY <3>1
    <3> QED
      BY <1>2, <2>1, <2>2, <3>1, FlattensAgree
  <2>4. n + 1 - 1 = n /\ n + 1 # 1 /\ n \in 1 .. n
    BY <1>5
  <2> QED
    BY <1>1, <1>2, <1>3, <2>1, <2>3, <2>4 DEF t
<1> QED
  BY <1>4, <1>5

-----------------------------------------------------------------------------
(* Frames, and the stack they make.                                         *)

IsFrame(f) ==
    /\ f = [at |-> f.at, env |-> f.env, pinned |-> f.pinned, target |-> f.target, n |-> f.n]
    /\ IsSequence(f.pinned)

IsStack(s) == IsSequence(s) /\ \A i \in DOMAIN s : IsFrame(s[i])

(* What the frames of s have pinned, the outermost first.                   *)
Pins(s) == FlattenSeq([i \in DOMAIN s |-> s[i].pinned])

(* A new frame has pinned nothing.                                          *)
LEMMA NewFrame ==
    ASSUME NEW k, NEW e, NEW t
    PROVE  /\ IsFrame(Frame(k, e)) /\ Frame(k, e).at = k /\ Frame(k, e).pinned = <<>>
           /\ IsFrame(ArgFrame(k, e, t)) /\ ArgFrame(k, e, t).at = k
           /\ ArgFrame(k, e, t).pinned = <<>>
<1>1. IsSequence(<<>>)
  <2>1. <<>> \in Seq({})
    BY EmptySeq
  <2> QED
    BY <2>1, SequenceOfAnything
<1> QED
  BY <1>1 DEF IsFrame, Frame, ArgFrame

(* A frame that goes on elsewhere.                                          *)
LEMMA MovedFrame ==
    ASSUME NEW f, IsFrame(f), NEW k
    PROVE  /\ IsFrame([f EXCEPT !.at = k]) /\ [f EXCEPT !.at = k].at = k
           /\ [f EXCEPT !.at = k].pinned = f.pinned /\ [f EXCEPT !.at = k].env = f.env
           /\ [f EXCEPT !.at = k].target = f.target /\ [f EXCEPT !.at = k].n = f.n
BY DEF IsFrame

(* A frame that pins something else.                                        *)
LEMMA RepinnedFrame ==
    ASSUME NEW f, IsFrame(f), NEW p, IsSequence(p)
    PROVE  /\ IsFrame([f EXCEPT !.pinned = p]) /\ [f EXCEPT !.pinned = p].at = f.at
           /\ [f EXCEPT !.pinned = p].pinned = p /\ [f EXCEPT !.pinned = p].env = f.env
           /\ [f EXCEPT !.pinned = p].target = f.target /\ [f EXCEPT !.pinned = p].n = f.n
BY DEF IsFrame

(* A frame that counts something else.                                      *)
LEMMA RecountedFrame ==
    ASSUME NEW f, IsFrame(f), NEW m
    PROVE  /\ IsFrame([f EXCEPT !.n = m]) /\ [f EXCEPT !.n = m].at = f.at
           /\ [f EXCEPT !.n = m].pinned = f.pinned /\ [f EXCEPT !.n = m].env = f.env
           /\ [f EXCEPT !.n = m].target = f.target /\ [f EXCEPT !.n = m].n = m
BY DEF IsFrame

(* A stack that is not empty is a smaller one and its top.                  *)
LEMMA StackParts ==
    ASSUME NEW s, IsStack(s), s # <<>>
    PROVE  LET b == SubSeq(s, 1, Len(s) - 1)
           IN  /\ Len(s) \in Nat /\ Len(s) > 0 /\ DOMAIN s = 1 .. Len(s)
               /\ IsStack(b) /\ Len(b) = Len(s) - 1 /\ DOMAIN b = 1 .. Len(s) - 1
               /\ \A i \in DOMAIN b : b[i] = s[i]
               /\ IsFrame(s[Len(s)])
               /\ s = Append(b, s[Len(s)])
<1> DEFINE b == SubSeq(s, 1, Len(s) - 1)
<1> PICK n \in Nat : n = Len(s)
  BY SequenceParts DEF IsStack
<1>1. IsSequence(s) /\ DOMAIN s = 1 .. n /\ n > 0
  BY SequenceParts DEF IsStack
<1>2. n - 1 \in 0 .. n
  BY <1>1
<1>3. IsSequence(b) /\ Len(b) = n - 1 /\ DOMAIN b = 1 .. n - 1 /\ \A i \in 1 .. n - 1 : b[i] = s[i]
  BY <1>1, <1>2, Cut
<1>4. IsStack(b) /\ IsFrame(s[n])
  BY <1>1, <1>3 DEF IsStack
<1>5. s = Append(b, s[n])
  <2> HIDE DEF b
  <2> DEFINE t == Append(b, s[n])
  <2>1. IsSequence(t) /\ Len(t) = n /\ (\A i \in 1 .. n - 1 : t[i] = s[i]) /\ t[n] = s[n]
    <3>1. n - 1 + 1 = n
      OBVIOUS
    <3> QED
      BY <1>3, <3>1, Appended
  <2> HIDE DEF t
  <2>2. \A i \in 1 .. n : t[i] = s[i]
    BY <1>1, <2>1
  <2>3. t = s
    BY <1>1, <2>1, <2>2, SameElements
  <2> QED
    BY <2>3 DEF t
<1> QED
  BY <1>1, <1>3, <1>4, <1>5

(* A stack with a new top.                                                  *)
LEMMA StackWith ==
    ASSUME NEW s, IsStack(s), NEW f, IsFrame(f)
    PROVE  /\ IsStack(Append(s, f)) /\ Len(Append(s, f)) = Len(s) + 1
           /\ Len(s) \in Nat /\ DOMAIN s = 1 .. Len(s)
           /\ DOMAIN Append(s, f) = 1 .. Len(s) + 1
           /\ \A i \in 1 .. Len(s) : Append(s, f)[i] = s[i]
           /\ Append(s, f)[Len(s) + 1] = f
           /\ Append(s, f) # <<>>
           /\ SubSeq(Append(s, f), 1, Len(s)) = s
<1> DEFINE t == Append(s, f)
<1> PICK n \in Nat : n = Len(s)
  BY SequenceParts DEF IsStack
<1>1. IsSequence(t) /\ Len(t) = n + 1 /\ DOMAIN t = 1 .. n + 1
      /\ (\A i \in 1 .. n : t[i] = s[i]) /\ t[n + 1] = f
  BY Appended DEF IsStack
<1> HIDE DEF t
<1>2. IsSequence(s) /\ DOMAIN s = 1 .. n
  BY SequenceParts DEF IsStack
<1>3. ASSUME NEW i \in DOMAIN t PROVE IsFrame(t[i])
  <2>1. i \in 1 .. n \/ i = n + 1
    BY <1>1
  <2> QED
    BY <1>1, <1>2, <2>1 DEF IsStack
<1>4. t # <<>>
  BY <1>1, SequenceParts
<1>5. SubSeq(t, 1, n) = s
  <2> DEFINE u == SubSeq(t, 1, n)
  <2>1. n \in 0 .. Len(t)
    BY <1>1
  <2>2. IsSequence(u) /\ Len(u) = n /\ \A i \in 1 .. n : u[i] = t[i]
    BY <1>1, <2>1, Cut
  <2> HIDE DEF u
  <2>3. u = s
    BY <1>1, <1>2, <2>2, SameElements
  <2> QED
    BY <2>3 DEF u
<1>6. IsStack(t)
  BY <1>1, <1>3 DEF IsStack
<1> QED
  BY <1>1, <1>2, <1>4, <1>5, <1>6 DEF t

(* The pins of a stack are those of the smaller one and of its top.         *)
LEMMA PinsOfAppend ==
    ASSUME NEW s, IsStack(s), NEW f, IsFrame(f)
    PROVE  /\ IsSequence(Pins(s))
           /\ Pins(Append(s, f)) = Pins(s) \o f.pinned
<1> DEFINE t == Append(s, f)
           p == [i \in DOMAIN s |-> s[i].pinned]
           q == [i \in DOMAIN t |-> t[i].pinned]
<1> PICK n \in Nat : n = Len(s)
  BY SequenceParts DEF IsStack
<1>1. DOMAIN s = 1 .. n /\ DOMAIN t = 1 .. n + 1 /\ (\A i \in 1 .. n : t[i] = s[i]) /\ t[n + 1] = f
  BY StackWith
<1> HIDE DEF t
<1>2. \A i \in 1 .. n : IsSequence(s[i].pinned)
  BY <1>1 DEF IsStack, IsFrame
<1>3. IsSequence(p) /\ Len(p) = n /\ \A i \in 1 .. n : p[i] = s[i].pinned
  <2>1. p \in [1 .. n -> {p[i] : i \in 1 .. n}]
    BY <1>1
  <2>2. p \in Seq({p[i] : i \in 1 .. n})
    <3> DEFINE R == {p[i] : i \in 1 .. n}
    <3>1. p \in [1 .. n -> R]
      BY <2>1
    <3> HIDE DEF p, R
    <3>2. p \in Seq(R)
      BY <3>1
    <3> QED
      BY <3>2 DEF R
  <2>3. DOMAIN p = 1 .. n
    BY <1>1
  <2>4. IsSequence(p)
    BY <2>2, SequenceOfAnything
  <2>5. Len(p) = n
    <3>1. DOMAIN p = 1 .. Len(p) /\ Len(p) \in Nat
      <4> HIDE DEF p
      <4> QED
        BY <2>4, SequenceParts
    <3> HIDE DEF p
    <3> QED
      BY <2>3, <3>1
  <2> QED
    BY <1>1, <2>4, <2>5
<1>4. q = Append(p, f.pinned)
  <2> DEFINE r == Append(p, f.pinned)
  <2>1. DOMAIN r = 1 .. n + 1 /\ IsSequence(r) /\ Len(r) = n + 1
        /\ (\A i \in 1 .. n : r[i] = p[i]) /\ r[n + 1] = f.pinned
    <3> HIDE DEF p
    <3> QED
      BY <1>3, Appended
  <2>2. r = [i \in 1 .. n + 1 |-> r[i]]
    <3> HIDE DEF r
    <3> QED
      BY <2>1, SequenceParts
  <2> HIDE DEF p, r
  <2>3. ASSUME NEW i \in 1 .. n + 1 PROVE r[i] = t[i].pinned
    <3>1. i \in 1 .. n \/ i = n + 1
      OBVIOUS
    <3> QED
      BY <1>1, <1>3, <2>1, <3>1
  <2>4. q = [i \in 1 .. n + 1 |-> r[i]]
    BY <1>1, <2>3
  <2> QED
    BY <2>2, <2>4 DEF r
<1>5. IsSequence(f.pinned)
  BY DEF IsFrame
<1> HIDE DEF p
<1>6. \A i \in 1 .. Len(p) : IsSequence(p[i])
  BY <1>2, <1>3
<1>7. IsSequence(FlattenSeq(p)) /\ FlattenSeq(Append(p, f.pinned)) = FlattenSeq(p) \o f.pinned
  BY <1>3, <1>5, <1>6, FlattenAppended
<1> QED
  BY <1>4, <1>7 DEF Pins, p, t

-----------------------------------------------------------------------------
(* The discipline of the stack.                                             *)

(* The activations of exec_stmt, and the points at which one is that starts *)
(* a statement or a block; those at which an expression is asked for.       *)
StatementFrames ==
    {"assign", "expression", "if", "forin_list", "return", "field_object", "field_value",
     "target_object", "target_key", "target_value", "block", "while_cond", "while_body",
     "for_init", "for_test", "for_cond", "for_body", "forin_next", "forin_body", "module"}
Hosts == {"activation", "module", "program", "block", "while_body", "for_init", "for_test",
          "for_body", "forin_body"}
Askers == (OperandFrames \ {"map"}) \cup ArgFrames \cup {"while_cond", "for_cond"}

LoopBodies == {"while_body", "for_body", "forin_body"}

(* Where the innermost activation can be in each mode.                      *)
AtRest(mode) ==
    CASE mode \in {"eval", "value"} -> Askers
      [] mode \in {"exec", "block"} -> Hosts
      [] OTHER -> Hosts \cup ArgFrames \cup {"list", "map", "forin_next"}

(* How much an activation has pinned at each point.                         *)
PinCount(k) ==
    CASE k \in {"map_value", "target_value"} -> 2
      [] k \in {"binary_right", "callv", "list", "map", "map_key", "index_key", "field_value",
                "target_key", "forin_next", "forin_body"} -> 1
      [] OTHER -> 0

(* Frame i of s is where an activation can be: statements are started by    *)
(* hosts, expressions by those who ask for them, and the program by nobody. *)
Fits(s, i) ==
    /\ s[i].at = "program" <=> i = 1
    /\ i > 1 => s[i - 1].at \in IF s[i].at \in StatementFrames THEN Hosts ELSE Askers
    /\ s[i].at \notin ArgFrames => Len(s[i].pinned) = PinCount(s[i].at)

(* The stack is in order, and its top is where the mode says.               *)
Disciplined ==
    /\ IsStack(stack)
    /\ \A i \in DOMAIN stack : Fits(stack, i)
    /\ stack = <<>> <=> ctl.mode = "done"
    /\ stack # <<>> => Top.at \in AtRest(ctl.mode)

IsControl(c) == c = [mode |-> c.mode, env |-> c.env, val |-> c.val]

IsSignal(s) ==
    /\ s = [returning |-> s.returning, value |-> s.value,
            breaking |-> s.breaking, continuing |-> s.continuing]
    /\ s.returning \in BOOLEAN /\ s.breaking \in BOOLEAN /\ s.continuing \in BOOLEAN

(* No expression is evaluated while a return is on its way out.             *)
Returning ==
    signals.returning =>
        ctl.mode \in {"resume", "exec", "block", "done"} /\ (stack # <<>> => Top.at \in Hosts)

Grounded ==
    /\ Disciplined
    /\ IsSequence(protect)
    /\ IsControl(ctl)
    /\ IsSignal(signals)
    /\ loopDepth \in Int
    /\ Returning

-----------------------------------------------------------------------------
(* What a step does to the stack, its pins, the loops and the signals.      *)

Loops(f) == IF f.at \in LoopFrames THEN 1 ELSE 0

PinsFit(f) == f.at \notin ArgFrames => Len(f.pinned) = PinCount(f.at)

(* The loop consumes the break or continue that is up.                      *)
Lowered ==
    [signals EXCEPT ![IF signals.breaking THEN "breaking" ELSE "continuing"] = FALSE]

(* A new activation of eval_expr, exec_stmt or one of their callees.        *)
Pushes(f) ==
    /\ stack' = Append(stack, f)
    /\ IsFrame(f)
    /\ f.at \notin {"program", "activation"}
    /\ Top.at \in IF f.at \in StatementFrames THEN Hosts ELSE Askers
    /\ f.at \in AtRest(ctl'.mode) /\ ctl'.mode # "done"
    /\ PinsFit(f)
    /\ f.at = "return" => f.pinned = <<>> /\ MayReturn
    /\ protect' = protect \o f.pinned
    /\ signals' = signals
    /\ ~signals.returning
    /\ ctl.mode = "eval" \/ ~Unwinding
    /\ loopDepth' = loopDepth + Loops(f)

(* The pins p that the innermost activation has afterwards.                 *)
PinsBecome(p) ==
    \/ \E q : IsSequence(q) /\ p = Top.pinned \o q /\ protect' = protect \o q
    \/ \E m \in 0 .. Len(Top.pinned) :
          p = SubSeq(Top.pinned, 1, Len(Top.pinned) - m) /\ protect' = PopPins(m)

(* The innermost activation goes on to its next point.                      *)
Turns(f) ==
    /\ stack' = Append(Below, f)
    /\ IsFrame(f)
    /\ Top.at \notin {"program", "activation", "return"} /\ f.at \notin {"program", "return"}
    /\ f.at \in StatementFrames <=> Top.at \in StatementFrames
    /\ f.at \in AtRest(ctl'.mode) /\ ctl'.mode # "done"
    /\ PinsFit(f)
    /\ PinsBecome(f.pinned)
    /\ signals.returning => /\ f.at \in Hosts /\ ctl'.mode = "resume"
                            /\ f.pinned = Top.pinned /\ protect' = protect
    /\ \/ signals' = signals /\ Top.at \notin LoopBodies \cup {"block"}
       \/ signals' = Lowered /\ Top.at \in LoopBodies
    /\ IF f.at = "activation"
       THEN f.n = loopDepth /\ loopDepth' = 0 /\ Loops(Top) = 0
       ELSE loopDepth' = loopDepth + Loops(f) - Loops(Top)

(* It calls the value of the callee expression.                             *)
CallsValue ==
    \E f, g :
        /\ stack' = Append(Append(Below, f), g)
        /\ IsFrame(f) /\ IsFrame(g)
        /\ Top.at = "callee" /\ ctl.mode = "value"
        /\ f.at = "callv" /\ g.at = "arg_function"
        /\ f.pinned = <<ctl.val>> /\ g.pinned = <<>>
        /\ ctl'.mode = "resume"
        /\ protect' = protect \o <<ctl.val>>
        /\ signals' = signals
        /\ loopDepth' = loopDepth

(* How it is over: it releases its pins, it is a return, or it is a body.   *)
Releases ==
    /\ Top.at # "activation"
    /\ protect' = PopPins(Len(Top.pinned))
    /\ \/ signals' = signals /\ (Top.at \in LoopBodies => signals.returning \/ hadError)
       \/ signals' = Lowered /\ Top.at \in LoopBodies

RaisesReturn ==
    /\ Top.at = "return" /\ ctl.mode = "value"
    /\ protect' = Append(protect, ctl.val)
    /\ signals' = [signals EXCEPT !.returning = TRUE, !.value = ctl.val]

ReceivesReturn ==
    /\ Top.at = "activation" /\ ctl.mode = "resume"
    /\ protect' = PopPins(IF signals.returning THEN 1 ELSE 0)
    /\ signals' = [signals EXCEPT !.returning = FALSE, !.value = Scalar]

(* The innermost activation is over.                                        *)
Pops ==
    /\ stack' = Below
    /\ Top.at # "program"
    /\ ctl'.mode \in IF Top.at \in StatementFrames THEN {"resume", "block"} ELSE {"value"}
    /\ signals.returning => ctl'.mode # "block"
    /\ Top.at \in LoopBodies \cup {"block"} => hadError' = hadError /\ ctl'.mode = "resume"
    /\ loopDepth' = IF Top.at = "activation" THEN Top.n ELSE loopDepth - Loops(Top)
    /\ Releases \/ RaisesReturn \/ ReceivesReturn

(* It stays where it is; a break or continue may go up.                     *)
Signals ==
    /\ Top.at \in Hosts
    /\ ~hadError' /\ ~Unwinding /\ MayBreak /\ loopDepth # 0
    /\ ctl'.mode = "resume"
    /\ \E k \in {"breaking", "continuing"} : signals' = [signals EXCEPT ![k] = TRUE]

Stays ==
    /\ stack' = stack
    /\ protect' = protect
    /\ loopDepth' = loopDepth
    /\ Top.at \in AtRest(ctl'.mode) /\ ctl'.mode # "done"
    /\ \/ /\ signals' = signals
          /\ Unwinding /\ Top.at \in Hosts =>
                hadError' = hadError /\ ctl'.mode \in {"resume", "exec", "block"}
       \/ Signals

(* The program is over.                                                     *)
Ends ==
    /\ stack' = <<>>
    /\ Top.at = "program"
    /\ ctl'.mode = "done"
    /\ UNCHANGED <<protect, signals, loopDepth>>

Moves ==
    /\ (\E f : Pushes(f)) \/ (\E f : Turns(f)) \/ CallsValue \/ Pops \/ Stays \/ Ends
    /\ IsControl(ctl')
    /\ signals.returning => fuel' = fuel

(* What is known of the top before a step.                                  *)
LEMMA TopParts ==
    ASSUME Grounded, ctl.mode # "done"
    PROVE  /\ stack # <<>> /\ IsStack(stack)
           /\ IsFrame(Top) /\ IsStack(Below) /\ stack = Append(Below, Top)
           /\ Len(stack) \in Nat /\ Len(stack) > 0 /\ DOMAIN stack = 1 .. Len(stack)
           /\ Len(Below) = Len(stack) - 1
           /\ Top.at \in AtRest(ctl.mode)
           /\ Fits(stack, Len(stack))
           /\ PinsFit(Top)
           /\ signals.returning => ctl.mode \in {"resume", "exec", "block"} /\ Top.at \in Hosts
<1>1. stack # <<>> /\ IsStack(stack) /\ \A i \in DOMAIN stack : Fits(stack, i)
  BY DEF Grounded, Disciplined
<1>2. /\ Len(stack) \in Nat /\ Len(stack) > 0 /\ DOMAIN stack = 1 .. Len(stack)
      /\ IsFrame(stack[Len(stack)]) /\ IsStack(SubSeq(stack, 1, Len(stack) - 1))
      /\ Len(SubSeq(stack, 1, Len(stack) - 1)) = Len(stack) - 1
      /\ stack = Append(SubSeq(stack, 1, Len(stack) - 1), stack[Len(stack)])
  BY <1>1, StackParts
<1>3. Fits(stack, Len(stack))
  BY <1>1, <1>2
<1>4. PinsFit(Top)
  BY <1>3 DEF Fits, PinsFit, Top
<1> QED
  BY <1>1, <1>2, <1>3, <1>4 DEF Top, Below, Grounded, Disciplined, Returning

(* The new control of every kind of step.                                   *)
LEMMA NewControl ==
    ASSUME NEW m, NEW e, NEW v, ctl' = [mode |-> m, env |-> e, val |-> v]
    PROVE  IsControl(ctl') /\ ctl'.mode = m
BY DEF IsControl

(* Pins that stay, and pins that are added or taken off.                    *)
LEMMA KeptPins ==
    ASSUME Grounded, IsFrame(Top), protect' = protect
    PROVE  /\ PinsBecome(Top.pinned)
           /\ Len(Top.pinned) = 0 => protect' = PopPins(Len(Top.pinned))
           /\ protect' = protect \o <<>>
<1>1. IsSequence(protect) /\ IsSequence(Top.pinned) /\ IsSequence(<<>>)
  BY AppendIsJoin DEF Grounded, IsFrame
<1>2. protect \o <<>> = protect /\ Top.pinned \o <<>> = Top.pinned
  BY <1>1, AppendIsJoin
<1>3. PinsBecome(Top.pinned)
  BY <1>1, <1>2 DEF PinsBecome
<1>4. ASSUME Len(Top.pinned) = 0 PROVE protect' = PopPins(Len(Top.pinned))
  <2>1. Len(protect) \in Nat /\ SubSeq(protect, 1, Len(protect)) = protect
    <3>1. protect \in Seq({protect[i] : i \in DOMAIN protect})
      BY <1>1 DEF IsSequence
    <3> QED
      BY <3>1, SubSeqFull, LenProperties
  <2>2. ~(0 > Len(protect)) /\ Len(protect) - 0 = Len(protect)
    BY <2>1
  <2> QED
    BY <1>4, <2>1, <2>2 DEF PopPins
<1> QED
  BY <1>2, <1>3, <1>4

(* One more pin.                                                            *)
LEMMA AddedPin ==
    ASSUME Grounded, IsFrame(Top), NEW v, protect' = Append(protect, v)
    PROVE  /\ PinsBecome(Append(Top.pinned, v))
           /\ IsSequence(Append(Top.pinned, v))
           /\ Len(Append(Top.pinned, v)) = Len(Top.pinned) + 1
           /\ protect' = protect \o <<v>>
<1>1. IsSequence(protect) /\ IsSequence(Top.pinned)
  BY DEF Grounded, IsFrame
<1>2. IsSequence(<<v>>) /\ protect \o <<v>> = Append(protect, v)
      /\ Top.pinned \o <<v>> = Append(Top.pinned, v)
  BY <1>1, AppendIsJoin
<1>3. PinsBecome(Append(Top.pinned, v))
  BY <1>2 DEF PinsBecome
<1>4. IsSequence(Append(Top.pinned, v)) /\ Len(Append(Top.pinned, v)) = Len(Top.pinned) + 1
  BY <1>1, Appended
<1> QED
  BY <1>2, <1>3, <1>4

(* Some of the pins of the top are released, or all.                        *)
LEMMA ReleasedPins ==
    ASSUME Grounded, IsFrame(Top), NEW m \in 0 .. Len(Top.pinned), protect' = PopPins(m)
    PROVE  /\ PinsBecome(SubSeq(Top.pinned, 1, Len(Top.pinned) - m))
           /\ m = Len(Top.pinned) => PinsBecome(<<>>)
<1>1. PinsBecome(SubSeq(Top.pinned, 1, Len(Top.pinned) - m))
  BY DEF PinsBecome
<1>2. ASSUME m = Len(Top.pinned) PROVE SubSeq(Top.pinned, 1, Len(Top.pinned) - m) = <<>>
  <2>1. Len(Top.pinned) \in Nat
    BY SequenceParts DEF IsFrame
  <2>2. SubSeq(Top.pinned, 1, 0) = <<>>
    BY SubSeqEmpty
  <2> QED
    BY <1>2, <2>1, <2>2
<1> QED
  BY <1>1, <1>2

(* A step that leaves the stack alone.                                      *)
LEMMA StayMoves ==
    ASSUME Grounded, ctl.mode # "done", NEW m, NEW e, NEW v,
           stack' = stack, ctl' = [mode |-> m, env |-> e, val |-> v],
           Top.at \in AtRest(m), m # "done",
           protect' = protect, loopDepth' = loopDepth, signals' = signals,
           signals.returning => fuel' = fuel,
           Unwinding /\ Top.at \in Hosts => hadError' = hadError /\ m \in {"resume", "exec", "block"}
    PROVE  Moves
<1>1. Stays
  BY DEF Stays
<1> QED
  BY <1>1, NewControl DEF Moves

(* A step that ends the innermost activation, none of a function.           *)
LEMMA ReleaseMoves ==
    ASSUME Grounded, ctl.mode # "done", NEW m, NEW e, NEW v,
           stack' = Below, ctl' = [mode |-> m, env |-> e, val |-> v],
           Top.at \notin {"program", "activation"} \cup LoopBodies,
           m \in IF Top.at \in StatementFrames THEN {"resume", "block"} ELSE {"value"},
           signals.returning => m # "block",
           Top.at = "block" => hadError' = hadError /\ m = "resume",
           protect' = PopPins(Len(Top.pinned)) \/ (protect' = protect /\ Len(Top.pinned) = 0),
           loopDepth' = loopDepth - Loops(Top), signals' = signals,
           signals.returning => fuel' = fuel
    PROVE  Moves
<1>1. protect' = PopPins(Len(Top.pinned))
  BY TopParts, KeptPins
<1>2. Releases
  BY <1>1 DEF Releases
<1>3. Pops
  BY <1>2 DEF Pops
<1> QED
  BY <1>3, NewControl DEF Moves

(* A step that starts an activation which has pinned nothing yet.           *)
LEMMA PushMoves ==
    ASSUME Grounded, ctl.mode # "done", NEW f, NEW m, NEW e, NEW v,
           stack' = Append(stack, f), ctl' = [mode |-> m, env |-> e, val |-> v],
           IsFrame(f), f.pinned = <<>>, PinsFit(f),
           f.at \notin {"program", "activation"},
           Top.at \in IF f.at \in StatementFrames THEN Hosts ELSE Askers,
           f.at \in AtRest(m), m # "done",
           f.at = "return" => MayReturn,
           protect' = protect, signals' = signals,
           ctl.mode = "eval" \/ (ctl.mode \in {"exec", "block"} /\ ~Unwinding),
           loopDepth' = loopDepth + Loops(f)
    PROVE  Moves
<1>1. IsSignal(signals) /\ (signals.returning => ctl.mode # "eval" /\ Unwinding)
  BY DEF Grounded, Returning, Unwinding
<1>2. ~signals.returning
  BY <1>1
<1>3. protect' = protect \o f.pinned
  BY TopParts, KeptPins
<1>4. Pushes(f)
  BY <1>2, <1>3 DEF Pushes
<1> QED
  BY <1>2, <1>4, NewControl DEF Moves

(* A step that moves the innermost activation on, none of a loop body.      *)
LEMMA TurnMoves ==
    ASSUME Grounded, ctl.mode # "done", NEW f, NEW m, NEW e, NEW v,
           stack' = Append(Below, f), ctl' = [mode |-> m, env |-> e, val |-> v],
           IsFrame(f),
           Top.at \notin {"program", "activation", "return", "block"} \cup LoopBodies,
           f.at \notin {"program", "return", "activation"},
           f.at \in StatementFrames <=> Top.at \in StatementFrames,
           f.at \in AtRest(m), m # "done",
           PinsFit(f), PinsBecome(f.pinned),
           signals.returning => /\ f.at \in Hosts /\ m = "resume"
                                /\ f.pinned = Top.pinned /\ protect' = protect,
           signals' = signals, signals.returning => fuel' = fuel,
           loopDepth' = loopDepth + Loops(f) - Loops(Top)
    PROVE  Moves
<1>1. Turns(f)
  BY DEF Turns
<1> QED
  BY <1>1, NewControl DEF Moves

-----------------------------------------------------------------------------
(* Every step is one of these: the expressions first.                       *)

(* While an operand is evaluated or its value handed over, no return is up. *)
LEMMA Operands ==
    ASSUME Grounded, ctl.mode \in {"eval", "value"}
    PROVE  /\ stack # <<>> /\ IsFrame(Top) /\ PinsFit(Top)
           /\ Top.at \in Askers /\ Top.at \notin Hosts
           /\ ~signals.returning
           /\ loopDepth \in Int
<1>1. Top.at \in AtRest(ctl.mode) /\ AtRest(ctl.mode) = Askers
  BY TopParts DEF AtRest
<1>2. Askers \cap Hosts = {}
  BY DEF Askers, Hosts, OperandFrames, ArgFrames
<1> QED
  BY <1>1, <1>2, TopParts DEF Grounded

(* Between the arguments of a call or the elements of a literal neither.    *)
LEMMA Gathering ==
    ASSUME Grounded, ctl.mode = "resume", Top.at \in ArgFrames \cup {"list", "map", "forin_next"}
    PROVE  /\ stack # <<>> /\ IsFrame(Top) /\ PinsFit(Top)
           /\ Top.at \notin Hosts
           /\ ~signals.returning
           /\ loopDepth \in Int
<1>1. Top.at \notin Hosts
  BY DEF Hosts, ArgFrames
<1> QED
  BY <1>1, TopParts DEF Grounded

(* An expression without parts becomes its value.                           *)
LEMMA LeafMoves ==
    ASSUME Grounded, Leaf
    PROVE  Moves
<1>1. ctl.mode = "eval" /\ stack' = stack
      /\ UNCHANGED <<live, protect, signals, loopDepth, modules, fuel>>
      /\ \E v : ctl' = [mode |-> "value", env |-> Nil, val |-> v]
  BY DEF Leaf, AtEval, Yield, control
<1>2. PICK v : ctl' = [mode |-> "value", env |-> Nil, val |-> v]
  BY <1>1
<1>3. Top.at \in AtRest("value") /\ Top.at \notin Hosts
  BY <1>1, Operands DEF AtRest
<1> QED
  BY <1>1, <1>2, <1>3, StayMoves

(* An operator, an index, a field or a method begins with its operand.      *)
LEMMA BeginOperandMoves ==
    ASSUME Grounded, BeginOperand
    PROVE  Moves
<1>1. /\ ctl.mode = "eval"
      /\ UNCHANGED <<heap, live, protect, signals, loopDepth, modules, hadError>>
      /\ \E k \in {"unary", "binary_left", "callee", "index_object", "field", "receiver"} :
            /\ stack' = Append(stack, Frame(k, ctl.env))
            /\ ctl' = [mode |-> "eval", env |-> ctl.env, val |-> Scalar]
  BY DEF BeginOperand, Evaluating, AtEval, Evaluate, memory, control
<1>2. PICK k \in {"unary", "binary_left", "callee", "index_object", "field", "receiver"} :
            /\ stack' = Append(stack, Frame(k, ctl.env))
            /\ ctl' = [mode |-> "eval", env |-> ctl.env, val |-> Scalar]
  BY <1>1
<1> DEFINE f == Frame(k, ctl.env)
<1>3. IsFrame(f) /\ f.at = k /\ f.pinned = <<>>
  BY NewFrame
<1> HIDE DEF f
<1>4. k \notin StatementFrames /\ k \notin ArgFrames /\ k \in AtRest("eval") /\ PinCount(k) = 0
      /\ k \notin LoopFrames /\ k \notin {"program", "activation", "return"}
  BY DEF StatementFrames, ArgFrames, AtRest, Askers, OperandFrames, PinCount, LoopFrames
<1>5. Top.at \in Askers /\ loopDepth \in Int
  BY <1>1, Operands
<1>6. PinsFit(f) /\ Loops(f) = 0
  BY <1>3, <1>4, AppendIsJoin DEF PinsFit, Loops
<1>7. stack' = Append(stack, f)
  BY <1>2 DEF f
<1>8. f.at \notin {"program", "activation"} /\ (Top.at \in IF f.at \in StatementFrames THEN Hosts ELSE Askers)
      /\ f.at \in AtRest("eval") /\ f.at # "return" /\ loopDepth' = loopDepth + Loops(f)
  BY <1>1, <1>3, <1>4, <1>5, <1>6
<1> QED
  BY <1>1, <1>2, <1>3, <1>6, <1>7, <1>8, PushMoves

(* An expression hands its value over.                                      *)
LEMMA YieldMoves ==
    ASSUME Grounded, ctl.mode \in {"value", "resume"},
           Top.at \in {"unary", "binary_right", "callee", "callv", "receiver", "list", "map",
                       "index_key", "field"} \cup ArgFrames,
           stack' = Below, \E v : ctl' = [mode |-> "value", env |-> Nil, val |-> v],
           \/ protect' = PopPins(Len(Top.pinned))
           \/ protect' = PopPins(1) /\ Top.at \in {"binary_right", "callv", "list", "map", "index_key"}
           \/ protect' = protect /\ Top.at \in {"unary", "callee", "receiver", "field"},
           signals' = signals, loopDepth' = loopDepth, fuel' = fuel
    PROVE  Moves
<1>1. PICK v : ctl' = [mode |-> "value", env |-> Nil, val |-> v]
  OBVIOUS
<1>2. /\ Top.at \notin StatementFrames /\ Top.at \notin LoopFrames
      /\ Top.at \notin {"program", "activation", "block"} \cup LoopBodies
  BY DEF StatementFrames, ArgFrames, LoopFrames, LoopBodies
<1>3. PinsFit(Top) /\ loopDepth \in Int
  BY TopParts DEF Grounded
<1>4. loopDepth' = loopDepth - Loops(Top)
  BY <1>2, <1>3 DEF Loops
<1>5. protect' = PopPins(Len(Top.pinned)) \/ (protect' = protect /\ Len(Top.pinned) = 0)
  <2>1. CASE Top.at \in {"binary_right", "callv", "list", "map", "index_key"}
    <3>1. Len(Top.pinned) = 1
      BY <1>3, <2>1 DEF PinsFit, PinCount, ArgFrames
    <3> QED
      BY <2>1, <3>1
  <2>2. CASE Top.at \in {"unary", "callee", "receiver", "field"}
    <3>1. Len(Top.pinned) = 0
      BY <1>3, <2>2 DEF PinsFit, PinCount, ArgFrames
    <3> QED
      BY <2>2, <3>1
  <2> QED
    BY <2>1, <2>2
<1> QED
  BY <1>1, <1>2, <1>4, <1>5, ReleaseMoves

(* A unary operator yields the result.                                      *)
LEMMA UnaryMoves ==
    ASSUME Grounded, Unary
    PROVE  Moves
<1>1. /\ ctl.mode = "value" /\ Top.at = "unary" /\ stack' = Below
      /\ protect' = protect /\ signals' = signals /\ loopDepth' = loopDepth /\ fuel' = fuel
      /\ \E v : ctl' = [mode |-> "value", env |-> Nil, val |-> v]
  BY DEF Unary, AtValue, Yield, FailWith, memory, control
<1> QED
  BY <1>1, YieldMoves

(* A binary operator yields the result and releases its left operand.       *)
LEMMA BinaryMoves ==
    ASSUME Grounded, Binary
    PROVE  Moves
<1>1. /\ ctl.mode = "value" /\ Top.at = "binary_right" /\ stack' = Below
      /\ protect' = PopPins(1) /\ signals' = signals /\ loopDepth' = loopDepth /\ fuel' = fuel
      /\ \E v : ctl' = [mode |-> "value", env |-> Nil, val |-> v]
  BY DEF Binary, AtValue, Yield, FailWith, control
<1> QED
  BY <1>1, YieldMoves

(* call_value releases the function it called.                              *)
LEMMA CalleeReturnedMoves ==
    ASSUME Grounded, CalleeReturned
    PROVE  Moves
<1>1. /\ ctl.mode = "value" /\ Top.at = "callv" /\ stack' = Below
      /\ protect' = PopPins(1) /\ signals' = signals /\ loopDepth' = loopDepth /\ fuel' = fuel
      /\ \E v : ctl' = [mode |-> "value", env |-> Nil, val |-> v]
  BY DEF CalleeReturned, AtValue, Yield, control
<1> QED
  BY <1>1, YieldMoves

(* A call with the wrong arguments releases those it has.                   *)
LEMMA BadArgumentsMoves ==
    ASSUME Grounded, BadArguments
    PROVE  Moves
<1>1. /\ ctl.mode = "resume" /\ Top.at \in ArgFrames /\ stack' = Below
      /\ protect' = PopPins(Len(Top.pinned))
      /\ signals' = signals /\ loopDepth' = loopDepth /\ fuel' = fuel
      /\ \E v : ctl' = [mode |-> "value", env |-> Nil, val |-> v]
  BY DEF BadArguments, AtArguments, Yield, FailWith, control
<1> QED
  BY <1>1, YieldMoves

(* construct_struct releases the arguments it stored.                       *)
LEMMA ConstructStructMoves ==
    ASSUME Grounded, ConstructStruct
    PROVE  Moves
<1>1. /\ ctl.mode = "resume" /\ Top.at \in ArgFrames /\ stack' = Below
      /\ protect' = PopPins(Len(Top.pinned))
      /\ signals' = signals /\ loopDepth' = loopDepth /\ fuel' = fuel
      /\ \E v : ctl' = [mode |-> "value", env |-> Nil, val |-> v]
  BY DEF ConstructStruct, AtResume, ArgFrames, Yield, control
<1> QED
  BY <1>1, YieldMoves

(* So does a built-in function.                                             *)
LEMMA CallBuiltinMoves ==
    ASSUME Grounded, CallBuiltin
    PROVE  Moves
<1>1. /\ ctl.mode = "resume" /\ Top.at \in ArgFrames
      /\ protect' = PopPins(Len(Top.pinned))
      /\ signals' = signals /\ loopDepth' = loopDepth /\ fuel' = fuel
  BY DEF CallBuiltin, AtResume, ArgFrames, control
<1>2. stack' = Below /\ \E v : ctl' = [mode |-> "value", env |-> Nil, val |-> v]
  BY DEF CallBuiltin, Yield
<1> QED
  BY <1>1, <1>2, YieldMoves

(* A literal releases the list or map it has built.                         *)
LEMMA EndContainerMoves ==
    ASSUME Grounded, EndContainer
    PROVE  Moves
<1>1. /\ ctl.mode = "resume" /\ Top.at \in {"list", "map"} /\ stack' = Below
      /\ protect' = PopPins(1)
      /\ signals' = signals /\ loopDepth' = loopDepth /\ fuel' = fuel
      /\ \E v : ctl' = [mode |-> "value", env |-> Nil, val |-> v]
  BY DEF EndContainer, AtContainer, Yield, control
<1> QED
  BY <1>1, YieldMoves

(* An index expression releases the container.                              *)
LEMMA IndexMoves ==
    ASSUME Grounded, Index
    PROVE  Moves
<1>1. /\ ctl.mode = "value" /\ Top.at = "index_key" /\ stack' = Below
      /\ protect' = PopPins(1)
      /\ signals' = signals /\ loopDepth' = loopDepth /\ fuel' = fuel
      /\ \E v : ctl' = [mode |-> "value", env |-> Nil, val |-> v]
  BY DEF Index, AtValue, Member, Yield, FailWith, control
<1> QED
  BY <1>1, YieldMoves

(* A field access has pinned nothing.                                       *)
LEMMA FieldMoves ==
    ASSUME Grounded, Field
    PROVE  Moves
<1>1. /\ ctl.mode = "value" /\ Top.at = "field" /\ stack' = Below
      /\ protect' = protect
      /\ signals' = signals /\ loopDepth' = loopDepth /\ fuel' = fuel
      /\ \E v : ctl' = [mode |-> "value", env |-> Nil, val |-> v]
  BY DEF Field, AtValue, Member, Yield, FailWith, memory, control
<1> QED
  BY <1>1, YieldMoves

(* An expression goes on, with the pins of f.                               *)
LEMMA ExpressionTurns ==
    ASSUME Grounded, ctl.mode \in {"value", "resume"}, NEW f, NEW m \in {"eval", "resume"}, NEW e,
           stack' = Append(Below, f), ctl' = [mode |-> m, env |-> e, val |-> Scalar],
           IsFrame(f),
           Top.at \in {"binary_left", "index_object", "map_key", "map_value", "receiver", "list",
                       "map"} \cup ArgFrames,
           f.at \in {"binary_right", "index_key", "list", "map", "map_key", "map_value"} \cup ArgFrames,
           f.at \in {"list", "map"} \cup ArgFrames \/ m = "eval",
           f.at = "map" => m = "resume",
           PinsFit(f), PinsBecome(f.pinned),
           signals' = signals, loopDepth' = loopDepth, fuel' = fuel
    PROVE  Moves
<1>1. /\ Top.at \notin {"program", "activation", "return", "block"} \cup LoopBodies
      /\ f.at \notin {"program", "return", "activation"}
      /\ f.at \notin StatementFrames /\ Top.at \notin StatementFrames
      /\ f.at \notin LoopFrames /\ Top.at \notin LoopFrames
      /\ Top.at \notin Hosts
  BY DEF StatementFrames, ArgFrames, LoopFrames, LoopBodies, Hosts
<1>2. loopDepth' = loopDepth + Loops(f) - Loops(Top)
  BY <1>1 DEF Loops, Grounded
<1>3. ~signals.returning
  <2>1. ctl.mode # "done"
    OBVIOUS
  <2> QED
    BY <1>1, <2>1, TopParts
<1>4. f.at \in AtRest(m)
  <2>1. CASE m = "eval"
    BY <2>1 DEF AtRest, Askers, OperandFrames, ArgFrames
  <2>2. CASE m = "resume"
    BY <2>2 DEF AtRest, ArgFrames
  <2> QED
    BY <2>1, <2>2
<1> QED
  BY <1>1, <1>2, <1>3, <1>4, TurnMoves

(* The value that was handed over is pinned, at the next point k.           *)
LEMMA PinAndGoOn ==
    ASSUME Grounded, IsFrame(Top), NEW k, PinAndEvaluate(TopAt(k))
    PROVE  \E f : /\ IsFrame(f) /\ f.at = k
                  /\ Len(f.pinned) = Len(Top.pinned) + 1
                  /\ PinsBecome(f.pinned)
                  /\ stack' = Append(Below, f)
                  /\ \E e : ctl' = [mode |-> "eval", env |-> e, val |-> Scalar]
                  /\ signals' = signals /\ loopDepth' = loopDepth /\ fuel' = fuel
                  /\ hadError' = hadError
<1> DEFINE g == TopAt(k)
           f == [g EXCEPT !.pinned = Append(g.pinned, ctl.val)]
<1>1. /\ stack' = Append(Below, f)
      /\ ctl' = [mode |-> "eval", env |-> g.env, val |-> Scalar]
      /\ protect' = Append(protect, ctl.val)
      /\ signals' = signals /\ loopDepth' = loopDepth /\ fuel' = fuel /\ hadError' = hadError
  BY DEF PinAndEvaluate, Evaluate, control
<1>2. IsFrame(g) /\ g.at = k /\ g.pinned = Top.pinned
  BY MovedFrame DEF TopAt
<1> HIDE DEF g
<1>3. PinsBecome(Append(Top.pinned, ctl.val)) /\ IsSequence(Append(Top.pinned, ctl.val))
      /\ Len(Append(Top.pinned, ctl.val)) = Len(Top.pinned) + 1
  BY <1>1, AddedPin
<1>4. IsSequence(Append(g.pinned, ctl.val))
  BY <1>2, <1>3
<1>5. IsFrame(f) /\ f.at = g.at /\ f.pinned = Append(g.pinned, ctl.val)
  BY <1>2, <1>4, RepinnedFrame
<1> HIDE DEF f
<1> QED
  BY <1>1, <1>2, <1>3, <1>5

(* The first operand is pinned while the second is evaluated.               *)
LEMMA NextOperandMoves ==
    ASSUME Grounded, NextOperand
    PROVE  Moves
<1>1. PICK step \in {<<"binary_left", "binary_right">>, <<"index_object", "index_key">>,
                     <<"map_key", "map_value">>, <<"target_object", "target_key">>,
                     <<"target_key", "target_value">>} :
          AtValue(step[1]) /\ PinAndEvaluate(TopAt(step[2]))
  BY DEF NextOperand
<1>2. ctl.mode = "value" /\ Top.at = step[1]
  BY <1>1 DEF AtValue
<1>3. IsFrame(Top) /\ PinsFit(Top) /\ ~signals.returning /\ loopDepth \in Int
  BY <1>2, Operands
<1>4. PICK f : /\ IsFrame(f) /\ f.at = step[2]
               /\ Len(f.pinned) = Len(Top.pinned) + 1
               /\ PinsBecome(f.pinned)
               /\ stack' = Append(Below, f)
               /\ \E e : ctl' = [mode |-> "eval", env |-> e, val |-> Scalar]
               /\ signals' = signals /\ loopDepth' = loopDepth /\ fuel' = fuel
               /\ hadError' = hadError
  BY <1>1, <1>3, PinAndGoOn
<1>5. PICK e : ctl' = [mode |-> "eval", env |-> e, val |-> Scalar]
  BY <1>4
<1>8. PinsFit(f)
  BY <1>2, <1>3, <1>4 DEF PinsFit, PinCount, ArgFrames
<1>9. CASE step[1] \in {"binary_left", "index_object", "map_key"}
  <2>1. f.at \in {"binary_right", "index_key", "map_value"}
    BY <1>4, <1>9
  <2> QED
    BY <1>2, <1>4, <1>5, <1>8, <1>9, <2>1, ExpressionTurns
<1>10. CASE step[1] \in {"target_object", "target_key"}
  <2>1. f.at \in {"target_key", "target_value"} /\ Top.at \in {"target_object", "target_key"}
    BY <1>2, <1>4, <1>10
  <2>2. /\ Top.at \notin {"program", "activation", "return", "block"} \cup LoopBodies
        /\ f.at \notin {"program", "return", "activation"}
        /\ f.at \in StatementFrames /\ Top.at \in StatementFrames
        /\ f.at \notin LoopFrames /\ Top.at \notin LoopFrames
        /\ f.at \in AtRest("eval")
    BY <2>1 DEF StatementFrames, LoopFrames, LoopBodies, AtRest, Askers, OperandFrames
  <2>3. loopDepth' = loopDepth + Loops(f) - Loops(Top)
    BY <1>3, <1>4, <2>2 DEF Loops
  <2> QED
    BY <1>2, <1>3, <1>4, <1>5, <1>8, <2>2, <2>3, TurnMoves
<1> QED
  BY <1>9, <1>10

(* A call by name pins nothing before its arguments.                        *)
LEMMA BeginCallMoves ==
    ASSUME Grounded, BeginCall
    PROVE  Moves
<1>1. /\ ctl.mode = "eval"
      /\ UNCHANGED <<heap, live, protect, signals, loopDepth, modules, hadError>>
      /\ \E f : /\ IsFrame(f) /\ f.at \in ArgFrames /\ f.pinned = <<>>
                /\ stack' = Append(stack, f)
      /\ ctl' = [mode |-> "resume", env |-> Nil, val |-> Scalar]
  <2>1. /\ ctl.mode = "eval"
        /\ UNCHANGED <<heap, live, protect, signals, loopDepth, modules, hadError>>
        /\ ctl' = [mode |-> "resume", env |-> Nil, val |-> Scalar]
    BY DEF BeginCall, Evaluating, AtEval, Resume, memory, control
  <2>2. \/ \E f : stack' = Append(stack, ArgFrame("arg_function", ctl.env, f))
        \/ stack' = Append(stack, Frame("arg_struct", ctl.env))
        \/ stack' = Append(stack, Frame("arg_builtin", ctl.env))
    BY DEF BeginCall, Resume
  <2>3. CASE \E f : stack' = Append(stack, ArgFrame("arg_function", ctl.env, f))
    <3>1. PICK f : stack' = Append(stack, ArgFrame("arg_function", ctl.env, f))
      BY <2>3
    <3>2. LET g == ArgFrame("arg_function", ctl.env, f)
          IN  IsFrame(g) /\ g.at \in ArgFrames /\ g.pinned = <<>>
      BY NewFrame DEF ArgFrames
    <3> QED
      BY <2>1, <3>1, <3>2
  <2>4. ASSUME NEW k \in {"arg_struct", "arg_builtin"}, stack' = Append(stack, Frame(k, ctl.env))
        PROVE  \E f : /\ IsFrame(f) /\ f.at \in ArgFrames /\ f.pinned = <<>>
                      /\ stack' = Append(stack, f)
    <3>1. LET g == Frame(k, ctl.env)
          IN  IsFrame(g) /\ g.at \in ArgFrames /\ g.pinned = <<>>
      BY NewFrame DEF ArgFrames
    <3> QED
      BY <2>4, <3>1
  <2> QED
    BY <2>1, <2>2, <2>3, <2>4
<1>2. PICK f : IsFrame(f) /\ f.at \in ArgFrames /\ f.pinned = <<>> /\ stack' = Append(stack, f)
  BY <1>1
<1>3. Top.at \in Askers /\ loopDepth \in Int
  BY <1>1, Operands
<1>4. /\ f.at \notin StatementFrames /\ f.at \notin LoopFrames /\ f.at \in AtRest("resume")
      /\ f.at \notin {"program", "activation", "return"}
  BY <1>2 DEF StatementFrames, ArgFrames, AtRest, LoopFrames
<1>5. PinsFit(f) /\ loopDepth' = loopDepth + Loops(f)
  BY <1>1, <1>2, <1>3, <1>4 DEF PinsFit, Loops
<1>6. Top.at \in IF f.at \in StatementFrames THEN Hosts ELSE Askers
  BY <1>3, <1>4
<1> QED
  BY <1>1, <1>2, <1>4, <1>5, <1>6, PushMoves

(* A call of a value pins the callee, or fails.                             *)
LEMMA CalleeMoves ==
    ASSUME Grounded, Callee
    PROVE  Moves
<1>1. /\ ctl.mode = "value" /\ Top.at = "callee"
      /\ signals' = signals /\ loopDepth' = loopDepth /\ fuel' = fuel
  BY DEF Callee, ApplyCallee, AtValue, control
<1>2. IsFrame(Top) /\ IsStack(Below) /\ IsSequence(protect)
  BY <1>1, TopParts DEF Grounded
<1>3. CASE IsKind(ctl.val, {"func"})
  <2> DEFINE h == TopAt("callv")
             f == [h EXCEPT !.pinned = <<ctl.val>>]
             g == ArgFrame("arg_function", Top.env, ctl.val)
  <2>1. /\ protect' = protect \o <<ctl.val>>
        /\ stack' = Below \o <<f, g>>
        /\ ctl' = [mode |-> "resume", env |-> Nil, val |-> Scalar]
    BY <1>3 DEF Callee, ApplyCallee, Resume
  <2>2. IsFrame(h) /\ h.at = "callv"
    BY <1>2, MovedFrame DEF TopAt
  <2>3. IsFrame(f) /\ f.at = "callv" /\ f.pinned = <<ctl.val>>
    <3>1. IsSequence(<<ctl.val>>)
      BY <1>2, AppendIsJoin
    <3> HIDE DEF h
    <3> QED
      BY <2>2, <3>1, RepinnedFrame
  <2>4. IsFrame(g) /\ g.at = "arg_function" /\ g.pinned = <<>>
    BY NewFrame
  <2> HIDE DEF f, g
  <2>5. Below \o <<f, g>> = Append(Append(Below, f), g)
    BY <1>2, JoinTwo DEF IsStack
  <2>6. CallsValue
    BY <1>1, <2>1, <2>3, <2>4, <2>5 DEF CallsValue
  <2> QED
    BY <1>1, <2>1, <2>6, NewControl DEF Moves
<1>4. CASE ~IsKind(ctl.val, {"func"})
  <2>1. /\ protect' = protect /\ stack' = Below
        /\ \E v : ctl' = [mode |-> "value", env |-> Nil, val |-> v]
    BY <1>4 DEF Callee, ApplyCallee, FailWith, Yield
  <2> QED
    BY <1>1, <2>1, YieldMoves
<1> QED
  BY <1>3, <1>4

(* A method call pins its receiver as its first argument, or fails.         *)
LEMMA ReceiverMoves ==
    ASSUME Grounded, Receiver
    PROVE  Moves
<1>1. /\ ctl.mode = "value" /\ Top.at = "receiver"
      /\ signals' = signals /\ loopDepth' = loopDepth /\ fuel' = fuel
  BY DEF Receiver, AtValue, control
<1>2. IsFrame(Top) /\ PinsFit(Top)
  BY <1>1, TopParts
<1>3. Top.pinned = <<>>
  <2>1. Len(Top.pinned) = 0
    BY <1>1, <1>2 DEF PinsFit, PinCount, ArgFrames
  <2> QED
    BY <1>2, <2>1, SequenceParts DEF IsFrame
<1> DEFINE rest == ctl' = [mode |-> "resume", env |-> Nil, val |-> Scalar]
           g == Frame("arg_method", Top.env)
           h == [g EXCEPT !.pinned = <<ctl.val>>]
<1>4. \/ \E f : stack' = Append(Below, ArgFrame("arg_function", Top.env, f)) /\ rest /\ protect' = protect
      \/ stack' = Append(Below, Frame("arg_struct", Top.env)) /\ rest /\ protect' = protect
      \/ stack' = Append(Below, h) /\ rest /\ protect' = Append(protect, ctl.val)
      \/ stack' = Below /\ protect' = protect
         /\ \E v : ctl' = [mode |-> "value", env |-> Nil, val |-> v]
  BY DEF Receiver, Resume, FailWith, Yield
<1>5. ASSUME NEW f, IsFrame(f), f.at \in ArgFrames, stack' = Append(Below, f), rest, PinsBecome(f.pinned)
      PROVE  Moves
  <2>1. PinsFit(f) /\ f.at # "map"
    BY <1>5 DEF PinsFit, ArgFrames
  <2> QED
    BY <1>1, <1>5, <2>1, ExpressionTurns
<1>6. CASE \E f : stack' = Append(Below, ArgFrame("arg_function", Top.env, f)) /\ rest /\ protect' = protect
  <2>1. PICK f : stack' = Append(Below, ArgFrame("arg_function", Top.env, f)) /\ rest /\ protect' = protect
    BY <1>6
  <2> DEFINE k == ArgFrame("arg_function", Top.env, f)
  <2>2. IsFrame(k) /\ k.at \in ArgFrames /\ k.pinned = <<>>
    BY NewFrame DEF ArgFrames
  <2>3. PinsBecome(k.pinned)
    BY <1>2, <1>3, <2>1, <2>2, KeptPins
  <2> QED
    BY <1>5, <2>1, <2>2, <2>3
<1>7. CASE stack' = Append(Below, Frame("arg_struct", Top.env)) /\ rest /\ protect' = protect
  <2> DEFINE k == Frame("arg_struct", Top.env)
  <2>1. IsFrame(k) /\ k.at \in ArgFrames /\ k.pinned = <<>>
    BY NewFrame DEF ArgFrames
  <2>2. PinsBecome(k.pinned)
    BY <1>2, <1>3, <1>7, <2>1, KeptPins
  <2> QED
    BY <1>5, <1>7, <2>1, <2>2
<1>8. CASE stack' = Append(Below, h) /\ rest /\ protect' = Append(protect, ctl.val)
  <2>1. IsFrame(g) /\ g.at = "arg_method"
    BY NewFrame
  <2>2. PinsBecome(Append(Top.pinned, ctl.val)) /\ Append(Top.pinned, ctl.val) = <<ctl.val>>
        /\ IsSequence(<<ctl.val>>)
    <3>1. Append(Top.pinned, ctl.val) = <<ctl.val>> /\ IsSequence(Append(Top.pinned, ctl.val))
      BY <1>2, <1>3, <1>8, AddedPin
    <3> QED
      BY <1>2, <1>8, <3>1, AddedPin
  <2> HIDE DEF g
  <2>3. IsFrame(h) /\ h.at = "arg_method" /\ h.pinned = <<ctl.val>>
    BY <2>1, <2>2, RepinnedFrame
  <2> HIDE DEF h
  <2>4. h.at \in ArgFrames /\ PinsBecome(h.pinned)
    BY <2>2, <2>3 DEF ArgFrames
  <2> QED
    BY <1>5, <1>8, <2>3, <2>4
<1>9. CASE stack' = Below /\ protect' = protect
           /\ \E v : ctl' = [mode |-> "value", env |-> Nil, val |-> v]
  BY <1>1, <1>9, YieldMoves
<1> QED
  BY <1>4, <1>6, <1>7, <1>8, <1>9

(* The next argument is evaluated with the others pinned.                   *)
LEMMA NextArgumentMoves ==
    ASSUME Grounded, NextArgument
    PROVE  Moves
<1>1. /\ ctl.mode = "resume" /\ Top.at \in ArgFrames /\ stack' = stack
      /\ ctl' = [mode |-> "eval", env |-> Top.env, val |-> Scalar]
      /\ UNCHANGED <<protect, signals, loopDepth, fuel>>
  BY DEF NextArgument, AtArguments, Evaluate, memory, control
<1>2. Top.at \in AtRest("eval") /\ Top.at \notin Hosts
  BY <1>1 DEF AtRest, Askers, ArgFrames, Hosts
<1> QED
  BY <1>1, <1>2, StayMoves

(* Its value is pinned as soon as it is there.                              *)
LEMMA ArgumentMoves ==
    ASSUME Grounded, Argument
    PROVE  Moves
<1> DEFINE f == [Top EXCEPT !.pinned = Append(Top.pinned, ctl.val)]
<1>1. /\ ctl.mode = "value" /\ Top.at \in ArgFrames
      /\ protect' = Append(protect, ctl.val)
      /\ stack' = Append(Below, f)
      /\ ctl' = [mode |-> "resume", env |-> Nil, val |-> Scalar]
      /\ signals' = signals /\ loopDepth' = loopDepth /\ fuel' = fuel
  BY DEF Argument, Resume, control
<1>2. IsFrame(Top)
  BY <1>1, TopParts
<1>3. PinsBecome(Append(Top.pinned, ctl.val)) /\ IsSequence(Append(Top.pinned, ctl.val))
  BY <1>1, <1>2, AddedPin
<1>4. IsFrame(f) /\ f.at = Top.at /\ f.pinned = Append(Top.pinned, ctl.val)
  BY <1>2, <1>3, RepinnedFrame
<1> HIDE DEF f
<1>5. PinsFit(f) /\ f.at # "map"
  BY <1>1, <1>4 DEF PinsFit, ArgFrames
<1> QED
  BY <1>1, <1>3, <1>4, <1>5, ExpressionTurns

(* A literal pins the list or map it is going to build.                     *)
LEMMA BeginContainerMoves ==
    ASSUME Grounded, BeginContainer
    PROVE  Moves
<1>1. /\ ctl.mode = "eval" /\ signals' = signals /\ loopDepth' = loopDepth
      /\ protect' = Append(protect, Fresh)
      /\ ctl' = [mode |-> "resume", env |-> Nil, val |-> Scalar]
      /\ \E k \in {"list", "map"} :
            stack' = Append(stack, [Frame(k, ctl.env) EXCEPT !.pinned = <<Fresh>>])
  BY DEF BeginContainer, Evaluating, AtEval, Resume, control
<1>2. PICK k \in {"list", "map"} :
          stack' = Append(stack, [Frame(k, ctl.env) EXCEPT !.pinned = <<Fresh>>])
  BY <1>1
<1> DEFINE g == Frame(k, ctl.env)
           f == [g EXCEPT !.pinned = <<Fresh>>]
<1>3. Top.at \in Askers /\ loopDepth \in Int /\ ~signals.returning /\ IsFrame(Top)
  BY <1>1, Operands
<1>4. IsSequence(<<Fresh>>) /\ Len(<<Fresh>>) = 1 /\ protect' = protect \o <<Fresh>>
  BY <1>1, <1>3, AddedPin, AppendIsJoin DEF Grounded
<1>5. IsFrame(g) /\ g.at = k
  BY NewFrame
<1> HIDE DEF g
<1>6. IsFrame(f) /\ f.at = k /\ f.pinned = <<Fresh>>
  BY <1>4, <1>5, RepinnedFrame
<1>7. stack' = Append(stack, f)
  BY <1>2 DEF g
<1> HIDE DEF f
<1>8. /\ k \notin StatementFrames /\ k \notin ArgFrames /\ k \notin LoopFrames
      /\ k \in AtRest("resume") /\ PinCount(k) = 1 /\ k \notin {"program", "activation", "return"}
  BY DEF StatementFrames, ArgFrames, LoopFrames, AtRest, PinCount
<1>9. PinsFit(f) /\ loopDepth' = loopDepth + Loops(f)
  BY <1>1, <1>3, <1>4, <1>6, <1>8 DEF PinsFit, Loops
<1>10. Pushes(f)
  BY <1>1, <1>3, <1>4, <1>6, <1>7, <1>8, <1>9 DEF Pushes
<1> QED
  BY <1>1, <1>3, <1>10, NewControl DEF Moves

(* The next element, or key, is evaluated with the literal pinned.          *)
LEMMA NextElementMoves ==
    ASSUME Grounded, NextElement
    PROVE  Moves
<1> DEFINE g == [Top EXCEPT !.n = Top.n + 1]
           k == IF Top.at = "map" THEN "map_key" ELSE Top.at
           f == [g EXCEPT !.at = k]
<1>1. /\ ctl.mode = "resume" /\ Top.at \in {"list", "map"}
      /\ signals' = signals /\ loopDepth' = loopDepth /\ fuel' = fuel /\ protect' = protect
      /\ ctl' = [mode |-> "eval", env |-> Top.env, val |-> Scalar]
  BY DEF NextElement, AtContainer, Evaluate, memory, control
<1>2. IsFrame(Top) /\ PinsFit(Top)
  BY <1>1, TopParts
<1>3. stack' = Append(Below, f)
  <2>1. stack' = Append(Below, [Top EXCEPT !.n = Top.n + 1,
                                          !.at = IF Top.at = "map" THEN "map_key" ELSE Top.at])
    BY DEF NextElement, Evaluate
  <2>2. [Top EXCEPT !.n = Top.n + 1, !.at = IF Top.at = "map" THEN "map_key" ELSE Top.at] = f
    BY <1>2 DEF IsFrame
  <2> QED
    BY <2>1, <2>2
<1>4. IsFrame(g) /\ g.at = Top.at /\ g.pinned = Top.pinned
  BY <1>2, RecountedFrame
<1> HIDE DEF g
<1>5. IsFrame(f) /\ f.at = k /\ f.pinned = Top.pinned
  BY <1>4, MovedFrame
<1> HIDE DEF f
<1>6. f.at \in {"list", "map_key"}
  BY <1>1, <1>5
<1>7. PinsFit(f)
  BY <1>1, <1>2, <1>5, <1>6 DEF PinsFit, PinCount, ArgFrames
<1>8. PinsBecome(f.pinned)
  BY <1>1, <1>2, <1>5, KeptPins
<1> QED
  BY <1>1, <1>3, <1>5, <1>6, <1>7, <1>8, ExpressionTurns

(* An element goes into the list, which keeps it.                           *)
LEMMA ListElementMoves ==
    ASSUME Grounded, ListElement
    PROVE  Moves
<1>1. /\ ctl.mode = "value" /\ Top.at = "list" /\ stack' = stack
      /\ ctl' = [mode |-> "resume", env |-> Nil, val |-> Scalar]
      /\ UNCHANGED <<protect, signals, loopDepth, fuel>>
  BY DEF ListElement, AtValue, Resume, control
<1>2. Top.at \in AtRest("resume") /\ Top.at \notin Hosts
  BY <1>1 DEF AtRest, Hosts
<1> QED
  BY <1>1, <1>2, StayMoves

(* A key and its value go into the map, and the key is released.            *)
LEMMA MapValueMoves ==
    ASSUME Grounded, MapValue
    PROVE  Moves
<1> DEFINE g == TopAt("map")
           f == [g EXCEPT !.pinned = <<g.pinned[1]>>]
<1>1. /\ ctl.mode = "value" /\ Top.at = "map_value"
      /\ signals' = signals /\ loopDepth' = loopDepth /\ fuel' = fuel /\ protect' = PopPins(1)
      /\ ctl' = [mode |-> "resume", env |-> Nil, val |-> Scalar]
      /\ stack' = Append(Below, f)
  BY DEF MapValue, AtValue, Resume, control
<1>2. IsFrame(Top) /\ PinsFit(Top)
  BY <1>1, TopParts
<1>3. Len(Top.pinned) = 2 /\ IsSequence(Top.pinned)
  BY <1>1, <1>2 DEF PinsFit, PinCount, ArgFrames, IsFrame
<1>4. IsFrame(g) /\ g.at = "map" /\ g.pinned = Top.pinned
  BY <1>2, MovedFrame DEF TopAt
<1> HIDE DEF g
<1> DEFINE p == <<g.pinned[1]>>
<1>5. IsSequence(p) /\ Len(p) = 1
  BY <1>3, AppendIsJoin
<1>6. SubSeq(Top.pinned, 1, 1) = p
  <2> DEFINE u == SubSeq(Top.pinned, 1, 1)
  <2>1. 1 \in 0 .. Len(Top.pinned)
    BY <1>3
  <2>2. IsSequence(u) /\ Len(u) = 1 /\ u[1] = Top.pinned[1]
    BY <1>3, <2>1, Cut
  <2>3. p[1] = Top.pinned[1]
    BY <1>4
  <2> HIDE DEF u, p
  <2>4. \A i \in 1 .. Len(u) : u[i] = p[i]
    BY <2>2, <2>3
  <2>5. u = p
    BY <1>5, <2>2, <2>4, SameElements
  <2> QED
    BY <2>5 DEF u
<1>7. PinsBecome(p)
  <2>1. 1 \in 0 .. Len(Top.pinned) /\ Len(Top.pinned) - 1 = 1
    BY <1>3
  <2> QED
    BY <1>1, <1>6, <2>1 DEF PinsBecome
<1>8. IsFrame(f) /\ f.at = g.at /\ f.pinned = p
  BY <1>4, <1>5, RepinnedFrame
<1> HIDE DEF f, p
<1>9. PinsFit(f) /\ PinsBecome(f.pinned) /\ f.at = "map"
  BY <1>4, <1>5, <1>7, <1>8 DEF PinsFit, PinCount, ArgFrames
<1> QED
  BY <1>1, <1>8, <1>9, ExpressionTurns

(* A body is entered with its own count of loops.                           *)
LEMMA EnterBodyMoves ==
    ASSUME Grounded, ctl.mode = "resume", Top.at \in ArgFrames, NEW parent, NEW params,
           EnterBody(parent, params, 0)
    PROVE  Moves
<1> DEFINE g == Frame("activation", Fresh)
           f == [g EXCEPT !.n = loopDepth]
<1>1. /\ protect' = PopPins(Len(Top.pinned))
      /\ loopDepth' = 0 /\ signals' = signals /\ fuel' = fuel
      /\ stack' = Append(Below, f)
      /\ ctl' = [mode |-> "block", env |-> Fresh, val |-> Scalar]
  BY DEF EnterBody, ExecuteBlock
<1>2. IsFrame(Top) /\ ~signals.returning /\ Top.at \notin Hosts
  BY Gathering
<1>3. IsFrame(g) /\ g.at = "activation" /\ g.pinned = <<>>
  BY NewFrame
<1> HIDE DEF g
<1>4. IsFrame(f) /\ f.at = "activation" /\ f.pinned = <<>> /\ f.n = loopDepth
  BY <1>3, RecountedFrame
<1> HIDE DEF f
<1>5. /\ Top.at \notin {"program", "activation", "return", "block"} \cup LoopBodies
      /\ Top.at \notin StatementFrames /\ Top.at \notin LoopFrames
  BY DEF ArgFrames, StatementFrames, LoopFrames, LoopBodies
<1>6. f.at \notin StatementFrames /\ f.at \in AtRest("block") /\ PinsFit(f)
  BY <1>4, AppendIsJoin DEF StatementFrames, AtRest, Hosts, PinsFit, PinCount
<1>7. PinsBecome(<<>>)
  <2>1. Len(Top.pinned) \in 0 .. Len(Top.pinned)
    <3>1. Len(Top.pinned) \in Nat
      BY <1>2, SequenceParts DEF IsFrame
    <3> QED
      BY <3>1
  <2> QED
    BY <1>1, <1>2, <2>1, ReleasedPins
<1>8. f.at \notin {"program", "return"} /\ Loops(Top) = 0
  BY <1>4, <1>5 DEF Loops
<1>9. Turns(f)
  BY <1>1, <1>2, <1>4, <1>5, <1>6, <1>7, <1>8, NewControl DEF Turns
<1> QED
  BY <1>1, <1>9, NewControl DEF Moves

(* A call enters the body and puts the loop depth aside.                    *)
LEMMA CallMoves ==
    ASSUME Grounded, CallFunction \/ CallMethod
    PROVE  Moves
<1>1. ctl.mode = "resume" /\ Top.at \in ArgFrames /\ \E parent, params : EnterBody(parent, params, 0)
  BY DEF CallFunction, CallMethod, AtResume, ArgFrames
<1> QED
  BY <1>1, EnterBodyMoves

(* A call receives the return, or the end of the body.                      *)
LEMMA ReturnFromBodyMoves ==
    ASSUME Grounded, ReturnFromBody
    PROVE  Moves
<1>1. /\ ctl.mode = "resume" /\ Top.at = "activation" /\ stack' = Below
      /\ loopDepth' = Top.n /\ fuel' = fuel
      /\ protect' = PopPins(IF signals.returning THEN 1 ELSE 0)
      /\ signals' = [signals EXCEPT !.returning = FALSE, !.value = Scalar]
      /\ \E v : ctl' = [mode |-> "value", env |-> Nil, val |-> v]
  BY DEF ReturnFromBody, LeaveBody, AtResume, Yield
<1>2. PICK v : ctl' = [mode |-> "value", env |-> Nil, val |-> v]
  BY <1>1
<1>3. ReceivesReturn
  BY <1>1 DEF ReceivesReturn
<1>4. Pops
  BY <1>1, <1>2, <1>3 DEF Pops, StatementFrames, LoopBodies
<1> QED
  BY <1>1, <1>2, <1>4, NewControl DEF Moves

(* Every step of eval_expr is one of the kinds.                             *)
LEMMA ExpressionMoves ==
    ASSUME Grounded, Expression
    PROVE  Moves
<1> QED
  BY LeafMoves, BeginOperandMoves, UnaryMoves, NextOperandMoves, BinaryMoves, BeginCallMoves,
     CalleeMoves, CalleeReturnedMoves, ReceiverMoves, NextArgumentMoves, ArgumentMoves,
     BadArgumentsMoves, ConstructStructMoves, CallMoves, ReturnFromBodyMoves, CallBuiltinMoves,
     BeginContainerMoves, NextElementMoves, ListElementMoves, MapValueMoves, EndContainerMoves,
     IndexMoves, FieldMoves DEF Expression

-----------------------------------------------------------------------------
(* The statements.                                                          *)

(* A statement is over, and no loop and no block was left.                  *)
LEMMA StatementEnds ==
    ASSUME Grounded, ctl.mode = "value",
           Top.at \in {"expression", "assign", "field_object", "field_value", "target_value",
                       "if", "forin_list"},
           stack' = Below,
           NEW m \in {"resume", "block"}, NEW e, ctl' = [mode |-> m, env |-> e, val |-> Scalar],
           \/ protect' = protect /\ Top.at \in {"expression", "assign", "field_object", "if", "forin_list"}
           \/ protect' = PopPins(1) /\ Top.at = "field_value"
           \/ protect' = PopPins(2) /\ Top.at = "target_value",
           signals' = signals, loopDepth' = loopDepth
    PROVE  Moves
<1>1. /\ Top.at \in StatementFrames /\ Top.at \notin LoopFrames
      /\ Top.at \notin {"program", "activation", "block"} \cup LoopBodies
  BY DEF StatementFrames, LoopFrames, LoopBodies
<1>2. PinsFit(Top) /\ loopDepth \in Int /\ ~signals.returning
  BY Operands
<1>3. Len(Top.pinned) = PinCount(Top.at)
  BY <1>2 DEF PinsFit, ArgFrames
<1>4. loopDepth' = loopDepth - Loops(Top)
  BY <1>1, <1>2 DEF Loops
<1>5. protect' = PopPins(Len(Top.pinned)) \/ (protect' = protect /\ Len(Top.pinned) = 0)
  <2>1. CASE Top.at \in {"expression", "assign", "field_object", "if", "forin_list"}
    <3>1. PinCount(Top.at) = 0
      BY <2>1 DEF PinCount
    <3> QED
      BY <1>3, <2>1, <3>1
  <2>2. CASE Top.at = "field_value"
    <3>1. PinCount(Top.at) = 1
      BY <2>2 DEF PinCount
    <3> QED
      BY <1>3, <2>2, <3>1
  <2>3. CASE Top.at = "target_value"
    <3>1. PinCount(Top.at) = 2
      BY <2>3 DEF PinCount
    <3> QED
      BY <1>3, <2>3, <3>1
  <2> QED
    BY <2>1, <2>2, <2>3
<1> QED
  BY <1>1, <1>2, <1>4, <1>5, ReleaseMoves

(* A statement that is skipped while something unwinds changes nothing.     *)
LEMMA SkipMoves ==
    ASSUME Grounded, Skip
    PROVE  Moves
<1>1. /\ ctl.mode \in {"exec", "block"} /\ stack' = stack
      /\ ctl' = [mode |-> "resume", env |-> Nil, val |-> Scalar]
      /\ UNCHANGED <<protect, signals, loopDepth, fuel, hadError>>
  BY DEF Skip, Resume, memory, control
<1>2. Top.at \in AtRest("resume")
  <2>1. Top.at \in AtRest(ctl.mode)
    BY <1>1, TopParts
  <2> QED
    BY <1>1, <2>1 DEF AtRest
<1> QED
  BY <1>1, <1>2, StayMoves

(* A statement begins with its expression.                                  *)
LEMMA BeginStatementMoves ==
    ASSUME Grounded, BeginStatement
    PROVE  Moves
<1>1. /\ ctl.mode = "exec" /\ ~Unwinding
      /\ UNCHANGED <<protect, signals, loopDepth, hadError>>
      /\ ctl' = [mode |-> "eval", env |-> ctl.env, val |-> Scalar]
      /\ \E k \in {"assign", "expression", "if", "forin_list", "return", "field_object", "target_object"} :
            /\ stack' = Append(stack, Frame(k, ctl.env))
            /\ k = "return" => MayReturn
  BY DEF BeginStatement, Executing, Evaluate, memory, control
<1>2. PICK k \in {"assign", "expression", "if", "forin_list", "return", "field_object", "target_object"} :
            /\ stack' = Append(stack, Frame(k, ctl.env))
            /\ k = "return" => MayReturn
  BY <1>1
<1> DEFINE f == Frame(k, ctl.env)
<1>3. IsFrame(f) /\ f.at = k /\ f.pinned = <<>>
  BY NewFrame
<1>4. stack' = Append(stack, f)
  BY <1>2
<1> HIDE DEF f
<1>5. Top.at \in Hosts /\ loopDepth \in Int
  <2>1. Top.at \in AtRest("exec")
    BY <1>1, TopParts
  <2> QED
    BY <2>1 DEF AtRest, Grounded
<1>6. /\ k \in StatementFrames /\ k \notin LoopFrames /\ k \in AtRest("eval") /\ PinCount(k) = 0
      /\ k \notin {"program", "activation"}
  BY DEF StatementFrames, LoopFrames, AtRest, Askers, OperandFrames, PinCount
<1>7. PinsFit(f) /\ loopDepth' = loopDepth + Loops(f)
  BY <1>1, <1>3, <1>5, <1>6, AppendIsJoin DEF PinsFit, Loops
<1>8. /\ f.at \notin {"program", "activation"}
      /\ Top.at \in IF f.at \in StatementFrames THEN Hosts ELSE Askers
      /\ f.at \in AtRest("eval")
      /\ f.at = "return" => MayReturn
  BY <1>2, <1>3, <1>5, <1>6
<1> QED
  BY <1>1, <1>3, <1>4, <1>7, <1>8, PushMoves

(* An expression statement is over with its value.                          *)
LEMMA ExpressionStatementMoves ==
    ASSUME Grounded, ExpressionStatement
    PROVE  Moves
<1>1. /\ ctl.mode = "value" /\ Top.at = "expression" /\ stack' = Below
      /\ ctl' = [mode |-> "resume", env |-> Nil, val |-> Scalar]
      /\ protect' = protect /\ signals' = signals /\ loopDepth' = loopDepth
  BY DEF ExpressionStatement, AtValue, Resume, memory, control
<1> QED
  BY <1>1, StatementEnds

(* So is a declaration or an assignment.                                    *)
LEMMA AssignMoves ==
    ASSUME Grounded, Assign
    PROVE  Moves
<1>1. /\ ctl.mode = "value" /\ Top.at = "assign" /\ stack' = Below
      /\ ctl' = [mode |-> "resume", env |-> Nil, val |-> Scalar]
      /\ protect' = protect /\ signals' = signals /\ loopDepth' = loopDepth
  BY DEF Assign, AtValue, Resume, control
<1> QED
  BY <1>1, StatementEnds

(* An assignment to a field or an element pins what its parts yield.        *)
LEMMA FieldTargetMoves ==
    ASSUME Grounded, FieldTarget
    PROVE  Moves
<1>1. ctl.mode = "value" /\ Top.at = "field_object"
  BY DEF FieldTarget, AtValue
<1>2. IsFrame(Top) /\ PinsFit(Top) /\ ~signals.returning /\ loopDepth \in Int
  BY <1>1, Operands
<1>3. CASE PinAndEvaluate(TopAt("field_value"))
  <2>1. PICK f : /\ IsFrame(f) /\ f.at = "field_value"
                 /\ Len(f.pinned) = Len(Top.pinned) + 1
                 /\ PinsBecome(f.pinned)
                 /\ stack' = Append(Below, f)
                 /\ \E e : ctl' = [mode |-> "eval", env |-> e, val |-> Scalar]
                 /\ signals' = signals /\ loopDepth' = loopDepth /\ fuel' = fuel
                 /\ hadError' = hadError
    BY <1>2, <1>3, PinAndGoOn
  <2>2. PICK e : ctl' = [mode |-> "eval", env |-> e, val |-> Scalar]
    BY <2>1
  <2>3. PinsFit(f)
    BY <1>1, <1>2, <2>1 DEF PinsFit, PinCount, ArgFrames
  <2>4. /\ Top.at \notin {"program", "activation", "return", "block"} \cup LoopBodies
        /\ f.at \notin {"program", "return", "activation"}
        /\ f.at \in StatementFrames /\ Top.at \in StatementFrames
        /\ f.at \notin LoopFrames /\ Top.at \notin LoopFrames
        /\ f.at \in AtRest("eval")
    BY <1>1, <2>1 DEF StatementFrames, LoopFrames, LoopBodies, AtRest, Askers, OperandFrames
  <2>5. loopDepth' = loopDepth + Loops(f) - Loops(Top)
    BY <1>2, <2>1, <2>4 DEF Loops
  <2> QED
    BY <1>1, <1>2, <2>1, <2>2, <2>3, <2>4, <2>5, TurnMoves
<1>4. CASE ~PinAndEvaluate(TopAt("field_value"))
  <2>1. /\ stack' = Below
        /\ ctl' = [mode |-> "resume", env |-> Nil, val |-> Scalar]
        /\ protect' = protect /\ signals' = signals /\ loopDepth' = loopDepth
    BY <1>4 DEF FieldTarget, StopWith, Resume, memory, control
  <2> QED
    BY <1>1, <2>1, StatementEnds
<1> QED
  BY <1>3, <1>4

(* A field assignment releases the object.                                  *)
LEMMA FieldAssignMoves ==
    ASSUME Grounded, FieldAssign
    PROVE  Moves
<1>1. /\ ctl.mode = "value" /\ Top.at = "field_value" /\ stack' = Below
      /\ ctl' = [mode |-> "resume", env |-> Nil, val |-> Scalar]
      /\ protect' = PopPins(1) /\ signals' = signals /\ loopDepth' = loopDepth
  BY DEF FieldAssign, AtValue, Resume, control
<1> QED
  BY <1>1, StatementEnds

(* An index assignment releases the container and the key.                  *)
LEMMA IndexAssignMoves ==
    ASSUME Grounded, IndexAssign
    PROVE  Moves
<1>1. /\ ctl.mode = "value" /\ Top.at = "target_value" /\ stack' = Below
      /\ ctl' = [mode |-> "resume", env |-> Nil, val |-> Scalar]
      /\ protect' = PopPins(2) /\ signals' = signals /\ loopDepth' = loopDepth
  BY DEF IndexAssign, StoreIndexed, AtValue, Resume, control
<1> QED
  BY <1>1, StatementEnds

(* A host starts a block, a C-style for or a module, whose frame is f.      *)
LEMMA HostPushes ==
    ASSUME Grounded, ctl.mode \in {"exec", "block"}, ~Unwinding,
           NEW f, IsFrame(f), f.at \in {"block", "for_init", "module"},
           f.pinned = <<>>, stack' = Append(stack, f),
           NEW m, NEW e, ctl' = [mode |-> m, env |-> e, val |-> Scalar],
           m = "resume" \/ (m = "exec" /\ f.at = "for_init"),
           protect' = protect, signals' = signals,
           loopDepth' = loopDepth + Loops(f)
    PROVE  Moves
<1>1. Top.at \in Hosts /\ loopDepth \in Int
  <2>1. Top.at \in AtRest(ctl.mode)
    BY TopParts
  <2> QED
    BY <2>1 DEF AtRest, Grounded
<1>2. /\ f.at \in StatementFrames /\ f.at \in AtRest(m) /\ PinCount(f.at) = 0 /\ m # "done"
      /\ f.at \notin {"program", "activation", "return"} /\ f.at \notin ArgFrames
  BY DEF StatementFrames, AtRest, Askers, Hosts, PinCount, ArgFrames
<1>3. PinsFit(f)
  BY <1>2, AppendIsJoin DEF PinsFit
<1>4. Top.at \in IF f.at \in StatementFrames THEN Hosts ELSE Askers
  BY <1>1, <1>2
<1> QED
  BY <1>2, <1>3, <1>4, PushMoves

(* A block opens a scope.                                                   *)
LEMMA EnterBlockMoves ==
    ASSUME Grounded, EnterBlock
    PROVE  Moves
<1> DEFINE f == Frame("block", Fresh)
<1>1. /\ ctl.mode = "block" /\ ~Unwinding /\ stack' = Append(stack, f)
      /\ ctl' = [mode |-> "resume", env |-> Nil, val |-> Scalar]
      /\ protect' = protect /\ signals' = signals /\ loopDepth' = loopDepth
  BY DEF EnterBlock, Resume, control
<1>2. IsFrame(f) /\ f.at = "block" /\ f.pinned = <<>>
  BY NewFrame
<1> HIDE DEF f
<1>3. loopDepth' = loopDepth + Loops(f)
  BY <1>1, <1>2 DEF Grounded, Loops, LoopFrames
<1> QED
  BY <1>1, <1>2, <1>3, HostPushes

(* A while loop enters its condition and counts itself.                     *)
LEMMA BeginWhileMoves ==
    ASSUME Grounded, BeginWhile
    PROVE  Moves
<1> DEFINE f == Frame("while_cond", ctl.env)
<1>1. /\ ctl.mode = "exec" /\ ~Unwinding /\ stack' = Append(stack, f)
      /\ ctl' = [mode |-> "eval", env |-> ctl.env, val |-> Scalar]
      /\ protect' = protect /\ signals' = signals /\ loopDepth' = loopDepth + 1
  BY DEF BeginWhile, StartWhile, Executing, Evaluate, memory
<1>2. IsFrame(f) /\ f.at = "while_cond" /\ f.pinned = <<>>
  BY NewFrame
<1> HIDE DEF f
<1>3. loopDepth' = loopDepth + Loops(f)
  BY <1>1, <1>2 DEF Loops, LoopFrames
<1>4. Top.at \in Hosts
  <2>1. Top.at \in AtRest("exec")
    BY <1>1, TopParts
  <2> QED
    BY <2>1 DEF AtRest
<1>5. /\ f.at \in StatementFrames /\ f.at \in AtRest("eval")
      /\ f.at \notin {"program", "activation", "return"}
  BY <1>2 DEF StatementFrames, AtRest, Askers
<1>6. PinsFit(f)
  BY <1>2, AppendIsJoin DEF PinsFit, PinCount
<1>7. Top.at \in IF f.at \in StatementFrames THEN Hosts ELSE Askers
  BY <1>4, <1>5
<1> QED
  BY <1>1, <1>2, <1>3, <1>5, <1>6, <1>7, PushMoves

(* A for loop opens its scope.                                              *)
LEMMA BeginForMoves ==
    ASSUME Grounded, BeginFor
    PROVE  Moves
<1> DEFINE f == Frame("for_init", Fresh)
<1>1. /\ ctl.mode = "exec" /\ ~Unwinding /\ stack' = Append(stack, f)
      /\ protect' = protect /\ signals' = signals /\ loopDepth' = loopDepth
      /\ \E m \in {"exec", "resume"} : \E e : ctl' = [mode |-> m, env |-> e, val |-> Scalar]
  BY DEF BeginFor, Executing, Execute, Resume, control
<1>2. PICK m \in {"exec", "resume"} : \E e : ctl' = [mode |-> m, env |-> e, val |-> Scalar]
  BY <1>1
<1>3. IsFrame(f) /\ f.at = "for_init" /\ f.pinned = <<>>
  BY NewFrame
<1> HIDE DEF f
<1>4. loopDepth' = loopDepth + Loops(f)
  BY <1>1, <1>3 DEF Grounded, Loops, LoopFrames
<1> QED
  BY <1>1, <1>2, <1>3, <1>4, HostPushes

(* A block goes on with its next statement.                                 *)
LEMMA NextStatementMoves ==
    ASSUME Grounded, NextStatement
    PROVE  Moves
<1>1. /\ ctl.mode = "resume" /\ Top.at = "block" /\ stack' = stack /\ ~Unwinding
      /\ ctl' = [mode |-> "exec", env |-> Top.env, val |-> Scalar]
      /\ UNCHANGED <<protect, signals, loopDepth, fuel>>
  BY DEF NextStatement, AtResume, Execute, memory, control
<1>2. Top.at \in AtRest("exec")
  BY <1>1 DEF AtRest, Hosts
<1> QED
  BY <1>1, <1>2, StayMoves

(* A block is over, at its end or because something unwinds.                *)
LEMMA LeaveBlockMoves ==
    ASSUME Grounded, LeaveBlock
    PROVE  Moves
<1>1. /\ ctl.mode = "resume" /\ Top.at = "block" /\ stack' = Below
      /\ ctl' = [mode |-> "resume", env |-> Nil, val |-> Scalar]
      /\ UNCHANGED <<protect, signals, loopDepth, fuel, hadError>>
  BY DEF LeaveBlock, LeaveBlockDropping, AtResume, Resume, control
<1>2. PinsFit(Top) /\ loopDepth \in Int
  BY <1>1, TopParts DEF Grounded
<1>3. /\ Top.at \in StatementFrames /\ Top.at \notin {"program", "activation"} \cup LoopBodies
      /\ Len(Top.pinned) = 0 /\ Loops(Top) = 0
  BY <1>1, <1>2 DEF StatementFrames, LoopBodies, LoopFrames, PinsFit, PinCount, ArgFrames, Loops
<1>4. loopDepth' = loopDepth - Loops(Top)
  BY <1>1, <1>2, <1>3
<1> QED
  BY <1>1, <1>3, <1>4, ReleaseMoves

(* An if takes a branch, or none.                                           *)
LEMMA IfMoves ==
    ASSUME Grounded, If
    PROVE  Moves
<1>1. /\ ctl.mode = "value" /\ Top.at = "if" /\ stack' = Below
      /\ protect' = protect /\ signals' = signals /\ loopDepth' = loopDepth
      /\ \E m \in {"resume", "block"} : \E e : ctl' = [mode |-> m, env |-> e, val |-> Scalar]
  BY DEF If, AtValue, Resume, ExecuteBlock, memory, control
<1>2. PICK m \in {"resume", "block"} : \E e : ctl' = [mode |-> m, env |-> e, val |-> Scalar]
  BY <1>1
<1> QED
  BY <1>1, <1>2, StatementEnds

(* An else-if takes the place of its if.                                    *)
LEMMA ElseIfMoves ==
    ASSUME Grounded, ElseIf
    PROVE  Moves
<1>1. /\ ctl.mode = "value" /\ Top.at = "if" /\ stack' = stack
      /\ ctl' = [mode |-> "eval", env |-> Top.env, val |-> Scalar]
      /\ UNCHANGED <<protect, signals, loopDepth>>
  BY DEF ElseIf, AtValue, Evaluate, memory, control
<1>2. Top.at \in AtRest("eval") /\ Top.at \notin Hosts
  BY <1>1 DEF AtRest, Askers, OperandFrames, Hosts
<1>3. ~signals.returning
  BY <1>1, Operands
<1> QED
  BY <1>1, <1>2, <1>3, StayMoves

-----------------------------------------------------------------------------
(* The loops, the signals and the program.                                  *)

(* A for loop counts itself after its initializer.                          *)
LEMMA ForInitDoneMoves ==
    ASSUME Grounded, ForInitDone
    PROVE  Moves
<1> DEFINE f == TopAt("for_test")
<1>1. /\ ctl.mode = "resume" /\ Top.at = "for_init" /\ stack' = Append(Below, f)
      /\ ctl' = [mode |-> "resume", env |-> Nil, val |-> Scalar]
      /\ loopDepth' = loopDepth + 1
      /\ UNCHANGED <<protect, signals, fuel>>
  BY DEF ForInitDone, AtResume, Resume, memory
<1>2. IsFrame(Top) /\ PinsFit(Top) /\ loopDepth \in Int
  BY <1>1, TopParts DEF Grounded
<1>3. IsFrame(f) /\ f.at = "for_test" /\ f.pinned = Top.pinned
  BY <1>2, MovedFrame DEF TopAt
<1> HIDE DEF f
<1>4. /\ Top.at \notin {"program", "activation", "return", "block"} \cup LoopBodies
      /\ f.at \notin {"program", "return", "activation"}
      /\ f.at \in StatementFrames /\ Top.at \in StatementFrames
      /\ f.at \in LoopFrames /\ Top.at \notin LoopFrames
      /\ f.at \in Hosts /\ f.at \in AtRest("resume")
  BY <1>1, <1>3 DEF StatementFrames, LoopFrames, LoopBodies, Hosts, AtRest
<1>5. loopDepth' = loopDepth + Loops(f) - Loops(Top)
  BY <1>1, <1>2, <1>4 DEF Loops
<1>6. PinsFit(f) /\ PinsBecome(f.pinned)
  BY <1>1, <1>2, <1>3, KeptPins DEF PinsFit, PinCount, ArgFrames
<1> QED
  BY <1>1, <1>3, <1>4, <1>5, <1>6, TurnMoves

(* A loop is over, and its body did not just run.                           *)
LEMMA LeaveLoopMoves ==
    ASSUME Grounded, ctl.mode \in {"resume", "value"}, Top.at \in LoopFrames \ LoopBodies,
           LeaveLoop, signals' = signals, fuel' = fuel
    PROVE  Moves
<1>1. /\ stack' = Below /\ ctl' = [mode |-> "resume", env |-> Nil, val |-> Scalar]
      /\ loopDepth' = loopDepth - 1
      /\ protect' = PopPins(Len(Top.pinned))
  BY DEF LeaveLoop, Resume
<1>2. /\ Top.at \in StatementFrames
      /\ Top.at \notin {"program", "activation", "block"} \cup LoopBodies
      /\ Loops(Top) = 1
  BY DEF LoopFrames, LoopBodies, StatementFrames, Loops
<1> QED
  BY <1>1, <1>2, ReleaseMoves

(* A loop goes on, from its test to its body.                               *)
LEMMA LoopTurns ==
    ASSUME Grounded, ctl.mode \in {"resume", "value"}, ~signals.returning,
           Top.at \in LoopFrames \ LoopBodies, NEW k \in LoopFrames,
           stack' = Append(Below, TopAt(k)), PinCount(k) = PinCount(Top.at),
           NEW m \in {"eval", "block"}, NEW e, ctl' = [mode |-> m, env |-> e, val |-> Scalar],
           k \in AtRest(m),
           protect' = protect, signals' = signals, loopDepth' = loopDepth
    PROVE  Moves
<1> DEFINE f == TopAt(k)
<1>2. IsFrame(Top) /\ PinsFit(Top) /\ loopDepth \in Int
  BY TopParts DEF Grounded
<1>3. IsFrame(f) /\ f.at = k /\ f.pinned = Top.pinned /\ stack' = Append(Below, f)
  BY <1>2, MovedFrame DEF TopAt
<1> HIDE DEF f
<1>4. /\ Top.at \notin {"program", "activation", "return", "block"} \cup LoopBodies
      /\ f.at \notin {"program", "return", "activation"}
      /\ f.at \in StatementFrames /\ Top.at \in StatementFrames
      /\ f.at \in LoopFrames /\ Top.at \in LoopFrames /\ Top.at \notin ArgFrames
  BY <1>3 DEF StatementFrames, LoopFrames, LoopBodies, ArgFrames
<1>5. loopDepth' = loopDepth + Loops(f) - Loops(Top)
  BY <1>2, <1>4 DEF Loops
<1>6. PinsFit(f) /\ PinsBecome(f.pinned) /\ f.at \in AtRest(m)
  BY <1>2, <1>3, <1>4, KeptPins DEF PinsFit
<1> QED
  BY <1>3, <1>4, <1>5, <1>6, TurnMoves

(* Before its condition a for loop can leave.                               *)
LEMMA ForTestMoves ==
    ASSUME Grounded, ForTest
    PROVE  Moves
<1>1. ctl.mode = "resume" /\ Top.at = "for_test" /\ signals' = signals /\ fuel' = fuel
      /\ Top.at \in LoopFrames \ LoopBodies
  BY DEF ForTest, ForTestUnless, AtResume, LoopFrames, LoopBodies
<1>2. CASE hadError \/ signals.returning
  <2>1. LeaveLoop
    BY <1>2 DEF ForTest, ForTestUnless
  <2> QED
    BY <1>1, <2>1, LeaveLoopMoves
<1>3. CASE ~(hadError \/ signals.returning)
  <2>1. ASSUME NEW k \in {"for_cond", "for_body"}, NEW m \in {"eval", "block"},
               k = "for_cond" <=> m = "eval",
               stack' = Append(Below, TopAt(k)), NEW e,
               ctl' = [mode |-> m, env |-> e, val |-> Scalar],
               protect' = protect, loopDepth' = loopDepth
        PROVE  Moves
    <3>1. k \in LoopFrames /\ PinCount(k) = PinCount(Top.at) /\ k \in AtRest(m)
      BY <1>1, <2>1 DEF LoopFrames, PinCount, AtRest, Askers, Hosts
    <3> QED
      BY <1>1, <1>3, <2>1, <3>1, LoopTurns
  <2>2. /\ \/ /\ stack' = Append(Below, TopAt("for_cond"))
              /\ ctl' = [mode |-> "eval", env |-> Top.env, val |-> Scalar]
           \/ /\ stack' = Append(Below, TopAt("for_body"))
              /\ ctl' = [mode |-> "block", env |-> Top.env, val |-> Scalar]
        /\ protect' = protect /\ loopDepth' = loopDepth
    BY <1>3 DEF ForTest, ForTestUnless, Evaluate, ExecuteBlock, memory
  <2> QED
    BY <2>1, <2>2
<1> QED
  BY <1>2, <1>3

(* A condition starts the body or ends the loop.                            *)
LEMMA ConditionMoves ==
    ASSUME Grounded, Condition
    PROVE  Moves
<1>1. PICK loop \in {<<"while_cond", "while_body">>, <<"for_cond", "for_body">>} :
          /\ AtValue(loop[1])
          /\ \/ (CanBeFalse(ctl.val) \/ hadError) /\ LeaveLoop
             \/ /\ ~hadError
                /\ ExecuteBlock(Append(Below, TopAt(loop[2])), Top.env)
                /\ UNCHANGED <<memory, loopDepth>>
          /\ UNCHANGED <<signals, hadError, modules, fuel>>
  BY DEF Condition
<1>2. /\ ctl.mode = "value" /\ Top.at = loop[1] /\ signals' = signals /\ fuel' = fuel
      /\ loop[1] \in LoopFrames \ LoopBodies
  BY <1>1 DEF AtValue, LoopFrames, LoopBodies
<1>3. CASE LeaveLoop
  BY <1>2, <1>3, LeaveLoopMoves
<1>4. CASE ~LeaveLoop
  <2>1. /\ stack' = Append(Below, TopAt(loop[2]))
        /\ ctl' = [mode |-> "block", env |-> Top.env, val |-> Scalar]
        /\ protect' = protect /\ loopDepth' = loopDepth
    BY <1>1, <1>4 DEF ExecuteBlock, memory
  <2>2. loop[2] \in LoopFrames /\ PinCount(loop[2]) = PinCount(loop[1]) /\ loop[2] \in AtRest("block")
    BY DEF LoopFrames, PinCount, AtRest, Hosts
  <2>3. ~signals.returning
    BY <1>2, Operands
  <2> QED
    BY <1>2, <2>1, <2>2, <2>3, LoopTurns
<1> QED
  BY <1>3, <1>4

(* A for-in loop pins its list and counts itself.                           *)
LEMMA BeginForInMoves ==
    ASSUME Grounded, BeginForIn
    PROVE  Moves
<1>1. ctl.mode = "value" /\ Top.at = "forin_list" /\ signals' = signals
  BY DEF BeginForIn, AtValue
<1>2. IsFrame(Top) /\ PinsFit(Top) /\ ~signals.returning /\ loopDepth \in Int
  BY <1>1, Operands
<1>3. CASE IsKind(ctl.val, {"list"})
  <2> DEFINE g == Frame("forin_next", Fresh)
             f == [g EXCEPT !.pinned = <<ctl.val>>]
  <2>1. /\ protect' = Append(protect, ctl.val) /\ loopDepth' = loopDepth + 1
        /\ stack' = Append(Below, f)
        /\ ctl' = [mode |-> "resume", env |-> Nil, val |-> Scalar]
    BY <1>3 DEF BeginForIn, Resume
  <2>2. Top.pinned = <<>>
    <3>1. Len(Top.pinned) = 0
      BY <1>1, <1>2 DEF PinsFit, PinCount, ArgFrames
    <3> QED
      BY <1>2, <3>1, SequenceParts DEF IsFrame
  <2>3. Append(Top.pinned, ctl.val) = <<ctl.val>>
    BY <2>2
  <2>4. PinsBecome(<<ctl.val>>) /\ IsSequence(<<ctl.val>>) /\ Len(<<ctl.val>>) = 1
    <3>1. /\ PinsBecome(Append(Top.pinned, ctl.val))
          /\ IsSequence(Append(Top.pinned, ctl.val))
      BY <1>2, <2>1, AddedPin
    <3> QED
      BY <2>3, <3>1
  <2>5. IsFrame(g) /\ g.at = "forin_next"
    BY NewFrame
  <2> HIDE DEF g
  <2>6. IsFrame(f) /\ f.at = "forin_next" /\ f.pinned = <<ctl.val>>
    BY <2>4, <2>5, RepinnedFrame
  <2> HIDE DEF f
  <2>7. /\ Top.at \notin {"program", "activation", "return", "block"} \cup LoopBodies
        /\ f.at \notin {"program", "return", "activation"}
        /\ f.at \in StatementFrames /\ Top.at \in StatementFrames
        /\ f.at \in LoopFrames /\ Top.at \notin LoopFrames
        /\ f.at \in AtRest("resume")
    BY <1>1, <2>6 DEF StatementFrames, LoopFrames, LoopBodies, AtRest
  <2>8. loopDepth' = loopDepth + Loops(f) - Loops(Top)
    BY <1>2, <2>1, <2>7 DEF Loops
  <2>9. PinsFit(f) /\ PinsBecome(f.pinned)
    BY <2>4, <2>6 DEF PinsFit, PinCount
  <2> QED
    BY <1>1, <1>2, <2>1, <2>6, <2>7, <2>8, <2>9, TurnMoves
<1>4. CASE ~IsKind(ctl.val, {"list"})
  <2>1. /\ stack' = Below /\ ctl' = [mode |-> "resume", env |-> Nil, val |-> Scalar]
        /\ protect' = protect /\ loopDepth' = loopDepth
    BY <1>4 DEF BeginForIn, StopWith, Resume, memory
  <2> QED
    BY <1>1, <2>1, StatementEnds
<1> QED
  BY <1>3, <1>4

(* It goes on with the next element, or ends and releases the list.         *)
LEMMA ForInNextMoves ==
    ASSUME Grounded, ForInNext
    PROVE  Moves
<1>1. /\ ctl.mode = "resume" /\ Top.at = "forin_next" /\ signals' = signals /\ fuel' = fuel
      /\ Top.at \in LoopFrames \ LoopBodies
  BY DEF ForInNext, AtResume, LoopFrames, LoopBodies
<1>2. CASE LeaveLoop
  BY <1>1, <1>2, LeaveLoopMoves
<1>3. CASE ~LeaveLoop
  <2>1. /\ stack' = Append(Below, TopAt("forin_body"))
        /\ ctl' = [mode |-> "block", env |-> Top.env, val |-> Scalar]
        /\ protect' = protect /\ loopDepth' = loopDepth
    BY <1>3 DEF ForInNext, ExecuteBlock
  <2>2. "forin_body" \in LoopFrames /\ PinCount("forin_body") = PinCount(Top.at)
        /\ "forin_body" \in AtRest("block")
    BY <1>1 DEF LoopFrames, PinCount, AtRest, Hosts
  <2>3. ~signals.returning
    BY <1>1, Gathering
  <2> QED
    BY <1>1, <2>1, <2>2, <2>3, LoopTurns
<1> QED
  BY <1>2, <1>3

(* A body is done: the loop goes on, consumes a signal, or ends.            *)
LEMMA BodyDoneMoves ==
    ASSUME Grounded, BodyDone
    PROVE  Moves
<1> DEFINE stops == signals.returning \/ (hadError /\ Top.at = "forin_body")
<1>1. PICK loop \in {<<"while_body", "while_cond">>, <<"for_body", "for_test">>,
                     <<"forin_body", "forin_next">>} :
        /\ AtResume(loop[1])
        /\ signals' = IF stops THEN signals ELSE Lowered
        /\ IF stops \/ signals.breaking
           THEN LeaveLoop
           ELSE /\ LET s == Append(Below, TopAt(loop[2]))
                   IN  \/ Top.at = "while_body" /\ Evaluate(s, Top.env)
                       \/ Top.at = "for_body" /\ fuel > 0 /\ Execute(s, Top.env)
                       \/ Top.at # "while_body" /\ Resume(s)
                /\ UNCHANGED <<memory, loopDepth>>
        /\ UNCHANGED <<hadError, modules, fuel>>
  BY DEF BodyDone, AfterBody, Lowered
<1>2. /\ ctl.mode = "resume" /\ Top.at = loop[1] /\ loop[1] \in LoopBodies /\ loop[1] \in LoopFrames
      /\ hadError' = hadError /\ fuel' = fuel
  BY <1>1 DEF AtResume, LoopBodies, LoopFrames
<1>3. IsFrame(Top) /\ PinsFit(Top) /\ loopDepth \in Int
  BY <1>2, TopParts DEF Grounded
<1>4. /\ Top.at \in StatementFrames /\ Loops(Top) = 1
      /\ Top.at \notin {"program", "activation", "return"} /\ Top.at \notin ArgFrames
  BY <1>2 DEF StatementFrames, Loops, LoopBodies, ArgFrames
<1>5. CASE stops \/ signals.breaking
  <2>1. /\ stack' = Below /\ ctl' = [mode |-> "resume", env |-> Nil, val |-> Scalar]
        /\ loopDepth' = loopDepth - 1 /\ protect' = PopPins(Len(Top.pinned))
    BY <1>1, <1>5 DEF LeaveLoop, Resume
  <2>2. Releases
    <3>1. CASE stops
      BY <1>1, <1>4, <2>1, <3>1 DEF Releases
    <3>2. CASE ~stops
      BY <1>1, <1>2, <1>4, <2>1, <3>2 DEF Releases
    <3> QED
      BY <3>1, <3>2
  <2>3. Pops
    BY <1>2, <1>4, <2>1, <2>2 DEF Pops
  <2> QED
    BY <1>2, <2>1, <2>3, NewControl DEF Moves
<1>6. CASE ~(stops \/ signals.breaking)
  <2> DEFINE f == TopAt(loop[2])
  <2>1. signals' = Lowered /\ ~signals.returning /\ protect' = protect /\ loopDepth' = loopDepth
    BY <1>1, <1>6 DEF memory
  <2>2. IsFrame(f) /\ f.at = loop[2] /\ f.pinned = Top.pinned
    BY <1>3, MovedFrame DEF TopAt
  <2>3. stack' = Append(Below, f)
        /\ \/ Top.at = "while_body" /\ ctl' = [mode |-> "eval", env |-> Top.env, val |-> Scalar]
           \/ Top.at = "for_body" /\ ctl' = [mode |-> "exec", env |-> Top.env, val |-> Scalar]
           \/ Top.at # "while_body" /\ ctl' = [mode |-> "resume", env |-> Nil, val |-> Scalar]
    BY <1>1, <1>6 DEF Evaluate, Execute, Resume
  <2> HIDE DEF f
  <2>4. PICK m \in {"eval", "exec", "resume"} :
            /\ \E e : ctl' = [mode |-> m, env |-> e, val |-> Scalar]
            /\ m = "eval" <=> Top.at = "while_body"
            /\ m = "exec" => Top.at = "for_body"
    BY <2>3
  <2>5. /\ loop[2] \in StatementFrames /\ loop[2] \in LoopFrames /\ loop[2] \notin ArgFrames
        /\ loop[2] \in AtRest(m) /\ PinCount(loop[2]) = PinCount(Top.at)
        /\ loop[2] \notin {"program", "return", "activation"}
    BY <1>2, <2>4 DEF StatementFrames, LoopFrames, ArgFrames, AtRest, Askers, Hosts, PinCount
  <2>6. PinsFit(f) /\ PinsBecome(f.pinned) /\ Loops(f) = 1
    BY <1>3, <1>4, <2>1, <2>2, <2>5, KeptPins DEF PinsFit, Loops
  <2>7. IsControl(ctl') /\ ctl'.mode = m
    BY <2>4, NewControl
  <2>8. loopDepth' = loopDepth + Loops(f) - Loops(Top)
    BY <1>3, <1>4, <2>1, <2>6
  <2>9. Turns(f)
    BY <1>2, <1>4, <2>1, <2>2, <2>3, <2>5, <2>6, <2>7, <2>8 DEF Turns
  <2> QED
    BY <1>2, <2>7, <2>9 DEF Moves
<1> QED
  BY <1>5, <1>6

(* A break or continue goes up, or fails.                                   *)
LEMMA BreakOrContinueMoves ==
    ASSUME Grounded, BreakOrContinue
    PROVE  Moves
<1>1. /\ ctl.mode = "exec" /\ ~Unwinding /\ ~hadError /\ MayBreak /\ stack' = stack
      /\ ctl' = [mode |-> "resume", env |-> Nil, val |-> Scalar]
      /\ UNCHANGED <<protect, loopDepth>>
  BY DEF BreakOrContinue, SignalUnless, Executing, Resume, memory
<1>2. \/ signals' = signals
      \/ /\ loopDepth # 0 /\ hadError' = hadError
         /\ \E k \in {"breaking", "continuing"} : signals' = [signals EXCEPT ![k] = TRUE]
  BY DEF BreakOrContinue, SignalUnless
<1>3. Top.at \in Hosts /\ Top.at \in AtRest("resume") /\ ~signals.returning
  <2>1. Top.at \in AtRest("exec")
    BY <1>1, TopParts
  <2> QED
    BY <1>1, <2>1 DEF AtRest, Unwinding
<1>4. Stays
  <2>1. CASE signals' = signals
    BY <1>1, <1>3, <2>1 DEF Stays
  <2>2. CASE signals' # signals
    <3>1. Signals
      BY <1>1, <1>2, <1>3, <2>2 DEF Signals
    <3> QED
      BY <1>1, <1>3, <3>1 DEF Stays
  <2> QED
    BY <2>1, <2>2
<1> QED
  BY <1>1, <1>3, <1>4, NewControl DEF Moves

(* A return goes up with its value pinned.                                  *)
LEMMA ReturnMoves ==
    ASSUME Grounded, Return
    PROVE  Moves
<1>1. /\ ctl.mode = "value" /\ Top.at = "return" /\ stack' = Below
      /\ ctl' = [mode |-> "resume", env |-> Nil, val |-> Scalar]
      /\ signals' = [signals EXCEPT !.returning = TRUE, !.value = ctl.val]
      /\ protect' = Append(protect, ctl.val) /\ loopDepth' = loopDepth
  BY DEF Return, AtValue, Resume
<1>2. RaisesReturn
  BY <1>1 DEF RaisesReturn
<1>3. loopDepth \in Int /\ ~signals.returning
  BY <1>1, Operands
<1>4. loopDepth' = loopDepth - Loops(Top)
  BY <1>1, <1>3 DEF Loops, LoopFrames
<1>5. Pops
  BY <1>1, <1>2, <1>4 DEF Pops, StatementFrames, LoopBodies
<1> QED
  BY <1>1, <1>3, <1>5, NewControl DEF Moves

(* A function definition stays where it is.                                 *)
LEMMA DefineFunctionMoves ==
    ASSUME Grounded, DefineFunction
    PROVE  Moves
<1>1. /\ ctl.mode = "exec" /\ ~Unwinding /\ stack' = stack
      /\ ctl' = [mode |-> "resume", env |-> Nil, val |-> Scalar]
      /\ UNCHANGED <<protect, signals, loopDepth>>
  BY DEF DefineFunction, Executing, Resume, control
<1>2. Top.at \in AtRest("resume") /\ ~signals.returning
  <2>1. Top.at \in AtRest("exec")
    BY <1>1, TopParts
  <2> QED
    BY <1>1, <2>1 DEF AtRest, Unwinding
<1> QED
  BY <1>1, <1>2, StayMoves

(* Every step of exec_stmt is one of the kinds.                             *)
LEMMA StatementMoves ==
    ASSUME Grounded, Statement
    PROVE  Moves
BY SkipMoves, BeginStatementMoves, ExpressionStatementMoves, AssignMoves, FieldTargetMoves,
   FieldAssignMoves, IndexAssignMoves, EnterBlockMoves, NextStatementMoves, LeaveBlockMoves,
   IfMoves, ElseIfMoves, BeginWhileMoves, BeginForMoves, ForInitDoneMoves, ForTestMoves,
   ConditionMoves, BeginForInMoves, ForInNextMoves, BodyDoneMoves, BreakOrContinueMoves,
   ReturnMoves, DefineFunctionMoves DEF Statement

(* An import finds its module, starts to load it, or fails.                 *)
LEMMA ImportMoves ==
    ASSUME Grounded, Import
    PROVE  Moves
<1>1. /\ ctl.mode = "exec" /\ ~Unwinding
      /\ UNCHANGED <<protect, signals, loopDepth>>
      /\ ctl' = [mode |-> "resume", env |-> Nil, val |-> Scalar]
      /\ stack' = stack \/ stack' = Append(stack, ArgFrame("module", ctl.env, Fresh))
  BY DEF Import, ImportInto, Executing, Resume, StopWith, control
<1>2. Top.at \in AtRest("resume") /\ ~signals.returning
  <2>1. Top.at \in AtRest("exec")
    BY <1>1, TopParts
  <2> QED
    BY <1>1, <2>1 DEF AtRest, Unwinding
<1>3. CASE stack' = stack
  BY <1>1, <1>2, <1>3, StayMoves
<1>4. CASE stack' = Append(stack, ArgFrame("module", ctl.env, Fresh))
  <2> DEFINE f == ArgFrame("module", ctl.env, Fresh)
  <2>1. IsFrame(f) /\ f.at = "module" /\ f.pinned = <<>> /\ stack' = Append(stack, f)
    BY <1>4, NewFrame
  <2> HIDE DEF f
  <2>2. loopDepth' = loopDepth + Loops(f)
    BY <1>1, <2>1 DEF Grounded, Loops, LoopFrames
  <2> QED
    BY <1>1, <2>1, <2>2, HostPushes
<1> QED
  BY <1>1, <1>3, <1>4

(* The next statement of the program or a module is executed.               *)
LEMMA NextTopLevelStatementMoves ==
    ASSUME Grounded, NextTopLevelStatement
    PROVE  Moves
<1>1. /\ ctl.mode = "resume" /\ Top.at \in {"module", "program"} /\ stack' = stack
      /\ \E e : ctl' = [mode |-> "exec", env |-> e, val |-> Scalar]
      /\ UNCHANGED <<protect, signals, loopDepth, fuel, hadError>>
  BY DEF NextTopLevelStatement, AtResume, Execute, memory, control
<1>2. Top.at \in AtRest("exec")
  BY <1>1 DEF AtRest, Hosts
<1>3. PICK e : ctl' = [mode |-> "exec", env |-> e, val |-> Scalar]
  BY <1>1
<1> QED
  BY <1>1, <1>2, <1>3, StayMoves

(* The loading of a module is over.                                         *)
LEMMA ModuleMoves ==
    ASSUME Grounded, ModuleFailed \/ ModuleLoaded
    PROVE  Moves
<1>1. /\ ctl.mode = "resume" /\ Top.at = "module" /\ stack' = Below
      /\ ctl' = [mode |-> "resume", env |-> Nil, val |-> Scalar]
      /\ UNCHANGED <<protect, signals, loopDepth, fuel>>
  BY DEF ModuleFailed, ModuleLoaded, CacheAndBind, AtResume, Resume, memory, control
<1>2. PinsFit(Top) /\ loopDepth \in Int
  BY <1>1, TopParts DEF Grounded
<1>3. /\ Top.at \in StatementFrames
      /\ Top.at \notin {"program", "activation", "block"} \cup LoopBodies
      /\ Len(Top.pinned) = 0 /\ loopDepth' = loopDepth - Loops(Top)
  BY <1>1, <1>2 DEF StatementFrames, LoopBodies, Loops, LoopFrames, PinsFit, PinCount, ArgFrames
<1> QED
  BY <1>1, <1>3, ReleaseMoves

(* The end of the program empties the stack.                                *)
LEMMA FinishMoves ==
    ASSUME Grounded, Finish
    PROVE  Moves
<1>1. /\ ctl.mode = "resume" /\ Top.at = "program" /\ stack' = <<>>
      /\ ctl' = [ctl EXCEPT !.mode = "done"]
      /\ UNCHANGED <<protect, signals, loopDepth, fuel>>
  BY DEF Finish, DropAndCollect, AtResume, control
<1>2. ctl' = [mode |-> "done", env |-> ctl.env, val |-> ctl.val]
  BY <1>1 DEF Grounded, IsControl
<1>3. Ends
  BY <1>1, <1>2, NewControl DEF Ends
<1> QED
  BY <1>1, <1>2, <1>3, NewControl DEF Moves

(* So is every step of the evaluator.                                       *)
LEMMA StepMoves ==
    ASSUME Grounded, Step
    PROVE  Moves /\ constructs' = constructs /\ ctl.mode # "done"
<1>1. constructs' = constructs
  BY DEF Step
<1>2. Moves
  BY ExpressionMoves, StatementMoves, ImportMoves, NextTopLevelStatementMoves, ModuleMoves,
     FinishMoves DEF Step, Program
<1>3. ctl.mode # "done"
  <2>1. CASE ctl.mode \in {"eval", "value", "exec", "block", "resume"}
    BY <2>1
  <2>2. CASE ctl.mode \notin {"eval", "value", "exec", "block", "resume"}
    <3>1. ~Expression
      BY <2>2 DEF Expression, Leaf, BeginOperand, Unary, NextOperand, Binary, BeginCall, Callee,
                  CalleeReturned, Receiver, NextArgument, Argument, BadArguments,
                  ConstructStruct, CallFunction, CallMethod, ReturnFromBody, CallBuiltin,
                  BeginContainer, NextElement, ListElement, MapValue, EndContainer, Index, Field,
                  Evaluating, AtEval, AtValue, AtResume, AtArguments, AtContainer,
                  ApplyCallee, LeaveBody
    <3>2. ~Statement
      BY <2>2 DEF Statement, Skip, BeginStatement, ExpressionStatement, Assign, FieldTarget,
                  FieldAssign, IndexAssign, StoreIndexed, EnterBlock, NextStatement, LeaveBlock,
                  LeaveBlockDropping, If, ElseIf, BeginWhile, StartWhile, BeginFor, ForInitDone,
                  ForTest, ForTestUnless, Condition, BeginForIn, ForInNext, BodyDone, AfterBody,
                  BreakOrContinue, SignalUnless, Return, DefineFunction, Executing, AtValue,
                  AtResume
    <3>3. ~Program
      BY <2>2 DEF Program, Import, ImportInto, NextTopLevelStatement, ModuleFailed, ModuleLoaded,
                  CacheAndBind, Finish, DropAndCollect, Executing, AtResume
    <3> QED
      BY <3>1, <3>2, <3>3 DEF Step
  <2> QED
    BY <2>1, <2>2
<1> QED
  BY <1>1, <1>2, <1>3

-----------------------------------------------------------------------------
(* The stack stays in order.                                                *)

Ordered(s) == \A i \in DOMAIN s : Fits(s, i)

(* Who may start an activation at point k.                                  *)
Starters(k) == IF k \in StatementFrames THEN Hosts ELSE Askers

(* A stack is in order if it was without its top and the top fits on it.    *)
LEMMA AppendOrdered ==
    ASSUME NEW s, IsStack(s), NEW f, IsFrame(f)
    PROVE  Ordered(Append(s, f)) <=>
              /\ Ordered(s)
              /\ f.at = "program" <=> s = <<>>
              /\ s # <<>> => s[Len(s)].at \in Starters(f.at)
              /\ PinsFit(f)
<1> DEFINE t == Append(s, f)
<1> PICK n \in Nat : n = Len(s)
  BY StackWith
<1>1. /\ DOMAIN s = 1 .. n /\ DOMAIN t = 1 .. n + 1
      /\ \A i \in 1 .. n : t[i] = s[i]
      /\ t[n + 1] = f
      /\ s = <<>> <=> n = 0
  BY StackWith, SequenceParts DEF IsStack
<1> HIDE DEF t
<1>2. ASSUME NEW i \in 1 .. n PROVE Fits(t, i) <=> Fits(s, i)
  <2>1. i > 1 => i - 1 \in 1 .. n
    OBVIOUS
  <2> QED
    BY <1>1, <2>1 DEF Fits
<1>3. Fits(t, n + 1) <=> /\ f.at = "program" <=> s = <<>>
                         /\ s # <<>> => s[n].at \in Starters(f.at)
                         /\ PinsFit(f)
  <2>1. (n + 1 = 1 <=> s = <<>>) /\ (n + 1 > 1 <=> s # <<>>) /\ n + 1 - 1 = n
    BY <1>1
  <2>2. n + 1 > 1 => t[n] = s[n]
    BY <1>1
  <2> QED
    BY <1>1, <2>1, <2>2 DEF Fits, Starters, PinsFit
<1>4. Ordered(t) <=> (\A i \in 1 .. n : Fits(t, i)) /\ Fits(t, n + 1)
  <2>1. \A i \in 1 .. n + 1 : i \in 1 .. n \/ i = n + 1
    OBVIOUS
  <2>2. (\A i \in 1 .. n : i \in 1 .. n + 1) /\ n + 1 \in 1 .. n + 1
    OBVIOUS
  <2> QED
    BY <1>1, <2>1, <2>2 DEF Ordered
<1>5. Ordered(s) <=> \A i \in 1 .. n : Fits(t, i)
  BY <1>1, <1>2 DEF Ordered
<1> QED
  BY <1>3, <1>4, <1>5 DEF t

(* Before a step, the stack is Below, which is in order, and Top.           *)
LEMMA BelowOrdered ==
    ASSUME Grounded, ctl.mode # "done"
    PROVE  /\ Ordered(stack) /\ Ordered(Below)
           /\ Top.at = "program" <=> Below = <<>>
           /\ Below # <<>> => Below[Len(Below)].at \in Starters(Top.at)
           /\ PinsFit(Top)
<1>1. IsStack(Below) /\ IsFrame(Top) /\ stack = Append(Below, Top)
  BY TopParts
<1>2. Ordered(stack)
  BY DEF Grounded, Disciplined, Ordered
<1> QED
  BY <1>1, <1>2, AppendOrdered

(* A new top.                                                               *)
LEMMA NewTop ==
    ASSUME NEW s, IsStack(s), Ordered(s), NEW f, IsFrame(f), PinsFit(f),
           f.at = "program" <=> s = <<>>,
           s # <<>> => s[Len(s)].at \in Starters(f.at)
    PROVE  LET t == Append(s, f)
           IN  IsStack(t) /\ Ordered(t) /\ t # <<>> /\ t[Len(t)] = f
BY AppendOrdered, StackWith

(* What a step makes of the stack.                                          *)
LEMMA StackAfter ==
    ASSUME Grounded, ctl.mode # "done", Moves
    PROVE  /\ IsStack(stack') /\ Ordered(stack')
           /\ stack' = <<>> <=> ctl'.mode = "done"
           /\ stack' # <<>> => stack'[Len(stack')].at \in AtRest(ctl'.mode)
<1>1. /\ IsStack(Below) /\ IsFrame(Top) /\ stack = Append(Below, Top) /\ IsStack(stack)
      /\ stack # <<>> /\ Top = stack[Len(stack)]
  BY TopParts DEF Top
<1>2. /\ Ordered(stack) /\ Ordered(Below) /\ PinsFit(Top)
      /\ Top.at = "program" <=> Below = <<>>
      /\ Below # <<>> => Below[Len(Below)].at \in Starters(Top.at)
  BY BelowOrdered
<1>3. ASSUME NEW f, Pushes(f) PROVE stack' = Append(stack, f) /\ IsFrame(f) /\ PinsFit(f)
            /\ f.at # "program" /\ Top.at \in Starters(f.at) /\ f.at \in AtRest(ctl'.mode)
            /\ ctl'.mode # "done"
  BY <1>3 DEF Pushes, Starters
<1>4. CASE \E f : Pushes(f)
  <2>1. PICK f : Pushes(f)
    BY <1>4
  <2> DEFINE t == Append(stack, f)
  <2>2. IsStack(t) /\ Ordered(t) /\ t # <<>> /\ t[Len(t)] = f
    BY <1>1, <1>2, <1>3, <2>1, NewTop
  <2> QED
    BY <1>3, <2>1, <2>2
<1>5. CASE \E f : Turns(f)
  <2>1. PICK f : Turns(f)
    BY <1>5
  <2>2. /\ stack' = Append(Below, f) /\ IsFrame(f) /\ PinsFit(f) /\ f.at # "program"
        /\ Top.at # "program" /\ Starters(f.at) = Starters(Top.at)
        /\ f.at \in AtRest(ctl'.mode) /\ ctl'.mode # "done"
    BY <2>1 DEF Turns, Starters
  <2> DEFINE t == Append(Below, f)
  <2>3. IsStack(t) /\ Ordered(t) /\ t # <<>> /\ t[Len(t)] = f
    BY <1>1, <1>2, <2>2, NewTop
  <2> QED
    BY <2>2, <2>3
<1>6. CASE CallsValue
  <2>1. PICK f, g :
            /\ stack' = Append(Append(Below, f), g)
            /\ IsFrame(f) /\ IsFrame(g) /\ Top.at = "callee"
            /\ f.at = "callv" /\ g.at = "arg_function" /\ f.pinned = <<ctl.val>>
            /\ ctl'.mode = "resume"
    BY <1>6 DEF CallsValue
  <2> DEFINE b == Append(Below, f)
             t == Append(b, g)
  <2>2. /\ PinsFit(f) /\ PinsFit(g) /\ Starters(f.at) = Starters(Top.at)
        /\ f.at \in Starters(g.at) /\ g.at \in AtRest("resume")
    <3>1. Len(<<ctl.val>>) = 1
      OBVIOUS
    <3> QED
      BY <2>1, <3>1 DEF PinsFit, PinCount, ArgFrames, Starters, StatementFrames, Askers,
                        OperandFrames, AtRest
  <2>3. IsStack(b) /\ Ordered(b) /\ b # <<>> /\ b[Len(b)] = f
    BY <1>1, <1>2, <2>1, <2>2, NewTop
  <2> HIDE DEF b
  <2>4. IsStack(t) /\ Ordered(t) /\ t # <<>> /\ t[Len(t)] = g
    BY <2>1, <2>2, <2>3, NewTop
  <2> QED
    BY <2>1, <2>2, <2>4 DEF b
<1>7. CASE Pops
  <2>1. /\ stack' = Below /\ Top.at # "program"
        /\ ctl'.mode \in IF Top.at \in StatementFrames THEN {"resume", "block"} ELSE {"value"}
    BY <1>7 DEF Pops
  <2>2. Below # <<>> /\ Below[Len(Below)].at \in Starters(Top.at)
    BY <1>2, <2>1
  <2>3. Below[Len(Below)].at \in AtRest(ctl'.mode) /\ ctl'.mode # "done"
    BY <2>1, <2>2 DEF Starters, AtRest
  <2> QED
    BY <1>1, <1>2, <2>1, <2>2, <2>3
<1>8. CASE Stays
  BY <1>1, <1>2, <1>8 DEF Stays
<1>9. CASE Ends
  <2>1. stack' = <<>> /\ ctl'.mode = "done"
    BY <1>9 DEF Ends
  <2>2. IsStack(<<>>) /\ Ordered(<<>>)
    <3>1. IsSequence(<<>>) /\ DOMAIN <<>> = {}
      <4>1. <<>> \in Seq({}) /\ Len(<<>>) = 0
        BY EmptySeq
      <4>2. IsSequence(<<>>)
        BY <4>1, SequenceOfAnything
      <4> QED
        BY <4>1, <4>2, SequenceParts
    <3> QED
      BY <3>1 DEF IsStack, Ordered
  <2> QED
    BY <2>1, <2>2
<1> QED
  BY <1>4, <1>5, <1>6, <1>7, <1>8, <1>9 DEF Moves

(* Lowering another flag leaves the return flag alone.                      *)
LEMMA LoweredIsSignal ==
    ASSUME NEW s, IsSignal(s), NEW k \in {"breaking", "continuing"},
           NEW t, t = [s EXCEPT ![k] = FALSE]
    PROVE  IsSignal(t) /\ t.returning = s.returning
BY DEF IsSignal

(* A return stays on its way out: no expression is evaluated meanwhile.     *)
LEMMA ReturningAfter ==
    ASSUME Grounded, ctl.mode # "done", Moves
    PROVE  Returning' /\ IsSignal(signals')
<1>1. /\ IsStack(Below) /\ IsFrame(Top) /\ stack = Append(Below, Top) /\ IsStack(stack)
      /\ stack # <<>>
      /\ signals.returning => ctl.mode \in {"resume", "exec", "block"} /\ Top.at \in Hosts
      /\ IsSignal(signals)
  BY TopParts DEF Grounded
<1>2. /\ Top.at = "program" <=> Below = <<>>
      /\ Below # <<>> => Below[Len(Below)].at \in Starters(Top.at)
  BY BelowOrdered
<1>3. IsSignal(Lowered) /\ Lowered.returning = signals.returning
  <2>1. CASE signals.breaking
    <3>1. Lowered = [signals EXCEPT !["breaking"] = FALSE]
      BY <2>1 DEF Lowered
    <3> QED
      BY <1>1, <3>1, LoweredIsSignal
  <2>2. CASE ~signals.breaking
    <3>1. Lowered = [signals EXCEPT !["continuing"] = FALSE]
      BY <2>2 DEF Lowered
    <3> QED
      BY <1>1, <3>1, LoweredIsSignal
  <2> QED
    BY <2>1, <2>2
<1>4. CASE \E f : Pushes(f)
  BY <1>1, <1>4 DEF Pushes, Returning
<1>5. CASE \E f : Turns(f)
  <2>1. PICK f : Turns(f)
    BY <1>5
  <2>2. IsSignal(signals') /\ signals'.returning = signals.returning
    BY <1>1, <1>3, <2>1 DEF Turns
  <2>3. /\ stack' = Append(Below, f) /\ IsFrame(f)
        /\ signals.returning => f.at \in Hosts /\ ctl'.mode = "resume"
    BY <2>1 DEF Turns
  <2>4. Append(Below, f)[Len(Append(Below, f))] = f
    BY <1>1, <2>3, StackWith
  <2> QED
    BY <2>2, <2>3, <2>4 DEF Returning, Top
<1>6. CASE CallsValue
  <2>1. ctl.mode = "value" /\ signals' = signals
    BY <1>6 DEF CallsValue
  <2> QED
    BY <1>1, <2>1 DEF Returning
<1>7. CASE Pops
  <2>1. /\ stack' = Below /\ Top.at # "program"
        /\ ctl'.mode \in IF Top.at \in StatementFrames THEN {"resume", "block"} ELSE {"value"}
        /\ signals.returning => ctl'.mode # "block"
        /\ Releases \/ RaisesReturn \/ ReceivesReturn
    BY <1>7 DEF Pops
  <2>2. Below # <<>> /\ Below[Len(Below)].at \in Starters(Top.at)
    BY <1>2, <2>1
  <2>3. CASE Releases
    <3>1. IsSignal(signals') /\ signals'.returning = signals.returning /\ Top.at # "activation"
      BY <1>1, <1>3, <2>3 DEF Releases
    <3>2. signals.returning => Top.at \in StatementFrames
      BY <1>1, <2>1, <3>1 DEF Hosts, StatementFrames
    <3> QED
      BY <2>1, <2>2, <3>1, <3>2 DEF Returning, Top, Starters
  <2>4. CASE RaisesReturn
    <3>1. Top.at \in StatementFrames /\ Below[Len(Below)].at \in Hosts
      BY <2>2, <2>4 DEF RaisesReturn, StatementFrames, Starters
    <3>2. IsSignal(signals')
      BY <1>1, <2>4 DEF RaisesReturn, IsSignal
    <3> QED
      BY <2>1, <3>1, <3>2 DEF Returning, Top
  <2>5. CASE ReceivesReturn
    BY <1>1, <2>5 DEF ReceivesReturn, Returning, IsSignal
  <2> QED
    BY <2>1, <2>3, <2>4, <2>5
<1>8. CASE Stays
  <2>1. /\ stack' = stack /\ Top.at \in AtRest(ctl'.mode) /\ ctl'.mode # "done"
        /\ \/ /\ signals' = signals
              /\ Unwinding /\ Top.at \in Hosts => ctl'.mode \in {"resume", "exec", "block"}
           \/ Signals
    BY <1>8 DEF Stays
  <2>2. CASE signals' = signals
    BY <1>1, <2>1, <2>2 DEF Returning, Top, Unwinding, Signals
  <2>3. CASE Signals
    BY <1>1, <2>1, <2>3 DEF Signals, Returning, IsSignal, Unwinding
  <2> QED
    BY <2>1, <2>2, <2>3
<1>9. CASE Ends
  BY <1>1, <1>9 DEF Ends, Returning
<1> QED
  BY <1>4, <1>5, <1>6, <1>7, <1>8, <1>9 DEF Moves

-----------------------------------------------------------------------------
(* The loops of the innermost function.                                     *)

(* The loops among the first m frames of s that are not around a call.      *)
LoopsIn(s, m) ==
    {i \in 1 .. m : /\ s[i].at \in LoopFrames
                    /\ \A j \in 1 .. m : s[j].at \in {"activation", "program"} => j < i}

Depth(s) == Cardinality(LoopsIn(s, Len(s)))

(* Every activation has put aside the number of loops around its call.      *)
Counted(s) ==
    \A k \in DOMAIN s : s[k].at = "activation" => s[k].n = Cardinality(LoopsIn(s, k - 1))

(* The loops around a new top.                                              *)
LEMMA DepthOfAppend ==
    ASSUME NEW s, IsStack(s), NEW f, IsFrame(f)
    PROVE  /\ Depth(s) \in Nat
           /\ Depth(Append(s, f)) =
                 IF f.at \in {"activation", "program"} THEN 0 ELSE Depth(s) + Loops(f)
           /\ Counted(Append(s, f)) <=> Counted(s) /\ (f.at = "activation" => f.n = Depth(s))
<1> DEFINE t == Append(s, f)
<1> PICK n \in Nat : n = Len(s)
  BY StackWith
<1>1. /\ DOMAIN s = 1 .. n /\ DOMAIN t = 1 .. n + 1 /\ Len(t) = n + 1
      /\ \A i \in 1 .. n : t[i] = s[i]
      /\ t[n + 1] = f
  BY StackWith
<1> HIDE DEF t
<1>2. ASSUME NEW m \in 0 .. n PROVE LoopsIn(t, m) = LoopsIn(s, m)
  <2>1. \A i \in 1 .. m : i \in 1 .. n
    OBVIOUS
  <2> QED
    BY <1>1, <2>1 DEF LoopsIn
<1>3. IsFiniteSet(LoopsIn(s, n)) /\ n + 1 \notin LoopsIn(s, n)
  <2>1. LoopsIn(s, n) \subseteq 1 .. n
    BY DEF LoopsIn
  <2>2. IsFiniteSet(1 .. n)
    BY FS_Interval
  <2>3. IsFiniteSet(LoopsIn(s, n))
    BY <2>1, <2>2, FS_Subset
  <2> QED
    BY <2>1, <2>3
<1>4. Depth(s) \in Nat
  BY <1>3, FS_CardinalityType DEF Depth
<1>5. LoopsIn(t, n + 1) =
          IF f.at \in {"activation", "program"} THEN {}
          ELSE IF f.at \in LoopFrames THEN LoopsIn(s, n) \cup {n + 1} ELSE LoopsIn(s, n)
  <2>0. \A i \in 1 .. n + 1 : i \in 1 .. n \/ i = n + 1
    OBVIOUS
  <2>1. CASE f.at \in {"activation", "program"}
    <3>1. ASSUME NEW i \in LoopsIn(t, n + 1) PROVE FALSE
      <4>1. i \in 1 .. n + 1 /\ n + 1 \in 1 .. n + 1 /\ n + 1 < i
        BY <1>1, <2>1, <3>1 DEF LoopsIn
      <4> QED
        BY <4>1
    <3> QED
      BY <2>1, <3>1
  <2>2. CASE f.at \notin {"activation", "program"}
    <3>1. ASSUME NEW i \in 1 .. n
          PROVE  i \in LoopsIn(t, n + 1) <=> i \in LoopsIn(s, n)
      <4>1. i \in 1 .. n + 1
        OBVIOUS
      <4>2. (\A j \in 1 .. n + 1 : t[j].at \in {"activation", "program"} => j < i)
            <=> (\A j \in 1 .. n : s[j].at \in {"activation", "program"} => j < i)
        <5>1. \A j \in 1 .. n : j \in 1 .. n + 1
          OBVIOUS
        <5> QED
          BY <1>1, <2>0, <2>2, <5>1
      <4> QED
        BY <1>1, <4>1, <4>2 DEF LoopsIn
    <3>2. n + 1 \in LoopsIn(t, n + 1) <=> f.at \in LoopFrames
      <4>1. \A j \in 1 .. n + 1 : t[j].at \in {"activation", "program"} => j < n + 1
        BY <1>1, <2>0, <2>2
      <4> QED
        BY <1>1, <4>1 DEF LoopsIn
    <3>3. LoopsIn(t, n + 1) \subseteq 1 .. n + 1 /\ LoopsIn(s, n) \subseteq 1 .. n
      BY DEF LoopsIn
    <3>4. CASE f.at \in LoopFrames
      <4>1. LoopsIn(t, n + 1) \subseteq LoopsIn(s, n) \cup {n + 1}
        BY <2>0, <3>1, <3>3
      <4>2. LoopsIn(s, n) \cup {n + 1} \subseteq LoopsIn(t, n + 1)
        BY <3>1, <3>2, <3>3, <3>4
      <4>3. LoopsIn(t, n + 1) = LoopsIn(s, n) \cup {n + 1}
        BY <4>1, <4>2
      <4> QED
        BY <2>2, <3>4, <4>3
    <3>5. CASE f.at \notin LoopFrames
      <4>1. LoopsIn(t, n + 1) \subseteq LoopsIn(s, n)
        BY <2>0, <3>1, <3>2, <3>3, <3>5
      <4>2. LoopsIn(s, n) \subseteq LoopsIn(t, n + 1)
        BY <3>1, <3>3
      <4>3. LoopsIn(t, n + 1) = LoopsIn(s, n)
        BY <4>1, <4>2
      <4> QED
        BY <2>2, <3>5, <4>3
    <3> QED
      BY <3>4, <3>5
  <2> QED
    BY <2>1, <2>2
<1>6. Depth(t) = IF f.at \in {"activation", "program"} THEN 0 ELSE Depth(s) + Loops(f)
  <2>1. Cardinality({}) = 0
    BY FS_EmptySet
  <2>2. Cardinality(LoopsIn(s, n) \cup {n + 1}) = Cardinality(LoopsIn(s, n)) + 1
    BY <1>3, FS_AddElement
  <2>3. Depth(t) = Cardinality(LoopsIn(t, n + 1)) /\ Depth(s) = Cardinality(LoopsIn(s, n))
    BY <1>1 DEF Depth
  <2>4. CASE f.at \in {"activation", "program"}
    BY <1>5, <2>1, <2>3, <2>4
  <2>5. CASE f.at \notin {"activation", "program"} /\ f.at \in LoopFrames
    BY <1>5, <2>2, <2>3, <2>5 DEF Loops
  <2>6. CASE f.at \notin {"activation", "program"} /\ f.at \notin LoopFrames
    <3>1. Depth(t) = Depth(s)
      BY <1>5, <2>3, <2>6
    <3> QED
      BY <1>4, <2>6, <3>1 DEF Loops
  <2> QED
    BY <2>4, <2>5, <2>6
<1>7. Counted(t) <=> Counted(s) /\ (f.at = "activation" => f.n = Depth(s))
  <2> DEFINE Right(u, k) == u[k].at = "activation" => u[k].n = Cardinality(LoopsIn(u, k - 1))
  <2>1. ASSUME NEW k \in 1 .. n PROVE Right(t, k) <=> Right(s, k)
    <3>1. k - 1 \in 0 .. n
      OBVIOUS
    <3>2. LoopsIn(t, k - 1) = LoopsIn(s, k - 1)
      BY <1>2, <3>1
    <3> QED
      BY <1>1, <3>2
  <2>2. Right(t, n + 1) <=> (f.at = "activation" => f.n = Depth(s))
    <3>1. n + 1 - 1 = n /\ n \in 0 .. n
      OBVIOUS
    <3>2. LoopsIn(t, n) = LoopsIn(s, n)
      BY <1>2, <3>1
    <3> QED
      BY <1>1, <3>1, <3>2 DEF Depth
  <2>3. Counted(t) <=> \A k \in 1 .. n + 1 : Right(t, k)
    BY <1>1 DEF Counted
  <2>4. Counted(s) <=> \A k \in 1 .. n : Right(s, k)
    BY <1>1 DEF Counted
  <2> HIDE DEF Right
  <2>5. \A k \in 1 .. n + 1 : k \in 1 .. n \/ k = n + 1
    OBVIOUS
  <2>6. (\A k \in 1 .. n : k \in 1 .. n + 1) /\ n + 1 \in 1 .. n + 1
    OBVIOUS
  <2> QED
    BY <2>1, <2>2, <2>3, <2>4, <2>5, <2>6
<1> QED
  BY <1>4, <1>6, <1>7 DEF t

LoopInv == Counted(stack) /\ (ctl.mode # "done" => loopDepth = Depth(stack))

(* The counter stays exact.                                                 *)
LEMMA LoopsAfter ==
    ASSUME Grounded, LoopInv, ctl.mode # "done", Moves
    PROVE  /\ Counted(stack')
           /\ ctl'.mode # "done" => loopDepth' = Depth(stack')
           /\ loopDepth' \in Int
<1>1. /\ IsStack(Below) /\ IsFrame(Top) /\ stack = Append(Below, Top) /\ IsStack(stack)
      /\ loopDepth \in Int
  BY TopParts DEF Grounded
<1>2. /\ Counted(stack) /\ loopDepth = Depth(stack)
  BY DEF LoopInv
<1>3. /\ Depth(Below) \in Nat /\ Depth(stack) \in Nat
      /\ Depth(stack) = IF Top.at \in {"activation", "program"} THEN 0 ELSE Depth(Below) + Loops(Top)
      /\ Counted(Below) /\ (Top.at = "activation" => Top.n = Depth(Below))
  BY <1>1, <1>2, DepthOfAppend
<1>4. Loops(Top) \in Nat
  BY DEF Loops
<1>5. CASE \E f : Pushes(f)
  <2>1. PICK f : Pushes(f)
    BY <1>5
  <2>2. /\ stack' = Append(stack, f) /\ IsFrame(f) /\ f.at \notin {"program", "activation"}
        /\ loopDepth' = loopDepth + Loops(f) /\ Loops(f) \in Nat
    BY <2>1 DEF Pushes, Loops
  <2>3. /\ Depth(Append(stack, f)) = Depth(stack) + Loops(f)
        /\ Counted(Append(stack, f))
    BY <1>1, <1>2, <2>2, DepthOfAppend
  <2> QED
    BY <1>1, <1>2, <2>2, <2>3
<1>6. CASE \E f : Turns(f)
  <2>1. PICK f : Turns(f)
    BY <1>6
  <2>2. /\ stack' = Append(Below, f) /\ IsFrame(f) /\ Loops(f) \in Nat
        /\ f.at # "program" /\ Top.at \notin {"activation", "program"}
        /\ IF f.at = "activation"
           THEN f.n = loopDepth /\ loopDepth' = 0 /\ Loops(Top) = 0
           ELSE loopDepth' = loopDepth + Loops(f) - Loops(Top)
    BY <2>1 DEF Turns, Loops
  <2>3. /\ Depth(Append(Below, f)) =
              IF f.at \in {"activation", "program"} THEN 0 ELSE Depth(Below) + Loops(f)
        /\ Counted(Append(Below, f)) <=> Counted(Below) /\ (f.at = "activation" => f.n = Depth(Below))
    BY <1>1, <2>2, DepthOfAppend
  <2>4. Depth(stack) = Depth(Below) + Loops(Top)
    BY <1>3, <2>2
  <2>5. CASE f.at = "activation"
    <3>1. f.n = Depth(Below)
      BY <1>2, <1>3, <2>2, <2>4, <2>5
    <3> QED
      BY <1>3, <2>2, <2>3, <2>5, <3>1
  <2>6. CASE f.at # "activation"
    <3>1. loopDepth' = Depth(Below) + Loops(f)
      BY <1>2, <1>3, <1>4, <2>2, <2>4, <2>6
    <3>2. Depth(Append(Below, f)) = Depth(Below) + Loops(f) /\ Counted(Append(Below, f))
      BY <1>3, <2>2, <2>3, <2>6
    <3> QED
      BY <1>3, <2>2, <3>1, <3>2
  <2> QED
    BY <2>5, <2>6
<1>7. CASE CallsValue
  <2>1. PICK f, g :
            /\ stack' = Append(Append(Below, f), g)
            /\ IsFrame(f) /\ IsFrame(g) /\ Top.at = "callee"
            /\ f.at = "callv" /\ g.at = "arg_function" /\ loopDepth' = loopDepth
    BY <1>7 DEF CallsValue
  <2>2. Loops(f) = 0 /\ Loops(g) = 0 /\ Loops(Top) = 0
    BY <2>1 DEF Loops, LoopFrames
  <2>3. /\ Depth(Append(Below, f)) = Depth(Below) + 0 /\ Counted(Append(Below, f))
        /\ IsStack(Append(Below, f))
    <3>1. IsStack(Append(Below, f))
      BY <1>1, <2>1, StackWith
    <3> QED
      BY <1>1, <1>3, <2>1, <2>2, <3>1, DepthOfAppend
  <2>4. /\ Depth(Append(Append(Below, f), g)) = Depth(Append(Below, f)) + 0
        /\ Counted(Append(Append(Below, f), g))
    BY <2>1, <2>2, <2>3, DepthOfAppend
  <2>5. Depth(stack) = Depth(Below) + 0
    BY <1>3, <2>1, <2>2
  <2> QED
    BY <1>1, <1>2, <1>3, <2>1, <2>3, <2>4, <2>5
<1>8. CASE Pops
  <2>1. /\ stack' = Below /\ Top.at # "program"
        /\ loopDepth' = IF Top.at = "activation" THEN Top.n ELSE loopDepth - Loops(Top)
    BY <1>8 DEF Pops
  <2>2. loopDepth' = Depth(Below)
    BY <1>2, <1>3, <1>4, <2>1
  <2> QED
    BY <1>3, <2>1, <2>2
<1>9. CASE Stays
  BY <1>1, <1>2, <1>9 DEF Stays
<1>10. CASE Ends
  <2>1. stack' = <<>> /\ ctl'.mode = "done" /\ loopDepth' = loopDepth
    BY <1>10 DEF Ends
  <2>2. Counted(<<>>)
    <3>1. <<>> \in Seq({}) /\ Len(<<>>) = 0
      BY EmptySeq
    <3>2. DOMAIN <<>> = 1 .. 0
      BY <3>1, LenProperties
    <3> QED
      BY <3>2 DEF Counted
  <2> QED
    BY <1>1, <2>1, <2>2
<1> QED
  BY <1>5, <1>6, <1>7, <1>8, <1>9, <1>10 DEF Moves

-----------------------------------------------------------------------------
(* The height of the protect stack.                                         *)

InFlight == IF signals.returning THEN 1 ELSE 0

Balanced == Len(protect) = Len(Pins(stack)) + InFlight

(* The pins with a new top, and how many they are.                          *)
LEMMA PinsGrow ==
    ASSUME NEW s, IsStack(s), NEW f, IsFrame(f)
    PROVE  /\ IsSequence(Pins(s)) /\ Len(Pins(s)) \in Nat /\ Len(f.pinned) \in Nat
           /\ IsSequence(Pins(Append(s, f))) /\ Pins(Append(s, f)) = Pins(s) \o f.pinned
           /\ Len(Pins(Append(s, f))) = Len(Pins(s)) + Len(f.pinned)
<1>1. IsStack(Append(s, f)) /\ IsSequence(f.pinned)
  BY StackWith DEF IsFrame
<1>2. /\ IsSequence(Pins(s)) /\ IsSequence(Pins(Append(s, f)))
      /\ Pins(Append(s, f)) = Pins(s) \o f.pinned
  <2>1. IsSequence(Pins(s)) /\ Pins(Append(s, f)) = Pins(s) \o f.pinned
    BY PinsOfAppend
  <2> QED
    BY <1>1, <2>1, Joined
<1>3. /\ Len(Pins(s)) \in Nat /\ Len(f.pinned) \in Nat
      /\ Len(Pins(s) \o f.pinned) = Len(Pins(s)) + Len(f.pinned)
  BY <1>1, <1>2, Joined, SequenceParts
<1> QED
  BY <1>2, <1>3

(* The pins before a step: those below the top, and those of the top.       *)
LEMMA PinsBefore ==
    ASSUME Grounded, ctl.mode # "done"
    PROVE  /\ IsSequence(Pins(Below)) /\ IsSequence(Pins(stack)) /\ IsSequence(Top.pinned)
           /\ Pins(stack) = Pins(Below) \o Top.pinned
           /\ Len(Pins(Below)) \in Nat /\ Len(Top.pinned) \in Nat
           /\ Len(Pins(stack)) = Len(Pins(Below)) + Len(Top.pinned)
           /\ IsSequence(protect) /\ Len(protect) \in Nat
<1>1. IsStack(Below) /\ IsFrame(Top) /\ stack = Append(Below, Top)
  BY TopParts
<1>2. IsSequence(protect)
  BY DEF Grounded
<1> QED
  BY <1>1, <1>2, PinsGrow, SequenceParts DEF IsFrame

(* PopPins takes off as many entries as it is told.                         *)
LEMMA PinsPopped ==
    ASSUME IsSequence(protect), NEW m \in Nat, m <= Len(protect)
    PROVE  IsSequence(PopPins(m)) /\ Len(PopPins(m)) = Len(protect) - m
<1> PICK n \in Nat : n = Len(protect)
  BY SequenceParts
<1>1. n - m \in 0 .. n /\ ~(m > n)
  OBVIOUS
<1> QED
  BY <1>1, Cut DEF PopPins

(* Whatever becomes of the pins of the top becomes of the protect stack.    *)
LEMMA PinsTurn ==
    ASSUME Grounded, Balanced, ctl.mode # "done", NEW p, IsSequence(p), PinsBecome(p)
    PROVE  /\ IsSequence(protect') /\ Len(p) \in Nat
           /\ Len(protect') = Len(Pins(Below)) + Len(p) + InFlight
<1>1. /\ IsSequence(Top.pinned) /\ IsSequence(protect) /\ Len(p) \in Nat
      /\ Len(Pins(Below)) \in Nat /\ Len(Top.pinned) \in Nat /\ InFlight \in Nat
      /\ Len(protect) = Len(Pins(Below)) + Len(Top.pinned) + InFlight
  BY PinsBefore, SequenceParts DEF Balanced, InFlight
<1>2. ASSUME NEW q, IsSequence(q), p = Top.pinned \o q, protect' = protect \o q
      PROVE  IsSequence(protect') /\ Len(protect') = Len(Pins(Below)) + Len(p) + InFlight
  <2>1. Len(p) = Len(Top.pinned) + Len(q) /\ Len(q) \in Nat
    BY <1>1, <1>2, Joined, SequenceParts
  <2>2. IsSequence(protect') /\ Len(protect') = Len(protect) + Len(q)
    BY <1>1, <1>2, Joined
  <2> QED
    BY <1>1, <2>1, <2>2
<1>3. ASSUME NEW m \in 0 .. Len(Top.pinned),
             p = SubSeq(Top.pinned, 1, Len(Top.pinned) - m), protect' = PopPins(m)
      PROVE  IsSequence(protect') /\ Len(protect') = Len(Pins(Below)) + Len(p) + InFlight
  <2>1. m \in Nat /\ m <= Len(protect) /\ Len(Top.pinned) - m \in 0 .. Len(Top.pinned)
    BY <1>1
  <2>2. Len(p) = Len(Top.pinned) - m
    BY <1>1, <1>3, <2>1, Cut
  <2>3. IsSequence(protect') /\ Len(protect') = Len(protect) - m
    BY <1>1, <1>3, <2>1, PinsPopped
  <2> QED
    BY <1>1, <2>1, <2>2, <2>3
<1> QED
  BY <1>1, <1>2, <1>3 DEF PinsBecome

(* The step neither raises nor receives a return, unless it says so.        *)
LEMMA LoweredReturning ==
    ASSUME Grounded
    PROVE  IsSignal(Lowered) /\ Lowered.returning = signals.returning
<1>1. IsSignal(signals)
  BY DEF Grounded
<1>2. CASE signals.breaking
  <2>1. Lowered = [signals EXCEPT !["breaking"] = FALSE]
    BY <1>2 DEF Lowered
  <2> QED
    BY <1>1, <2>1, LoweredIsSignal
<1>3. CASE ~signals.breaking
  <2>1. Lowered = [signals EXCEPT !["continuing"] = FALSE]
    BY <1>3 DEF Lowered
  <2> QED
    BY <1>1, <2>1, LoweredIsSignal
<1> QED
  BY <1>2, <1>3

(* The stacks stay balanced.                                                *)
LEMMA BalancedAfter ==
    ASSUME Grounded, Balanced, ctl.mode # "done", Moves
    PROVE  /\ IsSequence(protect')
           /\ Len(protect') = Len(Pins(stack')) + (IF signals'.returning THEN 1 ELSE 0)
<1>1. /\ IsStack(Below) /\ IsFrame(Top) /\ stack = Append(Below, Top) /\ IsStack(stack)
      /\ PinsFit(Top)
      /\ signals.returning => ctl.mode \in {"resume", "exec", "block"}
  BY TopParts
<1>2. /\ IsSequence(protect) /\ Len(protect) \in Nat /\ InFlight \in Nat
      /\ IsSequence(Top.pinned) /\ Len(Top.pinned) \in Nat /\ Len(Pins(Below)) \in Nat
      /\ Len(Pins(stack)) = Len(Pins(Below)) + Len(Top.pinned)
      /\ Len(protect) = Len(Pins(stack)) + InFlight
  BY PinsBefore DEF Balanced, InFlight
<1>3. IsSignal(signals) /\ IsSignal(Lowered) /\ Lowered.returning = signals.returning
  BY LoweredReturning DEF Grounded
<1>4. CASE \E f : Pushes(f)
  <2>1. PICK f : Pushes(f)
    BY <1>4
  <2>2. /\ stack' = Append(stack, f) /\ IsFrame(f) /\ protect' = protect \o f.pinned
        /\ signals' = signals
    BY <2>1 DEF Pushes
  <2>3. Len(Pins(stack')) = Len(Pins(stack)) + Len(f.pinned) /\ Len(f.pinned) \in Nat
    BY <1>1, <2>2, PinsGrow
  <2>4. IsSequence(protect') /\ Len(protect') = Len(protect) + Len(f.pinned)
    BY <1>2, <2>2, Joined DEF IsFrame
  <2>5. (IF signals'.returning THEN 1 ELSE 0) = InFlight
    BY <2>2 DEF InFlight
  <2>6. Len(protect') = Len(Pins(stack')) + InFlight
    <3>1. PICK a \in Nat, b \in Nat, c \in Nat :
              a = Len(Pins(stack)) /\ b = Len(f.pinned) /\ c = InFlight
      BY <1>2, <2>3
    <3>2. Len(protect) = a + c /\ Len(protect') = Len(protect) + b /\ Len(Pins(stack')) = a + b
      BY <1>2, <2>3, <2>4, <3>1
    <3>3. (a + c) + b = (a + b) + c
      OBVIOUS
    <3> QED
      BY <3>1, <3>2, <3>3
  <2> QED
    BY <2>4, <2>5, <2>6
<1>5. CASE \E f : Turns(f)
  <2>1. PICK f : Turns(f)
    BY <1>5
  <2>2. /\ stack' = Append(Below, f) /\ IsFrame(f) /\ PinsBecome(f.pinned)
        /\ signals'.returning = signals.returning
    BY <1>3, <2>1 DEF Turns
  <2>3. Len(Pins(stack')) = Len(Pins(Below)) + Len(f.pinned)
    BY <1>1, <2>2, PinsGrow
  <2>4. IsSequence(protect') /\ Len(f.pinned) \in Nat
        /\ Len(protect') = Len(Pins(Below)) + Len(f.pinned) + InFlight
    BY <2>2, PinsTurn DEF IsFrame
  <2>5. (IF signals'.returning THEN 1 ELSE 0) = InFlight
    BY <2>2 DEF InFlight
  <2> QED
    BY <1>2, <2>3, <2>4, <2>5
<1>6. CASE CallsValue
  <2>1. PICK f, g :
            /\ stack' = Append(Append(Below, f), g)
            /\ IsFrame(f) /\ IsFrame(g) /\ Top.at = "callee"
            /\ f.pinned = <<ctl.val>> /\ g.pinned = <<>>
            /\ protect' = protect \o <<ctl.val>> /\ signals' = signals
    BY <1>6 DEF CallsValue
  <2>2. Len(Top.pinned) = 0 /\ Len(f.pinned) = 1 /\ Len(g.pinned) = 0 /\ IsSequence(<<ctl.val>>)
    BY <1>1, <1>2, <2>1, AppendIsJoin DEF PinsFit, PinCount, ArgFrames
  <2> DEFINE b == Append(Below, f)
  <2>3. IsStack(b) /\ Len(Pins(b)) = Len(Pins(Below)) + 1
    <3>1. IsStack(b)
      BY <1>1, <2>1, StackWith
    <3>2. Len(Pins(b)) = Len(Pins(Below)) + Len(f.pinned)
      BY <1>1, <2>1, PinsGrow
    <3> QED
      BY <2>2, <3>1, <3>2
  <2> HIDE DEF b
  <2>4. Len(Pins(Append(b, g))) = Len(Pins(b)) + 0
    BY <2>1, <2>2, <2>3, PinsGrow
  <2>5. stack' = Append(b, g)
    BY <2>1 DEF b
  <2>6. IsSequence(protect') /\ Len(protect') = Len(protect) + 1
    <3>1. IsSequence(<<ctl.val>>) /\ Len(<<ctl.val>>) = 1
      BY AppendIsJoin, <1>2
    <3>2. IsSequence(protect \o <<ctl.val>>)
          /\ Len(protect \o <<ctl.val>>) = Len(protect) + Len(<<ctl.val>>)
      BY <1>2, <3>1, Joined
    <3> QED
      BY <2>1, <3>1, <3>2
  <2>7. (IF signals'.returning THEN 1 ELSE 0) = InFlight
    BY <2>1 DEF InFlight
  <2> QED
    BY <1>2, <2>2, <2>3, <2>4, <2>5, <2>6, <2>7
<1>7. CASE Pops
  <2>1. stack' = Below /\ (Releases \/ RaisesReturn \/ ReceivesReturn)
    BY <1>7 DEF Pops
  <2>2. CASE Releases
    <3>1. protect' = PopPins(Len(Top.pinned)) /\ signals'.returning = signals.returning
      BY <1>3, <2>2 DEF Releases
    <3>2. IsSequence(protect') /\ Len(protect') = Len(protect) - Len(Top.pinned)
      <4>1. Len(Top.pinned) <= Len(protect)
        BY <1>2
      <4> QED
        BY <1>2, <3>1, <4>1, PinsPopped
    <3>3. (IF signals'.returning THEN 1 ELSE 0) = InFlight
      BY <3>1 DEF InFlight
    <3>4. Len(protect') = Len(Pins(stack')) + InFlight
      <4>1. PICK a \in Nat, b \in Nat, c \in Nat :
                a = Len(Pins(Below)) /\ b = Len(Top.pinned) /\ c = InFlight
        BY <1>2
      <4>2. Len(protect) = (a + b) + c /\ Len(protect') = Len(protect) - b /\ Len(Pins(stack')) = a
        BY <1>2, <2>1, <3>2, <4>1
      <4>3. ((a + b) + c) - b = a + c
        OBVIOUS
      <4> QED
        BY <4>1, <4>2, <4>3
    <3> QED
      BY <3>2, <3>3, <3>4
  <2>3. CASE RaisesReturn
    <3>1. /\ Top.at = "return" /\ ctl.mode = "value" /\ protect' = Append(protect, ctl.val)
          /\ signals'.returning
      BY <1>3, <2>3 DEF RaisesReturn, IsSignal
    <3>2. Len(Top.pinned) = 0 /\ ~signals.returning
      BY <1>1, <3>1 DEF PinsFit, PinCount, ArgFrames
    <3>3. IsSequence(protect') /\ Len(protect') = Len(protect) + 1
      BY <1>2, <3>1, Appended
    <3> QED
      BY <1>2, <2>1, <3>1, <3>2, <3>3 DEF InFlight
  <2>4. CASE ReceivesReturn
    <3>1. /\ Top.at = "activation" /\ protect' = PopPins(InFlight) /\ ~signals'.returning
      BY <1>3, <2>4 DEF ReceivesReturn, IsSignal, InFlight
    <3>2. Len(Top.pinned) = 0
      BY <1>1, <3>1 DEF PinsFit, PinCount, ArgFrames
    <3>3. IsSequence(protect') /\ Len(protect') = Len(protect) - InFlight
      BY <1>2, <3>1, PinsPopped
    <3> QED
      BY <1>2, <2>1, <3>1, <3>2, <3>3
  <2> QED
    BY <2>1, <2>2, <2>3, <2>4
<1>8. CASE Stays
  <2>1. /\ stack' = stack /\ protect' = protect
        /\ signals' = signals \/ Signals
    BY <1>8 DEF Stays
  <2>2. signals'.returning = signals.returning
    <3>1. CASE Signals
      <4>1. PICK k \in {"breaking", "continuing"} : signals' = [signals EXCEPT ![k] = TRUE]
        BY <3>1 DEF Signals
      <4> QED
        BY <1>3, <4>1 DEF IsSignal
    <3> QED
      BY <2>1, <3>1
  <2> QED
    BY <1>2, <2>1, <2>2 DEF InFlight
<1>9. CASE Ends
  <2>1. /\ stack' = <<>> /\ Top.at = "program" /\ protect' = protect /\ signals' = signals
    BY <1>9 DEF Ends
  <2>2. Below = <<>> /\ Len(Top.pinned) = 0
    BY <1>1, <1>2, <2>1, BelowOrdered DEF PinsFit, PinCount, ArgFrames
  <2> QED
    BY <1>2, <2>1, <2>2 DEF InFlight
<1> QED
  BY <1>4, <1>5, <1>6, <1>7, <1>8, <1>9 DEF Moves

-----------------------------------------------------------------------------
(* What holds whatever the program is made of.                              *)

(* The stack before and after everything.                                   *)
LEMMA EmptyStack ==
    /\ IsSequence(<<>>) /\ DOMAIN <<>> = {} /\ Len(<<>>) = 0
    /\ IsStack(<<>>) /\ Ordered(<<>>) /\ Counted(<<>>) /\ Pins(<<>>) = <<>>
    /\ Depth(<<>>) = 0
<1>1. IsSequence(<<>>) /\ DOMAIN <<>> = {} /\ Len(<<>>) = 0
  <2>1. <<>> \in Seq({}) /\ Len(<<>>) = 0
    BY EmptySeq
  <2>2. IsSequence(<<>>)
    BY <2>1, SequenceOfAnything
  <2> QED
    BY <2>1, <2>2, SequenceParts
<1>2. IsStack(<<>>) /\ Ordered(<<>>) /\ Counted(<<>>)
  BY <1>1 DEF IsStack, Ordered, Counted
<1>3. Pins(<<>>) = <<>>
  <2> DEFINE p == [i \in DOMAIN <<>> |-> <<>>[i].pinned]
  <2>1. p = <<>>
    BY <1>1
  <2> QED
    BY <1>1, <2>1 DEF Pins, FlattenSeq
<1>4. Depth(<<>>) = 0
  <2>1. LoopsIn(<<>>, 0) = {}
    BY DEF LoopsIn
  <2> QED
    BY <1>1, <2>1, FS_EmptySet DEF Depth
<1> QED
  BY <1>1, <1>2, <1>3, <1>4

Sound == Grounded /\ LoopInv /\ Balanced

(* The program starts with nothing pinned, no loop and no signal.           *)
LEMMA InitSound == Init => Sound
<1> SUFFICES ASSUME Init PROVE Sound
  OBVIOUS
<1> DEFINE f == Frame("program", Globals)
<1>1. /\ protect = <<>> /\ stack = <<f>> /\ loopDepth = 0
      /\ ctl = [mode |-> "resume", env |-> Nil, val |-> Scalar]
      /\ signals = [returning |-> FALSE, value |-> Scalar,
                    breaking |-> FALSE, continuing |-> FALSE]
  BY DEF Init
<1>2. IsFrame(f) /\ f.at = "program" /\ f.pinned = <<>>
  BY NewFrame
<1>3. PinsFit(f) /\ f.at \in AtRest("resume")
  BY <1>2, EmptyStack DEF PinsFit, PinCount, AtRest, Hosts
<1>4. stack = Append(<<>>, f)
  <2>1. <<>> \o <<f>> = Append(<<>>, f) /\ <<>> \o <<f>> = <<f>>
    BY EmptyStack, AppendIsJoin
  <2> QED
    BY <1>1, <2>1
<1> HIDE DEF f
<1>5. IsStack(stack) /\ Ordered(stack) /\ stack # <<>> /\ Top = f
  BY <1>2, <1>3, <1>4, EmptyStack, NewTop DEF Top
<1>6. IsControl(ctl) /\ ctl.mode = "resume"
  BY <1>1 DEF IsControl
<1>7. IsSignal(signals) /\ ~signals.returning
  BY <1>1 DEF IsSignal
<1>8. Disciplined
  BY <1>3, <1>5, <1>6 DEF Disciplined, Ordered
<1>9. Grounded
  BY <1>1, <1>6, <1>7, <1>8, EmptyStack DEF Grounded, Returning
<1>10. Depth(stack) = 0 /\ Counted(stack)
  BY <1>2, <1>4, EmptyStack, DepthOfAppend
<1>11. Len(Pins(stack)) = 0
  <2>1. Pins(Append(<<>>, f)) = Pins(<<>>) \o f.pinned
    BY <1>2, EmptyStack, PinsGrow
  <2>2. <<>> \o <<>> = <<>>
    BY EmptyStack, AppendIsJoin
  <2> QED
    BY <1>2, <1>4, <2>1, <2>2, EmptyStack
<1> QED
  BY <1>1, <1>7, <1>9, <1>10, <1>11, EmptyStack DEF Sound, LoopInv, Balanced, InFlight

(* Every step keeps the stack in order, the counter and the height.         *)
LEMMA StepSound == Sound /\ Step => Sound'
<1> SUFFICES ASSUME Sound, Step PROVE Sound'
  OBVIOUS
<1>1. Grounded /\ LoopInv /\ Balanced
  BY DEF Sound
<1>2. Moves /\ ctl.mode # "done"
  BY <1>1, StepMoves
<1>3. /\ IsStack(stack') /\ Ordered(stack')
      /\ stack' = <<>> <=> ctl'.mode = "done"
      /\ stack' # <<>> => stack'[Len(stack')].at \in AtRest(ctl'.mode)
  BY <1>1, <1>2, StackAfter
<1>4. Returning' /\ IsSignal(signals')
  BY <1>1, <1>2, ReturningAfter
<1>5. Counted(stack') /\ (ctl'.mode # "done" => loopDepth' = Depth(stack')) /\ loopDepth' \in Int
  BY <1>1, <1>2, LoopsAfter
<1>6. /\ IsSequence(protect')
      /\ Len(protect') = Len(Pins(stack')) + (IF signals'.returning THEN 1 ELSE 0)
  BY <1>1, <1>2, BalancedAfter
<1>7. IsControl(ctl')
  BY <1>2 DEF Moves
<1>8. Disciplined'
  BY <1>3 DEF Disciplined, Ordered, Top
<1>9. Grounded'
  BY <1>4, <1>5, <1>6, <1>7, <1>8 DEF Grounded
<1>10. Balanced'
  BY <1>6 DEF Balanced, InFlight
<1>11. LoopInv'
  BY <1>5 DEF LoopInv
<1> QED
  BY <1>9, <1>10, <1>11 DEF Sound

(* So does a step of something else.                                        *)
LEMMA StutterSound == Sound /\ UNCHANGED vars => Sound'
<1> SUFFICES ASSUME Sound, UNCHANGED vars PROVE Sound'
  OBVIOUS
<1>1. UNCHANGED <<protect, stack, ctl, signals, loopDepth>>
  BY DEF vars, memory, control
<1> QED
  BY <1>1 DEF Sound, Grounded, LoopInv, Balanced, InFlight, Disciplined, Returning, Top

(* The stack is in order, the counter and the protect stack follow it.      *)
THEOREM StackDiscipline == Spec => []Sound
<1>1. Sound /\ [Next]_vars => Sound'
  BY StepSound, StutterSound DEF Next, Terminated
<1> QED
  BY <1>1, InitSound, PTL DEF Spec

(* "Always balance them": the protect stack is as high as the C activations *)
(* have pinned it, through every call, return, break and error, even when a *)
(* return out of a for-in loop puts the entries out of order.               *)
THEOREM ProtectIsBalanced == Spec => []PinsAreBalanced
<1>1. Sound => PinsAreBalanced
  BY DEF Sound, Balanced, InFlight, Pins, PinsAreBalanced
<1> QED
  BY <1>1, StackDiscipline, PTL

(* g_loop_depth counts the loops running in the current function activation *)
(* whatever ends them: a break, a return, an error in a condition or body.  *)
THEOREM LoopsAreCounted == Spec => []LoopDepthIsExact
<1>1. Sound => LoopDepthIsExact
  <2> SUFFICES ASSUME Sound, ctl.mode # "done"
               PROVE  loopDepth = Cardinality(
                         {i \in DOMAIN stack : /\ stack[i].at \in LoopFrames
                                               /\ \A j \in {k \in DOMAIN stack :
                                                      stack[k].at \in {"activation", "program"}} :
                                                        j < i})
    BY DEF LoopDepthIsExact
  <2>1. loopDepth = Depth(stack) /\ DOMAIN stack = 1 .. Len(stack)
    BY TopParts DEF Sound, LoopInv
  <2>2. LoopsIn(stack, Len(stack)) =
           {i \in DOMAIN stack : /\ stack[i].at \in LoopFrames
                                 /\ \A j \in {k \in DOMAIN stack :
                                        stack[k].at \in {"activation", "program"}} : j < i}
    BY <2>1 DEF LoopsIn
  <2> QED
    BY <2>1, <2>2 DEF Depth
<1> QED
  BY <1>1, StackDiscipline, PTL

(* Between a return and its call site no syntax node of the program is      *)
(* evaluated or executed: every activation in between only unwinds.         *)
THEOREM ReturningRunsNothing == Spec => NothingRunsDuringReturn
<1>1. Sound /\ [Next]_vars => [signals.returning /\ signals'.returning => fuel' = fuel]_vars
  <2> SUFFICES ASSUME Sound, [Next]_vars, signals.returning PROVE fuel' = fuel
    OBVIOUS
  <2>1. CASE Step
    BY <2>1, StepMoves DEF Sound, Moves
  <2>2. CASE UNCHANGED vars
    BY <2>2 DEF vars
  <2> QED
    BY <2>1, <2>2 DEF Next, Terminated
<1> QED
  BY <1>1, StackDiscipline, PTL DEF Spec, NothingRunsDuringReturn

-----------------------------------------------------------------------------
(* What is above the innermost body.                                        *)

(* Bounded places have a greatest one.                                      *)
LEMMA GreatestPlace ==
    ASSUME NEW n \in Nat, NEW places, places \subseteq 1 .. n, places # {}
    PROVE  \E i \in places : \A j \in places : j <= i
<1> DEFINE Gaps == {n - j : j \in places}
<1>1. Gaps \subseteq Nat /\ Gaps # {}
  <2>1. ASSUME NEW j \in places PROVE n - j \in Nat
    <3>1. j \in 1 .. n
      OBVIOUS
    <3> QED
      BY <3>1
  <2>2. Gaps \subseteq Nat
    BY <2>1
  <2>3. PICK j : j \in places
    OBVIOUS
  <2>4. n - j \in Gaps
    BY <2>3
  <2> QED
    BY <2>2, <2>4
<1>2. PICK g \in Gaps : \A h \in Gaps : g <= h
  <2> HIDE DEF Gaps
  <2> QED
    BY <1>1, LeastPlace
<1>3. PICK i \in places : g = n - i
  BY <1>2
<1>4. ASSUME NEW j \in places PROVE j <= i
  <2>1. n - j \in Gaps
    OBVIOUS
  <2>2. n - i <= n - j /\ i \in Nat /\ j \in Nat
    BY <1>2, <1>3, <2>1
  <2> QED
    BY <2>2
<1> QED
  BY <1>4

(* The innermost body is a body, and the last one on the stack.             *)
LEMMA BodyIsThere ==
    ASSUME Grounded, ctl.mode # "done"
    PROVE  /\ InnermostBody \in 1 .. Len(stack) /\ stack[InnermostBody].at \in BodyFrames
           /\ \A j \in 1 .. Len(stack) : stack[j].at \in BodyFrames => j <= InnermostBody
<1>1. /\ Len(stack) \in Nat /\ Len(stack) > 0 /\ DOMAIN stack = 1 .. Len(stack)
      /\ \A i \in DOMAIN stack : Fits(stack, i)
  BY TopParts DEF Grounded, Disciplined
<1>2. 1 \in DOMAIN stack /\ Fits(stack, 1)
  BY <1>1
<1>3. Bodies \subseteq 1 .. Len(stack) /\ 1 \in Bodies
  BY <1>1, <1>2 DEF Bodies, BodyFrames, Fits
<1>4. \E i \in Bodies : \A j \in Bodies : j <= i
  BY <1>1, <1>3, GreatestPlace
<1>5. InnermostBody \in Bodies /\ \A j \in Bodies : j <= InnermostBody
  BY <1>4 DEF InnermostBody
<1> QED
  BY <1>1, <1>3, <1>5 DEF Bodies

(* When a statement is about to run or has run, whatever is above the       *)
(* innermost body is a statement that contains others: nothing in between   *)
(* is in the middle of an expression.                                       *)
LEMMA HostsAboveBody ==
    ASSUME Grounded, ctl.mode # "done", Top.at \in Hosts
    PROVE  \A i \in InnermostBody .. Len(stack) : stack[i].at \in Hosts
<1>1. PICK b \in Nat : b = InnermostBody
  BY BodyIsThere
<1>2. PICK n \in Nat : n = Len(stack)
  BY TopParts
<1>3. /\ b \in 1 .. n /\ \A j \in 1 .. n : stack[j].at \in BodyFrames => j <= b
      /\ stack[n].at \in Hosts
      /\ \A i \in 1 .. n : Fits(stack, i)
  BY <1>1, <1>2, BodyIsThere, TopParts DEF Grounded, Disciplined, Top
<1> DEFINE Bad == {i \in b .. n : stack[i].at \notin Hosts}
<1>4. SUFFICES ASSUME Bad # {} PROVE FALSE
  BY <1>1, <1>2
<1>5. PICK i \in Bad : \A j \in Bad : j <= i
  <2>1. Bad \subseteq 1 .. n
    BY <1>3
  <2> HIDE DEF Bad
  <2> QED
    BY <1>4, <2>1, GreatestPlace
<1>6. i \in b .. n /\ i # n /\ stack[i].at \notin Hosts
  BY <1>3, <1>5
<1>7. i + 1 \in b .. n /\ i + 1 \in 1 .. n /\ ~(i + 1 <= i) /\ ~(i + 1 <= b) /\ i + 1 > 1
      /\ (i + 1) - 1 = i
  BY <1>3, <1>6
<1>8. stack[i + 1].at \in Hosts /\ stack[i + 1].at \notin BodyFrames
  BY <1>3, <1>5, <1>7
<1>9. stack[i + 1].at \in StatementFrames
  BY <1>8 DEF Hosts, BodyFrames, StatementFrames
<1>10. stack[i].at \in Hosts
  BY <1>3, <1>7, <1>9 DEF Fits
<1> QED
  BY <1>6, <1>10

-----------------------------------------------------------------------------
(* A return on its way out meets no pins but its own.                       *)

(* Frame m of s is in a function, and nothing is pinned between them.       *)
Sheltered(s, m) ==
    \E a \in 1 .. m : s[a].at = "activation" /\ \A i \in a .. m : s[i].pinned = <<>>

ReturnsSheltered(s) == \A i \in DOMAIN s : s[i].at = "return" => Sheltered(s, i)

(* What a new top changes of this.                                          *)
LEMMA ShelterOfAppend ==
    ASSUME NEW s, IsStack(s), NEW f, IsFrame(f)
    PROVE  /\ \A m \in 1 .. Len(s) : Sheltered(Append(s, f), m) <=> Sheltered(s, m)
           /\ Sheltered(Append(s, f), Len(s) + 1) <=>
                 f.pinned = <<>> /\ (f.at = "activation" \/ Sheltered(s, Len(s)))
           /\ ReturnsSheltered(Append(s, f)) <=>
                 /\ ReturnsSheltered(s)
                 /\ f.at = "return" => Sheltered(Append(s, f), Len(s) + 1)
<1> DEFINE t == Append(s, f)
<1> PICK n \in Nat : n = Len(s)
  BY StackWith
<1>1. /\ DOMAIN s = 1 .. n /\ DOMAIN t = 1 .. n + 1
      /\ \A i \in 1 .. n : t[i] = s[i]
      /\ t[n + 1] = f
  BY StackWith
<1> HIDE DEF t
<1>2. ASSUME NEW m \in 1 .. n PROVE Sheltered(t, m) <=> Sheltered(s, m)
  <2>1. \A a \in 1 .. m : a \in 1 .. n /\ \A i \in a .. m : i \in 1 .. n
    OBVIOUS
  <2>2. \A a \in 1 .. m : t[a] = s[a] /\ \A i \in a .. m : t[i] = s[i]
    BY <1>1, <2>1
  <2> QED
    BY <2>2 DEF Sheltered
<1>3. ASSUME Sheltered(t, n + 1)
      PROVE  f.pinned = <<>> /\ (f.at = "activation" \/ Sheltered(s, n))
  <2>1. PICK a \in 1 .. n + 1 : t[a].at = "activation" /\ \A i \in a .. n + 1 : t[i].pinned = <<>>
    BY <1>3 DEF Sheltered
  <2>2. n + 1 \in a .. n + 1
    OBVIOUS
  <2>3. f.pinned = <<>>
    BY <1>1, <2>1, <2>2
  <2>4. CASE a = n + 1
    BY <1>1, <2>1, <2>3, <2>4
  <2>5. CASE a # n + 1
    <3>1. a \in 1 .. n /\ \A i \in a .. n : i \in a .. n + 1 /\ i \in 1 .. n
      BY <2>5
    <3>2. s[a].at = "activation" /\ \A i \in a .. n : s[i].pinned = <<>>
      BY <1>1, <2>1, <3>1
    <3> QED
      BY <2>3, <3>1, <3>2 DEF Sheltered
  <2> QED
    BY <2>4, <2>5
<1>4. ASSUME f.pinned = <<>>, f.at = "activation" PROVE Sheltered(t, n + 1)
  <2>1. n + 1 \in 1 .. n + 1 /\ \A i \in n + 1 .. n + 1 : i = n + 1
    OBVIOUS
  <2> QED
    BY <1>1, <1>4, <2>1 DEF Sheltered
<1>5. ASSUME f.pinned = <<>>, Sheltered(s, n) PROVE Sheltered(t, n + 1)
  <2>1. PICK a \in 1 .. n : s[a].at = "activation" /\ \A i \in a .. n : s[i].pinned = <<>>
    BY <1>5 DEF Sheltered
  <2>2. a \in 1 .. n + 1 /\ \A i \in a .. n + 1 : i = n + 1 \/ (i \in a .. n /\ i \in 1 .. n)
    <3>1. a \in Nat /\ 1 <= a /\ a <= n
      OBVIOUS
    <3>2. ASSUME NEW i \in a .. n + 1, i # n + 1 PROVE i \in a .. n /\ i \in 1 .. n
      BY <3>1, <3>2
    <3>3. a \in 1 .. n + 1
      BY <3>1
    <3> QED
      BY <3>2, <3>3
  <2>3. t[a].at = "activation" /\ \A i \in a .. n + 1 : t[i].pinned = <<>>
    BY <1>1, <1>5, <2>1, <2>2
  <2> QED
    BY <2>2, <2>3 DEF Sheltered
<1>6. ReturnsSheltered(t) <=>
          ReturnsSheltered(s) /\ (f.at = "return" => Sheltered(t, n + 1))
  <2>1. \A i \in 1 .. n : (t[i].at = "return" => Sheltered(t, i))
                          <=> (s[i].at = "return" => Sheltered(s, i))
    BY <1>1, <1>2
  <2>2. n + 1 \in 1 .. n + 1 /\ (\A i \in 1 .. n : i \in 1 .. n + 1)
        /\ \A i \in 1 .. n + 1 : i \in 1 .. n \/ i = n + 1
    OBVIOUS
  <2>3. ReturnsSheltered(t) <=> \A i \in 1 .. n + 1 : t[i].at = "return" => Sheltered(t, i)
    BY <1>1 DEF ReturnsSheltered
  <2>4. ReturnsSheltered(s) <=> \A i \in 1 .. n : s[i].at = "return" => Sheltered(s, i)
    BY <1>1 DEF ReturnsSheltered
  <2> QED
    BY <1>1, <2>1, <2>2, <2>3, <2>4
<1> QED
  BY <1>2, <1>3, <1>4, <1>5, <1>6 DEF t

(* A return statement in a function, outside of every for-in loop of it, is *)
(* sheltered.                                                               *)
LEMMA ReturnIsSheltered ==
    ASSUME Grounded, ctl.mode # "done", Top.at \in Hosts, MayReturn,
           "forin_return" \notin constructs, "program_return" \notin constructs
    PROVE  Sheltered(stack, Len(stack))
<1>1. PICK b \in Nat : b = InnermostBody
  BY BodyIsThere
<1>2. PICK n \in Nat : n = Len(stack)
  BY TopParts
<1>3. /\ b \in 1 .. n /\ stack[b].at \in BodyFrames
      /\ \A i \in b .. n : stack[i].at \in Hosts
      /\ \A i \in 1 .. n : Fits(stack, i) /\ IsFrame(stack[i])
      /\ DOMAIN stack = 1 .. n
  BY <1>1, <1>2, BodyIsThere, HostsAboveBody, TopParts DEF Grounded, Disciplined, IsStack
<1>4. stack[b].at \notin {"program", "module"} /\ \A i \in 1 .. n : stack[i].at = "forin_body" => i < b
  BY <1>1, <1>3 DEF MayReturn
<1>5. stack[b].at = "activation"
  BY <1>3, <1>4 DEF BodyFrames
<1>6. ASSUME NEW i \in b .. n PROVE stack[i].pinned = <<>>
  <2>1. i \in 1 .. n /\ ~(i < b)
    BY <1>3
  <2>2. stack[i].at \in Hosts /\ stack[i].at # "forin_body" /\ Fits(stack, i) /\ IsFrame(stack[i])
    BY <1>3, <1>4, <2>1
  <2>3. PinCount(stack[i].at) = 0 /\ stack[i].at \notin ArgFrames
    BY <2>2 DEF PinCount, Hosts, ArgFrames
  <2>4. Len(stack[i].pinned) = 0 /\ IsSequence(stack[i].pinned)
    BY <2>2, <2>3 DEF Fits, IsFrame
  <2> QED
    BY <2>4, SequenceParts
<1> QED
  BY <1>2, <1>3, <1>5, <1>6 DEF Sheltered

InTransit == IF signals.returning THEN <<signals.value>> ELSE <<>>

Exact ==
    /\ protect = Pins(stack) \o InTransit
    /\ ReturnsSheltered(stack)
    /\ signals.returning /\ stack # <<>> => Sheltered(stack, Len(stack))

(* Lowering a signal leaves the return value alone.                         *)
LEMMA LoweredValue ==
    ASSUME Grounded
    PROVE  Lowered.value = signals.value /\ Lowered.returning = signals.returning
<1>1. ASSUME NEW k \in {"breaking", "continuing"}, NEW t, t = [signals EXCEPT ![k] = FALSE]
      PROVE  t.value = signals.value
  BY <1>1 DEF Grounded, IsSignal
<1>2. CASE signals.breaking
  <2>1. Lowered = [signals EXCEPT !["breaking"] = FALSE]
    BY <1>2 DEF Lowered
  <2> QED
    BY <1>1, <2>1, LoweredReturning
<1>3. CASE ~signals.breaking
  <2>1. Lowered = [signals EXCEPT !["continuing"] = FALSE]
    BY <1>3 DEF Lowered
  <2> QED
    BY <1>1, <2>1, LoweredReturning
<1> QED
  BY <1>2, <1>3

(* Nothing is on its way out: the protect stack is the pins of the frames.  *)
LEMMA NothingInTransit ==
    ASSUME Grounded, ctl.mode # "done", Exact, ~signals.returning
    PROVE  protect = Pins(stack) /\ protect = Pins(Below) \o Top.pinned
<1>1. IsSequence(Pins(stack)) /\ Pins(stack) = Pins(Below) \o Top.pinned
  BY PinsBefore
<1>2. protect = Pins(stack) \o <<>>
  BY DEF Exact, InTransit
<1> QED
  BY <1>1, <1>2, AppendIsJoin

(* Popping as much as p has off s and p.                                    *)
LEMMA PopJoined ==
    ASSUME NEW s, IsSequence(s), NEW p, IsSequence(p), NEW m \in 0 .. Len(p),
           protect = s \o p
    PROVE  /\ PopPins(m) = s \o SubSeq(p, 1, Len(p) - m)
           /\ m = Len(p) => PopPins(m) = s
<1>1. Len(s) \in Nat /\ Len(p) \in Nat /\ Len(protect) = Len(s) + Len(p) /\ IsSequence(protect)
  BY SequenceParts, Joined
<1>2. m \in Nat /\ ~(m > Len(protect))
  BY <1>1
<1>3. PopPins(m) = SubSeq(protect, 1, Len(protect) - m)
  BY <1>2 DEF PopPins
<1>4. PopPins(m) = s \o SubSeq(p, 1, Len(p) - m)
  BY <1>3, CutJoined
<1>5. ASSUME m = Len(p) PROVE s \o SubSeq(p, 1, Len(p) - m) = s
  <2>1. Len(p) - m = 0
    BY <1>1, <1>5
  <2>2. SubSeq(p, 1, 0) = <<>>
    BY SubSeqEmpty
  <2> QED
    BY <2>1, <2>2, AppendIsJoin
<1> QED
  BY <1>4, <1>5

(* What becomes of the pins of the top happens at the top of the protect    *)
(* stack.                                                                   *)
LEMMA PinsTurnExactly ==
    ASSUME Grounded, ctl.mode # "done", Exact, ~signals.returning,
           NEW p, IsSequence(p), PinsBecome(p)
    PROVE  protect' = Pins(Below) \o p
<1>1. /\ IsSequence(Top.pinned) /\ IsSequence(Pins(Below)) /\ protect = Pins(Below) \o Top.pinned
  BY PinsBefore, NothingInTransit
<1>2. ASSUME NEW q, IsSequence(q), p = Top.pinned \o q, protect' = protect \o q
      PROVE  protect' = Pins(Below) \o p
  <2>1. PICK s, t : s = Pins(Below) /\ t = Top.pinned
    OBVIOUS
  <2>2. IsSequence(s) /\ IsSequence(t) /\ protect = s \o t /\ p = t \o q
    BY <1>1, <1>2, <2>1
  <2>3. (s \o t) \o q = s \o (t \o q)
    BY <1>2, <2>2, JoinAssociates
  <2> QED
    BY <1>2, <2>1, <2>2, <2>3
<1>3. ASSUME NEW m \in 0 .. Len(Top.pinned),
             p = SubSeq(Top.pinned, 1, Len(Top.pinned) - m), protect' = PopPins(m)
      PROVE  protect' = Pins(Below) \o p
  <2>1. PopPins(m) = Pins(Below) \o SubSeq(Top.pinned, 1, Len(Top.pinned) - m)
    BY <1>1, PopJoined
  <2> QED
    BY <1>3, <2>1
<1> QED
  BY <1>2, <1>3 DEF PinsBecome

(* The protect stack keeps holding exactly what it should.                  *)
LEMMA ExactAfter ==
    ASSUME Grounded, Exact, ctl.mode # "done", Moves,
           "forin_return" \notin constructs, "program_return" \notin constructs
    PROVE  /\ protect' = Pins(stack') \o
                            (IF signals'.returning THEN <<signals'.value>> ELSE <<>>)
           /\ ReturnsSheltered(stack')
           /\ signals'.returning /\ stack' # <<>> => Sheltered(stack', Len(stack'))
<1>1. /\ IsStack(Below) /\ IsFrame(Top) /\ stack = Append(Below, Top) /\ IsStack(stack)
      /\ stack # <<>> /\ Len(stack) \in Nat /\ Len(Below) = Len(stack) - 1
      /\ PinsFit(Top) /\ Len(Below) \in Nat /\ Len(stack) = Len(Below) + 1
      /\ signals.returning => ctl.mode \in {"resume", "exec", "block"} /\ Top.at \in Hosts
  BY TopParts
<1>2. /\ IsSequence(protect) /\ IsSequence(Top.pinned) /\ IsSequence(Pins(Below))
      /\ IsSequence(Pins(stack)) /\ Pins(stack) = Pins(Below) \o Top.pinned
  BY PinsBefore
<1>3. /\ IsSignal(signals) /\ Lowered.returning = signals.returning
      /\ Lowered.value = signals.value
  BY LoweredValue DEF Grounded
<1>4. /\ ReturnsSheltered(stack) /\ protect = Pins(stack) \o InTransit
      /\ signals.returning => Sheltered(stack, Len(stack))
  BY <1>1 DEF Exact
<1>5. /\ ReturnsSheltered(Below)
      /\ Top.at = "return" => Sheltered(stack, Len(stack))
      /\ Sheltered(stack, Len(stack)) =>
            Top.pinned = <<>> /\ (Top.at = "activation" \/ Sheltered(Below, Len(Below)))
  BY <1>1, <1>4, ShelterOfAppend
<1>6. ~signals.returning => protect = Pins(stack) /\ protect = Pins(Below) \o Top.pinned
  BY NothingInTransit
<1>7. CASE \E f : Pushes(f)
  <2>1. PICK f : Pushes(f)
    BY <1>7
  <2>2. /\ stack' = Append(stack, f) /\ IsFrame(f) /\ protect' = protect \o f.pinned
        /\ signals' = signals /\ ~signals.returning
        /\ f.at = "return" => f.pinned = <<>> /\ MayReturn /\ Top.at \in Hosts
    BY <2>1 DEF Pushes, StatementFrames
  <2>3. Pins(stack') = Pins(stack) \o f.pinned /\ IsSequence(Pins(stack'))
    BY <1>1, <2>2, PinsGrow
  <2>4. protect' = Pins(stack') \o <<>>
    BY <1>6, <2>2, <2>3, AppendIsJoin
  <2>5. f.at = "return" => Sheltered(Append(stack, f), Len(stack) + 1)
    BY <1>1, <2>2, ReturnIsSheltered, ShelterOfAppend
  <2>6. ReturnsSheltered(stack')
    BY <1>1, <1>4, <2>2, <2>5, ShelterOfAppend
  <2> QED
    BY <2>2, <2>4, <2>6
<1>8. CASE \E f : Turns(f)
  <2>1. PICK f : Turns(f)
    BY <1>8
  <2>2. /\ stack' = Append(Below, f) /\ IsFrame(f) /\ IsSequence(f.pinned)
        /\ PinsBecome(f.pinned) /\ Top.at # "activation" /\ f.at # "return"
        /\ signals.returning => f.pinned = Top.pinned /\ protect' = protect
        /\ signals'.returning = signals.returning /\ signals'.value = signals.value
    BY <1>3, <2>1 DEF Turns, IsFrame
  <2>3. Pins(stack') = Pins(Below) \o f.pinned /\ IsSequence(Pins(stack'))
    BY <1>1, <2>2, PinsGrow
  <2>4. ReturnsSheltered(stack')
    BY <1>1, <1>5, <2>2, ShelterOfAppend
  <2>5. CASE signals.returning
    <3>1. f.pinned = <<>> /\ Sheltered(Below, Len(Below)) /\ Top.pinned = <<>>
      BY <1>4, <1>5, <2>2, <2>5
    <3>2. Sheltered(stack', Len(Below) + 1) /\ Len(stack') = Len(Below) + 1
      BY <1>1, <2>2, <3>1, ShelterOfAppend, StackWith
    <3>3. Pins(stack') = Pins(stack) /\ protect = Pins(stack) \o <<signals.value>>
      BY <1>2, <1>4, <2>3, <2>5, <3>1 DEF InTransit
    <3> QED
      BY <2>2, <2>4, <2>5, <3>2, <3>3
  <2>6. CASE ~signals.returning
    <3>1. protect' = Pins(stack')
      BY <2>2, <2>3, <2>6, PinsTurnExactly
    <3>2. protect' = Pins(stack') \o <<>>
      BY <2>3, <3>1, AppendIsJoin
    <3> QED
      BY <2>2, <2>4, <2>6, <3>2
  <2> QED
    BY <2>5, <2>6
<1>9. CASE CallsValue
  <2>1. PICK f, g :
            /\ stack' = Append(Append(Below, f), g)
            /\ IsFrame(f) /\ IsFrame(g) /\ Top.at = "callee"
            /\ f.at = "callv" /\ g.at = "arg_function"
            /\ f.pinned = <<ctl.val>> /\ g.pinned = <<>>
            /\ protect' = protect \o <<ctl.val>> /\ signals' = signals
    BY <1>9 DEF CallsValue
  <2>2. ~signals.returning /\ Top.pinned = <<>> /\ IsSequence(<<ctl.val>>)
    <3>1. Len(Top.pinned) = 0
      BY <1>1, <2>1 DEF PinsFit, PinCount, ArgFrames
    <3> QED
      BY <1>1, <1>2, <2>1, <3>1, SequenceParts, AppendIsJoin DEF Hosts
  <2> DEFINE b == Append(Below, f)
  <2>3. IsStack(b) /\ Pins(b) = Pins(Below) \o <<ctl.val>> /\ IsSequence(Pins(b))
    <3>1. IsStack(b)
      BY <1>1, <2>1, StackWith
    <3>2. Pins(b) = Pins(Below) \o f.pinned /\ IsSequence(Pins(b))
      BY <1>1, <2>1, PinsGrow
    <3> QED
      BY <2>1, <3>1, <3>2
  <2>4. ReturnsSheltered(b)
    BY <1>1, <1>5, <2>1, ShelterOfAppend
  <2> HIDE DEF b
  <2>5. stack' = Append(b, g)
    BY <2>1 DEF b
  <2>6. Pins(stack') = Pins(b) \o <<>> /\ ReturnsSheltered(stack') /\ IsSequence(Pins(stack'))
    <3>1. Pins(Append(b, g)) = Pins(b) \o g.pinned /\ IsSequence(Pins(Append(b, g)))
      BY <2>1, <2>3, PinsGrow
    <3>2. ReturnsSheltered(Append(b, g))
      BY <2>1, <2>3, <2>4, ShelterOfAppend
    <3> QED
      BY <2>1, <2>5, <3>1, <3>2
  <2>7. Pins(Below) \o <<>> = Pins(Below) /\ Pins(b) \o <<>> = Pins(b)
    BY <1>2, <2>3, AppendIsJoin
  <2>8. protect' = Pins(stack')
    BY <1>6, <2>1, <2>2, <2>3, <2>6, <2>7
  <2>9. protect' = Pins(stack') \o <<>>
    BY <2>6, <2>8, AppendIsJoin
  <2> QED
    BY <2>1, <2>2, <2>6, <2>9
<1>10. CASE Pops
  <2>1. stack' = Below /\ (Releases \/ RaisesReturn \/ ReceivesReturn)
    BY <1>10 DEF Pops
  <2>2. CASE Releases
    <3>1. /\ protect' = PopPins(Len(Top.pinned)) /\ Top.at # "activation"
          /\ signals'.returning = signals.returning /\ signals'.value = signals.value
      BY <1>3, <2>2 DEF Releases
    <3>2. CASE signals.returning
      <4>1. Top.pinned = <<>> /\ Sheltered(Below, Len(Below)) /\ Len(Top.pinned) = 0
        BY <1>2, <1>4, <1>5, <3>1, <3>2, SequenceParts
      <4>2. Pins(stack) = Pins(Below)
        BY <1>2, <4>1, AppendIsJoin
      <4>3. PopPins(0) = protect
        <5>1. protect = protect \o <<>> /\ IsSequence(<<>>) /\ Len(<<>>) = 0
          BY <1>2, AppendIsJoin
        <5>2. 0 \in 0 .. Len(<<>>) /\ 0 = Len(<<>>)
          BY <5>1
        <5> QED
          BY <1>2, <5>1, <5>2, PopJoined
      <4>4. protect' = Pins(stack') \o <<signals.value>>
        BY <1>4, <2>1, <3>1, <3>2, <4>1, <4>2, <4>3 DEF InTransit
      <4> QED
        BY <1>5, <2>1, <3>1, <3>2, <4>1, <4>4
    <3>3. CASE ~signals.returning
      <4>1. Len(Top.pinned) \in 0 .. Len(Top.pinned)
        BY <1>2, SequenceParts
      <4>2. protect' = Pins(Below)
        BY <1>2, <1>6, <3>1, <3>3, <4>1, PopJoined
      <4>3. protect' = Pins(stack') \o <<>>
        BY <1>2, <2>1, <4>2, AppendIsJoin
      <4> QED
        BY <1>5, <2>1, <3>1, <3>3, <4>3
    <3> QED
      BY <3>2, <3>3
  <2>3. CASE RaisesReturn
    <3>1. /\ Top.at = "return" /\ ctl.mode = "value" /\ protect' = Append(protect, ctl.val)
          /\ signals'.returning /\ signals'.value = ctl.val
      BY <1>3, <2>3 DEF RaisesReturn, IsSignal
    <3>2. /\ ~signals.returning /\ Top.pinned = <<>> /\ Sheltered(Below, Len(Below))
      BY <1>1, <1>5, <3>1
    <3>3. protect = Pins(Below)
      BY <1>2, <1>6, <3>2, AppendIsJoin
    <3>4. protect' = Pins(stack') \o <<ctl.val>>
      BY <1>2, <2>1, <3>1, <3>3, AppendIsJoin
    <3> QED
      BY <1>5, <2>1, <3>1, <3>2, <3>4
  <2>4. CASE ReceivesReturn
    <3>1. /\ Top.at = "activation" /\ ~signals'.returning
          /\ protect' = PopPins(IF signals.returning THEN 1 ELSE 0)
      BY <1>3, <2>4 DEF ReceivesReturn, IsSignal
    <3>2. Top.pinned = <<>>
      <4>1. Len(Top.pinned) = 0
        BY <1>1, <3>1 DEF PinsFit, PinCount, ArgFrames
      <4> QED
        BY <1>2, <4>1, SequenceParts
    <3>3. Pins(stack) = Pins(Below)
      BY <1>2, <3>2, AppendIsJoin
    <3>4. protect' = Pins(Below)
      <4>1. CASE signals.returning
        <5>1. protect = Pins(Below) \o <<signals.value>> /\ protect' = PopPins(1)
          BY <1>4, <3>1, <3>3, <4>1 DEF InTransit
        <5>2. IsSequence(<<signals.value>>) /\ 1 \in 0 .. Len(<<signals.value>>)
              /\ 1 = Len(<<signals.value>>)
          BY <1>2, AppendIsJoin
        <5> QED
          BY <1>2, <5>1, <5>2, PopJoined
      <4>2. CASE ~signals.returning
        <5>1. protect = Pins(Below) \o <<>> /\ protect' = PopPins(0)
          BY <1>4, <3>1, <3>3, <4>2 DEF InTransit
        <5>2. IsSequence(<<>>) /\ Len(<<>>) = 0
          BY EmptyStack
        <5>3. 0 \in 0 .. Len(<<>>) /\ 0 = Len(<<>>)
          BY <5>2
        <5> QED
          BY <1>2, <5>1, <5>2, <5>3, PopJoined
      <4> QED
        BY <4>1, <4>2
    <3>5. protect' = Pins(stack') \o <<>>
      BY <1>2, <2>1, <3>4, AppendIsJoin
    <3> QED
      BY <1>5, <2>1, <3>1, <3>5
  <2> QED
    BY <2>1, <2>2, <2>3, <2>4
<1>11. CASE Stays
  <2>1. /\ stack' = stack /\ protect' = protect
        /\ signals' = signals \/ Signals
    BY <1>11 DEF Stays
  <2>2. signals'.returning = signals.returning /\ signals'.value = signals.value
    <3>1. CASE Signals
      <4>1. PICK k \in {"breaking", "continuing"} : signals' = [signals EXCEPT ![k] = TRUE]
        BY <3>1 DEF Signals
      <4> QED
        BY <1>3, <4>1 DEF IsSignal
    <3> QED
      BY <2>1, <3>1
  <2> QED
    BY <1>4, <2>1, <2>2 DEF InTransit
<1>12. CASE Ends
  <2>1. /\ stack' = <<>> /\ Top.at = "program" /\ protect' = protect /\ signals' = signals
    BY <1>12 DEF Ends
  <2>2. Below = <<>> /\ Len(Top.pinned) = 0
    BY <1>1, <2>1, BelowOrdered DEF PinsFit, PinCount, ArgFrames
  <2>3. Top.pinned = <<>> /\ Pins(stack) = <<>> /\ Pins(stack') = <<>>
    BY <1>2, <2>1, <2>2, EmptyStack, AppendIsJoin, SequenceParts
  <2>4. ReturnsSheltered(<<>>)
    BY EmptyStack DEF ReturnsSheltered
  <2> QED
    BY <1>4, <2>1, <2>3, <2>4 DEF InTransit
<1> QED
  BY <1>7, <1>8, <1>9, <1>10, <1>11, <1>12 DEF Moves

-----------------------------------------------------------------------------
(* A break or continue meets nothing but blocks on its way to its loop.     *)

Broken == signals.breaking \/ signals.continuing

InLoop(s) ==
    \E l \in DOMAIN s : s[l].at \in LoopBodies /\ \A j \in DOMAIN s : j > l => s[j].at = "block"

OneSignal(s) ==
    /\ ~(s.returning /\ s.breaking) /\ ~(s.returning /\ s.continuing)
    /\ ~(s.breaking /\ s.continuing)

Contained ==
    /\ OneSignal(signals)
    /\ Broken => /\ ~hadError
                 /\ ctl.mode \in {"resume", "exec", "block"}
                 /\ InLoop(stack)

(* The flags after the loop has consumed a signal.                          *)
LEMMA LoweredSignals ==
    ASSUME Grounded, OneSignal(signals)
    PROVE  OneSignal(Lowered) /\ ~Lowered.breaking /\ ~Lowered.continuing
<1>1. CASE signals.breaking
  <2>1. Lowered = [signals EXCEPT !["breaking"] = FALSE]
    BY <1>1 DEF Lowered
  <2>2. ~Lowered.breaking /\ Lowered.continuing = signals.continuing
    BY <2>1 DEF Grounded, IsSignal
  <2> QED
    BY <1>1, <2>2 DEF OneSignal
<1>2. CASE ~signals.breaking
  <2>1. Lowered = [signals EXCEPT !["continuing"] = FALSE]
    BY <1>2 DEF Lowered
  <2>2. ~Lowered.continuing /\ Lowered.breaking = signals.breaking
    BY <2>1 DEF Grounded, IsSignal
  <2> QED
    BY <1>2, <2>2 DEF OneSignal
<1> QED
  BY <1>1, <1>2

(* With a new top, a signal is in its loop if that is a block or a loop.    *)
LEMMA InLoopOfAppend ==
    ASSUME NEW s, IsStack(s), NEW f, IsFrame(f)
    PROVE  InLoop(Append(s, f)) <=> f.at \in LoopBodies \/ (f.at = "block" /\ InLoop(s))
<1> DEFINE t == Append(s, f)
<1> PICK n \in Nat : n = Len(s)
  BY StackWith
<1>1. /\ DOMAIN s = 1 .. n /\ DOMAIN t = 1 .. n + 1
      /\ \A i \in 1 .. n : t[i] = s[i]
      /\ t[n + 1] = f
  BY StackWith
<1> HIDE DEF t
<1>2. /\ n + 1 \in 1 .. n + 1 /\ \A i \in 1 .. n : i \in 1 .. n + 1 /\ n + 1 > i
      /\ \A i \in 1 .. n + 1 : i \in 1 .. n \/ i = n + 1
      /\ \A i \in 1 .. n + 1 : ~(i > n + 1)
  OBVIOUS
<1>3. ASSUME InLoop(t) PROVE f.at \in LoopBodies \/ (f.at = "block" /\ InLoop(s))
  <2>1. PICK l \in 1 .. n + 1 :
            t[l].at \in LoopBodies /\ \A j \in 1 .. n + 1 : j > l => t[j].at = "block"
    BY <1>1, <1>3 DEF InLoop
  <2>2. CASE l = n + 1
    BY <1>1, <2>1, <2>2
  <2>3. CASE l \in 1 .. n
    <3>1. f.at = "block"
      BY <1>1, <1>2, <2>1, <2>3
    <3>2. s[l].at \in LoopBodies /\ \A j \in 1 .. n : j > l => s[j].at = "block"
      BY <1>1, <1>2, <2>1, <2>3
    <3> QED
      BY <1>1, <2>3, <3>1, <3>2 DEF InLoop
  <2> QED
    BY <1>2, <2>2, <2>3
<1>4. ASSUME f.at \in LoopBodies PROVE InLoop(t)
  BY <1>1, <1>2, <1>4 DEF InLoop
<1>5. ASSUME f.at = "block", InLoop(s) PROVE InLoop(t)
  <2>1. PICK l \in 1 .. n :
            s[l].at \in LoopBodies /\ \A j \in 1 .. n : j > l => s[j].at = "block"
    BY <1>1, <1>5 DEF InLoop
  <2>2. t[l].at \in LoopBodies /\ \A j \in 1 .. n + 1 : j > l => t[j].at = "block"
    BY <1>1, <1>2, <1>5, <2>1
  <2> QED
    BY <1>1, <1>2, <2>2 DEF InLoop
<1> QED
  BY <1>3, <1>4, <1>5 DEF t

(* A break or continue that goes up is in a loop of its own function, with  *)
(* nothing but blocks in between: g_loop_depth is exact, and the program    *)
(* has no such statement in the header of a for or at the top of a module.  *)
LEMMA SignalIsInLoop ==
    ASSUME Grounded, LoopInv, ctl.mode # "done", Top.at \in Hosts, MayBreak, loopDepth # 0,
           "header_signal" \notin constructs, "module_signal" \notin constructs
    PROVE  InLoop(stack)
<1>1. PICK b \in Nat : b = InnermostBody
  BY BodyIsThere
<1>2. PICK n \in Nat : n = Len(stack)
  BY TopParts
<1>3. /\ b \in 1 .. n /\ stack[b].at \in BodyFrames
      /\ \A j \in 1 .. n : stack[j].at \in BodyFrames => j <= b
      /\ \A i \in b .. n : stack[i].at \in Hosts
      /\ DOMAIN stack = 1 .. n
  BY <1>1, <1>2, BodyIsThere, HostsAboveBody, TopParts
<1>4. /\ stack[b].at # "module"
      /\ \A i \in 1 .. n : stack[i].at \in {"for_init", "for_test"} =>
            \E j \in i + 1 .. n : stack[j].at \in (LoopFrames \cup BodyFrames) \ {"for_test"}
  BY <1>1, <1>2, <1>3 DEF MayBreak
<1> DEFINE Others == {i \in 1 .. n : stack[i].at # "block"}
<1>5. b \in Others
  BY <1>3 DEF BodyFrames
<1>6. PICK l \in Others : \A j \in Others : j <= l
  <2>1. Others \subseteq 1 .. n /\ Others # {}
    BY <1>5
  <2> HIDE DEF Others
  <2> QED
    BY <2>1, GreatestPlace
<1>7. l \in 1 .. n /\ b <= l /\ stack[l].at # "block"
  BY <1>5, <1>6
<1>8. ASSUME NEW j \in 1 .. n, j > l PROVE stack[j].at = "block"
  <2>1. ~(j <= l)
    BY <1>7, <1>8
  <2> QED
    BY <1>6, <2>1
<1> HIDE DEF Others
<1>9. stack[l].at \in Hosts
  BY <1>3, <1>7
<1>10. stack[l].at # "module"
  <2>1. ASSUME stack[l].at = "module" PROVE FALSE
    <3>1. l <= b
      BY <1>3, <1>7, <2>1 DEF BodyFrames
    <3>2. l = b
      BY <1>3, <1>7, <3>1
    <3> QED
      BY <1>4, <2>1, <3>2
  <2> QED
    BY <2>1
<1>11. stack[l].at \notin {"for_init", "for_test"}
  <2>1. ASSUME stack[l].at \in {"for_init", "for_test"} PROVE FALSE
    <3>1. PICK j \in l + 1 .. n : stack[j].at \in (LoopFrames \cup BodyFrames) \ {"for_test"}
      BY <1>4, <1>7, <2>1
    <3>2. j \in 1 .. n /\ j > l
      BY <1>7
    <3>3. stack[j].at = "block"
      BY <1>8, <3>2
    <3> QED
      BY <3>1, <3>3 DEF LoopFrames, BodyFrames
  <2> QED
    BY <2>1
<1>12. stack[l].at \notin {"activation", "program"}
  <2>1. ASSUME stack[l].at \in {"activation", "program"} PROVE FALSE
    <3>1. ASSUME NEW i \in LoopsIn(stack, n) PROVE FALSE
      <4>1. i \in 1 .. n /\ stack[i].at \in LoopFrames /\ l < i
        BY <1>7, <2>1 DEF LoopsIn
      <4>2. stack[i].at = "block"
        BY <1>7, <1>8, <4>1
      <4> QED
        BY <4>1, <4>2 DEF LoopFrames
    <3>2. LoopsIn(stack, n) = {}
      BY <3>1
    <3>3. loopDepth = 0
      BY <1>2, <3>2, FS_EmptySet DEF LoopInv, Depth
    <3> QED
      BY <3>3
  <2> QED
    BY <2>1
<1>13. stack[l].at \in LoopBodies
  BY <1>7, <1>9, <1>10, <1>11, <1>12 DEF Hosts, LoopBodies
<1> QED
  BY <1>3, <1>7, <1>8, <1>13 DEF InLoop

(* A break or continue stays in its loop, and alone.                        *)
LEMMA ContainedAfter ==
    ASSUME Grounded, LoopInv, Contained, ctl.mode # "done", Moves,
           "header_signal" \notin constructs, "module_signal" \notin constructs
    PROVE  /\ OneSignal(signals')
           /\ signals'.breaking \/ signals'.continuing =>
                 /\ ~hadError'
                 /\ ctl'.mode \in {"resume", "exec", "block"}
                 /\ InLoop(stack')
<1>1. /\ IsStack(Below) /\ IsFrame(Top) /\ stack = Append(Below, Top)
      /\ IsSignal(signals)
  BY TopParts DEF Grounded
<1>2. /\ OneSignal(signals)
      /\ Broken => /\ ~hadError
                   /\ ctl.mode \in {"resume", "exec", "block"}
                   /\ Top.at \in LoopBodies \/ (Top.at = "block" /\ InLoop(Below))
  BY <1>1, InLoopOfAppend DEF Contained
<1>3. OneSignal(Lowered) /\ ~Lowered.breaking /\ ~Lowered.continuing
  BY <1>2, LoweredSignals
<1>4. CASE \E f : Pushes(f)
  <2>1. signals' = signals /\ (ctl.mode = "eval" \/ ~Unwinding)
    BY <1>4 DEF Pushes
  <2>2. ~Broken
    BY <1>2, <2>1 DEF Broken, Unwinding
  <2> QED
    BY <1>2, <2>1, <2>2 DEF Broken
<1>5. CASE \E f : Turns(f)
  <2>1. \/ signals' = signals /\ Top.at \notin LoopBodies \cup {"block"}
        \/ signals' = Lowered
    BY <1>5 DEF Turns
  <2> QED
    BY <1>2, <1>3, <2>1 DEF Broken
<1>6. CASE CallsValue
  <2>1. signals' = signals /\ ctl.mode = "value"
    BY <1>6 DEF CallsValue
  <2> QED
    BY <1>2, <2>1 DEF Broken
<1>7. CASE Pops
  <2>1. /\ stack' = Below
        /\ Top.at \in LoopBodies \cup {"block"} => hadError' = hadError /\ ctl'.mode = "resume"
        /\ Releases \/ RaisesReturn \/ ReceivesReturn
    BY <1>7 DEF Pops
  <2>2. CASE Releases
    <3>1. \/ signals' = signals /\ (Top.at \in LoopBodies => signals.returning \/ hadError)
          \/ signals' = Lowered
      BY <2>2 DEF Releases
    <3>2. CASE signals' = signals /\ (Top.at \in LoopBodies => signals.returning \/ hadError)
      <4>1. Broken => Top.at \notin LoopBodies
        BY <1>2, <3>2 DEF Broken, OneSignal
      <4> QED
        BY <1>2, <2>1, <3>2, <4>1 DEF Broken
    <3>3. CASE signals' = Lowered
      BY <1>3, <3>3
    <3> QED
      BY <3>1, <3>2, <3>3
  <2>3. CASE RaisesReturn
    <3>1. ctl.mode = "value" /\ signals' = [signals EXCEPT !.returning = TRUE, !.value = ctl.val]
      BY <2>3 DEF RaisesReturn
    <3>2. ~signals.breaking /\ ~signals.continuing
      BY <1>2, <3>1 DEF Broken
    <3>3. signals'.breaking = signals.breaking /\ signals'.continuing = signals.continuing
      BY <1>1, <3>1 DEF IsSignal
    <3> QED
      BY <3>2, <3>3 DEF OneSignal
  <2>4. CASE ReceivesReturn
    <3>1. /\ Top.at = "activation"
          /\ signals' = [signals EXCEPT !.returning = FALSE, !.value = Scalar]
      BY <2>4 DEF ReceivesReturn
    <3>2. ~signals.breaking /\ ~signals.continuing
      BY <1>2, <3>1 DEF Broken, LoopBodies
    <3>3. signals'.breaking = signals.breaking /\ signals'.continuing = signals.continuing
      BY <1>1, <3>1 DEF IsSignal
    <3> QED
      BY <3>2, <3>3 DEF OneSignal
  <2> QED
    BY <2>1, <2>2, <2>3, <2>4
<1>8. CASE Stays
  <2>1. /\ stack' = stack
        /\ \/ /\ signals' = signals
              /\ Unwinding /\ Top.at \in Hosts =>
                    hadError' = hadError /\ ctl'.mode \in {"resume", "exec", "block"}
           \/ Signals
    BY <1>8 DEF Stays
  <2>2. CASE signals' = signals /\ (Unwinding /\ Top.at \in Hosts =>
                    hadError' = hadError /\ ctl'.mode \in {"resume", "exec", "block"})
    <3>1. Broken => hadError' = hadError /\ ctl'.mode \in {"resume", "exec", "block"}
      BY <1>2, <2>2 DEF Broken, Unwinding, LoopBodies, Hosts
    <3> QED
      BY <1>2, <2>1, <2>2, <3>1 DEF Contained, Broken
  <2>3. CASE Signals
    <3>1. /\ Top.at \in Hosts /\ ~hadError' /\ ~Unwinding /\ MayBreak /\ loopDepth # 0
          /\ ctl'.mode = "resume"
      BY <2>3 DEF Signals
    <3>2. InLoop(stack')
      BY <2>1, <3>1, SignalIsInLoop
    <3>3. OneSignal(signals')
      <4>1. PICK k \in {"breaking", "continuing"} : signals' = [signals EXCEPT ![k] = TRUE]
        BY <2>3 DEF Signals
      <4>2. signals'.returning = signals.returning
        BY <1>1, <4>1 DEF IsSignal
      <4>3. CASE k = "breaking"
        <5>1. signals'.continuing = signals.continuing
          BY <1>1, <4>1, <4>3 DEF IsSignal
        <5> QED
          BY <3>1, <4>2, <5>1 DEF Unwinding, OneSignal
      <4>4. CASE k = "continuing"
        <5>1. signals'.breaking = signals.breaking
          BY <1>1, <4>1, <4>4 DEF IsSignal
        <5> QED
          BY <3>1, <4>2, <5>1 DEF Unwinding, OneSignal
      <4> QED
        BY <4>3, <4>4
    <3> QED
      BY <3>1, <3>2, <3>3
  <2> QED
    BY <2>1, <2>2, <2>3
<1>9. CASE Ends
  BY <1>2, <1>9 DEF Ends, Broken, LoopBodies
<1> QED
  BY <1>4, <1>5, <1>6, <1>7, <1>8, <1>9 DEF Moves

-----------------------------------------------------------------------------
(* What holds of programs that do not do the things the switches stand for. *)

(* No return inside a for-in loop and none outside of every function.       *)
ReturnsStayPut == "forin_return" \notin constructs /\ "program_return" \notin constructs

(* No break or continue in the header of a for or at the top of a module.   *)
SignalsStayPut == "header_signal" \notin constructs /\ "module_signal" \notin constructs

Precise == Sound /\ (ReturnsStayPut => Exact) /\ (SignalsStayPut => Contained)

(* Nothing is pinned or under way at the start.                             *)
LEMMA InitPrecise == Init => Precise
<1> SUFFICES ASSUME Init PROVE Precise
  OBVIOUS
<1> DEFINE f == Frame("program", Globals)
<1>1. /\ protect = <<>> /\ stack = <<f>>
      /\ signals = [returning |-> FALSE, value |-> Scalar,
                    breaking |-> FALSE, continuing |-> FALSE]
  BY DEF Init
<1>2. Sound
  BY InitSound
<1>3. ~signals.returning /\ ~signals.breaking /\ ~signals.continuing
  BY <1>1
<1>4. IsFrame(f) /\ f.at = "program" /\ f.pinned = <<>>
  BY NewFrame
<1>5. stack = Append(<<>>, f)
  <2>1. <<>> \o <<f>> = Append(<<>>, f) /\ <<>> \o <<f>> = <<f>>
    BY EmptyStack, AppendIsJoin
  <2> QED
    BY <1>1, <2>1
<1> HIDE DEF f
<1>6. ReturnsSheltered(<<>>)
  BY EmptyStack DEF ReturnsSheltered
<1>7. ReturnsSheltered(stack)
  BY <1>4, <1>5, <1>6, EmptyStack, ShelterOfAppend
<1>8. Pins(stack) = <<>> /\ <<>> = <<>> \o <<>>
  <2>1. Pins(Append(<<>>, f)) = Pins(<<>>) \o f.pinned
    BY <1>4, EmptyStack, PinsGrow
  <2>2. <<>> \o <<>> = <<>>
    BY EmptyStack, AppendIsJoin
  <2> QED
    BY <1>4, <1>5, <2>1, <2>2, EmptyStack
<1>9. Exact
  BY <1>1, <1>3, <1>7, <1>8 DEF Exact, InTransit
<1>10. Contained
  BY <1>3 DEF Contained, OneSignal, Broken
<1> QED
  BY <1>2, <1>9, <1>10 DEF Precise

(* Every step keeps both.                                                   *)
LEMMA StepPrecise == Precise /\ Step => Precise'
<1> SUFFICES ASSUME Precise, Step PROVE Precise'
  OBVIOUS
<1>1. Sound' /\ Grounded /\ LoopInv
  BY StepSound DEF Precise, Sound
<1>2. Moves /\ constructs' = constructs /\ ctl.mode # "done"
  BY <1>1, StepMoves
<1>3. ASSUME ReturnsStayPut PROVE Exact'
  <2>1. Exact
    BY <1>3 DEF Precise
  <2> QED
    BY <1>1, <1>2, <1>3, <2>1, ExactAfter DEF ReturnsStayPut, Exact, InTransit
<1>4. ASSUME SignalsStayPut PROVE Contained'
  <2>1. Contained
    BY <1>4 DEF Precise
  <2> QED
    BY <1>1, <1>2, <1>4, <2>1, ContainedAfter DEF SignalsStayPut, Contained, Broken
<1>5. ReturnsStayPut' = ReturnsStayPut /\ SignalsStayPut' = SignalsStayPut
  BY <1>2 DEF ReturnsStayPut, SignalsStayPut
<1> QED
  BY <1>1, <1>3, <1>4, <1>5 DEF Precise

(* So does a step of something else.                                        *)
LEMMA StutterPrecise == Precise /\ UNCHANGED vars => Precise'
<1> SUFFICES ASSUME Precise, UNCHANGED vars PROVE Precise'
  OBVIOUS
<1>1. UNCHANGED <<protect, stack, ctl, signals, loopDepth, hadError, constructs>>
  BY DEF vars, memory, control
<1>2. Sound'
  BY StutterSound DEF Precise
<1> QED
  BY <1>1, <1>2 DEF Precise, ReturnsStayPut, SignalsStayPut, Exact, InTransit, Contained, Broken

(* The same, entry by entry and signal by signal.                           *)
THEOREM StackPrecision == Spec => []Precise
<1>1. Precise /\ [Next]_vars => Precise'
  BY StepPrecise, StutterPrecise DEF Next, Terminated
<1> QED
  BY <1>1, InitPrecise, PTL DEF Spec

(* The protect stack holds exactly the pins of the C activations in their   *)
(* order, and a return value on its way out on top of them: the return of a *)
(* call can pop its value without looking at it.  A return inside a for-in  *)
(* loop breaks this (the loop pops the value instead of its list), and so   *)
(* does one outside of every function, which nobody receives.               *)
THEOREM ProtectIsExact == Spec => [](ReturnsStayPut => PinsMatchActivations)
<1>1. Precise => (ReturnsStayPut => PinsMatchActivations)
  BY DEF Precise, Exact, InTransit, Pins, PinsMatchActivations
<1> QED
  BY <1>1, StackPrecision, PTL

(* At most one of return, break and continue is under way, and a break or   *)
(* continue has a loop of its own function to stop it, unless the program   *)
(* has one in the header of a for or at the top level of a module.          *)
THEOREM SignalsAreReceived == Spec => [](SignalsStayPut => SignalsHaveAReceiver)
<1>1. Precise => (SignalsStayPut => SignalsHaveAReceiver)
  <2> SUFFICES ASSUME Sound, Contained PROVE SignalsHaveAReceiver
    BY DEF Precise
  <2>1. ASSUME NEW f \in {"returning", "breaking", "continuing"},
               NEW g \in {"returning", "breaking", "continuing"}, signals[f] /\ signals[g]
        PROVE  f = g
    BY <2>1 DEF Contained, OneSignal
  <2>2. ASSUME Broken PROVE loopDepth > 0
    <3>1. PICK l \in DOMAIN stack :
              /\ stack[l].at \in LoopBodies
              /\ \A j \in DOMAIN stack : j > l => stack[j].at = "block"
      BY <2>2 DEF Contained, InLoop
    <3>2. ctl.mode # "done" /\ loopDepth = Depth(stack)
      BY <2>2 DEF Contained, Sound, LoopInv
    <3>3. DOMAIN stack = 1 .. Len(stack) /\ Len(stack) \in Nat
      BY <3>2, TopParts DEF Sound
    <3>4. l \in LoopsIn(stack, Len(stack))
      <4>1. ASSUME NEW j \in 1 .. Len(stack), stack[j].at \in {"activation", "program"}
            PROVE  j < l
        <5>1. j # l
          BY <3>1, <4>1 DEF LoopBodies
        <5>2. ~(j > l)
          BY <3>1, <3>3, <4>1
        <5> QED
          BY <3>3, <5>1, <5>2
      <4> QED
        BY <3>1, <3>3, <4>1 DEF LoopsIn, LoopBodies, LoopFrames
    <3>5. IsFiniteSet(LoopsIn(stack, Len(stack)))
      <4>1. LoopsIn(stack, Len(stack)) \subseteq 1 .. Len(stack)
        BY DEF LoopsIn
      <4>2. 1 \in Int /\ Len(stack) \in Int
        BY <3>3
      <4>3. IsFiniteSet(1 .. Len(stack))
        BY <4>2, FS_Interval
      <4> QED
        BY <4>1, <4>3, FS_Subset
    <3>6. Cardinality(LoopsIn(stack, Len(stack))) \in Nat
          /\ Cardinality(LoopsIn(stack, Len(stack))) # 0
      BY <3>4, <3>5, FS_CardinalityType, FS_EmptySet
    <3> QED
      BY <3>2, <3>6 DEF Depth
  <2> QED
    BY <2>1, <2>2 DEF SignalsHaveAReceiver, Broken
<1> QED
  BY <1>1, StackPrecision, PTL

(* The loop that a break or continue is for is in the same body: of a       *)
(* function, a module or the program.  No loop of a caller or an importer   *)
(* is ended by one, with the same exceptions.                               *)
THEOREM BreaksAreLocal == Spec => [](SignalsStayPut => BreakStaysInItsBody)
<1>1. Precise => (SignalsStayPut => BreakStaysInItsBody)
  <2> SUFFICES ASSUME Sound, Contained, Broken
               PROVE  \E i \in DOMAIN stack :
                         /\ stack[i].at \in LoopFrames
                         /\ \A j \in DOMAIN stack : stack[j].at \in BodyFrames => j < i
    BY DEF Precise, BreakStaysInItsBody, Broken
  <2>1. PICK l \in DOMAIN stack :
            /\ stack[l].at \in LoopBodies
            /\ \A j \in DOMAIN stack : j > l => stack[j].at = "block"
    BY DEF Contained, InLoop
  <2>2. DOMAIN stack = 1 .. Len(stack) /\ Len(stack) \in Nat
    BY TopParts DEF Contained, Sound
  <2>3. ASSUME NEW j \in DOMAIN stack, stack[j].at \in BodyFrames PROVE j < l
    <3>1. j # l
      BY <2>1, <2>3 DEF LoopBodies, BodyFrames
    <3>2. ~(j > l)
      BY <2>1, <2>3 DEF BodyFrames
    <3> QED
      BY <2>2, <3>1, <3>2
  <2>4. stack[l].at \in LoopFrames
    BY <2>1 DEF LoopBodies, LoopFrames
  <2> QED
    BY <2>1, <2>3, <2>4
<1> QED
  BY <1>1, StackPrecision, PTL

-----------------------------------------------------------------------------
(* A return comes to its call.                                              *)

(* Between two nested calls, this is what a step does while a return is on  *)
(* its way out: a statement is skipped, a for gives up its initializer, a   *)
(* loop or block is left, or the body is over.                              *)
Unwinds ==
    \/ /\ ctl.mode \in {"exec", "block"} /\ ctl'.mode = "resume"
       /\ stack' = stack /\ signals' = signals
    \/ /\ ctl.mode = "resume" /\ ctl'.mode = "resume" /\ Top.at = "for_init"
       /\ stack' = Append(Below, TopAt("for_test")) /\ signals' = signals
    \/ /\ ctl.mode = "resume" /\ ctl'.mode = "resume"
       /\ Top.at \in {"block", "for_test", "while_body", "for_body", "forin_body"}
       /\ stack' = Below /\ signals' = signals
    \/ Top.at = "activation" /\ stack' = Below /\ ~signals'.returning
    \/ Top.at \in {"module", "program"}


(* A statement is skipped, and loops and blocks are left.                   *)
LEMMA StatementUnwinds ==
    ASSUME Grounded, signals.returning, Statement,
           ctl.mode \in {"resume", "exec", "block"}, Top.at \in Hosts
    PROVE  Unwinds
<1>0. Unwinding
  BY DEF Unwinding
<1>1. CASE Skip
  BY <1>1 DEF Skip, Resume, control, Unwinds
<1>2. CASE LeaveBlock
  BY <1>2 DEF LeaveBlock, LeaveBlockDropping, AtResume, Resume, control, Unwinds
<1>3. CASE ForInitDone
  BY <1>3 DEF ForInitDone, AtResume, Resume, Unwinds
<1>4. CASE ForTest
  BY <1>4 DEF ForTest, ForTestUnless, LeaveLoop, AtResume, Resume, Unwinds
<1>5. CASE BodyDone
  BY <1>5 DEF BodyDone, AfterBody, LeaveLoop, AtResume, Resume, Unwinds
<1>6. /\ ~EnterBlock /\ ~NextStatement /\ ~BeginStatement /\ ~BeginFor /\ ~BeginWhile
      /\ ~BreakOrContinue /\ ~DefineFunction
  BY <1>0 DEF EnterBlock, NextStatement, BeginStatement, BeginFor, BeginWhile, StartWhile,
              BreakOrContinue, SignalUnless, DefineFunction, Executing
<1>7. /\ ~ExpressionStatement /\ ~Assign /\ ~FieldTarget /\ ~FieldAssign /\ ~IndexAssign
      /\ ~If /\ ~ElseIf /\ ~Condition /\ ~BeginForIn /\ ~Return
  BY DEF ExpressionStatement, Assign, FieldTarget, FieldAssign, IndexAssign, StoreIndexed,
         If, ElseIf, Condition, BeginForIn, Return, AtValue
<1>8. ~ForInNext
  BY DEF ForInNext, AtResume, Hosts
<1> QED
  BY <1>1, <1>2, <1>3, <1>4, <1>5, <1>6, <1>7, <1>8 DEF Statement

(* So is every step while a return is on its way out.                       *)
LEMMA StepUnwinds ==
    ASSUME Grounded, signals.returning, Step
    PROVE  Unwinds /\ ctl.mode \in {"resume", "exec", "block"} /\ Top.at \in Hosts
<1>1. ctl.mode \in {"resume", "exec", "block"} /\ Top.at \in Hosts
  BY StepMoves, TopParts
<1>2. CASE Statement
  BY <1>1, <1>2, StatementUnwinds
<1>3. CASE Program
  <2>1. ~Import
    BY DEF Import, ImportInto, Executing, Unwinding
  <2>2. Top.at \in {"module", "program"}
    BY <1>3, <2>1 DEF Program, NextTopLevelStatement, ModuleFailed, ModuleLoaded, CacheAndBind,
                      Finish, DropAndCollect, AtResume
  <2> QED
    BY <1>1, <2>2 DEF Unwinds
<1>4. CASE Expression
  <2>1. CASE ReturnFromBody
    <3>1. IsSignal(signals)
      BY DEF Grounded
    <3> QED
      BY <1>1, <2>1, <3>1 DEF ReturnFromBody, LeaveBody, AtResume, Yield, Unwinds, IsSignal
  <2>2. CASE ~ReturnFromBody
    BY <1>1, <1>4, <2>2 DEF Expression, Leaf, BeginOperand, Unary, NextOperand, Binary, BeginCall,
                  Callee, CalleeReturned, Receiver, NextArgument, Argument, BadArguments,
                  ConstructStruct, CallFunction, CallMethod, CallBuiltin,
                  BeginContainer, NextElement, ListElement, MapValue, EndContainer, Index, Field,
                  Evaluating, AtEval, AtValue, AtResume, AtArguments, AtContainer,
                  ApplyCallee, Hosts, ArgFrames
  <2> QED
    BY <2>1, <2>2
<1> QED
  BY <1>1, <1>2, <1>3, <1>4 DEF Step

(* The innermost body is the last one on the stack.                         *)
LEMMA BodyIsLast ==
    ASSUME NEW s, IsStack(s), stack' = s, NEW b \in 1 .. Len(s), s[b].at \in BodyFrames,
           \A j \in 1 .. Len(s) : s[j].at \in BodyFrames => j <= b
    PROVE  InnermostBody' = b
<1>1. DOMAIN s = 1 .. Len(s) /\ Len(s) \in Nat
  BY SequenceParts DEF IsStack
<1>2. Bodies' = {i \in 1 .. Len(s) : s[i].at \in BodyFrames}
  BY <1>1 DEF Bodies
<1>3. /\ b \in Bodies' /\ \A j \in Bodies' : j <= b
      /\ Bodies' \subseteq Nat
  BY <1>1, <1>2
<1>4. \A i \in Bodies' : (\A j \in Bodies' : j <= i) => i = b
  BY <1>3
<1>5. InnermostBody' = CHOOSE i \in Bodies' : \A j \in Bodies' : j <= i
  BY DEF InnermostBody
<1> HIDE DEF InnermostBody
<1> QED
  BY <1>3, <1>4, <1>5

(* A frame is left or turned into another statement, and the body below it  *)
(* is as before.                                                            *)
LEMMA BodyStays ==
    ASSUME Grounded, ctl.mode # "done", InFunction, Top.at \notin BodyFrames,
           \/ stack' = Below
           \/ \E f : IsFrame(f) /\ f.at \notin BodyFrames /\ stack' = Append(Below, f)
    PROVE  InFunction' /\ InnermostBody' = InnermostBody
<1> PICK s : s = Below /\ IsStack(s)
  BY TopParts
<1> PICK n \in Nat : n = Len(stack) /\ n > 0 /\ Len(s) = n - 1
  BY TopParts
<1> PICK b \in 1 .. n :
      /\ b = InnermostBody /\ stack[b].at = "activation"
      /\ \A j \in 1 .. n : stack[j].at \in BodyFrames => j <= b
  BY BodyIsThere DEF InFunction
<1>1. b # n
  BY DEF Top, BodyFrames
<1>2. DOMAIN s = 1 .. n - 1 /\ \A i \in 1 .. n - 1 : s[i] = stack[i]
  BY StackParts, TopParts DEF Below
<1>3. /\ b \in 1 .. n - 1 /\ s[b].at = "activation" /\ "activation" \in BodyFrames
      /\ \A j \in 1 .. n - 1 : s[j].at \in BodyFrames => j <= b
  BY <1>1, <1>2 DEF BodyFrames
<1>4. CASE stack' = s
  <2>1. InnermostBody' = b
    BY <1>3, <1>4, BodyIsLast
  <2>2. s # <<>>
    BY <1>3
  <2> QED
    BY <1>3, <1>4, <2>1, <2>2 DEF InFunction
<1>5. ASSUME NEW f, IsFrame(f), f.at \notin BodyFrames, stack' = Append(s, f)
      PROVE  InFunction' /\ InnermostBody' = b
  <2> DEFINE t == Append(s, f)
  <2>0. /\ IsStack(t) /\ t # <<>> /\ stack' = t
        /\ Len(t) = Len(s) + 1 /\ t[Len(s) + 1] = f
        /\ \A i \in 1 .. Len(s) : t[i] = s[i]
    <3>1. IsFrame(f) /\ stack' = t
      BY <1>5
    <3>2. /\ IsStack(t) /\ t # <<>>
          /\ Len(t) = Len(s) + 1 /\ t[Len(s) + 1] = f
      BY <3>1, StackWith
    <3>3. \A i \in 1 .. Len(s) : t[i] = s[i]
      BY <3>1, StackWith
    <3> QED
      BY <3>1, <3>2, <3>3
  <2> HIDE DEF t
  <2>1. /\ IsStack(t) /\ Len(t) = n /\ \A i \in 1 .. n - 1 : t[i] = s[i]
        /\ t[n] = f /\ t # <<>>
    <3>1. Len(s) = n - 1 /\ (n - 1) + 1 = n
      OBVIOUS
    <3> QED
      BY <2>0, <3>1
  <2>2. /\ b \in 1 .. n /\ t[b].at = "activation"
        /\ \A j \in 1 .. n : t[j].at \in BodyFrames => j <= b
    <3>1. \A j \in 1 .. n : j = n \/ j \in 1 .. n - 1
      OBVIOUS
    <3> QED
      BY <1>3, <1>5, <2>1, <3>1
  <2>3. InnermostBody' = b
    BY <1>3, <2>0, <2>1, <2>2, BodyIsLast
  <2> QED
    <3>1. stack' = t /\ stack'[b].at = "activation"
      BY <2>0, <2>2
    <3> QED
      BY <2>1, <2>3, <3>1 DEF InFunction
<1> QED
  BY <1>4, <1>5

(* One step of a return.                                                    *)
LEMMA ReturnStep ==
    ASSUME Grounded, signals.returning, InFunction, Step
    PROVE  \/ ~signals'.returning /\ Len(stack') = InnermostBody - 1
           \/ /\ signals' = signals /\ InFunction' /\ InnermostBody' = InnermostBody
              /\ Way \in Nat /\ Way' < Way
<1>1. Unwinds /\ ctl.mode \in {"resume", "exec", "block"} /\ ctl.mode # "done"
  BY StepUnwinds
<1> PICK n \in Nat : n = Len(stack) /\ n > 0 /\ Len(Below) = n - 1
  BY <1>1, TopParts
<1> PICK b \in 1 .. n :
      /\ b = InnermostBody /\ stack[b].at = "activation"
      /\ \A j \in 1 .. n : stack[j].at \in BodyFrames => j <= b
  BY <1>1, BodyIsThere DEF InFunction
<1>2. Top.at \in BodyFrames => b = n
  BY DEF Top
<1>3. Way = 2 * n + (IF Top.at = "for_init" THEN 1 ELSE 0) + (IF ctl.mode = "resume" THEN 0 ELSE 1)
  BY DEF Way
<1>4. Way' = 2 * Len(stack') + (IF Top'.at = "for_init" THEN 1 ELSE 0)
                             + (IF ctl'.mode = "resume" THEN 0 ELSE 1)
  BY DEF Way
<1>5. CASE /\ ctl.mode \in {"exec", "block"} /\ ctl'.mode = "resume"
           /\ stack' = stack /\ signals' = signals
  <2>1. InFunction' /\ InnermostBody' = InnermostBody /\ Top' = Top
    BY <1>5 DEF InFunction, InnermostBody, Bodies, Top
  <2> QED
    BY <1>3, <1>4, <1>5, <2>1
<1>6. CASE /\ ctl.mode = "resume" /\ ctl'.mode = "resume" /\ Top.at = "for_init"
           /\ stack' = Append(Below, TopAt("for_test")) /\ signals' = signals
  <2> PICK f : f = TopAt("for_test")
    OBVIOUS
  <2>1. IsFrame(f) /\ f.at = "for_test"
    BY <1>1, TopParts DEF TopAt, IsFrame
  <2>2. InFunction' /\ InnermostBody' = InnermostBody
    BY <1>1, <1>6, <2>1, BodyStays DEF BodyFrames
  <2>3. Len(stack') = n /\ Top' = f
    <3> PICK s : s = Below /\ IsStack(s)
      BY <1>1, TopParts
    <3> DEFINE t == Append(s, f)
    <3>0. Len(t) = Len(s) + 1 /\ t[Len(s) + 1] = f
      BY <2>1, StackWith
    <3>1. Len(t) = n /\ t[n] = f /\ stack' = t
      <4>1. Len(s) = n - 1 /\ (n - 1) + 1 = n /\ stack' = t
        BY <1>6
      <4> HIDE DEF t
      <4> QED
        BY <3>0, <4>1
    <3> HIDE DEF t
    <3> QED
      BY <3>1 DEF Top
  <2> QED
    BY <1>3, <1>4, <1>6, <2>1, <2>2, <2>3
<1>7. CASE /\ ctl.mode = "resume" /\ ctl'.mode = "resume"
           /\ Top.at \in {"block", "for_test", "while_body", "for_body", "forin_body"}
           /\ stack' = Below /\ signals' = signals
  <2>1. InFunction' /\ InnermostBody' = InnermostBody
    BY <1>1, <1>7, BodyStays DEF BodyFrames
  <2>2. Len(stack') = n - 1
    BY <1>7
  <2> QED
    BY <1>3, <1>4, <1>7, <2>1, <2>2
<1>8. CASE Top.at = "activation" /\ stack' = Below /\ ~signals'.returning
  BY <1>2, <1>8 DEF BodyFrames
<1>9. CASE Top.at \in {"module", "program"}
  BY <1>2, <1>9 DEF BodyFrames, Top
<1> QED
  BY <1>1, <1>5, <1>6, <1>7, <1>8, <1>9 DEF Unwinds

(* A return inside a function is received by the innermost call, after as   *)
(* many steps as Way says at most, through loops and blocks of any depth.   *)
THEOREM ReturnsAdvance == Spec => ReturnAdvances
<1>1. Sound /\ [Next]_vars =>
        [ signals.returning /\ InFunction =>
             \/ ~signals'.returning /\ Len(stack') = InnermostBody - 1
             \/ /\ signals' = signals /\ InFunction' /\ InnermostBody' = InnermostBody
                /\ Way \in Nat /\ Way' < Way ]_vars
  <2> SUFFICES ASSUME Sound, Next, ~ UNCHANGED vars, signals.returning, InFunction
               PROVE  \/ ~signals'.returning /\ Len(stack') = InnermostBody - 1
                      \/ /\ signals' = signals /\ InFunction' /\ InnermostBody' = InnermostBody
                         /\ Way \in Nat /\ Way' < Way
    OBVIOUS
  <2>1. Step
    BY DEF Next, Terminated
  <2> QED
    BY <2>1, ReturnStep DEF Sound
<1> QED
  BY <1>1, StackDiscipline, PTL DEF Spec, ReturnAdvances
=============================================================================
