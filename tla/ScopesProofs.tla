---------------------------- MODULE ScopesProofs ----------------------------
(***************************************************************************)
(* Theorems about scopes, for any names and data, any limit on the         *)
(* variables of a scope and any program.                                   *)
(***************************************************************************)
EXTENDS Scopes, CommonLemmas, SequenceTheorems, TLAPS

-----------------------------------------------------------------------------
(* The first of some places is one of them.                                 *)
LEMMA FirstIsIn ==
    ASSUME NEW places, places \subseteq Nat, places # {}
    PROVE  First(places) \in places /\ \A j \in places : First(places) <= j
BY LeastPlace DEF First

-----------------------------------------------------------------------------
(* The inductive invariant.                                                 *)

(* A value that refers to nothing, or to a scope that exists.               *)
Sound(v) == v \in Value /\ (v.kind = "data" \/ v.of \in DOMAIN scopes)

(* A chain stays below the scope it belongs to.                             *)
ChainsGoDown ==
    \A s \in DOMAIN scopes : \A k \in DOMAIN scopes[s].chain : scopes[s].chain[k] \in 1 .. s

(* The program is the outermost activation; loops and imports have a name.  *)
FramesAreNamed ==
    \A k \in DOMAIN stack :
        /\ stack[k].kind = "program" <=> k = 1
        /\ stack[k].kind \in {"forin", "module"} => stack[k].name \in Name

ScopesInv == TypeOK /\ ChainsAreOlder /\ ChainsGoDown /\ FramesAreNamed

(* The parts of a scope.                                                    *)
LEMMA ScopeParts ==
    ASSUME ScopesInv, NEW s \in DOMAIN scopes
    PROVE  /\ scopes \in Seq(Scope) /\ s \in 1 .. Len(scopes)
           /\ scopes[s] \in Scope
           /\ scopes[s].vars \in Seq(Variable) /\ scopes[s].chain \in Seq(Nat)
           /\ \A i \in DOMAIN scopes[s].vars : scopes[s].vars[i] \in Variable
<1>1. scopes \in Seq(Scope) /\ s \in 1 .. Len(scopes) /\ scopes[s] \in Scope
  BY DEF ScopesInv, TypeOK
<1> QED
  BY <1>1 DEF Scope

(* Whatever an expression yields, a variable may hold.                      *)
LEMMA ResultsAreSound ==
    ASSUME ScopesInv
    PROVE  \A v \in Results : Sound(v)
<1>1. ASSUME NEW s \in DOMAIN scopes, NEW i \in DOMAIN scopes[s].vars
      PROVE  Sound(scopes[s].vars[i].value)
  BY ScopeParts DEF ScopesInv, ChainsAreOlder, Sound, Variable
<1>2. \A d \in Data : Sound(Datum(d))
  BY DataAssumption DEF Sound, Datum, Value
<1> QED
  BY <1>1, <1>2 DEF Results, Held

(* The name that is found in a scope of the chain is found there.           *)
LEMMA HolderHolds ==
    ASSUME ScopesInv, NEW s \in DOMAIN scopes, NEW x, Holders(s, x) # {}
    PROVE  /\ First(Holders(s, x)) \in Holders(s, x)
           /\ Holder(s, x) \in DOMAIN scopes
           /\ Holder(s, x) \in ToSet(scopes[s].chain)
           /\ First(Slots(Holder(s, x), x)) \in Slots(Holder(s, x), x)
<1>1. Holders(s, x) \subseteq Nat /\ Holders(s, x) \subseteq DOMAIN scopes[s].chain
  BY ScopeParts DEF Holders
<1>2. First(Holders(s, x)) \in Holders(s, x)
  BY <1>1, FirstIsIn
<1>3. Holder(s, x) \in 1 .. s /\ Slots(Holder(s, x), x) # {}
  BY <1>1, <1>2 DEF Holder, Holders, ScopesInv, ChainsGoDown
<1>4. Holder(s, x) \in DOMAIN scopes
  BY <1>3, ScopeParts
<1>5. Slots(Holder(s, x), x) \subseteq Nat
  BY <1>4, ScopeParts DEF Slots
<1>6. Holder(s, x) \in ToSet(scopes[s].chain)
  BY <1>1, <1>2 DEF Holder, ToSet
<1> QED
  BY <1>2, <1>3, <1>4, <1>5, <1>6, FirstIsIn

-----------------------------------------------------------------------------
(* What a step may do to the scopes that there are.                         *)

(* The variables of a scope change.                                         *)
Writes(h, array) == scopes' = [scopes EXCEPT ![h].vars = array]

SoundArray(array) ==
    array \in Seq(Variable) /\ \A i \in DOMAIN array : Sound(array[i].value)

Shape == scopes \in Seq(Scope) /\ scopes # <<>> /\ ChainsAreOlder /\ ChainsGoDown

(* Writing sound values leaves the chains as they are.                      *)
LEMMA WritesKeepShape ==
    ASSUME ScopesInv, NEW h \in DOMAIN scopes, NEW array, SoundArray(array), Writes(h, array)
    PROVE  Shape' /\ Len(scopes') = Len(scopes) /\ DOMAIN scopes' = DOMAIN scopes
<1>1. [scopes[h] EXCEPT !.vars = array] \in Scope
  BY ScopeParts DEF Scope, SoundArray
<1>2. scopes' \in Seq(Scope) /\ Len(scopes') = Len(scopes) /\ DOMAIN scopes' = DOMAIN scopes
  BY <1>1, ScopeParts, ExceptSeq DEF Writes
<1>3. \A s \in DOMAIN scopes : scopes'[s].chain = scopes[s].chain
  BY ScopeParts DEF Writes, Scope
<1>4. \A s \in DOMAIN scopes : scopes'[s].vars = IF s = h THEN array ELSE scopes[s].vars
  BY ScopeParts DEF Writes, Scope
<1>5. ChainsGoDown'
  BY <1>2, <1>3 DEF ScopesInv, ChainsGoDown
<1>6. ChainsAreOlder'
  <2> SUFFICES ASSUME NEW s \in DOMAIN scopes
               PROVE  /\ scopes[s].chain # <<>> /\ scopes[s].chain[1] = s
                      /\ scopes[s].chain[Len(scopes[s].chain)] = 1
                      /\ \A k \in 1 .. Len(scopes[s].chain) - 1 :
                            scopes[s].chain[k + 1] \in 1 .. scopes[s].chain[k] - 1
                      /\ \A i \in DOMAIN scopes'[s].vars :
                            LET v == scopes'[s].vars[i].value
                            IN  v.kind = "data" \/ v.of \in DOMAIN scopes
    BY <1>2, <1>3 DEF ChainsAreOlder
  <2> QED
    BY <1>4 DEF ScopesInv, ChainsAreOlder, SoundArray, Sound
<1> QED
  BY <1>2, <1>5, <1>6 DEF Shape, ScopesInv, TypeOK

(* env_define writes the scope it is given, unless it is full.              *)
LEMMA DefineWrites ==
    ASSUME ScopesInv, NEW s \in DOMAIN scopes, NEW x \in Name, NEW v, Sound(v), Define(s, x, v)
    PROVE  \/ UNCHANGED scopes
           \/ \E array : SoundArray(array) /\ Writes(s, array)
<1>1. [name |-> x, value |-> v] \in Variable
  BY DEF Variable, Sound
<1> DEFINE array == Append(scopes[s].vars, [name |-> x, value |-> v])
<1>2. /\ array \in Seq(Variable) /\ Len(array) = Len(scopes[s].vars) + 1
      /\ \A i \in 1 .. Len(scopes[s].vars) : array[i] = scopes[s].vars[i]
      /\ array[Len(scopes[s].vars) + 1] = [name |-> x, value |-> v]
  BY <1>1, ScopeParts, AppendProperties
<1>3. \A i \in DOMAIN array : Sound(array[i].value)
  BY <1>2, ScopeParts DEF ScopesInv, ChainsAreOlder, Sound, Variable
<1>4. SoundArray(array)
  BY <1>2, <1>3 DEF SoundArray
<1> QED
  BY <1>4 DEF Define, Writes

(* env_set writes the scope that holds the name.                            *)
LEMMA SetWrites ==
    ASSUME ScopesInv, NEW s \in DOMAIN scopes, NEW x, NEW v, Sound(v),
           Holders(s, x) # {}, Set(s, x, v)
    PROVE  \E array : SoundArray(array) /\ Writes(Holder(s, x), array)
<1> DEFINE h == Holder(s, x)
           i == First(Slots(h, x))
           array == [scopes[h].vars EXCEPT ![i].value = v]
<1>1. h \in DOMAIN scopes /\ i \in DOMAIN scopes[h].vars
  BY HolderHolds DEF Slots
<1>2. [scopes[h].vars[i] EXCEPT !.value = v] \in Variable
  BY <1>1, ScopeParts DEF Variable, Sound
<1>3. array \in Seq(Variable)
  BY <1>1, <1>2, ScopeParts, ExceptSeq
<1>4. \A j \in DOMAIN array : Sound(array[j].value)
  BY <1>1, <1>2, ScopeParts DEF ScopesInv, ChainsAreOlder, Sound, Variable
<1>5. Writes(h, array)
  BY DEF Set, Writes
<1> HIDE DEF array
<1> QED
  BY <1>3, <1>4, <1>5 DEF SoundArray

(* A new scope, in an older one, keeps the others as they are.              *)
LEMMA OpenKeepsShape ==
    ASSUME ScopesInv, NEW parent \in DOMAIN scopes, NEW params, SoundArray(params),
           Open(parent, params)
    PROVE  /\ Shape' /\ Len(scopes') = Len(scopes) + 1
           /\ DOMAIN scopes' = DOMAIN scopes \cup {Len(scopes) + 1}
           /\ \A s \in DOMAIN scopes : scopes'[s] = scopes[s]
           /\ scopes'[Len(scopes) + 1].chain = <<Len(scopes) + 1>> \o scopes[parent].chain
<1> DEFINE n == Len(scopes) + 1
           new == NewScope(parent, params)
           c == scopes[parent].chain
           m == IF Len(params) < MaxVars THEN Len(params) ELSE MaxVars
<1>1. /\ scopes \in Seq(Scope) /\ parent \in 1 .. Len(scopes)
      /\ c \in Seq(Nat) /\ c # <<>> /\ Len(c) \in Nat /\ Len(c) >= 1
  BY ScopeParts DEF ScopesInv, ChainsAreOlder
<1>2. /\ <<n>> \o c \in Seq(Nat) /\ Len(<<n>> \o c) = Len(c) + 1
      /\ (<<n>> \o c)[1] = n
      /\ \A k \in 2 .. Len(c) + 1 : (<<n>> \o c)[k] = c[k - 1]
  <2>1. <<n>> \in Seq(Nat) /\ Len(<<n>>) = 1 /\ <<n>>[1] = n
    BY <1>1
  <2> QED
    BY <1>1, <2>1, ConcatProperties
<1>3. /\ SubSeq(params, 1, m) \in Seq(Variable)
      /\ \A i \in DOMAIN SubSeq(params, 1, m) : Sound(SubSeq(params, 1, m)[i].value)
  <2>1. params \in Seq(Variable) /\ Len(params) \in Nat /\ MaxVars \in Nat
    BY LimitAssumption DEF SoundArray
  <2>2. m \in Nat /\ m <= Len(params)
    BY <2>1
  <2>3. /\ SubSeq(params, 1, m) \in Seq(Variable) /\ Len(SubSeq(params, 1, m)) = m
        /\ \A i \in 1 .. m : SubSeq(params, 1, m)[i] = params[i]
    BY <2>1, <2>2, SubSeqProperties
  <2> QED
    BY <2>1, <2>2, <2>3 DEF SoundArray
<1>4. new \in Scope /\ new.chain = <<n>> \o c /\ new.vars = SubSeq(params, 1, m)
  BY <1>2, <1>3 DEF NewScope, Scope
<1>5. /\ scopes' \in Seq(Scope) /\ Len(scopes') = n
      /\ \A s \in 1 .. Len(scopes) : scopes'[s] = scopes[s]
      /\ scopes'[n] = new
  BY <1>1, <1>4, AppendProperties DEF Open
<1>6. DOMAIN scopes' = 1 .. n /\ DOMAIN scopes = 1 .. Len(scopes)
  BY <1>1, <1>5
<1> HIDE DEF new, m
<1> DEFINE cn == <<n>> \o c
<1>7. \A k \in DOMAIN cn : cn[k] \in 1 .. n
  <2>1. \A k \in DOMAIN c : c[k] \in 1 .. parent
    BY DEF ScopesInv, ChainsGoDown
  <2> HIDE DEF cn, c
  <2>2. \A k \in 2 .. Len(c) + 1 : cn[k] \in 1 .. n
    BY <1>1, <1>2, <2>1 DEF cn
  <2> QED
    BY <1>1, <1>2, <2>2 DEF cn
<1>8. ChainsGoDown'
  <2> HIDE DEF cn
  <2> SUFFICES ASSUME NEW s \in 1 .. n, NEW k \in DOMAIN scopes'[s].chain
               PROVE  scopes'[s].chain[k] \in 1 .. s
    BY <1>6 DEF ChainsGoDown
  <2>1. CASE s \in DOMAIN scopes
    BY <1>5, <1>6, <2>1 DEF ScopesInv, ChainsGoDown
  <2>2. CASE s = n
    BY <1>4, <1>5, <1>7, <2>2 DEF cn
  <2> QED
    BY <1>1, <1>6, <2>1, <2>2
<1>9. /\ cn # <<>> /\ cn[1] = n /\ cn[Len(cn)] = 1
      /\ \A k \in 1 .. Len(cn) - 1 : cn[k + 1] \in 1 .. cn[k] - 1
  <2>1. /\ c[1] = parent /\ c[Len(c)] = 1
        /\ \A k \in 1 .. Len(c) - 1 : c[k + 1] \in 1 .. c[k] - 1
    BY DEF ScopesInv, ChainsAreOlder
  <2> HIDE DEF c
  <2>2. cn[Len(c) + 1] = c[Len(c)]
    BY <1>1, <1>2
  <2>3. ASSUME NEW k \in 1 .. Len(c) PROVE cn[k + 1] \in 1 .. cn[k] - 1
    <3>1. cn[k + 1] = c[k]
      BY <1>1, <1>2
    <3>2. CASE k = 1
      BY <1>1, <1>2, <2>1, <3>1, <3>2
    <3>3. CASE k # 1
      <4>1. k - 1 \in 1 .. Len(c) - 1 /\ cn[k] = c[k - 1]
        BY <1>1, <1>2, <3>3
      <4>2. c[(k - 1) + 1] \in 1 .. c[k - 1] - 1
        BY <2>1, <4>1
      <4> QED
        BY <1>1, <3>1, <4>1, <4>2
    <3> QED
      BY <3>2, <3>3
  <2> QED
    BY <1>1, <1>2, <2>1, <2>2, <2>3
<1>10. \A i \in DOMAIN new.vars :
         new.vars[i].value.kind = "data" \/ new.vars[i].value.of \in DOMAIN scopes'
  <2>1. DOMAIN scopes \subseteq DOMAIN scopes'
    BY <1>1, <1>6
  <2>2. \A i \in DOMAIN new.vars : Sound(new.vars[i].value)
    BY <1>3, <1>4
  <2> QED
    BY <2>1, <2>2 DEF Sound
<1>11. ChainsAreOlder'
  <2> HIDE DEF cn
  <2> SUFFICES ASSUME NEW s \in 1 .. n
               PROVE  /\ scopes'[s].chain # <<>> /\ scopes'[s].chain[1] = s
                      /\ scopes'[s].chain[Len(scopes'[s].chain)] = 1
                      /\ \A k \in 1 .. Len(scopes'[s].chain) - 1 :
                            scopes'[s].chain[k + 1] \in 1 .. scopes'[s].chain[k] - 1
                      /\ \A i \in DOMAIN scopes'[s].vars :
                            \/ scopes'[s].vars[i].value.kind = "data"
                            \/ scopes'[s].vars[i].value.of \in DOMAIN scopes'
    BY <1>6 DEF ChainsAreOlder
  <2>1. CASE s \in DOMAIN scopes
    <3>1. scopes'[s] = scopes[s]
      BY <1>5, <1>6, <2>1
    <3>2. DOMAIN scopes \subseteq DOMAIN scopes'
      BY <1>1, <1>6
    <3> QED
      BY <2>1, <3>1, <3>2 DEF ScopesInv, ChainsAreOlder
  <2>2. CASE s = n
    BY <1>4, <1>5, <1>9, <1>10, <2>2 DEF cn
  <2> QED
    BY <1>1, <1>6, <2>1, <2>2
<1> QED
  BY <1>4, <1>5, <1>6, <1>8, <1>11 DEF Shape

(* Assignment does one or the other.                                        *)
LEMMA SetOrDefineKeepsShape ==
    ASSUME ScopesInv, NEW s \in DOMAIN scopes, NEW x \in Name, NEW v, Sound(v),
           SetOrDefine(s, x, v) \/ Define(s, x, v) \/ (Holders(s, x) # {} /\ Set(s, x, v))
    PROVE  Shape' /\ Len(scopes') = Len(scopes) /\ DOMAIN scopes' = DOMAIN scopes
<1>1. ASSUME UNCHANGED scopes
      PROVE  Shape' /\ Len(scopes') = Len(scopes) /\ DOMAIN scopes' = DOMAIN scopes
  BY <1>1 DEF Shape, ScopesInv, TypeOK, ChainsAreOlder, ChainsGoDown
<1>2. CASE Define(s, x, v)
  BY <1>1, <1>2, DefineWrites, WritesKeepShape DEF Define
<1>3. CASE Holders(s, x) # {} /\ Set(s, x, v)
  BY <1>3, SetWrites, HolderHolds, WritesKeepShape
<1> QED
  BY <1>2, <1>3 DEF SetOrDefine

-----------------------------------------------------------------------------
(* What a step may do to the activations.                                   *)

Frames == stack \in Seq(Frame) /\ FramesAreNamed
            /\ \A k \in DOMAIN stack : {stack[k].env, stack[k].home} \subseteq DOMAIN scopes

(* The innermost activation runs in a scope, and so does the one below it.  *)
LEMMA TopIsSound ==
    ASSUME ScopesInv, stack # <<>>
    PROVE  /\ Len(stack) \in DOMAIN stack /\ Top \in Frame
           /\ Top.env \in DOMAIN scopes /\ Top.home \in DOMAIN scopes
           /\ Below \in Seq(Frame) /\ Len(Below) = Len(stack) - 1
           /\ \A k \in 1 .. Len(stack) - 1 : Below[k] = stack[k]
<1>1. stack \in Seq(Frame) /\ Len(stack) \in Nat /\ Len(stack) >= 1
  BY DEF ScopesInv, TypeOK
<1>2. \A k \in 1 .. Len(stack) - 1 : stack[k] \in Frame
  BY <1>1
<1> DEFINE n == Len(stack) - 1
<1>3. n \in Nat
  BY <1>1
<1> HIDE DEF n
<1>4. /\ SubSeq(stack, 1, n) \in Seq(Frame) /\ Len(SubSeq(stack, 1, n)) = n
      /\ \A k \in 1 .. n : SubSeq(stack, 1, n)[k] = stack[k]
  <2>1. \A k \in 1 .. n : stack[k] \in Frame
    BY <1>2 DEF n
  <2>2. 1 \in Int /\ n \in Int
    BY <1>3
  <2> QED
    BY <1>3, <2>1, <2>2, SubSeqProperties
<1> QED
  BY <1>1, <1>4 DEF Top, Below, ScopesInv, TypeOK, n

(* Adding scopes leaves the activations in scopes.                          *)
LEMMA SameFrames ==
    ASSUME ScopesInv, UNCHANGED stack, DOMAIN scopes \subseteq DOMAIN scopes'
    PROVE  Frames'
BY DEF Frames, ScopesInv, TypeOK, FramesAreNamed

(* Ending an activation leaves the others in scopes.                        *)
LEMMA LeaveKeepsFrames ==
    ASSUME ScopesInv, stack # <<>>, stack' = Below, DOMAIN scopes \subseteq DOMAIN scopes'
    PROVE  Frames'
<1>1. stack' \in Seq(Frame) /\ DOMAIN stack' = 1 .. Len(stack) - 1
  BY TopIsSound
<1>2. \A k \in DOMAIN stack' : k \in DOMAIN stack /\ stack'[k] = stack[k]
  BY <1>1, TopIsSound DEF ScopesInv, TypeOK
<1> QED
  BY <1>1, <1>2 DEF Frames, ScopesInv, TypeOK, FramesAreNamed

(* A new activation whose scopes exist is as good as the others.            *)
LEMMA EnterKeepsFrames ==
    ASSUME ScopesInv, stack # <<>>, NEW frame \in Frame, stack' = Append(stack, frame),
           DOMAIN scopes \subseteq DOMAIN scopes', {frame.env, frame.home} \subseteq DOMAIN scopes',
           frame.kind # "program", frame.kind \in {"forin", "module"} => frame.name \in Name
    PROVE  Frames'
<1>1. stack \in Seq(Frame)
  BY DEF ScopesInv, TypeOK
<1>2. /\ stack' \in Seq(Frame) /\ Len(stack') = Len(stack) + 1
      /\ \A k \in 1 .. Len(stack) : stack'[k] = stack[k]
      /\ stack'[Len(stack) + 1] = frame
  BY <1>1, AppendProperties
<1>3. SUFFICES ASSUME NEW k \in DOMAIN stack'
               PROVE  /\ {stack'[k].env, stack'[k].home} \subseteq DOMAIN scopes'
                      /\ stack'[k].kind = "program" <=> k = 1
                      /\ stack'[k].kind \in {"forin", "module"} => stack'[k].name \in Name
  BY <1>2 DEF Frames, FramesAreNamed
<1>4. CASE k \in DOMAIN stack
  BY <1>1, <1>2, <1>4 DEF ScopesInv, TypeOK, FramesAreNamed
<1>5. CASE k = Len(stack) + 1
  BY <1>1, <1>2, <1>5
<1> QED
  BY <1>1, <1>2, <1>4, <1>5

-----------------------------------------------------------------------------
(* Every step keeps the invariant.                                          *)

(* The parameters that a call binds are sound.                              *)
LEMMA ParametersAreSound ==
    ASSUME ScopesInv, NEW params \in Parameters
    PROVE  SoundArray(params)
<1>1. \A p \in [name : Name, value : Results] : p \in Variable /\ Sound(p.value)
  BY ResultsAreSound DEF Variable, Sound
<1>2. PICK n \in 0 .. MaxParams : params \in [1 .. n -> [name : Name, value : Results]]
  BY DEF Parameters, SeqOf
<1>3. n \in Nat
  BY LimitAssumption
<1>4. params \in [1 .. n -> Variable]
  BY <1>1, <1>2
<1> QED
  BY <1>1, <1>2, <1>3, <1>4, IsASeq DEF SoundArray

(* What is left to show of a step.                                          *)
LEMMA Assembled ==
    ASSUME ScopesInv, Shape', Frames', 1 \in files', files' \subseteq DOMAIN scopes',
           failed' \in BOOLEAN, fuel' \in Nat
    PROVE  ScopesInv'
BY DEF ScopesInv, TypeOK, Shape, Frames

(* A statement runs in an activation, and there are fewer left.             *)
LEMMA StepSpends ==
    ASSUME ScopesInv, Step
    PROVE  fuel' \in Nat /\ stack # <<>>
BY DEF Step, Running, ScopesInv, TypeOK

(* The same of a statement whose expression failed.                         *)
LEMMA StoredSpends ==
    ASSUME ScopesInv, NEW v, Stored(v)
    PROVE  fuel' \in Nat /\ stack # <<>>
BY StepSpends DEF Stored, ScopesInv, TypeOK

(* A statement that writes a variable of the scope it runs in.              *)
LEMMA WritingKeepsInv ==
    ASSUME ScopesInv, stack # <<>>, NEW x \in Name, NEW v, Sound(v),
           \/ SetOrDefine(Top.env, x, v) \/ Define(Top.env, x, v)
           \/ Holders(Top.env, x) # {} /\ Set(Top.env, x, v),
           UNCHANGED <<stack, files>>, failed' \in BOOLEAN, fuel' \in Nat
    PROVE  ScopesInv'
<1>1. Top.env \in DOMAIN scopes
  BY TopIsSound
<1>2. Shape' /\ DOMAIN scopes' = DOMAIN scopes
  BY <1>1, SetOrDefineKeepsShape
<1>3. Frames'
  BY <1>2, SameFrames
<1> QED
  BY <1>2, <1>3, Assembled DEF ScopesInv, TypeOK

(* A step that opens a scope and enters an activation.                      *)
LEMMA OpeningKeepsInv ==
    ASSUME ScopesInv, Step, NEW parent \in DOMAIN scopes, NEW params, SoundArray(params),
           Open(parent, params), NEW frame \in Frame, stack' = Append(stack, frame),
           frame.env = Len(scopes) + 1, frame.home \in DOMAIN scopes \cup {Len(scopes) + 1},
           frame.kind # "program", frame.kind \in {"forin", "module"} => frame.name \in Name,
           files' \in {files, files \cup {Len(scopes) + 1}}, failed' = failed
    PROVE  ScopesInv'
<1>1. Shape' /\ DOMAIN scopes' = DOMAIN scopes \cup {Len(scopes) + 1}
  BY OpenKeepsShape
<1>2. stack # <<>> /\ fuel' \in Nat
  BY StepSpends
<1>3. {frame.env, frame.home} \subseteq DOMAIN scopes'
  BY <1>1
<1>4. Frames'
  BY <1>1, <1>2, <1>3, EnterKeepsFrames
<1> QED
  BY <1>1, <1>2, <1>4, Assembled DEF ScopesInv, TypeOK

(* The program begins with the globals.                                     *)
LEMMA InitHolds == Init => ScopesInv
<1> SUFFICES ASSUME Init PROVE ScopesInv
  OBVIOUS
<1> DEFINE scope == [vars |-> <<>>, chain |-> <<1>>]
           frame == [kind |-> "program", env |-> 1, name |-> "", home |-> 1]
<1>1. /\ scope \in Scope /\ scope.vars = <<>> /\ scope.chain = <<1>>
      /\ frame \in Frame /\ frame.kind = "program" /\ frame.env = 1 /\ frame.home = 1
  BY DEF Scope, Frame
<1>2. scopes = <<scope>> /\ stack = <<frame>> /\ files = {1} /\ failed = FALSE /\ fuel = Fuel
  BY DEF Init
<1> HIDE DEF scope, frame
<1>3. scopes \in Seq(Scope) /\ scopes # <<>> /\ stack \in Seq(Frame)
  BY <1>1, <1>2
<1>4. DOMAIN scopes = {1} /\ DOMAIN stack = {1} /\ scopes[1] = scope /\ stack[1] = frame
  BY <1>2
<1>5. TypeOK
  BY <1>1, <1>2, <1>3, <1>4, LimitAssumption DEF TypeOK
<1>6. /\ scope.chain # <<>> /\ Len(scope.chain) = 1 /\ scope.chain[1] = 1
      /\ DOMAIN scope.chain = {1} /\ DOMAIN scope.vars = {}
  BY <1>1
<1>7. ChainsAreOlder /\ ChainsGoDown
  BY <1>4, <1>6 DEF ChainsAreOlder, ChainsGoDown
<1>8. FramesAreNamed
  BY <1>1, <1>4 DEF FramesAreNamed
<1> QED
  BY <1>5, <1>7, <1>8 DEF ScopesInv

(* Every step keeps the invariant, one statement after the other.           *)
LEMMA NextKeepsInv == ScopesInv /\ [Next]_vars => ScopesInv'
<1> SUFFICES ASSUME ScopesInv, [Next]_vars PROVE ScopesInv'
  OBVIOUS
<1> DEFINE block(kind, name, home) ==
             [kind |-> kind, env |-> Len(scopes) + 1, name |-> name, home |-> home]
<1>1. /\ 1 \in DOMAIN scopes /\ files \subseteq DOMAIN scopes /\ DOMAIN scopes \subseteq Nat
      /\ Len(scopes) + 1 \in Nat /\ failed \in BOOLEAN /\ fuel \in Nat
  BY DEF ScopesInv, TypeOK
<1>2. ASSUME NEW x \in Name, NEW v \in Results, Declare(x, v) PROVE ScopesInv'
  BY <1>1, <1>2, ResultsAreSound, StoredSpends, WritingKeepsInv DEF Declare
<1>3. ASSUME NEW x \in Name, NEW v \in Results, Assign(x, v) PROVE ScopesInv'
  BY <1>1, <1>3, ResultsAreSound, StoredSpends, WritingKeepsInv DEF Assign
<1>4. ASSUME NEW x \in Name, NEW v \in Results, Update(x, v) PROVE ScopesInv'
  <2>1. stack # <<>> /\ fuel' \in Nat /\ failed' \in BOOLEAN /\ UNCHANGED <<stack, files>>
    BY <1>1, <1>4, StoredSpends DEF Update
  <2>2. CASE UNCHANGED scopes
    <3>1. Shape' /\ DOMAIN scopes \subseteq DOMAIN scopes'
      BY <2>2 DEF Shape, ScopesInv, TypeOK, ChainsAreOlder, ChainsGoDown
    <3> QED
      BY <1>1, <2>1, <3>1, SameFrames, Assembled DEF ScopesInv, TypeOK
  <2>3. CASE Holders(Top.env, x) # {} /\ Set(Top.env, x, v)
    BY <2>1, <2>3, ResultsAreSound, WritingKeepsInv
  <2> QED
    BY <1>4, <2>2, <2>3 DEF Update
<1>5. ASSUME NEW x \in Name, DefineFunction(x) PROVE ScopesInv'
  <2>1. stack # <<>> /\ fuel' \in Nat
    BY <1>5, StepSpends DEF DefineFunction
  <2>2. Sound(Function(Top.env))
    BY <1>1, <2>1, TopIsSound DEF Sound, Function, Value
  <2> QED
    BY <1>1, <1>5, <2>1, <2>2, WritingKeepsInv DEF DefineFunction
<1>6. ASSUME NEW x \in Name, NEW m \in files, ImportAgain(x, m) PROVE ScopesInv'
  <2>1. stack # <<>> /\ fuel' \in Nat
    BY <1>6, StepSpends DEF ImportAgain
  <2>2. Sound(Module(m))
    BY <1>1 DEF Sound, Module, Value
  <2> QED
    BY <1>1, <1>6, <2>1, <2>2, WritingKeepsInv DEF ImportAgain
<1>7. ASSUME NEW v \in Results, NextRound(v) PROVE ScopesInv'
  <2>1. stack # <<>> /\ fuel' \in Nat
    BY <1>7, StepSpends DEF NextRound
  <2>2. Top.name \in Name
    BY <1>7, <2>1, TopIsSound DEF NextRound, ScopesInv, FramesAreNamed, Top
  <2> QED
    BY <1>1, <1>7, <2>1, <2>2, ResultsAreSound, WritingKeepsInv DEF NextRound
<1>8. CASE EnterBlock
  <2>1. Step /\ stack # <<>>
    BY <1>8, StepSpends DEF EnterBlock
  <2>2. SoundArray(<<>>)
    BY DEF SoundArray
  <2>3. Top.env \in DOMAIN scopes /\ Top.home \in DOMAIN scopes
    BY <2>1, TopIsSound
  <2>4. block("block", "", Top.home) \in Frame
    BY <1>1, <2>3 DEF Frame
  <2> QED
    BY <1>1, <1>8, <2>1, <2>2, <2>3, <2>4, OpeningKeepsInv DEF EnterBlock, Enter
<1>9. ASSUME NEW x \in Name, EnterForIn(x) PROVE ScopesInv'
  <2>1. Step /\ stack # <<>>
    BY <1>9, StepSpends DEF EnterForIn
  <2>2. SoundArray(<<[name |-> x, value |-> Datum(Null)]>>)
    BY DataAssumption DEF SoundArray, Sound, Datum, Value, Variable
  <2>3. Top.env \in DOMAIN scopes /\ Top.home \in DOMAIN scopes
    BY <2>1, TopIsSound
  <2>4. block("forin", x, Top.home) \in Frame
    BY <1>1, <2>3 DEF Frame
  <2> QED
    BY <1>1, <1>9, <2>1, <2>2, <2>3, <2>4, OpeningKeepsInv DEF EnterForIn, Enter
<1>10. ASSUME NEW x \in Name, EnterModule(x) PROVE ScopesInv'
  <2>1. Step /\ stack # <<>>
    BY <1>10, StepSpends DEF EnterModule
  <2>2. SoundArray(<<>>)
    BY DEF SoundArray
  <2>3. block("module", x, Len(scopes) + 1) \in Frame
    BY <1>1 DEF Frame
  <2> QED
    BY <1>1, <1>10, <2>1, <2>2, <2>3, OpeningKeepsInv DEF EnterModule, Enter
<1>11. ASSUME NEW params \in Parameters, NEW f \in Held, f.kind = "function", Call(f, params)
       PROVE  ScopesInv'
  <2>1. Step
    BY <1>11 DEF Call
  <2>2. f.of \in DOMAIN scopes
    BY <1>11, ResultsAreSound DEF Results, Sound
  <2>3. block("call", "", f.of) \in Frame
    BY <1>1, <2>2 DEF Frame
  <2> QED
    BY <1>1, <1>11, <2>1, <2>2, <2>3, ParametersAreSound, OpeningKeepsInv DEF Call, Enter
<1>12. ASSUME NEW params \in Parameters, NEW file \in files, CallMethod(file, params)
       PROVE  ScopesInv'
  <2>1. Step
    BY <1>12 DEF CallMethod
  <2>2. block("call", "", file) \in Frame
    BY <1>1 DEF Frame
  <2> QED
    BY <1>1, <1>12, <2>1, <2>2, ParametersAreSound, OpeningKeepsInv DEF CallMethod, Enter
<1>13. CASE Leave
  <2>1. Shape' /\ DOMAIN scopes \subseteq DOMAIN scopes'
    BY <1>13 DEF Leave, Shape, ScopesInv, TypeOK, ChainsAreOlder, ChainsGoDown
  <2> QED
    BY <1>1, <1>13, <2>1, LeaveKeepsFrames, Assembled DEF Leave, ScopesInv, TypeOK
<1>14. CASE FinishModule
  <2> DEFINE importer == Below[Len(Below)].env
  <2>1. stack # <<>> /\ Top.kind = "module" /\ stack' = Below
    BY <1>14 DEF FinishModule, Running
  <2>2. Len(stack) # 1 /\ Top.name \in Name
    BY <2>1, TopIsSound DEF ScopesInv, FramesAreNamed, Top
  <2>3. importer \in DOMAIN scopes /\ Top.env \in DOMAIN scopes
    <3>1. stack \in Seq(Frame) /\ Len(stack) \in Nat /\ Len(stack) > 1
      <4>1. stack \in Seq(Frame)
        BY DEF ScopesInv, TypeOK
      <4>2. Len(stack) \in DOMAIN stack
        BY <2>1, TopIsSound
      <4>3. Len(stack) \in Nat /\ Len(stack) >= 1
        BY <4>1, <4>2
      <4>4. \A n \in Nat : n >= 1 /\ n # 1 => n > 1
        OBVIOUS
      <4> QED
        BY <2>2, <4>1, <4>3, <4>4, Zenon
    <3>2. Len(Below) = Len(stack) - 1 /\ Below[Len(Below)] = stack[Len(stack) - 1]
      BY <3>1 DEF Below
    <3>3. Len(stack) - 1 \in DOMAIN stack
      BY <3>1
    <3> QED
      BY <2>1, <3>2, <3>3, TopIsSound DEF ScopesInv, TypeOK
  <2>4. Sound(Module(Top.env))
    BY <1>1, <2>3 DEF Sound, Module, Value
  <2>5. Shape' /\ DOMAIN scopes' = DOMAIN scopes
    BY <1>14, <2>2, <2>3, <2>4, SetOrDefineKeepsShape DEF FinishModule
  <2>6. Frames'
    BY <2>1, <2>5, LeaveKeepsFrames
  <2> QED
    BY <1>1, <1>14, <2>5, <2>6, Assembled DEF FinishModule, ScopesInv, TypeOK
<1>15. ASSUME UNCHANGED <<scopes, stack, files>>, fuel' \in Nat, failed' \in BOOLEAN
       PROVE  ScopesInv'
  <2>1. Shape' /\ DOMAIN scopes \subseteq DOMAIN scopes'
    BY <1>15 DEF Shape, ScopesInv, TypeOK, ChainsAreOlder, ChainsGoDown
  <2> QED
    BY <1>1, <1>15, <2>1, SameFrames, Assembled DEF ScopesInv, TypeOK
<1>16. CASE Fail \/ Terminated \/ UNCHANGED vars
  BY <1>1, <1>15, <1>16, StepSpends DEF Fail, Terminated, vars
<1> QED
  BY <1>2, <1>3, <1>4, <1>5, <1>6, <1>7, <1>8, <1>9, <1>10, <1>11, <1>12, <1>13, <1>14, <1>16
     DEF Next, Write, Begin

-----------------------------------------------------------------------------
(* The invariant, for every program and every limit.                        *)
THEOREM ScopesAreWellFormed == Spec => []ScopesInv
BY InitHolds, NextKeepsInv, PTL DEF Spec

(* Scopes, activations and files have the types of src/env.h.               *)
THEOREM TypeCorrect == Spec => []TypeOK
<1>1. ScopesInv => TypeOK
  BY DEF ScopesInv
<1> QED
  BY <1>1, ScopesAreWellFormed, PTL

(* The chains that env_get and env_set walk lead through older scopes to    *)
(* the globals, so that every walk ends, and no value refers to a scope     *)
(* that does not exist.                                                     *)
THEOREM ChainsEnd == Spec => []ChainsAreOlder
<1>1. ScopesInv => ChainsAreOlder
  BY DEF ScopesInv
<1> QED
  BY <1>1, ScopesAreWellFormed, PTL

-----------------------------------------------------------------------------
(* What was assigned is read back.                                          *)

(* When the names and the chains stay, a search ends where it ended.        *)
LEMMA SameSearch ==
    ASSUME ScopesInv, NEW x, DOMAIN scopes' = DOMAIN scopes,
           \A t \in DOMAIN scopes : scopes'[t].chain = scopes[t].chain /\ Slots(t, x)' = Slots(t, x),
           NEW s \in DOMAIN scopes
    PROVE  Holders(s, x)' = Holders(s, x) /\ Holder(s, x)' = Holder(s, x)
<1>1. \A k \in DOMAIN scopes[s].chain : scopes[s].chain[k] \in DOMAIN scopes
  BY ScopeParts DEF ScopesInv, ChainsGoDown
<1>2. Holders(s, x)' = Holders(s, x)
  BY <1>1 DEF Holders
<1> QED
  BY <1>2 DEF Holder

(* env_set writes the variable that env_get finds.                          *)
LEMMA SetIsRead ==
    ASSUME ScopesInv, NEW s \in DOMAIN scopes, NEW x, NEW v,
           Holders(s, x) # {}, Set(s, x, v)
    PROVE  Read(s, x)' = v
<1>1. PICK h \in DOMAIN scopes : h = Holder(s, x)
  BY HolderHolds
<1> PICK i \in DOMAIN scopes[h].vars : i = First(Slots(h, x))
  BY <1>1, HolderHolds DEF Slots
<1>2. /\ scopes[h] \in Scope /\ scopes[h].vars[i] \in Variable
      /\ DOMAIN scopes' = DOMAIN scopes
      /\ \A t \in DOMAIN scopes : t # h => scopes'[t] = scopes[t]
      /\ scopes'[h] = [scopes[h] EXCEPT !.vars[i].value = v]
  BY <1>1, ScopeParts DEF Set
<1>3. /\ scopes'[h].chain = scopes[h].chain
      /\ DOMAIN scopes'[h].vars = DOMAIN scopes[h].vars
      /\ \A j \in DOMAIN scopes[h].vars : scopes'[h].vars[j].name = scopes[h].vars[j].name
      /\ scopes'[h].vars[i].value = v
  BY <1>1, <1>2 DEF Scope, Variable
<1>4. \A t \in DOMAIN scopes : scopes'[t].chain = scopes[t].chain /\ Slots(t, x)' = Slots(t, x)
  <2>1. Slots(h, x)' = Slots(h, x)
    BY <1>3 DEF Slots
  <2>2. ASSUME NEW t \in DOMAIN scopes, t # h PROVE Slots(t, x)' = Slots(t, x)
    BY <1>2, <2>2 DEF Slots
  <2> QED
    BY <1>2, <1>3, <2>1, <2>2
<1>5. Holder(s, x)' = h /\ Slots(h, x)' = Slots(h, x)
  BY <1>1, <1>2, <1>4, SameSearch
<1> QED
  BY <1>3, <1>5 DEF Read

(* env_define, of a name that is not visible, makes it visible.             *)
LEMMA DefineIsRead ==
    ASSUME ScopesInv, NEW s \in DOMAIN scopes, NEW x \in Name, NEW v, Sound(v),
           Holders(s, x) = {}, ~IsFull(s), Define(s, x, v)
    PROVE  Read(s, x)' = v
<1> DEFINE n == Len(scopes[s].vars) + 1
           new == [name |-> x, value |-> v]
<1>1. /\ scopes[s] \in Scope /\ scopes[s].vars \in Seq(Variable) /\ n \in Nat \ {0} /\ new \in Variable
      /\ 1 \in DOMAIN scopes[s].chain /\ scopes[s].chain[1] = s
      /\ DOMAIN scopes[s].chain \subseteq Nat \ {0}
  <2>1. scopes[s].chain \in Seq(Nat) /\ scopes[s].chain # <<>> /\ scopes[s].chain[1] = s
    BY ScopeParts DEF ScopesInv, ChainsAreOlder
  <2>2. new \in Variable
    BY DEF Variable, Sound
  <2>3. DOMAIN scopes[s].chain = 1 .. Len(scopes[s].chain) /\ Len(scopes[s].chain) \in Nat \ {0}
    BY <2>1
  <2> HIDE DEF new
  <2> QED
    BY <2>1, <2>2, <2>3, ScopeParts
<1>2. Slots(s, x) = {}
  BY <1>1 DEF Holders
<1>3. scopes' = [scopes EXCEPT ![s].vars = Append(scopes[s].vars, new)]
  BY DEF Define
<1> DEFINE array == Append(scopes[s].vars, new)
<1>4. /\ DOMAIN array = 1 .. n /\ array[n] = new
      /\ \A j \in 1 .. n - 1 : array[j] = scopes[s].vars[j]
      /\ DOMAIN scopes[s].vars = 1 .. n - 1
  BY <1>1, AppendProperties
<1> HIDE DEF array, n, new
<1>5. scopes'[s].vars = array /\ scopes'[s].chain = scopes[s].chain
  BY <1>1, <1>3 DEF Scope, array
<1>6. Slots(s, x)' = {n}
  <2>1. array[n].name = x /\ n \in 1 .. n
    BY <1>1, <1>4 DEF new
  <2>2. \A j \in 1 .. n - 1 : array[j].name # x
    BY <1>2, <1>4 DEF Slots
  <2>3. \A j \in 1 .. n : j = n \/ j \in 1 .. n - 1
    BY <1>1
  <2> QED
    BY <1>4, <1>5, <2>1, <2>2, <2>3 DEF Slots
<1>7. First(Holders(s, x)') = 1
  <2>1. 1 \in Holders(s, x)' /\ Holders(s, x)' \subseteq Nat \ {0}
    BY <1>1, <1>5, <1>6 DEF Holders
  <2> DEFINE places == Holders(s, x)'
  <2> HIDE DEF places
  <2>2. First(places) \in places /\ \A j \in places : First(places) <= j
    BY <2>1, FirstIsIn DEF places
  <2> QED
    BY <2>1, <2>2 DEF places
<1>8. Holder(s, x)' = s
  BY <1>1, <1>5, <1>7 DEF Holder
<1>9. First({n}) = n
  <2>1. {n} \subseteq Nat /\ {n} # {}
    BY <1>1
  <2> QED
    BY <2>1, FirstIsIn
<1>10. array[n].value = v
  BY <1>1, <1>4 DEF new
<1> PICK last \in Nat : last = n
  BY <1>1
<1>11. Slots(s, x)' = {last} /\ First({last}) = last /\ scopes'[s].vars[last].value = v
  BY <1>5, <1>6, <1>9, <1>10
<1> QED
  BY <1>8, <1>11 DEF Read

(* What an assignment stores in a variable is what the next evaluation of   *)
(* its name finds, for programs of any size: STMT_ASSIGN writes the         *)
(* variable that env_get reads, also where a name has been declared twice   *)
(* or hides another; a new variable is found unless its scope is full.      *)
THEOREM AssignmentsHold == Spec => AssignmentsAreReadBack
<1> DEFINE ReadBack ==
             \A x \in Name, v \in Results :
                Assign(x, v) /\ (Holders(Top.env, x) # {} \/ ~IsFull(Top.env))
                    => Read(Top.env, x)' = v
<1>1. ScopesInv /\ [Next]_vars => [ReadBack]_vars
  <2> SUFFICES ASSUME ScopesInv, NEW x \in Name, NEW v \in Results, Assign(x, v),
                      Holders(Top.env, x) # {} \/ ~IsFull(Top.env)
               PROVE  Read(Top.env, x)' = v
    OBVIOUS
  <2>1. stack # <<>> /\ Sound(v)
    BY ResultsAreSound, StoredSpends DEF Assign, Stored, Step, Running
  <2>2. PICK s \in DOMAIN scopes : s = Top.env
    BY <2>1, TopIsSound
  <2>3. Top.env' = s
    BY <2>2 DEF Assign, Top
  <2>4. Read(s, x)' = v
    <3>1. CASE Holders(s, x) # {} /\ Set(s, x, v)
      BY <3>1, SetIsRead
    <3>2. CASE Holders(s, x) = {} /\ Define(s, x, v)
      BY <2>1, <2>2, <3>2, DefineIsRead
    <3> QED
      BY <2>2, <3>1, <3>2 DEF Assign, SetOrDefine
  <2> QED
    BY <2>3, <2>4 DEF Read, Holder, Holders, Slots
<1> QED
  BY <1>1, ScopesAreWellFormed, PTL DEF Spec, AssignmentsAreReadBack

-----------------------------------------------------------------------------
(* The five things that a step may be.                                      *)

(* A variable is written, as seen from the scope that statements run in.    *)
Writing ==
    /\ stack # <<>> /\ UNCHANGED stack
    /\ \E x \in Name, v \in Value :
          /\ Sound(v)
          /\ \/ SetOrDefine(Top.env, x, v) \/ Define(Top.env, x, v)
             \/ Holders(Top.env, x) # {} /\ Set(Top.env, x, v)

(* A block or a loop is opened in the scope it stands in.  The body of a    *)
(* function is opened in the scope of its definition or in the globals, a   *)
(* module in the globals.                                                   *)
Surrounded(parent, frame) ==
    \/ /\ frame.kind \in {"block", "forin"}
       /\ parent = Top.env /\ frame.home = Top.home
    \/ /\ frame.kind \in {"call", "module"}
       /\ parent \in {1, frame.home}
       /\ frame.home \in DOMAIN scopes \cup {frame.env}

Opening ==
    /\ stack # <<>>
    /\ \E parent \in DOMAIN scopes, params \in Seq(Variable), frame \in Frame :
          /\ SoundArray(params) /\ Open(parent, params)
          /\ stack' = Append(stack, frame)
          /\ frame.env = Len(scopes) + 1
          /\ Surrounded(parent, frame)

(* Every step is one of these.                                              *)
LEMMA Steps ==
    ASSUME ScopesInv, [Next]_vars
    PROVE  Writing \/ Opening \/ Leave \/ FinishModule \/ UNCHANGED <<scopes, stack>>
<1> DEFINE block(kind, name, home) ==
             [kind |-> kind, env |-> Len(scopes) + 1, name |-> name, home |-> home]
<1>1. /\ 1 \in DOMAIN scopes /\ files \subseteq DOMAIN scopes /\ DOMAIN scopes \subseteq Nat
      /\ Len(scopes) + 1 \in Nat
  BY DEF ScopesInv, TypeOK
<1>2. ASSUME NEW x \in Name, NEW v \in Results,
             Declare(x, v) \/ Assign(x, v) \/ Update(x, v)
      PROVE  Writing \/ UNCHANGED <<scopes, stack>>
  <2>1. stack # <<>> /\ UNCHANGED stack /\ Sound(v) /\ v \in Value
    BY <1>2, ResultsAreSound, StoredSpends DEF Declare, Assign, Update, Sound
  <2> QED
    BY <1>2, <2>1 DEF Declare, Assign, Update, Writing
<1>3. ASSUME NEW x \in Name, DefineFunction(x) PROVE Writing
  <2>1. stack # <<>>
    BY <1>3, StepSpends DEF DefineFunction
  <2>2. Sound(Function(Top.env)) /\ Function(Top.env) \in Value
    BY <1>1, <2>1, TopIsSound DEF Sound, Function, Value
  <2> QED
    BY <1>3, <2>1, <2>2 DEF DefineFunction, Writing
<1>4. ASSUME NEW x \in Name, NEW m \in files, ImportAgain(x, m) PROVE Writing
  <2>1. stack # <<>>
    BY <1>4, StepSpends DEF ImportAgain
  <2>2. Sound(Module(m)) /\ Module(m) \in Value
    BY <1>1 DEF Sound, Module, Value
  <2> QED
    BY <1>4, <2>1, <2>2 DEF ImportAgain, Writing
<1>5. ASSUME NEW v \in Results, NextRound(v) PROVE Writing
  <2>1. stack # <<>> /\ Sound(v) /\ v \in Value
    BY <1>5, StepSpends, ResultsAreSound DEF NextRound, Sound
  <2>2. Top.name \in Name
    BY <1>5, <2>1, TopIsSound DEF NextRound, ScopesInv, FramesAreNamed, Top
  <2> QED
    BY <1>5, <2>1, <2>2 DEF NextRound, Writing
<1>6. ASSUME NEW x \in Name \cup {""}, NEW kind \in {"block", "forin"}, NEW params,
             Step, Open(Top.env, params), SoundArray(params), Enter(kind, x, Top.home)
      PROVE  Opening
  <2>1. stack # <<>>
    BY <1>6, StepSpends
  <2>2. Top.env \in DOMAIN scopes /\ Top.home \in DOMAIN scopes
    BY <2>1, TopIsSound
  <2> DEFINE frame == block(kind, x, Top.home)
  <2>3. /\ frame \in Frame /\ frame.env = Len(scopes) + 1
        /\ frame.kind = kind /\ frame.home = Top.home
    BY <1>1, <2>2 DEF Frame
  <2>4. stack' = Append(stack, frame)
    BY <1>6 DEF Enter
  <2> HIDE DEF frame
  <2>5. Surrounded(Top.env, frame)
    BY <2>3 DEF Surrounded
  <2> QED
    BY <1>6, <2>1, <2>2, <2>3, <2>4, <2>5 DEF Opening, SoundArray
<1>7. EnterBlock => Opening
  <2>1. SoundArray(<<>>)
    BY DEF SoundArray
  <2> QED
    BY <1>6, <2>1 DEF EnterBlock
<1>8. ASSUME NEW x \in Name, EnterForIn(x) PROVE Opening
  <2>1. SoundArray(<<[name |-> x, value |-> Datum(Null)]>>)
    BY DataAssumption DEF SoundArray, Sound, Datum, Value, Variable
  <2> QED
    BY <1>6, <1>8, <2>1 DEF EnterForIn
<1>9. ASSUME NEW x \in Name \cup {""}, NEW kind \in {"call", "module"}, NEW params,
             NEW home \in DOMAIN scopes \cup {Len(scopes) + 1}, NEW parent \in DOMAIN scopes,
             parent \in {1, home},
             Step, Open(parent, params), SoundArray(params), Enter(kind, x, home)
      PROVE  Opening
  <2>1. stack # <<>>
    BY <1>9, StepSpends
  <2> DEFINE frame == block(kind, x, home)
  <2>2. /\ frame \in Frame /\ frame.env = Len(scopes) + 1
        /\ frame.kind = kind /\ frame.home = home
    BY <1>1 DEF Frame
  <2>3. stack' = Append(stack, frame)
    BY <1>9 DEF Enter
  <2> HIDE DEF frame
  <2>4. Surrounded(parent, frame)
    BY <1>9, <2>2 DEF Surrounded
  <2> QED
    BY <1>9, <2>1, <2>2, <2>3, <2>4 DEF Opening, SoundArray
<1>10. ASSUME NEW x \in Name, EnterModule(x) PROVE Opening
  <2>1. SoundArray(<<>>)
    BY DEF SoundArray
  <2> QED
    BY <1>1, <1>9, <1>10, <2>1 DEF EnterModule
<1>11. ASSUME NEW params \in Parameters, NEW f \in Held, f.kind = "function", Call(f, params)
       PROVE  Opening
  <2>1. f.of \in DOMAIN scopes
    BY <1>11, ResultsAreSound DEF Results, Sound
  <2> QED
    BY <1>9, <1>11, <2>1, ParametersAreSound DEF Call
<1>12. ASSUME NEW params \in Parameters, NEW file \in files, CallMethod(file, params)
       PROVE  Opening
  BY <1>1, <1>9, <1>12, ParametersAreSound DEF CallMethod
<1> QED
  BY <1>2, <1>3, <1>4, <1>5, <1>7, <1>8, <1>10, <1>11, <1>12
     DEF Next, Write, Begin, Fail, Terminated, vars

-----------------------------------------------------------------------------
(* What a step changes.                                                     *)

(* Chains are never changed.                                                *)
ChainsStay ==
    \A s \in DOMAIN scopes : s \in DOMAIN scopes' /\ scopes'[s].chain = scopes[s].chain

(* At most one scope changes, which is visible from s.                      *)
OnlyChanges(s) ==
    \E h \in ToSet(scopes[s].chain) : \A t \in DOMAIN scopes : t # h => scopes'[t] = scopes[t]

(* Writing to one scope leaves the chains, and the other scopes.            *)
LEMMA WritesChangeOne ==
    ASSUME ScopesInv, NEW s \in DOMAIN scopes, NEW h \in DOMAIN scopes, NEW array,
           h \in ToSet(scopes[s].chain), Writes(h, array)
    PROVE  ChainsStay /\ OnlyChanges(s) /\ DOMAIN scopes' = DOMAIN scopes
<1>1. DOMAIN scopes' = DOMAIN scopes
  BY DEF Writes
<1>2. \A t \in DOMAIN scopes : t # h => scopes'[t] = scopes[t]
  BY DEF Writes
<1>3. scopes'[h].chain = scopes[h].chain
  BY ScopeParts DEF Writes, Scope
<1>4. ChainsStay
  BY <1>1, <1>2, <1>3 DEF ChainsStay
<1> QED
  BY <1>1, <1>2, <1>4 DEF OnlyChanges

(* A scope is visible from itself.                                          *)
LEMMA ScopeSeesItself ==
    ASSUME ScopesInv, NEW s \in DOMAIN scopes
    PROVE  s \in ToSet(scopes[s].chain)
<1>1. scopes[s].chain \in Seq(Nat) /\ scopes[s].chain # <<>> /\ scopes[s].chain[1] = s
  BY ScopeParts DEF ScopesInv, ChainsAreOlder
<1>2. 1 \in DOMAIN scopes[s].chain
  BY <1>1
<1> QED
  BY <1>1, <1>2 DEF ToSet

(* The globals are visible from everywhere.                                 *)
LEMMA GlobalsAreSeen ==
    ASSUME ScopesInv, NEW s \in DOMAIN scopes
    PROVE  1 \in ToSet(scopes[s].chain)
<1> DEFINE c == scopes[s].chain
<1>1. c \in Seq(Nat) /\ c # <<>> /\ c[Len(c)] = 1
  BY ScopeParts DEF ScopesInv, ChainsAreOlder
<1>2. Len(c) \in DOMAIN c
  BY <1>1
<1> QED
  BY <1>1, <1>2 DEF ToSet

(* Declaring or assigning a variable changes a scope that is visible.       *)
LEMMA WritingChangesOne ==
    ASSUME ScopesInv, NEW s \in DOMAIN scopes, NEW x \in Name, NEW v, Sound(v),
           SetOrDefine(s, x, v) \/ Define(s, x, v) \/ (Holders(s, x) # {} /\ Set(s, x, v))
    PROVE  ChainsStay /\ OnlyChanges(s) /\ DOMAIN scopes' = DOMAIN scopes
<1>1. CASE UNCHANGED scopes
  BY <1>1, ScopeSeesItself DEF ChainsStay, OnlyChanges
<1>2. CASE Define(s, x, v)
  BY <1>1, <1>2, DefineWrites, ScopeSeesItself, WritesChangeOne
<1>3. CASE Holders(s, x) # {} /\ Set(s, x, v)
  BY <1>3, SetWrites, HolderHolds, WritesChangeOne
<1> QED
  BY <1>2, <1>3 DEF SetOrDefine

-----------------------------------------------------------------------------
(* Lexical scoping.                                                         *)

(* The variables that the text an activation executes can name: those of    *)
(* the blocks around it and of the scopes around the function it belongs    *)
(* to.                                                                      *)
TextAt(k) ==
    {j \in DOMAIN stack :
        j <= k /\ \A i \in j + 1 .. k : stack[i].kind \notin {"call", "module"}}

VisibleAt(k) == {stack[j].env : j \in TextAt(k)} \cup ToSet(scopes[stack[k].home].chain)

(* A search from the scope of an activation only meets scopes that the text *)
(* of the activation can name, now and when it is the innermost one again.  *)
NamesAreVisible ==
    \A k \in DOMAIN stack : ToSet(scopes[stack[k].env].chain) \subseteq VisibleAt(k)

LexicalInv == ScopesInv /\ NamesAreVisible

(* The scope that an activation runs in is one of its own.                  *)
LEMMA OwnScopeIsVisible ==
    ASSUME ScopesInv, NEW k \in DOMAIN stack
    PROVE  stack[k].env \in VisibleAt(k)
<1>1. k \in Nat
  BY DEF ScopesInv, TypeOK
<1>2. \A i \in k + 1 .. k : FALSE
  BY <1>1
<1>3. k \in TextAt(k)
  BY <1>1, <1>2 DEF TextAt
<1> QED
  BY <1>3 DEF VisibleAt

(* The activations that stay can name what they could.                      *)
LEMMA ActivationsThatStay ==
    ASSUME LexicalInv, ChainsStay, DOMAIN stack' \subseteq Nat,
           NEW k \in DOMAIN stack, k \in DOMAIN stack',
           \A j \in DOMAIN stack : j <= k => j \in DOMAIN stack' /\ stack'[j] = stack[j],
           \A j \in DOMAIN stack' : j <= k => j \in DOMAIN stack
    PROVE  /\ VisibleAt(k)' = VisibleAt(k)
           /\ ToSet(scopes'[stack'[k].env].chain) \subseteq VisibleAt(k)'
<1>1. stack[k].env \in DOMAIN scopes /\ stack[k].home \in DOMAIN scopes /\ k \in Nat
  BY DEF LexicalInv, ScopesInv, TypeOK
<1>2. stack'[k] = stack[k]
  BY <1>1
<1>3. \A j \in Nat : \A i \in j + 1 .. k : j \in DOMAIN stack => i \in DOMAIN stack /\ i <= k
  BY DEF LexicalInv, ScopesInv, TypeOK
<1>4. TextAt(k)' = TextAt(k)
  <2>1. ASSUME NEW j \in DOMAIN stack, j <= k PROVE j \in TextAt(k)' <=> j \in TextAt(k)
    <3>1. j \in Nat /\ j \in DOMAIN stack'
      BY <2>1 DEF LexicalInv, ScopesInv, TypeOK
    <3>2. \A i \in j + 1 .. k : stack'[i].kind = stack[i].kind
      BY <1>3, <2>1, <3>1
    <3> QED
      BY <2>1, <3>1, <3>2 DEF TextAt
  <2> QED
    BY <2>1 DEF TextAt
<1>5. \A j \in TextAt(k) : stack'[j].env = stack[j].env
  BY DEF TextAt
<1>6. scopes'[stack'[k].home].chain = scopes[stack[k].home].chain
      /\ scopes'[stack'[k].env].chain = scopes[stack[k].env].chain
  BY <1>1, <1>2 DEF ChainsStay
<1>7. VisibleAt(k)' = VisibleAt(k)
  BY <1>4, <1>5, <1>6 DEF VisibleAt
<1> QED
  BY <1>6, <1>7 DEF LexicalInv, NamesAreVisible

(* A new activation only names what its text can name.                      *)
LEMMA NewActivationSees ==
    ASSUME LexicalInv, Opening
    PROVE  NamesAreVisible'
<1>1. PICK parent \in DOMAIN scopes, params \in Seq(Variable), frame \in Frame :
         /\ SoundArray(params) /\ Open(parent, params)
         /\ stack' = Append(stack, frame)
         /\ frame.env = Len(scopes) + 1
         /\ Surrounded(parent, frame)
  BY DEF Opening
<1> PICK n \in Nat : n = Len(stack) + 1
  BY DEF LexicalInv, ScopesInv, TypeOK
<1>2. /\ stack \in Seq(Frame) /\ DOMAIN stack = 1 .. n - 1 /\ n > 1 /\ n - 1 \in DOMAIN stack
      /\ Top = stack[n - 1]
  BY DEF Opening, LexicalInv, ScopesInv, TypeOK, Top
<1>3. /\ stack' \in Seq(Frame) /\ DOMAIN stack' = 1 .. n
      /\ \A k \in 1 .. n - 1 : stack'[k] = stack[k]
      /\ stack'[n] = frame
  <2>1. /\ Append(stack, frame) \in Seq(Frame) /\ Len(Append(stack, frame)) = Len(stack) + 1
        /\ \A k \in 1 .. Len(stack) : Append(stack, frame)[k] = stack[k]
        /\ Append(stack, frame)[Len(stack) + 1] = frame
    BY <1>2, AppendProperties
  <2> QED
    BY <1>1, <1>2, <2>1
<1> PICK new \in Nat : new = Len(scopes) + 1
  BY DEF LexicalInv, ScopesInv, TypeOK
<1>4. /\ Shape' /\ DOMAIN scopes' = DOMAIN scopes \cup {new}
      /\ \A s \in DOMAIN scopes : scopes'[s] = scopes[s]
      /\ scopes'[new].chain = <<new>> \o scopes[parent].chain
  BY <1>1, OpenKeepsShape DEF LexicalInv
<1>5. ChainsStay
  BY <1>4 DEF ChainsStay
<1>6. ASSUME NEW k \in 1 .. n - 1
      PROVE  /\ VisibleAt(k)' = VisibleAt(k)
             /\ ToSet(scopes'[stack'[k].env].chain) \subseteq VisibleAt(k)'
  BY <1>2, <1>3, <1>5, ActivationsThatStay
<1>7. ToSet(scopes'[new].chain) = {new} \cup ToSet(scopes[parent].chain)
  <2> DEFINE c == scopes[parent].chain
             cn == <<new>> \o c
  <2>1. c \in Seq(Nat) /\ <<new>> \in Seq(Nat) /\ Len(<<new>>) = 1 /\ <<new>>[1] = new
    BY <1>1, ScopeParts DEF LexicalInv
  <2>2. /\ DOMAIN cn = 1 .. Len(c) + 1 /\ cn[1] = new
        /\ \A k \in 2 .. Len(c) + 1 : cn[k] = c[k - 1]
        /\ DOMAIN c = 1 .. Len(c) /\ Len(c) \in Nat
    BY <2>1, ConcatProperties
  <2> HIDE DEF c, cn
  <2>3. \A k \in 1 .. Len(c) : k + 1 \in DOMAIN cn /\ cn[k + 1] = c[k]
    BY <2>2
  <2>4. \A k \in 2 .. Len(c) + 1 : k - 1 \in DOMAIN c /\ cn[k] = c[k - 1]
    BY <2>2
  <2>5. \A k \in DOMAIN cn : k = 1 \/ k \in 2 .. Len(c) + 1
    BY <2>2
  <2>6. 1 \in DOMAIN cn
    BY <2>2
  <2>7. \A k \in DOMAIN cn : cn[k] \in {new} \cup ToSet(c)
    BY <2>2, <2>4, <2>5 DEF ToSet
  <2>8. new \in ToSet(cn) /\ \A k \in DOMAIN c : c[k] \in ToSet(cn)
    BY <2>2, <2>3, <2>6 DEF ToSet
  <2>9. ToSet(cn) = {new} \cup ToSet(c)
    BY <2>7, <2>8 DEF ToSet
  <2> QED
    BY <1>4, <2>9 DEF cn, c
<1>8. new \in VisibleAt(n)'
  <2>1. \A i \in n + 1 .. n : FALSE
    OBVIOUS
  <2>2. n \in TextAt(n)'
    BY <1>3, <2>1 DEF TextAt
  <2> QED
    BY <1>1, <1>3, <2>2 DEF VisibleAt
<1>9. ToSet(scopes[parent].chain) \subseteq VisibleAt(n)'
  <2>1. CASE /\ frame.kind \in {"block", "forin"}
             /\ parent = Top.env /\ frame.home = Top.home
    <3>1. ToSet(scopes[parent].chain) \subseteq VisibleAt(n - 1)'
      <4>1. ToSet(scopes[stack[n - 1].env].chain) \subseteq VisibleAt(n - 1)
        BY <1>2 DEF LexicalInv, NamesAreVisible
      <4> QED
        BY <1>2, <1>6, <2>1, <4>1
    <3>2. \A j \in TextAt(n - 1)' : j \in TextAt(n)'
      <4> SUFFICES ASSUME NEW j \in 1 .. n, j <= n - 1,
                          \A i \in j + 1 .. n - 1 : stack'[i].kind \notin {"call", "module"}
                   PROVE  \A i \in j + 1 .. n : stack'[i].kind \notin {"call", "module"}
        BY <1>3 DEF TextAt
      <4>1. stack'[n].kind \notin {"call", "module"}
        BY <1>3, <2>1
      <4>2. \A i \in j + 1 .. n : i = n \/ i \in j + 1 .. n - 1
        OBVIOUS
      <4> QED
        BY <4>1, <4>2
    <3>3. stack'[n].home = stack'[n - 1].home
      BY <1>2, <1>3, <2>1
    <3> QED
      BY <3>1, <3>2, <3>3 DEF VisibleAt
  <2>2. CASE /\ frame.kind \in {"call", "module"} /\ parent \in {1, frame.home}
             /\ frame.home \in DOMAIN scopes \cup {new}
    <3>1. ToSet(scopes'[frame.home].chain) \subseteq VisibleAt(n)'
      BY <1>3 DEF VisibleAt
    <3>2. CASE frame.home = new
      BY <1>7, <3>1, <3>2
    <3>3. CASE frame.home \in DOMAIN scopes /\ parent = frame.home
      BY <1>4, <3>1, <3>3
    <3>4. CASE frame.home \in DOMAIN scopes /\ parent = 1
      <4>1. ToSet(scopes[1].chain) = {1}
        <5>1. scopes[1].chain \in Seq(Nat) /\ \A k \in DOMAIN scopes[1].chain : scopes[1].chain[k] \in 1 .. 1
          BY <3>4, ScopeParts DEF LexicalInv, ScopesInv, ChainsGoDown
        <5>2. 1 \in ToSet(scopes[1].chain)
          BY <3>4, ScopeSeesItself DEF LexicalInv
        <5> QED
          BY <5>1, <5>2 DEF ToSet
      <4>2. 1 \in ToSet(scopes'[frame.home].chain)
        BY <1>4, <3>4, GlobalsAreSeen DEF LexicalInv
      <4> QED
        BY <3>1, <3>4, <4>1, <4>2
    <3> QED
      BY <2>2, <3>2, <3>3, <3>4
  <2> QED
    BY <1>1, <2>1, <2>2 DEF Surrounded
<1>10. ToSet(scopes'[stack'[n].env].chain) \subseteq VisibleAt(n)'
  BY <1>1, <1>3, <1>7, <1>8, <1>9
<1>11. \A k \in DOMAIN stack' : k = n \/ k \in 1 .. n - 1
  BY <1>3
<1> QED
  BY <1>6, <1>10, <1>11 DEF NamesAreVisible

(* The innermost activation searches what WritesAreLexical says it sees.    *)
LEMMA InnermostNames ==
    ASSUME LexicalInv, stack # <<>>
    PROVE  ToSet(scopes[Top.env].chain) \subseteq LexicallyVisible
<1> PICK n \in DOMAIN stack : n = Len(stack)
  BY TopIsSound DEF LexicalInv
<1>1. DOMAIN stack = 1 .. n /\ n \in Nat
  BY DEF LexicalInv, ScopesInv, TypeOK
<1>2. \A j \in DOMAIN stack : j <= n
  BY <1>1
<1>3. TextAt(n) = InThisText
  BY <1>2 DEF TextAt, InThisText
<1>4. VisibleAt(n) = LexicallyVisible
  BY <1>3 DEF VisibleAt, LexicallyVisible, Top
<1> QED
  BY <1>4 DEF LexicalInv, NamesAreVisible, Top

(* The same after a step.                                                   *)
LEMMA InnermostNamesNext ==
    ASSUME LexicalInv', stack' # <<>>
    PROVE  ToSet(scopes'[Top'.env].chain) \subseteq LexicallyVisible'
<1>1. /\ stack' \in Seq(Frame) /\ Len(stack') \in Nat /\ Len(stack') >= 1
  BY DEF LexicalInv, ScopesInv, TypeOK
<1> PICK n \in DOMAIN stack' : n = Len(stack')
  BY <1>1
<1>2. DOMAIN stack' = 1 .. n /\ n \in Nat
  BY <1>1
<1>3. \A j \in DOMAIN stack' : j <= n
  BY <1>2
<1>4. TextAt(n)' = InThisText'
  BY <1>3 DEF TextAt, InThisText
<1>5. VisibleAt(n)' = LexicallyVisible'
  BY <1>4 DEF VisibleAt, LexicallyVisible, Top
<1> QED
  BY <1>5 DEF LexicalInv, NamesAreVisible, Top

(* A module that ends binds its alias in the importer.                      *)
LEMMA FinishWrites ==
    ASSUME ScopesInv, FinishModule
    PROVE  /\ stack # <<>> /\ stack' = Below /\ Below # <<>>
           /\ Below[Len(Below)].env \in DOMAIN scopes
           /\ Top.name \in Name /\ Sound(Module(Top.env)) /\ Module(Top.env) \in Value
           /\ ChainsStay /\ OnlyChanges(Below[Len(Below)].env) /\ DOMAIN scopes' = DOMAIN scopes
<1>1. stack # <<>> /\ Top.kind = "module" /\ stack' = Below
  BY DEF FinishModule, Running
<1>2. Len(stack) # 1 /\ Top.name \in Name
  BY <1>1, TopIsSound DEF ScopesInv, FramesAreNamed, Top
<1>3. stack \in Seq(Frame) /\ Len(stack) \in Nat \ {0, 1}
  <2>1. stack \in Seq(Frame) /\ Len(stack) \in Nat \ {0}
    BY <1>1 DEF ScopesInv, TypeOK
  <2> QED
    BY <1>2, <2>1
<1> PICK n \in Nat : n = Len(stack) - 1
  BY <1>3
<1>4. n \in DOMAIN stack /\ n >= 1
  BY <1>3
<1>5. /\ Below \in Seq(Frame) /\ Len(Below) = n /\ \A k \in 1 .. n : Below[k] = stack[k]
  BY <1>1, TopIsSound
<1>6. Below # <<>> /\ Below[Len(Below)] = stack[n]
  BY <1>4, <1>5
<1>7. stack[n].env \in DOMAIN scopes /\ Top.env \in DOMAIN scopes
  BY <1>1, <1>4, TopIsSound DEF ScopesInv, TypeOK
<1>8. Sound(Module(Top.env)) /\ Module(Top.env) \in Value
  <2>1. DOMAIN scopes \subseteq Nat
    BY DEF ScopesInv, TypeOK
  <2> QED
    BY <1>7, <2>1 DEF Sound, Module, Value
<1>9. SetOrDefine(Below[Len(Below)].env, Top.name, Module(Top.env))
  BY DEF FinishModule
<1>10. ChainsStay /\ OnlyChanges(Below[Len(Below)].env) /\ DOMAIN scopes' = DOMAIN scopes
  BY <1>2, <1>6, <1>7, <1>8, <1>9, WritingChangesOne
<1> QED
  BY <1>1, <1>2, <1>6, <1>7, <1>8, <1>10

(* Every step keeps what activations can name.                              *)
LEMMA NextKeepsNames == LexicalInv /\ [Next]_vars => LexicalInv'
<1> SUFFICES ASSUME LexicalInv, [Next]_vars PROVE NamesAreVisible'
  BY NextKeepsInv DEF LexicalInv
<1>1. ASSUME ChainsStay, UNCHANGED stack PROVE NamesAreVisible'
  <2>1. DOMAIN stack' \subseteq Nat
    BY <1>1 DEF LexicalInv, ScopesInv, TypeOK
  <2> QED
    BY <1>1, <2>1, ActivationsThatStay DEF NamesAreVisible
<1>2. ASSUME ChainsStay, stack # <<>>, stack' = Below PROVE NamesAreVisible'
  <2>1. /\ DOMAIN stack' = 1 .. Len(stack) - 1 /\ DOMAIN stack = 1 .. Len(stack)
        /\ Len(stack) \in Nat /\ \A k \in DOMAIN stack' : stack'[k] = stack[k]
    <3>1. /\ stack' \in Seq(Frame) /\ Len(stack') = Len(stack) - 1
          /\ \A k \in 1 .. Len(stack) - 1 : stack'[k] = stack[k]
      BY <1>2, TopIsSound DEF LexicalInv
    <3>2. stack \in Seq(Frame)
      BY DEF LexicalInv, ScopesInv, TypeOK
    <3> QED
      BY <3>1, <3>2
  <2>2. ASSUME NEW k \in DOMAIN stack'
        PROVE  ToSet(scopes'[stack'[k].env].chain) \subseteq VisibleAt(k)'
    <3>1. /\ \A j \in DOMAIN stack : j <= k => j \in DOMAIN stack' /\ stack'[j] = stack[j]
          /\ \A j \in DOMAIN stack' : j \in DOMAIN stack
          /\ DOMAIN stack' \subseteq Nat
      BY <2>1
    <3> QED
      BY <1>2, <3>1, ActivationsThatStay
  <2> QED
    BY <2>2 DEF NamesAreVisible
<1>3. CASE Writing
  <2>1. Top.env \in DOMAIN scopes
    BY <1>3, TopIsSound DEF LexicalInv, Writing
  <2>2. ChainsStay
    BY <1>3, <2>1, WritingChangesOne DEF LexicalInv, Writing
  <2> QED
    BY <1>1, <1>3, <2>2 DEF Writing
<1>4. CASE Leave
  BY <1>2, <1>4 DEF Leave, ChainsStay
<1>5. CASE FinishModule
  BY <1>2, <1>5, FinishWrites DEF LexicalInv, FinishModule, Running
<1>6. CASE UNCHANGED <<scopes, stack>>
  BY <1>1, <1>6 DEF ChainsStay
<1> QED
  BY <1>3, <1>4, <1>5, <1>6, NewActivationSees, Steps DEF LexicalInv

(* Before anything is called, the program names the globals.                *)
LEMMA InitHasNames == Init => LexicalInv
<1> SUFFICES ASSUME Init PROVE NamesAreVisible
  BY InitHolds DEF LexicalInv
<1> DEFINE frame == [kind |-> "program", env |-> 1, name |-> "", home |-> 1]
<1>1. frame.env = 1 /\ frame.home = 1 /\ stack = <<frame>>
  BY DEF Init
<1> HIDE DEF frame
<1>2. DOMAIN stack = {1} /\ stack[1] = frame
  BY <1>1
<1> QED
  BY <1>1, <1>2 DEF NamesAreVisible, VisibleAt

(* Whatever the program is, each activation only finds the variables that   *)
(* its text can name.                                                       *)
THEOREM SearchesAreLexical == Spec => []LexicalInv
BY InitHasNames, NextKeepsNames, PTL DEF Spec

(* A step of an activation only changes variables that its text can name,   *)
(* for any nesting of blocks, loops, calls and imports: env_set never       *)
(* reaches a variable of a caller, and an import writes its alias in the    *)
(* importer.                                                                *)
THEOREM ScopingIsLexical == Spec => WritesAreLexical
<1> DEFINE Lexical ==
             \A s \in DOMAIN scopes :
                scopes'[s] # scopes[s] =>
                    s \in LexicallyVisible \/ (FinishModule /\ s \in LexicallyVisible')
<1>1. LexicalInv /\ LexicalInv' /\ [Next]_vars => [Lexical]_vars
  <2> SUFFICES ASSUME LexicalInv, LexicalInv', [Next]_vars PROVE Lexical
    OBVIOUS
  <2>1. CASE Writing
    <3>1. Top.env \in DOMAIN scopes /\ stack # <<>>
      BY <2>1, TopIsSound DEF LexicalInv, Writing
    <3>2. OnlyChanges(Top.env)
      BY <2>1, <3>1, WritingChangesOne DEF LexicalInv, Writing
    <3> QED
      BY <3>1, <3>2, InnermostNames DEF OnlyChanges
  <2>2. CASE Opening
    <3>1. \A s \in DOMAIN scopes : scopes'[s] = scopes[s]
      BY <2>2, OpenKeepsShape DEF LexicalInv, Opening
    <3> QED
      BY <3>1
  <2>3. CASE FinishModule
    <3>1. /\ stack' = Below /\ Below # <<>> /\ Below[Len(Below)].env \in DOMAIN scopes
          /\ ChainsStay /\ OnlyChanges(Below[Len(Below)].env)
      BY <2>3, FinishWrites DEF LexicalInv
    <3>2. PICK s \in DOMAIN scopes : s = Below[Len(Below)].env
      BY <3>1
    <3>3. scopes'[s].chain = scopes[s].chain
      BY <3>1 DEF ChainsStay
    <3>4. ToSet(scopes'[s].chain) \subseteq LexicallyVisible'
      BY <3>1, <3>2, InnermostNamesNext DEF Top
    <3> QED
      BY <2>3, <3>1, <3>2, <3>3, <3>4 DEF OnlyChanges
  <2> QED
    BY <2>1, <2>2, <2>3, Steps DEF LexicalInv, Leave
<1> QED
  BY <1>1, SearchesAreLexical, PTL DEF Spec, WritesAreLexical

-----------------------------------------------------------------------------
(* What Bindings sees of the scopes.                                        *)

ValueOf(s, x) ==
    IF Slots(s, x) = {} THEN Unbound ELSE scopes[s].vars[First(Slots(s, x))].value

Chains == [s \in DOMAIN scopes |-> scopes[s].chain]
Values == [s \in DOMAIN scopes |-> [x \in Name |-> ValueOf(s, x)]]
Active == [k \in DOMAIN stack |-> stack[k].env]

(* A function over 1 .. n is a sequence.                                    *)
LEMMA SeqOf1ToN ==
    ASSUME NEW n \in Nat, NEW S, NEW f, f = [k \in 1 .. n |-> f[k]], \A k \in 1 .. n : f[k] \in S
    PROVE  f \in Seq(S) /\ Len(f) = n
<1>1. f \in [1 .. n -> S]
  OBVIOUS
<1>2. f \in Seq(S)
  BY <1>1, SeqDef
<1> QED
  BY <1>1, <1>2

(* The chains are a sequence.                                               *)
LEMMA ChainsAreSeq ==
    ASSUME ScopesInv
    PROVE  /\ Chains \in Seq(Seq(Nat)) /\ Len(Chains) = Len(scopes) /\ DOMAIN Chains = DOMAIN scopes
           /\ \A s \in DOMAIN scopes : Chains[s] = scopes[s].chain
<1>1. DOMAIN scopes = 1 .. Len(scopes) /\ Len(scopes) \in Nat
  BY DEF ScopesInv, TypeOK
<1>2. DOMAIN Chains = DOMAIN scopes /\ \A s \in DOMAIN scopes : Chains[s] = scopes[s].chain
  BY DEF Chains
<1>3. \A s \in 1 .. Len(scopes) : Chains[s] \in Seq(Nat)
  BY <1>1, <1>2, ScopeParts
<1>4. Chains = [s \in 1 .. Len(scopes) |-> Chains[s]]
  BY <1>1 DEF Chains
<1> HIDE DEF Chains
<1> QED
  BY <1>1, <1>2, <1>3, <1>4, SeqOf1ToN

(* The scopes that statements run in are a sequence.                        *)
LEMMA ActiveIsSeq ==
    ASSUME ScopesInv
    PROVE  /\ Active \in Seq(Nat) /\ Len(Active) = Len(stack)
           /\ \A k \in DOMAIN stack : Active[k] = stack[k].env
<1>1. DOMAIN stack = 1 .. Len(stack) /\ Len(stack) \in Nat
  BY DEF ScopesInv, TypeOK
<1>2. \A k \in DOMAIN stack : Active[k] = stack[k].env
  BY DEF Active
<1>3. \A k \in 1 .. Len(stack) : Active[k] \in Nat
  BY <1>1, <1>2 DEF ScopesInv, TypeOK
<1>4. Active = [k \in 1 .. Len(stack) |-> Active[k]]
  BY <1>1 DEF Active
<1> HIDE DEF Active
<1> QED
  BY <1>1, <1>2, <1>3, <1>4, SeqOf1ToN

(* A name has a value where it has a slot, and only there.                  *)
LEMMA ValuesAreValues ==
    ASSUME ScopesInv, NEW s \in DOMAIN scopes, NEW x
    PROVE  /\ ValueOf(s, x) \in Value \cup {Unbound}
           /\ Slots(s, x) # {} <=> ValueOf(s, x) # Unbound
           /\ Slots(s, x) # {} => ValueOf(s, x) \in Value
<1>1. Unbound \notin Value
  BY DEF Unbound, Value
<1>2. CASE Slots(s, x) = {}
  BY <1>1, <1>2 DEF ValueOf
<1>3. CASE Slots(s, x) # {}
  <2>1. Slots(s, x) \subseteq Nat /\ Slots(s, x) \subseteq DOMAIN scopes[s].vars
    BY ScopeParts DEF Slots
  <2>2. First(Slots(s, x)) \in DOMAIN scopes[s].vars
    BY <1>3, <2>1, FirstIsIn
  <2>3. scopes[s].vars[First(Slots(s, x))].value \in Value
    BY <2>2, ScopeParts DEF Variable
  <2> QED
    BY <1>1, <1>3, <2>3 DEF ValueOf
<1> QED
  BY <1>2, <1>3

(* Bindings finds a name where env_get finds it.                            *)
LEMMA BindersAreHolders ==
    ASSUME ScopesInv, NEW s \in DOMAIN scopes, NEW x \in Name
    PROVE  Promise!Binders(s, x) = Holders(s, x) /\ Promise!Binder(s, x) = Holder(s, x)
<1>1. \A k \in DOMAIN scopes[s].chain : scopes[s].chain[k] \in DOMAIN scopes
  BY ScopeParts DEF ScopesInv, ChainsGoDown
<1>2. \A t \in DOMAIN scopes : Values[t][x] = ValueOf(t, x)
  BY DEF Values
<1>3. Promise!Binders(s, x) =
        {k \in DOMAIN Chains[s] : Values[Chains[s][k]][x] # Unbound}
  BY DEF Promise!Binders, Chains, Values, ValueOf
<1>4. Chains[s] = scopes[s].chain
  BY DEF Chains
<1>5. Promise!Binders(s, x) = Holders(s, x)
  BY <1>1, <1>2, <1>3, <1>4, ValuesAreValues DEF Holders
<1>6. Promise!Binder(s, x) = Chains[s][Promise!First(Promise!Binders(s, x))]
  BY DEF Promise!Binder, Chains
<1> QED
  BY <1>4, <1>5, <1>6 DEF Holder, First, Promise!First

-----------------------------------------------------------------------------
(* What the writes of env.c do to the bindings.                             *)

(* Nothing that Bindings sees changes.                                      *)
SameBindings == Chains' = Chains /\ Values' = Values

(* One name gets a value in one scope.                                      *)
BindsOne(s, x) ==
    /\ ChainsStay /\ DOMAIN scopes' = DOMAIN scopes
    /\ ValueOf(s, x)' \in Value
    /\ \A t \in DOMAIN scopes, y \in Name : <<t, y>> # <<s, x>> => ValueOf(t, y)' = ValueOf(t, y)

(* It is bound there.                                                       *)
LEMMA BindsOneBinds ==
    ASSUME ScopesInv, NEW s \in DOMAIN scopes, NEW x \in Name, BindsOne(s, x)
    PROVE  Promise!Bind(s, x)
<1>1. Chains' = Chains
  BY DEF Chains, BindsOne, ChainsStay
<1>2. DOMAIN Values' = DOMAIN Values /\ DOMAIN Values = DOMAIN scopes
  BY DEF Values, BindsOne
<1>3. \A t \in DOMAIN scopes :
         Values'[t] = [y \in Name |-> IF t = s /\ y = x THEN ValueOf(s, x)' ELSE Values[t][y]]
  BY DEF Values, BindsOne
<1>4. Values' = [t \in DOMAIN scopes |->
                   [y \in Name |-> IF t = s /\ y = x THEN ValueOf(s, x)' ELSE Values[t][y]]]
  BY <1>3 DEF Values, BindsOne
<1>5. Values'[s][x] = ValueOf(s, x)'
  BY <1>3
<1>6. Values' = [Values EXCEPT ![s][x] = Values'[s][x]]
  <2>1. \A t \in DOMAIN scopes : Values[t] = [y \in Name |-> Values[t][y]]
    BY DEF Values
  <2>2. Values = [t \in DOMAIN scopes |-> Values[t]]
    BY DEF Values
  <2> HIDE DEF Values
  <2> QED
    BY <1>4, <1>5, <2>1, <2>2
<1> QED
  BY <1>1, <1>5, <1>6 DEF BindsOne, Promise!Bind, Chains, Values, ValueOf

(* env_define binds the name, unless it is bound already or the scope is    *)
(* full.                                                                    *)
LEMMA DefineBinds ==
    ASSUME ScopesInv, NEW s \in DOMAIN scopes, NEW x \in Name, NEW v, Sound(v), Define(s, x, v)
    PROVE  SameBindings \/ (Slots(s, x) = {} /\ BindsOne(s, x))
<1>1. ASSUME UNCHANGED scopes PROVE SameBindings
  BY <1>1 DEF SameBindings, Chains, Values, ValueOf, Slots
<1>2. ASSUME ~IsFull(s) PROVE SameBindings \/ (Slots(s, x) = {} /\ BindsOne(s, x))
  <2> DEFINE new == [name |-> x, value |-> v]
             array == Append(scopes[s].vars, new)
  <2> PICK n \in Nat \ {0} : n = Len(scopes[s].vars) + 1
    BY ScopeParts
  <2>1. scopes' = [scopes EXCEPT ![s].vars = array]
    BY <1>2 DEF Define
  <2>2. new \in Variable /\ new.name = x /\ new.value = v
    BY DEF Variable, Sound
  <2> HIDE DEF new
  <2>3. /\ DOMAIN array = 1 .. n /\ array[n] = new
        /\ \A j \in 1 .. n - 1 : array[j] = scopes[s].vars[j]
        /\ DOMAIN scopes[s].vars = 1 .. n - 1
    BY <2>2, ScopeParts, AppendProperties
  <2> HIDE DEF array
  <2>4. /\ scopes'[s].vars = array /\ scopes'[s].chain = scopes[s].chain
        /\ DOMAIN scopes' = DOMAIN scopes
        /\ \A t \in DOMAIN scopes : t # s => scopes'[t] = scopes[t]
    BY <2>1, ScopeParts DEF Scope
  <2>5. ChainsStay
    BY <2>4 DEF ChainsStay
  <2>6. ASSUME NEW t \in DOMAIN scopes, NEW y \in Name, t # s PROVE ValueOf(t, y)' = ValueOf(t, y)
    BY <2>4, <2>6 DEF ValueOf, Slots
  <2>7. \A j \in 1 .. n : j = n \/ j \in 1 .. n - 1
    OBVIOUS
  <2>8. ASSUME NEW y \in Name, y # x PROVE ValueOf(s, y)' = ValueOf(s, y)
    <3>1. Slots(s, y)' = Slots(s, y)
      BY <2>2, <2>3, <2>4, <2>7, <2>8 DEF Slots
    <3>2. CASE Slots(s, y) = {}
      BY <3>1, <3>2 DEF ValueOf
    <3>3. CASE Slots(s, y) # {}
      <4>1. Slots(s, y) \subseteq Nat /\ Slots(s, y) \subseteq 1 .. n - 1
        BY <2>3 DEF Slots
      <4>2. First(Slots(s, y)) \in 1 .. n - 1
        BY <3>3, <4>1, FirstIsIn
      <4> QED
        BY <2>3, <2>4, <3>1, <3>3, <4>2 DEF ValueOf
    <3> QED
      BY <3>2, <3>3
  <2>9. CASE Slots(s, x) = {}
    <3>1. Slots(s, x)' = {n}
      BY <2>2, <2>3, <2>4, <2>7, <2>9 DEF Slots
    <3>2. First({n}) = n
      <4>1. {n} \subseteq Nat /\ {n} # {}
        OBVIOUS
      <4> QED
        BY <4>1, FirstIsIn
    <3>3. ValueOf(s, x)' = v
      <4>1. Slots(s, x)' = {n} /\ scopes'[s].vars[n].value = v
        BY <2>2, <2>3, <2>4, <3>1
      <4> QED
        BY <3>2, <4>1 DEF ValueOf
    <3> QED
      BY <2>4, <2>5, <2>6, <2>8, <2>9, <3>3 DEF BindsOne, Sound
  <2>10. CASE Slots(s, x) # {}
    <3>1. Slots(s, x)' = Slots(s, x) \cup {n}
      BY <2>2, <2>3, <2>4, <2>7 DEF Slots
    <3>2. Slots(s, x) \subseteq Nat /\ Slots(s, x) \subseteq 1 .. n - 1
      BY <2>3 DEF Slots
    <3>3. PICK i \in 1 .. n - 1 : i = First(Slots(s, x))
      BY <2>10, <3>2, FirstIsIn
    <3>4. First(Slots(s, x) \cup {n}) = i
      <4> DEFINE places == Slots(s, x) \cup {n}
      <4>1. i \in Slots(s, x) /\ \A j \in Slots(s, x) : i <= j
        BY <2>10, <3>2, <3>3, FirstIsIn
      <4>2. i \in places /\ \A j \in places : i <= j
        BY <4>1
      <4>3. places \subseteq Nat /\ places # {}
        BY <3>2
      <4> HIDE DEF places
      <4>4. PICK j \in Nat : j = First(places) /\ j \in places /\ \A k \in places : j <= k
        BY <4>3, FirstIsIn
      <4>5. i <= j /\ j <= i
        BY <4>2, <4>4
      <4> QED
        BY <4>4, <4>5 DEF places
    <3>5. ValueOf(s, x) = scopes[s].vars[i].value
      BY <2>10, <3>3 DEF ValueOf
    <3>6. ValueOf(s, x)' = scopes'[s].vars[i].value
      BY <2>10, <3>1, <3>4 DEF ValueOf
    <3>7. ValueOf(s, x)' = ValueOf(s, x)
      BY <2>3, <2>4, <3>5, <3>6
    <3>8. Values' = Values
      BY <2>4, <2>6, <2>8, <3>7 DEF Values
    <3> QED
      BY <2>4, <3>8 DEF SameBindings, Chains
  <2> QED
    BY <2>9, <2>10
<1> QED
  BY <1>1, <1>2 DEF Define

(* env_set binds the name in the scope where env_get finds it.              *)
LEMMA SetBinds ==
    ASSUME ScopesInv, NEW s \in DOMAIN scopes, NEW x \in Name, NEW v, Sound(v),
           Holders(s, x) # {}, Set(s, x, v)
    PROVE  BindsOne(Holder(s, x), x)
<1>1. PICK h \in DOMAIN scopes : h = Holder(s, x)
  BY HolderHolds
<1> PICK i \in DOMAIN scopes[h].vars : i = First(Slots(h, x))
  BY <1>1, HolderHolds DEF Slots
<1>2. i \in Slots(h, x)
  BY <1>1, HolderHolds
<1>3. /\ scopes[h] \in Scope /\ \A j \in DOMAIN scopes[h].vars : scopes[h].vars[j] \in Variable
      /\ DOMAIN scopes' = DOMAIN scopes
      /\ \A t \in DOMAIN scopes : t # h => scopes'[t] = scopes[t]
      /\ scopes'[h] = [scopes[h] EXCEPT !.vars[i].value = v]
  BY <1>1, ScopeParts DEF Set
<1>4. /\ scopes'[h].chain = scopes[h].chain
      /\ DOMAIN scopes'[h].vars = DOMAIN scopes[h].vars
      /\ \A j \in DOMAIN scopes[h].vars : scopes'[h].vars[j].name = scopes[h].vars[j].name
      /\ \A j \in DOMAIN scopes[h].vars : j # i => scopes'[h].vars[j] = scopes[h].vars[j]
      /\ scopes'[h].vars[i].value = v
  BY <1>3 DEF Scope, Variable
<1>5. ChainsStay
  BY <1>3, <1>4 DEF ChainsStay
<1>6. ASSUME NEW t \in DOMAIN scopes, NEW y \in Name, t # h PROVE ValueOf(t, y)' = ValueOf(t, y)
  BY <1>3, <1>6 DEF ValueOf, Slots
<1>7. \A y \in Name : Slots(h, y)' = Slots(h, y)
  BY <1>4 DEF Slots
<1>8. ASSUME NEW y \in Name, y # x PROVE ValueOf(h, y)' = ValueOf(h, y)
  <2>1. CASE Slots(h, y) = {}
    BY <1>7, <2>1 DEF ValueOf
  <2>2. CASE Slots(h, y) # {}
    <3>1. Slots(h, y) \subseteq Nat
      BY ScopeParts DEF Slots
    <3>2. First(Slots(h, y)) \in Slots(h, y)
      BY <2>2, <3>1, FirstIsIn
    <3>3. First(Slots(h, y)) \in DOMAIN scopes[h].vars /\ First(Slots(h, y)) # i
      BY <1>2, <1>8, <3>2 DEF Slots
    <3> QED
      BY <1>4, <1>7, <2>2, <3>3 DEF ValueOf
  <2> QED
    BY <2>1, <2>2
<1>9. ValueOf(h, x)' = v
  BY <1>2, <1>4, <1>7 DEF ValueOf
<1>10. BindsOne(h, x)
  BY <1>3, <1>5, <1>6, <1>8, <1>9 DEF BindsOne, Sound
<1> QED
  BY <1>1, <1>10

(* An assignment is an assignment, or is lost because the scope is full.    *)
LEMMA AssignmentAssigns ==
    ASSUME ScopesInv, NEW s \in DOMAIN scopes, NEW x \in Name, NEW v, Sound(v),
           SetOrDefine(s, x, v)
    PROVE  SameBindings \/ Promise!Assign(s, x)
<1>1. CASE Holders(s, x) # {} /\ Set(s, x, v)
  <2>1. PICK h \in DOMAIN scopes : h = Holder(s, x)
    BY <1>1, HolderHolds
  <2>2. BindsOne(h, x)
    BY <1>1, <2>1, SetBinds
  <2>3. Promise!Bind(h, x)
    BY <2>2, BindsOneBinds
  <2>4. Promise!Binders(s, x) # {} /\ Promise!Binder(s, x) = h
    BY <1>1, <2>1, BindersAreHolders
  <2> QED
    BY <2>3, <2>4 DEF Promise!Assign, Promise!Bind
<1>2. CASE Holders(s, x) = {} /\ Define(s, x, v)
  BY <1>2, DefineBinds, BindsOneBinds, BindersAreHolders DEF Promise!Assign
<1> QED
  BY <1>1, <1>2 DEF SetOrDefine

-----------------------------------------------------------------------------
(* Scopes implements Bindings.                                              *)

(* The innermost scope that Bindings sees is that of the activation.        *)
LEMMA HereIsTop ==
    ASSUME ScopesInv, stack # <<>>
    PROVE  Promise!Here = Top.env /\ Active # <<>>
<1>1. Len(stack) \in DOMAIN stack /\ Len(Active) = Len(stack) /\ Len(stack) # 0
  BY TopIsSound, ActiveIsSeq DEF ScopesInv, TypeOK
<1>2. Promise!Here = Active[Len(Active)]
  BY DEF Promise!Here, Active
<1>3. Active[Len(Active)] = Top.env
  BY <1>1, ActiveIsSeq DEF Top
<1>4. Active # <<>>
  BY <1>1
<1> QED
  BY <1>2, <1>3, <1>4

(* What is left of the activations is what Bindings leaves.                 *)
LEMMA OuterIsBelow ==
    ASSUME ScopesInv, stack # <<>>, stack' = Below
    PROVE  /\ Active' = Promise!Outer
           /\ Below # <<>> => /\ Len(Active) > 1
                              /\ Promise!Outer[Len(Promise!Outer)] = Below[Len(Below)].env
<1> PICK n \in Nat : n = Len(stack) - 1
  BY TopIsSound DEF ScopesInv, TypeOK
<1>1. /\ DOMAIN stack = 1 .. n + 1 /\ Active \in Seq(Nat) /\ Len(Active) = n + 1
      /\ \A k \in 1 .. n + 1 : Active[k] = stack[k].env
  <2>1. DOMAIN stack = 1 .. Len(stack) /\ Len(stack) = n + 1
    BY DEF ScopesInv, TypeOK
  <2> QED
    BY <2>1, ActiveIsSeq
<1>2. /\ Below \in Seq(Frame) /\ Len(Below) = n /\ \A k \in 1 .. n : Below[k] = stack[k]
      /\ DOMAIN Below = 1 .. n
  BY TopIsSound
<1>3. Promise!Outer = SubSeq(Active, 1, n)
  <2>1. Promise!Outer = SubSeq(Active, 1, Len(Active) - 1)
    BY DEF Promise!Outer, Active
  <2>2. Len(Active) - 1 = n
    BY <1>1
  <2> QED
    BY <2>1, <2>2
<1>4. /\ SubSeq(Active, 1, n) \in Seq(Nat) /\ Len(SubSeq(Active, 1, n)) = n
      /\ \A k \in 1 .. n : SubSeq(Active, 1, n)[k] = Active[k]
  <2>1. \A k \in 1 .. n : Active[k] \in Nat
    BY <1>1
  <2>2. 1 \in Int /\ n \in Int /\ n >= 0
    OBVIOUS
  <2>3. /\ SubSeq(Active, 1, n) \in Seq(Nat)
        /\ Len(SubSeq(Active, 1, n)) = IF 1 <= n THEN n - 1 + 1 ELSE 0
        /\ \A k \in 1 .. n - 1 + 1 : SubSeq(Active, 1, n)[k] = Active[1 + k - 1]
    BY <2>1, <2>2, SubSeqProperties
  <2>4. n - 1 + 1 = n /\ \A k \in 1 .. n : 1 + k - 1 = k
    BY <2>2
  <2> QED
    BY <2>2, <2>3, <2>4
<1>5. Active' = [k \in 1 .. n |-> Below[k].env]
  BY <1>2 DEF Active
<1>6. \A k \in 1 .. n : Below[k].env = SubSeq(Active, 1, n)[k]
  <2>1. \A k \in 1 .. n : k \in 1 .. n + 1
    OBVIOUS
  <2>2. \A k \in 1 .. n : Active[k] = stack[k].env
    BY <1>1, <2>1
  <2> QED
    BY <1>2, <1>4, <2>2
<1>7. Active' = SubSeq(Active, 1, n)
  BY <1>4, <1>5, <1>6
<1>8. ASSUME Below # <<>>
      PROVE  Len(Active) > 1 /\ SubSeq(Active, 1, n)[n] = Below[n].env
  <2>1. n # 0
    BY <1>2, <1>8
  <2>2. n \in 1 .. n
    BY <2>1
  <2> QED
    BY <1>1, <1>6, <2>1, <2>2
<1> QED
  BY <1>2, <1>3, <1>4, <1>7, <1>8

(* Writing a variable is one of the two statements of Bindings, or lost.    *)
LEMMA WritingImplements ==
    ASSUME ScopesInv, Writing
    PROVE  Promise!AssignHere \/ Promise!Declare \/ UNCHANGED Promise!vars
<1>1. stack # <<>> /\ UNCHANGED stack
  BY DEF Writing
<1>2. PICK x \in Name, v \in Value :
         /\ Sound(v)
         /\ \/ SetOrDefine(Top.env, x, v) \/ Define(Top.env, x, v)
            \/ Holders(Top.env, x) # {} /\ Set(Top.env, x, v)
  BY DEF Writing
<1> PICK s \in DOMAIN scopes : s = Top.env
  BY <1>1, TopIsSound
<1>3. Active' = Active
  BY <1>1 DEF Active
<1>4. Promise!Here = s /\ Active # <<>>
  BY <1>1, HereIsTop
<1>5. SameBindings => UNCHANGED Promise!vars
  BY <1>3 DEF SameBindings, Promise!vars, Active, Chains, Values, ValueOf
<1>6. Promise!Assign(s, x) => Promise!AssignHere
  BY <1>3, <1>4 DEF Promise!AssignHere, Promise!Assign, Promise!Bind, Active
<1>7. Slots(s, x) = {} /\ Promise!Bind(s, x) => Promise!Declare
  <2>1. Slots(s, x) = {} => Values[s][x] = Unbound
    BY DEF Values, ValueOf
  <2> QED
    BY <1>3, <1>4, <2>1 DEF Promise!Declare, Promise!Bind, Active, Values, ValueOf
<1>8. CASE SetOrDefine(s, x, v)
  BY <1>2, <1>5, <1>6, <1>8, AssignmentAssigns
<1>9. CASE Define(s, x, v)
  BY <1>2, <1>5, <1>7, <1>9, DefineBinds, BindsOneBinds
<1>10. CASE Holders(s, x) # {} /\ Set(s, x, v)
  BY <1>8, <1>10 DEF SetOrDefine
<1> QED
  BY <1>2, <1>8, <1>9, <1>10

(* Ending an activation is one of the two ways to leave a scope.            *)
LEMMA LeavingImplements ==
    ASSUME ScopesInv, Leave \/ FinishModule
    PROVE  Promise!Leave \/ Promise!LeaveAndAssign
<1>1. stack # <<>> /\ stack' = Below
  BY DEF Leave, FinishModule, Running
<1>2. Active' = Promise!Outer /\ Active # <<>>
  BY <1>1, OuterIsBelow, HereIsTop
<1>3. SameBindings => Promise!Leave
  BY <1>2 DEF SameBindings, Promise!Leave, Active, Chains, Values, ValueOf
<1>4. CASE Leave
  <2>1. SameBindings
    BY <1>4 DEF Leave, SameBindings, Chains, Values, ValueOf, Slots
  <2> QED
    BY <1>3, <2>1
<1>5. CASE FinishModule
  <2>1. /\ Below # <<>> /\ Below[Len(Below)].env \in DOMAIN scopes
        /\ Top.name \in Name /\ Sound(Module(Top.env))
        /\ SetOrDefine(Below[Len(Below)].env, Top.name, Module(Top.env))
    BY <1>5, FinishWrites DEF FinishModule
  <2> PICK s \in DOMAIN scopes : s = Below[Len(Below)].env
    BY <2>1
  <2> PICK x \in Name : x = Top.name
    BY <2>1
  <2>2. SameBindings \/ Promise!Assign(s, x)
    BY <2>1, AssignmentAssigns
  <2>3. Len(Active) > 1 /\ Promise!Outer[Len(Promise!Outer)] = s
    BY <1>1, <2>1, OuterIsBelow
  <2>4. Promise!Assign(s, x) => Promise!LeaveAndAssign
    BY <1>2, <2>3 DEF Promise!LeaveAndAssign, Promise!Assign, Promise!Bind, Active
  <2> QED
    BY <1>3, <2>2, <2>4
<1> QED
  BY <1>4, <1>5

(* The values of the names after a step are values.                         *)
LEMMA ValuesAreValuesNext ==
    ASSUME ScopesInv', NEW s, s \in DOMAIN scopes', NEW x
    PROVE  ValueOf(s, x)' \in Value \cup {Unbound}
<1>1. CASE Slots(s, x)' = {}
  BY <1>1 DEF ValueOf
<1>2. CASE Slots(s, x)' # {}
  <2>1. scopes' \in Seq(Scope) /\ scopes'[s] \in Scope
    BY DEF ScopesInv, TypeOK
  <2>2. scopes'[s].vars \in Seq(Variable)
    BY <2>1 DEF Scope
  <2> DEFINE places == Slots(s, x)'
  <2>3. places \subseteq Nat /\ places \subseteq DOMAIN scopes'[s].vars
    BY <2>2 DEF Slots
  <2> HIDE DEF places
  <2>4. First(places) \in DOMAIN scopes'[s].vars
    BY <1>2, <2>3, FirstIsIn DEF places
  <2>5. scopes'[s].vars[First(places)] \in Variable
    BY <2>2, <2>4
  <2>6. scopes'[s].vars[First(places)].value \in Value
    BY <2>5 DEF Variable
  <2> QED
    BY <1>2, <2>6 DEF ValueOf, places
<1> QED
  BY <1>1, <1>2

(* A block, a loop, a call or a module enters a scope.                      *)
LEMMA OpeningImplements ==
    ASSUME ScopesInv, ScopesInv', Opening
    PROVE  Promise!Enter
<1>1. PICK parent \in DOMAIN scopes, params \in Seq(Variable), frame \in Frame :
         /\ SoundArray(params) /\ Open(parent, params)
         /\ stack' = Append(stack, frame)
         /\ frame.env = Len(scopes) + 1
  BY DEF Opening
<1> PICK new \in Nat : new = Len(scopes) + 1
  BY DEF ScopesInv, TypeOK
<1>2. /\ DOMAIN scopes = 1 .. new - 1 /\ DOMAIN scopes' = 1 .. new
      /\ Len(scopes') = new
      /\ \A s \in DOMAIN scopes : scopes'[s] = scopes[s]
      /\ scopes'[new].chain = <<new>> \o scopes[parent].chain
  <2>1. DOMAIN scopes = 1 .. Len(scopes) /\ DOMAIN scopes' = 1 .. Len(scopes')
    BY DEF ScopesInv, TypeOK
  <2>2. /\ Len(scopes') = new
        /\ \A s \in DOMAIN scopes : scopes'[s] = scopes[s]
        /\ scopes'[new].chain = <<new>> \o scopes[parent].chain
    BY <1>1, OpenKeepsShape
  <2> QED
    BY <2>1, <2>2
<1>3. Chains' = Append(Chains, <<new>> \o Chains[parent])
  <2>1. /\ Chains \in Seq(Seq(Nat)) /\ Len(Chains) = new - 1
        /\ \A s \in 1 .. new - 1 : Chains[s] = scopes[s].chain
    <3>1. Len(scopes) = new - 1
      BY DEF ScopesInv, TypeOK
    <3> QED
      BY <1>2, <3>1, ChainsAreSeq
  <2>2. /\ <<new>> \o Chains[parent] \in Seq(Nat)
        /\ <<new>> \o Chains[parent] = scopes'[new].chain
    <3>1. Chains[parent] \in Seq(Nat) /\ <<new>> \in Seq(Nat)
      BY <1>2, <2>1
    <3> QED
      BY <1>2, <2>1, <3>1, ConcatProperties
  <2> PICK c \in Seq(Nat) : c = <<new>> \o Chains[parent]
    BY <2>2
  <2>3. /\ Append(Chains, c) \in Seq(Seq(Nat)) /\ Len(Append(Chains, c)) = new
        /\ \A s \in 1 .. new - 1 : Append(Chains, c)[s] = Chains[s]
        /\ Append(Chains, c)[new] = c
    <3> DEFINE T == Seq(Nat)
    <3>1. Chains \in Seq(T) /\ c \in T
      BY <2>1
    <3> HIDE DEF T
    <3>2. /\ Append(Chains, c) \in Seq(T) /\ Len(Append(Chains, c)) = Len(Chains) + 1
          /\ \A s \in 1 .. Len(Chains) : Append(Chains, c)[s] = Chains[s]
          /\ Append(Chains, c)[Len(Chains) + 1] = c
      BY <3>1, AppendProperties
    <3>3. Len(Chains) = new - 1 /\ Len(Chains) + 1 = new
      BY <2>1
    <3> QED
      BY <3>2, <3>3 DEF T
  <2>4. Chains' = [s \in 1 .. new |-> scopes'[s].chain]
    BY <1>2 DEF Chains
  <2>5. \A s \in 1 .. new : scopes'[s].chain = Append(Chains, c)[s]
    <3>1. \A s \in 1 .. new - 1 : scopes'[s].chain = Append(Chains, c)[s]
      BY <1>2, <2>1, <2>3
    <3>2. \A s \in 1 .. new : s = new \/ s \in 1 .. new - 1
      OBVIOUS
    <3> QED
      BY <2>2, <2>3, <3>1, <3>2
  <2>6. Append(Chains, c) = [s \in 1 .. new |-> Append(Chains, c)[s]]
    BY <2>3
  <2> QED
    BY <2>4, <2>5, <2>6
<1>4. /\ Values'[new] \in [Name -> Value \cup {Unbound}]
      /\ Values' = Append(Values, Values'[new])
  <2>1. Values'[new] = [x \in Name |-> ValueOf(new, x)']
    BY <1>2 DEF Values
  <2>2. \A s \in DOMAIN scopes, x \in Name : ValueOf(s, x) \in Value \cup {Unbound}
    BY ValuesAreValues
  <2>3. \A x \in Name : ValueOf(new, x)' \in Value \cup {Unbound}
    BY <1>2, ValuesAreValuesNext
  <2> DEFINE B == [Name -> Value \cup {Unbound}]
             b == Values'[new]
  <2>4. b \in B
    BY <2>1, <2>3
  <2>5. /\ Values \in Seq(B) /\ Len(Values) = new - 1
    <3>1. \A s \in 1 .. new - 1 : Values[s] \in B
      BY <1>2, <2>2 DEF Values
    <3>2. Values = [s \in 1 .. new - 1 |-> Values[s]]
      BY <1>2 DEF Values
    <3>3. new - 1 \in Nat
      BY <1>2 DEF ScopesInv, TypeOK
    <3> HIDE DEF B, Values
    <3> QED
      BY <3>1, <3>2, <3>3, SeqOf1ToN
  <2>6. \A s \in 1 .. new - 1 : Values'[s] = Values[s]
    <3> SUFFICES ASSUME NEW s \in 1 .. new - 1 PROVE Values'[s] = Values[s]
      OBVIOUS
    <3>1. s \in DOMAIN scopes /\ s \in DOMAIN scopes' /\ scopes'[s] = scopes[s]
      BY <1>2
    <3>2. \A x \in Name : ValueOf(s, x)' = ValueOf(s, x)
      BY <3>1 DEF ValueOf, Slots
    <3> QED
      BY <3>1, <3>2 DEF Values
  <2>7. Values' = [s \in 1 .. new |-> Values'[s]]
    BY <1>2 DEF Values
  <2> PICK d \in B : d = b
    BY <2>4
  <2> HIDE DEF B, Values
  <2>8. /\ Append(Values, d) \in Seq(B) /\ Len(Append(Values, d)) = new
        /\ \A s \in 1 .. new - 1 : Append(Values, d)[s] = Values[s]
        /\ Append(Values, d)[new] = d
    BY <2>5, AppendProperties
  <2>9. \A s \in 1 .. new : Values'[s] = Append(Values, d)[s]
    <3>1. \A s \in 1 .. new : s = new \/ s \in 1 .. new - 1
      OBVIOUS
    <3> QED
      BY <2>6, <2>8, <3>1
  <2>10. Append(Values, d) = [s \in 1 .. new |-> Append(Values, d)[s]]
    BY <2>8
  <2>11. Values' = Append(Values, d)
    BY <2>7, <2>9, <2>10
  <2> QED
    BY <2>4, <2>11 DEF B
<1>5. Active' = Append(Active, new)
  <2> PICK n \in Nat : n = Len(stack)
    BY DEF ScopesInv, TypeOK
  <2>1. /\ stack \in Seq(Frame) /\ DOMAIN stack = 1 .. n
        /\ Active \in Seq(Nat) /\ Len(Active) = n /\ \A k \in 1 .. n : Active[k] = stack[k].env
    <3>1. stack \in Seq(Frame) /\ DOMAIN stack = 1 .. n
      BY DEF ScopesInv, TypeOK
    <3> QED
      BY <3>1, ActiveIsSeq
  <2>2. /\ Len(Append(stack, frame)) = n + 1 /\ DOMAIN Append(stack, frame) = 1 .. n + 1
        /\ \A k \in 1 .. n : Append(stack, frame)[k] = stack[k]
        /\ Append(stack, frame)[n + 1] = frame
    BY <2>1, AppendProperties
  <2>3. /\ Append(Active, new) \in Seq(Nat) /\ Len(Append(Active, new)) = n + 1
        /\ \A k \in 1 .. n : Append(Active, new)[k] = Active[k]
        /\ Append(Active, new)[n + 1] = new
    BY <2>1, AppendProperties
  <2>4. Active' = [k \in 1 .. n + 1 |-> stack'[k].env]
    BY <1>1, <2>2 DEF Active
  <2>5. \A k \in 1 .. n + 1 : stack'[k].env = Append(Active, new)[k]
    <3>1. \A k \in 1 .. n + 1 : k = n + 1 \/ k \in 1 .. n
      OBVIOUS
    <3> QED
      BY <1>1, <2>1, <2>2, <2>3, <3>1
  <2>6. Append(Active, new) = [k \in 1 .. n + 1 |-> Append(Active, new)[k]]
    BY <2>3
  <2> QED
    BY <2>4, <2>5, <2>6
<1>6. /\ Len(Chains) + 1 = new /\ parent \in DOMAIN Chains /\ Active # <<>>
  BY HereIsTop, ChainsAreSeq DEF Opening
<1>7. /\ Active # <<>>
      /\ \E s \in DOMAIN Chains : Chains' = Append(Chains, <<Len(Chains) + 1>> \o Chains[s])
      /\ \E b \in {Values'[Len(Chains) + 1]} :
            /\ b \in [Name -> Value \cup {Unbound}]
            /\ Values' = Append(Values, b)
      /\ Active' = Append(Active, Len(Chains) + 1)
  BY <1>3, <1>4, <1>5, <1>6
<1> QED
  BY <1>7 DEF Promise!Enter, Chains, Values, ValueOf, Active

(* Both begin with empty globals.                                           *)
LEMMA InitImplements == Init => Promise!Init
<1> SUFFICES ASSUME Init PROVE Promise!Init
  OBVIOUS
<1> DEFINE scope == [vars |-> <<>>, chain |-> <<1>>]
           frame == [kind |-> "program", env |-> 1, name |-> "", home |-> 1]
<1>1. /\ scope.vars = <<>> /\ scope.chain = <<1>> /\ frame.env = 1
      /\ scopes = <<scope>> /\ stack = <<frame>>
  BY DEF Init
<1> HIDE DEF scope, frame
<1>2. DOMAIN scopes = 1 .. 1 /\ scopes[1] = scope /\ DOMAIN stack = 1 .. 1 /\ stack[1] = frame
  BY <1>1
<1>3. Chains = << <<1>> >>
  <2>1. Chains = [s \in 1 .. 1 |-> <<1>>]
    BY <1>1, <1>2 DEF Chains
  <2> QED
    BY <2>1
<1>4. Active = <<1>>
  <2>1. Active = [k \in 1 .. 1 |-> 1]
    BY <1>1, <1>2 DEF Active
  <2> QED
    BY <2>1
<1>5. Values = <<[x \in Name |-> Unbound]>>
  <2>1. \A x \in Name : ValueOf(1, x) = Unbound
    BY <1>1, <1>2 DEF ValueOf, Slots
  <2>2. Values = [s \in 1 .. 1 |-> [x \in Name |-> Unbound]]
    BY <1>2, <2>1 DEF Values
  <2> QED
    BY <2>2
<1> QED
  BY <1>3, <1>4, <1>5 DEF Promise!Init, Chains, Values, ValueOf, Active

(* The arrays of variables that env.c searches from their first slot on,    *)
(* with duplicates, hidden names and a limit, behave as one partial         *)
(* function per scope, of which no step changes more than one value and     *)
(* none is ever lost: Scopes implements Bindings, step by step, whatever    *)
(* the program does.                                                        *)
THEOREM Refinement == Spec => ImplementsBindings
<1>1. ScopesInv /\ ScopesInv' /\ [Next]_vars => [Promise!Next]_(Promise!vars)
  <2> SUFFICES ASSUME ScopesInv, ScopesInv', [Next]_vars
               PROVE  Promise!Next \/ UNCHANGED Promise!vars
    OBVIOUS
  <2>1. UNCHANGED <<scopes, stack>> => UNCHANGED Promise!vars
    BY DEF Promise!vars, Slots
  <2> QED
    BY <2>1, Steps, WritingImplements, OpeningImplements, LeavingImplements DEF Promise!Next
<1> QED
  BY <1>1, InitImplements, ScopesAreWellFormed, PTL DEF Spec, ImplementsBindings, Promise!Spec
=============================================================================
