---------------------------- MODULE LoaderProofs ----------------------------
(***************************************************************************)
(* Theorems about the loading of modules, and about the registry of types  *)
(* while programs and modules are prepared, for any files, any paths and   *)
(* any limits.                                                             *)
(***************************************************************************)
EXTENDS Loader, CommonLemmas, FiniteSetTheorems, SequenceTheorems, TLAPS

-----------------------------------------------------------------------------
(* The inductive invariant.                                                 *)

FrameType == [prog : 0 .. Len(modules), loop : {"register", "attach", "run"},
              pc : Nat \ {0}, method : Nat]

(* The statement that a frame is at is an import of this path.              *)
StandsAtImport(frame, p) ==
    /\ frame.loop = "run" /\ frame.pc \in DOMAIN Text(frame.prog)
    /\ Text(frame.prog)[frame.pc].kind = "import"
    /\ Text(frame.prog)[frame.pc].name = p

(* Each activation but the first is about a module that is not ready, which *)
(* was entered later than those below, by the import the one below is at.   *)
Nested ==
    /\ \A k \in DOMAIN stack : stack[k].prog = 0 <=> k = 1
    /\ \A j, k \in DOMAIN stack : j < k => stack[j].prog < stack[k].prog
    /\ \A k \in DOMAIN stack : k > 1 => ~modules[stack[k].prog].env
    /\ \A k \in DOMAIN stack : k > 1 => StandsAtImport(stack[k - 1], modules[stack[k].prog].path)

(* A path that has been read is not read again.                             *)
ReadOnce ==
    /\ source[Main].status = "text"
    /\ \A i \in DOMAIN modules : source[modules[i].path] # Unread
    /\ \A i, j \in DOMAIN modules : modules[i].path = modules[j].path => i = j

Usable == \A b \in bound : modules[b[2]].env

(* Without an error, a module that is not ready is being loaded.            *)
Lives ==
    ~hadError =>
        \A i \in DOMAIN modules : modules[i].env \/ \E k \in DOMAIN stack : stack[k].prog = i

LoaderInv == TypeOK /\ Nested /\ ReadOnce /\ Usable /\ Lives

-----------------------------------------------------------------------------
(* The innermost activation and those below it.                             *)
LEMMA TopIsSound ==
    ASSUME TypeOK, stack # <<>>
    PROVE  /\ Len(stack) \in DOMAIN stack /\ DOMAIN stack = 1 .. Len(stack)
           /\ Len(stack) \in Nat \ {0}
           /\ Top \in FrameType /\ Top = stack[Len(stack)]
           /\ Below \in Seq(FrameType) /\ Len(Below) = Len(stack) - 1
           /\ \A k \in 1 .. Len(stack) - 1 : Below[k] = stack[k]
<1>1. stack \in Seq(FrameType) /\ Len(stack) \in Nat /\ Len(stack) >= 1
  BY DEF TypeOK, FrameType
<1>2. \A k \in 1 .. Len(stack) - 1 : stack[k] \in FrameType
  BY <1>1
<1> DEFINE n == Len(stack) - 1
<1>3. n \in Nat
  BY <1>1
<1> HIDE DEF n
<1>4. /\ SubSeq(stack, 1, n) \in Seq(FrameType) /\ Len(SubSeq(stack, 1, n)) = n
      /\ \A k \in 1 .. n : SubSeq(stack, 1, n)[k] = stack[k]
  <2>1. \A k \in 1 .. n : stack[k] \in FrameType
    BY <1>2 DEF n
  <2>2. 1 \in Int /\ n \in Int
    BY <1>3
  <2> QED
    BY <1>3, <2>1, <2>2, SubSeqProperties
<1> QED
  BY <1>1, <1>4 DEF Top, Below, n

(* Replacing the innermost activation.                                      *)
LEMMA GotoKeepsBelow ==
    ASSUME TypeOK, stack # <<>>, NEW frame \in FrameType, Goto(frame)
    PROVE  /\ stack' \in Seq(FrameType) /\ stack' # <<>>
           /\ Len(stack') = Len(stack) /\ DOMAIN stack' = DOMAIN stack
           /\ \A k \in DOMAIN stack : k # Len(stack) => stack'[k] = stack[k]
           /\ stack'[Len(stack)] = frame
<1>1. /\ Append(Below, frame) \in Seq(FrameType)
      /\ Len(Append(Below, frame)) = Len(Below) + 1
      /\ \A k \in 1 .. Len(Below) : Append(Below, frame)[k] = Below[k]
      /\ Append(Below, frame)[Len(Below) + 1] = frame
  BY TopIsSound, AppendProperties
<1>2. stack' = Append(Below, frame) /\ Below \in Seq(FrameType)
  BY TopIsSound DEF Goto
<1>3. Len(stack) \in Nat \ {0} /\ Len(Below) = Len(stack) - 1 /\ DOMAIN stack = 1 .. Len(stack)
  BY TopIsSound
<1>4. Len(stack') = Len(stack) /\ stack'[Len(stack)] = frame
  BY <1>1, <1>2, <1>3
<1>5. ASSUME NEW k \in DOMAIN stack, k # Len(stack) PROVE stack'[k] = stack[k]
  <2>1. k \in 1 .. Len(stack) - 1
    BY <1>3, <1>5
  <2>2. Below[k] = stack[k]
    BY <2>1, TopIsSound
  <2> QED
    BY <1>1, <1>2, <1>3, <2>1, <2>2
<1>6. DOMAIN stack' = DOMAIN stack
  BY <1>1, <1>2, <1>3, <1>4
<1> QED
  BY <1>1, <1>2, <1>4, <1>5, <1>6

(* The entries of the cache.                                                *)
LEMMA EntriesAreSound ==
    ASSUME TypeOK
    PROVE  /\ Len(modules) \in Nat /\ DOMAIN modules = 1 .. Len(modules)
           /\ \A i \in 1 .. Len(modules) : /\ modules[i] \in [path : Path, env : BOOLEAN]
                                            /\ modules[i].path \in Path
                                            /\ modules[i].env \in BOOLEAN
<1> DEFINE Entry == [path : Path, env : BOOLEAN]
<1>1. modules \in Seq(Entry)
  BY DEF TypeOK
<1>2. \A e \in Entry : e.path \in Path /\ e.env \in BOOLEAN
  OBVIOUS
<1> HIDE DEF Entry
<1>3. \A i \in 1 .. Len(modules) : modules[i] \in Entry
  BY <1>1
<1>4. Len(modules) \in Nat /\ DOMAIN modules = 1 .. Len(modules)
  BY <1>1
<1> QED
  BY <1>2, <1>3, <1>4 DEF Entry

(* Every file consists of statements.                                       *)
LEMMA TextsAreStatements ==
    ASSUME TypeOK, NEW i \in 0 .. Len(modules)
    PROVE  Text(i) \in Seq(Statements)
<1>1. ASSUME NEW c \in Contents \cup {Unread} PROVE c.text \in Seq(Statements)
  <2>1. c.text = <<>> \/ c.text \in Sources
    BY DEF Contents, Unread, File, NoText
  <2>2. <<>> \in Seq(Statements)
    OBVIOUS
  <2> QED
    BY <2>1, <2>2, SourceAssumption
<1>2. source \in [Path -> Contents \cup {Unread}]
  BY DEF TypeOK
<1>3. i # 0 => i \in 1 .. Len(modules)
  BY EntriesAreSound
<1>4. (IF i = 0 THEN Main ELSE modules[i].path) \in Path
  BY <1>3, EntriesAreSound, PathAssumption
<1> QED
  BY <1>1, <1>2, <1>4 DEF Text

(* What has been read stays as it is.                                       *)
LEMMA TextsStay ==
    ASSUME LoaderInv,
           source' = source \/ \E p \in Path : \E c : source[p] = Unread
                                                  /\ source' = [source EXCEPT ![p] = c],
           \A i \in DOMAIN modules : modules'[i].path = modules[i].path
    PROVE  \A i \in 0 .. Len(modules) : Text(i)' = Text(i)
<1>1. source[Main] # Unread
  BY DEF LoaderInv, ReadOnce, Unread
<1>2. /\ source \in [Path -> Contents \cup {Unread}]
      /\ \A i \in DOMAIN modules : source[modules[i].path] # Unread
  BY DEF LoaderInv, TypeOK, ReadOnce
<1>3. \A q \in Path : source[q] # Unread => source'[q] = source[q]
  BY <1>2
<1>4. \A i \in 1 .. Len(modules) : source'[modules[i].path] = source[modules[i].path]
  BY <1>2, <1>3, EntriesAreSound DEF LoaderInv
<1>5. source'[Main] = source[Main]
  BY <1>1, <1>3, PathAssumption
<1> QED
  BY <1>4, <1>5, EntriesAreSound DEF Text, LoaderInv

-----------------------------------------------------------------------------
(* What a step may do to the activations.                                   *)

RegistryTyped ==
    /\ structs \in Seq(StructType) /\ interfaces \in Seq(InterfaceType)
    /\ error \in LoadErrors \cup RuntimeErrors \cup {"none"}

(* The rest of the type invariant.                                          *)
LoadingTyped ==
    /\ source \in [Path -> Contents \cup {Unread}]
    /\ modules \in Seq([path : Path, env : BOOLEAN])
    /\ stack \in Seq(FrameType)
    /\ bound \subseteq (0 .. Len(modules)) \X (1 .. Len(modules))
    /\ scopes \subseteq 0 .. Len(modules)
    /\ skipping \in BOOLEAN

(* The type invariant is about the registry, and about the loading.         *)
LEMMA TypesSplit == TypeOK => RegistryTyped /\ LoadingTyped
BY DEF TypeOK, RegistryTyped, LoadingTyped, FrameType

(* And the two parts, of the next state, make the whole.                    *)
LEMMA TypesAssembled == RegistryTyped' /\ LoadingTyped' => TypeOK'
BY DEF TypeOK, RegistryTyped, LoadingTyped, FrameType

(* An activation is about a program, in one of its loops, at a statement.   *)
LEMMA FramesAreSound ==
    ASSUME TypeOK, NEW k \in DOMAIN stack
    PROVE  /\ stack[k] \in FrameType
           /\ stack[k].prog \in 0 .. Len(modules) /\ stack[k].loop \in {"register", "attach", "run"}
           /\ stack[k].pc \in Nat \ {0} /\ stack[k].method \in Nat
<1>1. stack[k] \in FrameType
  BY TypesSplit DEF LoadingTyped
<1> QED
  BY <1>1 DEF FrameType

(* The innermost activation goes on, and may bind an alias.                 *)
LEMMA TurnKeepsInv ==
    ASSUME LoaderInv, stack # <<>>, RegistryTyped', error' = error,
           NEW frame \in FrameType, frame.prog = Top.prog, Goto(frame),
           UNCHANGED <<source, modules>>, skipping' \in BOOLEAN \cup {skipping},
           scopes' \in {scopes, scopes \cup {Top.prog}},
           \/ bound' = bound
           \/ \E i \in DOMAIN modules : modules[i].env /\ bound' = bound \cup {<<Top.prog, i>>}
    PROVE  LoaderInv'
<1> USE DEF LoaderInv
<1>1. UNCHANGED <<source, modules>> /\ hadError' = hadError /\ skipping' \in BOOLEAN
  BY TypesSplit DEF hadError, LoadingTyped
<1>2. /\ stack' \in Seq(FrameType) /\ stack' # <<>>
      /\ Len(stack') = Len(stack) /\ DOMAIN stack' = DOMAIN stack
      /\ \A k \in DOMAIN stack : k # Len(stack) => stack'[k] = stack[k]
      /\ stack'[Len(stack)] = frame
      /\ Top \in FrameType /\ Top = stack[Len(stack)] /\ DOMAIN stack = 1 .. Len(stack)
      /\ Len(stack) \in Nat \ {0}
  BY GotoKeepsBelow, TopIsSound
<1>3. \A k \in DOMAIN stack : stack'[k].prog = stack[k].prog
  BY <1>2
<1>4. LoadingTyped'
  <2>1. FrameType' = FrameType
    BY <1>1 DEF FrameType
  <2>2. Top.prog \in 0 .. Len(modules)
    BY <1>2 DEF FrameType
  <2>3. scopes' \subseteq 0 .. Len(modules)
    BY <2>2, TypesSplit DEF LoadingTyped
  <2>4. bound' \subseteq (0 .. Len(modules)) \X (1 .. Len(modules))
    BY <2>2, TypesSplit, EntriesAreSound DEF LoadingTyped
  <2> QED
    BY <1>1, <1>2, <2>1, <2>3, <2>4, TypesSplit DEF LoadingTyped
<1>5. Nested'
  <2>1. \A i : Text(i)' = Text(i)
    BY <1>1 DEF Text
  <2>2. \A k \in DOMAIN stack : k > 1 => k - 1 \in DOMAIN stack /\ k - 1 # Len(stack)
    BY <1>2
  <2>3. \A k \in DOMAIN stack : k > 1 => stack'[k - 1] = stack[k - 1]
    BY <1>2, <2>2
  <2>4. \A k \in DOMAIN stack : k > 1 => StandsAtImport(stack[k - 1], modules[stack[k].prog].path)'
    BY <1>1, <1>3, <2>1, <2>3 DEF Nested, StandsAtImport
  <2> QED
    BY <1>1, <1>2, <1>3, <2>4 DEF Nested
<1>6. ReadOnce'
  BY <1>1 DEF ReadOnce
<1>7. Usable'
  BY <1>1 DEF Usable
<1>8. Lives'
  BY <1>1, <1>2, <1>3 DEF Lives
<1> QED
  BY <1>4, <1>5, <1>6, <1>7, <1>8, TypesAssembled

(* An error is reported, and nothing else changes.                          *)
LEMMA RefuseKeepsInv ==
    ASSUME LoaderInv, RegistryTyped', error' # "none",
           UNCHANGED <<source, modules, stack, bound, scopes, skipping>>
    PROVE  LoaderInv'
<1> USE DEF LoaderInv
<1>1. UNCHANGED <<source, modules, stack, bound, scopes, skipping>> /\ hadError'
  BY DEF hadError
<1>2. LoadingTyped'
  BY <1>1, TypesSplit DEF LoadingTyped, FrameType
<1>3. Nested'
  BY <1>1 DEF Nested, StandsAtImport, Text
<1>4. ReadOnce' /\ Usable' /\ Lives'
  BY <1>1 DEF ReadOnce, Usable, Lives
<1> QED
  BY <1>2, <1>3, <1>4, TypesAssembled

(* The innermost activation ends; those below it stay, but for the place    *)
(* that the new innermost one is at.                                        *)
LEMMA ReturnKeepsNesting ==
    ASSUME LoaderInv, stack # <<>>, Len(stack') = Len(stack) - 1, stack' \in Seq(FrameType),
           \A k \in DOMAIN stack' : stack'[k].prog = stack[k].prog,
           \A k \in DOMAIN stack' : k # Len(stack') => stack'[k] = stack[k],
           UNCHANGED source, Len(modules') = Len(modules),
           \A i \in DOMAIN modules : modules'[i].path = modules[i].path,
           \A i \in DOMAIN modules : i # Top.prog => modules'[i].env = modules[i].env
    PROVE  Nested'
<1> USE DEF LoaderInv
<1>1. /\ DOMAIN stack = 1 .. Len(stack) /\ DOMAIN stack' = 1 .. Len(stack) - 1
      /\ Len(stack) \in Nat \ {0} /\ Top = stack[Len(stack)]
  BY TopIsSound
<1>2. \A k \in DOMAIN stack' : k \in DOMAIN stack /\ k < Len(stack)
  BY <1>1
<1>3. \A k \in DOMAIN stack' : k > 1 => stack[k].prog \in DOMAIN modules /\ stack[k].prog # Top.prog
  <2> SUFFICES ASSUME NEW k \in DOMAIN stack', k > 1
               PROVE  stack[k].prog \in DOMAIN modules /\ stack[k].prog # Top.prog
    OBVIOUS
  <2>1. k \in DOMAIN stack /\ k # 1 /\ k < Len(stack) /\ Len(stack) \in DOMAIN stack
    BY <1>1, <1>2
  <2>3. stack[k].prog \in 0 .. Len(modules) /\ stack[Len(stack)].prog \in 0 .. Len(modules)
    BY <2>1, FramesAreSound
  <2>4. stack[k].prog # 0 /\ stack[k].prog < stack[Len(stack)].prog
    BY <2>1 DEF Nested
  <2> QED
    BY <1>1, <2>3, <2>4, EntriesAreSound
<1>4. \A i \in 0 .. Len(modules) : Text(i)' = Text(i)
  BY TextsStay
<1>5. ASSUME NEW k \in DOMAIN stack', k > 1
      PROVE  StandsAtImport(stack[k - 1], modules[stack[k].prog].path)'
  <2>1. k - 1 \in DOMAIN stack' /\ k - 1 # Len(stack')
    BY <1>1, <1>5
  <2>2. stack'[k - 1] = stack[k - 1] /\ stack'[k].prog = stack[k].prog
    BY <2>1
  <2>3. stack[k - 1].prog \in 0 .. Len(modules)
    BY <1>2, <2>1, FramesAreSound
  <2>4. Text(stack[k - 1].prog)' = Text(stack[k - 1].prog)
    BY <1>4, <2>2, <2>3 DEF Text
  <2>5. StandsAtImport(stack[k - 1], modules[stack[k].prog].path)
    BY <1>2, <1>5 DEF Nested
  <2> QED
    BY <1>3, <1>5, <2>2, <2>4, <2>5 DEF StandsAtImport
<1>6. \A k \in DOMAIN stack' : stack'[k].prog = 0 <=> k = 1
  BY <1>2 DEF Nested
<1>7. \A j, k \in DOMAIN stack' : j < k => stack'[j].prog < stack'[k].prog
  BY <1>2 DEF Nested
<1>8. \A k \in DOMAIN stack' : k > 1 => ~modules'[stack'[k].prog].env
  <2> SUFFICES ASSUME NEW k \in DOMAIN stack', k > 1
               PROVE  ~modules'[stack'[k].prog].env
    OBVIOUS
  <2>1. /\ stack'[k].prog = stack[k].prog
        /\ stack[k].prog \in DOMAIN modules /\ stack[k].prog # Top.prog
    BY <1>3
  <2>2. ~modules[stack[k].prog].env
    BY <1>2 DEF Nested
  <2> QED
    BY <2>1, <2>2
<1> QED
  BY <1>5, <1>6, <1>7, <1>8 DEF Nested

-----------------------------------------------------------------------------
(* The table of types keeps its types.                                      *)
LEMMA RefuseKeepsTypes ==
    ASSUME TypeOK, NEW message \in LoadErrors \cup RuntimeErrors, Refuse(message)
    PROVE  RegistryTyped' /\ error' # "none"
BY TypesSplit DEF RegistryTyped, Refuse, registry, LoadErrors, RuntimeErrors

(* A step that does not touch the table of types.                           *)
LEMMA SameRegistry ==
    ASSUME TypeOK, UNCHANGED <<registry, error>>
    PROVE  RegistryTyped'
BY TypesSplit DEF RegistryTyped, registry

(* A module is read: it is missing, or broken, or its loading begins.       *)
LEMMA ImportNewKeepsInv ==
    ASSUME LoaderInv, NEW p \in Path, ImportNew(p)
    PROVE  LoaderInv'
<1> USE DEF LoaderInv
<1> DEFINE n == Len(modules) + 1
           entry == [path |-> p, env |-> FALSE]
<1>1. /\ ~hadError /\ stack # <<>> /\ AtImport(p)
      /\ UNCHANGED <<bound, scopes, skipping>>
      /\ Cached(p) = {} /\ Read(p)
  BY DEF ImportNew, AtImport, Executes, At, In
<1>2. PICK c \in Contents \cup {Unread} : c # Unread /\ source' = [source EXCEPT ![p] = c]
  <2>1. \A c \in Contents : c # Unread
    BY DEF Contents, Unread, File
  <2>2. source[p] \in Contents \cup {Unread}
    BY TypesSplit DEF LoadingTyped
  <2> QED
    BY <1>1, <2>1, <2>2 DEF Read
<1>3. source[p] # Unread => source' = source
  BY <1>1, <1>2, TypesSplit DEF Read, LoadingTyped
<1>4. source' \in [Path -> Contents \cup {Unread}] /\ source'[p] = c
  BY <1>2, TypesSplit DEF LoadingTyped
<1>5. \A q \in Path : source[q] # Unread => source'[q] = source[q]
  BY <1>2, <1>3, TypesSplit DEF LoadingTyped
<1>6. source'[Main].status = "text"
  <2>1. source[Main] # Unread
    BY DEF ReadOnce, Unread
  <2> QED
    BY <1>5, <2>1, PathAssumption DEF ReadOnce
<1>7. CASE UNCHANGED <<modules, stack>> /\ error' # "none" /\ RegistryTyped'
  <2>1. LoadingTyped'
    BY <1>1, <1>4, <1>7, TypesSplit DEF LoadingTyped, FrameType
  <2>2. \A i \in 0 .. Len(modules) : Text(i)' = Text(i)
    BY <1>2, <1>3, <1>7, TextsStay
  <2>3. ReadOnce'
    BY <1>5, <1>6, <1>7, EntriesAreSound DEF ReadOnce
  <2>4. Nested'
    <3>1. ASSUME NEW k \in DOMAIN stack, k > 1
          PROVE  StandsAtImport(stack[k - 1], modules[stack[k].prog].path)'
      <4>1. k - 1 \in DOMAIN stack
        BY <1>1, <3>1, TopIsSound
      <4>2. Text(stack[k - 1].prog)' = Text(stack[k - 1].prog)
        BY <1>7, <2>2, <4>1, FramesAreSound DEF Text
      <4> QED
        BY <1>7, <3>1, <4>2 DEF StandsAtImport, Nested
    <3> QED
      BY <1>7, <3>1 DEF Nested
  <2>5. Usable' /\ Lives'
    BY <1>1, <1>7 DEF Usable, Lives, hadError
  <2> QED
    BY <1>7, <2>1, <2>3, <2>4, <2>5, TypesAssembled
<1>8. ASSUME Enter(p)
      PROVE  /\ Len(modules') = n /\ DOMAIN modules' = 1 .. n /\ n \in Nat
             /\ modules' \in Seq([path : Path, env : BOOLEAN])
             /\ \A i \in DOMAIN modules : modules'[i] = modules[i]
             /\ modules'[n].path = p /\ modules'[n].env = FALSE
             /\ DOMAIN modules = 1 .. Len(modules) /\ Len(modules) \in Nat
  <2> DEFINE Entry == [path : Path, env : BOOLEAN]
  <2>1. modules \in Seq(Entry) /\ entry \in Entry /\ entry.path = p /\ entry.env = FALSE
    BY TypesSplit DEF LoadingTyped
  <2>2. modules' = Append(modules, entry)
    BY <1>8 DEF Enter
  <2> HIDE DEF Entry, entry
  <2>3. /\ modules' \in Seq(Entry) /\ Len(modules') = n
        /\ \A i \in 1 .. Len(modules) : modules'[i] = modules[i]
        /\ modules'[n] = entry
    BY <2>1, <2>2, AppendProperties
  <2>4. DOMAIN modules' = 1 .. n /\ DOMAIN modules = 1 .. Len(modules) /\ Len(modules) \in Nat
    BY <2>1, <2>3
  <2> QED
    BY <2>1, <2>3, <2>4 DEF Entry
<1> HIDE DEF n, entry
<1>9. ASSUME Enter(p)
      PROVE  /\ ReadOnce' /\ Usable'
             /\ \A i \in 0 .. Len(modules) : Text(i)' = Text(i)
             /\ bound' \subseteq (0 .. n) \X (1 .. n)
             /\ scopes' \subseteq 0 .. n
             /\ 0 .. Len(modules) \subseteq 0 .. n /\ n \in 1 .. n
  <2>1. /\ n \in Nat /\ n = Len(modules) + 1 /\ Len(modules) \in Nat
        /\ 1 .. n = (1 .. Len(modules)) \cup {n}
        /\ 0 .. Len(modules) \subseteq 0 .. n /\ n \in 1 .. n
    BY <1>8, <1>9 DEF n
  <2>2. \A i \in 1 .. Len(modules) : modules[i].path # p /\ modules[i].path \in Path
    BY <1>1, <1>8, <1>9, EntriesAreSound DEF Cached
  <2>3. \A i \in 1 .. n : source'[modules'[i].path] # Unread
    BY <1>2, <1>4, <1>5, <1>8, <1>9, <2>1, <2>2 DEF ReadOnce
  <2>4. \A i, j \in 1 .. n : modules'[i].path = modules'[j].path => i = j
    <3>1. \A i \in 1 .. Len(modules) : modules'[i].path = modules[i].path
      BY <1>8, <1>9
    <3>2. \A i, j \in 1 .. Len(modules) : modules[i].path = modules[j].path => i = j
      BY <1>8, <1>9 DEF ReadOnce
    <3> QED
      BY <1>8, <1>9, <2>1, <2>2, <3>1, <3>2
  <2>5. ReadOnce'
    BY <1>6, <1>8, <1>9, <2>3, <2>4 DEF ReadOnce
  <2>6. bound \subseteq (0 .. Len(modules)) \X (1 .. Len(modules))
    BY TypesSplit DEF LoadingTyped
  <2>7. Usable'
    BY <1>1, <1>8, <1>9, <2>6 DEF Usable
  <2>8. \A i \in 0 .. Len(modules) : Text(i)' = Text(i)
    BY <1>2, <1>3, <1>8, <1>9, TextsStay
  <2>9. scopes' \subseteq 0 .. n /\ bound' \subseteq (0 .. n) \X (1 .. n)
    BY <1>1, <2>1, <2>6, TypesSplit DEF LoadingTyped
  <2> QED
    BY <2>1, <2>5, <2>7, <2>8, <2>9
<1>10. CASE Enter(p) /\ UNCHANGED stack /\ error' # "none" /\ RegistryTyped'
  <2>1. \A k \in DOMAIN stack : stack[k] \in FrameType'
    <3>1. \A k \in DOMAIN stack : stack[k] \in FrameType
      BY FramesAreSound
    <3> QED
      BY <1>8, <1>9, <1>10, <3>1 DEF FrameType
  <2>2. stack' \in Seq(FrameType')
    BY <1>10, <2>1, TypesSplit DEF LoadingTyped
  <2>3. LoadingTyped'
    BY <1>1, <1>4, <1>8, <1>9, <1>10, <2>2, TypesSplit DEF LoadingTyped
  <2>4. Nested'
    <3>1. \A k \in DOMAIN stack : stack[k].prog \in 0 .. Len(modules) /\ (k > 1 => stack[k].prog \in DOMAIN modules)
      BY <1>8, <1>10, FramesAreSound DEF Nested
    <3>2. ASSUME NEW k \in DOMAIN stack, k > 1
          PROVE  StandsAtImport(stack[k - 1], modules[stack[k].prog].path)'
      <4>1. k - 1 \in DOMAIN stack
        BY <1>1, <3>2, TopIsSound
      <4>2. Text(stack[k - 1].prog)' = Text(stack[k - 1].prog)
        BY <1>9, <1>10, <3>1, <4>1 DEF Text
      <4> QED
        BY <1>8, <1>10, <3>1, <3>2, <4>2 DEF StandsAtImport, Nested
    <3> QED
      BY <1>8, <1>10, <3>1, <3>2 DEF Nested
  <2>5. Lives'
    BY <1>1, <1>10 DEF Lives, hadError
  <2> QED
    BY <1>9, <1>10, <2>3, <2>4, <2>5, TypesAssembled
<1>11. CASE Enter(p) /\ stack' = Append(stack, Frame(n)) /\ UNCHANGED <<registry, error>>
  <2> DEFINE m == Len(stack) + 1
             frame == Frame(n)
  <2>1. /\ Len(stack) \in Nat \ {0} /\ m \in Nat /\ DOMAIN stack = 1 .. Len(stack)
        /\ Top = stack[Len(stack)] /\ Len(stack) \in DOMAIN stack
    BY <1>1, TopIsSound
  <2>2. frame \in FrameType' /\ frame.prog = n
    BY <1>8, <1>9, <1>11 DEF Frame, FrameType
  <2>3. \A k \in DOMAIN stack : stack[k] \in FrameType'
    <3>1. \A k \in DOMAIN stack : stack[k] \in FrameType
      BY FramesAreSound
    <3> QED
      BY <1>8, <1>9, <1>11, <3>1 DEF FrameType
  <2>4. stack \in Seq(FrameType')
    BY <2>3, TypesSplit DEF LoadingTyped
  <2> HIDE DEF frame
  <2>5. /\ stack' \in Seq(FrameType') /\ Len(stack') = m /\ DOMAIN stack' = 1 .. m
        /\ \A k \in DOMAIN stack : stack'[k] = stack[k]
        /\ stack'[m] = frame
    <3>1. stack' = Append(stack, frame)
      BY <1>11 DEF frame
    <3> QED
      BY <2>1, <2>2, <2>4, <3>1, AppendProperties
  <2>6. 1 .. m = (1 .. Len(stack)) \cup {m} /\ m > 1
    BY <2>1
  <2> HIDE DEF m
  <2>7. LoadingTyped'
    BY <1>1, <1>4, <1>8, <1>9, <1>11, <2>5, TypesSplit DEF LoadingTyped
  <2>8. RegistryTyped'
    BY <1>11, SameRegistry
  <2>9. \A k \in DOMAIN stack : /\ stack[k].prog \in 0 .. Len(modules) /\ stack[k].prog < n
                                /\ (k > 1 => stack[k].prog \in DOMAIN modules)
    BY <1>8, <1>11, FramesAreSound DEF Nested, n
  <2>10. StandsAtImport(Top, p)
    <3>1. /\ Text(Top.prog) \in Seq(Statements) /\ Top.pc \in Nat \ {0}
          /\ ~(Top.pc > Len(Text(Top.prog)))
      BY <1>1, <2>1, FramesAreSound, TextsAreStatements DEF AtImport, Executes, At, AtEnd
    <3>2. Top.pc \in DOMAIN Text(Top.prog)
      BY <3>1
    <3> QED
      BY <1>1, <3>2 DEF AtImport, Executes, At, In, Statement, StandsAtImport
  <2>11. Nested'
    <3>1. \A k \in 1 .. m : stack'[k].prog = 0 <=> k = 1
      <4>1. \A k \in 1 .. Len(stack) : stack'[k].prog = 0 <=> k = 1
        BY <2>1, <2>5 DEF Nested
      <4>2. stack'[m].prog # 0 /\ m # 1
        BY <1>8, <1>11, <2>1, <2>2, <2>5, <2>6 DEF n
      <4> QED
        BY <2>6, <4>1, <4>2
    <3>2. \A j, k \in 1 .. m : j < k => stack'[j].prog < stack'[k].prog
      <4>1. \A j, k \in 1 .. Len(stack) : j < k => stack'[j].prog < stack'[k].prog
        BY <2>1, <2>5 DEF Nested
      <4>2. \A j \in 1 .. Len(stack) : stack'[j].prog < stack'[m].prog
        BY <2>1, <2>2, <2>5, <2>9
      <4>3. \A k \in 1 .. Len(stack) : ~(m < k)
        BY <2>1 DEF m
      <4> QED
        BY <2>1, <2>6, <4>1, <4>2, <4>3 DEF m
    <3>3. \A k \in 1 .. m : k > 1 => ~modules'[stack'[k].prog].env
      <4>1. \A k \in 1 .. Len(stack) : k > 1 => ~modules'[stack'[k].prog].env
        BY <1>8, <1>11, <2>1, <2>5, <2>9 DEF Nested
      <4>2. ~modules'[stack'[m].prog].env
        BY <1>8, <1>11, <2>2, <2>5
      <4> QED
        BY <2>6, <4>1, <4>2
    <3>4. ASSUME NEW k \in 1 .. m, k > 1
          PROVE  StandsAtImport(stack[k - 1], modules[stack[k].prog].path)'
      <4>1. k - 1 \in DOMAIN stack /\ stack'[k - 1] = stack[k - 1]
        BY <2>1, <2>5, <3>4 DEF m
      <4>2. Text(stack[k - 1].prog)' = Text(stack[k - 1].prog)
        BY <1>9, <1>11, <2>9, <4>1, FramesAreSound DEF Text
      <4>3. StandsAtImport(stack[k - 1], modules'[stack'[k].prog].path)
        <5>1. CASE k \in DOMAIN stack
          BY <1>8, <1>11, <2>5, <2>9, <3>4, <5>1 DEF Nested
        <5>2. CASE k = m
          <6>1. k - 1 = Len(stack)
            BY <2>1, <5>2 DEF m
          <6> QED
            BY <1>8, <1>11, <2>1, <2>2, <2>5, <2>10, <5>2, <6>1
        <5> QED
          BY <2>1, <2>6, <5>1, <5>2
      <4> QED
        BY <4>1, <4>2, <4>3 DEF StandsAtImport
    <3> QED
      BY <2>5, <3>1, <3>2, <3>3, <3>4 DEF Nested
  <2>12. Lives'
    <3>1. \A i \in 1 .. n : modules'[i].env \/ \E k \in 1 .. m : stack'[k].prog = i
      <4>1. \A i \in DOMAIN modules : modules[i].env \/ \E k \in DOMAIN stack : stack[k].prog = i
        BY <1>1 DEF Lives
      <4>2. \A i \in DOMAIN modules : modules'[i].env \/ \E k \in 1 .. m : stack'[k].prog = i
        BY <1>8, <1>11, <2>1, <2>5, <2>6, <4>1
      <4>3. m \in 1 .. m /\ stack'[m].prog = n
        BY <2>1, <2>2, <2>5, <2>6
      <4>4. \A i \in 1 .. n : i \in DOMAIN modules \/ i = n
        BY <1>8, <1>11 DEF n
      <4> QED
        BY <4>2, <4>3, <4>4
    <3> QED
      BY <1>1, <1>8, <1>11, <2>5, <3>1 DEF Lives, hadError
  <2> QED
    BY <1>9, <1>11, <2>7, <2>8, <2>11, <2>12, TypesAssembled
<1>12. \A message \in RuntimeErrors : Refuse(message) => RegistryTyped' /\ error' # "none"
  BY RefuseKeepsTypes
<1> QED
  BY <1>7, <1>10, <1>11, <1>12 DEF ImportNew, RuntimeErrors, n

-----------------------------------------------------------------------------
(* An activation ends.                                                      *)

(* The activations below the innermost one.                                 *)
LEMMA BelowIsSound ==
    ASSUME LoaderInv, stack # <<>>, stack' = Below
    PROVE  /\ stack' \in Seq(FrameType) /\ Len(stack') = Len(stack) - 1
           /\ \A k \in DOMAIN stack' : k \in DOMAIN stack /\ stack'[k] = stack[k]
<1>1. /\ Below \in Seq(FrameType) /\ Len(Below) = Len(stack) - 1
      /\ \A k \in 1 .. Len(stack) - 1 : Below[k] = stack[k]
      /\ Len(stack) \in Nat \ {0} /\ DOMAIN stack = 1 .. Len(stack)
  BY TopIsSound DEF LoaderInv
<1> HIDE DEF Below
<1>2. DOMAIN Below = 1 .. Len(stack) - 1
  BY <1>1
<1> QED
  BY <1>1, <1>2

(* An activation returns and leaves the cache as it is: the main program,   *)
(* or one that an error ends.                                               *)
LEMMA ReturnKeepsInv ==
    ASSUME LoaderInv, stack # <<>>, stack' = Below, hadError \/ Top.prog = 0,
           UNCHANGED <<registry, error, source, modules, bound, scopes, skipping>>
    PROVE  LoaderInv'
<1> USE DEF LoaderInv
<1>1. UNCHANGED <<source, modules, bound, scopes, skipping>> /\ hadError' = hadError
  BY DEF hadError
<1>2. LoadingTyped'
  BY <1>1, BelowIsSound, TypesSplit DEF LoadingTyped, FrameType
<1>3. Nested'
  BY <1>1, BelowIsSound, ReturnKeepsNesting
<1>4. Lives'
  <2>1. CASE Top.prog = 0
    <3>1. \A k \in DOMAIN stack : stack[k].prog = 0
      <4>1. Len(stack) = 1 /\ DOMAIN stack = 1 .. Len(stack)
        BY <2>1, TopIsSound DEF Nested
      <4>2. \A k \in DOMAIN stack : k = 1
        BY <4>1
      <4> QED
        BY <4>1, <4>2 DEF Nested
    <3>2. 0 \notin DOMAIN modules
      BY EntriesAreSound
    <3> QED
      BY <1>1, <3>1, <3>2 DEF Lives
  <2>2. CASE hadError
    BY <1>1, <2>2 DEF Lives
  <2> QED
    BY <2>1, <2>2
<1>5. ReadOnce' /\ Usable'
  BY <1>1 DEF ReadOnce, Usable
<1> QED
  BY <1>2, <1>3, <1>4, <1>5, SameRegistry, TypesAssembled

(* A module has run to its end.                                             *)
LEMMA ModuleDoneKeepsInv ==
    ASSUME LoaderInv, ModuleDone
    PROVE  LoaderInv'
<1> USE DEF LoaderInv
<1> DEFINE n == Len(stack)
           caller == [stack[n - 1] EXCEPT !.pc = @ + 1]
<1>1. /\ ~hadError /\ stack # <<>> /\ Top.prog # 0
      /\ UNCHANGED <<registry, error, source, scopes>> /\ hadError' = hadError
      /\ skipping' \in {skipping, FALSE}
  BY DEF ModuleDone, EndOf, In, hadError
<1>2. /\ n \in Nat /\ n > 1 /\ DOMAIN stack = 1 .. n /\ Top = stack[n] /\ n \in DOMAIN stack
      /\ n - 1 \in DOMAIN stack
  <2>1. n \in Nat \ {0} /\ DOMAIN stack = 1 .. n /\ Top = stack[n] /\ n \in DOMAIN stack
    BY <1>1, TopIsSound
  <2>2. n # 1
    BY <1>1, <2>1 DEF Nested
  <2> QED
    BY <2>1, <2>2
<1>3. Top.prog \in DOMAIN modules /\ stack[n - 1].prog \in 0 .. Len(modules)
  <2>1. Top.prog \in 0 .. Len(modules) /\ stack[n - 1].prog \in 0 .. Len(modules)
    BY <1>2, FramesAreSound
  <2> QED
    BY <1>1, <2>1, EntriesAreSound
<1>4. /\ modules' \in Seq([path : Path, env : BOOLEAN]) /\ Len(modules') = Len(modules)
      /\ DOMAIN modules' = DOMAIN modules
      /\ \A i \in DOMAIN modules : modules'[i].path = modules[i].path
      /\ \A i \in DOMAIN modules : i # Top.prog => modules'[i].env = modules[i].env
      /\ modules'[Top.prog].env
  <2> DEFINE Entry == [path : Path, env : BOOLEAN]
             entry == [modules[Top.prog] EXCEPT !.env = TRUE]
  <2>1. /\ modules \in Seq(Entry) /\ entry \in Entry /\ entry.path = modules[Top.prog].path
        /\ entry.env = TRUE
    BY <1>3, EntriesAreSound, TypesSplit DEF LoadingTyped
  <2>2. modules' = [modules EXCEPT ![Top.prog] = entry]
    BY <1>3 DEF ModuleDone
  <2> HIDE DEF Entry, entry
  <2>3. /\ modules' \in Seq(Entry) /\ Len(modules') = Len(modules)
        /\ \A i \in 1 .. Len(modules) : modules'[i] = IF i = Top.prog THEN entry ELSE modules[i]
    BY <1>3, <2>1, <2>2, EntriesAreSound, ExceptSeq
  <2> QED
    BY <1>3, <2>1, <2>2, <2>3, EntriesAreSound DEF Entry
<1>5. caller \in FrameType /\ caller.prog = stack[n - 1].prog
  <2>1. stack[n - 1] \in FrameType
    BY <1>2, FramesAreSound
  <2> QED
    BY <2>1 DEF FrameType
<1>6. /\ stack' \in Seq(FrameType) /\ Len(stack') = n - 1 /\ DOMAIN stack' = 1 .. n - 1
      /\ \A k \in DOMAIN stack' : k # n - 1 => stack'[k] = stack[k]
      /\ stack'[n - 1] = caller
  <2>1. /\ Below \in Seq(FrameType) /\ Len(Below) = n - 1
        /\ \A k \in 1 .. n - 1 : Below[k] = stack[k]
    BY <1>1, TopIsSound
  <2>2. n - 1 \in 1 .. Len(Below) /\ Below[n - 1] = stack[n - 1]
    BY <1>2, <2>1
  <2> HIDE DEF Below, n
  <2>3. stack' = [Below EXCEPT ![n - 1] = caller]
    BY <2>1, <2>2 DEF ModuleDone, n
  <2> HIDE DEF caller
  <2> QED
    BY <1>2, <1>5, <2>1, <2>2, <2>3, ExceptSeq
<1> HIDE DEF n, caller
<1>7. \A k \in DOMAIN stack' : k \in DOMAIN stack /\ stack'[k].prog = stack[k].prog
  BY <1>2, <1>5, <1>6
<1>8. Nested'
  BY <1>1, <1>4, <1>6, <1>7, ReturnKeepsNesting DEF n
<1>9. bound' = bound \cup {<<stack[n - 1].prog, Top.prog>>}
  BY DEF ModuleDone, n
<1>10. LoadingTyped'
  <2>1. bound' \subseteq (0 .. Len(modules)) \X (1 .. Len(modules))
    BY <1>3, <1>9, TypesSplit, EntriesAreSound DEF LoadingTyped
  <2> QED
    BY <1>1, <1>4, <1>6, <2>1, TypesSplit DEF LoadingTyped, FrameType
<1>11. Usable'
  <2>1. \A b \in bound : b[2] \in DOMAIN modules
    BY TypesSplit, EntriesAreSound DEF LoadingTyped
  <2> QED
    BY <1>4, <1>9, <2>1 DEF Usable
<1>12. ReadOnce'
  BY <1>1, <1>4 DEF ReadOnce
<1>13. Lives'
  <2>1. ASSUME NEW i \in DOMAIN modules PROVE modules'[i].env \/ \E k \in DOMAIN stack' : stack'[k].prog = i
    <3>1. CASE i = Top.prog
      BY <1>4, <3>1
    <3>2. CASE i # Top.prog
      <4>1. modules[i].env \/ \E k \in DOMAIN stack : stack[k].prog = i
        BY <1>1 DEF Lives
      <4>2. \A k \in DOMAIN stack : k \in DOMAIN stack' \/ k = n
        BY <1>2, <1>6
      <4> QED
        BY <1>2, <1>4, <1>7, <3>2, <4>1, <4>2
    <3> QED
      BY <3>1, <3>2
  <2> QED
    BY <1>1, <1>4, <2>1 DEF Lives
<1> QED
  BY <1>1, <1>8, <1>10, <1>11, <1>12, <1>13, SameRegistry, TypesAssembled

-----------------------------------------------------------------------------
(* The table of types.                                                      *)

(* A search of a table finds what is there.                                 *)
LEMMA FindFinds ==
    ASSUME NEW T, NEW table \in Seq(T), NEW n, Known(table, n)
    PROVE  Find(table, n) \in DOMAIN table /\ table[Find(table, n)].name = n
<1>1. Entries(table, n) \subseteq Nat /\ Entries(table, n) # {}
  BY DEF Entries, Known
<1>2. Find(table, n) \in Entries(table, n)
  BY <1>1, LeastIsIn DEF Find
<1> QED
  BY <1>2 DEF Entries

(* A struct type changes into another one.                                  *)
LEMMA UpdateKeepsTypes ==
    ASSUME structs \in Seq(StructType), NEW i, NEW s,
           i \in DOMAIN structs => s \in StructType
    PROVE  [structs EXCEPT ![i] = s] \in Seq(StructType)
<1>1. CASE i \in DOMAIN structs
  BY <1>1, ExceptSeq
<1>2. CASE i \notin DOMAIN structs
  <2>1. [structs EXCEPT ![i] = s] = structs
    BY <1>2
  <2> QED
    BY <2>1
<1> QED
  BY <1>1, <1>2

(* What interpreter_prepare does with one statement.                        *)
Registers(s) ==
    \/ RegisterStruct(s) \/ RegisterInterface(s)
    \/ OpenImpl(s) \/ OpenImplement(s) \/ CloseBlock(s)
    \/ \E m \in STRING : AddMethod(s, m)
    \/ UNCHANGED <<registry, error>>

(* The table keeps its types, and either there is an error or there is not. *)
LEMMA RegistersKeepsTypes ==
    ASSUME TypeOK, NEW s \in Statements, Registers(s)
    PROVE  RegistryTyped' /\ (error' = error \/ error' # "none")
<1>1. /\ structs \in Seq(StructType) /\ interfaces \in Seq(InterfaceType)
      /\ error \in LoadErrors \cup RuntimeErrors \cup {"none"}
  BY TypesSplit DEF RegistryTyped
<1>2. s.name \in STRING /\ s.iface \in STRING /\ s.methods \in Seq(STRING)
  BY DEF Statements
<1>3. ASSUME NEW message \in LoadErrors, Refuse(message)
      PROVE  RegistryTyped' /\ error' # "none"
  BY <1>3, RefuseKeepsTypes
<1>4. ASSUME UNCHANGED <<interfaces, error>>, structs' \in Seq(StructType)
      PROVE  RegistryTyped' /\ error' = error
  BY <1>1, <1>4 DEF RegistryTyped
<1>5. CASE RegisterStruct(s)
  <2>1. NewStruct(s.name) \in StructType
    BY <1>2 DEF NewStruct, StructType
  <2>2. Append(structs, NewStruct(s.name)) \in Seq(StructType)
    BY <1>1, <2>1, AppendProperties
  <2> QED
    BY <1>3, <1>4, <1>5, <2>2 DEF RegisterStruct, LoadErrors
<1>6. CASE RegisterInterface(s)
  <2>1. [name |-> s.name, sigs |-> s.methods] \in InterfaceType
    BY <1>2 DEF InterfaceType
  <2>2. Append(interfaces, [name |-> s.name, sigs |-> s.methods]) \in Seq(InterfaceType)
    BY <1>1, <2>1, AppendProperties
  <2> QED
    BY <1>1, <1>3, <1>6, <2>2 DEF RegisterInterface, LoadErrors, RegistryTyped
<1> DEFINE i == Find(structs, s.name)
<1>7. \A e \in StructType, n \in STRING :
        /\ [e EXCEPT !.hasImpl = TRUE] \in StructType
        /\ [e EXCEPT !.methods = Append(e.methods, n)] \in StructType
        /\ [e EXCEPT !.ifaces = Append(e.ifaces, n)] \in StructType
  <2> SUFFICES ASSUME NEW e \in StructType, NEW n \in STRING
               PROVE  /\ [e EXCEPT !.hasImpl = TRUE] \in StructType
                      /\ [e EXCEPT !.methods = Append(e.methods, n)] \in StructType
                      /\ [e EXCEPT !.ifaces = Append(e.ifaces, n)] \in StructType
    OBVIOUS
  <2>1. e.methods \in Seq(STRING) /\ e.ifaces \in Seq(STRING)
    BY DEF StructType
  <2>2. Append(e.methods, n) \in Seq(STRING) /\ Append(e.ifaces, n) \in Seq(STRING)
    BY <2>1, AppendProperties
  <2> QED
    BY <2>2 DEF StructType
<1>8. i \in DOMAIN structs => structs[i] \in StructType
  BY <1>1
<1> HIDE DEF i
<1>9. CASE OpenImpl(s)
  <2>1. [structs EXCEPT ![i] = [structs[i] EXCEPT !.hasImpl = TRUE]] \in Seq(StructType)
    BY <1>1, <1>2, <1>7, <1>8, UpdateKeepsTypes
  <2>2. [structs EXCEPT ![i].hasImpl = TRUE] \in Seq(StructType)
    BY <2>1
  <2> QED
    BY <1>3, <1>4, <1>9, <2>2 DEF OpenImpl, LoadErrors, i
<1>10. CASE OpenImplement(s)
  <2>1. [structs EXCEPT ![i] = [structs[i] EXCEPT !.ifaces = Append(structs[i].ifaces, s.iface)]]
          \in Seq(StructType)
    BY <1>1, <1>2, <1>7, <1>8, UpdateKeepsTypes
  <2>2. [structs EXCEPT ![i].ifaces = Append(@, s.iface)] \in Seq(StructType)
    BY <2>1
  <2> QED
    BY <1>3, <1>4, <1>10, <2>2 DEF OpenImplement, LoadErrors, i
<1>11. ASSUME NEW m \in STRING, AddMethod(s, m)
       PROVE  RegistryTyped' /\ (error' = error \/ error' # "none")
  <2>1. [structs EXCEPT ![i] = [structs[i] EXCEPT !.methods = Append(structs[i].methods, m)]]
          \in Seq(StructType)
    BY <1>1, <1>7, <1>8, UpdateKeepsTypes
  <2>2. [structs EXCEPT ![i].methods = Append(@, m)] \in Seq(StructType)
    BY <2>1
  <2> QED
    BY <1>3, <1>4, <1>11, <2>2 DEF AddMethod, LoadErrors, i
<1>12. CASE CloseBlock(s) \/ UNCHANGED <<registry, error>>
  BY <1>3, <1>12, SameRegistry DEF CloseBlock, LoadErrors
<1> QED
  BY <1>5, <1>6, <1>9, <1>10, <1>11, <1>12 DEF Registers

(* The statement that a loop is at.                                         *)
LEMMA StatementIsSound ==
    ASSUME TypeOK, NEW loop, At(loop)
    PROVE  /\ ~hadError /\ stack # <<>> /\ Top \in FrameType
           /\ Top.pc \in DOMAIN Text(Top.prog) /\ Statement \in Statements
<1>1. ~hadError /\ stack # <<>> /\ Top \in FrameType
  BY TopIsSound DEF At, In
<1>2. Top.prog \in 0 .. Len(modules) /\ Top.pc \in Nat \ {0}
  BY <1>1 DEF FrameType
<1>3. Text(Top.prog) \in Seq(Statements)
  BY <1>2, TextsAreStatements
<1>4. Top.pc \in DOMAIN Text(Top.prog)
  BY <1>2, <1>3 DEF At, AtEnd
<1> QED
  BY <1>1, <1>3, <1>4 DEF Statement

(* Going on within a loop.                                                  *)
LEMMA FramesGoOn ==
    ASSUME NEW frame \in FrameType
    PROVE  /\ [frame EXCEPT !.pc = @ + 1] \in FrameType
           /\ [frame EXCEPT !.pc = @ + 1, !.method = 0] \in FrameType
           /\ [frame EXCEPT !.method = 1] \in FrameType
           /\ [frame EXCEPT !.method = @ + 1] \in FrameType
           /\ [frame EXCEPT !.loop = "attach", !.pc = 1] \in FrameType
           /\ [frame EXCEPT !.loop = "run", !.pc = 1] \in FrameType
<1>1. frame.pc + 1 \in Nat \ {0} /\ frame.method + 1 \in Nat
  BY DEF FrameType
<1>2. /\ [frame EXCEPT !.pc = @ + 1] \in FrameType
      /\ [frame EXCEPT !.method = @ + 1] \in FrameType
  BY <1>1 DEF FrameType
<1>3. [frame EXCEPT !.pc = @ + 1, !.method = 0] \in FrameType
  BY <1>1 DEF FrameType
<1>4. [frame EXCEPT !.method = 1] \in FrameType
  BY DEF FrameType
<1>5. \A l \in {"register", "attach", "run"}, n \in Nat \ {0} :
         [frame EXCEPT !.loop = l, !.pc = n] \in FrameType
  BY DEF FrameType
<1>6. 1 \in Nat \ {0}
  OBVIOUS
<1> QED
  BY <1>2, <1>3, <1>4, <1>5, <1>6

(* A step of interpreter_prepare on the statement it is at.                 *)
LEMMA RegistersKeepsInv ==
    ASSUME LoaderInv, NEW loop, At(loop), Registers(Statement),
           NEW frame \in FrameType, frame.prog = Top.prog, UnlessRefused(frame),
           UNCHANGED <<source, modules, bound, scopes, skipping>>
    PROVE  LoaderInv'
<1>1. /\ ~hadError /\ stack # <<>> /\ Top \in FrameType /\ Statement \in Statements
  BY StatementIsSound DEF LoaderInv
<1>2. RegistryTyped' /\ (error' = error \/ error' # "none")
  BY <1>1, RegistersKeepsTypes DEF LoaderInv
<1>3. CASE error' = error
  BY <1>1, <1>2, <1>3, TurnKeepsInv DEF UnlessRefused
<1>4. CASE error' # error
  BY <1>1, <1>2, <1>4, RefuseKeepsInv DEF UnlessRefused
<1> QED
  BY <1>3, <1>4

-----------------------------------------------------------------------------
(* The invariant holds when interpreter_run is called.                      *)
LEMMA InitHolds == Init => LoaderInv
<1> SUFFICES ASSUME Init PROVE LoaderInv
  OBVIOUS
<1> DEFINE frame == Frame(0)
<1>1. PICK text \in Sources : source = [p \in Path |-> IF p = Main THEN File(text) ELSE Unread]
  BY DEF Init
<1>2. /\ structs = <<>> /\ interfaces = <<>> /\ error = "none" /\ modules = <<>>
      /\ stack = <<frame>> /\ bound = {} /\ scopes = {0} /\ skipping = FALSE
  BY DEF Init
<1>3. source \in [Path -> Contents \cup {Unread}] /\ source[Main].status = "text"
  BY <1>1, PathAssumption DEF Contents, File
<1>4. Len(modules) = 0 /\ DOMAIN modules = {} /\ modules \in Seq([path : Path, env : BOOLEAN])
  BY <1>2
<1>5. frame \in FrameType /\ frame.prog = 0
  BY <1>4 DEF Frame, FrameType
<1> HIDE DEF frame
<1>6. stack \in Seq(FrameType) /\ DOMAIN stack = {1} /\ stack[1] = frame
  BY <1>2, <1>5
<1>7. LoadingTyped
  <2>1. skipping \in BOOLEAN
    BY <1>2
  <2>2. bound \subseteq (0 .. Len(modules)) \X (1 .. Len(modules)) /\ scopes \subseteq 0 .. Len(modules)
    BY <1>2, <1>4
  <2> QED
    BY <1>3, <1>4, <1>6, <2>1, <2>2 DEF LoadingTyped
<1>8. RegistryTyped
  BY <1>2 DEF RegistryTyped
<1>9. TypeOK
  BY <1>7, <1>8 DEF TypeOK, RegistryTyped, LoadingTyped, FrameType
<1>10. Nested
  BY <1>5, <1>6 DEF Nested
<1>11. ReadOnce /\ Usable /\ Lives
  BY <1>2, <1>3, <1>4 DEF ReadOnce, Usable, Lives
<1> QED
  BY <1>9, <1>10, <1>11 DEF LoaderInv

(* interpreter_prepare keeps the invariant.                                 *)
LEMMA PrepareKeepsInv == ASSUME LoaderInv, Prepare PROVE LoaderInv'
<1> USE DEF LoaderInv
<1>1. \A frame \in FrameType :
        /\ [frame EXCEPT !.pc = @ + 1].prog = frame.prog
        /\ [frame EXCEPT !.pc = @ + 1, !.method = 0].prog = frame.prog
        /\ [frame EXCEPT !.method = 1].prog = frame.prog
        /\ [frame EXCEPT !.method = @ + 1].prog = frame.prog
        /\ [frame EXCEPT !.loop = "attach", !.pc = 1].prog = frame.prog
        /\ [frame EXCEPT !.loop = "run", !.pc = 1].prog = frame.prog
  BY DEF FrameType
<1>2. CASE Register
  BY <1>1, <1>2, StatementIsSound, FramesGoOn, RegistersKeepsInv DEF Register, Registers
<1>3. CASE OpenBlock
  BY <1>1, <1>3, StatementIsSound, FramesGoOn, RegistersKeepsInv DEF OpenBlock, Registers
<1>4. CASE AttachMethod
  <2>1. Statement \in Statements /\ Top \in FrameType /\ At("attach")
    BY <1>4, StatementIsSound DEF AttachMethod
  <2>2. Statement.methods[Top.method] \in STRING
    BY <1>4, <2>1 DEF AttachMethod, Statements
  <2> QED
    BY <1>1, <1>4, <2>1, <2>2, FramesGoOn, RegistersKeepsInv DEF AttachMethod, Registers
<1>5. CASE BlockDone
  BY <1>1, <1>5, StatementIsSound, FramesGoOn, RegistersKeepsInv DEF BlockDone, Registers
<1>6. CASE NotABlock
  BY <1>1, <1>6, StatementIsSound, FramesGoOn, SameRegistry, TurnKeepsInv DEF NotABlock, NextStatement
<1>7. CASE RegisterDone \/ AttachDone
  BY <1>1, <1>7, TopIsSound, FramesGoOn, SameRegistry, TurnKeepsInv
     DEF RegisterDone, AttachDone, EndOf, In
<1> QED
  BY <1>2, <1>3, <1>4, <1>5, <1>6, <1>7 DEF Prepare

(* So do the statements of a file and load_module.                          *)
LEMMA RunKeepsInv == ASSUME LoaderInv, Run PROVE LoaderInv'
<1> USE DEF LoaderInv
<1>1. \A frame \in FrameType : [frame EXCEPT !.pc = @ + 1, !.method = 0].prog = frame.prog
  BY DEF FrameType
<1>2. \A message \in RuntimeErrors : Refuse(message) => RegistryTyped' /\ error' # "none"
  BY RefuseKeepsTypes
<1>3. CASE SkipDeclaration \/ Skip
  BY <1>1, <1>3, StatementIsSound, FramesGoOn, SameRegistry, TurnKeepsInv
     DEF SkipDeclaration, Skip, NextStatement
<1>4. CASE RunOther
  <2>1. CASE NextStatement /\ skipping' \in BOOLEAN /\ UNCHANGED <<registry, error>>
    BY <1>1, <1>4, <2>1, StatementIsSound, FramesGoOn, SameRegistry, TurnKeepsInv
       DEF RunOther, Executes, NextStatement
  <2>2. CASE Refuse("runtime error") /\ UNCHANGED <<stack, skipping>>
    BY <1>2, <1>4, <2>2, StatementIsSound, RefuseKeepsInv DEF RunOther, Executes, RuntimeErrors
  <2> QED
    BY <1>4, <2>1, <2>2 DEF RunOther
<1>5. ASSUME NEW p \in Path, ImportCached(p) PROVE LoaderInv'
  <2>1. Cached(p) \subseteq Nat /\ Cached(p) # {}
    BY <1>5, EntriesAreSound DEF Cached, ImportCached
  <2>2. EntryOf(p) \in Cached(p)
    BY <2>1, LeastIsIn DEF EntryOf
  <2>3. EntryOf(p) \in DOMAIN modules /\ modules[EntryOf(p)].env
    BY <1>5, <2>2 DEF Cached, ImportCached
  <2> QED
    BY <1>1, <1>5, <2>3, StatementIsSound, FramesGoOn, SameRegistry, TurnKeepsInv
       DEF ImportCached, AtImport, Executes, NextStatement
<1>6. ASSUME NEW p \in Path, ImportCircular(p) \/ ImportTooMany(p) PROVE LoaderInv'
  BY <1>2, <1>6, StatementIsSound, RefuseKeepsInv
     DEF ImportCircular, ImportTooMany, AtImport, Executes, RuntimeErrors, loading
<1>7. CASE ProgramDone
  <2>1. stack # <<>> /\ Top.prog = 0 /\ stack' = <<>>
    BY <1>7 DEF ProgramDone, EndOf, In
  <2>2. Below = <<>>
    <3>1. Len(stack) = 1
      BY <2>1, TopIsSound DEF Nested
    <3>2. Below \in Seq(FrameType) /\ Len(Below) = 0
      BY <2>1, <3>1, TopIsSound
    <3> HIDE DEF Below
    <3> QED
      BY <3>2, EmptySeq
  <2> QED
    BY <1>7, <2>1, <2>2, ReturnKeepsInv DEF ProgramDone
<1>8. CASE Unwind
  BY <1>8, ReturnKeepsInv DEF Unwind, Lives
<1> QED
  BY <1>3, <1>4, <1>5, <1>6, <1>7, <1>8, ModuleDoneKeepsInv, ImportNewKeepsInv DEF Run, Import

(* Every step keeps the invariant.                                          *)
LEMMA NextKeepsInv == LoaderInv /\ [Next]_vars => LoaderInv'
<1> SUFFICES ASSUME LoaderInv, [Next]_vars PROVE LoaderInv'
  OBVIOUS
<1>1. CASE UNCHANGED vars
  <2>1. UNCHANGED <<structs, interfaces, error, source, modules, stack, bound, scopes, skipping>>
    BY <1>1 DEF vars, registry, loading
  <2> QED
    BY <2>1 DEF LoaderInv, TypeOK, Nested, StandsAtImport, Text, ReadOnce, Usable, Lives, hadError
<1> QED
  BY <1>1, PrepareKeepsInv, RunKeepsInv DEF Next, Terminated

-----------------------------------------------------------------------------
(* The invariant, for any files, any paths and any limits.                  *)
THEOREM LoadingIsSound == Spec => []LoaderInv
BY InitHolds, NextKeepsInv, PTL DEF Spec

(* The interpreter's tables, cache and C stack have their types.            *)
THEOREM TypeCorrect == Spec => []TypeOK
<1>1. LoaderInv => TypeOK
  BY DEF LoaderInv
<1> QED
  BY <1>1, LoadingIsSound, PTL

(* A NULL entry of module_envs means that the module is being loaded, by an *)
(* activation of load_module: an import that finds one is circular.         *)
THEOREM LoadingIsOnTheStack == Spec => []LoadingIsTheStack
<1>1. LoaderInv => LoadingIsTheStack
  <2> SUFFICES ASSUME LoaderInv, ~hadError
               PROVE  LoadingIsTheStack
    BY DEF LoadingIsTheStack
  <2>1. /\ DOMAIN stack = 1 .. Len(stack) /\ Len(stack) \in Nat
        /\ \A k \in DOMAIN stack : stack[k].prog \in 0 .. Len(modules)
    <3>1. stack \in Seq(FrameType)
      BY TypesSplit DEF LoaderInv, LoadingTyped
    <3> QED
      BY <3>1, FramesAreSound DEF LoaderInv
  <2>2. {i \in DOMAIN modules : ~modules[i].env} = {stack[k].prog : k \in DOMAIN stack} \ {0}
    <3>1. \A k \in DOMAIN stack : stack[k].prog # 0 =>
             stack[k].prog \in DOMAIN modules /\ ~modules[stack[k].prog].env
      BY <2>1, EntriesAreSound DEF LoaderInv, Nested
    <3>2. \A i \in DOMAIN modules : i # 0
      BY EntriesAreSound DEF LoaderInv
    <3> QED
      BY <3>1, <3>2 DEF LoaderInv, Lives
  <2>3. ASSUME NEW k \in 2 .. Len(stack)
        PROVE  /\ stack[k - 1].prog < stack[k].prog
               /\ StandsAtImport(stack[k - 1], modules[stack[k].prog].path)
    <3>1. k \in DOMAIN stack /\ k - 1 \in DOMAIN stack /\ k - 1 < k /\ k > 1
      BY <2>1
    <3> QED
      BY <3>1 DEF LoaderInv, Nested
  <2>4. \A k \in DOMAIN stack : stack[k].prog = 0 <=> k = 1
    BY DEF LoaderInv, Nested
  <2> QED
    BY <2>2, <2>3, <2>4 DEF LoadingIsTheStack, StandsAtImport
<1> QED
  BY <1>1, LoadingIsSound, PTL

(* A file runs once: a path has one entry, hence one namespace, and an      *)
(* alias is only bound to a module with no statement left: all of them have *)
(* been executed, or skipped because of a signal at the file's top level.   *)
THEOREM FilesRunOnce == Spec => []NamespacesAreShared
<1>1. LoaderInv => NamespacesAreShared
  <2> SUFFICES ASSUME LoaderInv, NEW b \in bound
               PROVE  modules[b[2]].env /\ \A k \in DOMAIN stack : stack[k].prog # b[2]
    BY DEF NamespacesAreShared, LoaderInv, ReadOnce
  <2>1. modules[b[2]].env /\ b[2] # 0
    BY TypesSplit, EntriesAreSound DEF LoaderInv, Usable, LoadingTyped
  <2>2. ASSUME NEW k \in DOMAIN stack PROVE stack[k].prog # b[2]
    <3>1. CASE k = 1
      BY <2>1, <3>1 DEF LoaderInv, Nested
    <3>2. CASE k # 1
      <4>1. k > 1
        BY <3>2, TypesSplit DEF LoaderInv, LoadingTyped
      <4> QED
        BY <2>1, <4>1 DEF LoaderInv, Nested
    <3> QED
      BY <3>1, <3>2
  <2> QED
    BY <2>1, <2>2
<1> QED
  BY <1>1, LoadingIsSound, PTL

-----------------------------------------------------------------------------
(* Loading is nested: Loader implements NestedLoading.                      *)

Ready == {modules[i].path : i \in {i \in DOMAIN modules : modules[i].env}}

Stutter == PathsOf(stack)' = PathsOf(stack) /\ Ready' = Ready /\ hadError' = hadError

(* The promise does not see such a step.                                    *)
LEMMA StuttersAreAllowed == Stutter => UNCHANGED Promise!vars
BY DEF Stutter, Promise!vars, Ready

(* The paths of the modules being loaded, as a sequence.                    *)
LEMMA SeqOfPaths ==
    ASSUME NEW n \in Nat, NEW f, f = [k \in 1 .. n |-> f[k]], \A k \in 1 .. n : f[k] \in Path
    PROVE  f \in Seq(Path) /\ Len(f) = n
<1>1. f \in [1 .. n -> Path]
  OBVIOUS
<1>2. f \in Seq(Path)
  BY <1>1, SeqDef
<1> QED
  BY <1>1, <1>2

(* The modules that are being loaded.                                       *)
LEMMA PathsAreSound ==
    ASSUME LoaderInv, stack # <<>>
    PROVE  /\ PathsOf(stack) \in Seq(Path) /\ Len(PathsOf(stack)) = Len(stack) - 1
           /\ \A k \in 1 .. Len(stack) - 1 :
                 /\ PathsOf(stack)[k] = modules[stack[k + 1].prog].path
                 /\ stack[k + 1].prog \in DOMAIN modules /\ ~modules[stack[k + 1].prog].env
<1>1. Len(stack) - 1 \in Nat /\ DOMAIN stack = 1 .. Len(stack)
  BY TopIsSound DEF LoaderInv
<1>2. ASSUME NEW k \in 1 .. Len(stack) - 1
      PROVE  stack[k + 1].prog \in DOMAIN modules /\ ~modules[stack[k + 1].prog].env
  <2>1. k + 1 \in DOMAIN stack /\ k + 1 > 1 /\ k + 1 # 1
    BY <1>1
  <2> QED
    BY <2>1, FramesAreSound, EntriesAreSound DEF LoaderInv, Nested
<1>3. \A k \in 1 .. Len(stack) - 1 : PathsOf(stack)[k] = modules[stack[k + 1].prog].path
  BY DEF PathsOf
<1>4. \A k \in 1 .. Len(stack) - 1 : PathsOf(stack)[k] \in Path
  BY <1>2, <1>3, EntriesAreSound DEF LoaderInv
<1>5. PathsOf(stack) = [k \in 1 .. Len(stack) - 1 |-> PathsOf(stack)[k]]
  BY DEF PathsOf
<1> HIDE DEF PathsOf
<1> QED
  BY <1>1, <1>2, <1>3, <1>4, <1>5, SeqOfPaths

(* When the cache and the programs of the activations stay, nothing can be  *)
(* seen.                                                                    *)
LEMMA SamePaths ==
    ASSUME LoaderInv, Len(stack') = Len(stack),
           \A k \in DOMAIN stack : stack'[k].prog = stack[k].prog,
           \A i \in DOMAIN modules : modules'[i].path = modules[i].path
    PROVE  PathsOf(stack)' = PathsOf(stack)
<1>1. CASE stack = <<>>
  BY <1>1 DEF PathsOf
<1>2. CASE stack # <<>>
  <2>1. \A k \in 1 .. Len(stack) - 1 : k + 1 \in DOMAIN stack
    BY <1>2, TopIsSound DEF LoaderInv
  <2>2. \A k \in 1 .. Len(stack) - 1 :
           modules'[stack'[k + 1].prog].path = modules[stack[k + 1].prog].path
    BY <1>2, <2>1, PathsAreSound
  <2> QED
    BY <2>2 DEF PathsOf
<1> QED
  BY <1>1, <1>2

(* When an activation goes on, nothing can be seen.                         *)
LEMMA TurnStutters ==
    ASSUME LoaderInv, UNCHANGED <<error, modules>>, stack # <<>>,
           NEW frame \in FrameType, frame.prog = Top.prog, Goto(frame)
    PROVE  Stutter
<1>1. \A k \in DOMAIN stack : stack'[k].prog = stack[k].prog
  BY GotoKeepsBelow, TopIsSound DEF LoaderInv
<1>2. Len(stack') = Len(stack)
  BY GotoKeepsBelow DEF LoaderInv
<1> QED
  BY <1>1, <1>2, SamePaths DEF Stutter, Ready, hadError

(* An error that is reported is seen as a failure.                          *)
LEMMA RefuseFails ==
    ASSUME LoaderInv, ~hadError, error' # "none", UNCHANGED stack,
           \/ UNCHANGED modules
           \/ \E p \in Path : modules' = Append(modules, [path |-> p, env |-> FALSE])
    PROVE  Promise!Fail
<1>1. CASE UNCHANGED modules
  <2>1. PathsOf(stack)' = PathsOf(stack)
    BY <1>1, SamePaths
  <2> QED
    BY <1>1, <2>1 DEF Promise!Fail, hadError
<1>2. ASSUME NEW p \in Path, modules' = Append(modules, [path |-> p, env |-> FALSE])
      PROVE  Promise!Fail
  <2> DEFINE Entry == [path : Path, env : BOOLEAN]
             entry == [path |-> p, env |-> FALSE]
  <2>1. modules \in Seq(Entry) /\ entry \in Entry /\ entry.env = FALSE
    BY TypesSplit DEF LoaderInv, LoadingTyped
  <2> HIDE DEF Entry, entry
  <2>2. /\ DOMAIN modules' = DOMAIN modules \cup {Len(modules) + 1}
        /\ \A i \in DOMAIN modules : modules'[i] = modules[i]
        /\ modules'[Len(modules) + 1] = entry
    <3>1. /\ modules' \in Seq(Entry) /\ Len(modules') = Len(modules) + 1
          /\ \A i \in 1 .. Len(modules) : modules'[i] = modules[i]
          /\ modules'[Len(modules) + 1] = entry
      BY <1>2, <2>1, AppendProperties DEF entry
    <3> QED
      BY <2>1, <3>1
  <2>3. PathsOf(stack)' = PathsOf(stack)
    BY <2>2, SamePaths
  <2>4. Ready' = Ready
    BY <2>1, <2>2 DEF Ready
  <2> QED
    BY <2>3, <2>4 DEF Promise!Fail, Ready, hadError
<1> QED
  BY <1>1, <1>2

(* A step on the registry goes on, or reports an error.                     *)
LEMMA RegistersImplements ==
    ASSUME LoaderInv, NEW loop, At(loop), Registers(Statement),
           NEW frame \in FrameType, frame.prog = Top.prog, UnlessRefused(frame),
           UNCHANGED <<source, modules, bound, scopes, skipping>>
    PROVE  Stutter \/ Promise!Fail
<1>1. /\ ~hadError /\ stack # <<>> /\ Statement \in Statements
  BY StatementIsSound DEF LoaderInv
<1>2. error' = error \/ error' # "none"
  BY <1>1, RegistersKeepsTypes DEF LoaderInv
<1>3. CASE error' = error
  BY <1>1, <1>3, TurnStutters DEF UnlessRefused
<1>4. CASE error' # error
  BY <1>1, <1>2, <1>4, RefuseFails DEF UnlessRefused
<1> QED
  BY <1>3, <1>4

(* The loading of a module begins within that of its importer.              *)
LEMMA ImportNewImplements ==
    ASSUME LoaderInv, NEW p \in Path, ImportNew(p)
    PROVE  Promise!Begin \/ Promise!Fail
<1> DEFINE n == Len(modules) + 1
           entry == [path |-> p, env |-> FALSE]
           Entry == [path : Path, env : BOOLEAN]
<1>1. ~hadError /\ stack # <<>> /\ Cached(p) = {}
  BY DEF ImportNew, AtImport, Executes, At, In
<1>2. CASE Enter(p) /\ stack' = Append(stack, Frame(n)) /\ UNCHANGED error
  <2>1. /\ modules \in Seq(Entry) /\ entry \in Entry /\ entry.env = FALSE /\ entry.path = p
        /\ Frame(n).prog = n
    BY TypesSplit DEF LoaderInv, LoadingTyped, Frame
  <2> DEFINE frame == Frame(n)
             m == Len(stack)
  <2> HIDE DEF Entry, entry, frame
  <2>2. /\ DOMAIN modules' = DOMAIN modules \cup {n} /\ n \notin DOMAIN modules
        /\ \A i \in DOMAIN modules : modules'[i] = modules[i]
        /\ modules'[n] = entry
    <3>1. /\ modules' \in Seq(Entry) /\ Len(modules') = n
          /\ \A i \in 1 .. Len(modules) : modules'[i] = modules[i]
          /\ modules'[n] = entry
      BY <1>2, <2>1, AppendProperties DEF Enter, entry
    <3> QED
      BY <2>1, <3>1
  <2>3. /\ m \in Nat \ {0} /\ Len(stack') = m + 1 /\ DOMAIN stack = 1 .. m
        /\ \A k \in 1 .. m : stack'[k] = stack[k]
        /\ stack'[m + 1] = frame /\ frame.prog = n
    <3>1. stack \in Seq(FrameType \cup {frame}) /\ stack' = Append(stack, frame)
      BY <1>2, TypesSplit DEF LoaderInv, LoadingTyped, frame
    <3>2. m \in Nat \ {0} /\ DOMAIN stack = 1 .. m /\ frame.prog = n
      BY <1>1, <2>1, TopIsSound DEF LoaderInv, frame
    <3> QED
      BY <3>1, <3>2, AppendProperties
  <2> HIDE DEF n, m
  <2>4. /\ PathsOf(stack) \in Seq(Path) /\ Len(PathsOf(stack)) = m - 1
        /\ \A k \in 1 .. m - 1 : /\ PathsOf(stack)[k] = modules[stack[k + 1].prog].path
                                 /\ stack[k + 1].prog \in DOMAIN modules
    BY <1>1, PathsAreSound DEF m
  <2>5. p \notin Ready
    BY <1>1 DEF Ready, Cached
  <2>6. p \notin ToSet(PathsOf(stack))
    BY <1>1, <2>3, <2>4 DEF ToSet, Cached
  <2>7. PathsOf(stack)' = Append(PathsOf(stack), p)
    <3> DEFINE new == PathsOf(stack)'
               old == Append(PathsOf(stack), p)
    <3>1. /\ old \in Seq(Path) /\ Len(old) = m
          /\ \A k \in 1 .. m - 1 : old[k] = PathsOf(stack)[k]
          /\ old[m] = p
      BY <2>3, <2>4, AppendProperties
    <3>2. /\ new = [k \in 1 .. m |-> modules'[stack'[k + 1].prog].path]
          /\ \A k \in 1 .. m : new[k] = modules'[stack'[k + 1].prog].path
      BY <2>3 DEF PathsOf
    <3> HIDE DEF new, old
    <3>3. \A k \in 1 .. m : new[k] = old[k]
      <4>1. \A k \in 1 .. m - 1 : new[k] = old[k]
        BY <2>2, <2>3, <2>4, <3>1, <3>2
      <4>2. new[m] = old[m]
        BY <2>1, <2>2, <2>3, <3>1, <3>2
      <4>3. \A k \in 1 .. m : k \in 1 .. m - 1 \/ k = m
        BY <2>3
      <4> QED
        BY <4>1, <4>2, <4>3
    <3>4. \A k \in 1 .. m : old[k] \in Path
      BY <3>1
    <3>5. new \in Seq(Path) /\ Len(new) = m
      BY <2>3, <3>2, <3>3, <3>4, SeqOfPaths
    <3> QED
      BY <3>1, <3>3, <3>5, SeqEqual DEF new, old
  <2>8. Ready' = Ready
    BY <2>1, <2>2 DEF Ready
  <2> QED
    BY <1>1, <1>2, <2>5, <2>6, <2>7, <2>8 DEF Promise!Begin, Promise!ToSet, ToSet, Ready, hadError
<1>3. \A message \in RuntimeErrors : Refuse(message) => error' # "none"
  BY RefuseKeepsTypes DEF LoaderInv
<1>4. CASE Refuse("could not open") /\ UNCHANGED <<modules, stack>>
  BY <1>1, <1>3, <1>4, RefuseFails DEF RuntimeErrors
<1>5. CASE Enter(p) /\ Refuse("failed to parse") /\ UNCHANGED stack
  BY <1>1, <1>3, <1>5, RefuseFails DEF RuntimeErrors, Enter
<1> QED
  BY <1>2, <1>4, <1>5 DEF ImportNew, n

(* The innermost loading is over, in either way.                            *)
LEMMA ReturnShortens ==
    ASSUME LoaderInv, stack # <<>>, Len(stack') = Len(stack) - 1,
           \A k \in DOMAIN stack' : stack'[k].prog = stack[k].prog, stack' \in Seq(FrameType),
           \A i \in DOMAIN modules : modules'[i].path = modules[i].path
    PROVE  /\ Len(stack) > 1 => PathsOf(stack)' = SubSeq(PathsOf(stack), 1, Len(PathsOf(stack)) - 1)
                                /\ PathsOf(stack)[Len(PathsOf(stack))] = modules[Top.prog].path
                                /\ PathsOf(stack) # <<>>
           /\ Len(stack) = 1 => PathsOf(stack)' = PathsOf(stack)
<1> DEFINE n == Len(stack)
           old == PathsOf(stack)
           new == PathsOf(stack)'
<1>1. /\ n \in Nat \ {0} /\ DOMAIN stack' = 1 .. n - 1 /\ Top = stack[n]
  BY TopIsSound DEF LoaderInv
<1>2. /\ old \in Seq(Path) /\ Len(old) = n - 1
      /\ \A k \in 1 .. n - 1 : /\ old[k] = modules[stack[k + 1].prog].path
                               /\ stack[k + 1].prog \in DOMAIN modules
  BY PathsAreSound
<1>3. /\ new = [k \in 1 .. n - 2 |-> modules'[stack'[k + 1].prog].path]
      /\ \A k \in 1 .. n - 2 : new[k] = modules'[stack'[k + 1].prog].path
  <2>1. Len(stack') - 1 = n - 2
    BY <1>1
  <2> QED
    BY <2>1 DEF PathsOf
<1> HIDE DEF n, old, new
<1>4. ASSUME n > 1
      PROVE  new = SubSeq(old, 1, Len(old) - 1) /\ old[Len(old)] = modules[Top.prog].path /\ old # <<>>
  <2> DEFINE sub == SubSeq(old, 1, n - 2)
  <2>1. n - 2 \in Nat /\ n - 1 \in 1 .. n - 1 /\ (n - 1) + 1 = n
    BY <1>1, <1>4
  <2>2. /\ sub \in Seq(Path) /\ Len(sub) = n - 2 /\ \A k \in 1 .. n - 2 : sub[k] = old[k]
    <3>1. \A k \in 1 .. n - 2 : old[k] \in Path
      BY <1>1, <1>2
    <3>2. n - 2 \in Int /\ 1 \in Int
      BY <2>1
    <3> QED
      BY <2>1, <3>1, <3>2, SubSeqProperties
  <2>3. \A k \in 1 .. n - 2 : new[k] = sub[k]
    <3>1. \A k \in 1 .. n - 2 : k + 1 \in DOMAIN stack' /\ k \in 1 .. n - 1
      BY <1>1
    <3> QED
      BY <1>2, <1>3, <2>2, <3>1
  <2> HIDE DEF sub
  <2>4. \A k \in 1 .. n - 2 : sub[k] \in Path
    BY <2>2
  <2>5. new \in Seq(Path) /\ Len(new) = n - 2
    BY <1>3, <2>1, <2>3, <2>4, SeqOfPaths
  <2>6. new = sub
    BY <2>2, <2>3, <2>5, SeqEqual
  <2>7. Len(old) - 1 = n - 2
    BY <1>1, <1>2
  <2> QED
    BY <1>1, <1>2, <2>1, <2>6, <2>7 DEF sub
<1>5. ASSUME n = 1 PROVE new = old
  <2>1. new = [k \in {} |-> modules'[stack'[k + 1].prog].path]
    BY <1>3, <1>5
  <2>2. old = <<>>
    BY <1>2, <1>5
  <2> QED
    BY <2>1, <2>2
<1> QED
  BY <1>4, <1>5 DEF n, old, new

(* Every step of the loader is a step of the promise, or cannot be seen.    *)
LEMMA PrepareImplements == ASSUME LoaderInv, Prepare PROVE Stutter \/ Promise!Fail
<1> USE DEF LoaderInv
<1>1. \A frame \in FrameType :
        /\ [frame EXCEPT !.pc = @ + 1].prog = frame.prog
        /\ [frame EXCEPT !.pc = @ + 1, !.method = 0].prog = frame.prog
        /\ [frame EXCEPT !.method = 1].prog = frame.prog
        /\ [frame EXCEPT !.method = @ + 1].prog = frame.prog
        /\ [frame EXCEPT !.loop = "attach", !.pc = 1].prog = frame.prog
        /\ [frame EXCEPT !.loop = "run", !.pc = 1].prog = frame.prog
  BY DEF FrameType
<1>2. CASE Register
  BY <1>1, <1>2, StatementIsSound, FramesGoOn, RegistersImplements DEF Register, Registers
<1>3. CASE OpenBlock
  BY <1>1, <1>3, StatementIsSound, FramesGoOn, RegistersImplements DEF OpenBlock, Registers
<1>4. CASE AttachMethod
  <2>1. Statement \in Statements /\ Top \in FrameType /\ At("attach")
    BY <1>4, StatementIsSound DEF AttachMethod
  <2>2. Statement.methods[Top.method] \in STRING
    BY <1>4, <2>1 DEF AttachMethod, Statements
  <2> QED
    BY <1>1, <1>4, <2>1, <2>2, FramesGoOn, RegistersImplements DEF AttachMethod, Registers
<1>5. CASE BlockDone
  BY <1>1, <1>5, StatementIsSound, FramesGoOn, RegistersImplements DEF BlockDone, Registers
<1>6. CASE NotABlock
  BY <1>1, <1>6, StatementIsSound, FramesGoOn, TurnStutters DEF NotABlock, NextStatement
<1>7. CASE RegisterDone \/ AttachDone
  BY <1>1, <1>7, TopIsSound, FramesGoOn, TurnStutters DEF RegisterDone, AttachDone, EndOf, In
<1> QED
  BY <1>2, <1>3, <1>4, <1>5, <1>6, <1>7 DEF Prepare

(* After an error the innermost loading is abandoned.                       *)
LEMMA UnwindImplements == ASSUME LoaderInv, Unwind PROVE Stutter \/ Promise!Abandon
<1>1. /\ hadError /\ stack # <<>> /\ stack' = Below /\ UNCHANGED <<error, modules>>
      /\ Len(stack) \in Nat \ {0}
  BY TopIsSound DEF Unwind, LoaderInv
<1>2. /\ Len(stack) > 1 => PathsOf(stack)' = SubSeq(PathsOf(stack), 1, Len(PathsOf(stack)) - 1)
                            /\ PathsOf(stack) # <<>>
      /\ Len(stack) = 1 => PathsOf(stack)' = PathsOf(stack)
  BY <1>1, BelowIsSound, ReturnShortens
<1>3. CASE Len(stack) = 1
  BY <1>1, <1>2, <1>3 DEF Stutter, Ready, hadError
<1>4. CASE Len(stack) > 1
  BY <1>1, <1>2, <1>4 DEF Promise!Abandon, Ready, hadError
<1>5. Len(stack) = 1 \/ Len(stack) > 1
  <2>1. \A n \in Nat \ {0} : n = 1 \/ n > 1
    OBVIOUS
  <2>2. Len(stack) \in Nat \ {0}
    BY <1>1
  <2> QED
    BY <2>1, <2>2, Zenon
<1> QED
  BY <1>3, <1>4, <1>5

(* At the end of a module its loading is complete.                          *)
LEMMA ModuleDoneImplements == ASSUME LoaderInv, ModuleDone PROVE Promise!Complete
<1> USE DEF LoaderInv
<1> DEFINE n == Len(stack)
           caller == [stack[n - 1] EXCEPT !.pc = @ + 1]
<1>1. /\ ~hadError /\ stack # <<>> /\ Top.prog # 0 /\ UNCHANGED error
      /\ modules' = [modules EXCEPT ![Top.prog].env = TRUE]
  BY DEF ModuleDone, EndOf, In
<1>2. /\ n \in Nat /\ n > 1 /\ DOMAIN stack = 1 .. n /\ Top = stack[n]
      /\ n \in DOMAIN stack /\ n - 1 \in DOMAIN stack
  <2>1. n \in Nat \ {0} /\ DOMAIN stack = 1 .. n /\ Top = stack[n] /\ n \in DOMAIN stack
    BY <1>1, TopIsSound
  <2>2. n # 1
    BY <1>1, <2>1 DEF Nested
  <2> QED
    BY <2>1, <2>2
<1>3. Top.prog \in DOMAIN modules
  BY <1>1, <1>2, EntriesAreSound, FramesAreSound
<1>4. /\ DOMAIN modules' = DOMAIN modules
      /\ \A i \in DOMAIN modules : modules'[i].path = modules[i].path
      /\ \A i \in DOMAIN modules : i # Top.prog => modules'[i].env = modules[i].env
      /\ modules'[Top.prog].env
  <2> DEFINE entry == [modules[Top.prog] EXCEPT !.env = TRUE]
  <2>1. modules[Top.prog] \in [path : Path, env : BOOLEAN]
    BY <1>3, EntriesAreSound
  <2>2. entry.path = modules[Top.prog].path /\ entry.env = TRUE
    BY <2>1
  <2>3. modules' = [modules EXCEPT ![Top.prog] = entry]
    BY <1>1, <1>3
  <2> HIDE DEF entry
  <2> QED
    BY <1>3, <2>2, <2>3
<1>5. /\ stack' \in Seq(FrameType) /\ Len(stack') = n - 1 /\ DOMAIN stack' = 1 .. n - 1
      /\ \A k \in DOMAIN stack' : stack'[k].prog = stack[k].prog
  <2>1. /\ Below \in Seq(FrameType) /\ Len(Below) = n - 1
        /\ \A k \in 1 .. n - 1 : Below[k] = stack[k]
    BY <1>1, TopIsSound
  <2>2. n - 1 \in 1 .. Len(Below) /\ Below[n - 1] = stack[n - 1] /\ stack[n - 1] \in FrameType
    BY <1>2, <2>1, FramesAreSound
  <2>3. caller \in FrameType /\ caller.prog = stack[n - 1].prog
    BY <2>2 DEF FrameType
  <2> HIDE DEF Below, n
  <2>4. stack' = [Below EXCEPT ![n - 1] = caller]
    BY <2>1, <2>2 DEF ModuleDone, n
  <2> HIDE DEF caller
  <2> QED
    BY <1>2, <2>1, <2>2, <2>3, <2>4, ExceptSeq
<1>6. /\ PathsOf(stack)' = SubSeq(PathsOf(stack), 1, Len(PathsOf(stack)) - 1)
      /\ PathsOf(stack)[Len(PathsOf(stack))] = modules[Top.prog].path
      /\ PathsOf(stack) # <<>>
  BY <1>1, <1>2, <1>4, <1>5, ReturnShortens
<1>7. Ready' = Ready \cup {modules[Top.prog].path}
  BY <1>3, <1>4 DEF Ready
<1> QED
  BY <1>1, <1>6, <1>7 DEF Promise!Complete, Ready, hadError

(* The statements of a file, and load_module.                               *)
LEMMA RunImplements == ASSUME LoaderInv, Run PROVE Stutter \/ Promise!Next
<1> USE DEF LoaderInv
<1>1. \A frame \in FrameType : [frame EXCEPT !.pc = @ + 1, !.method = 0].prog = frame.prog
  BY DEF FrameType
<1>2. \A message \in RuntimeErrors : Refuse(message) => error' # "none"
  BY RefuseKeepsTypes
<1>3. CASE SkipDeclaration \/ Skip \/ (RunOther /\ NextStatement /\ UNCHANGED error)
        \/ \E p \in Path : ImportCached(p)
  BY <1>1, <1>3, StatementIsSound, FramesGoOn, TurnStutters
     DEF SkipDeclaration, Skip, RunOther, ImportCached, AtImport, Executes, NextStatement
<1>4. CASE (RunOther /\ Refuse("runtime error") /\ UNCHANGED <<stack, skipping>>)
        \/ \E p \in Path : ImportCircular(p) \/ ImportTooMany(p)
  BY <1>2, <1>4, StatementIsSound, RefuseFails
     DEF RunOther, ImportCircular, ImportTooMany, AtImport, Executes, RuntimeErrors, loading,
         Promise!Next
<1>5. CASE ProgramDone
  <2>1. stack # <<>> /\ Top.prog = 0 /\ stack' = <<>> /\ UNCHANGED <<error, modules>>
    BY <1>5 DEF ProgramDone, EndOf, In
  <2>2. Len(stack) = 1
    BY <2>1, TopIsSound DEF Nested
  <2>3. PathsOf(stack)' = PathsOf(stack)
    BY <2>1, <2>2, ReturnShortens
  <2> QED
    BY <2>1, <2>3 DEF Stutter, Ready, hadError
<1>6. CASE \E p \in Path : ImportNew(p)
  BY <1>6, ImportNewImplements DEF Promise!Next
<1>7. CASE ModuleDone \/ Unwind
  BY <1>7, ModuleDoneImplements, UnwindImplements DEF Promise!Next
<1> QED
  BY <1>3, <1>4, <1>5, <1>6, <1>7 DEF Run, Import, RunOther

(* Importing as the language promises it: a module is loaded at most once,  *)
(* within the loading of its importer, and used when it is complete; the    *)
(* cache, the NULL entries and the unwinding after an error implement this. *)
THEOREM Refinement == Spec => ImplementsNestedLoading
<1>1. Init => Promise!Init
  <2> SUFFICES ASSUME Init PROVE Promise!Init
    OBVIOUS
  <2>1. Len(stack) = 1 /\ modules = <<>> /\ ~hadError
    BY DEF Init, hadError
  <2>2. PathsOf(stack) = [k \in 1 .. 0 |-> modules[stack[k + 1].prog].path]
    BY <2>1 DEF PathsOf
  <2>3. PathsOf(stack) = <<>>
    BY <2>2
  <2> QED
    BY <2>1, <2>3 DEF Promise!Init
<1>2. LoaderInv /\ [Next]_vars => [Promise!Next]_(Promise!vars)
  <2> SUFFICES ASSUME LoaderInv, [Next]_vars PROVE Promise!Next \/ Stutter
    BY StuttersAreAllowed
  <2>1. CASE UNCHANGED vars
    <3>1. UNCHANGED <<error, modules, stack>>
      BY <2>1 DEF loading, vars
    <3> QED
      BY <3>1, SamePaths DEF Stutter, Ready, hadError
  <2> QED
    BY <2>1, PrepareImplements, RunImplements DEF Next, Terminated, Promise!Next
<1> QED
  BY <1>1, <1>2, LoadingIsSound, PTL DEF Spec, ImplementsNestedLoading, Promise!Spec
-----------------------------------------------------------------------------
(* The registry of types.                                                  *)

(* Where the statements of the files read so far are, as pairs of a program *)
(* and a place in its text; those that pass 1 has registered, those that    *)
(* pass 2 has attached, and the block that it is attaching.                 *)
Positions == UNION {{i} \X DOMAIN Text(i) : i \in 0 .. Len(modules)}
St(p) == Text(p[1])[p[2]]
Here == <<Top.prog, Top.pc>>

Busy(loop, i) == Top.loop = loop /\ Top.prog = i

Registered == {p \in Positions : Busy("register", p[1]) => p[2] < Top.pc}
Attached ==
    {p \in Positions : ~Busy("register", p[1]) /\ (Busy("attach", p[1]) => p[2] < Top.pc)}
Begun == Attached \cup (IF Top.method # 0 THEN {Here} ELSE {})

IsBlock(s) == s.kind \in {"impl", "implement"}

(* The registry has what pass 1 registered, and nothing else.               *)
DeclarationsAreKnown ==
    \A p \in Registered :
        /\ St(p).kind = "struct" => Known(structs, St(p).name)
        /\ St(p).kind = "interface" => Known(interfaces, St(p).name)

TypesAreDeclared ==
    /\ \A j \in DOMAIN structs :
          \E p \in Registered : St(p).kind = "struct" /\ St(p).name = structs[j].name
    /\ \A j \in DOMAIN interfaces :
          \E p \in Registered : /\ St(p).kind = "interface" /\ St(p).name = interfaces[j].name
                                /\ St(p).methods = interfaces[j].sigs

(* Every program has a scope, or is being prepared.                         *)
ProgramsArePrepared ==
    \A i \in 0 .. Len(modules) : i \in scopes \/ Busy("register", i) \/ Busy("attach", i)

(* A block that was begun belongs to a type, and implements an interface;   *)
(* the type has its methods, of the block being attached those so far.      *)
BlocksAreKnown ==
    \A p \in Begun : IsBlock(St(p)) =>
        /\ Known(structs, St(p).name)
        /\ St(p).kind = "implement" => Known(interfaces, St(p).iface)

InterfacesAreEntered ==
    \A p \in Begun : \A j \in DOMAIN structs :
        St(p).kind = "implement" /\ St(p).name = structs[j].name =>
            St(p).iface \in ToSet(structs[j].ifaces)

BlocksAreAttached ==
    \A p \in Attached : \A j \in DOMAIN structs :
        IsBlock(St(p)) /\ St(p).name = structs[j].name =>
            ToSet(St(p).methods) \subseteq ToSet(structs[j].methods)

PartIsAttached ==
    Top.method # 0 =>
        /\ Top.loop = "attach" /\ Here \in Positions /\ IsBlock(St(Here))
        /\ \A j \in DOMAIN structs : \A k \in DOMAIN St(Here).methods :
              St(Here).name = structs[j].name /\ k < Top.method =>
                  St(Here).methods[k] \in ToSet(structs[j].methods)

(* And what a type has, it has from such a block.                           *)
MethodsHaveBlocks ==
    \A j \in DOMAIN structs : \A m \in ToSet(structs[j].methods) :
        \E p \in Begun : /\ IsBlock(St(p)) /\ St(p).name = structs[j].name
                         /\ m \in ToSet(St(p).methods)

InterfacesHaveBlocks ==
    \A j \in DOMAIN structs : \A f \in ToSet(structs[j].ifaces) :
        \E p \in Begun : /\ St(p).kind = "implement" /\ St(p).name = structs[j].name
                         /\ St(p).iface = f

ImplsHaveBlocks ==
    \A j \in DOMAIN structs : structs[j].hasImpl =>
        \E p \in Begun : St(p).kind = "impl" /\ St(p).name = structs[j].name

NothingElseIsAttached == MethodsHaveBlocks /\ InterfacesHaveBlocks /\ ImplsHaveBlocks

(* The interfaces of finished blocks are satisfied.                         *)
Satisfied ==
    \A j \in DOMAIN structs : \A l \in DOMAIN interfaces :
        interfaces[l].name \in ToSet(structs[j].ifaces) =>
            \/ ToSet(interfaces[l].sigs) \subseteq ToSet(structs[j].methods)
            \/ /\ Top.method # 0 /\ St(Here).kind = "implement"
               /\ St(Here).name = structs[j].name /\ St(Here).iface = interfaces[l].name

Calm == ~hadError /\ stack # <<>>

DeclarationInv == DeclarationsAreKnown /\ TypesAreDeclared
BlockInv ==
    /\ BlocksAreKnown /\ InterfacesAreEntered /\ BlocksAreAttached /\ PartIsAttached
    /\ NothingElseIsAttached /\ Satisfied

(* Only an activation that attaches a block is at one of its methods.       *)
MethodsAreInBlocks == \A k \in DOMAIN stack : stack[k].method # 0 => stack[k].loop = "attach"

CalmInv == DeclarationInv /\ BlockInv /\ ProgramsArePrepared /\ MethodsAreInBlocks

RegistryInv == RegistryIsWellFormed /\ (Calm => CalmInv)

-----------------------------------------------------------------------------
(* Sequences as sets, and searches.                                         *)

(* What a sequence holds after an element was appended.                     *)
LEMMA ToSetAppend ==
    ASSUME NEW T, NEW q \in Seq(T), NEW x \in T
    PROVE  /\ ToSet(Append(q, x)) = ToSet(q) \cup {x}
           /\ Len(Append(q, x)) = Len(q) + 1
           /\ \A k \in DOMAIN q : k \in DOMAIN Append(q, x) /\ Append(q, x)[k] = q[k]
<1>1. /\ Append(q, x) \in Seq(T) /\ Len(Append(q, x)) = Len(q) + 1
      /\ \A k \in 1 .. Len(q) : Append(q, x)[k] = q[k]
      /\ Append(q, x)[Len(q) + 1] = x
  BY AppendProperties
<1>2. /\ DOMAIN Append(q, x) = 1 .. Len(q) + 1 /\ DOMAIN q = 1 .. Len(q) /\ Len(q) \in Nat
      /\ 1 .. Len(q) + 1 = 1 .. Len(q) \cup {Len(q) + 1}
  BY <1>1
<1> QED
  BY <1>1, <1>2 DEF ToSet

(* No element of a sequence is there twice, also after a new one came.      *)
LEMMA AppendKeepsDistinct ==
    ASSUME NEW T, NEW q \in Seq(T), NEW x \in T, ~Contains(q, x),
           \A k, l \in DOMAIN q : q[k] = q[l] => k = l
    PROVE  \A k, l \in DOMAIN Append(q, x) : Append(q, x)[k] = Append(q, x)[l] => k = l
<1>1. /\ Append(q, x) \in Seq(T) /\ Len(Append(q, x)) = Len(q) + 1
      /\ \A k \in 1 .. Len(q) : Append(q, x)[k] = q[k]
      /\ Append(q, x)[Len(q) + 1] = x
  BY AppendProperties
<1>2. /\ DOMAIN Append(q, x) = 1 .. Len(q) + 1 /\ DOMAIN q = 1 .. Len(q) /\ Len(q) \in Nat
      /\ 1 .. Len(q) + 1 = 1 .. Len(q) \cup {Len(q) + 1}
  BY <1>1
<1>3. \A k \in 1 .. Len(q) : q[k] # x
  BY DEF Contains
<1> QED
  BY <1>1, <1>2, <1>3

(* A search of a sequence finds what is in it.                              *)
LEMMA ContainsIsMembership ==
    ASSUME NEW T, NEW q \in Seq(T), NEW x
    PROVE  Contains(q, x) <=> x \in ToSet(q)
BY DEF Contains, ToSet

(* A name is known when an entry has it.                                    *)
LEMMA KnownNames ==
    ASSUME NEW table, NEW n
    PROVE  Known(table, n) <=> \E j \in DOMAIN table : table[j].name = n
BY DEF Known, Entries

-----------------------------------------------------------------------------
(* What pass 2 does to the type that a block belongs to.                    *)

(* The types but the i-th one stay, and that one keeps its name.            *)
OneTypeChanges(i) ==
    /\ i \in DOMAIN structs /\ i \in DOMAIN structs' /\ DOMAIN structs' = DOMAIN structs
    /\ Len(structs') = Len(structs)
    /\ \A j \in DOMAIN structs : j # i => structs'[j] = structs[j]
    /\ \A j \in DOMAIN structs : structs'[j].name = structs[j].name
    /\ interfaces' = interfaces

(* type_add_method appends a method that the type did not have.             *)
LEMMA MethodIsAdded ==
    ASSUME TypeOK, error = "none", error' = error, NEW s \in Statements, NEW m \in STRING,
           Known(structs, s.name), AddMethod(s, m)
    PROVE  \E i \in DOMAIN structs :
              /\ OneTypeChanges(i) /\ structs[i].name = s.name
              /\ structs'[i].ifaces = structs[i].ifaces /\ structs'[i].hasImpl = structs[i].hasImpl
              /\ structs[i].methods \in Seq(STRING)
              /\ structs'[i].methods = Append(structs[i].methods, m)
              /\ ~Contains(structs[i].methods, m) /\ Len(structs[i].methods) < MaxMethods
<1>1. structs \in Seq(StructType)
  BY TypesSplit DEF RegistryTyped
<1>2. PICK i : i = Find(structs, s.name)
  OBVIOUS
<1>3. i \in DOMAIN structs /\ structs[i].name = s.name
  BY <1>1, <1>2, FindFinds
<1>4. structs[i] \in StructType
  BY <1>1, <1>3
<1>5. /\ structs' = [structs EXCEPT ![i].methods = Append(@, m)] /\ interfaces' = interfaces
      /\ ~Contains(structs[i].methods, m) /\ Len(structs[i].methods) < MaxMethods
  BY <1>2 DEF AddMethod, Refuse
<1>6. PICK e : e = [structs[i] EXCEPT !.methods = Append(structs[i].methods, m)]
  OBVIOUS
<1>7. structs' = [structs EXCEPT ![i] = e]
  BY <1>5, <1>6
<1>8. /\ e.name = structs[i].name /\ e.ifaces = structs[i].ifaces /\ e.hasImpl = structs[i].hasImpl
      /\ e.methods = Append(structs[i].methods, m) /\ structs[i].methods \in Seq(STRING)
  BY <1>4, <1>6 DEF StructType
<1>9. /\ DOMAIN structs' = DOMAIN structs /\ Len(structs') = Len(structs) /\ structs'[i] = e
      /\ \A j \in DOMAIN structs : j # i => structs'[j] = structs[j]
  BY <1>1, <1>3, <1>7
<1> QED
  BY <1>3, <1>5, <1>8, <1>9 DEF OneTypeChanges

(* An impl block marks its type, which had none before.                     *)
LEMMA ImplIsOpened ==
    ASSUME TypeOK, error = "none", error' = error, NEW s \in Statements, OpenImpl(s)
    PROVE  \E i \in DOMAIN structs :
              /\ OneTypeChanges(i) /\ structs[i].name = s.name /\ ~structs[i].hasImpl
              /\ structs'[i].ifaces = structs[i].ifaces
              /\ structs'[i].methods = structs[i].methods
<1>1. structs \in Seq(StructType)
  BY TypesSplit DEF RegistryTyped
<1>2. PICK i : i = Find(structs, s.name)
  OBVIOUS
<1>3. /\ structs' = [structs EXCEPT ![i].hasImpl = TRUE] /\ interfaces' = interfaces
      /\ Known(structs, s.name) /\ ~structs[i].hasImpl
  BY <1>2 DEF OpenImpl, Refuse
<1>4. i \in DOMAIN structs /\ structs[i].name = s.name
  BY <1>1, <1>2, <1>3, FindFinds
<1>5. structs[i] \in StructType
  BY <1>1, <1>4
<1>6. PICK e : e = [structs[i] EXCEPT !.hasImpl = TRUE]
  OBVIOUS
<1>7. structs' = [structs EXCEPT ![i] = e]
  BY <1>3, <1>6
<1>8. e.name = structs[i].name /\ e.ifaces = structs[i].ifaces /\ e.methods = structs[i].methods
  BY <1>5, <1>6 DEF StructType
<1>9. /\ DOMAIN structs' = DOMAIN structs /\ Len(structs') = Len(structs) /\ structs'[i] = e
      /\ \A j \in DOMAIN structs : j # i => structs'[j] = structs[j]
  BY <1>1, <1>4, <1>7
<1> QED
  BY <1>3, <1>4, <1>8, <1>9 DEF OneTypeChanges

(* An implement block enters its interface, which the type did not have.    *)
LEMMA InterfaceIsEntered ==
    ASSUME TypeOK, error = "none", error' = error, NEW s \in Statements, OpenImplement(s)
    PROVE  \E i \in DOMAIN structs :
              /\ OneTypeChanges(i) /\ structs[i].name = s.name /\ Known(interfaces, s.iface)
              /\ structs'[i].methods = structs[i].methods
              /\ structs'[i].hasImpl = structs[i].hasImpl
              /\ structs[i].ifaces \in Seq(STRING)
              /\ structs'[i].ifaces = Append(structs[i].ifaces, s.iface)
              /\ ~Contains(structs[i].ifaces, s.iface) /\ Len(structs[i].ifaces) < MaxImplIfaces
<1>1. structs \in Seq(StructType)
  BY TypesSplit DEF RegistryTyped
<1>2. PICK i : i = Find(structs, s.name)
  OBVIOUS
<1>3. /\ structs' = [structs EXCEPT ![i].ifaces = Append(@, s.iface)] /\ interfaces' = interfaces
      /\ Known(structs, s.name) /\ Known(interfaces, s.iface)
      /\ ~Contains(structs[i].ifaces, s.iface) /\ ~(Len(structs[i].ifaces) >= MaxImplIfaces)
  BY <1>2 DEF OpenImplement, Refuse
<1>4. i \in DOMAIN structs /\ structs[i].name = s.name
  BY <1>1, <1>2, <1>3, FindFinds
<1>5. structs[i] \in StructType
  BY <1>1, <1>4
<1>6. PICK e : e = [structs[i] EXCEPT !.ifaces = Append(structs[i].ifaces, s.iface)]
  OBVIOUS
<1>7. structs' = [structs EXCEPT ![i] = e]
  BY <1>3, <1>6
<1>8. /\ e.name = structs[i].name /\ e.methods = structs[i].methods /\ e.hasImpl = structs[i].hasImpl
      /\ e.ifaces = Append(structs[i].ifaces, s.iface) /\ structs[i].ifaces \in Seq(STRING)
  BY <1>5, <1>6 DEF StructType
<1>9. /\ DOMAIN structs' = DOMAIN structs /\ Len(structs') = Len(structs) /\ structs'[i] = e
      /\ \A j \in DOMAIN structs : j # i => structs'[j] = structs[j]
  BY <1>1, <1>4, <1>7
<1>10. Len(structs[i].ifaces) < MaxImplIfaces
  BY <1>3, <1>8, LimitAssumption
<1> QED
  BY <1>3, <1>4, <1>8, <1>9, <1>10 DEF OneTypeChanges

(* Pass 1 enters a type that no declaration had before.                     *)
LEMMA StructIsAdded ==
    ASSUME TypeOK, error = "none", error' = error, NEW s \in Statements, RegisterStruct(s)
    PROVE  /\ interfaces' = interfaces /\ ~Known(structs, s.name) /\ Len(structs) < MaxStructs
           /\ Len(structs') = Len(structs) + 1
           /\ DOMAIN structs' = DOMAIN structs \cup {Len(structs) + 1}
           /\ Len(structs) + 1 \notin DOMAIN structs
           /\ \A j \in DOMAIN structs : structs'[j] = structs[j]
           /\ structs'[Len(structs) + 1] = NewStruct(s.name)
<1>1. structs \in Seq(StructType) /\ s.name \in STRING
  BY TypesSplit DEF RegistryTyped, Statements
<1>2. /\ structs' = Append(structs, NewStruct(s.name)) /\ interfaces' = interfaces
      /\ ~Known(structs, s.name) /\ Len(structs) < MaxStructs
  BY DEF RegisterStruct, Refuse
<1>3. NewStruct(s.name) \in StructType
  BY <1>1 DEF NewStruct, StructType
<1>4. PICK e \in StructType : e = NewStruct(s.name)
  BY <1>3
<1>5. /\ Append(structs, e) \in Seq(StructType) /\ Len(Append(structs, e)) = Len(structs) + 1
      /\ \A k \in 1 .. Len(structs) : Append(structs, e)[k] = structs[k]
      /\ Append(structs, e)[Len(structs) + 1] = e
  BY <1>1, AppendProperties
<1>6. /\ DOMAIN Append(structs, e) = 1 .. Len(structs) + 1 /\ DOMAIN structs = 1 .. Len(structs)
      /\ Len(structs) \in Nat
      /\ 1 .. Len(structs) + 1 = 1 .. Len(structs) \cup {Len(structs) + 1}
  BY <1>1, <1>5
<1> QED
  BY <1>2, <1>4, <1>5, <1>6

(* The same for an interface.                                               *)
LEMMA InterfaceIsAdded ==
    ASSUME TypeOK, error = "none", error' = error, NEW s \in Statements, RegisterInterface(s)
    PROVE  /\ structs' = structs /\ ~Known(interfaces, s.name) /\ Len(interfaces) < MaxInterfaces
           /\ Len(interfaces') = Len(interfaces) + 1
           /\ DOMAIN interfaces' = DOMAIN interfaces \cup {Len(interfaces) + 1}
           /\ Len(interfaces) + 1 \notin DOMAIN interfaces
           /\ \A j \in DOMAIN interfaces : interfaces'[j] = interfaces[j]
           /\ interfaces'[Len(interfaces) + 1].name = s.name
           /\ interfaces'[Len(interfaces) + 1].sigs = s.methods
<1>1. interfaces \in Seq(InterfaceType) /\ s.name \in STRING /\ s.methods \in Seq(STRING)
  BY TypesSplit DEF RegistryTyped, Statements
<1>2. PICK e : e = [name |-> s.name, sigs |-> s.methods]
  OBVIOUS
<1>3. /\ interfaces' = Append(interfaces, e) /\ structs' = structs
      /\ ~Known(interfaces, s.name) /\ Len(interfaces) < MaxInterfaces
  BY <1>2 DEF RegisterInterface, Refuse
<1>4. e \in InterfaceType /\ e.name = s.name /\ e.sigs = s.methods
  BY <1>1, <1>2 DEF InterfaceType
<1>5. /\ Append(interfaces, e) \in Seq(InterfaceType)
      /\ Len(Append(interfaces, e)) = Len(interfaces) + 1
      /\ \A k \in 1 .. Len(interfaces) : Append(interfaces, e)[k] = interfaces[k]
      /\ Append(interfaces, e)[Len(interfaces) + 1] = e
  BY <1>1, <1>4, AppendProperties
<1>6. /\ DOMAIN Append(interfaces, e) = 1 .. Len(interfaces) + 1
      /\ DOMAIN interfaces = 1 .. Len(interfaces) /\ Len(interfaces) \in Nat
      /\ 1 .. Len(interfaces) + 1 = 1 .. Len(interfaces) \cup {Len(interfaces) + 1}
  BY <1>1, <1>5
<1> QED
  BY <1>3, <1>4, <1>5, <1>6

-----------------------------------------------------------------------------
(* The tables stay well formed.                                             *)

(* One type of the registry.                                                *)
StructIsWellFormed(s) ==
    /\ Len(s.methods) <= MaxMethods /\ Len(s.ifaces) <= MaxImplIfaces
    /\ \A k, l \in DOMAIN s.methods : s.methods[k] = s.methods[l] => k = l
    /\ \A k, l \in DOMAIN s.ifaces : s.ifaces[k] = s.ifaces[l] => k = l

(* A change of one type, that leaves it well formed.                        *)
LEMMA OneTypeKeepsWellFormed ==
    ASSUME RegistryIsWellFormed, NEW i, OneTypeChanges(i), StructIsWellFormed(structs'[i])
    PROVE  RegistryIsWellFormed'
<1>1. /\ Len(structs) <= MaxStructs /\ Len(interfaces) <= MaxInterfaces
      /\ \A j, k \in DOMAIN structs : structs[j].name = structs[k].name => j = k
      /\ \A j, k \in DOMAIN interfaces : interfaces[j].name = interfaces[k].name => j = k
      /\ \A j \in DOMAIN structs : StructIsWellFormed(structs[j])
  BY DEF RegistryIsWellFormed, StructIsWellFormed
<1>2. /\ i \in DOMAIN structs /\ DOMAIN structs' = DOMAIN structs /\ Len(structs') = Len(structs)
      /\ \A j \in DOMAIN structs : j # i => structs'[j] = structs[j]
      /\ \A j \in DOMAIN structs : structs'[j].name = structs[j].name
      /\ interfaces' = interfaces
  BY DEF OneTypeChanges
<1>3. \A j \in DOMAIN structs' : StructIsWellFormed(structs'[j])
  BY <1>1, <1>2
<1>4. \A j, k \in DOMAIN structs' : structs'[j].name = structs'[k].name => j = k
  BY <1>1, <1>2
<1> QED
  BY <1>1, <1>2, <1>3, <1>4 DEF RegistryIsWellFormed, StructIsWellFormed

(* Whatever a declaration does, when it is not refused.                     *)
LEMMA RegistersKeepsWellFormed ==
    ASSUME TypeOK, RegistryIsWellFormed, error = "none", error' = error, NEW s \in Statements,
           \/ RegisterStruct(s) \/ RegisterInterface(s) \/ OpenImpl(s) \/ OpenImplement(s)
           \/ Known(structs, s.name) /\ \E m \in STRING : AddMethod(s, m)
           \/ UNCHANGED registry
    PROVE  RegistryIsWellFormed'
<1>0. /\ \A j, k \in DOMAIN structs : structs[j].name = structs[k].name => j = k
      /\ \A j, k \in DOMAIN interfaces : interfaces[j].name = interfaces[k].name => j = k
      /\ \A j \in DOMAIN structs : StructIsWellFormed(structs[j])
      /\ Len(structs) <= MaxStructs /\ Len(interfaces) <= MaxInterfaces
      /\ Len(structs) \in Nat /\ Len(interfaces) \in Nat
  BY TypesSplit DEF RegistryIsWellFormed, StructIsWellFormed, RegistryTyped
<1>1. CASE RegisterStruct(s)
  <2> DEFINE n == Len(structs) + 1
  <2>0. Len(structs') <= MaxStructs
    <3>1. Len(structs') = Len(structs) + 1 /\ Len(structs) < MaxStructs
      BY <1>1, StructIsAdded
    <3> QED
      BY <1>0, <3>1, LimitAssumption
  <2>1. /\ interfaces' = interfaces /\ ~Known(structs, s.name)
        /\ DOMAIN structs' = DOMAIN structs \cup {n}
        /\ \A j \in DOMAIN structs : structs'[j] = structs[j]
        /\ structs'[n] = NewStruct(s.name)
    BY <1>1, StructIsAdded
  <2> HIDE DEF n
  <2>2. StructIsWellFormed(NewStruct(s.name)) /\ NewStruct(s.name).name = s.name
    BY LimitAssumption DEF StructIsWellFormed, NewStruct
  <2>3. \A j \in DOMAIN structs : structs[j].name # s.name
    BY <2>1, KnownNames
  <2>4. \A j \in DOMAIN structs' : StructIsWellFormed(structs'[j])
    BY <1>0, <2>1, <2>2
  <2>5. \A j, k \in DOMAIN structs' : structs'[j].name = structs'[k].name => j = k
    BY <1>0, <2>1, <2>2, <2>3
  <2> QED
    BY <1>0, <2>0, <2>1, <2>4, <2>5 DEF RegistryIsWellFormed, StructIsWellFormed
<1>2. CASE RegisterInterface(s)
  <2> DEFINE n == Len(interfaces) + 1
  <2>0. Len(interfaces') <= MaxInterfaces
    <3>1. Len(interfaces') = Len(interfaces) + 1 /\ Len(interfaces) < MaxInterfaces
      BY <1>2, InterfaceIsAdded
    <3> QED
      BY <1>0, <3>1, LimitAssumption
  <2>1. /\ structs' = structs /\ ~Known(interfaces, s.name)
        /\ DOMAIN interfaces' = DOMAIN interfaces \cup {n}
        /\ \A j \in DOMAIN interfaces : interfaces'[j] = interfaces[j]
        /\ interfaces'[n].name = s.name
    BY <1>2, InterfaceIsAdded
  <2> HIDE DEF n
  <2>2. \A j \in DOMAIN interfaces : interfaces[j].name # s.name
    BY <2>1, KnownNames
  <2>3. \A j, k \in DOMAIN interfaces' : interfaces'[j].name = interfaces'[k].name => j = k
    BY <1>0, <2>1, <2>2
  <2> QED
    BY <1>0, <2>0, <2>1, <2>3 DEF RegistryIsWellFormed, StructIsWellFormed
<1>3. CASE OpenImpl(s)
  <2>1. PICK i \in DOMAIN structs : /\ OneTypeChanges(i)
                                    /\ structs'[i].ifaces = structs[i].ifaces
                                    /\ structs'[i].methods = structs[i].methods
    BY <1>3, ImplIsOpened
  <2>2. StructIsWellFormed(structs'[i])
    BY <1>0, <2>1 DEF StructIsWellFormed
  <2> QED
    BY <2>1, <2>2, OneTypeKeepsWellFormed
<1>4. CASE OpenImplement(s)
  <2>1. PICK i \in DOMAIN structs :
              /\ OneTypeChanges(i)
              /\ structs'[i].methods = structs[i].methods
              /\ structs[i].ifaces \in Seq(STRING)
              /\ structs'[i].ifaces = Append(structs[i].ifaces, s.iface)
              /\ ~Contains(structs[i].ifaces, s.iface) /\ Len(structs[i].ifaces) < MaxImplIfaces
    BY <1>4, InterfaceIsEntered
  <2>2. s.iface \in STRING /\ Len(structs[i].ifaces) \in Nat
    BY <2>1 DEF Statements
  <2>3. Len(Append(structs[i].ifaces, s.iface)) <= MaxImplIfaces
    BY <2>1, <2>2, ToSetAppend, LimitAssumption
  <2>4. \A k, l \in DOMAIN structs'[i].ifaces : structs'[i].ifaces[k] = structs'[i].ifaces[l] => k = l
    <3>1. \A k, l \in DOMAIN structs[i].ifaces : structs[i].ifaces[k] = structs[i].ifaces[l] => k = l
      BY <1>0, <2>1 DEF StructIsWellFormed
    <3>2. PICK q \in Seq(STRING) : q = structs[i].ifaces
      BY <2>1
    <3>3. PICK f \in STRING : f = s.iface
      BY <2>2
    <3>4. \A k, l \in DOMAIN Append(q, f) : Append(q, f)[k] = Append(q, f)[l] => k = l
      <4>1. ~Contains(q, f) /\ \A k, l \in DOMAIN q : q[k] = q[l] => k = l
        BY <2>1, <3>1, <3>2, <3>3
      <4> QED
        BY <4>1, AppendKeepsDistinct
    <3> QED
      BY <2>1, <3>2, <3>3, <3>4
  <2>5. StructIsWellFormed(structs'[i])
    BY <1>0, <2>1, <2>3, <2>4 DEF StructIsWellFormed
  <2> QED
    BY <2>1, <2>5, OneTypeKeepsWellFormed
<1>5. CASE Known(structs, s.name) /\ \E m \in STRING : AddMethod(s, m)
  <2>1. PICK m \in STRING : AddMethod(s, m)
    BY <1>5
  <2>2. PICK i \in DOMAIN structs :
              /\ OneTypeChanges(i)
              /\ structs'[i].ifaces = structs[i].ifaces
              /\ structs[i].methods \in Seq(STRING)
              /\ structs'[i].methods = Append(structs[i].methods, m)
              /\ ~Contains(structs[i].methods, m) /\ Len(structs[i].methods) < MaxMethods
    BY <1>5, <2>1, MethodIsAdded
  <2>3. Len(structs[i].methods) \in Nat
    BY <2>2
  <2>4. Len(Append(structs[i].methods, m)) <= MaxMethods
    BY <2>2, <2>3, ToSetAppend, LimitAssumption
  <2>5. \A k, l \in DOMAIN structs'[i].methods :
           structs'[i].methods[k] = structs'[i].methods[l] => k = l
    <3>1. \A k, l \in DOMAIN structs[i].methods :
             structs[i].methods[k] = structs[i].methods[l] => k = l
      BY <1>0, <2>2 DEF StructIsWellFormed
    <3>2. PICK q \in Seq(STRING) : q = structs[i].methods
      BY <2>2
    <3>3. \A k, l \in DOMAIN Append(q, m) : Append(q, m)[k] = Append(q, m)[l] => k = l
      BY <2>2, <3>1, <3>2, AppendKeepsDistinct
    <3> QED
      BY <2>2, <3>2, <3>3
  <2>6. StructIsWellFormed(structs'[i])
    BY <1>0, <2>2, <2>4, <2>5 DEF StructIsWellFormed
  <2> QED
    BY <2>2, <2>6, OneTypeKeepsWellFormed
<1>6. CASE UNCHANGED registry
  BY <1>6 DEF registry, RegistryIsWellFormed
<1> QED
  BY <1>1, <1>2, <1>3, <1>4, <1>5, <1>6

-----------------------------------------------------------------------------
(* How a step changes the places.                                           *)

(* A place is a program and a line of its text, with a statement.           *)
LEMMA PositionsAreSound ==
    ASSUME TypeOK
    PROVE  /\ \A p \in Positions : /\ p[1] \in 0 .. Len(modules) /\ p[2] \in DOMAIN Text(p[1])
                                   /\ p[2] \in Nat \ {0} /\ p = <<p[1], p[2]>>
                                   /\ St(p) \in Statements
           /\ \A i \in 0 .. Len(modules) : \A k \in DOMAIN Text(i) : <<i, k>> \in Positions
<1>1. \A i \in 0 .. Len(modules) :
         Text(i) \in Seq(Statements) /\ DOMAIN Text(i) \subseteq Nat \ {0}
  <2> TAKE i \in 0 .. Len(modules)
  <2>1. Text(i) \in Seq(Statements)
    BY TextsAreStatements
  <2> QED
    BY <2>1
<1>2. \A i \in 0 .. Len(modules) : \A k \in DOMAIN Text(i) : <<i, k>> \in Positions
  BY DEF Positions
<1>3. ASSUME NEW p \in Positions
      PROVE  /\ p[1] \in 0 .. Len(modules) /\ p[2] \in DOMAIN Text(p[1])
             /\ p = <<p[1], p[2]>>
  BY <1>3 DEF Positions
<1>4. ASSUME NEW p \in Positions PROVE p[2] \in Nat \ {0} /\ St(p) \in Statements
  <2>1. Text(p[1]) \in Seq(Statements) /\ p[2] \in DOMAIN Text(p[1]) /\ p[2] \in Nat \ {0}
    BY <1>1, <1>3
  <2> QED
    BY <2>1 DEF St
<1> QED
  BY <1>2, <1>3, <1>4

(* The statement that a loop is at has a place.                             *)
LEMMA HereIsAPosition ==
    ASSUME TypeOK, NEW loop, At(loop)
    PROVE  /\ Here \in Positions /\ St(Here) = Statement /\ Here[1] = Top.prog /\ Here[2] = Top.pc
           /\ Statement \in Statements /\ Top.prog \in 0 .. Len(modules) /\ Top.pc \in Nat \ {0}
           /\ Top \in FrameType /\ Top.loop = loop
<1>1. Top.pc \in DOMAIN Text(Top.prog) /\ Statement \in Statements /\ Top \in FrameType
  BY StatementIsSound
<1>2. Top.prog \in 0 .. Len(modules) /\ Top.pc \in Nat \ {0}
  BY <1>1 DEF FrameType
<1> QED
  BY <1>1, <1>2, PositionsAreSound DEF Here, St, Statement, At, In

(* Going on within a file.                                                  *)
LEMMA TurnKeepsPositions ==
    ASSUME TypeOK, stack # <<>>, NEW frame \in FrameType, Goto(frame), UNCHANGED <<source, modules>>
    PROVE  /\ Top' = frame /\ Positions' = Positions
           /\ \A p : St(p)' = St(p)
<1>1. stack' \in Seq(FrameType) /\ Len(stack') = Len(stack) /\ stack'[Len(stack)] = frame
  BY GotoKeepsBelow
<1>2. \A i : Text(i)' = Text(i)
  BY DEF Text
<1> QED
  BY <1>1, <1>2 DEF Top, Positions, St

(* The first pass registers the statement it is at.                         *)
LEMMA RegisterMovesOn ==
    ASSUME TypeOK, At("register"), NEW frame \in FrameType, Goto(frame),
           frame.prog = Top.prog, frame.loop = "register", frame.pc = Top.pc + 1,
           UNCHANGED <<source, modules>>
    PROVE  Registered' = Registered \cup {Here} /\ Attached' = Attached
<1>1. Top' = frame /\ Positions' = Positions /\ Top.loop = "register" /\ Here \in Positions
  BY TurnKeepsPositions, HereIsAPosition DEF At, In
<1>2. Here[1] = Top.prog /\ Here[2] = Top.pc /\ Top.pc \in Nat /\ Here = <<Top.prog, Top.pc>>
  BY HereIsAPosition DEF Here
<1>3. \A p \in Positions : p = <<p[1], p[2]>> /\ p[2] \in Nat
  BY PositionsAreSound
<1>4. \A k \in Nat : k < Top.pc + 1 <=> k < Top.pc \/ k = Top.pc
  BY <1>2
<1>5. Registered' = Registered \cup {Here}
  BY <1>1, <1>2, <1>3, <1>4 DEF Registered, Busy
<1>6. Attached' = Attached
  BY <1>1 DEF Attached, Busy
<1> QED
  BY <1>5, <1>6

(* The second pass attaches the statement it is at.                         *)
LEMMA AttachMovesOn ==
    ASSUME TypeOK, At("attach"), NEW frame \in FrameType, Goto(frame),
           frame.prog = Top.prog, frame.loop = "attach", frame.pc = Top.pc + 1,
           UNCHANGED <<source, modules>>
    PROVE  Registered' = Registered /\ Attached' = Attached \cup {Here}
<1>1. Top' = frame /\ Positions' = Positions /\ Top.loop = "attach" /\ Here \in Positions
  BY TurnKeepsPositions, HereIsAPosition DEF At, In
<1>2. Here[1] = Top.prog /\ Here[2] = Top.pc /\ Top.pc \in Nat /\ Here = <<Top.prog, Top.pc>>
  BY HereIsAPosition DEF Here
<1>3. \A p \in Positions : p = <<p[1], p[2]>> /\ p[2] \in Nat
  BY PositionsAreSound
<1>4. \A k \in Nat : k < Top.pc + 1 <=> k < Top.pc \/ k = Top.pc
  BY <1>2
<1>5. Attached' = Attached \cup {Here}
  BY <1>1, <1>2, <1>3, <1>4 DEF Attached, Busy
<1>6. Registered' = Registered
  BY <1>1 DEF Registered, Busy
<1> QED
  BY <1>5, <1>6

(* Nothing is registered or attached when a loop ends, or stays where it    *)
(* is, or when the statements run.                                          *)
LEMMA PlacesStay ==
    ASSUME TypeOK, stack # <<>>, NEW frame \in FrameType, Goto(frame), frame.prog = Top.prog,
           \/ Top.loop = "register" /\ AtEnd /\ frame.loop = "attach" /\ frame.pc = 1
           \/ Top.loop = "attach" /\ frame.loop = "attach" /\ frame.pc = Top.pc
           \/ Top.loop = "attach" /\ AtEnd /\ frame.loop = "run"
           \/ Top.loop = "run" /\ frame.loop = "run",
           UNCHANGED <<source, modules>>
    PROVE  Registered' = Registered /\ Attached' = Attached
<1>1. Top' = frame /\ Positions' = Positions
  BY TurnKeepsPositions
<1>2. AtEnd => \A p \in Positions : p[1] = Top.prog => p[2] < Top.pc
  <2>1. Top.prog \in 0 .. Len(modules) /\ Top.pc \in Nat
    BY TopIsSound DEF FrameType
  <2>2. Text(Top.prog) \in Seq(Statements)
    BY <2>1, TextsAreStatements
  <2>3. AtEnd => \A k \in DOMAIN Text(Top.prog) : k < Top.pc
    BY <2>1, <2>2 DEF AtEnd
  <2> QED
    BY <2>3, PositionsAreSound
<1>3. \A p \in Positions : p[2] \in Nat \ {0}
  BY PositionsAreSound
<1>4. \A p \in Positions : ~(p[2] < 1)
  BY <1>3
<1> QED
  BY <1>1, <1>2, <1>4 DEF Registered, Attached, Busy

-----------------------------------------------------------------------------
(* How the steps of pass 1 and pass 2 keep what the tables are about.       *)

(* What was registered, attached or begun has a place.                      *)
LEMMA PlacesArePositions ==
    /\ Registered \subseteq Positions /\ Attached \subseteq Positions
    /\ PartIsAttached => Begun \subseteq Positions
BY DEF Registered, Attached, Begun, PartIsAttached

(* What a type has keeps its origin when blocks are begun.                  *)
LEMMA OriginsStay ==
    ASSUME NothingElseIsAttached, structs' = structs, Begun \subseteq Begun',
           \A p \in Begun : St(p)' = St(p)
    PROVE  NothingElseIsAttached'
<1>1. MethodsHaveBlocks'
  <2> SUFFICES ASSUME NEW j \in DOMAIN structs, NEW m \in ToSet(structs[j].methods)
               PROVE  \E p \in Begun' : /\ IsBlock(St(p)') /\ St(p)'.name = structs[j].name
                                        /\ m \in ToSet(St(p)'.methods)
    BY DEF MethodsHaveBlocks, IsBlock
  <2>1. PICK p \in Begun : /\ IsBlock(St(p)) /\ St(p).name = structs[j].name
                           /\ m \in ToSet(St(p).methods)
    BY DEF NothingElseIsAttached, MethodsHaveBlocks
  <2>2. p \in Begun' /\ St(p)' = St(p)
    OBVIOUS
  <2> QED
    BY <2>1, <2>2
<1>2. InterfacesHaveBlocks'
  BY DEF NothingElseIsAttached, InterfacesHaveBlocks
<1>3. ImplsHaveBlocks'
  BY DEF NothingElseIsAttached, ImplsHaveBlocks
<1> QED
  BY <1>1, <1>2, <1>3 DEF NothingElseIsAttached

(* A step that registers and attaches nothing.                              *)
LEMMA QuietStep ==
    ASSUME DeclarationInv, BlockInv, UNCHANGED registry, Top.method = 0, Top'.method = 0,
           Registered' = Registered, Attached' = Attached, \A p \in Positions : St(p)' = St(p)
    PROVE  DeclarationInv' /\ BlockInv'
<1>1. UNCHANGED <<structs, interfaces>> /\ Begun = Attached /\ Begun' = Attached
  BY DEF registry, Begun
<1>2. /\ \A p \in Registered : St(p)' = St(p)
      /\ \A p \in Attached : St(p)' = St(p)
  BY PlacesArePositions
<1>3. DeclarationInv'
  BY <1>1, <1>2 DEF DeclarationInv, DeclarationsAreKnown, TypesAreDeclared
<1>4. /\ BlocksAreKnown /\ InterfacesAreEntered /\ BlocksAreAttached
      /\ NothingElseIsAttached /\ Satisfied
  BY DEF BlockInv
<1>5. BlocksAreKnown' /\ InterfacesAreEntered' /\ BlocksAreAttached'
  BY <1>1, <1>2, <1>4 DEF BlocksAreKnown, InterfacesAreEntered, BlocksAreAttached, IsBlock
<1>6. NothingElseIsAttached'
  BY <1>1, <1>2, <1>4, OriginsStay
<1>7. PartIsAttached' /\ Satisfied'
  BY <1>1, <1>4 DEF PartIsAttached, Satisfied
<1> QED
  BY <1>3, <1>5, <1>6, <1>7 DEF BlockInv

(* The second pass leaves a statement that is no block.                     *)
LEMMA PassingStep ==
    ASSUME DeclarationInv, BlockInv, UNCHANGED registry, Top.method = 0, Top'.method = 0,
           Registered' = Registered, Attached' = Attached \cup {Here}, ~IsBlock(St(Here)),
           Here \in Positions, \A p \in Positions : St(p)' = St(p)
    PROVE  DeclarationInv' /\ BlockInv'
<1>0. PICK h : h = Here
  OBVIOUS
<1>1. /\ UNCHANGED <<structs, interfaces>> /\ Begun = Attached
      /\ Begun' = Attached \cup {h} /\ Attached' = Attached \cup {h}
  BY <1>0 DEF registry, Begun
<1>2. /\ \A p \in Registered : St(p)' = St(p)
      /\ \A p \in Attached : St(p)' = St(p)
      /\ St(h)' = St(h) /\ ~IsBlock(St(h))
  BY <1>0, PlacesArePositions
<1>3. DeclarationInv'
  BY <1>1, <1>2 DEF DeclarationInv, DeclarationsAreKnown, TypesAreDeclared
<1>4. /\ BlocksAreKnown /\ InterfacesAreEntered /\ BlocksAreAttached
      /\ NothingElseIsAttached /\ Satisfied
  BY DEF BlockInv
<1>5. BlocksAreKnown' /\ InterfacesAreEntered' /\ BlocksAreAttached'
  BY <1>1, <1>2, <1>4 DEF BlocksAreKnown, InterfacesAreEntered, BlocksAreAttached, IsBlock
<1>6. NothingElseIsAttached'
  BY <1>1, <1>2, <1>4, OriginsStay
<1>7. PartIsAttached' /\ Satisfied'
  BY <1>1, <1>4 DEF PartIsAttached, Satisfied
<1> QED
  BY <1>3, <1>5, <1>6, <1>7 DEF BlockInv

(* A block has all of its methods, and conforms to its interface.           *)
LEMMA ClosingStep ==
    ASSUME TypeOK, RegistryIsWellFormed, DeclarationInv, BlockInv, UNCHANGED registry,
           Here \in Positions, IsBlock(St(Here)), Top'.method = 0,
           Top.method > Len(St(Here).methods), Top.method \in Nat, Conforms(St(Here)),
           Registered' = Registered, Attached' = Attached \cup {Here},
           \A p \in Positions : St(p)' = St(p)
    PROVE  DeclarationInv' /\ BlockInv'
<1>0. St(Here) \in Statements
  BY PositionsAreSound
<1>1. St(Here).methods \in Seq(STRING) /\ Len(St(Here).methods) \in Nat
  BY <1>0 DEF Statements
<1>2. UNCHANGED <<structs, interfaces>> /\ Begun' = Begun /\ Here \in Begun
  BY <1>1 DEF registry, Begun
<1>3. /\ \A p \in Registered : St(p)' = St(p)
      /\ \A p \in Begun : St(p)' = St(p)
      /\ \A p \in Attached : St(p)' = St(p)
  BY PlacesArePositions DEF BlockInv
<1>4. DeclarationInv'
  BY <1>2, <1>3 DEF DeclarationInv, DeclarationsAreKnown, TypesAreDeclared
<1>5. /\ BlocksAreKnown /\ InterfacesAreEntered /\ BlocksAreAttached /\ PartIsAttached
      /\ NothingElseIsAttached /\ Satisfied
  BY DEF BlockInv
<1>6. BlocksAreKnown' /\ InterfacesAreEntered'
  BY <1>2, <1>3, <1>5 DEF BlocksAreKnown, InterfacesAreEntered, IsBlock
<1>7. NothingElseIsAttached'
  BY <1>2, <1>3, <1>5, OriginsStay
<1>8. \A j \in DOMAIN structs : St(Here).name = structs[j].name =>
         ToSet(St(Here).methods) \subseteq ToSet(structs[j].methods)
  <2>1. Top.method # 0 /\ \A k \in DOMAIN St(Here).methods : k < Top.method
    BY <1>1
  <2>2. \A j \in DOMAIN structs : \A k \in DOMAIN St(Here).methods :
           St(Here).name = structs[j].name => St(Here).methods[k] \in ToSet(structs[j].methods)
    BY <1>5, <2>1 DEF PartIsAttached
  <2> QED
    BY <2>2 DEF ToSet
<1>9. BlocksAreAttached'
  <2>1. PICK h : h = Here
    OBVIOUS
  <2>2. Attached' = Attached \cup {h} /\ St(h)' = St(h)
    BY <2>1
  <2>3. \A j \in DOMAIN structs : St(h).name = structs[j].name =>
           ToSet(St(h).methods) \subseteq ToSet(structs[j].methods)
    BY <1>8, <2>1
  <2> QED
    BY <1>2, <1>3, <1>5, <2>2, <2>3 DEF BlocksAreAttached, IsBlock
<1>10. ASSUME St(Here).kind = "implement", NEW l \in DOMAIN interfaces,
              interfaces[l].name = St(Here).iface
       PROVE  ToSet(interfaces[l].sigs) \subseteq ToSet(St(Here).methods)
  <2>1. interfaces \in Seq(InterfaceType)
    BY TypesSplit DEF RegistryTyped
  <2>2. Known(interfaces, St(Here).iface)
    BY <1>10, KnownNames
  <2>3. PICK i : i = Find(interfaces, St(Here).iface)
    OBVIOUS
  <2>4. i \in DOMAIN interfaces /\ interfaces[i].name = St(Here).iface
    BY <2>1, <2>2, <2>3, FindFinds
  <2>5. i = l
    BY <1>10, <2>4 DEF RegistryIsWellFormed
  <2> QED
    BY <1>10, <2>3, <2>5 DEF Conforms
<1>11. Satisfied'
  BY <1>2, <1>5, <1>8, <1>10 DEF Satisfied
<1>12. PartIsAttached'
  BY DEF PartIsAttached
<1> QED
  BY <1>4, <1>6, <1>7, <1>9, <1>11, <1>12 DEF BlockInv

(* Pass 1 registers a struct: no block was attached to one of that name.    *)
LEMMA StructStep ==
    ASSUME TypeOK, error = "none", error' = error, DeclarationInv, BlockInv,
           NEW h \in Positions, St(h).kind = "struct", RegisterStruct(St(h)),
           Top.method = 0, Top'.method = 0, Registered' = Registered \cup {h},
           Attached' = Attached, \A p \in Positions : St(p)' = St(p)
    PROVE  DeclarationInv' /\ BlockInv'
<1>1. PICK s \in Statements : s = St(h)
  BY PositionsAreSound
<1> DEFINE n == Len(structs) + 1
<1>2. /\ interfaces' = interfaces /\ ~Known(structs, s.name)
      /\ DOMAIN structs' = DOMAIN structs \cup {n} /\ n \notin DOMAIN structs
      /\ \A j \in DOMAIN structs : structs'[j] = structs[j]
      /\ structs'[n] = NewStruct(s.name)
  BY <1>1, StructIsAdded
<1> HIDE DEF n
<1>3. /\ structs'[n].name = s.name /\ ~structs'[n].hasImpl
      /\ ToSet(structs'[n].methods) = {} /\ ToSet(structs'[n].ifaces) = {}
  BY <1>2 DEF NewStruct, ToSet
<1>4. Begun' = Begun /\ Begun = Attached
  BY DEF Begun
<1>5. /\ \A p \in Registered : St(p)' = St(p)
      /\ \A p \in Begun : St(p)' = St(p)
      /\ St(h)' = St(h) /\ s = St(h)
  BY <1>1, <1>4, PlacesArePositions
<1>6. /\ BlocksAreKnown /\ InterfacesAreEntered /\ BlocksAreAttached
      /\ NothingElseIsAttached /\ Satisfied
  BY DEF BlockInv
<1>7. \A m : Known(structs, m) => Known(structs, m)'
  BY <1>2 DEF Known, Entries
<1>8. Known(structs, s.name)' /\ \A m : Known(interfaces, m)' <=> Known(interfaces, m)
  BY <1>2, <1>3 DEF Known, Entries
<1>9. DeclarationsAreKnown'
  BY <1>1, <1>5, <1>7, <1>8 DEF DeclarationInv, DeclarationsAreKnown
<1>10. TypesAreDeclared'
  <2>1. \A j \in DOMAIN structs :
          \E p \in Registered' : St(p)'.kind = "struct" /\ St(p)'.name = structs[j].name
    BY <1>5 DEF DeclarationInv, TypesAreDeclared
  <2>2. St(h)'.kind = "struct" /\ St(h)'.name = structs'[n].name /\ h \in Registered'
    BY <1>1, <1>3, <1>5
  <2>3. \A j \in DOMAIN interfaces :
          \E p \in Registered' : /\ St(p)'.kind = "interface" /\ St(p)'.name = interfaces[j].name
                                 /\ St(p)'.methods = interfaces[j].sigs
    BY <1>5 DEF DeclarationInv, TypesAreDeclared
  <2> QED
    BY <1>2, <2>1, <2>2, <2>3 DEF TypesAreDeclared
<1>11. BlocksAreKnown'
  BY <1>4, <1>5, <1>6, <1>7, <1>8 DEF BlocksAreKnown, IsBlock
<1>12. \A p \in Begun : IsBlock(St(p)) => St(p).name # s.name
  BY <1>2, <1>6 DEF BlocksAreKnown
<1>13. InterfacesAreEntered'
  BY <1>2, <1>3, <1>4, <1>5, <1>6, <1>12 DEF InterfacesAreEntered, IsBlock
<1>14. BlocksAreAttached'
  BY <1>2, <1>3, <1>4, <1>5, <1>6, <1>12 DEF BlocksAreAttached, IsBlock
<1>15. MethodsHaveBlocks'
  BY <1>2, <1>3, <1>4, <1>5, <1>6 DEF NothingElseIsAttached, MethodsHaveBlocks, IsBlock
<1>16. InterfacesHaveBlocks' /\ ImplsHaveBlocks'
  BY <1>2, <1>3, <1>4, <1>5, <1>6 DEF NothingElseIsAttached, InterfacesHaveBlocks, ImplsHaveBlocks
<1>17. Satisfied' /\ PartIsAttached'
  BY <1>2, <1>3, <1>6 DEF Satisfied, PartIsAttached
<1> QED
  BY <1>9, <1>10, <1>11, <1>13, <1>14, <1>15, <1>16, <1>17
     DEF DeclarationInv, BlockInv, NothingElseIsAttached

(* Pass 1 registers an interface: no block implements one of that name.     *)
LEMMA InterfaceStep ==
    ASSUME TypeOK, error = "none", error' = error, DeclarationInv, BlockInv,
           NEW h \in Positions, St(h).kind = "interface", RegisterInterface(St(h)),
           Top.method = 0, Top'.method = 0, Registered' = Registered \cup {h},
           Attached' = Attached, \A p \in Positions : St(p)' = St(p)
    PROVE  DeclarationInv' /\ BlockInv'
<1>1. PICK s \in Statements : s = St(h)
  BY PositionsAreSound
<1> DEFINE n == Len(interfaces) + 1
<1>2. /\ structs' = structs /\ ~Known(interfaces, s.name)
      /\ DOMAIN interfaces' = DOMAIN interfaces \cup {n} /\ n \notin DOMAIN interfaces
      /\ \A j \in DOMAIN interfaces : interfaces'[j] = interfaces[j]
      /\ interfaces'[n].name = s.name /\ interfaces'[n].sigs = s.methods
  BY <1>1, InterfaceIsAdded
<1> HIDE DEF n
<1>3. Begun' = Begun /\ Begun = Attached
  BY DEF Begun
<1>4. /\ \A p \in Registered : St(p)' = St(p)
      /\ \A p \in Begun : St(p)' = St(p)
      /\ St(h)' = St(h) /\ s = St(h)
  BY <1>1, <1>3, PlacesArePositions
<1>5. /\ BlocksAreKnown /\ InterfacesAreEntered /\ BlocksAreAttached
      /\ NothingElseIsAttached /\ Satisfied
  BY DEF BlockInv
<1>6. \A m : Known(interfaces, m) => Known(interfaces, m)'
  BY <1>2 DEF Known, Entries
<1>7. Known(interfaces, s.name)' /\ \A m : Known(structs, m)' <=> Known(structs, m)
  BY <1>2 DEF Known, Entries
<1>8. DeclarationsAreKnown'
  BY <1>1, <1>4, <1>6, <1>7 DEF DeclarationInv, DeclarationsAreKnown
<1>9. TypesAreDeclared'
  <2>1. \A j \in DOMAIN structs :
          \E p \in Registered' : St(p)'.kind = "struct" /\ St(p)'.name = structs[j].name
    BY <1>4 DEF DeclarationInv, TypesAreDeclared
  <2>2. /\ St(h)'.kind = "interface" /\ St(h)'.name = interfaces'[n].name /\ h \in Registered'
        /\ St(h)'.methods = interfaces'[n].sigs
    BY <1>1, <1>2, <1>4
  <2>3. \A j \in DOMAIN interfaces :
          \E p \in Registered' : /\ St(p)'.kind = "interface" /\ St(p)'.name = interfaces[j].name
                                 /\ St(p)'.methods = interfaces[j].sigs
    BY <1>4 DEF DeclarationInv, TypesAreDeclared
  <2> QED
    BY <1>2, <2>1, <2>2, <2>3 DEF TypesAreDeclared
<1>10. BlocksAreKnown'
  BY <1>3, <1>4, <1>5, <1>6, <1>7 DEF BlocksAreKnown, IsBlock
<1>11. InterfacesAreEntered' /\ BlocksAreAttached'
  BY <1>2, <1>3, <1>4, <1>5 DEF InterfacesAreEntered, BlocksAreAttached, IsBlock
<1>12. NothingElseIsAttached'
  BY <1>2, <1>3, <1>4, <1>5, OriginsStay
<1>13. \A j \in DOMAIN structs : s.name \notin ToSet(structs[j].ifaces)
  BY <1>2, <1>5 DEF NothingElseIsAttached, InterfacesHaveBlocks, BlocksAreKnown, IsBlock
<1>14. Satisfied' /\ PartIsAttached'
  BY <1>2, <1>5, <1>13 DEF Satisfied, PartIsAttached
<1> QED
  BY <1>8, <1>9, <1>10, <1>11, <1>12, <1>14 DEF DeclarationInv, BlockInv

(* Pass 1 passes a statement that declares no type.                         *)
LEMMA OtherStep ==
    ASSUME DeclarationInv, BlockInv, UNCHANGED registry,
           NEW h \in Positions, St(h).kind \notin {"struct", "interface"},
           Top.method = 0, Top'.method = 0, Registered' = Registered \cup {h},
           Attached' = Attached, \A p \in Positions : St(p)' = St(p)
    PROVE  DeclarationInv' /\ BlockInv'
<1>1. UNCHANGED <<structs, interfaces>> /\ Begun = Attached /\ Begun' = Attached
  BY DEF registry, Begun
<1>2. /\ \A p \in Registered : St(p)' = St(p)
      /\ \A p \in Attached : St(p)' = St(p)
      /\ St(h)' = St(h)
  BY PlacesArePositions
<1>3. DeclarationInv'
  BY <1>1, <1>2 DEF DeclarationInv, DeclarationsAreKnown, TypesAreDeclared
<1>4. /\ BlocksAreKnown /\ InterfacesAreEntered /\ BlocksAreAttached
      /\ NothingElseIsAttached /\ Satisfied
  BY DEF BlockInv
<1>5. BlocksAreKnown' /\ InterfacesAreEntered' /\ BlocksAreAttached'
  BY <1>1, <1>2, <1>4 DEF BlocksAreKnown, InterfacesAreEntered, BlocksAreAttached, IsBlock
<1>6. NothingElseIsAttached'
  BY <1>1, <1>2, <1>4, OriginsStay
<1>7. PartIsAttached' /\ Satisfied'
  BY <1>1, <1>4 DEF PartIsAttached, Satisfied
<1> QED
  BY <1>3, <1>5, <1>6, <1>7 DEF BlockInv

(* A change of one type leaves the names.                                   *)
LEMMA NamesStay ==
    ASSUME NEW i, OneTypeChanges(i), DeclarationInv, Registered' = Registered,
           \A p \in Positions : St(p)' = St(p)
    PROVE  /\ DeclarationInv'
           /\ \A n : Known(structs, n)' <=> Known(structs, n)
           /\ \A n : Known(interfaces, n)' <=> Known(interfaces, n)
<1>1. /\ DOMAIN structs' = DOMAIN structs /\ interfaces' = interfaces
      /\ \A j \in DOMAIN structs : structs'[j].name = structs[j].name
  BY DEF OneTypeChanges
<1>2. \A n : Known(structs, n)' <=> Known(structs, n)
  BY <1>1 DEF Known, Entries
<1>3. \A n : Known(interfaces, n)' <=> Known(interfaces, n)
  BY <1>1
<1>4. \A p \in Registered : St(p)' = St(p)
  BY PlacesArePositions
<1>5. DeclarationsAreKnown'
  BY <1>2, <1>3, <1>4 DEF DeclarationInv, DeclarationsAreKnown
<1>6. TypesAreDeclared'
  BY <1>1, <1>4 DEF DeclarationInv, TypesAreDeclared
<1> QED
  BY <1>2, <1>3, <1>5, <1>6 DEF DeclarationInv

(* Pass 2 opens an impl block.                                              *)
LEMMA ImplStep ==
    ASSUME TypeOK, RegistryIsWellFormed, error = "none", error' = error,
           DeclarationInv, BlockInv,
           NEW h \in Positions, h = Here, Here' = h, St(h).kind = "impl", OpenImpl(St(h)),
           Top.method = 0, Top'.method = 1, Top'.loop = "attach", Positions' = Positions,
           Registered' = Registered, Attached' = Attached, \A p \in Positions : St(p)' = St(p)
    PROVE  DeclarationInv' /\ BlockInv'
<1>1. PICK s \in Statements : s = St(h)
  BY PositionsAreSound
<1>2. PICK i \in DOMAIN structs :
              /\ OneTypeChanges(i) /\ structs[i].name = s.name
              /\ structs'[i].ifaces = structs[i].ifaces
              /\ structs'[i].methods = structs[i].methods
  BY <1>1, ImplIsOpened
<1>3. /\ DOMAIN structs' = DOMAIN structs /\ interfaces' = interfaces
      /\ \A j \in DOMAIN structs : /\ structs'[j].name = structs[j].name
                                   /\ structs'[j].ifaces = structs[j].ifaces
                                   /\ structs'[j].methods = structs[j].methods
                                   /\ j # i => structs'[j].hasImpl = structs[j].hasImpl
  BY <1>2 DEF OneTypeChanges
<1>4. Begun = Attached /\ Begun' = Attached \cup {h}
  BY DEF Begun
<1>5. /\ \A p \in Attached : St(p)' = St(p)
      /\ St(h)' = s /\ St(h) = s /\ s.kind = "impl"
  BY <1>1, PlacesArePositions
<1>6. /\ BlocksAreKnown /\ InterfacesAreEntered /\ BlocksAreAttached
      /\ NothingElseIsAttached /\ Satisfied
  BY DEF BlockInv
<1>7. /\ DeclarationInv'
      /\ \A n : Known(structs, n)' <=> Known(structs, n)
      /\ \A n : Known(interfaces, n)' <=> Known(interfaces, n)
  BY <1>2, NamesStay
<1>8. Known(structs, s.name)
  BY <1>2, KnownNames
<1>9. BlocksAreKnown'
  BY <1>4, <1>5, <1>6, <1>7, <1>8 DEF BlocksAreKnown, IsBlock
<1>10. InterfacesAreEntered' /\ BlocksAreAttached'
  BY <1>3, <1>4, <1>5, <1>6 DEF InterfacesAreEntered, BlocksAreAttached, IsBlock
<1>11. MethodsHaveBlocks'
  BY <1>3, <1>4, <1>5, <1>6 DEF NothingElseIsAttached, MethodsHaveBlocks, IsBlock
<1>12. InterfacesHaveBlocks'
  BY <1>3, <1>4, <1>5, <1>6 DEF NothingElseIsAttached, InterfacesHaveBlocks
<1>13. ImplsHaveBlocks'
  BY <1>2, <1>3, <1>4, <1>5, <1>6 DEF NothingElseIsAttached, ImplsHaveBlocks
<1>14. PartIsAttached'
  <2>1. s.methods \in Seq(STRING)
    BY DEF Statements
  <2>2. \A k \in DOMAIN s.methods : ~(k < 1)
    BY <2>1
  <2> QED
    BY <1>5, <2>2 DEF PartIsAttached, IsBlock
<1>15. Satisfied'
  BY <1>3, <1>6 DEF Satisfied
<1> QED
  BY <1>7, <1>9, <1>10, <1>11, <1>12, <1>13, <1>14, <1>15 DEF BlockInv, NothingElseIsAttached

(* Pass 2 opens an implement block.                                         *)
LEMMA ImplementStep ==
    ASSUME TypeOK, RegistryIsWellFormed, error = "none", error' = error,
           DeclarationInv, BlockInv,
           NEW h \in Positions, h = Here, Here' = h, St(h).kind = "implement",
           OpenImplement(St(h)),
           Top.method = 0, Top'.method = 1, Top'.loop = "attach", Positions' = Positions,
           Registered' = Registered, Attached' = Attached, \A p \in Positions : St(p)' = St(p)
    PROVE  DeclarationInv' /\ BlockInv'
<1>1. PICK s \in Statements : s = St(h)
  BY PositionsAreSound
<1>2. PICK i \in DOMAIN structs :
              /\ OneTypeChanges(i) /\ structs[i].name = s.name /\ Known(interfaces, s.iface)
              /\ structs'[i].methods = structs[i].methods
              /\ structs'[i].hasImpl = structs[i].hasImpl
              /\ structs[i].ifaces \in Seq(STRING)
              /\ structs'[i].ifaces = Append(structs[i].ifaces, s.iface)
  BY <1>1, InterfaceIsEntered
<1>3. /\ DOMAIN structs' = DOMAIN structs /\ interfaces' = interfaces
      /\ \A j \in DOMAIN structs : /\ structs'[j].name = structs[j].name
                                   /\ structs'[j].hasImpl = structs[j].hasImpl
                                   /\ structs'[j].methods = structs[j].methods
                                   /\ j # i => structs'[j].ifaces = structs[j].ifaces
  BY <1>2 DEF OneTypeChanges
<1>4. s.iface \in STRING /\ s.methods \in Seq(STRING)
  BY DEF Statements
<1>5. ToSet(structs'[i].ifaces) = ToSet(structs[i].ifaces) \cup {s.iface}
  BY <1>2, <1>4, ToSetAppend
<1>6. \A j \in DOMAIN structs : structs[j].name = s.name => j = i
  BY <1>2 DEF RegistryIsWellFormed
<1>7. Begun = Attached /\ Begun' = Attached \cup {h}
  BY DEF Begun
<1>8. /\ \A p \in Attached : St(p)' = St(p)
      /\ St(h)' = s /\ St(h) = s /\ s.kind = "implement"
  BY <1>1, PlacesArePositions
<1>9. /\ BlocksAreKnown /\ InterfacesAreEntered /\ BlocksAreAttached
      /\ NothingElseIsAttached /\ Satisfied
  BY DEF BlockInv
<1>10. /\ DeclarationInv'
       /\ \A n : Known(structs, n)' <=> Known(structs, n)
       /\ \A n : Known(interfaces, n)' <=> Known(interfaces, n)
  BY <1>2, NamesStay
<1>11. Known(structs, s.name) /\ Known(interfaces, s.iface)
  BY <1>2, KnownNames
<1>12. BlocksAreKnown'
  BY <1>7, <1>8, <1>9, <1>10, <1>11 DEF BlocksAreKnown, IsBlock
<1>13. \A j \in DOMAIN structs : ToSet(structs[j].ifaces) \subseteq ToSet(structs'[j].ifaces)
  BY <1>3, <1>5
<1>14. InterfacesAreEntered'
  BY <1>3, <1>5, <1>6, <1>7, <1>8, <1>9, <1>13 DEF InterfacesAreEntered
<1>15. BlocksAreAttached'
  BY <1>3, <1>8, <1>9 DEF BlocksAreAttached, IsBlock
<1>16. MethodsHaveBlocks'
  BY <1>3, <1>7, <1>8, <1>9 DEF NothingElseIsAttached, MethodsHaveBlocks, IsBlock
<1>17. InterfacesHaveBlocks'
  <2> SUFFICES ASSUME NEW j \in DOMAIN structs, NEW f \in ToSet(structs'[j].ifaces)
               PROVE  \E p \in Begun' : /\ St(p)'.kind = "implement" /\ St(p)'.name = structs[j].name
                                        /\ St(p)'.iface = f
    BY <1>3 DEF InterfacesHaveBlocks
  <2>1. CASE f \in ToSet(structs[j].ifaces)
    <3>1. PICK p \in Attached : /\ St(p).kind = "implement" /\ St(p).name = structs[j].name
                                /\ St(p).iface = f
      BY <1>7, <1>9, <2>1 DEF NothingElseIsAttached, InterfacesHaveBlocks
    <3> QED
      BY <1>7, <1>8, <3>1
  <2>2. CASE f \notin ToSet(structs[j].ifaces)
    <3>1. j = i /\ f = s.iface
      BY <1>3, <1>5, <2>2
    <3> QED
      BY <1>2, <1>7, <1>8, <3>1
  <2> QED
    BY <2>1, <2>2
<1>18. ImplsHaveBlocks'
  BY <1>3, <1>7, <1>8, <1>9 DEF NothingElseIsAttached, ImplsHaveBlocks
<1>19. PartIsAttached'
  <2>1. \A k \in DOMAIN s.methods : ~(k < 1)
    BY <1>4
  <2> QED
    BY <1>8, <2>1 DEF PartIsAttached, IsBlock
<1>20. Satisfied'
  <2>0. Top'.method # 0 /\ St(Here)' = s /\ s.kind = "implement"
    BY <1>8
  <2> SUFFICES ASSUME NEW j \in DOMAIN structs, NEW l \in DOMAIN interfaces,
                      interfaces[l].name \in ToSet(structs'[j].ifaces)
               PROVE  \/ ToSet(interfaces[l].sigs) \subseteq ToSet(structs'[j].methods)
                      \/ s.name = structs[j].name /\ s.iface = interfaces[l].name
    BY <1>3, <2>0 DEF Satisfied
  <2>1. CASE interfaces[l].name \in ToSet(structs[j].ifaces)
    BY <1>3, <1>9, <2>1 DEF Satisfied
  <2>2. CASE interfaces[l].name \notin ToSet(structs[j].ifaces)
    BY <1>2, <1>3, <1>5, <2>2
  <2> QED
    BY <2>1, <2>2
<1> QED
  BY <1>10, <1>12, <1>14, <1>15, <1>16, <1>17, <1>18, <1>19, <1>20 DEF BlockInv, NothingElseIsAttached

(* Pass 2 adds the next method of the block it is in.                       *)
LEMMA MethodStep ==
    ASSUME TypeOK, RegistryIsWellFormed, error = "none", error' = error,
           DeclarationInv, BlockInv,
           NEW h \in Positions, h = Here, Here' = h, Top.method \in DOMAIN St(h).methods,
           AddMethod(St(h), St(h).methods[Top.method]),
           Top.method # 0, Top'.method = Top.method + 1, Top'.loop = "attach",
           Positions' = Positions, Registered' = Registered, Attached' = Attached,
           \A p \in Positions : St(p)' = St(p)
    PROVE  DeclarationInv' /\ BlockInv'
<1>1. PICK s \in Statements : s = St(h)
  BY PositionsAreSound
<1>2. PICK c : c = Top.method
  OBVIOUS
<1>3. s.methods \in Seq(STRING) /\ c \in DOMAIN s.methods /\ c \in Nat \ {0}
  BY <1>1, <1>2 DEF Statements
<1>4. PICK m \in STRING : m = s.methods[c]
  <2>1. s.methods[c] \in STRING
    BY <1>3
  <2> QED
    BY <2>1
<1>5. /\ BlocksAreKnown /\ InterfacesAreEntered /\ BlocksAreAttached /\ PartIsAttached
      /\ NothingElseIsAttached /\ Satisfied
  BY DEF BlockInv
<1>6. Begun' = Begun /\ h \in Begun /\ c + 1 # 0 /\ Begun \subseteq Positions
  BY <1>2, <1>3, <1>5, PlacesArePositions DEF Begun
<1>7. IsBlock(s) /\ Known(structs, s.name)
  BY <1>1, <1>5, <1>6 DEF PartIsAttached, BlocksAreKnown
<1>8. PICK i \in DOMAIN structs :
              /\ OneTypeChanges(i) /\ structs[i].name = s.name
              /\ structs'[i].ifaces = structs[i].ifaces /\ structs'[i].hasImpl = structs[i].hasImpl
              /\ structs[i].methods \in Seq(STRING)
              /\ structs'[i].methods = Append(structs[i].methods, m)
  BY <1>1, <1>2, <1>4, <1>7, MethodIsAdded
<1>9. /\ DOMAIN structs' = DOMAIN structs /\ interfaces' = interfaces
      /\ \A j \in DOMAIN structs : /\ structs'[j].name = structs[j].name
                                   /\ structs'[j].hasImpl = structs[j].hasImpl
                                   /\ structs'[j].ifaces = structs[j].ifaces
                                   /\ j # i => structs'[j].methods = structs[j].methods
  BY <1>8 DEF OneTypeChanges
<1>10. ToSet(structs'[i].methods) = ToSet(structs[i].methods) \cup {m}
  BY <1>8, ToSetAppend
<1>11. \A j \in DOMAIN structs : structs[j].name = s.name => j = i
  BY <1>8 DEF RegistryIsWellFormed
<1>12. /\ \A p \in Begun : St(p)' = St(p)
       /\ \A p \in Attached : St(p)' = St(p)
       /\ St(h)' = s /\ St(h) = s
  BY <1>1, <1>6, PlacesArePositions
<1>13. /\ DeclarationInv'
       /\ \A n : Known(structs, n)' <=> Known(structs, n)
       /\ \A n : Known(interfaces, n)' <=> Known(interfaces, n)
  BY <1>8, NamesStay
<1>14. BlocksAreKnown'
  BY <1>5, <1>6, <1>12, <1>13 DEF BlocksAreKnown, IsBlock
<1>15. InterfacesAreEntered'
  BY <1>5, <1>6, <1>9, <1>12 DEF InterfacesAreEntered
<1>16. \A j \in DOMAIN structs : ToSet(structs[j].methods) \subseteq ToSet(structs'[j].methods)
  BY <1>9, <1>10
<1>17. BlocksAreAttached'
  BY <1>5, <1>9, <1>12, <1>16 DEF BlocksAreAttached, IsBlock
<1>18. m \in ToSet(s.methods)
  BY <1>3, <1>4 DEF ToSet
<1>19. MethodsHaveBlocks'
  <2> SUFFICES ASSUME NEW j \in DOMAIN structs, NEW x \in ToSet(structs'[j].methods)
               PROVE  \E p \in Begun : /\ IsBlock(St(p)) /\ St(p).name = structs[j].name
                                       /\ x \in ToSet(St(p).methods)
    BY <1>6, <1>9, <1>12 DEF MethodsHaveBlocks, IsBlock
  <2>1. CASE x \in ToSet(structs[j].methods)
    BY <1>5, <2>1 DEF NothingElseIsAttached, MethodsHaveBlocks
  <2>2. CASE x \notin ToSet(structs[j].methods)
    BY <1>6, <1>7, <1>8, <1>9, <1>10, <1>12, <1>18, <2>2
  <2> QED
    BY <2>1, <2>2
<1>20. InterfacesHaveBlocks' /\ ImplsHaveBlocks'
  BY <1>5, <1>6, <1>9, <1>12 DEF NothingElseIsAttached, InterfacesHaveBlocks, ImplsHaveBlocks
<1>21. PartIsAttached'
  <2>1. \A k \in DOMAIN s.methods : k < c + 1 => k < c \/ k = c
    BY <1>3
  <2>2. \A j \in DOMAIN structs : \A k \in DOMAIN s.methods :
           s.name = structs[j].name /\ k < c => s.methods[k] \in ToSet(structs[j].methods)
    BY <1>1, <1>2, <1>5 DEF PartIsAttached
  <2>3. \A j \in DOMAIN structs : \A k \in DOMAIN s.methods :
           s.name = structs'[j].name /\ k < c + 1 => s.methods[k] \in ToSet(structs'[j].methods)
    BY <1>4, <1>9, <1>10, <1>11, <1>16, <2>1, <2>2
  <2> QED
    BY <1>2, <1>7, <1>9, <1>12, <2>3 DEF PartIsAttached, IsBlock
<1>22. Satisfied'
  BY <1>2, <1>5, <1>6, <1>9, <1>12, <1>16 DEF Satisfied
<1> QED
  BY <1>13, <1>14, <1>15, <1>17, <1>19, <1>20, <1>21, <1>22 DEF BlockInv, NothingElseIsAttached

-----------------------------------------------------------------------------
(* The actions.                                                             *)

(* The fields of an activation that goes on.                                *)
LEMMA FramesMoveOn ==
    ASSUME NEW frame \in FrameType
    PROVE  /\ LET next == [frame EXCEPT !.pc = @ + 1]
              IN  /\ next.prog = frame.prog /\ next.loop = frame.loop
                  /\ next.pc = frame.pc + 1 /\ next.method = frame.method
           /\ LET next == [frame EXCEPT !.pc = @ + 1, !.method = 0]
              IN  /\ next.prog = frame.prog /\ next.loop = frame.loop
                  /\ next.pc = frame.pc + 1 /\ next.method = 0
           /\ LET next == [frame EXCEPT !.method = 1]
              IN  /\ next.prog = frame.prog /\ next.loop = frame.loop
                  /\ next.pc = frame.pc /\ next.method = 1
           /\ LET next == [frame EXCEPT !.method = @ + 1]
              IN  /\ next.prog = frame.prog /\ next.loop = frame.loop
                  /\ next.pc = frame.pc /\ next.method = frame.method + 1
           /\ LET next == [frame EXCEPT !.loop = "attach", !.pc = 1]
              IN  /\ next.prog = frame.prog /\ next.loop = "attach"
                  /\ next.pc = 1 /\ next.method = frame.method
           /\ LET next == [frame EXCEPT !.loop = "run", !.pc = 1]
              IN  /\ next.prog = frame.prog /\ next.loop = "run"
                  /\ next.pc = 1 /\ next.method = frame.method
BY DEF FrameType

(* When the innermost activation goes on.                                   *)
LEMMA TurnKeepsCalm ==
    ASSUME LoaderInv, Calm, CalmInv, NEW frame \in FrameType, Goto(frame),
           frame.prog = Top.prog, frame.method # 0 => frame.loop = "attach",
           UNCHANGED <<source, modules>>, scopes \subseteq scopes',
           frame.loop \in {"register", "attach"} \/ Top.prog \in scopes' \/ Top.loop = "run",
           DeclarationInv', BlockInv'
    PROVE  CalmInv'
<1>1. /\ Len(stack') = Len(stack) /\ DOMAIN stack' = DOMAIN stack /\ Top' = frame
      /\ \A k \in DOMAIN stack : k # Len(stack) => stack'[k] = stack[k]
      /\ stack'[Len(stack)] = frame
  BY GotoKeepsBelow, TurnKeepsPositions DEF LoaderInv, Calm
<1>2. MethodsAreInBlocks'
  BY <1>1 DEF CalmInv, MethodsAreInBlocks
<1>3. ProgramsArePrepared'
  BY <1>1 DEF CalmInv, ProgramsArePrepared, Busy
<1> QED
  BY <1>2, <1>3 DEF CalmInv

(* After an error, and when there is nothing left to run.                   *)
LEMMA StormKeepsRegistry ==
    ASSUME RegistryInv, UNCHANGED registry, error' # "none" \/ stack' = <<>>
    PROVE  RegistryInv'
<1>1. RegistryIsWellFormed'
  BY DEF RegistryInv, RegistryIsWellFormed, registry
<1>2. ~Calm'
  BY DEF Calm, hadError
<1> QED
  BY <1>1, <1>2 DEF RegistryInv

(* An error leaves the registry as it is.                                   *)
LEMMA RegistersOrRefuses ==
    ASSUME error = "none", NEW s \in Statements, Registers(s)
    PROVE  error' = error \/ (error' # "none" /\ UNCHANGED registry)
BY DEF Registers, RegisterStruct, RegisterInterface, OpenImpl, OpenImplement, AddMethod, CloseBlock,
       Refuse

(* An activation that is not in a block is at no method.                    *)
LEMMA TopIsCalm ==
    ASSUME LoaderInv, RegistryInv, NEW loop, In(loop)
    PROVE  /\ Calm /\ CalmInv /\ RegistryIsWellFormed /\ TypeOK /\ error = "none" /\ Top.loop = loop
           /\ Top \in FrameType /\ Top.method \in Nat /\ Top.prog \in 0 .. Len(modules)
           /\ loop # "attach" => Top.method = 0
<1>1. Calm /\ CalmInv /\ RegistryIsWellFormed /\ TypeOK /\ error = "none" /\ Top.loop = loop
  BY DEF In, Calm, RegistryInv, LoaderInv, hadError
<1>2. Top \in FrameType /\ Len(stack) \in DOMAIN stack /\ Top = stack[Len(stack)]
  BY <1>1, TopIsSound DEF Calm
<1> QED
  BY <1>1, <1>2 DEF CalmInv, MethodsAreInBlocks, FrameType

(* Pass 1, at a statement.                                                  *)
LEMMA RegisterKeepsRegistry ==
    ASSUME LoaderInv, RegistryInv, Register
    PROVE  RegistryInv'
<1>1. At("register") /\ UNCHANGED <<source, modules, scopes>> /\ In("register")
  BY DEF Register, At
<1>2. /\ Calm /\ CalmInv /\ RegistryIsWellFormed /\ TypeOK /\ error = "none"
      /\ Top \in FrameType /\ Top.method = 0
  BY <1>1, TopIsCalm
<1>3. PICK h \in Positions : h = Here
  BY <1>1, <1>2, HereIsAPosition
<1>4. St(h) = Statement /\ St(h) \in Statements
  BY <1>1, <1>2, <1>3, HereIsAPosition
<1>5. \/ St(h).kind = "struct" /\ RegisterStruct(St(h))
      \/ St(h).kind = "interface" /\ RegisterInterface(St(h))
      \/ St(h).kind \notin {"struct", "interface"} /\ UNCHANGED <<registry, error>>
  BY <1>4 DEF Register
<1>6. CASE error' # error
  <2>1. error' # "none" /\ UNCHANGED registry
    BY <1>2, <1>4, <1>5, <1>6, RegistersOrRefuses DEF Registers
  <2> QED
    BY <2>1, StormKeepsRegistry
<1>7. CASE error' = error
  <2>1. PICK frame \in FrameType : frame = [Top EXCEPT !.pc = @ + 1]
    BY <1>2, FramesGoOn
  <2>2. /\ frame.prog = Top.prog /\ frame.loop = Top.loop
        /\ frame.pc = Top.pc + 1 /\ frame.method = Top.method
    BY <1>2, <2>1, FramesMoveOn
  <2>3. Goto(frame) /\ stack # <<>> /\ Top.loop = "register"
    BY <1>1, <1>7, <2>1 DEF Register, UnlessRefused, At, In
  <2>4. Top' = frame /\ \A p \in Positions : St(p)' = St(p)
    BY <1>1, <1>2, <2>3, TurnKeepsPositions
  <2>5. Registered' = Registered \cup {h} /\ Attached' = Attached
    BY <1>1, <1>2, <1>3, <2>2, <2>3, RegisterMovesOn
  <2>6. DeclarationInv /\ BlockInv /\ Top'.method = 0
    BY <1>2, <2>2, <2>4 DEF CalmInv
  <2>7. DeclarationInv' /\ BlockInv'
    BY <1>2, <1>5, <1>7, <2>4, <2>5, <2>6, StructStep, InterfaceStep, OtherStep
  <2>8. CalmInv'
    BY <1>1, <1>2, <2>2, <2>3, <2>7, TurnKeepsCalm
  <2>9. RegistryIsWellFormed'
    BY <1>2, <1>4, <1>5, <1>7, RegistersKeepsWellFormed
  <2> QED
    BY <2>8, <2>9 DEF RegistryInv
<1> QED
  BY <1>6, <1>7

(* The end of pass 1.                                                       *)
LEMMA RegisterDoneKeepsRegistry ==
    ASSUME LoaderInv, RegistryInv, RegisterDone
    PROVE  RegistryInv'
<1>1. /\ In("register") /\ AtEnd /\ UNCHANGED <<source, modules, scopes>> /\ stack # <<>>
      /\ UNCHANGED registry
  BY DEF RegisterDone, EndOf, In
<1>2. /\ Calm /\ CalmInv /\ RegistryIsWellFormed /\ TypeOK /\ error = "none"
      /\ Top \in FrameType /\ Top.method = 0 /\ Top.loop = "register"
  BY <1>1, TopIsCalm
<1>3. PICK frame \in FrameType : frame = [Top EXCEPT !.loop = "attach", !.pc = 1]
  BY <1>2, FramesGoOn
<1>4. frame.prog = Top.prog /\ frame.loop = "attach" /\ frame.pc = 1 /\ frame.method = Top.method
  BY <1>2, <1>3, FramesMoveOn
<1>5. Goto(frame)
  BY <1>3 DEF RegisterDone
<1>6. Top' = frame /\ \A p \in Positions : St(p)' = St(p)
  BY <1>1, <1>2, <1>5, TurnKeepsPositions
<1>7. Registered' = Registered /\ Attached' = Attached
  BY <1>1, <1>2, <1>4, <1>5, PlacesStay
<1>8. DeclarationInv' /\ BlockInv'
  BY <1>1, <1>2, <1>4, <1>6, <1>7, QuietStep DEF CalmInv
<1>9. CalmInv'
  BY <1>1, <1>2, <1>4, <1>5, <1>8, TurnKeepsCalm
<1> QED
  BY <1>1, <1>2, <1>9 DEF RegistryInv, RegistryIsWellFormed, registry

(* The statements of a file are executed in a scope, which is made when     *)
(* its blocks have been attached.                                           *)
LEMMA AttachDoneKeepsRegistry ==
    ASSUME LoaderInv, RegistryInv, AttachDone
    PROVE  RegistryInv'
<1>1. /\ In("attach") /\ AtEnd /\ UNCHANGED <<source, modules>> /\ stack # <<>>
      /\ UNCHANGED registry /\ scopes' = scopes \cup {Top.prog}
  BY DEF AttachDone, EndOf, In
<1>2. /\ Calm /\ CalmInv /\ RegistryIsWellFormed /\ TypeOK /\ error = "none"
      /\ Top \in FrameType /\ Top.loop = "attach"
  BY <1>1, TopIsCalm
<1>3. Top.method = 0
  <2>1. Top.method # 0 => Here \in Positions
    BY <1>2 DEF CalmInv, BlockInv, PartIsAttached
  <2>2. Top.prog \in 0 .. Len(modules) /\ Top.pc \in Nat
    BY <1>2 DEF FrameType
  <2>3. Text(Top.prog) \in Seq(Statements)
    BY <1>2, <2>2, TextsAreStatements
  <2>4. Top.pc \notin DOMAIN Text(Top.prog)
    BY <1>1, <2>2, <2>3 DEF AtEnd
  <2>5. Here \in Positions => Top.pc \in DOMAIN Text(Top.prog)
    BY <1>2, PositionsAreSound DEF Here
  <2> QED
    BY <2>1, <2>4, <2>5
<1>4. PICK frame \in FrameType : frame = [Top EXCEPT !.loop = "run", !.pc = 1]
  BY <1>2, FramesGoOn
<1>5. frame.prog = Top.prog /\ frame.loop = "run" /\ frame.pc = 1 /\ frame.method = 0
  BY <1>2, <1>3, <1>4, FramesMoveOn
<1>6. Goto(frame)
  BY <1>4 DEF AttachDone
<1>7. Top' = frame /\ \A p \in Positions : St(p)' = St(p)
  BY <1>1, <1>2, <1>6, TurnKeepsPositions
<1>8. Registered' = Registered /\ Attached' = Attached
  BY <1>1, <1>2, <1>5, <1>6, PlacesStay
<1>9. DeclarationInv' /\ BlockInv'
  BY <1>1, <1>2, <1>3, <1>5, <1>7, <1>8, QuietStep DEF CalmInv
<1>10. CalmInv'
  BY <1>1, <1>2, <1>5, <1>6, <1>9, TurnKeepsCalm
<1> QED
  BY <1>1, <1>2, <1>10 DEF RegistryInv, RegistryIsWellFormed, registry

(* The place of a statement that pass 2 is at.                              *)
LEMMA AttachIsAtABlock ==
    ASSUME LoaderInv, RegistryInv, At("attach")
    PROVE  /\ Calm /\ CalmInv /\ DeclarationInv /\ BlockInv /\ RegistryIsWellFormed /\ TypeOK
           /\ error = "none" /\ stack # <<>> /\ Top.loop = "attach"
           /\ Top \in FrameType /\ Top.method \in Nat
           /\ Here \in Positions /\ St(Here) = Statement /\ Statement \in Statements
<1>1. In("attach") /\ stack # <<>>
  BY DEF At, In
<1> QED
  BY <1>1, TopIsCalm, HereIsAPosition DEF CalmInv

(* Pass 2, at the beginning of a block.                                     *)
LEMMA OpenBlockKeepsRegistry ==
    ASSUME LoaderInv, RegistryInv, OpenBlock
    PROVE  RegistryInv'
<1>1. At("attach") /\ UNCHANGED <<source, modules, scopes>> /\ Top.method = 0
  BY DEF OpenBlock
<1>2. /\ Calm /\ CalmInv /\ DeclarationInv /\ BlockInv /\ RegistryIsWellFormed /\ TypeOK
      /\ error = "none" /\ stack # <<>> /\ Top.loop = "attach" /\ Top \in FrameType
  BY <1>1, AttachIsAtABlock
<1>3. PICK h \in Positions : h = Here /\ St(h) = Statement /\ St(h) \in Statements
  BY <1>1, AttachIsAtABlock
<1>4. \/ St(h).kind = "impl" /\ OpenImpl(St(h))
      \/ St(h).kind = "implement" /\ OpenImplement(St(h))
  BY <1>3 DEF OpenBlock
<1>5. CASE error' # error
  <2>1. error' # "none" /\ UNCHANGED registry
    BY <1>2, <1>3, <1>4, <1>5, RegistersOrRefuses DEF Registers
  <2> QED
    BY <2>1, StormKeepsRegistry
<1>6. CASE error' = error
  <2>1. PICK frame \in FrameType : frame = [Top EXCEPT !.method = 1]
    BY <1>2, FramesGoOn
  <2>2. /\ frame.prog = Top.prog /\ frame.loop = "attach"
        /\ frame.pc = Top.pc /\ frame.method = 1
    BY <1>2, <2>1, FramesMoveOn
  <2>3. Goto(frame)
    BY <1>6, <2>1 DEF OpenBlock, UnlessRefused
  <2>4. Top' = frame /\ Positions' = Positions /\ \A p \in Positions : St(p)' = St(p)
    BY <1>1, <1>2, <2>3, TurnKeepsPositions
  <2>5. Here' = h
    BY <1>3, <2>2, <2>4 DEF Here
  <2>6. Registered' = Registered /\ Attached' = Attached
    BY <1>1, <1>2, <2>2, <2>3, PlacesStay
  <2>7. Top'.method = 1 /\ Top'.loop = "attach"
    BY <2>2, <2>4
  <2>8. DeclarationInv' /\ BlockInv'
    BY <1>1, <1>2, <1>3, <1>4, <1>6, <2>4, <2>5, <2>6, <2>7, ImplStep, ImplementStep
  <2>9. CalmInv'
    BY <1>1, <1>2, <2>2, <2>3, <2>8, TurnKeepsCalm
  <2>10. RegistryIsWellFormed'
    BY <1>2, <1>3, <1>4, <1>6, RegistersKeepsWellFormed
  <2> QED
    BY <2>9, <2>10 DEF RegistryInv
<1> QED
  BY <1>5, <1>6

(* Pass 2, at a method of a block.                                          *)
LEMMA AttachMethodKeepsRegistry ==
    ASSUME LoaderInv, RegistryInv, AttachMethod
    PROVE  RegistryInv'
<1>1. At("attach") /\ UNCHANGED <<source, modules, scopes>>
  BY DEF AttachMethod
<1>2. /\ Calm /\ CalmInv /\ DeclarationInv /\ BlockInv /\ RegistryIsWellFormed /\ TypeOK
      /\ error = "none" /\ stack # <<>> /\ Top.loop = "attach" /\ Top \in FrameType
      /\ Top.method \in Nat
  BY <1>1, AttachIsAtABlock
<1>3. PICK h \in Positions : h = Here /\ St(h) = Statement /\ St(h) \in Statements
  BY <1>1, AttachIsAtABlock
<1>4. PICK m : m = St(h).methods[Top.method]
  OBVIOUS
<1>5. Top.method \in DOMAIN St(h).methods /\ AddMethod(St(h), m)
  BY <1>3, <1>4 DEF AttachMethod
<1>6. Top.method # 0 /\ m \in STRING
  <2>1. St(h).methods \in Seq(STRING)
    BY <1>3 DEF Statements
  <2> QED
    BY <1>4, <1>5, <2>1
<1>7. CASE error' # error
  <2>1. Registers(St(h))
    BY <1>5, <1>6 DEF Registers
  <2>2. error' # "none" /\ UNCHANGED registry
    BY <1>2, <1>3, <1>7, <2>1, RegistersOrRefuses
  <2> QED
    BY <2>2, StormKeepsRegistry
<1>8. CASE error' = error
  <2>1. PICK frame \in FrameType : frame = [Top EXCEPT !.method = @ + 1]
    BY <1>2, FramesGoOn
  <2>2. /\ frame.prog = Top.prog /\ frame.loop = "attach"
        /\ frame.pc = Top.pc /\ frame.method = Top.method + 1
    BY <1>2, <2>1, FramesMoveOn
  <2>3. Goto(frame)
    BY <1>8, <2>1 DEF AttachMethod, UnlessRefused
  <2>4. Top' = frame /\ Positions' = Positions /\ \A p \in Positions : St(p)' = St(p)
    BY <1>1, <1>2, <2>3, TurnKeepsPositions
  <2>5. Here' = h
    BY <1>3, <2>2, <2>4 DEF Here
  <2>6. Registered' = Registered /\ Attached' = Attached
    BY <1>1, <1>2, <2>2, <2>3, PlacesStay
  <2>7. Top'.method = Top.method + 1 /\ Top'.loop = "attach"
    BY <2>2, <2>4
  <2>8. AddMethod(St(h), St(h).methods[Top.method])
    BY <1>4, <1>5
  <2>9. DeclarationInv' /\ BlockInv'
    BY <1>1, <1>2, <1>3, <1>5, <1>6, <1>8, <2>4, <2>5, <2>6, <2>7, <2>8, MethodStep
  <2>10. CalmInv'
    BY <1>1, <1>2, <2>2, <2>3, <2>9, TurnKeepsCalm
  <2>11. Known(structs, St(h).name)
    BY <1>2, <1>3, <1>6 DEF BlockInv, BlocksAreKnown, PartIsAttached, Begun
  <2>12. RegistryIsWellFormed'
    BY <1>2, <1>3, <1>5, <1>6, <1>8, <2>11, RegistersKeepsWellFormed
  <2> QED
    BY <2>10, <2>12 DEF RegistryInv
<1> QED
  BY <1>7, <1>8

(* Pass 2, at the end of a block.                                           *)
LEMMA BlockDoneKeepsRegistry ==
    ASSUME LoaderInv, RegistryInv, BlockDone
    PROVE  RegistryInv'
<1>1. At("attach") /\ UNCHANGED <<source, modules, scopes>>
  BY DEF BlockDone
<1>2. /\ Calm /\ CalmInv /\ DeclarationInv /\ BlockInv /\ RegistryIsWellFormed /\ TypeOK
      /\ error = "none" /\ stack # <<>> /\ Top.loop = "attach" /\ Top \in FrameType
      /\ Top.method \in Nat
  BY <1>1, AttachIsAtABlock
<1>3. PICK h \in Positions : h = Here /\ St(h) = Statement /\ St(h) \in Statements
  BY <1>1, AttachIsAtABlock
<1>4. Top.method > Len(St(h).methods) /\ CloseBlock(St(h))
  BY <1>3 DEF BlockDone
<1>5. Top.method # 0
  <2>1. Len(St(h).methods) \in Nat
    BY <1>3 DEF Statements
  <2> QED
    BY <1>2, <1>4, <2>1
<1>6. IsBlock(St(h))
  BY <1>2, <1>3, <1>5 DEF BlockInv, PartIsAttached
<1>7. CASE error' # error
  <2>1. error' # "none" /\ UNCHANGED registry
    BY <1>2, <1>3, <1>4, <1>7, RegistersOrRefuses DEF Registers
  <2> QED
    BY <2>1, StormKeepsRegistry
<1>8. CASE error' = error
  <2>1. PICK frame \in FrameType : frame = [Top EXCEPT !.pc = @ + 1, !.method = 0]
    BY <1>2, FramesGoOn
  <2>2. /\ frame.prog = Top.prog /\ frame.loop = "attach"
        /\ frame.pc = Top.pc + 1 /\ frame.method = 0
    BY <1>2, <2>1, FramesMoveOn
  <2>3. Goto(frame)
    BY <1>8, <2>1 DEF BlockDone, UnlessRefused
  <2>4. Top'.method = 0 /\ \A p \in Positions : St(p)' = St(p)
    BY <1>1, <1>2, <2>2, <2>3, TurnKeepsPositions
  <2>5. Registered' = Registered /\ Attached' = Attached \cup {Here}
    BY <1>1, <1>2, <2>2, <2>3, AttachMovesOn
  <2>6. Conforms(St(h)) /\ UNCHANGED registry
    BY <1>2, <1>4, <1>8 DEF CloseBlock, Refuse
  <2>7. DeclarationInv' /\ BlockInv'
    BY <1>2, <1>3, <1>4, <1>6, <2>4, <2>5, <2>6, ClosingStep
  <2>8. CalmInv'
    BY <1>1, <1>2, <2>2, <2>3, <2>7, TurnKeepsCalm
  <2> QED
    BY <1>2, <2>6, <2>8 DEF RegistryInv, RegistryIsWellFormed, registry
<1> QED
  BY <1>7, <1>8

(* Pass 2, at any other statement.                                          *)
LEMMA NotABlockKeepsRegistry ==
    ASSUME LoaderInv, RegistryInv, NotABlock
    PROVE  RegistryInv'
<1>1. At("attach") /\ UNCHANGED <<source, modules, scopes>> /\ UNCHANGED registry
  BY DEF NotABlock
<1>2. /\ Calm /\ CalmInv /\ DeclarationInv /\ BlockInv /\ RegistryIsWellFormed /\ TypeOK
      /\ error = "none" /\ stack # <<>> /\ Top.loop = "attach" /\ Top \in FrameType
      /\ Here \in Positions /\ ~IsBlock(St(Here))
  BY <1>1, AttachIsAtABlock DEF NotABlock, IsBlock
<1>3. Top.method = 0
  BY <1>2 DEF BlockInv, PartIsAttached
<1>4. PICK frame \in FrameType : frame = [Top EXCEPT !.pc = @ + 1, !.method = 0]
  BY <1>2, FramesGoOn
<1>5. /\ frame.prog = Top.prog /\ frame.loop = "attach"
      /\ frame.pc = Top.pc + 1 /\ frame.method = 0
  BY <1>2, <1>4, FramesMoveOn
<1>6. Goto(frame)
  BY <1>4 DEF NotABlock, NextStatement
<1>7. Top'.method = 0 /\ \A p \in Positions : St(p)' = St(p)
  BY <1>1, <1>2, <1>5, <1>6, TurnKeepsPositions
<1>8. Registered' = Registered /\ Attached' = Attached \cup {Here}
  BY <1>1, <1>2, <1>5, <1>6, AttachMovesOn
<1>9. DeclarationInv' /\ BlockInv'
  BY <1>1, <1>2, <1>3, <1>7, <1>8, PassingStep
<1>10. CalmInv'
  BY <1>1, <1>2, <1>5, <1>6, <1>9, TurnKeepsCalm
<1> QED
  BY <1>1, <1>2, <1>10 DEF RegistryInv, RegistryIsWellFormed, registry

(* A statement of a file is executed, or an alias bound.                    *)
LEMMA NextStatementKeepsRegistry ==
    ASSUME LoaderInv, RegistryInv, In("run"), NextStatement, UNCHANGED registry,
           UNCHANGED <<source, modules, scopes>>
    PROVE  RegistryInv'
<1>1. /\ Calm /\ CalmInv /\ RegistryIsWellFormed /\ TypeOK
      /\ Top \in FrameType /\ Top.method = 0 /\ Top.loop = "run" /\ stack # <<>>
  BY TopIsCalm DEF In
<1>2. PICK frame \in FrameType : frame = [Top EXCEPT !.pc = @ + 1, !.method = 0]
  BY <1>1, FramesGoOn
<1>3. frame.prog = Top.prog /\ frame.loop = "run" /\ frame.method = 0
  BY <1>1, <1>2, FramesMoveOn
<1>4. Goto(frame)
  BY <1>2 DEF NextStatement
<1>5. Top'.method = 0 /\ \A p \in Positions : St(p)' = St(p)
  BY <1>1, <1>3, <1>4, TurnKeepsPositions
<1>6. Registered' = Registered /\ Attached' = Attached
  BY <1>1, <1>3, <1>4, PlacesStay
<1>7. DeclarationInv' /\ BlockInv'
  BY <1>1, <1>5, <1>6, QuietStep DEF CalmInv
<1>8. CalmInv'
  BY <1>1, <1>3, <1>4, <1>7, TurnKeepsCalm
<1> QED
  BY <1>1, <1>8 DEF RegistryInv, RegistryIsWellFormed, registry

(* A module has run to its end; its importer goes on.                       *)
LEMMA ModuleDoneKeepsRegistry ==
    ASSUME LoaderInv, RegistryInv, ModuleDone
    PROVE  RegistryInv'
<1>1. /\ In("run") /\ stack # <<>> /\ Top.prog # 0 /\ UNCHANGED registry
      /\ UNCHANGED <<source, scopes>>
      /\ modules' = [modules EXCEPT ![Top.prog].env = TRUE]
      /\ stack' = [Below EXCEPT ![Len(stack) - 1].pc = @ + 1]
  BY DEF ModuleDone, EndOf, In
<1>2. /\ Calm /\ CalmInv /\ RegistryIsWellFormed /\ TypeOK
      /\ Top \in FrameType /\ Top.method = 0 /\ Top.loop = "run"
  BY <1>1, TopIsCalm
<1> DEFINE n == Len(stack) - 1
<1>3. /\ Len(stack) \in Nat \ {0} /\ DOMAIN stack = 1 .. Len(stack) /\ Top = stack[Len(stack)]
      /\ Below \in Seq(FrameType) /\ Len(Below) = n /\ \A k \in 1 .. n : Below[k] = stack[k]
  BY <1>1, <1>2, TopIsSound
<1>4. Len(stack) # 1
  BY <1>1, <1>3 DEF LoaderInv, Nested
<1>5. n \in Nat /\ n >= 1 /\ n \in 1 .. n /\ n \in DOMAIN stack /\ 1 .. n \subseteq DOMAIN stack
  BY <1>3, <1>4
<1>6. stack[n].loop = "run" /\ stack[n] \in FrameType
  <2>1. Len(stack) \in DOMAIN stack /\ Len(stack) > 1
    BY <1>3, <1>4
  <2>2. StandsAtImport(stack[n], modules[stack[Len(stack)].prog].path)
    BY <2>1 DEF LoaderInv, Nested
  <2> QED
    BY <1>2, <1>5, <2>2, FramesAreSound DEF StandsAtImport
<1>7. stack[n].method = 0
  BY <1>2, <1>5, <1>6 DEF CalmInv, MethodsAreInBlocks
<1> HIDE DEF n
<1>8. PICK e : e = [stack[n] EXCEPT !.pc = @ + 1]
  OBVIOUS
<1>9. e.loop = "run" /\ e.method = 0 /\ e.prog = stack[n].prog
  BY <1>6, <1>7, <1>8 DEF FrameType
<1>10. PICK b \in Seq(FrameType) : b = Below
  BY <1>3
<1>11. stack' = [b EXCEPT ![n] = e]
  BY <1>1, <1>3, <1>5, <1>8, <1>10 DEF n
<1>12. /\ Len(stack') = n /\ DOMAIN stack' = 1 .. n /\ stack'[n] = e
       /\ \A k \in 1 .. n : k # n => stack'[k] = stack[k]
  <2>1. Len(b) = n /\ DOMAIN b = 1 .. n /\ \A k \in 1 .. n : b[k] = stack[k]
    BY <1>3, <1>10
  <2>2. DOMAIN stack' = 1 .. n /\ stack'[n] = e /\ \A k \in 1 .. n : k # n => stack'[k] = b[k]
    BY <1>5, <1>11, <2>1
  <2>3. Len(stack') = n
    BY <1>11, <2>1
  <2> QED
    BY <2>1, <2>2, <2>3
<1>13. Top' = e
  BY <1>12 DEF Top
<1>14. MethodsAreInBlocks'
  BY <1>2, <1>5, <1>9, <1>12 DEF CalmInv, MethodsAreInBlocks
<1>15. /\ Len(modules') = Len(modules)
       /\ \A i \in DOMAIN modules : modules'[i].path = modules[i].path
  <2>1. modules \in Seq([path : Path, env : BOOLEAN])
    BY <1>2 DEF TypeOK
  <2> QED
    BY <1>1, <1>2, <2>1, EntriesAreSound
<1>16. \A i \in 0 .. Len(modules) : Text(i)' = Text(i)
  BY <1>1, <1>15, TextsStay
<1>17. Positions' = Positions /\ \A p \in Positions : St(p)' = St(p)
  <2>1. \A p \in Positions : p[1] \in 0 .. Len(modules)
    BY <1>2, PositionsAreSound
  <2> QED
    BY <1>15, <1>16, <2>1 DEF Positions, St
<1>18. Registered' = Registered /\ Attached' = Attached
  BY <1>2, <1>9, <1>13, <1>17 DEF Registered, Attached, Busy
<1>19. DeclarationInv' /\ BlockInv'
  BY <1>1, <1>2, <1>9, <1>13, <1>17, <1>18, QuietStep DEF CalmInv
<1>20. ProgramsArePrepared'
  BY <1>1, <1>2, <1>15 DEF CalmInv, ProgramsArePrepared, Busy
<1> QED
  BY <1>1, <1>2, <1>14, <1>19, <1>20 DEF CalmInv, RegistryInv, RegistryIsWellFormed, registry

(* The loading of a module begins: nothing of it is registered yet.         *)
LEMMA ImportNewKeepsRegistry ==
    ASSUME LoaderInv, RegistryInv, NEW p \in Path, ImportNew(p)
    PROVE  RegistryInv'
<1>1. In("run") /\ stack # <<>> /\ UNCHANGED scopes /\ Read(p)
  BY DEF ImportNew, AtImport, Executes, At, In
<1>2. /\ Calm /\ CalmInv /\ RegistryIsWellFormed /\ TypeOK
      /\ Top \in FrameType /\ Top.method = 0 /\ Top.loop = "run"
  BY <1>1, TopIsCalm
<1>3. CASE error' # error
  <2>1. error' # "none" /\ UNCHANGED registry
    BY <1>3 DEF ImportNew, Refuse
  <2> QED
    BY <2>1, StormKeepsRegistry
<1>4. CASE error' = error
  <2>0. PICK n : n = Len(modules) + 1
    OBVIOUS
  <2>1. /\ Enter(p) /\ UNCHANGED registry
        /\ stack' = Append(stack, Frame(n))
    BY <1>2, <1>4, <2>0 DEF ImportNew, Refuse, Calm, hadError
  <2>2. /\ Frame(n).prog = n /\ Frame(n).loop = "register"
        /\ Frame(n).pc = 1 /\ Frame(n).method = 0
    BY DEF Frame
  <2>3. Len(modules) \in Nat /\ DOMAIN modules = 1 .. Len(modules)
    BY <1>2, EntriesAreSound
  <2>4. /\ Len(modules') = n /\ \A i \in DOMAIN modules : modules'[i] = modules[i]
        /\ modules'[n].path = p
    <3>1. modules \in Seq([path : Path, env : BOOLEAN])
      BY <1>2 DEF TypeOK
    <3>2. PICK e \in [path : Path, env : BOOLEAN] : e = [path |-> p, env |-> FALSE]
      OBVIOUS
    <3>3. modules' = Append(modules, e) /\ e.path = p
      BY <2>1, <3>2 DEF Enter
    <3> QED
      BY <2>0, <2>3, <3>1, <3>3, AppendProperties
  <2>5. PICK c \in Contents \cup {Unread} :
           source' = [source EXCEPT ![p] = c] /\ (source[p] # Unread => source' = source)
    <3>1. source \in [Path -> Contents \cup {Unread}]
      BY <1>2 DEF TypeOK
    <3>2. source[p] \in Contents \cup {Unread}
      BY <3>1
    <3>3. [source EXCEPT ![p] = source[p]] = source
      BY <3>1
    <3> QED
      BY <1>1, <3>2, <3>3 DEF Read
  <2>6. \A i \in 0 .. Len(modules) : Text(i)' = Text(i)
    BY <2>4, <2>5, TextsStay
  <2>7. source' \in [Path -> Contents \cup {Unread}]
    BY <1>2, <2>5 DEF TypeOK
  <2>8. \A i \in DOMAIN Text(n)' : ~(i < 1)
    <3>1. source'[p] \in Contents \cup {Unread}
      BY <2>7
    <3>2. source'[p].text = <<>> \/ source'[p].text \in Sources
      BY <3>1 DEF Contents, Unread, File, NoText
    <3>3. source'[p].text \in Seq(Statements)
      <4>1. <<>> \in Seq(Statements)
        OBVIOUS
      <4> QED
        BY <3>2, <4>1, SourceAssumption
    <3>4. n # 0 /\ Text(n)' = source'[p].text
      BY <2>0, <2>3, <2>4 DEF Text
    <3> QED
      BY <3>3, <3>4
  <2>9. 0 .. n = 0 .. Len(modules) \cup {n} /\ n \notin 0 .. Len(modules)
    BY <2>0, <2>3
  <2>10. \A q \in Positions : q \in Positions' /\ St(q)' = St(q) /\ q[1] # n
    <3>1. \A q \in Positions : q[1] \in 0 .. Len(modules)
      BY <1>2, PositionsAreSound
    <3>2. Positions \subseteq Positions'
      BY <2>4, <2>6, <2>9 DEF Positions
    <3> QED
      BY <2>6, <2>9, <3>1, <3>2 DEF St
  <2>11. \A q \in Positions' : q \in Positions \/ (q[1] = n /\ ~(q[2] < 1))
    <3> SUFFICES ASSUME NEW q \in Positions'
                 PROVE  q \in Positions \/ (q[1] = n /\ ~(q[2] < 1))
      OBVIOUS
    <3>1. PICK i \in 0 .. n : q \in {i} \X DOMAIN Text(i)'
      BY <2>4 DEF Positions
    <3>2. CASE i = n
      BY <2>8, <3>1, <3>2
    <3>3. CASE i # n
      <4>1. i \in 0 .. Len(modules) /\ Text(i)' = Text(i)
        BY <2>6, <2>9, <3>3
      <4> QED
        BY <3>1, <4>1 DEF Positions
    <3> QED
      BY <3>2, <3>3
  <2>12. /\ Len(stack') = Len(stack) + 1 /\ DOMAIN stack' = DOMAIN stack \cup {Len(stack) + 1}
         /\ stack'[Len(stack) + 1] = Frame(n) /\ \A k \in DOMAIN stack : stack'[k] = stack[k]
    <3>1. stack \in Seq(FrameType) /\ Len(stack) \in Nat
      BY <1>2 DEF TypeOK, FrameType
    <3>2. PICK e : e = Frame(n)
      OBVIOUS
    <3>3. stack' = Append(stack, e)
      BY <2>1, <3>2
    <3>4. 1 .. Len(stack) + 1 = 1 .. Len(stack) \cup {Len(stack) + 1}
      BY <3>1
    <3> QED
      BY <3>1, <3>2, <3>3, <3>4
  <2>13. Top' = Frame(n)
    BY <2>12 DEF Top
  <2>14. Registered' = Registered
    <3>1. Registered = Positions
      BY <1>2 DEF Registered, Busy
    <3>2. \A q : q \in Registered' <=> q \in Positions
      BY <2>2, <2>10, <2>11, <2>13 DEF Registered, Busy
    <3> QED
      BY <3>1, <3>2
  <2>15. Attached' = Attached
    <3>1. Attached = Positions
      BY <1>2 DEF Attached, Busy
    <3>2. \A q : q \in Attached' <=> q \in Positions
      BY <2>2, <2>10, <2>11, <2>13 DEF Attached, Busy
    <3> QED
      BY <3>1, <3>2
  <2>16. DeclarationInv' /\ BlockInv'
    BY <1>2, <2>1, <2>2, <2>10, <2>13, <2>14, <2>15, QuietStep DEF CalmInv
  <2>17. ProgramsArePrepared'
    BY <1>1, <1>2, <2>2, <2>4, <2>9, <2>13 DEF CalmInv, ProgramsArePrepared, Busy
  <2>18. MethodsAreInBlocks'
    BY <1>2, <2>2, <2>12 DEF CalmInv, MethodsAreInBlocks
  <2> QED
    BY <1>2, <2>1, <2>16, <2>17, <2>18 DEF CalmInv, RegistryInv, RegistryIsWellFormed, registry
<1> QED
  BY <1>3, <1>4

-----------------------------------------------------------------------------
(* When interpreter_run is called nothing has been declared.                *)
LEMMA InitIsCalm == Init => RegistryInv
<1> SUFFICES ASSUME Init PROVE RegistryInv
  OBVIOUS
<1>1. PICK frame : frame = Frame(0)
  OBVIOUS
<1>2. frame.prog = 0 /\ frame.loop = "register" /\ frame.pc = 1 /\ frame.method = 0
  BY <1>1 DEF Frame
<1>3. /\ structs = <<>> /\ interfaces = <<>> /\ modules = <<>> /\ stack = <<frame>>
      /\ scopes = {0}
  BY <1>1 DEF Init
<1>4. Top = frame /\ DOMAIN stack = {1} /\ stack[1] = frame /\ 0 .. Len(modules) = {0}
  BY <1>3 DEF Top
<1>5. TypeOK
  BY InitHolds DEF LoaderInv
<1>6. Registered = {} /\ Attached = {} /\ Begun = {}
  <2>1. \A p \in Positions : p[1] = 0 /\ p[2] \in Nat \ {0}
    BY <1>4, <1>5, PositionsAreSound
  <2>2. \A p \in Positions : p[1] = 0 /\ ~(p[2] < 1)
    BY <2>1
  <2> QED
    BY <1>2, <1>4, <2>2 DEF Registered, Attached, Begun, Busy
<1>7. DOMAIN structs = {} /\ DOMAIN interfaces = {} /\ Len(structs) = 0 /\ Len(interfaces) = 0
  BY <1>3
<1>8. RegistryIsWellFormed
  BY <1>7, LimitAssumption DEF RegistryIsWellFormed
<1>9. DeclarationInv
  BY <1>6, <1>7 DEF DeclarationInv, DeclarationsAreKnown, TypesAreDeclared
<1>10. BlockInv
  BY <1>2, <1>4, <1>6, <1>7
     DEF BlockInv, BlocksAreKnown, InterfacesAreEntered, BlocksAreAttached, PartIsAttached,
         NothingElseIsAttached, MethodsHaveBlocks, InterfacesHaveBlocks, ImplsHaveBlocks, Satisfied
<1>11. ProgramsArePrepared /\ MethodsAreInBlocks
  BY <1>2, <1>3, <1>4 DEF ProgramsArePrepared, MethodsAreInBlocks
<1> QED
  BY <1>8, <1>9, <1>10, <1>11 DEF RegistryInv, CalmInv

(* Every step keeps the registry sound.                                     *)
LEMMA NextKeepsRegistry == LoaderInv /\ RegistryInv /\ [Next]_vars => RegistryInv'
<1> SUFFICES ASSUME LoaderInv, RegistryInv, [Next]_vars PROVE RegistryInv'
  OBVIOUS
<1>1. CASE UNCHANGED vars
  <2>1. UNCHANGED <<structs, interfaces, error, source, modules, stack, bound, scopes, skipping>>
    BY <1>1 DEF vars, registry, loading
  <2>2. /\ UNCHANGED <<Top, Here, Positions, Calm>> /\ \A p : St(p)' = St(p)
        /\ RegistryIsWellFormed' = RegistryIsWellFormed
    BY <2>1 DEF Top, Here, Positions, Calm, hadError, St, Text, RegistryIsWellFormed
  <2>3. UNCHANGED <<Registered, Attached, Begun>>
    BY <2>2 DEF Registered, Attached, Begun, Busy
  <2>4. Calm => DeclarationInv'
    BY <2>1, <2>2, <2>3
       DEF RegistryInv, CalmInv, DeclarationInv, DeclarationsAreKnown, TypesAreDeclared
  <2>5. Calm => ProgramsArePrepared' /\ MethodsAreInBlocks'
    BY <2>1, <2>2 DEF RegistryInv, CalmInv, ProgramsArePrepared, MethodsAreInBlocks, Busy
  <2>6. Calm => BlocksAreKnown' /\ InterfacesAreEntered' /\ BlocksAreAttached'
    BY <2>1, <2>2, <2>3
       DEF RegistryInv, CalmInv, BlockInv, BlocksAreKnown, InterfacesAreEntered, BlocksAreAttached,
           IsBlock
  <2>7. Calm => NothingElseIsAttached'
    BY <2>1, <2>2, <2>3, OriginsStay DEF RegistryInv, CalmInv, BlockInv
  <2>8. Calm => PartIsAttached' /\ Satisfied'
    <3>1. St(Here)' = St(Here)
      BY <2>2 DEF St
    <3> QED
      BY <2>1, <2>2, <3>1
         DEF RegistryInv, CalmInv, BlockInv, PartIsAttached, Satisfied, IsBlock
  <2> QED
    BY <2>2, <2>4, <2>5, <2>6, <2>7, <2>8 DEF RegistryInv, CalmInv, BlockInv
<1>2. CASE Prepare
  BY <1>2, RegisterKeepsRegistry, RegisterDoneKeepsRegistry, OpenBlockKeepsRegistry,
     AttachMethodKeepsRegistry, BlockDoneKeepsRegistry, NotABlockKeepsRegistry,
     AttachDoneKeepsRegistry DEF Prepare
<1>3. ASSUME NEW message, message # "none", Refuse(message) PROVE RegistryInv'
  BY <1>3, StormKeepsRegistry DEF Refuse
<1>4. CASE SkipDeclaration \/ Skip
  BY <1>4, NextStatementKeepsRegistry DEF SkipDeclaration, Skip, At
<1>5. CASE RunOther
  BY <1>3, <1>5, NextStatementKeepsRegistry DEF RunOther, Executes, At
<1>6. ASSUME NEW p \in Path, ImportCached(p) PROVE RegistryInv'
  BY <1>6, NextStatementKeepsRegistry DEF ImportCached, AtImport, Executes, At
<1>7. ASSUME NEW p \in Path, ImportCircular(p) \/ ImportTooMany(p) PROVE RegistryInv'
  BY <1>3, <1>7 DEF ImportCircular, ImportTooMany
<1>8. CASE ProgramDone
  BY <1>8, StormKeepsRegistry DEF ProgramDone
<1>9. CASE Unwind
  BY <1>9, StormKeepsRegistry DEF Unwind, hadError
<1> QED
  BY <1>1, <1>2, <1>4, <1>5, <1>6, <1>7, <1>8, <1>9, ModuleDoneKeepsRegistry,
     ImportNewKeepsRegistry DEF Next, Run, Import, Terminated

(* The invariant of the registry.                                           *)
THEOREM RegistryIsSound == Spec => [](LoaderInv /\ RegistryInv)
<1>1. Init => LoaderInv /\ RegistryInv
  BY InitHolds, InitIsCalm
<1>2. LoaderInv /\ RegistryInv /\ [Next]_vars => (LoaderInv /\ RegistryInv)'
  BY NextKeepsInv, NextKeepsRegistry
<1> QED
  BY <1>1, <1>2, PTL DEF Spec

(* No two types, methods of a type or interfaces of a type have one name,   *)
(* in all files together, and no table outgrows its array.                  *)
THEOREM TablesAreWellFormed == Spec => []RegistryIsWellFormed
<1>1. RegistryInv => RegistryIsWellFormed
  BY DEF RegistryInv
<1> QED
  BY <1>1, RegistryIsSound, PTL

-----------------------------------------------------------------------------
(* Finished types.                                                          *)

(* A sequence without repetitions has as many places as elements.           *)
LEMMA DistinctIsCounted ==
    ASSUME NEW T, NEW q \in Seq(T), \A k, l \in DOMAIN q : q[k] = q[l] => k = l
    PROVE  Len(q) = Cardinality(ToSet(q))
<1>1. Len(q) \in Nat /\ DOMAIN q = 1 .. Len(q)
  OBVIOUS
<1>2. q \in [1 .. Len(q) -> ToSet(q)]
  BY DEF ToSet
<1>3. \A t \in ToSet(q) : \E s \in 1 .. Len(q) : q[s] = t
  BY <1>1 DEF ToSet
<1>4. q \in Bijection(1 .. Len(q), ToSet(q))
  BY <1>1, <1>2, <1>3 DEF Bijection, Injection, Surjection, IsInjective
<1>5. ExistsBijection(1 .. Len(q), ToSet(q))
  BY <1>4 DEF ExistsBijection
<1> QED
  BY <1>1, <1>5, FS_CountingElements

(* While statements run, every block of every file has been attached.       *)
LEMMA EverythingIsAttached ==
    ASSUME LoaderInv, RegistryInv, In("run")
    PROVE  /\ CalmInv /\ Top.method = 0 /\ Begun = Positions /\ Attached = Positions
           /\ scopes = 0 .. Len(modules)
           /\ \A n, s : s \in BlocksFor(n) <=>
                 \E p \in Positions : St(p) = s /\ IsBlock(St(p)) /\ St(p).name = n
<1>1. CalmInv /\ TypeOK /\ Top.method = 0 /\ Top.loop = "run"
  BY TopIsCalm
<1>2. Attached = Positions /\ Begun = Positions
  BY <1>1 DEF Attached, Begun, Busy
<1>3. scopes = 0 .. Len(modules)
  BY <1>1 DEF CalmInv, ProgramsArePrepared, Busy, TypeOK
<1>4. ASSUME NEW s
      PROVE  s \in UNION {ToSet(Text(i)) : i \in scopes} <=> \E p \in Positions : St(p) = s
  <2>1. ASSUME NEW p \in Positions, St(p) = s PROVE s \in UNION {ToSet(Text(i)) : i \in scopes}
    <3>1. p[1] \in scopes /\ p[2] \in DOMAIN Text(p[1]) /\ s = Text(p[1])[p[2]]
      BY <1>1, <1>3, <2>1, PositionsAreSound DEF St
    <3> QED
      BY <3>1 DEF ToSet
  <2>2. ASSUME s \in UNION {ToSet(Text(i)) : i \in scopes} PROVE \E p \in Positions : St(p) = s
    <3>1. PICK i \in scopes : s \in ToSet(Text(i))
      BY <2>2
    <3>2. PICK k \in DOMAIN Text(i) : s = Text(i)[k]
      BY <3>1 DEF ToSet
    <3>3. <<i, k>> \in Positions /\ St(<<i, k>>) = s
      BY <1>1, <1>3, <3>1, <3>2, PositionsAreSound DEF St
    <3> QED
      BY <3>3
  <2> QED
    BY <2>1, <2>2
<1> QED
  BY <1>1, <1>2, <1>3, <1>4 DEF BlocksFor, IsBlock

(* Types are finished in every state of the invariant.                      *)
LEMMA RunningTypesAreComplete == LoaderInv /\ RegistryInv => TypesAreComplete
<1> SUFFICES ASSUME LoaderInv, RegistryInv, In("run"), NEW i \in DOMAIN structs
             PROVE  LET s == structs[i]
                        blocks == BlocksFor(s.name)
                    IN  /\ ToSet(s.methods) = UNION {ToSet(b.methods) : b \in blocks}
                        /\ Len(s.methods) = Cardinality(ToSet(s.methods))
                        /\ ToSet(s.ifaces) = {b.iface : b \in {b \in blocks : b.kind = "implement"}}
                        /\ \A k \in DOMAIN interfaces :
                              Contains(s.ifaces, interfaces[k].name) =>
                                  ToSet(interfaces[k].sigs) \subseteq ToSet(s.methods)
  BY DEF TypesAreComplete
<1>1. PICK s : s = structs[i]
  OBVIOUS
<1>2. PICK blocks : blocks = BlocksFor(s.name)
  OBVIOUS
<1>3. /\ CalmInv /\ Top.method = 0 /\ Begun = Positions /\ Attached = Positions
      /\ \A b : b \in blocks <=>
            \E p \in Positions : St(p) = b /\ IsBlock(St(p)) /\ St(p).name = s.name
  BY <1>2, EverythingIsAttached
<1>4. s \in StructType
  BY <1>1, TypesSplit DEF RegistryTyped, LoaderInv
<1>5. s.methods \in Seq(STRING) /\ s.ifaces \in Seq(STRING)
  BY <1>4 DEF StructType
<1>6. /\ InterfacesAreEntered /\ BlocksAreAttached /\ MethodsHaveBlocks /\ InterfacesHaveBlocks
      /\ Satisfied
  BY <1>3 DEF CalmInv, BlockInv, NothingElseIsAttached
<1>7. ToSet(s.methods) = UNION {ToSet(b.methods) : b \in blocks}
  <2>1. ASSUME NEW m \in ToSet(s.methods) PROVE \E b \in blocks : m \in ToSet(b.methods)
    BY <1>1, <1>3, <1>6 DEF MethodsHaveBlocks
  <2>2. ASSUME NEW b \in blocks PROVE ToSet(b.methods) \subseteq ToSet(s.methods)
    BY <1>1, <1>3, <1>6 DEF BlocksAreAttached
  <2> QED
    BY <2>1, <2>2
<1>8. Len(s.methods) = Cardinality(ToSet(s.methods))
  <2>1. \A k, l \in DOMAIN s.methods : s.methods[k] = s.methods[l] => k = l
    BY <1>1 DEF RegistryInv, RegistryIsWellFormed
  <2> QED
    BY <1>5, <2>1, DistinctIsCounted
<1>9. ToSet(s.ifaces) = {b.iface : b \in {b \in blocks : b.kind = "implement"}}
  <2>1. ASSUME NEW f \in ToSet(s.ifaces) PROVE \E b \in blocks : b.kind = "implement" /\ b.iface = f
    BY <1>1, <1>3, <1>6 DEF InterfacesHaveBlocks, IsBlock
  <2>2. ASSUME NEW b \in blocks, b.kind = "implement" PROVE b.iface \in ToSet(s.ifaces)
    BY <1>1, <1>3, <1>6, <2>2 DEF InterfacesAreEntered
  <2> QED
    BY <2>1, <2>2
<1>10. ASSUME NEW k \in DOMAIN interfaces, Contains(s.ifaces, interfaces[k].name)
       PROVE  ToSet(interfaces[k].sigs) \subseteq ToSet(s.methods)
  <2>1. interfaces[k].name \in ToSet(s.ifaces)
    BY <1>5, <1>10, ContainsIsMembership
  <2> QED
    BY <1>1, <1>3, <1>6, <2>1 DEF Satisfied
<1> QED
  BY <1>1, <1>2, <1>7, <1>8, <1>9, <1>10

(* Whatever statement runs, in whatever file, every type has the methods of *)
(* all the blocks of all files loaded so far and no others, and satisfies   *)
(* the interfaces it implements: interpreter_prepare finishes before any    *)
(* statement, and no load error lets one run.                               *)
THEOREM TypesAreFinished == Spec => []TypesAreComplete
BY RegistryIsSound, RunningTypesAreComplete, PTL

-----------------------------------------------------------------------------
(* What the error messages say.                                             *)

(* The declarations of a name are finitely many places.                     *)
LEMMA DeclaredArePositions ==
    ASSUME TypeOK, NEW kind, NEW n
    PROVE  /\ \A p : p \in Declared(kind, n) <=>
                 p \in Positions /\ St(p).kind = kind /\ St(p).name = n
           /\ IsFiniteSet(Declared(kind, n))
<1> DEFINE OfFile(i) == {<<i, k>> : k \in {k \in DOMAIN Text(i) :
                                         Text(i)[k].kind = kind /\ Text(i)[k].name = n}}
<1>1. Declared(kind, n) = UNION {OfFile(i) : i \in 0 .. Len(modules)}
  BY DEF Declared
<1>2. ASSUME NEW p PROVE p \in Declared(kind, n) <=>
                            p \in Positions /\ St(p).kind = kind /\ St(p).name = n
  <2>1. ASSUME p \in Declared(kind, n) PROVE p \in Positions /\ St(p).kind = kind /\ St(p).name = n
    <3>1. PICK i \in 0 .. Len(modules) : p \in OfFile(i)
      BY <1>1, <2>1
    <3>2. PICK k \in DOMAIN Text(i) : p = <<i, k>> /\ Text(i)[k].kind = kind /\ Text(i)[k].name = n
      BY <3>1
    <3> QED
      BY <3>2, PositionsAreSound DEF St
  <2>2. ASSUME p \in Positions, St(p).kind = kind, St(p).name = n PROVE p \in Declared(kind, n)
    <3>1. p = <<p[1], p[2]>> /\ p[1] \in 0 .. Len(modules) /\ p[2] \in DOMAIN Text(p[1])
      BY <2>2, PositionsAreSound
    <3>2. p \in OfFile(p[1])
      BY <2>2, <3>1 DEF St
    <3> QED
      BY <1>1, <3>1, <3>2
  <2> QED
    BY <2>1, <2>2
<1>3. \A i \in 0 .. Len(modules) : IsFiniteSet(OfFile(i))
  <2> TAKE i \in 0 .. Len(modules)
  <2>1. Text(i) \in Seq(Statements)
    BY TextsAreStatements
  <2>2. IsFiniteSet(1 .. Len(Text(i))) /\ DOMAIN Text(i) = 1 .. Len(Text(i))
    BY <2>1, FS_Interval
  <2>3. IsFiniteSet({i} \X DOMAIN Text(i))
    BY <2>2, FS_Singleton, FS_Product
  <2>4. OfFile(i) \in SUBSET ({i} \X DOMAIN Text(i))
    OBVIOUS
  <2> HIDE DEF OfFile
  <2> QED
    BY <2>3, <2>4, FS_Subset
<1> HIDE DEF OfFile
<1> DEFINE S == {OfFile(i) : i \in 0 .. Len(modules)}
           f == [i \in 0 .. Len(modules) |-> OfFile(i)]
<1>4. IsFiniteSet(S)
  <2>1. f \in Surjection(0 .. Len(modules), S)
    BY DEF Surjection
  <2>2. IsFiniteSet(0 .. Len(modules))
    BY EntriesAreSound, FS_Interval
  <2> HIDE DEF S, f
  <2> QED
    BY <2>1, <2>2, FS_Surjection
<1>5. \A s \in S : IsFiniteSet(s)
  BY <1>3
<1>6. IsFiniteSet(UNION S)
  <2> HIDE DEF S
  <2> QED
    BY <1>4, <1>5, FS_UNION
<1> QED
  BY <1>1, <1>2, <1>6

(* Two places make a duplicate.                                             *)
LEMMA TwoAreMany ==
    ASSUME TypeOK, NEW kind, NEW n, NEW p \in Declared(kind, n), NEW q \in Declared(kind, n), p # q
    PROVE  Cardinality(Declared(kind, n)) > 1
<1> DEFINE D == Declared(kind, n)
<1>1. IsFiniteSet(D)
  BY DeclaredArePositions
<1>2. IsFiniteSet({p}) /\ Cardinality({p}) = 1
  BY FS_Singleton
<1>3. IsFiniteSet({p} \cup {q}) /\ Cardinality({p} \cup {q}) = 2
  BY <1>2, FS_AddElement
<1>4. {p} \cup {q} \in SUBSET D
  OBVIOUS
<1> HIDE DEF D
<1>5. Cardinality({p} \cup {q}) <= Cardinality(D) /\ Cardinality(D) \in Nat
  BY <1>1, <1>4, FS_Subset, FS_CardinalityType
<1>6. Cardinality(D) > 1
  BY <1>3, <1>5
<1> QED
  BY <1>6 DEF D

(* The declarations of the files, the one being looked at included.         *)
LEMMA RegisterIsJustified ==
    ASSUME LoaderInv, RegistryInv, Register, error' # error
    PROVE  Justified(error')
<1>1. At("register") /\ In("register")
  BY DEF Register, At
<1>2. CalmInv /\ TypeOK /\ error = "none" /\ Top.loop = "register" /\ Top \in FrameType
  BY <1>1, TopIsCalm
<1>3. Here \in Positions /\ St(Here) = Statement /\ Here[1] = Top.prog /\ Here[2] = Top.pc
  BY <1>1, <1>2, HereIsAPosition
<1>4. Here \notin Registered
  <2>1. ~(Top.pc < Top.pc)
    BY <1>2 DEF FrameType
  <2> QED
    BY <1>2, <1>3, <2>1 DEF Registered, Busy
<1>5. error' \in {"duplicate struct", "too many structs", "duplicate interface",
                  "too many interfaces"}
  BY DEF Register, RegisterStruct, RegisterInterface, Refuse
<1>6. ASSUME error' = "duplicate struct" PROVE Cardinality(Declared("struct", Statement.name)) > 1
  <2>1. Statement.kind = "struct" /\ Known(structs, Statement.name)
    BY <1>2, <1>6 DEF Register, RegisterStruct, RegisterInterface, Refuse
  <2>2. PICK j \in DOMAIN structs : structs[j].name = Statement.name
    BY <2>1, KnownNames
  <2>3. PICK p \in Registered : St(p).kind = "struct" /\ St(p).name = Statement.name
    BY <1>2, <2>2 DEF CalmInv, DeclarationInv, TypesAreDeclared
  <2>4. p \in Declared("struct", Statement.name) /\ Here \in Declared("struct", Statement.name)
    BY <1>2, <1>3, <2>1, <2>3, DeclaredArePositions, PlacesArePositions
  <2> QED
    BY <1>2, <1>4, <2>3, <2>4, TwoAreMany
<1>7. ASSUME error' = "duplicate interface"
      PROVE  Cardinality(Declared("interface", Statement.name)) > 1
  <2>1. Statement.kind = "interface" /\ Known(interfaces, Statement.name)
    BY <1>2, <1>7 DEF Register, RegisterStruct, RegisterInterface, Refuse
  <2>2. PICK j \in DOMAIN interfaces : interfaces[j].name = Statement.name
    BY <2>1, KnownNames
  <2>3. PICK p \in Registered : St(p).kind = "interface" /\ St(p).name = Statement.name
    BY <1>2, <2>2 DEF CalmInv, DeclarationInv, TypesAreDeclared
  <2>4. p \in Declared("interface", Statement.name) /\ Here \in Declared("interface", Statement.name)
    BY <1>2, <1>3, <2>1, <2>3, DeclaredArePositions, PlacesArePositions
  <2> QED
    BY <1>2, <1>4, <2>3, <2>4, TwoAreMany
<1> QED
  BY <1>5, <1>6, <1>7 DEF Justified

(* At a block: its type or interface is declared nowhere, or it has been    *)
(* there before.                                                            *)
LEMMA OpenBlockIsJustified ==
    ASSUME LoaderInv, RegistryInv, OpenBlock, error' # error
    PROVE  Justified(error')
<1>1. At("attach") /\ Top.method = 0
  BY DEF OpenBlock
<1>2. /\ Calm /\ CalmInv /\ DeclarationInv /\ BlockInv /\ RegistryIsWellFormed /\ TypeOK
      /\ error = "none" /\ Top.loop = "attach" /\ Top \in FrameType
      /\ Here \in Positions /\ St(Here) = Statement /\ Statement \in Statements
  BY <1>1, AttachIsAtABlock
<1>3. Registered = Positions /\ Begun = Attached /\ Here \notin Attached
  <2>1. ~(Top.pc < Top.pc)
    BY <1>2 DEF FrameType
  <2>2. Here[1] = Top.prog /\ Here[2] = Top.pc
    BY DEF Here
  <2> QED
    BY <1>1, <1>2, <2>1, <2>2 DEF Registered, Attached, Begun, Busy
<1>4. ASSUME NEW kind \in {"struct", "interface"}, NEW n,
             ~Known(IF kind = "struct" THEN structs ELSE interfaces, n)
      PROVE  Declared(kind, n) = {}
  <2>1. \A p \in Positions : ~(St(p).kind = kind /\ St(p).name = n)
    BY <1>2, <1>3, <1>4 DEF DeclarationInv, DeclarationsAreKnown
  <2> QED
    BY <1>2, <2>1, DeclaredArePositions
<1>5. CASE Statement.kind = "impl" /\ OpenImpl(Statement)
  <2>1. CASE ~Known(structs, Statement.name) /\ error' = "impl of undefined struct"
    BY <1>4, <2>1 DEF Justified
  <2>2. CASE /\ Known(structs, Statement.name) /\ structs[Find(structs, Statement.name)].hasImpl
             /\ error' = "duplicate impl"
    <3>1. structs \in Seq(StructType)
      BY <1>2, TypesSplit DEF RegistryTyped
    <3>2. PICK i : i = Find(structs, Statement.name)
      OBVIOUS
    <3>3. i \in DOMAIN structs /\ structs[i].name = Statement.name /\ structs[i].hasImpl
      BY <2>2, <3>1, <3>2, FindFinds
    <3>4. PICK p \in Attached : St(p).kind = "impl" /\ St(p).name = Statement.name
      BY <1>2, <1>3, <3>3 DEF BlockInv, NothingElseIsAttached, ImplsHaveBlocks
    <3>5. p \in Declared("impl", Statement.name) /\ Here \in Declared("impl", Statement.name)
      BY <1>2, <1>5, <3>4, DeclaredArePositions, PlacesArePositions
    <3>6. Cardinality(Declared("impl", Statement.name)) > 1
      BY <1>2, <1>3, <3>4, <3>5, TwoAreMany
    <3> QED
      BY <2>2, <3>6 DEF Justified
  <2> QED
    BY <1>5, <2>1, <2>2 DEF OpenImpl, Refuse
<1>6. CASE Statement.kind = "implement" /\ OpenImplement(Statement)
  <2>1. CASE ~Known(interfaces, Statement.iface) /\ error' = "implement of undefined interface"
    BY <1>4, <2>1 DEF Justified
  <2>2. CASE ~Known(structs, Statement.name) /\ error' = "implement for undefined struct"
    BY <1>4, <2>2 DEF Justified
  <2>3. CASE /\ Known(structs, Statement.name) /\ error' = "already implements"
             /\ Contains(structs[Find(structs, Statement.name)].ifaces, Statement.iface)
    <3>1. structs \in Seq(StructType)
      BY <1>2, TypesSplit DEF RegistryTyped
    <3>2. PICK i : i = Find(structs, Statement.name)
      OBVIOUS
    <3>3. i \in DOMAIN structs /\ structs[i].name = Statement.name
      BY <2>3, <3>1, <3>2, FindFinds
    <3>4. Statement.iface \in ToSet(structs[i].ifaces)
      <4>1. structs[i].ifaces \in Seq(STRING)
        <5>1. structs[i] \in StructType
          BY <3>1, <3>3
        <5> QED
          BY <5>1 DEF StructType
      <4> QED
        BY <2>3, <3>2, <4>1, ContainsIsMembership
    <3>5. PICK p \in Attached : /\ St(p).kind = "implement" /\ St(p).name = Statement.name
                                /\ St(p).iface = Statement.iface
      BY <1>2, <1>3, <3>3, <3>4 DEF BlockInv, NothingElseIsAttached, InterfacesHaveBlocks
    <3>6. p \in Declared("implement", Statement.name) /\ Here \in Declared("implement", Statement.name)
      BY <1>2, <1>6, <3>5, DeclaredArePositions, PlacesArePositions
    <3>7. p # Here /\ \A q \in {p, Here} : Text(q[1])[q[2]].iface = Statement.iface
      BY <1>2, <1>3, <3>5 DEF St
    <3> QED
      BY <2>3, <3>6, <3>7 DEF Justified
  <2>4. CASE error' = "implements too many"
    BY <2>4 DEF Justified
  <2> QED
    BY <1>6, <2>1, <2>2, <2>3, <2>4 DEF OpenImplement, Refuse
<1> QED
  BY <1>5, <1>6 DEF OpenBlock

(* At the end of a block: some declaration of the interface asks for more.  *)
LEMMA BlockDoneIsJustified ==
    ASSUME LoaderInv, RegistryInv, BlockDone, error' # error
    PROVE  Justified(error')
<1>1. At("attach") /\ Top.method > Len(Statement.methods)
  BY DEF BlockDone
<1>2. /\ Calm /\ CalmInv /\ DeclarationInv /\ BlockInv /\ RegistryIsWellFormed /\ TypeOK
      /\ error = "none" /\ Top.loop = "attach" /\ Top \in FrameType /\ Top.method \in Nat
      /\ Here \in Positions /\ St(Here) = Statement /\ Statement \in Statements
  BY <1>1, AttachIsAtABlock
<1>3. Here \in Begun
  <2>1. Len(Statement.methods) \in Nat
    BY <1>2 DEF Statements
  <2>2. Top.method # 0
    BY <1>1, <1>2, <2>1
  <2> QED
    BY <2>2 DEF Begun
<1>4. PICK l : l = Find(interfaces, Statement.iface)
  OBVIOUS
<1>5. /\ error' = "does not conform" /\ Statement.kind = "implement"
      /\ ~(ToSet(interfaces[l].sigs) \subseteq ToSet(Statement.methods))
  BY <1>4 DEF BlockDone, CloseBlock, Conforms, Refuse
<1>6. Known(interfaces, Statement.iface)
  BY <1>2, <1>3, <1>5 DEF BlockInv, BlocksAreKnown, IsBlock
<1>7. l \in DOMAIN interfaces /\ interfaces[l].name = Statement.iface
  <2>1. interfaces \in Seq(InterfaceType)
    BY <1>2, TypesSplit DEF RegistryTyped
  <2> QED
    BY <1>4, <1>6, <2>1, FindFinds
<1>8. PICK p \in Registered : /\ St(p).kind = "interface" /\ St(p).name = Statement.iface
                              /\ St(p).methods = interfaces[l].sigs
  BY <1>2, <1>7 DEF DeclarationInv, TypesAreDeclared
<1>9. p \in Declared("interface", Statement.iface)
  BY <1>2, <1>8, DeclaredArePositions, PlacesArePositions
<1>10. ~(ToSet(Text(p[1])[p[2]].methods) \subseteq ToSet(Statement.methods))
  BY <1>5, <1>8 DEF St
<1> QED
  BY <1>5, <1>9, <1>10 DEF Justified

(* The module that an import finds unfinished is one of those being loaded. *)
LEMMA CircularIsJustified ==
    ASSUME LoaderInv, NEW p \in Path, ImportCircular(p)
    PROVE  \E k \in 2 .. Len(stack) : modules[stack[k].prog].path = Statement.name
<1>1. /\ ~hadError /\ stack # <<>> /\ Statement.name = p
      /\ Cached(p) # {} /\ ~modules[EntryOf(p)].env
  BY DEF ImportCircular, AtImport, Executes, At, In
<1>2. Cached(p) \subseteq Nat /\ Cached(p) # {}
  BY <1>1, EntriesAreSound DEF Cached, LoaderInv
<1>3. EntryOf(p) \in Cached(p)
  BY <1>2, LeastIsIn DEF EntryOf
<1>4. EntryOf(p) \in DOMAIN modules /\ modules[EntryOf(p)].path = p
  BY <1>3 DEF Cached
<1>5. PICK k \in DOMAIN stack : stack[k].prog = EntryOf(p)
  BY <1>1, <1>4 DEF LoaderInv, Lives
<1>6. EntryOf(p) # 0
  BY <1>4, EntriesAreSound DEF LoaderInv
<1>7. k # 1
  BY <1>5, <1>6 DEF LoaderInv, Nested
<1>8. k \in 2 .. Len(stack)
  <2>1. DOMAIN stack = 1 .. Len(stack) /\ Len(stack) \in Nat
    BY <1>1, TopIsSound DEF LoaderInv
  <2> QED
    BY <1>7, <2>1
<1> QED
  BY <1>1, <1>4, <1>5, <1>8

(* Every error that is reported.                                            *)
LEMMA ErrorsAreJustified ==
    ASSUME LoaderInv, RegistryInv, Next, error' # error
    PROVE  Justified(error')
<1>1. CASE Prepare
  <2>1. AttachMethod => error' \in {"duplicate method", "too many methods"}
    BY DEF AttachMethod, AddMethod, Refuse
  <2>2. AttachMethod => Justified(error')
    BY <2>1 DEF Justified
  <2> QED
    BY <1>1, <2>2, RegisterIsJustified, OpenBlockIsJustified, BlockDoneIsJustified
       DEF Prepare, RegisterDone, NotABlock, AttachDone
<1>2. RunOther => error' = "runtime error"
  BY DEF RunOther, Refuse
<1>3. ASSUME NEW p \in Path, ImportCircular(p) PROVE Justified(error')
  <2>1. error' = "circular import"
    BY <1>3 DEF ImportCircular, Refuse
  <2> QED
    BY <1>3, <2>1, CircularIsJustified DEF Justified
<1>4. ASSUME NEW p \in Path, ImportTooMany(p) PROVE error' = "too many modules"
  BY <1>4 DEF ImportTooMany, Refuse
<1>5. ASSUME NEW p \in Path, ImportNew(p) PROVE Justified(error')
  <2>1. /\ Statement.name = p
        /\ \/ error' = "could not open"
           \/ error' = "failed to parse" /\ source'[p].status = "broken"
    BY <1>5 DEF ImportNew, AtImport, Refuse
  <2> QED
    BY <2>1 DEF Justified
<1>6. ASSUME NEW p \in Path PROVE ~ImportCached(p)
  BY DEF ImportCached
<1>7. Justified("runtime error") /\ Justified("too many modules")
  BY DEF Justified
<1>8. CASE Run
  BY <1>2, <1>3, <1>4, <1>5, <1>6, <1>7, <1>8
     DEF Run, Import, SkipDeclaration, Skip, ModuleDone, ProgramDone, Unwind
<1>9. ~Terminated
  BY DEF Terminated, vars
<1> QED
  BY <1>1, <1>8, <1>9 DEF Next

(* What the messages say is so: a circular import closes a chain of         *)
(* imports, an undefined type is declared nowhere in the files loaded so    *)
(* far, and a duplicate, or a second implementation, is there twice.        *)
THEOREM MessagesAreTrue == Spec => RefusalsAreJustified
<1>1. LoaderInv /\ RegistryInv /\ [Next]_vars => [error' # error => Justified(error')]_vars
  BY ErrorsAreJustified
<1> QED
  BY <1>1, RegistryIsSound, PTL DEF Spec, RefusalsAreJustified

=============================================================================
