------------------------------- MODULE Loader -------------------------------
(***************************************************************************)
(* A program and the modules it imports: interpreter_run,                  *)
(* interpreter_prepare and load_module of src/interpreter.c.               *)
(*                                                                         *)
(* A file is a sequence of statements: declarations of types (see          *)
(* TypeRegistry), imports, and the rest, which may fail, may raise a       *)
(* signal (return, break, continue) and may call functions, so an import   *)
(* stands for one at the top level or in anything called from there.  What *)
(* a file holds is decided when it is read.                                *)
(***************************************************************************)
EXTENDS TypeRegistry, FiniteSets

CONSTANTS
    Path,        \* what import statements name
    Main,        \* the path of the program itself
    Sources,     \* the files there may be
    MaxModules   \* MAX_MODULES

Statements == [kind : {"struct", "interface", "impl", "implement", "import", "other"},
               name : STRING, iface : STRING, methods : Seq(STRING)]

ASSUME PathAssumption == Main \in Path /\ Path \subseteq STRING /\ MaxModules \in Nat
ASSUME SourceAssumption ==
    \A text \in Sources :
        /\ text \in Seq(Statements)
        /\ \A k \in DOMAIN text : text[k].kind = "import" => text[k].name \in Path

VARIABLES
    source,    \* the contents of each path
    modules,   \* module_paths with module_envs: is the namespace there yet
    stack,     \* the activations of interpreter_run and load_module
    bound,     \* who has an alias for which module
    scopes,    \* the programs whose top-level scope has been made; 0 is the main program
    skipping   \* a signal nobody has received: g_returning, g_breaking or g_continuing

loading == <<modules, stack, bound, scopes>>
vars == <<registry, error, source, loading, skipping>>

Declarations == {"struct", "interface", "impl", "implement"}
RuntimeErrors == {"circular import", "too many modules", "could not open", "failed to parse",
                  "runtime error"}

NoText == <<>>
Unread == [status |-> "unread", text |-> NoText]
File(text) == [status |-> "text", text |-> text]
(* What fopen and the parser may make of a path.                            *)
Contents == {[status |-> "missing", text |-> NoText], [status |-> "broken", text |-> NoText]}
                \cup {File(text) : text \in Sources}

(* A frame is an activation: the program it is about (0 is the main one, i  *)
(* the i-th module), the loop it is in, the statement, and the method.      *)
Frame(i) == [prog |-> i, loop |-> "register", pc |-> 1, method |-> 0]

Text(i) == IF i = 0 THEN source[Main].text ELSE source[modules[i].path].text

Top == stack[Len(stack)]
Below == SubSeq(stack, 1, Len(stack) - 1)
AtEnd == Top.pc > Len(Text(Top.prog))
Statement == Text(Top.prog)[Top.pc]

(* The innermost activation is in this loop, at a statement.                *)
In(loop) ==
    /\ ~hadError
    /\ stack # <<>>
    /\ Top.loop = loop

At(loop) == In(loop) /\ ~AtEnd
EndOf(loop) == In(loop) /\ AtEnd

Goto(frame) == stack' = Append(Below, frame)
NextStatement == Goto([Top EXCEPT !.pc = @ + 1, !.method = 0])
(* After an error the loop is left at once.                                 *)
UnlessRefused(frame) == IF error' = error THEN Goto(frame) ELSE UNCHANGED stack

-----------------------------------------------------------------------------
(* interpreter_prepare.                                                     *)

(* Mutant: one pass; an impl block must follow its struct.                  *)
RegisterInOnePass ==
    /\ At("register")
    /\ \/ Statement.kind = "struct" /\ RegisterStruct(Statement)
       \/ Statement.kind = "interface" /\ RegisterInterface(Statement)
       \/ Statement.kind = "impl" /\ IF Known(structs, Statement.name)
                                    THEN UNCHANGED <<registry, error>>
                                    ELSE Refuse("impl of undefined struct")
       \/ Statement.kind \notin {"struct", "interface", "impl"} /\ UNCHANGED <<registry, error>>
    /\ UnlessRefused([Top EXCEPT !.pc = @ + 1])
    /\ UNCHANGED <<source, modules, bound, scopes, skipping>>

Register ==
    /\ At("register")
    /\ \/ Statement.kind = "struct" /\ RegisterStruct(Statement)
       \/ Statement.kind = "interface" /\ RegisterInterface(Statement)
       \/ Statement.kind \notin {"struct", "interface"} /\ UNCHANGED <<registry, error>>
    /\ UnlessRefused([Top EXCEPT !.pc = @ + 1])
    /\ UNCHANGED <<source, modules, bound, scopes, skipping>>

RegisterDone ==
    /\ EndOf("register")
    /\ Goto([Top EXCEPT !.loop = "attach", !.pc = 1])
    /\ UNCHANGED <<registry, error, source, modules, bound, scopes, skipping>>

OpenBlock ==
    /\ At("attach") /\ Top.method = 0
    /\ \/ Statement.kind = "impl" /\ OpenImpl(Statement)
       \/ Statement.kind = "implement" /\ OpenImplement(Statement)
    /\ UnlessRefused([Top EXCEPT !.method = 1])
    /\ UNCHANGED <<source, modules, bound, scopes, skipping>>

AttachMethod ==
    /\ At("attach") /\ Top.method \in DOMAIN Statement.methods
    /\ AddMethod(Statement, Statement.methods[Top.method])
    /\ UnlessRefused([Top EXCEPT !.method = @ + 1])
    /\ UNCHANGED <<source, modules, bound, scopes, skipping>>

BlockDone ==
    /\ At("attach") /\ Top.method > Len(Statement.methods)
    /\ CloseBlock(Statement)
    /\ UnlessRefused([Top EXCEPT !.pc = @ + 1, !.method = 0])
    /\ UNCHANGED <<source, modules, bound, scopes, skipping>>

NotABlock ==
    /\ At("attach") /\ Statement.kind \notin {"impl", "implement"}
    /\ NextStatement
    /\ UNCHANGED <<registry, error, source, modules, bound, scopes, skipping>>

(* The statements run in the globals, or in a scope that is made now.       *)
AttachDone ==
    /\ EndOf("attach")
    /\ Goto([Top EXCEPT !.loop = "run", !.pc = 1])
    /\ scopes' = scopes \cup {Top.prog}
    /\ UNCHANGED <<registry, error, source, modules, bound, skipping>>

-----------------------------------------------------------------------------
(* The statements of a file.                                                *)

SkipDeclaration ==
    /\ At("run") /\ Statement.kind \in Declarations
    /\ NextStatement
    /\ UNCHANGED <<registry, error, source, modules, bound, scopes, skipping>>

(* exec_stmt does nothing while a signal is under way.                      *)
Skip ==
    /\ At("run") /\ Statement.kind \notin Declarations
    /\ skipping
    /\ NextStatement
    /\ UNCHANGED <<registry, error, source, modules, bound, scopes, skipping>>

Executes(kind) == At("run") /\ Statement.kind = kind /\ ~skipping

(* A statement does its work, or raises a signal, or fails.                 *)
RunOther ==
    /\ Executes("other")
    /\ \/ NextStatement /\ skipping' \in BOOLEAN /\ UNCHANGED <<registry, error>>
       \/ Refuse("runtime error") /\ UNCHANGED <<stack, skipping>>
    /\ UNCHANGED <<source, modules, bound, scopes>>

(* load_module, one action for each way it goes.                            *)
AtImport(p) == Executes("import") /\ Statement.name = p

(* Mutant: the search skips the modules that are still being loaded.        *)
CachedIfReady(p) == {i \in DOMAIN modules : modules[i].path = p /\ modules[i].env}

Cached(p) == {i \in DOMAIN modules : modules[i].path = p}
EntryOf(p) == CHOOSE i \in Cached(p) : \A j \in Cached(p) : i <= j

ImportCached(p) ==
    /\ AtImport(p)
    /\ Cached(p) # {} /\ modules[EntryOf(p)].env
    /\ bound' = bound \cup {<<Top.prog, EntryOf(p)>>}
    /\ NextStatement
    /\ UNCHANGED <<registry, error, source, modules, scopes, skipping>>

ImportCircular(p) ==
    /\ AtImport(p)
    /\ Cached(p) # {} /\ ~modules[EntryOf(p)].env
    /\ Refuse("circular import")
    /\ UNCHANGED <<source, loading, skipping>>

ImportTooMany(p) ==
    /\ AtImport(p)
    /\ Cached(p) = {} /\ Len(modules) >= MaxModules
    /\ Refuse("too many modules")
    /\ UNCHANGED <<source, loading, skipping>>

(* A path that was read before, that of the program, still holds the same.  *)
Read(p) ==
    \E c \in IF source[p] = Unread THEN Contents ELSE {source[p]} :
        source' = [source EXCEPT ![p] = c]

(* Mutant: the namespace is entered when loading begins.                    *)
EnterWithNamespace(p) == modules' = Append(modules, [path |-> p, env |-> TRUE])

Enter(p) == modules' = Append(modules, [path |-> p, env |-> FALSE])

ImportNew(p) ==
    /\ AtImport(p)
    /\ Cached(p) = {} /\ Len(modules) < MaxModules
    /\ Read(p)
    /\ \/ /\ source'[p].status = "missing"
          /\ Refuse("could not open")
          /\ UNCHANGED <<modules, stack>>
       \/ /\ source'[p].status = "broken"
          /\ Enter(p)
          /\ Refuse("failed to parse")
          /\ UNCHANGED stack
       \/ /\ source'[p].status = "text"
          /\ Enter(p)
          /\ stack' = Append(stack, Frame(Len(modules) + 1))
          /\ UNCHANGED <<registry, error>>
    /\ UNCHANGED <<bound, scopes, skipping>>

(* The end of load_module, and of the import statement that called it; also *)
(* of a module whose last statements a signal made it skip.  A signal goes  *)
(* on in the file of the import, or is received by a loop or a call of that *)
(* file in which the import stands.                                         *)
ModuleDone ==
    /\ EndOf("run") /\ Top.prog # 0
    /\ modules' = [modules EXCEPT ![Top.prog].env = TRUE]
    /\ bound' = bound \cup {<<stack[Len(stack) - 1].prog, Top.prog>>}
    /\ stack' = [Below EXCEPT ![Len(stack) - 1].pc = @ + 1]
    /\ skipping' \in {skipping, FALSE}
    /\ UNCHANGED <<registry, error, source, scopes>>

ProgramDone ==
    /\ EndOf("run") /\ Top.prog = 0
    /\ stack' = <<>>
    /\ UNCHANGED <<registry, error, source, modules, bound, scopes, skipping>>

(* Mutant: a module that failed gets its namespace all the same.            *)
UnwindPublishing ==
    /\ hadError /\ stack # <<>>
    /\ stack' = Below
    /\ modules' = [i \in DOMAIN modules |->
                     IF i = Top.prog THEN [modules[i] EXCEPT !.env = TRUE] ELSE modules[i]]
    /\ UNCHANGED <<registry, error, source, bound, scopes, skipping>>

(* After an error each activation returns; the entry of a module that did   *)
(* not get to its end stays without a namespace.                            *)
Unwind ==
    /\ hadError /\ stack # <<>>
    /\ stack' = Below
    /\ UNCHANGED <<registry, error, source, modules, bound, scopes, skipping>>

Terminated == stack = <<>> /\ UNCHANGED vars

-----------------------------------------------------------------------------
Init ==
    /\ structs = <<>> /\ interfaces = <<>> /\ error = "none"
    /\ \E text \in Sources : source = [p \in Path |-> IF p = Main THEN File(text) ELSE Unread]
    /\ modules = <<>>
    /\ stack = <<Frame(0)>>
    /\ bound = {}
    /\ scopes = {0}
    /\ skipping = FALSE

Prepare == Register \/ RegisterDone \/ OpenBlock \/ AttachMethod \/ BlockDone \/ NotABlock
                    \/ AttachDone
Import == \E p \in Path : ImportCached(p) \/ ImportCircular(p) \/ ImportTooMany(p) \/ ImportNew(p)
Run == SkipDeclaration \/ Skip \/ RunOther \/ Import \/ ModuleDone \/ ProgramDone \/ Unwind

Next == Prepare \/ Run \/ Terminated

Spec == Init /\ [][Next]_vars
-----------------------------------------------------------------------------
TypeOK ==
    /\ structs \in Seq(StructType)
    /\ interfaces \in Seq(InterfaceType)
    /\ error \in LoadErrors \cup RuntimeErrors \cup {"none"}
    /\ source \in [Path -> Contents \cup {Unread}]
    /\ modules \in Seq([path : Path, env : BOOLEAN])
    /\ stack \in Seq([prog : 0 .. Len(modules), loop : {"register", "attach", "run"},
                      pc : Nat \ {0}, method : Nat])
    /\ bound \subseteq (0 .. Len(modules)) \X (1 .. Len(modules))
    /\ scopes \subseteq 0 .. Len(modules)
    /\ skipping \in BOOLEAN

(* The tables stay within the arrays of the interpreter, and a search by    *)
(* name has one answer: no two types, methods of a type or interfaces of a  *)
(* type have the same name (the duplicate checks of interpreter_prepare and *)
(* type_add_method, over all files together).                               *)
RegistryIsWellFormed ==
    /\ Len(structs) <= MaxStructs /\ Len(interfaces) <= MaxInterfaces
    /\ \A i, j \in DOMAIN structs : structs[i].name = structs[j].name => i = j
    /\ \A i, j \in DOMAIN interfaces : interfaces[i].name = interfaces[j].name => i = j
    /\ \A i \in DOMAIN structs :
          LET s == structs[i]
          IN  /\ Len(s.methods) <= MaxMethods /\ Len(s.ifaces) <= MaxImplIfaces
              /\ \A k, l \in DOMAIN s.methods : s.methods[k] = s.methods[l] => k = l
              /\ \A k, l \in DOMAIN s.ifaces : s.ifaces[k] = s.ifaces[l] => k = l

(* The blocks of the programs that have been prepared.                      *)
BlocksFor(n) ==
    {s \in UNION {ToSet(Text(i)) : i \in scopes} :
        s.kind \in {"impl", "implement"} /\ s.name = n}

(* Whatever statement runs, in whatever file, every type it can see is      *)
(* finished: it has the methods of all the blocks of all the programs that  *)
(* were prepared, no others, and the interfaces it implements are           *)
(* satisfied.  A load error half way leaves types without their methods;    *)
(* no statement ever runs with them.                                        *)
TypesAreComplete ==
    In("run") =>
        \A i \in DOMAIN structs :
            LET s == structs[i]
                blocks == BlocksFor(s.name)
            IN  /\ ToSet(s.methods) = UNION {ToSet(b.methods) : b \in blocks}
                /\ Len(s.methods) = Cardinality(ToSet(s.methods))
                /\ ToSet(s.ifaces) = {b.iface : b \in {b \in blocks : b.kind = "implement"}}
                /\ \A k \in DOMAIN interfaces :
                      Contains(s.ifaces, interfaces[k].name) =>
                          ToSet(interfaces[k].sigs) \subseteq ToSet(s.methods)

(* Each activation of load_module is the loading of a module that has no    *)
(* namespace yet, begun by the import at which the activation below it      *)
(* stands; and there is no other module without a namespace.  So a NULL     *)
(* entry of module_envs means a circular import and nothing else.           *)
LoadingIsTheStack ==
    ~hadError =>
        /\ {i \in DOMAIN modules : ~modules[i].env} = {stack[k].prog : k \in DOMAIN stack} \ {0}
        /\ \A k \in DOMAIN stack : stack[k].prog = 0 <=> k = 1
        /\ \A k \in 2 .. Len(stack) :
              LET caller == stack[k - 1]
              IN  /\ caller.prog < stack[k].prog
                  /\ caller.loop = "run" /\ caller.pc \in DOMAIN Text(caller.prog)
                  /\ Text(caller.prog)[caller.pc].kind = "import"
                  /\ Text(caller.prog)[caller.pc].name = modules[stack[k].prog].path

(* An alias is only ever bound to a module that has no statement left to    *)
(* run (each was executed, or skipped over because of a signal at the top   *)
(* level of the file), and all imports of a path share one namespace ("the  *)
(* imported file runs once").                                               *)
NamespacesAreShared ==
    /\ \A i, j \in DOMAIN modules : modules[i].path = modules[j].path => i = j
    /\ \A b \in bound : modules[b[2]].env /\ \A k \in DOMAIN stack : stack[k].prog # b[2]

(* What the messages say is so: a circular import is a chain of imports     *)
(* that leads back to where it began, a type that is called undefined is    *)
(* declared nowhere in this file or in those loaded before it, also not     *)
(* further down, and what is called a duplicate, or a second implementation *)
(* of an interface by a type, is there twice in these files.                *)
Declared(kind, n) ==
    UNION {{<<i, k>> : k \in {k \in DOMAIN Text(i) :
                                 Text(i)[k].kind = kind /\ Text(i)[k].name = n}} :
            i \in 0 .. Len(modules)}

Justified(message) ==
    /\ message = "circular import" =>
          \E k \in 2 .. Len(stack) : modules[stack[k].prog].path = Statement.name
    /\ message \in {"impl of undefined struct", "implement for undefined struct"} =>
          Declared("struct", Statement.name) = {}
    /\ message = "implement of undefined interface" =>
          Declared("interface", Statement.iface) = {}
    /\ message = "duplicate struct" => Cardinality(Declared("struct", Statement.name)) > 1
    /\ message = "duplicate interface" => Cardinality(Declared("interface", Statement.name)) > 1
    /\ message = "duplicate impl" => Cardinality(Declared("impl", Statement.name)) > 1
    /\ message = "already implements" =>
          \E d, e \in Declared("implement", Statement.name) :
              d # e /\ \A p \in {d, e} : Text(p[1])[p[2]].iface = Statement.iface
    /\ message = "does not conform" =>
          \E d \in Declared("interface", Statement.iface) :
              ~(ToSet(Text(d[1])[d[2]].methods) \subseteq ToSet(Statement.methods))
    /\ message = "failed to parse" => source'[Statement.name].status = "broken"

RefusalsAreJustified == [][error' # error => Justified(error')]_vars

(* Loading is nested, as NestedLoading says.                                *)
PathsOf(frames) == [k \in 1 .. Len(frames) - 1 |-> modules[frames[k + 1].prog].path]

Promise == INSTANCE NestedLoading WITH
    loading <- PathsOf(stack),
    ready <- {modules[i].path : i \in {i \in DOMAIN modules : modules[i].env}},
    failed <- hadError

ImplementsNestedLoading == Promise!Spec
=============================================================================
