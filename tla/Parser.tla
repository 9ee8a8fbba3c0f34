------------------------------- MODULE Parser -------------------------------
(***************************************************************************)
(* The recursive-descent parser of src/parser.c, with the node             *)
(* constructors of src/ast.c.  Its call stack is a list of what remains to *)
(* be parsed: every function below is an action that looks at the current  *)
(* token, consumes it or not, and puts in its own place the calls it makes.*)
(*                                                                         *)
(* The text is either one of Texts, or begins as one of Openings does and  *)
(* goes on with up to MaxTokens tokens of a vocabulary, chosen when the    *)
(* parser asks for them.                                                   *)
(* Newlines, which the parser skips, and lines are left out.               *)
(***************************************************************************)
EXTENDS Integers, Sequences, SequencesExt

CONSTANTS
    Texts,      \* whole texts
    Openings,   \* [start, words]: the start of a text, and what it goes on with
    MaxTokens   \* bound on the tokens after the start

EOF == "EOF"
NoToken == "none"
Comma == ","
Semicolon == ";"
LBrace == "{"
RBrace == "}"

Identifiers == {"x", "y"}
Literals == {"num", "str", "true", "false", "null"}
Types == {"int", "float", "string", "bool", "list", "map", "any"} \cup Identifiers

(* The operators of each level, from parse_expr down to parse_factor.       *)
OperatorsAt == << {"||"}, {"&&"}, {"==", "!="}, {"<", "<=", ">", ">="}, {"+", "-"},
                  {"*", "/", "%"} >>
Levels == DOMAIN OperatorsAt
Compound == {"+=", "-=", "*=", "/=", "%="}

Token == Compound \cup Literals \cup Types
            \cup {"fn", "struct", "interface", "impl", "implement", "import", "as", "return",
                  "if", "else", "while", "for", "in", "break", "continue", "!", "=", "++", "--",
                  "(", ")", LBrace, RBrace, "[", "]", Comma, ":", Semicolon, ".", "error", EOF}
            \cup UNION {OperatorsAt[l] : l \in Levels}

ASSUME TextAssumption ==
    /\ \A t \in Texts : t \in Seq(Token \ {EOF})
    /\ \A o \in Openings : o.start \in Seq(Token \ {EOF}) /\ o.words \subseteq Token \ {EOF}
    /\ MaxTokens \in Nat

VARIABLES
    input,     \* the text, as far as it is known
    pos,       \* how many of its tokens the lexer has delivered
    words,     \* the vocabulary it goes on with; empty if it is one of Texts
    free,      \* how many more tokens it may have
    current,   \* p->current
    pending,   \* p->pending, if p->has_pending
    todo,      \* what remains to be parsed, the innermost call first
    values,    \* the nodes that the calls have built so far
    hadError   \* p->had_error

text == <<input, pos, words, free>>
tokens == <<text, current, pending>>
vars == <<tokens, todo, values, hadError>>

(* A call of the parser, or one thing that remains of its body.             *)
Goal(do, arg, n) == [do |-> do, arg |-> arg, n |-> n]
Parse(what) == Goal(what, NoToken, 0)
Expect(token) == Goal("expect", token, 0)
Name == Goal("take", "identifier", 0)
Make(kind, n) == Goal("make", kind, n)       \* a node of the last n values
Add == Parse("add")                          \* the last value joins the one before
More(loop, n) == Goal("more", loop, n)       \* another round after a comma

Node(kind, kids) == [kind |-> kind, kids |-> kids]
Leaf(token) == Node(token, <<>>)
Nothing == Leaf(NoToken)

Top == todo[1]
At(what) == todo # <<>> /\ Top.do = what
Is(class) == current \in class
AtEnd(close) == current \in {close, EOF}

-----------------------------------------------------------------------------
(* The tokens.                                                              *)

Then(goals) == todo' = goals \o Tail(todo)

(* lexer_next, which goes on saying that the text is at its end.            *)
Fetch ==
    \/ /\ pos < Len(input)
       /\ current' = input[pos + 1] /\ pos' = pos + 1
       /\ UNCHANGED <<input, words, free>>
    \/ /\ pos = Len(input) /\ pos > 0 /\ input[pos] = EOF
       /\ current' = EOF
       /\ UNCHANGED text
    \/ /\ pos = Len(input) /\ (pos > 0 => input[pos] # EOF)
       /\ \/ current' \in words /\ free > 0 /\ free' = free - 1
          \/ current' = EOF /\ UNCHANGED free
       /\ input' = Append(input, current') /\ pos' = pos + 1
       /\ UNCHANGED words

(* Mutant: the token that was put back is kept.                             *)
AdvanceKeepingPending ==
    \/ pending # NoToken /\ current' = pending /\ UNCHANGED <<pending, text>>
    \/ pending = NoToken /\ Fetch /\ UNCHANGED pending

(* advance.                                                                 *)
Advance ==
    \/ pending # NoToken /\ current' = pending /\ pending' = NoToken /\ UNCHANGED text
    \/ pending = NoToken /\ Fetch /\ UNCHANGED pending

Consume(goals) == Advance /\ Then(goals)
Skip(goals) == UNCHANGED tokens /\ Then(goals)

(* The identifier is current again, and the token after it comes next.      *)
PutBack(identifier, goals) ==
    /\ pending' = current
    /\ current' = identifier
    /\ UNCHANGED text
    /\ Then(goals)

(* What is built after an error is not looked at.                           *)
Put(v) == values' = (IF hadError THEN <<>> ELSE Append(values, v))
Fine == UNCHANGED hadError
Same == UNCHANGED <<values, hadError>>
Error == hadError' = TRUE /\ values' = <<>>

-----------------------------------------------------------------------------
(* parser_init.                                                             *)
Prime == At("prime") /\ Consume(<<>>) /\ Same

(* expect.                                                                  *)
ExpectToken ==
    /\ At("expect")
    /\ \/ Is({Top.arg}) /\ Consume(<<>>) /\ Same
       \/ ~Is({Top.arg}) /\ Skip(<<>>) /\ Error

(* expect, with token_to_str of what was expected.                          *)
Take ==
    LET wanted == IF Top.arg = "identifier" THEN Identifiers ELSE {Top.arg}
    IN  /\ At("take")
        /\ \/ Is(wanted) /\ Put(Leaf(current)) /\ Fine /\ Consume(<<>>)
           \/ ~Is(wanted) /\ Skip(<<>>) /\ Error

(* expr_alloc and stmt_alloc, when the parts are there.                     *)
Older(n) == SubSeq(values, 1, Len(values) - n)
Newest(n) == SubSeq(values, Len(values) - n + 1, Len(values))

MakeNode ==
    /\ At("make")
    /\ values' = IF hadError THEN <<>> ELSE Append(Older(Top.n), Node(Top.arg, Newest(Top.n)))
    /\ Skip(<<>>) /\ Fine

(* vector_push.                                                             *)
AddNode ==
    /\ At("add")
    /\ values' = IF hadError THEN <<>>
                 ELSE LET parent == values[Len(values) - 1]
                      IN  Append(Older(2), Node(parent.kind, parent.kids \o Newest(1)))
    /\ Skip(<<>>) /\ Fine

(* The comma between the members of a list.                                 *)
ReadMore ==
    /\ At("more") /\ Same
    /\ \/ Is({Comma}) /\ Consume(<<Goal(Top.arg, NoToken, Top.n)>>)
       \/ ~Is({Comma}) /\ Skip(IF Top.arg = "arguments" THEN <<Expect(")")>> ELSE <<>>)

-----------------------------------------------------------------------------
(* Types and parameters.                                                    *)

(* parse_type_ann, parse_type.                                              *)
ParseType ==
    /\ At("type")
    /\ \/ /\ Is(Types) /\ Put(Leaf(current)) /\ Fine
          /\ Consume(<<Goal("type_arguments", current, 0)>>)
       \/ ~Is(Types) /\ Error /\ Skip(<<Goal("type_arguments", "int", 0)>>)

TypeArgument(close) == <<Parse("type"), Add, Expect(close)>>

ParseTypeArguments ==
    /\ At("type_arguments")
    /\ \/ Is({"<"}) /\ Top.arg = "list" /\ Consume(TypeArgument(">")) /\ Same
       \/ /\ Is({"<"}) /\ Top.arg = "map"
          /\ Consume(TypeArgument(Comma) \o TypeArgument(">")) /\ Same
       \/ /\ Is({"<"}) /\ Top.arg \notin {"list", "map"}
          /\ Consume(<<>>) /\ Error
       \/ ~Is({"<"}) /\ Skip(<<>>) /\ Same

(* parse_param.                                                             *)
Parameter == <<Name, Parse("parameter_type")>>

ParseParameterType ==
    /\ At("parameter_type") /\ Same
    /\ \/ Is({":"}) /\ Consume(<<Parse("type"), Parse("base"), Make("parameter", 2)>>)
       \/ ~Is({":"}) /\ Skip(<<Make("parameter", 1)>>)

(* Only the base of the annotation is kept.                                 *)
KeepBase ==
    /\ At("base")
    /\ values' = IF hadError THEN <<>> ELSE Append(Older(1), Leaf(values[Len(values)].kind))
    /\ Skip(<<>>) /\ Fine

-----------------------------------------------------------------------------
(* Expressions.                                                             *)

LoopAt(l) == Goal("operators", NoToken, l)

(* The calls down the ladder from level l, to parse_unary, and the loops    *)
(* they come back to.                                                       *)
Ladder(l) == <<Parse("unary")>> \o [k \in 1 .. Len(OperatorsAt) + 1 - l |->
                                       LoopAt(Len(OperatorsAt) + 1 - k)]
Expression == Ladder(1)

(* Mutant: the right operand is parsed at the level of the operator.        *)
ParseOperatorsToTheRight ==
    /\ At("operators") /\ Same
    /\ \/ /\ Is(OperatorsAt[Top.n])
          /\ Consume(Ladder(Top.n) \o <<Make(current, 2), Top>>)
       \/ ~Is(OperatorsAt[Top.n]) /\ Skip(<<>>)

(* The loops of parse_expr, parse_and, ..., parse_factor.                   *)
ParseOperators ==
    /\ At("operators") /\ Same
    /\ \/ /\ Is(OperatorsAt[Top.n])
          /\ Consume(Ladder(Top.n + 1) \o <<Make(current, 2), Top>>)
       \/ ~Is(OperatorsAt[Top.n]) /\ Skip(<<>>)

(* parse_unary.                                                             *)
ParseUnary ==
    /\ At("unary") /\ Same
    /\ \/ Is({"-", "!"}) /\ Consume(<<Parse("unary"), Make(current, 1)>>)
       \/ ~Is({"-", "!"}) /\ Skip(<<Parse("primary"), Parse("postfix")>>)

(* parse_primary.                                                           *)
ParsePrimary ==
    /\ At("primary")
    /\ \/ Is(Literals) /\ Put(Leaf(current)) /\ Fine /\ Consume(<<>>)
       \/ Is(Identifiers) /\ Put(Leaf(current)) /\ Fine /\ Consume(<<Parse("call")>>)
       \/ Is({"("}) /\ Consume(Expression \o <<Expect(")")>>) /\ Same
       \/ Is({"["}) /\ Consume(<<Make("list_literal", 0), Parse("items"), Expect("]")>>) /\ Same
       \/ /\ Is({LBrace})
          /\ Consume(<<Make("map_literal", 0), Parse("entries"), Expect(RBrace)>>) /\ Same
       \/ ~Is(Literals \cup Identifiers \cup {"(", "[", LBrace}) /\ Error /\ Skip(<<>>)

ParseCall ==
    /\ At("call") /\ Same
    /\ \/ Is({"("}) /\ Consume(<<Make("call", 1), Parse("arguments")>>)
       \/ ~Is({"("}) /\ Skip(<<>>)

ParseItems ==
    /\ At("items") /\ Same
    /\ Skip(IF AtEnd("]") THEN <<>> ELSE Expression \o <<Add, More("items", 0)>>)

ParseEntries ==
    /\ At("entries") /\ Same
    /\ Skip(IF AtEnd(RBrace) THEN <<>>
            ELSE Expression \o <<Expect(":")>> \o Expression
                    \o <<Make("entry", 2), Add, More("entries", 0)>>)

(* parse_args; n is 1 when there has been a named argument.                 *)
Positional(n) == Expression \o <<Add, More("arguments", n)>>
PositionalAfter(n) == IF n = 1 THEN Error ELSE Same

ParseArguments ==
    /\ At("arguments")
    /\ \/ AtEnd(")") /\ Skip(<<Expect(")")>>) /\ Same
       \/ Is(Identifiers) /\ Consume(<<Goal("argument", current, Top.n)>>) /\ Same
       \/ ~AtEnd(")") /\ ~Is(Identifiers) /\ Skip(Positional(Top.n)) /\ PositionalAfter(Top.n)

(* Mutant: the identifier is forgotten.                                     *)
ParseArgumentAfterIdentifierLosingIt ==
    /\ At("argument")
    /\ \/ /\ Is({"="}) /\ Put(Leaf(Top.arg)) /\ Fine
          /\ Consume(Expression \o <<Make("named", 2), Add, More("arguments", 1)>>)
       \/ ~Is({"="}) /\ Skip(Positional(Top.n)) /\ PositionalAfter(Top.n)

ParseArgumentAfterIdentifier ==
    /\ At("argument")
    /\ \/ /\ Is({"="}) /\ Put(Leaf(Top.arg)) /\ Fine
          /\ Consume(Expression \o <<Make("named", 2), Add, More("arguments", 1)>>)
       \/ ~Is({"="}) /\ PutBack(Top.arg, Positional(Top.n)) /\ PositionalAfter(Top.n)

(* parse_postfix.                                                           *)
ParsePostfix ==
    /\ At("postfix") /\ Same
    /\ \/ Is({"["}) /\ Consume(Expression \o <<Expect("]"), Make("index", 2), Top>>)
       \/ Is({"("}) /\ Consume(<<Make("call_value", 1), Parse("arguments"), Top>>)
       \/ Is({"."}) /\ Consume(<<Name, Parse("member"), Top>>)
       \/ ~Is({"[", "(", "."}) /\ Skip(<<>>)

ParseMember ==
    /\ At("member") /\ Same
    /\ \/ Is({"("}) /\ Consume(<<Make("method", 2), Parse("arguments")>>)
       \/ ~Is({"("}) /\ Skip(<<Make("field", 2)>>)

-----------------------------------------------------------------------------
(* Statements.                                                              *)

Block == <<Make("block", 0), Parse("statements"), Expect(RBrace)>>
Braced == <<Expect(LBrace)>> \o Block

(* parse_fn_sig, parse_fn_def.                                              *)
Signature(kind) ==
    <<Name, Expect("("), Make(kind, 1), Parse("parameters"), Expect(")")>>
Function == Signature("fn") \o Braced \o <<Add>>

(* parse_struct_def, parse_interface_def, parse_impl, parse_implement.      *)
Members(kind, names, loop) ==
    <<Expect(LBrace), Make(kind, names), Goal("members", loop, 0), Expect(RBrace)>>

(* The loop of parse_block.                                                 *)
ParseStatements ==
    /\ At("statements") /\ Same
    /\ Skip(IF AtEnd(RBrace) THEN <<>> ELSE <<Parse("statement"), Add, Top>>)

ParseParameters ==
    /\ At("parameters") /\ Same
    /\ Skip(IF AtEnd(")") THEN <<>> ELSE Parameter \o <<Add, More("parameters", 0)>>)

ParseMembers ==
    LET member == CASE Top.arg = "fields" -> Parameter
                    [] Top.arg = "signatures" -> <<Expect("fn")>> \o Signature("signature")
                    [] Top.arg = "methods" -> <<Expect("fn")>> \o Function
    IN  /\ At("members") /\ Same
        /\ Skip(IF AtEnd(RBrace) THEN <<>> ELSE member \o <<Add, Top>>)

(* parse_stmt.                                                              *)
Simple == Expression \o <<Parse("assignment")>>

ParseStatement ==
    /\ At("statement")
    /\ \/ /\ Same
          /\ \/ Is({"fn"}) /\ Consume(Function)
             \/ Is({"struct"}) /\ Consume(<<Name>> \o Members("struct", 1, "fields"))
             \/ Is({"interface"}) /\ Consume(<<Name>> \o Members("interface", 1, "signatures"))
             \/ Is({"impl"}) /\ Consume(<<Name>> \o Members("impl", 1, "methods"))
             \/ /\ Is({"import"})
                /\ Consume(<<Goal("take", "str", 0), Expect("as"), Name, Make("import", 2)>>)
             \/ Is({"return"}) /\ Consume(<<Parse("result")>>)
             \/ Is({"if"}) /\ Consume(Expression \o Braced \o <<Parse("else")>>)
             \/ Is({"while"}) /\ Consume(Expression \o Braced \o <<Make("while", 2)>>)
             \/ Is({"for"}) /\ Consume(<<Parse("for")>>)
             \/ Is(Identifiers) /\ Consume(<<Goal("simple", current, 0)>>)
       \/ Is({"break", "continue"}) /\ Put(Leaf(current)) /\ Fine /\ Consume(<<>>)
       \/ /\ ~Is(Identifiers \cup {"fn", "struct", "interface", "impl", "import", "return", "if",
                                   "while", "for", "break", "continue"})
          /\ Skip(Simple) /\ Same

(* A return without a value is one before a closing brace.                  *)
ParseResult ==
    /\ At("result") /\ Same
    /\ Skip(IF Is({RBrace}) THEN <<Make("return", 0)>> ELSE Expression \o <<Make("return", 1)>>)

(* Mutant: an if without an else counts on a branch for it.                 *)
ParseElseAlways ==
    /\ At("else") /\ Same
    /\ \/ Is({"else"}) /\ Consume(<<Parse("else_branch")>>)
       \/ ~Is({"else"}) /\ Skip(<<Make("if", 3)>>)

ParseElse ==
    /\ At("else") /\ Same
    /\ \/ Is({"else"}) /\ Consume(<<Parse("else_branch")>>)
       \/ ~Is({"else"}) /\ Skip(<<Make("if", 2)>>)

ParseElseBranch ==
    /\ At("else_branch") /\ Same
    /\ Skip((IF Is({"if"}) THEN <<Parse("statement")>> ELSE Braced) \o <<Make("if", 3)>>)

(* for x in ..., or for with three clauses, each of which may be missing.   *)
Clauses ==
    <<Goal("clause", Semicolon, 0), Expect(Semicolon), Goal("clause", Semicolon, 1),
      Expect(Semicolon), Goal("clause", LBrace, 0)>> \o Braced \o <<Make("for", 4)>>

ParseFor ==
    /\ At("for") /\ Same
    /\ \/ Is(Identifiers) /\ Consume(<<Goal("for_in", current, 0)>>)
       \/ ~Is(Identifiers) /\ Skip(Clauses)

ParseForIn ==
    /\ At("for_in")
    /\ \/ /\ Is({"in"}) /\ Put(Leaf(Top.arg)) /\ Fine
          /\ Consume(Expression \o Braced \o <<Make("for_in", 3)>>)
       \/ ~Is({"in"}) /\ PutBack(Top.arg, Clauses) /\ Same

ParseClause ==
    /\ At("clause")
    /\ \/ Is({Top.arg}) /\ Put(Nothing) /\ Fine /\ Skip(<<>>)
       \/ ~Is({Top.arg}) /\ Same /\ Skip(IF Top.n = 1 THEN Expression ELSE <<Parse("statement")>>)

(* A statement that begins with an identifier.                              *)
ParseSimple ==
    /\ At("simple")
    /\ \/ /\ Is({":"}) /\ Put(Leaf(Top.arg)) /\ Fine
          /\ Consume(<<Parse("type"), Expect("=")>> \o Expression \o <<Make("declaration", 3)>>)
       \/ /\ Is({"implement"}) /\ Put(Leaf(Top.arg)) /\ Fine
          /\ Consume(<<Name>> \o Members("implement", 2, "methods"))
       \/ ~Is({":", "implement"}) /\ PutBack(Top.arg, Simple) /\ Same

(* The end of parse_stmt.  x++ becomes x += 1.                              *)
One == "1"

ParseAssignment ==
    /\ At("assignment")
    /\ \/ Is({"="} \cup Compound) /\ Consume(Expression \o <<Goal("assign", current, 0)>>) /\ Same
       \/ Is({"++"}) /\ Put(Leaf(One)) /\ Fine /\ Consume(<<Goal("assign", "+=", 0)>>)
       \/ Is({"--"}) /\ Put(Leaf(One)) /\ Fine /\ Consume(<<Goal("assign", "-=", 0)>>)
       \/ ~Is({"=", "++", "--"} \cup Compound) /\ Skip(<<Make("expression", 1)>>) /\ Same

(* make_assign.                                                             *)
MakeAssign ==
    LET target == values[Len(values) - 1]
        assignable == target.kind \in Identifiers \cup {"field", "index"}
    IN  /\ At("assign")
        /\ \/ ~hadError /\ assignable /\ Skip(<<Make(Top.arg, 2)>>) /\ Same
           \/ ~hadError /\ ~assignable /\ Skip(<<>>) /\ Error
           \/ hadError /\ Skip(<<>>) /\ Same

(* Mutant: the end of the text is passed over like an empty statement.      *)
ParseProgramAgain ==
    /\ At("program") /\ Same
    /\ Skip(IF hadError THEN <<>>
            ELSE IF Is({EOF}) THEN <<Top>> ELSE <<Parse("statement"), Add, Top>>)

(* The loop of parser_parse, the only one that looks for an error.          *)
ParseProgram ==
    /\ At("program") /\ Same
    /\ Skip(IF Is({EOF}) \/ hadError THEN <<>> ELSE <<Parse("statement"), Add, Top>>)

Done == todo = <<>> /\ UNCHANGED vars

-----------------------------------------------------------------------------
Init ==
    /\ \/ words = {} /\ input \in {Append(t, EOF) : t \in Texts} /\ free = 0
       \/ \E o \in Openings : words = o.words /\ input = o.start /\ free = MaxTokens
    /\ pos = 0
    /\ current = NoToken /\ pending = NoToken
    /\ todo = <<Parse("prime"), Make("block", 0), Parse("program")>>
    /\ values = <<>>
    /\ hadError = FALSE

Helpers == Prime \/ ExpectToken \/ Take \/ MakeNode \/ AddNode \/ ReadMore
Annotations == ParseType \/ ParseTypeArguments \/ ParseParameterType \/ KeepBase
Expressions ==
    \/ ParseOperators \/ ParseUnary \/ ParsePrimary \/ ParseCall \/ ParseItems \/ ParseEntries
    \/ ParseArguments \/ ParseArgumentAfterIdentifier \/ ParsePostfix \/ ParseMember
Statements ==
    \/ ParseStatement \/ ParseStatements \/ ParseParameters \/ ParseMembers \/ ParseResult
    \/ ParseElse \/ ParseElseBranch \/ ParseFor \/ ParseForIn \/ ParseClause
    \/ ParseSimple \/ ParseAssignment \/ MakeAssign \/ ParseProgram

Next == Helpers \/ Annotations \/ Expressions \/ Statements \/ Done

Spec == Init /\ [][Next]_vars
FairSpec == Spec /\ WF_vars(Next)

-----------------------------------------------------------------------------
Finished == todo = <<>>
Accepted == Finished /\ ~hadError

(* Types.                                                                   *)
TypeOK ==
    /\ input \in Seq(Token) /\ pos \in 0 .. Len(input)
    /\ words \in SUBSET Token /\ free \in Nat
    /\ current \in Token \cup {NoToken} /\ pending \in Token \cup {NoToken}
    /\ hadError \in BOOLEAN /\ (hadError => values = <<>>)

(* The place of the current token in the text.                              *)
Place == IF pending = NoToken THEN pos ELSE pos - 1

(* parse_args, parse_stmt and its for look one token past an identifier and *)
(* put that token back.                                                     *)
PutsBack ==
    \/ ParseArgumentAfterIdentifier /\ ~Is({"="})
    \/ ParseForIn /\ ~Is({"in"})
    \/ ParseSimple /\ ~Is({":", "implement"})

(* There is room for one token in p->pending, and a for puts one back just  *)
(* before the statement after it does.  Even so the place is free each time,*)
(* the current token is always the one that the text has at its place, and  *)
(* the parser goes through the text token by token: it skips none, and goes *)
(* back only to an identifier it has just passed.                           *)
TokensAreInOrder ==
    [][ /\ current' = input'[Place']
        /\ \/ Place' \in {Place, Place + 1}
           \/ PutsBack /\ pending = NoToken /\ Place' = Place - 1 /\ current' \in Identifiers ]_vars

(* A program is accepted when it has been read to its end, and is one node. *)
WholeTextIsRead == Accepted => pos = Len(input) /\ pending = NoToken /\ Len(values) = 1

(* Whoever makes a node out of others, or adds one to another, finds them   *)
(* among those that the calls before it have returned.                      *)
PartsAreThere ==
    ~Finished /\ ~hadError =>
        /\ At("make") => Top.n <= Len(values)
        /\ At("add") \/ At("assign") => 2 <= Len(values)
        /\ At("base") => 1 <= Len(values)
=============================================================================
