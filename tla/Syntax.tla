------------------------------- MODULE Syntax -------------------------------
(***************************************************************************)
(* What the nodes of the syntax tree mean as text, the inverse of parsing: *)
(* the grammar of the README, with parentheses where an operand would      *)
(* otherwise bind differently.                                             *)
(***************************************************************************)
EXTENDS Parser

(* How tightly a node binds: its operator's level, then unary, then postfix.*)
Binary(node) == Len(node.kids) = 2 /\ \E l \in Levels : node.kind \in OperatorsAt[l]
Unary(node) == Len(node.kids) = 1 /\ node.kind \in {"-", "!"}
LevelOf(node) ==
    IF Binary(node) THEN CHOOSE l \in Levels : node.kind \in OperatorsAt[l]
    ELSE IF Unary(node) THEN 7 ELSE 8

Commas(parts) == FlattenSeq([k \in DOMAIN parts |-> IF k = 1 THEN parts[k] ELSE <<",">> \o parts[k]])

RECURSIVE TextOf(_)

Operand(node, level) ==
    IF LevelOf(node) < level THEN <<"(">> \o TextOf(node) \o <<")">> ELSE TextOf(node)

TextsOf(nodes) == [k \in DOMAIN nodes |-> TextOf(nodes[k])]
Listed(open, nodes, close) == <<open>> \o Commas(TextsOf(nodes)) \o <<close>>
Run(open, nodes, close) == <<open>> \o FlattenSeq(TextsOf(nodes)) \o <<close>>

TextOf(node) ==
    LET kid == node.kids
        rest == IF kid = <<>> THEN <<>> ELSE Tail(kid)
        T(k) == TextOf(kid[k])
        method(m) == <<"fn">> \o TextOf(m)
        methods(ms) == <<"{">> \o FlattenSeq([k \in DOMAIN ms |-> TextOf(ms[k])]) \o <<"}">>
    IN  CASE Binary(node) ->
               Operand(kid[1], LevelOf(node)) \o <<node.kind>> \o Operand(kid[2], LevelOf(node) + 1)
          [] Unary(node) -> <<node.kind>> \o Operand(kid[1], 7)
          [] node.kind = "call" -> T(1) \o Listed("(", rest, ")")
          [] node.kind = "call_value" -> Operand(kid[1], 8) \o Listed("(", rest, ")")
          [] node.kind = "method" ->
               Operand(kid[1], 8) \o <<".">> \o T(2) \o Listed("(", Tail(rest), ")")
          [] node.kind = "field" -> Operand(kid[1], 8) \o <<".">> \o T(2)
          [] node.kind = "index" -> Operand(kid[1], 8) \o <<"[">> \o T(2) \o <<"]">>
          [] node.kind = "named" -> T(1) \o <<"=">> \o T(2)
          [] node.kind = "list_literal" -> Listed("[", kid, "]")
          [] node.kind = "map_literal" -> Listed("{", kid, "}")
          [] node.kind = "entry" -> T(1) \o <<":">> \o T(2)
          [] node.kind \in {"list", "map"} /\ kid # <<>> -> <<node.kind>> \o Listed("<", kid, ">")
          [] node.kind = "parameter" -> T(1) \o (IF rest = <<>> THEN <<>> ELSE <<":">> \o T(2))
          [] node.kind = "expression" -> T(1)
          [] node.kind \in {"="} \cup Compound ->
               IF kid[2] = Leaf(One)
               THEN T(1) \o <<IF node.kind = "+=" THEN "++" ELSE "--">>
               ELSE T(1) \o <<node.kind>> \o T(2)
          [] node.kind = "declaration" -> T(1) \o <<":">> \o T(2) \o <<"=">> \o T(3)
          [] node.kind = "block" -> Run("{", kid, "}")
          [] node.kind = "fn" ->
               <<"fn">> \o T(1) \o Listed("(", SubSeq(kid, 2, Len(kid) - 1), ")") \o T(Len(kid))
          [] node.kind = "signature" -> <<"fn">> \o T(1) \o Listed("(", rest, ")")
          [] node.kind \in {"struct", "interface", "impl"} ->
               <<node.kind>> \o T(1) \o Run("{", rest, "}")
          [] node.kind = "implement" -> T(1) \o <<"implement">> \o T(2) \o Run("{", Tail(rest), "}")
          [] node.kind = "import" -> <<"import">> \o T(1) \o <<"as">> \o T(2)
          [] node.kind = "return" -> <<"return">> \o FlattenSeq(TextsOf(kid))
          [] node.kind = "if" ->
               <<"if">> \o T(1) \o T(2) \o (IF Len(kid) = 3 THEN <<"else">> \o T(3) ELSE <<>>)
          [] node.kind = "while" -> <<"while">> \o T(1) \o T(2)
          [] node.kind = "for_in" -> <<"for">> \o T(1) \o <<"in">> \o T(2) \o T(3)
          [] node.kind = "for" ->
               <<"for">> \o T(1) \o <<";">> \o T(2) \o <<";">> \o T(3) \o T(4)
          [] node.kind = NoToken -> <<>>
          [] OTHER -> <<node.kind>>

(* The program that was read, without the braces of a block.                *)
TextOfProgram(nodes) == FlattenSeq(TextsOf(nodes))

-----------------------------------------------------------------------------
Program == values[1].kids
Read == SubSeq(input, 1, Len(input) - 1)

(* A text that is the text of a syntax tree is accepted, and is the text of *)
(* the tree it is parsed to: precedence and associativity are those of the  *)
(* README, every part is in its place, and no token is lost or read twice   *)
(* where a token is put back.                                               *)
TreesAreReadBack ==
    Finished /\ words = {} => Accepted /\ TextOfProgram(Program) = Read

(* Of any text that is accepted there is one tree, and every token is in    *)
(* it, in its place; but for parentheses that change nothing, and a comma   *)
(* at the end of a list.  (The parameters of a parameter's type are         *)
(* dropped.)                                                                *)
Essential(t) == SelectSeq(t, LAMBDA token : token \notin {"(", ")", ","})

NothingIsDropped ==
    Accepted =>
        /\ Len(values) = 1
        /\ ~({"<", ":"} \subseteq ToSet(Read)) =>
              Essential(TextOfProgram(Program)) = Essential(Read)

(* The parser ends, whatever the text is, or reports an error.              *)
ParsesOrReports == <>(Finished \/ hadError)

(* main prints "Parsing failed." and returns when there has been an error.  *)
ErrorsEndTheParse == hadError ~> Finished
=============================================================================
