------------------------------ MODULE MCParser ------------------------------
(***************************************************************************)
(* A small instance of Parser: the texts of all syntax trees of some small *)
(* shapes, and short texts of some vocabularies, from several starts.      *)
(***************************************************************************)
EXTENDS Syntax

X == Leaf("x")
Y == Leaf("y")
N == Leaf("num")
Ops == {"||", "&&", "==", "<", "+", "-", "*"}

Combine(some, all) ==
    {Node(op, <<a, b>>) : op \in Ops, a \in all, b \in all}
        \cup {Node(op, <<a>>) : op \in {"-", "!"}, a \in all}
        \cup {Node("call", <<X>>), Leaf("str"), Leaf("null"), Node("list_literal", <<>>)}
        \cup UNION {{Node("call", <<X, a>>), Node("call", <<X, a, Node("named", <<Y, a>>)>>),
                     Node("call_value", <<Node("call", <<X, a>>), a>>),
                     Node("index", <<a, a>>), Node("field", <<a, Y>>), Node("method", <<a, Y, a>>),
                     Node("list_literal", <<a, X>>),
                     Node("map_literal", <<Node("entry", <<a, X>>), Node("entry", <<Y, a>>)>>)} :
                     a \in some}

Flat == Combine({X, N}, {X, N})
Nested == Combine(Flat, Combine({X}, {X}))

E(e) == Node("expression", <<e>>)
Blk(s) == Node("block", s)
Bodies == {Blk(<<>>), Blk(<<Node("return", <<>>)>>), Blk(<<Leaf("break"), E(Node("call", <<X>>))>>),
           Blk(<<Node("=", <<X, N>>), Node("return", <<X>>)>>)}
IntParam == Node("parameter", <<X, Leaf("int")>>)
Params == {<<>>, <<Node("parameter", <<X>>)>>, <<Node("parameter", <<X>>), IntParam>>}
Fns == {Node("fn", <<Y>> \o ps \o <<b>>) : ps \in Params, b \in Bodies}
TypesOf == {Leaf("int"), Leaf("x"), Leaf("list"), Node("list", <<Leaf("map")>>),
            Node("map", <<Leaf("string"), Node("list", <<Leaf("y")>>)>>)}

Loops ==
    {Node("while", <<X, b>>) : b \in Bodies}
        \cup {Node("for_in", <<X, e, b>>) : e \in {Y, Node("call", <<Y, N>>)}, b \in Bodies}
        \cup {Node("for", <<i, c, u, Blk(<<X>>)>>) :
                i \in {Nothing, Node("=", <<X, N>>), Node("declaration", <<X, Leaf("int"), N>>)},
                c \in {Nothing, X, Node("<", <<X, N>>)},
                u \in {Nothing, Node("+=", <<X, Leaf(One)>>), Node("-=", <<Y, X>>)}}

Ifs(branches) == {Node("if", <<X>> \o bs) : bs \in branches}
SimpleIfs == Ifs({<<b>> : b \in Bodies} \cup {<<Blk(<<>>), b>> : b \in Bodies})

Assignments ==
    {Node(op, <<t, e>>) :
        op \in {"=", "+=", "-="}, e \in {N, Leaf(One), Node("||", <<X, Y>>)},
        t \in {X, Node("field", <<X, Y>>), Node("index", <<Node("call", <<X>>), N>>)}}

Declarations ==
    {Node("declaration", <<Y, t, e>>) : t \in TypesOf, e \in {N, Node("+", <<X, N>>)}}
        \cup {Node("struct", <<X>>), Node("struct", <<X, IntParam, IntParam>>),
              Node("interface", <<X>>), Node("interface", <<X, Node("signature", <<Y, IntParam>>)>>),
              Node("import", <<Leaf("str"), Y>>)}
        \cup {Node("impl", <<X, f>>) : f \in Fns} \cup {Node("implement", <<X, Y, f>>) : f \in Fns}

MCTrees ==
    {<<E(e)>> : e \in Flat \cup Nested}
        \cup {<<s, E(X)>> : s \in Fns \cup Loops \cup SimpleIfs \cup Declarations \cup Assignments}
        \cup {<<s>> : s \in Ifs({<<Blk(<<t>>), s>> : s \in SimpleIfs, t \in SimpleIfs})}

MCTexts == {TextOfProgram(t) : t \in MCTrees}
Opening(from, with) == [start |-> from, words |-> with]

MCOpenings ==
    {Opening(<<>>, {"x", "num", "(", ")", ",", "=", "-"}),
     Opening(<<>>, {"x", "[", "]", ".", "{", "}", ":"}),
     Opening(<<>>, {"x", "if", "else", "return", "{", "}"}),
     Opening(<<>>, {"x", "struct", "fn", "implement", "(", ")", "{", "}"}),
     Opening(<<"x", ":">>, {"x", "list", "map", "<", ">", ",", "="}),
     Opening(<<"x", "(", "x", "=", "x">>, {"x", "num", "(", ")", ",", "="}),
     Opening(<<"for">>, {"x", "in", ";", "=", "++", "{", "}"}),
     Opening(<<"for", "x", "++">>, {"x", "in", ";", "=", "{", "}"}),
     Opening(<<"x", "implement", "y", "{", "fn">>, {"x", "(", ")", "{", "}", "fn"}),
     Opening(<<"fn", "x", "(", "x", ":">>, {"x", "list", "<", ">", ",", ")", "{", "}"}),
     Opening(<<"interface", "x", "{">>, {"x", "fn", "(", ")", ",", "}"}),
     Opening(<<"import">>, {"x", "str", "as"})}
=============================================================================
