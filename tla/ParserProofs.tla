---------------------------- MODULE ParserProofs -----------------------------
(***************************************************************************)
(* Theorems about the parser, for any texts of any length: the token that  *)
(* is put back never finds its place taken and the text is read in order;  *)
(* every call returns just the one node its caller counts on.              *)
(*                                                                         *)
(* What remains to be parsed is a sequence of goals.  A goal needs some of *)
(* the nodes on the stack of values and changes their number by what it    *)
(* yields; the invariant is that the goals can be walked through one after *)
(* the other, each finding what it needs, down to one node at the end.     *)
(***************************************************************************)
EXTENDS Parser, CommonLemmas, SequenceTheorems, TLAPS

-----------------------------------------------------------------------------
(* Tokens.                                                                  *)

(* None of the lexer's tokens is the absence of one.                        *)
LEMMA TokensAreThere ==
    /\ NoToken \notin Token
    /\ EOF \in Token /\ EOF \notin Identifiers /\ Identifiers \subseteq Token
<1>1. Levels = 1 .. 6
  BY DEF Levels, OperatorsAt
<1>2. ASSUME NEW l \in Levels, NEW t \in OperatorsAt[l]
      PROVE  t # NoToken
  <2>1. l = 1 \/ l = 2 \/ l = 3 \/ l = 4 \/ l = 5 \/ l = 6
    BY <1>1
  <2>2. /\ OperatorsAt[1] = {"||"} /\ OperatorsAt[2] = {"&&"} /\ OperatorsAt[3] = {"==", "!="}
        /\ OperatorsAt[4] = {"<", "<=", ">", ">="} /\ OperatorsAt[5] = {"+", "-"}
        /\ OperatorsAt[6] = {"*", "/", "%"}
    BY DEF OperatorsAt
  <2> QED
    BY <2>1, <2>2 DEF NoToken
<1>3. ASSUME NEW t \in Compound \cup Literals \cup Types
      PROVE  t # NoToken
  BY DEF Compound, Literals, Types, Identifiers, NoToken
<1>4. Identifiers \subseteq Types /\ EOF \notin Identifiers
  BY DEF Types, Identifiers, EOF
<1>5. ASSUME NEW t \in Token PROVE t # NoToken
  <2>1. CASE t \in UNION {OperatorsAt[l] : l \in Levels}
    BY <1>2, <2>1
  <2>2. CASE t \in Compound \cup Literals \cup Types
    BY <1>3, <2>2
  <2>3. CASE /\ t \notin UNION {OperatorsAt[l] : l \in Levels}
             /\ t \notin Compound \cup Literals \cup Types
    <3>1. Comma # NoToken /\ Semicolon # NoToken /\ LBrace # NoToken /\ RBrace # NoToken
      BY DEF Comma, Semicolon, LBrace, RBrace, NoToken
    <3> QED
      BY <1>5, <2>3, <3>1 DEF Token, NoToken, EOF
  <2> QED
    BY <2>1, <2>2, <2>3
<1>6. EOF \in Token /\ Types \subseteq Token
  BY DEF Token
<1> QED
  BY <1>4, <1>5, <1>6

-----------------------------------------------------------------------------
(* Goals, what they need and what they yield.                               *)

(* These follow a look at the token after an identifier.                    *)
Held == {"argument", "for_in", "simple"}

(* A goal that puts a node on the stack, one that joins two nodes into one, *)
(* and one that goes on with a node.                                        *)
Producers == {"take", "type", "unary", "primary", "statement", "result", "for", "clause",
              "for_in", "simple"}
Joiners == {"add", "member", "assign", "else", "else_branch"}
Users == {"type_arguments", "parameter_type", "base", "operators", "call", "items", "entries",
          "arguments", "postfix", "statements", "parameters", "members", "assignment",
          "program", "more", "argument"}

Need(g) ==
    IF g.do = "make" THEN g.n ELSE IF g.do \in Joiners THEN 2 ELSE IF g.do \in Users THEN 1 ELSE 0
Yield(g) ==
    IF g.do = "make" THEN 1 - g.n
    ELSE IF g.do \in Joiners THEN -1 ELSE IF g.do \in Producers THEN 1 ELSE 0

(* What goals are about: tokens, kinds of nodes, and loops.                 *)
Words ==
    Token \cup {NoToken, "identifier", "items", "entries", "arguments", "parameters", "fields",
                "signatures", "methods", "parameter", "list_literal", "map_literal", "call",
                "entry", "named", "index", "call_value", "method", "field", "block", "signature",
                "declaration", "for_in", "expression"}

(* The goals that can wait their turn.                                      *)
Waiting ==
    {g \in [do : (Producers \cup Joiners \cup Users \cup {"make", "expect"}) \ Held,
            arg : Words, n : Nat] :
        /\ g.do = "operators" => g.n \in Levels
        /\ g.do = "members" => g.arg \in {"fields", "signatures", "methods"}
        /\ g.do = "more" => g.arg \in {"items", "entries", "arguments", "parameters"}}

(* Those that only follow on a look at the next token, or begin it all.     *)
Immediate == [do : Held \cup {"prime"}, arg : Words, n : Nat]

(* A goal leaves no fewer than no nodes.                                    *)
LEMMA NeedAndYield ==
    ASSUME NEW g \in Waiting \cup Immediate
    PROVE  Need(g) \in Nat /\ Yield(g) \in Int /\ Need(g) + Yield(g) >= 0
<1>1. g.n \in Nat
  BY DEF Waiting, Immediate
<1>2. CASE g.do = "make"
  BY <1>1, <1>2 DEF Need, Yield
<1>3. CASE g.do # "make" /\ g.do \in Joiners
  BY <1>3 DEF Need, Yield
<1>4. CASE g.do # "make" /\ g.do \notin Joiners
  BY <1>4 DEF Need, Yield
<1> QED
  BY <1>2, <1>3, <1>4

(* A goal of each kind that the parser makes.                               *)
LEMMA GoalFacts ==
    ASSUME NEW arg \in Words, NEW k \in Nat
    PROVE  /\ \A do \in Producers \ Held :
                 /\ Goal(do, arg, k) \in Waiting
                 /\ Need(Goal(do, arg, k)) = 0 /\ Yield(Goal(do, arg, k)) = 1
           /\ \A do \in Joiners :
                 /\ Goal(do, arg, k) \in Waiting
                 /\ Need(Goal(do, arg, k)) = 2 /\ Yield(Goal(do, arg, k)) = -1
           /\ \A do \in Users \ Held :
                 /\ Need(Goal(do, arg, k)) = 1 /\ Yield(Goal(do, arg, k)) = 0
                 /\ \/ do \notin {"operators", "members", "more"}
                    \/ do = "operators" /\ k \in Levels
                    \/ do = "members" /\ arg \in {"fields", "signatures", "methods"}
                    \/ do = "more" /\ arg \in {"items", "entries", "arguments", "parameters"}
                    => Goal(do, arg, k) \in Waiting
           /\ /\ Goal("make", arg, k) \in Waiting
              /\ Need(Goal("make", arg, k)) = k /\ Yield(Goal("make", arg, k)) = 1 - k
           /\ /\ Goal("expect", arg, k) \in Waiting
              /\ Need(Goal("expect", arg, k)) = 0 /\ Yield(Goal("expect", arg, k)) = 0
<1>1. \A do : /\ Goal(do, arg, k) = [do |-> do, arg |-> arg, n |-> k]
              /\ Goal(do, arg, k).do = do /\ Goal(do, arg, k).arg = arg
              /\ Goal(do, arg, k).n = k
  BY DEF Goal
<1>2. /\ "make" \notin Joiners \cup Producers \cup Users \cup Held
      /\ "expect" \notin Joiners \cup Producers \cup Users \cup Held /\ "expect" # "make"
  BY DEF Joiners, Producers, Users, Held
<1>3. ASSUME NEW do \in Producers \ Held
      PROVE  /\ Goal(do, arg, k) \in Waiting
             /\ Need(Goal(do, arg, k)) = 0 /\ Yield(Goal(do, arg, k)) = 1
  <2>1. /\ do # "make" /\ do \notin Joiners /\ do \notin Users
        /\ do \notin {"operators", "members", "more"}
    BY DEF Producers, Joiners, Users
  <2> QED
    BY <1>1, <2>1 DEF Waiting, Need, Yield
<1>4. ASSUME NEW do \in Joiners
      PROVE  /\ Goal(do, arg, k) \in Waiting
             /\ Need(Goal(do, arg, k)) = 2 /\ Yield(Goal(do, arg, k)) = -1
  <2>1. do # "make" /\ do \notin {"operators", "members", "more"} /\ do \notin Held
    BY DEF Joiners, Held
  <2> QED
    BY <1>1, <2>1 DEF Waiting, Need, Yield
<1>5. ASSUME NEW do \in Users \ Held
      PROVE  /\ Need(Goal(do, arg, k)) = 1 /\ Yield(Goal(do, arg, k)) = 0
             /\ \/ do \notin {"operators", "members", "more"}
                \/ do = "operators" /\ k \in Levels
                \/ do = "members" /\ arg \in {"fields", "signatures", "methods"}
                \/ do = "more" /\ arg \in {"items", "entries", "arguments", "parameters"}
                => Goal(do, arg, k) \in Waiting
  <2>1. do # "make" /\ do \notin Joiners /\ do \notin Producers
    BY DEF Producers, Joiners, Users
  <2> QED
    BY <1>1, <2>1 DEF Waiting, Need, Yield
<1>6. /\ Goal("make", arg, k) \in Waiting
      /\ Need(Goal("make", arg, k)) = k /\ Yield(Goal("make", arg, k)) = 1 - k
  BY <1>1, <1>2 DEF Waiting, Need, Yield
<1>7. /\ Goal("expect", arg, k) \in Waiting
      /\ Need(Goal("expect", arg, k)) = 0 /\ Yield(Goal("expect", arg, k)) = 0
  BY <1>1, <1>2 DEF Waiting, Need, Yield
<1> QED
  BY <1>3, <1>4, <1>5, <1>6, <1>7

-----------------------------------------------------------------------------
(* Walks through goals.                                                     *)

(* From a nodes the goals lead to b nodes.                                  *)
Walk(goals, a, b) ==
    /\ goals \in Seq(Waiting)
    /\ \E h \in [1 .. Len(goals) + 1 -> Nat] :
          /\ h[1] = a /\ h[Len(goals) + 1] = b
          /\ \A k \in 1 .. Len(goals) :
                Need(goals[k]) <= h[k] /\ h[k + 1] = h[k] + Yield(goals[k])

(* With x nodes or more the goals find what they need, and add d to them.   *)
Runs(goals, x, d) ==
    /\ goals \in Seq(Waiting) /\ x \in Nat /\ d \in Int
    /\ \A a \in Nat : a >= x => Walk(goals, a, a + d)

(* Nothing to do.                                                           *)
LEMMA WalkEmpty ==
    ASSUME NEW a, NEW b
    PROVE  Walk(<<>>, a, b) <=> a \in Nat /\ b = a
<1>1. ASSUME a \in Nat, b = a PROVE Walk(<<>>, a, b)
  <2> DEFINE h == [k \in 1 .. 1 |-> a]
  <2>1. Len(<<>>) = 0 /\ <<>> \in Seq(Waiting)
    OBVIOUS
  <2>2. h \in [1 .. 0 + 1 -> Nat] /\ h[1] = a /\ h[0 + 1] = b
    BY <1>1
  <2> HIDE DEF h
  <2> QED
    BY <2>1, <2>2 DEF Walk
<1>2. ASSUME Walk(<<>>, a, b) PROVE a \in Nat /\ b = a
  BY <1>2 DEF Walk
<1> QED
  BY <1>1, <1>2

(* One goal after another.                                                  *)
LEMMA WalkBoth ==
    ASSUME NEW s, NEW t, NEW a, NEW b, NEW c, Walk(s, a, b), Walk(t, b, c)
    PROVE  Walk(s \o t, a, c)
<1>1. s \in Seq(Waiting) /\ t \in Seq(Waiting) /\ Len(s) \in Nat /\ Len(t) \in Nat
  BY LenProperties DEF Walk
<1>2. s \o t \in Seq(Waiting) /\ Len(s \o t) = Len(s) + Len(t)
  BY <1>1, ConcatProperties
<1> DEFINE L == Len(s)
           M == Len(t)
           Good(h, q) == \A k \in 1 .. Len(q) :
                            Need(q[k]) <= h[k] /\ h[k + 1] = h[k] + Yield(q[k])
<1>3. PICK g \in [1 .. L + 1 -> Nat] : g[1] = a /\ g[L + 1] = b /\ Good(g, s)
  BY DEF Walk
<1>4. PICK h \in [1 .. M + 1 -> Nat] : h[1] = b /\ h[M + 1] = c /\ Good(h, t)
  BY DEF Walk
<1> DEFINE f == [k \in 1 .. (L + M) + 1 |-> IF k <= L THEN g[k] ELSE h[k - L]]
<1>5. f \in [1 .. (L + M) + 1 -> Nat]
  BY <1>1
<1>6. f[1] = a /\ f[(L + M) + 1] = c
  BY <1>1, <1>3, <1>4
<1>7. ASSUME NEW k \in 1 .. L + M
      PROVE  Need((s \o t)[k]) <= f[k] /\ f[k + 1] = f[k] + Yield((s \o t)[k])
  <2>1. CASE k <= L
    <3>1. (s \o t)[k] = s[k] /\ k \in 1 .. L
      BY <1>1, <2>1, ConcatProperties
    <3>2. f[k] = g[k] /\ f[k + 1] = g[k + 1]
      BY <1>1, <1>3, <1>4, <2>1, <3>1
    <3> QED
      BY <1>3, <3>1, <3>2
  <2>2. CASE k > L
    <3>1. (s \o t)[k] = t[k - L] /\ k - L \in 1 .. M
      BY <1>1, <2>2, ConcatProperties
    <3>2. f[k] = h[k - L] /\ f[k + 1] = h[(k - L) + 1]
      BY <1>1, <2>2, <3>1
    <3> QED
      BY <1>4, <3>1, <3>2
  <2> QED
    BY <1>1, <2>1, <2>2
<1> QED
  <2> HIDE DEF f
  <2> QED
    BY <1>2, <1>5, <1>6, <1>7 DEF Walk

(* The first goal finds what it needs, and the others what it leaves.       *)
LEMMA WalkFirst ==
    ASSUME NEW t, NEW a, NEW b, Walk(t, a, b), t # <<>>
    PROVE  /\ t \in Seq(Waiting) /\ t[1] \in Waiting /\ a \in Nat
           /\ Need(t[1]) <= a /\ a + Yield(t[1]) \in Nat
           /\ Walk(Tail(t), a + Yield(t[1]), b)
<1>1. t \in Seq(Waiting) /\ Len(t) \in Nat /\ Len(t) >= 1 /\ t[1] \in Waiting
  BY EmptySeq, LenProperties, ElementOfSeq DEF Walk
<1> DEFINE L == Len(t)
<1>2. PICK h \in [1 .. L + 1 -> Nat] :
         /\ h[1] = a /\ h[L + 1] = b
         /\ \A k \in 1 .. L : Need(t[k]) <= h[k] /\ h[k + 1] = h[k] + Yield(t[k])
  BY DEF Walk
<1>3. /\ Tail(t) \in Seq(Waiting) /\ Len(Tail(t)) = L - 1
      /\ \A k \in 1 .. L - 1 : Tail(t)[k] = t[k + 1]
  BY <1>1, HeadTailProperties
<1> DEFINE f == [k \in 1 .. (L - 1) + 1 |-> h[k + 1]]
<1>4. f \in [1 .. (L - 1) + 1 -> Nat] /\ f[1] = h[2] /\ f[(L - 1) + 1] = b
  BY <1>1, <1>2
<1>5. \A k \in 1 .. L - 1 : Need(Tail(t)[k]) <= f[k] /\ f[k + 1] = f[k] + Yield(Tail(t)[k])
  <2>1. ASSUME NEW k \in 1 .. L - 1
        PROVE  Need(Tail(t)[k]) <= f[k] /\ f[k + 1] = f[k] + Yield(Tail(t)[k])
    <3>1. k + 1 \in 1 .. L /\ f[k] = h[k + 1] /\ f[k + 1] = h[(k + 1) + 1]
      BY <1>1
    <3> QED
      BY <1>2, <1>3, <3>1
  <2> QED
    BY <2>1
<1>6. h[2] = a + Yield(t[1]) /\ Need(t[1]) <= a /\ a \in Nat /\ h[2] \in Nat
  BY <1>1, <1>2
<1>7. Walk(Tail(t), h[2], b)
  <2> HIDE DEF f
  <2> QED
    BY <1>3, <1>4, <1>5 DEF Walk
<1> QED
  BY <1>1, <1>6, <1>7

(* Nothing to do needs nothing.                                             *)
LEMMA RunsNone == \A x \in Nat : Runs(<<>>, x, 0)
BY WalkEmpty DEF Runs

(* One goal.                                                                *)
LEMMA RunsOne ==
    ASSUME NEW g \in Waiting, NEW x \in Nat, Need(g) <= x, NEW d \in Int, d = Yield(g)
    PROVE  Runs(<<g>>, x, d)
<1>1. ASSUME NEW a \in Nat, a >= x
      PROVE  Walk(<<g>>, a, a + d)
  <2> DEFINE h == [k \in 1 .. 2 |-> IF k = 1 THEN a ELSE a + d]
  <2>1. Need(g) \in Nat /\ Need(g) <= a /\ a + d \in Nat
    BY <1>1, NeedAndYield
  <2>2. <<g>> \in Seq(Waiting) /\ Len(<<g>>) = 1 /\ <<g>>[1] = g
    OBVIOUS
  <2>3. h \in [1 .. 1 + 1 -> Nat] /\ h[1] = a /\ h[1 + 1] = a + d
    BY <2>1
  <2> HIDE DEF h
  <2> QED
    BY <2>1, <2>2, <2>3 DEF Walk
<1> QED
  BY <1>1 DEF Runs

(* Goals, and others after them.                                            *)
LEMMA RunsBoth ==
    ASSUME NEW s, NEW t, NEW x, NEW d, NEW y, NEW e, NEW f,
           Runs(s, x, d), Runs(t, y, e), y <= x + d, f = d + e
    PROVE  Runs(s \o t, x, f)
<1>1. x \in Nat /\ d \in Int /\ y \in Nat /\ e \in Int /\ s \o t \in Seq(Waiting)
  BY ConcatProperties DEF Runs
<1>2. ASSUME NEW a \in Nat, a >= x PROVE Walk(s \o t, a, a + f)
  <2>1. a + d \in Nat /\ a + d >= y /\ (a + d) + e = a + f
    BY <1>1, <1>2
  <2>2. Walk(s, a, a + d) /\ Walk(t, a + d, (a + d) + e)
    BY <1>1, <1>2, <2>1 DEF Runs
  <2> QED
    BY <2>1, <2>2, WalkBoth
<1> QED
  BY <1>1, <1>2 DEF Runs

(* A goal, and others after it.                                             *)
LEMMA RunsThen ==
    ASSUME NEW g \in Waiting, NEW t, NEW x \in Nat, NEW y, NEW e, NEW f,
           Runs(t, y, e), Need(g) <= x, y <= x + Yield(g), f = Yield(g) + e
    PROVE  Runs(<<g>> \o t, x, f)
<1>1. Yield(g) \in Int
  BY NeedAndYield
<1>2. Runs(<<g>>, x, Yield(g))
  BY <1>1, RunsOne
<1> QED
  BY <1>2, RunsBoth

(* A list is its first member and the list of the others.                   *)
LEMMA FirstOfList ==
    ASSUME NEW S, NEW g \in S, NEW s \in Seq(S), NEW t \in Seq(S), Len(t) = Len(s) + 1, t[1] = g,
           \A i \in 1 .. Len(s) : t[i + 1] = s[i]
    PROVE  <<g>> \o s = t
<1>1. <<g>> \in Seq(S) /\ Len(<<g>>) = 1
  OBVIOUS
<1>2. /\ <<g>> \o s \in Seq(S) /\ Len(<<g>> \o s) = 1 + Len(s)
      /\ \A i \in 1 .. 1 + Len(s) : (<<g>> \o s)[i] = IF i <= 1 THEN <<g>>[i] ELSE s[i - 1]
  BY <1>1, ConcatProperties
<1>3. ASSUME NEW i \in 1 .. 1 + Len(s) PROVE (<<g>> \o s)[i] = t[i]
  <2>1. CASE i = 1
    BY <1>2, <2>1
  <2>2. CASE i # 1
    <3>1. Len(s) \in Nat /\ i - 1 \in 1 .. Len(s) /\ (i - 1) + 1 = i
      BY <2>2, LenProperties
    <3> QED
      BY <1>2, <2>2, <3>1
  <2> QED
    BY <2>1, <2>2
<1>4. Len(s) \in Nat /\ Len(<<g>> \o s) = Len(t)
  BY <1>2, LenProperties
<1> QED
  BY <1>2, <1>3, <1>4, SeqEqual

(* A list of two.                                                           *)
LEMMA ListOfTwo ==
    ASSUME NEW g, NEW g2
    PROVE  <<g>> \o <<g2>> = <<g, g2>>
<1> DEFINE S == {g, g2}
           s == <<g2>>
           t == <<g, g2>>
<1>1. /\ Len(s) = 1 /\ Len(t) = 2
      /\ s[1] = g2
      /\ t[1] = g /\ t[2] = g2
  OBVIOUS
<1>2. g \in S /\ s \in Seq(S) /\ t \in Seq(S)
  OBVIOUS
<1> HIDE DEF S, s, t
<1>3. \A i \in 1 .. Len(s) : t[i + 1] = s[i]
  <2>1. SUFFICES ASSUME NEW i \in 1 .. 1 PROVE t[i + 1] = s[i]
    BY <1>1
  <2>2. CASE i = 1
    BY <1>1, <2>2
  <2> QED
    BY <2>2
<1>4. Len(t) = Len(s) + 1 /\ t[1] = g
  BY <1>1
<1>5. <<g>> \o s = t
  BY <1>2, <1>3, <1>4, FirstOfList
<1> QED
  BY <1>5 DEF s, t

(* A list of three.                                                         *)
LEMMA ListOfThree ==
    ASSUME NEW g, NEW g2, NEW g3
    PROVE  <<g>> \o <<g2, g3>> = <<g, g2, g3>>
<1> DEFINE S == {g, g2, g3}
           s == <<g2, g3>>
           t == <<g, g2, g3>>
<1>1. /\ Len(s) = 2 /\ Len(t) = 3
      /\ s[1] = g2 /\ s[2] = g3
      /\ t[1] = g /\ t[2] = g2 /\ t[3] = g3
  OBVIOUS
<1>2. g \in S /\ s \in Seq(S) /\ t \in Seq(S)
  OBVIOUS
<1> HIDE DEF S, s, t
<1>3. \A i \in 1 .. Len(s) : t[i + 1] = s[i]
  <2>1. SUFFICES ASSUME NEW i \in 1 .. 2 PROVE t[i + 1] = s[i]
    BY <1>1
  <2>2. CASE i = 1
    BY <1>1, <2>2
  <2>3. CASE i = 2
    BY <1>1, <2>3
  <2> QED
    BY <2>2, <2>3
<1>4. Len(t) = Len(s) + 1 /\ t[1] = g
  BY <1>1
<1>5. <<g>> \o s = t
  BY <1>2, <1>3, <1>4, FirstOfList
<1> QED
  BY <1>5 DEF s, t

(* A list of four.                                                          *)
LEMMA ListOfFour ==
    ASSUME NEW g, NEW g2, NEW g3, NEW g4
    PROVE  <<g>> \o <<g2, g3, g4>> = <<g, g2, g3, g4>>
<1> DEFINE S == {g, g2, g3, g4}
           s == <<g2, g3, g4>>
           t == <<g, g2, g3, g4>>
<1>1. /\ Len(s) = 3 /\ Len(t) = 4
      /\ s[1] = g2 /\ s[2] = g3 /\ s[3] = g4
      /\ t[1] = g /\ t[2] = g2 /\ t[3] = g3 /\ t[4] = g4
  OBVIOUS
<1>2. g \in S /\ s \in Seq(S) /\ t \in Seq(S)
  OBVIOUS
<1> HIDE DEF S, s, t
<1>3. \A i \in 1 .. Len(s) : t[i + 1] = s[i]
  <2>1. SUFFICES ASSUME NEW i \in 1 .. 3 PROVE t[i + 1] = s[i]
    BY <1>1
  <2>2. CASE i = 1
    BY <1>1, <2>2
  <2>3. CASE i = 2
    BY <1>1, <2>3
  <2>4. CASE i = 3
    BY <1>1, <2>4
  <2> QED
    BY <2>2, <2>3, <2>4
<1>4. Len(t) = Len(s) + 1 /\ t[1] = g
  BY <1>1
<1>5. <<g>> \o s = t
  BY <1>2, <1>3, <1>4, FirstOfList
<1> QED
  BY <1>5 DEF s, t

(* A list of five.                                                          *)
LEMMA ListOfFive ==
    ASSUME NEW g, NEW g2, NEW g3, NEW g4, NEW g5
    PROVE  <<g>> \o <<g2, g3, g4, g5>> = <<g, g2, g3, g4, g5>>
<1> DEFINE S == {g, g2, g3, g4, g5}
           s == <<g2, g3, g4, g5>>
           t == <<g, g2, g3, g4, g5>>
<1>1. /\ Len(s) = 4 /\ Len(t) = 5
      /\ s[1] = g2 /\ s[2] = g3 /\ s[3] = g4 /\ s[4] = g5
      /\ t[1] = g /\ t[2] = g2 /\ t[3] = g3 /\ t[4] = g4 /\ t[5] = g5
  OBVIOUS
<1>2. g \in S /\ s \in Seq(S) /\ t \in Seq(S)
  OBVIOUS
<1> HIDE DEF S, s, t
<1>3. \A i \in 1 .. Len(s) : t[i + 1] = s[i]
  <2>1. SUFFICES ASSUME NEW i \in 1 .. 4 PROVE t[i + 1] = s[i]
    BY <1>1
  <2>2. CASE i = 1
    BY <1>1, <2>2
  <2>3. CASE i = 2
    BY <1>1, <2>3
  <2>4. CASE i = 3
    BY <1>1, <2>4
  <2>5. CASE i = 4
    BY <1>1, <2>5
  <2> QED
    BY <2>2, <2>3, <2>4, <2>5
<1>4. Len(t) = Len(s) + 1 /\ t[1] = g
  BY <1>1
<1>5. <<g>> \o s = t
  BY <1>2, <1>3, <1>4, FirstOfList
<1> QED
  BY <1>5 DEF s, t

(* Two goals.                                                               *)
LEMMA RunsTwo ==
    ASSUME NEW g \in Waiting, NEW g2 \in Waiting, NEW x \in Nat, NEW f,
           Need(g) <= x, Need(g2) <= x + Yield(g), f = Yield(g) + Yield(g2)
    PROVE  Runs(<<g, g2>>, x, f)
<1>1. /\ Yield(g) \in Int /\ Yield(g2) \in Int /\ Need(g) \in Nat /\ Need(g2) \in Nat
      /\ x + Yield(g) \in Nat
  BY NeedAndYield
<1>2. Runs(<<g2>>, x + Yield(g), Yield(g2))
  BY <1>1, RunsOne
<1>3. Runs(<<g>> \o <<g2>>, x, f)
  BY <1>1, <1>2, RunsThen
<1> QED
  BY <1>3, ListOfTwo

(* Three goals.                                                             *)
LEMMA RunsThree ==
    ASSUME NEW g \in Waiting, NEW g2 \in Waiting, NEW g3 \in Waiting, NEW x \in Nat, NEW f,
           Need(g) <= x, Need(g2) <= x + Yield(g), Need(g3) <= x + Yield(g) + Yield(g2),
           f = Yield(g) + Yield(g2) + Yield(g3)
    PROVE  Runs(<<g, g2, g3>>, x, f)
<1>1. /\ Yield(g) \in Int /\ Yield(g2) \in Int /\ Yield(g3) \in Int
      /\ Need(g) \in Nat /\ Need(g2) \in Nat /\ x + Yield(g) \in Nat
  BY NeedAndYield
<1>2. Runs(<<g2, g3>>, x + Yield(g), Yield(g2) + Yield(g3))
  BY <1>1, RunsTwo
<1>3. Runs(<<g>> \o <<g2, g3>>, x, f)
  BY <1>1, <1>2, RunsThen
<1> QED
  BY <1>3, ListOfThree

(* Four goals.                                                              *)
LEMMA RunsFour ==
    ASSUME NEW g \in Waiting, NEW g2 \in Waiting, NEW g3 \in Waiting, NEW g4 \in Waiting,
           NEW x \in Nat, NEW f,
           Need(g) <= x, Need(g2) <= x + Yield(g), Need(g3) <= x + Yield(g) + Yield(g2),
           Need(g4) <= x + Yield(g) + Yield(g2) + Yield(g3),
           f = Yield(g) + Yield(g2) + Yield(g3) + Yield(g4)
    PROVE  Runs(<<g, g2, g3, g4>>, x, f)
<1>1. /\ Yield(g) \in Int /\ Yield(g2) \in Int /\ Yield(g3) \in Int /\ Yield(g4) \in Int
      /\ Need(g) \in Nat /\ Need(g2) \in Nat /\ x + Yield(g) \in Nat
  BY NeedAndYield
<1>2. Runs(<<g2, g3, g4>>, x + Yield(g), Yield(g2) + Yield(g3) + Yield(g4))
  <2>1. PICK y \in Nat : y = x + Yield(g)
    BY <1>1
  <2>2. /\ Need(g2) <= y
        /\ Need(g3) <= y + Yield(g2)
        /\ Need(g4) <= y + Yield(g2) + Yield(g3)
    BY <2>1
  <2>3. Runs(<<g2, g3, g4>>, y, Yield(g2) + Yield(g3) + Yield(g4))
    BY <2>2, RunsThree
  <2> QED
    BY <2>1, <2>3
<1>3. Runs(<<g>> \o <<g2, g3, g4>>, x, f)
  <2>1. PICK e \in Int : e = Yield(g2) + Yield(g3) + Yield(g4)
    BY <1>1
  <2>2. f = Yield(g) + e /\ Runs(<<g2, g3, g4>>, x + Yield(g), e)
    BY <1>1, <1>2, <2>1
  <2> QED
    BY <1>1, <2>2, RunsThen
<1>4. <<g>> \o <<g2, g3, g4>> = <<g, g2, g3, g4>>
  BY ListOfFour
<1> QED
  BY <1>3, <1>4

(* Five goals.                                                              *)
LEMMA RunsFive ==
    ASSUME NEW g \in Waiting, NEW g2 \in Waiting, NEW g3 \in Waiting, NEW g4 \in Waiting,
           NEW g5 \in Waiting, NEW x \in Nat, NEW f,
           Need(g) <= x, Need(g2) <= x + Yield(g), Need(g3) <= x + Yield(g) + Yield(g2),
           Need(g4) <= x + Yield(g) + Yield(g2) + Yield(g3),
           Need(g5) <= x + Yield(g) + Yield(g2) + Yield(g3) + Yield(g4),
           f = Yield(g) + Yield(g2) + Yield(g3) + Yield(g4) + Yield(g5)
    PROVE  Runs(<<g, g2, g3, g4, g5>>, x, f)
<1>1. /\ Yield(g) \in Int /\ Yield(g2) \in Int /\ Yield(g3) \in Int /\ Yield(g4) \in Int
      /\ Yield(g5) \in Int /\ Need(g) \in Nat /\ Need(g2) \in Nat /\ x + Yield(g) \in Nat
  BY NeedAndYield
<1>2. Runs(<<g2, g3, g4, g5>>, x + Yield(g), Yield(g2) + Yield(g3) + Yield(g4) + Yield(g5))
  <2>1. PICK y \in Nat : y = x + Yield(g)
    BY <1>1
  <2>2. /\ Need(g2) <= y
        /\ Need(g3) <= y + Yield(g2)
        /\ Need(g4) <= y + Yield(g2) + Yield(g3)
        /\ Need(g5) <= y + Yield(g2) + Yield(g3) + Yield(g4)
    BY <2>1
  <2>3. Runs(<<g2, g3, g4, g5>>, y, Yield(g2) + Yield(g3) + Yield(g4) + Yield(g5))
    BY <2>2, RunsFour
  <2> QED
    BY <2>1, <2>3
<1>3. Runs(<<g>> \o <<g2, g3, g4, g5>>, x, f)
  <2>1. PICK e \in Int : e = Yield(g2) + Yield(g3) + Yield(g4) + Yield(g5)
    BY <1>1
  <2>2. f = Yield(g) + e /\ Runs(<<g2, g3, g4, g5>>, x + Yield(g), e)
    BY <1>1, <1>2, <2>1
  <2> QED
    BY <1>1, <2>2, RunsThen
<1>4. <<g>> \o <<g2, g3, g4, g5>> = <<g, g2, g3, g4, g5>>
  BY ListOfFive
<1> QED
  BY <1>3, <1>4

-----------------------------------------------------------------------------
(* What each kind of goal needs and yields, by the names the actions use.   *)

(* The calls of the parser.                                                 *)
LEMMA Calls ==
    /\ \A do \in {"type", "unary", "primary", "statement", "result", "for"} :
          Parse(do) \in Waiting /\ Need(Parse(do)) = 0 /\ Yield(Parse(do)) = 1
    /\ \A do \in {"add", "member", "else", "else_branch"} :
          Parse(do) \in Waiting /\ Need(Parse(do)) = 2 /\ Yield(Parse(do)) = -1
    /\ \A do \in {"parameter_type", "base", "call", "items", "entries", "arguments", "postfix",
                  "statements", "parameters", "assignment", "program"} :
          Parse(do) \in Waiting /\ Need(Parse(do)) = 1 /\ Yield(Parse(do)) = 0
<1>1. NoToken \in Words
  BY DEF Words
<1>2. ASSUME NEW do \in {"type", "unary", "primary", "statement", "result", "for"}
      PROVE  Parse(do) \in Waiting /\ Need(Parse(do)) = 0 /\ Yield(Parse(do)) = 1
  <2>1. do \in Producers \ Held
    BY DEF Producers, Held
  <2> QED
    BY <1>1, <2>1, GoalFacts DEF Parse
<1>3. ASSUME NEW do \in {"add", "member", "else", "else_branch"}
      PROVE  Parse(do) \in Waiting /\ Need(Parse(do)) = 2 /\ Yield(Parse(do)) = -1
  <2>1. do \in Joiners /\ 0 \in Nat
    BY DEF Joiners
  <2>2. \A j \in Joiners : /\ Goal(j, NoToken, 0) \in Waiting
                           /\ Need(Goal(j, NoToken, 0)) = 2 /\ Yield(Goal(j, NoToken, 0)) = -1
    BY <1>1, <2>1, GoalFacts
  <2> QED
    BY <2>1, <2>2 DEF Parse
<1>4. ASSUME NEW do \in {"parameter_type", "base", "call", "items", "entries", "arguments",
                         "postfix", "statements", "parameters", "assignment", "program"}
      PROVE  Parse(do) \in Waiting /\ Need(Parse(do)) = 1 /\ Yield(Parse(do)) = 0
  <2>1. do \in Users \ Held /\ do \notin {"operators", "members", "more"} /\ 0 \in Nat
    BY DEF Users, Held
  <2>2. \A u \in Users \ Held :
           /\ Need(Goal(u, NoToken, 0)) = 1 /\ Yield(Goal(u, NoToken, 0)) = 0
           /\ u \notin {"operators", "members", "more"} => Goal(u, NoToken, 0) \in Waiting
    <3> HIDE DEF Parse
    <3>1. ASSUME NEW u \in Users \ Held
          PROVE  /\ Need(Goal(u, NoToken, 0)) = 1 /\ Yield(Goal(u, NoToken, 0)) = 0
                 /\ u \notin {"operators", "members", "more"} => Goal(u, NoToken, 0) \in Waiting
      <4>1. 0 \in Nat /\ \A arg \in Words, k \in Nat, v \in Users \ Held :
               /\ Need(Goal(v, arg, k)) = 1 /\ Yield(Goal(v, arg, k)) = 0
               /\ v \notin {"operators", "members", "more"} => Goal(v, arg, k) \in Waiting
        BY GoalFacts
      <4> QED
        BY <1>1, <4>1
    <3> QED
      BY <3>1
  <2> QED
    BY <2>1, <2>2 DEF Parse
<1> QED
  BY <1>2, <1>3, <1>4

(* The goals that stand for the rest of a body.                             *)
LEMMA Rests ==
    /\ \A t \in Words : Expect(t) \in Waiting /\ Need(Expect(t)) = 0 /\ Yield(Expect(t)) = 0
    /\ \A kind \in Words, k \in Nat :
          /\ Make(kind, k) \in Waiting /\ Need(Make(kind, k)) = k
          /\ Yield(Make(kind, k)) = 1 - k
    /\ Add \in Waiting /\ Need(Add) = 2 /\ Yield(Add) = -1
    /\ Name \in Waiting /\ Need(Name) = 0 /\ Yield(Name) = 1
    /\ \A loop \in {"items", "entries", "arguments", "parameters"}, k \in Nat :
          /\ More(loop, k) \in Waiting /\ Need(More(loop, k)) = 1 /\ Yield(More(loop, k)) = 0
    /\ \A l \in Levels :
          LoopAt(l) \in Waiting /\ Need(LoopAt(l)) = 1 /\ Yield(LoopAt(l)) = 0
    /\ \A loop \in {"fields", "signatures", "methods"} :
          LET g == Goal("members", loop, 0)
          IN  g \in Waiting /\ Need(g) = 1 /\ Yield(g) = 0
<1>1. ASSUME NEW t \in Words
      PROVE  Expect(t) \in Waiting /\ Need(Expect(t)) = 0 /\ Yield(Expect(t)) = 0
  BY GoalFacts DEF Expect
<1>2. ASSUME NEW kind \in Words, NEW k \in Nat
      PROVE  /\ Make(kind, k) \in Waiting /\ Need(Make(kind, k)) = k
             /\ Yield(Make(kind, k)) = 1 - k
  BY GoalFacts DEF Make
<1>3. Add \in Waiting /\ Need(Add) = 2 /\ Yield(Add) = -1
  BY Calls DEF Add
<1>4. Name \in Waiting /\ Need(Name) = 0 /\ Yield(Name) = 1
  <2>1. "identifier" \in Words /\ "take" \in Producers \ Held
    BY DEF Words, Producers, Held
  <2> QED
    BY <2>1, GoalFacts DEF Name
<1>5. "more" \in Users \ Held /\ "operators" \in Users \ Held /\ "members" \in Users \ Held
  BY DEF Users, Held
<1>6. ASSUME NEW loop \in {"items", "entries", "arguments", "parameters"}, NEW k \in Nat
      PROVE  More(loop, k) \in Waiting /\ Need(More(loop, k)) = 1 /\ Yield(More(loop, k)) = 0
  <2>1. loop \in Words
    BY DEF Words
  <2> QED
    BY <1>5, <2>1, GoalFacts DEF More
<1>7. ASSUME NEW l \in Levels
      PROVE  LoopAt(l) \in Waiting /\ Need(LoopAt(l)) = 1 /\ Yield(LoopAt(l)) = 0
  <2>1. l \in Nat /\ NoToken \in Words
    BY DEF Levels, OperatorsAt, Words
  <2> QED
    BY <1>5, <2>1, GoalFacts DEF LoopAt
<1>8. ASSUME NEW loop \in {"fields", "signatures", "methods"}
      PROVE  LET g == Goal("members", loop, 0)
             IN  g \in Waiting /\ Need(g) = 1 /\ Yield(g) = 0
  <2>1. loop \in Words
    BY DEF Words
  <2> QED
    BY <1>5, <2>1, GoalFacts
<1> QED
  BY <1>1, <1>2, <1>3, <1>4, <1>6, <1>7, <1>8

(* The words of the model.                                                  *)
LEMMA WordsOfGoals ==
    /\ Token \subseteq Words /\ NoToken \in Words
    /\ \A w \in {"(", ")", "[", "]", LBrace, RBrace, Comma, ":", Semicolon, "=", ">", "as", "fn"} :
          w \in Token
    /\ \A w \in {"+=", "-=", "struct", "interface", "impl", "implement", "import", "return",
                 "if", "while", "for", "int", "str"} : w \in Token
    /\ \A w \in {"identifier", "items", "entries", "arguments", "parameters", "fields",
                 "signatures", "methods", "parameter", "list_literal", "map_literal", "call",
                 "entry", "named", "index", "call_value", "method", "field", "block",
                 "signature", "declaration", "for_in", "expression"} : w \in Words
<1>1. Token \subseteq Words /\ NoToken \in Words
  BY DEF Words
<1>2. ASSUME NEW w \in {"(", ")", "[", "]", LBrace, RBrace, Comma, ":", Semicolon, "=", ">", "as",
                         "fn"}
      PROVE  w \in Token
  <2>1. CASE w \in {">"}
    <3>1. 4 \in Levels
      <4>1. Levels = 1 .. 6
        BY DEF Levels, OperatorsAt
      <4> QED
        BY <4>1
    <3>2. OperatorsAt[4] = {"<", "<=", ">", ">="}
      BY DEF OperatorsAt
    <3> QED
      BY <2>1, <3>1, <3>2 DEF Token
  <2>2. CASE w \notin {">"}
    BY <2>2 DEF Token
  <2> QED
    BY <2>1, <2>2
<1>3. ASSUME NEW w \in {"+=", "-=", "struct", "interface", "impl", "implement", "import",
                         "return", "if", "while", "for", "int", "str"}
      PROVE  w \in Token
  <2>1. CASE w \in {"+=", "-="}
    BY <2>1 DEF Token, Compound
  <2>2. CASE w \in {"int", "str"}
    BY <2>2 DEF Token, Types, Literals
  <2>3. CASE w \notin {"+=", "-=", "int", "str"}
    BY <2>3 DEF Token
  <2> QED
    BY <2>1, <2>2, <2>3
<1>4. ASSUME NEW w \in {"identifier", "items", "entries", "arguments", "parameters", "fields",
                         "signatures", "methods", "parameter", "list_literal", "map_literal",
                         "call", "entry", "named", "index", "call_value", "method", "field",
                         "block", "signature", "declaration", "for_in", "expression"}
      PROVE  w \in Words
  BY DEF Words
<1> QED
  BY <1>1, <1>2, <1>3, <1>4

-----------------------------------------------------------------------------
(* The lists of goals that several actions use.                             *)

(* There are six levels of operators.                                       *)
LEMMA LevelsAre == Levels = 1 .. 6 /\ Len(OperatorsAt) = 6
BY DEF Levels, OperatorsAt

(* What can start with some nodes can start with more.                      *)
LEMMA RunsMore ==
    ASSUME NEW s, NEW x, NEW d, Runs(s, x, d), NEW z \in Nat, x <= z
    PROVE  Runs(s, z, d)
BY DEF Runs

(* Goals that each go on with a node can follow each other.                 *)
LEMMA LoopsRun ==
    ASSUME NEW m \in Nat, NEW s \in [1 .. m -> Waiting],
           \A k \in 1 .. m : Need(s[k]) = 1 /\ Yield(s[k]) = 0
    PROVE  Runs(s, 1, 0)
<1>1. s \in Seq(Waiting) /\ Len(s) = m
  BY SeqDef, LenProperties
<1>2. ASSUME NEW a \in Nat, a >= 1
      PROVE  Walk(s, a, a + 0)
  <2> DEFINE h == [k \in 1 .. m + 1 |-> a]
  <2>1. h \in [1 .. m + 1 -> Nat] /\ h[1] = a /\ h[m + 1] = a + 0
    BY <1>2
  <2>2. \A k \in 1 .. m : Need(s[k]) <= h[k] /\ h[k + 1] = h[k] + Yield(s[k])
    BY <1>2
  <2> HIDE DEF h
  <2> QED
    BY <1>1, <2>1, <2>2 DEF Walk
<1> QED
  BY <1>1, <1>2 DEF Runs

(* The calls down the ladder return a node.                                 *)
LEMMA LadderRuns ==
    ASSUME NEW l \in 1 .. 7
    PROVE  Runs(Ladder(l), 0, 1)
<1> DEFINE m == 7 - l
           s == [k \in 1 .. m |-> LoopAt(7 - k)]
<1>1. m \in Nat
  OBVIOUS
<1>2. ASSUME NEW k \in 1 .. m
      PROVE  s[k] \in Waiting /\ Need(s[k]) = 1 /\ Yield(s[k]) = 0
  <2>1. 7 - k \in Levels
    BY LevelsAre
  <2> QED
    BY <2>1, Rests
<1>3. s \in [1 .. m -> Waiting]
  BY <1>2
<1>4. Runs(s, 1, 0)
  <2> HIDE DEF s, m
  <2> QED
    BY <1>1, <1>2, <1>3, LoopsRun
<1>5. Parse("unary") \in Waiting /\ Need(Parse("unary")) = 0 /\ Yield(Parse("unary")) = 1
  BY Calls
<1>6. Runs(<<Parse("unary")>> \o s, 0, 1)
  <2> HIDE DEF s
  <2> QED
    BY <1>4, <1>5, RunsThen
<1> QED
  BY <1>6, LevelsAre DEF Ladder

(* An expression is one node.                                               *)
LEMMA ExpressionRuns == Runs(Expression, 0, 1)
BY LadderRuns DEF Expression

(* So is a block.                                                           *)
LEMMA BlockRuns == Runs(Block, 0, 1) /\ Runs(Braced, 0, 1)
<1>1. LBrace \in Words /\ RBrace \in Words /\ "block" \in Words
  BY WordsOfGoals
<1>2. /\ Make("block", 0) \in Waiting /\ Need(Make("block", 0)) = 0
      /\ Yield(Make("block", 0)) = 1 - 0
  BY <1>1, Rests
<1>3. /\ Parse("statements") \in Waiting /\ Need(Parse("statements")) = 1
      /\ Yield(Parse("statements")) = 0
  BY Calls
<1>4. /\ Expect(RBrace) \in Waiting /\ Need(Expect(RBrace)) = 0 /\ Yield(Expect(RBrace)) = 0
      /\ Expect(LBrace) \in Waiting /\ Need(Expect(LBrace)) = 0 /\ Yield(Expect(LBrace)) = 0
  BY <1>1, Rests
<1>5. Runs(Block, 0, 1)
  BY <1>2, <1>3, <1>4, RunsThree DEF Block
<1>6. Runs(<<Expect(LBrace)>> \o Block, 0, 1)
  BY <1>4, <1>5, RunsThen
<1> QED
  BY <1>5, <1>6 DEF Braced

(* A parameter is one node.                                                 *)
LEMMA ParameterRuns == Runs(Parameter, 0, 1)
<1>1. /\ Parse("parameter_type") \in Waiting /\ Need(Parse("parameter_type")) = 1
      /\ Yield(Parse("parameter_type")) = 0
  BY Calls
<1> QED
  BY <1>1, Rests, RunsTwo DEF Parameter

(* So are the head of a function and a function.                            *)
LEMMA FunctionRuns ==
    /\ \A kind \in Words : Runs(Signature(kind), 0, 1)
    /\ Runs(Function, 0, 1)
<1>1. "(" \in Words /\ ")" \in Words /\ "fn" \in Words
  BY WordsOfGoals
<1>2. ASSUME NEW kind \in Words PROVE Runs(Signature(kind), 0, 1)
  <2>1. /\ Expect("(") \in Waiting /\ Need(Expect("(")) = 0 /\ Yield(Expect("(")) = 0
        /\ Expect(")") \in Waiting /\ Need(Expect(")")) = 0 /\ Yield(Expect(")")) = 0
    BY <1>1, Rests
  <2>2. Make(kind, 1) \in Waiting /\ Need(Make(kind, 1)) = 1 /\ Yield(Make(kind, 1)) = 1 - 1
    BY Rests
  <2>3. /\ Parse("parameters") \in Waiting /\ Need(Parse("parameters")) = 1
        /\ Yield(Parse("parameters")) = 0
    BY Calls
  <2>4. Name \in Waiting /\ Need(Name) = 0 /\ Yield(Name) = 1
    BY Rests
  <2> QED
    BY <2>1, <2>2, <2>3, <2>4, RunsFive DEF Signature
<1>3. Runs(Signature("fn") \o Braced, 0, 2)
  BY <1>1, <1>2, BlockRuns, RunsBoth
<1>4. Runs(<<Add>>, 2, -1)
  BY Rests, RunsOne
<1>5. Runs((Signature("fn") \o Braced) \o <<Add>>, 0, 1)
  BY <1>3, <1>4, RunsBoth
<1> QED
  BY <1>2, <1>5 DEF Function

(* The members of a type are added to the node of its names.                *)
LEMMA MembersRun ==
    ASSUME NEW kind \in Words, NEW names \in Nat, NEW loop \in {"fields", "signatures", "methods"}
    PROVE  Runs(Members(kind, names, loop), names, 1 - names)
<1>1. LBrace \in Words /\ RBrace \in Words
  BY WordsOfGoals
<1>2. /\ Expect(RBrace) \in Waiting /\ Need(Expect(RBrace)) = 0 /\ Yield(Expect(RBrace)) = 0
      /\ Expect(LBrace) \in Waiting /\ Need(Expect(LBrace)) = 0 /\ Yield(Expect(LBrace)) = 0
  BY <1>1, Rests
<1>3. /\ Make(kind, names) \in Waiting /\ Need(Make(kind, names)) = names
      /\ Yield(Make(kind, names)) = 1 - names
  BY Rests
<1> DEFINE g == Goal("members", loop, 0)
<1>4. g \in Waiting /\ Need(g) = 1 /\ Yield(g) = 0
  BY Rests
<1> HIDE DEF g
<1>5. Runs(<<Expect(LBrace), Make(kind, names), g, Expect(RBrace)>>, names, 1 - names)
  BY <1>2, <1>3, <1>4, RunsFour
<1> QED
  BY <1>5 DEF Members, g

(* A statement that is an expression or an assignment is one node.          *)
LEMMA SimpleRuns == Runs(Simple, 0, 1)
<1>1. Runs(<<Parse("assignment")>>, 1, 0)
  BY Calls, RunsOne
<1> QED
  BY <1>1, ExpressionRuns, RunsBoth DEF Simple

(* So is a for with its clauses and its body.                               *)
LEMMA ClausesRun == Runs(Clauses, 0, 1)
<1>1. Semicolon \in Words /\ LBrace \in Words /\ "for" \in Words
  BY WordsOfGoals
<1>2. ASSUME NEW w \in Words, NEW k \in Nat
      PROVE  LET g == Goal("clause", w, k) IN g \in Waiting /\ Need(g) = 0 /\ Yield(g) = 1
  <2>1. "clause" \in Producers \ Held
    BY DEF Producers, Held
  <2> QED
    BY <2>1, GoalFacts
<1>3. /\ Expect(Semicolon) \in Waiting /\ Need(Expect(Semicolon)) = 0
      /\ Yield(Expect(Semicolon)) = 0
  BY <1>1, Rests
<1> DEFINE c1 == Goal("clause", Semicolon, 0)
           c2 == Goal("clause", Semicolon, 1)
           c3 == Goal("clause", LBrace, 0)
<1>4. /\ c1 \in Waiting /\ Need(c1) = 0 /\ Yield(c1) = 1
      /\ c2 \in Waiting /\ Need(c2) = 0 /\ Yield(c2) = 1
      /\ c3 \in Waiting /\ Need(c3) = 0 /\ Yield(c3) = 1
  BY <1>1, <1>2
<1> HIDE DEF c1, c2, c3
<1>5. Runs(<<c1, Expect(Semicolon), c2, Expect(Semicolon), c3>>, 0, 3)
  BY <1>3, <1>4, RunsFive
<1>6. Runs(<<c1, Expect(Semicolon), c2, Expect(Semicolon), c3>> \o Braced, 0, 4)
  BY <1>5, BlockRuns, RunsBoth
<1>7. Make("for", 4) \in Waiting /\ Need(Make("for", 4)) = 4 /\ Yield(Make("for", 4)) = 1 - 4
  BY <1>1, Rests
<1>8. Runs(<<Make("for", 4)>>, 4, -3)
  BY <1>7, RunsOne
<1>9. Runs((<<c1, Expect(Semicolon), c2, Expect(Semicolon), c3>> \o Braced) \o <<Make("for", 4)>>,
           0, 1)
  BY <1>6, <1>8, RunsBoth
<1> QED
  BY <1>9 DEF Clauses, c1, c2, c3

(* A positional argument is added to the call.                              *)
LEMMA PositionalRuns == \A k \in Nat : Runs(Positional(k), 1, 0)
<1>1. ASSUME NEW k \in Nat PROVE Runs(Positional(k), 1, 0)
  <2>1. /\ More("arguments", k) \in Waiting /\ Need(More("arguments", k)) = 1
        /\ Yield(More("arguments", k)) = 0
        /\ Add \in Waiting /\ Need(Add) = 2 /\ Yield(Add) = -1
    BY Rests
  <2> DEFINE t == <<Add, More("arguments", k)>>
  <2>2. Runs(t, 2, -1)
    BY <2>1, RunsTwo
  <2>3. Runs(Expression, 1, 1)
    BY ExpressionRuns, RunsMore
  <2> HIDE DEF t
  <2>4. Runs(Expression \o t, 1, 0)
    BY <2>2, <2>3, RunsBoth
  <2> QED
    BY <2>4 DEF Positional, t
<1> QED
  BY <1>1

-----------------------------------------------------------------------------
(* The invariant.                                                           *)

(* The token that is current, and the one that was put back, are those the  *)
(* text has at their places; the text ends where the lexer says it does.    *)
Tokens ==
    /\ input \in Seq(Token) /\ pos \in 0 .. Len(input)
    /\ words \in SUBSET (Token \ {EOF}) /\ free \in Nat
    /\ current \in Token \cup {NoToken} /\ pending \in Token \cup {NoToken}
    /\ pending # NoToken => pos >= 2 /\ pending = input[pos] /\ current = input[pos - 1]
    /\ pending = NoToken /\ pos > 0 => current = input[pos]
    /\ \A k \in 1 .. Len(input) : input[k] = EOF => k = Len(input)

(* Who looks one token past an identifier does it at once, with nothing put *)
(* back; the parse ends at the end of the text, or with an error.           *)
Turn ==
    /\ pos = 0 => todo # <<>> /\ Top.do = "prime"
    /\ todo # <<>> /\ Top.do \in Held =>
          /\ pending = NoToken /\ pos >= 2
          /\ Top.arg = input[pos - 1] /\ Top.arg \in Identifiers
    /\ todo = <<>> => hadError \/ current = EOF

(* With n nodes on the stack, the goals lead to one.                        *)
Shape(n) ==
    /\ todo \in Seq(Waiting \cup Immediate)
    /\ todo = <<>> => n = 1
    /\ todo # <<>> =>
          /\ Need(Top) <= n /\ n + Yield(Top) \in Nat /\ Walk(Tail(todo), n + Yield(Top), 1)
          /\ todo[Len(todo)].do = "program"

(* There are n nodes on the stack, if it still counts.                      *)
Built(n) ==
    /\ hadError \in BOOLEAN
    /\ IsSequence(values)
    /\ hadError => values = <<>>
    /\ ~hadError => Len(values) = n

Whole(n) == Tokens /\ Turn /\ Shape(n) /\ Built(n)

(* The inductive invariant.                                                 *)
ParserInv == \E n \in Nat : Whole(n)

-----------------------------------------------------------------------------
(* The tokens.                                                              *)

(* advance goes on to the next token of the text, or stays at the end.      *)
LEMMA AdvanceReads ==
    ASSUME Tokens, Advance
    PROVE  /\ Tokens' /\ pos' > 0 /\ pending' = NoToken
           /\ current' = input'[Place'] /\ Place' \in {Place, Place + 1}
           /\ pos > 0 /\ current \in Identifiers => pos' >= 2 /\ current = input'[pos' - 1]
<1> USE TokensAreThere DEF Tokens, Place
<1>1. Len(input) \in Nat /\ pos \in Nat /\ \A k \in 1 .. Len(input) : input[k] \in Token
  BY LenProperties, ElementOfSeq
<1>2. CASE pending # NoToken /\ current' = pending /\ pending' = NoToken /\ UNCHANGED text
  <2>1. input' = input /\ pos' = pos /\ words' = words /\ free' = free
    BY <1>2 DEF text
  <2> QED
    BY <1>1, <1>2, <2>1
<1>3. CASE pending = NoToken /\ Fetch /\ UNCHANGED pending
  <2>1. CASE /\ pos < Len(input)
             /\ current' = input[pos + 1] /\ pos' = pos + 1
             /\ UNCHANGED <<input, words, free>>
    BY <1>1, <1>3, <2>1
  <2>2. CASE /\ pos = Len(input) /\ pos > 0 /\ input[pos] = EOF
             /\ current' = EOF
             /\ UNCHANGED text
    <3>1. input' = input /\ pos' = pos /\ words' = words /\ free' = free
      BY <2>2 DEF text
    <3>2. current = EOF
      BY <1>3, <2>2
    <3> QED
      BY <1>1, <1>3, <2>2, <3>1, <3>2
  <2>3. CASE /\ pos = Len(input) /\ (pos > 0 => input[pos] # EOF)
             /\ \/ current' \in words /\ free > 0 /\ free' = free - 1
                \/ current' = EOF /\ UNCHANGED free
             /\ input' = Append(input, current') /\ pos' = pos + 1
             /\ UNCHANGED words
    <3>1. current' \in Token /\ free' \in Nat
      BY <2>3
    <3>2. /\ input' \in Seq(Token) /\ Len(input') = Len(input) + 1
          /\ \A k \in 1 .. Len(input) : input'[k] = input[k]
          /\ input'[Len(input) + 1] = current'
      BY <2>3, <3>1, AppendProperties
    <3>3. \A k \in 1 .. Len(input') : input'[k] = EOF => k = Len(input')
      <4>1. SUFFICES ASSUME NEW k \in 1 .. Len(input'), input'[k] = EOF, k # Len(input')
                     PROVE  FALSE
        OBVIOUS
      <4>2. k \in 1 .. Len(input) /\ input[k] = EOF
        BY <1>1, <3>2, <4>1
      <4>3. k = Len(input)
        BY <4>2
      <4> QED
        BY <1>1, <2>3, <4>2, <4>3
    <3>4. /\ current' = input'[pos'] /\ pos' > 0 /\ pos' \in 0 .. Len(input')
          /\ pos > 0 => current = input'[pos' - 1] /\ pos' >= 2
      BY <1>1, <1>3, <2>3, <3>2
    <3> QED
      BY <1>1, <1>3, <2>3, <3>1, <3>2, <3>3, <3>4
  <2> QED
    BY <1>3, <2>1, <2>2, <2>3 DEF Fetch
<1> QED
  BY <1>2, <1>3 DEF Advance

(* Putting a token back goes back to the identifier before it.              *)
LEMMA PutBackReads ==
    ASSUME Tokens, NEW identifier, pending = NoToken, pos >= 2, identifier = input[pos - 1],
           identifier \in Identifiers,
           pending' = current, current' = identifier, UNCHANGED text
    PROVE  /\ Tokens' /\ pos' > 0
           /\ current' = input'[Place'] /\ Place' = Place - 1
<1>1. input' = input /\ pos' = pos /\ words' = words /\ free' = free
  BY DEF text
<1>2. Len(input) \in Nat /\ pos \in Nat /\ \A k \in 1 .. Len(input) : input[k] \in Token
  BY LenProperties, ElementOfSeq DEF Tokens
<1>3. current = input[pos] /\ current \in Token /\ current # NoToken
  BY <1>2, TokensAreThere DEF Tokens
<1> QED
  BY <1>1, <1>2, <1>3, TokensAreThere DEF Tokens, Place

-----------------------------------------------------------------------------
(* The stack of values.                                                     *)

(* A step that builds nothing.                                              *)
LEMMA SameBuilds == \A n \in Nat : Built(n) /\ Same => Built(n)'
BY DEF Built, Same

(* An empty stack.                                                          *)
LEMMA NoValues == IsSequence(<<>>)
<1>1. <<>> \in Seq({})
  OBVIOUS
<1> QED
  BY <1>1, SequenceOfAnything

(* An error empties the stack for good.                                     *)
LEMMA ErrorBuilds == Error => \A n \in Nat : Built(n)'
BY NoValues DEF Built, Error

(* After an error the number of nodes does not count.                       *)
LEMMA NothingCounts == \A n, m \in Nat : Built(n) /\ hadError /\ Same => Built(m)'
BY DEF Built, Same

(* One more node.                                                           *)
LEMMA PutBuilds ==
    ASSUME NEW n \in Nat, Built(n), NEW v, Put(v), Fine
    PROVE  Built(n + 1)'
<1>1. CASE hadError
  BY <1>1, NoValues DEF Built, Put, Fine
<1>2. CASE ~hadError
  BY <1>2, Appended DEF Built, Put, Fine
<1> QED
  BY <1>1, <1>2 DEF Built

(* A node in the place of the newest k.                                     *)
LEMMA NodeBuilds ==
    ASSUME NEW n \in Nat, Built(n), NEW k \in Nat, k <= n, NEW v,
           values' = IF hadError THEN <<>> ELSE Append(Older(k), v), Fine
    PROVE  Built((n - k) + 1)'
<1>1. CASE hadError
  BY <1>1, NoValues DEF Built, Fine
<1>2. CASE ~hadError
  <2>1. IsSequence(values) /\ Len(values) = n /\ n - k \in 0 .. Len(values)
    BY <1>2 DEF Built
  <2>2. IsSequence(Older(k)) /\ Len(Older(k)) = n - k
    BY <2>1, Cut DEF Older
  <2> QED
    BY <1>2, <2>2, Appended DEF Built, Fine
<1> QED
  BY <1>1, <1>2 DEF Built

-----------------------------------------------------------------------------
(* Steps.                                                                   *)

(* The innermost call, and what it counts on.                               *)
LEMMA AtFacts ==
    ASSUME NEW n \in Nat, Whole(n), NEW do, At(do)
    PROVE  /\ todo # <<>> /\ Top.do = do /\ Top \in Waiting \cup Immediate
           /\ Top.arg \in Words /\ Top.n \in Nat /\ Need(Top) <= n /\ n + Yield(Top) \in Nat
           /\ do \in Producers => Yield(Top) = 1
           /\ do \in Joiners => Yield(Top) = -1 /\ n >= 2
           /\ do \in Users => Yield(Top) = 0 /\ n >= 1
           /\ do = "make" => Yield(Top) = 1 - Top.n /\ Top.n <= n
           /\ do \in {"expect", "prime"} => Yield(Top) = 0
           /\ do = "operators" => Top.n \in Levels
           /\ do = "members" => Top.arg \in {"fields", "signatures", "methods"}
           /\ do = "more" => Top.arg \in {"items", "entries", "arguments", "parameters"}
           /\ do \notin Held \cup {"prime"} => Top \in Waiting
<1> DEFINE g == Top
<1>1. todo # <<>> /\ g.do = do
  BY DEF At
<1>2. /\ todo \in Seq(Waiting \cup Immediate)
      /\ Need(g) <= n /\ n + Yield(g) \in Nat
  BY <1>1 DEF Whole, Shape
<1>3. g \in Waiting \cup Immediate
  BY <1>1, <1>2, EmptySeq, LenProperties, ElementOfSeq DEF Top
<1>4. g.arg \in Words /\ g.n \in Nat /\ (do \notin Held \cup {"prime"} => g \in Waiting)
  <2> HIDE DEF g
  <2> QED
    BY <1>1, <1>3 DEF Waiting, Immediate
<1>5. /\ "operators" \notin Held \cup {"prime"} /\ "members" \notin Held \cup {"prime"}
      /\ "more" \notin Held \cup {"prime"}
  BY DEF Held
<1>6. /\ do = "operators" => g.n \in Levels
      /\ do = "members" => g.arg \in {"fields", "signatures", "methods"}
      /\ do = "more" => g.arg \in {"items", "entries", "arguments", "parameters"}
  <2> HIDE DEF g
  <2> QED
    BY <1>1, <1>4, <1>5 DEF Waiting
<1>7. /\ do \in Producers => do # "make" /\ do \notin Joiners
      /\ do \in Joiners => do # "make"
      /\ do \in Users => do # "make" /\ do \notin Joiners /\ do \notin Producers
      /\ do \in {"expect", "prime"} => do # "make" /\ do \notin Joiners /\ do \notin Producers
  BY DEF Producers, Joiners, Users
<1>8. /\ do \in Producers => Yield(g) = 1
      /\ do \in Joiners => Yield(g) = -1 /\ Need(g) = 2
      /\ do \in Users => Yield(g) = 0 /\ Need(g) = 1
      /\ do = "make" => Yield(g) = 1 - g.n /\ Need(g) = g.n
      /\ do \in {"expect", "prime"} => Yield(g) = 0
  <2> HIDE DEF g
  <2> QED
    BY <1>1, <1>7 DEF Need, Yield
<1> QED
  BY <1>1, <1>2, <1>3, <1>4, <1>6, <1>8

(* A sequence joined to another ends as the other does.                     *)
LEMMA LastOfJoin ==
    ASSUME NEW S, NEW s \in Seq(S), NEW t \in Seq(S)
    PROVE  /\ s \o t \in Seq(S)
           /\ t # <<>> => s \o t # <<>> /\ (s \o t)[Len(s \o t)] = t[Len(t)]
           /\ t = <<>> => s \o t = s
<1>1. /\ s \o t \in Seq(S) /\ Len(s \o t) = Len(s) + Len(t)
      /\ Len(s) \in Nat /\ Len(t) \in Nat
      /\ \A i \in 1 .. Len(s) + Len(t) : (s \o t)[i] = IF i <= Len(s) THEN s[i] ELSE t[i - Len(s)]
  BY ConcatProperties, LenProperties
<1>2. ASSUME t # <<>> PROVE s \o t # <<>> /\ (s \o t)[Len(s \o t)] = t[Len(t)]
  <2>1. Len(t) >= 1
    BY <1>1, <1>2, EmptySeq
  <2>2. Len(s) + Len(t) \in 1 .. Len(s) + Len(t) /\ ~(Len(s) + Len(t) <= Len(s))
        /\ (Len(s) + Len(t)) - Len(s) = Len(t) /\ Len(s) + Len(t) # 0
    BY <1>1, <2>1
  <2> QED
    BY <1>1, <2>2, EmptySeq
<1>3. ASSUME t = <<>> PROVE s \o t = s
  BY <1>3, ConcatEmptySeq
<1> QED
  BY <1>1, <1>2, <1>3

(* What follows the innermost call.                                         *)
LEMMA RestFacts ==
    ASSUME NEW n \in Nat, Shape(n), todo # <<>>
    PROVE  /\ Tail(todo) \in Seq(Waiting) /\ Walk(Tail(todo), n + Yield(Top), 1)
           /\ Tail(todo) = <<>> => Top.do = "program" /\ n + Yield(Top) = 1
           /\ Tail(todo) # <<>> => Tail(todo)[Len(Tail(todo))].do = "program"
<1>1. /\ todo \in Seq(Waiting \cup Immediate)
      /\ Walk(Tail(todo), n + Yield(Top), 1) /\ todo[Len(todo)].do = "program"
  BY DEF Shape
<1>2. Tail(todo) \in Seq(Waiting)
  BY <1>1 DEF Walk
<1>3. /\ Len(todo) \in Nat /\ Len(todo) # 0 /\ Len(Tail(todo)) = Len(todo) - 1
      /\ \A i \in 1 .. Len(todo) - 1 : Tail(todo)[i] = todo[i + 1]
  BY <1>1, EmptySeq, LenProperties, HeadTailProperties
<1>4. ASSUME Tail(todo) = <<>> PROVE Top.do = "program" /\ n + Yield(Top) = 1
  <2>1. Len(todo) = 1
    <3> DEFINE t == Tail(todo)
               L == Len(todo)
    <3>1. t = <<>> /\ t \in Seq(Waiting) /\ Len(t) = L - 1 /\ L \in Nat
      BY <1>2, <1>3, <1>4
    <3> HIDE DEF t, L
    <3>2. Len(t) = 0
      BY <3>1, EmptySeq
    <3>3. L = 1
      BY <3>1, <3>2
    <3> QED
      BY <3>3 DEF L
  <2>2. Walk(<<>>, n + Yield(Top), 1)
    BY <1>1, <1>4
  <2> QED
    BY <1>1, <2>1, <2>2, WalkEmpty DEF Top
<1>5. ASSUME Tail(todo) # <<>> PROVE Tail(todo)[Len(Tail(todo))].do = "program"
  <2>1. Len(Tail(todo)) # 0
    BY <1>2, <1>5, EmptySeq
  <2>2. Len(todo) - 1 \in 1 .. Len(todo) - 1 /\ (Len(todo) - 1) + 1 = Len(todo)
    BY <1>3, <2>1
  <2> QED
    BY <1>1, <1>3, <2>2
<1> QED
  BY <1>1, <1>2, <1>4, <1>5

(* The goals in the place of a call return what it would have returned.     *)
LEMMA ShapeStays ==
    ASSUME NEW n \in Nat, Shape(n), todo # <<>>,
           NEW goals, NEW x, NEW d, Runs(goals, x, d),
           NEW m \in Nat, x <= m, m + d = n + Yield(Top),
           Then(goals),
           \/ Top.do # "program"
           \/ goals = <<>>
           \/ goals # <<>> /\ goals[Len(goals)].do = "program"
    PROVE  /\ Shape(m)' /\ todo' \in Seq(Waiting)
           /\ todo' = <<>> => Top.do = "program" /\ goals = <<>>
<1> DEFINE t == Tail(todo)
           u == todo'
<1>1. /\ t \in Seq(Waiting) /\ Walk(t, n + Yield(Top), 1)
      /\ t = <<>> => Top.do = "program" /\ n + Yield(Top) = 1
      /\ t # <<>> => t[Len(t)].do = "program"
  BY RestFacts
<1>2. u = goals \o t
  BY DEF Then
<1>3. Walk(goals, m, m + d) /\ goals \in Seq(Waiting)
  BY DEF Runs
<1>4. Walk(u, m, 1) /\ u \in Seq(Waiting)
  <2> HIDE DEF t, u
  <2>1. Walk(goals, m, n + Yield(Top))
    BY <1>3
  <2>2. Walk(goals \o t, m, 1)
    BY <1>1, <2>1, WalkBoth
  <2> QED
    BY <1>2, <2>2 DEF Walk
<1>5. ASSUME u = <<>> PROVE m = 1 /\ Top.do = "program" /\ goals = <<>>
  <2>1. t = <<>>
    <3> HIDE DEF t, u
    <3> QED
      BY <1>1, <1>2, <1>3, <1>5, LastOfJoin
  <2>2. goals = <<>>
    <3> HIDE DEF t, u
    <3> QED
      BY <1>1, <1>2, <1>3, <1>5, <2>1, LastOfJoin
  <2>3. m = 1
    <3> HIDE DEF t, u
    <3>1. Walk(<<>>, m, 1)
      BY <1>4, <1>5
    <3> QED
      BY <3>1, WalkEmpty
  <2> QED
    BY <1>1, <2>1, <2>2, <2>3
<1>6. ASSUME u # <<>>
      PROVE  /\ Need(u[1]) <= m /\ m + Yield(u[1]) \in Nat /\ Walk(Tail(u), m + Yield(u[1]), 1)
             /\ u[Len(u)].do = "program"
  <2>1. /\ Need(u[1]) <= m /\ m + Yield(u[1]) \in Nat /\ Walk(Tail(u), m + Yield(u[1]), 1)
    <3> HIDE DEF t, u
    <3> QED
      BY <1>4, <1>6, WalkFirst
  <2>2. u[Len(u)].do = "program"
    <3>1. CASE t # <<>>
      <4> HIDE DEF t, u
      <4> QED
        BY <1>1, <1>2, <1>3, <3>1, LastOfJoin
    <3>2. CASE t = <<>>
      <4>1. Top.do = "program"
        BY <1>1, <3>2
      <4>2. u = goals
        <5> HIDE DEF t, u
        <5> QED
          BY <1>1, <1>2, <1>3, <3>2, LastOfJoin
      <4>3. goals # <<>>
        BY <1>6, <4>2
      <4> QED
        BY <4>1, <4>2, <4>3
    <3> QED
      BY <3>1, <3>2
  <2> QED
    BY <2>1, <2>2
<1>7. u \in Seq(Waiting \cup Immediate)
  BY <1>4, SeqMonotonic
<1> QED
  BY <1>4, <1>5, <1>6, <1>7 DEF Shape, Top

(* No goal that waits is one that follows on a look at the next token.      *)
LEMMA WaitingIsNotHeld ==
    ASSUME NEW s \in Seq(Waiting), s # <<>>
    PROVE  s[1].do \notin Held
<1>1. s[1] \in Waiting
  BY EmptySeq, LenProperties, ElementOfSeq
<1> QED
  BY <1>1 DEF Waiting

(* A call that looks at the current token, and goes past it or not.         *)
LEMMA Goes ==
    ASSUME NEW n \in Nat, Whole(n), todo # <<>>, Top.do # "program",
           NEW goals, NEW x, NEW d, Runs(goals, x, d),
           NEW m \in Nat, x <= m, m + d = n + Yield(Top), Built(m)',
           Consume(goals) \/ (Skip(goals) /\ Top.do # "prime")
    PROVE  ParserInv'
<1>1. Tokens /\ Turn /\ Shape(n) /\ Then(goals)
  BY DEF Whole, Consume, Skip
<1>2. Shape(m)' /\ todo' \in Seq(Waiting) /\ todo' # <<>>
  BY <1>1, ShapeStays
<1>3. Tokens' /\ pos' # 0
  <2>1. CASE Consume(goals)
    BY <1>1, <2>1, AdvanceReads DEF Consume, Tokens
  <2>2. CASE Skip(goals) /\ Top.do # "prime"
    <3>1. UNCHANGED tokens /\ pos # 0
      BY <1>1, <2>2 DEF Skip, Turn
    <3> QED
      BY <1>1, <3>1 DEF Tokens, tokens, text
  <2> QED
    BY <2>1, <2>2
<1>4. Turn'
  <2>1. Top'.do \notin Held
    BY <1>2, WaitingIsNotHeld DEF Top
  <2> QED
    BY <1>2, <1>3, <2>1 DEF Turn
<1> QED
  BY <1>2, <1>3, <1>4 DEF ParserInv, Whole

(* A call that finds that the token before the current one was its last.    *)
LEMMA GoesBack ==
    ASSUME NEW n \in Nat, Whole(n), todo # <<>>, Top.do \in Held,
           NEW goals, NEW x, NEW d, Runs(goals, x, d),
           NEW m \in Nat, x <= m, m + d = n + Yield(Top), Built(m)',
           PutBack(Top.arg, goals)
    PROVE  /\ ParserInv'
           /\ pending = NoToken /\ current' = input'[Place'] /\ Place' = Place - 1
           /\ current' \in Identifiers
<1>1. Tokens /\ Turn /\ Shape(n) /\ Then(goals)
  BY DEF Whole, PutBack
<1>2. Top.do # "program"
  BY DEF Held
<1>3. Shape(m)' /\ todo' \in Seq(Waiting) /\ todo' # <<>>
  BY <1>1, <1>2, ShapeStays
<1>4. pending = NoToken /\ pos >= 2 /\ Top.arg = input[pos - 1] /\ Top.arg \in Identifiers
  BY <1>1 DEF Turn
<1>5. pending' = current /\ current' = Top.arg /\ UNCHANGED text
  BY DEF PutBack
<1>6. Tokens' /\ pos' > 0 /\ current' = input'[Place'] /\ Place' = Place - 1
  <2> DEFINE a == Top.arg
  <2>1. a = input[pos - 1] /\ a \in Identifiers /\ current' = a
    BY <1>4, <1>5
  <2> HIDE DEF a
  <2> QED
    BY <1>1, <1>4, <1>5, <2>1, PutBackReads
<1>7. Turn'
  <2>1. Top'.do \notin Held
    BY <1>3, WaitingIsNotHeld DEF Top
  <2>2. pos' # 0
    BY <1>6
  <2> QED
    BY <1>3, <2>1, <2>2 DEF Turn
<1> QED
  BY <1>3, <1>4, <1>5, <1>6, <1>7 DEF ParserInv, Whole

(* A call that goes past an identifier to look at the token after it.       *)
LEMMA LooksPast ==
    ASSUME NEW n \in Nat, Whole(n), todo # <<>>, Top.do # "program", Top.do # "prime",
           current \in Identifiers,
           NEW do \in Held, NEW k \in Nat,
           Need(Goal(do, current, k)) <= n, Yield(Goal(do, current, k)) = Yield(Top),
           Built(n)', Consume(<<Goal(do, current, k)>>)
    PROVE  ParserInv'
<1> DEFINE g == Goal(do, current, k)
           t == Tail(todo)
           u == todo'
<1>1. Tokens /\ Turn /\ Shape(n) /\ Then(<<g>>) /\ Advance
  BY DEF Whole, Consume
<1>2. /\ t \in Seq(Waiting) /\ Walk(t, n + Yield(Top), 1) /\ t # <<>>
      /\ t[Len(t)].do = "program"
  BY <1>1, RestFacts
<1>3. g \in Waiting \cup Immediate /\ g.do = do /\ g.arg = current
  <2>1. current \in Words
    BY TokensAreThere DEF Words
  <2> QED
    BY <2>1 DEF Goal, Immediate
<1>4. u = <<g>> \o t
  BY <1>1 DEF Then
<1>5. n + Yield(g) \in Nat
  BY <1>1 DEF Shape
<1>6. Need(g) <= n /\ Walk(t, n + Yield(g), 1)
  BY <1>2
<1>7. /\ u \in Seq(Waiting \cup Immediate) /\ u # <<>>
      /\ u[Len(u)] = t[Len(t)] /\ u[1] = g /\ Tail(u) = t
  <2> HIDE DEF g, t, u
  <2>1. <<g>> \in Seq(Waiting \cup Immediate) /\ t \in Seq(Waiting \cup Immediate)
    BY <1>2, <1>3, SeqMonotonic
  <2>2. /\ u \in Seq(Waiting \cup Immediate) /\ u # <<>> /\ u[Len(u)] = t[Len(t)]
    BY <1>2, <1>4, <2>1, LastOfJoin
  <2>3. u[1] = g /\ Tail(u) = t
    <3>1. /\ Len(<<g>>) = 1 /\ <<g>>[1] = g /\ Len(t) \in Nat
      BY <2>1, LenProperties
    <3>2. /\ Len(u) = 1 + Len(t)
          /\ \A i \in 1 .. 1 + Len(t) : u[i] = IF i <= 1 THEN <<g>>[i] ELSE t[i - 1]
      BY <1>4, <2>1, <3>1, ConcatProperties
    <3>3. u[1] = g
      BY <3>1, <3>2
    <3>4. Tail(u) \in Seq(Waiting \cup Immediate) /\ Len(Tail(u)) = Len(t)
      BY <2>2, <3>1, <3>2, HeadTailProperties
    <3>5. ASSUME NEW i \in 1 .. Len(t) PROVE Tail(u)[i] = t[i]
      <4>1. Tail(u)[i] = u[i + 1]
        BY <2>2, <3>1, <3>2, HeadTailProperties
      <4>2. i + 1 \in 1 .. 1 + Len(t) /\ ~(i + 1 <= 1) /\ (i + 1) - 1 = i
        BY <3>1
      <4> QED
        BY <3>2, <4>1, <4>2
    <3>6. Tail(u) = t
      BY <2>1, <3>4, <3>5, SeqEqual
    <3> QED
      BY <3>3, <3>6
  <2> QED
    BY <2>2, <2>3
<1>8. Shape(n)'
  BY <1>2, <1>5, <1>6, <1>7 DEF Shape, Top
<1>9. pos > 0
  BY <1>1 DEF Turn, Tokens
<1>10. /\ Tokens' /\ pos' > 0 /\ pending' = NoToken
       /\ pos' >= 2 /\ current = input'[pos' - 1]
  BY <1>1, <1>9, AdvanceReads
<1>11. Turn'
  <2>1. Top' = g
    BY <1>7 DEF Top
  <2>2. pos' # 0 /\ Top'.arg = current
    BY <1>3, <1>10, <2>1
  <2> QED
    BY <1>7, <1>10, <2>1, <2>2 DEF Turn
<1> QED
  BY <1>8, <1>10, <1>11 DEF ParserInv, Whole

-----------------------------------------------------------------------------
(* The helpers.                                                             *)

(* The current token is a word.                                             *)
LEMMA CurrentIsWord == Tokens => current \in Words
BY DEF Tokens, Words

(* Goals about the current token or about a loop.                           *)
LEMMA GoalsAbout ==
    /\ \A w \in Words : LET g == Goal("type_arguments", w, 0)
                        IN  g \in Waiting /\ Need(g) = 1 /\ Yield(g) = 0
    /\ \A w \in Words : LET g == Goal("assign", w, 0)
                        IN  g \in Waiting /\ Need(g) = 2 /\ Yield(g) = -1
    /\ \A w \in Words : LET g == Goal("take", w, 0)
                        IN  g \in Waiting /\ Need(g) = 0 /\ Yield(g) = 1
    /\ \A loop \in {"items", "entries", "arguments", "parameters"}, k \in Nat :
          LET g == Goal(loop, NoToken, k)
          IN  g \in Waiting /\ Need(g) = 1 /\ Yield(g) = 0
<1>1. /\ "type_arguments" \in Users \ Held
      /\ "type_arguments" \notin {"operators", "members", "more"}
      /\ "assign" \in Joiners /\ "take" \in Producers \ Held
  BY DEF Users, Joiners, Producers, Held
<1>2. NoToken \in Words
  BY DEF Words
<1>3. ASSUME NEW w \in Words
      PROVE  LET g == Goal("type_arguments", w, 0)
             IN  g \in Waiting /\ Need(g) = 1 /\ Yield(g) = 0
  BY <1>1, GoalFacts
<1>4. ASSUME NEW w \in Words
      PROVE  LET g == Goal("assign", w, 0)
             IN  g \in Waiting /\ Need(g) = 2 /\ Yield(g) = -1
  BY <1>1, GoalFacts
<1>5. ASSUME NEW w \in Words
      PROVE  LET g == Goal("take", w, 0)
             IN  g \in Waiting /\ Need(g) = 0 /\ Yield(g) = 1
  BY <1>1, GoalFacts
<1>6. ASSUME NEW loop \in {"items", "entries", "arguments", "parameters"}, NEW k \in Nat
      PROVE  LET g == Goal(loop, NoToken, k)
             IN  g \in Waiting /\ Need(g) = 1 /\ Yield(g) = 0
  <2>1. loop \in Users \ Held /\ loop \notin {"operators", "members", "more"}
    BY DEF Users, Held
  <2> QED
    BY <1>2, <2>1, GoalFacts
<1> QED
  BY <1>3, <1>4, <1>5, <1>6

(* The first token is read.                                                 *)
LEMMA PrimeKeeps == ASSUME NEW n \in Nat, Whole(n), Prime PROVE ParserInv'
<1>1. todo # <<>> /\ Top.do = "prime" /\ Yield(Top) = 0
  BY AtFacts DEF Prime
<1>2. Built(n)'
  BY SameBuilds DEF Prime, Whole
<1> QED
  BY <1>1, <1>2, RunsNone, Goes DEF Prime

(* A token is expected.                                                     *)
LEMMA ExpectTokenKeeps == ASSUME NEW n \in Nat, Whole(n), ExpectToken PROVE ParserInv'
<1>1. todo # <<>> /\ Top.do = "expect" /\ Yield(Top) = 0
  BY AtFacts DEF ExpectToken
<1>2. Built(n)'
  BY SameBuilds, ErrorBuilds DEF ExpectToken, Whole
<1> QED
  BY <1>1, <1>2, RunsNone, Goes DEF ExpectToken

(* A leaf is put on the stack.                                              *)
LEMMA TakeKeeps == ASSUME NEW n \in Nat, Whole(n), Take PROVE ParserInv'
<1>1. todo # <<>> /\ Top.do = "take" /\ Yield(Top) = 1
  BY AtFacts DEF Take, Producers
<1>2. Built(n + 1)'
  BY PutBuilds, ErrorBuilds DEF Take, Whole
<1> QED
  BY <1>1, <1>2, RunsNone, Goes DEF Take

(* A node is made of the newest ones.                                       *)
LEMMA MakeNodeKeeps == ASSUME NEW n \in Nat, Whole(n), MakeNode PROVE ParserInv'
<1>1. /\ todo # <<>> /\ Top.do = "make" /\ Yield(Top) = 1 - Top.n /\ Top.n \in Nat
      /\ Top.n <= n
  BY AtFacts DEF MakeNode
<1>2. PICK k \in Nat : k = Top.n
  BY <1>1
<1>3. PICK m \in Nat : m = (n - k) + 1
  BY <1>1, <1>2
<1> DEFINE v == Node(Top.arg, Newest(Top.n))
<1>4. /\ values' = IF hadError THEN <<>> ELSE Append(Older(k), v)
      /\ Fine /\ Skip(<<>>) /\ Built(n)
  BY <1>2 DEF MakeNode, Whole
<1>5. Built(m)'
  <2> HIDE DEF v
  <2> QED
    BY <1>1, <1>2, <1>3, <1>4, NodeBuilds
<1>6. m + 0 = n + Yield(Top) /\ Top.do # "program" /\ Top.do # "prime"
  BY <1>1, <1>2, <1>3
<1>7. Runs(<<>>, 0, 0)
  BY RunsNone
<1> QED
  BY <1>1, <1>4, <1>5, <1>6, <1>7, Goes

(* The newest node joins the one before.                                    *)
LEMMA AddNodeKeeps == ASSUME NEW n \in Nat, Whole(n), AddNode PROVE ParserInv'
<1>1. /\ todo # <<>> /\ Top.do = "add" /\ Yield(Top) = -1 /\ n >= 2
  BY AtFacts DEF AddNode, Joiners
<1>2. Built((n - 2) + 1)'
  <2> DEFINE parent == values[Len(values) - 1]
             v == Node(parent.kind, parent.kids \o Newest(1))
  <2>1. /\ values' = IF hadError THEN <<>> ELSE Append(Older(2), v)
        /\ Fine /\ Built(n)
    BY DEF AddNode, Whole
  <2> HIDE DEF v
  <2> QED
    BY <1>1, <2>1, NodeBuilds
<1>3. (n - 2) + 1 \in Nat /\ ((n - 2) + 1) + 0 = n + Yield(Top)
  BY <1>1
<1> QED
  BY <1>1, <1>2, <1>3, RunsNone, Goes DEF AddNode

(* A list goes on, or ends.                                                 *)
LEMMA ReadMoreKeeps == ASSUME NEW n \in Nat, Whole(n), ReadMore PROVE ParserInv'
<1>1. /\ todo # <<>> /\ Top.do = "more" /\ Yield(Top) = 0 /\ n >= 1
      /\ Top.arg \in {"items", "entries", "arguments", "parameters"} /\ Top.n \in Nat
  BY AtFacts DEF ReadMore, Users
<1>2. Built(n)'
  BY SameBuilds DEF ReadMore, Whole
<1>3. CASE Consume(<<Goal(Top.arg, NoToken, Top.n)>>)
  <2>1. Runs(<<Goal(Top.arg, NoToken, Top.n)>>, 1, 0)
    BY <1>1, GoalsAbout, RunsOne
  <2> QED
    BY <1>1, <1>2, <1>3, <2>1, Goes
<1>4. CASE Skip(IF Top.arg = "arguments" THEN <<Expect(")")>> ELSE <<>>)
  <2> DEFINE goals == IF Top.arg = "arguments" THEN <<Expect(")")>> ELSE <<>>
  <2>1. Runs(<<Expect(")")>>, 1, 0) /\ Runs(<<>>, 1, 0)
    BY WordsOfGoals, Rests, RunsOne, RunsNone
  <2>2. Runs(goals, 1, 0)
    BY <2>1
  <2> HIDE DEF goals
  <2> QED
    BY <1>1, <1>2, <1>4, <2>2, Goes DEF goals
<1> QED
  BY <1>3, <1>4 DEF ReadMore

-----------------------------------------------------------------------------
(* Types and parameters.                                                    *)

(* A type, or what stands for one after an error.                           *)
LEMMA ParseTypeKeeps == ASSUME NEW n \in Nat, Whole(n), ParseType PROVE ParserInv'
<1>1. todo # <<>> /\ Top.do = "type" /\ Yield(Top) = 1
  BY AtFacts DEF ParseType, Producers
<1>2. Built(n + 1)'
  BY PutBuilds, ErrorBuilds DEF ParseType, Whole
<1>3. PICK w \in Words : \/ Consume(<<Goal("type_arguments", w, 0)>>)
                         \/ Skip(<<Goal("type_arguments", w, 0)>>)
  BY CurrentIsWord, WordsOfGoals DEF ParseType, Whole
<1>4. Runs(<<Goal("type_arguments", w, 0)>>, 1, 0)
  BY GoalsAbout, RunsOne
<1> QED
  BY <1>1, <1>2, <1>3, <1>4, Goes

(* The types between the brackets are added to the one before.              *)
LEMMA ParseTypeArgumentsKeeps ==
    ASSUME NEW n \in Nat, Whole(n), ParseTypeArguments PROVE ParserInv'
<1>1. todo # <<>> /\ Top.do = "type_arguments" /\ Yield(Top) = 0 /\ n >= 1
  BY AtFacts DEF ParseTypeArguments, Users
<1>2. Built(n)'
  BY SameBuilds, ErrorBuilds DEF ParseTypeArguments, Whole
<1>3. ASSUME NEW close \in Words PROVE Runs(TypeArgument(close), 1, 0)
  <2>1. /\ Parse("type") \in Waiting /\ Need(Parse("type")) = 0 /\ Yield(Parse("type")) = 1
        /\ Add \in Waiting /\ Need(Add) = 2 /\ Yield(Add) = -1
        /\ Expect(close) \in Waiting /\ Need(Expect(close)) = 0 /\ Yield(Expect(close)) = 0
    BY Calls, Rests
  <2> QED
    BY <2>1, RunsThree DEF TypeArgument
<1>4. Comma \in Words /\ ">" \in Words
  BY WordsOfGoals
<1>5. Runs(TypeArgument(">"), 1, 0) /\ Runs(TypeArgument(Comma), 1, 0)
  BY <1>3, <1>4
<1>6. Runs(TypeArgument(Comma) \o TypeArgument(">"), 1, 0)
  BY <1>5, RunsBoth
<1>7. PICK goals : Runs(goals, 1, 0) /\ (Consume(goals) \/ Skip(goals))
  BY <1>5, <1>6, RunsNone DEF ParseTypeArguments
<1> QED
  BY <1>1, <1>2, <1>7, Goes

(* A parameter takes its name, and its type if it has one.                  *)
LEMMA ParseParameterTypeKeeps ==
    ASSUME NEW n \in Nat, Whole(n), ParseParameterType PROVE ParserInv'
<1>1. todo # <<>> /\ Top.do = "parameter_type" /\ Yield(Top) = 0 /\ n >= 1
  BY AtFacts DEF ParseParameterType, Users
<1>2. Built(n)'
  BY SameBuilds DEF ParseParameterType, Whole
<1>3. Runs(<<Make("parameter", 1)>>, 1, 0)
  BY WordsOfGoals, Rests, RunsOne
<1>4. Runs(<<Parse("type"), Parse("base"), Make("parameter", 2)>>, 1, 0)
  <2>1. /\ Parse("type") \in Waiting /\ Need(Parse("type")) = 0 /\ Yield(Parse("type")) = 1
        /\ Parse("base") \in Waiting /\ Need(Parse("base")) = 1 /\ Yield(Parse("base")) = 0
        /\ Make("parameter", 2) \in Waiting /\ Need(Make("parameter", 2)) = 2
        /\ Yield(Make("parameter", 2)) = 1 - 2
    BY Calls, Rests, WordsOfGoals
  <2> QED
    BY <2>1, RunsThree
<1>5. PICK goals : Runs(goals, 1, 0) /\ (Consume(goals) \/ Skip(goals))
  BY <1>3, <1>4 DEF ParseParameterType
<1> QED
  BY <1>1, <1>2, <1>5, Goes

(* The base of a type takes its place.                                      *)
LEMMA KeepBaseKeeps == ASSUME NEW n \in Nat, Whole(n), KeepBase PROVE ParserInv'
<1>1. todo # <<>> /\ Top.do = "base" /\ Yield(Top) = 0 /\ n >= 1
  BY AtFacts DEF KeepBase, Users
<1>2. Built(n)'
  <2> DEFINE v == Leaf(values[Len(values)].kind)
  <2>1. values' = IF hadError THEN <<>> ELSE Append(Older(1), v)
    BY DEF KeepBase
  <2>2. Fine /\ Built(n)
    BY DEF KeepBase, Whole
  <2> HIDE DEF v
  <2>3. Built((n - 1) + 1)'
    BY <1>1, <2>1, <2>2, NodeBuilds
  <2> QED
    BY <2>3
<1> QED
  BY <1>1, <1>2, RunsNone, Goes DEF KeepBase

-----------------------------------------------------------------------------
(* Expressions.                                                             *)

(* An operator takes the node before it and the one after.                  *)
LEMMA ParseOperatorsKeeps ==
    ASSUME NEW n \in Nat, Whole(n), ParseOperators PROVE ParserInv'
<1>1. todo # <<>> /\ Top.do = "operators" /\ Yield(Top) = 0 /\ n >= 1 /\ Top.n \in Levels
  BY AtFacts DEF ParseOperators, Users
<1>2. Top \in Waiting /\ Need(Top) = 1
  <2>1. "operators" \notin Held \cup {"prime"} /\ "operators" # "make"
        /\ "operators" \notin Joiners /\ "operators" \in Users
    BY DEF Held, Joiners, Users
  <2>2. At("operators")
    BY DEF ParseOperators
  <2>3. Top \in Waiting
    BY <2>1, <2>2, AtFacts
  <2> QED
    BY <1>1, <2>1, <2>3 DEF Need
<1>3. Built(n)'
  BY SameBuilds DEF ParseOperators, Whole
<1>4. PICK w \in Words : w = current
  BY CurrentIsWord DEF Whole
<1>5. PICK l \in 1 .. 7 : l = Top.n + 1
  BY <1>1, LevelsAre
<1>6. Runs(Ladder(Top.n + 1) \o <<Make(current, 2), Top>>, 1, 0)
  <2> DEFINE t == <<Make(w, 2), Top>>
  <2>1. Make(w, 2) \in Waiting /\ Need(Make(w, 2)) = 2 /\ Yield(Make(w, 2)) = 1 - 2
    BY Rests
  <2>2. Runs(t, 2, -1)
    BY <1>1, <1>2, <2>1, RunsTwo
  <2>3. Runs(Ladder(l), 1, 1)
    BY LadderRuns, RunsMore
  <2> HIDE DEF t
  <2>4. Runs(Ladder(l) \o t, 1, 0)
    BY <2>2, <2>3, RunsBoth
  <2> QED
    BY <1>4, <1>5, <2>4 DEF t
<1>7. PICK goals : Runs(goals, 1, 0) /\ (Consume(goals) \/ Skip(goals))
  BY <1>6, RunsNone DEF ParseOperators
<1> QED
  BY <1>1, <1>3, <1>7, Goes

(* A sign goes before what it applies to.                                   *)
LEMMA ParseUnaryKeeps == ASSUME NEW n \in Nat, Whole(n), ParseUnary PROVE ParserInv'
<1>1. todo # <<>> /\ Top.do = "unary" /\ Yield(Top) = 1
  BY AtFacts DEF ParseUnary, Producers
<1>2. Built(n)'
  BY SameBuilds DEF ParseUnary, Whole
<1>3. Runs(<<Parse("primary"), Parse("postfix")>>, 0, 1)
  BY Calls, RunsTwo
<1>4. Runs(<<Parse("unary"), Make(current, 1)>>, 0, 1)
  <2>1. current \in Words
    BY CurrentIsWord DEF Whole
  <2>2. /\ Make(current, 1) \in Waiting /\ Need(Make(current, 1)) = 1
        /\ Yield(Make(current, 1)) = 1 - 1
    BY <2>1, Rests
  <2> QED
    BY <2>2, Calls, RunsTwo
<1>5. PICK goals : Runs(goals, 0, 1) /\ (Consume(goals) \/ Skip(goals))
  BY <1>3, <1>4 DEF ParseUnary
<1> QED
  BY <1>1, <1>2, <1>5, Goes

(* A primary expression is a node.                                          *)
LEMMA ParsePrimaryKeeps == ASSUME NEW n \in Nat, Whole(n), ParsePrimary PROVE ParserInv'
<1>1. todo # <<>> /\ Top.do = "primary" /\ Yield(Top) = 1
  BY AtFacts DEF ParsePrimary, Producers
<1>2. CASE Consume(<<>>) /\ Put(Leaf(current)) /\ Fine
  <2>1. Built(n + 1)'
    BY <1>2, PutBuilds DEF Whole
  <2> QED
    BY <1>1, <1>2, <2>1, RunsNone, Goes
<1>3. CASE Consume(<<Parse("call")>>) /\ Put(Leaf(current)) /\ Fine
  <2>1. Built(n + 1)'
    BY <1>3, PutBuilds DEF Whole
  <2>2. Runs(<<Parse("call")>>, 1, 0)
    BY Calls, RunsOne
  <2> QED
    BY <1>1, <1>3, <2>1, <2>2, Goes
<1>4. CASE Skip(<<>>) /\ Error
  <2>1. Built(n + 1)'
    BY <1>4, ErrorBuilds
  <2> QED
    BY <1>1, <1>4, <2>1, RunsNone, Goes
<1>5. Runs(Expression \o <<Expect(")")>>, 0, 1)
  <2>1. Runs(<<Expect(")")>>, 1, 0)
    BY WordsOfGoals, Rests, RunsOne
  <2> QED
    BY <2>1, ExpressionRuns, RunsBoth
<1>6. ASSUME NEW kind \in Words, NEW loop \in {"items", "entries"}, NEW close \in Words
      PROVE  Runs(<<Make(kind, 0), Parse(loop), Expect(close)>>, 0, 1)
  <2>1. /\ Make(kind, 0) \in Waiting /\ Need(Make(kind, 0)) = 0 /\ Yield(Make(kind, 0)) = 1 - 0
        /\ Parse(loop) \in Waiting /\ Need(Parse(loop)) = 1 /\ Yield(Parse(loop)) = 0
        /\ Expect(close) \in Waiting /\ Need(Expect(close)) = 0 /\ Yield(Expect(close)) = 0
    BY Calls, Rests
  <2> QED
    BY <2>1, RunsThree
<1>7. /\ Runs(<<Make("list_literal", 0), Parse("items"), Expect("]")>>, 0, 1)
      /\ Runs(<<Make("map_literal", 0), Parse("entries"), Expect(RBrace)>>, 0, 1)
  <2>1. "]" \in Words /\ RBrace \in Words /\ "list_literal" \in Words /\ "map_literal" \in Words
    BY WordsOfGoals
  <2> QED
    BY <1>6, <2>1
<1>8. ASSUME NEW goals, Runs(goals, 0, 1), Consume(goals), Same PROVE ParserInv'
  <2>1. Built(n)'
    BY <1>8, SameBuilds DEF Whole
  <2> QED
    BY <1>1, <1>8, <2>1, Goes
<1> QED
  BY <1>2, <1>3, <1>4, <1>5, <1>7, <1>8 DEF ParsePrimary

(* A call by name takes its arguments.                                      *)
LEMMA ParseCallKeeps == ASSUME NEW n \in Nat, Whole(n), ParseCall PROVE ParserInv'
<1>1. todo # <<>> /\ Top.do = "call" /\ Yield(Top) = 0 /\ n >= 1
  BY AtFacts DEF ParseCall, Users
<1>2. Built(n)'
  BY SameBuilds DEF ParseCall, Whole
<1>3. Runs(<<Make("call", 1), Parse("arguments")>>, 1, 0)
  <2>1. /\ Make("call", 1) \in Waiting /\ Need(Make("call", 1)) = 1
        /\ Yield(Make("call", 1)) = 1 - 1
    BY Rests, WordsOfGoals
  <2> QED
    BY <2>1, Calls, RunsTwo
<1>4. PICK goals : Runs(goals, 1, 0) /\ (Consume(goals) \/ Skip(goals))
  BY <1>3, RunsNone DEF ParseCall
<1> QED
  BY <1>1, <1>2, <1>4, Goes

(* An item is added to its list.                                            *)
LEMMA ParseItemsKeeps == ASSUME NEW n \in Nat, Whole(n), ParseItems PROVE ParserInv'
<1>1. todo # <<>> /\ Top.do = "items" /\ Yield(Top) = 0 /\ n >= 1
  BY AtFacts DEF ParseItems, Users
<1>2. Built(n)'
  BY SameBuilds DEF ParseItems, Whole
<1>3. Runs(Expression \o <<Add, More("items", 0)>>, 1, 0)
  <2> DEFINE t == <<Add, More("items", 0)>>
  <2>1. Runs(t, 2, -1)
    BY Rests, RunsTwo
  <2>2. Runs(Expression, 1, 1)
    BY ExpressionRuns, RunsMore
  <2> HIDE DEF t
  <2>3. Runs(Expression \o t, 1, 0)
    BY <2>1, <2>2, RunsBoth
  <2> QED
    BY <2>3 DEF t
<1>4. PICK goals : Runs(goals, 1, 0) /\ Skip(goals)
  BY <1>3, RunsNone DEF ParseItems
<1> QED
  BY <1>1, <1>2, <1>4, Goes

(* An entry, of a key and a value, is added to its map.                     *)
LEMMA ParseEntriesKeeps == ASSUME NEW n \in Nat, Whole(n), ParseEntries PROVE ParserInv'
<1>1. todo # <<>> /\ Top.do = "entries" /\ Yield(Top) = 0 /\ n >= 1
  BY AtFacts DEF ParseEntries, Users
<1>2. Built(n)'
  BY SameBuilds DEF ParseEntries, Whole
<1>3. Runs(Expression \o <<Expect(":")>> \o Expression
             \o <<Make("entry", 2), Add, More("entries", 0)>>, 1, 0)
  <2> DEFINE t == <<Make("entry", 2), Add, More("entries", 0)>>
             c == <<Expect(":")>>
  <2>1. /\ Make("entry", 2) \in Waiting /\ Need(Make("entry", 2)) = 2
        /\ Yield(Make("entry", 2)) = 1 - 2
        /\ Add \in Waiting /\ Need(Add) = 2 /\ Yield(Add) = -1
        /\ More("entries", 0) \in Waiting /\ Need(More("entries", 0)) = 1
        /\ Yield(More("entries", 0)) = 0
    BY Rests, WordsOfGoals
  <2>2. Runs(t, 3, -2)
    BY <2>1, RunsThree
  <2>3. Runs(c, 2, 0)
    BY Rests, WordsOfGoals, RunsOne
  <2>4. Runs(Expression, 1, 1) /\ Runs(Expression, 2, 1)
    BY ExpressionRuns, RunsMore
  <2> HIDE DEF t, c
  <2>5. Runs(Expression \o c, 1, 1)
    BY <2>3, <2>4, RunsBoth
  <2>6. Runs((Expression \o c) \o Expression, 1, 2)
    BY <2>4, <2>5, RunsBoth
  <2>7. Runs(((Expression \o c) \o Expression) \o t, 1, 0)
    BY <2>2, <2>6, RunsBoth
  <2> QED
    BY <2>7 DEF t, c
<1>4. PICK goals : Runs(goals, 1, 0) /\ Skip(goals)
  BY <1>3, RunsNone DEF ParseEntries
<1> QED
  BY <1>1, <1>2, <1>4, Goes

(* The goals that follow on a look at the token after an identifier.        *)
LEMMA HeldGoals ==
    \A w, k : /\ Need(Goal("argument", w, k)) = 1 /\ Yield(Goal("argument", w, k)) = 0
              /\ Need(Goal("for_in", w, k)) = 0 /\ Yield(Goal("for_in", w, k)) = 1
              /\ Need(Goal("simple", w, k)) = 0 /\ Yield(Goal("simple", w, k)) = 1
<1>1. \A do, w, k : Goal(do, w, k).do = do
  BY DEF Goal
<1>2. /\ "argument" \in Users /\ "argument" \notin Joiners \cup Producers
      /\ "for_in" \in Producers /\ "for_in" \notin Joiners \cup Users
      /\ "simple" \in Producers /\ "simple" \notin Joiners \cup Users
  BY DEF Users, Joiners, Producers
<1> QED
  BY <1>1, <1>2 DEF Need, Yield

(* The arguments are added to their call one by one.                        *)
LEMMA ParseArgumentsKeeps == ASSUME NEW n \in Nat, Whole(n), ParseArguments PROVE ParserInv'
<1>1. todo # <<>> /\ Top.do = "arguments" /\ Yield(Top) = 0 /\ n >= 1 /\ Top.n \in Nat
  BY AtFacts DEF ParseArguments, Users
<1>2. Built(n)'
  BY SameBuilds, ErrorBuilds DEF ParseArguments, PositionalAfter, Whole
<1>3. CASE Is(Identifiers) /\ Consume(<<Goal("argument", current, Top.n)>>)
  <2>1. PICK k \in Nat : k = Top.n
    BY <1>1
  <2>2. "argument" \in Held
    BY DEF Held
  <2>3. /\ Need(Goal("argument", current, k)) = 1 /\ Yield(Goal("argument", current, k)) = 0
        /\ Consume(<<Goal("argument", current, k)>>) /\ current \in Identifiers
    BY <1>3, <2>1, HeldGoals DEF Is
  <2> QED
    BY <1>1, <1>2, <2>2, <2>3, LooksPast
<1>4. CASE Skip(<<Expect(")")>>) \/ Skip(Positional(Top.n))
  <2>1. Runs(<<Expect(")")>>, 1, 0)
    BY WordsOfGoals, Rests, RunsOne
  <2>2. PICK goals : Runs(goals, 1, 0) /\ Skip(goals)
    BY <1>1, <1>4, <2>1, PositionalRuns
  <2> QED
    BY <1>1, <1>2, <2>2, Goes
<1> QED
  BY <1>3, <1>4 DEF ParseArguments

(* An argument is one with a name, or the identifier begins an expression.  *)
LEMMA ParseArgumentAfterIdentifierKeeps ==
    ASSUME NEW n \in Nat, Whole(n), ParseArgumentAfterIdentifier PROVE ParserInv'
<1>1. todo # <<>> /\ Top.do = "argument" /\ Yield(Top) = 0 /\ n >= 1 /\ Top.n \in Nat
  BY AtFacts DEF ParseArgumentAfterIdentifier, Users
<1>2. CASE /\ Put(Leaf(Top.arg)) /\ Fine
           /\ Consume(Expression \o <<Make("named", 2), Add, More("arguments", 1)>>)
  <2> DEFINE t == <<Make("named", 2), Add, More("arguments", 1)>>
  <2>1. /\ Make("named", 2) \in Waiting /\ Need(Make("named", 2)) = 2
        /\ Yield(Make("named", 2)) = 1 - 2
        /\ Add \in Waiting /\ Need(Add) = 2 /\ Yield(Add) = -1
        /\ More("arguments", 1) \in Waiting /\ Need(More("arguments", 1)) = 1
        /\ Yield(More("arguments", 1)) = 0
    BY Rests, WordsOfGoals
  <2>2. Runs(t, 3, -2)
    BY <2>1, RunsThree
  <2>3. Runs(Expression, 2, 1)
    BY ExpressionRuns, RunsMore
  <2>4. Consume(Expression \o t)
    BY <1>2
  <2> HIDE DEF t
  <2>5. Runs(Expression \o t, 2, -1)
    BY <2>2, <2>3, RunsBoth
  <2>6. PICK goals : Runs(goals, 2, -1) /\ Consume(goals)
    BY <2>4, <2>5
  <2>7. Built(n + 1)'
    BY <1>2, PutBuilds DEF Whole
  <2> QED
    BY <1>1, <2>6, <2>7, Goes
<1>3. CASE PutBack(Top.arg, Positional(Top.n)) /\ PositionalAfter(Top.n)
  <2>1. Built(n)'
    BY <1>3, SameBuilds, ErrorBuilds DEF PositionalAfter, Whole
  <2>2. PICK goals : Runs(goals, 1, 0) /\ PutBack(Top.arg, goals)
    BY <1>1, <1>3, PositionalRuns
  <2>3. Top.do \in Held
    BY <1>1 DEF Held
  <2> QED
    BY <1>1, <2>1, <2>2, <2>3, GoesBack
<1> QED
  BY <1>2, <1>3 DEF ParseArgumentAfterIdentifier

(* What comes after an expression takes it as its first part.               *)
LEMMA ParsePostfixKeeps == ASSUME NEW n \in Nat, Whole(n), ParsePostfix PROVE ParserInv'
<1>1. todo # <<>> /\ Top.do = "postfix" /\ Yield(Top) = 0 /\ n >= 1
  BY AtFacts DEF ParsePostfix, Users
<1>2. Top \in Waiting /\ Need(Top) = 1
  <2>1. "postfix" \notin Held \cup {"prime"} /\ "postfix" # "make"
        /\ "postfix" \notin Joiners /\ "postfix" \in Users
    BY DEF Held, Joiners, Users
  <2>2. At("postfix")
    BY DEF ParsePostfix
  <2>3. Top \in Waiting
    BY <2>1, <2>2, AtFacts
  <2> QED
    BY <1>1, <2>1, <2>3 DEF Need
<1>3. PICK top : top = Top
  OBVIOUS
<1>4. top \in Waiting /\ Need(top) = 1 /\ Yield(top) = 0
  BY <1>1, <1>2, <1>3
<1>5. Built(n)'
  BY SameBuilds DEF ParsePostfix, Whole
<1>6. Runs(Expression \o <<Expect("]"), Make("index", 2), top>>, 1, 0)
  <2> DEFINE t == <<Expect("]"), Make("index", 2), top>>
  <2>1. /\ Expect("]") \in Waiting /\ Need(Expect("]")) = 0 /\ Yield(Expect("]")) = 0
        /\ Make("index", 2) \in Waiting /\ Need(Make("index", 2)) = 2
        /\ Yield(Make("index", 2)) = 1 - 2
    BY Rests, WordsOfGoals
  <2>2. Runs(t, 2, -1)
    BY <1>4, <2>1, RunsThree
  <2>3. Runs(Expression, 1, 1)
    BY ExpressionRuns, RunsMore
  <2> HIDE DEF t
  <2>4. Runs(Expression \o t, 1, 0)
    BY <2>2, <2>3, RunsBoth
  <2> QED
    BY <2>4 DEF t
<1>7. Runs(<<Make("call_value", 1), Parse("arguments"), top>>, 1, 0)
  <2>1. /\ Make("call_value", 1) \in Waiting /\ Need(Make("call_value", 1)) = 1
        /\ Yield(Make("call_value", 1)) = 1 - 1
        /\ Parse("arguments") \in Waiting /\ Need(Parse("arguments")) = 1
        /\ Yield(Parse("arguments")) = 0
    BY Rests, WordsOfGoals, Calls
  <2> QED
    BY <1>4, <2>1, RunsThree
<1>8. Runs(<<Name, Parse("member"), top>>, 1, 0)
  <2>1. /\ Name \in Waiting /\ Need(Name) = 0 /\ Yield(Name) = 1
        /\ Parse("member") \in Waiting /\ Need(Parse("member")) = 2
        /\ Yield(Parse("member")) = -1
    BY Rests, Calls
  <2> QED
    BY <1>4, <2>1, RunsThree
<1>9. PICK goals : Runs(goals, 1, 0) /\ (Consume(goals) \/ Skip(goals))
  BY <1>3, <1>6, <1>7, <1>8, RunsNone DEF ParsePostfix
<1> QED
  BY <1>1, <1>5, <1>9, Goes

(* A member takes what it is a member of and its name.                      *)
LEMMA ParseMemberKeeps == ASSUME NEW n \in Nat, Whole(n), ParseMember PROVE ParserInv'
<1>1. todo # <<>> /\ Top.do = "member" /\ Yield(Top) = -1 /\ n >= 2
  BY AtFacts DEF ParseMember, Joiners
<1>2. Built(n)'
  BY SameBuilds DEF ParseMember, Whole
<1>3. ASSUME NEW kind \in Words
      PROVE  Make(kind, 2) \in Waiting /\ Need(Make(kind, 2)) = 2 /\ Yield(Make(kind, 2)) = 1 - 2
  BY Rests
<1>4. "field" \in Words /\ "method" \in Words
  BY WordsOfGoals
<1>5. Runs(<<Make("field", 2)>>, 2, -1)
  BY <1>3, <1>4, RunsOne
<1>6. Runs(<<Make("method", 2), Parse("arguments")>>, 2, -1)
  BY <1>3, <1>4, Calls, RunsTwo
<1>7. PICK goals : Runs(goals, 2, -1) /\ (Consume(goals) \/ Skip(goals))
  BY <1>5, <1>6 DEF ParseMember
<1> QED
  BY <1>1, <1>2, <1>7, Goes

-----------------------------------------------------------------------------
(* Statements.                                                              *)

(* A loop that comes back to itself adds a node in each round.              *)
LEMMA RoundsRun ==
    ASSUME NEW g, g \in Waiting, Need(g) = 1, Yield(g) = 0, NEW part, Runs(part, 0, 1)
    PROVE  Runs(part \o <<Add, g>>, 1, 0)
<1> DEFINE t == <<Add, g>>
<1>1. Add \in Waiting /\ Need(Add) = 2 /\ Yield(Add) = -1
  BY Rests
<1>2. Runs(t, 2, -1)
  BY <1>1, RunsTwo
<1>3. Runs(part, 1, 1)
  BY RunsMore
<1> HIDE DEF t
<1>4. Runs(part \o t, 1, 0)
  BY <1>2, <1>3, RunsBoth
<1> QED
  BY <1>4 DEF t

(* The node is made of what the last goals leave.                           *)
LEMMA MadeAtTheEnd ==
    ASSUME NEW part, NEW x, NEW d, Runs(part, x, d), NEW kind \in Words, NEW k \in Nat,
           k <= x + d, NEW e \in Int, e = d + 1 - k
    PROVE  Runs(part \o <<Make(kind, k)>>, x, e)
<1>1. Make(kind, k) \in Waiting /\ Need(Make(kind, k)) = k /\ Yield(Make(kind, k)) = 1 - k
  BY Rests
<1>2. PICK y \in Int : y = 1 - k
  OBVIOUS
<1>3. Runs(<<Make(kind, k)>>, k, y)
  BY <1>1, <1>2, RunsOne
<1>4. d \in Int /\ e = d + y
  BY <1>2 DEF Runs
<1> QED
  BY <1>3, <1>4, RunsBoth

(* Each kind of statement is one node.                                      *)
LEMMA StatementsRun ==
    /\ Runs(Function, 0, 1)
    /\ Runs(<<Name>> \o Members("struct", 1, "fields"), 0, 1)
    /\ Runs(<<Name>> \o Members("interface", 1, "signatures"), 0, 1)
    /\ Runs(<<Name>> \o Members("impl", 1, "methods"), 0, 1)
    /\ Runs(<<Goal("take", "str", 0), Expect("as"), Name, Make("import", 2)>>, 0, 1)
    /\ Runs(<<Parse("result")>>, 0, 1)
    /\ Runs(Expression \o Braced \o <<Parse("else")>>, 0, 1)
    /\ Runs(Expression \o Braced \o <<Make("while", 2)>>, 0, 1)
    /\ Runs(<<Parse("for")>>, 0, 1)
    /\ Runs(Simple, 0, 1)
<1>1. /\ "struct" \in Words /\ "interface" \in Words /\ "impl" \in Words /\ "import" \in Words
      /\ "while" \in Words /\ "as" \in Words /\ "str" \in Words
  BY WordsOfGoals
<1>2. ASSUME NEW kind \in Words, NEW loop \in {"fields", "signatures", "methods"}
      PROVE  Runs(<<Name>> \o Members(kind, 1, loop), 0, 1)
  <2>1. Runs(Members(kind, 1, loop), 1, 0)
    BY MembersRun
  <2> QED
    BY <2>1, Rests, RunsThen
<1>3. Runs(<<Goal("take", "str", 0), Expect("as"), Name, Make("import", 2)>>, 0, 1)
  <2> DEFINE g == Goal("take", "str", 0)
  <2>1. g \in Waiting /\ Need(g) = 0 /\ Yield(g) = 1
    BY <1>1, GoalsAbout
  <2>2. /\ Expect("as") \in Waiting /\ Need(Expect("as")) = 0 /\ Yield(Expect("as")) = 0
        /\ Name \in Waiting /\ Need(Name) = 0 /\ Yield(Name) = 1
        /\ Make("import", 2) \in Waiting /\ Need(Make("import", 2)) = 2
        /\ Yield(Make("import", 2)) = 1 - 2
    BY <1>1, Rests
  <2> HIDE DEF g
  <2>3. Runs(<<g, Expect("as"), Name, Make("import", 2)>>, 0, 1)
    BY <2>1, <2>2, RunsFour
  <2> QED
    BY <2>3 DEF g
<1>4. Runs(<<Parse("result")>>, 0, 1) /\ Runs(<<Parse("for")>>, 0, 1)
  BY Calls, RunsOne
<1>5. Runs(Expression \o Braced, 0, 2)
  <2>1. Runs(Braced, 0, 1)
    BY BlockRuns
  <2> QED
    BY <2>1, ExpressionRuns, RunsBoth
<1>6. Runs((Expression \o Braced) \o <<Parse("else")>>, 0, 1)
  <2>1. Runs(<<Parse("else")>>, 2, -1)
    BY Calls, RunsOne
  <2> QED
    BY <1>5, <2>1, RunsBoth
<1>7. Runs((Expression \o Braced) \o <<Make("while", 2)>>, 0, 1)
  BY <1>1, <1>5, MadeAtTheEnd
<1>8. Runs(Function, 0, 1)
  BY FunctionRuns
<1>9. /\ Runs(<<Name>> \o Members("struct", 1, "fields"), 0, 1)
      /\ Runs(<<Name>> \o Members("interface", 1, "signatures"), 0, 1)
      /\ Runs(<<Name>> \o Members("impl", 1, "methods"), 0, 1)
  BY <1>1, <1>2
<1> QED
  BY <1>3, <1>4, <1>6, <1>7, <1>8, <1>9, SimpleRuns

(* A statement is one node.                                                 *)
LEMMA ParseStatementKeeps == ASSUME NEW n \in Nat, Whole(n), ParseStatement PROVE ParserInv'
<1>1. todo # <<>> /\ Top.do = "statement" /\ Yield(Top) = 1
  BY AtFacts DEF ParseStatement, Producers
<1>2. ASSUME NEW goals, Runs(goals, 0, 1), Consume(goals) \/ Skip(goals), Same PROVE ParserInv'
  <2>1. Built(n)'
    BY <1>2, SameBuilds DEF Whole
  <2> QED
    BY <1>1, <1>2, <2>1, Goes
<1>3. CASE Is(Identifiers) /\ Consume(<<Goal("simple", current, 0)>>) /\ Same
  <2>1. Built(n)'
    BY <1>3, SameBuilds DEF Whole
  <2>2. "simple" \in Held
    BY DEF Held
  <2>3. current \in Identifiers /\ Need(Goal("simple", current, 0)) = 0
        /\ Yield(Goal("simple", current, 0)) = 1
    BY <1>3, HeldGoals DEF Is
  <2> QED
    BY <1>1, <1>3, <2>1, <2>2, <2>3, LooksPast
<1>4. CASE Put(Leaf(current)) /\ Fine /\ Consume(<<>>)
  <2>1. Built(n + 1)'
    BY <1>4, PutBuilds DEF Whole
  <2> QED
    BY <1>1, <1>4, <2>1, RunsNone, Goes
<1>5. CASE /\ Same
           /\ \/ Consume(Function)
              \/ Consume(<<Name>> \o Members("struct", 1, "fields"))
              \/ Consume(<<Name>> \o Members("interface", 1, "signatures"))
              \/ Consume(<<Name>> \o Members("impl", 1, "methods"))
              \/ Consume(<<Goal("take", "str", 0), Expect("as"), Name, Make("import", 2)>>)
              \/ Consume(<<Parse("result")>>)
              \/ Consume(Expression \o Braced \o <<Parse("else")>>)
              \/ Consume(Expression \o Braced \o <<Make("while", 2)>>)
              \/ Consume(<<Parse("for")>>)
              \/ Skip(Simple)
  <2>1. PICK goals : Runs(goals, 0, 1) /\ (Consume(goals) \/ Skip(goals))
    BY <1>5, StatementsRun
  <2> QED
    BY <1>2, <1>5, <2>1
<1> QED
  BY <1>3, <1>4, <1>5 DEF ParseStatement

(* A statement is added to its block.                                       *)
LEMMA ParseStatementsKeeps == ASSUME NEW n \in Nat, Whole(n), ParseStatements PROVE ParserInv'
<1>1. todo # <<>> /\ Top.do = "statements" /\ Yield(Top) = 0 /\ n >= 1
  BY AtFacts DEF ParseStatements, Users
<1>2. Top \in Waiting /\ Need(Top) = 1
  <2>1. "statements" \notin Held \cup {"prime"} /\ "statements" # "make"
        /\ "statements" \notin Joiners /\ "statements" \in Users
    BY DEF Held, Joiners, Users
  <2>2. At("statements")
    BY DEF ParseStatements
  <2>3. Top \in Waiting
    BY <2>1, <2>2, AtFacts
  <2> QED
    BY <1>1, <2>1, <2>3 DEF Need
<1>3. PICK top : top = Top
  OBVIOUS
<1>4. Built(n)'
  BY SameBuilds DEF ParseStatements, Whole
<1>5. Runs(<<Parse("statement"), Add, top>>, 1, 0)
  <2>1. /\ Parse("statement") \in Waiting /\ Need(Parse("statement")) = 0
        /\ Yield(Parse("statement")) = 1
        /\ Add \in Waiting /\ Need(Add) = 2 /\ Yield(Add) = -1
        /\ top \in Waiting /\ Need(top) = 1 /\ Yield(top) = 0
    BY <1>1, <1>2, <1>3, Calls, Rests
  <2> QED
    BY <2>1, RunsThree
<1>6. PICK goals : Runs(goals, 1, 0) /\ Skip(goals)
  BY <1>3, <1>5, RunsNone DEF ParseStatements
<1> QED
  BY <1>1, <1>4, <1>6, Goes

(* A parameter is added to its function.                                    *)
LEMMA ParseParametersKeeps == ASSUME NEW n \in Nat, Whole(n), ParseParameters PROVE ParserInv'
<1>1. todo # <<>> /\ Top.do = "parameters" /\ Yield(Top) = 0 /\ n >= 1
  BY AtFacts DEF ParseParameters, Users
<1>2. Built(n)'
  BY SameBuilds DEF ParseParameters, Whole
<1>3. /\ More("parameters", 0) \in Waiting /\ Need(More("parameters", 0)) = 1
      /\ Yield(More("parameters", 0)) = 0
  BY Rests
<1>4. Runs(Parameter \o <<Add, More("parameters", 0)>>, 1, 0)
  BY <1>3, ParameterRuns, RoundsRun
<1>5. PICK goals : Runs(goals, 1, 0) /\ Skip(goals)
  BY <1>4, RunsNone DEF ParseParameters
<1> QED
  BY <1>1, <1>2, <1>5, Goes

(* A member is added to its type.                                           *)
LEMMA ParseMembersKeeps == ASSUME NEW n \in Nat, Whole(n), ParseMembers PROVE ParserInv'
<1>1. /\ todo # <<>> /\ Top.do = "members" /\ Yield(Top) = 0 /\ n >= 1
      /\ Top.arg \in {"fields", "signatures", "methods"}
  BY AtFacts DEF ParseMembers, Users
<1>2. Top \in Waiting /\ Need(Top) = 1
  <2>1. "members" \notin Held \cup {"prime"} /\ "members" # "make"
        /\ "members" \notin Joiners /\ "members" \in Users
    BY DEF Held, Joiners, Users
  <2>2. At("members")
    BY DEF ParseMembers
  <2>3. Top \in Waiting
    BY <2>1, <2>2, AtFacts
  <2> QED
    BY <1>1, <2>1, <2>3 DEF Need
<1>3. PICK top : top = Top
  OBVIOUS
<1>4. Built(n)'
  BY SameBuilds DEF ParseMembers, Whole
<1> DEFINE member == CASE Top.arg = "fields" -> Parameter
                       [] Top.arg = "signatures" -> <<Expect("fn")>> \o Signature("signature")
                       [] Top.arg = "methods" -> <<Expect("fn")>> \o Function
<1>5. Runs(member, 0, 1)
  <2>1. /\ Expect("fn") \in Waiting /\ Need(Expect("fn")) = 0 /\ Yield(Expect("fn")) = 0
        /\ "signature" \in Words
    BY WordsOfGoals, Rests
  <2>2. Runs(Signature("signature"), 0, 1) /\ Runs(Function, 0, 1)
    BY <2>1, FunctionRuns
  <2>3. /\ Runs(<<Expect("fn")>> \o Signature("signature"), 0, 1)
        /\ Runs(<<Expect("fn")>> \o Function, 0, 1)
    BY <2>1, <2>2, RunsThen
  <2>4. /\ Top.arg = "fields" => member = Parameter
        /\ Top.arg = "signatures" => member = <<Expect("fn")>> \o Signature("signature")
        /\ Top.arg = "methods" => member = <<Expect("fn")>> \o Function
    OBVIOUS
  <2> HIDE DEF member
  <2> QED
    BY <1>1, <2>3, <2>4, ParameterRuns
<1>6. PICK goals : Runs(goals, 1, 0) /\ Skip(goals)
  <2>1. Skip(IF AtEnd(RBrace) THEN <<>> ELSE member \o <<Add, Top>>)
    BY DEF ParseMembers
  <2> HIDE DEF member
  <2>2. Runs(member \o <<Add, top>>, 1, 0)
    <3>1. PICK part : part = member
      OBVIOUS
    <3>2. top \in Waiting /\ Need(top) = 1 /\ Yield(top) = 0
      BY <1>1, <1>2, <1>3
    <3>3. Runs(part \o <<Add, top>>, 1, 0)
      BY <1>5, <3>1, <3>2, RoundsRun
    <3> QED
      BY <3>1, <3>3
  <2> QED
    BY <1>3, <2>1, <2>2, RunsNone
<1> QED
  BY <1>1, <1>4, <1>6, Goes

(* A return has a value, unless a brace comes next.                         *)
LEMMA ParseResultKeeps == ASSUME NEW n \in Nat, Whole(n), ParseResult PROVE ParserInv'
<1>1. todo # <<>> /\ Top.do = "result" /\ Yield(Top) = 1
  BY AtFacts DEF ParseResult, Producers
<1>2. Built(n)'
  BY SameBuilds DEF ParseResult, Whole
<1>3. "return" \in Words
  BY WordsOfGoals
<1>4. Runs(Expression \o <<Make("return", 1)>>, 0, 1)
  BY <1>3, ExpressionRuns, MadeAtTheEnd
<1>5. Runs(<<Make("return", 0)>>, 0, 1)
  <2>1. /\ Make("return", 0) \in Waiting /\ Need(Make("return", 0)) = 0
        /\ Yield(Make("return", 0)) = 1 - 0
    BY <1>3, Rests
  <2> QED
    BY <2>1, RunsOne
<1>6. PICK goals : Runs(goals, 0, 1) /\ Skip(goals)
  BY <1>4, <1>5 DEF ParseResult
<1> QED
  BY <1>1, <1>2, <1>6, Goes

(* An if takes its condition and its block, and its other branch if any.    *)
LEMMA ParseElseKeeps == ASSUME NEW n \in Nat, Whole(n), ParseElse PROVE ParserInv'
<1>1. todo # <<>> /\ Top.do = "else" /\ Yield(Top) = -1 /\ n >= 2
  BY AtFacts DEF ParseElse, Joiners
<1>2. Built(n)'
  BY SameBuilds DEF ParseElse, Whole
<1>3. Runs(<<Parse("else_branch")>>, 2, -1)
  BY Calls, RunsOne
<1>4. Runs(<<Make("if", 2)>>, 2, -1)
  <2>1. /\ Make("if", 2) \in Waiting /\ Need(Make("if", 2)) = 2 /\ Yield(Make("if", 2)) = 1 - 2
    BY WordsOfGoals, Rests
  <2> QED
    BY <2>1, RunsOne
<1>5. PICK goals : Runs(goals, 2, -1) /\ (Consume(goals) \/ Skip(goals))
  BY <1>3, <1>4 DEF ParseElse
<1> QED
  BY <1>1, <1>2, <1>5, Goes

(* The other branch is an if or a block.                                    *)
LEMMA ParseElseBranchKeeps == ASSUME NEW n \in Nat, Whole(n), ParseElseBranch PROVE ParserInv'
<1>1. todo # <<>> /\ Top.do = "else_branch" /\ Yield(Top) = -1 /\ n >= 2
  BY AtFacts DEF ParseElseBranch, Joiners
<1>2. Built(n)'
  BY SameBuilds DEF ParseElseBranch, Whole
<1>3. PICK part : /\ part = IF Is({"if"}) THEN <<Parse("statement")>> ELSE Braced
                  /\ Skip(part \o <<Make("if", 3)>>)
  BY DEF ParseElseBranch
<1>4. Runs(part, 2, 1)
  <2>1. Runs(<<Parse("statement")>>, 2, 1)
    BY Calls, RunsOne
  <2>2. Runs(Braced, 2, 1)
    BY BlockRuns, RunsMore
  <2> QED
    BY <1>3, <2>1, <2>2
<1>5. Runs(part \o <<Make("if", 3)>>, 2, -1)
  <2>1. "if" \in Words
    BY WordsOfGoals
  <2> QED
    BY <1>4, <2>1, MadeAtTheEnd
<1> QED
  BY <1>1, <1>2, <1>3, <1>5, Goes

(* A for looks past an identifier, or parses its clauses.                   *)
LEMMA ParseForKeeps == ASSUME NEW n \in Nat, Whole(n), ParseFor PROVE ParserInv'
<1>1. todo # <<>> /\ Top.do = "for" /\ Yield(Top) = 1
  BY AtFacts DEF ParseFor, Producers
<1>2. Built(n)'
  BY SameBuilds DEF ParseFor, Whole
<1>3. CASE Is(Identifiers) /\ Consume(<<Goal("for_in", current, 0)>>)
  <2>1. "for_in" \in Held
    BY DEF Held
  <2>2. current \in Identifiers /\ Need(Goal("for_in", current, 0)) = 0
        /\ Yield(Goal("for_in", current, 0)) = 1
    BY <1>3, HeldGoals DEF Is
  <2> QED
    BY <1>1, <1>2, <1>3, <2>1, <2>2, LooksPast
<1>4. CASE Skip(Clauses)
  BY <1>1, <1>2, <1>4, ClausesRun, Goes
<1> QED
  BY <1>3, <1>4 DEF ParseFor

(* A for runs over a value, or the identifier begins its first clause.      *)
LEMMA ParseForInKeeps == ASSUME NEW n \in Nat, Whole(n), ParseForIn PROVE ParserInv'
<1>1. todo # <<>> /\ Top.do = "for_in" /\ Yield(Top) = 1
  BY AtFacts DEF ParseForIn, Producers
<1>2. CASE Put(Leaf(Top.arg)) /\ Fine /\ Consume(Expression \o Braced \o <<Make("for_in", 3)>>)
  <2>1. Runs(Expression \o Braced, 1, 2)
    <3>1. Runs(Braced, 0, 1) /\ Runs(Expression, 1, 1)
      BY BlockRuns, ExpressionRuns, RunsMore
    <3> QED
      BY <3>1, RunsBoth
  <2>2. Runs((Expression \o Braced) \o <<Make("for_in", 3)>>, 1, 0)
    <3>1. "for_in" \in Words
      BY WordsOfGoals
    <3> QED
      BY <2>1, <3>1, MadeAtTheEnd
  <2>3. Built(n + 1)'
    BY <1>2, PutBuilds DEF Whole
  <2> QED
    BY <1>1, <1>2, <2>2, <2>3, Goes
<1>3. CASE PutBack(Top.arg, Clauses) /\ Same
  <2>1. Built(n)'
    BY <1>3, SameBuilds DEF Whole
  <2>2. Top.do \in Held
    BY <1>1 DEF Held
  <2> QED
    BY <1>1, <1>3, <2>1, <2>2, ClausesRun, GoesBack
<1> QED
  BY <1>2, <1>3 DEF ParseForIn

(* A clause is a node, if only one that stands for nothing.                 *)
LEMMA ParseClauseKeeps == ASSUME NEW n \in Nat, Whole(n), ParseClause PROVE ParserInv'
<1>1. todo # <<>> /\ Top.do = "clause" /\ Yield(Top) = 1
  BY AtFacts DEF ParseClause, Producers
<1>2. CASE Put(Nothing) /\ Fine /\ Skip(<<>>)
  <2>1. Built(n + 1)'
    BY <1>2, PutBuilds DEF Whole
  <2> QED
    BY <1>1, <1>2, <2>1, RunsNone, Goes
<1>3. CASE Same /\ Skip(IF Top.n = 1 THEN Expression ELSE <<Parse("statement")>>)
  <2>1. Built(n)'
    BY <1>3, SameBuilds DEF Whole
  <2>2. Runs(<<Parse("statement")>>, 0, 1)
    BY Calls, RunsOne
  <2>3. PICK goals : Runs(goals, 0, 1) /\ Skip(goals)
    BY <1>3, <2>2, ExpressionRuns
  <2> QED
    BY <1>1, <2>1, <2>3, Goes
<1> QED
  BY <1>2, <1>3 DEF ParseClause

(* A declaration, an implement, or a statement that the identifier begins.  *)
LEMMA ParseSimpleKeeps == ASSUME NEW n \in Nat, Whole(n), ParseSimple PROVE ParserInv'
<1>1. todo # <<>> /\ Top.do = "simple" /\ Yield(Top) = 1
  BY AtFacts DEF ParseSimple, Producers
<1>2. ASSUME NEW goals, Runs(goals, 1, 0), Consume(goals), Put(Leaf(Top.arg)), Fine
      PROVE  ParserInv'
  <2>1. Built(n + 1)'
    BY <1>2, PutBuilds DEF Whole
  <2> QED
    BY <1>1, <1>2, <2>1, Goes
<1>3. Runs(<<Parse("type"), Expect("=")>> \o Expression \o <<Make("declaration", 3)>>, 1, 0)
  <2> DEFINE t == <<Parse("type"), Expect("=")>>
  <2>1. "=" \in Words /\ "declaration" \in Words
    BY WordsOfGoals
  <2>2. Runs(t, 1, 1)
    BY <2>1, Calls, Rests, RunsTwo
  <2>3. Runs(Expression, 2, 1)
    BY ExpressionRuns, RunsMore
  <2> HIDE DEF t
  <2>4. Runs(t \o Expression, 1, 2)
    BY <2>2, <2>3, RunsBoth
  <2>5. Runs((t \o Expression) \o <<Make("declaration", 3)>>, 1, 0)
    BY <2>1, <2>4, MadeAtTheEnd
  <2> QED
    BY <2>5 DEF t
<1>4. Runs(<<Name>> \o Members("implement", 2, "methods"), 1, 0)
  <2>1. Runs(Members("implement", 2, "methods"), 2, -1)
    <3>1. "implement" \in Words
      BY WordsOfGoals
    <3>2. Runs(Members("implement", 2, "methods"), 2, 1 - 2)
      BY <3>1, MembersRun
    <3> QED
      BY <3>2
  <2> QED
    BY <2>1, Rests, RunsThen
<1>5. CASE PutBack(Top.arg, Simple) /\ Same
  <2>1. Built(n)'
    BY <1>5, SameBuilds DEF Whole
  <2>2. Top.do \in Held
    BY <1>1 DEF Held
  <2> QED
    BY <1>1, <1>5, <2>1, <2>2, SimpleRuns, GoesBack
<1> QED
  BY <1>2, <1>3, <1>4, <1>5 DEF ParseSimple

(* What comes after an expression makes it a statement.                     *)
LEMMA ParseAssignmentKeeps == ASSUME NEW n \in Nat, Whole(n), ParseAssignment PROVE ParserInv'
<1>1. todo # <<>> /\ Top.do = "assignment" /\ Yield(Top) = 0 /\ n >= 1
  BY AtFacts DEF ParseAssignment, Users
<1>2. ASSUME NEW w \in Words PROVE Runs(<<Goal("assign", w, 0)>>, 2, -1)
  BY GoalsAbout, RunsOne
<1>3. CASE Consume(Expression \o <<Goal("assign", current, 0)>>) /\ Same
  <2>1. Built(n)'
    BY <1>3, SameBuilds DEF Whole
  <2>2. Runs(<<Goal("assign", current, 0)>>, 2, -1)
    BY <1>2, CurrentIsWord DEF Whole
  <2>3. Runs(Expression, 1, 1)
    BY ExpressionRuns, RunsMore
  <2>4. Runs(Expression \o <<Goal("assign", current, 0)>>, 1, 0)
    BY <2>2, <2>3, RunsBoth
  <2>5. PICK goals : Runs(goals, 1, 0) /\ Consume(goals)
    BY <1>3, <2>4
  <2> QED
    BY <1>1, <2>1, <2>5, Goes
<1>4. CASE /\ Put(Leaf(One)) /\ Fine
           /\ \/ Consume(<<Goal("assign", "+=", 0)>>)
              \/ Consume(<<Goal("assign", "-=", 0)>>)
  <2>1. Built(n + 1)'
    BY <1>4, PutBuilds DEF Whole
  <2>2. "+=" \in Words /\ "-=" \in Words
    BY WordsOfGoals
  <2>3. PICK w \in Words : Consume(<<Goal("assign", w, 0)>>)
    BY <1>4, <2>2
  <2>4. Runs(<<Goal("assign", w, 0)>>, 2, -1)
    BY <1>2
  <2> QED
    BY <1>1, <2>1, <2>3, <2>4, Goes
<1>5. CASE Skip(<<Make("expression", 1)>>) /\ Same
  <2>1. Built(n)'
    BY <1>5, SameBuilds DEF Whole
  <2>2. Runs(<<Make("expression", 1)>>, 1, 0)
    BY WordsOfGoals, Rests, RunsOne
  <2> QED
    BY <1>1, <1>5, <2>1, <2>2, Goes
<1> QED
  BY <1>3, <1>4, <1>5 DEF ParseAssignment

(* An assignment takes its target and its value, or is an error.            *)
LEMMA MakeAssignKeeps == ASSUME NEW n \in Nat, Whole(n), MakeAssign PROVE ParserInv'
<1>1. /\ todo # <<>> /\ Top.do = "assign" /\ Yield(Top) = -1 /\ n >= 2
      /\ Top.arg \in Words
  BY AtFacts DEF MakeAssign, Joiners
<1>2. CASE Skip(<<Make(Top.arg, 2)>>) /\ Same
  <2>1. Built(n)'
    BY <1>2, SameBuilds DEF Whole
  <2>2. PICK w \in Words : Skip(<<Make(w, 2)>>)
    BY <1>1, <1>2
  <2>3. Make(w, 2) \in Waiting /\ Need(Make(w, 2)) = 2 /\ Yield(Make(w, 2)) = 1 - 2
    BY Rests
  <2>4. Runs(<<Make(w, 2)>>, 2, -1)
    BY <2>3, RunsOne
  <2> QED
    BY <1>1, <2>1, <2>2, <2>4, Goes
<1>3. n - 1 \in Nat
  BY <1>1
<1>4. CASE Skip(<<>>) /\ Error
  <2>1. Built(n - 1)'
    BY <1>3, <1>4, ErrorBuilds
  <2> QED
    BY <1>1, <1>3, <1>4, <2>1, RunsNone, Goes
<1>5. CASE hadError /\ Skip(<<>>) /\ Same
  <2>1. Built(n - 1)'
    BY <1>3, <1>5, NothingCounts DEF Whole
  <2> QED
    BY <1>1, <1>3, <1>5, <2>1, RunsNone, Goes
<1> DEFINE target == values[Len(values) - 1]
           assignable == target.kind \in Identifiers \cup {"field", "index"}
<1>6. \/ ~hadError /\ assignable /\ Skip(<<Make(Top.arg, 2)>>) /\ Same
      \/ ~hadError /\ ~assignable /\ Skip(<<>>) /\ Error
      \/ hadError /\ Skip(<<>>) /\ Same
  BY DEF MakeAssign
<1> HIDE DEF assignable
<1> QED
  BY <1>2, <1>4, <1>5, <1>6

(* The program ends with an error or with its text.                         *)
LEMMA ParseProgramKeeps == ASSUME NEW n \in Nat, Whole(n), ParseProgram PROVE ParserInv'
<1>1. todo # <<>> /\ Top.do = "program" /\ Yield(Top) = 0 /\ n >= 1
  BY AtFacts DEF ParseProgram, Users
<1>2. Top \in Waiting /\ Need(Top) = 1
  <2>1. "program" \notin Held \cup {"prime"} /\ "program" # "make"
        /\ "program" \notin Joiners /\ "program" \in Users
    BY DEF Held, Joiners, Users
  <2>2. At("program")
    BY DEF ParseProgram
  <2>3. Top \in Waiting
    BY <2>1, <2>2, AtFacts
  <2> QED
    BY <1>1, <2>1, <2>3 DEF Need
<1>3. Built(n)' /\ Shape(n) /\ hadError' = hadError
  BY SameBuilds DEF ParseProgram, Whole, Same
<1>4. Tokens' /\ pos' # 0 /\ current' = current
  <2>1. UNCHANGED tokens /\ Tokens /\ Turn
    BY DEF ParseProgram, Whole, Skip
  <2>2. pos # 0
    BY <1>1, <2>1 DEF Turn
  <2> QED
    BY <2>1, <2>2 DEF tokens, text, Tokens
<1>5. ASSUME Shape(n)', todo' \in Seq(Waiting), todo' = <<>> => hadError \/ current = EOF
      PROVE  ParserInv'
  <2>1. todo' # <<>> => Top'.do \notin Held
    BY <1>5, WaitingIsNotHeld DEF Top
  <2>2. Turn'
    BY <1>3, <1>4, <1>5, <2>1 DEF Turn
  <2> QED
    BY <1>3, <1>4, <1>5, <2>2 DEF ParserInv, Whole
<1>6. CASE Skip(<<>>) /\ (Is({EOF}) \/ hadError)
  <2>1. Then(<<>>) /\ (current = EOF \/ hadError)
    BY <1>6 DEF Skip, Is
  <2>2. Shape(n)' /\ todo' \in Seq(Waiting)
    BY <1>1, <1>3, <2>1, RunsNone, ShapeStays
  <2> QED
    BY <1>5, <2>1, <2>2
<1>7. CASE Skip(<<Parse("statement"), Add, Top>>)
  <2>1. PICK top : top = Top
    OBVIOUS
  <2> DEFINE goals == <<Parse("statement"), Add, top>>
  <2>2. Runs(goals, 1, 0)
    <3>1. /\ Parse("statement") \in Waiting /\ Need(Parse("statement")) = 0
          /\ Yield(Parse("statement")) = 1
          /\ Add \in Waiting /\ Need(Add) = 2 /\ Yield(Add) = -1
          /\ top \in Waiting /\ Need(top) = 1 /\ Yield(top) = 0
      BY <1>1, <1>2, <2>1, Calls, Rests
    <3> QED
      BY <3>1, RunsThree
  <2>3. goals # <<>> /\ goals[Len(goals)].do = "program"
    <3>1. goals[Len(goals)] = top /\ goals # <<>>
      OBVIOUS
    <3> QED
      BY <1>1, <2>1, <3>1
  <2>4. Then(goals)
    BY <1>7, <2>1 DEF Skip
  <2> HIDE DEF goals
  <2>5. /\ Shape(n)' /\ todo' \in Seq(Waiting) /\ (todo' = <<>> => goals = <<>>)
    BY <1>1, <1>3, <2>2, <2>3, <2>4, ShapeStays
  <2> QED
    BY <1>5, <2>3, <2>5
<1> QED
  BY <1>6, <1>7 DEF ParseProgram

-----------------------------------------------------------------------------
(* The invariant holds.                                                     *)

(* It holds of a text that has not been read yet.                           *)
LEMMA InitIsWhole == Init => ParserInv
<1> SUFFICES ASSUME Init PROVE Whole(0)
  BY DEF ParserInv
<1>1. ASSUME NEW t \in Seq(Token \ {EOF})
      PROVE  /\ t \in Seq(Token) /\ Append(t, EOF) \in Seq(Token)
             /\ \A k \in 1 .. Len(t) : t[k] # EOF
             /\ \A k \in 1 .. Len(Append(t, EOF)) :
                   Append(t, EOF)[k] = EOF => k = Len(Append(t, EOF))
  <2>1. t \in Seq(Token) /\ EOF \in Token
    BY TokensAreThere, SeqMonotonic
  <2>2. \A k \in 1 .. Len(t) : t[k] # EOF
    BY ElementOfSeq
  <2>3. /\ Append(t, EOF) \in Seq(Token) /\ Len(Append(t, EOF)) = Len(t) + 1
        /\ \A k \in 1 .. Len(t) : Append(t, EOF)[k] = t[k]
    BY <2>1, AppendProperties
  <2>4. Len(t) \in Nat
    BY LenProperties
  <2>5. ASSUME NEW k \in 1 .. Len(Append(t, EOF)), Append(t, EOF)[k] = EOF
        PROVE  k = Len(Append(t, EOF))
    <3>1. k \in 1 .. Len(t) \/ k = Len(t) + 1
      BY <2>3, <2>4
    <3> QED
      BY <2>2, <2>3, <2>5, <3>1
  <2> QED
    BY <2>1, <2>2, <2>3, <2>5
<1>2. /\ input \in Seq(Token) /\ words \in SUBSET (Token \ {EOF}) /\ free \in Nat
      /\ \A k \in 1 .. Len(input) : input[k] = EOF => k = Len(input)
  <2>1. CASE words = {} /\ input \in {Append(t, EOF) : t \in Texts} /\ free = 0
    BY <1>1, <2>1, TextAssumption
  <2>2. CASE \E o \in Openings : words = o.words /\ input = o.start /\ free = MaxTokens
    BY <1>1, <2>2, TextAssumption
  <2> QED
    BY <2>1, <2>2 DEF Init
<1>3. Tokens
  <2>1. Len(input) \in Nat
    BY <1>2, LenProperties
  <2>2. pos = 0 /\ current = NoToken /\ pending = NoToken
    BY DEF Init
  <2> QED
    BY <1>2, <2>1, <2>2 DEF Tokens
<1>4. Built(0)
  <2>1. Len(<<>>) = 0
    OBVIOUS
  <2> QED
    BY <2>1, NoValues DEF Init, Built
<1> DEFINE p == Parse("prime")
           b == Make("block", 0)
           q == Parse("program")
<1>5. /\ p \in Waiting \cup Immediate /\ p.do = "prime" /\ p.do \notin Held
      /\ Need(p) = 0 /\ Yield(p) = 0
  <2>1. /\ NoToken \in Words /\ "prime" \notin Held \cup Joiners \cup Users \cup Producers
        /\ "prime" # "make"
    BY DEF Words, Held, Joiners, Users, Producers
  <2>2. p = [do |-> "prime", arg |-> NoToken, n |-> 0]
    BY DEF Parse, Goal
  <2> HIDE DEF p
  <2> QED
    BY <2>1, <2>2 DEF Immediate, Need, Yield
<1>6. /\ b \in Waiting /\ Need(b) = 0 /\ Yield(b) = 1
      /\ q \in Waiting /\ Need(q) = 1 /\ Yield(q) = 0 /\ q.do = "program"
  <2>1. "block" \in Words
    BY WordsOfGoals
  <2>2. b \in Waiting /\ Need(b) = 0 /\ Yield(b) = 1 - 0
    BY <2>1, Rests
  <2>3. q \in Waiting /\ Need(q) = 1 /\ Yield(q) = 0
    BY Calls
  <2>4. q.do = "program"
    BY DEF Parse, Goal
  <2> QED
    BY <2>2, <2>3, <2>4
<1>7. todo = <<p, b, q>> /\ pos = 0
  BY DEF Init
<1> HIDE DEF p, b, q
<1>8. /\ todo \in Seq(Waiting \cup Immediate) /\ todo # <<>> /\ Top = p
      /\ todo[Len(todo)] = q /\ Tail(todo) = <<b, q>>
  <2>1. /\ todo \in Seq(Waiting \cup Immediate)
    BY <1>5, <1>6, <1>7
  <2>2. todo # <<>> /\ todo[1] = p /\ Len(todo) = 3 /\ todo[2] = b /\ todo[3] = q
    BY <1>7
  <2>3. Tail(todo) = <<b, q>>
    BY <1>7
  <2> QED
    BY <2>1, <2>2, <2>3 DEF Top
<1>9. Walk(<<b, q>>, 0, 1)
  <2>1. Runs(<<b, q>>, 0, 1)
    BY <1>6, RunsTwo
  <2>2. Walk(<<b, q>>, 0, 0 + 1)
    BY <2>1 DEF Runs
  <2> QED
    BY <2>2
<1>10. Shape(0)
  <2>1. Need(Top) = 0 /\ Yield(Top) = 0
    BY <1>5, <1>8
  <2>2. 0 + Yield(Top) = 0
    BY <2>1
  <2>3. Walk(Tail(todo), 0 + Yield(Top), 1)
    BY <1>8, <1>9, <2>2
  <2>4. Need(Top) <= 0 /\ 0 + Yield(Top) \in Nat /\ todo[Len(todo)].do = "program"
    BY <1>6, <1>8, <2>1
  <2> QED
    BY <1>8, <2>3, <2>4 DEF Shape
<1>11. Turn
  BY <1>5, <1>7, <1>8 DEF Turn
<1> QED
  BY <1>3, <1>4, <1>10, <1>11 DEF Whole

(* Every step keeps it.                                                     *)
LEMMA StepIsWhole == ParserInv /\ [Next]_vars => ParserInv'
<1> SUFFICES ASSUME ParserInv, [Next]_vars PROVE ParserInv'
  OBVIOUS
<1>1. PICK n \in Nat : Whole(n)
  BY DEF ParserInv
<1>2. CASE UNCHANGED vars
  BY <1>1, <1>2 DEF vars, tokens, text, ParserInv, Whole, Tokens, Turn, Shape, Built, Top
<1>3. CASE Helpers
  BY <1>1, <1>3, PrimeKeeps, ExpectTokenKeeps, TakeKeeps, MakeNodeKeeps, AddNodeKeeps,
     ReadMoreKeeps DEF Helpers
<1>4. CASE Annotations
  BY <1>1, <1>4, ParseTypeKeeps, ParseTypeArgumentsKeeps, ParseParameterTypeKeeps,
     KeepBaseKeeps DEF Annotations
<1>5. CASE Expressions
  BY <1>1, <1>5, ParseOperatorsKeeps, ParseUnaryKeeps, ParsePrimaryKeeps, ParseCallKeeps,
     ParseItemsKeeps, ParseEntriesKeeps, ParseArgumentsKeeps,
     ParseArgumentAfterIdentifierKeeps, ParsePostfixKeeps, ParseMemberKeeps DEF Expressions
<1>6. CASE Statements
  BY <1>1, <1>6, ParseStatementKeeps, ParseStatementsKeeps, ParseParametersKeeps,
     ParseMembersKeeps, ParseResultKeeps, ParseElseKeeps, ParseElseBranchKeeps, ParseForKeeps,
     ParseForInKeeps, ParseClauseKeeps, ParseSimpleKeeps, ParseAssignmentKeeps,
     MakeAssignKeeps, ParseProgramKeeps DEF Statements
<1>7. CASE Done
  BY <1>2, <1>7 DEF Done
<1> QED
  BY <1>2, <1>3, <1>4, <1>5, <1>6, <1>7 DEF Next

(* It holds in every state.                                                 *)
LEMMA ParserIsWhole == Spec => []ParserInv
BY InitIsWhole, StepIsWhole, PTL DEF Spec

-----------------------------------------------------------------------------
(* The theorems.                                                            *)

(* The types of the variables: the stack of calls and the stack of values   *)
(* hold what they should, and nothing is kept after an error.               *)
THEOREM TypesOfParser == Spec => []TypeOK
<1>1. ParserInv => TypeOK
  <2> SUFFICES ASSUME ParserInv PROVE TypeOK
    OBVIOUS
  <2>1. PICK n \in Nat : Whole(n)
    BY DEF ParserInv
  <2> QED
    BY <2>1 DEF Whole, Tokens, Built, TypeOK
<1> QED
  BY <1>1, ParserIsWhole, PTL

(* A program is accepted only when the whole text is read and is one node.  *)
THEOREM AcceptedIsWhole == Spec => []WholeTextIsRead
<1>1. ParserInv => WholeTextIsRead
  <2> SUFFICES ASSUME ParserInv, Accepted
               PROVE  pos = Len(input) /\ pending = NoToken /\ Len(values) = 1
    BY DEF WholeTextIsRead
  <2>1. PICK n \in Nat : Whole(n)
    BY DEF ParserInv
  <2>2. todo = <<>> /\ ~hadError
    BY DEF Accepted, Finished
  <2>3. n = 1 /\ Len(values) = n
    BY <2>1, <2>2 DEF Whole, Shape, Built
  <2>4. current = EOF /\ pos # 0
    BY <2>1, <2>2 DEF Whole, Turn
  <2>5. Tokens /\ Len(input) \in Nat /\ pos \in Nat
    BY <2>1, LenProperties DEF Whole, Tokens
  <2>6. pending = NoToken
    <3>1. SUFFICES ASSUME pending # NoToken PROVE FALSE
      OBVIOUS
    <3>2. /\ pos >= 2 /\ current = input[pos - 1] /\ pos <= Len(input)
          /\ \A k \in 1 .. Len(input) : input[k] = EOF => k = Len(input)
      BY <2>5, <3>1 DEF Tokens
    <3>3. pos - 1 \in 1 .. Len(input) /\ pos - 1 # Len(input)
      BY <2>5, <3>2
    <3> QED
      BY <2>4, <3>2, <3>3
  <2>7. pos = Len(input)
    <3>1. pos \in 1 .. Len(input) /\ input[pos] = EOF
      BY <2>4, <2>5, <2>6 DEF Tokens
    <3> QED
      BY <2>5, <3>1 DEF Tokens
  <2> QED
    BY <2>3, <2>6, <2>7
<1> QED
  BY <1>1, ParserIsWhole, PTL

(* No call takes more nodes than the calls before it have built.            *)
THEOREM PartsOfNodes == Spec => []PartsAreThere
<1>1. ParserInv => PartsAreThere
  <2> SUFFICES ASSUME ParserInv, ~Finished, ~hadError
               PROVE  /\ At("make") => Top.n <= Len(values)
                      /\ At("add") \/ At("assign") => 2 <= Len(values)
                      /\ At("base") => 1 <= Len(values)
    BY DEF PartsAreThere
  <2>1. PICK n \in Nat : Whole(n)
    BY DEF ParserInv
  <2>2. Len(values) = n
    BY <2>1 DEF Whole, Built
  <2>3. ASSUME At("make") PROVE Top.n <= n
    BY <2>1, <2>3, AtFacts
  <2>4. ASSUME NEW do \in {"add", "assign"}, At(do) PROVE 2 <= n
    BY <2>1, <2>4, AtFacts DEF Joiners
  <2>5. ASSUME At("base") PROVE 1 <= n
    BY <2>1, <2>5, AtFacts DEF Users
  <2> QED
    BY <2>2, <2>3, <2>4, <2>5
<1> QED
  BY <1>1, ParserIsWhole, PTL

(* A step leaves the tokens alone, goes on to the next one, or puts one     *)
(* back.                                                                    *)
LEMMA StepsOfTokens ==
    ASSUME Next
    PROVE  \/ UNCHANGED tokens /\ (todo = <<>> \/ Top.do # "prime")
           \/ Advance
           \/ PutsBack /\ \E goals : PutBack(Top.arg, goals)
<1>1. CASE Helpers
  BY <1>1 DEF Helpers, Prime, ExpectToken, Take, MakeNode, AddNode, ReadMore, Consume, Skip, At
<1>2. CASE Annotations
  BY <1>2 DEF Annotations, ParseType, ParseTypeArguments, ParseParameterType, KeepBase,
     Consume, Skip, At
<1>3. CASE Expressions /\ ~ParseArgumentAfterIdentifier
  BY <1>3 DEF Expressions, ParseOperators, ParseUnary, ParsePrimary, ParseCall, ParseItems,
     ParseEntries, ParseArguments, ParseArgumentAfterIdentifier, ParsePostfix, ParseMember,
     Consume, Skip, At
<1>4. CASE Statements /\ ~ParseForIn /\ ~ParseSimple
  BY <1>4 DEF Statements, ParseStatement, ParseStatements, ParseParameters, ParseMembers,
     ParseResult, ParseElse, ParseElseBranch, ParseFor, ParseClause, ParseAssignment,
     MakeAssign, ParseProgram, Consume, Skip, At
<1>5. CASE ParseArgumentAfterIdentifier
  <2>1. CASE Is({"="})
    BY <1>5, <2>1 DEF ParseArgumentAfterIdentifier, Consume
  <2>2. CASE ~Is({"="})
    BY <1>5, <2>2 DEF ParseArgumentAfterIdentifier, PutsBack
  <2> QED
    BY <2>1, <2>2
<1>6. CASE ParseForIn
  <2>1. CASE Is({"in"})
    BY <1>6, <2>1 DEF ParseForIn, Consume
  <2>2. CASE ~Is({"in"})
    BY <1>6, <2>2 DEF ParseForIn, PutsBack
  <2> QED
    BY <2>1, <2>2
<1>7. CASE ParseSimple
  <2>1. CASE Is({":", "implement"})
    BY <1>7, <2>1 DEF ParseSimple, Consume, Is
  <2>2. CASE ~Is({":", "implement"})
    BY <1>7, <2>2 DEF ParseSimple, PutsBack, Is
  <2> QED
    BY <2>1, <2>2
<1>8. CASE Done
  <2>1. UNCHANGED tokens /\ todo = <<>>
    BY <1>8 DEF Done, vars
  <2> QED
    BY <2>1
<1> QED
  BY <1>1, <1>2, <1>3, <1>4, <1>5, <1>6, <1>7, <1>8 DEF Next

(* The text is read token by token, and only the identifier that was just   *)
(* passed is gone back to.                                                  *)
THEOREM ReadInOrder == Spec => TokensAreInOrder
<1> DEFINE InOrder == /\ current' = input'[Place']
                      /\ \/ Place' \in {Place, Place + 1}
                         \/ /\ PutsBack /\ pending = NoToken /\ Place' = Place - 1
                            /\ current' \in Identifiers
<1>1. ParserInv /\ [Next]_vars => [InOrder]_vars
  <2> SUFFICES ASSUME ParserInv, Next, ~UNCHANGED vars PROVE InOrder
    OBVIOUS
  <2>1. PICK n \in Nat : Whole(n)
    BY DEF ParserInv
  <2>2. Tokens /\ Turn
    BY <2>1 DEF Whole
  <2>3. CASE UNCHANGED tokens /\ (todo = <<>> \/ Top.do # "prime")
    <3>1. input' = input /\ pos' = pos /\ current' = current /\ pending' = pending
      BY <2>3 DEF tokens, text
    <3>2. pos # 0
      BY <2>2, <2>3 DEF Turn
    <3>3. current = input[Place]
      BY <2>2, <3>2 DEF Tokens, Place
    <3>4. Place' = Place
      BY <3>1 DEF Place
    <3> QED
      BY <3>1, <3>3, <3>4
  <2>4. CASE Advance
    BY <2>2, <2>4, AdvanceReads
  <2>5. CASE PutsBack /\ \E goals : PutBack(Top.arg, goals)
    <3>1. At("argument") \/ At("for_in") \/ At("simple")
      BY <2>5 DEF PutsBack, ParseArgumentAfterIdentifier, ParseForIn, ParseSimple
    <3>2. todo # <<>> /\ Top.do \in Held
      BY <3>1 DEF At, Held
    <3>3. pending = NoToken /\ pos >= 2 /\ Top.arg = input[pos - 1] /\ Top.arg \in Identifiers
      BY <2>2, <3>2 DEF Turn
    <3>4. pending' = current /\ current' = Top.arg /\ UNCHANGED text
      BY <2>5 DEF PutBack
    <3>5. current' = input'[Place'] /\ Place' = Place - 1
      <4> DEFINE a == Top.arg
      <4>1. a = input[pos - 1] /\ a \in Identifiers /\ current' = a
        BY <3>3, <3>4
      <4> HIDE DEF a
      <4> QED
        BY <2>2, <3>3, <3>4, <4>1, PutBackReads
    <3>6. current' \in Identifiers
      BY <3>3, <3>4
    <3> QED
      BY <2>5, <3>3, <3>5, <3>6
  <2> QED
    BY <2>3, <2>4, <2>5, StepsOfTokens
<1> QED
  BY <1>1, ParserIsWhole, PTL DEF Spec, TokensAreInOrder
=============================================================================
