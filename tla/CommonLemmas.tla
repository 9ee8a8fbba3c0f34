---------------------------- MODULE CommonLemmas ----------------------------
(***************************************************************************)
(* What the proofs about several components share: that a linear search    *)
(* has a first place to return, how sequences are put together and cut,    *)
(* what can be reached in a graph of objects, and that following the       *)
(* pointers round after round finds just that, whatever cycles there are.  *)
(***************************************************************************)
EXTENDS ObjectGraph, Integers, Sequences, FiniteSetTheorems, SequenceTheorems,
        WellFoundedInduction, NaturalsInduction, TLAPS

-----------------------------------------------------------------------------
(* The least-number principle.                                              *)

(* Any places have a least one: < has no infinite descent on the naturals.  *)
LEMMA LeastPlace ==
    ASSUME NEW places, places \subseteq Nat, places # {}
    PROVE  \E i \in places : \A j \in places : i <= j
<1> DEFINE Less == {p \in Nat \X Nat : p[1] < p[2]}
<1>1. IsWellFoundedOn(Less, Nat)
  BY NatLessThanWellFounded DEF OpToRel
<1>2. PICK i \in places : \A j \in places : <<j, i>> \notin Less
  <2> HIDE DEF Less
  <2> QED
    BY <1>1, WFMin
<1>3. ASSUME NEW j \in places PROVE i <= j
  <2>1. <<j, i>> \in Nat \X Nat
    OBVIOUS
  <2>2. ~(<<j, i>>[1] < <<j, i>>[2])
    BY <1>2, <2>1
  <2> QED
    BY <2>2
<1> QED
  BY <1>3

(* So the least place that CHOOSE yields is one of them.                    *)
LEMMA LeastIsIn ==
    ASSUME NEW places, places \subseteq Nat, places # {}
    PROVE  LET i == CHOOSE i \in places : \A j \in places : i <= j
           IN  i \in places /\ \A j \in places : i <= j
BY LeastPlace

-----------------------------------------------------------------------------
(* Sequences, of no matter what.                                            *)

IsSequence(s) == s \in Seq({s[i] : i \in DOMAIN s})

(* A sequence of anything is one.                                           *)
LEMMA SequenceOfAnything ==
    ASSUME NEW S, NEW s \in Seq(S)
    PROVE  IsSequence(s)
<1>1. s \in [1 .. Len(s) -> S] /\ Len(s) \in Nat /\ DOMAIN s = 1 .. Len(s)
  BY LenProperties
<1> DEFINE R == {s[i] : i \in DOMAIN s}
<1>2. s \in [1 .. Len(s) -> R]
  BY <1>1
<1> HIDE DEF R
<1>3. s \in Seq(R)
  BY <1>1, <1>2
<1> QED
  BY <1>3 DEF IsSequence, R

(* The length and the domain of a sequence.                                 *)
LEMMA SequenceParts ==
    ASSUME NEW s, IsSequence(s)
    PROVE  /\ Len(s) \in Nat /\ DOMAIN s = 1 .. Len(s)
           /\ s = <<>> <=> Len(s) = 0
           /\ s = [i \in 1 .. Len(s) |-> s[i]]
<1> DEFINE R == {s[i] : i \in DOMAIN s}
<1>1. s \in Seq(R)
  BY DEF IsSequence
<1> HIDE DEF R
<1>2. Len(s) \in Nat /\ s \in [1 .. Len(s) -> R] /\ DOMAIN s = 1 .. Len(s)
  BY <1>1, LenProperties
<1>3. s = <<>> <=> Len(s) = 0
  BY <1>1, EmptySeq
<1> QED
  BY <1>2, <1>3

(* A value at the end of a sequence.                                        *)
LEMMA Appended ==
    ASSUME NEW s, IsSequence(s), NEW x
    PROVE  /\ IsSequence(Append(s, x))
           /\ Len(Append(s, x)) = Len(s) + 1
           /\ DOMAIN Append(s, x) = 1 .. Len(s) + 1
           /\ \A i \in 1 .. Len(s) : Append(s, x)[i] = s[i]
           /\ Append(s, x)[Len(s) + 1] = x
<1> DEFINE R == {s[i] : i \in DOMAIN s} \cup {x}
           t == Append(s, x)
<1>1. s \in Seq({s[i] : i \in DOMAIN s})
  BY DEF IsSequence
<1>2. s \in Seq(R) /\ x \in R
  BY <1>1, SeqMonotonic
<1> HIDE DEF R
<1>3. t \in Seq(R) /\ Len(t) = Len(s) + 1 /\ Len(s) \in Nat
      /\ \A i \in 1 .. Len(s) : t[i] = s[i]
      /\ t[Len(s) + 1] = x
  BY <1>2, AppendProperties, LenProperties
<1>4. DOMAIN t = 1 .. Len(s) + 1
  BY <1>3, LenProperties
<1>5. IsSequence(t)
  BY <1>3, SequenceOfAnything
<1> QED
  BY <1>3, <1>4, <1>5

(* The first places of a sequence.                                          *)
LEMMA Cut ==
    ASSUME NEW s, IsSequence(s), NEW n \in 0 .. Len(s)
    PROVE  /\ IsSequence(SubSeq(s, 1, n))
           /\ Len(SubSeq(s, 1, n)) = n
           /\ DOMAIN SubSeq(s, 1, n) = 1 .. n
           /\ \A i \in 1 .. n : SubSeq(s, 1, n)[i] = s[i]
<1> DEFINE R == {s[i] : i \in DOMAIN s}
           t == SubSeq(s, 1, n)
<1>1. Len(s) \in Nat /\ DOMAIN s = 1 .. Len(s)
  BY SequenceParts
<1>2. 1 \in Int /\ n \in Int /\ \A i \in 1 .. n : s[i] \in R
  BY <1>1
<1> HIDE DEF R
<1>3. t \in Seq(R) /\ Len(t) = (IF 1 <= n THEN n - 1 + 1 ELSE 0)
      /\ \A i \in 1 .. n - 1 + 1 : t[i] = s[1 + i - 1]
  BY <1>2, SubSeqProperties
<1> HIDE DEF t
<1>4. Len(t) = n /\ \A i \in 1 .. n : t[i] = s[i]
  <2>1. n - 1 + 1 = n /\ (~(1 <= n) => n = 0)
    BY <1>1
  <2>2. \A i \in 1 .. n : 1 + i - 1 = i
    BY <1>2
  <2> QED
    BY <1>3, <2>1, <2>2
<1>5. IsSequence(t) /\ DOMAIN t = 1 .. n
  BY <1>3, <1>4, SequenceOfAnything, LenProperties
<1> QED
  BY <1>4, <1>5 DEF t

(* Two sequences, one after the other.                                      *)
LEMMA Joined ==
    ASSUME NEW s, IsSequence(s), NEW t, IsSequence(t)
    PROVE  /\ IsSequence(s \o t)
           /\ Len(s \o t) = Len(s) + Len(t)
           /\ \A i \in 1 .. Len(s) + Len(t) :
                 (s \o t)[i] = IF i <= Len(s) THEN s[i] ELSE t[i - Len(s)]
<1> DEFINE R == {s[i] : i \in DOMAIN s} \cup {t[i] : i \in DOMAIN t}
<1>1. s \in Seq({s[i] : i \in DOMAIN s}) /\ t \in Seq({t[i] : i \in DOMAIN t})
  BY DEF IsSequence
<1>2. s \in Seq(R) /\ t \in Seq(R)
  BY <1>1, SeqMonotonic
<1> HIDE DEF R
<1> QED
  BY <1>2, ConcatProperties, SequenceOfAnything

(* Sequences with the same elements are equal.                              *)
LEMMA SameElements ==
    ASSUME NEW s, IsSequence(s), NEW t, IsSequence(t), Len(s) = Len(t),
           \A i \in 1 .. Len(s) : s[i] = t[i]
    PROVE  s = t
<1>1. s = [i \in 1 .. Len(s) |-> s[i]] /\ t = [i \in 1 .. Len(t) |-> t[i]]
  BY SequenceParts
<1> QED
  BY <1>1

(* Appending is joining a sequence of one.                                  *)
LEMMA AppendIsJoin ==
    ASSUME NEW s, IsSequence(s), NEW x
    PROVE  /\ IsSequence(<<x>>) /\ Len(<<x>>) = 1
           /\ IsSequence(<<>>) /\ Len(<<>>) = 0
           /\ s \o <<x>> = Append(s, x)
           /\ s \o <<>> = s
           /\ <<>> \o s = s
<1>1. <<x>> \in Seq({x}) /\ Len(<<x>>) = 1 /\ <<>> \in Seq({x}) /\ Len(<<>>) = 0 /\ <<x>>[1] = x
  OBVIOUS
<1>2. IsSequence(<<x>>) /\ IsSequence(<<>>)
  BY <1>1, SequenceOfAnything
<1>3. Len(s) \in Nat
  BY SequenceParts
<1>4. s \o <<x>> = Append(s, x)
  <2>1. IsSequence(s \o <<x>>) /\ Len(s \o <<x>>) = Len(s) + 1
        /\ \A i \in 1 .. Len(s) + 1 :
              (s \o <<x>>)[i] = IF i <= Len(s) THEN s[i] ELSE <<x>>[i - Len(s)]
    BY <1>1, <1>2, Joined
  <2>2. \A i \in 1 .. Len(s) + 1 : i <= Len(s) \/ (i = Len(s) + 1 /\ i - Len(s) = 1)
    BY <1>3
  <2> DEFINE u == s \o <<x>>
             v == Append(s, x)
             w == <<x>>
  <2>3. IsSequence(v) /\ Len(v) = Len(s) + 1 /\ (\A i \in 1 .. Len(s) : v[i] = s[i])
        /\ v[Len(s) + 1] = x
    BY Appended
  <2>4. w[1] = x
    OBVIOUS
  <2>5. IsSequence(u) /\ Len(u) = Len(s) + 1
        /\ \A i \in 1 .. Len(s) + 1 : u[i] = IF i <= Len(s) THEN s[i] ELSE w[i - Len(s)]
    BY <2>1
  <2> HIDE DEF u, v, w
  <2>6. ASSUME NEW i \in 1 .. Len(s) + 1 PROVE u[i] = v[i]
    <3>1. CASE i <= Len(s)
      BY <1>3, <2>3, <2>5, <3>1
    <3>2. CASE i = Len(s) + 1
      <4>1. ~(i <= Len(s)) /\ i - Len(s) = 1
        BY <1>3, <3>2
      <4> QED
        BY <2>3, <2>4, <2>5, <3>2, <4>1
    <3> QED
      BY <1>3, <3>1, <3>2
  <2>7. u = v
    BY <2>3, <2>5, <2>6, SameElements
  <2> QED
    BY <2>7 DEF u, v
<1>5. s \o <<>> = s /\ <<>> \o s = s
  BY ConcatEmptySeq DEF IsSequence
<1> QED
  BY <1>1, <1>2, <1>4, <1>5

(* Joining is associative.                                                  *)
LEMMA JoinAssociates ==
    ASSUME NEW s, IsSequence(s), NEW t, IsSequence(t), NEW u, IsSequence(u)
    PROVE  (s \o t) \o u = s \o (t \o u)
<1> DEFINE R == {s[i] : i \in DOMAIN s} \cup {t[i] : i \in DOMAIN t} \cup {u[i] : i \in DOMAIN u}
<1>1. /\ s \in Seq({s[i] : i \in DOMAIN s}) /\ t \in Seq({t[i] : i \in DOMAIN t})
      /\ u \in Seq({u[i] : i \in DOMAIN u})
  BY DEF IsSequence
<1>2. s \in Seq(R) /\ t \in Seq(R) /\ u \in Seq(R)
  BY <1>1, SeqMonotonic
<1> HIDE DEF R
<1> QED
  BY <1>2, ConcatAssociative

(* Joining a sequence of two is appending twice.                            *)
LEMMA JoinTwo ==
    ASSUME NEW s, IsSequence(s), NEW f, NEW g
    PROVE  s \o <<f, g>> = Append(Append(s, f), g)
<1>1. IsSequence(s) /\ IsSequence(<<f>>) /\ IsSequence(<<g>>)
  BY AppendIsJoin
<1>2. s \o <<f>> = Append(s, f) /\ IsSequence(Append(s, f))
  BY <1>1, AppendIsJoin, Appended
<1>3. Append(s, f) \o <<g>> = Append(Append(s, f), g)
  BY <1>2, AppendIsJoin
<1>4. <<f>> \o <<g>> = <<f, g>>
  <2>1. <<f>> \o <<g>> = Append(<<f>>, g)
    BY <1>1, AppendIsJoin
  <2> DEFINE u == <<f, g>>
             o == <<f>>
             w == Append(o, g)
  <2>2. u \in Seq({f, g}) /\ Len(u) = 2 /\ u[1] = f /\ u[2] = g /\ o[1] = f
    OBVIOUS
  <2>3. IsSequence(w) /\ Len(w) = 2 /\ w[1] = o[1] /\ w[2] = g
    <3>1. Len(o) = 1 /\ IsSequence(o)
      BY <1>1, AppendIsJoin
    <3> HIDE DEF o
    <3>2. /\ IsSequence(w) /\ Len(w) = Len(o) + 1
          /\ \A i \in 1 .. Len(o) : w[i] = o[i]
          /\ w[Len(o) + 1] = g
      BY <3>1, Appended
    <3> QED
      BY <3>1, <3>2
  <2>4. IsSequence(u)
    BY <2>2, SequenceOfAnything
  <2> HIDE DEF u, w, o
  <2>5. \A i \in 1 .. Len(u) : u[i] = w[i]
    BY <2>2, <2>3
  <2>6. u = w
    BY <2>2, <2>3, <2>4, <2>5, SameElements
  <2> QED
    BY <2>1, <2>6 DEF u, w, o
<1>5. (s \o <<f>>) \o <<g>> = s \o (<<f>> \o <<g>>)
  BY <1>1, JoinAssociates
<1> QED
  BY <1>2, <1>3, <1>4, <1>5

(* Cutting off no more than what was joined last.                           *)
LEMMA CutJoined ==
    ASSUME NEW s, IsSequence(s), NEW t, IsSequence(t), NEW n \in 0 .. Len(t)
    PROVE  SubSeq(s \o t, 1, Len(s \o t) - n) = s \o SubSeq(t, 1, Len(t) - n)
<1> PICK a \in Nat : a = Len(s)
  BY SequenceParts
<1> PICK b \in Nat : b = Len(t)
  BY SequenceParts
<1>0. b - n \in 0 .. b
  <2>1. n \in 0 .. b
    OBVIOUS
  <2> QED
    BY <2>1
<1> PICK m \in 0 .. b : m = b - n
  BY <1>0
<1> DEFINE u == s \o t
           c == SubSeq(t, 1, m)
           v == SubSeq(u, 1, a + m)
           w == s \o c
<1>1. IsSequence(u) /\ Len(u) = a + b
      /\ \A i \in 1 .. a + b : u[i] = IF i <= a THEN s[i] ELSE t[i - a]
  BY Joined
<1>2. IsSequence(c) /\ Len(c) = m /\ \A i \in 1 .. m : c[i] = t[i]
  BY Cut
<1>3. a + m \in 0 .. Len(u) /\ Len(u) - n = a + m
  BY <1>1
<1> HIDE DEF u, c
<1>4. IsSequence(v) /\ Len(v) = a + m /\ \A i \in 1 .. a + m : v[i] = u[i]
  BY <1>1, <1>3, Cut
<1>5. IsSequence(w) /\ Len(w) = a + m
      /\ \A i \in 1 .. a + m : w[i] = IF i <= a THEN s[i] ELSE c[i - a]
  BY <1>2, Joined
<1> HIDE DEF v, w
<1>6. ASSUME NEW i \in 1 .. a + m PROVE v[i] = w[i]
  <2>1. i \in 1 .. a + b
    OBVIOUS
  <2>2. CASE i <= a
    BY <1>1, <1>4, <1>5, <2>1, <2>2
  <2>3. CASE ~(i <= a)
    <3>1. i - a \in 1 .. m
      BY <2>3
    <3> QED
      BY <1>1, <1>2, <1>4, <1>5, <2>1, <2>3, <3>1
  <2> QED
    BY <2>2, <2>3
<1>7. v = w
  BY <1>4, <1>5, <1>6, SameElements
<1> QED
  BY <1>3, <1>7 DEF u, c, v, w

-----------------------------------------------------------------------------
(* The objects that are reached from some roots.                            *)

(* Reach contains its roots, which the mark loop starts with.               *)
LEMMA ReachContainsRoots ==
    ASSUME NEW Nodes, NEW edges \in [Nodes -> SUBSET Nodes], NEW roots, roots \subseteq Nodes
    PROVE  roots \subseteq Reach(edges, roots)
BY DEF Reach

(* Reach lies in every closed set around its roots, such as the marked one. *)
LEMMA ReachIsLeast ==
    ASSUME NEW Nodes, NEW edges \in [Nodes -> SUBSET Nodes], NEW roots, NEW S \in SUBSET Nodes,
           roots \subseteq S, Closed(edges, S)
    PROVE  Reach(edges, roots) \subseteq S
BY DEF Reach

(* No pointer of a reached object leaves what is reached.                   *)
LEMMA ReachIsClosed ==
    ASSUME NEW Nodes, NEW edges \in [Nodes -> SUBSET Nodes], NEW roots
    PROVE  Closed(edges, Reach(edges, roots))
<1>1. SUFFICES ASSUME NEW o \in Reach(edges, roots), NEW p \in edges[o],
                      NEW S \in SUBSET Nodes, roots \subseteq S, Closed(edges, S)
               PROVE  p \in S
  <2>1. SUFFICES ASSUME NEW o \in Reach(edges, roots)
                 PROVE  edges[o] \subseteq Reach(edges, roots)
    BY DEF Closed
  <2>2. o \in Nodes /\ edges[o] \subseteq Nodes
    BY DEF Reach
  <2>3. QED
    BY <2>2 DEF Reach
<1>2. o \in S
    BY <1>1 DEF Reach
<1>3. QED
    BY <1>1, <1>2 DEF Closed

(* What cannot be reached has no say in what can.                           *)
LEMMA ReachIsLocal ==
    ASSUME NEW Nodes, NEW e1 \in [Nodes -> SUBSET Nodes], NEW e2 \in [Nodes -> SUBSET Nodes],
           NEW roots \in SUBSET Nodes,
           \A o \in Reach(e1, roots) : e2[o] = e1[o]
    PROVE  Reach(e2, roots) = Reach(e1, roots)
<1>1. Reach(e1, roots) \subseteq Nodes /\ Reach(e2, roots) \subseteq Nodes
  BY DEF Reach
<1>2. Closed(e2, Reach(e1, roots))
  BY ReachIsClosed DEF Closed
<1>3. Reach(e2, roots) \subseteq Reach(e1, roots)
  BY <1>1, <1>2, ReachContainsRoots, ReachIsLeast
<1>4. Closed(e1, Reach(e2, roots))
  BY <1>3, ReachIsClosed DEF Closed
<1>5. Reach(e1, roots) \subseteq Reach(e2, roots)
  BY <1>1, <1>4, ReachContainsRoots, ReachIsLeast
<1>6. QED
  BY <1>3, <1>5

-----------------------------------------------------------------------------
(* Trace follows the pointers round after round.                            *)

OneMore(edges, S) == UNION {{o} \cup edges[o] : o \in S}

IsRun(edges, roots, n, g) ==
    g = [i \in 0 .. n |-> IF i = 0 THEN roots ELSE UNION {{o} \cup edges[o] : o \in g[i - 1]}]

(* There are as many rounds as one likes.                                   *)
LEMMA RunsExist ==
    ASSUME NEW edges, NEW roots, NEW n \in Nat
    PROVE  \E g : IsRun(edges, roots, n, g)
<1> DEFINE Bad == {m \in Nat : ~\E g : IsRun(edges, roots, m, g)}
<1>1. SUFFICES ASSUME Bad # {} PROVE FALSE
  OBVIOUS
<1>2. PICK m \in Bad : \A k \in Bad : m <= k
  <2>1. Bad \subseteq Nat
    OBVIOUS
  <2> HIDE DEF Bad
  <2> QED
    BY <1>1, <2>1, LeastPlace
<1>3. CASE m = 0
  <2>1. IsRun(edges, roots, 0, [i \in 0 .. 0 |-> roots])
    BY DEF IsRun
  <2> QED
    BY <1>2, <1>3, <2>1
<1>4. CASE m # 0
  <2>1. m - 1 \in Nat /\ m - 1 \notin Bad
    BY <1>2, <1>4
  <2>2. PICK g : IsRun(edges, roots, m - 1, g)
    BY <2>1
  <2> DEFINE h == [i \in 0 .. m |-> IF i = m THEN OneMore(edges, g[m - 1]) ELSE g[i]]
  <2>3. ASSUME NEW i \in 0 .. m
        PROVE  h[i] = IF i = 0 THEN roots ELSE UNION {{o} \cup edges[o] : o \in h[i - 1]}
    <3>1. CASE i = 0
      <4>1. h[0] = g[0] /\ g[0] = roots
        BY <1>2, <1>4, <2>1, <2>2 DEF IsRun
      <4> QED
        BY <3>1, <4>1
    <3>2. CASE i # 0
      <4>1. i - 1 \in 0 .. m - 1 /\ h[i - 1] = g[i - 1]
        BY <1>2, <3>2
      <4>2. CASE i = m
        BY <3>2, <4>1, <4>2 DEF OneMore
      <4>3. CASE i # m
        <5>1. i \in 0 .. m - 1 /\ h[i] = g[i]
          BY <1>2, <4>3
        <5>2. g[i] = UNION {{o} \cup edges[o] : o \in g[i - 1]}
          BY <2>2, <3>2, <5>1 DEF IsRun
        <5> QED
          BY <3>2, <4>1, <5>1, <5>2
      <4> QED
        BY <4>2, <4>3
    <3> QED
      BY <3>1, <3>2
  <2>4. h = [i \in 0 .. m |-> h[i]]
    OBVIOUS
  <2>5. IsRun(edges, roots, m, h)
    <3> HIDE DEF h
    <3> QED
      BY <2>3, <2>4 DEF IsRun
  <2> QED
    BY <1>2, <2>5
<1> QED
  BY <1>3, <1>4

(* Rounds is where such a run ends.                                         *)
LEMMA RoundsIsARun ==
    ASSUME NEW edges, NEW roots, NEW n \in Nat
    PROVE  \E g : IsRun(edges, roots, n, g) /\ Rounds(edges, roots, n) = g[n]
<1> DEFINE g == CHOOSE g : IsRun(edges, roots, n, g)
<1>1. IsRun(edges, roots, n, g)
  BY RunsExist
<1>2. Rounds(edges, roots, n) = g[n]
  BY DEF Rounds, IsRun
<1> QED
  BY <1>1, <1>2

(* As many rounds as there are objects find what can be reached and nothing *)
(* else: each round but the last finds a new object.                        *)
LEMMA TraceFindsWhatIsReached ==
    ASSUME NEW Nodes, IsFiniteSet(Nodes), NEW edges \in [Nodes -> SUBSET Nodes], NEW roots \in SUBSET Nodes
    PROVE  Trace(edges, roots) = Reach(edges, roots)
<1> DEFINE N == Cardinality(Nodes)
<1>1. N \in Nat
  BY FS_CardinalityType
<1>2. PICK g : IsRun(edges, roots, N, g) /\ Rounds(edges, roots, N) = g[N]
  BY <1>1, RoundsIsARun
<1> HIDE DEF N
<1> DEFINE Good(i) == /\ roots \subseteq g[i] /\ g[i] \subseteq Reach(edges, roots)
                      /\ Closed(edges, g[i]) \/ Cardinality(g[i]) >= i
           Bad == {i \in 0 .. N : ~Good(i)}
<1>3. Reach(edges, roots) \subseteq Nodes
  BY DEF Reach
<1>4. Bad = {}
  <2>1. SUFFICES ASSUME Bad # {} PROVE FALSE
    OBVIOUS
  <2>2. PICK m \in Bad : \A k \in Bad : m <= k
    <3>1. Bad \subseteq Nat
      BY <1>1
    <3> HIDE DEF Bad
    <3> QED
      BY <2>1, <3>1, LeastPlace
  <2>3. CASE m = 0
    <3>1. g[0] = roots
      BY <1>1, <1>2 DEF IsRun
    <3>2. roots \subseteq Reach(edges, roots) /\ Cardinality(roots) >= 0
      BY ReachContainsRoots, FS_Subset, FS_CardinalityType
    <3> QED
      BY <2>2, <2>3, <3>1, <3>2
  <2>4. CASE m # 0
    <3>1. m \in Nat /\ m - 1 \in 0 .. N /\ m - 1 \notin Bad
      BY <1>1, <2>2, <2>4
    <3> PICK k \in 0 .. N : k = m - 1
      BY <3>1
    <3>2. Good(k)
      BY <3>1
    <3> DEFINE old == g[k]
               new == g[m]
    <3>3. new = OneMore(edges, old)
      BY <1>1, <1>2, <2>2, <2>4 DEF IsRun, OneMore
    <3> HIDE DEF new
    <3>4. old \subseteq new
      BY <3>3 DEF OneMore
    <3>5. new \subseteq Reach(edges, roots)
      BY <3>2, <3>3, ReachIsClosed DEF OneMore, Closed
    <3>6. Closed(edges, old) => new = old
      BY <3>3 DEF OneMore, Closed
    <3>7. new = old => Closed(edges, old)
      BY <3>3 DEF OneMore, Closed
    <3>8. ASSUME ~Closed(edges, new) PROVE Cardinality(new) >= m
      <4>1. ~Closed(edges, old) /\ new # old
        BY <3>6, <3>7, <3>8
      <4>2. Cardinality(old) >= k
        BY <3>2, <4>1
      <4>3. IsFiniteSet(new) /\ Cardinality(new) \in Nat /\ Cardinality(old) \in Nat
        BY <1>3, <3>4, <3>5, FS_Subset, FS_CardinalityType
      <4>4. Cardinality(old) <= Cardinality(new) /\ Cardinality(old) # Cardinality(new)
        BY <3>4, <4>1, <4>3, FS_Subset
      <4>5. \A a, b \in Nat : a <= b /\ a # b /\ a >= k => b >= m
        BY <3>1
      <4> QED
        BY <4>2, <4>3, <4>4, <4>5
    <3>9. Good(m)
      BY <3>2, <3>4, <3>5, <3>8 DEF new
    <3> QED
      BY <2>2, <3>9
  <2> QED
    BY <2>3, <2>4
<1>5. Good(N)
  BY <1>1, <1>4
<1>6. Closed(edges, g[N])
  <2>1. SUFFICES ASSUME Cardinality(g[N]) >= N PROVE Closed(edges, g[N])
    BY <1>5
  <2>2. g[N] \subseteq Nodes /\ Cardinality(g[N]) <= N /\ Cardinality(g[N]) \in Nat
    BY <1>3, <1>5, FS_Subset, FS_CardinalityType DEF N
  <2>3. Cardinality(g[N]) = N
    BY <1>1, <2>1, <2>2
  <2>4. g[N] = Nodes
    BY <2>2, <2>3, FS_Subset DEF N
  <2> QED
    BY <2>4 DEF Closed
<1>7. Reach(edges, roots) \subseteq g[N]
  BY <1>3, <1>5, <1>6, ReachIsLeast
<1> QED
  BY <1>2, <1>5, <1>7 DEF Trace, N
=============================================================================
