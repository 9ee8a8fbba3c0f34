------------------------------ MODULE MCLoader ------------------------------
(***************************************************************************)
(* A small instance of Loader.  Files of up to two statements are all      *)
(* there; the longer ones bring each table to its limit.                   *)
(***************************************************************************)
EXTENDS Loader

MCPath == {"main", "a", "b"}

S(kind, name, iface, methods) ==
    [kind |-> kind, name |-> name, iface |-> iface, methods |-> methods]

Struct(n) == S("struct", n, "", <<>>)
Interface(n, sigs) == S("interface", n, "", sigs)
Impl(methods) == S("impl", "S", "", methods)
Implement(n, methods) == S("implement", "S", n, methods)
ImportOf(p) == S("import", p, "", <<>>)

Alphabet ==
    {Struct("S"), Interface("I", <<"m">>), Impl(<<"m">>), Impl(<<"n">>),
     Implement("I", <<"m">>), Implement("I", <<>>), S("other", "", "", <<>>)}
        \cup {ImportOf(p) : p \in MCPath}

Point == <<Implement("I", <<"m">>), Struct("S"), Interface("I", <<"m">>)>>

Long ==
    {<<Struct("T"), ImportOf("a")>>,
     Point,
     Append(Point, ImportOf("a")),
     Point \o <<Interface("J", <<"n">>), ImportOf("a")>>,
     <<Struct("S"), Impl(<<"m", "n", "p">>)>>,
     <<Interface("K", <<>>), Interface("J", <<>>)>>,
     <<Implement("J", <<"n">>), Impl(<<"m", "n">>)>>,
     <<Interface("J", <<"n">>), Implement("J", <<"m", "n">>)>>,
     <<ImportOf("a"), Implement("J", <<"n">>)>>}

MCSources == SeqOf(Alphabet, 2) \cup Long
=============================================================================
