----------------------------- MODULE MCPrograms -----------------------------
(* Scripts that define, redefine, include and import in every order that   *)
(* matters; a script of one file may be the library of another.            *)
EXTENDS Programs

Text(c) == <<c>>
MCMain == Text("main")
f == Text("f")
g == Text("g")
x == Text("x")
y == Text("y")

MCContents == {
    <<>>,
    <<Comment>>,
    <<Invoke(f, 2)>>,
    <<Function(f, <<x, y>>), Invoke(g, 0), End(f), Function(g, <<>>), End(g)>>,
    <<Include("l"), Function(g, <<x>>), Array("v", <<"1">>), End(g), Invoke(g, 1), Include("m")>>,
    <<Include("m"), Invoke(f, 1), Import("m"), Invoke(f, 2)>>,
    <<Struct("s"), Field("a"), EndStruct, Include("l"), Instance("s", "v"), Import("l")>>,
    <<Function(x, <<x, y>>), Import("l"), End(x), Array("v", <<"1">>), Invoke(x, 2), Array("w", <<"2">>)>>,
    <<Function(f, <<x, y>>), Invoke(x, 2), End(g)>>,
    <<Function(f, <<x>>), Instance("s", "w"), End(f)>>}

=============================================================================
