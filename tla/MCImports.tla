------------------------------- MODULE MCImports -------------------------------
(***************************************************************************)
(* File systems of at most five files, with cycles of imports, packages,     *)
(* relative imports, names that shadow one another, bindings of __package__, *)
(* and files that fail.                                                     *)
(***************************************************************************)
EXTENDS ImportsProperties, TLC

Import(name, asname)         == [op |-> "import", name |-> name, asname |-> asname]
From(level, name, attr, as)  == [op |-> "from", level |-> level, name |-> name,
                                 aliases |-> << <<attr, as>> >>]
FromBoth(level, name, x, y)  == [op |-> "from", level |-> level, name |-> name,
                                 aliases |-> << <<x, x>>, <<y, y>> >>]
Star(level, name)            == [op |-> "star", level |-> level, name |-> name]
Assign(x)                    == [op |-> "assign", target |-> x, value |-> Plain]
Package_(v)                  == [op |-> "assign", target |-> "__package__", value |-> v]
Raise                        == [op |-> "raise"]

File(body) == [kind |-> "compiles", body |-> body]
Bad(kind)  == [kind |-> kind, body |-> << >>]

MCPrivate == {"_h"} \cup ModuleNames
MCSysPath == << << >> >>

-------------------------------------------------------------------------------
(* Two flat modules, and a script: every cycle, and every failure in it. *)
FlatBodies(other) ==
  {<<Assign("v")>>, <<Import(<<other>>, "")>>, <<Assign("v"), Import(<<other>>, "w")>>,
   <<Import(<<other>>, ""), Assign("v")>>, <<From(0, <<other>>, "v", "v")>>,
   <<Assign("v"), Assign("_h"), Star(0, <<other>>)>>, <<Import(<<other>>, ""), Raise>>,
   <<Import(<<"sys">>, ""), From(0, <<"sys">>, "version", "w"), Import(<<other>>, "")>>}
FlatScripts ==
  {<<Import(<<"a">>, ""), Import(<<"b">>, ""), Import(<<"a">>, "w")>>,
   <<From(0, <<"b">>, "v", "w"), Star(0, <<"a">>)>>,
   <<From(0, <<"a">>, "b", "w")>>,
   <<Import(<<"a", "b">>, "w"), Import(<<"b">>, "")>>}
FlatFiles(bodyA, bodyB) ==
  [f \in {<<"a">>, <<"b">>} |-> IF f = <<"a">> THEN bodyA ELSE bodyB]
Flat == {<<FlatFiles(File(a), File(b)), s>> :
           a \in FlatBodies("b"), b \in FlatBodies("a"), s \in FlatScripts}
        \cup {<<FlatFiles(File(a), Bad(k)), s>> :
           a \in FlatBodies("b"), k \in {"SyntaxError", "CompileError"}, s \in FlatScripts}

-------------------------------------------------------------------------------
(* A package p with submodules x and y, and a module x beside it. *)
Sibling == {<<Assign("v")>>, <<From(1, << >>, "y", "y")>>, <<From(1, <<"y">>, "v", "v")>>,
            <<Import(<<"p", "y">>, "w"), Assign("v")>>, <<From(2, << >>, "x", "x")>>,
            <<From(2, <<"x">>, "v", "v")>>, <<From(3, << >>, "x", "x")>>,
            <<Import(<<"x">>, ""), Assign("v")>>, <<Import(<<"p">>, ""), Raise>>}
YBodies == {<<Assign("v")>>, <<From(1, << >>, "x", "w"), Assign("v")>>,
            <<Import(<<"p", "x">>, ""), Assign("v")>>}
PackageFiles(init, x, y) ==
  [f \in {<<"p", "__init__">>, <<"p", "x">>, <<"p", "y">>, <<"x">>} |->
     CASE f = <<"p", "__init__">> -> File(init) [] f = <<"p", "x">> -> File(x)
       [] f = <<"p", "y">> -> File(y)           [] OTHER -> File(<<Assign("v")>>)]
SubmoduleScripts ==
  {<<Import(<<"p", "x">>, ""), Import(<<"x">>, "")>>,
   <<Import(<<"p", "y">>, "w"), From(0, <<"p">>, "x", "x")>>,
   <<FromBoth(0, <<"p">>, "x", "y")>>, <<From(0, <<"p", "x">>, "v", "v"), Star(0, <<"p", "y">>)>>,
   <<Import(<<"p", "x", "y">>, "")>>, <<Import(<<"sys", "path">>, "")>>,
   <<From(1, << >>, "p", "p")>>}
PlainInits == {<< >>, <<Assign("x")>>, <<Import(<<"x">>, "w")>>}
Packages == {<<PackageFiles(i, x, y), s>> :
               i \in PlainInits, x \in Sibling, y \in YBodies, s \in SubmoduleScripts}

(* A package that imports its submodules, asked for before them. *)
OwnInits == {<<From(1, <<"x">>, "v", "v")>>, <<From(1, << >>, "y", "w")>>,
             <<Import(<<"p", "x">>, ""), Star(1, <<"y">>)>>}
OwnScripts == {<<Import(<<"p">>, ""), Import(<<"p", "x">>, "w")>>,
               <<From(0, <<"p">>, "x", "x"), Import(<<"p", "y">>, "")>>}
Exporting == {<<PackageFiles(i, x, y), s>> :
                i \in OwnInits, x \in Sibling, y \in YBodies, s \in OwnScripts}

(* An __init__.py in the directory of sys.path, which a relative import above the
   top-level package finds under the empty name.                             *)
RootInits == {<< >>, <<From(1, << >>, "x", "w")>>, <<Assign("x")>>}
RootScripts == {<<Import(<<"p", "x">>, ""), Import(<<"x">>, "")>>,
                <<From(0, <<"p">>, "x", "x"), From(0, <<"p", "y">>, "v", "v")>>}
Rooted == {<<PackageFiles(<< >>, x, <<Assign("v"), From(2, << >>, "x", "w")>>)
               @@ (<<"__init__">> :> File(r)), s>> :
             r \in RootInits, x \in Sibling, s \in RootScripts}

(* __package__ and its like as a name that the program reads and binds. *)
Values_ == {Plain, None, Str(<<"p">>), Str(<<"">>), Str(<<"p", "x">>)}
Rebinding ==
  {<<Package_(v), From(1, << >>, "y", "y")>> : v \in Values_}
  \cup {<<From(0, <<"p">>, n, "__package__"), From(1, <<"y">>, "v", "v")>> :
          n \in {"__name__", "__file__", "__doc__", "__package__"}}
  \cup {<<Import(<<"p", "__package__">>, "w"), From(1, << >>, "y", "y")>>}
RebindingScripts ==
  {<<Package_(Str(<<"p">>)), From(1, << >>, "x", "w"), Import(<<"p", "y">>, "")>>,
   <<Package_(Plain), Import(<<"p">>, ""), From(2, << >>, "x", "x")>>,
   <<Import(<<"p", "x">>, ""), Star(0, <<"p", "x">>), From(1, << >>, "y", "y")>>}
Rebound == {<<PackageFiles(i, x, y) @@ (<<"p", "__package__">> :> File(<< >>)), s>> :
              i \in {<< >>, <<Import(<<"p", "__package__">>, "w"), From(2, <<"x">>, "v", "v")>>},
              x \in Rebinding, y \in YBodies, s \in RebindingScripts}

Worlds == Flat \cup Packages \cup Exporting \cup Rooted \cup Rebound

Init == \E w \in Worlds : InitWith(w[1], w[2])
Spec == Init /\ [][Next]_vars /\ WF_vars(Next)

(* The same package, its submodule asked for first. *)
OvertakingInit ==
  InitWith(PackageFiles(<<From(1, <<"x">>, "v", "v")>>, <<Assign("v")>>, << >>),
           <<Import(<<"p", "x">>, "")>>)
OvertakingSpec == OvertakingInit /\ [][Next]_vars
=============================================================================
