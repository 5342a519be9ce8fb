----------------------------- MODULE MCFileTree -----------------------------
(***************************************************************************)
(* Two devices, a and b.  The directory a/d holds a file of two buffers    *)
(* and the directory s, with a file and a link to a directory on b; a/e is *)
(* empty and a/g leads nowhere.  The directory b/t holds links back to a.  *)
(***************************************************************************)
EXTENDS FileTree, TLC

MCTree ==
  <<"a">> :> Dir @@ <<"a", "d">> :> Dir @@ <<"a", "d", "x">> :> File(<<1, 2>>)
    @@ <<"a", "d", "s">> :> Dir @@ <<"a", "d", "s", "y">> :> File(<<3>>)
    @@ <<"a", "d", "s", "l">> :> Link(<<"b", "o">>)
    @@ <<"a", "x">> :> File(<<4>>) @@ <<"a", "e">> :> Dir @@ <<"a", "g">> :> Link(<<"a", "n">>)
    @@ <<"b">> :> Dir @@ <<"b", "o">> :> Dir @@ <<"b", "o", "z">> :> File(<< >>)
    @@ <<"b", "t">> :> Dir @@ <<"b", "t", "x">> :> Link(<<"a", "x">>)
    @@ <<"b", "t", "k">> :> Link(<<"a", "d", "s">>)
MCTrees == {MCTree}

X == <<"a", "x">>
D == <<"a", "d">>
S == <<"a", "d", "s">>
L == <<"a", "d", "s", "l">>
E == <<"a", "e">>
G == <<"a", "g">>
B == <<"b">>
N == <<"b", "n">>
O == <<"b", "o">>
Z == <<"b", "o", "z">>
T == <<"b", "t">>

Cmd(name, src, dest, r, f) == [name |-> name, src |-> src, dest |-> dest, r |-> r, f |-> f]
mv(src, dest) == Cmd("mv", src, dest, FALSE, FALSE)
cp(r, src, dest) == Cmd("cp", src, dest, r, FALSE)
rm(r, f, src) == Cmd("rm", src, << >>, r, f)

(* One operand of every kind to a destination of every kind, ...           *)
Goals == {X, D, S, E, N, Z, T, <<"a", "m">>, <<"b", "n", "n">>}
One == {<<mv(<<src>>, dest)>> : src \in {X, D, S, L, E, G, Z, T}, dest \in Goals}
         \cup {<<cp(TRUE, <<src>>, dest)>> : src \in {X, S, L, E}, dest \in Goals}

(* ... several operands, which may have the same name or place, ...        *)
Several ==
  {<<mv(<<X, D>>, N)>>, <<mv(<<X, S>>, O)>>, <<mv(<<X, <<"a", "d", "x">>>>, B)>>, <<mv(<<X, D>>, T)>>,
   <<mv(<<S, D>>, B)>>, <<mv(<<D, S>>, E)>>, <<mv(<<Z, L>>, B)>>, <<mv(<<O, D, E>>, B)>>, <<mv(<<L, O>>, E)>>,
   <<cp(FALSE, <<X, D>>, B)>>, <<cp(FALSE, <<X>>, X)>>, <<cp(TRUE, <<X, <<"a", "d", "x">>>>, B)>>,
   <<cp(TRUE, <<X, T>>, <<"a">>)>>, <<cp(TRUE, <<E, D>>, N)>>, <<cp(TRUE, <<D>>, <<"b", "n">>)>>, <<mv(<<T>>, O)>>}

(* ... and removing, alone and by two at once.                             *)
Removals ==
  {<<rm(r, f, src)>> : r \in BOOLEAN, f \in BOOLEAN, src \in {<<L, N, S>>, <<G, E>>, <<T>>}}
    \cup {<<rm(TRUE, TRUE, <<src>>), rm(TRUE, FALSE, <<S, X>>)>> : src \in {S, L}}

MCJobs == One \cup Several \cup Removals

(* Two rm -rf of the same directory.                                       *)
MCForce == { <<rm(TRUE, TRUE, <<S>>), rm(TRUE, TRUE, <<S>>)>> }
=============================================================================
