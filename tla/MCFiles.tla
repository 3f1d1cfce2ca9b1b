------------------------------- MODULE MCFiles -------------------------------
(***************************************************************************)
(* The instance of Files that TLC checks: the names a and b, every file    *)
(* system of two levels in which an entry at a or b is a file, a link, or  *)
(* a directory, with files, directories and links in a and less in b, and  *)
(* a bystander c, a file, or a directory that links lead to; some where    *)
(* links below a and b lead from one to the other; one with the same names *)
(* at three levels; and one with an empty file.  The text of a file tells  *)
(* its path; as an archive it has one entry, but at a and b two, the first *)
(* of which can have the new name, or the second.                          *)
(***************************************************************************)
EXTENDS Files

MCWords == {"", "temp", "new", "a", "b", "c"}
MCNames == <<"a", "b">>
Tops == {<<"a">>, <<"b">>, <<"c">>}

Contents(path) ==
  CASE path = <<"a">> -> <<<<"a", "a">>, <<"b", "temp">>>>
    [] path = <<"b">> -> <<<<"b", "b">>, <<"c", "temp">>>>
    [] OTHER -> <<<<"c">> \o path>>

\* What can be at a path: of the second level, and of the first.
Leaf(path) == path :> File(Contents(path))
Leaves(path) == {<<>>, Leaf(path)}
Nested(path) == Leaves(path) \cup {path :> Dir} \cup {path :> Link(top) : top \in {<<"a">>, <<"c">>}}
Entry(top, nested, beside) ==
  Leaves(top) \cup {top :> Link(path) : path \in Tops \ {top}}
  \cup {(top :> Dir) @@ one @@ two : one \in nested, two \in beside}
Root == (<<>> :> Dir) @@ (<<"a">> :> Dir) @@ (<<"b">> :> Dir) @@ Leaf(<<"c">>)

\* The bystander is a directory only where a link leads to it.
ToBystander(f) == \E q \in DOMAIN f : f[q] = Link(<<"c">>)
Bystander(f) == {Leaf(<<"c">>)} \cup (IF ToBystander(f) THEN {<<"c">> :> Dir} ELSE {})

MCTrees ==
  UNION {{(<<>> :> Dir) @@ a @@ b @@ c : c \in Bystander(a @@ b)} :
           a \in Entry(<<"a">>, Nested(<<"a", "a">>), Leaves(<<"a", "b">>)),
           b \in Entry(<<"b">>, Leaves(<<"b", "a">>) \cup {<<"b", "a">> :> Dir}, {<<>>})}
  \cup {Root @@ below @@ one @@ two @@ three :
          below \in {Leaf(<<"a", "b", "a">>) @@ (<<"a", "b">> :> Dir), <<"a", "b">> :> Link(<<"b">>)},
          one \in Nested(<<"a", "a">>), two \in Leaves(<<"b", "a">>),
          three \in {<<>>} \cup {<<"b", "b">> :> Link(to) : to \in Tops}}
  \cup {Root @@ (<<"a", "a">> :> Dir) @@ (<<"a", "a", "a">> :> Dir)
        @@ Leaf(<<"a", "a", "a", "b">>) @@ Leaf(<<"a", "a", "b">>),
        Root @@ (<<"a", "b">> :> File(<<>>))}

MCTargets == {<<"a">>, <<"b">>, <<"a", "a">>, <<"b", "a">>, <<"a", "b">>}

=============================================================================
