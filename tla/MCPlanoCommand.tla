---------------------------- MODULE MCPlanoCommand ----------------------------
(***************************************************************************)
(* The instance of PlanoCommand that TLC checks: a base module with the    *)
(* commands build and test, and a module that overrides build, declaring   *)
(* the parent, and adds the passthrough command tool.                      *)
(***************************************************************************)
EXTENDS PlanoCommand

MCCommands == {"base.build", "base.test", "build", "tool"}

MCName == [c \in MCCommands |->
  CASE c \in {"base.build", "build"} -> "build"
    [] c = "base.test" -> "test"
    [] c = "tool" -> "tool"]

MCParent == [c \in MCCommands |-> IF c = "build" THEN "base.build" ELSE None]

MCBound == [n \in {"build", "test", "tool"} |->
  CASE n = "build" -> "build" [] n = "test" -> "base.test" [] n = "tool" -> "tool"]

MCSequences == {
  <<>>, <<"build">>, <<"test", "build">>, <<"build", "tool">>,
  <<"build", "test", "build">>, <<"unknown", "test">>, <<"test", "unknown", "build">>}

MCOptions == [sequence : MCSequences, help : BOOLEAN, init_only : BOOLEAN,
              extra : BOOLEAN]

=============================================================================
