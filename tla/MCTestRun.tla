------------------------------ MODULE MCTestRun ------------------------------
(***************************************************************************)
(* The instance of TestRun that TLC checks.                                *)
(***************************************************************************)
EXTENDS TestRun

\* Everything; and a choice of tests by each of the filters.
MCOptions ==
  {[include |-> i, exclude |-> e, enable |-> n, unskip |-> u,
    timeout |-> w, fail_fast |-> FALSE, mode |-> m] :
     i \in {Tests, {1}}, e \in {{}, {1}}, n \in {{}, {2}}, u \in {{}, {1}},
     w \in {0, 300}, m \in {"normal", "quiet", "verbose"}}

\* The last test has no timeout; the first one has that of the command line.
MCOwnTimeout == [t \in {2, 3} |-> IF t = 2 THEN 60 ELSE 0]
NoOwnTimeout == [t \in {} |-> 0]

MCFailFastOptions ==
  {[include |-> Tests, exclude |-> {}, enable |-> {}, unskip |-> {},
    timeout |-> 300, fail_fast |-> TRUE, mode |-> "normal"]}

=============================================================================
