--------------------------- MODULE MCPanicHandler ---------------------------
(***************************************************************************)
(* The instance of PanicHandler that TLC checks, and its properties.       *)
(***************************************************************************)
EXTENDS PanicHandlerProps

CONSTANTS t1, t2, SIGABRT, SIGSEGV

MCThreads == {t1, t2}
MCThread == {t1}
MCInstallOrder == <<SIGABRT, SIGSEGV>>

\* A stack without a likely frame, one whose likely frame lies behind a
\* library frame, and two that libunwind loses after their first frame.
MCWalks == {
  [low |-> <<FALSE>>, tail |-> "same"],
  [low |-> <<FALSE, TRUE, TRUE>>, tail |-> "zero"],
  [low |-> <<FALSE>>, tail |-> "error"],
  [low |-> <<TRUE>>, tail |-> "error"]}

\* The stack of a program that the loader placed above the heuristic's bound:
\* the outermost unw_step returns 0 with the instruction pointer cleared.
MCHighWalks == {[low |-> <<FALSE>>, tail |-> "zero"]}

=============================================================================
