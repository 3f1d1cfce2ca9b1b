-------------------------- MODULE PanicHandlerProps --------------------------
(***************************************************************************)
(* What the crash reporter of src/panic.c must get right.                  *)
(***************************************************************************)
EXTENDS PanicHandler

\* The types of the variables.  A thread always keeps its user context, and
\* the kernel never sees more installation calls than there are signals.
TypeOK ==
  /\ disposition \in [Signals -> Dispositions]
  /\ installed \in 0..Len(InstallOrder)
  /\ stack \in [Threads -> Seq(Contexts) \ {<<>>}]
  /\ report \in [Signals -> Seq(Lines)]
  /\ killedBy \in Signals \cup {None}
  /\ entries \in [Signals -> Nat]
  /\ sent \in 0..MaxSent

-----------------------------------------------------------------------------
(* Safety                                                                  *)

\* The handler is entered at most once for a signal, whatever faults happen
\* in which threads or inside the handler itself, so that a fault in the
\* handler cannot make it report for ever; and no two activations anywhere in
\* the process write to the same report (SA_RESETHAND, panic.c:259).
HandlerOnce ==
  \A s \in Signals :
    /\ entries[s] <= 1
    /\ \A t, u \in Active(s) : t = u

\* The lines of a report follow the handler's text: the header, then at most
\* one register block and one backtrace whose frames are numbered without
\* gaps, an error only as the last line before the end.
InPlace(r, k) ==
  LET kind == r[k].kind
      before == r[k - 1].kind
  IN /\ k <= 4 => kind = Header[k]
     /\ k = 5 => kind \in {"ERROR", "REGISTERS"}
     /\ k > 5 =>
          \/ kind = "BACKTRACE" /\ k = 6 /\ before = "REGISTERS"
          \/ /\ kind \in {"FRAME", "MARKED"} /\ r[k].frame = k - 7
             /\ before \in {"BACKTRACE", "FRAME", "MARKED"}
          \/ kind = "ERROR" /\ before \in {"REGISTERS", "BACKTRACE", "FRAME", "MARKED"}
          \/ kind = "END" /\ k = Len(r)

WellFormed(r) == \A k \in 1..Len(r) : InPlace(r, k)

\* A report is complete: closed by PANIC END, or a header and the one error after
\* which panic_handler returns early (panic.c:236-239).
Complete(r) == r[Len(r)].kind = "END" \/ (Len(r) = 5 /\ r[5].kind = "ERROR")

\* Every report is well formed at every moment, however the activations of
\* several threads interleave and nest, and one whose handler has returned is
\* complete.
ReportWellFormed ==
  \A s \in Signals :
    LET r == report[s]
    IN /\ WellFormed(r)
       /\ entries[s] = 0 => r = <<>>
       /\ entries[s] > 0 /\ Active(s) = {} => Complete(r)

\* The two unwinding loops agree although each walks the stack on its own:
\* the backtrace marks the frame whose registers were printed and no other,
\* and that frame is the innermost one of the program, if it is within the
\* limit (panic.c:111-134 and 165-187).
MarksLikelyFrame ==
  \A t \in Threads : \A d \in 1..Depth(t) :
    LET c == stack[t][d]
        lines == {report[c.sig][k] : k \in 1..Len(report[c.sig])}
        shown == {l \in lines : l.kind \in {"FRAME", "MARKED"}}
        registers == {l \in lines : l.kind = "REGISTERS"}
    IN c.sig # None /\ c.walk # None =>
         \A l \in shown :
           LET first == /\ c.walk.low[l.frame + 1]
                        /\ \A k \in 1..l.frame : ~c.walk.low[k]
           IN /\ (l.kind = "MARKED") <=> first
              /\ first => registers = {Line("REGISTERS", l.frame)}

-----------------------------------------------------------------------------
(* The abstract specification                                              *)

\* How far the report of s has come, for CrashReport.
Stage(s) ==
  IF killedBy = s THEN "killer"
  ELSE IF disposition[s] = "panic_handler" THEN "armed"
  ELSE IF entries[s] = 0 THEN "unarmed"
  ELSE IF Active(s) # {} THEN "running"
  ELSE "done"

Abstract == INSTANCE CrashReport WITH
  stage <- [s \in Signals |-> Stage(s)],
  dead <- killedBy # None

\* The handler implements CrashReport: once it is installed for a signal, the
\* process cannot die of that very signal before the handler has been entered
\* for it, whatever other signals are armed, running or done; and nothing is
\* reported twice or after death (panic.c:257-265).
ImplementsCrashReport == Abstract!AbsSpec

-----------------------------------------------------------------------------
(* Liveness                                                                *)

\* A fault ends the process: the handler runs to its end, faults in it
\* included, and the faulting instruction then meets the default action.
\* Neither the unwinding loops nor the return to the faulting instruction can
\* keep a crashed process alive.
FaultKills ==
  \A t \in Threads : (stack[t][1].fault # None) ~> (killedBy # None)

\* "If we didn't find a likely frame, use the first." (panic.c:127): on a
\* stack without a likely frame the registers printed are those of the first.
FallbackUsesFirst ==
  \A t \in Threads : \A d \in 1..Depth(t) :
    LET c == stack[t][d]
    IN c.pc = "init_backtrace" /\ (\A k \in DOMAIN c.walk.low : ~c.walk.low[k])
         => report[c.sig][Len(report[c.sig])] = Line("REGISTERS", 0)

=============================================================================
