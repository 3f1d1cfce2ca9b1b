---------------------------- MODULE PanicHandler ----------------------------
(***************************************************************************)
(* The crash reporter of src/panic.c: the five sigaction calls of          *)
(* install_panic_handler and every activation of panic_handler, one step   *)
(* per line it writes or libunwind call it makes, in any number of         *)
(* threads.  The kernel (dispositions, SA_RESETHAND, the blocked mask,     *)
(* re-execution of a faulting instruction) and libunwind are external and  *)
(* modelled from the way panic.c uses them.                                *)
(*                                                                         *)
(* A thread is a stack of contexts: the user code at the bottom and one    *)
(* context per nested activation of the handler above it.                  *)
(***************************************************************************)
EXTENDS Integers, Sequences

CONSTANTS
  Threads,            \* the threads of the process
  Main,               \* the thread that calls install_panic_handler
  InstallOrder,       \* the signals, in the order of the sigaction calls
  BACKTRACE_LIMIT,    \* frames looked at by either unwinding loop
  Walks,              \* the stacks that libunwind may find, see WalkType
  MaxSent,            \* bound: signals sent by other processes (kill(2))
  None                \* no signal, no walk

\* A stack as libunwind walks it: for each frame whether its instruction
\* pointer is below 0x3fffffffffff, and what the step past the last frame does:
\* it fails ("error") or returns 0, having cleared the instruction pointer
\* ("zero") or left it as it was ("same").
WalkType == [low : Seq(BOOLEAN) \ {<<>>}, tail : {"zero", "same", "error"}]

Signals == {InstallOrder[n] : n \in 1..Len(InstallOrder)}

ASSUME ConstantsAssumption ==
  /\ Main \in Threads
  /\ InstallOrder \in Seq(Signals)
  /\ \A m, n \in 1..Len(InstallOrder) :
       InstallOrder[m] = InstallOrder[n] => m = n
  /\ BACKTRACE_LIMIT \in Nat \ {0}
  /\ MaxSent \in Nat
  /\ Walks \subseteq WalkType
  /\ None \notin Signals
  /\ None \notin Walks

VARIABLES
  disposition,        \* the process-wide action for each signal
  installed,          \* sigaction calls made so far
  stack,              \* the contexts of each thread, innermost last
  report,             \* the lines written about each signal
  killedBy,           \* the signal that killed the process, or None
  entries,            \* history: how often the handler was entered per signal
  sent                \* signals sent from outside so far

vars == <<disposition, installed, stack, report, killedBy, entries, sent>>

Dispositions == {"SIG_DFL", "panic_handler"}

\* The four lines that open a report.
Header == <<"START", "SIGNAL", "PROCESS", "THREAD">>

Kinds == {"START", "SIGNAL", "PROCESS", "THREAD", "ERROR", "REGISTERS",
          "BACKTRACE", "FRAME", "MARKED", "END"}

Lines == [kind : Kinds, frame : Nat]
Line(kind, frame) == [kind |-> kind, frame |-> frame]

PCs == {"run", "header", "getcontext", "init_registers", "search",
        "registers", "init_backtrace", "backtrace", "end", "return"}

\* sig: the signal being handled; fault: the signal its current instruction
\* raises; walk: what unw_getcontext captured; index: the frame chosen by
\* print_registers; i: the loop counter at the current pc.
Contexts == [sig : Signals \cup {None}, pc : PCs, fault : Signals \cup {None},
             walk : Walks \cup {None}, index : Nat, i : Nat]

UserContext == [sig |-> None, pc |-> "run", fault |-> None,
                walk |-> None, index |-> 0, i |-> 0]
HandlerContext(s) == [UserContext EXCEPT !.sig = s, !.pc = "header"]

Depth(t) == Len(stack[t])
Top(t) == stack[t][Depth(t)]

\* The contexts in which t is handling s, and the signals t has blocked: a
\* handler runs with its own signal masked (no SA_NODEFER, empty sa_mask).
\* Mutant: sigfillset in place of sigemptyset.
BlockedFilled(t) == IF Depth(t) = 1 THEN {} ELSE Signals
Blocked(t) == {stack[t][d].sig : d \in 1..Depth(t)}
Active(s) == {t \in Threads : s \in Blocked(t)}

-----------------------------------------------------------------------------
(* libunwind                                                               *)

\* The return value of the unw_step call made with loop counter i.
UnwStep(walk, i) ==
  IF i < Len(walk.low) THEN 1
  ELSE IF walk.tail = "error" THEN -1 ELSE 0

\* The heuristic of the search, on the registers that call leaves behind.
LikelyFrame(walk, i) ==
  IF i < Len(walk.low) THEN walk.low[i + 1]
  ELSE walk.tail = "zero" \/ walk.low[Len(walk.low)]

-----------------------------------------------------------------------------
Init ==
  /\ disposition = [s \in Signals |-> "SIG_DFL"]
  /\ installed = 0
  /\ stack = [t \in Threads |-> <<UserContext>>]
  /\ report = [s \in Signals |-> <<>>]
  /\ killedBy = None
  /\ entries = [s \in Signals |-> 0]
  /\ sent = 0

\* main calls install_panic_handler before anything else, so the other
\* threads start once it has returned.
InstallComplete == installed = Len(InstallOrder)

Install ==
  /\ killedBy = None
  /\ ~InstallComplete
  /\ Top(Main).pc = "run"
  /\ installed' = installed + 1
  /\ disposition' =
       [disposition EXCEPT ![InstallOrder[installed + 1]] = "panic_handler"]
  /\ UNCHANGED <<stack, report, killedBy, entries, sent>>

-----------------------------------------------------------------------------
(* The kernel                                                              *)

\* The kernel kills the process with s.
Kill(s) ==
  /\ killedBy' = s
  /\ UNCHANGED <<disposition, installed, stack, report, entries>>

\* SA_RESETHAND puts the default action back before the handler runs.
\* Mutant: without the flag.
KeepHandler(s) == disposition
ResetHandler(s) == [disposition EXCEPT ![s] = "SIG_DFL"]

\* The kernel delivers s to t, whose contexts are cs; the default action of
\* all these signals is to kill the process.
Deliver(t, s, cs) ==
  \/ /\ disposition[s] = "panic_handler"
     /\ disposition' = ResetHandler(s)
     /\ stack' = [stack EXCEPT ![t] = Append(cs, HandlerContext(s))]
     /\ entries' = [entries EXCEPT ![s] = @ + 1]
     /\ UNCHANGED <<installed, report, killedBy>>
  \/ /\ disposition[s] = "SIG_DFL"
     /\ Kill(s)

\* The code that t runs, the handler included, reaches an instruction that
\* raises s, or calls abort(); or it executes that instruction again after a
\* handler returned to it.  A blocked signal that the thread raises itself
\* kills the process whatever its disposition.
Fault(t, s) ==
  /\ killedBy = None
  /\ InstallComplete
  /\ Top(t).fault \in {None, s}
  /\ UNCHANGED sent
  /\ \/ s \in Blocked(t) /\ Kill(s)
     \/ /\ s \notin Blocked(t)
        /\ Deliver(t, s, [stack[t] EXCEPT ![Depth(t)].fault = s])

\* Another process sends s and the kernel picks a thread that has not blocked
\* it; nothing is re-executed when the handler returns.
SendSignal(t, s) ==
  /\ killedBy = None
  /\ sent < MaxSent
  /\ t # Main => InstallComplete
  /\ s \notin Blocked(t)
  /\ sent' = sent + 1
  /\ Deliver(t, s, stack[t])

-----------------------------------------------------------------------------
(* panic_handler                                                           *)

\* The innermost context of t is a handler at label pc and does not fault.
At(t, pc) ==
  /\ killedBy = None
  /\ Top(t).pc = pc
  /\ Top(t).fault = None

\* It becomes c and writes lines to the report of its signal.
Advance(t, c, lines) ==
  /\ stack' = [stack EXCEPT ![t][Depth(t)] = c]
  /\ report' = [report EXCEPT ![Top(t).sig] = @ \o lines]
  /\ UNCHANGED <<disposition, installed, killedBy, entries, sent>>

Goto(t, pc) == [Top(t) EXCEPT !.pc = pc, !.i = 0]
Loop(t) == [Top(t) EXCEPT !.i = @ + 1]
Error == <<Line("ERROR", 0)>>

PrintHeader(t) ==
  /\ At(t, "header")
  /\ Advance(t, IF Top(t).i = 3 THEN Goto(t, "getcontext") ELSE Loop(t),
             <<Line(Header[Top(t).i + 1], 0)>>)

GetContext(t) ==
  /\ At(t, "getcontext")
  /\ \/ \E walk \in Walks :
          Advance(t, [Goto(t, "init_registers") EXCEPT !.walk = walk], <<>>)
     \/ Advance(t, Goto(t, "return"), Error)

\* print_registers: unw_init_local; its failure skips the backtrace too.
\* Mutant: the index -1 is not tested before print_backtrace.
InitRegistersUntested(t) ==
  /\ At(t, "init_registers")
  /\ \/ Advance(t, Goto(t, "search"), <<>>)
     \/ Advance(t, [Goto(t, "init_backtrace") EXCEPT !.index = -1], Error)

InitRegisters(t) ==
  /\ At(t, "init_registers")
  /\ \/ Advance(t, Goto(t, "search"), <<>>)
     \/ Advance(t, Goto(t, "end"), Error)

Found(t, index) == [Goto(t, "registers") EXCEPT !.index = index]

\* The search goes on, up to the limit.  Mutant: without a limit.
SearchForEver(t) == Top(t)
KeepSearching(t) ==
  IF Top(t).i + 1 = BACKTRACE_LIMIT THEN Found(t, BACKTRACE_LIMIT) ELSE Loop(t)

\* One iteration of the search for the most recent frame of the program.
\* A return value of 0 is not tested for.
SearchFrame(t) ==
  LET ret == UnwStep(Top(t).walk, Top(t).i)
      likely == LikelyFrame(Top(t).walk, Top(t).i)
  IN /\ At(t, "search")
     /\ \/ ret < 0 /\ Advance(t, Goto(t, "end"), Error)
        \/ ret >= 0 /\ likely /\ Advance(t, Found(t, Top(t).i), <<>>)
        \/ ret >= 0 /\ ~likely /\ Advance(t, KeepSearching(t), <<>>)

\* The registers of the chosen frame, or of the first if none was chosen.
PrintRegisters(t) ==
  LET index == Top(t).index
  IN /\ At(t, "registers")
     /\ Advance(t, Goto(t, "init_backtrace"),
                <<Line("REGISTERS", IF index = BACKTRACE_LIMIT
                                    THEN 0 ELSE index)>>)

\* print_backtrace: unw_init_local.  Mutant: its failure ends the handler.
InitBacktraceReturns(t) ==
  /\ At(t, "init_backtrace")
  /\ \/ Advance(t, Goto(t, "backtrace"), <<Line("BACKTRACE", 0)>>)
     \/ Advance(t, Goto(t, "return"), Error)

InitBacktrace(t) ==
  /\ At(t, "init_backtrace")
  /\ \/ Advance(t, Goto(t, "backtrace"), <<Line("BACKTRACE", 0)>>)
     \/ Advance(t, Goto(t, "end"), Error)

\* The line of the chosen frame carries the addr2line command.  Mutant: the
\* frame after it does.
MarkNextFrame(c) == IF c.i = c.index + 1 THEN "MARKED" ELSE "FRAME"
FrameKind(c) == IF c.i = c.index THEN "MARKED" ELSE "FRAME"

\* One iteration of the backtrace.
PrintFrame(t) ==
  LET c == Top(t)
      ret == UnwStep(c.walk, c.i)
      more == c.i < BACKTRACE_LIMIT
  IN /\ At(t, "backtrace")
     /\ \/ ~more /\ Advance(t, Goto(t, "end"), <<>>)
        \/ more /\ ret < 0 /\ Advance(t, Goto(t, "end"), Error)
        \/ more /\ ret = 0 /\ Advance(t, Goto(t, "end"), <<>>)
        \/ more /\ ret > 0 /\ Advance(t, Loop(t), <<Line(FrameKind(c), c.i)>>)

PrintEnd(t) ==
  /\ At(t, "end")
  /\ Advance(t, Goto(t, "return"), <<Line("END", 0)>>)

Return(t) ==
  /\ At(t, "return")
  /\ stack' = [stack EXCEPT ![t] = SubSeq(@, 1, Depth(t) - 1)]
  /\ UNCHANGED <<disposition, installed, report, killedBy, entries, sent>>

\* The process is gone.
Dead ==
  /\ killedBy # None
  /\ UNCHANGED vars

-----------------------------------------------------------------------------
HandlerStep(t) ==
  \/ PrintHeader(t)
  \/ GetContext(t)
  \/ InitRegisters(t)
  \/ SearchFrame(t)
  \/ PrintRegisters(t)
  \/ InitBacktrace(t)
  \/ PrintFrame(t)
  \/ PrintEnd(t)
  \/ Return(t)

Refault(t) == \E s \in Signals : Top(t).fault = s /\ Fault(t, s)

Next ==
  \/ Install
  \/ \E t \in Threads : HandlerStep(t)
  \/ \E t \in Threads, s \in Signals : Fault(t, s) \/ SendSignal(t, s)
  \/ Dead

Spec == Init /\ [][Next]_vars

\* The kernel schedules every thread: one that has an instruction to execute
\* executes it.  Nothing makes faults or foreign signals happen.
Fairness == \A t \in Threads : WF_vars(HandlerStep(t) \/ Refault(t))

FairSpec == Spec /\ Fairness

=============================================================================
