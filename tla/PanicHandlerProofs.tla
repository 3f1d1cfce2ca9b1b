------------------------- MODULE PanicHandlerProofs -------------------------
(***************************************************************************)
(* Proofs about the crash reporter, for any number of threads, signals,    *)
(* frames and stacks: type correctness, that the handler is entered at     *)
(* most once per signal, that it implements CrashReport, that every report *)
(* follows the handler's text and is closed, and that the two unwinding    *)
(* loops agree on the frame they show.                                     *)
(***************************************************************************)
EXTENDS PanicHandlerProps, SequenceTheorems, TLAPS

\* The bottom of every stack, and nothing else, is user code.
StackShape ==
  \A t \in Threads : \A d \in 1..Len(stack[t]) :
    /\ stack[t][d].sig = None <=> d = 1
    /\ stack[t][d].pc = "run" <=> d = 1
    /\ stack[t][d].pc = "header" => stack[t][d].i <= 3

\* A signal still armed has not been handled yet, and neither has one whose
\* sigaction call is still to come, so no call can arm a signal again.
ArmedOnce ==
  \A s \in Signals :
    /\ entries[s] <= 1
    /\ disposition[s] = "panic_handler" => entries[s] = 0
    /\ \A n \in 1..Len(InstallOrder) :
         s = InstallOrder[n] /\ n > installed =>
           entries[s] = 0 /\ disposition[s] = "SIG_DFL"

\* A context that handles s stands for the one entry counted for s.
ActivationsCounted ==
  \A t \in Threads : \A d \in 1..Len(stack[t]) : \A s \in Signals :
    stack[t][d].sig = s => entries[s] = 1

ActivationsDistinct ==
  \A s \in Signals : \A t, u \in Threads :
    \A d \in 1..Len(stack[t]) : \A e \in 1..Len(stack[u]) :
      stack[t][d].sig = s /\ stack[u][e].sig = s => t = u /\ d = e

IInv ==
  /\ TypeOK
  /\ StackShape
  /\ ArmedOnce
  /\ ActivationsCounted
  /\ ActivationsDistinct

-----------------------------------------------------------------------------
(* The shapes a step can have                                              *)

\* Every step of the handler but its return replaces the innermost context
\* by another one of the same activation and appends lines to its report.
Advances(t) ==
  \E c \in Contexts, lines \in Seq(Lines) :
    /\ c.sig = Top(t).sig
    /\ c.pc # "run"
    /\ c.pc = "header" => c.i <= 3
    /\ Top(t).pc # "run"
    /\ killedBy = None
    /\ Advance(t, c, lines)

\* Frame, index and counter arithmetic of the handler stays in range whatever
\* libunwind finds: every handler step of panic.c:192-254 but the return is an
\* Advances step.
LEMMA HandlerAdvances ==
  ASSUME TypeOK, StackShape, NEW t \in Threads, HandlerStep(t), ~Return(t)
  PROVE  Advances(t)
<1>. DEFINE c == Top(t)
<1>1. Depth(t) \in 1..Len(stack[t]) /\ c \in Contexts
  BY DEF TypeOK, Depth, Top
<1>2. c.pc = "header" => c.i <= 3
  BY <1>1 DEF StackShape, Top
<1>3. \A pc \in PCs \ {"run", "header"} :
        /\ Goto(t, pc) \in Contexts
        /\ Goto(t, pc).sig = c.sig
        /\ Goto(t, pc).pc = pc
  BY <1>1 DEF Goto, Contexts, Top
<1>4. /\ Loop(t) \in Contexts
      /\ Loop(t).sig = c.sig
      /\ Loop(t).pc = c.pc
      /\ Loop(t).i = c.i + 1
  BY <1>1 DEF Loop, Contexts, Top
<1>5. \A index \in Nat :
        /\ Found(t, index) \in Contexts
        /\ Found(t, index).sig = c.sig
        /\ Found(t, index).pc = "registers"
  BY <1>1 DEF Found, Goto, Contexts, Top, PCs
<1>6. /\ Error \in Seq(Lines)
      /\ <<>> \in Seq(Lines)
      /\ \A kind \in Kinds, frame \in Nat : <<Line(kind, frame)>> \in Seq(Lines)
  BY DEF Error, Lines, Line, Kinds
<1>7. CASE PrintHeader(t)
  <2>1. c.i \in 0..3
    BY <1>1, <1>2, <1>7 DEF PrintHeader, At, Contexts
  <2>2. Header[c.i + 1] \in Kinds
    BY <2>1 DEF Header, Kinds
  <2>3. <<Line(Header[c.i + 1], 0)>> \in Seq(Lines)
    BY <1>6, <2>2
  <2>4. CASE c.i = 3
    <3>1. Advance(t, Goto(t, "getcontext"), <<Line(Header[c.i + 1], 0)>>)
      BY <1>7, <2>4 DEF PrintHeader
    <3>2. Goto(t, "getcontext").pc = "getcontext" /\ Goto(t, "getcontext").sig = c.sig
          /\ Goto(t, "getcontext") \in Contexts
      BY <1>3 DEF PCs
    <3>. QED
      BY <1>7, <2>3, <3>1, <3>2 DEF PrintHeader, Advances, At
  <2>5. CASE c.i # 3
    BY <1>4, <1>7, <2>1, <2>3, <2>5 DEF PrintHeader, Advances, At
  <2>. QED
    BY <2>4, <2>5
<1>8. CASE GetContext(t)
  <2>1. CASE Advance(t, Goto(t, "return"), Error)
    BY <1>3, <1>6, <1>8, <2>1 DEF GetContext, Advances, At, PCs
  <2>2. ASSUME NEW walk \in Walks,
               Advance(t, [Goto(t, "init_registers") EXCEPT !.walk = walk], <<>>)
        PROVE  Advances(t)
    <3>. DEFINE d == [Goto(t, "init_registers") EXCEPT !.walk = walk]
    <3>1. d \in Contexts /\ d.sig = c.sig /\ d.pc = "init_registers"
      BY <1>3 DEF Contexts, PCs
    <3>. QED
      BY <1>6, <1>8, <2>2, <3>1 DEF GetContext, Advances, At
  <2>. QED
    BY <1>8, <2>1, <2>2 DEF GetContext
<1>9. CASE InitRegisters(t)
  BY <1>3, <1>6, <1>9 DEF InitRegisters, Advances, At, PCs
<1>10. CASE SearchFrame(t)
  <2>1. c.i \in Nat /\ BACKTRACE_LIMIT \in Nat
    BY <1>1, ConstantsAssumption DEF Contexts
  <2>2. CASE Advance(t, Goto(t, "end"), Error)
    BY <1>3, <1>6, <1>10, <2>2 DEF SearchFrame, Advances, At, PCs
  <2>3. CASE Advance(t, Found(t, c.i), <<>>)
    BY <1>5, <1>6, <1>10, <2>1, <2>3 DEF SearchFrame, Advances, At
  <2>4. CASE Advance(t, KeepSearching(t), <<>>)
    BY <1>4, <1>5, <1>6, <1>10, <2>1, <2>4
    DEF SearchFrame, KeepSearching, Advances, At
  <2>. QED
    BY <1>10, <2>2, <2>3, <2>4 DEF SearchFrame
<1>11. CASE PrintRegisters(t)
  <2>1. (IF c.index = BACKTRACE_LIMIT THEN 0 ELSE c.index) \in Nat
    BY <1>1 DEF Contexts
  <2>. QED
    BY <1>3, <1>6, <1>11, <2>1 DEF PrintRegisters, Advances, At, PCs, Kinds
<1>12. CASE InitBacktrace(t)
  BY <1>3, <1>6, <1>12 DEF InitBacktrace, Advances, At, PCs, Kinds
<1>13. CASE PrintFrame(t)
  <2>1. c.i \in Nat /\ FrameKind(c) \in Kinds
    BY <1>1 DEF Contexts, FrameKind, Kinds
  <2>2. CASE Advance(t, Goto(t, "end"), <<>>) \/ Advance(t, Goto(t, "end"), Error)
    BY <1>3, <1>6, <1>13, <2>2 DEF PrintFrame, Advances, At, PCs
  <2>3. CASE Advance(t, Loop(t), <<Line(FrameKind(c), c.i)>>)
    BY <1>4, <1>6, <1>13, <2>1, <2>3 DEF PrintFrame, Advances, At
  <2>. QED
    BY <1>13, <2>2, <2>3 DEF PrintFrame
<1>14. CASE PrintEnd(t)
  BY <1>3, <1>6, <1>14 DEF PrintEnd, Advances, At, PCs, Kinds
<1>. QED
  BY <1>7, <1>8, <1>9, <1>10, <1>11, <1>12, <1>13, <1>14 DEF HandlerStep

\* An Advances step seen from the variables.
LEMMA AdvanceShape ==
  ASSUME TypeOK, NEW t \in Threads, Advances(t)
  PROVE  /\ TypeOK'
         /\ \A u \in Threads : Len(stack'[u]) = Len(stack[u])
         /\ \A u \in Threads : \A d \in 1..Len(stack[u]) :
              /\ stack'[u][d].sig = stack[u][d].sig
              /\ \/ stack'[u][d] = stack[u][d]
                 \/ /\ stack[u][d].pc # "run"
                    /\ stack'[u][d].pc # "run"
                    /\ stack'[u][d].pc = "header" => stack'[u][d].i <= 3
         /\ UNCHANGED <<disposition, installed, killedBy, entries>>
<1>1. PICK c \in Contexts, lines \in Seq(Lines) :
        /\ c.sig = Top(t).sig
        /\ c.pc # "run"
        /\ c.pc = "header" => c.i <= 3
        /\ Top(t).pc # "run"
        /\ Advance(t, c, lines)
  BY DEF Advances
<1>2. Len(stack[t]) \in Nat \ {0}
  BY DEF TypeOK
<1>3. /\ stack' = [stack EXCEPT ![t][Len(stack[t])] = c]
      /\ report' = [report EXCEPT ![Top(t).sig] = @ \o lines]
      /\ UNCHANGED <<disposition, installed, killedBy, entries, sent>>
  BY <1>1 DEF Advance, Depth
<1>4. /\ stack'[t] \in Seq(Contexts) \ {<<>>}
      /\ stack'[t] = [stack[t] EXCEPT ![Len(stack[t])] = c]
      /\ Len(stack'[t]) = Len(stack[t])
  BY <1>2, <1>3, ExceptSeq DEF TypeOK
<1>5. \A u \in Threads \ {t} : stack'[u] = stack[u]
  BY <1>3 DEF TypeOK
<1>6. stack' \in [Threads -> Seq(Contexts) \ {<<>>}]
  BY <1>3, <1>4, <1>5 DEF TypeOK
<1>7. report' \in [Signals -> Seq(Lines)]
  <2>. DEFINE g == Top(t).sig
  <2>1. \A s \in Signals : report[s] \o lines \in Seq(Lines)
    BY <1>1, ConcatProperties DEF TypeOK
  <2>. QED
    BY <1>3, <2>1 DEF TypeOK
<1>8. \A d \in 1..Len(stack[t]) :
        stack'[t][d] = IF d = Len(stack[t]) THEN c ELSE stack[t][d]
  BY <1>2, <1>4 DEF TypeOK
<1>9. TypeOK'
  BY <1>3, <1>6, <1>7 DEF TypeOK
<1>10. \A u \in Threads : Len(stack'[u]) = Len(stack[u])
  BY <1>4, <1>5
<1>11. ASSUME NEW u \in Threads, NEW d \in 1..Len(stack[u])
       PROVE  /\ stack'[u][d].sig = stack[u][d].sig
              /\ \/ stack'[u][d] = stack[u][d]
                 \/ /\ stack[u][d].pc # "run"
                    /\ stack'[u][d].pc # "run"
                    /\ stack'[u][d].pc = "header" => stack'[u][d].i <= 3
  <2>1. CASE u = t /\ d = Len(stack[t])
    BY <1>1, <1>8, <2>1 DEF Top, Depth
  <2>2. CASE u = t /\ d # Len(stack[t])
    BY <1>8, <2>2
  <2>3. CASE u # t
    BY <1>5, <2>3
  <2>. QED
    BY <2>1, <2>2, <2>3
<1>. QED
  BY <1>3, <1>9, <1>10, <1>11

\* A delivery that enters the handler: contexts below keep their activation.
Pushes(t, s) ==
  \E cs \in Seq(Contexts) :
    /\ killedBy = None
    /\ disposition[s] = "panic_handler"
    /\ Len(cs) = Len(stack[t])
    /\ \A d \in 1..Len(cs) :
         /\ cs[d].sig = stack[t][d].sig
         /\ cs[d].pc = stack[t][d].pc
         /\ cs[d].i = stack[t][d].i
         /\ cs[d].walk = stack[t][d].walk
         /\ cs[d].index = stack[t][d].index
    /\ disposition' = [disposition EXCEPT ![s] = "SIG_DFL"]
    /\ stack' = [stack EXCEPT ![t] = Append(cs, HandlerContext(s))]
    /\ entries' = [entries EXCEPT ![s] = @ + 1]
    /\ sent' \in 0..MaxSent
    /\ UNCHANGED <<installed, report, killedBy>>

\* A delivery that kills: not for an armed signal.
Kills(s) ==
  /\ killedBy = None
  /\ disposition[s] # "panic_handler"
  /\ killedBy' = s
  /\ sent' \in 0..MaxSent
  /\ UNCHANGED <<disposition, installed, stack, report, entries>>

\* Whatever raises a signal, and whether or not the thread has it blocked, the
\* handler is entered or a signal that is no longer armed kills the process.
LEMMA DeliveryShapes ==
  ASSUME IInv, NEW t \in Threads, NEW s \in Signals,
         Fault(t, s) \/ SendSignal(t, s)
  PROVE  Pushes(t, s) \/ Kills(s)
<1>1. /\ stack[t] \in Seq(Contexts) /\ Len(stack[t]) \in Nat \ {0}
      /\ disposition[s] \in Dispositions
      /\ sent \in 0..MaxSent /\ MaxSent \in Nat
  BY ConstantsAssumption DEF IInv, TypeOK
<1>2. killedBy = None /\ sent' \in 0..MaxSent
  BY <1>1 DEF Fault, SendSignal
<1>3. ASSUME NEW cs \in Seq(Contexts), Deliver(t, s, cs),
             Len(cs) = Len(stack[t]),
             \A d \in 1..Len(cs) : /\ cs[d].sig = stack[t][d].sig
                                   /\ cs[d].pc = stack[t][d].pc
                                   /\ cs[d].i = stack[t][d].i
                                   /\ cs[d].walk = stack[t][d].walk
                                   /\ cs[d].index = stack[t][d].index
      PROVE  Pushes(t, s) \/ Kills(s)
  BY <1>2, <1>3 DEF Deliver, ResetHandler, Kill, Pushes, Kills
<1>4. CASE SendSignal(t, s)
  BY <1>1, <1>3, <1>4 DEF SendSignal
<1>5. CASE Fault(t, s) /\ s \in Blocked(t)
  <2>1. PICK d \in 1..Len(stack[t]) : stack[t][d].sig = s
    BY <1>5 DEF Blocked, Depth
  <2>2. disposition[s] # "panic_handler"
    BY <2>1 DEF IInv, ActivationsCounted, ArmedOnce
  <2>. QED
    BY <1>2, <1>5, <2>2 DEF Fault, Kill, Kills
<1>6. CASE Fault(t, s) /\ s \notin Blocked(t)
  <2>. DEFINE n == Len(stack[t])
              c == [stack[t][n] EXCEPT !.fault = s]
              cs == [stack[t] EXCEPT ![n].fault = s]
  <2>1. cs = [stack[t] EXCEPT ![n] = c]
    OBVIOUS
  <2>2. stack[t][n] \in Contexts /\ c \in Contexts
    <3>1. stack[t][n] \in Contexts
      BY <1>1
    <3>. QED
      BY <3>1 DEF Contexts
  <2>3. /\ cs \in Seq(Contexts)
        /\ Len(cs) = n
        /\ \A d \in 1..n : cs[d] = IF d = n THEN c ELSE stack[t][d]
    BY <1>1, <2>1, <2>2, ExceptSeq
  <2>4. /\ c.sig = stack[t][n].sig /\ c.pc = stack[t][n].pc
        /\ c.i = stack[t][n].i /\ c.walk = stack[t][n].walk
        /\ c.index = stack[t][n].index
    BY <2>2 DEF Contexts
  <2>5. \A d \in 1..Len(cs) : /\ cs[d].sig = stack[t][d].sig
                              /\ cs[d].pc = stack[t][d].pc
                              /\ cs[d].i = stack[t][d].i
                              /\ cs[d].walk = stack[t][d].walk
                              /\ cs[d].index = stack[t][d].index
    <3>. HIDE DEF c, cs
    <3>. QED
      BY <2>3, <2>4
  <2>6. Deliver(t, s, cs)
    BY <1>6 DEF Fault, Depth
  <2>. QED
    BY <1>3, <2>3, <2>5, <2>6
<1>. QED
  BY <1>4, <1>5, <1>6

\* A Pushes step seen from the variables.
LEMMA PushShape ==
  ASSUME IInv, NEW t \in Threads, NEW s \in Signals, Pushes(t, s)
  PROVE  /\ TypeOK'
         /\ Len(stack'[t]) = Len(stack[t]) + 1
         /\ \A u \in Threads \ {t} : stack'[u] = stack[u]
         /\ \A d \in 1..Len(stack[t]) :
              /\ stack'[t][d].sig = stack[t][d].sig
              /\ stack'[t][d].pc = stack[t][d].pc
              /\ stack'[t][d].i = stack[t][d].i
              /\ stack'[t][d].walk = stack[t][d].walk
              /\ stack'[t][d].index = stack[t][d].index
         /\ stack'[t][Len(stack[t]) + 1] = HandlerContext(s)
         /\ \A x \in Signals : entries'[x] = IF x = s THEN 1 ELSE entries[x]
         /\ \A x \in Signals :
              disposition'[x] = IF x = s THEN "SIG_DFL" ELSE disposition[x]
<1>1. PICK cs \in Seq(Contexts) :
        /\ Len(cs) = Len(stack[t])
        /\ \A d \in 1..Len(cs) : /\ cs[d].sig = stack[t][d].sig
                                 /\ cs[d].pc = stack[t][d].pc
                                 /\ cs[d].i = stack[t][d].i
                              /\ cs[d].walk = stack[t][d].walk
                              /\ cs[d].index = stack[t][d].index
        /\ stack' = [stack EXCEPT ![t] = Append(cs, HandlerContext(s))]
  BY DEF Pushes
<1>2. HandlerContext(s) \in Contexts
  BY DEF HandlerContext, UserContext, Contexts, PCs
<1>3. /\ Append(cs, HandlerContext(s)) \in Seq(Contexts) \ {<<>>}
      /\ Len(Append(cs, HandlerContext(s))) = Len(cs) + 1
      /\ \A d \in 1..Len(cs) : Append(cs, HandlerContext(s))[d] = cs[d]
      /\ Append(cs, HandlerContext(s))[Len(cs) + 1] = HandlerContext(s)
  BY <1>2, AppendProperties
<1>4. stack' \in [Threads -> Seq(Contexts) \ {<<>>}]
  BY <1>1, <1>3 DEF IInv, TypeOK
<1>5. entries[s] = 0
  BY DEF IInv, ArmedOnce, Pushes
<1>6. /\ disposition' \in [Signals -> Dispositions]
      /\ entries' \in [Signals -> Nat]
  BY DEF IInv, TypeOK, Pushes, Dispositions
<1>7. TypeOK'
  BY <1>4, <1>6 DEF IInv, TypeOK, Pushes
<1>8. stack'[t] = Append(cs, HandlerContext(s))
  BY <1>1 DEF IInv, TypeOK
<1>. QED
  BY <1>1, <1>3, <1>5, <1>7, <1>8 DEF IInv, TypeOK, Pushes

\* A return removes the innermost activation, and never the user's code.
LEMMA ReturnShape ==
  ASSUME TypeOK, StackShape, NEW t \in Threads, Return(t)
  PROVE  /\ TypeOK'
         /\ Len(stack[t]) > 1
         /\ Len(stack'[t]) = Len(stack[t]) - 1
         /\ \A u \in Threads \ {t} : stack'[u] = stack[u]
         /\ \A d \in 1..Len(stack[t]) - 1 : stack'[t][d] = stack[t][d]
         /\ UNCHANGED <<disposition, installed, killedBy, entries>>
<1>. DEFINE n == Len(stack[t])
<1>1. stack[t] \in Seq(Contexts) /\ n \in Nat \ {0}
  BY DEF TypeOK
<1>2. n > 1
  BY <1>1 DEF Return, At, Top, Depth, StackShape
<1>3. /\ SubSeq(stack[t], 1, n - 1) \in Seq(Contexts)
      /\ Len(SubSeq(stack[t], 1, n - 1)) = n - 1
      /\ \A d \in 1..n - 1 : SubSeq(stack[t], 1, n - 1)[d] = stack[t][d]
  BY <1>1, <1>2, SubSeqProperties
<1>4. stack' = [stack EXCEPT ![t] = SubSeq(stack[t], 1, n - 1)]
  BY DEF Return, Depth
<1>5. /\ stack'[t] = SubSeq(stack[t], 1, n - 1)
      /\ \A u \in Threads \ {t} : stack'[u] = stack[u]
  BY <1>4 DEF TypeOK
<1>6. stack'[t] \in Seq(Contexts) \ {<<>>}
  <2>1. stack'[t] \in Seq(Contexts) /\ Len(stack'[t]) # 0
    BY <1>1, <1>2, <1>3, <1>5
  <2>2. Len(<<>>) = 0
    OBVIOUS
  <2>. QED
    BY <2>1, <2>2
<1>7. stack' \in [Threads -> Seq(Contexts) \ {<<>>}]
  BY <1>4, <1>5, <1>6 DEF TypeOK
<1>. QED
  BY <1>2, <1>3, <1>5, <1>7 DEF Return, TypeOK

\* The sigaction call for the next signal, which is not handled yet.
LEMMA InstallShape ==
  ASSUME IInv, Install
  PROVE  /\ TypeOK'
         /\ installed' = installed + 1
         /\ installed' \in 1..Len(InstallOrder)
         /\ InstallOrder[installed'] \in Signals
         /\ entries[InstallOrder[installed']] = 0
         /\ disposition[InstallOrder[installed']] = "SIG_DFL"
         /\ disposition' =
              [disposition EXCEPT ![InstallOrder[installed']] = "panic_handler"]
         /\ UNCHANGED <<stack, report, killedBy, entries, sent>>
<1>1. /\ installed \in 0..Len(InstallOrder)
      /\ installed # Len(InstallOrder)
      /\ installed' = installed + 1
      /\ Len(InstallOrder) \in Nat
  BY ConstantsAssumption DEF Install, InstallComplete, IInv, TypeOK
<1>2. installed' \in 1..Len(InstallOrder) /\ installed' > installed
  BY <1>1
<1>3. InstallOrder[installed'] \in Signals
  BY <1>2 DEF Signals
<1>4. /\ entries[InstallOrder[installed']] = 0
      /\ disposition[InstallOrder[installed']] = "SIG_DFL"
  BY <1>2, <1>3 DEF IInv, ArmedOnce
<1>5. TypeOK'
  BY <1>2, <1>3 DEF Install, IInv, TypeOK, Dispositions
<1>. QED
  BY <1>1, <1>2, <1>3, <1>4, <1>5 DEF Install

\* A step of the process has one of these shapes.
LEMMA StepShapes ==
  ASSUME IInv, Next
  PROVE  \/ Install
         \/ \E t \in Threads : Advances(t) \/ Return(t)
         \/ \E t \in Threads, s \in Signals : Pushes(t, s)
         \/ \E s \in Signals : Kills(s)
         \/ UNCHANGED vars
<1>1. CASE Install
  BY <1>1
<1>2. ASSUME NEW t \in Threads, HandlerStep(t)
      PROVE  Advances(t) \/ Return(t)
  BY <1>2, HandlerAdvances DEF IInv
<1>3. ASSUME NEW t \in Threads, NEW s \in Signals, Fault(t, s) \/ SendSignal(t, s)
      PROVE  Pushes(t, s) \/ Kills(s)
  BY <1>3, DeliveryShapes
<1>4. CASE Dead
  BY <1>4 DEF Dead
<1>. QED
  BY <1>1, <1>2, <1>3, <1>4 DEF Next

-----------------------------------------------------------------------------
(* The inductive invariant                                                 *)

LEMMA InitIInv == Init => IInv
<1>. SUFFICES ASSUME Init PROVE IInv
  OBVIOUS
<1>1. UserContext \in Contexts
  BY DEF UserContext, Contexts, PCs
<1>2. \A t \in Threads : stack[t] = <<UserContext>>
  BY DEF Init
<1>3. \A t \in Threads :
        /\ stack[t] \in Seq(Contexts) \ {<<>>}
        /\ Len(stack[t]) = 1
        /\ \A d \in 1..Len(stack[t]) : d = 1 /\ stack[t][d] = UserContext
  <2>. SUFFICES ASSUME NEW t \in Threads
                PROVE  /\ stack[t] \in Seq(Contexts) \ {<<>>}
                       /\ Len(stack[t]) = 1
                       /\ \A d \in 1..Len(stack[t]) : d = 1 /\ stack[t][d] = UserContext
    OBVIOUS
  <2>1. stack[t] = <<UserContext>>
    BY <1>2
  <2>2. stack[t] \in Seq(Contexts) /\ Len(stack[t]) = 1 /\ stack[t][1] = UserContext
    BY <1>1, <2>1
  <2>3. stack[t] # <<>>
    BY <2>1
  <2>. QED
    BY <2>2, <2>3
<1>4. stack \in [Threads -> Seq(Contexts) \ {<<>>}]
  BY <1>3 DEF Init
<1>5. \A s \in Signals : <<>> \in Seq(Lines)
  OBVIOUS
<1>6. TypeOK
  BY <1>4, <1>5, ConstantsAssumption DEF Init, TypeOK, Dispositions
<1>7. StackShape
  BY <1>3 DEF StackShape, UserContext
<1>8. ArmedOnce
  BY DEF Init, ArmedOnce
<1>9. ActivationsCounted
  BY <1>3, ConstantsAssumption DEF ActivationsCounted, UserContext
<1>10. ActivationsDistinct
  BY <1>3, ConstantsAssumption DEF ActivationsDistinct, UserContext
<1>. QED
  BY <1>6, <1>7, <1>8, <1>9, <1>10 DEF IInv

\* Steps that push, pop or change one context keep the activations of a
\* signal distinct and counted: a signal is pushed only while it is armed,
\* when its count is still 0, and SA_RESETHAND disarms it in the same step.
LEMMA NextIInv ==
  ASSUME IInv, [Next]_vars
  PROVE  IInv'
<1>1. CASE Install
  <2>1. TypeOK' /\ UNCHANGED <<stack, entries>>
    BY <1>1, InstallShape
  <2>2. StackShape' /\ ActivationsCounted' /\ ActivationsDistinct'
    BY <2>1 DEF IInv, StackShape, ActivationsCounted, ActivationsDistinct
  <2>3. ArmedOnce'
    <3>. SUFFICES ASSUME NEW s \in Signals
                  PROVE  /\ entries[s] <= 1
                         /\ disposition'[s] = "panic_handler" => entries[s] = 0
                         /\ \A n \in 1..Len(InstallOrder) :
                              s = InstallOrder[n] /\ n > installed' =>
                                entries[s] = 0 /\ disposition'[s] = "SIG_DFL"
      BY <2>1 DEF ArmedOnce
    <3>1. CASE s = InstallOrder[installed']
      <4>1. \A n \in 1..Len(InstallOrder) : s = InstallOrder[n] => n = installed'
        BY <1>1, <3>1, InstallShape, ConstantsAssumption
      <4>. QED
        BY <1>1, <3>1, <4>1, InstallShape
    <3>2. CASE s # InstallOrder[installed']
      <4>1. disposition'[s] = disposition[s]
        BY <1>1, <3>2, InstallShape DEF IInv, TypeOK
      <4>2. installed \in 0..Len(InstallOrder) /\ installed' = installed + 1
        BY <1>1, InstallShape DEF IInv, TypeOK
      <4>. QED
        BY <4>1, <4>2 DEF IInv, ArmedOnce
    <3>. QED
      BY <3>1, <3>2
  <2>. QED
    BY <2>1, <2>2, <2>3 DEF IInv
<1>2. ASSUME NEW t \in Threads, Advances(t)
      PROVE  IInv'
  <2>1. TypeOK'
    BY <1>2, AdvanceShape DEF IInv
  <2>2. StackShape'
    BY <1>2, AdvanceShape DEF IInv, StackShape
  <2>3. ArmedOnce'
    BY <1>2, AdvanceShape DEF IInv, ArmedOnce
  <2>4. ActivationsCounted'
    BY <1>2, AdvanceShape DEF IInv, ActivationsCounted
  <2>5. ActivationsDistinct'
    <3>. SUFFICES ASSUME NEW x \in Signals, NEW u \in Threads, NEW v \in Threads,
                         NEW d \in 1..Len(stack'[u]), NEW e \in 1..Len(stack'[v]),
                         stack'[u][d].sig = x, stack'[v][e].sig = x
                  PROVE  u = v /\ d = e
      BY DEF ActivationsDistinct
    <3>1. /\ d \in 1..Len(stack[u]) /\ stack[u][d].sig = x
          /\ e \in 1..Len(stack[v]) /\ stack[v][e].sig = x
      BY <1>2, AdvanceShape DEF IInv
    <3>. QED
      BY <3>1 DEF IInv, ActivationsDistinct
  <2>. QED
    BY <2>1, <2>2, <2>3, <2>4, <2>5 DEF IInv
<1>3. ASSUME NEW t \in Threads, Return(t)
      PROVE  IInv'
  <2>1. \A u \in Threads :
          /\ Len(stack'[u]) \in Nat /\ Len(stack[u]) \in Nat
          /\ Len(stack'[u]) <= Len(stack[u])
          /\ \A d \in 1..Len(stack'[u]) : stack'[u][d] = stack[u][d]
    <3>. SUFFICES ASSUME NEW u \in Threads
                  PROVE  /\ Len(stack'[u]) \in Nat /\ Len(stack[u]) \in Nat
                         /\ Len(stack'[u]) <= Len(stack[u])
                         /\ \A d \in 1..Len(stack'[u]) : stack'[u][d] = stack[u][d]
      OBVIOUS
    <3>1. Len(stack[u]) \in Nat /\ Len(stack[t]) \in Nat
      BY DEF IInv, TypeOK
    <3>2. CASE u = t
      BY <1>3, <3>1, <3>2, ReturnShape DEF IInv
    <3>3. CASE u # t
      BY <1>3, <3>1, <3>3, ReturnShape DEF IInv
    <3>. QED
      BY <3>2, <3>3
  <2>2. StackShape'
    BY <2>1 DEF IInv, StackShape
  <2>3. ArmedOnce'
    BY <1>3, ReturnShape DEF IInv, ArmedOnce
  <2>4. ActivationsCounted'
    BY <1>3, <2>1, ReturnShape DEF IInv, ActivationsCounted
  <2>5. ActivationsDistinct'
    <3>. SUFFICES ASSUME NEW x \in Signals, NEW u \in Threads, NEW v \in Threads,
                         NEW d \in 1..Len(stack'[u]), NEW e \in 1..Len(stack'[v]),
                         stack'[u][d].sig = x, stack'[v][e].sig = x
                  PROVE  u = v /\ d = e
      BY DEF ActivationsDistinct
    <3>1. /\ d \in 1..Len(stack[u]) /\ stack[u][d].sig = x
          /\ e \in 1..Len(stack[v]) /\ stack[v][e].sig = x
      BY <2>1
    <3>. QED
      BY <3>1 DEF IInv, ActivationsDistinct
  <2>. QED
    BY <1>3, <2>2, <2>3, <2>4, <2>5, ReturnShape DEF IInv
<1>4. ASSUME NEW t \in Threads, NEW s \in Signals, Pushes(t, s)
      PROVE  IInv'
  <2>. DEFINE n == Len(stack[t])
  <2>1. n \in Nat \ {0} /\ Len(stack'[t]) = n + 1 /\ s # None
    <3>1. stack[t] \in Seq(Contexts) \ {<<>>}
      BY DEF IInv, TypeOK
    <3>2. n \in Nat \ {0}
      BY <3>1
    <3>3. Len(stack'[t]) = n + 1
      BY <1>4, PushShape DEF IInv
    <3>4. s # None
      BY ConstantsAssumption
    <3>. QED
      BY <3>2, <3>3, <3>4
  <2>2. /\ stack'[t][n + 1].sig = s
        /\ stack'[t][n + 1].pc = "header"
        /\ stack'[t][n + 1].i = 0
    <3>1. stack'[t][n + 1] = HandlerContext(s)
      BY <1>4, PushShape
    <3>. QED
      BY <3>1 DEF HandlerContext, UserContext
  <2>3. \A u \in Threads : \A d \in 1..Len(stack'[u]) :
          \/ u = t /\ d = n + 1
          \/ /\ d \in 1..Len(stack[u])
             /\ stack'[u][d].sig = stack[u][d].sig
             /\ stack'[u][d].pc = stack[u][d].pc
             /\ stack'[u][d].i = stack[u][d].i
    BY <1>4, <2>1, PushShape
  <2>4. \A u \in Threads : \A d \in 1..Len(stack[u]) : stack[u][d].sig # s
    BY <1>4 DEF Pushes, IInv, ArmedOnce, ActivationsCounted
  <2>5. StackShape'
    <3>. SUFFICES ASSUME NEW u \in Threads, NEW d \in 1..Len(stack'[u])
                  PROVE  /\ stack'[u][d].sig = None <=> d = 1
                         /\ stack'[u][d].pc = "run" <=> d = 1
                         /\ stack'[u][d].pc = "header" => stack'[u][d].i <= 3
      BY DEF StackShape
    <3>1. CASE u = t /\ d = n + 1
      BY <3>1, <2>1, <2>2
    <3>2. CASE /\ d \in 1..Len(stack[u])
               /\ stack'[u][d].sig = stack[u][d].sig
               /\ stack'[u][d].pc = stack[u][d].pc
               /\ stack'[u][d].i = stack[u][d].i
      <4>. HIDE DEF n
      <4>. QED  BY <3>2 DEF IInv, StackShape
    <3>. QED
      BY <2>3, <3>1, <3>2
  <2>6. ArmedOnce'
    <3>1. \A m \in 1..Len(InstallOrder) : s = InstallOrder[m] => ~(m > installed)
      BY <1>4 DEF Pushes, IInv, ArmedOnce
    <3>2. installed' = installed
      BY <1>4 DEF Pushes
    <3>. QED
      BY <1>4, <3>1, <3>2, PushShape DEF IInv, ArmedOnce
  <2>7. ActivationsCounted'
    <3>. SUFFICES ASSUME NEW u \in Threads, NEW d \in 1..Len(stack'[u]),
                         NEW x \in Signals, stack'[u][d].sig = x
                  PROVE  entries'[x] = 1
      BY DEF ActivationsCounted
    <3>1. CASE x = s
      BY <1>4, <3>1, PushShape
    <3>2. CASE x # s
      <4>1. d \in 1..Len(stack[u]) /\ stack[u][d].sig = x
        BY <2>2, <2>3, <3>2
      <4>2. entries'[x] = entries[x]
        BY <1>4, <3>2, PushShape
      <4>. QED
        BY <4>1, <4>2 DEF IInv, ActivationsCounted
    <3>. QED
      BY <3>1, <3>2
  <2>8. ActivationsDistinct'
    <3>. SUFFICES ASSUME NEW x \in Signals, NEW u \in Threads, NEW v \in Threads,
                         NEW d \in 1..Len(stack'[u]), NEW e \in 1..Len(stack'[v]),
                         stack'[u][d].sig = x, stack'[v][e].sig = x
                  PROVE  u = v /\ d = e
      BY DEF ActivationsDistinct
    <3>1. CASE x = s
      <4>0. \A w \in Threads : \A f \in 1..Len(stack'[w]) :
              stack'[w][f].sig = s => w = t /\ f = n + 1
        <5>. SUFFICES ASSUME NEW w \in Threads, NEW f \in 1..Len(stack'[w]),
                             stack'[w][f].sig = s, ~(w = t /\ f = n + 1)
                      PROVE  FALSE
          OBVIOUS
        <5>1. f \in 1..Len(stack[w]) /\ stack[w][f].sig = s
          BY <2>3
        <5>. QED
          BY <2>4, <5>1
      <4>1. u = t /\ d = n + 1
        BY <3>1, <4>0
      <4>2. v = t /\ e = n + 1
        BY <3>1, <4>0
      <4>. QED
        BY <4>1, <4>2
    <3>2. CASE x # s
      <4>1. /\ d \in 1..Len(stack[u]) /\ stack[u][d].sig = x
            /\ e \in 1..Len(stack[v]) /\ stack[v][e].sig = x
        BY <2>2, <2>3, <3>2
      <4>. QED
        BY <4>1 DEF IInv, ActivationsDistinct
    <3>. QED
      BY <3>1, <3>2
  <2>. QED
    BY <1>4, <2>5, <2>6, <2>7, <2>8, PushShape DEF IInv
<1>5. ASSUME NEW s \in Signals, Kills(s)
      PROVE  IInv'
  <2>1. TypeOK'
    BY <1>5 DEF Kills, IInv, TypeOK
  <2>. QED
    BY <1>5, <2>1 DEF Kills, IInv, StackShape, ArmedOnce, ActivationsCounted,
                      ActivationsDistinct
<1>6. CASE UNCHANGED vars
  BY <1>6 DEF vars, IInv, TypeOK, StackShape, ArmedOnce, ActivationsCounted,
              ActivationsDistinct
<1>. QED
  BY <1>1, <1>2, <1>3, <1>4, <1>5, <1>6, StepShapes

\* The inductive invariant holds at every moment.
THEOREM Invariance == Spec => []IInv
<1>. QED
  BY InitIInv, NextIInv, PTL DEF Spec

\* The variables of the crash reporter keep their types.
THEOREM TypeCorrect == Spec => []TypeOK
<1>1. IInv => TypeOK
  BY DEF IInv
<1>. QED
  BY <1>1, Invariance, PTL

\* The handler runs at most once per signal, in one thread (panic.c:259).
THEOREM HandlerRunsOnce == Spec => []HandlerOnce
<1>1. IInv => HandlerOnce
  <2>. SUFFICES ASSUME IInv, NEW s \in Signals
                PROVE  entries[s] <= 1 /\ \A t, u \in Active(s) : t = u
    BY DEF HandlerOnce
  <2>1. s # None
    BY ConstantsAssumption
  <2>. QED
    BY <2>1 DEF IInv, ArmedOnce, ActivationsDistinct, Active, Blocked, Depth
<1>. QED
  BY <1>1, Invariance, PTL

-----------------------------------------------------------------------------
(* The refinement of CrashReport                                           *)

\* Only the activations of a signal that is pushed or popped change.
LEMMA ActiveUnchanged ==
  ASSUME NEW x \in Signals,
         \A t \in Threads :
           (\E d \in 1..Len(stack'[t]) : stack'[t][d].sig = x) <=>
           (\E d \in 1..Len(stack[t]) : stack[t][d].sig = x),
         entries'[x] = entries[x], disposition'[x] = disposition[x],
         killedBy' = killedBy
  PROVE  Stage(x)' = Stage(x)
<1>1. \A t \in Threads : x \in Blocked(t)' <=> x \in Blocked(t)
  BY DEF Blocked, Depth
<1>2. Active(x)' = Active(x)
  BY <1>1 DEF Active
<1>. QED
  BY <1>2 DEF Stage

\* Every step of the crash reporter is a step of CrashReport or a stutter.
LEMMA StepImplements ==
  ASSUME IInv, Next
  PROVE  [Abstract!AbsNext]_(Abstract!absVars)
<1>. USE DEF Abstract!absVars, Abstract!AbsNext, Abstract!Arm, Abstract!Enter,
             Abstract!Finish, Abstract!Die, Abstract!Move
<1>0. None \notin Signals
  BY ConstantsAssumption
<1>1. CASE Install
  <2>1. PICK s \in Signals :
          /\ disposition[s] = "SIG_DFL" /\ entries[s] = 0
          /\ disposition' = [disposition EXCEPT ![s] = "panic_handler"]
          /\ UNCHANGED <<stack, entries, killedBy>>
    BY <1>1, InstallShape
  <2>2. killedBy = None /\ killedBy' = None
    BY <1>1, <2>1 DEF Install
  <2>3. ASSUME NEW x \in Signals \ {s}
        PROVE  Stage(x)' = Stage(x)
    BY <2>1, <2>2, ActiveUnchanged DEF IInv, TypeOK
  <2>4. disposition'[s] = "panic_handler"
    BY <2>1 DEF IInv, TypeOK
  <2>5. Stage(s) = "unarmed" /\ Stage(s)' = "armed"
    BY <1>0, <2>1, <2>2, <2>4 DEF Stage
  <2>6. Abstract!Arm(s)
    BY <2>2, <2>3, <2>5
  <2>. QED
    BY <2>6
<1>2. ASSUME NEW t \in Threads, Advances(t)
      PROVE  UNCHANGED Abstract!absVars
  <2>1. \A x \in Signals : Stage(x)' = Stage(x)
    BY <1>2, AdvanceShape, ActiveUnchanged DEF IInv
  <2>. QED
    BY <1>2, <2>1, AdvanceShape DEF IInv
<1>3. ASSUME NEW t \in Threads, Return(t)
      PROVE  Abstract!AbsNext
  <2>0. Len(stack[t]) \in Nat \ {0, 1}
    BY <1>3, ReturnShape DEF IInv, TypeOK
  <2>1. PICK n \in Nat \ {0, 1} :
          /\ n = Len(stack[t])
          /\ Len(stack'[t]) = n - 1
          /\ \A u \in Threads \ {t} : stack'[u] = stack[u]
          /\ \A d \in 1..n - 1 : stack'[t][d] = stack[t][d]
          /\ UNCHANGED <<disposition, entries, killedBy>>
    BY <1>3, <2>0, ReturnShape DEF IInv
  <2>2. PICK s \in Signals : stack[t][n].sig = s
    <3>1. stack[t][n] \in Contexts
      BY <2>1 DEF IInv, TypeOK
    <3>2. stack[t][n].sig # None
      <4>1. n \in 1..Len(stack[t]) /\ n # 1
        BY <2>1
      <4>. QED
        BY <4>1 DEF IInv, StackShape
    <3>. QED
      BY <3>1, <3>2 DEF Contexts
  <2>3. \A u \in Threads : \A d \in 1..Len(stack[u]) :
          stack[u][d].sig = s => u = t /\ d = n
    BY <2>1, <2>2 DEF IInv, ActivationsDistinct
  <2>4. \A u \in Threads : \A d \in 1..Len(stack'[u]) :
          /\ d \in 1..Len(stack[u])
          /\ stack'[u][d] = stack[u][d]
          /\ ~(u = t /\ d = n)
    <3>. SUFFICES ASSUME NEW u \in Threads, NEW d \in 1..Len(stack'[u])
                  PROVE  /\ d \in 1..Len(stack[u])
                         /\ stack'[u][d] = stack[u][d]
                         /\ ~(u = t /\ d = n)
      OBVIOUS
    <3>1. CASE u = t
      BY <2>1, <3>1
    <3>2. CASE u # t
      BY <2>1, <3>2
    <3>. QED
      BY <3>1, <3>2
  <2>5. ASSUME NEW x \in Signals \ {s}
        PROVE  Stage(x)' = Stage(x)
    <3>. SUFFICES ASSUME NEW u \in Threads
                  PROVE  (\E d \in 1..Len(stack'[u]) : stack'[u][d].sig = x) <=>
                         (\E d \in 1..Len(stack[u]) : stack[u][d].sig = x)
      BY <2>1, ActiveUnchanged
    <3>1. ASSUME NEW d \in 1..Len(stack'[u]), stack'[u][d].sig = x
          PROVE  \E e \in 1..Len(stack[u]) : stack[u][e].sig = x
      BY <2>4, <3>1
    <3>2. ASSUME NEW d \in 1..Len(stack[u]), stack[u][d].sig = x
          PROVE  \E e \in 1..Len(stack'[u]) : stack'[u][e].sig = x
      <4>1. CASE u = t
        <5>1. d \in 1..n - 1
          BY <2>1, <2>2, <3>2, <4>1
        <5>. QED
          BY <2>1, <3>2, <4>1, <5>1
      <4>2. CASE u # t
        BY <2>1, <3>2, <4>2
      <4>. QED
        BY <4>1, <4>2
    <3>. QED
      BY <3>1, <3>2
  <2>6. Active(s) # {}
    BY <2>1, <2>2 DEF Active, Blocked, Depth
  <2>7. \A u \in Threads : s \notin Blocked(u)'
    BY <2>3, <2>4 DEF Blocked, Depth
  <2>8. entries[s] = 1 /\ disposition[s] # "panic_handler"
    BY <2>1, <2>2 DEF IInv, ActivationsCounted, ArmedOnce
  <2>11. killedBy = None /\ killedBy' = None
    BY <1>3, <2>1 DEF Return, At
  <2>9. Stage(s) = "running"
    BY <1>0, <2>6, <2>8, <2>11 DEF Stage
  <2>10. Stage(s)' = "done"
    BY <1>0, <2>1, <2>7, <2>8, <2>11 DEF Stage, Active
  <2>12. Abstract!Finish(s)
    BY <2>5, <2>9, <2>10, <2>11
  <2>. QED
    BY <2>12
<1>4. ASSUME NEW t \in Threads, NEW s \in Signals, Pushes(t, s)
      PROVE  Abstract!AbsNext
  <2>. DEFINE n == Len(stack[t])
  <2>1. /\ n \in Nat /\ Len(stack'[t]) = n + 1
        /\ \A u \in Threads \ {t} : stack'[u] = stack[u]
        /\ \A d \in 1..n : stack'[t][d].sig = stack[t][d].sig
        /\ stack'[t][n + 1].sig = s
    <3>1. n \in Nat
      BY DEF IInv, TypeOK
    <3>2. HandlerContext(s).sig = s
      BY DEF HandlerContext, UserContext
    <3>. QED
      BY <1>4, <3>1, <3>2, PushShape
  <2>2. /\ entries'[s] = 1 /\ disposition'[s] = "SIG_DFL"
        /\ disposition[s] = "panic_handler"
        /\ killedBy = None /\ killedBy' = None
        /\ \A x \in Signals \ {s} :
             entries'[x] = entries[x] /\ disposition'[x] = disposition[x]
    BY <1>4, PushShape DEF Pushes
  <2>6. ASSUME NEW x \in Signals \ {s}
        PROVE  Stage(x)' = Stage(x)
    <3>. SUFFICES ASSUME NEW u \in Threads
                  PROVE  (\E d \in 1..Len(stack'[u]) : stack'[u][d].sig = x) <=>
                         (\E d \in 1..Len(stack[u]) : stack[u][d].sig = x)
      BY <2>2, ActiveUnchanged
    <3>1. ASSUME NEW d \in 1..Len(stack'[u]), stack'[u][d].sig = x
          PROVE  \E e \in 1..Len(stack[u]) : stack[u][e].sig = x
      <4>1. CASE u = t
        <5>1. d \in 1..n
          BY <2>1, <3>1, <4>1
        <5>. QED
          BY <2>1, <3>1, <4>1, <5>1
      <4>2. CASE u # t
        BY <2>1, <3>1, <4>2
      <4>. QED
        BY <4>1, <4>2
    <3>2. ASSUME NEW d \in 1..Len(stack[u]), stack[u][d].sig = x
          PROVE  \E e \in 1..Len(stack'[u]) : stack'[u][e].sig = x
      <4>1. CASE u = t
        <5>1. d \in 1..n + 1 /\ stack'[t][d].sig = x
          BY <2>1, <3>2, <4>1
        <5>. QED
          BY <2>1, <4>1, <5>1
      <4>2. CASE u # t
        BY <2>1, <3>2, <4>2
      <4>. QED
        BY <4>1, <4>2
    <3>. QED
      BY <3>1, <3>2
  <2>3. Active(s)' # {}
    BY <2>1 DEF Active, Blocked, Depth
  <2>4. Stage(s) = "armed" /\ Stage(s)' = "running"
    BY <1>0, <2>2, <2>3 DEF Stage
  <2>5. Abstract!Enter(s)
    BY <2>2, <2>4, <2>6
  <2>. QED
    BY <2>5
<1>5. ASSUME NEW s \in Signals, Kills(s)
      PROVE  Abstract!AbsNext
  <2>1. \A x \in Signals \ {s} : Stage(x)' = Stage(x)
    BY <1>0, <1>5 DEF Kills, Stage, Active, Blocked, Depth
  <2>2. Stage(s) # "armed" /\ Stage(s)' = "killer"
    BY <1>0, <1>5 DEF Kills, Stage
  <2>3. killedBy = None /\ killedBy' # None
    BY <1>5, ConstantsAssumption DEF Kills
  <2>4. Abstract!Die(s)
    BY <2>1, <2>2, <2>3
  <2>. QED
    BY <2>4
<1>6. CASE UNCHANGED vars
  BY <1>6 DEF vars, Stage, Active, Blocked, Depth
<1>. QED
  BY <1>1, <1>2, <1>3, <1>4, <1>5, <1>6, StepShapes

\* The crash reporter implements CrashReport: the signal that kills the process
\* is never one that is still armed, whatever the other signals are, and a
\* report runs once, from its entry to its return.
THEOREM Refinement == Spec => ImplementsCrashReport
<1>1. Init => Abstract!AbsInit
  BY ConstantsAssumption DEF Init, Abstract!AbsInit, Stage
<1>2. IInv /\ [Next]_vars => [Abstract!AbsNext]_(Abstract!absVars)
  <2>1. CASE UNCHANGED vars
    BY <2>1 DEF vars, Stage, Active, Blocked, Depth, Abstract!absVars
  <2>. QED
    BY <2>1, StepImplements
<1>. QED
  BY <1>1, <1>2, Invariance, PTL DEF Spec, ImplementsCrashReport, Abstract!AbsSpec


-----------------------------------------------------------------------------
(* The reports                                                             *)

\* How far the report r of the activation c has come.
Progress(c, r) ==
  /\ WellFormed(r)
  /\ c.pc = "header" => Len(r) = c.i
  /\ c.pc \in {"getcontext", "init_registers", "search", "registers"} => Len(r) = 4
  /\ c.pc = "init_backtrace" => Len(r) = 5 /\ r[5].kind = "REGISTERS"
  /\ c.pc = "backtrace" =>
       Len(r) = 6 + c.i /\ r[Len(r)].kind \in {"BACKTRACE", "FRAME", "MARKED"}
  /\ c.pc = "end" => Len(r) > 4 /\ r[Len(r)].kind # "END"
  /\ c.pc = "return" => Complete(r)

\* Frame f is the first of the program in the stack that was captured.
First(walk, f) == walk.low[f + 1] /\ \A k \in 1..f : ~walk.low[k]

\* The search has found that frame, if it is within the limit.
Chosen(c) ==
  \A f \in 0..BACKTRACE_LIMIT - 1 :
    f < Len(c.walk.low) => (First(c.walk, f) <=> f = c.index)

\* What the activation c knows of the stack.
Knows(c) ==
  /\ c.pc \in {"init_registers", "search", "registers", "init_backtrace", "backtrace"} =>
       c.walk \in Walks
  /\ c.pc = "search" =>
       /\ c.i < BACKTRACE_LIMIT
       /\ \A k \in 1..Len(c.walk.low) : k <= c.i => ~c.walk.low[k]
  /\ c.pc = "registers" => Chosen(c)

\* What it has shown of the stack in r.
Shown(c, r) ==
  /\ Len(r) > 4 /\ r[5].kind = "REGISTERS" =>
       /\ c.walk \in Walks /\ Chosen(c)
       /\ r[5].frame = IF c.index = BACKTRACE_LIMIT THEN 0 ELSE c.index
  /\ \A k \in 1..Len(r) : r[k].kind \in {"FRAME", "MARKED"} =>
       /\ r[k].frame < BACKTRACE_LIMIT /\ r[k].frame < Len(c.walk.low)
       /\ r[k].kind = "MARKED" <=> r[k].frame = c.index

Reported(c, r) == Progress(c, r) /\ Knows(c) /\ Shown(c, r)

\* What the reports are while their handlers run, and at every moment.
ActivationsReported ==
  \A t \in Threads : \A d \in 1..Len(stack[t]) :
    stack[t][d].sig # None => Reported(stack[t][d], report[stack[t][d].sig])

SignalsReported ==
  \A s \in Signals :
    /\ WellFormed(report[s])
    /\ entries[s] = 0 => report[s] = <<>>
    /\ entries[s] > 0 /\ Active(s) = {} => Complete(report[s])

ReportInv == ActivationsReported /\ SignalsReported

-----------------------------------------------------------------------------
(* A line is written                                                       *)

LEMMA Appended ==
  ASSUME NEW r \in Seq(Lines), NEW l \in Lines
  PROVE  /\ r \o <<l>> \in Seq(Lines)
         /\ Len(r) \in Nat
         /\ Len(r \o <<l>>) = Len(r) + 1
         /\ \A k \in 1..Len(r) : (r \o <<l>>)[k] = r[k]
         /\ (r \o <<l>>)[Len(r) + 1] = l
  OBVIOUS

LEMMA NothingAppended ==
  ASSUME NEW r \in Seq(Lines)
  PROVE  r \o <<>> = r
  OBVIOUS

\* The line l may follow r.
Fits(r, l) ==
  LET last == r[Len(r)].kind
  IN /\ Len(r) < 4 => l.kind = Header[Len(r) + 1]
     /\ Len(r) = 4 => l.kind \in {"ERROR", "REGISTERS"}
     /\ Len(r) > 4 =>
          \/ Len(r) = 5 /\ last = "REGISTERS" /\ l.kind = "BACKTRACE"
          \/ /\ Len(r) > 5 /\ last \in {"BACKTRACE", "FRAME", "MARKED"}
             /\ l.kind \in {"FRAME", "MARKED"} /\ l.frame = Len(r) - 6
          \/ /\ last \in {"REGISTERS", "BACKTRACE", "FRAME", "MARKED"}
             /\ l.kind = "ERROR"
          \/ last # "END" /\ l.kind = "END"

\* A report stays well formed with a line that may follow it.
LEMMA StaysWellFormed ==
  ASSUME NEW r \in Seq(Lines), NEW l \in Lines, WellFormed(r), Fits(r, l)
  PROVE  WellFormed(r \o <<l>>)
<1>. DEFINE q == r \o <<l>>
            n == Len(r)
<1>1. /\ n \in Nat /\ Len(q) = n + 1 /\ q[n + 1] = l
      /\ \A k \in 1..n : q[k] = r[k]
  BY Appended, Zenon
<1>2. n > 5 => r[n].kind # "END"
  BY <1>1 DEF Fits
<1>. HIDE DEF q
<1>3. ASSUME NEW k \in 1..n
      PROVE  InPlace(q, k)
  <2>1. CASE k <= 5
    BY <1>1, <2>1 DEF WellFormed, InPlace
  <2>2. CASE k > 5
    <3>1. q[k] = r[k] /\ q[k - 1] = r[k - 1]
      BY <1>1, <2>2
    <3>2. InPlace(r, k) /\ (k = n => r[k].kind # "END")
      BY <1>1, <1>2, <2>2 DEF WellFormed
    <3>. QED
      BY <1>1, <2>2, <3>1, <3>2 DEF InPlace
  <2>. QED
    BY <1>1, <2>1, <2>2
<1>4. InPlace(q, n + 1)
  <2>1. CASE n < 4
    <3>1. l.kind = Header[n + 1]
      BY <2>1 DEF Fits
    <3>. HIDE DEF n
    <3>. QED
      BY <1>1, <2>1, <3>1 DEF InPlace
  <2>2. CASE n = 4
    <3>1. l.kind \in {"ERROR", "REGISTERS"}
      BY <2>2 DEF Fits
    <3>. HIDE DEF n
    <3>2. n + 1 = 5 /\ q[5] = l
      BY <1>1, <2>2
    <3>3. InPlace(q, 5)
      BY <3>1, <3>2 DEF InPlace
    <3>. QED
      BY <3>2, <3>3
  <2>3. CASE n > 4
    <3>. DEFINE m == n + 1
    <3>1. /\ m \in Nat /\ m > 5 /\ Len(q) = m /\ q[m] = l /\ q[m - 1] = r[n]
      BY <1>1, <2>3
    <3>2. \/ n = 5 /\ r[n].kind = "REGISTERS" /\ l.kind = "BACKTRACE"
          \/ /\ n > 5 /\ r[n].kind \in {"BACKTRACE", "FRAME", "MARKED"}
             /\ l.kind \in {"FRAME", "MARKED"} /\ l.frame = n - 6
          \/ /\ r[n].kind \in {"REGISTERS", "BACKTRACE", "FRAME", "MARKED"}
             /\ l.kind = "ERROR"
          \/ l.kind = "END"
      BY <2>3 DEF Fits
    <3>. HIDE DEF n
    <3>3. m = n + 1 /\ (n = 5 => m = 6) /\ n - 6 = m - 7
      BY <1>1
    <3>. HIDE DEF m
    <3>4. InPlace(q, m)
      BY <3>1, <3>2, <3>3 DEF InPlace
    <3>. QED
      BY <3>3, <3>4, Zenon
  <2>. HIDE DEF n
  <2>. QED
    BY <1>1, <2>1, <2>2, <2>3
<1>5. WellFormed(q)
  BY <1>1, <1>3, <1>4 DEF WellFormed
<1>. QED
  BY <1>5 DEF q

\* Nothing of the stack is shown by the header, or by what is not about frames.
LEMMA HeaderShowsNothing ==
  ASSUME NEW c, NEW r \in Seq(Lines), WellFormed(r), Len(r) <= 4
  PROVE  Shown(c, r)
  BY DEF Shown, WellFormed, InPlace, Header

LEMMA StaysShown ==
  ASSUME NEW c, NEW d, NEW r \in Seq(Lines), NEW l \in Lines,
         Shown(c, r), d.walk = c.walk, d.index = c.index,
         l.kind \notin {"REGISTERS", "FRAME", "MARKED"}
  PROVE  Shown(d, r \o <<l>>)
<1>. DEFINE q == r \o <<l>>
            n == Len(r)
<1>1. /\ n \in Nat /\ Len(q) = n + 1 /\ q[n + 1] = l
      /\ \A k \in 1..n : q[k] = r[k]
  BY Appended, Zenon
<1>2. Chosen(c) => Chosen(d)
  BY DEF Chosen
<1>. HIDE DEF q
<1>3. Len(q) > 4 /\ q[5].kind = "REGISTERS" => n > 4 /\ r[5] = q[5]
  BY <1>1
<1>4. ASSUME NEW k \in 1..n + 1, q[k].kind \in {"FRAME", "MARKED"}
      PROVE  k \in 1..n /\ q[k] = r[k]
  BY <1>1, <1>4
<1>5. Shown(d, q)
  BY <1>1, <1>2, <1>3, <1>4 DEF Shown
<1>. QED
  BY <1>5 DEF q

\* The registers of the frame that was found.
LEMMA RegistersShown ==
  ASSUME NEW c, NEW r \in Seq(Lines), NEW l \in Lines, WellFormed(r), Len(r) = 4,
         l.kind = "REGISTERS", c.walk \in Walks, Chosen(c),
         l.frame = IF c.index = BACKTRACE_LIMIT THEN 0 ELSE c.index
  PROVE  Shown(c, r \o <<l>>)
<1>. DEFINE q == r \o <<l>>
            n == Len(r)
<1>0. /\ n \in Nat /\ Len(q) = n + 1 /\ q[n + 1] = l
      /\ \A k \in 1..n : q[k] = r[k]
  BY Appended, Zenon
<1>. HIDE DEF q
<1>1. /\ Len(q) = 5 /\ q[5] = l
      /\ \A k \in 1..4 : q[k] = r[k]
  BY <1>0
<1>2. \A k \in 1..4 : q[k].kind \notin {"FRAME", "MARKED"}
  BY <1>1 DEF WellFormed, InPlace, Header
<1>3. Shown(c, q)
  BY <1>1, <1>2 DEF Shown
<1>. QED
  BY <1>3 DEF q

\* The next frame, marked if it is that one.
LEMMA FrameShown ==
  ASSUME NEW c \in Contexts, NEW d, NEW r \in Seq(Lines), NEW l \in Lines,
         Shown(c, r), d.walk = c.walk, d.index = c.index, Len(r) > 4,
         l.kind = FrameKind(c), l.frame = c.i,
         c.i < BACKTRACE_LIMIT, c.i < Len(c.walk.low)
  PROVE  Shown(d, r \o <<l>>)
<1>. DEFINE q == r \o <<l>>
            n == Len(r)
<1>1. /\ n \in Nat /\ Len(q) = n + 1 /\ q[n + 1] = l
      /\ \A k \in 1..n : q[k] = r[k]
  BY Appended, Zenon
<1>2. Chosen(c) => Chosen(d)
  BY DEF Chosen
<1>. HIDE DEF q
<1>3. /\ Len(q) > 4 /\ q[5] = r[5]
  BY <1>1
<1>4. ASSUME NEW k \in 1..n + 1, q[k].kind \in {"FRAME", "MARKED"}
      PROVE  /\ q[k].frame < BACKTRACE_LIMIT /\ q[k].frame < Len(d.walk.low)
             /\ q[k].kind = "MARKED" <=> q[k].frame = d.index
  <2>1. CASE k \in 1..n
    BY <1>1, <1>4, <2>1 DEF Shown
  <2>2. CASE k = n + 1
    BY <1>1, <2>2 DEF FrameKind
  <2>. QED
    BY <1>1, <2>1, <2>2
<1>5. Shown(d, q)
  BY <1>1, <1>2, <1>3, <1>4 DEF Shown
<1>. QED
  BY <1>5 DEF q

-----------------------------------------------------------------------------
(* The steps of an activation: it was c, and is d afterwards               *)

LEMMA HeaderReported ==
  ASSUME NEW c \in Contexts, NEW d \in Contexts, NEW r \in Seq(Lines), NEW l \in Lines,
         Reported(c, r), c.pc = "header", c.i <= 3, l.kind = Header[c.i + 1],
         IF c.i = 3 THEN d.pc = "getcontext" ELSE d.pc = "header" /\ d.i = c.i + 1
  PROVE  Reported(d, r \o <<l>>)
<1>. DEFINE q == r \o <<l>>
<1>1. Progress(c, r) /\ WellFormed(r)
  BY DEF Reported, Progress
<1>2. c.i \in 0..3 /\ Len(r) = c.i
  BY <1>1 DEF Progress, Contexts
<1>3. q \in Seq(Lines) /\ Len(r) \in Nat /\ Len(q) = Len(r) + 1
  BY Appended, Zenon
<1>4. Fits(r, l)
  BY <1>2, <1>3 DEF Fits
<1>5. WellFormed(q)
  BY <1>1, <1>4, StaysWellFormed, Zenon
<1>. HIDE DEF q
<1>6. Shown(d, q)
  <2>1. Len(q) <= 4
    BY <1>2, <1>3
  <2>. QED
    BY <1>3, <1>5, <2>1, HeaderShowsNothing, Zenon
<1>7. Progress(d, q) /\ Knows(d)
  BY <1>2, <1>3, <1>5 DEF Progress, Knows
<1>8. Reported(d, q)
  BY <1>6, <1>7 DEF Reported
<1>. QED
  BY <1>8 DEF q

LEMMA ErrorReported ==
  ASSUME NEW c \in Contexts, NEW d \in Contexts, NEW r \in Seq(Lines), NEW l \in Lines,
         Reported(c, r), d.walk = c.walk, d.index = c.index, l.kind = "ERROR",
         \/ c.pc = "getcontext" /\ d.pc = "return"
         \/ /\ c.pc \in {"init_registers", "search", "init_backtrace", "backtrace"}
            /\ d.pc = "end"
  PROVE  Reported(d, r \o <<l>>)
<1>. DEFINE q == r \o <<l>>
            n == Len(r)
<1>1. Progress(c, r) /\ WellFormed(r) /\ Shown(c, r)
  BY DEF Reported, Progress
<1>2. \/ c.pc # "init_backtrace" /\ c.pc # "backtrace" /\ n = 4
      \/ n > 4 /\ r[n].kind \in {"REGISTERS", "BACKTRACE", "FRAME", "MARKED"}
           /\ d.pc = "end"
  BY <1>1 DEF Progress, Contexts
<1>3. n \in Nat /\ q \in Seq(Lines) /\ Len(q) = n + 1 /\ q[n + 1] = l
      /\ \A k \in 1..n : q[k] = r[k]
  BY Appended, Zenon
<1>4. Fits(r, l)
  <2>1. CASE n = 4
    BY <1>3, <2>1 DEF Fits
  <2>2. CASE n > 4
    <3>1. r[n].kind \in {"REGISTERS", "BACKTRACE", "FRAME", "MARKED"}
      BY <1>2, <2>2
    <3>. QED
      BY <1>3, <2>2, <3>1 DEF Fits
  <2>. QED
    BY <1>2, <2>1, <2>2
<1>5. WellFormed(q)
  BY <1>1, <1>4, StaysWellFormed, Zenon
<1>6. Shown(d, q)
  BY <1>1, StaysShown, Zenon
<1>. HIDE DEF q
<1>7. Progress(d, q) /\ Knows(d)
  BY <1>2, <1>3, <1>5 DEF Progress, Knows, Complete
<1>8. Reported(d, q)
  BY <1>6, <1>7 DEF Reported
<1>. QED
  BY <1>8 DEF q

LEMMA RegistersReported ==
  ASSUME NEW c \in Contexts, NEW d \in Contexts, NEW r \in Seq(Lines), NEW l \in Lines,
         Reported(c, r), d.walk = c.walk, d.index = c.index,
         c.pc = "registers", d.pc = "init_backtrace", l.kind = "REGISTERS",
         l.frame = IF c.index = BACKTRACE_LIMIT THEN 0 ELSE c.index
  PROVE  Reported(d, r \o <<l>>)
<1>. DEFINE q == r \o <<l>>
            n == Len(r)
<1>1. Progress(c, r) /\ WellFormed(r) /\ Knows(c)
  BY DEF Reported, Progress
<1>2. Len(r) = 4 /\ c.walk \in Walks /\ Chosen(c)
  BY <1>1 DEF Progress, Knows
<1>3. n \in Nat /\ q \in Seq(Lines) /\ Len(q) = n + 1 /\ q[n + 1] = l
      /\ \A k \in 1..n : q[k] = r[k]
  BY Appended, Zenon
<1>4. Fits(r, l)
  BY <1>2, <1>3 DEF Fits
<1>5. WellFormed(q)
  BY <1>1, <1>4, StaysWellFormed, Zenon
<1>6. /\ Chosen(d) /\ d.walk \in Walks
      /\ l.frame = IF d.index = BACKTRACE_LIMIT THEN 0 ELSE d.index
  BY <1>2 DEF Chosen
<1>7. Shown(d, q)
  BY <1>1, <1>2, <1>6, RegistersShown, Zenon
<1>. HIDE DEF q
<1>8. Progress(d, q) /\ Knows(d)
  BY <1>2, <1>3, <1>5 DEF Progress, Knows
<1>9. Reported(d, q)
  BY <1>7, <1>8 DEF Reported
<1>. QED
  BY <1>9 DEF q

LEMMA BacktraceReported ==
  ASSUME NEW c \in Contexts, NEW d \in Contexts, NEW r \in Seq(Lines), NEW l \in Lines,
         Reported(c, r), d.walk = c.walk, d.index = c.index,
         c.pc = "init_backtrace", d.pc = "backtrace", d.i = 0, l.kind = "BACKTRACE"
  PROVE  Reported(d, r \o <<l>>)
<1>. DEFINE q == r \o <<l>>
            n == Len(r)
<1>1. Progress(c, r) /\ WellFormed(r) /\ Knows(c) /\ Shown(c, r)
  BY DEF Reported, Progress
<1>2. Len(r) = 5 /\ r[5].kind = "REGISTERS" /\ c.walk \in Walks
  BY <1>1 DEF Progress, Knows
<1>3. n \in Nat /\ q \in Seq(Lines) /\ Len(q) = n + 1 /\ q[n + 1] = l
      /\ \A k \in 1..n : q[k] = r[k]
  BY Appended, Zenon
<1>4. Fits(r, l)
  BY <1>2, <1>3 DEF Fits
<1>5. WellFormed(q)
  BY <1>1, <1>4, StaysWellFormed, Zenon
<1>6. Shown(d, q)
  BY <1>1, StaysShown, Zenon
<1>. HIDE DEF q
<1>7. Progress(d, q) /\ Knows(d)
  BY <1>2, <1>3, <1>5 DEF Progress, Knows
<1>8. Reported(d, q)
  BY <1>6, <1>7 DEF Reported
<1>. QED
  BY <1>8 DEF q

LEMMA FrameReported ==
  ASSUME NEW c \in Contexts, NEW d \in Contexts, NEW r \in Seq(Lines), NEW l \in Lines,
         Reported(c, r), d.walk = c.walk, d.index = c.index,
         c.pc = "backtrace", d.pc = "backtrace", d.i = c.i + 1,
         l.kind = FrameKind(c), l.frame = c.i,
         c.i < BACKTRACE_LIMIT, c.i < Len(c.walk.low)
  PROVE  Reported(d, r \o <<l>>)
<1>. DEFINE q == r \o <<l>>
            n == Len(r)
<1>1. Progress(c, r) /\ WellFormed(r) /\ Knows(c) /\ Shown(c, r)
  BY DEF Reported, Progress
<1>2. /\ c.i \in Nat /\ n = 6 + c.i /\ c.walk \in Walks
      /\ r[n].kind \in {"BACKTRACE", "FRAME", "MARKED"}
      /\ l.kind \in {"FRAME", "MARKED"}
  BY <1>1 DEF Progress, Knows, Contexts, FrameKind
<1>3. n \in Nat /\ q \in Seq(Lines) /\ Len(q) = n + 1 /\ q[n + 1] = l
      /\ \A k \in 1..n : q[k] = r[k]
  BY Appended, Zenon
<1>4. Fits(r, l)
  BY <1>2, <1>3 DEF Fits
<1>5. WellFormed(q)
  BY <1>1, <1>4, StaysWellFormed, Zenon
<1>6. Shown(d, q)
  BY <1>1, <1>2, FrameShown
<1>. HIDE DEF q
<1>7. Progress(d, q) /\ Knows(d)
  BY <1>2, <1>3, <1>5 DEF Progress, Knows
<1>8. Reported(d, q)
  BY <1>6, <1>7 DEF Reported
<1>. QED
  BY <1>8 DEF q

LEMMA EndReported ==
  ASSUME NEW c \in Contexts, NEW d \in Contexts, NEW r \in Seq(Lines), NEW l \in Lines,
         Reported(c, r), d.walk = c.walk, d.index = c.index,
         c.pc = "end", d.pc = "return", l.kind = "END"
  PROVE  Reported(d, r \o <<l>>)
<1>. DEFINE q == r \o <<l>>
            n == Len(r)
<1>1. Progress(c, r) /\ WellFormed(r) /\ Shown(c, r)
  BY DEF Reported, Progress
<1>2. n > 4 /\ r[n].kind # "END"
  BY <1>1 DEF Progress
<1>3. n \in Nat /\ q \in Seq(Lines) /\ Len(q) = n + 1 /\ q[n + 1] = l
  BY Appended, Zenon
<1>4. Fits(r, l)
  BY <1>2, <1>3 DEF Fits
<1>5. WellFormed(q)
  BY <1>1, <1>4, StaysWellFormed, Zenon
<1>6. Shown(d, q)
  BY <1>1, StaysShown, Zenon
<1>. HIDE DEF q
<1>7. Progress(d, q) /\ Knows(d)
  BY <1>2, <1>3, <1>5 DEF Progress, Knows, Complete
<1>8. Reported(d, q)
  BY <1>6, <1>7 DEF Reported
<1>. QED
  BY <1>8 DEF q

\* Steps that write nothing: a stack is captured, the search begins, it goes on to
\* the next frame, it ends, and so does the backtrace.
LEMMA CaptureReported ==
  ASSUME NEW c \in Contexts, NEW d \in Contexts, NEW r \in Seq(Lines), Reported(c, r),
         c.pc = "getcontext", d.pc = "init_registers", d.walk \in Walks
  PROVE  Reported(d, r)
<1>0. Len(r) \in Nat
  OBVIOUS
<1>1. Progress(d, r) /\ Knows(d) /\ WellFormed(r) /\ Len(r) = 4
  BY DEF Reported, Progress, Knows
<1>2. Shown(d, r)
  <2>1. Len(r) <= 4
    BY <1>0, <1>1
  <2>. QED
    BY <1>1, <2>1, HeaderShowsNothing, Zenon
<1>. QED
  BY <1>1, <1>2 DEF Reported

LEMMA SearchReported ==
  ASSUME NEW c \in Contexts, NEW d \in Contexts, NEW r \in Seq(Lines), Reported(c, r),
         d.walk = c.walk, d.pc = "search",
         \/ c.pc = "init_registers" /\ d.i = 0
         \/ /\ c.pc = "search" /\ ~LikelyFrame(c.walk, c.i)
            /\ d.i = c.i + 1 /\ d.i # BACKTRACE_LIMIT
  PROVE  Reported(d, r)
<1>0. Len(r) \in Nat
  OBVIOUS
<1>1. Progress(d, r) /\ WellFormed(r) /\ Len(r) = 4
  BY DEF Reported, Progress
<1>2. /\ c.walk \in Walks /\ c.i \in Nat /\ BACKTRACE_LIMIT \in Nat \ {0}
      /\ Len(c.walk.low) \in Nat
  BY ConstantsAssumption DEF Reported, Knows, Contexts, WalkType
<1>3. Shown(d, r)
  <2>1. Len(r) <= 4
    BY <1>0, <1>1
  <2>. QED
    BY <1>1, <2>1, HeaderShowsNothing, Zenon
<1>4. CASE c.pc = "init_registers"
  <2>1. Knows(d)
    BY <1>2, <1>4 DEF Knows
  <2>. QED
    BY <1>3, <1>1, <2>1 DEF Reported
<1>5. CASE c.pc = "search"
  <2>1. d.i < BACKTRACE_LIMIT
    BY <1>2, <1>5 DEF Reported, Knows
  <2>2. \A k \in 1..Len(c.walk.low) : k <= c.i + 1 => ~c.walk.low[k]
    BY <1>2, <1>5 DEF Reported, Knows, LikelyFrame
  <2>3. Knows(d)
    BY <1>2, <1>5, <2>1, <2>2 DEF Knows
  <2>. QED
    BY <1>3, <1>1, <2>3 DEF Reported
<1>. QED
  BY <1>4, <1>5

LEMMA FoundReported ==
  ASSUME NEW c \in Contexts, NEW d \in Contexts, NEW r \in Seq(Lines), Reported(c, r),
         d.walk = c.walk, c.pc = "search", d.pc = "registers",
         \/ LikelyFrame(c.walk, c.i) /\ d.index = c.i
         \/ /\ ~LikelyFrame(c.walk, c.i) /\ c.i + 1 = BACKTRACE_LIMIT
            /\ d.index = BACKTRACE_LIMIT
  PROVE  Reported(d, r)
<1>0. Len(r) \in Nat
  OBVIOUS
<1>1. Progress(d, r) /\ WellFormed(r) /\ Len(r) = 4
  BY DEF Reported, Progress
<1>2. /\ c.walk \in Walks /\ c.i \in Nat /\ BACKTRACE_LIMIT \in Nat \ {0}
      /\ Len(c.walk.low) \in Nat /\ c.i < BACKTRACE_LIMIT
      /\ \A k \in 1..Len(c.walk.low) : k <= c.i => ~c.walk.low[k]
  BY ConstantsAssumption DEF Reported, Knows, Contexts, WalkType
<1>3. ASSUME NEW f \in 0..BACKTRACE_LIMIT - 1, f < Len(c.walk.low)
      PROVE  First(c.walk, f) <=> f = d.index
  <2>1. CASE f < c.i
    BY <1>2, <1>3, <2>1 DEF First
  <2>2. CASE f = c.i
    BY <1>2, <1>3, <2>2 DEF First, LikelyFrame
  <2>3. CASE f > c.i
    BY <1>2, <1>3, <2>3 DEF First, LikelyFrame
  <2>. QED
    BY <1>2, <2>1, <2>2, <2>3
<1>4. Chosen(d)
  BY <1>3 DEF Chosen
<1>5. Shown(d, r)
  <2>1. Len(r) <= 4
    BY <1>0, <1>1
  <2>. QED
    BY <1>1, <2>1, HeaderShowsNothing, Zenon
<1>6. Knows(d)
  BY <1>2, <1>4 DEF Knows
<1>. QED
  BY <1>1, <1>5, <1>6 DEF Reported

LEMMA FramesReported ==
  ASSUME NEW c \in Contexts, NEW d \in Contexts, NEW r \in Seq(Lines), Reported(c, r),
         d.walk = c.walk, d.index = c.index, c.pc = "backtrace", d.pc = "end"
  PROVE  Reported(d, r)
<1>1. Progress(d, r) /\ Knows(d)
  BY DEF Reported, Progress, Knows, Contexts
<1>2. Shown(d, r)
  BY DEF Reported, Shown, Chosen
<1>. QED
  BY <1>1, <1>2 DEF Reported

-----------------------------------------------------------------------------
(* The steps of the handler                                                *)

\* The innermost activation of t goes on, and what it has written is reported.
Reports(t) ==
  \E c \in Contexts, lines \in Seq(Lines) :
    /\ c.sig = Top(t).sig
    /\ Advance(t, c, lines)
    /\ Reported(c, report[c.sig] \o lines)

LEMMA LineReports ==
  ASSUME NEW t \in Threads, NEW d \in Contexts, NEW l \in Lines,
         d.sig = Top(t).sig, Reported(d, report[d.sig] \o <<l>>),
         Advance(t, d, <<l>>)
  PROVE  Reports(t)
<1>1. <<l>> \in Seq(Lines)
  OBVIOUS
<1>. QED
  BY <1>1, Zenon DEF Reports

LEMMA SilenceReports ==
  ASSUME TypeOK, NEW t \in Threads, NEW d \in Contexts, d.sig \in Signals,
         d.sig = Top(t).sig, Reported(d, report[d.sig]), Advance(t, d, <<>>)
  PROVE  Reports(t)
<1>1. <<>> \in Seq(Lines) /\ report[d.sig] \in Seq(Lines)
  BY DEF TypeOK
<1>2. report[d.sig] \o <<>> = report[d.sig]
  BY <1>1, NothingAppended, Zenon
<1>. QED
  BY <1>1, <1>2, Zenon DEF Reports

\* An activation of the handler: where it may be, and what it may become.
LEMMA TopReported ==
  ASSUME TypeOK, StackShape, ActivationsReported, NEW t \in Threads, Top(t).pc # "run"
  PROVE  /\ Top(t) \in Contexts /\ Top(t).sig \in Signals
         /\ report[Top(t).sig] \in Seq(Lines)
         /\ Reported(Top(t), report[Top(t).sig])
         /\ Top(t).pc = "header" => Top(t).i <= 3
         /\ Top(t).i \in Nat /\ Top(t).index \in Nat
<1>1. Depth(t) \in 1..Len(stack[t]) /\ Top(t) \in Contexts
  BY DEF TypeOK, Depth, Top
<1>2. Top(t).sig # None /\ (Top(t).pc = "header" => Top(t).i <= 3)
  BY <1>1 DEF StackShape, Top
<1>3. Top(t).sig \in Signals /\ Top(t).i \in Nat /\ Top(t).index \in Nat
  BY <1>1, <1>2 DEF Contexts
<1>4. Reported(Top(t), report[Top(t).sig])
  BY <1>1, <1>2 DEF ActivationsReported, Top
<1>. QED
  BY <1>1, <1>2, <1>3, <1>4 DEF TypeOK

LEMMA Movements ==
  ASSUME NEW t \in Threads, Top(t) \in Contexts
  PROVE  /\ \A pc \in PCs :
              /\ Goto(t, pc) \in Contexts
              /\ Goto(t, pc).pc = pc /\ Goto(t, pc).i = 0
              /\ Goto(t, pc).sig = Top(t).sig
              /\ Goto(t, pc).walk = Top(t).walk
              /\ Goto(t, pc).index = Top(t).index
         /\ Loop(t) \in Contexts
         /\ Loop(t).pc = Top(t).pc /\ Loop(t).i = Top(t).i + 1
         /\ Loop(t).sig = Top(t).sig
         /\ Loop(t).walk = Top(t).walk
         /\ Loop(t).index = Top(t).index
         /\ \A index \in Nat :
              /\ Found(t, index) \in Contexts
              /\ Found(t, index).pc = "registers"
              /\ Found(t, index).sig = Top(t).sig
              /\ Found(t, index).walk = Top(t).walk
              /\ Found(t, index).index = index
         /\ \A walk \in Walks :
              LET d == [Goto(t, "init_registers") EXCEPT !.walk = walk]
              IN /\ d \in Contexts /\ d.pc = "init_registers"
                 /\ d.sig = Top(t).sig /\ d.walk = walk
<1>. DEFINE c == Top(t)
<1>1. ASSUME NEW pc \in PCs
      PROVE  /\ Goto(t, pc) \in Contexts
             /\ Goto(t, pc).pc = pc /\ Goto(t, pc).i = 0
             /\ Goto(t, pc).sig = c.sig
             /\ Goto(t, pc).walk = c.walk
             /\ Goto(t, pc).index = c.index
  BY DEF Goto, Contexts
<1>2. /\ Loop(t) \in Contexts
      /\ Loop(t).pc = c.pc /\ Loop(t).i = c.i + 1
      /\ Loop(t).sig = c.sig
      /\ Loop(t).walk = c.walk
      /\ Loop(t).index = c.index
  BY DEF Loop, Contexts
<1>3. "registers" \in PCs /\ "init_registers" \in PCs
  BY DEF PCs
<1>4. ASSUME NEW index \in Nat
      PROVE  /\ Found(t, index) \in Contexts
             /\ Found(t, index).pc = "registers"
             /\ Found(t, index).sig = c.sig
             /\ Found(t, index).walk = c.walk
             /\ Found(t, index).index = index
  BY <1>1, <1>3 DEF Found, Contexts
<1>5. ASSUME NEW walk \in Walks
      PROVE  LET d == [Goto(t, "init_registers") EXCEPT !.walk = walk]
             IN /\ d \in Contexts /\ d.pc = "init_registers"
                /\ d.sig = c.sig /\ d.walk = walk
  BY <1>1, <1>3 DEF Contexts
<1>. QED
  BY <1>1, <1>2, <1>4, <1>5

LEMMA AllLines ==
  /\ \A kind \in Kinds, frame \in Nat :
       /\ Line(kind, frame) \in Lines
       /\ Line(kind, frame).kind = kind /\ Line(kind, frame).frame = frame
  /\ Error = <<Line("ERROR", 0)>>
  /\ {"ERROR", "REGISTERS", "BACKTRACE", "FRAME", "MARKED", "END"} \subseteq Kinds
  BY DEF Line, Lines, Kinds, Error

\* An error is reported where a libunwind call can fail.
LEMMA ErrorReports ==
  ASSUME NEW t \in Threads, NEW pc \in PCs, Top(t) \in Contexts, Top(t).sig \in Signals,
         report[Top(t).sig] \in Seq(Lines), Reported(Top(t), report[Top(t).sig]),
         \/ Top(t).pc = "getcontext" /\ pc = "return"
         \/ /\ Top(t).pc \in {"init_registers", "search", "init_backtrace", "backtrace"}
            /\ pc = "end",
         Advance(t, Goto(t, pc), Error)
  PROVE  Reports(t)
<1>. DEFINE c == Top(t)
            d == Goto(t, pc)
            l == Line("ERROR", 0)
            r == report[c.sig]
<1>1. /\ d \in Contexts /\ d.pc = pc /\ d.sig = c.sig
      /\ d.walk = c.walk /\ d.index = c.index
  BY Movements, Zenon
<1>2. l \in Lines /\ l.kind = "ERROR" /\ Advance(t, d, <<l>>)
  BY AllLines
<1>3. Reported(d, r \o <<l>>)
  <2>. HIDE DEF c, d, l, r
  <2>. QED
    BY <1>1, <1>2, ErrorReported DEF c, d, r
<1>. QED
  BY <1>1, <1>2, <1>3, LineReports, Zenon

\* The steps of panic.c:192-254 that stay in the handler keep its report right.
LEMMA HandlerReports ==
  ASSUME TypeOK, StackShape, ActivationsReported, NEW t \in Threads,
         HandlerStep(t), ~Return(t)
  PROVE  Reports(t)
<1>. DEFINE c == Top(t)
            r == report[c.sig]
<1>0. c.pc # "run"
  BY DEF HandlerStep, PrintHeader, GetContext, InitRegisters, SearchFrame,
         PrintRegisters, InitBacktrace, PrintFrame, PrintEnd, At
<1>1. /\ c \in Contexts /\ c.sig \in Signals /\ r \in Seq(Lines) /\ Reported(c, r)
      /\ c.pc = "header" => c.i <= 3
      /\ c.i \in Nat /\ c.index \in Nat
  BY <1>0, TopReported, Zenon
<1>2. /\ \A pc \in PCs :
           /\ Goto(t, pc) \in Contexts
           /\ Goto(t, pc).pc = pc /\ Goto(t, pc).i = 0
           /\ Goto(t, pc).sig = c.sig
           /\ Goto(t, pc).walk = c.walk
           /\ Goto(t, pc).index = c.index
      /\ Loop(t) \in Contexts
      /\ Loop(t).pc = c.pc /\ Loop(t).i = c.i + 1
      /\ Loop(t).sig = c.sig
      /\ Loop(t).walk = c.walk
      /\ Loop(t).index = c.index
  BY <1>1, Movements, Zenon
<1>3. {"getcontext", "init_registers", "search", "init_backtrace", "backtrace",
       "end", "return"} \subseteq PCs
  BY DEF PCs
<1>4. ASSUME NEW pc \in PCs, Advance(t, Goto(t, pc), Error),
             \/ c.pc = "getcontext" /\ pc = "return"
             \/ /\ c.pc \in {"init_registers", "search", "init_backtrace", "backtrace"}
                /\ pc = "end"
      PROVE  Reports(t)
  BY <1>1, <1>4, ErrorReports, Zenon
<1>5. ASSUME NEW d \in Contexts, NEW kind \in Kinds, NEW frame \in Nat,
             d.sig = c.sig, Advance(t, d, <<Line(kind, frame)>>),
             Reported(d, r \o <<Line(kind, frame)>>)
      PROVE  Reports(t)
  BY <1>5, AllLines, LineReports, Zenon
<1>6. ASSUME NEW d \in Contexts, d.sig = c.sig, Advance(t, d, <<>>), Reported(d, r)
      PROVE  Reports(t)
  BY <1>1, <1>6, SilenceReports, Zenon
<1>. HIDE DEF c, r
<1>7. CASE PrintHeader(t)
  <2>. DEFINE d == IF c.i = 3 THEN Goto(t, "getcontext") ELSE Loop(t)
              l == Line(Header[c.i + 1], 0)
  <2>1. c.pc = "header" /\ Advance(t, d, <<l>>)
    BY <1>7 DEF PrintHeader, At, c
  <2>2. Header[c.i + 1] \in Kinds
    BY <1>1, <2>1 DEF Header, Kinds
  <2>3. l \in Lines /\ l.kind = Header[c.i + 1]
    BY <2>2, AllLines
  <2>4. /\ d \in Contexts /\ d.sig = c.sig
        /\ IF c.i = 3 THEN d.pc = "getcontext" ELSE d.pc = "header" /\ d.i = c.i + 1
    BY <1>2, <1>3, <2>1
  <2>5. Reported(d, r \o <<l>>)
    <3>. HIDE DEF d, l
    <3>. QED
      BY <1>1, <2>1, <2>3, <2>4, HeaderReported, Zenon
  <2>. QED
    BY <1>5, <2>1, <2>2, <2>4, <2>5
<1>8. CASE GetContext(t)
  <2>1. CASE Advance(t, Goto(t, "return"), Error)
    BY <1>3, <1>4, <1>8, <2>1 DEF GetContext, At, c
  <2>2. ASSUME NEW walk \in Walks,
               Advance(t, [Goto(t, "init_registers") EXCEPT !.walk = walk], <<>>)
        PROVE  Reports(t)
    <3>. DEFINE d == [Goto(t, "init_registers") EXCEPT !.walk = walk]
    <3>1. d \in Contexts /\ d.pc = "init_registers" /\ d.sig = c.sig /\ d.walk = walk
      BY <1>1, Movements DEF c
    <3>2. c.pc = "getcontext"
      BY <1>8 DEF GetContext, At, c
    <3>3. Advance(t, d, <<>>)
      BY <2>2
    <3>. HIDE DEF d
    <3>4. Reported(d, r)
      BY <1>1, <3>1, <3>2, CaptureReported
    <3>. QED
      BY <1>6, <3>1, <3>3, <3>4
  <2>. QED
    BY <1>8, <2>1, <2>2 DEF GetContext
<1>9. CASE InitRegisters(t)
  <2>1. c.pc = "init_registers"
    BY <1>9 DEF InitRegisters, At, c
  <2>2. CASE Advance(t, Goto(t, "search"), <<>>)
    <3>1. Reported(Goto(t, "search"), r)
      BY <1>1, <1>2, <1>3, <2>1, SearchReported
    <3>. QED
      BY <1>2, <1>3, <1>6, <2>2, <3>1
  <2>. QED
    BY <1>3, <1>4, <1>9, <2>1, <2>2 DEF InitRegisters
<1>10. CASE SearchFrame(t)
  <2>1. c.pc = "search" /\ BACKTRACE_LIMIT \in Nat
    BY <1>10, ConstantsAssumption DEF SearchFrame, At, c
  <2>2. CASE Advance(t, Goto(t, "end"), Error)
    BY <1>3, <1>4, <2>1, <2>2
  <2>3. ASSUME NEW index \in Nat, Advance(t, Found(t, index), <<>>),
               \/ LikelyFrame(c.walk, c.i) /\ index = c.i
               \/ /\ ~LikelyFrame(c.walk, c.i) /\ c.i + 1 = BACKTRACE_LIMIT
                  /\ index = BACKTRACE_LIMIT
        PROVE  Reports(t)
    <3>. DEFINE d == Found(t, index)
    <3>1. /\ d \in Contexts /\ d.pc = "registers" /\ d.sig = c.sig
          /\ d.walk = c.walk /\ d.index = index /\ Advance(t, d, <<>>)
      BY <1>1, <2>3, Movements DEF c
    <3>. HIDE DEF d
    <3>2. Reported(d, r)
      BY <1>1, <2>1, <2>3, <3>1, FoundReported
    <3>. QED
      BY <1>6, <3>1, <3>2
  <2>4. CASE ~LikelyFrame(c.walk, c.i) /\ c.i + 1 # BACKTRACE_LIMIT /\ Advance(t, Loop(t), <<>>)
    <3>1. Reported(Loop(t), r)
      BY <1>1, <1>2, <2>1, <2>4, SearchReported
    <3>. QED
      BY <1>2, <1>6, <2>4, <3>1
  <2>5. \/ Advance(t, Goto(t, "end"), Error)
        \/ LikelyFrame(c.walk, c.i) /\ Advance(t, Found(t, c.i), <<>>)
        \/ ~LikelyFrame(c.walk, c.i) /\ Advance(t, KeepSearching(t), <<>>)
    BY <1>10, Zenon DEF SearchFrame, c
  <2>6. KeepSearching(t) = IF c.i + 1 = BACKTRACE_LIMIT
                           THEN Found(t, BACKTRACE_LIMIT) ELSE Loop(t)
    BY DEF KeepSearching, c
  <2>. QED
    BY <1>1, <2>1, <2>2, <2>3, <2>4, <2>5, <2>6
<1>11. CASE PrintRegisters(t)
  <2>. DEFINE d == Goto(t, "init_backtrace")
              frame == IF c.index = BACKTRACE_LIMIT THEN 0 ELSE c.index
              l == Line("REGISTERS", frame)
  <2>1. c.pc = "registers" /\ Advance(t, d, <<l>>)
    BY <1>11 DEF PrintRegisters, At, c
  <2>2. frame \in Nat
    BY <1>1
  <2>3. l \in Lines /\ l.kind = "REGISTERS" /\ l.frame = frame /\ "REGISTERS" \in Kinds
    BY <2>2, AllLines
  <2>4. /\ d \in Contexts /\ d.pc = "init_backtrace" /\ d.sig = c.sig
        /\ d.walk = c.walk /\ d.index = c.index
    BY <1>2, <1>3
  <2>5. Reported(d, r \o <<l>>)
    <3>. HIDE DEF d, l
    <3>. QED
      BY <1>1, <2>1, <2>3, <2>4, RegistersReported
  <2>. QED
    BY <1>5, <2>1, <2>2, <2>3, <2>4, <2>5
<1>12. CASE InitBacktrace(t)
  <2>1. c.pc = "init_backtrace"
    BY <1>12 DEF InitBacktrace, At, c
  <2>2. CASE Advance(t, Goto(t, "backtrace"), <<Line("BACKTRACE", 0)>>)
    <3>1. Line("BACKTRACE", 0) \in Lines /\ Line("BACKTRACE", 0).kind = "BACKTRACE"
          /\ "BACKTRACE" \in Kinds
      BY AllLines
    <3>2. Reported(Goto(t, "backtrace"), r \o <<Line("BACKTRACE", 0)>>)
      BY <1>1, <1>2, <1>3, <2>1, <3>1, BacktraceReported
    <3>. QED
      BY <1>2, <1>3, <1>5, <2>2, <3>1, <3>2
  <2>. QED
    BY <1>3, <1>4, <1>12, <2>1, <2>2 DEF InitBacktrace
<1>13. CASE PrintFrame(t)
  <2>1. c.pc = "backtrace" /\ BACKTRACE_LIMIT \in Nat
    BY <1>13, ConstantsAssumption DEF PrintFrame, At, c
  <2>2. CASE Advance(t, Goto(t, "end"), <<>>)
    <3>1. Reported(Goto(t, "end"), r)
      BY <1>1, <1>2, <1>3, <2>1, FramesReported
    <3>. QED
      BY <1>2, <1>3, <1>6, <2>2, <3>1
  <2>3. CASE Advance(t, Goto(t, "end"), Error)
    BY <1>3, <1>4, <2>1, <2>3
  <2>4. CASE /\ c.i < BACKTRACE_LIMIT /\ UnwStep(c.walk, c.i) > 0
             /\ Advance(t, Loop(t), <<Line(FrameKind(c), c.i)>>)
    <3>. DEFINE l == Line(FrameKind(c), c.i)
    <3>1. FrameKind(c) \in Kinds
      BY AllLines DEF FrameKind
    <3>2. l \in Lines /\ l.kind = FrameKind(c) /\ l.frame = c.i
      BY <1>1, <3>1, AllLines
    <3>3. c.i < Len(c.walk.low)
      BY <2>4 DEF UnwStep
    <3>4. Reported(Loop(t), r \o <<l>>)
      <4>. HIDE DEF l
      <4>. QED
        BY <1>1, <1>2, <2>1, <2>4, <3>2, <3>3, FrameReported
    <3>. QED
      BY <1>1, <1>2, <1>5, <2>4, <3>1, <3>4
  <2>5. \/ Advance(t, Goto(t, "end"), <<>>)
        \/ Advance(t, Goto(t, "end"), Error)
        \/ /\ c.i < BACKTRACE_LIMIT /\ UnwStep(c.walk, c.i) > 0
           /\ Advance(t, Loop(t), <<Line(FrameKind(c), c.i)>>)
    BY <1>13, Zenon DEF PrintFrame, c
  <2>. QED
    BY <2>2, <2>3, <2>4, <2>5
<1>14. CASE PrintEnd(t)
  <2>1. c.pc = "end" /\ Advance(t, Goto(t, "return"), <<Line("END", 0)>>)
    BY <1>14 DEF PrintEnd, At, c
  <2>2. Line("END", 0) \in Lines /\ Line("END", 0).kind = "END" /\ "END" \in Kinds
    BY AllLines
  <2>3. Reported(Goto(t, "return"), r \o <<Line("END", 0)>>)
    BY <1>1, <1>2, <1>3, <2>1, <2>2, EndReported
  <2>. QED
    BY <1>2, <1>3, <1>5, <2>1, <2>2, <2>3
<1>. QED
  BY <1>7, <1>8, <1>9, <1>10, <1>11, <1>12, <1>13, <1>14 DEF HandlerStep

-----------------------------------------------------------------------------
(* The reports of all activations                                          *)

\* What is reported of an activation does not depend on its pending fault.
LEMMA SameReported ==
  ASSUME NEW c, NEW d, NEW r, Reported(c, r),
         d.pc = c.pc, d.i = c.i, d.walk = c.walk, d.index = c.index
  PROVE  Reported(d, r)
<1>1. Progress(d, r)
  BY DEF Reported, Progress
<1>2. Chosen(c) <=> Chosen(d)
  BY DEF Chosen
<1>3. Knows(d)
  BY <1>2 DEF Reported, Knows
<1>4. Shown(d, r)
  BY <1>2 DEF Reported, Shown
<1>. QED
  BY <1>1, <1>3, <1>4 DEF Reported

LEMMA EntryReported ==
  ASSUME NEW s \in Signals
  PROVE  Reported(HandlerContext(s), <<>>)
<1>1. HandlerContext(s).pc = "header" /\ HandlerContext(s).i = 0
  BY DEF HandlerContext, UserContext
<1>2. <<>> \in Seq(Lines) /\ Len(<<>>) = 0 /\ WellFormed(<<>>)
  BY DEF WellFormed
<1>3. Progress(HandlerContext(s), <<>>)
  BY <1>1, <1>2 DEF Progress
<1>4. Knows(HandlerContext(s))
  BY <1>1 DEF Knows
<1>5. Shown(HandlerContext(s), <<>>)
  BY <1>2 DEF Shown
<1>. QED
  BY <1>3, <1>4, <1>5 DEF Reported

LEMMA InitReportInv == Init => ReportInv
<1>. SUFFICES ASSUME Init PROVE ReportInv
  OBVIOUS
<1>1. \A t \in Threads : stack[t] = <<UserContext>>
  BY DEF Init
<1>2. ActivationsReported
  <2>. SUFFICES ASSUME NEW t \in Threads, NEW d \in 1..Len(stack[t])
                PROVE  stack[t][d].sig = None
    BY DEF ActivationsReported
  <2>1. stack[t] = <<UserContext>>
    BY <1>1
  <2>2. stack[t][d] = UserContext
    BY <2>1
  <2>. QED
    BY <2>2 DEF UserContext
<1>3. SignalsReported
  <2>1. WellFormed(<<>>)
    BY DEF WellFormed
  <2>. QED
    BY <2>1 DEF Init, SignalsReported
<1>. QED
  BY <1>2, <1>3 DEF ReportInv

\* The handler of a signal has returned or has not: only its own activation
\* being entered or left changes that.
LEMMA AdvanceReportInv ==
  ASSUME IInv, ReportInv, NEW t \in Threads, Advances(t), Reports(t)
  PROVE  ReportInv'
<1>1. PICK c \in Contexts, lines \in Seq(Lines) :
        /\ c.sig = Top(t).sig
        /\ Advance(t, c, lines)
        /\ Reported(c, report[c.sig] \o lines)
  BY DEF Reports
<1>. DEFINE n == Len(stack[t])
<1>2. n \in Nat \ {0} /\ n \in 1..Len(stack[t]) /\ stack[t] \in Seq(Contexts)
  BY DEF IInv, TypeOK
<1>3. Top(t) = stack[t][n] /\ Top(t).pc # "run"
  BY DEF Top, Depth, Advances
<1>4. c.sig \in Signals /\ c.sig # None
  BY <1>1, <1>2, <1>3, TopReported, ConstantsAssumption DEF IInv, ReportInv
<1>5. /\ stack' = [stack EXCEPT ![t][n] = c]
      /\ report' = [report EXCEPT ![c.sig] = @ \o lines]
      /\ UNCHANGED entries
  BY <1>1 DEF Advance, Depth
<1>6. /\ stack'[t] = [stack[t] EXCEPT ![n] = c]
      /\ \A u \in Threads \ {t} : stack'[u] = stack[u]
  BY <1>2, <1>5 DEF IInv, TypeOK
<1>7. /\ Len(stack'[t]) = n
      /\ \A d \in 1..n : stack'[t][d] = IF d = n THEN c ELSE stack[t][d]
  BY <1>2, <1>6, ExceptSeq
<1>8. /\ report'[c.sig] = report[c.sig] \o lines
      /\ \A s \in Signals \ {c.sig} : report'[s] = report[s]
  BY <1>4, <1>5 DEF IInv, TypeOK
<1>9. \A u \in Threads, d \in Nat :
        /\ d \in 1..Len(stack'[u]) <=> d \in 1..Len(stack[u])
        /\ d \in 1..Len(stack[u]) =>
             /\ stack'[u][d].sig = stack[u][d].sig
             /\ stack'[u][d] = stack[u][d] \/ (u = t /\ d = n /\ stack'[u][d] = c)
  BY <1>1, <1>3, <1>6, <1>7
<1>10. \A u \in Threads : \A d \in 1..Len(stack[u]) :
         stack[u][d].sig = c.sig => u = t /\ d = n
  BY <1>1, <1>2, <1>3, <1>4 DEF IInv, ActivationsDistinct
<1>11. ActivationsReported'
  <2>. SUFFICES ASSUME NEW u \in Threads, NEW d \in 1..Len(stack'[u]),
                       stack'[u][d].sig # None
                PROVE  Reported(stack'[u][d], report'[stack'[u][d].sig])
    BY DEF ActivationsReported
  <2>1. d \in 1..Len(stack[u]) /\ stack'[u][d].sig = stack[u][d].sig
    BY <1>9
  <2>2. CASE stack'[u][d] = c
    BY <1>1, <1>8, <2>2
  <2>3. CASE stack'[u][d] # c
    <3>1. stack'[u][d] = stack[u][d]
      BY <1>9, <2>1, <2>3
    <3>2. ~(u = t /\ d = n)
      BY <1>7, <2>3
    <3>3. stack[u][d].sig \in Signals \ {c.sig}
      <4>1. stack[u][d] \in Contexts
        BY <2>1 DEF IInv, TypeOK
      <4>. QED
        BY <1>10, <2>1, <3>2, <4>1 DEF Contexts
    <3>. QED
      BY <1>8, <2>1, <3>1, <3>3 DEF ReportInv, ActivationsReported
  <2>. QED
    BY <2>2, <2>3
<1>12. ASSUME NEW s \in Signals
       PROVE  Active(s)' = Active(s)
  <2>. SUFFICES ASSUME NEW u \in Threads
                PROVE  (\E d \in 1..Len(stack'[u]) : stack'[u][d].sig = s) <=>
                       (\E d \in 1..Len(stack[u]) : stack[u][d].sig = s)
    BY DEF Active, Blocked, Depth
  <2>. QED
    BY AdvanceShape DEF IInv
<1>13. SignalsReported'
  <2>. SUFFICES ASSUME NEW s \in Signals
                PROVE  /\ WellFormed(report'[s])
                       /\ entries'[s] = 0 => report'[s] = <<>>
                       /\ entries'[s] > 0 /\ Active(s)' = {} => Complete(report'[s])
    BY DEF SignalsReported
  <2>1. CASE s = c.sig
    <3>1. WellFormed(report'[s])
      BY <1>1, <1>8, <2>1 DEF Reported, Progress
    <3>2. t \in Active(s)
      BY <1>1, <1>2, <1>3, <2>1 DEF Active, Blocked, Depth
    <3>3. entries'[s] # 0
      BY <1>1, <1>2, <1>3, <1>5, <2>1 DEF IInv, ActivationsCounted
    <3>. QED
      BY <1>12, <3>1, <3>2, <3>3
  <2>2. CASE s # c.sig
    BY <1>5, <1>8, <1>12, <2>2 DEF ReportInv, SignalsReported
  <2>. QED
    BY <2>1, <2>2
<1>. QED
  BY <1>11, <1>13 DEF ReportInv

LEMMA PushReportInv ==
  ASSUME IInv, ReportInv, NEW t \in Threads, NEW s \in Signals, Pushes(t, s)
  PROVE  ReportInv'
<1>. DEFINE n == Len(stack[t])
<1>1. /\ n \in Nat /\ Len(stack'[t]) = n + 1
      /\ stack'[t][n + 1] = HandlerContext(s)
      /\ \A u \in Threads \ {t} : stack'[u] = stack[u]
      /\ \A d \in 1..n :
           /\ stack'[t][d].sig = stack[t][d].sig
           /\ stack'[t][d].pc = stack[t][d].pc
           /\ stack'[t][d].i = stack[t][d].i
           /\ stack'[t][d].walk = stack[t][d].walk
           /\ stack'[t][d].index = stack[t][d].index
      /\ \A x \in Signals : entries'[x] = IF x = s THEN 1 ELSE entries[x]
      /\ report' = report
  <2>1. n \in Nat
    BY DEF IInv, TypeOK
  <2>. QED
    BY <2>1, PushShape DEF Pushes
<1>2. HandlerContext(s).sig = s /\ s # None
  BY ConstantsAssumption DEF HandlerContext, UserContext
<1>3. report[s] = <<>>
  BY DEF Pushes, IInv, ArmedOnce, ReportInv, SignalsReported
<1>4. ActivationsReported'
  <2>. SUFFICES ASSUME NEW u \in Threads, NEW d \in 1..Len(stack'[u]),
                       stack'[u][d].sig # None
                PROVE  Reported(stack'[u][d], report'[stack'[u][d].sig])
    BY DEF ActivationsReported
  <2>1. CASE u = t /\ d = n + 1
    <3>1. stack'[u][d] = HandlerContext(s)
      BY <1>1, <2>1
    <3>. QED
      BY <1>1, <1>2, <1>3, <3>1, EntryReported
  <2>2. CASE ~(u = t /\ d = n + 1)
    <3>1. /\ d \in 1..Len(stack[u])
          /\ stack'[u][d].sig = stack[u][d].sig
          /\ stack'[u][d].pc = stack[u][d].pc
          /\ stack'[u][d].i = stack[u][d].i
          /\ stack'[u][d].walk = stack[u][d].walk
          /\ stack'[u][d].index = stack[u][d].index
      BY <1>1, <2>2
    <3>2. Reported(stack[u][d], report[stack[u][d].sig])
      BY <3>1 DEF ReportInv, ActivationsReported
    <3>. QED
      BY <1>1, <3>1, <3>2, SameReported
  <2>. QED
    BY <2>1, <2>2
<1>5. ASSUME NEW x \in Signals \ {s}
      PROVE  Active(x)' = Active(x)
  <2>. SUFFICES ASSUME NEW u \in Threads
                PROVE  (\E d \in 1..Len(stack'[u]) : stack'[u][d].sig = x) <=>
                       (\E d \in 1..Len(stack[u]) : stack[u][d].sig = x)
    BY DEF Active, Blocked, Depth
  <2>1. CASE u = t
    <3>1. ASSUME NEW d \in 1..n + 1, stack'[t][d].sig = x
          PROVE  d \in 1..n /\ stack[t][d].sig = x
      BY <1>1, <1>2, <3>1
    <3>2. ASSUME NEW d \in 1..n, stack[t][d].sig = x
          PROVE  d \in 1..n + 1 /\ stack'[t][d].sig = x
      BY <1>1, <3>2
    <3>. QED
      BY <1>1, <2>1, <3>1, <3>2
  <2>2. CASE u # t
    BY <1>1, <2>2
  <2>. QED
    BY <2>1, <2>2
<1>6. t \in Active(s)'
  BY <1>1, <1>2 DEF Active, Blocked, Depth
<1>7. SignalsReported'
  <2>. SUFFICES ASSUME NEW x \in Signals
                PROVE  /\ WellFormed(report'[x])
                       /\ entries'[x] = 0 => report'[x] = <<>>
                       /\ entries'[x] > 0 /\ Active(x)' = {} => Complete(report'[x])
    BY DEF SignalsReported
  <2>1. CASE x = s
    BY <1>1, <1>6, <2>1 DEF ReportInv, SignalsReported
  <2>2. CASE x # s
    BY <1>1, <1>5, <2>2 DEF ReportInv, SignalsReported
  <2>. QED
    BY <2>1, <2>2
<1>. QED
  BY <1>4, <1>7 DEF ReportInv

LEMMA ReturnReportInv ==
  ASSUME IInv, ReportInv, NEW t \in Threads, Return(t)
  PROVE  ReportInv'
<1>. DEFINE n == Len(stack[t])
<1>1. /\ n \in Nat /\ n > 1 /\ Len(stack'[t]) = n - 1
      /\ \A u \in Threads \ {t} : stack'[u] = stack[u]
      /\ \A d \in 1..n - 1 : stack'[t][d] = stack[t][d]
      /\ entries' = entries
      /\ report' = report
  <2>1. n \in Nat
    BY DEF IInv, TypeOK
  <2>. QED
    BY <2>1, ReturnShape DEF IInv, Return
<1>2. \A u \in Threads : \A d \in 1..Len(stack'[u]) :
        d \in 1..Len(stack[u]) /\ stack'[u][d] = stack[u][d]
  BY <1>1
<1>3. Top(t).pc = "return" /\ Top(t) = stack[t][n]
  BY DEF Return, At, Top, Depth
<1>4. Complete(report[stack[t][n].sig])
  BY <1>3, TopReported DEF IInv, ReportInv, Reported, Progress
<1>5. ActivationsReported'
  BY <1>1, <1>2 DEF ReportInv, ActivationsReported
<1>6. ASSUME NEW s \in Signals, stack[t][n].sig # s, Active(s)' = {}
      PROVE  Active(s) = {}
  <2>. SUFFICES ASSUME NEW u \in Threads, NEW d \in 1..Len(stack[u]),
                       stack[u][d].sig = s
                PROVE  \E e \in 1..Len(stack'[u]) : stack'[u][e].sig = s
    BY <1>6 DEF Active, Blocked, Depth
  <2>1. d \in 1..Len(stack'[u]) /\ stack'[u][d] = stack[u][d]
    BY <1>1, <1>6
  <2>. QED
    BY <2>1
<1>7. SignalsReported'
  <2>. SUFFICES ASSUME NEW s \in Signals
                PROVE  /\ WellFormed(report'[s])
                       /\ entries'[s] = 0 => report'[s] = <<>>
                       /\ entries'[s] > 0 /\ Active(s)' = {} => Complete(report'[s])
    BY DEF SignalsReported
  <2>1. CASE stack[t][n].sig = s
    BY <1>1, <1>4, <2>1 DEF ReportInv, SignalsReported
  <2>2. CASE stack[t][n].sig # s
    BY <1>1, <1>6, <2>2 DEF ReportInv, SignalsReported
  <2>. QED
    BY <2>1, <2>2
<1>. QED
  BY <1>5, <1>7 DEF ReportInv

LEMMA NextReportInv == IInv /\ ReportInv /\ [Next]_vars => ReportInv'
<1>. SUFFICES ASSUME IInv, ReportInv, [Next]_vars
              PROVE  ReportInv'
  OBVIOUS
<1>1. ASSUME UNCHANGED <<stack, report, entries>>
      PROVE  ReportInv'
  BY <1>1 DEF ReportInv, ActivationsReported, SignalsReported, Active, Blocked, Depth
<1>2. CASE Install
  BY <1>1, <1>2 DEF Install
<1>3. ASSUME NEW t \in Threads, HandlerStep(t)
      PROVE  ReportInv'
  BY <1>3, HandlerAdvances, HandlerReports, AdvanceReportInv, ReturnReportInv
  DEF IInv, ReportInv
<1>4. ASSUME NEW t \in Threads, NEW s \in Signals, Fault(t, s) \/ SendSignal(t, s)
      PROVE  ReportInv'
  BY <1>1, <1>4, DeliveryShapes, PushReportInv DEF Kills
<1>5. CASE Dead
  BY <1>1, <1>5 DEF Dead, vars
<1>6. CASE UNCHANGED vars
  BY <1>1, <1>6 DEF vars
<1>. QED
  BY <1>2, <1>3, <1>4, <1>5, <1>6 DEF Next

\* The reports and the activations agree at every moment.
THEOREM ReportsInvariance == Spec => []ReportInv
<1>. QED
  BY InitReportInv, NextReportInv, Invariance, PTL DEF Spec

\* However the activations of several threads interleave and nest, each report
\* follows the text of panic_handler (panic.c:192-254), and is complete once its
\* handler has returned.
THEOREM ReportsWellFormed == Spec => []ReportWellFormed
<1>1. ReportInv => ReportWellFormed
  BY DEF ReportInv, SignalsReported, ReportWellFormed
<1>. QED
  BY <1>1, ReportsInvariance, PTL

\* What an activation has shown of its stack is right.
LEMMA ShownIsRight ==
  ASSUME NEW c \in Contexts, NEW r \in Seq(Lines), WellFormed(r), Shown(c, r),
         NEW k \in 1..Len(r), r[k].kind \in {"FRAME", "MARKED"}
  PROVE  /\ (r[k].kind = "MARKED") <=> First(c.walk, r[k].frame)
         /\ First(c.walk, r[k].frame) =>
              \A m \in 1..Len(r) :
                r[m].kind = "REGISTERS" <=> r[m] = Line("REGISTERS", r[k].frame)
         /\ Len(r) > 4 /\ r[5].kind = "REGISTERS"
<1>. DEFINE n == Len(r)
            f == r[k].frame
<1>1. n \in Nat /\ k \in Nat /\ k <= n /\ (\A m \in 1..n : r[m] \in Lines)
  OBVIOUS
<1>2. k > 6
  <2>1. InPlace(r, k)
    BY DEF WellFormed
  <2>2. k > 4
    BY <1>1, <2>1 DEF InPlace, Header
  <2>3. 5 \in 1..n
    BY <1>1, <2>2
  <2>4. r[5].kind \in {"ERROR", "REGISTERS"}
    BY <2>3 DEF WellFormed, InPlace
  <2>5. k # 5
    BY <2>4
  <2>6. k # 6
    BY <2>1, <2>4 DEF InPlace
  <2>. QED
    BY <1>1, <2>2, <2>5, <2>6
<1>3. r[5].kind = "REGISTERS"
  <2>1. 5 \in 1..n /\ 6 \in 1..n /\ n # 6
    BY <1>1, <1>2
  <2>2. InPlace(r, 5) /\ InPlace(r, 6)
    BY <2>1 DEF WellFormed
  <2>3. r[5].kind \in {"ERROR", "REGISTERS"}
    BY <2>2 DEF InPlace
  <2>. QED
    BY <2>1, <2>2, <2>3 DEF InPlace
<1>4. /\ Chosen(c)
      /\ r[5].frame = IF c.index = BACKTRACE_LIMIT THEN 0 ELSE c.index
      /\ f < BACKTRACE_LIMIT /\ f < Len(c.walk.low)
      /\ r[k].kind = "MARKED" <=> f = c.index
  BY <1>1, <1>2, <1>3 DEF Shown
<1>5. f \in 0..BACKTRACE_LIMIT - 1
  BY <1>1, <1>4, ConstantsAssumption DEF Lines
<1>6. First(c.walk, f) <=> f = c.index
  BY <1>4, <1>5 DEF Chosen
<1>7. ASSUME NEW m \in 1..n, r[m].kind = "REGISTERS"
      PROVE  m = 5
  <2>1. InPlace(r, m) /\ m \in Nat
    BY <1>1 DEF WellFormed
  <2>2. m > 4
    BY <1>7, <2>1 DEF InPlace, Header
  <2>. QED
    BY <1>7, <2>1, <2>2 DEF InPlace
<1>8. f = c.index => r[5] = Line("REGISTERS", f)
  <2>1. r[5] \in Lines
    BY <1>1, <1>2
  <2>2. f = c.index => r[5].frame = f
    BY <1>4, <1>5, ConstantsAssumption
  <2>. HIDE DEF f
  <2>. QED
    BY <1>3, <2>1, <2>2 DEF Lines, Line
<1>9. Line("REGISTERS", f).kind = "REGISTERS"
  BY DEF Line
<1>. HIDE DEF f
<1>10. First(c.walk, f) =>
         \A m \in 1..n : r[m].kind = "REGISTERS" <=> r[m] = Line("REGISTERS", f)
  BY <1>6, <1>7, <1>8, <1>9
<1>11. (r[k].kind = "MARKED") <=> First(c.walk, f)
  BY <1>4, <1>6
<1>. QED
  BY <1>1, <1>2, <1>3, <1>10, <1>11 DEF f

\* The backtrace marks the frame whose registers were printed and no other, and
\* it is the innermost one of the program, if it is within the limit
\* (panic.c:111-134 and 165-187).
THEOREM MarksAreRight == Spec => []MarksLikelyFrame
<1>1. ASSUME IInv, ReportInv, NEW t \in Threads, NEW d \in 1..Depth(t),
             stack[t][d].sig # None
      PROVE  LET c == stack[t][d]
                 lines == {report[c.sig][k] : k \in 1..Len(report[c.sig])}
                 shown == {l \in lines : l.kind \in {"FRAME", "MARKED"}}
                 registers == {l \in lines : l.kind = "REGISTERS"}
             IN \A l \in shown :
                  /\ (l.kind = "MARKED") <=> First(c.walk, l.frame)
                  /\ First(c.walk, l.frame) =>
                       registers = {Line("REGISTERS", l.frame)}
  <2>. DEFINE c == stack[t][d]
              r == report[c.sig]
  <2>1. c \in Contexts /\ Reported(c, r)
    BY <1>1 DEF IInv, TypeOK, ReportInv, ActivationsReported, Depth
  <2>2. c.sig \in Signals
    BY <1>1, <2>1 DEF Contexts
  <2>3. r \in Seq(Lines) /\ WellFormed(r) /\ Shown(c, r)
    BY <1>1, <2>1, <2>2 DEF IInv, TypeOK, Reported, Progress
  <2>. HIDE DEF r
  <2>. HIDE DEF c
  <2>4. ASSUME NEW k \in 1..Len(r), r[k].kind \in {"FRAME", "MARKED"}
        PROVE  /\ (r[k].kind = "MARKED") <=> First(c.walk, r[k].frame)
               /\ First(c.walk, r[k].frame) =>
                    {l \in {r[m] : m \in 1..Len(r)} : l.kind = "REGISTERS"} =
                      {Line("REGISTERS", r[k].frame)}
    <3>1. /\ (r[k].kind = "MARKED") <=> First(c.walk, r[k].frame)
          /\ First(c.walk, r[k].frame) =>
               \A m \in 1..Len(r) :
                 r[m].kind = "REGISTERS" <=> r[m] = Line("REGISTERS", r[k].frame)
          /\ Len(r) > 4 /\ r[5].kind = "REGISTERS"
      BY <2>1, <2>3, <2>4, ShownIsRight
    <3>2. 5 \in 1..Len(r)
      BY <2>3, <3>1
    <3>. QED
      BY <3>1, <3>2
  <2>. QED
    BY <2>4 DEF c, r
<1>2. IInv /\ ReportInv => MarksLikelyFrame
  BY <1>1 DEF MarksLikelyFrame, First
<1>. QED
  BY <1>2, Invariance, ReportsInvariance, PTL

=============================================================================
