-------------------------------- MODULE Timer --------------------------------
(***************************************************************************)
(* Timed blocks: class Timer of plano's main.py, which bounds a `with`     *)
(* block by the one SIGALRM handler and the one interval timer of the      *)
(* process, and gives both back to the enclosing block when it ends.       *)
(*                                                                         *)
(* The model is the process as Python runs it: every signal.signal and     *)
(* setitimer call is a step, the kernel's alarm can come before, during or *)
(* after any of them, and the Python handler runs (raises PlanoTimeout)    *)
(* once the interrupted call has returned.  The interval timer and the     *)
(* interpreter are external.                                               *)
(***************************************************************************)
EXTENDS Integers, SequencesExt

CONSTANTS
  Timeouts,        \* the timeouts, in ticks, that blocks are given
  MaxTimers,       \* bound: timers started
  MaxClockSteps    \* bound: times the wall clock is set back

ASSUME TimerAssumption ==
  /\ Timeouts \subseteq Nat \ {0}
  /\ Timeouts # {}
  /\ MaxTimers \in Nat
  /\ MaxClockSteps \in Nat

VARIABLES
  blocks,          \* the timed blocks entered and not left, outermost first
  handler,         \* the SIGALRM handler: the timer it belongs to, or SIG_DFL
  itimer,          \* ticks until the alarm (0: due now), or Off
  tripped,         \* an alarm came and its Python handler has not run yet
  exc,             \* an exception is on its way out of the blocks
  killed,          \* SIGALRM met its default action
  started,         \* timers started so far; the last one's identity
  clockSteps       \* times the clock was set back so far

vars == <<blocks, handler, itimer, tripped, exc, killed, started, clockSteps>>

SIG_DFL == 0
Off == -1

Idle == blocks = <<>>
Top == Last(blocks)
At(pc) == blocks # <<>> /\ Top.pc = pc
WithTop(block) == Front(blocks) \o <<block>>
Goto(pc) == [Top EXCEPT !.pc = pc]

\* Python executes its next instruction: no handler is waiting to run.
Running == ~killed /\ ~tripped

Init ==
  /\ blocks = <<>>
  /\ handler = SIG_DFL
  /\ itimer = Off
  /\ tripped = FALSE
  /\ exc = FALSE
  /\ killed = FALSE
  /\ started = 0
  /\ clockSteps = 0

-----------------------------------------------------------------------------
(* The kernel and the interpreter                                          *)

\* The timer whose alarm is armed: a block that is still starting has not
\* replaced the alarm of the enclosing one.
Owner ==
  IF blocks # <<>> /\ Top.pc \in {"set_handler", "set_timer"}
  THEN Len(blocks) - 1 ELSE Len(blocks)

UpTo(limit, n) == IF n < limit THEN n ELSE limit

\* A tick of the clock.  run is the time a block's own alarm was armed and age
\* the time since it was first armed, both counted as far as they matter.
Tick ==
  /\ Running
  /\ itimer # 0
  /\ ~Idle \/ itimer # Off
  /\ itimer' = IF itimer = Off THEN Off ELSE itimer - 1
  /\ blocks' = [k \in DOMAIN blocks |->
       [blocks[k] EXCEPT
          !.age = IF k <= Owner THEN UpTo(blocks[k].timeout + 1, @ + 1) ELSE @,
          !.run = IF k = Owner THEN UpTo(blocks[k].timeout, @ + 1) ELSE @]]
  /\ UNCHANGED <<handler, tripped, exc, killed, started, clockSteps>>

\* The alarm comes between two calls.
Fire ==
  /\ ~killed
  /\ itimer = 0
  /\ itimer' = Off
  /\ \/ handler = SIG_DFL /\ killed' = TRUE /\ UNCHANGED tripped
     \/ handler # SIG_DFL /\ tripped' = TRUE /\ UNCHANGED killed
  /\ UNCHANGED <<blocks, handler, exc, started, clockSteps>>

\* Whether the alarm comes during a call, before the call takes effect.
MayFire(fires) ==
  fires => itimer = 0 /\ handler # SIG_DFL

\* The last block is left; outside all blocks the exception is handled.
Pop(raising) ==
  /\ blocks' = Front(blocks)
  /\ exc' = (raising /\ Len(blocks) > 1)

\* The handler raises PlanoTimeout in the code that runs.  In a body it starts
\* the block's stop(); inside start() or stop() it cuts that method short, and
\* a start() cut short is followed by no stop().  A handler that has been
\* replaced by SIG_DFL in the meantime is not called.
Deliver ==
  /\ tripped
  /\ ~killed
  /\ tripped' = FALSE
  /\ \/ (handler = SIG_DFL \/ Idle) /\ UNCHANGED <<blocks, exc>>
     \/ /\ handler # SIG_DFL /\ At("body")
        /\ blocks' = WithTop(Goto("restore_handler"))
        /\ exc' = TRUE
     \/ /\ handler # SIG_DFL /\ ~Idle /\ ~At("body")
        /\ Pop(TRUE)
  /\ UNCHANGED <<handler, itimer, killed, started, clockSteps>>

-----------------------------------------------------------------------------
(* Timer.start                                                             *)

Start(timeout) ==
  /\ Running
  /\ ~exc
  /\ Idle \/ At("body")
  /\ started < MaxTimers
  /\ started' = started + 1
  /\ blocks' = Append(blocks, [id |-> started + 1, timeout |-> timeout,
                               pc |-> "set_handler", prevHandler |-> SIG_DFL,
                               prevTimeout |-> Off, run |-> 0, age |-> 0])
  /\ UNCHANGED <<handler, itimer, tripped, exc, killed, clockSteps>>

\* signal.signal(SIGALRM, self.raise_timeout)
SetHandler(fires) ==
  /\ Running
  /\ At("set_handler")
  /\ MayFire(fires)
  /\ tripped' = fires
  /\ itimer' = IF fires THEN Off ELSE itimer
  /\ handler' = Top.id
  /\ blocks' = WithTop([Goto("set_timer") EXCEPT !.prevHandler = handler])
  /\ UNCHANGED <<exc, killed, started, clockSteps>>

\* setitimer(ITIMER_REAL, self.timeout), and the assertion after it.  Mutant:
\* the timer is read and not set.
KeepTimer(block) == block.prevTimeout
ArmTimer(block) == block.timeout

SetTimer(fires) ==
  /\ Running
  /\ At("set_timer")
  /\ MayFire(fires)
  /\ tripped' = fires
  /\ itimer' = ArmTimer(Top)
  /\ blocks' = WithTop([Goto("entering") EXCEPT
                          !.prevTimeout = IF fires THEN Off ELSE itimer])
  /\ UNCHANGED <<handler, exc, killed, started, clockSteps>>

EnterBody ==
  /\ Running
  /\ At("entering")
  /\ blocks' = WithTop(Goto("body"))
  /\ UNCHANGED <<handler, itimer, tripped, exc, killed, started, clockSteps>>

-----------------------------------------------------------------------------
(* The body and Timer.stop                                                 *)

\* The body ends, or an exception from a block inside it passes through.
Leave ==
  /\ Running
  /\ At("body")
  /\ blocks' = WithTop(Goto("restore_handler"))
  /\ UNCHANGED <<handler, itimer, tripped, exc, killed, started, clockSteps>>

\* The body catches an exception that came out of a block inside it.
Catch ==
  /\ Running
  /\ exc
  /\ At("body")
  /\ exc' = FALSE
  /\ UNCHANGED <<blocks, handler, itimer, tripped, killed, started, clockSteps>>

\* "assert get_time() - self.prev_timer_suspend_time > 0" fails when the wall
\* clock was set back during the block: nothing is restored.
ClockWentBack ==
  /\ Running
  /\ At("restore_handler")
  /\ clockSteps < MaxClockSteps
  /\ clockSteps' = clockSteps + 1
  /\ Pop(TRUE)
  /\ UNCHANGED <<handler, itimer, tripped, killed, started>>

\* signal.signal(SIGALRM, self.prev_handler).  Mutant: the default action.
DefaultHandler(block) == SIG_DFL
PreviousHandler(block) == block.prevHandler

RestoreHandler(fires) ==
  /\ Running
  /\ At("restore_handler")
  /\ MayFire(fires)
  /\ tripped' = fires
  /\ itimer' = IF fires THEN Off ELSE itimer
  /\ handler' = PreviousHandler(Top)
  /\ blocks' = WithTop(Goto("restore_timer"))
  /\ UNCHANGED <<exc, killed, started, clockSteps>>

\* What setitimer(ITIMER_REAL, self.prev_timeout) arms: the ticks that the
\* enclosing block had left, the time spent in this one not subtracted.
\* Mutants: nothing is restored; that time is subtracted.
LeaveTimer(block) == itimer
SubtractAge(block) ==
  IF block.prevTimeout = Off THEN Off ELSE block.prevTimeout - block.age
PreviousTimeout(block) == block.prevTimeout

\* An alarm during the call raises in the enclosing block, whose handler is
\* already in place.
RestoreTimer(fires) ==
  /\ Running
  /\ At("restore_timer")
  /\ MayFire(fires)
  /\ itimer' = PreviousTimeout(Top)
  /\ Pop(exc \/ fires)
  /\ UNCHANGED <<handler, tripped, killed, started, clockSteps>>

-----------------------------------------------------------------------------
\* The process was killed, or the program starts no more timers.
Finished ==
  /\ killed \/ (Idle /\ itimer = Off /\ ~tripped /\ started = MaxTimers)
  /\ UNCHANGED vars

\* The calls of start() and stop().
Calls ==
  \/ \E fires \in BOOLEAN :
       \/ SetHandler(fires)
       \/ SetTimer(fires)
       \/ RestoreHandler(fires)
       \/ RestoreTimer(fires)
  \/ EnterBody

Next ==
  \/ Tick
  \/ Fire
  \/ Deliver
  \/ \E timeout \in Timeouts : Start(timeout)
  \/ Calls
  \/ Leave
  \/ Catch
  \/ ClockWentBack
  \/ Finished

Spec == Init /\ [][Next]_vars

\* Time passes, the kernel sends the alarm that is due, the interpreter runs
\* the handler and the calls return.  Bodies need not end.
Fairness ==
  /\ WF_vars(Tick)
  /\ WF_vars(Fire)
  /\ WF_vars(Deliver)
  /\ WF_vars(Calls)

FairSpec == Spec /\ Fairness

-----------------------------------------------------------------------------
(* Properties                                                              *)

\* The ticks that a block with some timeout, or extra ticks more, may count.
Ticks(extra) == {n \in Nat : \E m \in Timeouts : n <= m + extra}

PCs == {"set_handler", "set_timer", "entering", "body", "restore_handler",
        "restore_timer"}

Blocks == [id : 1..MaxTimers, timeout : Timeouts, pc : PCs,
           prevHandler : 0..MaxTimers, prevTimeout : Ticks(0) \cup {Off},
           run : Ticks(0), age : Ticks(1)]

\* The types of the variables; setitimer is never given a negative time.
TypeOK ==
  /\ blocks \in Seq(Blocks)
  /\ handler \in 0..MaxTimers
  /\ itimer \in Ticks(0) \cup {Off}
  /\ tripped \in BOOLEAN
  /\ exc \in BOOLEAN
  /\ killed \in BOOLEAN
  /\ started \in 0..MaxTimers
  /\ clockSteps \in 0..MaxClockSteps

\* No alarm is armed that would meet the default action and kill the process, at
\* any point of any number of nested start() and stop(), cut short by alarms or
\* not, with one exception: the stop() of the outermost block, between putting
\* back SIG_DFL and disarming the timer (main.py:1509-1510).  And when the last
\* block has been left, in whatever way, none is armed at all, unless the clock
\* was set back and the assertion of main.py:1507 left it armed.
AlarmHasBlock ==
  itimer # Off =>
    /\ handler = SIG_DFL => Len(blocks) = 1 /\ At("restore_timer")
    /\ Idle => clockSteps > 0

\* A block that has its own handler in place runs with exactly the time it has
\* left, however many blocks were nested in it and however they ended, or with
\* no alarm at all; it never gets the alarm of another block.
ResumedWithRest ==
  At("body") /\ handler = Top.id => itimer \in {Off, Top.timeout - Top.run}

Raises ==
  \/ Deliver /\ handler # SIG_DFL
  \/ RestoreTimer(TRUE)

\* PlanoTimeout is raised only when a block that is running, not necessarily
\* the one whose handler raises it, has used up its time.
TimeoutHasCause ==
  [][Raises /\ clockSteps = 0 =>
       \E k \in DOMAIN blocks : blocks[k].run >= blocks[k].timeout]_vars

\* A block in which no other timer is started ends: its timeout reaches it
\* wherever it is, in the body or in start() and stop().
LeafBlockEnds ==
  \A id \in 1..MaxTimers :
    (At("set_timer") /\ Top.id = id) ~> (Idle \/ Top.id # id \/ killed)

\* "Fail any test running longer than SECONDS" (test.py:52-53): no body, of
\* which a test run by _run_test is one, goes on past its timeout without its
\* alarm having come.
NoBodyOverruns ==
  At("body") /\ ~exc =>
    \A k \in DOMAIN blocks :
      blocks[k].age > blocks[k].timeout => blocks[k].run = blocks[k].timeout

=============================================================================
