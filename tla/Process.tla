------------------------------- MODULE Process -------------------------------
(***************************************************************************)
(* plano's process operations (main.py): start, stop, kill, wait, run and  *)
(* call, blocks "with start(...)", stash files, and the SIGTERM handler    *)
(* that terminates the children.                                           *)
(*                                                                         *)
(* The script is any code that calls them.  SIGTERM, and the alarm of an   *)
(* enclosing Timer, can strike between any two steps: CPython runs their   *)
(* handlers in the main thread, the one also inside the other.             *)
(***************************************************************************)
EXTENDS Integers, Sequences, Functions, FiniteSets

CONSTANTS
  Procs,       \* the commands the script starts, each once
  Stashed,     \* those it starts with stash=True
  MaxCalls,    \* bound: operations the script calls
  MaxTerms,    \* bound: SIGTERMs received
  MaxAlarms,   \* bound: alarms of enclosing timers
  None

ASSUME ProcessAssumption ==
  /\ IsFiniteSet(Procs)
  /\ Stashed \subseteq Procs
  /\ None \notin Procs \cup Int
  /\ {MaxCalls, MaxTerms, MaxAlarms} \subseteq Nat

SIGTERM == 15
ExitCodes == {0, 1, -SIGTERM}   \* normal, failure, death by a signal

VARIABLES
  child,       \* what the kernel knows of each command's process
  status,      \* the status it ended with
  children,    \* _child_processes
  returncode,  \* Popen.returncode
  files,       \* the stash files on disk, by command
  pc,          \* the point reached in the operation under way
  held,        \* the process objects that start() has returned
  blocks,      \* the with-blocks entered, outermost first
  exc,         \* the exception that is unwinding the script
  sweep,       \* activations of _default_sigterm_handler: children visited
  phase,
  calls, terms, alarms,
  \* history
  termed,      \* processes that were sent SIGTERM while alive
  shown,       \* stash files whose text was printed
  settled,     \* commands whose wait() got to its end
  succeeded,   \* commands that a checking run() or wait() returned
  left,        \* with-blocks left
  cut,         \* processes whose start, entry or exit an exception cut short
  lost         \* processes whose status an exception lost

kernel == <<child, status>>
popen == <<children, returncode>>
stash == <<files, shown>>
bounds == <<calls, terms, alarms>>
control == <<pc, held, blocks, exc, sweep, phase, bounds>>
history == <<settled, succeeded, left, cut, lost>>
vars == <<kernel, popen, stash, control, termed, history>>

Idle == [at |-> "script", op |-> "none", proc |-> None]

Init ==
  /\ child = [p \in Procs |-> "unused"]
  /\ status = [p \in Procs |-> 0]
  /\ children = <<>>
  /\ returncode = [p \in Procs |-> None]
  /\ files = {}
  /\ pc = Idle
  /\ held = {} /\ blocks = <<>>
  /\ exc = "none"
  /\ sweep = <<>>
  /\ phase = "script"
  /\ calls = 0 /\ terms = 0 /\ alarms = 0
  /\ termed = {} /\ shown = {} /\ settled = {} /\ succeeded = {} /\ left = {}
  /\ cut = {} /\ lost = {}

Running == phase = "script" /\ sweep = <<>>
InScript == Running /\ pc = Idle /\ exc = "none"
Calling == InScript /\ calls < MaxCalls /\ calls' = calls + 1
At(point) == Running /\ pc.at = point

Goto(point) == pc' = [pc EXCEPT !.at = point]
BackToScript == pc' = Idle
Throw(e) == pc' = Idle /\ exc' = e

\* Popen.poll: a zombie is reaped.
Poll(p) ==
  IF child[p] = "zombie"
  THEN /\ child' = [child EXCEPT ![p] = "reaped"]
       /\ returncode' = [returncode EXCEPT ![p] = status[p]]
  ELSE UNCHANGED <<child, returncode>>

\* Popen.terminate polls, too, and signals a process that is still there.
Terminate(p) ==
  /\ Poll(p)
  /\ termed' = IF child[p] = "running" THEN termed \cup {p} ELSE termed

-----------------------------------------------------------------------------
(* start                                                                   *)

\* start(p) for itself, in run() or call(), or in a with statement; with
\* stash=True the output goes to a temporary file.
Start(p, op) ==
  /\ Calling
  /\ child[p] = "unused"
  /\ child' = [child EXCEPT ![p] = "opened"]
  /\ files' = IF p \in Stashed THEN files \cup {p} ELSE files
  /\ pc' = [at |-> "fork", op |-> op, proc |-> p]
  /\ UNCHANGED <<status, popen, shown, held, blocks, exc, sweep, phase, terms,
                 alarms, termed, history>>

\* Popen.__init__ forks, or there is no such program.
Fork ==
  /\ At("fork")
  /\ \/ /\ child' = [child EXCEPT ![pc.proc] = "running"]
        /\ Goto("register")
        /\ UNCHANGED exc
     \/ Throw("error") /\ UNCHANGED child
  /\ UNCHANGED <<status, popen, stash, held, blocks, sweep, phase, bounds,
                 termed, history>>

\* PlanoProcess.__init__ lists the child, and start() returns it.  Mutant:
\* start() lists it again.
ListTwice(p) == children \o <<p, p>>
Listed(p) == Append(children, p)

Register ==
  /\ At("register")
  /\ children' = Listed(pc.proc)
  /\ CASE pc.op = "start" -> BackToScript /\ held' = held \cup {pc.proc}
       [] pc.op = "run" -> Goto("communicate") /\ UNCHANGED held
       [] pc.op = "with" -> Goto("enter") /\ UNCHANGED held
  /\ UNCHANGED <<kernel, returncode, stash, blocks, exc, sweep, phase, bounds,
                 termed, history>>

EnterBlock ==
  /\ At("enter")
  /\ blocks' = Append(blocks, pc.proc)
  /\ held' = held \cup {pc.proc}
  /\ BackToScript
  /\ UNCHANGED <<kernel, popen, stash, exc, sweep, phase, bounds, termed,
                 history>>

-----------------------------------------------------------------------------
(* kill, stop, wait, run                                                   *)

Kill(p) ==
  /\ Calling
  /\ p \in held
  /\ pc' = [at |-> "kill", op |-> "kill", proc |-> p]
  /\ UNCHANGED <<kernel, popen, stash, held, blocks, exc, sweep, phase, terms,
                 alarms, termed, history>>

\* terminate() inside kill(), for kill, stop and PlanoProcess.__exit__.  An
\* exception under way goes on after __exit__.
Signal ==
  /\ At("kill")
  /\ Terminate(pc.proc)
  /\ IF pc.op = "stop" THEN Goto("wait") ELSE BackToScript
  /\ UNCHANGED <<status, children, stash, held, blocks, exc, sweep, phase,
                 bounds, history>>

\* stop() returns at once when poll() finds that the process has ended.
Ended(p) == child[p] \in {"zombie", "reaped"}

Stop(p) ==
  /\ Calling
  /\ p \in held
  /\ Poll(p)
  /\ IF Ended(p) THEN UNCHANGED pc
     ELSE pc' = [at |-> "kill", op |-> "stop", proc |-> p]
  /\ UNCHANGED <<status, children, stash, held, blocks, exc, sweep, phase,
                 terms, alarms, termed, history>>

\* wait(p, timeout=t, check=c).
Wait(p) ==
  /\ Calling
  /\ p \in held
  /\ pc' = [at |-> "wait", op |-> "wait", proc |-> p]
  /\ UNCHANGED <<kernel, popen, stash, held, blocks, exc, sweep, phase, terms,
                 alarms, termed, history>>

\* Popen.communicate, and Popen.wait, return when the child has ended.  The
\* status of one that was reaped behind their back is taken to be 0.
Reap ==
  /\ Running /\ pc.at \in {"communicate", "wait"}
  /\ Ended(pc.proc)
  /\ child' = [child EXCEPT ![pc.proc] = "reaped"]
  /\ returncode' = [returncode EXCEPT ![pc.proc] =
       IF returncode[pc.proc] # None THEN returncode[pc.proc]
       ELSE IF child[pc.proc] = "zombie" THEN status[pc.proc] ELSE 0]
  /\ Goto("settle")
  /\ UNCHANGED <<status, children, stash, held, blocks, exc, sweep, phase,
                 bounds, termed, history>>

\* wait(timeout=t), also as the end of stop(timeout=t), raises PlanoTimeout.
TimeOut ==
  /\ At("wait")
  /\ pc.op \in {"stop", "wait"}
  /\ child[pc.proc] = "running"
  /\ Throw("timeout")
  /\ UNCHANGED <<kernel, popen, stash, held, blocks, sweep, phase, bounds,
                 termed, history>>

\* The end of wait(): the output of a failed command is shown, the stash file
\* removed, and the exit code is checked with check=True, the default of run().
\* A second wait() for a failed command finds its stash file gone.  Mutants: the
\* file is kept after a failure; the check is for a negative code.
RemoveIfOk(p) == IF returncode[p] = 0 THEN {p} ELSE {}
Removed(p) == {p}
Killed(p) == returncode[p] < 0
Failed(p) == returncode[p] > 0

Settle ==
  LET p == pc.proc
      show == p \in Stashed /\ returncode[p] > 0
  IN \E check \in IF pc.op = "stop" THEN {FALSE} ELSE BOOLEAN :
     /\ At("settle")
     /\ IF show /\ p \notin files
        THEN /\ Throw("error")
             /\ UNCHANGED <<shown, files, held, settled, succeeded>>
        ELSE /\ shown' = IF show THEN shown \cup {p} ELSE shown
             /\ files' = files \ Removed(p)
             /\ settled' = settled \cup {p}
             /\ IF check /\ Failed(p)
                THEN Throw("error") /\ UNCHANGED <<held, succeeded>>
                ELSE /\ BackToScript
                     /\ held' = held \cup {p}
                     /\ succeeded' = IF check THEN succeeded \cup {p} ELSE succeeded
                     /\ UNCHANGED exc
     /\ UNCHANGED <<kernel, popen, blocks, sweep, phase, bounds, termed, left,
                    cut, lost>>

-----------------------------------------------------------------------------
(* The script                                                              *)

\* It raises an exception, or calls exit().
Raise(e) ==
  /\ InScript
  /\ exc' = e
  /\ UNCHANGED <<kernel, popen, stash, pc, held, blocks, sweep, phase, bounds,
                 termed, history>>

\* It catches one; SystemExit is left alone.
Catch ==
  /\ Running /\ pc = Idle
  /\ exc \in {"error", "timeout"}
  /\ exc' = "none"
  /\ UNCHANGED <<kernel, popen, stash, pc, held, blocks, sweep, phase, bounds,
                 termed, history>>

\* A with-block is left, normally or by an exception, and __exit__ calls kill().
\* Mutant: __exit__ does so only when no exception is passed to it.
KillIfNone(p) ==
  IF exc = "none" THEN [at |-> "kill", op |-> "exit", proc |-> p] ELSE Idle
ExitCall(p) == [at |-> "kill", op |-> "exit", proc |-> p]

LeaveBlock ==
  /\ Running /\ pc = Idle
  /\ blocks # <<>>
  /\ pc' = ExitCall(blocks[Len(blocks)])
  /\ blocks' = SubSeq(blocks, 1, Len(blocks) - 1)
  /\ left' = left \cup {blocks[Len(blocks)]}
  /\ UNCHANGED <<kernel, popen, stash, held, exc, sweep, phase, bounds, termed,
                 settled, succeeded, cut, lost>>

\* The script ends, or the exception leaves it: the interpreter exits.
Finish ==
  /\ Running /\ pc = Idle
  /\ blocks = <<>>
  /\ phase' = "exited"
  /\ UNCHANGED <<kernel, popen, stash, pc, held, blocks, exc, sweep, bounds,
                 termed, history>>

-----------------------------------------------------------------------------
(* Signals                                                                 *)

\* What an exception raised by a signal handler cuts short.
Abandon ==
  /\ pc' = Idle
  /\ cut' = IF pc.at \in {"register", "enter", "kill"} THEN cut \cup {pc.proc}
            ELSE cut

\* SIGTERM, also while the handler for an earlier one is running.
Sigterm ==
  /\ phase = "script"
  /\ terms < MaxTerms
  /\ terms' = terms + 1
  /\ sweep' = Append(sweep, 0)
  /\ UNCHANGED <<kernel, popen, stash, pc, held, blocks, exc, phase, calls,
                 alarms, termed, history>>

\* _default_sigterm_handler polls and terminates the next child.  It cannot
\* poll one that the code below it is waiting for: Popen holds a lock.
\* Mutant: only the children that start() has returned are terminated.
SweepKill(p) == child[p] = "running" /\ p \in held
SweepHits(p) == child[p] = "running"

SweepNext ==
  LET top == Len(sweep)
      p == children[sweep[top] + 1]
      locked == pc.proc = p /\ pc.at \in {"communicate", "wait"}
  IN /\ phase = "script" /\ sweep # <<>>
     /\ sweep[top] < Len(children)
     /\ sweep' = [sweep EXCEPT ![top] = @ + 1]
     /\ \/ Poll(p)
        \/ locked /\ UNCHANGED <<child, returncode>>
     /\ termed' = IF SweepHits(p) THEN termed \cup {p} ELSE termed
     /\ UNCHANGED <<status, children, stash, pc, held, blocks, exc, phase,
                    bounds, history>>

\* Then it calls exit(), whose SystemExit leaves the handlers below it, too.
\* Mutant: it calls fail().
Fail == "error"
SystemExit == "sigterm"

SweepEnd ==
  /\ phase = "script" /\ sweep # <<>>
  /\ sweep[Len(sweep)] = Len(children)
  /\ sweep' = <<>>
  /\ exc' = SystemExit
  /\ Abandon
  /\ UNCHANGED <<kernel, popen, stash, held, blocks, phase, bounds, termed,
                 settled, succeeded, left, lost>>

\* The alarm raises PlanoTimeout, in the script, in an operation or inside the
\* SIGTERM handler; and after waitpid() but before its status is stored.
Alarm ==
  LET p == pc.proc IN
  /\ phase = "script"
  /\ alarms < MaxAlarms
  /\ alarms' = alarms + 1
  /\ sweep' = <<>>
  /\ exc' = "timeout"
  /\ Abandon
  /\ \/ UNCHANGED <<child, lost>>
     \/ /\ pc.at \in {"communicate", "wait"} /\ child[p] = "zombie"
        /\ child' = [child EXCEPT ![p] = "reaped"]
        /\ lost' = lost \cup {p}
  /\ UNCHANGED <<status, popen, stash, held, blocks, phase, calls, terms,
                 termed, settled, succeeded, left>>

\* A child ends by itself or by a signal; it may ignore SIGTERM.  After the
\* parent's end nothing depends on it.
ChildEnds(p, code) ==
  /\ phase = "script"
  /\ child[p] = "running"
  /\ child' = [child EXCEPT ![p] = "zombie"]
  /\ status' = [status EXCEPT ![p] = code]
  /\ UNCHANGED <<popen, stash, control, termed, history>>

Exited ==
  /\ phase = "exited"
  /\ UNCHANGED vars

-----------------------------------------------------------------------------
Step ==
  \/ Fork \/ Register \/ EnterBlock \/ Signal \/ Reap \/ Settle
  \/ LeaveBlock \/ Finish
  \/ SweepNext \/ SweepEnd

Next ==
  \/ \E p \in Procs :
       \/ \E op \in {"start", "run", "with"} : Start(p, op)
       \/ Wait(p)
       \/ Kill(p)
       \/ Stop(p)
       \/ \E code \in ExitCodes : ChildEnds(p, code)
  \/ Step
  \/ TimeOut
  \/ \E e \in {"error", "exit"} : Raise(e)
  \/ Catch
  \/ Sigterm
  \/ Alarm
  \/ Exited

\* The interpreter goes on with what it is executing.  Nothing is assumed of
\* the script between its calls, of the children or of signals.
Spec == Init /\ [][Next]_vars /\ WF_vars(SweepNext \/ SweepEnd)
        /\ WF_vars(exc \in {"exit", "sigterm"} /\ Step)

-----------------------------------------------------------------------------
(* Properties                                                              *)

Points == {"script", "fork", "register", "enter", "communicate", "wait",
           "settle", "kill"}

TypeOK ==
  /\ child \in [Procs -> {"unused", "opened", "running", "zombie", "reaped"}]
  /\ status \in [Procs -> ExitCodes]
  /\ children \in Seq(Procs) /\ IsInjective(children)
  /\ returncode \in [Procs -> ExitCodes \cup {None}]
  /\ files \subseteq Stashed
  /\ pc.at \in Points /\ pc.proc \in Procs \cup {None}
  /\ held \subseteq Procs
  /\ blocks \in Seq(held)
  /\ exc \in {"none", "error", "exit", "timeout", "sigterm"}
  /\ sweep \in Seq(0..Len(children))
  /\ phase \in {"script", "exited"}
  /\ calls \in 0..MaxCalls /\ terms \in 0..MaxTerms /\ alarms \in 0..MaxAlarms
  /\ UNION {termed, shown, settled, succeeded, left, cut, lost} \subseteq Procs

\* When SIGTERM has ended the script, every child still running was sent
\* SIGTERM by the handler, however it interleaved with start, wait and other
\* handlers.  The one exception is a child forked and not yet listed when the
\* exception of a handler struck (main.py:1297-1303, 1322-1327).
SweepSparesNone ==
  phase = "exited" /\ exc = "sigterm" =>
    \A p \in Procs : child[p] = "running" =>
      p \in termed \/ p \in cut \ Range(children)

\* A child whose with-block has been left, by whatever exception, has ended or
\* was sent SIGTERM, unless the exception of a signal handler struck inside
\* __exit__ itself (main.py:1312-1313).
BlocksKill ==
  \A p \in left : child[p] = "running" =>
    p \in termed \cup cut \/ (pc.at = "kill" /\ pc.proc = p)

\* run(), call() and wait(check=True) return only for a command that did not
\* fail with an exit code, whatever stop, kill, poll or an earlier wait did to
\* it in between.  A death by a signal passes, and so does a failure whose
\* status an alarm lost between waitpid() and Popen.returncode
\* (main.py:1202-1251).
CheckedIsTrue ==
  \A p \in succeeded : Ended(p) /\ (status[p] > 0 => p \in lost)

\* "No output unless there is an error" (main.py:1117): only the output of a
\* failed command is shown; and once a wait has got to its end, the stash file
\* is gone and the output of a failure has been shown.
StashSettled ==
  /\ \A p \in shown : status[p] > 0
  /\ \A p \in settled :
       p \notin files /\ (p \in Stashed /\ status[p] > 0 => p \in shown \cup lost)

\* A SIGTERM ends the process: the sweep reaches its end and its SystemExit
\* leaves the script, unless an alarm is still to come, which can replace it by
\* a PlanoTimeout that the script catches (main.py:1322-1329, 1528-1529).
SigtermEnds == sweep # <<>> /\ alarms = MaxAlarms ~> phase = "exited"

=============================================================================
