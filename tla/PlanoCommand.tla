----------------------------- MODULE PlanoCommand -----------------------------
(***************************************************************************)
(* plano's command framework (command.py): BaseCommand.main, PlanoCommand  *)
(* with its command sequences "this,that", and Command.__call__ and        *)
(* parent(), through which command functions call each other, are          *)
(* overridden by other modules, raise and catch.                           *)
(*                                                                         *)
(* A command function is any code: it calls commands and parent(),         *)
(* returns, raises, exits, and catches what commands it called have        *)
(* raised.  Argument values are left out.                                  *)
(***************************************************************************)
EXTENDS Integers, SequencesExt

CONSTANTS
  Commands,        \* the Command objects of all modules
  Name,            \* the name of each
  Parent,          \* the command that each was declared to override, or None
  Bound,           \* bound_commands of the module loaded, by name
  Passthrough,     \* the commands declared with passthrough=True
  Options,         \* the command lines considered, see OptionType
  MaxCalls,        \* bound: calls made by command functions
  MaxInterrupts,   \* bound: SIGINTs received
  None

Names == DOMAIN Bound

\* sequence: the names of "this,that"; extra: there are arguments that the
\* parser of the last one does not know.
OptionType == [sequence : Seq(STRING), help : BOOLEAN, init_only : BOOLEAN,
               extra : BOOLEAN]

ASSUME CommandAssumption ==
  /\ Bound \in [Names -> Commands]
  /\ \A n \in Names : Name[Bound[n]] = n
  /\ Name \in [Commands -> Names]
  /\ Parent \in [Commands -> Commands \cup {None}]
  /\ None \notin Commands
  /\ Options \subseteq OptionType
  /\ {MaxCalls, MaxInterrupts} \subseteq Nat

VARIABLES
  options,           \* the parsed command line
  phase,             \* the part of BaseCommand.main being executed
  position,          \* the place in the sequence of the next command
  frames,            \* the command functions being executed, outermost first
  running_commands,  \* the PlanoCommand's list of that name
  exc,               \* the exception that is unwinding the frames
  status,            \* the exit status
  calls,             \* calls made by command functions so far
  interrupts,        \* SIGINTs received
  started, returned, \* history: the commands of the sequence begun, and ended
  abandoned          \* history: command calls left by an exception

history == <<started, returned, abandoned>>
vars == <<options, phase, position, frames, running_commands, exc, status,
          calls, interrupts, history>>

Init ==
  /\ options \in Options
  /\ phase = "parse"
  /\ position = 1
  /\ frames = <<>>
  /\ running_commands = <<>>
  /\ exc = "none"
  /\ status = 0
  /\ calls = 0
  /\ interrupts = 0
  /\ started = <<>>
  /\ returned = 0
  /\ abandoned = 0

Exit(n) == phase' = "exited" /\ status' = n

Sequence == options.sequence
Steady == frames = <<>> /\ exc = "none"

-----------------------------------------------------------------------------
(* Command.__call__                                                        *)

\* The frames pushed by calling c: the command bound to c's name, which may be
\* another one, is executed and listed as running.  Mutant: the call that is
\* passed on is listed, too.
ListBoth(c) ==
  IF Bound[Name[c]] = c THEN <<c>> ELSE <<c, Bound[Name[c]]>>
Listed(c) == <<Bound[Name[c]]>>

Call(c) ==
  /\ frames' = Append(frames, [command |-> Bound[Name[c]], parent |-> FALSE])
  /\ running_commands' = running_commands \o Listed(c)

InFunction == phase # "exited" /\ frames # <<>> /\ exc = "none"

MayCall ==
  /\ InFunction
  /\ calls < MaxCalls
  /\ calls' = calls + 1

\* A function calls a command, of its own module or of one it overrides.
CallCommand(c) ==
  /\ MayCall
  /\ Call(c)
  /\ UNCHANGED <<options, phase, position, exc, status, interrupts, history>>

\* A function calls parent().  The lookup finds the function called by
\* Command.__call__, so it fails for a command without a parent and inside the
\* function of a parent.  Its bare except turns a SIGINT into a PlanoError.
CallParent ==
  LET frame == Last(frames)
      parent == IF frame.parent THEN None ELSE Parent[frame.command]
  IN /\ MayCall
     /\ \/ /\ parent # None
           /\ frames' = Append(frames, [command |-> parent, parent |-> TRUE])
           /\ UNCHANGED <<exc, interrupts>>
        \/ /\ parent = None
           /\ exc' = "error"
           /\ UNCHANGED <<frames, interrupts>>
        \/ /\ interrupts < MaxInterrupts
           /\ interrupts' = interrupts + 1
           /\ exc' = "error"
           /\ UNCHANGED frames
     /\ UNCHANGED <<options, phase, position, running_commands, status, history>>

\* The innermost function returns, and the last running command is popped.
Return ==
  /\ InFunction
  /\ frames' = Front(frames)
  /\ running_commands' = IF Last(frames).parent THEN running_commands
                         ELSE Front(running_commands)
  /\ IF Len(frames) = 1
     THEN returned' = returned + 1 /\ position' = position + 1
     ELSE UNCHANGED <<returned, position>>
  /\ IF Len(frames) = 1 /\ phase = "run"
     THEN Exit(0) ELSE UNCHANGED <<phase, status>>
  /\ UNCHANGED <<options, exc, calls, interrupts, started, abandoned>>

\* It raises PlanoError or another exception, or calls exit().
Raise(e) ==
  /\ InFunction
  /\ exc' = e
  /\ UNCHANGED <<options, phase, position, frames, running_commands, status,
                 calls, interrupts, history>>

\* The exception leaves a function; running_commands is not popped.
Unwind ==
  /\ phase # "exited"
  /\ exc # "none"
  /\ frames # <<>>
  /\ frames' = Front(frames)
  /\ abandoned' = IF Last(frames).parent THEN abandoned ELSE abandoned + 1
  /\ UNCHANGED <<options, phase, position, running_commands, exc, status,
                 calls, interrupts, started, returned>>

\* A function catches it.
Catch ==
  /\ exc \in {"error", "other"}
  /\ frames # <<>>
  /\ exc' = "none"
  /\ UNCHANGED <<options, phase, position, frames, running_commands, status,
                 calls, interrupts, history>>

-----------------------------------------------------------------------------
(* BaseCommand.main and PlanoCommand                                       *)

\* parse_args: a name that is not bound is an error before anything is run.
AllKnown(names) == \A k \in DOMAIN names : names[k] \in Names

ParseArgs ==
  /\ phase = "parse"
  /\ \/ AllKnown(Sequence) /\ phase' = "init" /\ UNCHANGED status
     \/ ~AllKnown(Sequence) /\ Exit(2)
  /\ UNCHANGED <<options, position, frames, running_commands, exc, calls,
                 interrupts, history>>

\* A name of the sequence is looked up and its command is called.
CallByName(name) ==
  \/ /\ name \in Names
     /\ Call(Bound[name])
     /\ started' = Append(started, name)
     /\ UNCHANGED exc
  \/ /\ name \notin Names
     /\ exc' = "other"
     /\ UNCHANGED <<frames, running_commands, started>>

\* init: the preceding commands are called first.
CallPreceding ==
  /\ phase = "init"
  /\ Steady
  /\ position < Len(Sequence)
  /\ CallByName(Sequence[position])
  /\ UNCHANGED <<options, phase, position, status, calls, interrupts, returned,
                 abandoned>>

\* Then init looks at the arguments of the last one, and main at --init-only.
Select ==
  /\ phase = "init"
  /\ Steady
  /\ position >= Len(Sequence)
  /\ \/ /\ Sequence # <<>> /\ options.extra
        /\ Bound[Last(Sequence)] \notin Passthrough
        /\ Exit(2)
     \/ /\ Sequence # <<>> /\ options.extra => Bound[Last(Sequence)] \in Passthrough
        /\ IF options.init_only THEN Exit(0) ELSE phase' = "run" /\ UNCHANGED status
  /\ UNCHANGED <<options, position, frames, running_commands, exc, calls,
                 interrupts, history>>

\* run: the help text, or the last command.
PrintHelp ==
  /\ phase = "run"
  /\ Steady
  /\ options.help \/ Sequence = <<>>
  /\ Exit(0)
  /\ UNCHANGED <<options, position, frames, running_commands, exc, calls,
                 interrupts, history>>

CallSelected ==
  /\ phase = "run"
  /\ Steady
  /\ ~options.help /\ Sequence # <<>>
  /\ CallByName(Last(Sequence))
  /\ UNCHANGED <<options, phase, position, status, calls, interrupts, returned,
                 abandoned>>

\* The status that main gives an exception: PlanoError becomes exit(), any
\* other a traceback, KeyboardInterrupt is swallowed, SystemExit passes.
\* Mutants: PlanoError is only reported; it becomes exit(-1).
ReportError(e) == IF e \in {"interrupt", "exit0", "error"} THEN 0 ELSE 1
MinusOne(e) == IF e \in {"interrupt", "exit0"} THEN 0 ELSE 255
StatusAfter(e) == IF e \in {"interrupt", "exit0"} THEN 0 ELSE 1

Handle ==
  /\ phase \in {"init", "run"}
  /\ exc # "none"
  /\ frames = <<>>
  /\ Exit(StatusAfter(exc))
  /\ UNCHANGED <<options, position, frames, running_commands, exc, calls,
                 interrupts, history>>

\* SIGINT raises KeyboardInterrupt, which parse_args does not catch.
Sigint ==
  /\ phase # "exited"
  /\ interrupts < MaxInterrupts
  /\ interrupts' = interrupts + 1
  /\ IF phase = "parse" THEN Exit(130) /\ UNCHANGED exc
     ELSE exc' = "interrupt" /\ UNCHANGED <<phase, status>>
  /\ UNCHANGED <<options, position, frames, running_commands, calls, history>>

Exited ==
  /\ phase = "exited"
  /\ UNCHANGED vars

-----------------------------------------------------------------------------
Next ==
  \/ \E c \in Commands : CallCommand(c)
  \/ CallParent
  \/ Return
  \/ \E e \in {"error", "other", "exit0", "exit1"} : Raise(e)
  \/ Unwind
  \/ Catch
  \/ ParseArgs
  \/ CallPreceding
  \/ Select
  \/ PrintHelp
  \/ CallSelected
  \/ Handle
  \/ Sigint
  \/ Exited

Spec == Init /\ [][Next]_vars

-----------------------------------------------------------------------------
(* Properties                                                              *)

Exceptions == {"none", "error", "other", "exit0", "exit1", "interrupt"}

TypeOK ==
  /\ options \in Options
  /\ phase \in {"parse", "init", "run", "exited"}
  /\ position \in 1..Len(Sequence) + 1
  /\ frames \in Seq([command : Commands, parent : BOOLEAN])
  /\ running_commands \in Seq(Commands)
  /\ exc \in Exceptions
  /\ status \in {0, 1, 2, 130}
  /\ calls \in 0..MaxCalls
  /\ interrupts \in 0..MaxInterrupts
  /\ started \in Seq(Names)
  /\ returned \in 0..Len(Sequence)
  /\ abandoned \in Nat

\* The commands called by __call__ whose functions are being executed.
CalledIn(stack) ==
  LET called[n \in 0..Len(stack)] ==
        IF n = 0 THEN <<>>
        ELSE IF stack[n].parent THEN called[n - 1]
        ELSE Append(called[n - 1], stack[n].command)
  IN called
Called == CalledIn(frames)[Len(frames)]

\* What the arrows on the console show: running_commands has one entry for
\* every command being executed and one for every command that was ever left
\* by an exception, never fewer, so that pop() always finds an entry; and as
\* long as no exception has left a command it lists exactly the commands being
\* executed, however they override and call each other (command.py:402-442).
NestingShown ==
  /\ Len(running_commands) = Len(Called) + abandoned
  /\ abandoned = 0 =>
       \A k \in DOMAIN running_commands : running_commands[k] = Called[k]

\* An exit status of 0 means that the commands of the sequence, and no others,
\* have been called in its order and have all returned, unless --help or
\* --init-only was given, the user interrupted, or a function itself called
\* exit(): no failure, in whichever command and however deep, is lost on its way
\* to main (command.py:56-69, 160-200).
GreenMeansAll ==
  /\ phase = "exited" /\ status = 0
  /\ ~options.help /\ ~options.init_only
  /\ exc \notin {"interrupt", "exit0"}
  => started = Sequence /\ returned = Len(Sequence)

\* "Show this help message and exit" (command.py:111): with --help no command
\* is run.
HelpRunsNothing == options.help => started = <<>>

=============================================================================
